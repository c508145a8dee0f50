---------------------------- MODULE BackupCatalog ----------------------------
(***************************************************************************)
(* The catalog of database snapshots                                       *)
(* (core/infrastructure/persistence/backup_catalog.py, backup.py) and the  *)
(* maintenance jobs that feed and prune it (maintenance/jobs.py:           *)
(* db_backup, db_vacuum, db_integrity_check, _retention_prune).            *)
(*                                                                         *)
(* One maintenance job runs at a time; request threads create manual       *)
(* snapshots and stage restore candidates.  Creating and staging hold the  *)
(* catalog's operation lock; pruning does not.  Every file operation is a  *)
(* step: the process can die between any two, and a snapshot on disk can   *)
(* decay.                                                                  *)
(*                                                                         *)
(* Snapshots are numbered in the order of their stamps, which are taken    *)
(* under the lock.  The contents of a database are abstracted to which of  *)
(* the three checks (quick_check, integrity_check, foreign_key_check) they *)
(* would pass; a snapshot that no longer matches its manifest's digest is  *)
(* "rotten".                                                               *)
(***************************************************************************)
EXTENDS Integers, FiniteSets

CONSTANTS
    Requests,      \* threads serving backup_create and restore_stage
    Keep,          \* _BACKUP_RETENTION
    MaxSnapshots,  \* bound: the disk holds no more snapshots than this
    MaxDay, MaxDamages, MaxFaults, MaxCrashes   \* bounds

Nobody == "nobody"
Job == "job"
None == 0

ASSUME CatalogAssumption ==
    /\ Nobody \notin Requests /\ Job \notin Requests
    /\ Keep \in Nat \ {0}
    /\ MaxSnapshots \in Nat
    /\ MaxDay \in Nat /\ MaxDamages \in Nat /\ MaxFaults \in Nat /\ MaxCrashes \in Nat

VARIABLES
    \* The disk.
    name,        \* under which name each snapshot's file stands
    body,        \* what each snapshot's file holds
    manifest,    \* the snapshots whose manifest is on disk
    kind,        \* the directory of each snapshot, auto/ or manual/
    day,         \* the UTC day of each snapshot's mtime
    last,        \* the latest snapshot
    staged,      \* the candidates in .restore-stage
    live,        \* the running store
    today,
    \* The process.
    lock,        \* the holder of _operation_lock
    thread,      \* the job and the request threads
    doomed,      \* what _retention_prune has still to delete
    half,        \* the snapshot it has unlinked, manifest still there
    degraded,    \* container.maintenance_degraded
    damages, faults, crashes,
    \* History.
    completed,   \* the snapshots whose creation was reported as done
    damageSeen   \* did this process's latest integrity check fail?

disk == <<name, body, manifest, kind, day, last>>
world == <<live, today>>
pruning == <<doomed, half>>
bounds == <<damages, faults, crashes>>
vars == <<disk, staged, world, lock, thread, pruning, degraded, bounds, completed,
          damageSeen>>

Snapshots == 1..MaxSnapshots
Threads == Requests \union {Job}
Names == {"none", "tmp", "db", "failed-quick-check", "failed-verify"}

\* What a database can be: sound; with dangling references only; corrupt in a
\* way only integrity_check sees; corrupt in a way quick_check sees.
Conditions == {"sound", "dangling", "corrupt", "broken"}
Bodies == Conditions \union {"rotten"}
PassesQuickCheck(b) == b # "broken"
PassesIntegrityCheck(b) == b \in {"sound", "dangling"}
PassesInspect(b) == b = "sound"

Purposes == {"none", "backup", "vacuum", "integrity"}
Steps == {"idle", "wait", "copy", "quick", "inspect", "publish", "prune", "pruning",
          "vacuum", "verify", "stage", "compare"}
Idle == [pc |-> "idle", snap |-> None, temp |-> "none", purpose |-> "none"]
ThreadStates == [pc : Steps, snap : Snapshots \union {None}, temp : Bodies \union {"none"},
                 purpose : Purposes]

Init ==
    /\ name = [s \in Snapshots |-> "none"]
    /\ body = [s \in Snapshots |-> "sound"]
    /\ manifest = {}
    /\ kind = [s \in Snapshots |-> "none"]
    /\ day = [s \in Snapshots |-> 0]
    /\ last = 0
    /\ staged = {}
    /\ live = "sound"
    /\ today = 0
    /\ lock = Nobody
    /\ thread = [p \in Threads |-> Idle]
    /\ doomed = {}
    /\ half = None
    /\ degraded = FALSE
    /\ damages = 0 /\ faults = 0 /\ crashes = 0
    /\ completed = {}
    /\ damageSeen = FALSE

(***************************************************************************)
(* What a reader of the directory finds.                                   *)
(***************************************************************************)
\* A completed artifact: BackupCatalog.list offers it, _manifest accepts it.
Listed(s) == name[s] = "db" /\ s \in manifest

\* The published snapshots of auto/, the only ones retention looks at.
Candidates == {s \in Snapshots : kind[s] = "auto" /\ Listed(s)}

\* Bug: the sort is not reversed, the oldest are kept.
RetainedOldest(set) == {s \in set : Cardinality({t \in set : t < s}) < Keep}

\* The Keep newest, and the newest of each of the Keep most recent days.
Retained(set) ==
    {s \in set :
        \/ Cardinality({t \in set : t > s}) < Keep
        \/ /\ \A t \in set : day[t] = day[s] => t <= s
           /\ Cardinality({day[t] : t \in {u \in set : day[u] > day[s]}}) < Keep}

(***************************************************************************)
(* Ends of operations.                                                     *)
(***************************************************************************)
Fault == faults < MaxFaults /\ faults' = faults + 1

\* Bug: the error path of create() does not release the lock.
EndFailedHoldingLock(p) ==
    /\ thread' = [thread EXCEPT ![p] = Idle]
    /\ UNCHANGED lock
    /\ degraded' = (degraded \/ thread[p].purpose = "integrity")

\* An exception leaves create() or restore_stage(): the lock is released, and
\* db_integrity_check, which swallows it, still raises its flag.
EndFailed(p) ==
    /\ thread' = [thread EXCEPT ![p] = Idle]
    /\ lock' = Nobody
    /\ degraded' = (degraded \/ thread[p].purpose = "integrity")

(***************************************************************************)
(* The jobs, up to the catalog's lock.                                     *)
(***************************************************************************)
StartJob(purpose) ==
    /\ thread[Job].pc = "idle"
    /\ purpose \in {"backup", "vacuum"}
    /\ thread' = [thread EXCEPT ![Job] = [Idle EXCEPT !.pc = "wait", !.purpose = purpose]]
    /\ UNCHANGED <<disk, staged, world, lock, pruning, degraded, bounds, completed, damageSeen>>

\* db_integrity_check: a pass clears the flag, a failure snapshots first.
CheckIntegrity ==
    /\ thread[Job].pc = "idle"
    /\ damageSeen' = ~PassesIntegrityCheck(live)
    /\ IF PassesIntegrityCheck(live)
       THEN degraded' = FALSE /\ UNCHANGED thread
       ELSE /\ thread' = [thread EXCEPT ![Job] =
                             [Idle EXCEPT !.pc = "wait", !.purpose = "integrity"]]
            /\ UNCHANGED degraded
    /\ UNCHANGED <<disk, staged, world, lock, pruning, bounds, completed>>

\* create("auto") waits for the lock...
AutoAcquires ==
    /\ thread[Job].pc = "wait"
    /\ lock = Nobody
    /\ lock' = Job
    /\ thread' = [thread EXCEPT ![Job].pc = "copy"]
    /\ UNCHANGED <<disk, staged, world, pruning, degraded, bounds, completed, damageSeen>>

\* ... for _AUTO_LOCK_WAIT_SECONDS.
AutoTimesOut ==
    /\ thread[Job].pc = "wait"
    /\ lock # Nobody
    /\ thread' = [thread EXCEPT ![Job] = Idle]
    /\ degraded' = (degraded \/ thread[Job].purpose = "integrity")
    /\ UNCHANGED <<disk, staged, world, lock, pruning, bounds, completed, damageSeen>>

\* create("manual") never waits.
ManualAcquires(r) ==
    /\ thread[r].pc = "idle"
    /\ lock = Nobody
    /\ lock' = r
    /\ thread' = [thread EXCEPT ![r].pc = "copy"]
    /\ UNCHANGED <<disk, staged, world, pruning, degraded, bounds, completed, damageSeen>>

(***************************************************************************)
(* create(), holding the lock.                                             *)
(***************************************************************************)
\* The root is missing, the disk is full, or the copy failed half way and was
\* removed.
CreateRefused(p) ==
    /\ thread[p].pc = "copy"
    /\ \/ last = MaxSnapshots /\ UNCHANGED faults
       \/ Fault
    /\ EndFailed(p)
    /\ UNCHANGED <<disk, staged, world, pruning, damages, crashes, completed, damageSeen>>

\* The live store is copied to <dest>.tmp under the store lock.
Copy(p) ==
    /\ thread[p].pc = "copy"
    /\ last < MaxSnapshots
    /\ LET s == last + 1 IN
       /\ last' = s
       /\ name' = [name EXCEPT ![s] = "tmp"]
       /\ body' = [body EXCEPT ![s] = live]
       /\ kind' = [kind EXCEPT ![s] = IF p = Job THEN "auto" ELSE "manual"]
       /\ day' = [day EXCEPT ![s] = today]
       /\ thread' = [thread EXCEPT ![p].pc = "quick", ![p].snap = s]
    /\ UNCHANGED <<manifest, staged, world, lock, pruning, degraded, bounds, completed,
                   damageSeen>>

\* Bug: a copy that fails its validation is removed like any other error.
QuickCheckUnlinks(p) ==
    LET s == thread[p].snap IN
    /\ thread[p].pc = "quick"
    /\ IF PassesQuickCheck(body[s])
       THEN /\ name' = [name EXCEPT ![s] = "db"]
            /\ thread' = [thread EXCEPT ![p].pc = "inspect"]
            /\ UNCHANGED <<lock, degraded>>
       ELSE /\ name' = [name EXCEPT ![s] = "none"]
            /\ EndFailed(p)
    /\ UNCHANGED <<body, manifest, kind, day, last, staged, world, pruning, bounds, completed,
                   damageSeen>>

\* _validate_staged, then the rename; a failed copy goes to quarantine.
QuickCheck(p) ==
    LET s == thread[p].snap IN
    /\ thread[p].pc = "quick"
    /\ IF PassesQuickCheck(body[s])
       THEN /\ name' = [name EXCEPT ![s] = "db"]
            /\ thread' = [thread EXCEPT ![p].pc = "inspect"]
            /\ UNCHANGED <<lock, degraded>>
       ELSE /\ name' = [name EXCEPT ![s] = "failed-quick-check"]
            /\ EndFailed(p)
    /\ UNCHANGED <<body, manifest, kind, day, last, staged, world, pruning, bounds, completed,
                   damageSeen>>

\* The copy cannot be opened to validate it, or one of the two renames fails:
\* the handler for all errors unlinks the complete copy, if the unlink works.
StagingFails(p) ==
    /\ thread[p].pc = "quick"
    /\ Fault
    /\ \E left \in {"none", "tmp"} : name' = [name EXCEPT ![thread[p].snap] = left]
    /\ EndFailed(p)
    /\ UNCHANGED <<body, manifest, kind, day, last, staged, world, pruning, damages, crashes,
                   completed, damageSeen>>

\* Bug: only quick_check decides; the deeper inspection is skipped.
InspectNothing(p) ==
    /\ thread[p].pc = "inspect"
    /\ thread' = [thread EXCEPT ![p].pc = "publish"]
    /\ UNCHANGED <<disk, staged, world, lock, pruning, degraded, bounds, completed, damageSeen>>

\* _inspect; a failed copy goes to quarantine.
Inspect(p) ==
    LET s == thread[p].snap IN
    /\ thread[p].pc = "inspect"
    /\ IF PassesInspect(body[s])
       THEN /\ thread' = [thread EXCEPT ![p].pc = "publish"]
            /\ UNCHANGED <<name, lock, degraded>>
       ELSE /\ name' = [name EXCEPT ![s] = "failed-verify"]
            /\ EndFailed(p)
    /\ UNCHANGED <<body, manifest, kind, day, last, staged, world, pruning, bounds, completed,
                   damageSeen>>

\* A flush before the inspection, or the rename after it, fails: the file
\* stays, unpublished.
InspectFails(p) ==
    /\ thread[p].pc = "inspect"
    /\ Fault
    /\ EndFailed(p)
    /\ UNCHANGED <<disk, staged, world, pruning, damages, crashes, completed, damageSeen>>

\* The manifest is renamed into place: only now does the snapshot exist.
Publish(p) ==
    LET s == thread[p].snap IN
    /\ thread[p].pc = "publish"
    /\ manifest' = manifest \union {s}
    /\ completed' = completed \union {s}
    /\ lock' = Nobody
    /\ thread' = [thread EXCEPT ![p] = IF p = Job THEN [@ EXCEPT !.pc = "prune"] ELSE Idle]
    /\ UNCHANGED <<name, body, kind, day, last, staged, world, pruning, degraded, bounds,
                   damageSeen>>

\* Before its rename or after it: the snapshot goes, the manifest may stay.
PublishFails(p) ==
    LET s == thread[p].snap IN
    /\ thread[p].pc = "publish"
    /\ Fault
    /\ \/ manifest' = manifest \union {s}
       \/ UNCHANGED manifest
    /\ name' = [name EXCEPT ![s] = "none"]
    /\ EndFailed(p)
    /\ UNCHANGED <<body, kind, day, last, staged, world, pruning, damages, crashes, completed,
                   damageSeen>>

(***************************************************************************)
(* _retention_prune, without the lock, and what follows it.                *)
(***************************************************************************)
SelectDoomed ==
    /\ thread[Job].pc = "prune"
    /\ doomed' = Candidates \ Retained(Candidates)
    /\ thread' = [thread EXCEPT ![Job].pc = "pruning"]
    /\ UNCHANGED <<disk, staged, world, lock, half, degraded, bounds, completed, damageSeen>>

\* The newest goes first, its database before its manifest.
UnlinkSnapshot(s) ==
    /\ thread[Job].pc = "pruning"
    /\ half = None
    /\ s \in doomed /\ \A t \in doomed : t <= s
    /\ name' = [name EXCEPT ![s] = "none"]
    /\ doomed' = doomed \ {s}
    /\ half' = s
    /\ UNCHANGED <<body, manifest, kind, day, last, staged, world, lock, thread, degraded,
                   bounds, completed, damageSeen>>

UnlinkManifest ==
    /\ thread[Job].pc = "pruning"
    /\ half # None
    /\ manifest' = manifest \ {half}
    /\ half' = None
    /\ UNCHANGED <<name, body, kind, day, last, staged, world, lock, thread, doomed, degraded,
                   bounds, completed, damageSeen>>

\* Either unlink fails: logged, and on to the next snapshot.
UnlinkFails ==
    /\ thread[Job].pc = "pruning"
    /\ Fault
    /\ \/ /\ half # None
          /\ half' = None
          /\ UNCHANGED doomed
       \/ /\ half = None
          /\ \E s \in doomed : (\A t \in doomed : t <= s) /\ doomed' = doomed \ {s}
          /\ UNCHANGED half
    /\ UNCHANGED <<disk, staged, world, lock, thread, degraded, damages, crashes, completed,
                   damageSeen>>

Pruned == thread[Job].pc = "pruning" /\ doomed = {} /\ half = None

\* db_backup has returned to the job that called it.
EndJob ==
    /\ Pruned
    /\ thread' = [thread EXCEPT ![Job] =
                     IF thread[Job].purpose = "vacuum" THEN [@ EXCEPT !.pc = "vacuum"] ELSE Idle]
    /\ degraded' = (degraded \/ thread[Job].purpose = "integrity")
    /\ UNCHANGED <<disk, staged, world, lock, pruning, bounds, completed, damageSeen>>

\* The store rewrites its own file; its contents are what they were.
Vacuum ==
    /\ thread[Job].pc = "vacuum"
    /\ thread' = [thread EXCEPT ![Job] = Idle]
    /\ UNCHANGED <<disk, staged, world, lock, pruning, degraded, bounds, completed, damageSeen>>

(***************************************************************************)
(* restore_stage.                                                          *)
(***************************************************************************)
StartStage(r, s) ==
    /\ thread[r].pc = "idle"
    /\ lock = Nobody
    /\ lock' = r
    /\ thread' = [thread EXCEPT ![r].pc = "verify", ![r].snap = s]
    /\ UNCHANGED <<disk, staged, world, pruning, degraded, bounds, completed, damageSeen>>

\* verify, the comparison with the running store, and the look for an earlier
\* candidate.
StageVerifies(r) ==
    /\ thread[r].pc = "verify"
    /\ Listed(thread[r].snap)
    /\ PassesInspect(body[thread[r].snap])
    /\ staged = {}
    /\ thread' = [thread EXCEPT ![r].pc = "stage"]
    /\ UNCHANGED <<disk, staged, world, lock, pruning, degraded, bounds, completed, damageSeen>>

\* Any of these refuses; which projects the store holds is not modelled.
StageRefused(r) ==
    /\ thread[r].pc = "verify"
    /\ EndFailed(r)
    /\ UNCHANGED <<disk, staged, world, pruning, bounds, completed, damageSeen>>

\* The copy to a temporary file, if retention has left the snapshot there.
StageCopies(r) ==
    /\ thread[r].pc = "stage"
    /\ IF name[thread[r].snap] = "db"
       THEN /\ thread' = [thread EXCEPT ![r].pc = "compare", ![r].temp = body[thread[r].snap]]
            /\ UNCHANGED <<lock, degraded>>
       ELSE EndFailed(r)
    /\ UNCHANGED <<disk, staged, world, pruning, bounds, completed, damageSeen>>

StageCopyFails(r) ==
    /\ thread[r].pc = "stage"
    /\ Fault
    /\ EndFailed(r)
    /\ UNCHANGED <<disk, staged, world, pruning, damages, crashes, completed, damageSeen>>

\* Bug: the copy is trusted because its source was verified.
StageCompareTrusting(r) ==
    /\ thread[r].pc = "compare"
    /\ staged' = staged \union {[snap |-> thread[r].snap, body |-> thread[r].temp]}
    /\ thread' = [thread EXCEPT ![r] = Idle]
    /\ lock' = Nobody
    /\ UNCHANGED <<disk, world, pruning, degraded, bounds, completed, damageSeen>>

\* The copy itself is inspected and compared with the manifest, then renamed.
StageCompares(r) ==
    /\ thread[r].pc = "compare"
    /\ staged' = IF thread[r].temp = "sound"
                 THEN staged \union {[snap |-> thread[r].snap, body |-> thread[r].temp]}
                 ELSE staged
    /\ thread' = [thread EXCEPT ![r] = Idle]
    /\ lock' = Nobody
    /\ UNCHANGED <<disk, world, pruning, degraded, bounds, completed, damageSeen>>

(***************************************************************************)
(* The world.                                                              *)
(***************************************************************************)
\* An operator activates the candidate offline, or throws it away.
ClearStage ==
    /\ staged # {}
    /\ staged' = {}
    /\ UNCHANGED <<disk, world, lock, thread, pruning, degraded, bounds, completed, damageSeen>>

NextDay ==
    /\ today < MaxDay
    /\ today' = today + 1
    /\ UNCHANGED <<disk, staged, live, lock, thread, pruning, degraded, bounds, completed,
                   damageSeen>>

\* The running store is damaged, or repaired.
LiveChanges(condition) ==
    /\ damages < MaxDamages
    /\ damages' = damages + 1
    /\ live' = condition
    /\ UNCHANGED <<disk, staged, today, lock, thread, pruning, degraded, faults, crashes,
                   completed, damageSeen>>

\* A published snapshot decays on disk.
Rot(s) ==
    /\ Listed(s)
    /\ Fault
    /\ body' = [body EXCEPT ![s] = "rotten"]
    /\ UNCHANGED <<name, manifest, kind, day, last, staged, world, lock, thread, pruning,
                   degraded, damages, crashes, completed, damageSeen>>

\* The process ends anywhere and comes back with the disk as it is.
Crash ==
    /\ crashes < MaxCrashes
    /\ crashes' = crashes + 1
    /\ lock' = Nobody
    /\ thread' = [p \in Threads |-> Idle]
    /\ doomed' = {}
    /\ half' = None
    /\ degraded' = FALSE
    /\ damageSeen' = FALSE
    /\ UNCHANGED <<disk, staged, world, damages, faults, completed>>

CreateStep(p) ==
    \/ CreateRefused(p)
    \/ Copy(p)
    \/ QuickCheck(p)
    \/ StagingFails(p)
    \/ Inspect(p)
    \/ InspectFails(p)
    \/ Publish(p)
    \/ PublishFails(p)

PruneStep ==
    \/ SelectDoomed
    \/ \E s \in doomed : UnlinkSnapshot(s)
    \/ UnlinkManifest
    \/ UnlinkFails
    \/ EndJob

JobStep ==
    \/ AutoAcquires
    \/ AutoTimesOut
    \/ CreateStep(Job)
    \/ PruneStep
    \/ Vacuum

StageStep(r) ==
    \/ StageVerifies(r)
    \/ StageRefused(r)
    \/ StageCopies(r)
    \/ StageCopyFails(r)
    \/ StageCompares(r)

RequestStep(r) == CreateStep(r) \/ StageStep(r)

Next ==
    \/ \E purpose \in Purposes : StartJob(purpose)
    \/ CheckIntegrity
    \/ JobStep
    \/ \E r \in Requests :
          \/ ManualAcquires(r)
          \/ \E s \in 1..last : StartStage(r, s)
          \/ RequestStep(r)
    \/ ClearStage
    \/ NextDay
    \/ \E condition \in Conditions : LiveChanges(condition)
    \/ \E s \in Snapshots : Rot(s)
    \/ Crash

Spec == Init /\ [][Next]_vars

\* A thread that is in an operation keeps running it.  Nothing owes new jobs,
\* new requests, faults or crashes.
FairSpec == Spec /\ WF_vars(JobStep) /\ \A r \in Requests : WF_vars(RequestStep(r))

(***************************************************************************)
(* Properties.                                                             *)
(***************************************************************************)
TypeOK ==
    /\ name \in [Snapshots -> Names]
    /\ body \in [Snapshots -> Bodies]
    /\ manifest \subseteq Snapshots
    /\ kind \in [Snapshots -> {"none", "auto", "manual"}]
    /\ day \in [Snapshots -> Nat]
    /\ last \in 0..MaxSnapshots
    /\ staged \subseteq [snap : Snapshots, body : Bodies]
    /\ live \in Conditions
    /\ today \in Nat
    /\ lock \in Threads \union {Nobody}
    /\ thread \in [Threads -> ThreadStates]
    /\ doomed \subseteq Snapshots
    /\ half \in Snapshots \union {None}
    /\ degraded \in BOOLEAN
    /\ damages \in Nat /\ faults \in Nat /\ crashes \in Nat
    /\ completed \subseteq Snapshots
    /\ damageSeen \in BOOLEAN

\* "An interrupted database copy is not offered as a restore candidate": what
\* the catalog lists was a sound copy when it was published, whatever failed,
\* crashed or was damaged meanwhile; only decay afterwards can have spoilt it.
ListedWasSound == \A s \in Snapshots : Listed(s) => body[s] \in {"sound", "rotten"}

ShowsDamage(s) == name[s] # "none" /\ body[s] \in Conditions \ {"sound"}

\* A copy that shows damage is neither removed nor overwritten; but for one
\* that is not renamed yet, whose own staging meets a failing file operation.
KeepsEvidence ==
    \A s \in Snapshots : ShowsDamage(s) =>
        \/ name'[s] # "none" /\ body'[s] = body[s]
        \/ /\ name[s] = "tmp" /\ faults' = faults + 1
           /\ \E p \in Threads : thread[p].pc = "quick" /\ thread[p].snap = s

\* "Quarantine, don't delete": no step, of whatever thread, prune, rename or
\* crash, costs the evidence that the live store may be damaged.
EvidenceKept == [][KeepsEvidence]_vars

CompletedAuto == {s \in completed : kind[s] = "auto"}
NewerThan(s) == {t \in CompletedAuto : t > s}
LaterDays(s) == {day[t] : t \in {u \in CompletedAuto : day[u] > day[s]}}

\* Automatic, and neither among the Keep newest nor the newest of one of the
\* Keep latest days.
Superseded(s) ==
    /\ kind[s] = "auto"
    /\ Cardinality(NewerThan(s)) >= Keep
    /\ \/ \E t \in NewerThan(s) : day[t] = day[s]
       \/ Cardinality(LaterDays(s)) >= Keep

\* No burst, failed publication, interrupted prune or crash costs a recovery
\* point: of all automatic snapshots ever completed, the Keep newest and the
\* newest of each of the Keep latest days are still offered, and every manual
\* one is.
RecoveryPointsKept == \A s \in completed : Listed(s) \/ Superseded(s)

\* "Backup-before-destructive": when VACUUM is about to rewrite the store, the
\* snapshot its job has just taken is still offered, retention having run.
VacuumHasFallback == thread[Job].pc = "vacuum" => Listed(thread[Job].snap)

\* At most one restore candidate, and a sound one, although its source can
\* decay or be pruned between its verification and its copy.
StagedIsSound ==
    /\ \A c \in staged : c.body = "sound"
    /\ \A c, d \in staged : c = d

\* A failed integrity check ends with the flag raised, whatever became of the
\* emergency backup.
DamageFlagged == damageSeen /\ thread[Job].pc = "idle" => degraded

\* No operation keeps the lock for good, and no job waits for it for good.
OperationsEnd ==
    /\ lock # Nobody ~> lock = Nobody
    /\ thread[Job].pc # "idle" ~> thread[Job].pc = "idle"
=============================================================================
