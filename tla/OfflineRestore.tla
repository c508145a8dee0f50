---------------------------- MODULE OfflineRestore ----------------------------
(***************************************************************************)
(* The disposable helper that stages a snapshot, activates it in place of  *)
(* the stopped database and rolls the swap back (scripts/offline_restore). *)
(* Every file operation is a step; the helper may be killed between any    *)
(* two of them and inside a copy.  A database file's bytes are a number:   *)
(* the logical state it holds: 0 a store SQLite cannot read, 1 the first   *)
(* store, negative numbers what the service committed since.               *)
(***************************************************************************)
EXTENDS Integers

CONSTANTS Ops,        \* operation identifiers
          Snapshots,  \* the states that verified snapshots hold
          NoFile,     \* a path with nothing there
          Torn,       \* a copy that a kill cut short
          MaxWrites,  \* bound: transactions the service commits
          MaxCrashes, \* bound: kills of the helper
          MaxStages   \* bound: candidates staged

ASSUME SnapshotsAssumption == Snapshots \subseteq Nat \ {0, 1}
ASSUME NoFileAssumption == NoFile \notin Int /\ Torn \notin Int \union {NoFile}
ASSUME BoundsAssumption == {MaxWrites, MaxCrashes, MaxStages} \subseteq Nat

VARIABLES
  live,     \* the database family: main file, -wal and -shm
  stage,    \* the candidate in .restore-stage
  state,    \* state.json of each operation
  files,    \* the files each operation keeps
  helper,   \* the helper process and what it is doing
  serving,  \* the service has the database open
  staged,   \* candidates staged so far: names are never reused
  writes, crashes,
  origin,   \* history: the logical state when each operation was activated
  entry,    \* history: the logical state when it last set out to replace it
  replaced, \* history: the logical states that a swap displaced
  last,     \* history: the operation that installed the live file
  touched,  \* history: the service opened the live file since that
  probed,   \* history: the file whose probe each operation's "ok" is about
  disturbed \* history: interrupted rollbacks that another operation overtook

bounds == <<staged, writes, crashes>>
vars == <<live, stage, state, files, helper, serving, staged, writes, crashes,
          origin, entry, replaced, last, touched, probed, disturbed>>
history == <<origin, entry, replaced, last, touched, probed, disturbed>>

Sidecars == {"wal", "shm"}
Members == {"main"} \union Sidecars
NoMember == [m \in Members |-> NoFile]

\* What SQLite reads from a family: the log applies to its own main file only.
Logical(f) ==
  IF f["wal"] # NoFile /\ f["wal"].of = f["main"] THEN f["wal"].holds ELSE f["main"]

\* A log that an open leaves before anything is committed.
EmptyLog(f) == [of |-> f["main"], holds |-> f["main"]]

NoState == [phase |-> "none", candidate |-> NoFile, available |-> FALSE,
            probe |-> "none", forward |-> NoMember, retirement |-> "none"]
NoFiles == [raw |-> NoMember, old |-> NoFile, displaced |-> NoMember,
            hasForward |-> FALSE, forward |-> NoMember, aside |-> NoMember,
            incoming |-> NoFile, rollback |-> NoFile]

Idle == [pc |-> "idle", op |-> NoFile]

Init ==
  /\ live \in {[NoMember EXCEPT !["main"] = m] : m \in {0, 1}}
  /\ stage = NoFile
  /\ state = [o \in Ops |-> NoState]
  /\ files = [o \in Ops |-> NoFiles]
  /\ helper = Idle
  /\ serving = FALSE
  /\ staged = 0 /\ writes = 0 /\ crashes = 0
  /\ origin = [o \in Ops |-> NoFile] /\ probed = [o \in Ops |-> NoFile]
  /\ entry = [o \in Ops |-> NoFile] /\ replaced = {} /\ last = NoFile
  /\ touched = FALSE /\ disturbed = {}

(***************************************************************************)
(* The helper's commands                                                   *)
(***************************************************************************)
Offline == helper = Idle /\ ~serving

Begin(o, pc) == Offline /\ helper' = [pc |-> pc, op |-> o] /\ UNCHANGED serving

At(o, pc) == helper.op = o /\ helper.pc = pc

Goto(pc) == helper' = [helper EXCEPT !.pc = pc]

End == helper' = Idle

\* _save_state: state.json is replaced by a rename, so it is never torn.
Save(o, record) == state' = [state EXCEPT ![o] = record]

\* stage --apply: one candidate at a time, published by a rename.  It may run
\* while the service is up.
Stage(s) ==
  /\ helper = Idle /\ stage = NoFile /\ staged < MaxStages
  /\ stage' = [name |-> staged, db |-> s]
  /\ staged' = staged + 1
  /\ UNCHANGED <<live, state, files, helper, serving, writes, crashes, history>>

\* _inspect, against the expected digest, schema and project identity.
Verified(d) == d \in Snapshots

\* _preflight and the checks of activate: a verified candidate and a new operation.
Preflight(o) == stage # NoFile /\ Verified(stage.db) /\ state[o].phase = "none"

\* activate up to the first file it makes: the recovery directory must be new.
BeginActivate(o) ==
  /\ Begin(o, "created")
  /\ Preflight(o)
  /\ Save(o, [state[o] EXCEPT !.phase = "created"])
  /\ origin' = [origin EXCEPT ![o] = Logical(live)]
  /\ entry' = [entry EXCEPT ![o] = Logical(live)]
  /\ UNCHANGED <<live, stage, files, bounds, replaced, last, touched, probed, disturbed>>

SaveArchiving(o) ==
  /\ At(o, "created") /\ Goto("archive")
  /\ Save(o, [state[o] EXCEPT !.phase = "archiving", !.candidate = stage])
  /\ UNCHANGED <<live, stage, files, serving, bounds, history>>

\* One member of the live family copied to raw-old and compared.
Archive(o) ==
  /\ At(o, "archive")
  /\ \E m \in Members :
       /\ live[m] # NoFile /\ files[o].raw[m] = NoFile
       /\ files' = [files EXCEPT ![o].raw[m] = live[m]]
  /\ UNCHANGED <<live, stage, state, helper, serving, bounds, history>>

\* The copying loop has been over every member of the live family.
RawComplete(o) == files[o].raw = live

\* _describe: rollback is offered for anything recognisable as this database,
\* faithfully damaged or not.
Recognisable(d) == d # 0

\* _assess_old_state: consolidate a scratch copy of raw-old and describe it.
Assess(o) ==
  LET old == Logical(files[o].raw) IN
  /\ At(o, "archive") /\ RawComplete(o)
  /\ Goto("incoming")
  /\ files' = [files EXCEPT ![o].old = IF Recognisable(old) THEN old ELSE NoFile]
  /\ Save(o, [state[o] EXCEPT !.available = Recognisable(old)])
  /\ UNCHANGED <<live, stage, serving, bounds, history>>

CopyIncoming(o) ==
  /\ At(o, "incoming") /\ Goto("prepare")
  /\ files' = [files EXCEPT ![o].incoming = state[o].candidate.db]
  /\ UNCHANGED <<live, stage, state, serving, bounds, history>>

\* History: the operation is about to change the live family.
Overtake(o) ==
  /\ disturbed' = disturbed \union {p \in Ops \ {o} : state[p].phase = "rolling_back"}
  /\ UNCHANGED <<origin, entry, replaced, last, touched, probed>>

SavePrepared(o) ==
  /\ At(o, "prepare") /\ Goto("displace")
  /\ Save(o, [state[o] EXCEPT !.phase = "prepared", !.probe = "pending"])
  /\ UNCHANGED <<live, stage, files, serving, bounds>>
  /\ Overtake(o)

\* The log goes aside first, then its index: never the main file before them.
Displace(o) ==
  /\ At(o, "displace")
  /\ \E s \in Sidecars :
       /\ live[s] # NoFile /\ (s = "shm" => live["wal"] = NoFile)
       /\ files' = [files EXCEPT ![o].displaced[s] = live[s]]
       /\ live' = [live EXCEPT ![s] = NoFile]
  /\ UNCHANGED <<stage, state, helper, serving, bounds, history>>

Installed(o) ==
  /\ replaced' = replaced \union {entry[o]}
  /\ last' = o /\ touched' = FALSE
  /\ UNCHANGED <<origin, entry, probed, disturbed>>

\* Bug: the main file goes first.
SidecarsLater == TRUE

SidecarsGone == live["wal"] = NoFile /\ live["shm"] = NoFile

Swap(o) ==
  /\ At(o, "displace") /\ SidecarsGone
  /\ Goto("activated")
  /\ live' = [live EXCEPT !["main"] = files[o].incoming]
  /\ files' = [files EXCEPT ![o].incoming = NoFile]
  /\ Installed(o)
  /\ UNCHANGED <<stage, state, serving, bounds>>

SaveActivated(o) ==
  /\ At(o, "activated") /\ Goto("probe")
  /\ Save(o, [state[o] EXCEPT !.phase = "activated"])
  /\ UNCHANGED <<live, stage, files, serving, bounds, history>>

\* A leftover activation copy is removed only when it is the whole candidate.
WithoutIncoming(f, o) ==
  IF f.incoming = state[o].candidate.db THEN [f EXCEPT !.incoming = NoFile] ELSE f

\* rollback of an activation that stopped before it was prepared.
Abandon(o) ==
  /\ Offline /\ state[o].phase = "archiving"
  /\ files' = [files EXCEPT ![o] = WithoutIncoming(files[o], o)]
  /\ Save(o, [state[o] EXCEPT !.phase = "abandoned"])
  /\ UNCHANGED <<live, stage, helper, serving, bounds, history>>

\* A first rollback: a readable old state, and no forward archive yet.
BeginRollback(o) ==
  /\ Begin(o, "forward")
  /\ state[o].phase \in {"prepared", "activated"}
  /\ state[o].available /\ ~files[o].hasForward
  /\ files' = [files EXCEPT ![o].hasForward = TRUE]
  /\ entry' = [entry EXCEPT ![o] = Logical(live)]
  /\ UNCHANGED <<live, stage, state, bounds, origin, replaced, last, touched, probed, disturbed>>

ArchiveForward(o) ==
  /\ At(o, "forward")
  /\ \E m \in Members :
       /\ live[m] # NoFile /\ files[o].forward[m] = NoFile
       /\ files' = [files EXCEPT ![o].forward[m] = live[m]]
  /\ UNCHANGED <<live, stage, state, helper, serving, bounds, history>>

\* Bug: the log is not archived forward.
ForwardMainOnly(o) == files[o].forward["main"] = live["main"]

ForwardComplete(o) == files[o].forward = live

\* The record saved between the forward archive and the swap.
RollingBack(r, forward) ==
  [r EXCEPT !.phase = "rolling_back", !.probe = "pending", !.forward = forward]

SaveRollingBack(o) ==
  /\ At(o, "forward") /\ ForwardComplete(o)
  /\ Goto("copy")
  /\ Save(o, RollingBack(state[o], files[o].forward))
  /\ UNCHANGED <<live, stage, files, serving, bounds>>
  /\ Overtake(o)

\* What a retried rollback accepts: the archive as recorded, the main file as
\* archived or already replaced, each sidecar in exactly one of its two places.
Resumable(o) ==
  LET recorded == state[o].forward IN
  /\ files[o].forward = recorded
  /\ live["main"] \in {recorded["main"], files[o].old}
  /\ \A s \in Sidecars :
       IF live[s] # NoFile
         THEN live[s] = recorded[s] /\ files[o].aside[s] = NoFile
         ELSE files[o].aside[s] = recorded[s]

\* A retry makes a new copy of the old state first.
ResumeAt == "copy"

ResumeRollback(o) ==
  /\ Begin(o, ResumeAt) /\ state[o].phase = "rolling_back" /\ Resumable(o)
  /\ UNCHANGED <<live, stage, state, files, bounds>>
  /\ Overtake(o)

CopyOld(o) ==
  /\ At(o, "copy") /\ Goto("aside")
  /\ files' = [files EXCEPT ![o].rollback = files[o].old]
  /\ UNCHANGED <<live, stage, state, serving, bounds, history>>

\* Bug: the sidecar is unlinked, not set aside.
SetAsideNowhere(f, s) == f

SetAside(f, s) == [f EXCEPT !.aside[s] = live[s]]

DisplaceForward(o) ==
  /\ At(o, "aside")
  /\ \E s \in Sidecars :
       /\ live[s] # NoFile /\ (s = "shm" => live["wal"] = NoFile)
       /\ files[o].aside[s] = NoFile
       /\ files' = [files EXCEPT ![o] = SetAside(@, s)]
       /\ live' = [live EXCEPT ![s] = NoFile]
  /\ UNCHANGED <<stage, state, helper, serving, bounds, history>>

SwapBack(o) ==
  /\ At(o, "aside") /\ SidecarsGone
  /\ Goto("rolled_back")
  /\ live' = [live EXCEPT !["main"] = files[o].rollback]
  /\ files' = [files EXCEPT ![o].rollback = NoFile]
  /\ Installed(o)
  /\ UNCHANGED <<stage, state, serving, bounds>>

SaveRolledBack(o) ==
  /\ At(o, "rolled_back") /\ Goto("cleanup")
  /\ Save(o, [state[o] EXCEPT !.phase = "rolled_back"])
  /\ UNCHANGED <<live, stage, files, serving, bounds, history>>

Cleanup(o) ==
  /\ At(o, "cleanup") /\ Goto("probe")
  /\ files' = [files EXCEPT ![o] = WithoutIncoming(files[o], o)]
  /\ UNCHANGED <<live, stage, state, serving, bounds, history>>

\* The file that operation o installed, by what state.json says of it.
InstalledBy(o) ==
  IF state[o].phase = "activated" THEN state[o].candidate.db ELSE files[o].old

\* probe: refuse a sidecar SQLite never leaves, and record a written file as stale.
Unchanged(o) ==
  /\ live["main"] = InstalledBy(o)
  /\ live["wal"] # NoFile => live["wal"].of = live["wal"].holds

\* An index without its log: SQLite leaves none, the kill between two renames does.
ForeignSidecar == live["shm"] # NoFile /\ live["wal"] = NoFile

BeginProbe(o) ==
  /\ Offline /\ state[o].phase \in {"activated", "rolled_back"}
  /\ ~ForeignSidecar
  /\ IF Unchanged(o)
       THEN helper' = [pc |-> "probe", op |-> o] /\ UNCHANGED state
       ELSE Save(o, [state[o] EXCEPT !.probe = "stale"]) /\ UNCHANGED helper
  /\ UNCHANGED <<live, stage, files, serving, bounds, history>>

\* _probe_writable: a member this user cannot write is refused before SQLite
\* opens the file; the open makes a log and its index, the close removes them.
ProbeRefused(o) ==
  /\ At(o, "probe") /\ End
  /\ Save(o, [state[o] EXCEPT !.probe = "failed"])
  /\ UNCHANGED <<live, stage, files, serving, bounds, history>>

ProbeOpens(o) ==
  /\ At(o, "probe") /\ Goto("probing")
  /\ live' = [live EXCEPT !["wal"] = EmptyLog(live), !["shm"] = "index"]
  /\ UNCHANGED <<stage, state, files, serving, bounds>>
  /\ Overtake(o)

\* The change it made is rolled back and SQLite closes; then the result is saved.
ProbeCloses(o) ==
  /\ At(o, "probing") /\ Goto("save")
  /\ live' = [live EXCEPT !["wal"] = NoFile, !["shm"] = NoFile]
  /\ UNCHANGED <<stage, state, files, serving, bounds, history>>

SaveProbe(o, result) ==
  /\ At(o, "save") /\ End
  /\ Save(o, [state[o] EXCEPT !.probe = result])
  /\ probed' = [probed EXCEPT ![o] = IF result = "ok" THEN live["main"] ELSE @]
  /\ UNCHANGED <<live, stage, files, serving, bounds, origin, entry, replaced, last, touched, disturbed>>

\* retire-stage: recorded before the unlink, so an interruption can be retried.
BeginRetire(o) ==
  /\ Begin(o, "unlink")
  /\ state[o].phase \in {"activated", "rolled_back", "abandoned"}
  /\ \/ state[o].retirement = "none" /\ stage = state[o].candidate
     \/ state[o].retirement = "in_progress"
  /\ Save(o, [state[o] EXCEPT !.retirement = "in_progress"])
  /\ UNCHANGED <<live, stage, files, bounds, history>>

UnlinkStage(o) ==
  /\ At(o, "unlink") /\ Goto("retired")
  /\ stage' = IF stage = state[o].candidate THEN NoFile ELSE stage
  /\ UNCHANGED <<live, state, files, serving, bounds, history>>

SaveRetired(o) ==
  /\ At(o, "retired") /\ End
  /\ Save(o, [state[o] EXCEPT !.retirement = "done"])
  /\ files' = [files EXCEPT ![o] = WithoutIncoming(files[o], o)]
  /\ UNCHANGED <<live, stage, serving, bounds, history>>

\* The helper is killed; a copy it was writing beside the database is left torn.
Kill ==
  /\ helper # Idle /\ crashes < MaxCrashes
  /\ helper' = Idle
  /\ crashes' = crashes + 1
  /\ \/ UNCHANGED files
     \/ \E o \in Ops : At(o, "incoming") /\ files' = [files EXCEPT ![o].incoming = Torn]
     \/ \E o \in Ops : At(o, "copy") /\ files' = [files EXCEPT ![o].rollback = Torn]
  /\ UNCHANGED <<live, stage, state, serving, staged, writes, history>>

(***************************************************************************)
(* The service, which the operator starts only when the helper's last word *)
(* was not "service_must_remain_stopped": no operation is half done and    *)
(* the installed file passed its probe.                                    *)
(***************************************************************************)
MayServe ==
  /\ Offline /\ live["main"] # 0
  /\ last # NoFile => state[last].probe = "ok"
  /\ \A o \in Ops : state[o].phase \in {"prepared", "rolling_back"} =>
        ~state[o].available /\ last \notin {NoFile, o}

ServiceStarts ==
  /\ MayServe /\ writes < MaxWrites
  /\ serving' = TRUE /\ touched' = TRUE
  /\ live' = [live EXCEPT !["wal"] = IF @ = NoFile THEN EmptyLog(live) ELSE @, !["shm"] = "index"]
  /\ UNCHANGED <<stage, state, files, helper, bounds, origin, entry, replaced, last, probed, disturbed>>

ServiceWrites ==
  /\ serving /\ writes < MaxWrites
  /\ writes' = writes + 1
  /\ live' = [live EXCEPT !["wal"] = [of |-> live["main"], holds |-> 0 - writes - 1]]
  /\ UNCHANGED <<stage, state, files, helper, serving, staged, crashes, history>>

\* A clean stop checkpoints the log into the main file; a kill leaves it there.
ServiceStops ==
  /\ serving /\ serving' = FALSE
  /\ live' \in {live, [NoMember EXCEPT !["main"] = Logical(live)]}
  /\ UNCHANGED <<stage, state, files, helper, bounds, history>>

Activation(o) ==
  \/ BeginActivate(o) \/ SaveArchiving(o) \/ Archive(o) \/ Assess(o) \/ CopyIncoming(o)
  \/ SavePrepared(o) \/ Displace(o) \/ Swap(o) \/ SaveActivated(o)

Rollback(o) ==
  \/ Abandon(o) \/ BeginRollback(o) \/ ArchiveForward(o) \/ SaveRollingBack(o)
  \/ ResumeRollback(o) \/ CopyOld(o) \/ DisplaceForward(o) \/ SwapBack(o)
  \/ SaveRolledBack(o) \/ Cleanup(o)

Probing(o) ==
  \/ BeginProbe(o) \/ ProbeRefused(o) \/ ProbeOpens(o) \/ ProbeCloses(o)
  \/ \E result \in {"ok", "failed"} : SaveProbe(o, result)

Retirement(o) == BeginRetire(o) \/ UnlinkStage(o) \/ SaveRetired(o)

Next ==
  \/ \E s \in Snapshots : Stage(s)
  \/ \E o \in Ops : Activation(o) \/ Rollback(o) \/ Probing(o) \/ Retirement(o)
  \/ Kill
  \/ ServiceStarts \/ ServiceWrites \/ ServiceStops

Spec == Init /\ [][Next]_vars

(***************************************************************************)
(* Properties                                                              *)
(***************************************************************************)
\* A log never sits beside a main file it was not written for, at any kill
\* point of a swap in either direction: SQLite would replay it into that file.
LogMatchesMain == live["wal"] # NoFile => live["wal"].of = live["main"]

\* Whatever a swap displaced, committed writes in a log included, is still the
\* live state or in some operation's raw-old or forward-state.
NothingLost ==
  \A x \in replaced :
    x = Logical(live) \/ \E o \in Ops : x \in {Logical(files[o].raw), Logical(files[o].forward)}

\* Until the service opens it, the installed file is what the recorded phase
\* promises: the candidate once activated, the old state once rolled back.
PhaseIsTrue ==
  last # NoFile /\ ~touched =>
    /\ state[last].phase = "activated" => Logical(live) = state[last].candidate.db
    /\ state[last].phase = "rolled_back" => Logical(live) = origin[last]

\* A rollback that a kill interrupted after its archive was recorded passes the
\* checks of a retry, unless another operation has changed the family since.
RollbackResumable ==
  \A o \in Ops \ disturbed :
    state[o].phase = "rolling_back" /\ helper = Idle => Resumable(o)

\* From the moment an operation may touch the live family, raw-old holds the
\* state it found and, when rollback is offered, old-consistent holds it too.
OldStateKept ==
  \A o \in Ops : state[o].phase \in {"prepared", "activated", "rolling_back", "rolled_back"} =>
    /\ Logical(files[o].raw) = origin[o]
    /\ state[o].available => files[o].old = origin[o]

\* A recorded write probe of "ok" is about the file the operation has installed
\* by now, never inherited from the one it replaced.
ProbeIsOfInstalled ==
  \A o \in Ops : state[o].probe = "ok" => probed[o] = InstalledBy(o)

\* What state.json says may be relied on by the next command: all four of the above.
RecordHonest == PhaseIsTrue /\ RollbackResumable /\ OldStateKept /\ ProbeIsOfInstalled
=============================================================================
