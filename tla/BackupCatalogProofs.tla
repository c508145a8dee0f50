------------------------- MODULE BackupCatalogProofs -------------------------
(***************************************************************************)
(* What BackupCatalog promises, for every number of request threads, every *)
(* retention and every bound.                                              *)
(***************************************************************************)
EXTENDS BackupCatalog, FiniteSetTheorems, TLAPS

(***************************************************************************)
(* The inductive invariant.                                                *)
(***************************************************************************)
Creating == {"copy", "quick", "inspect", "publish"}
Staging == {"verify", "stage", "compare"}

\* Who creates or stages holds the lock, so nobody else does either.
LockHeld == \A p \in Threads : thread[p].pc \in Creating \union Staging => lock = p

\* Numbers that no copy has taken yet stand for nothing.
UnusedIsBlank ==
    \A s \in Snapshots : s > last => name[s] = "none" /\ kind[s] = "none" /\ s \notin manifest

\* A copy has no manifest until it is published, and by then it is sound.
CopyUnpublished ==
    \A p \in Threads :
        thread[p].pc \in {"quick", "inspect", "publish"} =>
            /\ thread[p].snap \in Snapshots
            /\ thread[p].snap <= last
            /\ thread[p].snap \notin manifest
            /\ name[thread[p].snap] = IF thread[p].pc = "quick" THEN "tmp" ELSE "db"
            /\ thread[p].pc = "publish" => body[thread[p].snap] = "sound"

\* A manifest is only ever written for a sound copy.
ManifestSound == \A s \in manifest : body[s] \in {"sound", "rotten"}

\* Retention deletes published snapshots only, and only while it runs.
DoomedPublished ==
    /\ doomed \subseteq manifest
    /\ half \notin doomed
    /\ thread[Job].pc # "pruning" => doomed = {} /\ half = None

\* The job's own snapshot is the newest automatic one; once published it stays.
JobsOwnKept ==
    /\ thread[Job].pc \in {"quick", "inspect", "publish", "prune", "pruning", "vacuum"} =>
          /\ thread[Job].snap \in Snapshots
          /\ thread[Job].snap <= last
          /\ \A t \in Snapshots : t > thread[Job].snap => kind[t] # "auto"
    /\ thread[Job].pc \in {"prune", "pruning", "vacuum"} =>
          /\ name[thread[Job].snap] = "db"
          /\ thread[Job].snap \in manifest
          /\ thread[Job].snap \notin doomed
          /\ half # thread[Job].snap

\* A candidate is made from a snapshot, and while it is made there is no other.
StagePlaceFree ==
    \A p \in Threads :
        /\ thread[p].pc \in Staging => thread[p].snap \in Snapshots
        /\ thread[p].pc \in {"stage", "compare"} => staged = {}

\* A failed check's flag is raised, or its job is still on its way to it.
FlagOwed ==
    damageSeen =>
        \/ degraded
        \/ thread[Job].pc \notin {"idle", "vacuum"} /\ thread[Job].purpose = "integrity"

IInv ==
    /\ TypeOK
    /\ LockHeld
    /\ UnusedIsBlank
    /\ CopyUnpublished
    /\ ManifestSound
    /\ DoomedPublished
    /\ JobsOwnKept
    /\ StagePlaceFree
    /\ StagedIsSound
    /\ FlagOwed

\* An idle thread has the type of a thread.
LEMMA IdleType == Idle \in ThreadStates
BY DEF Idle, ThreadStates, Steps, Purposes

\* The empty catalog satisfies the invariant.
LEMMA InitIInv ==
    ASSUME CatalogAssumption, Init
    PROVE  IInv
<1>1. \A p \in Threads : thread[p] = Idle
  BY DEF Init
<1>2. Job \in Threads
  BY DEF Threads
<1>3. TypeOK
  <2>1. thread \in [Threads -> ThreadStates]
    BY IdleType DEF Init
  <2>2. name \in [Snapshots -> Names] /\ body \in [Snapshots -> Bodies]
    BY DEF Init, Names, Bodies, Conditions
  <2>3. kind \in [Snapshots -> {"none", "auto", "manual"}] /\ day \in [Snapshots -> Nat]
    BY DEF Init
  <2>4. last \in 0..MaxSnapshots /\ live \in Conditions
    BY CatalogAssumption DEF Init, Conditions
  <2> QED
    BY <2>1, <2>2, <2>3, <2>4 DEF Init, TypeOK
<1> QED
  BY <1>1, <1>2, <1>3
  DEF Init, IInv, LockHeld, UnusedIsBlank, CopyUnpublished, ManifestSound, DoomedPublished,
      JobsOwnKept, StagePlaceFree, StagedIsSound, FlagOwed, Idle, Creating, Staging, None,
      Snapshots

(***************************************************************************)
(* Types, action by action.                                                *)
(***************************************************************************)
\* create() keeps the types.
LEMMA CreateType ==
    ASSUME CatalogAssumption, IInv, NEW p \in Threads, CreateStep(p)
    PROVE  TypeOK'
<1> USE IdleType DEF TypeOK
<1>1. ASSUME EndFailed(p)
      PROVE  /\ thread' \in [Threads -> ThreadStates]
             /\ lock' \in Threads \union {Nobody}
             /\ degraded' \in BOOLEAN
  BY <1>1 DEF IInv, EndFailed
<1>2. CASE CreateRefused(p)
  BY <1>1, <1>2 DEF IInv, CreateRefused, Fault, disk, world, pruning
<1>3. CASE Copy(p)
  <2>1. last + 1 \in Snapshots /\ last' \in 0..MaxSnapshots
    BY <1>3, CatalogAssumption DEF IInv, Copy, Snapshots
  <2>2. thread' \in [Threads -> ThreadStates]
    <3> DEFINE t == [thread[p] EXCEPT !.pc = "quick", !.snap = last + 1]
    <3>1. thread[p] \in ThreadStates /\ "quick" \in Steps
      BY DEF IInv, Steps
    <3>2. t \in ThreadStates
      BY <2>1, <3>1 DEF ThreadStates
    <3>3. thread' = [thread EXCEPT ![p] = t]
      BY <1>3 DEF IInv, Copy
    <3> HIDE DEF t
    <3> QED
      BY <3>2, <3>3 DEF IInv
  <2>3. name' \in [Snapshots -> Names] /\ body' \in [Snapshots -> Bodies]
    <3>1. live \in Bodies /\ "tmp" \in Names
      BY DEF IInv, Bodies, Names
    <3> QED
      BY <1>3, <2>1, <3>1 DEF IInv, Copy
  <2>4. kind' \in [Snapshots -> {"none", "auto", "manual"}] /\ day' \in [Snapshots -> Nat]
    BY <1>3, <2>1 DEF IInv, Copy
  <2> QED
    BY <1>3, <2>1, <2>2, <2>3, <2>4 DEF IInv, Copy, world, pruning, bounds
<1>4. CASE QuickCheck(p)
  <2>1. name' \in [Snapshots -> Names]
    BY <1>4 DEF IInv, QuickCheck, Names
  <2>2. CASE PassesQuickCheck(body[thread[p].snap])
    <3>1. thread' \in [Threads -> ThreadStates]
      BY <1>4, <2>2 DEF IInv, QuickCheck, ThreadStates, Steps
    <3> QED
      BY <1>4, <2>1, <2>2, <3>1 DEF IInv, QuickCheck, world, pruning, bounds
  <2>3. CASE ~PassesQuickCheck(body[thread[p].snap])
    BY <1>1, <1>4, <2>1, <2>3 DEF IInv, QuickCheck, world, pruning, bounds
  <2> QED
    BY <2>2, <2>3
<1>5. CASE Inspect(p)
  <2>1. name' \in [Snapshots -> Names]
    BY <1>5 DEF IInv, Inspect, Names
  <2>2. CASE PassesInspect(body[thread[p].snap])
    <3>1. thread' \in [Threads -> ThreadStates]
      BY <1>5, <2>2 DEF IInv, Inspect, ThreadStates, Steps
    <3> QED
      BY <1>5, <2>1, <2>2, <3>1 DEF IInv, Inspect, world, pruning, bounds
  <2>3. CASE ~PassesInspect(body[thread[p].snap])
    BY <1>1, <1>5, <2>1, <2>3 DEF IInv, Inspect, world, pruning, bounds
  <2> QED
    BY <2>2, <2>3
<1>6. CASE InspectFails(p)
  BY <1>1, <1>6 DEF IInv, InspectFails, Fault, disk, world, pruning
<1>7. CASE Publish(p)
  <2>1. thread[p].snap \in Snapshots
    BY <1>7 DEF IInv, Publish, CopyUnpublished
  <2>2. thread' \in [Threads -> ThreadStates]
    BY <1>7 DEF IInv, Publish, ThreadStates, Steps
  <2> QED
    BY <1>7, <2>1, <2>2 DEF IInv, Publish, world, pruning, bounds
<1>8. CASE PublishFails(p)
  <2>1. thread[p].snap \in Snapshots
    BY <1>8 DEF IInv, PublishFails, CopyUnpublished
  <2>2. name' \in [Snapshots -> Names] /\ manifest' \subseteq Snapshots
    BY <1>8, <2>1 DEF IInv, PublishFails, Names
  <2> QED
    BY <1>1, <1>8, <2>2 DEF IInv, PublishFails, Fault, world, pruning
<1>9. CASE StagingFails(p)
  <2>1. name' \in [Snapshots -> Names]
    BY <1>9 DEF IInv, StagingFails, Names
  <2> QED
    BY <1>1, <1>9, <2>1 DEF IInv, StagingFails, Fault, world, pruning
<1> QED
  BY <1>2, <1>3, <1>4, <1>5, <1>6, <1>7, <1>8, <1>9 DEF CreateStep

\* Starting a job, and its steps outside create().
JobOnly ==
    \/ \E purpose \in Purposes : StartJob(purpose)
    \/ CheckIntegrity
    \/ AutoAcquires
    \/ AutoTimesOut
    \/ PruneStep
    \/ Vacuum

\* So do the jobs outside it,
LEMMA JobType ==
    ASSUME CatalogAssumption, IInv, JobOnly
    PROVE  TypeOK'
<1> USE IdleType DEF TypeOK
<1>0. Job \in Threads
  BY DEF Threads
<1>1. ASSUME NEW purpose \in Purposes, StartJob(purpose)
      PROVE  TypeOK'
  <2>1. [Idle EXCEPT !.pc = "wait", !.purpose = purpose] \in ThreadStates
    BY DEF ThreadStates, Steps
  <2> QED
    BY <1>0, <1>1, <2>1
    DEF IInv, StartJob, disk, world, pruning, bounds
<1>2. CASE CheckIntegrity
  <2>1. [Idle EXCEPT !.pc = "wait", !.purpose = "integrity"] \in ThreadStates
    BY DEF ThreadStates, Steps, Purposes
  <2>2. thread' \in [Threads -> ThreadStates]
    BY <1>0, <1>2, <2>1 DEF IInv, CheckIntegrity
  <2>3. damageSeen' \in BOOLEAN /\ degraded' \in BOOLEAN
    BY <1>2, Zenon DEF IInv, CheckIntegrity
  <2> QED
    BY <1>2, <2>2, <2>3 DEF IInv, CheckIntegrity, disk, world, pruning, bounds
<1>3. CASE AutoAcquires
  <2>1. thread' \in [Threads -> ThreadStates]
    BY <1>0, <1>3 DEF IInv, AutoAcquires, ThreadStates, Steps
  <2> QED
    BY <1>0, <1>3, <2>1 DEF IInv, AutoAcquires, disk, world, pruning, bounds
<1>4. CASE AutoTimesOut
  BY <1>0, <1>4 DEF IInv, AutoTimesOut, disk, world, pruning, bounds
<1>5. CASE SelectDoomed
  <2>1. thread' \in [Threads -> ThreadStates]
    BY <1>0, <1>5 DEF IInv, SelectDoomed, ThreadStates, Steps
  <2>2. doomed' \subseteq Snapshots
    BY <1>5 DEF SelectDoomed, Candidates
  <2> QED
    BY <1>5, <2>1, <2>2 DEF IInv, SelectDoomed, disk, world, bounds
<1>6. ASSUME NEW s \in doomed, UnlinkSnapshot(s)
      PROVE  TypeOK'
  BY <1>6 DEF IInv, UnlinkSnapshot, Names, world, bounds
<1>7. CASE UnlinkManifest
  BY <1>7 DEF IInv, UnlinkManifest, world, bounds
<1>8. CASE UnlinkFails
  BY <1>8 DEF IInv, UnlinkFails, Fault, disk, world
<1>9. CASE EndJob
  <2>1. [thread[Job] EXCEPT !.pc = "vacuum"] \in ThreadStates
    BY <1>0 DEF IInv, ThreadStates, Steps
  <2> QED
    BY <1>0, <1>9, <2>1 DEF IInv, EndJob, disk, world, pruning, bounds
<1>10. CASE Vacuum
  BY <1>0, <1>10 DEF IInv, Vacuum, disk, world, pruning, bounds
<1> QED
  BY <1>1, <1>2, <1>3, <1>4, <1>5, <1>6, <1>7, <1>8, <1>9, <1>10 DEF JobOnly, PruneStep

\* A request thread's steps outside create().
StageOnly(r) ==
    \/ ManualAcquires(r)
    \/ \E s \in 1..last : StartStage(r, s)
    \/ StageStep(r)

\* staging,
LEMMA StageType ==
    ASSUME CatalogAssumption, IInv, NEW r \in Requests, StageOnly(r)
    PROVE  TypeOK'
<1> USE IdleType DEF TypeOK
<1>0. r \in Threads
  BY DEF Threads
<1>1. ASSUME EndFailed(r)
      PROVE  /\ thread' \in [Threads -> ThreadStates]
             /\ lock' \in Threads \union {Nobody}
             /\ degraded' \in BOOLEAN
  BY <1>0, <1>1 DEF IInv, EndFailed
<1>2. CASE ManualAcquires(r)
  <2>1. thread' \in [Threads -> ThreadStates]
    BY <1>0, <1>2 DEF IInv, ManualAcquires, ThreadStates, Steps
  <2> QED
    BY <1>0, <1>2, <2>1 DEF IInv, ManualAcquires, disk, world, pruning, bounds
<1>3. ASSUME NEW s \in 1..last, StartStage(r, s)
      PROVE  TypeOK'
  <2> DEFINE t == [thread[r] EXCEPT !.pc = "verify", !.snap = s]
  <2>1. s \in Snapshots
    BY CatalogAssumption DEF IInv, Snapshots
  <2>2. thread[r] \in ThreadStates /\ "verify" \in Steps
    BY <1>0 DEF IInv, Steps
  <2>3. t \in ThreadStates
    BY <2>1, <2>2 DEF ThreadStates
  <2>4. thread' = [thread EXCEPT ![r] = t]
    BY <1>0, <1>3 DEF IInv, StartStage
  <2> HIDE DEF t
  <2> QED
    BY <1>0, <1>3, <2>3, <2>4 DEF IInv, StartStage, disk, world, pruning, bounds
<1>4. CASE StageVerifies(r)
  <2>1. thread' \in [Threads -> ThreadStates]
    BY <1>0, <1>4 DEF IInv, StageVerifies, ThreadStates, Steps
  <2> QED
    BY <1>4, <2>1 DEF IInv, StageVerifies, disk, world, pruning, bounds
<1>5. CASE StageRefused(r)
  BY <1>1, <1>5 DEF IInv, StageRefused, disk, world, pruning, bounds
<1>6. CASE StageCopies(r)
  <2>1. CASE name[thread[r].snap] = "db"
    <3> DEFINE t == [thread[r] EXCEPT !.pc = "compare", !.temp = body[thread[r].snap]]
    <3>1. body[thread[r].snap] \in Bodies
      BY <1>0, <1>6 DEF IInv, StageCopies, StagePlaceFree, Staging
    <3>2. thread[r] \in ThreadStates /\ "compare" \in Steps
      BY <1>0 DEF IInv, Steps
    <3>3. t \in ThreadStates
      BY <3>1, <3>2 DEF ThreadStates
    <3>4. thread' = [thread EXCEPT ![r] = t]
      BY <1>0, <1>6, <2>1 DEF IInv, StageCopies
    <3> HIDE DEF t
    <3> QED
      BY <1>6, <2>1, <3>3, <3>4 DEF IInv, StageCopies, disk, world, pruning, bounds
  <2>2. CASE name[thread[r].snap] # "db"
    BY <1>1, <1>6, <2>2 DEF IInv, StageCopies, disk, world, pruning, bounds
  <2> QED
    BY <2>1, <2>2
<1>7. CASE StageCopyFails(r)
  BY <1>1, <1>7 DEF IInv, StageCopyFails, Fault, disk, world, pruning
<1>8. CASE StageCompares(r)
  <2>1. thread[r].snap \in Snapshots
    BY <1>0, <1>8 DEF IInv, StageCompares, StagePlaceFree, Staging
  <2>2. staged' \subseteq [snap : Snapshots, body : Bodies]
    BY <1>0, <1>8, <2>1 DEF IInv, StageCompares, Bodies, Conditions
  <2> QED
    BY <1>0, <1>8, <2>2 DEF IInv, StageCompares, disk, world, pruning, bounds
<1> QED
  BY <1>2, <1>3, <1>4, <1>5, <1>6, <1>7, <1>8 DEF StageOnly, StageStep

\* What happens around the process.
WorldStep ==
    \/ ClearStage
    \/ NextDay
    \/ \E condition \in Conditions : LiveChanges(condition)
    \/ \E s \in Snapshots : Rot(s)
    \/ Crash

\* and the world.
LEMMA WorldType ==
    ASSUME CatalogAssumption, IInv, WorldStep
    PROVE  TypeOK'
<1> USE IdleType DEF TypeOK
<1>1. CASE ClearStage
  BY <1>1 DEF IInv, ClearStage, disk, world, pruning, bounds
<1>2. CASE NextDay
  BY <1>2 DEF IInv, NextDay, disk, pruning, bounds
<1>3. ASSUME NEW condition \in Conditions, LiveChanges(condition)
      PROVE  TypeOK'
  BY <1>3 DEF IInv, LiveChanges, disk, pruning
<1>4. ASSUME NEW s \in Snapshots, Rot(s)
      PROVE  TypeOK'
  BY <1>4 DEF IInv, Rot, Fault, Bodies, world, pruning
<1>5. CASE Crash
  <2>1. thread' \in [Threads -> ThreadStates]
    BY <1>5 DEF Crash
  <2>2. degraded' \in BOOLEAN /\ damageSeen' \in BOOLEAN
    BY <1>5 DEF Crash
  <2>3. doomed' \subseteq Snapshots /\ half' \in Snapshots \union {None} /\ crashes' \in Nat
    BY <1>5 DEF IInv, Crash
  <2> QED
    BY <1>5, <2>1, <2>2, <2>3 DEF IInv, Crash, disk, world
<1> QED
  BY <1>1, <1>2, <1>3, <1>4, <1>5 DEF WorldStep

(***************************************************************************)
(* The other conjuncts, action by action.                                  *)
(***************************************************************************)
\* Only one thread creates or stages.
LEMMA OnlyOne ==
    ASSUME IInv, NEW p \in Threads, NEW q \in Threads, p # q,
           thread[p].pc \in Creating \union Staging
    PROVE  thread[q].pc \notin Creating \union Staging
BY DEF IInv, LockHeld

\* An operation that fails leaves its thread idle, the lock free and the
\* integrity check's flag raised, and on disk at most its own copy changed.
LEMMA EndFailedIInv ==
    ASSUME IInv, TypeOK', NEW p \in Threads, EndFailed(p),
           thread[p].pc \in Creating \union Staging,
           UNCHANGED <<last, kind, body, staged, doomed, half, damageSeen>>,
           \/ UNCHANGED <<name, manifest>>
           \/ /\ thread[p].pc \in {"quick", "inspect", "publish"}
              /\ \A s \in Snapshots \ {thread[p].snap} : name'[s] = name[s]
              /\ \/ manifest' = manifest
                 \/ /\ thread[p].pc = "publish"
                    /\ manifest' = manifest \union {thread[p].snap}
    PROVE  IInv'
<1>1. \A q \in Threads : thread'[q] = IF q = p THEN Idle ELSE thread[q]
  BY DEF EndFailed, IInv, TypeOK
<1>2. \A q \in Threads : thread'[q].pc \notin Creating \union Staging
  BY <1>1, OnlyOne DEF Idle, Creating, Staging
<1>3. Job \in Threads
  BY DEF Threads
<1>4. LockHeld' /\ StagePlaceFree'
  BY <1>2 DEF LockHeld, StagePlaceFree, Staging
<1>5. CopyUnpublished'
  BY <1>2 DEF CopyUnpublished, Creating
<1>6. thread[p].pc \in {"quick", "inspect", "publish"} =>
          /\ thread[p].snap \in Snapshots
          /\ thread[p].snap <= last
          /\ thread[p].snap \notin manifest
  BY DEF IInv, CopyUnpublished
<1>7. UnusedIsBlank'
  BY <1>6 DEF IInv, TypeOK, UnusedIsBlank, Snapshots
<1>8. ManifestSound'
  BY <1>6 DEF IInv, ManifestSound, CopyUnpublished
<1>9. DoomedPublished'
  BY <1>1, <1>3 DEF IInv, DoomedPublished, Idle, Creating, Staging
<1>10. JobsOwnKept'
  <2>1. CASE p = Job
    BY <1>1, <1>3, <2>1 DEF JobsOwnKept, Idle
  <2>2. CASE p # Job
    BY <1>1, <1>3, <1>6, <2>2 DEF IInv, JobsOwnKept
  <2> QED
    BY <2>1, <2>2
<1>11. FlagOwed'
  <2>1. CASE p = Job
    BY <2>1, Zenon DEF IInv, FlagOwed, EndFailed
  <2>2. CASE p # Job
    BY <1>1, <1>3, <2>2 DEF IInv, FlagOwed, EndFailed
  <2> QED
    BY <2>1, <2>2
<1>12. StagedIsSound'
  BY DEF IInv, StagedIsSound
<1> QED
  BY <1>4, <1>5, <1>7, <1>8, <1>9, <1>10, <1>11, <1>12 DEF IInv

\* create(), whoever calls it, keeps the invariant.
LEMMA CreateIInv ==
    ASSUME CatalogAssumption, IInv, NEW p \in Threads, CreateStep(p)
    PROVE  IInv'
<1>0. TypeOK'
  BY CreateType
<1>1. Job \in Threads
  BY DEF Threads
<1>2. CASE CreateRefused(p)
  BY <1>0, <1>2, EndFailedIInv DEF CreateRefused, disk, pruning, Creating
<1>3. CASE Copy(p)
  <2>1. last + 1 \in Snapshots /\ last' = last + 1
    BY <1>3, CatalogAssumption DEF IInv, TypeOK, Copy, Snapshots
  <2>2. /\ \A q \in Threads \ {p} : thread'[q] = thread[q]
        /\ thread'[p].pc = "quick"
        /\ thread'[p].snap = last + 1
        /\ thread'[p].purpose = thread[p].purpose
    BY <1>3 DEF Copy, IInv, TypeOK, ThreadStates
  <2>3. /\ \A s \in Snapshots \ {last + 1} :
              name'[s] = name[s] /\ body'[s] = body[s] /\ kind'[s] = kind[s]
        /\ name'[last + 1] = "tmp"
        /\ kind'[last + 1] = IF p = Job THEN "auto" ELSE "manual"
    BY <1>3, <2>1 DEF Copy, IInv, TypeOK
  <2>4. \A q \in Threads \ {p} : thread[q].pc \notin Creating \union Staging
    BY <1>3, OnlyOne DEF Copy, Creating
  <2>5. \A s \in Snapshots : s > last + 1 => s > last
    BY DEF IInv, TypeOK, Snapshots
  <2>6. last + 1 \notin manifest
    BY <2>1 DEF IInv, TypeOK, UnusedIsBlank, Snapshots
  <2>7. LockHeld'
    BY <1>3, <2>2 DEF IInv, LockHeld, Copy, Creating
  <2>8. UnusedIsBlank'
    BY <1>3, <2>1, <2>3, <2>5 DEF IInv, TypeOK, UnusedIsBlank, Copy, Snapshots
  <2>9. CopyUnpublished'
    BY <1>3, <2>1, <2>2, <2>3, <2>4, <2>6 DEF IInv, TypeOK, CopyUnpublished, Copy, Creating
  <2>10. ManifestSound'
    BY <1>3, <2>3, <2>6 DEF IInv, TypeOK, ManifestSound, Copy
  <2>11. DoomedPublished'
    BY <1>1, <1>3, <2>2 DEF IInv, DoomedPublished, Copy, pruning
  <2>12. JobsOwnKept'
    <3>1. CASE p = Job
      BY <1>3, <2>1, <2>2, <2>3, <2>5, <3>1
      DEF IInv, TypeOK, JobsOwnKept, UnusedIsBlank, Copy, Snapshots
    <3>2. CASE p # Job
      BY <1>1, <1>3, <2>1, <2>2, <2>3, <2>6, <3>2
      DEF IInv, TypeOK, JobsOwnKept, Copy, Snapshots, pruning
    <3> QED
      BY <3>1, <3>2
  <2>13. StagePlaceFree'
    BY <1>3, <2>2, <2>4 DEF IInv, StagePlaceFree, Copy, Staging
  <2>14. StagedIsSound' /\ FlagOwed'
    BY <1>1, <1>3, <2>2 DEF IInv, StagedIsSound, FlagOwed, Copy
  <2> QED
    BY <1>0, <2>7, <2>8, <2>9, <2>10, <2>11, <2>12, <2>13, <2>14 DEF IInv
<1>4. CASE QuickCheck(p)
  <2>1. CASE ~PassesQuickCheck(body[thread[p].snap])
    <3>1. \A s \in Snapshots \ {thread[p].snap} : name'[s] = name[s]
      BY <1>4, <2>1 DEF QuickCheck, IInv, TypeOK
    <3> QED
      BY <1>0, <1>4, <2>1, <3>1, EndFailedIInv DEF QuickCheck, pruning, Creating
  <2>2. CASE PassesQuickCheck(body[thread[p].snap])
    <3>1. /\ \A q \in Threads \ {p} : thread'[q] = thread[q]
          /\ thread'[p].pc = "inspect"
          /\ thread'[p].snap = thread[p].snap
          /\ thread'[p].purpose = thread[p].purpose
      BY <1>4, <2>2 DEF QuickCheck, IInv, TypeOK, ThreadStates
    <3>2. /\ thread[p].snap \in Snapshots
          /\ thread[p].snap <= last
          /\ thread[p].snap \notin manifest
      BY <1>4 DEF QuickCheck, IInv, CopyUnpublished
    <3>3. /\ \A s \in Snapshots \ {thread[p].snap} : name'[s] = name[s]
          /\ name'[thread[p].snap] = "db"
      BY <1>4, <2>2, <3>2 DEF QuickCheck, IInv, TypeOK
    <3>4. \A q \in Threads \ {p} : thread[q].pc \notin Creating \union Staging
      BY <1>4, OnlyOne DEF QuickCheck, Creating
    <3>5. UNCHANGED <<lock, degraded, body, manifest, kind, last, staged, doomed, half, damageSeen>>
      BY <1>4, <2>2 DEF QuickCheck, pruning
    <3>6. LockHeld' /\ StagePlaceFree'
      BY <1>4, <3>1, <3>4, <3>5
      DEF IInv, LockHeld, StagePlaceFree, QuickCheck, Creating, Staging
    <3>7. UnusedIsBlank'
      BY <3>2, <3>3, <3>5 DEF IInv, TypeOK, UnusedIsBlank, Snapshots
    <3>8. CopyUnpublished'
      BY <3>1, <3>2, <3>3, <3>4, <3>5 DEF IInv, CopyUnpublished, Creating
    <3>9. ManifestSound' /\ StagedIsSound'
      BY <3>5 DEF IInv, ManifestSound, StagedIsSound
    <3>10. DoomedPublished' /\ FlagOwed'
      BY <1>1, <1>4, <3>1, <3>5 DEF IInv, DoomedPublished, FlagOwed, QuickCheck
    <3>11. JobsOwnKept'
      BY <1>1, <1>4, <3>1, <3>2, <3>3, <3>5 DEF IInv, JobsOwnKept, QuickCheck
    <3> QED
      BY <1>0, <3>6, <3>7, <3>8, <3>9, <3>10, <3>11 DEF IInv
  <2> QED
    BY <2>1, <2>2
<1>5. CASE Inspect(p)
  <2>1. CASE ~PassesInspect(body[thread[p].snap])
    <3>1. \A s \in Snapshots \ {thread[p].snap} : name'[s] = name[s]
      BY <1>5, <2>1 DEF Inspect, IInv, TypeOK
    <3> QED
      BY <1>0, <1>5, <2>1, <3>1, EndFailedIInv DEF Inspect, pruning, Creating
  <2>2. CASE PassesInspect(body[thread[p].snap])
    <3>1. /\ \A q \in Threads \ {p} : thread'[q] = thread[q]
          /\ thread'[p].pc = "publish"
          /\ thread'[p].snap = thread[p].snap
          /\ thread'[p].purpose = thread[p].purpose
      BY <1>5, <2>2 DEF Inspect, IInv, TypeOK, ThreadStates
    <3>2. \A q \in Threads \ {p} : thread[q].pc \notin Creating \union Staging
      BY <1>5, OnlyOne DEF Inspect, Creating
    <3>3. UNCHANGED <<lock, degraded, name, body, manifest, kind, last, staged, doomed, half,
                      damageSeen>>
      BY <1>5, <2>2 DEF Inspect, pruning
    <3>4. LockHeld' /\ StagePlaceFree'
      BY <1>5, <3>1, <3>2, <3>3
      DEF IInv, LockHeld, StagePlaceFree, Inspect, Creating, Staging
    <3>5. CopyUnpublished'
      BY <1>5, <2>2, <3>1, <3>2, <3>3
      DEF IInv, CopyUnpublished, Creating, Inspect, PassesInspect
    <3>6. UnusedIsBlank' /\ ManifestSound' /\ StagedIsSound'
      BY <3>3 DEF IInv, UnusedIsBlank, ManifestSound, StagedIsSound
    <3>7. DoomedPublished' /\ FlagOwed'
      BY <1>1, <1>5, <3>1, <3>3 DEF IInv, DoomedPublished, FlagOwed, Inspect
    <3>8. JobsOwnKept'
      BY <1>1, <1>5, <3>1, <3>3 DEF IInv, JobsOwnKept, Inspect
    <3> QED
      BY <1>0, <3>4, <3>5, <3>6, <3>7, <3>8 DEF IInv
  <2> QED
    BY <2>1, <2>2
<1>6. CASE InspectFails(p)
  BY <1>0, <1>6, EndFailedIInv DEF InspectFails, disk, pruning, Creating
<1>7. CASE Publish(p)
  <2>1. /\ \A q \in Threads \ {p} : thread'[q] = thread[q]
        /\ thread'[p] = IF p = Job THEN [thread[p] EXCEPT !.pc = "prune"] ELSE Idle
    BY <1>7 DEF Publish, IInv, TypeOK
  <2>2. /\ thread[p].snap \in Snapshots
        /\ thread[p].snap <= last
        /\ thread[p].snap \notin manifest
        /\ name[thread[p].snap] = "db"
        /\ body[thread[p].snap] = "sound"
    BY <1>7 DEF Publish, IInv, CopyUnpublished
  <2>3. UNCHANGED <<degraded, name, body, kind, last, staged, doomed, half, damageSeen>>
    BY <1>7 DEF Publish, pruning
  <2>4. \A q \in Threads : thread'[q].pc \notin Creating \union Staging
    <3>1. \A q \in Threads \ {p} : thread[q].pc \notin Creating \union Staging
      BY <1>7, OnlyOne DEF Publish, Creating
    <3>2. thread'[p].pc \in {"prune", "idle"}
      BY <2>1 DEF Idle, IInv, TypeOK, ThreadStates
    <3> QED
      BY <2>1, <3>1, <3>2 DEF Creating, Staging
  <2>5. LockHeld' /\ StagePlaceFree' /\ CopyUnpublished'
    BY <2>4 DEF LockHeld, StagePlaceFree, CopyUnpublished, Creating, Staging
  <2>6. UnusedIsBlank'
    BY <1>7, <2>2, <2>3 DEF IInv, TypeOK, UnusedIsBlank, Publish, Snapshots
  <2>7. ManifestSound' /\ StagedIsSound'
    BY <1>7, <2>2, <2>3 DEF IInv, ManifestSound, StagedIsSound, Publish
  <2>8. DoomedPublished' /\ FlagOwed' /\ JobsOwnKept'
    <3>1. CASE p = Job
      <4>1. /\ thread'[Job].pc = "prune"
            /\ thread'[Job].snap = thread[Job].snap
            /\ thread'[Job].purpose = thread[Job].purpose
        BY <1>1, <2>1, <3>1 DEF IInv, TypeOK, ThreadStates
      <4>2. doomed = {} /\ half = None
        BY <1>7, <3>1 DEF IInv, DoomedPublished, Publish
      <4>3. None \notin Snapshots
        BY DEF None, Snapshots
      <4>4. DoomedPublished'
        BY <4>2, <2>3, <4>1 DEF DoomedPublished
      <4>5. FlagOwed'
        BY <1>7, <2>3, <3>1, <4>1 DEF IInv, FlagOwed, Publish
      <4>6. JobsOwnKept'
        BY <1>7, <2>2, <2>3, <3>1, <4>1, <4>2, <4>3 DEF IInv, JobsOwnKept, Publish
      <4> QED
        BY <4>4, <4>5, <4>6
    <3>2. CASE p # Job
      <4>1. thread'[Job] = thread[Job]
        BY <1>1, <2>1, <3>2
      <4>2. DoomedPublished'
        BY <1>7, <2>3, <4>1 DEF IInv, DoomedPublished, Publish
      <4>3. FlagOwed'
        BY <2>3, <4>1 DEF IInv, FlagOwed
      <4>4. JobsOwnKept'
        <5>1. manifest \subseteq manifest'
          BY <1>7 DEF Publish
        <5> QED
          BY <2>3, <4>1, <5>1 DEF IInv, JobsOwnKept
      <4> QED
        BY <4>2, <4>3, <4>4
    <3> QED
      BY <3>1, <3>2
  <2> QED
    BY <1>0, <2>5, <2>6, <2>7, <2>8 DEF IInv
<1>8. CASE PublishFails(p)
  <2>1. \A s \in Snapshots \ {thread[p].snap} : name'[s] = name[s]
    BY <1>8 DEF PublishFails, IInv, TypeOK
  <2> QED
    BY <1>0, <1>8, <2>1, EndFailedIInv DEF PublishFails, pruning, Creating
<1>9. CASE StagingFails(p)
  <2>1. \A s \in Snapshots \ {thread[p].snap} : name'[s] = name[s]
    BY <1>9 DEF StagingFails, IInv, TypeOK
  <2> QED
    BY <1>0, <1>9, <2>1, EndFailedIInv DEF StagingFails, pruning, Creating
<1> QED
  BY <1>2, <1>3, <1>4, <1>5, <1>6, <1>7, <1>8, <1>9 DEF CreateStep

\* A prune never selects the snapshot its own job has just published.
LEMMA OwnIsRetained ==
    ASSUME CatalogAssumption, IInv, thread[Job].pc = "prune"
    PROVE  thread[Job].snap \notin Candidates \ Retained(Candidates)
<1> DEFINE s == thread[Job].snap
           later == {t \in Candidates : t > s}
<1>1. later = {}
  BY DEF IInv, JobsOwnKept, Candidates
<1>2. Cardinality(later) = 0
  BY <1>1, FS_EmptySet
<1>3. Cardinality(later) < Keep
  BY <1>2, CatalogAssumption
<1> QED
  BY <1>3 DEF Retained

\* The jobs, and retention without the lock, keep the invariant.
LEMMA JobIInv ==
    ASSUME CatalogAssumption, IInv, JobOnly
    PROVE  IInv'
<1>0. TypeOK'
  BY JobType
<1>1. Job \in Threads
  BY DEF Threads
<1>2. ASSUME NEW purpose \in Purposes, StartJob(purpose)
      PROVE  IInv'
  <2>1. /\ \A q \in Threads \ {Job} : thread'[q] = thread[q]
        /\ thread'[Job].pc = "wait"
    BY <1>1, <1>2 DEF StartJob, IInv, TypeOK, Idle
  <2>2. UNCHANGED <<lock, degraded, name, body, manifest, kind, last, staged, doomed, half,
                    damageSeen>>
    BY <1>2 DEF StartJob, disk, pruning
  <2>3. LockHeld' /\ StagePlaceFree'
    BY <2>1, <2>2 DEF IInv, LockHeld, StagePlaceFree, Creating, Staging
  <2>4. CopyUnpublished'
    BY <2>1, <2>2 DEF IInv, CopyUnpublished
  <2>5. UnusedIsBlank' /\ ManifestSound' /\ StagedIsSound'
    BY <2>2 DEF IInv, UnusedIsBlank, ManifestSound, StagedIsSound
  <2>6. DoomedPublished' /\ FlagOwed' /\ JobsOwnKept'
    BY <1>2, <2>1, <2>2 DEF IInv, DoomedPublished, FlagOwed, JobsOwnKept, StartJob
  <2> QED
    BY <1>0, <2>3, <2>4, <2>5, <2>6 DEF IInv
<1>3. CASE CheckIntegrity
  <2>1. UNCHANGED <<lock, name, body, manifest, kind, last, staged, doomed, half>>
    BY <1>3 DEF CheckIntegrity, disk, pruning
  <2>2. /\ \A q \in Threads \ {Job} : thread'[q] = thread[q]
        /\ thread'[Job].pc \in {"idle", "wait"}
    BY <1>1, <1>3 DEF CheckIntegrity, IInv, TypeOK, Idle
  <2>3. LockHeld' /\ StagePlaceFree'
    BY <2>1, <2>2 DEF IInv, LockHeld, StagePlaceFree, Creating, Staging
  <2>4. CopyUnpublished'
    BY <2>1, <2>2 DEF IInv, CopyUnpublished
  <2>5. UnusedIsBlank' /\ ManifestSound' /\ StagedIsSound'
    BY <2>1 DEF IInv, UnusedIsBlank, ManifestSound, StagedIsSound
  <2>6. DoomedPublished' /\ JobsOwnKept'
    BY <1>3, <2>1, <2>2 DEF IInv, DoomedPublished, JobsOwnKept, CheckIntegrity
  <2>7. FlagOwed'
    <3>1. CASE PassesIntegrityCheck(live)
      BY <1>3, <3>1, Zenon DEF CheckIntegrity, FlagOwed
    <3>2. CASE ~PassesIntegrityCheck(live)
      BY <1>1, <1>3, <3>2 DEF IInv, TypeOK, CheckIntegrity, FlagOwed, Idle
    <3> QED
      BY <3>1, <3>2
  <2> QED
    BY <1>0, <2>3, <2>4, <2>5, <2>6, <2>7 DEF IInv
<1>4. CASE AutoAcquires
  <2>1. /\ \A q \in Threads \ {Job} : thread'[q] = thread[q]
        /\ thread'[Job].pc = "copy"
        /\ thread'[Job].purpose = thread[Job].purpose
    BY <1>1, <1>4 DEF AutoAcquires, IInv, TypeOK, ThreadStates
  <2>2. UNCHANGED <<degraded, name, body, manifest, kind, last, staged, doomed, half, damageSeen>>
    BY <1>4 DEF AutoAcquires, disk, pruning
  <2>3. \A q \in Threads : thread[q].pc \notin Creating \union Staging
    BY <1>4, CatalogAssumption DEF IInv, LockHeld, AutoAcquires, Threads, Job, Nobody
  <2>4. LockHeld'
    BY <1>4, <2>1, <2>3 DEF LockHeld, AutoAcquires
  <2>5. StagePlaceFree' /\ CopyUnpublished'
    BY <2>1, <2>3 DEF StagePlaceFree, CopyUnpublished, Creating, Staging
  <2>6. UnusedIsBlank' /\ ManifestSound' /\ StagedIsSound'
    BY <2>2 DEF IInv, UnusedIsBlank, ManifestSound, StagedIsSound
  <2>7. DoomedPublished' /\ FlagOwed' /\ JobsOwnKept'
    BY <1>4, <2>1, <2>2 DEF IInv, DoomedPublished, FlagOwed, JobsOwnKept, AutoAcquires
  <2> QED
    BY <1>0, <2>4, <2>5, <2>6, <2>7 DEF IInv
<1>5. CASE AutoTimesOut
  <2>1. /\ \A q \in Threads \ {Job} : thread'[q] = thread[q]
        /\ thread'[Job].pc = "idle"
    BY <1>1, <1>5 DEF AutoTimesOut, IInv, TypeOK, Idle
  <2>2. UNCHANGED <<lock, name, body, manifest, kind, last, staged, doomed, half, damageSeen>>
    BY <1>5 DEF AutoTimesOut, disk, pruning
  <2>3. LockHeld' /\ StagePlaceFree'
    BY <2>1, <2>2 DEF IInv, LockHeld, StagePlaceFree, Creating, Staging
  <2>4. CopyUnpublished'
    BY <2>1, <2>2 DEF IInv, CopyUnpublished
  <2>5. UnusedIsBlank' /\ ManifestSound' /\ StagedIsSound'
    BY <2>2 DEF IInv, UnusedIsBlank, ManifestSound, StagedIsSound
  <2>6. DoomedPublished' /\ JobsOwnKept'
    BY <1>5, <2>1, <2>2 DEF IInv, DoomedPublished, JobsOwnKept, AutoTimesOut
  <2>7. FlagOwed'
    BY <1>5, Zenon DEF IInv, FlagOwed, AutoTimesOut
  <2> QED
    BY <1>0, <2>3, <2>4, <2>5, <2>6, <2>7 DEF IInv
<1>6. CASE SelectDoomed
  <2>1. /\ \A q \in Threads \ {Job} : thread'[q] = thread[q]
        /\ thread'[Job].pc = "pruning"
        /\ thread'[Job].snap = thread[Job].snap
        /\ thread'[Job].purpose = thread[Job].purpose
    BY <1>1, <1>6 DEF SelectDoomed, IInv, TypeOK, ThreadStates
  <2>2. UNCHANGED <<lock, degraded, name, body, manifest, kind, last, staged, half, damageSeen>>
    BY <1>6 DEF SelectDoomed, disk
  <2>3. LockHeld' /\ StagePlaceFree'
    BY <2>1, <2>2 DEF IInv, LockHeld, StagePlaceFree, Creating, Staging
  <2>4. CopyUnpublished'
    BY <2>1, <2>2 DEF IInv, CopyUnpublished
  <2>5. UnusedIsBlank' /\ ManifestSound' /\ StagedIsSound'
    BY <2>2 DEF IInv, UnusedIsBlank, ManifestSound, StagedIsSound
  <2>6. half = None /\ None \notin Snapshots
    BY <1>6 DEF IInv, DoomedPublished, SelectDoomed, None, Snapshots
  <2>7. /\ doomed' \subseteq Snapshots
        /\ doomed' \subseteq manifest
        /\ thread[Job].snap \notin doomed'
    BY <1>6, OwnIsRetained DEF SelectDoomed, Candidates, Listed
  <2>8. DoomedPublished'
    BY <2>1, <2>2, <2>6, <2>7 DEF DoomedPublished
  <2>9. JobsOwnKept' /\ FlagOwed'
    BY <1>6, <2>1, <2>2, <2>7 DEF IInv, JobsOwnKept, FlagOwed, SelectDoomed
  <2> QED
    BY <1>0, <2>3, <2>4, <2>5, <2>8, <2>9 DEF IInv
<1>7. ASSUME NEW s \in doomed, UnlinkSnapshot(s)
      PROVE  IInv'
  <2>1. s \in Snapshots /\ s \in manifest
    BY DEF IInv, DoomedPublished, TypeOK
  <2>2. UNCHANGED <<lock, thread, degraded, body, manifest, kind, last, staged, damageSeen>>
    BY <1>7 DEF UnlinkSnapshot
  <2>3. \A t \in Snapshots : name'[t] = IF t = s THEN "none" ELSE name[t]
    BY <1>7 DEF UnlinkSnapshot, IInv, TypeOK
  <2>4. LockHeld' /\ StagePlaceFree' /\ ManifestSound' /\ StagedIsSound' /\ FlagOwed'
    BY <2>2 DEF IInv, LockHeld, StagePlaceFree, ManifestSound, StagedIsSound, FlagOwed
  <2>5. UnusedIsBlank'
    BY <2>2, <2>3 DEF IInv, UnusedIsBlank
  <2>6. CopyUnpublished'
    BY <2>1, <2>2, <2>3 DEF IInv, CopyUnpublished
  <2>7. DoomedPublished'
    BY <1>7, <2>2 DEF IInv, DoomedPublished, UnlinkSnapshot
  <2>8. JobsOwnKept'
    BY <1>7, <2>2, <2>3 DEF IInv, JobsOwnKept, UnlinkSnapshot
  <2> QED
    BY <1>0, <2>4, <2>5, <2>6, <2>7, <2>8 DEF IInv
<1>8. CASE UnlinkManifest
  <2>1. UNCHANGED <<lock, thread, degraded, name, body, kind, last, staged, doomed, damageSeen>>
    BY <1>8 DEF UnlinkManifest
  <2>2. manifest' = manifest \ {half} /\ half' = None /\ thread[Job].pc = "pruning"
    BY <1>8 DEF UnlinkManifest
  <2>3. LockHeld' /\ StagePlaceFree' /\ StagedIsSound' /\ FlagOwed'
    BY <2>1 DEF IInv, LockHeld, StagePlaceFree, StagedIsSound, FlagOwed
  <2>4. UnusedIsBlank' /\ CopyUnpublished' /\ ManifestSound'
    BY <2>1, <2>2 DEF IInv, UnusedIsBlank, CopyUnpublished, ManifestSound
  <2>5. None \notin Snapshots /\ doomed \subseteq Snapshots
    BY DEF None, Snapshots, IInv, TypeOK
  <2>6. DoomedPublished'
    BY <2>1, <2>2, <2>5 DEF IInv, DoomedPublished
  <2>7. JobsOwnKept'
    BY <2>1, <2>2, <2>5 DEF IInv, JobsOwnKept
  <2> QED
    BY <1>0, <2>3, <2>4, <2>6, <2>7 DEF IInv
<1>9. CASE UnlinkFails
  <2>1. UNCHANGED <<lock, thread, degraded, name, body, manifest, kind, last, staged, damageSeen>>
    BY <1>9 DEF UnlinkFails, disk
  <2>2. doomed' \subseteq doomed /\ half' \in {half, None} /\ thread[Job].pc = "pruning"
    BY <1>9 DEF UnlinkFails
  <2>3. None \notin Snapshots /\ doomed \subseteq Snapshots
    BY DEF None, Snapshots, IInv, TypeOK
  <2>4. /\ LockHeld' /\ StagePlaceFree' /\ StagedIsSound' /\ FlagOwed'
        /\ UnusedIsBlank' /\ CopyUnpublished' /\ ManifestSound'
    BY <2>1 DEF IInv, LockHeld, StagePlaceFree, StagedIsSound, FlagOwed, UnusedIsBlank,
                CopyUnpublished, ManifestSound
  <2>5. DoomedPublished' /\ JobsOwnKept'
    BY <2>1, <2>2, <2>3 DEF IInv, DoomedPublished, JobsOwnKept
  <2> QED
    BY <1>0, <2>4, <2>5 DEF IInv
<1>10. CASE EndJob \/ Vacuum
  <2>1. /\ \A q \in Threads \ {Job} : thread'[q] = thread[q]
        /\ \/ thread'[Job].pc = "idle"
           \/ /\ thread'[Job].pc = "vacuum"
              /\ thread[Job].pc = "pruning"
              /\ thread'[Job].snap = thread[Job].snap
    BY <1>1, <1>10 DEF EndJob, Vacuum, Pruned, IInv, TypeOK, ThreadStates, Idle
  <2>2. UNCHANGED <<lock, name, body, manifest, kind, last, staged, doomed, half, damageSeen>>
    BY <1>10 DEF EndJob, Vacuum, disk, pruning
  <2>3. doomed = {} /\ half = None
    BY <1>10 DEF EndJob, Vacuum, Pruned, IInv, DoomedPublished
  <2>4. LockHeld' /\ StagePlaceFree'
    BY <2>1, <2>2 DEF IInv, LockHeld, StagePlaceFree, Creating, Staging
  <2>5. CopyUnpublished'
    BY <2>1, <2>2 DEF IInv, CopyUnpublished
  <2>6. UnusedIsBlank' /\ ManifestSound' /\ StagedIsSound'
    BY <2>2 DEF IInv, UnusedIsBlank, ManifestSound, StagedIsSound
  <2>7. DoomedPublished'
    BY <2>2, <2>3 DEF DoomedPublished
  <2>8. JobsOwnKept'
    BY <2>1, <2>2 DEF IInv, JobsOwnKept
  <2>9. FlagOwed'
    <3>1. CASE EndJob
      BY <3>1, Zenon DEF IInv, FlagOwed, EndJob
    <3>2. CASE Vacuum
      BY <3>2 DEF IInv, FlagOwed, Vacuum
    <3> QED
      BY <1>10, <3>1, <3>2
  <2> QED
    BY <1>0, <2>4, <2>5, <2>6, <2>7, <2>8, <2>9 DEF IInv
<1> QED
  BY <1>2, <1>3, <1>4, <1>5, <1>6, <1>7, <1>8, <1>9, <1>10 DEF JobOnly, PruneStep

\* restore_stage keeps the invariant.
LEMMA StageIInv ==
    ASSUME CatalogAssumption, IInv, NEW r \in Requests, StageOnly(r)
    PROVE  IInv'
<1>0. TypeOK'
  BY StageType
<1>1. Job \in Threads /\ r \in Threads /\ r # Job
  BY CatalogAssumption DEF Threads
<1>2. CASE ManualAcquires(r) \/ \E s \in 1..last : StartStage(r, s)
  <2>1. /\ \A q \in Threads \ {r} : thread'[q] = thread[q]
        /\ thread'[r].pc \in {"copy", "verify"}
        /\ thread'[r].pc = "verify" => thread'[r].snap \in 1..last
        /\ thread[r].pc = "idle"
    BY <1>1, <1>2 DEF ManualAcquires, StartStage, IInv, TypeOK, ThreadStates
  <2>2. UNCHANGED <<degraded, name, body, manifest, kind, last, staged, doomed, half, damageSeen>>
    BY <1>2 DEF ManualAcquires, StartStage, disk, pruning
  <2>3. lock = Nobody /\ lock' = r
    BY <1>2 DEF ManualAcquires, StartStage
  <2>4. \A q \in Threads : thread[q].pc \notin Creating \union Staging
    BY <2>3, CatalogAssumption DEF IInv, LockHeld, Threads, Job, Nobody
  <2>5. LockHeld'
    BY <2>1, <2>3, <2>4 DEF LockHeld
  <2>6. CopyUnpublished'
    BY <2>1, <2>4 DEF CopyUnpublished, Creating
  <2>7. StagePlaceFree'
    <3>1. 1..last \subseteq Snapshots
      BY CatalogAssumption DEF IInv, TypeOK, Snapshots
    <3>2. thread'[r].pc \in Staging => thread'[r].snap \in Snapshots
      BY <2>1, <3>1 DEF Staging
    <3>3. \A q \in Threads \ {r} : thread'[q].pc \notin Staging
      BY <2>1, <2>4
    <3> QED
      BY <2>1, <3>2, <3>3 DEF StagePlaceFree, Staging
  <2>8. UnusedIsBlank' /\ ManifestSound' /\ StagedIsSound'
    BY <2>2 DEF IInv, UnusedIsBlank, ManifestSound, StagedIsSound
  <2>9. DoomedPublished' /\ FlagOwed' /\ JobsOwnKept'
    BY <1>1, <2>1, <2>2 DEF IInv, DoomedPublished, FlagOwed, JobsOwnKept
  <2> QED
    BY <1>0, <2>5, <2>6, <2>7, <2>8, <2>9 DEF IInv
<1>3. CASE StageVerifies(r) \/ (StageCopies(r) /\ name[thread[r].snap] = "db")
  <2>1. /\ \A q \in Threads \ {r} : thread'[q] = thread[q]
        /\ thread'[r].pc \in {"stage", "compare"}
        /\ thread'[r].snap = thread[r].snap
    BY <1>1, <1>3 DEF StageVerifies, StageCopies, IInv, TypeOK, ThreadStates
  <2>2. UNCHANGED <<lock, degraded, name, body, manifest, kind, last, staged, doomed, half,
                    damageSeen>>
    BY <1>3 DEF StageVerifies, StageCopies, disk, pruning
  <2>3. staged = {} /\ thread[r].snap \in Snapshots /\ thread[r].pc \in Staging
    BY <1>1, <1>3 DEF StageVerifies, StageCopies, IInv, StagePlaceFree, Staging
  <2>4. LockHeld'
    BY <1>1, <2>1, <2>2, <2>3 DEF IInv, LockHeld
  <2>5. StagePlaceFree'
    BY <2>1, <2>2, <2>3 DEF IInv, StagePlaceFree
  <2>6. CopyUnpublished'
    BY <2>1, <2>2 DEF IInv, CopyUnpublished
  <2>7. UnusedIsBlank' /\ ManifestSound' /\ StagedIsSound'
    BY <2>2 DEF IInv, UnusedIsBlank, ManifestSound, StagedIsSound
  <2>8. DoomedPublished' /\ FlagOwed' /\ JobsOwnKept'
    BY <1>1, <2>1, <2>2 DEF IInv, DoomedPublished, FlagOwed, JobsOwnKept
  <2> QED
    BY <1>0, <2>4, <2>5, <2>6, <2>7, <2>8 DEF IInv
<1>4. CASE StageRefused(r)
  BY <1>0, <1>1, <1>4, EndFailedIInv DEF StageRefused, disk, pruning, Staging
<1>5. CASE StageCopies(r) /\ name[thread[r].snap] # "db"
  BY <1>0, <1>1, <1>5, EndFailedIInv DEF StageCopies, disk, pruning, Staging
<1>6. CASE StageCopyFails(r)
  BY <1>0, <1>1, <1>6, EndFailedIInv DEF StageCopyFails, disk, pruning, Staging
<1>7. CASE StageCompares(r)
  <2>1. /\ \A q \in Threads \ {r} : thread'[q] = thread[q]
        /\ thread'[r] = Idle
    BY <1>1, <1>7 DEF StageCompares, IInv, TypeOK
  <2>2. UNCHANGED <<degraded, name, body, manifest, kind, last, doomed, half, damageSeen>>
    BY <1>7 DEF StageCompares, disk, pruning
  <2>3. \A q \in Threads : thread'[q].pc \notin Creating \union Staging
    BY <1>1, <1>7, <2>1, OnlyOne DEF StageCompares, Idle, Creating, Staging
  <2>4. staged = {}
    BY <1>1, <1>7 DEF StageCompares, IInv, StagePlaceFree
  <2>5. LockHeld' /\ StagePlaceFree' /\ CopyUnpublished'
    BY <2>3 DEF LockHeld, StagePlaceFree, CopyUnpublished, Creating, Staging
  <2>6. StagedIsSound'
    BY <1>7, <2>4 DEF StageCompares, StagedIsSound
  <2>7. UnusedIsBlank' /\ ManifestSound'
    BY <2>2 DEF IInv, UnusedIsBlank, ManifestSound
  <2>8. DoomedPublished' /\ FlagOwed' /\ JobsOwnKept'
    BY <1>1, <2>1, <2>2 DEF IInv, DoomedPublished, FlagOwed, JobsOwnKept
  <2> QED
    BY <1>0, <2>5, <2>6, <2>7, <2>8 DEF IInv
<1> QED
  BY <1>2, <1>3, <1>4, <1>5, <1>6, <1>7 DEF StageOnly, StageStep

\* Damage, decay, an emptied stage and a crash keep the invariant.
LEMMA WorldIInv ==
    ASSUME CatalogAssumption, IInv, WorldStep
    PROVE  IInv'
<1>0. TypeOK'
  BY WorldType
<1>1. CASE ClearStage \/ NextDay \/ \E condition \in Conditions : LiveChanges(condition)
  <2>1. UNCHANGED <<lock, thread, degraded, name, body, manifest, kind, last, doomed, half,
                    damageSeen>>
    BY <1>1 DEF ClearStage, NextDay, LiveChanges, disk, pruning
  <2>2. staged' \in {staged, {}}
    BY <1>1 DEF ClearStage, NextDay, LiveChanges
  <2>3. LockHeld' /\ UnusedIsBlank' /\ CopyUnpublished' /\ ManifestSound'
    BY <2>1 DEF IInv, LockHeld, UnusedIsBlank, CopyUnpublished, ManifestSound
  <2>4. DoomedPublished' /\ FlagOwed' /\ JobsOwnKept'
    BY <2>1 DEF IInv, DoomedPublished, FlagOwed, JobsOwnKept
  <2>5. StagePlaceFree' /\ StagedIsSound'
    BY <2>1, <2>2 DEF IInv, StagePlaceFree, StagedIsSound
  <2> QED
    BY <1>0, <2>3, <2>4, <2>5 DEF IInv
<1>2. ASSUME NEW s \in Snapshots, Rot(s)
      PROVE  IInv'
  <2>1. UNCHANGED <<lock, thread, degraded, name, manifest, kind, last, staged, doomed, half,
                    damageSeen>>
    BY <1>2 DEF Rot, pruning
  <2>2. /\ \A t \in Snapshots : body'[t] = IF t = s THEN "rotten" ELSE body[t]
        /\ s \in manifest
    BY <1>2 DEF Rot, Listed, IInv, TypeOK
  <2>3. CopyUnpublished' /\ ManifestSound'
    BY <2>1, <2>2 DEF IInv, TypeOK, CopyUnpublished, ManifestSound
  <2>4. /\ LockHeld' /\ UnusedIsBlank' /\ DoomedPublished' /\ FlagOwed' /\ JobsOwnKept'
        /\ StagePlaceFree' /\ StagedIsSound'
    BY <2>1 DEF IInv, LockHeld, UnusedIsBlank, DoomedPublished, FlagOwed, JobsOwnKept,
                StagePlaceFree, StagedIsSound
  <2> QED
    BY <1>0, <2>3, <2>4 DEF IInv
<1>3. CASE Crash
  <2>1. UNCHANGED <<name, body, manifest, kind, last, staged>>
    BY <1>3 DEF Crash, disk
  <2>2. \A q \in Threads : thread'[q].pc = "idle"
    BY <1>3 DEF Crash, Idle
  <2>3. Job \in Threads
    BY DEF Threads
  <2>4. LockHeld' /\ CopyUnpublished' /\ StagePlaceFree' /\ JobsOwnKept'
    BY <2>2, <2>3 DEF LockHeld, CopyUnpublished, StagePlaceFree, JobsOwnKept, Creating, Staging
  <2>5. UnusedIsBlank' /\ ManifestSound' /\ StagedIsSound'
    BY <2>1 DEF IInv, UnusedIsBlank, ManifestSound, StagedIsSound
  <2>6. DoomedPublished' /\ FlagOwed'
    BY <1>3 DEF Crash, DoomedPublished, FlagOwed
  <2> QED
    BY <1>0, <2>4, <2>5, <2>6 DEF IInv
<1> QED
  BY <1>1, <1>2, <1>3 DEF WorldStep

\* Every step keeps the invariant.
LEMMA NextIInv ==
    ASSUME CatalogAssumption, IInv, [Next]_vars
    PROVE  IInv'
<1>1. CASE UNCHANGED vars
  <2>1. UNCHANGED <<name, body, manifest, kind, day, last, staged, live, today, lock, thread,
                    doomed, half, degraded, damages, faults, crashes, completed, damageSeen>>
    BY <1>1 DEF vars, disk, world, pruning, bounds
  <2>2. TypeOK' /\ LockHeld' /\ UnusedIsBlank' /\ CopyUnpublished' /\ ManifestSound'
    BY <2>1 DEF IInv, TypeOK, LockHeld, UnusedIsBlank, CopyUnpublished, ManifestSound
  <2>3. DoomedPublished' /\ JobsOwnKept' /\ StagePlaceFree' /\ StagedIsSound' /\ FlagOwed'
    BY <2>1 DEF IInv, DoomedPublished, JobsOwnKept, StagePlaceFree, StagedIsSound, FlagOwed
  <2> QED
    BY <2>2, <2>3 DEF IInv
<1>2. Job \in Threads /\ \A r \in Requests : r \in Threads
  BY DEF Threads
<1>3. CASE JobOnly \/ CreateStep(Job)
  BY <1>2, <1>3, JobIInv, CreateIInv
<1>4. ASSUME NEW r \in Requests, StageOnly(r) \/ CreateStep(r)
      PROVE  IInv'
  BY <1>2, <1>4, StageIInv, CreateIInv
<1>5. CASE WorldStep
  BY <1>5, WorldIInv
<1> QED
  BY <1>1, <1>3, <1>4, <1>5 DEF Next, JobStep, RequestStep, JobOnly, StageOnly, WorldStep

(***************************************************************************)
(* Theorems.                                                               *)
(***************************************************************************)
\* Every reachable state satisfies the inductive invariant.
THEOREM Invariance == ASSUME CatalogAssumption PROVE Spec => []IInv
<1>1. Init => IInv
  BY InitIInv
<1>2. IInv /\ [Next]_vars => IInv'
  BY NextIInv
<1> QED
  BY <1>1, <1>2, PTL DEF Spec

\* Whatever the catalog and its jobs do, every variable keeps its type; in
\* particular no copy is ever given a number past the disk's capacity.
THEOREM TypeCorrect == ASSUME CatalogAssumption PROVE Spec => []TypeOK
<1>1. IInv => TypeOK
  BY DEF IInv
<1> QED
  BY <1>1, Invariance, PTL

\* list() and restore_stage never offer a copy that was not sound when its
\* manifest was written.
THEOREM OffersOnlySound == ASSUME CatalogAssumption PROVE Spec => []ListedWasSound
<1>1. IInv => ListedWasSound
  BY DEF IInv, ManifestSound, ListedWasSound, Listed
<1> QED
  BY <1>1, Invariance, PTL

\* .restore-stage holds at most one candidate, and a sound one.
THEOREM StagesOnlySound == ASSUME CatalogAssumption PROVE Spec => []StagedIsSound
<1>1. IInv => StagedIsSound
  BY DEF IInv
<1> QED
  BY <1>1, Invariance, PTL

\* db_vacuum never starts without the snapshot it took first.
THEOREM VacuumIsCovered == ASSUME CatalogAssumption PROVE Spec => []VacuumHasFallback
<1>1. IInv => VacuumHasFallback
  BY DEF IInv, JobsOwnKept, VacuumHasFallback, Listed
<1> QED
  BY <1>1, Invariance, PTL

\* db_integrity_check never ends a failed check without raising its flag.
THEOREM DamageIsFlagged == ASSUME CatalogAssumption PROVE Spec => []DamageFlagged
<1>1. IInv => DamageFlagged
  BY DEF IInv, FlagOwed, DamageFlagged
<1> QED
  BY <1>1, Invariance, PTL

\* A step leaves a copy that shows damage where it is, or fails in staging it:
\* retention only deletes what was published, and what was published was sound.
LEMMA NextKeepsEvidence ==
    ASSUME CatalogAssumption, IInv, [Next]_vars
    PROVE  KeepsEvidence
<1> SUFFICES ASSUME NEW s \in Snapshots, name[s] # "none", body[s] \in Conditions \ {"sound"}
             PROVE  \/ name'[s] # "none" /\ body'[s] = body[s]
                    \/ /\ name[s] = "tmp" /\ faults' = faults + 1
                       /\ \E p \in Threads : thread[p].pc = "quick" /\ thread[p].snap = s
  BY DEF KeepsEvidence, ShowsDamage
<1> DEFINE Kept == name'[s] # "none" /\ body'[s] = body[s]
           Failed == /\ name[s] = "tmp" /\ faults' = faults + 1
                     /\ \E p \in Threads : thread[p].pc = "quick" /\ thread[p].snap = s
<1>1. CASE UNCHANGED <<name, body>>
  BY <1>1
<1>2. body[s] # "sound" /\ body[s] # "rotten" /\ s \notin manifest
  BY DEF Conditions, IInv, ManifestSound
<1>3. ASSUME NEW p \in Threads, CreateStep(p)
      PROVE  Kept \/ Failed
  <2>1. CASE Copy(p)
    <3>1. last \in Nat /\ last + 1 \in Snapshots
      BY <2>1, CatalogAssumption DEF Copy, IInv, TypeOK, Snapshots
    <3>2. s # last + 1
      BY <3>1 DEF IInv, UnusedIsBlank
    <3> QED
      BY <2>1, <3>1, <3>2 DEF Copy, IInv, TypeOK
  <2>2. CASE QuickCheck(p)
    BY <2>2 DEF QuickCheck, IInv, TypeOK, CopyUnpublished
  <2>3. CASE StagingFails(p)
    <3>1. CASE s = thread[p].snap
      BY <2>3, <3>1 DEF StagingFails, Fault, IInv, CopyUnpublished
    <3>2. CASE s # thread[p].snap
      BY <2>3, <3>2 DEF StagingFails, IInv, TypeOK
    <3> QED
      BY <3>1, <3>2
  <2>4. CASE Inspect(p)
    BY <2>4 DEF Inspect, IInv, TypeOK
  <2>5. CASE PublishFails(p)
    <3>1. s # thread[p].snap
      BY <1>2, <2>5 DEF PublishFails, IInv, CopyUnpublished
    <3> QED
      BY <2>5, <3>1 DEF PublishFails, IInv, TypeOK
  <2>6. CASE CreateRefused(p) \/ InspectFails(p) \/ Publish(p)
    BY <1>1, <2>6 DEF CreateRefused, InspectFails, Publish, disk
  <2> QED
    BY <1>3, <2>1, <2>2, <2>3, <2>4, <2>5, <2>6 DEF CreateStep
<1>4. ASSUME NEW t \in doomed, UnlinkSnapshot(t)
      PROVE  Kept
  <2>1. s # t
    BY <1>2 DEF IInv, DoomedPublished
  <2> QED
    BY <1>4, <2>1 DEF UnlinkSnapshot, IInv, TypeOK
<1>5. ASSUME NEW t \in Snapshots, Rot(t)
      PROVE  Kept
  BY <1>2, <1>5 DEF Rot, Listed, IInv, TypeOK
<1>6. Job \in Threads /\ \A r \in Requests : r \in Threads
  BY DEF Threads
<1>7. CASE UNCHANGED vars
  BY <1>1, <1>7 DEF vars, disk
<1>8. CASE JobOnly
  BY <1>1, <1>4, <1>8
  DEF JobOnly, PruneStep, StartJob, CheckIntegrity, AutoAcquires, AutoTimesOut, SelectDoomed,
      UnlinkManifest, UnlinkFails, EndJob, Vacuum, disk
<1>9. ASSUME NEW r \in Requests, StageOnly(r)
      PROVE  Kept
  BY <1>1, <1>9
  DEF StageOnly, StageStep, ManualAcquires, StartStage, StageVerifies, StageRefused,
      StageCopies, StageCopyFails, StageCompares, disk
<1>10. CASE WorldStep
  BY <1>1, <1>5, <1>10 DEF WorldStep, ClearStage, NextDay, LiveChanges, Crash, disk
<1> QED
  BY <1>3, <1>6, <1>7, <1>8, <1>9, <1>10
  DEF Next, JobStep, RequestStep, JobOnly, StageOnly, WorldStep

\* A copy that shows damage of the live store is neither removed nor overwritten,
\* by whatever prune, crash, failure or other thread; only a file operation that
\* fails in its own staging, before its first rename, can cost it (backup.py).
THEOREM EvidenceIsKept == ASSUME CatalogAssumption PROVE Spec => EvidenceKept
<1>1. IInv /\ [Next]_vars => [KeepsEvidence]_vars
  BY NextKeepsEvidence
<1> QED
  BY <1>1, Invariance, PTL DEF Spec, EvidenceKept

(***************************************************************************)
(* Retention never costs a recovery point: every completed snapshot is     *)
(* still offered unless enough later ones have replaced it, for every      *)
(* Keep, every interleaving with manual backups and every crash.           *)
(***************************************************************************)
\* A completed snapshot is no longer being created.
CompletedIsDone ==
    \A s \in completed :
        /\ s <= last
        /\ \A p \in Threads :
              thread[p].pc \in {"quick", "inspect", "publish"} => thread[p].snap # s

\* What is offered was reported as completed.
OfferedWasCompleted == \A s \in manifest : name[s] = "db" => s \in completed

\* Whose manifest is about to go has lost its database already.
HalfIsGone == half # None => half \in completed /\ name[half] = "none"

\* What retention is going to delete has been replaced.
DoomedSuperseded == \A s \in doomed : s \in completed /\ Superseded(s)

DaysPast == \A s \in Snapshots : day[s] <= today

RInv ==
    /\ IInv
    /\ CompletedIsDone
    /\ OfferedWasCompleted
    /\ HalfIsGone
    /\ DoomedSuperseded
    /\ DaysPast
    /\ RecoveryPointsKept

\* The empty catalog satisfies the invariant.
LEMMA InitRInv ==
    ASSUME CatalogAssumption, Init
    PROVE  RInv
<1>1. IInv
  BY InitIInv
<1> QED
  BY <1>1 DEF Init, RInv, CompletedIsDone, OfferedWasCompleted, HalfIsGone, DoomedSuperseded,
              DaysPast, RecoveryPointsKept

\* A disk of bounded size holds finitely many snapshots.
LEMMA SnapshotsFinite == ASSUME CatalogAssumption PROVE IsFiniteSet(Snapshots)
BY FS_Interval, CatalogAssumption DEF Snapshots

\* The sets that retention counts are finite.
LEMMA CountsFinite ==
    ASSUME CatalogAssumption, TypeOK, DaysPast, NEW s \in Snapshots
    PROVE  IsFiniteSet(NewerThan(s)) /\ IsFiniteSet(LaterDays(s))
<1>1. IsFiniteSet(Snapshots)
  BY SnapshotsFinite
<1>2. NewerThan(s) \in SUBSET Snapshots
  BY DEF NewerThan, CompletedAuto, TypeOK
<1>3. IsFiniteSet(NewerThan(s))
  BY <1>1, <1>2, FS_Subset
<1>4. LaterDays(s) \in SUBSET Nat /\ \A d \in LaterDays(s) : d <= today
  BY DEF LaterDays, CompletedAuto, TypeOK, DaysPast
<1>5. today \in Nat
  BY DEF TypeOK
<1>6. IsFiniteSet(LaterDays(s))
  BY <1>4, <1>5, FS_BoundedSetOfNaturals
<1> QED
  BY <1>3, <1>6

\* What the prune selects has been replaced by other completed snapshots.
LEMMA SelectedSuperseded ==
    ASSUME CatalogAssumption, RInv, NEW s \in Candidates \ Retained(Candidates)
    PROVE  s \in completed /\ Superseded(s)
<1> DEFINE newer == {t \in Candidates : t > s}
           days == {day[t] : t \in {u \in Candidates : day[u] > day[s]}}
<1>1. s \in Snapshots /\ Candidates \subseteq CompletedAuto
  BY DEF Candidates, CompletedAuto, Listed, RInv, OfferedWasCompleted
<1>2. newer \in SUBSET NewerThan(s) /\ days \in SUBSET LaterDays(s)
  BY <1>1 DEF NewerThan, LaterDays
<1>3. IsFiniteSet(NewerThan(s)) /\ IsFiniteSet(LaterDays(s))
  BY <1>1, CountsFinite DEF RInv, IInv
<1>4. /\ Cardinality(newer) \in Nat /\ Cardinality(days) \in Nat
      /\ Cardinality(newer) <= Cardinality(NewerThan(s))
      /\ Cardinality(days) <= Cardinality(LaterDays(s))
      /\ Cardinality(NewerThan(s)) \in Nat /\ Cardinality(LaterDays(s)) \in Nat
  BY <1>2, <1>3, FS_Subset, FS_CardinalityType
<1>5. /\ ~(Cardinality(newer) < Keep)
      /\ ~((\A t \in Candidates : day[t] = day[s] => t <= s) /\ Cardinality(days) < Keep)
  BY DEF Retained
<1>6. Cardinality(NewerThan(s)) >= Keep
  BY <1>4, <1>5, CatalogAssumption
<1>7. CASE Cardinality(days) < Keep
  <2>1. PICK t \in Candidates : day[t] = day[s] /\ ~(t <= s)
    BY <1>5, <1>7
  <2>2. t > s
    BY <1>1, <2>1 DEF Candidates, Snapshots
  <2> QED
    BY <1>1, <1>6, <2>1, <2>2 DEF Superseded, NewerThan, CompletedAuto
<1>8. CASE ~(Cardinality(days) < Keep)
  <2>1. Cardinality(LaterDays(s)) >= Keep
    BY <1>4, <1>8, CatalogAssumption
  <2> QED
    BY <1>1, <1>6, <2>1 DEF Superseded, CompletedAuto
<1> QED
  BY <1>7, <1>8

\* Once replaced, always replaced: completed snapshots keep their kind and
\* their day, and are never forgotten.
LEMMA SupersededStays ==
    ASSUME CatalogAssumption, TypeOK, TypeOK', DaysPast',
           completed \subseteq completed',
           \A t \in completed : kind'[t] = kind[t] /\ day'[t] = day[t],
           NEW s \in completed, Superseded(s)
    PROVE  Superseded(s)'
<1>1. s \in Snapshots /\ s \in completed
  BY DEF TypeOK
<1>2. CompletedAuto \subseteq CompletedAuto'
  BY DEF CompletedAuto
<1>3. NewerThan(s) \in SUBSET NewerThan(s)'
  BY <1>2 DEF NewerThan
<1>4. LaterDays(s) \in SUBSET LaterDays(s)'
  <2>1. \A t \in CompletedAuto : day'[t] = day[t]
    BY DEF CompletedAuto
  <2>2. ASSUME NEW d \in LaterDays(s)
        PROVE  d \in LaterDays(s)'
    <3>1. PICK t \in CompletedAuto : d = day[t] /\ day[t] > day[s]
      BY DEF LaterDays
    <3>2. t \in CompletedAuto' /\ d = day'[t] /\ day'[t] > day'[s]
      BY <1>1, <1>2, <2>1, <3>1
    <3> QED
      BY <3>2 DEF LaterDays
  <2> QED
    BY <2>2
<1>5. IsFiniteSet(NewerThan(s)') /\ IsFiniteSet(LaterDays(s)')
  <2>1. IsFiniteSet(Snapshots)
    BY SnapshotsFinite
  <2>2. NewerThan(s)' \in SUBSET Snapshots
    BY DEF NewerThan, CompletedAuto, TypeOK
  <2>3. LaterDays(s)' \in SUBSET Nat /\ (\A d \in LaterDays(s)' : d <= today') /\ today' \in Nat
    BY DEF LaterDays, CompletedAuto, TypeOK, DaysPast
  <2> QED
    BY <2>1, <2>2, <2>3, FS_Subset, FS_BoundedSetOfNaturals
<1>6. /\ Cardinality(NewerThan(s)) <= Cardinality(NewerThan(s)')
      /\ Cardinality(LaterDays(s)) <= Cardinality(LaterDays(s)')
      /\ Cardinality(NewerThan(s)) \in Nat /\ Cardinality(NewerThan(s)') \in Nat
      /\ Cardinality(LaterDays(s)) \in Nat /\ Cardinality(LaterDays(s)') \in Nat
  BY <1>3, <1>4, <1>5, FS_Subset, FS_CardinalityType
<1>7. Cardinality(NewerThan(s)') >= Keep
  BY <1>6, CatalogAssumption DEF Superseded
<1>8. CASE Cardinality(LaterDays(s)) >= Keep
  <2>1. Cardinality(LaterDays(s)') >= Keep
    BY <1>6, <1>8, CatalogAssumption
  <2> QED
    BY <1>1, <1>7, <2>1 DEF Superseded
<1>9. CASE \E t \in NewerThan(s) : day[t] = day[s]
  <2>1. \E t \in NewerThan(s)' : day'[t] = day'[s]
    BY <1>1, <1>3, <1>9 DEF NewerThan, CompletedAuto
  <2> QED
    BY <1>1, <1>7, <2>1 DEF Superseded
<1> QED
  BY <1>8, <1>9 DEF Superseded

\* A step that completes nothing, spares the directory of what is completed
\* and takes no more snapshots to delete keeps the counting part.
LEMMA KeepsRecoveryPoints ==
    ASSUME CatalogAssumption, RInv, IInv', DaysPast',
           completed \subseteq completed',
           \A t \in completed : kind'[t] = kind[t] /\ day'[t] = day[t],
           \A t \in completed : Listed(t) => Listed(t)' \/ Superseded(t),
           \A t \in completed' \ completed : Listed(t)',
           \A t \in doomed' : t \in completed /\ Superseded(t)
    PROVE  DoomedSuperseded' /\ RecoveryPointsKept'
<1>1. TypeOK /\ TypeOK'
  BY DEF RInv, IInv
<1>2. \A s \in completed : Superseded(s) => Superseded(s)'
  BY <1>1, SupersededStays
<1>3. DoomedSuperseded'
  BY <1>2 DEF DoomedSuperseded
<1>4. RecoveryPointsKept'
  BY <1>2 DEF RInv, RecoveryPointsKept
<1> QED
  BY <1>3, <1>4

\* Every step keeps the invariant.
LEMMA NextRInv ==
    ASSUME CatalogAssumption, RInv, [Next]_vars
    PROVE  RInv'
<1>0. IInv /\ IInv' /\ TypeOK /\ TypeOK'
  BY NextIInv DEF RInv, IInv
<1>1. \A t \in doomed : t \in completed /\ Superseded(t)
  BY DEF RInv, DoomedSuperseded
<1>2. ASSUME UNCHANGED <<name, manifest, kind, day, last, completed>>,
             today <= today', today' \in Nat,
             doomed' \subseteq doomed \/ doomed' = Candidates \ Retained(Candidates),
             half' \in {half, None},
             \A p \in Threads :
                \/ thread'[p] = thread[p]
                \/ thread'[p].pc \notin {"quick", "inspect", "publish"}
                \/ /\ thread[p].pc \in {"quick", "inspect", "publish"}
                   /\ thread'[p].snap = thread[p].snap
      PROVE  RInv'
  <2>1. CompletedIsDone'
    BY <1>2 DEF RInv, CompletedIsDone
  <2>2. OfferedWasCompleted' /\ HalfIsGone'
    BY <1>2 DEF RInv, OfferedWasCompleted, HalfIsGone
  <2>3. DaysPast'
    BY <1>0, <1>2 DEF RInv, DaysPast, TypeOK
  <2>4. \A t \in doomed' : t \in completed /\ Superseded(t)
    BY <1>1, <1>2, SelectedSuperseded
  <2>5. \A t \in completed : Listed(t) => Listed(t)'
    BY <1>2 DEF Listed
  <2>6. DoomedSuperseded' /\ RecoveryPointsKept'
    BY <1>0, <1>2, <2>3, <2>4, <2>5, KeepsRecoveryPoints
  <2> QED
    BY <1>0, <2>1, <2>2, <2>3, <2>6 DEF RInv
<1>3. ASSUME NEW p \in Threads, thread[p].pc \in {"quick", "inspect", "publish"},
             UNCHANGED <<kind, day, last, completed, today, doomed, half>>,
             \A s \in Snapshots \ {thread[p].snap} : name'[s] = name[s],
             \/ manifest' = manifest
             \/ /\ manifest' = manifest \union {thread[p].snap}
                /\ name'[thread[p].snap] = "none",
             \A q \in Threads :
                \/ q # p /\ thread'[q] = thread[q]
                \/ thread'[q].pc \notin {"quick", "inspect", "publish"}
                \/ q = p /\ thread'[q].snap = thread[q].snap
      PROVE  RInv'
  <2>1. /\ thread[p].snap \in Snapshots
        /\ thread[p].snap \notin manifest
        /\ thread[p].snap \notin completed
    BY <1>0, <1>3 DEF RInv, IInv, CopyUnpublished, CompletedIsDone
  <2>2. CompletedIsDone'
    BY <1>3 DEF RInv, CompletedIsDone
  <2>3. OfferedWasCompleted'
    BY <1>0, <1>3, <2>1 DEF RInv, OfferedWasCompleted, TypeOK
  <2>4. HalfIsGone'
    BY <1>0, <1>3, <2>1 DEF RInv, HalfIsGone, TypeOK
  <2>5. DaysPast'
    BY <1>3 DEF RInv, DaysPast
  <2>6. \A t \in completed : Listed(t) => Listed(t)'
    BY <1>0, <1>3, <2>1 DEF Listed, TypeOK
  <2>7. DoomedSuperseded' /\ RecoveryPointsKept'
    BY <1>0, <1>1, <1>3, <2>5, <2>6, KeepsRecoveryPoints
  <2> QED
    BY <1>0, <2>2, <2>3, <2>4, <2>5, <2>7 DEF RInv
<1>4. ASSUME NEW p \in Threads, CreateStep(p)
      PROVE  RInv'
  <2>1. ASSUME EndFailed(p)
        PROVE  \A q \in Threads : thread'[q] = IF q = p THEN Idle ELSE thread[q]
    BY <1>0, <2>1 DEF EndFailed, TypeOK
  <2>2. CASE CreateRefused(p) \/ InspectFails(p)
    BY <1>0, <1>2, <2>1, <2>2 DEF CreateRefused, InspectFails, disk, world, pruning, Idle, TypeOK
  <2>3. CASE Copy(p)
    <3>1. last \in Nat /\ last + 1 \in Snapshots /\ last' = last + 1
      BY <1>0, <2>3, CatalogAssumption DEF Copy, TypeOK, Snapshots
    <3>2. /\ \A s \in Snapshots \ {last + 1} :
                name'[s] = name[s] /\ kind'[s] = kind[s] /\ day'[s] = day[s]
          /\ name'[last + 1] = "tmp"
          /\ day'[last + 1] = today
      BY <1>0, <2>3, <3>1 DEF Copy, TypeOK
    <3>3. UNCHANGED <<manifest, completed, doomed, half, today>>
      BY <2>3 DEF Copy, world, pruning
    <3>4. /\ \A q \in Threads \ {p} : thread'[q] = thread[q]
          /\ thread'[p].snap = last + 1
      BY <1>0, <2>3 DEF Copy, TypeOK, ThreadStates
    <3>5. completed \subseteq Snapshots \ {last + 1}
      BY <1>0, <3>1 DEF RInv, CompletedIsDone, TypeOK, Snapshots
    <3>6. CompletedIsDone'
      <4>1. \A s \in completed : s <= last'
        BY <1>0, <3>1 DEF RInv, CompletedIsDone, TypeOK, Snapshots
      <4> QED
        BY <3>3, <3>4, <3>5, <4>1 DEF RInv, CompletedIsDone
    <3>7. OfferedWasCompleted' /\ HalfIsGone'
      BY <1>0, <3>2, <3>3, <3>5 DEF RInv, OfferedWasCompleted, HalfIsGone, TypeOK
    <3>8. DaysPast'
      BY <1>0, <3>2, <3>3 DEF RInv, DaysPast, TypeOK
    <3>9. \A t \in completed : Listed(t) => Listed(t)'
      BY <3>2, <3>3, <3>5 DEF Listed
    <3>10. DoomedSuperseded' /\ RecoveryPointsKept'
      <4>1. \A t \in completed : kind'[t] = kind[t] /\ day'[t] = day[t]
        BY <3>2, <3>5
      <4>2. \A t \in doomed' : t \in completed /\ Superseded(t)
        BY <1>1, <3>3
      <4> QED
        BY <1>0, <3>3, <3>8, <3>9, <4>1, <4>2, KeepsRecoveryPoints
    <3> QED
      BY <1>0, <3>6, <3>7, <3>8, <3>10 DEF RInv
  <2>4. CASE QuickCheck(p)
    <3>1. \A s \in Snapshots \ {thread[p].snap} : name'[s] = name[s]
      BY <1>0, <2>4 DEF QuickCheck, TypeOK
    <3>2. \A q \in Threads :
             \/ q # p /\ thread'[q] = thread[q]
             \/ thread'[q].pc \notin {"quick", "inspect", "publish"}
             \/ q = p /\ thread'[q].snap = thread[q].snap
      BY <1>0, <2>1, <2>4 DEF QuickCheck, TypeOK, ThreadStates, Idle
    <3> QED
      BY <1>3, <2>4, <3>1, <3>2 DEF QuickCheck, world, pruning
  <2>8. CASE StagingFails(p)
    <3>1. \A s \in Snapshots \ {thread[p].snap} : name'[s] = name[s]
      BY <1>0, <2>8 DEF StagingFails, TypeOK
    <3>2. \A q \in Threads :
             \/ q # p /\ thread'[q] = thread[q]
             \/ thread'[q].pc \notin {"quick", "inspect", "publish"}
      BY <1>0, <2>1, <2>8 DEF StagingFails, TypeOK, ThreadStates, Idle
    <3> QED
      BY <1>3, <2>8, <3>1, <3>2 DEF StagingFails, world, pruning
  <2>5. CASE Inspect(p)
    <3>1. \A s \in Snapshots \ {thread[p].snap} : name'[s] = name[s]
      BY <1>0, <2>5 DEF Inspect, TypeOK
    <3>2. \A q \in Threads :
             \/ q # p /\ thread'[q] = thread[q]
             \/ thread'[q].pc \notin {"quick", "inspect", "publish"}
             \/ q = p /\ thread'[q].snap = thread[q].snap
      BY <1>0, <2>1, <2>5 DEF Inspect, TypeOK, ThreadStates, Idle
    <3> QED
      BY <1>3, <2>5, <3>1, <3>2 DEF Inspect, world, pruning
  <2>6. CASE Publish(p)
    <3> DEFINE s == thread[p].snap
    <3>1. s \in Snapshots /\ s <= last /\ name[s] = "db"
      BY <1>0, <2>6 DEF Publish, IInv, CopyUnpublished
    <3>2. UNCHANGED <<name, kind, day, last, today, doomed, half>>
      BY <2>6 DEF Publish, world, pruning
    <3>3. manifest' = manifest \union {s} /\ completed' = completed \union {s}
      BY <2>6 DEF Publish
    <3>4. \A q \in Threads : thread'[q].pc \notin {"quick", "inspect", "publish"}
      <4>1. \A q \in Threads \ {p} : thread[q].pc \notin Creating \union Staging
        BY <1>0, <2>6, OnlyOne DEF Publish, Creating
      <4>2. /\ \A q \in Threads \ {p} : thread'[q] = thread[q]
            /\ thread'[p].pc \in {"prune", "idle"}
        BY <1>0, <2>6 DEF Publish, TypeOK, ThreadStates, Idle
      <4> QED
        BY <4>1, <4>2 DEF Creating
    <3>5. CompletedIsDone'
      BY <3>1, <3>2, <3>3, <3>4 DEF RInv, CompletedIsDone
    <3>6. OfferedWasCompleted' /\ HalfIsGone' /\ DaysPast'
      BY <3>2, <3>3 DEF RInv, OfferedWasCompleted, HalfIsGone, DaysPast
    <3>7. /\ \A t \in completed : Listed(t) => Listed(t)'
          /\ \A t \in completed' \ completed : Listed(t)'
      BY <3>1, <3>2, <3>3 DEF Listed
    <3>8. DoomedSuperseded' /\ RecoveryPointsKept'
      BY <1>0, <1>1, <3>2, <3>3, <3>6, <3>7, KeepsRecoveryPoints
    <3> QED
      BY <1>0, <3>5, <3>6, <3>8 DEF RInv
  <2>7. CASE PublishFails(p)
    <3>1. \A s \in Snapshots \ {thread[p].snap} : name'[s] = name[s]
      BY <1>0, <2>7 DEF PublishFails, TypeOK
    <3>2. name'[thread[p].snap] = "none"
      BY <1>0, <2>7 DEF PublishFails, TypeOK, IInv, CopyUnpublished
    <3>3. \A q \in Threads :
             \/ q # p /\ thread'[q] = thread[q]
             \/ thread'[q].pc \notin {"quick", "inspect", "publish"}
      BY <2>1, <2>7 DEF PublishFails, Idle
    <3> QED
      BY <1>3, <2>7, <3>1, <3>2, <3>3 DEF PublishFails, world, pruning
  <2> QED
    BY <1>4, <2>2, <2>3, <2>4, <2>5, <2>6, <2>7, <2>8 DEF CreateStep
<1>5. ASSUME NEW s \in doomed, UnlinkSnapshot(s)
      PROVE  RInv'
  <2>1. s \in Snapshots /\ s \in completed /\ Superseded(s)
    BY <1>0, <1>1 DEF TypeOK
  <2>2. \A t \in Snapshots : name'[t] = IF t = s THEN "none" ELSE name[t]
    BY <1>0, <1>5 DEF UnlinkSnapshot, TypeOK
  <2>3. UNCHANGED <<manifest, kind, day, last, today, thread, completed>>
    BY <1>5 DEF UnlinkSnapshot, world
  <2>4. doomed' \subseteq doomed /\ half' = s
    BY <1>5 DEF UnlinkSnapshot
  <2>5. CompletedIsDone' /\ OfferedWasCompleted' /\ HalfIsGone' /\ DaysPast'
    BY <1>0, <2>1, <2>2, <2>3, <2>4
    DEF RInv, CompletedIsDone, OfferedWasCompleted, HalfIsGone, DaysPast, TypeOK
  <2>6. \A t \in completed : Listed(t) => Listed(t)' \/ Superseded(t)
    BY <1>0, <2>1, <2>2, <2>3 DEF Listed, TypeOK
  <2>7. DoomedSuperseded' /\ RecoveryPointsKept'
    BY <1>0, <1>1, <2>3, <2>4, <2>5, <2>6, KeepsRecoveryPoints
  <2> QED
    BY <1>0, <2>5, <2>7 DEF RInv
<1>6. CASE UnlinkManifest
  <2>1. UNCHANGED <<name, kind, day, last, today, thread, completed, doomed>>
    BY <1>6 DEF UnlinkManifest, world
  <2>2. manifest' = manifest \ {half} /\ half' = None /\ half # None
    BY <1>6 DEF UnlinkManifest
  <2>3. CompletedIsDone' /\ OfferedWasCompleted' /\ HalfIsGone' /\ DaysPast'
    BY <2>1, <2>2 DEF RInv, CompletedIsDone, OfferedWasCompleted, HalfIsGone, DaysPast
  <2>4. \A t \in completed : Listed(t) => Listed(t)'
    BY <2>1, <2>2 DEF RInv, HalfIsGone, Listed
  <2>5. DoomedSuperseded' /\ RecoveryPointsKept'
    BY <1>0, <1>1, <2>1, <2>3, <2>4, KeepsRecoveryPoints
  <2> QED
    BY <1>0, <2>3, <2>5 DEF RInv
<1>7. Job \in Threads /\ \A r \in Requests : r \in Threads
  BY DEF Threads
<1>8. today \in Nat
  BY <1>0 DEF TypeOK
<1>9. CASE UNCHANGED vars
  BY <1>2, <1>8, <1>9 DEF vars, disk, world, pruning
<1>10. CASE JobOnly
  <2>1. CASE \/ \E purpose \in Purposes : StartJob(purpose)
             \/ CheckIntegrity \/ AutoAcquires \/ AutoTimesOut \/ EndJob \/ Vacuum
    <3>1. UNCHANGED <<name, manifest, kind, day, last, completed, today, doomed, half>>
      BY <2>1 DEF StartJob, CheckIntegrity, AutoAcquires, AutoTimesOut, EndJob, Vacuum,
                  disk, world, pruning
    <3>2. /\ \A q \in Threads \ {Job} : thread'[q] = thread[q]
          /\ thread'[Job].pc \notin {"quick", "inspect", "publish"}
      <4>0. CASE \E purpose \in Purposes : StartJob(purpose)
        BY <1>0, <1>7, <4>0 DEF StartJob, TypeOK, Idle
      <4>1. CASE CheckIntegrity
        BY <1>0, <1>7, <4>1 DEF CheckIntegrity, TypeOK, Idle
      <4>2. CASE AutoAcquires \/ AutoTimesOut
        BY <1>0, <1>7, <4>2 DEF AutoAcquires, AutoTimesOut, TypeOK, ThreadStates, Idle
      <4>3. CASE EndJob \/ Vacuum
        BY <1>0, <1>7, <4>3 DEF EndJob, Vacuum, TypeOK, ThreadStates, Idle
      <4> QED
        BY <2>1, <4>0, <4>1, <4>2, <4>3
    <3> QED
      BY <1>2, <1>8, <3>1, <3>2
  <2>2. CASE SelectDoomed
    <3>1. UNCHANGED <<name, manifest, kind, day, last, completed, today, half>>
      BY <2>2 DEF SelectDoomed, disk, world
    <3>2. /\ \A q \in Threads \ {Job} : thread'[q] = thread[q]
          /\ thread'[Job].pc = "pruning"
          /\ doomed' = Candidates \ Retained(Candidates)
      BY <1>0, <1>7, <2>2 DEF SelectDoomed, TypeOK, ThreadStates
    <3> QED
      BY <1>2, <1>8, <3>1, <3>2
  <2>3. CASE UnlinkFails
    <3>1. UNCHANGED <<name, manifest, kind, day, last, completed, today, thread>>
      BY <2>3 DEF UnlinkFails, disk, world
    <3>2. doomed' \subseteq doomed /\ half' \in {half, None}
      BY <2>3 DEF UnlinkFails
    <3> QED
      BY <1>2, <1>8, <3>1, <3>2
  <2> QED
    BY <1>5, <1>6, <1>10, <2>1, <2>2, <2>3 DEF JobOnly, PruneStep
<1>11. ASSUME NEW r \in Requests, StageOnly(r)
       PROVE  RInv'
  <2>1. UNCHANGED <<name, manifest, kind, day, last, completed, today, doomed, half>>
    BY <1>11 DEF StageOnly, StageStep, ManualAcquires, StartStage, StageVerifies, StageRefused,
                 StageCopies, StageCopyFails, StageCompares, disk, world, pruning
  <2>2. /\ \A q \in Threads \ {r} : thread'[q] = thread[q]
        /\ thread'[r].pc \notin {"quick", "inspect", "publish"}
    <3>1. CASE ManualAcquires(r) \/ (\E s \in 1..last : StartStage(r, s)) \/ StageVerifies(r)
      BY <1>0, <1>7, <3>1 DEF ManualAcquires, StartStage, StageVerifies, TypeOK, ThreadStates
    <3>2. CASE StageRefused(r) \/ StageCopies(r) \/ StageCopyFails(r) \/ StageCompares(r)
      BY <1>0, <1>7, <3>2 DEF StageRefused, StageCopies, StageCopyFails, StageCompares,
                              EndFailed, Idle, TypeOK, ThreadStates
    <3> QED
      BY <1>11, <3>1, <3>2 DEF StageOnly, StageStep
  <2> QED
    BY <1>2, <1>8, <2>1, <2>2
<1>12. CASE WorldStep
  <2>1. /\ UNCHANGED <<name, manifest, kind, day, last, completed>>
        /\ today <= today' /\ today' \in Nat
        /\ doomed' \subseteq doomed /\ half' \in {half, None}
    BY <1>8, <1>12 DEF WorldStep, ClearStage, NextDay, LiveChanges, Rot, Crash, disk, world, pruning
  <2>2. \A q \in Threads : thread'[q] = thread[q] \/ thread'[q].pc = "idle"
    BY <1>12 DEF WorldStep, ClearStage, NextDay, LiveChanges, Rot, Crash, Idle
  <2> QED
    BY <1>2, <2>1, <2>2
<1> QED
  BY <1>4, <1>7, <1>9, <1>10, <1>11, <1>12
  DEF Next, JobStep, RequestStep, JobOnly, StageOnly, WorldStep

\* _retention_prune, run without the catalog's lock, interrupted anywhere and
\* facing leftovers of failed publications, never deletes a snapshot before
\* later completed ones have replaced it, and never a manual one.
THEOREM RecoveryPointsAreKept ==
    ASSUME CatalogAssumption PROVE Spec => []RecoveryPointsKept
<1>1. Init => RInv
  BY InitRInv
<1>2. RInv /\ [Next]_vars => RInv'
  BY NextRInv
<1>3. RInv => RecoveryPointsKept
  BY DEF RInv
<1> QED
  BY <1>1, <1>2, <1>3, PTL DEF Spec
=============================================================================
