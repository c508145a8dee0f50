-------------------------- MODULE MaintenanceProofs -------------------------
(***************************************************************************)
(* Proofs about the background work: the maintenance loop                  *)
(* (MaintenanceLoop) for any jobs, intervals and clock bound, on the       *)
(* invariant IInv, and the offsite push (CloudPush), an instance of its    *)
(* module, on PIInv.                                                       *)
(***************************************************************************)
EXTENDS MaintenanceLoop, OffsitePush, FiniteSetTheorems, WellFoundedInduction, TLAPS

\* A process that is down has no tasks and shows no outcomes.
DownIsFresh ==
    proc = "down" => \A j \in Jobs : phase[j] = "idle" /\ lastOutcome[j] = "none"

\* Outside its slot a job carries no marks of a run.
NoMarksOutsideSlot ==
    \A j \in Jobs : phase[j] \in {"idle", "queued"}
                        => startedAt[j] = Never /\ ~overlapLogged[j]

\* A success is never newer than the run it belongs to, and no stamp is from
\* the future.
StampsOrdered ==
    \A j \in Jobs :
        /\ lastSuccess[j] <= lastRun[j] /\ lastRun[j] <= clock
        /\ fileSuccess[j] <= fileRun[j] /\ fileRun[j] <= clock

\* A job between its dispatch and its end was due, so its last success is
\* strictly in the past and a failure now will read as newer.
DispatchedIsLater ==
    \A j \in Jobs : phase[j] \in {"queued", "running"} => lastSuccess[j] < clock

\* The stamps of a completed run say how it ended, in memory and in the file.
StampsTellEnding ==
    \A j \in Jobs :
        /\ ended[j] = "failed" => lastSuccess[j] < lastRun[j]
        /\ ended[j] = "ok" => lastSuccess[j] = lastRun[j]
        /\ fileEnded[j] = "failed" => fileSuccess[j] < fileRun[j]
        /\ fileEnded[j] = "ok" => fileSuccess[j] = fileRun[j]

\* A process that could read its file is never behind it.
MemoryNotBehindFile ==
    (proc = "up" /\ readable) => \A j \in Jobs : fileRun[j] <= lastRun[j]

\* The run in its final write has been counted in runsTotal already, so it
\* still has an overlap of its own to report.
OverlapsCounted ==
    \A j \in Jobs :
        runsSkippedOverlap[j] + (IF phase[j] = "persisting" THEN 1 ELSE 0)
            <= runsTotal[j] + (IF overlapLogged[j] THEN 1 ELSE 0)

\* The outcome shown agrees with the stamps in every phase of a live process.
OutcomesAgree ==
    proc = "up" =>
        \A j \in Jobs :
            /\ lastOutcome[j] = "ok" => lastSuccess[j] = lastRun[j]
            /\ lastOutcome[j] \in {"failed", "skipped"} => lastSuccess[j] < lastRun[j]

IInv ==
    /\ TypeOK
    /\ SlotExclusive
    /\ SuccessIsReal
    /\ DownIsFresh
    /\ NoMarksOutsideSlot
    /\ StampsOrdered
    /\ DispatchedIsLater
    /\ StampsTellEnding
    /\ MemoryNotBehindFile
    /\ OverlapsCounted
    /\ OutcomesAgree

\* A fresh process and an empty file satisfy the invariant.
LEMMA InitIInv == Init => IInv
  BY JobsAssumption DEF Init, IInv, TypeOK, SlotExclusive, SuccessIsReal, DownIsFresh,
     NoMarksOutsideSlot, StampsOrdered, DispatchedIsLater, StampsTellEnding,
     MemoryNotBehindFile, OverlapsCounted, OutcomesAgree, All, Never, NoJob,
     Phases, Outcomes, Endings, Time

\* Every step of the loop, its tasks, shutdown and restart keeps the invariant.
LEMMA NextIInv == IInv /\ [Next]_vars => IInv'
<1> SUFFICES ASSUME IInv, [Next]_vars PROVE IInv'
    OBVIOUS
<1> USE JobsAssumption
    DEF IInv, TypeOK, SlotExclusive, SuccessIsReal, DownIsFresh,
        NoMarksOutsideSlot, StampsOrdered, DispatchedIsLater, StampsTellEnding, MemoryNotBehindFile,
        OverlapsCounted, OutcomesAgree, Never, NoJob, Phases, Outcomes, Endings,
        Time, file, memory, Locked
<1>1. CASE Start
  <2>1. CASE readable' = TRUE /\ lastRun' = fileRun /\ lastSuccess' = fileSuccess
               /\ ended' = fileEnded
    BY <1>1, <2>1 DEF Start
  <2>2. CASE readable' = FALSE /\ lastRun' = All(Never) /\ lastSuccess' = All(Never)
               /\ ended' = All("none")
    <3>1. readable' \in BOOLEAN /\ ~readable'
      BY <2>2, Zenon
    <3>2. lastRun' = All(Never) /\ lastSuccess' = All(Never) /\ ended' = All("none")
      BY <2>2, Zenon
    <3>3. proc = "down" /\ proc' = "up"
          /\ UNCHANGED <<clock, phase, ahead, holder, startedAt, overlapLogged,
                         lastOutcome, runsTotal, runsSkippedOverlap, file, okTimes>>
      BY <1>1, Zenon DEF Start
    <3> QED
      BY <3>1, <3>2, <3>3 DEF All
  <2> QED
    BY <1>1, <2>1, <2>2, Zenon DEF Start
<1>2. CASE Crash \/ Exit
  <2>1. overlapLogged' \in [Jobs -> BOOLEAN]
    <3>1. overlapLogged' = [j \in Jobs |-> FALSE]
      BY <1>2, Zenon DEF Crash, Exit, LoseMemory, All
    <3>2. [j \in Jobs |-> FALSE] \in [Jobs -> BOOLEAN]
      BY Zenon
    <3> QED
      BY <3>1, <3>2, Zenon
  <2> QED
    BY <1>2, <2>1 DEF Crash, Exit, LoseMemory, All
<1>3. CASE AdvanceClock
    BY <1>3 DEF AdvanceClock
<1>4. CASE Tick
  <2> USE <1>4 DEF Tick, Spawning, Skipping, Waiting, Overlapping, Due
  <2>1. TypeOK'
    <3>1. overlapLogged' \in [Jobs -> BOOLEAN]
      OBVIOUS
    <3>2. ahead' \in [Jobs -> SUBSET Jobs]
      OBVIOUS
    <3>3. runsSkippedOverlap' \in [Jobs -> Nat]
      OBVIOUS
    <3> QED
      BY <3>1, <3>2, <3>3
  <2>2. OverlapsCounted'
    <3> SUFFICES ASSUME NEW j \in Jobs
                 PROVE runsSkippedOverlap'[j] + (IF phase'[j] = "persisting" THEN 1 ELSE 0)
                           <= runsTotal'[j] + (IF overlapLogged'[j] THEN 1 ELSE 0)
      OBVIOUS
    <3>1. CASE j \in Skipping
      BY <3>1
    <3>2. CASE j \notin Skipping
      BY <3>2
    <3> QED
      BY <3>1, <3>2
  <2>3. SlotExclusive'
    OBVIOUS
  <2>4. SuccessIsReal'
    OBVIOUS
  <2>5. DownIsFresh'
    OBVIOUS
  <2>6. NoMarksOutsideSlot'
    OBVIOUS
  <2>7. StampsOrdered'
    OBVIOUS
  <2>8. DispatchedIsLater'
    OBVIOUS
  <2>9. StampsTellEnding'
    OBVIOUS
  <2>10. MemoryNotBehindFile'
    OBVIOUS
  <2>11. OutcomesAgree'
    OBVIOUS
  <2> QED
    BY <2>1, <2>2, <2>3, <2>4, <2>5, <2>6, <2>7, <2>8, <2>9, <2>10, <2>11
<1>5. CASE Stop
    BY <1>5 DEF Stop, CancelQueued, All
<1>6. ASSUME NEW j \in Jobs, EnterSlot(j) PROVE IInv'
    BY <1>6 DEF EnterSlot, CanEnter, LeaveQueue
<1>7. ASSUME NEW j \in Jobs, EnterSlotWithoutHandler(j) PROVE IInv'
    BY <1>7 DEF EnterSlotWithoutHandler, CanEnter, LeaveQueue
<1>8. ASSUME NEW j \in Jobs, NEW result \in Endings, HandlerEnds(j, result) PROVE IInv'
    BY <1>8 DEF HandlerEnds, Stamp
<1>9. ASSUME NEW j \in Jobs, Persist(j) PROVE IInv'
    BY <1>9 DEF Persist, LeaveSlot
<1>10. ASSUME NEW j \in Jobs, PersistFails(j) PROVE IInv'
    BY <1>10 DEF PersistFails, LeaveSlot
<1>11. CASE UNCHANGED vars
    BY <1>11 DEF vars
<1> QED
    BY <1>1, <1>2, <1>3, <1>4, <1>5, <1>6, <1>7, <1>8, <1>9, <1>10, <1>11 DEF Next, Task

\* The invariant holds throughout every behaviour.
THEOREM Invariance == Spec => []IInv
  BY InitIInv, NextIInv, PTL DEF Spec

\* The state stays well typed: in particular no stamp leaves the range of times.
THEOREM TypeCorrect == Spec => []TypeOK
<1>1. IInv => TypeOK
    BY DEF IInv
<1> QED
    BY <1>1, Invariance, PTL

\* Two jobs are never past the global lock at once, for any set of jobs.
THEOREM JobsExclusive == Spec => []SlotExclusive
<1>1. IInv => SlotExclusive
    BY DEF IInv
<1> QED
    BY <1>1, Invariance, PTL

\* A recorded success always belongs to a run that really succeeded.
THEOREM RecordedSuccessIsReal == Spec => []SuccessIsReal
<1>1. IInv => SuccessIsReal
    BY DEF IInv
<1> QED
    BY <1>1, Invariance, PTL

\* The persisted evidence never hides a run that raised, nor accuses one that
\* succeeded: needs that the dispatch guard puts runs strictly apart in time.
THEOREM PersistedFailureVisible == Spec => []FailureNotMasked
<1>1. IInv => FailureNotMasked
    BY JobsAssumption DEF IInv, TypeOK, StampsOrdered, StampsTellEnding, Time, Never,
       FailureNotMasked, LastRunFailed
<1> QED
    BY <1>1, Invariance, PTL

\* Overlaps are counted at most once per run.
THEOREM OverlapsBounded == Spec => []OverlapOncePerRun
<1>1. IInv => OverlapOncePerRun
    BY DEF IInv, TypeOK, OverlapsCounted, OverlapOncePerRun
<1> QED
    BY <1>1, Invariance, PTL

\* The outcome a live process shows agrees with its timestamps.
THEOREM StatusConsistent == Spec => []OutcomeMatchesStamps
<1>1. IInv => OutcomeMatchesStamps
    BY DEF IInv, OutcomesAgree, OutcomeMatchesStamps
<1> QED
    BY <1>1, Invariance, PTL

\* When the schedule file could be read, no restart makes a job run again before
\* its interval has passed since the run the file records.
THEOREM RestartKeepsSchedule == Spec => NoEarlyRerun
<1> DEFINE Kept == \A j \in Jobs :
                      (readable /\ phase[j] = "idle" /\ phase'[j] = "queued")
                          => fileRun[j] = Never \/ clock - fileRun[j] >= Interval[j]
<1>1. IInv /\ [Next]_vars => [Kept]_vars
  <2> SUFFICES ASSUME IInv, Next, NEW j \in Jobs,
                      readable, phase[j] = "idle", phase'[j] = "queued"
               PROVE fileRun[j] = Never \/ clock - fileRun[j] >= Interval[j]
    OBVIOUS
  <2> USE JobsAssumption DEF IInv, TypeOK, MemoryNotBehindFile, Time, Never, Phases
  <2>1. CASE Tick
    BY <2>1 DEF Tick, Spawning, Due
  <2>2. ASSUME ~Tick PROVE FALSE
    <3>1. phase' \in [Jobs -> Phases] /\ phase'[j] # "queued"
      BY <2>2 DEF Next, Task, Start, Crash, Exit, LoseMemory, AdvanceClock, Stop,
         CancelQueued, EnterSlot, EnterSlotWithoutHandler, HandlerEnds, Stamp,
         Persist, PersistFails, LeaveSlot, All, memory
    <3> QED
      BY <3>1
  <2> QED
    BY <2>1, <2>2
<1> QED
    BY <1>1, Invariance, PTL DEF Spec, NoEarlyRerun

-----------------------------------------------------------------------------
(***************************************************************************)
(* The offsite push (CloudPush), for any processes, timeouts and windows.  *)
(* OffsiteSound is about what is offsite and stamped; the invariant adds   *)
(* what each run carries there: its deadline, how fresh its selection is,  *)
(* and what is encrypted already.                                          *)
(***************************************************************************)


(* Push!Cardinality and Push!IsFiniteSet are the operators of FiniteSets. *)
LEMMA PushSizes ==
  /\ \A S : Push!Cardinality(S) = Cardinality(S)
  /\ \A S : Push!IsFiniteSet(S) <=> IsFiniteSet(S)
BY DEF Push!Cardinality, Cardinality, Push!IsFiniteSet, IsFiniteSet
USE PushSizes

\* The stages of a run, and the types of the state.
PStages == {"sweep", "list", "verify", "encrypt", "copy", "drain"}
Objects == [snap : Nat, part : Push!Parts, ok : BOOLEAN]
PRuns == [pc : {"idle"} \union PStages, began : Nat, listed : SUBSET Nat, selected : SUBSET Nat,
          todo : SUBSET Nat, out : SUBSET Objects, dir : Nat \union {Push!Never}]

PTypeOK ==
    /\ now \in Nat
    /\ published \in SUBSET Nat
    /\ remote \in SUBSET Objects
    /\ dirs \in SUBSET [owner : Procs, born : Nat]
    /\ push \in [Procs -> PRuns]
    /\ pushSuccess \in Nat \union {Push!Never}

\* Stamps are of the past, but for those of the clock that was wrong.
StampsBounded == \A s \in published : s <= now \/ s <= FirstTick + 1

\* A run that is not over is within its time, and its directory is its own age at most.
InTime(p) ==
    Push!Running(p) => push[p].began <= now /\ now <= Push!Deadline(p)

\* A run that has listed works on what the selection is, among it a fresh snapshot.
Listed(p) ==
    push[p].pc \in {"verify", "encrypt", "copy"} =>
      /\ push[p].listed \subseteq 0 .. now + FirstTick + 1
      /\ push[p].selected = Push!SelectForPush(push[p].listed)
      /\ push[p].todo \subseteq push[p].selected
      /\ \E s \in push[p].selected : s <= now + ClockSkew /\ push[p].began - s <= SourceMaxAge

\* Nothing is encrypted that does not match; what is through is in the directory.
Encrypting(p) ==
    /\ push[p].pc \in {"verify", "encrypt"} =>
         \A s \in push[p].selected : s \in decayed => push[p].pc = "verify" /\ s \in push[p].todo
    /\ push[p].pc \in {"sweep", "list", "verify"} => push[p].out = {}
    /\ push[p].pc \in {"encrypt", "copy"} =>
         /\ push[p].began <= push[p].dir /\ push[p].dir <= now
         /\ \A s \in push[p].selected :
              \/ s \in push[p].todo
              \/ \A x \in Push!Parts : \E o \in push[p].out : o.snap = s /\ o.part = x
    /\ push[p].pc = "copy" => push[p].todo = {}
    /\ push[p].pc \in {"encrypt", "copy"} => \A o \in push[p].out : o.ok

\* A stamped success has left a snapshot offsite that was fresh to it.
SuccessShipped ==
    pushSuccess # Push!Never =>
      /\ pushSuccess <= now
      /\ \E s \in 0 .. pushSuccess + ClockSkew :
           Push!Complete(s) /\ pushSuccess - s <= SourceMaxAge + Timeout

\* What holds of the run of one process.
RunSound(p) == InTime(p) /\ Listed(p) /\ Encrypting(p)

\* The inductive invariant. OffsiteSound speaks of objects offsite only; it
\* needs what the runs under way carry towards the remote.
PIInv ==
    /\ PTypeOK /\ StampsBounded /\ Push!ShippedSound /\ Push!LiveDirKept /\ SuccessShipped
    /\ \A p \in Procs : RunSound(p)

(* Selection *)
\* The selection takes from the list only.
LEMMA SelectedWereListed ==
    ASSUME NEW S PROVE Push!SelectForPush(S) \subseteq S
  BY DEF Push!SelectForPush, Push!Newest

\* A set of stamps that is not empty and bounded has a newest one.
LEMMA GreatestExists ==
    ASSUME NEW S \in SUBSET Nat, S # {}, NEW n \in Nat, \A x \in S : x <= n
    PROVE  Push!Max(S) \in S /\ \A y \in S : y <= Push!Max(S)
<1> DEFINE Above == {k \in Nat : \A x \in S : x <= k}
<1>1. Above \in SUBSET Nat /\ n \in Above
  OBVIOUS
<1> DEFINE R == OpToRel(<, Nat)
<1>2. IsWellFoundedOn(R, Nat)
  BY NatLessThanWellFounded
<1>3. ASSUME NEW x \in Nat, NEW y \in Nat, y < x PROVE <<y, x>> \in R
  BY <1>3 DEF OpToRel
<1> HIDE DEF R
<1>4. PICK k \in Above : \A j \in Above : ~(<<j, k>> \in R)
  BY <1>1, <1>2, WFMin
<1>5. ASSUME NEW j \in Above PROVE k <= j
  <2>1. j \in Nat /\ k \in Nat /\ ~(j < k)
    BY <1>1, <1>3, <1>4
  <2> QED
    BY <2>1
<1>6. k \in S
  <2> SUFFICES ASSUME k \notin S PROVE FALSE
    OBVIOUS
  <2>1. PICK x \in S : TRUE
    OBVIOUS
  <2>2. \A y \in S : y <= k - 1
    OBVIOUS
  <2>3. k - 1 \in Above
    BY <2>1, <2>2
  <2> QED
    BY <1>5, <2>3
<1>7. \E x \in S : \A y \in S : x >= y
  BY <1>6
<1> QED
  BY <1>7 DEF Push!Max

\* The newest stamp of the list is selected, whatever the window.
LEMMA NewestIsSelected ==
    ASSUME Push!PushAssumption, NEW S \in SUBSET Nat, S # {}, NEW n \in Nat, \A x \in S : x <= n
    PROVE  Push!Max(S) \in Push!SelectForPush(S)
<1>1. Push!Max(S) \in S /\ \A y \in S : y <= Push!Max(S)
  BY GreatestExists
<1>2. {t \in S : t > Push!Max(S)} = {}
  <2> SUFFICES ASSUME NEW t \in S, t > Push!Max(S) PROVE FALSE
    OBVIOUS
  <2>1. t \in Nat /\ Push!Max(S) \in Nat /\ t <= Push!Max(S)
    BY <1>1
  <2> QED
    BY <2>1
<1>3. Cardinality({t \in S : t > Push!Max(S)}) < Window
  BY <1>2, FS_EmptySet DEF Push!PushAssumption
<1> QED
  BY <1>1, <1>3 DEF Push!SelectForPush, Push!Newest

(* Days *)
LEMMA DayType ==
    ASSUME Push!PushAssumption, NEW a \in Nat PROVE Push!Day(a) \in Nat
  BY DEF Push!PushAssumption, Push!Day

\* A stamp lies within its day; days follow each other in time.
LEMMA DayBounds ==
    ASSUME Push!PushAssumption, NEW a \in Nat
    PROVE  DayLength * Push!Day(a) <= a /\ a < DayLength * Push!Day(a) + DayLength
<1>1. DayLength * Push!Day(a) <= a
  BY DEF Push!PushAssumption, Push!Day
<1>2. a < DayLength * Push!Day(a) + DayLength
  BY DEF Push!PushAssumption, Push!Day
<1> QED
  BY <1>1, <1>2

LEMMA LaterDay ==
    ASSUME NEW d \in Nat \ {0}, NEW q \in Nat, NEW r \in Nat, q >= r + 1
    PROVE  d * q >= d * r + d
  OBVIOUS

LEMMA DayGrows ==
    ASSUME Push!PushAssumption, NEW a \in Nat, NEW b \in Nat, a <= b
    PROVE  Push!Day(a) <= Push!Day(b)
<1> DEFINE q == Push!Day(a)
<1> DEFINE r == Push!Day(b)
<1>0. q \in Nat /\ r \in Nat /\ DayLength \in Nat \ {0}
  BY DayType DEF Push!PushAssumption
<1>1. DayLength * q <= a /\ b < DayLength * r + DayLength
  BY DayBounds
<1> HIDE DEF q, r
<1> SUFFICES ASSUME q >= r + 1 PROVE FALSE
  BY <1>0 DEF q, r
<1>2. DayLength * q >= DayLength * r + DayLength
  BY <1>0, LaterDay
<1>3. DayLength * q \in Nat /\ DayLength * r \in Nat
  BY <1>0
<1> QED
  BY <1>0, <1>1, <1>2, <1>3

\* The newest snapshot of a day is selected while fewer than Window later days
\* have snapshots: later days have one newest snapshot each.
LEMMA DaysAreSelected ==
    ASSUME Push!PushAssumption, NEW S \in SUBSET Nat, IsFiniteSet(S), NEW s \in S,
           \A t \in S : t > s => Push!Day(t) # Push!Day(s),
           Cardinality({Push!Day(t) : t \in {u \in S : Push!Day(u) > Push!Day(s)}}) < Window
    PROVE  s \in Push!SelectForPush(S)
<1> DEFINE perDay == {x \in S : \A t \in S : Push!Day(t) = Push!Day(x) => t <= x}
<1> DEFINE later == {t \in perDay : t > s}
<1> DEFINE days == {Push!Day(t) : t \in {u \in S : Push!Day(u) > Push!Day(s)}}
<1> DEFINE f == [t \in later |-> Push!Day(t)]
<1>1. s \in perDay
  OBVIOUS
<1>2. IsFiniteSet({u \in S : Push!Day(u) > Push!Day(s)})
  BY FS_Subset
<1>3. IsFiniteSet(days)
  <2> DEFINE g == [u \in {v \in S : Push!Day(v) > Push!Day(s)} |-> Push!Day(u)]
  <2>1. g \in Surjection({u \in S : Push!Day(u) > Push!Day(s)}, days)
    BY DEF Surjection
  <2> QED
    BY <1>2, <2>1, FS_Surjection
<1>4. ASSUME NEW t \in later PROVE Push!Day(t) \in days
  <2>1. t \in S /\ s <= t /\ Push!Day(t) # Push!Day(s)
    BY <1>4
  <2>2. Push!Day(s) <= Push!Day(t) /\ Push!Day(s) \in Nat /\ Push!Day(t) \in Nat
    BY <2>1, DayGrows, DayType
  <2>3. Push!Day(t) > Push!Day(s)
    BY <2>1, <2>2
  <2> QED
    BY <2>1, <2>3
<1>5. f \in [later -> days]
  BY <1>4
<1>6. ASSUME NEW a \in later, NEW b \in later, f[a] = f[b] PROVE a = b
  <2>1. Push!Day(a) = Push!Day(b) /\ a \in S /\ b \in S /\ a \in Nat /\ b \in Nat
    BY <1>6
  <2>2. a <= b /\ b <= a
    BY <2>1
  <2> QED
    BY <2>1, <2>2
<1>7. f \in Injection(later, days)
  BY <1>5, <1>6 DEF Injection, IsInjective
<1>8. IsFiniteSet(later)
  BY FS_Subset
<1>9. Cardinality(later) <= Cardinality(days)
  BY <1>3, <1>7, FS_Injection
<1>10. Cardinality(later) \in Nat /\ Cardinality(days) \in Nat
  BY <1>3, <1>8, FS_CardinalityType
<1>11. Cardinality({t \in perDay : t > s}) < Window
  BY <1>9, <1>10 DEF Push!PushAssumption
<1> QED
  BY <1>1, <1>11 DEF Push!SelectForPush, Push!Newest

(* How the parts of the invariant are carried through a step *)
LEMMA IdleTyped == Push!Idle \in PRuns
  BY DEF Push!Idle, PRuns, PStages

\* A process whose run, directory and world did not change is as sound as before.
LEMMA RunKept ==
    ASSUME PIInv, NEW q \in Procs, push'[q] = push[q], now' = now, decayed' = decayed
    PROVE  RunSound(q)'
<1>1. RunSound(q)
  BY DEF PIInv
<1>2. InTime(q)'
  BY <1>1 DEF RunSound, InTime, Push!Running, Push!Deadline
<1>3. Listed(q)'
  BY <1>1 DEF RunSound, Listed
<1>4. Encrypting(q)'
  BY <1>1 DEF RunSound, Encrypting
<1> QED
  BY <1>2, <1>3, <1>4 DEF RunSound

LEMMA IdleIsSound ==
    ASSUME NEW q \in Procs, push'[q] = Push!Idle
    PROVE  RunSound(q)'
  BY DEF Push!Idle, RunSound, InTime, Listed, Encrypting, Push!Running

\* The stamp stays backed while the remote only grows.
LEMMA SuccessKept ==
    ASSUME PIInv, pushSuccess' = pushSuccess, remote \subseteq remote', now' \in Nat, now <= now'
    PROVE  SuccessShipped'
<1> SUFFICES ASSUME pushSuccess # Push!Never
             PROVE  /\ pushSuccess <= now'
                    /\ \E s \in 0 .. pushSuccess + ClockSkew :
                         Push!Complete(s)' /\ pushSuccess - s <= SourceMaxAge + Timeout
  BY DEF SuccessShipped
<1>1. pushSuccess <= now /\ pushSuccess \in Nat /\ now \in Nat
  BY DEF PIInv, SuccessShipped, PTypeOK
<1>2. PICK s \in 0 .. pushSuccess + ClockSkew :
         Push!Complete(s) /\ pushSuccess - s <= SourceMaxAge + Timeout
  BY DEF PIInv, SuccessShipped
<1>3. Push!Complete(s)'
  BY <1>2 DEF Push!Complete, Push!Offsite
<1> QED
  BY <1>1, <1>2, <1>3

\* A step of one process that leaves the clock, the snapshots and the remote alone.
LEMMA OwnStep ==
    ASSUME PIInv, NEW p \in Procs, NEW X \in PRuns, push' = [push EXCEPT ![p] = X],
           RunSound(p)', X.pc \in {"encrypt", "copy"} => Push!OwnDir(p)' \in dirs',
           \A q \in Procs \ {p} : push[q].pc \in {"encrypt", "copy"} => Push!OwnDir(q) \in dirs',
           dirs' \in SUBSET [owner : Procs, born : Nat],
           UNCHANGED <<now, published, decayed, remote, pushSuccess>>
    PROVE  PIInv'
<1>1. push \in [Procs -> PRuns]
  BY DEF PIInv, PTypeOK
<1>2. push' \in [Procs -> PRuns] /\ push'[p] = X /\ \A q \in Procs \ {p} : push'[q] = push[q]
  BY <1>1
<1>3. PTypeOK'
  BY <1>2 DEF PIInv, PTypeOK
<1>4. \A q \in Procs : RunSound(q)'
  BY <1>2, RunKept
<1>5. Push!LiveDirKept'
  BY <1>2 DEF Push!LiveDirKept, Push!OwnDir
<1>6. SuccessShipped'
  <2>1. now \in Nat /\ now' = now /\ remote \subseteq remote'
    BY DEF PIInv, PTypeOK
  <2>2. now <= now'
    BY <2>1
  <2> QED
    BY <2>1, <2>2, SuccessKept
<1>7. StampsBounded' /\ Push!ShippedSound'
  BY DEF PIInv, StampsBounded, Push!ShippedSound
<1> QED
  BY <1>3, <1>4, <1>5, <1>6, <1>7 DEF PIInv

\* The end of a run takes only the run's own directory with it.
LEMMA EndSound ==
    ASSUME PIInv, NEW p \in Procs, Push!Raise(p)
    PROVE  PIInv'
<1>1. push \in [Procs -> PRuns] /\ dirs \in SUBSET [owner : Procs, born : Nat]
  BY DEF PIInv, PTypeOK
<1>2. push' = [push EXCEPT ![p] = Push!Idle] /\ dirs' = dirs \ {Push!OwnDir(p)}
      /\ UNCHANGED <<now, published, decayed, remote, pushSuccess>>
  BY DEF Push!Raise, Push!End, Push!disk
<1>3. push'[p] = Push!Idle
  BY <1>1, <1>2
<1>4. RunSound(p)'
  BY <1>3, IdleIsSound
<1>5. ASSUME NEW q \in Procs \ {p}, push[q].pc \in {"encrypt", "copy"}
      PROVE  Push!OwnDir(q) \in dirs'
  <2>1. Push!OwnDir(q) \in dirs
    BY <1>5 DEF PIInv, Push!LiveDirKept
  <2>2. Push!OwnDir(q) # Push!OwnDir(p)
    BY DEF Push!OwnDir
  <2> QED
    BY <1>2, <2>1, <2>2
<1>6. Push!Idle.pc \notin {"encrypt", "copy"}
  BY DEF Push!Idle
<1>7. dirs' \in SUBSET [owner : Procs, born : Nat]
  BY <1>1, <1>2
<1> QED
  BY <1>2, <1>4, <1>5, <1>6, <1>7, IdleTyped, OwnStep

(* The world around a run *)
\* Nothing runs at the start, and nothing is offsite.
LEMMA InitSound ==
    ASSUME Push!PushAssumption, Push!Init PROVE PIInv
<1>1. \A p \in Procs : push[p] = Push!Idle
  BY DEF Push!Init
<1>2. PTypeOK
  BY IdleTyped DEF Push!Init, PTypeOK, Push!PushAssumption
<1>3. StampsBounded
  BY DEF Push!Init, StampsBounded
<1>4. Push!ShippedSound /\ SuccessShipped
  BY DEF Push!Init, Push!ShippedSound, SuccessShipped
<1>5. Push!LiveDirKept
  BY <1>1 DEF Push!LiveDirKept, Push!Idle
<1>6. \A p \in Procs : RunSound(p)
  BY <1>1 DEF Push!Idle, RunSound, InTime, Listed, Encrypting, Push!Running
<1> QED
  BY <1>2, <1>3, <1>4, <1>5, <1>6 DEF PIInv

\* Time waits at the deadline of a run, so a run that goes on is within its time;
\* what was fresh to it stays so, as freshness counts from its beginning.
LEMMA TickSound ==
    ASSUME Push!PushAssumption, PIInv, Push!Tick PROVE PIInv'
<1>1. now \in Nat /\ now' = now + 1 /\ push \in [Procs -> PRuns]
      /\ UNCHANGED <<published, decayed, remote, dirs, push, pushSuccess>>
  BY DEF PIInv, PTypeOK, Push!Tick, Push!disk
<1>2. PTypeOK'
  BY <1>1 DEF PIInv, PTypeOK
<1>3. StampsBounded'
  <2> SUFFICES ASSUME NEW s \in published PROVE s <= now + 1 \/ s <= FirstTick + 1
    BY <1>1 DEF StampsBounded
  <2>1. s \in Nat /\ (s <= now \/ s <= FirstTick + 1)
    BY DEF PIInv, PTypeOK, StampsBounded
  <2> QED
    BY <1>1, <2>1
<1>4. Push!ShippedSound' /\ Push!LiveDirKept'
  BY <1>1 DEF PIInv, Push!ShippedSound, Push!LiveDirKept, Push!OwnDir
<1>5. SuccessShipped'
  BY <1>1, SuccessKept
<1>6. ASSUME NEW p \in Procs PROVE RunSound(p)'
  <2>1. RunSound(p) /\ push[p] \in PRuns
    BY <1>1 DEF PIInv
  <2>2. push[p].began \in Nat /\ push[p].listed \in SUBSET Nat /\ push[p].selected \in SUBSET Nat
        /\ push[p].dir \in Nat \union {Push!Never}
    BY <2>1 DEF PRuns
  <2>3. Timeout \in Nat /\ ClockSkew \in Nat /\ SourceMaxAge \in Nat /\ FirstTick \in Nat
    BY DEF Push!PushAssumption
  <2>4. InTime(p)'
    <3> SUFFICES ASSUME Push!Running(p) PROVE push[p].began <= now + 1 /\ now + 1 <= Push!Deadline(p)
      BY <1>1 DEF InTime, Push!Running, Push!Deadline
    <3>1. now < Push!Deadline(p) /\ push[p].began <= now
      BY <2>1 DEF Push!Tick, RunSound, InTime
    <3> QED
      BY <1>1, <2>2, <2>3, <3>1 DEF Push!Deadline
  <2>5. Listed(p)'
    <3> SUFFICES ASSUME push[p].pc \in {"verify", "encrypt", "copy"}
                 PROVE  /\ push[p].listed \subseteq 0 .. now + 1 + FirstTick + 1
                        /\ push[p].selected = Push!SelectForPush(push[p].listed)
                        /\ push[p].todo \subseteq push[p].selected
                        /\ \E s \in push[p].selected :
                             s <= now + 1 + ClockSkew /\ push[p].began - s <= SourceMaxAge
      BY <1>1 DEF Listed
    <3>1. /\ push[p].listed \subseteq 0 .. now + FirstTick + 1
          /\ push[p].selected = Push!SelectForPush(push[p].listed)
          /\ push[p].todo \subseteq push[p].selected
      BY <2>1 DEF RunSound, Listed
    <3>2. PICK s \in push[p].selected : s <= now + ClockSkew /\ push[p].began - s <= SourceMaxAge
      BY <2>1 DEF RunSound, Listed
    <3>3. s \in Nat /\ s <= now + 1 + ClockSkew
      BY <1>1, <2>2, <2>3, <3>2
    <3>4. push[p].listed \subseteq 0 .. now + 1 + FirstTick + 1
      BY <1>1, <2>2, <2>3, <3>1
    <3> QED
      BY <3>1, <3>2, <3>3, <3>4
  <2>6. Encrypting(p)'
    <3>1. push[p].dir \in Nat /\ push[p].dir <= now => push[p].dir <= now + 1
      BY <1>1
    <3>2. push[p].pc \in {"encrypt", "copy"} => push[p].dir \in Nat /\ push[p].dir <= now
      BY <1>1, <2>1, <2>2 DEF RunSound, Encrypting, Push!Never
    <3> QED
      BY <1>1, <2>1, <3>1, <3>2 DEF RunSound, Encrypting
  <2> QED
    BY <2>4, <2>5, <2>6 DEF RunSound
<1> QED
  BY <1>2, <1>3, <1>4, <1>5, <1>6 DEF PIInv

\* Snapshots come and go; the runs are the same.
LEMMA WorldSound ==
    ASSUME PIInv, UNCHANGED <<now, decayed, remote, dirs, push, pushSuccess>>,
           published' \in SUBSET Nat, StampsBounded'
    PROVE  PIInv'
<1>1. PTypeOK' /\ now \in Nat
  BY DEF PIInv, PTypeOK
<1>2. Push!ShippedSound' /\ Push!LiveDirKept'
  BY DEF PIInv, Push!ShippedSound, Push!LiveDirKept, Push!OwnDir
<1>3. SuccessShipped'
  BY <1>1, SuccessKept
<1>4. \A p \in Procs : RunSound(p)'
  BY RunKept
<1> QED
  BY <1>1, <1>2, <1>3, <1>4 DEF PIInv

LEMMA PublishSound ==
    ASSUME PIInv, Push!Publish PROVE PIInv'
<1>1. now \in Nat /\ published \in SUBSET Nat /\ published' = published \union {now}
  BY DEF PIInv, PTypeOK, Push!Publish
<1>2. StampsBounded'
  BY <1>1 DEF PIInv, StampsBounded, Push!Publish
<1> QED
  BY <1>1, <1>2, WorldSound DEF Push!Publish

LEMMA PruneSound ==
    ASSUME PIInv, NEW s, Push!Prune(s) PROVE PIInv'
<1>1. published \in SUBSET Nat /\ published' = published \ {s}
  BY DEF PIInv, PTypeOK, Push!Prune
<1>2. StampsBounded'
  BY <1>1 DEF PIInv, StampsBounded, Push!Prune
<1> QED
  BY <1>1, <1>2, WorldSound DEF Push!Prune

LEMMA DecaySound ==
    ASSUME PIInv, NEW s, Push!Decay(s) PROVE PIInv'
<1>1. UNCHANGED <<now, published, remote, dirs, push, pushSuccess>> /\ decayed' = decayed \union {s}
  BY DEF Push!Decay
<1>2. PTypeOK' /\ now \in Nat
  BY <1>1 DEF PIInv, PTypeOK
<1>3. Push!ShippedSound' /\ Push!LiveDirKept' /\ StampsBounded'
  BY <1>1 DEF PIInv, Push!ShippedSound, Push!LiveDirKept, Push!OwnDir, StampsBounded
<1>4. SuccessShipped'
  BY <1>1, <1>2, SuccessKept
<1>5. ASSUME NEW p \in Procs PROVE RunSound(p)'
  <2>1. RunSound(p)
    BY DEF PIInv
  <2>2. InTime(p)' /\ Listed(p)'
    BY <1>1, <2>1 DEF RunSound, InTime, Listed, Push!Running, Push!Deadline
  <2>3. push[p].pc \in {"verify", "encrypt"} => s \notin push[p].selected
    BY DEF Push!Decay
  <2>4. Encrypting(p)'
    BY <1>1, <2>1, <2>3 DEF RunSound, Encrypting
  <2> QED
    BY <2>2, <2>4 DEF RunSound
<1> QED
  BY <1>2, <1>3, <1>4, <1>5 DEF PIInv

\* Whoever dies leaves its directory, and nothing else.
LEMMA ReconfigureSound ==
    ASSUME PIInv, NEW c, Push!Reconfigure(c) PROVE PIInv'
<1>1. push' = [p \in Procs |-> Push!Idle]
      /\ UNCHANGED <<now, published, decayed, remote, dirs, pushSuccess>>
  BY DEF Push!Reconfigure, Push!disk
<1>2. \A p \in Procs : push'[p] = Push!Idle
  BY <1>1
<1>3. PTypeOK' /\ now \in Nat
  BY <1>1, IdleTyped DEF PIInv, PTypeOK
<1>4. Push!ShippedSound' /\ StampsBounded'
  BY <1>1 DEF PIInv, Push!ShippedSound, StampsBounded
<1>5. Push!LiveDirKept'
  BY <1>2 DEF Push!LiveDirKept, Push!Idle
<1>6. SuccessShipped'
  BY <1>1, <1>3, SuccessKept
<1>7. \A p \in Procs : RunSound(p)'
  BY <1>2, IdleIsSound
<1> QED
  BY <1>3, <1>4, <1>5, <1>6, <1>7 DEF PIInv

LEMMA KillSound ==
    ASSUME PIInv, NEW p \in Procs, Push!Kill(p) PROVE PIInv'
<1>1. push \in [Procs -> PRuns] /\ dirs \in SUBSET [owner : Procs, born : Nat]
  BY DEF PIInv, PTypeOK
<1>2. push' = [push EXCEPT ![p] = Push!Idle]
      /\ UNCHANGED <<now, published, decayed, remote, dirs, pushSuccess>>
  BY DEF Push!Kill, Push!disk
<1>3. RunSound(p)'
  BY <1>1, <1>2, IdleIsSound
<1>4. \A q \in Procs \ {p} : push[q].pc \in {"encrypt", "copy"} => Push!OwnDir(q) \in dirs'
  BY <1>2 DEF PIInv, Push!LiveDirKept
<1>5. Push!Idle.pc \notin {"encrypt", "copy"}
  BY DEF Push!Idle
<1> QED
  BY <1>1, <1>2, <1>3, <1>4, <1>5, IdleTyped, OwnStep

(* The steps of a run *)
\* The directories of the others are where they were.
LEMMA OthersKept ==
    ASSUME PIInv, NEW p \in Procs, dirs \subseteq dirs'
    PROVE  \A q \in Procs \ {p} : push[q].pc \in {"encrypt", "copy"} => Push!OwnDir(q) \in dirs'
  BY DEF PIInv, Push!LiveDirKept

LEMMA BeginSound ==
    ASSUME Push!PushAssumption, PIInv, NEW p \in Procs, Push!Begin(p) PROVE PIInv'
<1> DEFINE X == [Push!Idle EXCEPT !.pc = "sweep", !.began = now]
<1>1. now \in Nat /\ push \in [Procs -> PRuns] /\ dirs \in SUBSET [owner : Procs, born : Nat]
  BY DEF PIInv, PTypeOK
<1>2. push' = [push EXCEPT ![p] = X]
      /\ UNCHANGED <<now, published, decayed, remote, dirs, pushSuccess>>
  BY DEF Push!Begin, Push!disk
<1>3. X \in PRuns /\ X.pc = "sweep" /\ X.began = now /\ X.out = {}
  BY <1>1 DEF Push!Idle, PRuns, PStages
<1> HIDE DEF X
<1>4. push'[p] = X
  BY <1>1, <1>2
<1>5. RunSound(p)'
  <2>1. Timeout \in Nat
    BY DEF Push!PushAssumption
  <2>2. InTime(p)'
    BY <1>1, <1>2, <1>3, <1>4, <2>1 DEF InTime, Push!Deadline
  <2>3. Listed(p)' /\ Encrypting(p)'
    BY <1>3, <1>4 DEF Listed, Encrypting
  <2> QED
    BY <2>2, <2>3 DEF RunSound
<1> QED
  BY <1>1, <1>2, <1>3, <1>5, OthersKept, OwnStep

\* What the sweep removes is older than any run that has not timed out.
LEMMA SweepSound ==
    ASSUME Push!PushAssumption, PIInv, NEW p \in Procs, Push!Sweep(p) PROVE PIInv'
<1> DEFINE X == [push[p] EXCEPT !.pc = "list"]
<1>1. now \in Nat /\ push \in [Procs -> PRuns] /\ dirs \in SUBSET [owner : Procs, born : Nat]
      /\ Timeout \in Nat
  BY DEF PIInv, PTypeOK, Push!PushAssumption
<1>2. push' = [push EXCEPT ![p] = X] /\ dirs' = {d \in dirs : ~Push!StaleDir(d)} /\ push[p].pc = "sweep"
      /\ UNCHANGED <<now, published, decayed, remote, pushSuccess>>
  BY DEF Push!Sweep, Push!disk, Push!Goto
<1>3. X \in PRuns /\ X.pc = "list" /\ X.began = push[p].began /\ X.out = {}
  <2>1. push[p] \in PRuns
    BY <1>1
  <2>2. push[p].out = {}
    BY <1>2 DEF PIInv, RunSound, Encrypting
  <2> QED
    BY <2>1, <2>2 DEF PRuns, PStages
<1> HIDE DEF X
<1>4. push'[p] = X
  BY <1>1, <1>2
<1>5. RunSound(p)'
  <2>1. InTime(p)
    BY DEF PIInv, RunSound
  <2>2. InTime(p)'
    BY <1>2, <1>3, <1>4, <2>1 DEF InTime, Push!Deadline, Push!Running
  <2>3. Listed(p)' /\ Encrypting(p)'
    BY <1>3, <1>4 DEF Listed, Encrypting
  <2> QED
    BY <2>2, <2>3 DEF RunSound
<1>6. ASSUME NEW q \in Procs \ {p}, push[q].pc \in {"encrypt", "copy"}
      PROVE  Push!OwnDir(q) \in dirs'
  <2>1. Push!OwnDir(q) \in dirs /\ InTime(q) /\ Encrypting(q) /\ push[q] \in PRuns
    BY <1>1, <1>6 DEF PIInv, Push!LiveDirKept, RunSound
  <2>2. now <= push[q].began + Timeout /\ push[q].began <= push[q].dir
    BY <1>6, <2>1 DEF InTime, Encrypting, Push!Running, Push!Deadline
  <2>3. push[q].began \in Nat /\ Push!OwnDir(q).born = push[q].dir /\ push[q].dir \in Nat
    BY <1>1, <2>1 DEF PRuns, Push!OwnDir
  <2>4. ~Push!StaleDir(Push!OwnDir(q))
    BY <1>1, <2>2, <2>3 DEF Push!StaleDir
  <2> QED
    BY <1>2, <2>1, <2>4
<1>7. dirs' \in SUBSET [owner : Procs, born : Nat]
  BY <1>1, <1>2
<1> QED
  BY <1>2, <1>3, <1>5, <1>6, <1>7, OwnStep

\* The gate lets a list through only with a fresh snapshot in it, and the newest
\* of the list is at least as fresh.
LEMMA ListSound ==
    ASSUME Push!PushAssumption, PIInv, NEW p \in Procs, Push!List(p) PROVE PIInv'
<1> DEFINE chosen == Push!SelectForPush(published)
<1> DEFINE X == [push[p] EXCEPT !.pc = "verify", !.listed = published,
                                !.selected = chosen, !.todo = chosen]
<1>1. now \in Nat /\ push \in [Procs -> PRuns] /\ dirs \in SUBSET [owner : Procs, born : Nat]
      /\ published \in SUBSET Nat
      /\ Timeout \in Nat /\ FirstTick \in Nat /\ SourceMaxAge \in Nat /\ ClockSkew \in Nat
  BY DEF PIInv, PTypeOK, Push!PushAssumption
<1>2. push' = [push EXCEPT ![p] = X] /\ push[p].pc = "list" /\ Push!Pushable
      /\ UNCHANGED <<now, published, decayed, remote, dirs, pushSuccess>>
  BY DEF Push!List, Push!disk
<1>3. chosen \subseteq published /\ chosen \in SUBSET Nat
  BY <1>1, SelectedWereListed
<1> HIDE DEF chosen
<1>4. push[p] \in PRuns
  BY <1>1
<1>5. X \in PRuns /\ X.pc = "verify" /\ X.began = push[p].began /\ X.listed = published
      /\ X.selected = chosen /\ X.todo = chosen /\ X.out = push[p].out
  BY <1>1, <1>3, <1>4 DEF PRuns, PStages
<1> HIDE DEF X
<1>6. push'[p] = X
  BY <1>1, <1>2
<1>7. InTime(p)'
  <2>1. InTime(p)
    BY DEF PIInv, RunSound
  <2> QED
    BY <1>2, <1>5, <1>6, <2>1 DEF InTime, Push!Deadline, Push!Running
<1>8. \A s \in published : s <= now + FirstTick + 1
  BY <1>1 DEF PIInv, StampsBounded
<1>9. Listed(p)'
  <2>1. Push!Max(published) \in chosen /\ Push!Max(published) \in published
    <3>1. published # {} /\ now + FirstTick + 1 \in Nat
      BY <1>1, <1>2 DEF Push!Pushable
    <3> QED
      BY <1>1, <1>8, <3>1, NewestIsSelected, GreatestExists DEF chosen
  <2>2. Push!Max(published) <= now + ClockSkew /\ now - Push!Max(published) <= SourceMaxAge
    BY <1>2 DEF Push!Pushable, Push!SourceFresh
  <2>3. push[p].began \in Nat /\ push[p].began <= now
    BY <1>2, <1>4 DEF PRuns, PIInv, RunSound, InTime, Push!Running
  <2>4. push[p].began - Push!Max(published) <= SourceMaxAge
    <3>1. Push!Max(published) \in Nat
      BY <1>1, <2>1
    <3> QED
      BY <1>1, <2>2, <2>3, <3>1
  <2>5. published \subseteq 0 .. now + FirstTick + 1
    BY <1>1, <1>8
  <2> QED
    BY <1>2, <1>5, <1>6, <2>1, <2>2, <2>4, <2>5 DEF Listed, chosen
<1>10. Encrypting(p)'
  <2>1. push[p].out = {}
    BY <1>2 DEF PIInv, RunSound, Encrypting
  <2> QED
    BY <1>5, <1>6, <2>1 DEF Encrypting
<1>11. RunSound(p)'
  BY <1>7, <1>9, <1>10 DEF RunSound
<1> QED
  BY <1>1, <1>2, <1>5, <1>11, OthersKept, OwnStep

\* A snapshot that does not match its manifest fails the run.
LEMMA VerifySound ==
    ASSUME PIInv, NEW p \in Procs, NEW s, Push!Verify(p, s) PROVE PIInv'
<1>1. CASE s \in published /\ Push!Matches(s)
  <2> DEFINE X == [push[p] EXCEPT !.todo = @ \ {s}]
  <2>1. push \in [Procs -> PRuns] /\ dirs \in SUBSET [owner : Procs, born : Nat]
    BY DEF PIInv, PTypeOK
  <2>2. push' = [push EXCEPT ![p] = X] /\ push[p].pc = "verify"
        /\ UNCHANGED <<now, published, decayed, remote, dirs, pushSuccess>>
    BY <1>1 DEF Push!Verify, Push!disk
  <2>3. push[p] \in PRuns /\ RunSound(p)
    BY <2>1 DEF PIInv
  <2>4. X \in PRuns /\ X = [push[p] EXCEPT !.todo = X.todo] /\ X.todo = push[p].todo \ {s}
    BY <2>3 DEF PRuns
  <2>5. X.pc = "verify" /\ X.began = push[p].began /\ X.listed = push[p].listed
        /\ X.selected = push[p].selected /\ X.out = push[p].out
    BY <2>2, <2>3 DEF PRuns
  <2> HIDE DEF X
  <2>6. push'[p] = X
    BY <2>1, <2>2
  <2>7. InTime(p)'
    BY <2>2, <2>3, <2>5, <2>6 DEF RunSound, InTime, Push!Running, Push!Deadline
  <2>8. Listed(p)'
    BY <2>2, <2>3, <2>4, <2>5, <2>6 DEF RunSound, Listed
  <2>9. Encrypting(p)'
    BY <1>1, <2>2, <2>3, <2>4, <2>5, <2>6 DEF RunSound, Encrypting, Push!Matches
  <2> QED
    BY <2>1, <2>2, <2>4, <2>5, <2>7, <2>8, <2>9, OthersKept, OwnStep DEF RunSound
<1>2. CASE ~(s \in published /\ Push!Matches(s))
  BY <1>2, EndSound DEF Push!Verify
<1> QED
  BY <1>1, <1>2

LEMMA MakeDirSound ==
    ASSUME PIInv, NEW p \in Procs, Push!MakeDir(p) PROVE PIInv'
<1> DEFINE X == [push[p] EXCEPT !.pc = "encrypt", !.todo = push[p].selected, !.dir = now]
<1>1. now \in Nat /\ push \in [Procs -> PRuns] /\ dirs \in SUBSET [owner : Procs, born : Nat]
  BY DEF PIInv, PTypeOK
<1>2. push' = [push EXCEPT ![p] = X] /\ push[p].pc = "verify" /\ push[p].todo = {}
      /\ dirs' = dirs \union {[owner |-> p, born |-> now]}
      /\ UNCHANGED <<now, published, decayed, remote, pushSuccess>>
  BY DEF Push!MakeDir, Push!disk
<1>3. push[p] \in PRuns /\ RunSound(p)
  BY <1>1 DEF PIInv
<1>4. X \in PRuns /\ X.pc = "encrypt" /\ X.began = push[p].began /\ X.listed = push[p].listed
      /\ X.selected = push[p].selected /\ X.out = push[p].out /\ X.todo = push[p].selected
      /\ X.dir = now
  BY <1>1, <1>3 DEF PRuns, PStages
<1> HIDE DEF X
<1>5. push'[p] = X
  BY <1>1, <1>2
<1>6. InTime(p)'
  BY <1>2, <1>3, <1>4, <1>5 DEF RunSound, InTime, Push!Running, Push!Deadline
<1>7. Listed(p)'
  BY <1>2, <1>3, <1>4, <1>5 DEF RunSound, Listed
<1>8. push[p].began <= now
  BY <1>2, <1>3 DEF RunSound, InTime, Push!Running
<1>9. Encrypting(p)'
  BY <1>1, <1>2, <1>3, <1>4, <1>5, <1>8 DEF RunSound, Encrypting
<1>10. Push!OwnDir(p)' \in dirs' /\ dirs' \in SUBSET [owner : Procs, born : Nat] /\ dirs \subseteq dirs'
  BY <1>1, <1>2, <1>4, <1>5 DEF Push!OwnDir
<1> QED
  BY <1>2, <1>4, <1>6, <1>7, <1>9, <1>10, OthersKept, OwnStep DEF RunSound

\* Each encrypted snapshot leaves all of its parts in the directory, none decayed.
LEMMA EncryptSound ==
    ASSUME PIInv, NEW p \in Procs, NEW s, Push!Encrypt(p, s) PROVE PIInv'
<1>1. CASE s \in published
  <2> DEFINE New == {Push!Object(s, part, s \notin decayed) : part \in Push!Parts}
  <2> DEFINE X == [push[p] EXCEPT !.todo = @ \ {s}, !.out = @ \union New]
  <2>1. push \in [Procs -> PRuns] /\ dirs \in SUBSET [owner : Procs, born : Nat] /\ s \in Nat
    BY <1>1 DEF PIInv, PTypeOK
  <2>2. push' = [push EXCEPT ![p] = X] /\ push[p].pc = "encrypt" /\ s \in push[p].todo
        /\ UNCHANGED <<now, published, decayed, remote, dirs, pushSuccess>>
    BY <1>1 DEF Push!Encrypt, Push!disk
  <2>3. push[p] \in PRuns /\ RunSound(p)
    BY <2>1 DEF PIInv
  <2>4. s \notin decayed
    BY <2>2, <2>3 DEF RunSound, Listed, Encrypting
  <2>5. (s \notin decayed) = TRUE
    BY <2>4
  <2>6. ASSUME NEW x \in Push!Parts
        PROVE  /\ Push!Object(s, x, s \notin decayed) \in Objects
               /\ Push!Object(s, x, s \notin decayed).ok
               /\ Push!Object(s, x, s \notin decayed).snap = s
               /\ Push!Object(s, x, s \notin decayed).part = x
    <3> DEFINE y == Push!Object(s, x, s \notin decayed)
    <3>1. y = [snap |-> s, part |-> x, ok |-> TRUE]
      BY <2>5, Zenon DEF Push!Object
    <3> HIDE DEF y
    <3>2. y \in Objects /\ y.ok /\ y.snap = s /\ y.part = x
      BY <2>1, <2>6, <3>1 DEF Objects
    <3> QED
      BY <3>2 DEF y
  <2>7. \A o \in New : o \in Objects /\ o.ok
    BY <2>6, Zenon
  <2>8. \A x \in Push!Parts : \E o \in New : o.snap = s /\ o.part = x
    BY <2>6, Zenon
  <2> HIDE DEF New
  <2>9. X \in PRuns /\ X.todo = push[p].todo \ {s} /\ X.out = push[p].out \union New
        /\ X.pc = "encrypt" /\ X.began = push[p].began /\ X.listed = push[p].listed
        /\ X.selected = push[p].selected /\ X.dir = push[p].dir
    BY <2>2, <2>3, <2>7 DEF PRuns
  <2> HIDE DEF X
  <2>10. push'[p] = X
    BY <2>1, <2>2
  <2>11. InTime(p)'
    BY <2>2, <2>3, <2>9, <2>10 DEF RunSound, InTime, Push!Running, Push!Deadline
  <2>12. Listed(p)'
    BY <2>2, <2>3, <2>9, <2>10 DEF RunSound, Listed
  <2>13. Encrypting(p)'
    <3>1. \A x \in push[p].selected :
            \/ x \in X.todo
            \/ \A pt \in Push!Parts : \E o \in X.out : o.snap = x /\ o.part = pt
      BY <2>2, <2>3, <2>8, <2>9 DEF RunSound, Encrypting
    <3>2. \A o \in X.out : o.ok
      BY <2>2, <2>3, <2>7, <2>9 DEF RunSound, Encrypting
    <3>3. push[p].began <= push[p].dir /\ push[p].dir <= now
      BY <2>2, <2>3 DEF RunSound, Encrypting
    <3>4. \A x \in push[p].selected : x \notin decayed
      BY <2>2, <2>3 DEF RunSound, Encrypting
    <3> QED
      BY <2>2, <2>9, <2>10, <3>1, <3>2, <3>3, <3>4 DEF Encrypting
  <2>14. Push!OwnDir(p)' \in dirs'
    BY <2>2, <2>9, <2>10 DEF PIInv, Push!LiveDirKept, Push!OwnDir
  <2> QED
    BY <2>1, <2>2, <2>9, <2>11, <2>12, <2>13, <2>14, OthersKept, OwnStep DEF RunSound
<1>2. CASE ~(s \in published)
  BY <1>2, EndSound DEF Push!Encrypt
<1> QED
  BY <1>1, <1>2

LEMMA StartCopySound ==
    ASSUME PIInv, NEW p \in Procs, Push!StartCopy(p) PROVE PIInv'
<1> DEFINE X == [push[p] EXCEPT !.pc = "copy"]
<1>1. push \in [Procs -> PRuns] /\ dirs \in SUBSET [owner : Procs, born : Nat]
  BY DEF PIInv, PTypeOK
<1>2. push' = [push EXCEPT ![p] = X] /\ push[p].pc = "encrypt" /\ push[p].todo = {}
      /\ UNCHANGED <<now, published, decayed, remote, dirs, pushSuccess>>
  BY DEF Push!StartCopy, Push!Goto, Push!disk
<1>3. push[p] \in PRuns /\ RunSound(p)
  BY <1>1 DEF PIInv
<1>4. X \in PRuns /\ X.pc = "copy" /\ X.began = push[p].began /\ X.listed = push[p].listed
      /\ X.selected = push[p].selected /\ X.out = push[p].out /\ X.todo = push[p].todo
      /\ X.dir = push[p].dir
  BY <1>3 DEF PRuns, PStages
<1> HIDE DEF X
<1>5. push'[p] = X
  BY <1>1, <1>2
<1>6. InTime(p)'
  BY <1>2, <1>3, <1>4, <1>5 DEF RunSound, InTime, Push!Running, Push!Deadline
<1>7. Listed(p)'
  BY <1>2, <1>3, <1>4, <1>5 DEF RunSound, Listed
<1>8. Encrypting(p)'
  BY <1>2, <1>3, <1>4, <1>5 DEF RunSound, Encrypting
<1>9. Push!OwnDir(p)' \in dirs'
  BY <1>2, <1>4, <1>5 DEF PIInv, Push!LiveDirKept, Push!OwnDir
<1> QED
  BY <1>1, <1>2, <1>4, <1>6, <1>7, <1>8, <1>9, OthersKept, OwnStep DEF RunSound

LEMMA TimeOutSound ==
    ASSUME PIInv, NEW p \in Procs, Push!TimeOut(p) PROVE PIInv'
<1>1. CASE push[p].pc \in {"encrypt", "copy"}
  <2> DEFINE X == [push[p] EXCEPT !.pc = "drain"]
  <2>1. push \in [Procs -> PRuns] /\ dirs \in SUBSET [owner : Procs, born : Nat]
    BY DEF PIInv, PTypeOK
  <2>2. push' = [push EXCEPT ![p] = X]
        /\ UNCHANGED <<now, published, decayed, remote, dirs, pushSuccess>>
    BY <1>1 DEF Push!TimeOut, Push!Goto, Push!disk
  <2>3. X \in PRuns /\ X.pc = "drain"
    <3>1. push[p] \in PRuns
      BY <2>1
    <3> QED
      BY <3>1 DEF PRuns, PStages
  <2> HIDE DEF X
  <2>4. push'[p] = X
    BY <2>1, <2>2
  <2>5. RunSound(p)'
    BY <2>3, <2>4 DEF RunSound, InTime, Listed, Encrypting, Push!Running
  <2> QED
    BY <2>1, <2>2, <2>3, <2>5, OthersKept, OwnStep
<1>2. CASE ~(push[p].pc \in {"encrypt", "copy"})
  BY <1>2, EndSound DEF Push!TimeOut
<1> QED
  BY <1>1, <1>2

LEMMA UploadSound ==
    ASSUME PIInv, NEW p \in Procs, NEW o, Push!Upload(p, o) PROVE PIInv'
<1>1. push[p].pc = "copy" /\ o \in push[p].out /\ remote' = remote \union {o}
      /\ UNCHANGED <<now, published, decayed, dirs, push, pushSuccess>>
  BY DEF Push!Upload, Push!Uploaded, Push!disk
<1>2. o.ok /\ o \in Objects
  <2>1. push[p] \in PRuns /\ RunSound(p)
    BY DEF PIInv, PTypeOK
  <2> QED
    BY <1>1, <2>1 DEF PRuns, RunSound, Encrypting
<1>3. PTypeOK' /\ now \in Nat
  BY <1>1, <1>2 DEF PIInv, PTypeOK
<1>4. Push!ShippedSound'
  BY <1>1, <1>2 DEF PIInv, Push!ShippedSound
<1>5. Push!LiveDirKept' /\ StampsBounded'
  BY <1>1 DEF PIInv, Push!LiveDirKept, Push!OwnDir, StampsBounded
<1>6. SuccessShipped'
  BY <1>1, <1>3, SuccessKept
<1>7. \A q \in Procs : RunSound(q)'
  BY <1>1, RunKept
<1> QED
  BY <1>3, <1>4, <1>5, <1>6, <1>7 DEF PIInv

\* All that was selected is offsite, the fresh snapshot with it.
LEMMA FinishSound ==
    ASSUME Push!PushAssumption, PIInv, NEW p \in Procs, Push!Finish(p) PROVE PIInv'
<1>1. push \in [Procs -> PRuns] /\ dirs \in SUBSET [owner : Procs, born : Nat] /\ now \in Nat
      /\ Timeout \in Nat /\ SourceMaxAge \in Nat /\ ClockSkew \in Nat
  BY DEF PIInv, PTypeOK, Push!PushAssumption
<1>2. push[p].pc = "copy" /\ (\A o \in push[p].out : Push!Offsite(o))
      /\ push' = [push EXCEPT ![p] = Push!Idle] /\ dirs' = dirs \ {Push!OwnDir(p)}
      /\ UNCHANGED <<now, published, decayed, remote>>
      /\ pushSuccess' \in {now, pushSuccess}
  BY DEF Push!Finish, Push!End, Push!disk
<1>3. push[p] \in PRuns /\ RunSound(p)
  BY <1>1 DEF PIInv
<1>4. push' \in [Procs -> PRuns] /\ push'[p] = Push!Idle /\ \A q \in Procs \ {p} : push'[q] = push[q]
  BY <1>1, <1>2, IdleTyped
<1>5. PTypeOK'
  BY <1>1, <1>2, <1>4 DEF PIInv, PTypeOK
<1>6. StampsBounded' /\ Push!ShippedSound'
  BY <1>2 DEF PIInv, StampsBounded, Push!ShippedSound
<1>7. \A q \in Procs : RunSound(q)'
  BY <1>2, <1>4, RunKept, IdleIsSound
<1>8. Push!LiveDirKept'
  <2> SUFFICES ASSUME NEW q \in Procs, push'[q].pc \in {"encrypt", "copy"}
               PROVE  Push!OwnDir(q)' \in dirs'
    BY DEF Push!LiveDirKept
  <2>1. q # p
    BY <1>4 DEF Push!Idle
  <2>2. push'[q] = push[q]
    BY <1>4, <2>1
  <2>3. Push!OwnDir(q) \in dirs /\ Push!OwnDir(q) # Push!OwnDir(p)
    BY <2>1, <2>2 DEF PIInv, Push!LiveDirKept, Push!OwnDir
  <2> QED
    BY <1>2, <2>2, <2>3 DEF Push!OwnDir
<1>9. SuccessShipped'
  <2>1. CASE pushSuccess' = pushSuccess
    BY <1>1, <1>2, <2>1, SuccessKept
  <2>2. CASE pushSuccess' = now
    <3>1. PICK s \in push[p].selected : s <= now + ClockSkew /\ push[p].began - s <= SourceMaxAge
      BY <1>2, <1>3 DEF RunSound, Listed
    <3>2. s \in Nat /\ push[p].began \in Nat
      BY <1>3 DEF PRuns
    <3>3. now <= push[p].began + Timeout
      BY <1>2, <1>3 DEF RunSound, InTime, Push!Running, Push!Deadline
    <3>4. now - s <= SourceMaxAge + Timeout /\ s \in 0 .. now + ClockSkew
      BY <1>1, <3>1, <3>2, <3>3
    <3>5. Push!Complete(s)
      BY <1>2, <1>3, <3>1 DEF RunSound, Encrypting, Push!Complete, Push!Offsite
    <3>6. Push!Complete(s)'
      BY <1>2, <3>5 DEF Push!Complete, Push!Offsite
    <3> QED
      BY <1>1, <1>2, <2>2, <3>4, <3>6 DEF SuccessShipped
  <2> QED
    BY <1>2, <2>1, <2>2
<1> QED
  BY <1>5, <1>6, <1>7, <1>8, <1>9 DEF PIInv

LEMMA StutterSound ==
    ASSUME PIInv, UNCHANGED <<now, published, decayed, remote, dirs, push, pushSuccess>> PROVE PIInv'
<1>1. published' \in SUBSET Nat /\ StampsBounded'
  BY DEF PIInv, PTypeOK, StampsBounded
<1> QED
  BY <1>1, WorldSound

LEMMA StepSound ==
    ASSUME Push!PushAssumption, PIInv, [Push!Next]_Push!vars PROVE PIInv'
<1>1. CASE UNCHANGED Push!vars
  BY <1>1, StutterSound DEF Push!vars
<1>2. CASE Push!Tick \/ Push!Publish
  BY <1>2, TickSound, PublishSound
<1>3. CASE \E s \in published : Push!Prune(s) \/ Push!Decay(s)
  BY <1>3, PruneSound, DecaySound
<1>4. CASE \E c \in {"off", "problem", "good"} : Push!Reconfigure(c)
  BY <1>4, ReconfigureSound
<1>5. CASE \E p \in Procs : Push!Push(p)
  <2>1. PICK p \in Procs : Push!Push(p)
    BY <1>5
  <2>2. CASE Push!Refuse(p)
    BY <2>2, StutterSound DEF Push!Refuse, Push!Skipped, Push!disk
  <2>3. CASE Push!Begin(p) \/ Push!Sweep(p) \/ Push!List(p) \/ Push!MakeDir(p) \/ Push!StartCopy(p) \/ Push!Finish(p)
             \/ Push!TimeOut(p) \/ Push!Kill(p)
    BY <2>3, BeginSound, SweepSound, ListSound, MakeDirSound, StartCopySound, FinishSound,
       TimeOutSound, KillSound
  <2>4. CASE Push!NothingToPush(p) \/ Push!ChildFails(p) \/ Push!EndDrain(p) \/ Push!PipesClose(p)
    BY <2>4, EndSound DEF Push!NothingToPush, Push!ChildFails, Push!EndDrain, Push!PipesClose
  <2>5. CASE \E s \in push[p].todo : Push!Verify(p, s) \/ Push!Encrypt(p, s)
    BY <2>5, VerifySound, EncryptSound
  <2>6. CASE \E o \in push[p].out : Push!Upload(p, o)
    BY <2>6, UploadSound
  <2> QED
    BY <2>1, <2>2, <2>3, <2>4, <2>5, <2>6 DEF Push!Push
<1> QED
  BY <1>1, <1>2, <1>3, <1>4, <1>5 DEF Push!Next

\* The invariant is what the offsite copies are trusted for, and more: the age of
\* the last success bounds the age of what is offsite.
LEMMA InvariantIsEnough ==
    ASSUME Push!PushAssumption, PIInv PROVE Push!OffsiteSound
<1>1. now \in Nat /\ push \in [Procs -> PRuns] /\ {Timeout, StaleAfter, SourceMaxAge, ClockSkew, FirstTick} \subseteq Nat
  BY DEF PIInv, PTypeOK, Push!PushAssumption
<1>2. Push!OkMeansOffsite
  <2> SUFFICES ASSUME Push!CloudStatus = "ok"
               PROVE  \E s \in 0..now + ClockSkew :
                        Push!Complete(s) /\ now - s <= StaleAfter + SourceMaxAge + Timeout
    BY DEF Push!OkMeansOffsite
  <2>1. pushSuccess # Push!Never /\ ~(now - pushSuccess > StaleAfter)
    BY DEF Push!CloudStatus
  <2>2. pushSuccess \in Nat /\ pushSuccess <= now
    BY <2>1 DEF PIInv, PTypeOK, SuccessShipped
  <2>3. PICK s \in 0 .. pushSuccess + ClockSkew :
           Push!Complete(s) /\ pushSuccess - s <= SourceMaxAge + Timeout
    BY <2>1 DEF PIInv, SuccessShipped
  <2>4. s \in 0 .. now + ClockSkew /\ now - s <= StaleAfter + SourceMaxAge + Timeout
    BY <1>1, <2>1, <2>2, <2>3
  <2> QED
    BY <2>3, <2>4
<1>3. Push!DaysOffsite
  <2> SUFFICES ASSUME NEW p \in Procs, push[p].pc = "copy", \A o \in push[p].out : Push!Offsite(o),
                      NEW s \in push[p].listed,
                      \A t \in push[p].listed : t > s => Push!Day(t) # Push!Day(s),
                      Cardinality({Push!Day(t) : t \in {u \in push[p].listed : Push!Day(u) > Push!Day(s)}}) < Window
               PROVE  Push!Complete(s)
    BY DEF Push!DaysOffsite
  <2>1. push[p] \in PRuns /\ RunSound(p)
    BY <1>1 DEF PIInv
  <2>2. push[p].listed \in SUBSET Nat /\ push[p].listed \subseteq 0 .. now + FirstTick + 1
    BY <2>1 DEF PRuns, RunSound, Listed
  <2>3. IsFiniteSet(push[p].listed)
    <3>1. now + FirstTick + 1 \in Nat
      BY <1>1
    <3>2. IsFiniteSet(0 .. now + FirstTick + 1)
      BY <3>1, FS_Interval
    <3> QED
      BY <2>2, <3>2, FS_Subset
  <2>4. s \in push[p].selected
    BY <2>1, <2>2, <2>3, DaysAreSelected DEF RunSound, Listed
  <2> QED
    BY <2>1, <2>4 DEF RunSound, Encrypting, Push!Complete, Push!Offsite
<1> QED
  BY <1>2, <1>3 DEF Push!OffsiteSound, PIInv

\* The inductive invariant of cloud_backup holds for any set of processes
\* that push, sweep, time out and die between any two of their steps, whatever the
\* timeouts, windows and skews are.
THEOREM PushInvariance == ASSUME Push!PushAssumption PROVE Push!Spec => []PIInv
<1>1. Push!Init => PIInv
  BY InitSound
<1>2. PIInv /\ [Push!Next]_Push!vars => PIInv'
  BY StepSound
<1> QED
  BY <1>1, <1>2, PTL DEF Push!Spec

\* What cloud_backup and its status are trusted for: a status that is not stale
\* means a whole and fresh snapshot offsite, the days of the window are covered,
\* nothing offsite was encrypted from a snapshot that did not match its manifest,
\* and no sweep takes the directory from under a run of another process.
THEOREM OffsiteIsSound == ASSUME Push!PushAssumption PROVE Push!Spec => []OffsiteSound
<1>1. PIInv => OffsiteSound
  BY InvariantIsEnough DEF OffsiteSound
<1> QED
  BY <1>1, PushInvariance, PTL

HIDE PushSizes
=============================================================================
