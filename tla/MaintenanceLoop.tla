--------------------------- MODULE MaintenanceLoop ---------------------------
(***************************************************************************)
(* The in-process maintenance loop                                         *)
(* (core/application/services/maintenance_loop.py) and the schedule file   *)
(* it keeps beside the database, from which health                         *)
(* (core/application/use_cases/diagnose_runtime.py) later reads whether a  *)
(* job's last run failed.                                                  *)
(*                                                                         *)
(* One asyncio process runs a ticking loop.  A tick dispatches every due   *)
(* job as a task of its own; the task takes the job's lock, then queues    *)
(* for the global lock, runs its handler, stamps the job, writes the       *)
(* schedule file on a worker thread and leaves.  The process can be        *)
(* stopped (in-flight tasks are cancelled) or killed at any point, and is  *)
(* started again from the file.                                            *)
(*                                                                         *)
(* Times are natural numbers; Never (-1) stands for a missing timestamp.   *)
(* Jobs are numbered by their position in the job list, which is the order *)
(* in which one tick dispatches them.                                      *)
(***************************************************************************)
EXTENDS Integers, FiniteSets

CONSTANTS
    Jobs,       \* the configured jobs: their positions in the job list
    Enabled,    \* the ones whose `enabled` is true
    Handlers,   \* the ones with a registered handler
    CanSkip,    \* the ones whose handler may report `skipped`
    Interval,   \* interval_seconds of each job, in clock units
    MaxTime     \* bound: the clock stops here

Never == -1
NoJob == 0

ASSUME JobsAssumption ==
    /\ Jobs \subseteq Nat \ {NoJob}
    /\ Enabled \subseteq Jobs
    /\ Handlers \subseteq Jobs
    /\ CanSkip \subseteq Handlers
    /\ Interval \in [Jobs -> Nat \ {0}]
    /\ MaxTime \in Nat

VARIABLES
    clock,       \* utc_now(): assumed never to step backwards
    proc,        \* the process: "down", "up" or "stopping"
    phase,       \* each job's task
    ahead,       \* for a queued job, the jobs before it at the global lock
    holder,      \* who holds the global lock (= _running_job), or NoJob
    startedAt,   \* _started_at
    overlapLogged, lastOutcome, runsTotal, runsSkippedOverlap,
    lastRun, lastSuccess,        \* the stamps in memory
    fileRun, fileSuccess,        \* the two blocks of maintenance_state.json
    \* History: what really happened, whatever the stamps say.
    ended,       \* how the run behind each job's stamps in memory ended
    fileEnded,   \* the same for the stamps in the file
    okTimes,     \* the times at which a handler of the job returned well
    readable     \* did the last start read the schedule file?

memory == <<phase, ahead, holder, startedAt, overlapLogged, lastOutcome,
            runsTotal, runsSkippedOverlap, lastRun, lastSuccess>>
file == <<fileRun, fileSuccess, fileEnded>>
vars == <<clock, proc, memory, file, ended, okTimes, readable>>

Phases == {"idle", "queued", "running", "persisting"}
Outcomes == {"none", "ok", "failed", "skipped", "skipped_overlap"}
Endings == {"none", "ok", "failed", "skipped", "cancelled"}
Time == Nat \union {Never}

(***************************************************************************)
(* Reading the state.                                                      *)
(***************************************************************************)
\* A task is in flight exactly when it holds its job's own lock.
Locked(j) == phase[j] # "idle"

Due(j) == lastRun[j] = Never \/ clock - lastRun[j] >= Interval[j]

\* What health concludes from the file about the job's last run.
LastRunFailed(j) == fileRun[j] # Never /\ fileSuccess[j] < fileRun[j]

(***************************************************************************)
(* Process start and end.                                                  *)
(***************************************************************************)
All(v) == [j \in Jobs |-> v]

Init ==
    /\ clock = 0
    /\ proc = "down"
    /\ phase = All("idle")
    /\ ahead = All({})
    /\ holder = NoJob
    /\ startedAt = All(Never)
    /\ overlapLogged = All(FALSE)
    /\ lastOutcome = All("none")
    /\ runsTotal = All(0)
    /\ runsSkippedOverlap = All(0)
    /\ lastRun = All(Never)
    /\ lastSuccess = All(Never)
    /\ fileRun = All(Never)
    /\ fileSuccess = All(Never)
    /\ ended = All("none")
    /\ fileEnded = All("none")
    /\ okTimes = All({})
    /\ readable = TRUE

\* Bug: the persisted stamps are not restored.
StartWithoutLoad ==
    /\ proc = "down"
    /\ proc' = "up"
    /\ readable' = TRUE
    /\ UNCHANGED <<clock, memory, file, ended, okTimes>>

\* start(): load the stamps, then begin ticking.  An unreadable file is
\* logged and the process starts as if there were none.
Start ==
    /\ proc = "down"
    /\ proc' = "up"
    /\ \/ /\ readable' = TRUE
          /\ lastRun' = fileRun
          /\ lastSuccess' = fileSuccess
          /\ ended' = fileEnded
       \/ /\ readable' = FALSE
          /\ lastRun' = All(Never)
          /\ lastSuccess' = All(Never)
          /\ ended' = All("none")
    /\ UNCHANGED <<clock, phase, ahead, holder, startedAt, overlapLogged,
                   lastOutcome, runsTotal, runsSkippedOverlap, file, okTimes>>

\* Everything the process held is gone; the file is what is left.
LoseMemory ==
    /\ proc' = "down"
    /\ phase' = All("idle")
    /\ ahead' = All({})
    /\ holder' = NoJob
    /\ startedAt' = All(Never)
    /\ overlapLogged' = All(FALSE)
    /\ lastOutcome' = All("none")
    /\ runsTotal' = All(0)
    /\ runsSkippedOverlap' = All(0)
    /\ lastRun' = All(Never)
    /\ lastSuccess' = All(Never)
    /\ ended' = All("none")
    /\ UNCHANGED <<clock, file, okTimes, readable>>

\* A kill, a power cut, an out-of-memory stop.
Crash ==
    /\ proc # "down"
    /\ LoseMemory

\* stop() has returned and the executor's last write has landed.
Exit ==
    /\ proc = "stopping"
    /\ \A j \in Jobs : phase[j] = "idle"
    /\ LoseMemory

(***************************************************************************)
(* The ticking loop.                                                       *)
(***************************************************************************)
AdvanceClock ==
    /\ clock < MaxTime
    /\ clock' = clock + 1
    /\ UNCHANGED <<proc, memory, file, ended, okTimes, readable>>

\* A due job whose own run has outlived its next start: counted once per run.
Overlapping(j) ==
    /\ Locked(j)
    /\ startedAt[j] # Never
    /\ ~overlapLogged[j]
    /\ clock - startedAt[j] >= Interval[j]

Spawning == {j \in Enabled : Due(j) /\ ~Locked(j)}
Skipping == {j \in Enabled : Due(j) /\ Overlapping(j)}
Waiting == {j \in Jobs : phase[j] = "queued"}

\* One pass of _run over the job list; it has no await, so it is atomic.
Tick ==
    /\ proc = "up"
    /\ phase' = [j \in Jobs |-> IF j \in Spawning THEN "queued" ELSE phase[j]]
    /\ ahead' = [j \in Jobs |->
                    IF j \in Spawning
                    THEN Waiting \union {k \in Spawning : k < j}
                    ELSE ahead[j]]
    /\ overlapLogged' = [j \in Jobs |-> IF j \in Skipping THEN TRUE ELSE overlapLogged[j]]
    /\ runsSkippedOverlap' =
           [j \in Jobs |-> runsSkippedOverlap[j] + (IF j \in Skipping THEN 1 ELSE 0)]
    /\ lastOutcome' = [j \in Jobs |->
                          IF j \in Skipping THEN "skipped_overlap" ELSE lastOutcome[j]]
    /\ UNCHANGED <<clock, proc, holder, startedAt, runsTotal, lastRun,
                   lastSuccess, file, ended, okTimes, readable>>

(***************************************************************************)
(* A job's task.                                                           *)
(***************************************************************************)
\* Bug: a waiter that got the lock is left in the queue.
LeaveQueueLost(j) == UNCHANGED ahead

\* asyncio.Lock serves its waiters in order of arrival.
LeaveQueue(j) == ahead' = [k \in Jobs |-> ahead[k] \ {j}]

CanEnter(j) ==
    /\ proc = "up"
    /\ phase[j] = "queued"
    /\ holder = NoJob
    /\ ahead[j] = {}

\* _run_slot entered: the job is running, no longer queued.
EnterSlot(j) ==
    /\ CanEnter(j)
    /\ j \in Handlers
    /\ LeaveQueue(j)
    /\ phase' = [phase EXCEPT ![j] = "running"]
    /\ holder' = j
    /\ startedAt' = [startedAt EXCEPT ![j] = clock]
    /\ UNCHANGED <<clock, proc, overlapLogged, lastOutcome, runsTotal,
                   runsSkippedOverlap, lastRun, lastSuccess, file, ended, okTimes, readable>>

\* No handler: stamped and counted as failed, never written to the file.
EnterSlotWithoutHandler(j) ==
    /\ CanEnter(j)
    /\ j \notin Handlers
    /\ LeaveQueue(j)
    /\ phase' = [phase EXCEPT ![j] = "idle"]
    /\ lastOutcome' = [lastOutcome EXCEPT ![j] = "failed"]
    /\ runsTotal' = [runsTotal EXCEPT ![j] = @ + 1]
    /\ lastRun' = [lastRun EXCEPT ![j] = clock]
    /\ ended' = [ended EXCEPT ![j] = "failed"]
    /\ UNCHANGED <<clock, proc, holder, startedAt, overlapLogged,
                   runsSkippedOverlap, lastSuccess, file, okTimes, readable>>

\* Bug: a run that found nothing to do is stamped as a success.
StampSkippedAsSuccess(j, result) ==
    /\ phase' = [phase EXCEPT ![j] = "persisting"]
    /\ runsTotal' = [runsTotal EXCEPT ![j] = @ + 1]
    /\ lastRun' = [lastRun EXCEPT ![j] = clock]
    /\ lastSuccess' = [lastSuccess EXCEPT ![j] = IF result # "failed" THEN clock ELSE @]
    /\ lastOutcome' = [lastOutcome EXCEPT ![j] = result]
    /\ ended' = [ended EXCEPT ![j] = result]
    /\ okTimes' = [okTimes EXCEPT ![j] = IF result = "ok" THEN @ \union {clock} ELSE @]

\* The `finally` of _invoke, run with `result` known, up to its await of the
\* schedule write.  Only a run that succeeded moves last_success_at.
Stamp(j, result) ==
    /\ phase' = [phase EXCEPT ![j] = "persisting"]
    /\ runsTotal' = [runsTotal EXCEPT ![j] = @ + 1]
    /\ lastRun' = [lastRun EXCEPT ![j] = clock]
    /\ lastSuccess' = [lastSuccess EXCEPT ![j] = IF result = "ok" THEN clock ELSE @]
    /\ lastOutcome' = [lastOutcome EXCEPT ![j] = IF result = "cancelled" THEN @ ELSE result]
    /\ ended' = [ended EXCEPT ![j] = result]
    /\ okTimes' = [okTimes EXCEPT ![j] = IF result = "ok" THEN @ \union {clock} ELSE @]

\* The handler returned (well, or reporting `skipped`) or raised.
HandlerEnds(j, result) ==
    /\ proc = "up"
    /\ phase[j] = "running"
    /\ result \in {"ok", "failed", "skipped"}
    /\ result = "skipped" => j \in CanSkip
    /\ Stamp(j, result)
    /\ UNCHANGED <<clock, proc, ahead, holder, startedAt, overlapLogged,
                   runsSkippedOverlap, file, readable>>

\* The slot's exit: both locks released, the run's marks cleared.
LeaveSlot(j) ==
    /\ phase[j] = "persisting"
    /\ phase' = [phase EXCEPT ![j] = "idle"]
    /\ holder' = NoJob
    /\ startedAt' = [startedAt EXCEPT ![j] = Never]
    /\ overlapLogged' = [overlapLogged EXCEPT ![j] = FALSE]
    /\ UNCHANGED <<clock, proc, ahead, lastOutcome, runsTotal,
                   runsSkippedOverlap, lastRun, lastSuccess, ended, okTimes, readable>>

\* Bug: the copy-paste slip the code's comment warns of, one block for both.
PersistRunAsSuccess(j) ==
    /\ LeaveSlot(j)
    /\ fileRun' = lastRun
    /\ fileSuccess' = lastRun
    /\ fileEnded' = ended

\* _persist_state: every job's stamps replace the file in one rename.
Persist(j) ==
    /\ LeaveSlot(j)
    /\ fileRun' = lastRun
    /\ fileSuccess' = lastSuccess
    /\ fileEnded' = ended

\* The write failed, or its worker was cancelled before it ran.
PersistFails(j) ==
    /\ LeaveSlot(j)
    /\ UNCHANGED file

(***************************************************************************)
(* stop(): the loop ends and every in-flight task is cancelled.  A queued  *)
(* task vanishes; a running one passes through its `finally`; one already  *)
(* writing leaves its write to the executor.                               *)
(***************************************************************************)
\* Bug: only running tasks are cancelled.
CancelNothingQueued == phase

CancelQueued == [j \in Jobs |-> IF phase[j] = "queued" THEN "idle" ELSE phase[j]]

Stop ==
    /\ proc = "up"
    /\ proc' = "stopping"
    /\ ahead' = All({})
    /\ LET cancelled == {j \in Jobs : phase[j] = "running"} IN
       /\ phase' = [j \in Jobs |->
                       IF j \in cancelled THEN "persisting" ELSE CancelQueued[j]]
       /\ runsTotal' = [j \in Jobs |-> runsTotal[j] + (IF j \in cancelled THEN 1 ELSE 0)]
       /\ lastRun' = [j \in Jobs |-> IF j \in cancelled THEN clock ELSE lastRun[j]]
       /\ ended' = [j \in Jobs |-> IF j \in cancelled THEN "cancelled" ELSE ended[j]]
    /\ UNCHANGED <<clock, holder, startedAt, overlapLogged, lastOutcome,
                   runsSkippedOverlap, lastSuccess, file, okTimes, readable>>

Task(j) ==
    \/ EnterSlot(j)
    \/ EnterSlotWithoutHandler(j)
    \/ \E result \in Endings : HandlerEnds(j, result)
    \/ Persist(j)
    \/ PersistFails(j)

Next ==
    \/ Start
    \/ Crash
    \/ Exit
    \/ AdvanceClock
    \/ Tick
    \/ Stop
    \/ \E j \in Jobs : Task(j)

Spec == Init /\ [][Next]_vars

\* The event loop keeps ticking and keeps resuming ready tasks, every shipped
\* handler returns (its calls have timeouts), and stop() runs to its end.
\* Nothing makes time pass, the process stop, crash or start.
Fairness ==
    /\ WF_vars(Tick)
    /\ \A j \in Jobs : WF_vars(Task(j))
    /\ WF_vars(Exit)

FairSpec == Spec /\ Fairness

(***************************************************************************)
(* Properties.                                                             *)
(***************************************************************************)
TypeOK ==
    /\ clock \in Nat
    /\ proc \in {"down", "up", "stopping"}
    /\ phase \in [Jobs -> Phases]
    /\ ahead \in [Jobs -> SUBSET Jobs]
    /\ holder \in Jobs \union {NoJob}
    /\ startedAt \in [Jobs -> Time]
    /\ overlapLogged \in [Jobs -> BOOLEAN]
    /\ lastOutcome \in [Jobs -> Outcomes]
    /\ runsTotal \in [Jobs -> Nat]
    /\ runsSkippedOverlap \in [Jobs -> Nat]
    /\ lastRun \in [Jobs -> Time]
    /\ lastSuccess \in [Jobs -> Time]
    /\ fileRun \in [Jobs -> Time]
    /\ fileSuccess \in [Jobs -> Time]
    /\ ended \in [Jobs -> Endings]
    /\ fileEnded \in [Jobs -> Endings]
    /\ okTimes \in [Jobs -> SUBSET Nat]
    /\ readable \in BOOLEAN

\* "No two jobs ever run concurrently in this process" (the comment on
\* _global_lock): a job running its handler or writing its stamps is the one
\* holding the global lock, through ticks, cancellations and restarts.
SlotExclusive ==
    \A j \in Jobs : phase[j] \in {"running", "persisting"} => holder = j

\* last_success_at "must not claim work that never happened": in memory and in
\* the file it is a time at which that job's handler really returned well,
\* whatever was skipped, cancelled, lost in a crash or reloaded since.
SuccessIsReal ==
    \A j \in Jobs :
        /\ lastSuccess[j] \in okTimes[j] \union {Never}
        /\ fileSuccess[j] \in okTimes[j] \union {Never}

\* The evidence health reads survives restarts and does not lie about runs
\* that completed: when the last run the file knows of raised, health says
\* failed; when it succeeded, health does not.
FailureNotMasked ==
    \A j \in Handlers :
        /\ fileEnded[j] = "failed" => LastRunFailed(j)
        /\ fileEnded[j] = "ok" => ~LastRunFailed(j)

\* "A container restart doesn't make every job due at once": unless the last
\* start could not read the file, no job is dispatched before its interval has
\* passed since the run the file records, however often the process was
\* stopped, killed and started in between.
NoEarlyRerun ==
    [][\A j \in Jobs :
          (readable /\ phase[j] = "idle" /\ phase'[j] = "queued")
              => fileRun[j] = Never \/ clock - fileRun[j] >= Interval[j]]_vars

\* "That start is skipped, counted and warned once per run": the overlap
\* counter never exceeds the runs finished plus the one in flight.
OverlapOncePerRun ==
    \A j \in Jobs :
        runsSkippedOverlap[j] <= runsTotal[j] + (IF overlapLogged[j] THEN 1 ELSE 0)

\* The status surface does not contradict itself between runs: "ok" comes with
\* last_run_at = last_success_at exactly, as the comment in _invoke promises,
\* and "failed" or "skipped" with an older success.  ("skipped_overlap" says
\* nothing of either: a tick during a slow write of the schedule file leaves it
\* standing over the finished run's own outcome.)
OutcomeMatchesStamps ==
    \A j \in Jobs :
        (proc = "up" /\ phase[j] = "idle")
            => /\ lastOutcome[j] = "ok" => lastSuccess[j] = lastRun[j]
               /\ lastOutcome[j] \in {"failed", "skipped"} => lastSuccess[j] < lastRun[j]

\* While the process stays up, an enabled due job does get its run, through
\* the queue for the global lock and past failed writes of other jobs.
DueJobRuns ==
    \A j \in Enabled :
        (proc = "up" /\ Due(j)) ~> (phase[j] = "running" \/ ~Due(j) \/ proc # "up")

\* stop() returns: cancelling whatever is queued, running or writing leaves
\* nothing that keeps the process from ending.
ShutdownCompletes == proc = "stopping" ~> proc = "down"
=============================================================================
