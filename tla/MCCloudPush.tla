---------------------------- MODULE MCCloudPush ----------------------------
(***************************************************************************)
(* The offsite push under three settings, one of which `part` picks: a     *)
(* longer clock with a fault, several days of snapshots, and two processes *)
(* that push at once.  They differ in where the clock begins and ends and  *)
(* in the faults; the limits that OffsiteSound is about are the same.      *)
(***************************************************************************)
EXTENDS OffsitePush

VARIABLE part

Days == INSTANCE CloudPush WITH
  Start <- 5, MaxTime <- 7, MaxFaults <- 0, lastSuccess <- pushSuccess
Pair == INSTANCE CloudPush WITH
  Start <- 0, MaxTime <- 3, MaxFaults <- 0, lastSuccess <- pushSuccess

ASSUME Push!PushAssumption /\ Days!PushAssumption /\ Pair!PushAssumption

vars == <<part, now, config, published, decayed, remote, dirs, push, pushSuccess, faults>>

In(A, B, C) == \/ part = "status" /\ A
               \/ part = "days" /\ B
               \/ part = "pair" /\ C

MCInit == part \in {"status", "days", "pair"} /\ In(Push!Init, Days!Init, Pair!Init)

MCNext ==
  /\ UNCHANGED part
  /\ \/ part = "status" /\ Push!Next
     \/ part = "days" /\ Days!Next
     \/ part = "pair" /\ Pair!Next
  /\ part # "pair" => push'["run-once"].pc = "idle"

MCTick == UNCHANGED part /\ In(Push!Tick, Days!Tick, Pair!Tick)
MCTimeOut(p) == UNCHANGED part /\ Push!TimeOut(p)
MCEndDrain(p) == UNCHANGED part /\ Push!EndDrain(p)

MCFairness ==
  /\ WF_vars(MCTick)
  /\ \A p \in Procs : WF_vars(MCTimeOut(p)) /\ WF_vars(MCEndDrain(p))

MCSpec == MCInit /\ [][MCNext]_vars /\ MCFairness

\* CloudPush!RunEnds: a run that began ends, with the loop's lock, though its child
\* hangs and a grandchild keeps the pipe open.
RunEnds == Push!RunEnds
=============================================================================
