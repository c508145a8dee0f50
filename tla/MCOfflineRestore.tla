-------------------------- MODULE MCOfflineRestore --------------------------
(***************************************************************************)
(* Two workloads in one run.  "overlap": two restore operations on a sound *)
(* database, with a transaction of the service or a kill.  "kills": one    *)
(* operation on a sound or a damaged database, three transactions, two     *)
(* candidates and four kills.                                              *)
(***************************************************************************)
EXTENDS OfflineRestore, TLC

CONSTANTS o1, o2

MCOps == {o1, o2}
OpSymmetry == Permutations(MCOps)
MCSnapshots == {2}

VARIABLE workload

MCInit ==
  /\ Init
  /\ workload \in {"overlap", "kills"}
  /\ workload = "overlap" => live["main"] = 1

Begun == {o \in Ops : state[o] # NoState}

MCNext ==
  /\ Next
  /\ UNCHANGED workload
  /\ workload = "overlap" => writes' + crashes' <= 1 /\ staged' <= 1
  /\ workload = "kills" => \A o, p \in Begun' : o = p

MCSpec == MCInit /\ [][MCNext]_<<vars, workload>>
=============================================================================
