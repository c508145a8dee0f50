------------------------ MODULE MCEmbeddingLifecycle ------------------------
(***************************************************************************)
(* Two workloads in one run.  "race": two writers and the backfill contend *)
(* for one memory, with nothing failing.  "heal": one writer, and a        *)
(* provider failure, a re-pull of the weights and a crash.                 *)
(***************************************************************************)
EXTENDS EmbeddingLifecycle

CONSTANTS m1, c1, c2, w1, w2

MCMem == {m1}
MCContents == {c1, c2}
MCWriters == {w1, w2}

\* A project without memories: a backfill of it completes and covers nothing.
MCProjects == {{}}

\* c2 is over-long for the first weights and fits the ones pulled later.
MCTooLong == {<<c2, 1>>}

VARIABLE workload

MCInit == Init /\ workload \in {"race", "heal"}

MCNext ==
    /\ Next
    /\ UNCHANGED workload
    /\ workload = "race" => /\ faults' = 0 /\ crashes' = 0 /\ weights' = 1
                            /\ backfill'.pc # "idle" => backfill'.scope = Mem
    /\ workload = "heal" => /\ UNCHANGED writer[w2]
                            /\ backfill'.scope = Mem \/ ~backfill'.force

MCSpec == MCInit /\ [][MCNext]_<<vars, workload>> /\ Fairness
=============================================================================
