------------------------- MODULE MCStoreTransactions -------------------------
EXTENDS StoreTransactions, TLC

CONSTANTS server, cli, t1, t2, t3, p1, p2, m1, m2, w1

MCThreads == {t1, t2, t3}
MCRuns == (t1 :> server) @@ (t2 :> server) @@ (t3 :> cli)
MCProjects == {p1, p2}
MCMemories == {m1, m2, w1}
MCHome == (m1 :> p1) @@ (m2 :> p2) @@ (w1 :> p1)
MCEnvelopes ==
  { [p |-> {p1, p2}, m |-> {m1, m2, w1}],
    [p |-> {}, m |-> {m2}] }
MCKinds == {"add_project", "add_memory", "delete_memory", "delete_project", "delete_projects",
            "merge", "replace", "export"}
=============================================================================
