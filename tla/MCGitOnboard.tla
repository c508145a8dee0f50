---------------------------- MODULE MCGitOnboard ----------------------------
(***************************************************************************)
(* The two halves of onboarding in one run: the runs over a repository and *)
(* a store, which take the clustering as a black box, and the clustering   *)
(* of what one run walked.  The halves share no variable; `part` says      *)
(* which one a behaviour is about, and the other stands still.  The runs   *)
(* are taken three times: one at a time over three commits, one at a time  *)
(* and undisturbed over four, where lines are merged and where the ref can *)
(* leave a line and come back to it, and two at a time over two commits.   *)
(***************************************************************************)
EXTENDS GitOnboard, Integers

CONSTANTS r1, r2

VARIABLES part, commits, cap, pc, groups

clustering == <<commits, cap, pc, groups>>

\* Four commits, close and far apart.  A share of one file in five is exactly
\* the threshold of the merge.
Long == INSTANCE ClusterCommits WITH
  MaxLen <- 4, Dates <- {0, 2, 3}, Window <- 1, Churns <- {1}, Subjects <- {"work"},
  FileLists <- {<<>>, <<1>>, <<2>>, <<1, 2, 3, 4, 5>>}, Caps <- {2}, Shows <- {2}

\* Three commits of all kinds and sizes, and caps that do and do not make sense.
Mixed == INSTANCE ClusterCommits WITH
  MaxLen <- 3, Dates <- {0, 3}, Window <- 1, Churns <- {0, 1, 2},
  Subjects <- {"work", "merge"}, FileLists <- {<<1>>, <<2, 1>>, <<3>>},
  Caps <- {-1, 2}, Shows <- {1, 2, 5}

\* A merge is dropped, whatever its size.
OneMerge == \A i \in DOMAIN commits :
  commits[i].subject = "merge" => commits[i].churn = 1 /\ commits[i].files = <<1>>

MCInit ==
  /\ Init
  /\ \/ part \in {"alone", "return", "overlap"} /\ commits = <<>> /\ cap = 1 /\ pc = "done" /\ groups = <<>>
     \/ part = "clustering" /\ (Long!Init \/ (Mixed!Init /\ OneMerge))

Noise == {c \in Made : kind[c] = "noise"}

MCNext ==
  /\ UNCHANGED part
  /\ \/ /\ part \in {"alone", "return", "overlap"} /\ Next /\ UNCHANGED clustering
        /\ part = "alone" => /\ UNCHANGED run[r2] /\ Cardinality(Made') <= 3 /\ ~ Merged'
                             /\ Cardinality(Noise') <= 1 /\ failures' + crashes' + writes' <= 2
        /\ part = "return" => UNCHANGED <<run[r2], failures, crashes, writes>> /\ Noise' = {}
        /\ part = "overlap" => Cardinality(Made') <= 2 /\ UNCHANGED writes
     \/ part = "clustering" /\ Mixed!Next /\ UNCHANGED vars

MCSpec == MCInit /\ [][MCNext]_<<vars, part, clustering>>

\* The clusters handed over partition the commits kept, in order of time and
\* within the cap: ClusterCommits!Clustered.
Clustered == Mixed!Clustered

\* The summary of a cluster is true of it: ClusterCommits!SummaryTrue.
SummaryTrue == Mixed!SummaryTrue
=============================================================================
