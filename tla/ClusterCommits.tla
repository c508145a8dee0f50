--------------------------- MODULE ClusterCommits ---------------------------
(***************************************************************************)
(* What onboarding makes of the commits it walked: filter, group by time,  *)
(* merge neighbours that touch the same files, merge the smallest group    *)
(* into a neighbour until the cap is met, sort.  The capping loop is a     *)
(* step per iteration, because whether it ends is one of the questions.    *)
(***************************************************************************)
EXTENDS Integers, FiniteSets, FiniteSetsExt, Sequences, SequencesExt

CONSTANTS MaxLen,    \* bound: commits walked
          Dates,     \* author dates
          Window,    \* time_window_hours
          FileLists, \* what files_changed may be
          Churns,    \* insertions plus deletions
          Subjects,  \* the shapes of a subject: "work", "merge", "format", "bump"
          Caps,      \* max_clusters, as given: zero and negative values too
          Shows      \* max_commits per cluster of a summary

VARIABLES commits, \* as walked, newest first
          cap,
          pc,
          groups   \* lists of indexes into commits

vars == <<commits, cap, pc, groups>>

Walked == UNION {[1 .. n -> [date : Dates, files : FileLists, churn : Churns, subject : Subjects]] :
                 n \in 0 .. MaxLen}

Init == commits \in Walked /\ cap \in Caps /\ pc = "filter" /\ groups = <<>>

\* filter_commits: merges, formatting, version bumps and empty diffs go.
Kept == {i \in DOMAIN commits : commits[i].subject = "work" /\ commits[i].churn # 0}

Date(i) == commits[i].date

\* sorted() by date is stable: equal dates keep the order of the walk.
Earlier(i, j) == Date(i) < Date(j) \/ (Date(i) = Date(j) /\ i < j)

\* A group's own list sorted by date, stable in the order of that list.
ByDate(g) ==
  LET before(a, b) == Date(g[a]) < Date(g[b]) \/ (Date(g[a]) = Date(g[b]) /\ a < b)
      order == SetToSortSeq(DOMAIN g, before)
  IN [k \in DOMAIN g |-> g[order[k]]]

Filter ==
  /\ pc = "filter"
  /\ groups' = IF Kept = {} THEN <<>> ELSE <<SetToSortSeq(Kept, Earlier)>>
  /\ pc' = IF Kept = {} THEN "done" ELSE "time"
  /\ UNCHANGED <<commits, cap>>

TooFar(i, j) == Date(j) - Date(i) > Window

\* Pass 1.
GroupByTime ==
  /\ pc = "time"
  /\ LET add(gs, i) ==
           IF gs = <<>> \/ (gs # <<>> /\ TooFar(Last(Last(gs)), i)) THEN Append(gs, <<i>>)
           ELSE Append(Front(gs), Append(Last(gs), i))
     IN groups' = FoldLeft(add, <<>>, groups[1])
  /\ pc' = "merge"
  /\ UNCHANGED <<commits, cap>>

Touched(g) == UNION {Range(commits[i].files) : i \in Range(g)}

\* _jaccard(a, b) > 0.2.
Overlap(a, b) == 5 * Cardinality(a \intersect b) > Cardinality(a \union b)

\* Pass 2: a group joins the merged group before it, or starts one.
MergeByFiles ==
  /\ pc = "merge"
  /\ LET add(ms, g) ==
           IF ms = <<>> \/ (ms # <<>> /\ ~ Overlap(Touched(Last(ms)), Touched(g))) THEN Append(ms, g)
           ELSE Append(Front(ms), Last(ms) \o g)
     IN groups' = FoldLeft(add, <<>>, groups)
  /\ pc' = "cap"
  /\ UNCHANGED <<commits, cap>>

\* max(1, max_clusters).
Floor(c) == IF c > 1 THEN c ELSE 1

OverCap(gs, c) == Len(gs) > Floor(c)

Smallest(gs) == CHOOSE s \in DOMAIN gs :
  /\ \A k \in DOMAIN gs : Len(gs[s]) <= Len(gs[k])
  /\ \A k \in 1 .. s - 1 : Len(gs[s]) < Len(gs[k])

\* The group before it or, for the first, the one after it.
MergeInto(gs, s) == IF s > 1 THEN s - 1 ELSE IF Len(gs) > 1 THEN 2 ELSE 1

\* Bug: the popped group replaces its neighbour instead of joining it.
JoinedLosing(gs, s, k) == RemoveAt([gs EXCEPT ![k] = gs[s]], s)

Joined(gs, s, k) == RemoveAt([gs EXCEPT ![k] = @ \o gs[s]], s)

\* One iteration of the loop that meets the cap.
CapStep ==
  /\ pc = "cap" /\ OverCap(groups, cap)
  /\ LET s == Smallest(groups)
         k == MergeInto(groups, s)
     IN groups' = IF k # s THEN Joined(groups, s, k) ELSE groups
  /\ UNCHANGED <<commits, cap, pc>>

\* The CommitCluster objects: each group sorted by date.
Build ==
  /\ pc = "cap" /\ ~ OverCap(groups, cap)
  /\ groups' = [k \in DOMAIN groups |-> ByDate(groups[k])]
  /\ pc' = "done"
  /\ UNCHANGED <<commits, cap>>

Next == Filter \/ GroupByTime \/ MergeByFiles \/ CapStep \/ Build

Spec == Init /\ [][Next]_vars

(***************************************************************************)
(* What a cluster is shown as                                              *)
(***************************************************************************)
\* Counter.most_common: by count, ties in the order they were first met.
MostCommon(s) ==
  LET count(x) == Cardinality({k \in DOMAIN s : s[k] = x})
      first(x) == Min({k \in DOMAIN s : s[k] = x})
      before(x, y) == count(x) > count(y) \/ (count(x) = count(y) /\ first(x) < first(y))
  IN SetToSortSeq(Range(s), before)

\* top_files, and the path part of the label and of the suggested tags.
TopFiles(g, limit) ==
  LET ranked == MostCommon(FlattenSeq([k \in DOMAIN g |-> commits[g[k]].files]))
  IN SubSeq(ranked, 1, Min({limit, Len(ranked)}))

\* The commits by churn, largest first; sorted(reverse=True) is stable too.
ByChurn(g) ==
  LET churn(k) == commits[g[k]].churn
      before(a, b) == churn(a) > churn(b) \/ (churn(a) = churn(b) /\ a < b)
      order == SetToSortSeq(DOMAIN g, before)
  IN [k \in DOMAIN g |-> g[order[k]]]

\* Bug: cut once the commits are back in date order.
ShownOldest(g, n) == SubSeq(ByDate(ByChurn(g)), 1, Min({n, Len(g)}))

\* format_cluster_for_synthesis: selected by churn, listed by date.
Shown(g, n) == ByDate(SubSeq(ByChurn(g), 1, Min({n, Len(g)})))

\* shown_commit_count of the summary.
ShownCount(g, n) == Min({n, Len(g)})

\* The date a memory made of the cluster gets: its newest commit's.
CreatedAt(g) == Date(Last(g))

(***************************************************************************)
(* Properties                                                              *)
(***************************************************************************)
Members == FlattenSeq(groups)

\* Every commit that was kept is in one group, once, and no group is empty.
Partitioned ==
  /\ Range(Members) = Kept /\ Len(Members) = Cardinality(Kept)
  /\ \A k \in DOMAIN groups : groups[k] # <<>>

\* The clusters are a timeline: each is in date order, none starts before the
\* one before it has ended, and a memory is dated by its newest commit.
Timeline ==
  /\ \A k \in DOMAIN groups : \A i, j \in DOMAIN groups[k] : i < j => Date(groups[k][i]) <= Date(groups[k][j])
  /\ \A k \in DOMAIN groups : k > 1 => CreatedAt(groups[k - 1]) <= Date(groups[k][1])
  /\ \A k \in DOMAIN groups : CreatedAt(groups[k]) = Max({Date(i) : i \in Range(groups[k])})

\* Commits within the window of one another are not separated.
WindowKept ==
  \A i, j \in Kept :
    Date(i) <= Date(j) /\ Date(j) - Date(i) <= Window
      => \E k \in DOMAIN groups : {i, j} \subseteq Range(groups[k])

\* At most max_clusters clusters, one when the cap makes no sense.
CapMet == Len(groups) <= Max({1, cap})

\* cluster_commits loses, repeats and separates nothing it should not: from the
\* first pass on the groups partition what was kept; the capping loop always
\* has two groups left to merge, so it ends; and the clusters returned are a
\* timeline that keeps the time window, within the cap, whatever was merged.
Clustered ==
  /\ pc # "filter" => Partitioned
  /\ pc = "cap" /\ OverCap(groups, cap) => Len(groups) > 1
  /\ pc = "done" => Timeline /\ WindowKept /\ CapMet

\* A summary lists as many commits as it says, in date order, and leaves out
\* none that is larger than one it lists; its key files are the ones most
\* commits touched.
SummaryTrue ==
  pc = "done" =>
    \A k \in DOMAIN groups, n \in Shows :
      LET g == groups[k]
          shown == Shown(g, n)
      IN /\ Len(shown) = ShownCount(g, n)
         /\ \A a, b \in DOMAIN shown : a < b => Date(shown[a]) <= Date(shown[b])
         /\ \A i \in Range(shown), j \in Range(g) \ Range(shown) : commits[i].churn >= commits[j].churn
         /\ \A f \in Range(TopFiles(g, n)), h \in Touched(g) \ Range(TopFiles(g, n)) :
              Cardinality({i \in Range(g) : f \in Range(commits[i].files)})
                >= Cardinality({i \in Range(g) : h \in Range(commits[i].files)})
=============================================================================
