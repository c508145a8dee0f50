----------------------------- MODULE GitOnboard -----------------------------
(***************************************************************************)
(* Onboarding a project from git history.  A run lists what the project    *)
(* holds, wipes it when forced, walks the commits past the watermark,      *)
(* clusters them, replaces the watermark, and only then hands the clusters *)
(* over: the MCP tool in its answer, the CLI as one memory per cluster.    *)
(* Every store call is a step: another run, a push, a failure of git or    *)
(* the death of the process may fall between any two.                      *)
(***************************************************************************)
EXTENDS Naturals, FiniteSets, FiniteSetsExt, Sequences, SequencesExt

CONSTANTS Runs,        \* runs that may be under way at once
          MaxWalk,     \* max_commits
          Malformed,   \* the content of a watermark that is no hash
          NoMark,
          MaxCommits, MaxMerges, MaxStarts, MaxFailures, MaxCrashes, MaxWrites \* bounds

ASSUME MaxCommitsAssumption == MaxCommits \in Nat \ {0}
ASSUME MaxWalkAssumption == MaxWalk \in Nat \ {0}
ASSUME MarksAssumption == Malformed \notin Nat /\ NoMark \notin Nat /\ Malformed # NoMark

Commits == 1 .. MaxCommits

VARIABLES
  anc,       \* per commit: the commits reachable from it; {} when not made yet
  kind,      \* per commit: "work", "noise" (filtered out) or "merge"
  head,      \* the checked-out ref's tip
  forced,    \* history: the ref once left its tip behind
  memories,  \* the project's git-onboard memories: an identifier and commits
  marks,     \* its watermark rows: an identifier and a content
  nextId,    \* identifiers, which are also the order of creation
  run,       \* per run: where it is and what it has read
  told,      \* history: commits in the clusters MCP callers were answered
  skipped,   \* history: commits past max_commits of a walk that was marked
  dropped,   \* history: clusters of runs that died once their walk was marked
  wiped,     \* history: commits of memories deleted by forced runs that did not finish,
             \* or whose own walk did not reach them
  repeated,  \* history: an incremental run handed over again a commit "past" its watermark,
             \* a descendant of it, or one "beside" it
  overlapped, \* history: two runs were once under way together
  failures, crashes, starts, writes

vars == <<anc, kind, head, forced, memories, marks, nextId, run, told, skipped, dropped, wiped, repeated,
          overlapped, failures, crashes, starts, writes>>
repo == <<anc, kind, head, forced>>
store == <<memories, marks, nextId>>
history == <<told, skipped, dropped, wiped, repeated>>
bounds == <<failures, crashes, starts, writes>>

Idle == [pc |-> "idle", surface |-> "mcp", force |-> FALSE, existing |-> {}, listed |-> {},
         mark |-> NoMark, walked |-> {}, clusters |-> <<>>, unreachable |-> FALSE,
         deleted |-> {}, beyond |-> {}, answer |-> "none"]

Made == {c \in Commits : anc[c] # {}}
Merged == \E c \in Made : kind[c] = "merge"

Init ==
  /\ anc = [c \in Commits |-> IF c = 1 THEN {1} ELSE {}]
  /\ kind = [c \in Commits |-> "work"]
  /\ head = 1 /\ forced = FALSE
  /\ memories = {} /\ marks = {} /\ nextId = 1
  /\ run = [r \in Runs |-> Idle]
  /\ told = {} /\ skipped = {} /\ dropped = {} /\ wiped = {} /\ repeated = {}
  /\ overlapped = FALSE
  /\ failures = 0 /\ crashes = 0 /\ starts = 0 /\ writes = 0

(***************************************************************************)
(* The repository and other writers                                        *)
(***************************************************************************)
\* A commit with one parent or, for a merge, two; the ref moves to it, or the
\* commit is on a side branch.  A ref that leaves its old tip behind was forced;
\* it does not come back to the same tip.
NewCommit ==
  /\ Made # Commits
  /\ \E c \in {Cardinality(Made) + 1}, P \in SUBSET Made :
       /\ Cardinality(P) \in 1 .. 2
       /\ Cardinality(P) = 2 => Cardinality({d \in Made : kind[d] = "merge"}) < MaxMerges
       /\ anc' = [anc EXCEPT ![c] = {c} \union UNION {anc[p] : p \in P}]
       /\ \E k \in IF Cardinality(P) = 2 THEN {"merge"} ELSE {"work", "noise"} :
            kind' = [kind EXCEPT ![c] = k]
       /\ head' \in {head, c}
  /\ forced' = (forced \/ head \notin anc'[head'])
  /\ UNCHANGED <<store, run, history, overlapped, bounds>>

\* A row written by hand or imported: a watermark that is no hash, or a
\* git-onboard memory without a watermark.
WriteByHand ==
  /\ writes < MaxWrites /\ writes' = writes + 1
  /\ nextId' = nextId + 1
  /\ \/ marks' = marks \union {[id |-> nextId, at |-> Malformed]} /\ UNCHANGED memories
     \/ memories' = memories \union {[id |-> nextId, of |-> {}]} /\ UNCHANGED marks
  /\ UNCHANGED <<repo, overlapped, run, history, failures, crashes, starts>>

(***************************************************************************)
(* One run                                                                 *)
(***************************************************************************)
Answer(r, a) == run' = [run EXCEPT ![r] = [Idle EXCEPT !.answer = a]]

\* No other run is under way, which might change what this one reads.
Alone(r) == \A q \in Runs \ {r} : run[q].pc = "idle"

Start(r) ==
  /\ run[r].pc = "idle" /\ starts < MaxStarts
  /\ starts' = starts + 1
  /\ \E s \in {"mcp", "cli"}, f \in BOOLEAN :
       run' = [run EXCEPT ![r] = [Idle EXCEPT !.pc = "existing", !.surface = s, !.force = f]]
  /\ overlapped' = (overlapped \/ ~ Alone(r))
  /\ UNCHANGED <<repo, store, history, failures, crashes, writes>>

ListExisting(r) ==
  /\ run[r].pc = "existing"
  /\ run' = [run EXCEPT ![r].pc = "marks", ![r].existing = {m.id : m \in memories}]
  /\ UNCHANGED <<repo, overlapped, store, history, bounds>>

\* The watermark row created last; one that does not look like a hash is ignored.
Watermark ==
  LET newest == CHOOSE w \in marks : \A v \in marks : v.id <= w.id
  IN IF marks = {} \/ newest.at = Malformed THEN NoMark ELSE newest.at

ListMarks(r) ==
  /\ run[r].pc = "marks"
  /\ LET w == Watermark
         listed == {v.id : v \in marks}
     IN IF run[r].force
        THEN run' = [run EXCEPT ![r].pc = "wipe", ![r].listed = run[r].existing \union listed]
        ELSE IF run[r].existing # {} /\ w = NoMark THEN Answer(r, "exists")
        ELSE run' = [run EXCEPT ![r].pc = "extract", ![r].mark = w, ![r].existing = {}]
  /\ UNCHANGED <<repo, overlapped, store, history, bounds>>

\* One delete_memory; a row that is gone raises NotFoundError, which ends the run.
DeleteRow(r, i) ==
  /\ IF \E x \in memories \union marks : x.id = i
     THEN /\ memories' = {m \in memories : m.id # i}
          /\ marks' = {w \in marks : w.id # i}
          /\ run' = [run EXCEPT ![r].listed = @ \ {i},
                                ![r].deleted = @ \union UNION {m.of : m \in memories \ memories'}]
          /\ UNCHANGED wiped
     ELSE /\ Answer(r, "error")
          /\ wiped' = wiped \union run[r].deleted
          /\ UNCHANGED <<memories, marks>>
  /\ UNCHANGED <<repo, overlapped, nextId, told, skipped, dropped, repeated, bounds>>

\* The memories, then the watermarks.
NextToWipe(r) ==
  IF run[r].listed \intersect run[r].existing # {} THEN run[r].listed \intersect run[r].existing
  ELSE run[r].listed

Wipe(r) ==
  /\ run[r].pc = "wipe"
  /\ \/ \E i \in NextToWipe(r) : DeleteRow(r, i)
     \/ /\ run[r].listed = {}
        /\ run' = [run EXCEPT ![r].pc = "extract", ![r].existing = {}]
        /\ UNCHANGED <<repo, overlapped, store, history, bounds>>

\* --max-count: git log lists newest first.
NewestOf(S) == {c \in S : Cardinality({d \in S : d > c}) < MaxWalk}

\* git log --no-merges [since..]HEAD.
Past(since) == {c \in anc[head] \ (IF since = NoMark THEN {} ELSE anc[since]) : kind[c] # "merge"}

\* A commit the ref no longer reaches may be gone from the clone.
Resolvable(since) == IF since = NoMark \/ since \in anc[head] THEN {TRUE} ELSE BOOLEAN

\* filter_commits.
Kept(S) == {c \in S : kind[c] = "work"}

\* cluster_commits promises a partition of what it is given; see ClusterCommits.
Partitions(S) ==
  IF S = {} THEN {<<>>} ELSE {<<S>>} \union {<<A, S \ A>> : A \in SUBSET S \ {{}, S}}

\* The walk, with the full walk when the watermark cannot be resolved.
Extract(r) ==
  /\ run[r].pc = "extract"
  /\ \E found \in Resolvable(run[r].mark) :
       LET past == Past(IF found THEN run[r].mark ELSE NoMark)
           walked == NewestOf(past)
       IN IF walked = {}
          THEN Answer(r, IF run[r].mark = NoMark THEN "empty" ELSE "up_to_date")
          ELSE \E cl \in Partitions(Kept(walked)) :
                 run' = [run EXCEPT ![r].pc = "remark", ![r].walked = walked, ![r].clusters = cl,
                                    ![r].beyond = Kept(past \ walked), ![r].unreachable = ~ found]
  /\ UNCHANGED <<repo, overlapped, store, history, bounds>>

\* git is missing, times out, or the clone fails: RuntimeError.
ExtractFails(r) ==
  /\ run[r].pc = "extract" /\ failures < MaxFailures
  /\ failures' = failures + 1
  /\ Answer(r, "error")
  /\ wiped' = wiped \union run[r].deleted
  /\ UNCHANGED <<repo, overlapped, store, told, skipped, dropped, repeated, crashes, starts, writes>>

\* save_watermark: list, delete each, add.
ListToReplace(r) ==
  /\ run[r].pc = "remark"
  /\ run' = [run EXCEPT ![r].pc = "unmark", ![r].listed = {w.id : w \in marks}]
  /\ UNCHANGED <<repo, overlapped, store, history, bounds>>

Unmark(r) ==
  /\ run[r].pc = "unmark"
  /\ \E i \in run[r].listed : DeleteRow(r, i)

\* Bug: the head of the ref is marked, walked or not.
MarkOfHead(r) == head

\* Bug: commits[-1], the oldest commit walked.
MarkOfOldest(r) == Min(run[r].walked)

\* commits[0], the newest commit walked.
MarkOf(r) == Max(run[r].walked)

\* What the run hands over, or leaves past the cap.
Reached(r) == run[r].beyond \union UNION Range(run[r].clusters)

AddMark(r) ==
  /\ run[r].pc = "unmark" /\ run[r].listed = {}
  /\ marks' = marks \union {[id |-> nextId, at |-> MarkOf(r)]}
  /\ nextId' = nextId + 1
  /\ skipped' = skipped \union run[r].beyond
  /\ wiped' = wiped \union (run[r].deleted \ Reached(r))
  /\ run' = [run EXCEPT ![r].pc = "deliver", ![r].deleted = {}, ![r].walked = {}, ![r].beyond = {}]
  /\ UNCHANGED <<repo, overlapped, memories, told, dropped, repeated, bounds>>

\* Commits handed over: answered to a caller, or in a memory.
Covered == told \union UNION {m.of : m \in memories}

\* The run walked only commits past a usable watermark.
Incremental(r) == run[r].mark # NoMark /\ ~ run[r].unreachable

\* What a run hands over again while it calls itself incremental: a descendant of
\* the watermark or, on another line, a commit that was merely not before it.
Again(r, S) ==
  IF Incremental(r) /\ ~ overlapped
  THEN {IF run[r].mark \in anc[c] THEN "past" ELSE "beside" : c \in S \intersect Covered} ELSE {}

\* The MCP answer carries every cluster at once.
Respond(r) ==
  /\ run[r].pc = "deliver" /\ run[r].surface = "mcp"
  /\ LET S == UNION Range(run[r].clusters)
     IN told' = told \union S /\ repeated' = repeated \union Again(r, S)
  /\ Answer(r, "ok")
  /\ UNCHANGED <<repo, overlapped, store, skipped, dropped, wiped, bounds>>

\* materialize_clusters: one add_memory per cluster.
Materialize(r) ==
  /\ run[r].pc = "deliver" /\ run[r].surface = "cli"
  /\ IF run[r].clusters = <<>>
     THEN Answer(r, "ok") /\ UNCHANGED <<store, repeated>>
     ELSE LET S == Head(run[r].clusters) IN
          /\ memories' = memories \union {[id |-> nextId, of |-> S]}
          /\ nextId' = nextId + 1
          /\ repeated' = repeated \union Again(r, S)
          /\ run' = [run EXCEPT ![r].clusters = Tail(@)]
          /\ UNCHANGED marks
  /\ UNCHANGED <<repo, overlapped, told, skipped, dropped, wiped, bounds>>

\* The process dies, or the caller's connection does.
Crash(r) ==
  /\ run[r].pc # "idle" /\ crashes < MaxCrashes
  /\ crashes' = crashes + 1
  /\ dropped' = dropped \union IF run[r].pc = "deliver" THEN UNION Range(run[r].clusters) ELSE {}
  /\ wiped' = wiped \union run[r].deleted
  /\ Answer(r, "none")
  /\ UNCHANGED <<repo, overlapped, store, told, skipped, repeated, failures, starts, writes>>

Step(r) ==
  \/ ListExisting(r) \/ ListMarks(r) \/ Wipe(r) \/ Extract(r) \/ ExtractFails(r)
  \/ ListToReplace(r) \/ Unmark(r) \/ AddMark(r) \/ Respond(r) \/ Materialize(r)

Next == NewCommit \/ WriteByHand \/ \E r \in Runs : Start(r) \/ Step(r) \/ Crash(r)

Spec == Init /\ [][Next]_vars

(***************************************************************************)
(* Properties                                                              *)
(***************************************************************************)
Marked == IF Watermark = NoMark THEN {} ELSE Kept(anc[Watermark])

InHand ==
  (UNION {run[r].deleted : r \in Runs})
    \union UNION {UNION Range(run[r].clusters) : r \in {q \in Runs : run[q].pc = "deliver"}}

\* What the watermark leaves behind was handed over, is in the hands of a run,
\* was past the cap of a walk, was lost with a run that died or failed, or was
\* wiped by a forced run that no longer reached it: nothing else makes
\* onboarding pass a commit by, however runs, pushes and forced pushes
\* interleave.
NothingSkipped == Marked \subseteq Covered \union InHand \union skipped \union dropped \union wiped

\* While runs do not overlap, one that reports itself incremental hands over
\* nothing that was handed over before, whatever was pushed, wiped or cut short
\* in between, unless the ref was forced or something was merged: the watermark
\* is one commit, and git log takes everything that is not before it, so of two
\* lines it can be on one only.  A descendant of the watermark comes again only
\* when there was both.
NoRepeat ==
  /\ repeated # {} => forced \/ Merged
  /\ "past" \in repeated => forced /\ Merged

\* As long as the ref only moves forward and runs do not overlap, re-running hands
\* over only what is new: the tool's "Re-running is incremental (a watermark tracks
\* the last processed commit)".  Refuted: of the two lines of a merge the watermark
\* is on one, and every run walks the other again and moves the watermark to it.
HandedOverOnce == ~ forced /\ ~ overlapped => repeated = {}
=============================================================================
