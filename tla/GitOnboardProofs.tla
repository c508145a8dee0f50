-------------------------- MODULE GitOnboardProofs --------------------------
(***************************************************************************)
(* Proofs about GitOnboard: whatever runs overlap, whatever is pushed,     *)
(* forced, wiped or cut short, the watermark passes no commit by that is   *)
(* not accounted for, and runs that do not overlap hand over again only    *)
(* what merges and forced pushes put beside it; for any number of runs,    *)
(* commits, merges and failures.                                           *)
(***************************************************************************)
EXTENDS GitOnboard, FiniteSetTheorems, WellFoundedInduction, TLAPS

(***************************************************************************)
(* The inductive invariant                                                 *)
(***************************************************************************)
RunState ==
  [pc : {"idle", "existing", "marks", "wipe", "extract", "remark", "unmark", "deliver"},
   surface : {"mcp", "cli"}, force : BOOLEAN, existing : SUBSET Nat, listed : SUBSET Nat,
   mark : Commits \union {NoMark}, walked : SUBSET Commits, clusters : Seq(SUBSET Commits),
   unreachable : BOOLEAN, deleted : SUBSET Commits, beyond : SUBSET Commits,
   answer : {"none", "exists", "empty", "up_to_date", "error", "ok"}]

TypeOK ==
  /\ anc \in [Commits -> SUBSET Commits]
  /\ kind \in [Commits -> {"work", "noise", "merge"}]
  /\ head \in Commits
  /\ memories \subseteq [id : Nat, of : SUBSET Commits]
  /\ marks \subseteq [id : Nat, at : Commits \union {Malformed}]
  /\ nextId \in Nat /\ \A w \in marks : w.id < nextId
  /\ run \in [Runs -> RunState]

\* The commits are numbered as they are made, and history is closed.
History ==
  /\ \E k \in 1 .. MaxCommits : Made = 1 .. k
  /\ head \in Made
  /\ kind[1] = "work"
  /\ \A c \in Made : /\ c \in anc[c] /\ 1 \in anc[c] /\ anc[c] \subseteq Made
                     /\ \A d \in anc[c] : anc[d] \subseteq anc[c]

\* What a run holds: the clusters of a walk it has marked, and the commits of
\* the memories it deleted.
Handed(r) == UNION Range(run[r].clusters)
Out(r) == (IF run[r].pc = "deliver" THEN Handed(r) ELSE {}) \union run[r].deleted

\* A commit is accounted for: handed over, in hand, past a cap, or lost.
Has(x) ==
  \/ x \in told \union skipped \union dropped \union wiped
  \/ \E m \in memories : x \in m.of
  \/ \E r \in Runs : x \in Out(r)

\* A watermark at commit c is justified.
Behind(c) == c \in Made /\ \A x \in Kept(anc[c]) : Has(x)

MarksJustified == \A w \in marks : w.at # Malformed => Behind(w.at)

\* Where a run is: what it has deleted, the mark it read, what its walk leaves.
RunSoundAt(r) ==
  /\ run[r].pc \in {"idle", "existing", "marks", "deliver"} => run[r].deleted = {}
  /\ run[r].pc \in {"idle", "existing", "marks", "wipe"} => run[r].mark = NoMark
  /\ (run[r].pc = "extract" /\ run[r].mark # NoMark) => run[r].deleted = {} /\ Behind(run[r].mark)
  /\ run[r].pc \in {"remark", "unmark"} =>
       /\ run[r].walked # {}
       /\ \A c \in run[r].walked :
            c \in Made /\ \A x \in Kept(anc[c]) : x \in Reached(r) \/ Has(x)

IInv == TypeOK /\ History /\ MarksJustified /\ \A r \in Runs : RunSoundAt(r)

(***************************************************************************)
(* Numbers, ranges and partitions                                          *)
(***************************************************************************)
\* A set of numbers below a bound has a largest one, unless it is empty.
LEMMA LargestExists ==
  ASSUME NEW S \in SUBSET Nat, S # {}, NEW n \in Nat, \A x \in S : x <= n
  PROVE  \E x \in S : \A y \in S : y <= x
<1> DEFINE Above == {k \in Nat : \A x \in S : x <= k}
<1>1. Above \subseteq Nat /\ n \in Above
  OBVIOUS
<1>2. PICK k \in Above : \A j \in Above : k <= j
  <2> DEFINE R == OpToRel(<, Nat)
  <2>1. IsWellFoundedOn(R, Nat)
    BY NatLessThanWellFounded
  <2>2. ASSUME NEW a \in Nat, NEW b \in Nat, b < a
        PROVE  <<b, a>> \in R
    BY <2>2 DEF OpToRel
  <2> HIDE DEF R, Above
  <2>3. PICK k \in Above : \A j \in Above : ~ (<<j, k>> \in R)
    BY <1>1, <2>1, WFMin
  <2>4. \A j \in Above : ~ (j < k)
    BY <1>1, <2>2, <2>3
  <2> QED
    BY <1>1, <2>4
<1>3. k \in Nat /\ \A x \in S : x <= k
  BY <1>2
<1>4. CASE k \in S
  BY <1>3, <1>4
<1>5. CASE k \notin S
  <2>1. \A x \in S : x < k
    BY <1>3, <1>5
  <2>2. k - 1 \in Nat
    <3>1. PICK x \in S : TRUE
      OBVIOUS
    <3>2. x \in Nat /\ x < k
      BY <2>1, <3>1
    <3> QED
      BY <1>3, <3>2
  <2>3. \A x \in S : x <= k - 1
    BY <1>3, <2>1
  <2>4. k - 1 \in Above
    BY <2>2, <2>3
  <2> QED
    BY <1>2, <1>3, <2>4
<1> QED
  BY <1>4, <1>5

\* The largest of a set of commits is one of them.
LEMMA MaxOfCommits ==
  ASSUME NEW S \in SUBSET Commits, S # {}
  PROVE  Max(S) \in S /\ \A y \in S : y <= Max(S)
<1>1. S \subseteq Nat /\ MaxCommits \in Nat /\ \A x \in S : x <= MaxCommits
  BY MaxCommitsAssumption DEF Commits
<1>2. \E x \in S : \A y \in S : y <= x
  BY <1>1, LargestExists
<1>3. \E x \in S : \A y \in S : x >= y
  BY <1>1, <1>2
<1>4. Max(S) \in S /\ \A y \in S : Max(S) >= y
  BY <1>3, Zenon DEF Max
<1> QED
  BY <1>1, <1>4

\* --max-count lists something when there is something.
LEMMA NewestOfSome ==
  ASSUME NEW S \in SUBSET Commits, S # {}
  PROVE  NewestOf(S) # {} /\ NewestOf(S) \subseteq S
<1>1. PICK c \in S : \A y \in S : y <= c
  BY MaxOfCommits
<1>2. {d \in S : d > c} = {}
  <2>1. S \subseteq Nat
    BY MaxCommitsAssumption DEF Commits
  <2>2. \A d \in S : ~ (d > c)
    BY <1>1, <2>1
  <2> QED
    BY <2>2
<1>3. Cardinality({d \in S : d > c}) < MaxWalk
  BY <1>2, FS_EmptySet, MaxWalkAssumption
<1> QED
  BY <1>1, <1>3 DEF NewestOf

\* The clusters hold what they were made of.
LEMMA PartitionsKeep ==
  ASSUME NEW S \in SUBSET Commits, NEW cl \in Partitions(S)
  PROVE  cl \in Seq(SUBSET Commits) /\ UNION Range(cl) = S
<1>1. CASE cl = <<>>
  <2>1. S = {}
    BY <1>1 DEF Partitions
  <2> QED
    BY <1>1, <2>1 DEF Range
<1>2. CASE cl = <<S>>
  BY <1>2 DEF Range
<1>3. CASE \E A \in SUBSET S : cl = <<A, S \ A>>
  <2>1. PICK A \in SUBSET S : cl = <<A, S \ A>>
    BY <1>3
  <2>2. Range(cl) = {A, S \ A}
    BY <2>1 DEF Range
  <2>3. cl \in Seq(SUBSET Commits)
    BY <2>1
  <2> QED
    BY <2>2, <2>3
<1> QED
  BY <1>1, <1>2, <1>3 DEF Partitions

\* Handing over the first cluster leaves the others.
LEMMA HeadAndTail ==
  ASSUME NEW cl \in Seq(SUBSET Commits), cl # <<>>
  PROVE  /\ Head(cl) \in SUBSET Commits /\ Tail(cl) \in Seq(SUBSET Commits)
         /\ UNION Range(cl) = Head(cl) \union UNION Range(Tail(cl))
<1>1. Head(cl) \in SUBSET Commits /\ Tail(cl) \in Seq(SUBSET Commits)
  OBVIOUS
<1>2. /\ Len(cl) \in Nat /\ Len(cl) >= 1 /\ DOMAIN cl = 1 .. Len(cl) /\ Head(cl) = cl[1]
      /\ Len(Tail(cl)) = Len(cl) - 1 /\ DOMAIN Tail(cl) = 1 .. (Len(cl) - 1)
      /\ \A i \in 1 .. (Len(cl) - 1) : Tail(cl)[i] = cl[i + 1]
  OBVIOUS
<1>3. Range(cl) \subseteq {Head(cl)} \union Range(Tail(cl))
  <2> SUFFICES ASSUME NEW i \in 1 .. Len(cl), i # 1
               PROVE  cl[i] \in Range(Tail(cl))
    BY <1>2 DEF Range
  <2>1. i - 1 \in 1 .. (Len(cl) - 1) /\ cl[i] = Tail(cl)[i - 1]
    BY <1>2
  <2> QED
    BY <1>2, <2>1 DEF Range
<1>4. Head(cl) \in Range(cl)
  BY <1>2 DEF Range
<1>5. Range(Tail(cl)) \subseteq Range(cl)
  <2> SUFFICES ASSUME NEW i \in 1 .. (Len(cl) - 1)
               PROVE  Tail(cl)[i] \in Range(cl)
    BY <1>2 DEF Range
  <2>1. i + 1 \in 1 .. Len(cl) /\ Tail(cl)[i] = cl[i + 1]
    BY <1>2
  <2> QED
    BY <1>2, <2>1 DEF Range
<1> QED
  BY <1>1, <1>3, <1>4, <1>5

(***************************************************************************)
(* What is accounted for only grows                                        *)
(***************************************************************************)
\* A step of one run loses nothing when neither the run nor the memories do.
LEMMA NothingLostBy ==
  ASSUME NEW r \in Runs, \A q \in Runs : q # r => run'[q] = run[q],
         told \subseteq told', skipped \subseteq skipped', dropped \subseteq dropped',
         wiped \subseteq wiped',
         \A m \in memories : m \in memories' \/ m.of \subseteq Out(r)',
         \A x \in Out(r) : Has(x)'
  PROVE  \A x : Has(x) => Has(x)'
<1> SUFFICES ASSUME NEW x, Has(x)
             PROVE  Has(x)'
  OBVIOUS
<1>1. CASE x \in told \union skipped \union dropped \union wiped
  BY <1>1 DEF Has
<1>2. ASSUME NEW m \in memories, x \in m.of
      PROVE  Has(x)'
  BY <1>2 DEF Has
<1>3. ASSUME NEW q \in Runs, x \in Out(q)
      PROVE  Has(x)'
  <2>1. CASE q = r
    BY <1>3, <2>1
  <2>2. CASE q # r
    <3>1. Out(q)' = Out(q)
      BY <2>2 DEF Out, Handed
    <3> QED
      BY <1>3, <3>1 DEF Has
  <2> QED
    BY <2>1, <2>2
<1> QED
  BY <1>1, <1>2, <1>3 DEF Has

\* While the repository stands still, a justified mark stays so.
LEMMA BehindStays ==
  ASSUME UNCHANGED repo, \A x : Has(x) => Has(x)', NEW c, Behind(c)
  PROVE  Behind(c)'
<1>1. anc' = anc /\ kind' = kind
  BY DEF repo
<1>2. Made' = Made /\ Kept(anc[c])' = Kept(anc[c])
  BY <1>1 DEF Made, Kept
<1> QED
  BY <1>2 DEF Behind

\* Other runs are where they were, and what they know stays true.
LEMMA OthersStay ==
  ASSUME UNCHANGED repo, \A x : Has(x) => Has(x)', NEW q \in Runs, run'[q] = run[q], RunSoundAt(q)
  PROVE  RunSoundAt(q)'
<1>1. anc' = anc /\ kind' = kind
  BY DEF repo
<1>2. Made' = Made /\ \A c : Kept(anc[c])' = Kept(anc[c])
  BY <1>1 DEF Made, Kept
<1>3. Reached(q)' = Reached(q)
  BY DEF Reached
<1>4. Behind(run[q].mark) => Behind(run[q].mark)'
  BY BehindStays
<1> QED
  BY <1>2, <1>3, <1>4 DEF RunSoundAt

\* A step of one run, while the repository stands still.
LEMMA RunStep ==
  ASSUME IInv, UNCHANGED repo, NEW r \in Runs,
         run' \in [Runs -> RunState], \A q \in Runs : q # r => run'[q] = run[q],
         memories' \subseteq [id : Nat, of : SUBSET Commits],
         marks' \subseteq [id : Nat, at : Commits \union {Malformed}],
         nextId' \in Nat, \A w \in marks' : w.id < nextId',
         \A x : Has(x) => Has(x)',
         \A w \in marks' : w \in marks \/ (w.at # Malformed => Behind(w.at)'),
         RunSoundAt(r)'
  PROVE  IInv'
<1>1. anc' = anc /\ kind' = kind /\ head' = head
  BY DEF repo
<1>2. TypeOK'
  BY <1>1 DEF IInv, TypeOK
<1>3. History'
  <2>1. Made' = Made
    BY <1>1 DEF Made
  <2> QED
    BY <1>1, <2>1 DEF IInv, History
<1>4. MarksJustified'
  <2> SUFFICES ASSUME NEW w \in marks', w.at # Malformed
               PROVE  Behind(w.at)'
    BY DEF MarksJustified
  <2>1. CASE w \in marks
    <3>1. Behind(w.at)
      BY <2>1 DEF IInv, MarksJustified
    <3> QED
      BY <3>1, BehindStays
  <2> QED
    BY <2>1
<1>5. ASSUME NEW q \in Runs
      PROVE  RunSoundAt(q)'
  <2>1. CASE q = r
    BY <2>1
  <2>2. CASE q # r
    BY <2>2, OthersStay DEF IInv
  <2> QED
    BY <2>1, <2>2
<1> QED
  BY <1>2, <1>3, <1>4, <1>5 DEF IInv

\* A step that leaves the rows and the histories alone, but for `wiped`.
LEMMA QuietStep ==
  ASSUME IInv, UNCHANGED <<repo, store, told, skipped, dropped>>, wiped \subseteq wiped',
         NEW r \in Runs, run' \in [Runs -> RunState], \A q \in Runs : q # r => run'[q] = run[q],
         Out(r) \subseteq Out(r)' \union wiped', RunSoundAt(r)'
  PROVE  IInv'
<1>1. /\ memories' = memories /\ marks' = marks /\ nextId' = nextId /\ UNCHANGED repo
      /\ told' = told /\ skipped' = skipped /\ dropped' = dropped
  BY DEF store
<1>2. \A x \in Out(r) : Has(x)'
  BY DEF Has
<1>3. \A x : Has(x) => Has(x)'
  BY <1>1, <1>2, NothingLostBy
<1>4. /\ memories \subseteq [id : Nat, of : SUBSET Commits]
      /\ marks \subseteq [id : Nat, at : Commits \union {Malformed}]
      /\ nextId \in Nat /\ \A w \in marks : w.id < nextId
  BY DEF IInv, TypeOK
<1> QED
  BY <1>1, <1>3, <1>4, RunStep

Answers == {"none", "exists", "empty", "up_to_date", "error", "ok"}

\* A run that has answered holds nothing.
LEMMA AnswerIdle ==
  ASSUME IInv, NEW r \in Runs, NEW a \in Answers, Answer(r, a)
  PROVE  /\ run' \in [Runs -> RunState] /\ \A q \in Runs : q # r => run'[q] = run[q]
         /\ Out(r)' = {} /\ RunSoundAt(r)'
<1>1. PICK s : s = [Idle EXCEPT !.answer = a]
  OBVIOUS
<1>2. <<>> \in Seq(SUBSET Commits)
  OBVIOUS
<1>3. /\ s \in RunState /\ s.pc = "idle" /\ s.deleted = {} /\ s.mark = NoMark
  BY <1>1, <1>2 DEF Idle, RunState, Answers
<1>4. run' = [run EXCEPT ![r] = s] /\ run \in [Runs -> RunState]
  BY <1>1 DEF Answer, IInv, TypeOK
<1>5. /\ run' \in [Runs -> RunState] /\ run'[r] = s /\ \A q \in Runs : q # r => run'[q] = run[q]
  BY <1>3, <1>4
<1>6. Out(r)' = {}
  BY <1>3, <1>5 DEF Out
<1>7. RunSoundAt(r)'
  BY <1>3, <1>5 DEF RunSoundAt
<1> QED
  BY <1>5, <1>6, <1>7

LEMMA StartStep ==
  ASSUME IInv, NEW r \in Runs, Start(r)
  PROVE  IInv'
<1>1. PICK s \in {"mcp", "cli"}, f \in BOOLEAN :
        run' = [run EXCEPT ![r] = [Idle EXCEPT !.pc = "existing", !.surface = s, !.force = f]]
  BY DEF Start
<1>2. PICK n : n = [Idle EXCEPT !.pc = "existing", !.surface = s, !.force = f]
  OBVIOUS
<1>3. <<>> \in Seq(SUBSET Commits)
  OBVIOUS
<1>4. n \in RunState /\ n.pc = "existing" /\ n.deleted = {} /\ n.mark = NoMark
  BY <1>2, <1>3 DEF Idle, RunState
<1>5. run[r].pc = "idle" /\ UNCHANGED <<repo, store, told, skipped, dropped>> /\ wiped' = wiped
  BY DEF Start, history
<1>6. run' \in [Runs -> RunState] /\ run'[r] = n /\ \A q \in Runs : q # r => run'[q] = run[q]
  BY <1>1, <1>2, <1>4 DEF IInv, TypeOK
<1>7. Out(r) = {}
  BY <1>5 DEF Out, IInv, RunSoundAt
<1>8. RunSoundAt(r)'
  BY <1>4, <1>6 DEF RunSoundAt
<1> QED
  BY <1>5, <1>6, <1>7, <1>8, QuietStep

LEMMA ListExistingStep ==
  ASSUME IInv, NEW r \in Runs, ListExisting(r)
  PROVE  IInv'
<1>1. /\ run[r].pc = "existing" /\ UNCHANGED <<repo, store, told, skipped, dropped>> /\ wiped' = wiped
      /\ run' = [run EXCEPT ![r].pc = "marks", ![r].existing = {m.id : m \in memories}]
  BY DEF ListExisting, history
<1>2. PICK ids : ids = {m.id : m \in memories}
  OBVIOUS
<1>3. ids \subseteq Nat
  BY <1>2 DEF IInv, TypeOK
<1>4. run \in [Runs -> RunState] /\ run[r] \in RunState
  BY DEF IInv, TypeOK
<1>5. run' = [run EXCEPT ![r].pc = "marks", ![r].existing = ids]
  BY <1>1, <1>2
<1>6. /\ run' \in [Runs -> RunState] /\ \A q \in Runs : q # r => run'[q] = run[q]
      /\ run'[r].pc = "marks" /\ run'[r].mark = run[r].mark /\ run'[r].deleted = run[r].deleted
  BY <1>3, <1>4, <1>5 DEF RunState
<1>7. run[r].deleted = {} /\ run[r].mark = NoMark
  BY <1>1 DEF IInv, RunSoundAt
<1>8. Out(r) = {}
  BY <1>1, <1>7 DEF Out
<1>9. RunSoundAt(r)'
  BY <1>6, <1>7 DEF RunSoundAt
<1> QED
  BY <1>1, <1>6, <1>8, <1>9, QuietStep

\* The watermark read is that of a row.
LEMMA WatermarkOfRow ==
  ASSUME IInv, Watermark # NoMark
  PROVE  \E w \in marks : w.at # Malformed /\ Watermark = w.at
<1> DEFINE Newest(w) == \A v \in marks : v.id <= w.id
<1>1. marks \subseteq [id : Nat, at : Commits \union {Malformed}] /\ nextId \in Nat
        /\ \A w \in marks : w.id < nextId
  BY DEF IInv, TypeOK
<1>2. marks # {}
  BY DEF Watermark
<1>3. \E w \in marks : Newest(w)
  <2>1. PICK S : S = {w.id : w \in marks}
    OBVIOUS
  <2>2. S \in SUBSET Nat /\ S # {} /\ \A x \in S : x <= nextId
    BY <1>1, <1>2, <2>1
  <2>3. PICK x \in S : \A y \in S : y <= x
    BY <1>1, <2>2, LargestExists
  <2>4. PICK w \in marks : w.id = x
    BY <2>1, <2>3
  <2> QED
    BY <2>1, <2>3, <2>4
<1>4. PICK n : n = CHOOSE w \in marks : Newest(w)
  OBVIOUS
<1>5. n \in marks
  BY <1>3, <1>4, Zenon
<1>6. n.at # Malformed /\ Watermark = n.at
  BY <1>2, <1>4 DEF Watermark
<1> QED
  BY <1>5, <1>6

\* The watermark read, if any, is justified.
LEMMA WatermarkJustified ==
  ASSUME IInv, Watermark # NoMark
  PROVE  Watermark \in Commits /\ Behind(Watermark)
<1>1. PICK w \in marks : w.at # Malformed /\ Watermark = w.at
  BY WatermarkOfRow
<1> QED
  BY <1>1 DEF IInv, TypeOK, MarksJustified

LEMMA ListMarksStep ==
  ASSUME IInv, NEW r \in Runs, ListMarks(r)
  PROVE  IInv'
<1>1. run[r].pc = "marks" /\ UNCHANGED <<repo, store, told, skipped, dropped>> /\ wiped' = wiped
  BY DEF ListMarks, history
<1>2. run \in [Runs -> RunState] /\ run[r] \in RunState
  BY DEF IInv, TypeOK
<1>3. run[r].deleted = {} /\ run[r].mark = NoMark
  BY <1>1 DEF IInv, RunSoundAt
<1>4. Out(r) = {}
  BY <1>1, <1>3 DEF Out
<1>5. PICK w : w = Watermark
  OBVIOUS
<1>6. PICK ids : ids = {v.id : v \in marks}
  OBVIOUS
<1>7. ids \subseteq Nat
  BY <1>6 DEF IInv, TypeOK
<1>8. \/ run' = [run EXCEPT ![r].pc = "wipe", ![r].listed = run[r].existing \union ids]
      \/ Answer(r, "exists")
      \/ run' = [run EXCEPT ![r].pc = "extract", ![r].mark = w, ![r].existing = {}]
  BY <1>5, <1>6 DEF ListMarks
<1>9. CASE run' = [run EXCEPT ![r].pc = "wipe", ![r].listed = run[r].existing \union ids]
  <2>1. run[r].existing \union ids \in SUBSET Nat
    BY <1>2, <1>7 DEF RunState
  <2>2. /\ run' \in [Runs -> RunState] /\ \A q \in Runs : q # r => run'[q] = run[q]
        /\ run'[r].pc = "wipe" /\ run'[r].mark = NoMark /\ run'[r].deleted = {}
    BY <1>2, <1>3, <1>9, <2>1 DEF RunState
  <2>3. RunSoundAt(r)'
    BY <2>2 DEF RunSoundAt
  <2> QED
    BY <1>1, <1>4, <2>2, <2>3, QuietStep
<1>10. CASE Answer(r, "exists")
  <2>1. "exists" \in Answers
    BY DEF Answers
  <2> QED
    BY <1>1, <1>4, <1>10, <2>1, AnswerIdle, QuietStep
<1>11. CASE run' = [run EXCEPT ![r].pc = "extract", ![r].mark = w, ![r].existing = {}]
  <2>1. w = NoMark \/ (w \in Commits /\ Behind(w))
    BY <1>5, WatermarkJustified
  <2>2. /\ run' \in [Runs -> RunState] /\ \A q \in Runs : q # r => run'[q] = run[q]
        /\ run'[r].pc = "extract" /\ run'[r].mark = w /\ run'[r].deleted = {}
    BY <1>2, <1>3, <1>11, <2>1 DEF RunState
  <2>3. \A x : Has(x) => Has(x)'
    <3>1. memories' = memories
      BY <1>1 DEF store
    <3> QED
      BY <1>1, <1>4, <2>2, <3>1, NothingLostBy
  <2>4. w # NoMark => Behind(w)'
    BY <1>1, <2>1, <2>3, BehindStays
  <2>5. RunSoundAt(r)'
    BY <2>2, <2>4 DEF RunSoundAt
  <2> QED
    BY <1>1, <1>4, <2>2, <2>5, QuietStep
<1> QED
  BY <1>8, <1>9, <1>10, <1>11

LEMMA DeleteRowStep ==
  ASSUME IInv, NEW r \in Runs, NEW i, run[r].pc \in {"wipe", "unmark"}, DeleteRow(r, i)
  PROVE  IInv'
<1>1. /\ UNCHANGED repo /\ nextId' = nextId /\ told' = told /\ skipped' = skipped /\ dropped' = dropped
  BY DEF DeleteRow
<1>2. run \in [Runs -> RunState] /\ run[r] \in RunState
  BY DEF IInv, TypeOK
<1>3. Out(r) = run[r].deleted
  BY DEF Out
<1>4. CASE /\ memories' = memories /\ marks' = marks
           /\ Answer(r, "error") /\ wiped' = wiped \union run[r].deleted
  <2>1. "error" \in Answers
    BY DEF Answers
  <2>2. UNCHANGED <<repo, store, told, skipped, dropped>>
    BY <1>1, <1>4 DEF store
  <2> QED
    BY <1>3, <1>4, <2>1, <2>2, AnswerIdle, QuietStep
<1>5. CASE /\ memories' = {m \in memories : m.id # i} /\ marks' = {w \in marks : w.id # i}
           /\ run' = [run EXCEPT ![r].listed = @ \ {i},
                                 ![r].deleted = @ \union UNION {m.of : m \in memories \ memories'}]
           /\ wiped' = wiped
  <2>1. PICK D : D = UNION {m.of : m \in memories \ memories'}
    OBVIOUS
  <2>2. /\ memories \subseteq [id : Nat, of : SUBSET Commits]
        /\ marks \subseteq [id : Nat, at : Commits \union {Malformed}]
        /\ nextId \in Nat /\ \A w \in marks : w.id < nextId
    BY DEF IInv, TypeOK
  <2>3. \A m \in memories : m \in memories' \/ m.of \subseteq D
    BY <2>1, Zenon
  <2>4. D \subseteq Commits
    <3>1. \A m \in memories : m.of \subseteq Commits
      BY <2>2
    <3> QED
      BY <2>1, <3>1, Zenon
  <2>5. run' = [run EXCEPT ![r].listed = @ \ {i}, ![r].deleted = @ \union D]
    BY <1>5, <2>1
  <2>6. /\ run' \in [Runs -> RunState] /\ \A q \in Runs : q # r => run'[q] = run[q]
        /\ run'[r].pc = run[r].pc /\ run'[r].mark = run[r].mark
        /\ run'[r].deleted = run[r].deleted \union D
        /\ run'[r].walked = run[r].walked /\ run'[r].clusters = run[r].clusters
        /\ run'[r].beyond = run[r].beyond
    BY <1>2, <2>4, <2>5 DEF RunState
  <2>7. Out(r)' = run[r].deleted \union D
    BY <2>6 DEF Out
  <2>8. \A x \in Out(r) : Has(x)'
    BY <1>3, <2>7 DEF Has
  <2>9. \A m \in memories : m \in memories' \/ m.of \subseteq Out(r)'
    BY <2>3, <2>7
  <2>10. \A x : Has(x) => Has(x)'
    BY <1>1, <1>5, <2>6, <2>8, <2>9, NothingLostBy
  <2>11. RunSoundAt(r)'
    <3>1. Reached(r)' = Reached(r)
      BY <2>6 DEF Reached
    <3>2. anc' = anc /\ kind' = kind
      BY <1>1 DEF repo
    <3>3. Made' = Made /\ \A c : Kept(anc[c])' = Kept(anc[c])
      BY <3>2 DEF Made, Kept
    <3>4. RunSoundAt(r)
      BY DEF IInv
    <3> QED
      BY <2>6, <2>10, <3>1, <3>3, <3>4 DEF RunSoundAt
  <2>12. /\ memories' \subseteq [id : Nat, of : SUBSET Commits]
         /\ marks' \subseteq marks /\ marks' \subseteq [id : Nat, at : Commits \union {Malformed}]
    BY <1>5, <2>2
  <2> QED
    BY <1>1, <2>2, <2>6, <2>10, <2>11, <2>12, RunStep
<1> QED
  BY <1>4, <1>5 DEF DeleteRow

LEMMA WipeStep ==
  ASSUME IInv, NEW r \in Runs, Wipe(r)
  PROVE  IInv'
<1>1. run[r].pc = "wipe"
  BY DEF Wipe
<1>2. ASSUME NEW i, DeleteRow(r, i)
      PROVE  IInv'
  BY <1>1, <1>2, DeleteRowStep
<1>3. CASE /\ run' = [run EXCEPT ![r].pc = "extract", ![r].existing = {}]
           /\ UNCHANGED <<repo, store, history>>
  <2>1. run \in [Runs -> RunState] /\ run[r] \in RunState /\ run[r].mark = NoMark
    BY <1>1 DEF IInv, TypeOK, RunSoundAt
  <2>2. /\ run' \in [Runs -> RunState] /\ \A q \in Runs : q # r => run'[q] = run[q]
        /\ run'[r].pc = "extract" /\ run'[r].mark = NoMark /\ run'[r].deleted = run[r].deleted
    BY <1>3, <2>1 DEF RunState
  <2>3. Out(r)' = Out(r)
    BY <1>1, <2>2 DEF Out
  <2>4. RunSoundAt(r)'
    BY <2>2 DEF RunSoundAt
  <2>5. UNCHANGED <<repo, store, told, skipped, dropped>> /\ wiped' = wiped
    BY <1>3 DEF history
  <2> QED
    BY <2>2, <2>3, <2>4, <2>5, QuietStep
<1> QED
  BY <1>2, <1>3 DEF Wipe

LEMMA UnmarkStep ==
  ASSUME IInv, NEW r \in Runs, Unmark(r)
  PROVE  IInv'
  BY DeleteRowStep DEF Unmark

LEMMA ExtractFailsStep ==
  ASSUME IInv, NEW r \in Runs, ExtractFails(r)
  PROVE  IInv'
<1>1. /\ run[r].pc = "extract" /\ Answer(r, "error") /\ wiped' = wiped \union run[r].deleted
      /\ UNCHANGED <<repo, store, told, skipped, dropped>>
  BY DEF ExtractFails
<1>2. Out(r) = run[r].deleted /\ "error" \in Answers
  BY <1>1 DEF Out, Answers
<1> QED
  BY <1>1, <1>2, AnswerIdle, QuietStep

LEMMA ListToReplaceStep ==
  ASSUME IInv, NEW r \in Runs, ListToReplace(r)
  PROVE  IInv'
<1>1. /\ run[r].pc = "remark" /\ UNCHANGED <<repo, store, told, skipped, dropped>> /\ wiped' = wiped
      /\ run' = [run EXCEPT ![r].pc = "unmark", ![r].listed = {w.id : w \in marks}]
  BY DEF ListToReplace, history
<1>2. PICK ids : ids = {w.id : w \in marks}
  OBVIOUS
<1>3. ids \subseteq Nat
  BY <1>2 DEF IInv, TypeOK
<1>4. run \in [Runs -> RunState] /\ run[r] \in RunState
  BY DEF IInv, TypeOK
<1>5. run' = [run EXCEPT ![r].pc = "unmark", ![r].listed = ids]
  BY <1>1, <1>2
<1>6. /\ run' \in [Runs -> RunState] /\ \A q \in Runs : q # r => run'[q] = run[q]
      /\ run'[r].pc = "unmark" /\ run'[r].deleted = run[r].deleted
      /\ run'[r].walked = run[r].walked /\ run'[r].clusters = run[r].clusters
      /\ run'[r].beyond = run[r].beyond
  BY <1>3, <1>4, <1>5 DEF RunState
<1>7. Out(r)' = Out(r)
  BY <1>1, <1>6 DEF Out
<1>8. \A x : Has(x) => Has(x)'
  <2>1. memories' = memories /\ \A x \in Out(r) : Has(x)'
    BY <1>1, <1>7 DEF store, Has
  <2> QED
    BY <1>1, <1>6, <2>1, NothingLostBy
<1>9. RunSoundAt(r)'
  <2>1. Reached(r)' = Reached(r)
    BY <1>6 DEF Reached
  <2>2. anc' = anc /\ kind' = kind
    BY <1>1 DEF repo
  <2>3. Made' = Made /\ \A c : Kept(anc[c])' = Kept(anc[c])
    BY <2>2 DEF Made, Kept
  <2>4. RunSoundAt(r)
    BY DEF IInv
  <2> QED
    BY <1>1, <1>6, <1>8, <2>1, <2>3, <2>4 DEF RunSoundAt
<1> QED
  BY <1>1, <1>6, <1>7, <1>9, QuietStep

\* A walk from the beginning finds the first commit.
LEMMA WholeHistorySome ==
  ASSUME IInv
  PROVE  Past(NoMark) # {}
<1>1. 1 \in anc[head] /\ kind[1] = "work"
  BY DEF IInv, History
<1> QED
  BY <1>1 DEF Past

\* A walk stays within the history of the ref, and everything of it is either
\* walked or behind the mark.
LEMMA PastIs ==
  ASSUME IInv, NEW since
  PROVE  /\ Past(since) \subseteq anc[head] /\ Past(since) \subseteq Made /\ Past(since) \in SUBSET Commits
         /\ \A x \in anc[head] : kind[x] = "work" =>
              x \in Past(since) \/ (since # NoMark /\ x \in anc[since])
<1>1. Past(since) \subseteq anc[head]
  BY DEF Past
<1>2. anc[head] \subseteq Made /\ Made \subseteq Commits
  BY DEF IInv, History, Made
<1>3. \A x \in anc[head] : kind[x] = "work" =>
              x \in Past(since) \/ (since # NoMark /\ x \in anc[since])
  BY DEF Past
<1> QED
  BY <1>1, <1>2, <1>3

LEMMA ExtractStep ==
  ASSUME IInv, NEW r \in Runs, Extract(r)
  PROVE  IInv'
<1>1. run[r].pc = "extract" /\ UNCHANGED <<repo, store, told, skipped, dropped>> /\ wiped' = wiped
  BY DEF Extract, history
<1>2. run \in [Runs -> RunState] /\ run[r] \in RunState
  BY DEF IInv, TypeOK
<1>3. Out(r) = run[r].deleted
  BY <1>1 DEF Out
<1>4. run[r].mark # NoMark => run[r].deleted = {} /\ Behind(run[r].mark)
  BY <1>1 DEF IInv, RunSoundAt
<1>5. PICK found \in Resolvable(run[r].mark) :
        LET past == Past(IF found THEN run[r].mark ELSE NoMark)
            walked == NewestOf(past)
        IN IF walked = {}
           THEN Answer(r, IF run[r].mark = NoMark THEN "empty" ELSE "up_to_date")
           ELSE \E cl \in Partitions(Kept(walked)) :
                  run' = [run EXCEPT ![r].pc = "remark", ![r].walked = walked, ![r].clusters = cl,
                                     ![r].beyond = Kept(past \ walked), ![r].unreachable = ~ found]
  BY DEF Extract
<1>6. PICK since : since = IF found THEN run[r].mark ELSE NoMark
  OBVIOUS
<1>7. PICK past : past = Past(since)
  OBVIOUS
<1>8. PICK walked : walked = NewestOf(past)
  OBVIOUS
<1>9. \/ walked = {} /\ Answer(r, IF run[r].mark = NoMark THEN "empty" ELSE "up_to_date")
      \/ /\ walked # {}
         /\ \E cl \in Partitions(Kept(walked)) :
              run' = [run EXCEPT ![r].pc = "remark", ![r].walked = walked, ![r].clusters = cl,
                                 ![r].beyond = Kept(past \ walked), ![r].unreachable = ~ found]
  BY <1>5, <1>6, <1>7, <1>8
<1>10. /\ past \subseteq anc[head] /\ past \subseteq Made /\ past \in SUBSET Commits
       /\ \A x \in anc[head] : kind[x] = "work" => x \in past \/ (since # NoMark /\ x \in anc[since])
  BY <1>7, PastIs
<1>11. CASE walked = {} /\ Answer(r, IF run[r].mark = NoMark THEN "empty" ELSE "up_to_date")
  <2>1. past = {}
    BY <1>8, <1>10, <1>11, NewestOfSome
  <2>2. since # NoMark
    BY <1>7, <2>1, WholeHistorySome
  <2>3. Out(r) = {}
    BY <1>3, <1>4, <1>6, <2>2
  <2>4. PICK a \in Answers : Answer(r, a)
    BY <1>11 DEF Answers
  <2> QED
    BY <1>1, <2>3, <2>4, AnswerIdle, QuietStep
<1>12. ASSUME walked # {}, NEW cl \in Partitions(Kept(walked)),
              run' = [run EXCEPT ![r].pc = "remark", ![r].walked = walked, ![r].clusters = cl,
                                 ![r].beyond = Kept(past \ walked), ![r].unreachable = ~ found]
       PROVE  IInv'
  <2>1. walked \subseteq past /\ walked \in SUBSET Commits
    BY <1>8, <1>10 DEF NewestOf
  <2>2. Kept(walked) \in SUBSET Commits /\ Kept(past \ walked) \in SUBSET Commits
    BY <1>10, <2>1 DEF Kept
  <2>3. cl \in Seq(SUBSET Commits) /\ UNION Range(cl) = Kept(walked)
    BY <1>12, <2>2, PartitionsKeep
  <2>4. PICK b : b = Kept(past \ walked)
    OBVIOUS
  <2>5. found \in BOOLEAN
    BY DEF Resolvable
  <2>6. run' = [run EXCEPT ![r].pc = "remark", ![r].walked = walked, ![r].clusters = cl,
                           ![r].beyond = b, ![r].unreachable = ~ found]
    BY <1>12, <2>4
  <2>7. /\ run' \in [Runs -> RunState] /\ \A q \in Runs : q # r => run'[q] = run[q]
        /\ run'[r].pc = "remark" /\ run'[r].deleted = run[r].deleted
        /\ run'[r].walked = walked /\ run'[r].clusters = cl /\ run'[r].beyond = b
    BY <1>2, <2>1, <2>2, <2>3, <2>4, <2>5, <2>6 DEF RunState
  <2>8. Out(r)' = Out(r)
    BY <1>1, <2>7 DEF Out
  <2>9. \A x : Has(x) => Has(x)'
    <3>1. memories' = memories /\ \A x \in Out(r) : Has(x)'
      BY <1>1, <2>8 DEF store, Has
    <3> QED
      BY <1>1, <2>7, <3>1, NothingLostBy
  <2>10. Reached(r)' = Kept(walked) \union b
    BY <2>3, <2>7 DEF Reached
  <2>11. anc' = anc /\ kind' = kind
    BY <1>1 DEF repo
  <2>12. Made' = Made /\ \A c : Kept(anc[c])' = Kept(anc[c])
    BY <2>11 DEF Made, Kept
  <2>13. ASSUME NEW c \in walked, NEW x \in Kept(anc[c])
         PROVE  c \in Made /\ (x \in Reached(r)' \/ Has(x)')
    <3>1. c \in Made /\ c \in anc[head]
      BY <1>10, <2>1
    <3>2. anc[c] \subseteq anc[head]
      BY <3>1 DEF IInv, History
    <3>3. x \in anc[head] /\ kind[x] = "work"
      BY <3>2 DEF Kept
    <3>4. CASE x \in past
      BY <2>4, <2>10, <3>1, <3>3, <3>4 DEF Kept
    <3>5. CASE since # NoMark /\ x \in anc[since]
      <4>1. Behind(since)
        BY <1>4, <1>6, <3>5
      <4>2. Has(x)
        BY <3>3, <3>5, <4>1 DEF Behind, Kept
      <4> QED
        BY <2>9, <3>1, <4>2
    <3> QED
      BY <1>10, <3>3, <3>4, <3>5
  <2>14. RunSoundAt(r)'
    BY <1>12, <1>10, <2>1, <2>7, <2>12, <2>13 DEF RunSoundAt
  <2> QED
    BY <1>1, <2>7, <2>8, <2>14, QuietStep
<1> QED
  BY <1>9, <1>11, <1>12

LEMMA AddMarkStep ==
  ASSUME IInv, NEW r \in Runs, AddMark(r)
  PROVE  IInv'
<1>1. /\ run[r].pc = "unmark" /\ UNCHANGED repo /\ memories' = memories /\ told' = told /\ dropped' = dropped
      /\ marks' = marks \union {[id |-> nextId, at |-> MarkOf(r)]} /\ nextId' = nextId + 1
      /\ skipped' = skipped \union run[r].beyond
      /\ wiped' = wiped \union (run[r].deleted \ Reached(r))
      /\ run' = [run EXCEPT ![r].pc = "deliver", ![r].deleted = {}, ![r].walked = {}, ![r].beyond = {}]
  BY DEF AddMark
<1>2. run \in [Runs -> RunState] /\ run[r] \in RunState
  BY DEF IInv, TypeOK
<1>3. /\ run' \in [Runs -> RunState] /\ \A q \in Runs : q # r => run'[q] = run[q]
      /\ run'[r].pc = "deliver" /\ run'[r].deleted = {} /\ run'[r].clusters = run[r].clusters
  BY <1>1, <1>2 DEF RunState
<1>4. Out(r) = run[r].deleted
  BY <1>1 DEF Out
<1>5. Out(r)' = Handed(r)
  BY <1>3 DEF Out, Handed
<1>6. Reached(r) = Handed(r) \union run[r].beyond
  BY DEF Reached, Handed
<1>7. \A x \in Reached(r) : Has(x)'
  BY <1>1, <1>5, <1>6 DEF Has
<1>8. \A x \in Out(r) : Has(x)'
  <2>1. \A x \in Out(r) : x \in Reached(r) \/ x \in wiped'
    BY <1>1, <1>4
  <2> QED
    BY <1>7, <2>1 DEF Has
<1>9. \A x : Has(x) => Has(x)'
  BY <1>1, <1>3, <1>8, NothingLostBy
<1>10. PICK c : c = MarkOf(r)
  OBVIOUS
<1>11. c \in run[r].walked /\ c \in Commits
  <2>1. run[r].walked \in SUBSET Commits /\ run[r].walked # {}
    BY <1>1, <1>2 DEF RunState, IInv, RunSoundAt
  <2> QED
    BY <1>10, <2>1, MaxOfCommits DEF MarkOf
<1>12. Behind(c)'
  <2>1. c \in Made /\ \A x \in Kept(anc[c]) : x \in Reached(r) \/ Has(x)
    BY <1>1, <1>11 DEF IInv, RunSoundAt
  <2>2. anc' = anc /\ kind' = kind
    BY <1>1 DEF repo
  <2>3. Made' = Made /\ Kept(anc[c])' = Kept(anc[c])
    BY <2>2 DEF Made, Kept
  <2> QED
    BY <1>7, <1>9, <2>1, <2>3 DEF Behind
<1>13. RunSoundAt(r)'
  BY <1>3 DEF RunSoundAt
<1>14. /\ memories \subseteq [id : Nat, of : SUBSET Commits]
       /\ marks \subseteq [id : Nat, at : Commits \union {Malformed}]
       /\ nextId \in Nat /\ \A w \in marks : w.id < nextId
  BY DEF IInv, TypeOK
<1>15. marks' = marks \union {[id |-> nextId, at |-> c]}
  BY <1>1, <1>10
<1>16. /\ marks' \subseteq [id : Nat, at : Commits \union {Malformed}]
       /\ nextId' \in Nat /\ \A w \in marks' : w.id < nextId'
  BY <1>1, <1>11, <1>14, <1>15
<1>17. \A w \in marks' : w \in marks \/ (w.at # Malformed => Behind(w.at)')
  <2> SUFFICES ASSUME NEW w \in marks', w \notin marks
               PROVE  Behind(w.at)'
    OBVIOUS
  <2>1. w.at = c
    BY <1>15
  <2> QED
    BY <1>12, <2>1
<1> QED
  BY <1>1, <1>3, <1>9, <1>13, <1>14, <1>16, <1>17, RunStep

LEMMA RespondStep ==
  ASSUME IInv, NEW r \in Runs, Respond(r)
  PROVE  IInv'
<1>1. /\ run[r].pc = "deliver" /\ Answer(r, "ok") /\ told' = told \union Handed(r)
      /\ UNCHANGED repo /\ memories' = memories /\ marks' = marks /\ nextId' = nextId
      /\ skipped' = skipped /\ dropped' = dropped /\ wiped' = wiped
  BY DEF Respond, store, Handed
<1>2. run[r].deleted = {}
  BY <1>1 DEF IInv, RunSoundAt
<1>3. Out(r) = Handed(r)
  BY <1>1, <1>2 DEF Out
<1>4. "ok" \in Answers
  BY DEF Answers
<1>5. /\ run' \in [Runs -> RunState] /\ \A q \in Runs : q # r => run'[q] = run[q]
      /\ RunSoundAt(r)'
  BY <1>1, <1>4, AnswerIdle
<1>6. \A x \in Out(r) : Has(x)'
  BY <1>1, <1>3 DEF Has
<1>7. \A x : Has(x) => Has(x)'
  BY <1>1, <1>5, <1>6, NothingLostBy
<1>8. /\ memories \subseteq [id : Nat, of : SUBSET Commits]
      /\ marks \subseteq [id : Nat, at : Commits \union {Malformed}]
      /\ nextId \in Nat /\ \A w \in marks : w.id < nextId
  BY DEF IInv, TypeOK
<1> QED
  BY <1>1, <1>5, <1>7, <1>8, RunStep

LEMMA MaterializeStep ==
  ASSUME IInv, NEW r \in Runs, Materialize(r)
  PROVE  IInv'
<1>1. /\ run[r].pc = "deliver" /\ UNCHANGED repo /\ told' = told
      /\ skipped' = skipped /\ dropped' = dropped /\ wiped' = wiped
  BY DEF Materialize
<1>2. run \in [Runs -> RunState] /\ run[r] \in RunState /\ run[r].deleted = {}
  BY <1>1 DEF IInv, TypeOK, RunSoundAt
<1>3. Out(r) = Handed(r)
  BY <1>1, <1>2 DEF Out
<1>4. /\ memories \subseteq [id : Nat, of : SUBSET Commits]
      /\ marks \subseteq [id : Nat, at : Commits \union {Malformed}]
      /\ nextId \in Nat /\ \A w \in marks : w.id < nextId
  BY DEF IInv, TypeOK
<1>5. CASE run[r].clusters = <<>> /\ Answer(r, "ok") /\ UNCHANGED store
  <2>1. Handed(r) = {}
    BY <1>5 DEF Handed, Range
  <2>2. "ok" \in Answers
    BY DEF Answers
  <2>3. UNCHANGED <<repo, store, told, skipped, dropped>>
    BY <1>1, <1>5
  <2> QED
    BY <1>1, <1>3, <1>5, <2>1, <2>2, <2>3, AnswerIdle, QuietStep
<1>6. CASE /\ run[r].clusters # <<>>
           /\ memories' = memories \union {[id |-> nextId, of |-> Head(run[r].clusters)]}
           /\ nextId' = nextId + 1 /\ marks' = marks
           /\ run' = [run EXCEPT ![r].clusters = Tail(@)]
  <2>1. PICK S, rest : S = Head(run[r].clusters) /\ rest = Tail(run[r].clusters)
    OBVIOUS
  <2>2. run[r].clusters \in Seq(SUBSET Commits)
    BY <1>2 DEF RunState
  <2>3. /\ S \in SUBSET Commits /\ rest \in Seq(SUBSET Commits)
        /\ Handed(r) = S \union UNION Range(rest)
    BY <1>6, <2>1, <2>2, HeadAndTail DEF Handed
  <2>4. run' = [run EXCEPT ![r].clusters = rest]
    BY <1>6, <2>1
  <2>5. /\ run' \in [Runs -> RunState] /\ \A q \in Runs : q # r => run'[q] = run[q]
        /\ run'[r].pc = "deliver" /\ run'[r].deleted = {} /\ run'[r].clusters = rest
    BY <1>1, <1>2, <2>3, <2>4 DEF RunState
  <2>6. Out(r)' = UNION Range(rest)
    BY <2>5 DEF Out, Handed
  <2>7. [id |-> nextId, of |-> S] \in memories' /\ [id |-> nextId, of |-> S].of = S
    BY <1>6, <2>1
  <2>8. \A x \in Out(r) : Has(x)'
    <3> SUFFICES ASSUME NEW x \in Out(r)
                 PROVE  Has(x)'
      OBVIOUS
    <3>1. CASE x \in S
      BY <2>7, <3>1 DEF Has
    <3>2. CASE x \in Out(r)'
      BY <3>2 DEF Has
    <3> QED
      BY <1>3, <2>3, <2>6, <3>1, <3>2
  <2>9. \A x : Has(x) => Has(x)'
    BY <1>1, <1>6, <2>5, <2>8, NothingLostBy
  <2>10. RunSoundAt(r)'
    BY <2>5 DEF RunSoundAt
  <2>11. memories' \subseteq [id : Nat, of : SUBSET Commits] /\ nextId' \in Nat
           /\ \A w \in marks' : w.id < nextId'
    BY <1>4, <1>6, <2>1, <2>3
  <2> QED
    BY <1>1, <1>4, <1>6, <2>5, <2>9, <2>10, <2>11, RunStep
<1> QED
  BY <1>5, <1>6 DEF Materialize

LEMMA CrashStep ==
  ASSUME IInv, NEW r \in Runs, Crash(r)
  PROVE  IInv'
<1>1. /\ Answer(r, "none") /\ UNCHANGED repo /\ told' = told /\ skipped' = skipped
      /\ memories' = memories /\ marks' = marks /\ nextId' = nextId
      /\ dropped' = dropped \union IF run[r].pc = "deliver" THEN Handed(r) ELSE {}
      /\ wiped' = wiped \union run[r].deleted
  BY DEF Crash, store, Handed
<1>2. "none" \in Answers
  BY DEF Answers
<1>3. /\ run' \in [Runs -> RunState] /\ \A q \in Runs : q # r => run'[q] = run[q]
      /\ RunSoundAt(r)'
  BY <1>1, <1>2, AnswerIdle
<1>4. \A x \in Out(r) : Has(x)'
  <2>1. \A x \in Out(r) : x \in dropped' \/ x \in wiped'
    BY <1>1 DEF Out
  <2> QED
    BY <2>1 DEF Has
<1>5. \A x : Has(x) => Has(x)'
  BY <1>1, <1>3, <1>4, NothingLostBy
<1>6. /\ memories \subseteq [id : Nat, of : SUBSET Commits]
      /\ marks \subseteq [id : Nat, at : Commits \union {Malformed}]
      /\ nextId \in Nat /\ \A w \in marks : w.id < nextId
  BY DEF IInv, TypeOK
<1> QED
  BY <1>1, <1>3, <1>5, <1>6, RunStep

\* A commit is new: it takes the next number, and history stays closed.
LEMMA NewCommitRepo ==
  ASSUME IInv, NewCommit
  PROVE  /\ anc' \in [Commits -> SUBSET Commits] /\ kind' \in [Commits -> {"work", "noise", "merge"}]
         /\ head' \in Commits /\ History' /\ Made \subseteq Made'
         /\ \A d \in Made : anc'[d] = anc[d] /\ kind'[d] = kind[d]
<1>1. PICK c \in {Cardinality(Made) + 1}, P \in SUBSET Made :
        /\ Cardinality(P) \in 1 .. 2
        /\ anc' = [anc EXCEPT ![c] = {c} \union UNION {anc[p] : p \in P}]
        /\ \E k \in IF Cardinality(P) = 2 THEN {"merge"} ELSE {"work", "noise"} :
             kind' = [kind EXCEPT ![c] = k]
        /\ head' \in {head, c}
  BY DEF NewCommit
<1>2. PICK n \in 1 .. MaxCommits : Made = 1 .. n
  BY DEF IInv, History
<1>3. Cardinality(Made) = n /\ MaxCommits \in Nat /\ n \in Nat /\ n >= 1
  BY <1>2, FS_Interval, MaxCommitsAssumption
<1>4. Made # Commits
  BY DEF NewCommit
<1>5. c = n + 1 /\ n < MaxCommits
  BY <1>1, <1>2, <1>3, <1>4 DEF Commits
<1>6. c \in Commits /\ c \notin Made /\ c # 1 /\ Made \subseteq Commits
  BY <1>2, <1>3, <1>5 DEF Commits
<1>7. PICK U : U = UNION {anc[p] : p \in P}
  OBVIOUS
<1>8. \A p \in Made : p \in anc[p] /\ 1 \in anc[p] /\ anc[p] \subseteq Made
                        /\ \A d \in anc[p] : anc[d] \subseteq anc[p]
  BY DEF IInv, History
<1>9. \A x : x \in U <=> \E p \in P : x \in anc[p]
  BY <1>7, Zenon
<1>10. U \subseteq Made
  BY <1>8, <1>9
<1>11. P # {}
  BY <1>1, FS_EmptySet
<1>12. 1 \in U
  BY <1>8, <1>9, <1>11
<1>13. \A d \in U : anc[d] \subseteq U
  <2> SUFFICES ASSUME NEW d \in U, NEW x \in anc[d]
               PROVE  x \in U
    OBVIOUS
  <2>1. PICK p \in P : d \in anc[p]
    BY <1>9
  <2>2. x \in anc[p]
    BY <1>8, <2>1
  <2> QED
    BY <1>9, <2>2
<1>14. anc \in [Commits -> SUBSET Commits] /\ kind \in [Commits -> {"work", "noise", "merge"}] /\ head \in Commits
  BY DEF IInv, TypeOK
<1>15. anc' = [anc EXCEPT ![c] = {c} \union U]
  BY <1>1, <1>7
<1>16. /\ anc' \in [Commits -> SUBSET Commits] /\ anc'[c] = {c} \union U
       /\ \A d \in Commits : d # c => anc'[d] = anc[d]
  BY <1>6, <1>10, <1>14, <1>15
<1>17. PICK k \in {"work", "noise", "merge"} : kind' = [kind EXCEPT ![c] = k]
  BY <1>1
<1>18. /\ kind' \in [Commits -> {"work", "noise", "merge"}]
       /\ \A d \in Commits : d # c => kind'[d] = kind[d]
  BY <1>6, <1>14, <1>17
<1>19. \A d \in Made : d # c /\ anc'[d] = anc[d] /\ kind'[d] = kind[d]
  BY <1>6, <1>16, <1>18
<1>20. Made' = Made \union {c}
  <2>1. \A d \in Commits : anc'[d] # {} <=> (anc[d] # {} \/ d = c)
    BY <1>16
  <2> QED
    BY <1>6, <2>1 DEF Made
<1>21. Made' = 1 .. (n + 1) /\ n + 1 \in 1 .. MaxCommits
  BY <1>2, <1>3, <1>5, <1>20
<1>22. head' \in Made' /\ head' \in Commits
  BY <1>1, <1>6, <1>14, <1>20 DEF IInv, History
<1>23. kind'[1] = "work"
  BY <1>2, <1>3, <1>19 DEF IInv, History
<1>24. ASSUME NEW d \in Made'
       PROVE  /\ d \in anc'[d] /\ 1 \in anc'[d] /\ anc'[d] \subseteq Made'
              /\ \A e \in anc'[d] : anc'[e] \subseteq anc'[d]
  <2>1. CASE d = c
    <3>1. d \in anc'[d] /\ 1 \in anc'[d] /\ anc'[d] \subseteq Made'
      BY <1>10, <1>12, <1>16, <1>20, <2>1
    <3>2. ASSUME NEW e \in anc'[d]
          PROVE  anc'[e] \subseteq anc'[d]
      <4>1. CASE e = c
        BY <2>1, <4>1
      <4>2. CASE e \in U
        BY <1>10, <1>13, <1>16, <1>19, <2>1, <4>2
      <4> QED
        BY <1>16, <2>1, <4>1, <4>2
    <3> QED
      BY <3>1, <3>2
  <2>2. CASE d \in Made
    <3>1. anc'[d] = anc[d] /\ anc[d] \subseteq Made
      BY <1>8, <1>19, <2>2
    <3>2. \A e \in anc[d] : anc'[e] = anc[e]
      BY <1>19, <3>1
    <3> QED
      BY <1>8, <1>20, <2>2, <3>1, <3>2
  <2> QED
    BY <1>20, <2>1, <2>2
<1>25. History'
  BY <1>21, <1>22, <1>23, <1>24 DEF History
<1> QED
  BY <1>16, <1>18, <1>19, <1>20, <1>22, <1>25

LEMMA NewCommitStep ==
  ASSUME IInv, NewCommit
  PROVE  IInv'
<1>1. /\ memories' = memories /\ marks' = marks /\ nextId' = nextId /\ run' = run
      /\ told' = told /\ skipped' = skipped /\ dropped' = dropped /\ wiped' = wiped
  BY DEF NewCommit, store, history
<1>2. /\ anc' \in [Commits -> SUBSET Commits] /\ kind' \in [Commits -> {"work", "noise", "merge"}]
      /\ head' \in Commits /\ History' /\ Made \subseteq Made'
      /\ \A d \in Made : anc'[d] = anc[d] /\ kind'[d] = kind[d]
  BY NewCommitRepo
<1>3. \A x : Has(x)' <=> Has(x)
  BY <1>1 DEF Has, Out, Handed
<1>4. \A c \in Made : Kept(anc[c])' = Kept(anc[c])
  <2>1. \A c \in Made : anc[c] \subseteq Made
    BY DEF IInv, History
  <2> QED
    BY <1>2, <2>1 DEF Kept
<1>5. \A c : Behind(c) => Behind(c)'
  BY <1>2, <1>3, <1>4 DEF Behind
<1>6. TypeOK'
  BY <1>1, <1>2 DEF IInv, TypeOK
<1>7. MarksJustified'
  BY <1>1, <1>5 DEF IInv, MarksJustified
<1>8. ASSUME NEW r \in Runs
      PROVE  RunSoundAt(r)'
  <2>1. Reached(r)' = Reached(r)
    BY <1>1 DEF Reached
  <2>2. Behind(run[r].mark) => Behind(run[r].mark)'
    BY <1>1, <1>5
  <2> QED
    BY <1>1, <1>2, <1>3, <1>4, <2>1, <2>2 DEF IInv, RunSoundAt
<1> QED
  BY <1>2, <1>6, <1>7, <1>8 DEF IInv

LEMMA WriteByHandStep ==
  ASSUME IInv, WriteByHand
  PROVE  IInv'
<1>1. /\ anc' = anc /\ kind' = kind /\ head' = head /\ run' = run /\ nextId' = nextId + 1
      /\ told' = told /\ skipped' = skipped /\ dropped' = dropped /\ wiped' = wiped
  BY DEF WriteByHand, repo, history
<1>2. \/ marks' = marks \union {[id |-> nextId, at |-> Malformed]} /\ memories' = memories
      \/ memories' = memories \union {[id |-> nextId, of |-> {}]} /\ marks' = marks
  BY DEF WriteByHand
<1>3. memories \subseteq memories'
  BY <1>2
<1>4. \A x : Has(x) => Has(x)'
  BY <1>1, <1>3 DEF Has, Out, Handed
<1>5. TypeOK'
  BY <1>1, <1>2 DEF IInv, TypeOK
<1>6. Made' = Made /\ \A c : Kept(anc[c])' = Kept(anc[c])
  BY <1>1 DEF Made, Kept
<1>7. \A c : Behind(c) => Behind(c)'
  BY <1>4, <1>6 DEF Behind
<1>8. History'
  BY <1>1, <1>6 DEF IInv, History
<1>9. MarksJustified'
  <2> SUFFICES ASSUME NEW w \in marks', w.at # Malformed
               PROVE  Behind(w.at)'
    BY DEF MarksJustified
  <2>1. w \in marks
    BY <1>2
  <2> QED
    BY <1>7, <2>1 DEF IInv, MarksJustified
<1>10. ASSUME NEW r \in Runs
       PROVE  RunSoundAt(r)'
  <2>1. Reached(r)' = Reached(r)
    BY <1>1 DEF Reached
  <2>2. Behind(run[r].mark) => Behind(run[r].mark)'
    BY <1>1, <1>7
  <2> QED
    BY <1>1, <1>4, <1>6, <2>1, <2>2 DEF IInv, RunSoundAt
<1> QED
  BY <1>5, <1>8, <1>9, <1>10 DEF IInv

LEMMA InitIInv ==
  ASSUME Init
  PROVE  IInv
<1>1. MaxCommits \in Nat /\ 1 \in Commits /\ 1 \in 1 .. MaxCommits
  BY MaxCommitsAssumption DEF Commits
<1>2. <<>> \in Seq(SUBSET Commits)
  OBVIOUS
<1>3. Idle \in RunState /\ Idle.pc = "idle" /\ Idle.deleted = {} /\ Idle.mark = NoMark
  BY <1>2 DEF Idle, RunState
<1>4. run \in [Runs -> RunState] /\ \A r \in Runs : run[r] = Idle
  BY <1>3 DEF Init
<1>5. /\ anc \in [Commits -> SUBSET Commits] /\ anc[1] = {1}
      /\ \A c \in Commits : c # 1 => anc[c] = {}
  BY <1>1 DEF Init
<1>6. kind \in [Commits -> {"work", "noise", "merge"}] /\ kind[1] = "work" /\ head = 1
  BY <1>1 DEF Init
<1>7. memories = {} /\ marks = {} /\ nextId = 1
  BY DEF Init
<1>8. TypeOK
  BY <1>1, <1>4, <1>5, <1>6, <1>7 DEF TypeOK
<1>9. Made = {1}
  BY <1>1, <1>5 DEF Made
<1>10. History
  <2>1. Made = 1 .. 1
    BY <1>9
  <2> QED
    BY <1>1, <1>5, <1>6, <1>9, <2>1 DEF History
<1>11. MarksJustified
  BY <1>7 DEF MarksJustified
<1>12. \A r \in Runs : RunSoundAt(r)
  BY <1>3, <1>4 DEF RunSoundAt
<1> QED
  BY <1>8, <1>10, <1>11, <1>12 DEF IInv

LEMMA Stutter ==
  ASSUME IInv, UNCHANGED vars
  PROVE  IInv'
<1>1. /\ anc' = anc /\ kind' = kind /\ head' = head /\ run' = run /\ nextId' = nextId
      /\ memories' = memories /\ marks' = marks
      /\ told' = told /\ skipped' = skipped /\ dropped' = dropped /\ wiped' = wiped
  BY DEF vars
<1>2. \A x : Has(x)' <=> Has(x)
  BY <1>1 DEF Has, Out, Handed
<1>3. Made' = Made /\ \A c : Kept(anc[c])' = Kept(anc[c])
  BY <1>1 DEF Made, Kept
<1>4. \A c : Behind(c) => Behind(c)'
  BY <1>2, <1>3 DEF Behind
<1>5. TypeOK' /\ History'
  BY <1>1, <1>3 DEF IInv, TypeOK, History
<1>6. MarksJustified'
  BY <1>1, <1>4 DEF IInv, MarksJustified
<1>7. ASSUME NEW r \in Runs
      PROVE  RunSoundAt(r)'
  <2>1. Reached(r)' = Reached(r) /\ (Behind(run[r].mark) => Behind(run[r].mark)')
    BY <1>1, <1>4 DEF Reached
  <2> QED
    BY <1>1, <1>2, <1>3, <2>1 DEF IInv, RunSoundAt
<1> QED
  BY <1>5, <1>6, <1>7 DEF IInv

LEMMA NextIInv ==
  ASSUME IInv, [Next]_vars
  PROVE  IInv'
<1>1. ASSUME NEW r \in Runs, Step(r)
      PROVE  IInv'
  BY <1>1, ListExistingStep, ListMarksStep, WipeStep, ExtractStep, ExtractFailsStep, ListToReplaceStep,
     UnmarkStep, AddMarkStep, RespondStep, MaterializeStep DEF Step
<1>2. ASSUME NEW r \in Runs, Start(r) \/ Crash(r)
      PROVE  IInv'
  BY <1>2, StartStep, CrashStep
<1> QED
  BY <1>1, <1>2, NewCommitStep, WriteByHandStep, Stutter DEF Next

(***************************************************************************)
(* Theorems                                                                *)
(***************************************************************************)
\* The inductive invariant: every watermark row, and every mark and walk a run
\* under way has read, leaves behind only commits that are accounted for.
THEOREM Invariance == Spec => []IInv
<1>1. Init => IInv
  BY InitIInv
<1>2. IInv /\ [Next]_vars => IInv'
  BY NextIInv
<1> QED
  BY <1>1, <1>2, PTL DEF Spec

\* What is accounted for is what the runs' property names.
LEMMA HasIsAccounted ==
  ASSUME NEW x, Has(x)
  PROVE  x \in Covered \union InHand \union skipped \union dropped \union wiped
<1>1. ASSUME NEW m \in memories, x \in m.of
      PROVE  x \in UNION {o.of : o \in memories}
  BY <1>1, Zenon
<1>2. ASSUME NEW r \in Runs, x \in run[r].deleted
      PROVE  x \in UNION {run[q].deleted : q \in Runs}
  BY <1>2, Zenon
<1>3. ASSUME NEW r \in Runs, run[r].pc = "deliver", x \in Handed(r)
      PROVE  x \in UNION {UNION Range(run[q].clusters) : q \in {p \in Runs : run[p].pc = "deliver"}}
  BY <1>3, Zenon DEF Handed
<1>4. ASSUME NEW r \in Runs, x \in Out(r)
      PROVE  x \in InHand
  BY <1>2, <1>3, <1>4 DEF Out, InHand
<1>5. CASE \E m \in memories : x \in m.of
  BY <1>1, <1>5 DEF Covered
<1> QED
  BY <1>4, <1>5 DEF Has, Covered

\* NothingSkipped: the watermark that onboard_git_prepare reads and save_watermark
\* replaces passes no commit by that was not handed over, is not in hand, past
\* the cap, or lost in one of the ways the histories name.
THEOREM WatermarkPassesNothingBy == Spec => []NothingSkipped
<1>1. ASSUME IInv
      PROVE  NothingSkipped
  <2> SUFFICES ASSUME NEW x \in Marked
               PROVE  x \in Covered \union InHand \union skipped \union dropped \union wiped
    BY DEF NothingSkipped
  <2>1. Watermark # NoMark /\ x \in Kept(anc[Watermark])
    BY DEF Marked
  <2>2. Behind(Watermark)
    BY <1>1, <2>1, WatermarkJustified
  <2>3. Has(x)
    BY <2>1, <2>2 DEF Behind
  <2> QED
    BY <2>3, HasIsAccounted
<1> QED
  BY <1>1, Invariance, PTL

(***************************************************************************)
(* Nothing is handed over twice                                            *)
(*                                                                         *)
(* While runs do not overlap, no watermark is before anything that was     *)
(* handed over: of what was walked it is the newest, and without merges    *)
(* that is the head of the ref, which then only moves to newer commits,    *)
(* while a ref that is never forced reaches all that was handed over, so   *)
(* what is after the watermark was past the walk's own mark too.  On one   *)
(* line, not before the watermark means after it.                          *)
(***************************************************************************)
\* Ancestors are older.
Line == \A c \in Made : \A d \in anc[c] : d <= c

\* Without merges a commit's ancestors are one line.
Chain == Merged \/ \A c \in Made : \A x, y \in anc[c] : x \in anc[y] \/ y \in anc[x]

\* A commit of the ref: a ref that was never forced still reaches it.
Placed(x) == x \in Made /\ (forced \/ x \in anc[head])

\* What was handed over, or is going to be, was listed by a walk of the ref.
Listed(x) == Placed(x) /\ kind[x] # "merge" /\ (Merged \/ x <= head)

NoneNewer == (\A x \in Covered : Listed(x)) /\ \A r \in Runs : \A x \in Handed(r) : Listed(x)

\* So were the watermarks, the mark a run has read and what it walked.
OnTheRef ==
  /\ \A w \in marks : w.at # Malformed => Placed(w.at)
  /\ \A r \in Runs : /\ run[r].mark = NoMark \/ Placed(run[r].mark)
                     /\ \A x \in run[r].walked : Placed(x)

\* Commit m is before none of the commits of S.
Leads(m, S) == \A x \in S : m \in anc[x] => x = m

\* A watermark is before nothing that was handed over.
MarksLead ==
  \A w \in marks : w.at # Malformed =>
    /\ Leads(w.at, Covered)
    /\ \A r \in Runs : run[r].pc = "deliver" => Leads(w.at, Handed(r))

\* No two clusters share a commit.
Apart(cl) == \A i, j \in DOMAIN cl : i # j => cl[i] \intersect cl[j] = {}

\* Nothing that a run is going to hand over is before its watermark, and of what
\* is after it nothing was handed over.
Novel(r) == \A x \in Handed(r) : x \notin anc[run[r].mark] /\ (x \in Covered => run[r].mark \notin anc[x])

\* The marks of a run lead, what it hands over is novel, and when it marks its
\* walk no other watermark is left.
Fresh(r) ==
  /\ (run[r].pc = "extract" /\ run[r].mark # NoMark) => Leads(run[r].mark, Covered)
  /\ run[r].pc \in {"remark", "unmark"} => Leads(MarkOf(r), Covered \union Handed(r))
  /\ run[r].pc = "unmark" => \A w \in marks : w.at # Malformed => w.id \in run[r].listed
  /\ run[r].pc \in {"remark", "unmark", "deliver"} =>
       Apart(run[r].clusters) /\ (Incremental(r) => Novel(r))

\* At most one run is under way.
OneAtATime == \A q, r \in Runs : q # r => run[q].pc = "idle" \/ run[r].pc = "idle"

NInv ==
  /\ Line /\ Chain /\ NoneNewer /\ OnTheRef
  /\ "past" \notin repeated /\ (repeated = {} \/ forced \/ Merged)
  /\ overlapped \/ (OneAtATime /\ MarksLead /\ \A r \in Runs : Fresh(r))

\* Every commit and everything handed over is a number.
LEMMA MadeNumbers ==
  ASSUME IInv
  PROVE  Made \subseteq Commits /\ Commits \subseteq Nat /\ head \in Made /\ head \in Nat
<1>1. Made \subseteq Commits /\ Commits \subseteq Nat
  BY MaxCommitsAssumption DEF Made, Commits
<1> QED
  BY <1>1 DEF IInv, History

\* While the repository stands still, commits stay where they are.
LEMMA Still ==
  ASSUME UNCHANGED repo
  PROVE  /\ anc' = anc /\ kind' = kind /\ head' = head /\ forced' = forced /\ Made' = Made
         /\ Merged' = Merged
         /\ \A x : (Placed(x)' <=> Placed(x)) /\ (Listed(x)' <=> Listed(x))
<1>1. anc' = anc /\ kind' = kind /\ head' = head /\ forced' = forced
  BY DEF repo
<1>2. Made' = Made
  BY <1>1 DEF Made
<1>3. Merged' = Merged
  BY <1>1, <1>2, Zenon DEF Merged
<1>4. \A x : Placed(x)' <=> Placed(x)
  BY <1>1, <1>2 DEF Placed
<1>5. \A x : Listed(x)' <=> Listed(x)
  BY <1>1, <1>3, <1>4, Zenon DEF Listed
<1> QED
  BY <1>1, <1>2, <1>3, <1>4, <1>5

\* The step of a run that is under way, while the repository stands still.
LEMMA ActiveStep ==
  ASSUME NInv, UNCHANGED repo, NEW r \in Runs, \A q \in Runs : q # r => run'[q] = run[q],
         run[r].pc # "idle", overlapped' = overlapped, NoneNewer',
         "past" \notin repeated', repeated' = {} \/ forced \/ Merged,
         \A w \in marks' : w \in marks \/ w.at = Malformed \/ Placed(w.at),
         run'[r].mark = NoMark \/ Placed(run'[r].mark), \A x \in run'[r].walked : Placed(x),
         ~ overlapped => MarksLead' /\ Fresh(r)'
  PROVE  NInv'
<1>1. /\ anc' = anc /\ kind' = kind /\ head' = head /\ forced' = forced /\ Made' = Made
      /\ Merged' = Merged /\ \A x : Placed(x)' <=> Placed(x)
  BY Still
<1>2. Line' /\ Chain'
  BY <1>1 DEF NInv, Line, Chain
<1>3. OnTheRef'
  <2>1. \A w \in marks' : w.at # Malformed => Placed(w.at)'
    BY <1>1 DEF NInv, OnTheRef
  <2>2. ASSUME NEW q \in Runs
        PROVE  ((run[q].mark = NoMark \/ Placed(run[q].mark)) /\ \A x \in run[q].walked : Placed(x))'
    <3>1. PICK m, W : m = run'[q].mark /\ W = run'[q].walked
      OBVIOUS
    <3>2. (m = NoMark \/ Placed(m)) /\ \A x \in W : Placed(x)
      BY <3>1 DEF NInv, OnTheRef
    <3>3. (m = NoMark \/ Placed(m)') /\ \A x \in W : Placed(x)'
      BY <1>1, <3>2
    <3> QED
      BY <3>1, <3>3
  <2> QED
    BY <2>1, <2>2 DEF OnTheRef
<1>4. repeated' = {} \/ forced' \/ Merged'
  BY <1>1
<1>5. CASE ~ overlapped
  <2>1. \A q \in Runs : q # r => run[q].pc = "idle"
    BY <1>5 DEF NInv, OneAtATime
  <2>2. OneAtATime'
    BY <2>1 DEF OneAtATime
  <2>3. \A q \in Runs : q # r => Fresh(q)'
    BY <2>1 DEF Fresh
  <2> QED
    BY <1>2, <1>3, <1>4, <1>5, <2>2, <2>3 DEF NInv
<1> QED
  BY <1>2, <1>3, <1>4, <1>5 DEF NInv

\* A step that hands over nothing and adds no watermark.
LEMMA CalmStep ==
  ASSUME NInv, UNCHANGED repo, NEW r \in Runs, \A q \in Runs : q # r => run'[q] = run[q],
         run[r].pc # "idle", overlapped' = overlapped, repeated' = repeated,
         Covered' \subseteq Covered, Handed(r)' \subseteq Handed(r), marks' \subseteq marks,
         run'[r].mark = NoMark \/ Placed(run'[r].mark), run'[r].walked \subseteq run[r].walked,
         run'[r].pc # "deliver", ~ overlapped => Fresh(r)'
  PROVE  NInv'
<1>1. anc' = anc /\ \A x : Listed(x)' <=> Listed(x)
  BY Still
<1>2. "past" \notin repeated' /\ (repeated' = {} \/ forced \/ Merged)
  BY DEF NInv
<1>3. \A q \in Runs : Handed(q)' \subseteq Handed(q)
  <2>1. \A q \in Runs : q # r => Handed(q)' = Handed(q)
    BY DEF Handed
  <2> QED
    BY <2>1
<1>4. NoneNewer'
  BY <1>1, <1>3 DEF NInv, NoneNewer
<1>5. \A x \in run'[r].walked : Placed(x)
  BY DEF NInv, OnTheRef
<1>6. CASE ~ overlapped
  <2>1. MarksLead
    BY <1>6 DEF NInv
  <2>2. MarksLead'
    BY <1>1, <1>3, <2>1 DEF MarksLead, Leads
  <2> QED
    BY <1>2, <1>4, <1>5, <1>6, <2>2, ActiveStep
<1> QED
  BY <1>2, <1>4, <1>5, <1>6, ActiveStep

\* A run that ends hands over nothing more.
LEMMA EndStep ==
  ASSUME IInv, NInv, UNCHANGED <<repo, store, told, repeated, overlapped>>, NEW r \in Runs,
         run[r].pc # "idle", NEW a, Answer(r, a)
  PROVE  NInv'
<1>1. run' = [run EXCEPT ![r] = [Idle EXCEPT !.answer = a]] /\ run \in [Runs -> RunState]
  BY DEF Answer, IInv, TypeOK
<1>2. /\ \A q \in Runs : q # r => run'[q] = run[q]
      /\ run'[r].pc = "idle" /\ run'[r].clusters = <<>> /\ run'[r].mark = NoMark /\ run'[r].walked = {}
  BY <1>1 DEF Idle
<1>3. Handed(r)' = {}
  BY <1>2 DEF Handed, Range
<1>4. Covered' = Covered /\ marks' = marks
  BY DEF Covered, store
<1>5. Fresh(r)'
  BY <1>2 DEF Fresh
<1> QED
  BY <1>2, <1>3, <1>4, <1>5, CalmStep

LEMMA NListExisting ==
  ASSUME IInv, NInv, NEW r \in Runs, ListExisting(r)
  PROVE  NInv'
<1>1. /\ run[r].pc = "existing" /\ UNCHANGED <<repo, store, told>>
      /\ overlapped' = overlapped /\ repeated' = repeated
      /\ run' = [run EXCEPT ![r].pc = "marks", ![r].existing = {m.id : m \in memories}]
  BY DEF ListExisting, history
<1>2. run \in [Runs -> RunState] /\ run[r] \in RunState
  BY DEF IInv, TypeOK
<1>3. /\ \A q \in Runs : q # r => run'[q] = run[q]
      /\ run'[r].pc = "marks" /\ run'[r].clusters = run[r].clusters
      /\ run'[r].mark = run[r].mark /\ run'[r].walked = run[r].walked
  BY <1>1, <1>2 DEF RunState
<1>4. Covered' = Covered /\ marks' = marks /\ Handed(r)' = Handed(r) /\ Fresh(r)'
  BY <1>1, <1>3 DEF Covered, store, Handed, Fresh
<1>5. run'[r].mark = NoMark \/ Placed(run'[r].mark)
  BY <1>3 DEF NInv, OnTheRef
<1> QED
  BY <1>1, <1>3, <1>4, <1>5, CalmStep

\* The watermark that a run reads is before nothing that was handed over.
LEMMA NListMarks ==
  ASSUME IInv, NInv, NEW r \in Runs, ListMarks(r)
  PROVE  NInv'
<1>1. /\ run[r].pc = "marks" /\ UNCHANGED <<repo, store, told, repeated, overlapped>>
  BY DEF ListMarks, history
<1>2. run \in [Runs -> RunState] /\ run[r] \in RunState
  BY DEF IInv, TypeOK
<1>3. PICK w : w = Watermark
  OBVIOUS
<1>4. PICK ids : ids = {v.id : v \in marks}
  OBVIOUS
<1>5. \/ run' = [run EXCEPT ![r].pc = "wipe", ![r].listed = run[r].existing \union ids]
      \/ Answer(r, "exists")
      \/ run' = [run EXCEPT ![r].pc = "extract", ![r].mark = w, ![r].existing = {}]
  BY <1>3, <1>4 DEF ListMarks
<1>6. Covered' = Covered /\ marks' = marks
  BY <1>1 DEF Covered, store
<1>7. CASE run' = [run EXCEPT ![r].pc = "wipe", ![r].listed = run[r].existing \union ids]
  <2>1. /\ \A q \in Runs : q # r => run'[q] = run[q]
        /\ run'[r].pc = "wipe" /\ run'[r].clusters = run[r].clusters
        /\ run'[r].mark = run[r].mark /\ run'[r].walked = run[r].walked
    BY <1>2, <1>7 DEF RunState
  <2>2. Handed(r)' = Handed(r) /\ Fresh(r)'
    BY <2>1 DEF Handed, Fresh
  <2>3. run'[r].mark = NoMark \/ Placed(run'[r].mark)
    BY <2>1 DEF NInv, OnTheRef
  <2> QED
    BY <1>1, <1>6, <2>1, <2>2, <2>3, CalmStep
<1>8. CASE Answer(r, "exists")
  BY <1>1, <1>8, EndStep
<1>9. CASE run' = [run EXCEPT ![r].pc = "extract", ![r].mark = w, ![r].existing = {}]
  <2>1. /\ \A q \in Runs : q # r => run'[q] = run[q]
        /\ run'[r].pc = "extract" /\ run'[r].clusters = run[r].clusters /\ run'[r].mark = w
        /\ run'[r].walked = run[r].walked
    BY <1>2, <1>9 DEF RunState
  <2>2. Handed(r)' = Handed(r)
    BY <2>1 DEF Handed
  <2>3. ASSUME ~ overlapped, w # NoMark
        PROVE  Leads(w, Covered)
    <3>1. PICK v \in marks : v.at # Malformed /\ w = v.at
      BY <1>3, <2>3, WatermarkOfRow
    <3> QED
      BY <2>3, <3>1 DEF NInv, MarksLead
  <2>4. ~ overlapped => Fresh(r)'
    <3>1. anc' = anc
      BY <1>1 DEF repo
    <3> QED
      BY <1>6, <2>1, <2>3, <3>1 DEF Fresh, Leads
  <2>5. w = NoMark \/ Placed(w)
    BY <1>3, WatermarkOfRow DEF NInv, OnTheRef
  <2> QED
    BY <1>1, <1>6, <2>1, <2>2, <2>4, <2>5, CalmStep
<1> QED
  BY <1>5, <1>7, <1>8, <1>9

\* Rows that are deleted are not handed over any more.
LEMMA NDeleteRow ==
  ASSUME IInv, NInv, NEW r \in Runs, NEW i, run[r].pc \in {"wipe", "unmark"}, DeleteRow(r, i)
  PROVE  NInv'
<1>1. UNCHANGED <<repo, told, repeated, overlapped>> /\ nextId' = nextId
  BY DEF DeleteRow
<1>2. run \in [Runs -> RunState] /\ run[r] \in RunState
  BY DEF IInv, TypeOK
<1>3. CASE memories' = memories /\ marks' = marks /\ Answer(r, "error")
  <2>1. UNCHANGED <<repo, store, told, repeated, overlapped>>
    BY <1>1, <1>3 DEF store
  <2> QED
    BY <1>3, <2>1, EndStep
<1>4. CASE /\ memories' = {m \in memories : m.id # i} /\ marks' = {w \in marks : w.id # i}
           /\ run' = [run EXCEPT ![r].listed = @ \ {i},
                                 ![r].deleted = @ \union UNION {m.of : m \in memories \ memories'}]
  <2>1. PICK D : D = UNION {m.of : m \in memories \ memories'}
    OBVIOUS
  <2>2. run' = [run EXCEPT ![r].listed = @ \ {i}, ![r].deleted = @ \union D]
    BY <1>4, <2>1
  <2>3. /\ \A q \in Runs : q # r => run'[q] = run[q]
        /\ run'[r].pc = run[r].pc /\ run'[r].mark = run[r].mark /\ run'[r].listed = run[r].listed \ {i}
        /\ run'[r].walked = run[r].walked /\ run'[r].clusters = run[r].clusters
        /\ run'[r].unreachable = run[r].unreachable
    BY <1>2, <2>2 DEF RunState
  <2>4. marks' \subseteq marks /\ memories' \subseteq memories
    BY <1>4
  <2>5. UNION {m.of : m \in memories'} \subseteq UNION {m.of : m \in memories}
    BY <2>4, Zenon
  <2>6. Covered' \subseteq Covered
    BY <1>1, <2>5 DEF Covered
  <2>7. /\ Handed(r)' = Handed(r) /\ MarkOf(r)' = MarkOf(r) /\ (Incremental(r)' <=> Incremental(r))
        /\ anc' = anc
    BY <1>1, <2>3 DEF Handed, MarkOf, Incremental, repo
  <2>8. ASSUME ~ overlapped
        PROVE  Fresh(r)'
    <3>1. Fresh(r)
      BY <2>8 DEF NInv
    <3>2. run[r].pc = "unmark" => \A w \in marks' : w.at # Malformed => w.id \in run'[r].listed
      BY <1>4, <2>3, <3>1 DEF Fresh
    <3> QED
      BY <2>3, <2>6, <2>7, <3>1, <3>2 DEF Fresh, Leads, Novel
  <2>9. run'[r].mark = NoMark \/ Placed(run'[r].mark)
    BY <2>3 DEF NInv, OnTheRef
  <2> QED
    BY <1>1, <2>3, <2>4, <2>6, <2>7, <2>8, <2>9, CalmStep
<1> QED
  BY <1>3, <1>4 DEF DeleteRow

LEMMA NWipe ==
  ASSUME IInv, NInv, NEW r \in Runs, Wipe(r)
  PROVE  NInv'
<1>1. run[r].pc = "wipe"
  BY DEF Wipe
<1>2. ASSUME NEW i, DeleteRow(r, i)
      PROVE  NInv'
  BY <1>1, <1>2, NDeleteRow
<1>3. CASE /\ run' = [run EXCEPT ![r].pc = "extract", ![r].existing = {}]
           /\ UNCHANGED <<repo, overlapped, store, history>>
  <2>1. run \in [Runs -> RunState] /\ run[r] \in RunState /\ run[r].mark = NoMark
    BY <1>1 DEF IInv, TypeOK, RunSoundAt
  <2>2. /\ \A q \in Runs : q # r => run'[q] = run[q]
        /\ run'[r].pc = "extract" /\ run'[r].mark = NoMark /\ run'[r].clusters = run[r].clusters
        /\ run'[r].walked = run[r].walked
    BY <1>3, <2>1 DEF RunState
  <2>3. /\ Covered' = Covered /\ marks' = marks /\ Handed(r)' = Handed(r) /\ Fresh(r)'
        /\ repeated' = repeated /\ overlapped' = overlapped
    BY <1>3, <2>2 DEF Covered, store, history, Handed, Fresh
  <2> QED
    BY <1>1, <1>3, <2>2, <2>3, CalmStep
<1> QED
  BY <1>2, <1>3 DEF Wipe

LEMMA NExtractFails ==
  ASSUME IInv, NInv, NEW r \in Runs, ExtractFails(r)
  PROVE  NInv'
<1>1. run[r].pc = "extract" /\ Answer(r, "error") /\ UNCHANGED <<repo, store, told, repeated, overlapped>>
  BY DEF ExtractFails
<1> QED
  BY <1>1, EndStep

LEMMA NCrash ==
  ASSUME IInv, NInv, NEW r \in Runs, Crash(r)
  PROVE  NInv'
<1>1. run[r].pc # "idle" /\ Answer(r, "none") /\ UNCHANGED <<repo, store, told, repeated, overlapped>>
  BY DEF Crash
<1> QED
  BY <1>1, EndStep

LEMMA NListToReplace ==
  ASSUME IInv, NInv, NEW r \in Runs, ListToReplace(r)
  PROVE  NInv'
<1>1. /\ run[r].pc = "remark" /\ UNCHANGED <<repo, store, told, repeated, overlapped>>
      /\ run' = [run EXCEPT ![r].pc = "unmark", ![r].listed = {w.id : w \in marks}]
  BY DEF ListToReplace, history
<1>2. PICK ids : ids = {w.id : w \in marks}
  OBVIOUS
<1>3. run' = [run EXCEPT ![r].pc = "unmark", ![r].listed = ids]
  BY <1>1, <1>2
<1>4. run \in [Runs -> RunState] /\ run[r] \in RunState
  BY DEF IInv, TypeOK
<1>5. /\ \A q \in Runs : q # r => run'[q] = run[q]
      /\ run'[r].pc = "unmark" /\ run'[r].mark = run[r].mark /\ run'[r].listed = ids
      /\ run'[r].walked = run[r].walked /\ run'[r].clusters = run[r].clusters
      /\ run'[r].unreachable = run[r].unreachable
  BY <1>3, <1>4 DEF RunState
<1>6. /\ Covered' = Covered /\ marks' = marks /\ Handed(r)' = Handed(r) /\ anc' = anc
      /\ MarkOf(r)' = MarkOf(r) /\ (Incremental(r)' <=> Incremental(r))
  BY <1>1, <1>5 DEF Covered, store, Handed, MarkOf, Incremental, repo
<1>7. \A w \in marks : w.id \in ids
  BY <1>2
<1>8. ASSUME ~ overlapped
      PROVE  Fresh(r)'
  <2>1. Fresh(r)
    BY <1>8 DEF NInv
  <2> QED
    BY <1>1, <1>5, <1>6, <1>7, <2>1 DEF Fresh, Leads, Novel
<1>9. run'[r].mark = NoMark \/ Placed(run'[r].mark)
  BY <1>5 DEF NInv, OnTheRef
<1> QED
  BY <1>1, <1>5, <1>6, <1>8, <1>9, CalmStep

\* cluster_commits puts no commit into two clusters.
LEMMA PartitionsApart ==
  ASSUME NEW S, NEW cl \in Partitions(S)
  PROVE  Apart(cl)
<1>1. CASE cl = <<>> \/ cl = <<S>>
  BY <1>1 DEF Apart
<1>2. CASE \E A \in SUBSET S : cl = <<A, S \ A>>
  <2>1. PICK A \in SUBSET S : cl = <<A, S \ A>>
    BY <1>2
  <2>2. DOMAIN cl = {1, 2} /\ cl[1] = A /\ cl[2] = S \ A
    BY <2>1
  <2> QED
    BY <2>2 DEF Apart
<1> QED
  BY <1>1, <1>2 DEF Partitions

\* Without merges, the newest commit of a walk is the head of the ref.
LEMMA HeadIsWalked ==
  ASSUME IInv, Line, ~ Merged, NEW since \in Made \union {NoMark}, Past(since) # {}
  PROVE  head \in NewestOf(Past(since)) /\ Max(NewestOf(Past(since))) = head
<1>1. /\ Made \subseteq Commits /\ Commits \subseteq Nat /\ head \in Made /\ head \in Nat
  BY MadeNumbers
<1>2. Past(since) \subseteq anc[head] /\ Past(since) \in SUBSET Commits
  BY PastIs
<1>3. head \in anc[head] /\ kind[head] # "merge" /\ \A d \in anc[head] : d <= head
  BY <1>1 DEF IInv, History, Line, Merged
<1>4. since # NoMark => head \notin anc[since]
  <2> SUFFICES ASSUME since # NoMark, head \in anc[since]
               PROVE  FALSE
    OBVIOUS
  <2>1. anc[head] \subseteq anc[since]
    BY DEF IInv, History
  <2> QED
    BY <2>1 DEF Past
<1>5. head \in Past(since)
  BY <1>3, <1>4 DEF Past
<1>6. {d \in Past(since) : d > head} = {}
  <2>1. \A d \in Past(since) : d \in Nat /\ d <= head
    BY <1>1, <1>2, <1>3
  <2> QED
    BY <1>1, <2>1
<1>7. head \in NewestOf(Past(since))
  BY <1>5, <1>6, FS_EmptySet, MaxWalkAssumption DEF NewestOf
<1>8. NewestOf(Past(since)) \subseteq Past(since)
  BY DEF NewestOf
<1>9. PICK m : m = Max(NewestOf(Past(since)))
  OBVIOUS
<1>10. m \in NewestOf(Past(since)) /\ \A y \in NewestOf(Past(since)) : y <= m
  BY <1>2, <1>7, <1>8, <1>9, MaxOfCommits
<1>11. m \in Nat /\ m <= head /\ head <= m
  BY <1>1, <1>2, <1>3, <1>7, <1>8, <1>10
<1> QED
  BY <1>1, <1>7, <1>9, <1>11

\* The mark of a walk is the newest of all that was past the watermark, capped or not.
LEMMA WalkHasNewest ==
  ASSUME NEW S \in SUBSET Commits, S # {}
  PROVE  Max(NewestOf(S)) \in S /\ \A y \in S : y <= Max(NewestOf(S))
<1>1. PICK c \in S : \A y \in S : y <= c
  BY MaxOfCommits
<1>2. S \subseteq Nat
  BY MaxCommitsAssumption DEF Commits
<1>3. {d \in S : d > c} = {}
  <2>1. \A d \in S : ~ (d > c)
    BY <1>1, <1>2
  <2> QED
    BY <2>1
<1>4. c \in NewestOf(S) /\ NewestOf(S) \subseteq S
  BY <1>1, <1>3, FS_EmptySet, MaxWalkAssumption DEF NewestOf
<1>5. PICK N : N = NewestOf(S)
  OBVIOUS
<1>6. Max(N) \in N /\ \A y \in N : y <= Max(N)
  BY <1>4, <1>5, MaxOfCommits
<1>7. Max(N) \in S /\ c <= Max(N) /\ Max(N) <= c
  BY <1>1, <1>4, <1>5, <1>6
<1>8. PICK m : m = Max(N)
  OBVIOUS
<1>9. m \in S /\ c <= m /\ m <= c
  BY <1>7, <1>8
<1>10. m = c
  BY <1>1, <1>2, <1>9
<1> QED
  BY <1>1, <1>5, <1>8, <1>10

\* The mark of a walk is before nothing that was ever listed.
LEMMA WalkLeads ==
  ASSUME IInv, Line, ~ (forced /\ Merged), NEW since \in Made \union {NoMark}, Past(since) # {},
         NEW x, Listed(x), NEW w, w = Max(NewestOf(Past(since))), w \in anc[x]
  PROVE  x = w
<1>1. /\ Made \subseteq Commits /\ Commits \subseteq Nat /\ head \in Made /\ head \in Nat
      /\ x \in Made /\ x \in Nat /\ kind[x] # "merge" /\ w \in Nat /\ w <= x
  <2>1. Made \subseteq Commits /\ Commits \subseteq Nat /\ head \in Made /\ head \in Nat
    BY MadeNumbers
  <2>2. x \in Made /\ kind[x] # "merge"
    BY DEF Listed, Placed
  <2>3. anc[x] \subseteq Made /\ w <= x
    BY <2>2 DEF IInv, History, Line
  <2> QED
    BY <2>1, <2>2, <2>3
<1>2. CASE ~ Merged
  <2>1. w = head /\ x <= head
    BY <1>2, HeadIsWalked DEF Listed
  <2> QED
    BY <1>1, <2>1
<1>3. CASE ~ forced
  <2>1. x \in anc[head]
    BY <1>3 DEF Listed, Placed
  <2>2. Past(since) \in SUBSET Commits
    BY PastIs
  <2>3. w \in Past(since) /\ \A y \in Past(since) : y <= w
    BY <2>2, WalkHasNewest
  <2>4. CASE x \in Past(since)
    BY <1>1, <2>3, <2>4
  <2>5. CASE x \notin Past(since)
    <3>1. since # NoMark /\ x \in anc[since] /\ since \in Made
      BY <1>1, <2>1, <2>5 DEF Past
    <3>2. w \in anc[since]
      BY <3>1 DEF IInv, History
    <3> QED
      BY <2>3, <3>1, <3>2 DEF Past
  <2> QED
    BY <2>4, <2>5
<1> QED
  BY <1>2, <1>3

LEMMA NExtract ==
  ASSUME IInv, NInv, ~ (forced /\ Merged), NEW r \in Runs, Extract(r)
  PROVE  NInv'
<1>1. run[r].pc = "extract" /\ UNCHANGED <<repo, store, told, repeated, overlapped>>
  BY DEF Extract, history
<1>2. run \in [Runs -> RunState] /\ run[r] \in RunState
  BY DEF IInv, TypeOK
<1>3. run[r].mark # NoMark => run[r].mark \in Made
  BY <1>1 DEF IInv, RunSoundAt, Behind
<1>4. PICK found \in Resolvable(run[r].mark) :
        LET past == Past(IF found THEN run[r].mark ELSE NoMark)
            walked == NewestOf(past)
        IN IF walked = {}
           THEN Answer(r, IF run[r].mark = NoMark THEN "empty" ELSE "up_to_date")
           ELSE \E cl \in Partitions(Kept(walked)) :
                  run' = [run EXCEPT ![r].pc = "remark", ![r].walked = walked, ![r].clusters = cl,
                                     ![r].beyond = Kept(past \ walked), ![r].unreachable = ~ found]
  BY DEF Extract
<1>5. PICK since : since = IF found THEN run[r].mark ELSE NoMark
  OBVIOUS
<1>6. PICK past : past = Past(since)
  OBVIOUS
<1>7. PICK walked : walked = NewestOf(past)
  OBVIOUS
<1>8. \/ walked = {} /\ Answer(r, IF run[r].mark = NoMark THEN "empty" ELSE "up_to_date")
      \/ /\ walked # {}
         /\ \E cl \in Partitions(Kept(walked)) :
              run' = [run EXCEPT ![r].pc = "remark", ![r].walked = walked, ![r].clusters = cl,
                                 ![r].beyond = Kept(past \ walked), ![r].unreachable = ~ found]
  BY <1>4, <1>5, <1>6, <1>7
<1>9. past \subseteq anc[head] /\ past \subseteq Made /\ past \in SUBSET Commits /\ walked \subseteq past
  BY <1>6, <1>7, PastIs DEF NewestOf
<1>10. CASE walked = {} /\ Answer(r, IF run[r].mark = NoMark THEN "empty" ELSE "up_to_date")
  <2>1. PICK a : Answer(r, a)
    BY <1>10
  <2> QED
    BY <1>1, <2>1, EndStep
<1>11. ASSUME walked # {}, NEW cl \in Partitions(Kept(walked)),
              run' = [run EXCEPT ![r].pc = "remark", ![r].walked = walked, ![r].clusters = cl,
                                 ![r].beyond = Kept(past \ walked), ![r].unreachable = ~ found]
       PROVE  NInv'
  <2>1. Kept(walked) \in SUBSET Commits /\ Kept(walked) \subseteq walked
    BY <1>9 DEF Kept
  <2>2. UNION Range(cl) = Kept(walked) /\ Apart(cl)
    BY <2>1, PartitionsKeep, PartitionsApart
  <2>3. PICK b : b = Kept(past \ walked)
    OBVIOUS
  <2>4. run' = [run EXCEPT ![r].pc = "remark", ![r].walked = walked, ![r].clusters = cl,
                           ![r].beyond = b, ![r].unreachable = ~ found]
    BY <1>11, <2>3
  <2>5. /\ \A q \in Runs : q # r => run'[q] = run[q]
        /\ run'[r].pc = "remark" /\ run'[r].mark = run[r].mark
        /\ run'[r].walked = walked /\ run'[r].clusters = cl /\ run'[r].unreachable = ~ found
    BY <1>2, <2>4 DEF RunState
  <2>6. /\ Covered' = Covered /\ marks' = marks /\ anc' = anc /\ repeated' = repeated
        /\ \A q \in Runs : q # r => Handed(q)' = Handed(q)
        /\ Handed(r)' = Kept(walked)
    BY <1>1, <2>2, <2>5 DEF Covered, store, repo, Handed
  <2>7. Made \subseteq Commits /\ Commits \subseteq Nat /\ head \in Made /\ head \in Nat
    BY MadeNumbers
  <2>8. \A x \in anc[head] : x <= head
    BY <2>7 DEF NInv, Line
  <2>9. \A x \in walked : Placed(x)
    BY <1>9 DEF Placed
  <2>10. \A x \in Kept(walked) : x \in past /\ Listed(x)
    <3>1. \A x \in Kept(walked) : x \in walked /\ x \in past /\ kind[x] # "merge" /\ x <= head
      BY <1>9, <2>1, <2>8 DEF Kept
    <3> QED
      BY <2>9, <3>1 DEF Listed
  <2>11. NoneNewer'
    <3>1. \A x : Listed(x)' <=> Listed(x)
      BY <1>1, Still
    <3> QED
      BY <2>6, <2>10, <3>1 DEF NInv, NoneNewer
  <2>12. since \in Made \union {NoMark} /\ past # {}
    BY <1>3, <1>5, <1>9, <1>11
  <2>13. PICK w : w = Max(walked)
    OBVIOUS
  <2>14. MarkOf(r)' = w
    BY <2>5, <2>13 DEF MarkOf
  <2>15. Leads(w, Covered \union Kept(walked))
    <3>1. \A x \in Covered \union Kept(walked) : Listed(x)
      BY <2>10 DEF NInv, NoneNewer
    <3>2. Line
      BY DEF NInv
    <3> QED
      BY <1>6, <1>7, <2>12, <2>13, <3>1, <3>2, WalkLeads DEF Leads
  <2>16. "past" \notin repeated' /\ (repeated' = {} \/ forced \/ Merged)
    BY <2>6 DEF NInv
  <2>17. run'[r].mark = NoMark \/ Placed(run'[r].mark)
    BY <2>5 DEF NInv, OnTheRef
  <2>18. ASSUME ~ overlapped
         PROVE  MarksLead' /\ Fresh(r)'
    <3>1. MarksLead /\ Fresh(r)
      BY <2>18 DEF NInv
    <3>2. MarksLead'
      BY <2>5, <2>6, <3>1 DEF MarksLead, Leads
    <3>3. ASSUME run[r].mark # NoMark, found, NEW x \in Kept(walked)
          PROVE  x \notin anc[run[r].mark] /\ (x \in Covered => run[r].mark \notin anc[x])
      <4>1. since = run[r].mark /\ since \in Made /\ x \notin anc[since] /\ since \in anc[since]
        BY <1>3, <1>5, <1>6, <2>10, <3>3 DEF Past, IInv, History
      <4>2. Leads(since, Covered)
        BY <1>1, <3>1, <3>3, <4>1 DEF Fresh
      <4> QED
        BY <4>1, <4>2 DEF Leads
    <3>4. Incremental(r)' => run[r].mark # NoMark /\ found
      BY <2>5 DEF Incremental
    <3>5. Incremental(r)' => Novel(r)'
      BY <2>5, <2>6, <3>3, <3>4 DEF Novel
    <3>6. Fresh(r)'
      BY <2>2, <2>5, <2>6, <2>14, <2>15, <3>5 DEF Fresh, Leads
    <3> QED
      BY <3>2, <3>6
  <2> QED
    BY <1>1, <2>5, <2>6, <2>9, <2>11, <2>16, <2>17, <2>18, ActiveStep
<1> QED
  BY <1>8, <1>10, <1>11

\* The new watermark leads, and it is the only one.
LEMMA NAddMark ==
  ASSUME IInv, NInv, NEW r \in Runs, AddMark(r)
  PROVE  NInv'
<1>1. /\ run[r].pc = "unmark" /\ run[r].listed = {} /\ UNCHANGED <<repo, memories, told, repeated, overlapped>>
      /\ marks' = marks \union {[id |-> nextId, at |-> MarkOf(r)]}
      /\ run' = [run EXCEPT ![r].pc = "deliver", ![r].deleted = {}, ![r].walked = {}, ![r].beyond = {}]
  BY DEF AddMark
<1>2. run \in [Runs -> RunState] /\ run[r] \in RunState
  BY DEF IInv, TypeOK
<1>3. /\ \A q \in Runs : q # r => run'[q] = run[q]
      /\ run'[r].pc = "deliver" /\ run'[r].clusters = run[r].clusters
      /\ run'[r].mark = run[r].mark /\ run'[r].unreachable = run[r].unreachable
      /\ run'[r].walked = {}
  BY <1>1, <1>2 DEF RunState
<1>4. /\ Covered' = Covered /\ anc' = anc
      /\ \A q \in Runs : Handed(q)' = Handed(q)
      /\ (Incremental(r)' <=> Incremental(r))
  BY <1>1, <1>3 DEF Covered, repo, Handed, Incremental
<1>5. NoneNewer' /\ "past" \notin repeated' /\ (repeated' = {} \/ forced \/ Merged)
  <2>1. \A x : Listed(x)' <=> Listed(x)
    BY <1>1, Still
  <2> QED
    BY <1>1, <1>4, <2>1 DEF NInv, NoneNewer
<1>6. PICK c : c = MarkOf(r)
  OBVIOUS
<1>7. \A w \in marks' : w \in marks \/ w.at = c
  BY <1>1, <1>6
<1>8. Placed(c)
  <2>1. run[r].walked \in SUBSET Commits /\ run[r].walked # {}
    BY <1>1, <1>2 DEF IInv, RunSoundAt, RunState
  <2>2. c \in run[r].walked
    BY <1>6, <2>1, MaxOfCommits DEF MarkOf
  <2> QED
    BY <2>2 DEF NInv, OnTheRef
<1>9. run'[r].mark = NoMark \/ Placed(run'[r].mark)
  BY <1>3 DEF NInv, OnTheRef
<1>10. ASSUME ~ overlapped
       PROVE  MarksLead' /\ Fresh(r)'
  <2>1. Fresh(r) /\ OneAtATime
    BY <1>10 DEF NInv
  <2>2. \A w \in marks : w.at = Malformed
    BY <1>1, <2>1 DEF Fresh
  <2>3. Leads(c, Covered \union Handed(r))
    BY <1>1, <1>6, <2>1 DEF Fresh
  <2>4. \A w \in marks' : w.at # Malformed => w.at = c
    BY <1>7, <2>2
  <2>5. \A q \in Runs : q # r => run'[q].pc # "deliver"
    BY <1>1, <1>3, <2>1 DEF OneAtATime
  <2>6. MarksLead'
    BY <1>4, <2>3, <2>4, <2>5 DEF MarksLead, Leads
  <2>7. Fresh(r)'
    BY <1>1, <1>3, <1>4, <2>1 DEF Fresh, Novel
  <2> QED
    BY <2>6, <2>7
<1> QED
  BY <1>1, <1>3, <1>5, <1>7, <1>8, <1>9, <1>10, ActiveStep

\* A run that is novel repeats nothing that is past its watermark and, on a ref
\* that was neither forced nor merged into, nothing at all.
LEMMA NovelIsNew ==
  ASSUME IInv, NInv, NEW r \in Runs, run[r].pc = "deliver", NEW S \in SUBSET Handed(r)
  PROVE  "past" \notin Again(r, S) /\ (forced \/ Merged \/ Again(r, S) = {})
<1>1. CASE ~ (Incremental(r) /\ ~ overlapped)
  BY <1>1 DEF Again
<1>2. CASE Incremental(r) /\ ~ overlapped
  <2>1. Novel(r) /\ run[r].mark # NoMark
    BY <1>2 DEF NInv, Fresh, Incremental
  <2>2. Again(r, S) = {IF run[r].mark \in anc[c] THEN "past" ELSE "beside" : c \in S \intersect Covered}
    BY <1>2 DEF Again
  <2>3. \A c \in S \intersect Covered : run[r].mark \notin anc[c] /\ c \notin anc[run[r].mark]
    BY <2>1 DEF Novel
  <2>4. "past" \notin Again(r, S)
    BY <2>2, <2>3
  <2>5. ASSUME ~ forced, ~ Merged, NEW c \in S \intersect Covered
        PROVE  FALSE
    <3>1. c \in anc[head] /\ run[r].mark \in anc[head] /\ head \in Made
      BY <2>1, <2>5 DEF NInv, NoneNewer, OnTheRef, Listed, Placed, IInv, History
    <3>2. c \in anc[run[r].mark] \/ run[r].mark \in anc[c]
      BY <2>5, <3>1 DEF NInv, Chain
    <3> QED
      BY <2>3, <3>2
  <2>6. forced \/ Merged \/ Again(r, S) = {}
    BY <2>2, <2>5
  <2> QED
    BY <2>4, <2>6
<1> QED
  BY <1>1, <1>2

LEMMA NRespond ==
  ASSUME IInv, NInv, NEW r \in Runs, Respond(r)
  PROVE  NInv'
<1>1. /\ run[r].pc = "deliver" /\ Answer(r, "ok") /\ told' = told \union Handed(r)
      /\ repeated' = repeated \union Again(r, Handed(r))
      /\ UNCHANGED repo /\ memories' = memories /\ marks' = marks /\ overlapped' = overlapped
  BY DEF Respond, store, Handed
<1>2. run' = [run EXCEPT ![r] = [Idle EXCEPT !.answer = "ok"]] /\ run \in [Runs -> RunState]
  BY <1>1 DEF Answer, IInv, TypeOK
<1>3. /\ \A q \in Runs : q # r => run'[q] = run[q]
      /\ run'[r].pc = "idle" /\ run'[r].clusters = <<>> /\ run'[r].mark = NoMark /\ run'[r].walked = {}
  BY <1>2 DEF Idle
<1>4. Handed(r)' = {} /\ \A q \in Runs : q # r => Handed(q)' = Handed(q)
  BY <1>3 DEF Handed, Range
<1>5. Covered' = Covered \union Handed(r)
  BY <1>1 DEF Covered
<1>6. anc' = anc /\ \A x : Listed(x)' <=> Listed(x)
  BY <1>1, Still
<1>7. NoneNewer'
  BY <1>4, <1>5, <1>6 DEF NInv, NoneNewer
<1>8. "past" \notin repeated' /\ (repeated' = {} \/ forced \/ Merged)
  <2>1. "past" \notin Again(r, Handed(r)) /\ (forced \/ Merged \/ Again(r, Handed(r)) = {})
    BY <1>1, NovelIsNew
  <2> QED
    BY <1>1, <2>1 DEF NInv
<1>9. ASSUME ~ overlapped
      PROVE  MarksLead' /\ Fresh(r)'
  <2>1. MarksLead
    BY <1>9 DEF NInv
  <2>2. \A w \in marks : w.at # Malformed => Leads(w.at, Covered \union Handed(r))
    BY <1>1, <2>1 DEF MarksLead, Leads
  <2>3. MarksLead'
    BY <1>1, <1>3, <1>4, <1>5, <1>6, <2>1, <2>2 DEF MarksLead, Leads
  <2> QED
    BY <1>3, <2>3 DEF Fresh
<1> QED
  BY <1>1, <1>3, <1>7, <1>8, <1>9, ActiveStep

\* The first cluster shares nothing with the others.
LEMMA HeadApart ==
  ASSUME NEW cl \in Seq(SUBSET Commits), cl # <<>>, Apart(cl)
  PROVE  Apart(Tail(cl)) /\ Head(cl) \intersect UNION Range(Tail(cl)) = {}
<1>1. /\ Len(cl) \in Nat /\ Len(cl) >= 1 /\ DOMAIN cl = 1 .. Len(cl) /\ Head(cl) = cl[1]
      /\ DOMAIN Tail(cl) = 1 .. (Len(cl) - 1)
      /\ \A i \in 1 .. (Len(cl) - 1) : Tail(cl)[i] = cl[i + 1]
  OBVIOUS
<1>2. Apart(Tail(cl))
  <2> SUFFICES ASSUME NEW i \in DOMAIN Tail(cl), NEW j \in DOMAIN Tail(cl), i # j
               PROVE  Tail(cl)[i] \intersect Tail(cl)[j] = {}
    BY DEF Apart
  <2>1. /\ i + 1 \in DOMAIN cl /\ j + 1 \in DOMAIN cl /\ i + 1 # j + 1
        /\ Tail(cl)[i] = cl[i + 1] /\ Tail(cl)[j] = cl[j + 1]
    BY <1>1
  <2> QED
    BY <2>1 DEF Apart
<1>3. \A i \in DOMAIN Tail(cl) : Head(cl) \intersect Tail(cl)[i] = {}
  <2> SUFFICES ASSUME NEW i \in DOMAIN Tail(cl)
               PROVE  Head(cl) \intersect Tail(cl)[i] = {}
    OBVIOUS
  <2>1. /\ i + 1 \in DOMAIN cl /\ 1 \in DOMAIN cl /\ i + 1 # 1 /\ Tail(cl)[i] = cl[i + 1]
    BY <1>1
  <2> QED
    BY <1>1, <2>1 DEF Apart
<1>4. \A T \in Range(Tail(cl)) : Head(cl) \intersect T = {}
  BY <1>3 DEF Range
<1> QED
  BY <1>2, <1>4

\* Nor does a memory of one cluster hold what another one does.
LEMMA NMaterialize ==
  ASSUME IInv, NInv, NEW r \in Runs, Materialize(r)
  PROVE  NInv'
<1>1. run[r].pc = "deliver" /\ UNCHANGED repo /\ told' = told /\ overlapped' = overlapped
  BY DEF Materialize
<1>2. run \in [Runs -> RunState] /\ run[r] \in RunState
  BY DEF IInv, TypeOK
<1>3. CASE Answer(r, "ok") /\ UNCHANGED <<store, repeated>>
  <2>1. UNCHANGED <<repo, store, told, repeated, overlapped>>
    BY <1>1, <1>3
  <2> QED
    BY <1>1, <1>3, <2>1, EndStep
<1>4. CASE /\ run[r].clusters # <<>>
           /\ memories' = memories \union {[id |-> nextId, of |-> Head(run[r].clusters)]}
           /\ marks' = marks /\ repeated' = repeated \union Again(r, Head(run[r].clusters))
           /\ run' = [run EXCEPT ![r].clusters = Tail(@)]
  <2>1. PICK S, rest : S = Head(run[r].clusters) /\ rest = Tail(run[r].clusters)
    OBVIOUS
  <2>2. run[r].clusters \in Seq(SUBSET Commits)
    BY <1>2 DEF RunState
  <2>3. S \in SUBSET Commits /\ Handed(r) = S \union UNION Range(rest)
    BY <1>4, <2>1, <2>2, HeadAndTail DEF Handed
  <2>4. run' = [run EXCEPT ![r].clusters = rest]
    BY <1>4, <2>1
  <2>5. /\ \A q \in Runs : q # r => run'[q] = run[q]
        /\ run'[r].pc = "deliver" /\ run'[r].clusters = rest
        /\ run'[r].mark = run[r].mark /\ run'[r].unreachable = run[r].unreachable
        /\ run'[r].walked = run[r].walked
    BY <1>1, <1>2, <2>4 DEF RunState
  <2>6. /\ Handed(r)' = UNION Range(rest) /\ \A q \in Runs : q # r => Handed(q)' = Handed(q)
        /\ (Incremental(r)' <=> Incremental(r))
    BY <2>5 DEF Handed, Incremental
  <2>7. Covered' = Covered \union S
    <3>1. PICK new : new = [id |-> nextId, of |-> S]
      OBVIOUS
    <3>2. new.of = S /\ memories' = memories \union {new}
      BY <1>4, <2>1, <3>1
    <3>3. UNION {m.of : m \in memories'} = S \union UNION {m.of : m \in memories}
      BY <3>2, Zenon
    <3> QED
      BY <1>1, <3>3 DEF Covered
  <2>8. anc' = anc /\ \A x : Listed(x)' <=> Listed(x)
    BY <1>1, Still
  <2>9. NoneNewer'
    BY <2>3, <2>6, <2>7, <2>8 DEF NInv, NoneNewer
  <2>10. "past" \notin repeated' /\ (repeated' = {} \/ forced \/ Merged)
    <3>1. "past" \notin Again(r, S) /\ (forced \/ Merged \/ Again(r, S) = {})
      BY <1>1, <2>3, NovelIsNew
    <3> QED
      BY <1>4, <2>1, <3>1 DEF NInv
  <2>11. /\ run'[r].mark = NoMark \/ Placed(run'[r].mark)
         /\ \A x \in run'[r].walked : Placed(x)
    BY <2>5 DEF NInv, OnTheRef
  <2>12. ASSUME ~ overlapped
         PROVE  MarksLead' /\ Fresh(r)'
    <3>1. MarksLead /\ Fresh(r)
      BY <2>12 DEF NInv
    <3>2. \A w \in marks : w.at # Malformed => Leads(w.at, Covered \union Handed(r))
      BY <1>1, <3>1 DEF MarksLead, Leads
    <3>3. MarksLead'
      BY <1>4, <2>3, <2>5, <2>6, <2>7, <2>8, <3>1, <3>2 DEF MarksLead, Leads
    <3>4. Apart(rest) /\ S \intersect UNION Range(rest) = {}
      BY <1>1, <1>4, <2>1, <2>2, <3>1, HeadApart DEF Fresh
    <3>5. Incremental(r) => Novel(r)'
      <4>1. Handed(r)' \subseteq Handed(r) /\ Covered' \intersect Handed(r)' \subseteq Covered
        BY <2>3, <2>6, <2>7, <3>4
      <4> QED
        BY <1>1, <2>5, <2>8, <3>1, <4>1 DEF Fresh, Novel
    <3>6. Fresh(r)'
      BY <2>5, <2>6, <3>4, <3>5 DEF Fresh
    <3> QED
      BY <3>3, <3>6
  <2> QED
    BY <1>1, <1>4, <2>5, <2>9, <2>10, <2>11, <2>12, ActiveStep
<1> QED
  BY <1>3, <1>4 DEF Materialize

LEMMA NStart ==
  ASSUME IInv, NInv, NEW r \in Runs, Start(r)
  PROVE  NInv'
<1>1. /\ run[r].pc = "idle" /\ UNCHANGED <<repo, store, told, repeated>>
      /\ overlapped' = (overlapped \/ ~ Alone(r))
  BY DEF Start, history
<1>2. PICK s \in {"mcp", "cli"}, f \in BOOLEAN :
        run' = [run EXCEPT ![r] = [Idle EXCEPT !.pc = "existing", !.surface = s, !.force = f]]
  BY DEF Start
<1>3. /\ \A q \in Runs : q # r => run'[q] = run[q]
      /\ run'[r].pc = "existing" /\ run'[r].clusters = <<>> /\ run'[r].mark = NoMark /\ run'[r].walked = {}
  BY <1>2 DEF Idle, IInv, TypeOK
<1>4. /\ Handed(r)' = {} /\ \A q \in Runs : q # r => Handed(q)' = Handed(q)
      /\ Covered' = Covered /\ marks' = marks
      /\ anc' = anc /\ Made' = Made /\ Merged' = Merged /\ forced' = forced
      /\ \A x : (Placed(x)' <=> Placed(x)) /\ (Listed(x)' <=> Listed(x))
  BY <1>1, <1>3, Still DEF Handed, Range, Covered, store
<1>5. /\ Line' /\ Chain' /\ NoneNewer' /\ OnTheRef'
      /\ "past" \notin repeated' /\ (repeated' = {} \/ forced' \/ Merged')
  <2>1. Line' /\ Chain' /\ "past" \notin repeated' /\ (repeated' = {} \/ forced' \/ Merged')
    BY <1>1, <1>4 DEF NInv, Line, Chain
  <2>2. NoneNewer'
    BY <1>4 DEF NInv, NoneNewer
  <2>3. OnTheRef'
    BY <1>3, <1>4 DEF NInv, OnTheRef
  <2> QED
    BY <2>1, <2>2, <2>3
<1>6. ASSUME ~ overlapped'
      PROVE  OneAtATime' /\ MarksLead' /\ \A q \in Runs : Fresh(q)'
  <2>1. ~ overlapped /\ MarksLead /\ \A q \in Runs : q # r => run'[q].pc = "idle"
    BY <1>1, <1>3, <1>6 DEF NInv, Alone
  <2>2. OneAtATime'
    BY <2>1 DEF OneAtATime
  <2>3. MarksLead'
    BY <1>3, <1>4, <2>1 DEF MarksLead, Leads
  <2>4. \A q \in Runs : run'[q].pc \in {"idle", "existing"}
    BY <1>3, <2>1
  <2>5. \A q \in Runs : Fresh(q)'
    BY <2>4 DEF Fresh
  <2> QED
    BY <2>2, <2>3, <2>5
<1> QED
  BY <1>5, <1>6 DEF NInv

\* A new commit is newer than all, and has one parent unless it is a merge.
LEMMA NewCommitIsNewest ==
  ASSUME IInv, NewCommit
  PROVE  \E c \in Nat : /\ Made' \subseteq Made \union {c} /\ \A d \in Made : d < c
                        /\ head' \in {head, c}
                        /\ c \in Made' => kind'[c] = "merge" \/ \E p \in Made : anc'[c] = {c} \union anc[p]
<1>1. PICK c \in {Cardinality(Made) + 1}, P \in SUBSET Made :
        /\ Cardinality(P) \in 1 .. 2
        /\ anc' = [anc EXCEPT ![c] = {c} \union UNION {anc[p] : p \in P}]
        /\ \E k \in IF Cardinality(P) = 2 THEN {"merge"} ELSE {"work", "noise"} :
             kind' = [kind EXCEPT ![c] = k]
        /\ head' \in {head, c}
  BY DEF NewCommit
<1>2. PICK n \in 1 .. MaxCommits : Made = 1 .. n
  BY DEF IInv, History
<1>3. Cardinality(Made) = n /\ n \in Nat /\ IsFiniteSet(Made)
  BY <1>2, FS_Interval, MaxCommitsAssumption
<1>4. c \in Nat /\ \A d \in Made : d < c
  BY <1>1, <1>2, <1>3
<1>5. \A d \in Commits : d # c => anc'[d] = anc[d]
  BY <1>1 DEF IInv, TypeOK
<1>6. Made' \subseteq Made \union {c}
  BY <1>5 DEF Made
<1>7. ASSUME c \in Made'
      PROVE  kind'[c] = "merge" \/ \E p \in Made : anc'[c] = {c} \union anc[p]
  <2>1. c \in Commits
    BY <1>7 DEF Made
  <2>2. CASE Cardinality(P) = 2
    BY <1>1, <2>1, <2>2 DEF IInv, TypeOK
  <2>3. CASE Cardinality(P) # 2
    <3>1. Cardinality(P) = 1 /\ IsFiniteSet(P)
      BY <1>1, <1>3, <2>3, FS_Subset
    <3>2. PICK p : P = {p}
      BY <3>1, FS_Singleton
    <3>3. UNION {anc[q] : q \in P} = anc[p] /\ p \in Made
      BY <3>2
    <3>4. anc'[c] = {c} \union UNION {anc[q] : q \in P}
      BY <1>1, <2>1 DEF IInv, TypeOK
    <3> QED
      BY <3>3, <3>4
  <2> QED
    BY <2>2, <2>3
<1> QED
  BY <1>1, <1>4, <1>6, <1>7

\* What was merged stays merged, and what the ref reached it reaches unless it is forced.
LEMMA NewCommitKeeps ==
  ASSUME IInv, NewCommit
  PROVE  /\ Merged => Merged'
         /\ forced => forced'
         /\ \A x : Placed(x) => Placed(x)'
         /\ \A x : Listed(x) => Listed(x)'
<1>1. /\ History' /\ Made \subseteq Made' /\ \A d \in Made : anc'[d] = anc[d] /\ kind'[d] = kind[d]
  BY NewCommitRepo
<1>2. forced' = (forced \/ head \notin anc'[head'])
  BY DEF NewCommit
<1>3. Merged => Merged'
  BY <1>1 DEF Merged
<1>4. ASSUME NEW x, Placed(x)
      PROVE  Placed(x)'
  <2>1. x \in Made' /\ head \in Made
    BY <1>1, <1>4 DEF Placed, IInv, History
  <2>2. CASE ~ forced'
    <3>1. ~ forced /\ head \in anc'[head'] /\ x \in anc[head]
      BY <1>2, <1>4, <2>2 DEF Placed
    <3>2. head' \in Made' /\ anc'[head] \subseteq anc'[head']
      BY <1>1, <3>1 DEF History
    <3>3. x \in anc'[head']
      BY <1>1, <2>1, <3>1, <3>2
    <3> QED
      BY <2>1, <3>3 DEF Placed
  <2> QED
    BY <2>1, <2>2 DEF Placed
<1>5. ASSUME NEW x, Listed(x)
      PROVE  Listed(x)'
  <2>1. Placed(x)' /\ kind'[x] # "merge" /\ x \in Made
    BY <1>1, <1>4, <1>5 DEF Listed, Placed
  <2>2. ASSUME ~ Merged'
        PROVE  x <= head'
    <3>1. x <= head
      BY <1>3, <1>5, <2>2 DEF Listed
    <3>2. PICK c \in Nat : (\A d \in Made : d < c) /\ head' \in {head, c}
      BY NewCommitIsNewest
    <3>3. Made \subseteq Commits /\ Commits \subseteq Nat
      BY MadeNumbers
    <3>4. x \in Nat /\ x < c
      BY <2>1, <3>2, <3>3
    <3> QED
      BY <3>1, <3>2, <3>4
  <2> QED
    BY <2>1, <2>2 DEF Listed
<1> QED
  BY <1>2, <1>3, <1>4, <1>5

LEMMA NNewCommit ==
  ASSUME IInv, NInv, NewCommit
  PROVE  NInv'
<1>1. /\ memories' = memories /\ marks' = marks /\ run' = run /\ told' = told
      /\ repeated' = repeated /\ overlapped' = overlapped
  BY DEF NewCommit, store, history
<1>2. /\ History' /\ Made \subseteq Made' /\ \A d \in Made : anc'[d] = anc[d] /\ kind'[d] = kind[d]
  BY NewCommitRepo
<1>3. PICK c \in Nat :
        /\ Made' \subseteq Made \union {c} /\ \A d \in Made : d < c
        /\ c \in Made' => kind'[c] = "merge" \/ \E p \in Made : anc'[c] = {c} \union anc[p]
  BY NewCommitIsNewest
<1>4. Made \subseteq Commits /\ Commits \subseteq Nat
  BY MadeNumbers
<1>5. \A e \in Made : anc[e] \subseteq Made
  BY DEF IInv, History
<1>6. Line'
  <2> SUFFICES ASSUME NEW e \in Made'
               PROVE  \A d \in anc'[e] : d <= e
    BY DEF Line
  <2>1. CASE e \in Made
    BY <1>2, <2>1 DEF NInv, Line
  <2>2. CASE e = c
    <3>1. anc'[e] \subseteq Made \union {c}
      BY <1>2, <1>3 DEF History
    <3>2. \A d \in Made : d \in Nat /\ d < c
      BY <1>3, <1>4
    <3>3. \A d \in Made \union {c} : d <= c
      BY <3>2
    <3> QED
      BY <2>2, <3>1, <3>3
  <2> QED
    BY <1>3, <2>1, <2>2
<1>7. /\ Merged => Merged'
      /\ forced => forced'
      /\ \A x : (Placed(x) => Placed(x)') /\ (Listed(x) => Listed(x)')
  BY NewCommitKeeps
<1>8. Chain'
  <2> SUFFICES ASSUME ~ Merged', NEW e \in Made', NEW x \in anc'[e], NEW y \in anc'[e]
               PROVE  x \in anc'[y] \/ y \in anc'[x]
    BY DEF Chain
  <2>1. ASSUME NEW p \in Made, x \in anc[p], y \in anc[p]
        PROVE  x \in anc'[y] \/ y \in anc'[x]
    <3>1. ~ Merged
      BY <1>7
    <3>2. x \in anc[y] \/ y \in anc[x]
      BY <2>1, <3>1 DEF NInv, Chain
    <3>3. anc'[x] = anc[x] /\ anc'[y] = anc[y]
      BY <1>2, <1>5, <2>1
    <3> QED
      BY <3>2, <3>3
  <2>2. CASE e \in Made
    BY <1>2, <2>1, <2>2
  <2>3. CASE e = c
    <3>1. PICK p \in Made : anc'[c] = {c} \union anc[p]
      BY <1>3, <2>3 DEF Merged
    <3>2. CASE x = c \/ y = c
      BY <2>3, <3>2
    <3>3. CASE x # c /\ y # c
      BY <2>1, <2>3, <3>1, <3>3
    <3> QED
      BY <3>2, <3>3
  <2> QED
    BY <1>3, <2>2, <2>3
<1>9. /\ Covered' = Covered /\ \A r \in Runs : Handed(r)' = Handed(r)
      /\ \A r \in Runs : MarkOf(r)' = MarkOf(r) /\ (Incremental(r)' <=> Incremental(r))
  BY <1>1 DEF Covered, Handed, MarkOf, Incremental
<1>10. NoneNewer'
  BY <1>7, <1>9 DEF NInv, NoneNewer
<1>11. OnTheRef'
  BY <1>1, <1>7 DEF NInv, OnTheRef
<1>12. /\ \A x \in Covered : anc'[x] = anc[x]
       /\ \A r \in Runs : \A x \in Handed(r) : anc'[x] = anc[x]
  BY <1>2 DEF NInv, NoneNewer, Listed, Placed
<1>13. ASSUME ~ overlapped
       PROVE  OneAtATime' /\ MarksLead' /\ \A r \in Runs : Fresh(r)'
  <2>1. OneAtATime'
    BY <1>1, <1>13 DEF NInv, OneAtATime
  <2>2. MarksLead'
    BY <1>1, <1>9, <1>12, <1>13 DEF NInv, MarksLead, Leads
  <2>3. ASSUME NEW r \in Runs
        PROVE  Fresh(r)'
    <3>1. Fresh(r) /\ (run[r].mark # NoMark => anc'[run[r].mark] = anc[run[r].mark])
      BY <1>2, <1>13 DEF NInv, OnTheRef, Placed
    <3>2. Incremental(r) => run[r].mark # NoMark
      BY DEF Incremental
    <3> QED
      BY <1>1, <1>9, <1>12, <3>1, <3>2 DEF Fresh, Leads, Novel
  <2> QED
    BY <2>1, <2>2, <2>3
<1>14. "past" \notin repeated' /\ (repeated' = {} \/ forced' \/ Merged')
  <2>1. "past" \notin repeated /\ (repeated = {} \/ forced \/ Merged)
    BY DEF NInv
  <2> QED
    BY <1>1, <1>7, <2>1
<1> QED
  BY <1>1, <1>6, <1>8, <1>10, <1>11, <1>13, <1>14 DEF NInv

LEMMA NWriteByHand ==
  ASSUME IInv, NInv, WriteByHand
  PROVE  NInv'
<1>1. /\ UNCHANGED repo /\ run' = run
      /\ told' = told /\ repeated' = repeated /\ overlapped' = overlapped
  BY DEF WriteByHand, history
<1>2. \/ marks' = marks \union {[id |-> nextId, at |-> Malformed]} /\ memories' = memories
      \/ memories' = memories \union {[id |-> nextId, of |-> {}]} /\ marks' = marks
  BY DEF WriteByHand
<1>3. Covered' \subseteq Covered
  <2>1. PICK new : new = [id |-> nextId, of |-> {}]
    OBVIOUS
  <2>2. new.of = {} /\ (memories' = memories \/ memories' = memories \union {new})
    BY <1>2, <2>1
  <2>3. UNION {m.of : m \in memories'} \subseteq UNION {m.of : m \in memories}
    BY <2>2, Zenon
  <2> QED
    BY <1>1, <2>3 DEF Covered
<1>4. \A w \in marks' : w.at # Malformed => w \in marks
  BY <1>2
<1>5. /\ anc' = anc /\ Made' = Made /\ forced' = forced /\ Merged' = Merged
      /\ \A x : (Placed(x)' <=> Placed(x)) /\ (Listed(x)' <=> Listed(x))
  BY <1>1, Still
<1>6. \A r \in Runs : /\ Handed(r)' = Handed(r) /\ MarkOf(r)' = MarkOf(r)
                      /\ (Incremental(r)' <=> Incremental(r))
  BY <1>1 DEF Handed, MarkOf, Incremental
<1>7. /\ Line' /\ Chain' /\ NoneNewer' /\ OnTheRef'
      /\ "past" \notin repeated' /\ (repeated' = {} \/ forced' \/ Merged')
  <2>1. Line' /\ Chain' /\ "past" \notin repeated' /\ (repeated' = {} \/ forced' \/ Merged')
    BY <1>1, <1>5 DEF NInv, Line, Chain
  <2>2. NoneNewer'
    BY <1>3, <1>5, <1>6 DEF NInv, NoneNewer
  <2>3. OnTheRef'
    BY <1>1, <1>4, <1>5 DEF NInv, OnTheRef
  <2> QED
    BY <2>1, <2>2, <2>3
<1>8. ASSUME ~ overlapped
      PROVE  OneAtATime' /\ MarksLead' /\ \A r \in Runs : Fresh(r)'
  <2>1. OneAtATime'
    BY <1>1, <1>8 DEF NInv, OneAtATime
  <2>2. MarksLead'
    BY <1>1, <1>3, <1>4, <1>5, <1>6, <1>8 DEF NInv, MarksLead, Leads
  <2>3. ASSUME NEW r \in Runs
        PROVE  Fresh(r)'
    <3>1. Fresh(r)
      BY <1>8 DEF NInv
    <3> QED
      BY <1>1, <1>3, <1>4, <1>5, <1>6, <3>1 DEF Fresh, Leads, Novel
  <2> QED
    BY <2>1, <2>2, <2>3
<1> QED
  BY <1>1, <1>7, <1>8 DEF NInv

LEMMA NInit ==
  ASSUME Init
  PROVE  NInv
<1>1. Made \subseteq {1} /\ 1 \in Commits /\ anc[1] = {1}
  BY MaxCommitsAssumption DEF Init, Made, Commits
<1>2. Line /\ Chain
  BY <1>1 DEF Line, Chain
<1>3. \A r \in Runs : /\ run[r].pc = "idle" /\ run[r].clusters = <<>>
                      /\ run[r].mark = NoMark /\ run[r].walked = {}
  BY DEF Init, Idle
<1>4. \A r \in Runs : Handed(r) = {}
  BY <1>3 DEF Handed, Range
<1>5. Covered = {}
  BY DEF Init, Covered
<1>6. NoneNewer
  BY <1>4, <1>5 DEF NoneNewer
<1>7. OneAtATime /\ MarksLead /\ OnTheRef /\ \A r \in Runs : Fresh(r)
  BY <1>3 DEF Init, OneAtATime, MarksLead, OnTheRef, Fresh
<1> QED
  BY <1>2, <1>6, <1>7 DEF Init, NInv

LEMMA NStutter ==
  ASSUME NInv, UNCHANGED vars
  PROVE  NInv'
<1>1. /\ UNCHANGED repo /\ run' = run /\ memories' = memories
      /\ marks' = marks /\ told' = told /\ repeated' = repeated /\ overlapped' = overlapped
  BY DEF vars, repo
<1>2. /\ anc' = anc /\ Made' = Made /\ forced' = forced /\ Merged' = Merged
      /\ \A x : (Placed(x)' <=> Placed(x)) /\ (Listed(x)' <=> Listed(x))
  BY <1>1, Still
<1>3. /\ Covered' = Covered /\ \A r \in Runs : Handed(r)' = Handed(r)
      /\ \A r \in Runs : MarkOf(r)' = MarkOf(r) /\ (Incremental(r)' <=> Incremental(r))
  BY <1>1 DEF Covered, Handed, MarkOf, Incremental
<1>4. /\ Line' /\ Chain' /\ NoneNewer' /\ OnTheRef'
      /\ "past" \notin repeated' /\ (repeated' = {} \/ forced' \/ Merged')
  <2>1. Line' /\ Chain' /\ "past" \notin repeated' /\ (repeated' = {} \/ forced' \/ Merged')
    BY <1>1, <1>2 DEF NInv, Line, Chain
  <2>2. NoneNewer' /\ OnTheRef'
    BY <1>1, <1>2, <1>3 DEF NInv, NoneNewer, OnTheRef
  <2> QED
    BY <2>1, <2>2
<1>5. ASSUME ~ overlapped
      PROVE  OneAtATime' /\ MarksLead' /\ \A r \in Runs : Fresh(r)'
  BY <1>1, <1>2, <1>3, <1>5 DEF NInv, OneAtATime, MarksLead, Fresh, Leads, Novel
<1> QED
  BY <1>1, <1>4, <1>5 DEF NInv

LEMMA NNext ==
  ASSUME IInv, NInv, ~ (forced /\ Merged), [Next]_vars
  PROVE  NInv'
<1>1. ASSUME NEW r \in Runs, Unmark(r)
      PROVE  NInv'
  BY <1>1, NDeleteRow DEF Unmark
<1>2. ASSUME NEW r \in Runs, Step(r)
      PROVE  NInv'
  BY <1>1, <1>2, NListExisting, NListMarks, NWipe, NExtract, NExtractFails, NListToReplace,
     NAddMark, NRespond, NMaterialize DEF Step
<1>3. ASSUME NEW r \in Runs, Start(r) \/ Crash(r)
      PROVE  NInv'
  BY <1>3, NStart, NCrash
<1> QED
  BY <1>2, <1>3, NNewCommit, NWriteByHand, NStutter DEF Next

\* A ref that was forced was, and what was merged stays merged.
LEMMA ForcedAndMergedStay ==
  ASSUME IInv, forced, Merged, [Next]_vars
  PROVE  forced' /\ Merged'
<1>1. CASE UNCHANGED repo
  BY <1>1, Still
<1>2. CASE NewCommit
  BY <1>2, NewCommitKeeps
<1>3. ASSUME NEW r \in Runs, Start(r) \/ Step(r) \/ Crash(r)
      PROVE  UNCHANGED repo
  BY <1>3 DEF Start, Step, Crash, ListExisting, ListMarks, Wipe, DeleteRow, Extract, ExtractFails,
     ListToReplace, Unmark, AddMark, Respond, Materialize
<1>4. CASE WriteByHand \/ UNCHANGED vars
  BY <1>1, <1>4 DEF WriteByHand, vars, repo
<1> QED
  BY <1>1, <1>2, <1>3, <1>4 DEF Next

\* NoRepeat: onboarding runs that do not overlap and call themselves incremental hand
\* over nothing a second time on a ref that was neither forced nor merged into, and no
\* descendant of the watermark on one that was not both, through any runs told to start
\* over, rows written by hand, caps, failures and crashes; merged lines beside the
\* watermark are what the code walks again.
THEOREM IncrementalNeverRepeats == Spec => []NoRepeat
<1> DEFINE PInv == (forced /\ Merged) \/ NInv
<1>1. Init => PInv
  BY NInit
<1>2. IInv /\ PInv /\ [Next]_vars => PInv'
  <2> SUFFICES ASSUME IInv, PInv, [Next]_vars
               PROVE  PInv'
    OBVIOUS
  <2>1. CASE forced /\ Merged
    BY <2>1, ForcedAndMergedStay
  <2>2. CASE ~ (forced /\ Merged)
    BY <2>2, NNext
  <2> QED
    BY <2>1, <2>2
<1>3. PInv => NoRepeat
  BY DEF NInv, NoRepeat
<1> HIDE DEF PInv
<1> QED
  BY <1>1, <1>2, <1>3, Invariance, PTL DEF Spec

=============================================================================
