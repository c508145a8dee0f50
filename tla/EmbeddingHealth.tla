--------------------------- MODULE EmbeddingHealth ---------------------------
(***************************************************************************)
(* The embedding part of the health payload: the consecutive-failure       *)
(* counters that every provider operation updates from its own thread, and *)
(* the coverage counts, which embedding_status collects in separate store  *)
(* calls while other threads write.                                        *)
(***************************************************************************)
EXTENDS Integers, FiniteSets

CONSTANTS Mem,       \* memory ids
          Contents,  \* contents a memory may have
          Revs,      \* revisions of the active model; NoRev is one of them
          NoRev,     \* the NULL revision of a model that has none
          MaxOps,    \* bound on writes
          MaxCount   \* bound on a failure counter

Absent == "absent"

HealthAssumption ==
    /\ IsFiniteSet(Mem)
    /\ Absent \notin Contents
    /\ NoRev \in Revs
    /\ MaxOps \in Nat /\ MaxCount \in Nat

VARIABLES content,   \* memory_items
          row,       \* memory_embeddings
          revision,  \* the adapter's snapshot
          count,     \* _failure_count
          failedOp,  \* _last_failure_op
          searches,  \* _search_failure_count
          naming,    \* operations between _record_failure's first and last assignment
          report,    \* the health call in progress
          calm,      \* history: nothing was written since the report began
          ops

database == <<content, row>>
counters == <<count, failedOp, searches, naming>>
vars == <<database, revision, counters, report, calm, ops>>

Ops == {"search", "save", "backfill"}
NoRow == [status |-> "none", space |-> "none", rev |-> NoRev, hash |-> Absent]
Rows == [status : {"ok", "content_too_long"}, space : {"active", "other"}, rev : Revs,
         hash : Contents]
Unknown == [known |-> FALSE, value |-> NoRev]
Snapshots == {Unknown} \union [known : {TRUE}, value : Revs]

NoReport == [pc |-> "none", snap |-> Unknown, total |-> 0, rows |-> 0, embedded |-> 0,
             space |-> 0, content |-> 0, unembeddable |-> 0, status |-> "none"]

Exists(m) == content[m] # Absent
Stored(m) == row[m].status # "none"

\* A database written under any settings, and a process that just started.
Init ==
    /\ content \in [Mem -> Contents \union {Absent}]
    /\ row \in [Mem -> Rows \union {NoRow}]
    /\ \A m \in Mem : Stored(m) => Exists(m)
    /\ revision \in Snapshots
    /\ count = 0 /\ failedOp = "none" /\ searches = 0 /\ naming = {}
    /\ report = NoReport
    /\ calm = TRUE
    /\ ops = 0

(***************************************************************************)
(* Writers.                                                                *)
(***************************************************************************)
Written == ops < MaxOps /\ ops' = ops + 1 /\ calm' = FALSE

AddMemory(m, c) ==
    /\ ~Exists(m)
    /\ Written
    /\ content' = [content EXCEPT ![m] = c]
    /\ UNCHANGED <<row, revision, counters, report>>

\* The new content is committed first; update_memory then drops the vector.
UpdateMemory(m, c) ==
    /\ Exists(m)
    /\ c # content[m]
    /\ Written
    /\ content' = [content EXCEPT ![m] = c]
    /\ UNCHANGED <<row, revision, counters, report>>

DeleteEmbedding(m) ==
    /\ Stored(m)
    /\ Written
    /\ row' = [row EXCEPT ![m] = NoRow]
    /\ UNCHANGED <<content, revision, counters, report>>

DeleteMemory(m) ==
    /\ Exists(m)
    /\ Written
    /\ content' = [content EXCEPT ![m] = Absent]
    /\ row' = [row EXCEPT ![m] = NoRow]
    /\ UNCHANGED <<revision, counters, report>>

\* A probe verifies the revision, or a re-pulled model changes it.
Probe(value) ==
    /\ revision # [known |-> TRUE, value |-> value]
    /\ Written
    /\ revision' = [known |-> TRUE, value |-> value]
    /\ UNCHANGED <<database, counters, report>>

(***************************************************************************)
(* The outcomes of provider calls.  A search, a save and a backfill run on *)
(* different threads; under the interpreter lock a thread is switched only *)
(* at a call, so _record_failure is two steps around utc_now().            *)
(***************************************************************************)
\* _record_success; a search also clears its own counter, a save or a backfill
\* has stored its row before.
RecordSuccess(op) ==
    /\ count' = 0
    /\ failedOp' = "none"
    /\ searches' = IF op = "search" THEN 0 ELSE searches

SearchServed ==
    /\ "search" \notin naming
    /\ RecordSuccess("search")
    /\ UNCHANGED <<database, revision, naming, report, calm, ops>>

\* generate_for_memory and generate_missing: a vector, or the tombstone of an
\* over-length content, which touches no counter.
Embed(op, m, status) ==
    /\ op \notin naming
    /\ revision.known /\ Exists(m)
    /\ Written
    /\ row' = [row EXCEPT ![m] = [status |-> status, space |-> "active",
                                  rev |-> revision.value, hash |-> content[m]]]
    /\ IF status = "ok" THEN RecordSuccess(op) ELSE UNCHANGED <<count, failedOp, searches>>
    /\ UNCHANGED <<content, revision, naming, report>>

\* _record_failure's two assignments.
Assign(op, step) ==
    \/ step = 1 /\ count' = count + 1 /\ UNCHANGED failedOp
    \/ step = 2 /\ failedOp' = op /\ UNCHANGED count

CallFails(op) ==
    /\ op \notin naming /\ count < MaxCount /\ searches < MaxCount
    /\ searches' = IF op = "search" THEN searches + 1 ELSE searches
    /\ Assign(op, 1)
    /\ naming' = naming \union {op}
    /\ UNCHANGED <<database, revision, report, calm, ops>>

NameFailure(op) ==
    /\ op \in naming
    /\ Assign(op, 2)
    /\ naming' = naming \ {op}
    /\ UNCHANGED <<database, revision, searches, report, calm, ops>>

(***************************************************************************)
(* embedding_status_dict: the snapshot, then one store call after another. *)
(***************************************************************************)
RowsWhere(P(_)) == {m \in Mem : Stored(m) /\ P(row[m])}

\* The space predicate of the three queries; an unverified revision is left out.
InSpace(r, snap) == r.space = "active" /\ (snap.known => r.rev = snap.value)

SpaceMismatch(snap) == RowsWhere(LAMBDA r : ~InSpace(r, snap))

\* Bug: rows of any space are compared by content, so one row lands in both buckets.
ContentMismatchAnywhere(snap) == {m \in Mem : Stored(m) /\ row[m].hash # content[m]}

ContentMismatch(snap) ==
    {m \in RowsWhere(LAMBDA r : InSpace(r, snap)) : row[m].hash # content[m]}
Unembeddable(snap) ==
    {m \in RowsWhere(LAMBDA r : r.status = "content_too_long" /\ InSpace(r, snap)) :
        row[m].hash = content[m]}

\* One read of the report: its place in the order, and the fields it fills.
Read(pc, filled) ==
    /\ report.pc = pc
    /\ report' = filled
    /\ UNCHANGED <<database, revision, counters, ops>>

Ask ==
    /\ Read("none", [NoReport EXCEPT !.pc = "total", !.snap = revision])
    /\ calm' = TRUE
CountMemory ==
    /\ Read("total", [report EXCEPT !.pc = "rows", !.total = Cardinality({m \in Mem : Exists(m)})])
    /\ UNCHANGED calm
CountRows ==
    /\ Read("rows", [report EXCEPT !.pc = "embedded", !.rows = Cardinality(RowsWhere(LAMBDA r : TRUE))])
    /\ UNCHANGED calm
CountEmbedded ==
    /\ Read("embedded", [report EXCEPT !.pc = "stale",
                             !.embedded = Cardinality(RowsWhere(LAMBDA r : r.status = "ok"))])
    /\ UNCHANGED calm
StaleCounts ==
    /\ Read("stale", [report EXCEPT !.pc = "unembeddable",
                          !.space = Cardinality(SpaceMismatch(report.snap)),
                          !.content = Cardinality(ContentMismatch(report.snap))])
    /\ UNCHANGED calm
CountUnembeddable ==
    /\ Read("unembeddable", [report EXCEPT !.pc = "status",
                                 !.unembeddable = Cardinality(Unembeddable(report.snap))])
    /\ UNCHANGED calm

\* The counters, and the snapshot a second time.
Status == IF count > 0 \/ ~revision.known THEN "degraded" ELSE "active"

Answer ==
    /\ Read("status", [report EXCEPT !.pc = "done", !.status = Status])
    /\ UNCHANGED calm

\* The next health call starts over.
Forget ==
    /\ Read("done", NoReport)
    /\ UNCHANGED calm

Writer ==
    \/ \E m \in Mem, c \in Contents : AddMemory(m, c) \/ UpdateMemory(m, c)
    \/ \E m \in Mem : DeleteEmbedding(m) \/ DeleteMemory(m)
    \/ \E value \in Revs : Probe(value)

Provider ==
    \/ SearchServed
    \/ \E op \in Ops \ {"search"}, m \in Mem, s \in {"ok", "content_too_long"} : Embed(op, m, s)
    \/ \E op \in Ops : CallFails(op) \/ NameFailure(op)

Health == Ask \/ CountMemory \/ CountRows \/ CountEmbedded \/ StaleCounts
            \/ CountUnembeddable \/ Answer \/ Forget

Next == Writer \/ Provider \/ Health

Spec == Init /\ [][Next]_vars

(***************************************************************************)
(* Properties.                                                             *)
(***************************************************************************)
Missing == report.total - report.rows
Stale == report.space + report.content

\* _is_current under revision r: what generate_missing skips.
IsCurrent(m, r) == Stored(m) /\ row[m] = [row[m] EXCEPT !.space = "active", !.rev = r, !.hash = content[m]]
Work(r) == {m \in Mem : Exists(m) /\ ~IsCurrent(m, r)}

\* A report taken while nothing was written names exactly the work a backfill
\* would do: the SQL buckets and generate_missing's _is_current agree, missing
\* and the two stale buckets do not overlap, and a current tombstone is neither.
ReportCountsTheWork ==
    report.pc = "done" /\ calm /\ report.snap.known =>
        /\ Missing + Stale = Cardinality(Work(report.snap.value))
        /\ report.rows = Stale + report.unembeddable
             + Cardinality(RowsWhere(LAMBDA r : r.status = "ok") \ Work(report.snap.value))

\* With the revision unverified a report claims no row stale that the revision,
\* once verified, could still turn out to match, and never says `active`.
UnverifiedNeverOverstates ==
    report.pc = "done" /\ calm /\ ~report.snap.known =>
        /\ \A r \in Revs : Missing + Stale <= Cardinality(Work(r))
        /\ report.status = "degraded"

\* Once every failure is recorded, a payload that is degraded by failures names
\* the operation: no order of the threads leaves a count without its operation.
FailureNamed == naming = {} /\ count > 0 => failedOp # "none"

\* What a health call says of the embeddings is so: all three of the above.
HealthHonest == ReportCountsTheWork /\ UnverifiedNeverOverstates /\ FailureNamed
=============================================================================
