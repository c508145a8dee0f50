---------------------------- MODULE StoreStartup ----------------------------
(***************************************************************************)
(* Opening the database: pending migrations, each in its savepoint, then   *)
(* the full-text index, then service.  The server and the CLI may start on *)
(* one file at the same time, and either may die between two statements.   *)
(* SQLite (external) gives one writer at a time, refuses a writer whose    *)
(* snapshot is out of date, and drops what was not committed.              *)
(***************************************************************************)
EXTENDS Naturals, FiniteSets, FiniteSetsExt

CONSTANTS Procs,       \* processes that open the database
          Migrations,  \* the version numbers found under migrations/
          Idempotent,  \* those whose statements may run again (CREATE IF NOT EXISTS, UPDATE)
          Timestamps,  \* the number of 005_normalize_timestamps.sql
          Mem,         \* memory ids
          Fts5,        \* the values OC_SEARCH_FTS5_ENABLED may have at a start
          MaxWrites, MaxFaults  \* bounds on memory writes and on ends and lock timeouts

ASSUME StartupAssumption ==
    /\ IsFiniteSet(Migrations) /\ Migrations = 1..Cardinality(Migrations)
    /\ Idempotent \subseteq Migrations /\ Timestamps \in Idempotent
    /\ Fts5 \subseteq BOOLEAN /\ Fts5 # {}

VARIABLES versions,  \* rows of schema_version
          schema,    \* migrations whose statements are in the database
          naive,     \* a row has a timestamp without an offset
          alive,     \* memory_items
          fts,       \* the probe table, memory_fts, its triggers ai and ad, what it indexes
          gap,       \* history: memories written without FTS5 before any process had it
          writer,    \* who holds SQLite's write lock
          proc,      \* each process's start
          writes, faults

vars == <<versions, schema, naive, alive, fts, gap, writer, proc, writes, faults>>
database == <<versions, schema, naive, alive, fts, gap>>

Nobody == "nobody"
Down == [pc |-> "down", fts5 |-> FALSE, pending |-> {}, stale |-> FALSE]

\* No database yet, or one that a shorter list of migrations and an FTS5 build
\* left.
Init ==
    /\ \E n \in 0..Cardinality(Migrations) : versions = 1..n
    /\ schema = versions
    /\ naive \in BOOLEAN /\ (naive => versions # {} /\ Timestamps \notin versions)
    /\ alive \in SUBSET (IF versions = {} THEN {} ELSE Mem)
    /\ \/ /\ alive = {}
          /\ fts = [probe |-> FALSE, table |-> FALSE, ai |-> FALSE, ad |-> FALSE, index |-> {}]
          /\ gap = [open |-> TRUE, mem |-> {}]
       \/ /\ versions # {}
          /\ fts = [probe |-> FALSE, table |-> TRUE, ai |-> TRUE, ad |-> TRUE, index |-> alive]
          /\ gap = [open |-> FALSE, mem |-> {}]
    /\ writer = Nobody
    /\ proc = [p \in Procs |-> Down]
    /\ writes = 0 /\ faults = 0

Fault == faults < MaxFaults /\ faults' = faults + 1
At(p, pc) == proc[p].pc = pc
Goto(p, pc) == proc' = [proc EXCEPT ![p].pc = pc]

\* Another connection's commit outdates the snapshot a reader took.
Outdated(p, new) ==
    [q \in Procs |-> IF q = p THEN new
                     ELSE [proc[q] EXCEPT !.stale = @ \/ proc[q].pc = "checked"]]

(***************************************************************************)
(* apply_pending.                                                          *)
(***************************************************************************)
\* The version is read outside any transaction.
Open(p) ==
    /\ At(p, "down")
    /\ \E on \in Fts5 :
         proc' = [proc EXCEPT ![p] = [pc |-> "migrate", fts5 |-> on, stale |-> FALSE,
                                      pending |-> {v \in Migrations : \A w \in versions : v > w}]]
    /\ UNCHANGED <<database, writer, writes, faults>>

Current(p) == Min(proc[p].pending)

\* Bug: the savepoint is rolled back and not released.
AbortHoldingLock(p) ==
    /\ proc' = [proc EXCEPT ![p] = Down]
    /\ UNCHANGED <<writer, database, writes>>

\* A failed migration is rolled back, and the start ends with a ConfigError.
Abort(p) ==
    /\ proc' = [proc EXCEPT ![p] = Down]
    /\ writer' = IF writer = p THEN Nobody ELSE writer
    /\ UNCHANGED <<database, writes>>

\* A timestamp without an offset stops the migration that would convert it.
Refuses(p) == naive

\* The rows are read before the first write of the migration.
CheckTimestamps(p) ==
    /\ At(p, "migrate") /\ proc[p].pending # {} /\ Current(p) = Timestamps
    /\ IF Refuses(p)
       THEN Abort(p)
       ELSE /\ proc' = [proc EXCEPT ![p].pc = "checked", ![p].stale = FALSE]
            /\ UNCHANGED <<database, writer, writes>>
    /\ UNCHANGED faults

\* ALTER TABLE finds its column, or the snapshot of the check is out of date.
Fails(p) == \/ Current(p) \in schema /\ Current(p) \notin Idempotent
            \/ proc[p].stale

\* The next statement is the first of a migration.
Migrates(p) ==
    \/ At(p, "checked")
    \/ At(p, "migrate") /\ proc[p].pending # {} /\ Current(p) # Timestamps

\* The statements of the migration take the write lock.
Execute(p) ==
    /\ Migrates(p)
    /\ writer = Nobody
    /\ IF Fails(p)
       THEN Abort(p)
       ELSE /\ writer' = p
            /\ Goto(p, "executed")
            /\ UNCHANGED <<database, writes>>
    /\ UNCHANGED faults

\* Bug: the version row is committed on its own, before the statements.
CommitRowFirst(p) ==
    /\ versions' = versions \union {Current(p)}
    /\ UNCHANGED schema

Commit(p) ==
    /\ versions' = versions \union {Current(p)}
    /\ schema' = schema \union {Current(p)}

\* INSERT INTO schema_version, which its primary key may refuse, and RELEASE.
Release(p) ==
    /\ At(p, "executed")
    /\ IF Current(p) \in versions
       THEN Abort(p)
       ELSE /\ Commit(p)
            /\ writer' = Nobody
            /\ proc' = Outdated(p, [proc[p] EXCEPT !.pc = "migrate", !.stale = FALSE,
                                                   !.pending = @ \ {Current(p)}])
            /\ UNCHANGED <<naive, alive, fts, gap, writes>>
    /\ UNCHANGED faults

(***************************************************************************)
(* _ensure_fts5: statements that commit one by one.  One that finds its    *)
(* work done (IF NOT EXISTS, IF EXISTS) only reads.                        *)
(***************************************************************************)
Migrated(p) ==
    /\ At(p, "migrate") /\ proc[p].pending = {}
    /\ Goto(p, IF proc[p].fts5 THEN "probe" ELSE "serving")
    /\ UNCHANGED <<database, writer, writes, faults>>

\* The next statement of _ensure_fts5 changes the database.
Writes(p) ==
    \/ At(p, "probe") /\ ~fts.probe
    \/ At(p, "drop") /\ fts.probe
    \/ At(p, "table") /\ ~fts.table
    \/ At(p, "insert") /\ ~fts.ai
    \/ At(p, "delete") /\ ~fts.ad
    \/ At(p, "rebuild")

Statement(p, from, to, new) ==
    /\ At(p, from)
    /\ fts' = new
    /\ IF Writes(p)
       THEN writer = Nobody /\ proc' = Outdated(p, [proc[p] EXCEPT !.pc = to])
       ELSE Goto(p, to)
    /\ gap' = [gap EXCEPT !.open = @ /\ to # "serving"]
    /\ UNCHANGED <<versions, schema, naive, alive, writer, writes, faults>>

\* _fts5_available creates a table and drops it again.
CreateProbe(p) == Statement(p, "probe", "drop", [fts EXCEPT !.probe = TRUE])

DropProbe(p) == Statement(p, "drop", "table", [fts EXCEPT !.probe = FALSE])

\* Bug: a table that exists is taken for a finished setup.
CreateTableOnce(p) ==
    Statement(p, "table", IF fts.table THEN "count" ELSE "insert", [fts EXCEPT !.table = TRUE])

CreateTable(p) == Statement(p, "table", "insert", [fts EXCEPT !.table = TRUE])

\* memory_fts_ai, then memory_fts_ad; the third trigger is for updates.
InsertTrigger(p) == Statement(p, "insert", "delete", [fts EXCEPT !.ai = TRUE])

DeleteTrigger(p) == Statement(p, "delete", "count", [fts EXCEPT !.ad = TRUE])

\* An external-content table answers COUNT(*) from memory_items.
Count(p) == Statement(p, "count", IF alive = {} THEN "rebuild" ELSE "serving", fts)

Rebuild(p) == Statement(p, "rebuild", "serving", [fts EXCEPT !.index = alive])

\* The busy timeout runs out while another process writes.
TimesOut(p) == writer \notin {Nobody, p} /\ Fault

\* In the probe a lock timeout passes for a build without FTS5: the process
\* serves, without the index and without having made the triggers.
ProbeFails(p) ==
    /\ proc[p].pc \in {"probe", "drop"} /\ Writes(p)
    /\ TimesOut(p)
    /\ proc' = [proc EXCEPT ![p].pc = "serving", ![p].fts5 = FALSE]
    /\ UNCHANGED <<database, writer, writes>>

\* Anywhere else it ends the start.
Busy(p) ==
    /\ Migrates(p) \/ (proc[p].pc \notin {"probe", "drop"} /\ Writes(p))
    /\ TimesOut(p)
    /\ Abort(p)

(***************************************************************************)
(* Service, and what ends it.                                              *)
(***************************************************************************)
\* A memory is written under BEGIN IMMEDIATE, until the transaction commits.
BeginWrite(p) ==
    /\ At(p, "serving")
    /\ writes < MaxWrites /\ writes' = writes + 1
    /\ writer = Nobody /\ writer' = p
    /\ UNCHANGED <<database, proc, faults>>

\* What the index may miss: writes without FTS5 while no process has had it.
Missed(p, m) ==
    [gap EXCEPT !.mem = IF gap.open /\ ~proc[p].fts5 THEN @ \union {m} ELSE @ \ {m}]

AddMemory(p, m) ==
    /\ At(p, "serving") /\ m \notin alive
    /\ writer = p /\ writer' = Nobody
    /\ alive' = alive \union {m}
    /\ fts' = IF fts.ai THEN [fts EXCEPT !.index = @ \union {m}] ELSE fts
    /\ gap' = Missed(p, m)
    /\ proc' = Outdated(p, proc[p])
    /\ UNCHANGED <<versions, schema, naive, writes, faults>>

DeleteMemory(p, m) ==
    /\ At(p, "serving") /\ m \in alive
    /\ writer = p /\ writer' = Nobody
    /\ alive' = alive \ {m}
    /\ fts' = IF fts.ad THEN [fts EXCEPT !.index = @ \ {m}] ELSE fts
    /\ gap' = Missed(p, m)
    /\ proc' = Outdated(p, proc[p])
    /\ UNCHANGED <<versions, schema, naive, writes, faults>>

\* close(), or the end of a CLI command.
Close(p) ==
    /\ At(p, "serving") /\ writer # p
    /\ Fault
    /\ proc' = [proc EXCEPT ![p] = Down]
    /\ UNCHANGED <<database, writer, writes>>

Crash(p) ==
    /\ ~At(p, "down")
    /\ Fault
    /\ Abort(p)

\* The operator gives the rows their offset.
Repair ==
    /\ naive
    /\ naive' = FALSE
    /\ proc' = Outdated(Nobody, Down)
    /\ UNCHANGED <<versions, schema, alive, fts, gap, writer, writes, faults>>

EnsureFts5(p) == \/ CreateProbe(p) \/ DropProbe(p) \/ CreateTable(p) \/ InsertTrigger(p)
                 \/ DeleteTrigger(p) \/ Count(p) \/ Rebuild(p)

Starting(p) == \/ Open(p) \/ CheckTimestamps(p) \/ Execute(p) \/ Release(p)
               \/ Migrated(p) \/ EnsureFts5(p)

Writing(p) == \E m \in Mem : AddMemory(p, m) \/ DeleteMemory(p, m)

Next ==
    \/ \E p \in Procs : \/ Starting(p) \/ BeginWrite(p) \/ Writing(p)
                        \/ ProbeFails(p) \/ Busy(p) \/ Close(p) \/ Crash(p)
    \/ Repair

Spec == Init /\ [][Next]_vars

\* A process goes on with its start and with its transaction, and one that
\* failed is started again (`restart: unless-stopped`, or whoever ran the
\* command); an operator repairs what a start refused.
FairSpec == /\ Spec /\ WF_vars(Repair)
            /\ \A p \in Procs : WF_vars(Starting(p)) /\ WF_vars(Writing(p))

(***************************************************************************)
(* Properties.                                                             *)
(***************************************************************************)
Serving(p) == At(p, "serving")

Steps == {"down", "migrate", "checked", "executed", "probe", "drop", "table", "insert", "delete",
          "count", "rebuild", "serving"}
Starts == [pc : Steps, fts5 : BOOLEAN, pending : SUBSET Migrations, stale : BOOLEAN]

Indexes == [probe : BOOLEAN, table : BOOLEAN, ai : BOOLEAN, ad : BOOLEAN, index : SUBSET Mem]

\* Types of the state.
TypeOK ==
    /\ versions \subseteq Migrations /\ schema \subseteq Migrations
    /\ naive \in BOOLEAN /\ alive \subseteq Mem
    /\ fts \in Indexes /\ gap \in [open : BOOLEAN, mem : SUBSET Mem]
    /\ writer \in Procs \union {Nobody}
    /\ proc \in [Procs -> Starts]

\* A process that serves finds the statements of every migration in the
\* database, each with its row, and no row is left whose timestamp could not be
\* ordered, whoever started at the same time or died between two statements.
ServesOnlyMigrated ==
    (\E p \in Procs : Serving(p)) => schema = Migrations /\ versions = Migrations /\ ~naive

\* The index holds exactly the memories there are, but for those that a process
\* without FTS5 (switched off, or its probe timed out) was the last to write
\* before any process had FTS5 in service: whoever dies between the statements
\* of _ensure_fts5, and whichever of the processes then adds and deletes.
IndexComplete ==
    \A m \in Mem : (m \in fts.index <=> m \in alive) \/ m \in gap.mem

\* A process that searches with FTS5 finds every memory, and no deleted one: a
\* start that finds the index empty rebuilds it.
IndexRebuilt ==
    (\E p \in Procs : Serving(p) /\ proc[p].fts5) => fts.index = alive

\* However starts collide, each process is in service in the end.
EventuallyServing == \A p \in Procs : <>Serving(p)
=============================================================================
