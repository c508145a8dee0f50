-------------------------- MODULE StoreTransactions --------------------------
(***************************************************************************)
(* Requests of several threads and processes against one SQLite file.  The *)
(* threads of a process share one connection and one re-entrant lock; a    *)
(* multi-row write runs between BEGIN IMMEDIATE and COMMIT with a          *)
(* savepoint per nested transaction.  Import, export and the project       *)
(* deletions are modelled call by call, because they read the store in     *)
(* calls of their own before their transaction opens.                      *)
(***************************************************************************)
EXTENDS Naturals, Sequences

CONSTANTS Threads, Processes,
          Runs,        \* the process each thread runs in
          Projects, Memories, Home, NoProject,
          Watermarks,  \* memories that are git resume points
          Envelopes,   \* what an import may be given: projects and memories
          Kinds,       \* the requests made
          NoOne, NoChange,
          MaxRetries,  \* _BEGIN_MAX_RETRIES
          MaxRequests  \* bound: requests made

ASSUME RunsAssumption == Runs \in [Threads -> Processes]
ASSUME HomeAssumption == Home \in [Memories -> Projects \union {NoProject}]
ASSUME WatermarksAssumption == Watermarks \subseteq Memories
ASSUME EnvelopesAssumption == Envelopes \subseteq [p : SUBSET Projects, m : SUBSET Memories]
ASSUME RetriesAssumption == MaxRetries \in Nat /\ MaxRequests \in Nat
ASSUME NoOneAssumption == NoOne \notin Threads \union Processes
ASSUME KindsAssumption ==
  Kinds \subseteq {"add_project", "add_memory", "delete_memory", "delete_project",
                   "delete_projects", "merge", "replace", "export"}
ASSUME NoChangeAssumption ==
  NoChange \notin [addP : SUBSET Projects, addM : SUBSET Memories,
                   dropP : SUBSET Projects, dropM : SUBSET Memories]

VARIABLES
  db,       \* what is committed
  lock,     \* per process: the thread that holds the store's lock
  writer,   \* the process with a write transaction open on the file
  work,     \* per process: a stack of stores; the top is what the open transaction
            \* sees, the others are what its savepoints and BEGIN would go back to
  th,       \* per thread: where its request is
  answer,   \* per thread: the last answer it got
  exported, \* per thread: the last envelope it exported
  used,     \* memory identifiers given out: they are never given out again
  requests

vars == <<db, lock, writer, work, th, answer, exported, used, requests>>

NoWrite == [addP |-> {}, addM |-> {}, dropP |-> {}, dropM |-> {}]
Done == [pc |-> "idle", kind |-> "none", change |-> NoWrite, todo |-> NoWrite,
         seen |-> [p |-> {}, m |-> {}], tries |-> 0]
Empty == [p |-> {}, m |-> {}]

RowsOf(S, d) == {m \in d.m : Home[m] \in S}

\* Bug: PRAGMA foreign_keys is left at SQLite's default, off.
ForeignKeyOff(d, m) == TRUE

\* The foreign key of memory_items, which every connection switches on.
ForeignKey(d, m) == Home[m] \in d.p \union {NoProject}

Referenced(d) == \A m \in d.m : ForeignKey(d, m)

Init ==
  /\ db \in Envelopes \union {Empty}
  /\ \A m \in db.m : Home[m] \in db.p \union {NoProject}
  /\ lock = [c \in Processes |-> NoOne]
  /\ writer = NoOne
  /\ work = [c \in Processes |-> <<>>]
  /\ th = [t \in Threads |-> Done]
  /\ answer = [t \in Threads |-> "none"]
  /\ exported = [t \in Threads |-> Empty]
  /\ used = db.m
  /\ requests = 0

Goto(t, pc) == th' = [th EXCEPT ![t].pc = pc]

Answer(t, a) ==
  /\ th' = [th EXCEPT ![t] = Done]
  /\ answer' = [answer EXCEPT ![t] = a]

(***************************************************************************)
(* Requests                                                                *)
(***************************************************************************)
\* Where the use case starts: single store calls, a read of what is there, or
\* a transaction at once.
FirstStep(kind) ==
  CASE kind \in {"add_project", "add_memory", "delete_memory"} -> "call"
    [] kind = "delete_project" -> "get"
    [] kind = "delete_projects" -> "find"
    [] kind = "replace" -> "check"
    [] kind = "merge" -> "look"
    [] kind = "export" -> "list"

\* What a request of that kind may ask for.
Asks(kind) ==
  CASE kind = "add_project" -> {[NoWrite EXCEPT !.addP = {p}] : p \in Projects \ db.p}
    [] kind = "add_memory" -> {[NoWrite EXCEPT !.addM = {m}] : m \in Memories \ used}
    [] kind = "delete_memory" -> {[NoWrite EXCEPT !.dropM = {m}] : m \in Memories}
    [] kind = "delete_project" -> {[NoWrite EXCEPT !.dropP = {p}] : p \in Projects}
    [] kind = "delete_projects" -> {[NoWrite EXCEPT !.dropP = S] : S \in SUBSET Projects \ {{}}}
    [] kind \in {"replace", "merge"} -> {[NoWrite EXCEPT !.addP = e.p, !.addM = e.m] : e \in Envelopes}
    [] kind = "export" -> {NoWrite}

Request(t, kind) ==
  /\ th[t] = Done /\ requests < MaxRequests
  /\ requests' = requests + 1
  /\ \E ch \in Asks(kind) :
       /\ th' = [th EXCEPT ![t] = [Done EXCEPT !.pc = FirstStep(kind), !.kind = kind,
                                               !.change = ch, !.todo = ch]]
       /\ used' = used \union ch.addM
  /\ answer' = [answer EXCEPT ![t] = "none"]
  /\ UNCHANGED <<db, lock, writer, work, exported>>

(***************************************************************************)
(* Single store calls                                                      *)
(***************************************************************************)
\* _locked: the call waits for its process's lock.
MayCall(t) == lock[Runs[t]] = NoOne

\* What one statement sees: the open transaction of its connection, or the file.
View(c) == IF work[c] = <<>> THEN db ELSE work[c][Len(work[c])]

\* The effect of a change, all of it.
Changed(d, ch) ==
  [p |-> (d.p \ ch.dropP) \union ch.addP,
   m |-> ((d.m \ RowsOf(ch.dropP, d)) \ ch.dropM) \union ch.addM]

\* Primary keys, the foreign key, and "not found" for a row that is gone.
Accepted(d, ch) ==
  /\ ch.addP \intersect d.p = {} /\ ch.addM \intersect d.m = {}
  /\ ch.dropP \subseteq d.p /\ ch.dropM \subseteq d.m
  /\ Referenced(Changed(d, ch))

\* A statement outside a transaction commits by itself; inside one it does not.
Write(c, d) ==
  IF work[c] = <<>>
    THEN db' = d /\ UNCHANGED work
    ELSE work' = [work EXCEPT ![c][Len(work[c])] = d] /\ UNCHANGED db

Call(t) ==
  LET c == Runs[t]
      ch == th[t].change
  IN /\ th[t].pc = "call" /\ MayCall(t) /\ writer \in {NoOne, c}
     /\ IF Accepted(View(c), ch)
          THEN Write(c, Changed(View(c), ch)) /\ Answer(t, "ok")
          ELSE UNCHANGED <<db, work>> /\ Answer(t, "failed")
     /\ UNCHANGED <<lock, writer, exported, used, requests>>

\* The busy timeout runs out while another process has its transaction open.
CallBusy(t) ==
  /\ th[t].pc = "call" /\ MayCall(t) /\ writer \notin {NoOne, Runs[t]}
  /\ Answer(t, "failed")
  /\ UNCHANGED <<db, lock, writer, work, exported, used, requests>>

(***************************************************************************)
(* What import, export and delete_projects read before they write          *)
(***************************************************************************)
ReadOnly(t) == MayCall(t) /\ UNCHANGED <<db, lock, writer, work, used, requests>>

\* replace: refuse when there are projects, or else a memory.
CheckProjects(t) ==
  /\ th[t].pc = "check" /\ ReadOnly(t) /\ UNCHANGED exported
  /\ IF db.p = {} THEN Goto(t, "check_memory") /\ UNCHANGED answer ELSE Answer(t, "failed")

CheckMemory(t) ==
  /\ th[t].pc = "check_memory" /\ ReadOnly(t) /\ UNCHANGED exported
  /\ IF db.m = {} THEN Goto(t, "look") /\ UNCHANGED answer ELSE Answer(t, "failed")

LookProjects(t) ==
  /\ th[t].pc = "look" /\ ReadOnly(t) /\ UNCHANGED <<answer, exported>>
  /\ th' = [th EXCEPT ![t].seen.p = db.p, ![t].pc = "look_memory"]

\* What an import inserts: a collision keeps the row that is there, and another
\* device's resume points are dropped.
ToImport(ch, seenP, seenM) ==
  [ch EXCEPT !.addP = @ \ seenP, !.addM = @ \ (seenM \union Watermarks)]

\* _validate_envelope: every project reference is in the envelope or the store.
Valid(ch, seenP) == \A m \in ch.addM : Home[m] \in ch.addP \union seenP \union {NoProject}

LookMemory(t) ==
  LET ch == th[t].change
      into == ToImport(ch, th[t].seen.p, db.m)
  IN /\ th[t].pc = "look_memory" /\ ReadOnly(t) /\ UNCHANGED exported
     /\ IF Valid(ch, th[t].seen.p)
          THEN /\ th' = [th EXCEPT ![t].pc = "enter", ![t].change = into, ![t].todo = into,
                                   ![t].seen = Empty]
               /\ UNCHANGED answer
          ELSE Answer(t, "failed")

\* delete_project answers "not found" for a project it cannot get.
GetProject(t) ==
  /\ th[t].pc = "get" /\ ReadOnly(t) /\ UNCHANGED exported
  /\ IF th[t].change.dropP \subseteq db.p THEN Goto(t, "enter") /\ UNCHANGED answer ELSE Answer(t, "failed")

\* delete_projects looks every id up first; missing ones are only reported.
Find(t) ==
  /\ th[t].pc = "find" /\ ReadOnly(t) /\ UNCHANGED <<answer, exported>>
  /\ \E p \in th[t].todo.dropP :
       th' = [th EXCEPT ![t].todo.dropP = @ \ {p},
                        ![t].change.dropP = IF p \in db.p THEN @ ELSE @ \ {p}]

FindEnds(t) ==
  /\ th[t].pc = "find" /\ th[t].todo.dropP = {}
  /\ th' = [th EXCEPT ![t].pc = "enter", ![t].todo = th[t].change]
  /\ UNCHANGED <<db, lock, writer, work, answer, exported, used, requests>>

ListProjects(t) ==
  /\ th[t].pc = "list" /\ ReadOnly(t) /\ UNCHANGED <<answer, exported>>
  /\ th' = [th EXCEPT ![t].pc = "list_memory", ![t].seen.p = db.p]

ListMemory(t) ==
  /\ th[t].pc = "list_memory" /\ ReadOnly(t)
  /\ exported' = [exported EXCEPT ![t] = [p |-> th[t].seen.p, m |-> db.m \ Watermarks]]
  /\ Answer(t, "ok")

(***************************************************************************)
(* transaction()                                                           *)
(***************************************************************************)
\* Outermost: the lock is taken for the whole of it, BEGIN's retries included.
Enter(t) ==
  /\ th[t].pc = "enter" /\ MayCall(t)
  /\ lock' = [lock EXCEPT ![Runs[t]] = t]
  /\ Goto(t, "begin")
  /\ UNCHANGED <<db, writer, work, answer, exported, used, requests>>

Begin(t) ==
  /\ th[t].pc = "begin" /\ writer = NoOne
  /\ writer' = Runs[t]
  /\ work' = [work EXCEPT ![Runs[t]] = <<db, db>>]
  /\ Goto(t, "body")
  /\ UNCHANGED <<db, lock, answer, exported, used, requests>>

MayRetry(n) == n < MaxRetries

\* Bug: the lock is not in a with statement.
StillLocked(c) == lock

Unlocked(c) == [lock EXCEPT ![c] = NoOne]

\* "database is locked": sleep and retry, and give up after the last attempt.
BeginBusy(t) ==
  /\ th[t].pc = "begin" /\ writer # NoOne
  /\ IF MayRetry(th[t].tries)
       THEN th' = [th EXCEPT ![t].tries = @ + 1] /\ UNCHANGED <<lock, answer>>
       ELSE lock' = Unlocked(Runs[t]) /\ Answer(t, "failed")
  /\ UNCHANGED <<db, writer, work, exported, used, requests>>

InBody(t) == UNCHANGED <<db, lock, writer, answer, exported, used, requests>>

\* The transaction's view after a statement.
Sees(t, d) == work' = [work EXCEPT ![Runs[t]][Len(work[Runs[t]])] = d]

\* One insert of an import: a duplicate, or a project gone since it was looked
\* up, raises.
InsertProject(t) ==
  LET d == View(Runs[t]) IN
  /\ th[t].pc = "body" /\ InBody(t)
  /\ \E p \in th[t].todo.addP :
       IF p \in d.p
         THEN Goto(t, "unwind") /\ UNCHANGED work
         ELSE /\ Sees(t, [d EXCEPT !.p = @ \union {p}])
              /\ th' = [th EXCEPT ![t].todo.addP = @ \ {p}]

InsertMemory(t) ==
  LET d == View(Runs[t]) IN
  /\ th[t].pc = "body" /\ th[t].todo.addP = {} /\ InBody(t)
  /\ \E m \in th[t].todo.addM :
       IF m \in d.m \/ ~ForeignKey(d, m)
         THEN Goto(t, "unwind") /\ UNCHANGED work
         ELSE /\ Sees(t, [d EXCEPT !.m = @ \union {m}])
              /\ th' = [th EXCEPT ![t].todo.addM = @ \ {m}]

\* The project delete_project is at: the batch form goes through a list.
Current(t) == CHOOSE p \in th[t].todo.dropP : TRUE

\* A nested transaction: each cascade of a batch has a savepoint.
Savepoint(t) ==
  LET c == Runs[t] IN
  /\ th[t].pc = "body" /\ th[t].kind = "delete_projects" /\ th[t].todo.dropP # {}
  /\ work' = [work EXCEPT ![c] = Append(@, View(c))]
  /\ Goto(t, "nested") /\ InBody(t)

DeleteRows(t) ==
  LET d == View(Runs[t]) IN
  /\ th[t].pc = IF th[t].kind = "delete_projects" THEN "nested" ELSE "body"
  /\ th[t].todo.dropP # {} /\ InBody(t)
  /\ IF Current(t) \notin d.p
       THEN Goto(t, "unwind") /\ UNCHANGED work
       ELSE Sees(t, [d EXCEPT !.m = @ \ RowsOf({Current(t)}, d)]) /\ Goto(t, "row")

DeleteProjectRow(t) ==
  LET d == View(Runs[t]) IN
  /\ th[t].pc = "row" /\ InBody(t)
  /\ Sees(t, [d EXCEPT !.p = @ \ {Current(t)}])
  /\ th' = [th EXCEPT ![t].todo.dropP = @ \ {Current(t)},
                      ![t].pc = IF th[t].kind = "delete_projects" THEN "release" ELSE "body"]

\* RELEASE keeps the view and forgets what the savepoint would go back to.
Release(t) ==
  LET s == work[Runs[t]] IN
  /\ th[t].pc = "release"
  /\ work' = [work EXCEPT ![Runs[t]] = Append(SubSeq(s, 1, Len(s) - 2), s[Len(s)])]
  /\ Goto(t, "body") /\ InBody(t)

\* Any statement, COMMIT included, may raise: a full disk, an I/O error.
Raise(t) ==
  /\ th[t].pc \in {"body", "nested", "row", "release"}
  /\ Goto(t, "unwind")
  /\ UNCHANGED work /\ InBody(t)

Leave(t, a) ==
  /\ work' = [work EXCEPT ![Runs[t]] = <<>>]
  /\ writer' = NoOne
  /\ lock' = Unlocked(Runs[t])
  /\ Answer(t, a)
  /\ UNCHANGED <<exported, used, requests>>

Commit(t) ==
  /\ th[t].pc = "body" /\ th[t].todo = NoWrite
  /\ db' = View(Runs[t])
  /\ Leave(t, "ok")

\* ROLLBACK TO and RELEASE, on the way out of a nested transaction.
RollbackTo(t) ==
  LET s == work[Runs[t]] IN
  /\ th[t].pc = "unwind" /\ Len(s) > 2
  /\ work' = [work EXCEPT ![Runs[t]] = SubSeq(s, 1, Len(s) - 1)]
  /\ UNCHANGED th /\ InBody(t)

\* Bug: the outer transaction is committed on the way out as well.
RolledBackToTop(t) == View(Runs[t])

\* What the file holds after the outer ROLLBACK.
RolledBack(t) == db

Rollback(t) ==
  /\ th[t].pc = "unwind" /\ Len(work[Runs[t]]) = 2
  /\ db' = RolledBack(t)
  /\ Leave(t, "failed")

\* A process dies: SQLite rolls its transaction back for whoever opens the file.
Crash(c) ==
  /\ \E t \in Threads : Runs[t] = c /\ th[t] # Done
  /\ th' = [t \in Threads |-> IF Runs[t] = c THEN Done ELSE th[t]]
  /\ lock' = [lock EXCEPT ![c] = NoOne]
  /\ work' = [work EXCEPT ![c] = <<>>]
  /\ writer' = IF writer = c THEN NoOne ELSE writer
  /\ answer' = [t \in Threads |-> IF Runs[t] = c /\ th[t] # Done THEN "none" ELSE answer[t]]
  /\ UNCHANGED <<db, exported, used, requests>>

Serve(t) ==
  \/ Call(t) \/ CallBusy(t)
  \/ CheckProjects(t) \/ CheckMemory(t) \/ LookProjects(t) \/ LookMemory(t)
  \/ GetProject(t) \/ Find(t) \/ FindEnds(t) \/ ListProjects(t) \/ ListMemory(t)
  \/ Enter(t) \/ Begin(t) \/ BeginBusy(t)
  \/ InsertProject(t) \/ InsertMemory(t) \/ Commit(t)
  \/ Savepoint(t) \/ DeleteRows(t) \/ DeleteProjectRow(t) \/ Release(t)
  \/ RollbackTo(t) \/ Rollback(t)

Next ==
  \/ \E t \in Threads : Serve(t) \/ Raise(t) \/ \E kind \in Kinds : Request(t, kind)
  \/ \E c \in Processes : Crash(c)

Spec == Init /\ [][Next]_vars

\* Threads that can go on do so.  Nobody is promised to make further requests.
FairSpec == Spec /\ \A t \in Threads : WF_vars(Serve(t))

(***************************************************************************)
(* Properties                                                              *)
(***************************************************************************)
\* No committed memory is without its project, whatever is interrupted where.
NoOrphans == \A m \in db.m : Home[m] \in db.p \union {NoProject}

Inside(t) == th[t].pc \in {"call", "enter", "begin", "body", "nested", "row", "release", "unwind"}

\* Every request to change the store takes effect as a whole and is answered
\* "ok", or has no effect; nothing else ever changes the store.
Atomic == INSTANCE AtomicStore WITH
            asked <- [t \in Threads |-> IF Inside(t) THEN th[t].change ELSE NoChange]
AtomicSpec == Atomic!Spec

\* The lock and the write transaction are always given back: every request
\* still being served comes to its end.
RequestsEnd == \A t \in Threads : th[t] # Done ~> th[t] = Done

=============================================================================
