----------------------- MODULE StoreTransactionsProofs -----------------------
(***************************************************************************)
(* Proofs about StoreTransactions, for any threads, processes, projects,   *)
(* memories, envelopes and numbers of requests and retries: no committed   *)
(* memory is without its project, and the store implements AtomicStore.    *)
(***************************************************************************)
EXTENDS StoreTransactions, SequenceTheorems, TLAPS

-----------------------------------------------------------------------------
(* The inductive invariant.                                                *)

Stores == [p : SUBSET Projects, m : SUBSET Memories]
Changes == [addP : SUBSET Projects, addM : SUBSET Memories,
            dropP : SUBSET Projects, dropM : SUBSET Memories]

Singles == {"add_project", "add_memory", "delete_memory"}
Imports == {"merge", "replace"}
Deletions == {"delete_project", "delete_projects"}

\* Inside transaction() after BEGIN, and from the moment the lock is taken.
InTransaction == {"body", "nested", "row", "release", "unwind"}
Holding == {"begin"} \union InTransaction
Pcs == {"idle", "call", "check", "check_memory", "look", "look_memory", "get", "find", "list",
        "list_memory", "enter"} \union Holding

Records == [pc : Pcs, kind : {"none", "export"} \union Singles \union Imports \union Deletions,
            change : Changes, todo : Changes, seen : Stores, tries : Nat]

TypeOK ==
    /\ db \in Stores
    /\ lock \in [Processes -> Threads \union {NoOne}]
    /\ writer \in Processes \union {NoOne}
    /\ work \in [Processes -> Seq(Stores)]
    /\ th \in [Threads -> Records]
    /\ answer \in [Threads -> {"none", "ok", "failed"}]

\* Which requests are where, and what they can be about.
Shaped(r) ==
    /\ r.pc \in {"check", "check_memory", "look", "look_memory"} => r.kind \in Imports
    /\ r.pc = "get" => r.kind = "delete_project"
    /\ r.pc \in {"find", "nested", "release"} => r.kind = "delete_projects"
    /\ r.pc = "row" => r.kind \in Deletions
    /\ r.pc \in {"enter"} \union Holding => r.kind \in Imports \union Deletions
    /\ r.kind \in Imports => /\ r.change.dropP = {} /\ r.change.dropM = {}
                             /\ r.todo.dropP = {} /\ r.todo.dropM = {}
    /\ r.kind \in Deletions => /\ r.change.addP = {} /\ r.change.addM = {} /\ r.change.dropM = {}
                               /\ r.todo.addP = {} /\ r.todo.addM = {} /\ r.todo.dropM = {}
    /\ r.pc \in {"get", "enter", "begin"} => r.todo = r.change

\* What a transaction has made of the store d by the time td of ch is left to do.
Partial(d, ch, td) ==
    [p |-> (d.p \ (ch.dropP \ td.dropP)) \union (ch.addP \ td.addP),
     m |-> (d.m \ RowsOf(ch.dropP \ td.dropP, d)) \union (ch.addM \ td.addM)]

\* What is done was possible, and leaves no row without its project.
Possible(d, ch, td) ==
    /\ td.addP \subseteq ch.addP /\ td.addM \subseteq ch.addM /\ td.dropP \subseteq ch.dropP
    /\ (ch.addP \ td.addP) \intersect d.p = {}
    /\ (ch.addM \ td.addM) \intersect d.m = {}
    /\ ch.dropP \ td.dropP \subseteq d.p
    /\ Referenced(Partial(d, ch, td))

\* The stack of an open transaction and the part of the request it has done.
Underway(r, d, s) ==
    LET top == s[Len(s)]
        part == Partial(d, r.change, r.todo)
        next == CHOOSE p \in r.todo.dropP : TRUE
    IN /\ Len(s) \in {2, 3}
       /\ r.pc = "body" => Len(s) = 2
       /\ r.pc \in {"nested", "release"} => Len(s) = 3
       /\ r.pc = "row" => Len(s) = IF r.kind = "delete_projects" THEN 3 ELSE 2
       /\ r.pc # "unwind" => Possible(d, r.change, r.todo)
       /\ r.pc \in {"body", "nested", "release"} => top = part
       /\ r.pc = "row" => /\ r.todo.dropP # {} /\ next \in part.p
                          /\ top = [part EXCEPT !.m = @ \ RowsOf({next}, part)]

Local(t) ==
    /\ Shaped(th[t])
    /\ th[t] # Done => answer[t] = "none"
    /\ th[t].pc \in Holding => lock[Runs[t]] = t
    /\ th[t].pc \in InTransaction =>
          writer = Runs[t] /\ Underway(th[t], db, work[Runs[t]])

\* A stack belongs to a transaction.
Owned(c) == work[c] # <<>> => \E t \in Threads : Runs[t] = c /\ th[t].pc \in InTransaction

IInv ==
    /\ TypeOK
    /\ NoOrphans
    /\ \A t \in Threads : Local(t)
    /\ \A c \in Processes : Owned(c)

-----------------------------------------------------------------------------
(* Records and stacks.                                                     *)

LEMMA DoneIsARecord == Done \in Records /\ Shaped(Done) /\ Done.pc = "idle"
  BY DEF Done, NoWrite, Records, Pcs, Changes, Stores, Shaped, Holding, InTransaction,
         Imports, Deletions

\* The top of a stack replaced.
LEMMA TopReplaced ==
    ASSUME NEW s \in Seq(Stores), Len(s) \in {2, 3}, NEW d \in Stores
    PROVE  LET r == [s EXCEPT ![Len(s)] = d]
           IN r \in Seq(Stores) /\ Len(r) = Len(s) /\ r[Len(r)] = d
<1>1. Len(s) \in 1..Len(s)
  OBVIOUS
<1> DEFINE r == [s EXCEPT ![Len(s)] = d]
<1>2. /\ r \in Seq(Stores) /\ Len(r) = Len(s)
      /\ \A j \in 1..Len(s) : r[j] = IF j = Len(s) THEN d ELSE s[j]
  BY <1>1, ExceptSeq
<1>3. r[Len(s)] = d
  BY <1>1, <1>2
<1>4. QED
  BY <1>2, <1>3

\* SAVEPOINT pushes, RELEASE drops what lies under the top, ROLLBACK TO pops.
LEMMA Pushed ==
    ASSUME NEW s \in Seq(Stores), Len(s) = 2, NEW d \in Stores
    PROVE  LET r == Append(s, d)
           IN r \in Seq(Stores) /\ Len(r) = 3 /\ r[Len(r)] = d
<1> DEFINE r == Append(s, d)
<1>1. r \in Seq(Stores) /\ Len(r) = Len(s) + 1 /\ r[Len(s) + 1] = d
  BY AppendProperties
<1> HIDE DEF r
<1>2. r \in Seq(Stores) /\ Len(r) = 3 /\ r[Len(r)] = d
  BY <1>1
<1>3. QED
  BY <1>2 DEF r

LEMMA Released ==
    ASSUME NEW s \in Seq(Stores), Len(s) = 3
    PROVE  LET r == Append(SubSeq(s, 1, Len(s) - 2), s[Len(s)])
           IN r \in Seq(Stores) /\ Len(r) = 2 /\ r[Len(r)] = s[Len(s)]
<1> DEFINE b == SubSeq(s, 1, Len(s) - 2)
<1>1. b \in Seq(Stores) /\ Len(b) = 1
  BY SubSeqProperties
<1>2. s[Len(s)] \in Stores
  BY ElementOfSeq
<1> HIDE DEF b
<1>3. QED
  BY <1>1, <1>2, AppendProperties DEF b

LEMMA Popped ==
    ASSUME NEW s \in Seq(Stores), Len(s) \in {2, 3}, Len(s) > 2
    PROVE  LET r == SubSeq(s, 1, Len(s) - 1) IN r \in Seq(Stores) /\ Len(r) = 2
<1>1. \A i \in 1..2 : s[i] \in Stores
  BY ElementOfSeq
<1>2. SubSeq(s, 1, 2) \in Seq(Stores) /\ Len(SubSeq(s, 1, 2)) = 2
  BY <1>1, SubSeqProperties
<1>3. Len(s) - 1 = 2
  OBVIOUS
<1>4. QED
  BY <1>2, <1>3

\* A transaction sees the top of its stack.
LEMMA ViewIsTop ==
    ASSUME TypeOK, NEW c \in Processes, Len(work[c]) \in {2, 3}
    PROVE  /\ work[c] \in Seq(Stores) /\ work[c] # <<>>
           /\ View(c) = work[c][Len(work[c])] /\ View(c) \in Stores
<1>1. work[c] \in Seq(Stores)
  BY DEF TypeOK
<1>2. work[c] # <<>>
  BY <1>1, EmptySeq
<1>3. work[c][Len(work[c])] \in Stores
  BY <1>1, ElementOfSeq
<1>4. QED
  BY <1>1, <1>2, <1>3 DEF View

-----------------------------------------------------------------------------
(* Steps of one thread.                                                    *)

\* Whoever else is in a transaction is in another process and goes on undisturbed
\* by a thread that has its own process's lock, or could take it.
LEMMA OthersKept ==
    ASSUME IInv, NEW t \in Threads, NEW u \in Threads, u # t,
           th'[u] = th[u], answer'[u] = answer[u],
           \A c \in Processes \ {Runs[t]} : lock'[c] = lock[c] /\ work'[c] = work[c],
           \/ UNCHANGED <<db, lock, writer, work>>
           \/ /\ lock[Runs[t]] \in {NoOne, t}
              /\ UNCHANGED <<db, writer>> \/ writer \in {NoOne, Runs[t]}
    PROVE  Local(u)'
<1>1. Local(u) /\ u # NoOne /\ Runs[u] \in Processes /\ Runs[u] # NoOne
  BY RunsAssumption, NoOneAssumption DEF IInv
<1>2. CASE th[u].pc \notin Holding
  BY <1>1, <1>2 DEF Local, Holding
<1>3. CASE th[u].pc \in Holding
  <2>1. lock[Runs[u]] = u
    BY <1>1, <1>3 DEF Local
  <2>2. CASE UNCHANGED <<db, lock, writer, work>>
    BY <1>1, <2>2 DEF Local
  <2>3. CASE lock[Runs[t]] \in {NoOne, t}
    <3>1. Runs[u] # Runs[t]
      BY <1>1, <2>1, <2>3
    <3>2. lock'[Runs[u]] = lock[Runs[u]] /\ work'[Runs[u]] = work[Runs[u]]
      BY <1>1, <3>1
    <3>3. th[u].pc \in InTransaction => writer = Runs[u] /\ UNCHANGED <<db, writer>>
      BY <1>1, <3>1, <2>3 DEF Local
    <3>4. QED
      BY <1>1, <3>2, <3>3 DEF Local
  <2>4. QED
    BY <2>2, <2>3
<1>4. QED
  BY <1>2, <1>3

\* A step of thread t keeps the invariant when it keeps what concerns t.
LEMMA Assembled ==
    ASSUME IInv, NEW t \in Threads, TypeOK', NoOrphans', Local(t)',
           \A u \in Threads \ {t} : th'[u] = th[u] /\ answer'[u] = answer[u],
           \A c \in Processes \ {Runs[t]} : lock'[c] = lock[c] /\ work'[c] = work[c],
           \/ UNCHANGED <<db, lock, writer, work>>
           \/ /\ lock[Runs[t]] \in {NoOne, t}
              /\ UNCHANGED <<db, writer>> \/ writer \in {NoOne, Runs[t]},
           \/ th'[t].pc \in InTransaction
           \/ work'[Runs[t]] = <<>>
           \/ th[t].pc \notin InTransaction /\ work'[Runs[t]] = work[Runs[t]]
    PROVE  IInv'
<1>1. \A u \in Threads : Local(u)'
  BY OthersKept
<1>2. ASSUME NEW c \in Processes PROVE Owned(c)'
  <2>1. Owned(c)
    BY DEF IInv
  <2>2. CASE c # Runs[t]
    BY <2>1, <2>2 DEF Owned
  <2>3. CASE c = Runs[t]
    BY <2>1, <2>3 DEF Owned
  <2>4. QED
    BY <2>2, <2>3
<1>3. QED
  BY <1>1, <1>2 DEF IInv

\* A step that touches nothing but the thread's own request and its answer, before
\* the lock is taken.
LEMMA OutsideStep ==
    ASSUME IInv, NEW t \in Threads, NEW r \in Records, NEW a \in {"none", "ok", "failed"},
           th' = [th EXCEPT ![t] = r], answer' = [answer EXCEPT ![t] = a],
           UNCHANGED <<db, lock, writer, work>>,
           th[t].pc \notin InTransaction, r.pc \notin Holding, Shaped(r), r # Done => a = "none"
    PROVE  IInv'
<1>1. TypeOK' /\ NoOrphans'
  BY DEF IInv, TypeOK, NoOrphans
<1>2. th'[t] = r /\ answer'[t] = a
  BY DEF IInv, TypeOK
<1>3. Local(t)'
  BY <1>2 DEF Local, Holding
<1>4. \A u \in Threads \ {t} : th'[u] = th[u] /\ answer'[u] = answer[u]
  BY DEF IInv, TypeOK
<1>5. QED
  BY <1>1, <1>3, <1>4, Assembled

\* What a request may ask for, by its kind.
LEMMA AsksTyped ==
    ASSUME NEW kind \in Kinds, NEW ch \in Asks(kind)
    PROVE  /\ ch \in Changes
           /\ kind \in Imports => ch.dropP = {} /\ ch.dropM = {}
           /\ kind \in Deletions => ch.addP = {} /\ ch.addM = {} /\ ch.dropM = {}
<1> USE DEF Asks, Changes, NoWrite, Imports, Deletions
<1>1. CASE kind \in {"add_project", "add_memory", "delete_memory"}
  <2>1. CASE kind = "add_project"
    BY <2>1
  <2>2. CASE kind = "add_memory"
    BY <2>2
  <2>3. CASE kind = "delete_memory"
    BY <2>3
  <2>4. QED
    BY <1>1, <2>1, <2>2, <2>3
<1>2. CASE kind \in {"delete_project", "delete_projects"}
  BY <1>2
<1>3. CASE kind \in {"merge", "replace"}
  BY <1>3, EnvelopesAssumption
<1>4. CASE kind = "export"
  BY <1>4
<1>5. QED
  BY <1>1, <1>2, <1>3, <1>4, KindsAssumption

LEMMA RequestInv ==
    ASSUME IInv, NEW t \in Threads, NEW kind \in Kinds, Request(t, kind)
    PROVE  IInv'
<1>1. PICK ch \in Asks(kind) :
        th' = [th EXCEPT ![t] = [Done EXCEPT !.pc = FirstStep(kind), !.kind = kind,
                                             !.change = ch, !.todo = ch]]
  BY DEF Request
<1> DEFINE r == [Done EXCEPT !.pc = FirstStep(kind), !.kind = kind, !.change = ch, !.todo = ch]
<1>2. /\ kind \in {"export"} \union Singles \union Imports \union Deletions
      /\ FirstStep(kind) \in {"call", "get", "find", "check", "look", "list"}
      /\ FirstStep(kind) \in {"check", "look"} => kind \in Imports
      /\ FirstStep(kind) = "get" => kind = "delete_project"
      /\ FirstStep(kind) = "find" => kind = "delete_projects"
  BY KindsAssumption DEF FirstStep, Singles, Imports, Deletions
<1>3. r \in Records
  BY <1>2, AsksTyped DEF Done, NoWrite, Records, Pcs, Stores
<1>4. /\ r.pc = FirstStep(kind) /\ r.kind = kind /\ r.change = ch /\ r.todo = ch
  BY DEF Done
<1> HIDE DEF r
<1>5. Shaped(r)
  BY <1>2, <1>4, AsksTyped DEF Shaped, Holding, InTransaction
<1>6. r.pc \notin Holding /\ th[t].pc \notin InTransaction
  BY <1>2, <1>4, DoneIsARecord DEF Holding, InTransaction, Request
<1>7. QED
  BY <1>1, <1>3, <1>5, <1>6, OutsideStep DEF r, Request

\* A request that ends before it holds the lock.
LEMMA AnswerOutside ==
    ASSUME IInv, NEW t \in Threads, NEW a \in {"none", "ok", "failed"}, Answer(t, a),
           UNCHANGED <<db, lock, writer, work>>, th[t].pc \notin InTransaction
    PROVE  IInv'
<1>1. Done.pc \notin Holding
  BY DoneIsARecord DEF Holding, InTransaction
<1>2. QED
  BY <1>1, DoneIsARecord, OutsideStep DEF Answer

\* A request that goes on to something else before it holds the lock.
LEMMA GoesOn ==
    ASSUME IInv, NEW t \in Threads, NEW r \in Records, th' = [th EXCEPT ![t] = r],
           UNCHANGED <<db, lock, writer, work, answer>>,
           th[t] # Done, th[t].pc \notin InTransaction, r.pc \notin Holding, Shaped(r)
    PROVE  IInv'
<1>1. answer[t] = "none" /\ answer' = [answer EXCEPT ![t] = "none"]
  BY DEF IInv, Local, TypeOK
<1>2. QED
  BY <1>1, OutsideStep

LEMMA ReadInv ==
    ASSUME IInv, NEW t \in Threads,
           \/ CheckProjects(t) \/ CheckMemory(t) \/ LookProjects(t) \/ LookMemory(t)
           \/ GetProject(t) \/ Find(t) \/ FindEnds(t) \/ ListProjects(t) \/ ListMemory(t)
    PROVE  IInv'
<1>1. /\ UNCHANGED <<db, lock, writer, work>>
      /\ th[t].pc \in {"check", "check_memory", "look", "look_memory", "get", "find", "list",
                       "list_memory"}
  BY DEF CheckProjects, CheckMemory, LookProjects, LookMemory, GetProject, Find, FindEnds,
         ListProjects, ListMemory, ReadOnly
<1>2. th[t] # Done /\ th[t].pc \notin InTransaction /\ th[t] \in Records /\ Shaped(th[t])
  BY <1>1, DoneIsARecord DEF InTransaction, IInv, TypeOK, Local
<1>3. CASE \E a \in {"ok", "failed"} : Answer(t, a)
  BY <1>1, <1>2, <1>3, AnswerOutside
<1>4. CASE CheckProjects(t) /\ Goto(t, "check_memory") /\ UNCHANGED answer
  <2> DEFINE r == [th[t] EXCEPT !.pc = "check_memory"]
  <2>1. r \in Records /\ r.pc = "check_memory" /\ Shaped(r)
    BY <1>2, <1>4 DEF Records, Pcs, Shaped, Holding, InTransaction, CheckProjects
  <2>2. th' = [th EXCEPT ![t] = r]
    BY <1>4 DEF Goto
  <2> HIDE DEF r
  <2>3. QED
    BY <1>1, <1>2, <1>4, <2>1, <2>2, GoesOn DEF Holding, InTransaction
<1>5. CASE CheckMemory(t) /\ Goto(t, "look") /\ UNCHANGED answer
  <2> DEFINE r == [th[t] EXCEPT !.pc = "look"]
  <2>1. r \in Records /\ r.pc = "look" /\ Shaped(r)
    BY <1>2, <1>5 DEF Records, Pcs, Shaped, Holding, InTransaction, CheckMemory
  <2>2. th' = [th EXCEPT ![t] = r]
    BY <1>5 DEF Goto
  <2> HIDE DEF r
  <2>3. QED
    BY <1>1, <1>2, <1>5, <2>1, <2>2, GoesOn DEF Holding, InTransaction
<1>6. CASE LookProjects(t)
  <2> DEFINE r == [th[t] EXCEPT !.seen.p = db.p, !.pc = "look_memory"]
  <2>1. db.p \in SUBSET Projects
    BY DEF IInv, TypeOK, Stores
  <2>2. r \in Records /\ r.pc = "look_memory" /\ Shaped(r)
    BY <1>2, <1>6, <2>1 DEF Records, Stores, Pcs, Shaped, Holding, InTransaction, LookProjects
  <2>3. th' = [th EXCEPT ![t] = r] /\ UNCHANGED answer
    BY <1>6 DEF LookProjects
  <2> HIDE DEF r
  <2>4. QED
    BY <1>1, <1>2, <2>2, <2>3, GoesOn DEF Holding, InTransaction
<1>7. CASE /\ LookMemory(t) /\ UNCHANGED answer
           /\ LET into == ToImport(th[t].change, th[t].seen.p, db.m)
              IN th' = [th EXCEPT ![t].pc = "enter", ![t].change = into, ![t].todo = into,
                                  ![t].seen = Empty]
  <2> DEFINE into == ToImport(th[t].change, th[t].seen.p, db.m)
             r == [th[t] EXCEPT !.pc = "enter", !.change = into, !.todo = into, !.seen = Empty]
  <2>1. th[t].kind \in Imports /\ th[t].change \in Changes
    BY <1>2, <1>7 DEF LookMemory, Shaped, Records
  <2>2. into \in Changes /\ into.dropP = {} /\ into.dropM = {}
    BY <1>2, <2>1 DEF ToImport, Changes, Shaped
  <2> HIDE DEF into
  <2>3. r \in Records /\ r.pc = "enter" /\ Shaped(r)
    BY <1>2, <2>1, <2>2 DEF Records, Stores, Pcs, Shaped, Holding, InTransaction, Empty,
                            Imports, Deletions
  <2>4. th' = [th EXCEPT ![t] = r]
    BY <1>7 DEF into
  <2> HIDE DEF r
  <2>5. QED
    BY <1>1, <1>2, <1>7, <2>3, <2>4, GoesOn DEF Holding, InTransaction
<1>8. CASE GetProject(t) /\ Goto(t, "enter") /\ UNCHANGED answer
  <2> DEFINE r == [th[t] EXCEPT !.pc = "enter"]
  <2>1. r \in Records /\ r.pc = "enter" /\ Shaped(r)
    BY <1>2, <1>8 DEF Records, Pcs, Shaped, Holding, InTransaction, GetProject, Imports, Deletions
  <2>2. th' = [th EXCEPT ![t] = r]
    BY <1>8 DEF Goto
  <2> HIDE DEF r
  <2>3. QED
    BY <1>1, <1>2, <1>8, <2>1, <2>2, GoesOn DEF Holding, InTransaction
<1>9. CASE Find(t)
  <2>1. PICK p \in th[t].todo.dropP :
          th' = [th EXCEPT ![t].todo.dropP = @ \ {p},
                           ![t].change.dropP = IF p \in db.p THEN @ ELSE @ \ {p}]
    BY <1>9 DEF Find
  <2> DEFINE r == [th[t] EXCEPT !.todo.dropP = @ \ {p},
                                !.change.dropP = IF p \in db.p THEN @ ELSE @ \ {p}]
  <2>2. r \in Records /\ r.pc = "find" /\ Shaped(r)
    BY <1>2, <1>9 DEF Records, Changes, Shaped, Holding, InTransaction, Find, Imports, Deletions
  <2>3. th' = [th EXCEPT ![t] = r]
    BY <2>1
  <2> HIDE DEF r
  <2>4. QED
    BY <1>1, <1>2, <1>9, <2>2, <2>3, GoesOn DEF Holding, InTransaction, Find
<1>10. CASE FindEnds(t)
  <2> DEFINE r == [th[t] EXCEPT !.pc = "enter", !.todo = th[t].change]
  <2>1. r \in Records /\ r.pc = "enter" /\ Shaped(r)
    BY <1>2, <1>10 DEF Records, Pcs, Shaped, Holding, InTransaction, FindEnds, Imports, Deletions
  <2>2. th' = [th EXCEPT ![t] = r]
    BY <1>10 DEF FindEnds
  <2> HIDE DEF r
  <2>3. QED
    BY <1>1, <1>2, <1>10, <2>1, <2>2, GoesOn DEF Holding, InTransaction, FindEnds
<1>11. CASE ListProjects(t)
  <2> DEFINE r == [th[t] EXCEPT !.pc = "list_memory", !.seen.p = db.p]
  <2>1. db.p \in SUBSET Projects
    BY DEF IInv, TypeOK, Stores
  <2>2. r \in Records /\ r.pc = "list_memory" /\ Shaped(r)
    BY <1>2, <1>11, <2>1 DEF Records, Stores, Pcs, Shaped, Holding, InTransaction, ListProjects
  <2>3. th' = [th EXCEPT ![t] = r] /\ UNCHANGED answer
    BY <1>11 DEF ListProjects
  <2> HIDE DEF r
  <2>4. QED
    BY <1>1, <1>2, <2>2, <2>3, GoesOn DEF Holding, InTransaction
<1>12. QED
  BY <1>3, <1>4, <1>5, <1>6, <1>7, <1>8, <1>9, <1>10, <1>11
     DEF CheckProjects, CheckMemory, LookMemory, GetProject, ListMemory

-----------------------------------------------------------------------------
(* Single store calls, and the way into a transaction.                     *)

\* A free lock means that the process has no transaction open.
LEMMA NobodyInside ==
    ASSUME IInv, NEW t \in Threads, MayCall(t)
    PROVE  work[Runs[t]] = <<>> /\ View(Runs[t]) = db
<1>1. Runs[t] \in Processes
  BY RunsAssumption
<1>2. SUFFICES ASSUME work[Runs[t]] # <<>> PROVE FALSE
  BY DEF View
<1>3. PICK u \in Threads : Runs[u] = Runs[t] /\ th[u].pc \in InTransaction
  BY <1>1, <1>2 DEF IInv, Owned
<1>4. lock[Runs[t]] = u
  BY <1>3 DEF IInv, Local, Holding
<1>5. QED
  BY <1>4, NoOneAssumption DEF MayCall

LEMMA ChangedTyped ==
    ASSUME NEW d \in Stores, NEW ch \in Changes
    PROVE  Changed(d, ch) \in Stores
  BY DEF Stores, Changes, Changed

LEMMA CallInv ==
    ASSUME IInv, NEW t \in Threads, Call(t)
    PROVE  IInv'
<1> DEFINE ch == th[t].change
<1>1. th[t].pc = "call" /\ MayCall(t) /\ writer \in {NoOne, Runs[t]} /\ UNCHANGED <<lock, writer>>
  BY DEF Call
<1>2. work[Runs[t]] = <<>> /\ View(Runs[t]) = db
  BY <1>1, NobodyInside
<1>3. th[t].pc \notin InTransaction
  BY <1>1 DEF InTransaction
<1>4. CASE Accepted(View(Runs[t]), th[t].change)
  <2>1. db' = Changed(db, ch) /\ UNCHANGED work /\ Answer(t, "ok")
    BY <1>2, <1>4 DEF Call, Write
  <2>2. db \in Stores /\ ch \in Changes
    BY DEF IInv, TypeOK, Records
  <2>3. th'[t] = Done /\ Done \in Records
    BY <2>1, DoneIsARecord DEF Answer, IInv, TypeOK
  <2>4. TypeOK'
    BY <1>1, <2>1, <2>2, <2>3, ChangedTyped DEF IInv, TypeOK, Answer
  <2>5. NoOrphans'
    BY <1>2, <1>4, <2>1 DEF Accepted, Referenced, ForeignKey, NoOrphans
  <2>6. Local(t)'
    BY <2>3, DoneIsARecord DEF Local, Holding, InTransaction
  <2>7. \A u \in Threads \ {t} : th'[u] = th[u] /\ answer'[u] = answer[u]
    BY <2>1 DEF Answer, IInv, TypeOK
  <2>8. QED
    BY <1>1, <1>3, <2>1, <2>4, <2>5, <2>6, <2>7, Assembled DEF MayCall
<1>5. CASE ~Accepted(View(Runs[t]), th[t].change)
  BY <1>1, <1>3, <1>5, AnswerOutside DEF Call
<1>6. QED
  BY <1>4, <1>5

LEMMA CallBusyInv ==
    ASSUME IInv, NEW t \in Threads, CallBusy(t)
    PROVE  IInv'
<1>1. th[t].pc \notin InTransaction
  BY DEF CallBusy, InTransaction
<1>2. QED
  BY <1>1, AnswerOutside DEF CallBusy

LEMMA EnterInv ==
    ASSUME IInv, NEW t \in Threads, Enter(t)
    PROVE  IInv'
<1> DEFINE r == [th[t] EXCEPT !.pc = "begin"]
<1>1. /\ th[t].pc = "enter" /\ lock[Runs[t]] = NoOne /\ Runs[t] \in Processes
      /\ lock' = [lock EXCEPT ![Runs[t]] = t]
      /\ th' = [th EXCEPT ![t] = r] /\ UNCHANGED <<db, writer, work, answer>>
  BY RunsAssumption DEF Enter, MayCall, Goto
<1>2. th[t] \in Records /\ Shaped(th[t]) /\ th[t] # Done
  BY <1>1, DoneIsARecord DEF IInv, TypeOK, Local
<1>3. r \in Records /\ r.pc = "begin" /\ Shaped(r)
  BY <1>1, <1>2 DEF Records, Pcs, Shaped, Holding, InTransaction
<1> HIDE DEF r
<1>4. TypeOK' /\ NoOrphans'
  BY <1>1, <1>3 DEF IInv, TypeOK, NoOrphans
<1>5. th'[t] = r /\ lock'[Runs[t]] = t /\ answer'[t] = "none"
  BY <1>1, <1>2 DEF IInv, TypeOK, Local
<1>6. Local(t)'
  BY <1>3, <1>5 DEF Local, InTransaction
<1>7. /\ \A u \in Threads \ {t} : th'[u] = th[u] /\ answer'[u] = answer[u]
      /\ \A c \in Processes \ {Runs[t]} : lock'[c] = lock[c] /\ work'[c] = work[c]
      /\ th[t].pc \notin InTransaction
  BY <1>1 DEF IInv, TypeOK, InTransaction
<1>8. QED
  BY <1>1, <1>4, <1>6, <1>7, Assembled

\* Before the first statement nothing is done and nothing is lost.
LEMMA NothingDone ==
    ASSUME NEW d \in Stores, Referenced(d), NEW ch \in Changes
    PROVE  Partial(d, ch, ch) = d /\ Possible(d, ch, ch)
<1>1. Partial(d, ch, ch).p = d.p /\ Partial(d, ch, ch).m = d.m
  BY DEF Partial, RowsOf
<1>2. Partial(d, ch, ch) = d
  BY <1>1 DEF Stores, Partial
<1>3. QED
  BY <1>2 DEF Possible

LEMMA BeginInv ==
    ASSUME IInv, NEW t \in Threads, Begin(t)
    PROVE  IInv'
<1> DEFINE r == [th[t] EXCEPT !.pc = "body"]
<1>1. /\ th[t].pc = "begin" /\ writer = NoOne /\ Runs[t] \in Processes
      /\ writer' = Runs[t] /\ work' = [work EXCEPT ![Runs[t]] = <<db, db>>]
      /\ th' = [th EXCEPT ![t] = r] /\ UNCHANGED <<db, lock, answer>>
  BY RunsAssumption DEF Begin, Goto
<1>2. th[t] \in Records /\ Shaped(th[t]) /\ th[t] # Done /\ lock[Runs[t]] = t /\ db \in Stores
  BY <1>1, DoneIsARecord DEF IInv, TypeOK, Local, Holding
<1>3. /\ r \in Records /\ r.pc = "body" /\ Shaped(r)
      /\ r.change = th[t].change /\ r.todo = th[t].change /\ r.change \in Changes
  BY <1>1, <1>2 DEF Records, Pcs, Shaped, Holding, InTransaction
<1>4. Partial(db, r.change, r.todo) = db /\ Possible(db, r.change, r.todo)
  BY <1>2, <1>3, NothingDone DEF IInv, NoOrphans, Referenced, ForeignKey
<1> HIDE DEF r
<1>5. <<db, db>> \in Seq(Stores) /\ Len(<<db, db>>) = 2 /\ <<db, db>>[2] = db
  BY <1>2
<1>6. TypeOK' /\ NoOrphans'
  BY <1>1, <1>3, <1>5 DEF IInv, TypeOK, NoOrphans
<1>7. /\ th'[t] = r /\ answer'[t] = "none" /\ lock'[Runs[t]] = t
      /\ work'[Runs[t]] = <<db, db>>
  BY <1>1, <1>2 DEF IInv, TypeOK, Local
<1>8. Underway(r, db, <<db, db>>)
  BY <1>3, <1>4, <1>5 DEF Underway
<1>9. Local(t)'
  BY <1>1, <1>3, <1>7, <1>8 DEF Local
<1>10. /\ \A u \in Threads \ {t} : th'[u] = th[u] /\ answer'[u] = answer[u]
       /\ \A c \in Processes \ {Runs[t]} : lock'[c] = lock[c] /\ work'[c] = work[c]
       /\ th'[t].pc \in InTransaction
  BY <1>1, <1>3, <1>7 DEF IInv, TypeOK, InTransaction
<1>11. QED
  BY <1>1, <1>2, <1>6, <1>9, <1>10, Assembled

\* A thread that holds the lock and no transaction, or ends one, lets go of both.
LEMMA LetsGo ==
    ASSUME IInv, NEW t \in Threads, NEW a \in {"ok", "failed"}, Answer(t, a),
           th[t].pc \in Holding, lock' = Unlocked(Runs[t]), NoOrphans', db' \in Stores,
           \/ th[t].pc = "begin" /\ UNCHANGED <<db, writer, work>>
           \/ /\ th[t].pc \in InTransaction
              /\ work' = [work EXCEPT ![Runs[t]] = <<>>] /\ writer' = NoOne
    PROVE  IInv'
<1>1. Runs[t] \in Processes
  BY RunsAssumption
<1>2. /\ lock[Runs[t]] = t
      /\ th[t].pc \in InTransaction => writer = Runs[t]
  BY DEF IInv, Local
<1>3. th'[t] = Done /\ Done \in Records
  BY DoneIsARecord DEF Answer, IInv, TypeOK
<1>4. <<>> \in Seq(Stores)
  BY EmptySeq
<1>5. TypeOK'
  BY <1>1, <1>3, <1>4 DEF IInv, TypeOK, Answer, Unlocked
<1>6. Local(t)'
  BY <1>3, DoneIsARecord DEF Local, Holding, InTransaction
<1>7. /\ \A u \in Threads \ {t} : th'[u] = th[u] /\ answer'[u] = answer[u]
      /\ \A c \in Processes \ {Runs[t]} : lock'[c] = lock[c] /\ work'[c] = work[c]
  BY DEF IInv, TypeOK, Answer, Unlocked
<1>8. \/ work'[Runs[t]] = <<>>
      \/ th[t].pc \notin InTransaction /\ work'[Runs[t]] = work[Runs[t]]
  BY <1>1 DEF IInv, TypeOK, InTransaction
<1>9. UNCHANGED <<db, writer>> \/ writer \in {NoOne, Runs[t]}
  BY <1>2
<1>10. QED
  BY <1>2, <1>5, <1>6, <1>7, <1>8, <1>9, Assembled

LEMMA BeginBusyInv ==
    ASSUME IInv, NEW t \in Threads, BeginBusy(t)
    PROVE  IInv'
<1>1. th[t].pc = "begin" /\ UNCHANGED <<db, writer, work>>
  BY DEF BeginBusy
<1>2. CASE MayRetry(th[t].tries)
  <2> DEFINE r == [th[t] EXCEPT !.tries = @ + 1]
  <2>1. th' = [th EXCEPT ![t] = r] /\ UNCHANGED <<lock, answer>>
    BY <1>2 DEF BeginBusy
  <2>2. th[t] \in Records /\ Local(t) /\ th[t] # Done
    BY <1>1, DoneIsARecord DEF IInv, TypeOK
  <2>3. r \in Records /\ r.pc = "begin" /\ Shaped(r)
    BY <1>1, <2>2 DEF Records, Local, Shaped
  <2> HIDE DEF r
  <2>4. TypeOK' /\ NoOrphans'
    BY <1>1, <2>1, <2>3 DEF IInv, TypeOK, NoOrphans
  <2>5. th'[t] = r
    BY <2>1 DEF IInv, TypeOK
  <2>6. Local(t)'
    BY <1>1, <2>1, <2>2, <2>3, <2>5 DEF Local, Holding, InTransaction
  <2>7. /\ \A u \in Threads \ {t} : th'[u] = th[u] /\ answer'[u] = answer[u]
        /\ th[t].pc \notin InTransaction
    BY <1>1, <2>1 DEF IInv, TypeOK, InTransaction
  <2>8. QED
    BY <1>1, <2>1, <2>4, <2>6, <2>7, Assembled
<1>3. CASE ~MayRetry(th[t].tries)
  <2>1. lock' = Unlocked(Runs[t]) /\ Answer(t, "failed")
    BY <1>3 DEF BeginBusy
  <2>2. NoOrphans' /\ db' \in Stores /\ th[t].pc \in Holding
    BY <1>1 DEF IInv, TypeOK, NoOrphans, Holding
  <2>3. QED
    BY <1>1, <2>1, <2>2, LetsGo
<1>4. QED
  BY <1>2, <1>3

-----------------------------------------------------------------------------
(* Inside a transaction.                                                   *)

LEMMA InsideStep ==
    ASSUME IInv, NEW t \in Threads, th[t].pc \in InTransaction,
           NEW r \in Records, NEW s \in Seq(Stores),
           th' = [th EXCEPT ![t] = r], work' = [work EXCEPT ![Runs[t]] = s], InBody(t),
           r.pc \in InTransaction, Shaped(r), Underway(r, db, s)
    PROVE  IInv'
<1>1. Runs[t] \in Processes /\ UNCHANGED <<db, lock, writer, answer>>
  BY RunsAssumption DEF InBody
<1>2. lock[Runs[t]] = t /\ writer = Runs[t] /\ answer[t] = "none"
  BY DoneIsARecord DEF IInv, Local, Holding, InTransaction
<1>3. TypeOK' /\ NoOrphans'
  BY <1>1 DEF IInv, TypeOK, NoOrphans
<1>4. th'[t] = r /\ work'[Runs[t]] = s
  BY <1>1 DEF IInv, TypeOK
<1>5. Local(t)'
  BY <1>1, <1>2, <1>4 DEF Local
<1>6. /\ \A u \in Threads \ {t} : th'[u] = th[u] /\ answer'[u] = answer[u]
      /\ \A c \in Processes \ {Runs[t]} : lock'[c] = lock[c] /\ work'[c] = work[c]
  BY <1>1 DEF IInv, TypeOK
<1>7. QED
  BY <1>1, <1>2, <1>3, <1>4, <1>5, <1>6, Assembled

\* What holds in a transaction.
LEMMA InsideFacts ==
    ASSUME IInv, NEW t \in Threads, th[t].pc \in InTransaction
    PROVE  /\ th[t] \in Records /\ Shaped(th[t]) /\ db \in Stores
           /\ Runs[t] \in Processes /\ work[Runs[t]] \in Seq(Stores)
           /\ View(Runs[t]) = work[Runs[t]][Len(work[Runs[t]])] /\ View(Runs[t]) \in Stores
           /\ Underway(th[t], db, work[Runs[t]])
<1>1. Runs[t] \in Processes
  BY RunsAssumption
<1>2. Underway(th[t], db, work[Runs[t]]) /\ TypeOK
  BY DEF IInv, Local
<1>3. Len(work[Runs[t]]) \in {2, 3}
  BY <1>2 DEF Underway
<1>4. QED
  BY <1>1, <1>2, <1>3, ViewIsTop DEF IInv, Local, TypeOK

\* Whatever raises leads out, with the stack as it is.
LEMMA UnwindInv ==
    ASSUME IInv, NEW t \in Threads, th[t].pc \in InTransaction,
           Goto(t, "unwind"), UNCHANGED work, InBody(t)
    PROVE  IInv'
<1> DEFINE r == [th[t] EXCEPT !.pc = "unwind"]
<1>1. /\ th[t] \in Records /\ Shaped(th[t]) /\ work[Runs[t]] \in Seq(Stores)
      /\ Underway(th[t], db, work[Runs[t]])
  BY InsideFacts
<1>2. r \in Records /\ r.pc = "unwind" /\ Shaped(r)
  BY <1>1 DEF Records, Pcs, Shaped, Holding, InTransaction
<1>3. Underway(r, db, work[Runs[t]])
  BY <1>1, <1>2 DEF Underway
<1>4. th' = [th EXCEPT ![t] = r] /\ work' = [work EXCEPT ![Runs[t]] = work[Runs[t]]]
  BY DEF Goto, IInv, TypeOK
<1> HIDE DEF r
<1>5. QED
  BY <1>1, <1>2, <1>3, <1>4, InsideStep DEF InTransaction

\* One more project inserted.
LEMMA ProjectDone ==
    ASSUME NEW d \in Stores, NEW ch \in Changes, NEW td \in Changes, Possible(d, ch, td),
           ch.dropP = {}, NEW p \in td.addP, p \notin Partial(d, ch, td).p
    PROVE  LET less == [td EXCEPT !.addP = @ \ {p}]
               part == Partial(d, ch, td)
           IN Partial(d, ch, less) = [part EXCEPT !.p = @ \union {p}] /\ Possible(d, ch, less)
<1> DEFINE less == [td EXCEPT !.addP = @ \ {p}]
           part == Partial(d, ch, td)
           more == Partial(d, ch, less)
<1>1. /\ less.addP = td.addP \ {p} /\ less.addM = td.addM /\ less.dropP = td.dropP
      /\ td.addP \subseteq ch.addP
  BY DEF Changes, Possible
<1>2. more.p = part.p \union {p} /\ more.m = part.m
  BY <1>1 DEF Partial
<1>3. more = [part EXCEPT !.p = @ \union {p}]
  BY <1>2 DEF Partial
<1>4. Referenced(more)
  BY <1>2 DEF Possible, Referenced, ForeignKey
<1>5. p \notin d.p
  BY DEF Partial
<1> HIDE DEF more, less, part
<1>6. Possible(d, ch, less)
  BY <1>1, <1>4, <1>5 DEF Possible, more
<1>7. QED
  BY <1>3, <1>6 DEF more, less, part

\* One more memory inserted, whose project is there.
LEMMA MemoryDone ==
    ASSUME NEW d \in Stores, NEW ch \in Changes, NEW td \in Changes, Possible(d, ch, td),
           ch.dropP = {}, NEW m \in td.addM, m \notin Partial(d, ch, td).m,
           ForeignKey(Partial(d, ch, td), m)
    PROVE  LET less == [td EXCEPT !.addM = @ \ {m}]
               part == Partial(d, ch, td)
           IN Partial(d, ch, less) = [part EXCEPT !.m = @ \union {m}] /\ Possible(d, ch, less)
<1> DEFINE less == [td EXCEPT !.addM = @ \ {m}]
           part == Partial(d, ch, td)
           more == Partial(d, ch, less)
<1>1. /\ less.addM = td.addM \ {m} /\ less.addP = td.addP /\ less.dropP = td.dropP
      /\ td.addM \subseteq ch.addM
  BY DEF Changes, Possible
<1>2. more.p = part.p /\ more.m = part.m \union {m}
  BY <1>1 DEF Partial
<1>3. more = [part EXCEPT !.m = @ \union {m}]
  BY <1>2 DEF Partial
<1>4. Referenced(more)
  BY <1>2 DEF Possible, Referenced, ForeignKey
<1>5. m \notin d.m
  BY DEF Partial, RowsOf
<1> HIDE DEF more, less, part
<1>6. Possible(d, ch, less)
  BY <1>1, <1>4, <1>5 DEF Possible, more
<1>7. QED
  BY <1>3, <1>6 DEF more, less, part

\* One more project deleted, after its rows.
LEMMA DeletionDone ==
    ASSUME NEW d \in Stores, NEW ch \in Changes, NEW td \in Changes, Possible(d, ch, td),
           ch.addP = {}, ch.addM = {}, NEW p \in td.dropP, p \in Partial(d, ch, td).p
    PROVE  LET less == [td EXCEPT !.dropP = @ \ {p}]
               part == Partial(d, ch, td)
               cut == [part EXCEPT !.m = @ \ RowsOf({p}, part)]
           IN Partial(d, ch, less) = [cut EXCEPT !.p = @ \ {p}] /\ Possible(d, ch, less)
<1> DEFINE less == [td EXCEPT !.dropP = @ \ {p}]
           part == Partial(d, ch, td)
           cut == [part EXCEPT !.m = @ \ RowsOf({p}, part)]
           more == Partial(d, ch, less)
<1>1. /\ less.dropP = td.dropP \ {p} /\ less.addM = td.addM /\ less.addP = td.addP
      /\ td.dropP \subseteq ch.dropP
  BY DEF Changes, Possible
<1>2. more.p = part.p \ {p} /\ more.m = part.m \ RowsOf({p}, part)
  BY <1>1 DEF Partial, RowsOf
<1>3. more = [cut EXCEPT !.p = @ \ {p}]
  BY <1>2 DEF Partial
<1>4. Referenced(more)
  BY <1>2 DEF Possible, Referenced, ForeignKey, RowsOf
<1>5. p \in d.p
  BY DEF Partial
<1> HIDE DEF more, less, part
<1>6. Possible(d, ch, less)
  BY <1>1, <1>4, <1>5 DEF Possible, more
<1>7. QED
  BY <1>3, <1>6 DEF more, less, part

\* A statement that replaces the top of the stack.
LEMMA SeesTop ==
    ASSUME IInv, NEW t \in Threads, th[t].pc \in InTransaction, NEW d \in Stores, Sees(t, d)
    PROVE  \E s \in Seq(Stores) : /\ work' = [work EXCEPT ![Runs[t]] = s]
                                  /\ Len(s) = Len(work[Runs[t]]) /\ s[Len(s)] = d
<1> DEFINE old == work[Runs[t]]
           s == [old EXCEPT ![Len(old)] = d]
<1>1. old \in Seq(Stores) /\ Len(old) \in {2, 3}
  BY InsideFacts DEF Underway
<1>2. s \in Seq(Stores) /\ Len(s) = Len(old) /\ s[Len(s)] = d
  BY <1>1, TopReplaced
<1>3. work' = [work EXCEPT ![Runs[t]] = s]
  BY DEF Sees
<1>4. QED
  BY <1>2, <1>3

LEMMA InsertProjectInv ==
    ASSUME IInv, NEW t \in Threads, InsertProject(t)
    PROVE  IInv'
<1> DEFINE d == View(Runs[t])
           old == work[Runs[t]]
<1>1. th[t].pc = "body" /\ th[t].pc \in InTransaction /\ InBody(t)
  BY DEF InsertProject, InTransaction
<1>2. /\ th[t] \in Records /\ Shaped(th[t]) /\ db \in Stores /\ d = old[Len(old)] /\ d \in Stores
      /\ Underway(th[t], db, old)
  BY <1>1, InsideFacts
<1>3. PICK p \in th[t].todo.addP :
        IF p \in d.p
          THEN Goto(t, "unwind") /\ UNCHANGED work
          ELSE /\ Sees(t, [d EXCEPT !.p = @ \union {p}])
               /\ th' = [th EXCEPT ![t].todo.addP = @ \ {p}]
  BY DEF InsertProject
<1>4. CASE p \in d.p
  BY <1>1, <1>3, <1>4, UnwindInv
<1>5. CASE p \notin d.p
  <2> DEFINE ch == th[t].change
             td == th[t].todo
             less == [td EXCEPT !.addP = @ \ {p}]
             r == [th[t] EXCEPT !.todo = less]
             e == [d EXCEPT !.p = @ \union {p}]
  <2>1. /\ ch \in Changes /\ td \in Changes /\ ch.dropP = {} /\ Possible(db, ch, td)
        /\ d = Partial(db, ch, td) /\ Len(old) = 2
    BY <1>1, <1>2 DEF Records, Shaped, Underway, Holding, InTransaction, Imports, Deletions
  <2>2. Partial(db, ch, less) = e /\ Possible(db, ch, less)
    BY <1>2, <1>5, <2>1, ProjectDone
  <2>3. e \in Stores /\ less \in Changes
    BY <1>2, <2>1 DEF Stores, Changes
  <2>4. PICK s \in Seq(Stores) : /\ work' = [work EXCEPT ![Runs[t]] = s]
                                 /\ Len(s) = Len(old) /\ s[Len(s)] = e
    BY <1>1, <1>3, <1>5, <2>3, SeesTop
  <2>5. th' = [th EXCEPT ![t] = r]
    BY <1>3, <1>5
  <2>6. r \in Records /\ r.pc = "body" /\ Shaped(r) /\ r.change = ch /\ r.todo = less
    BY <1>1, <1>2, <2>3 DEF Records, Changes, Shaped, Holding, InTransaction, Imports, Deletions
  <2> HIDE DEF r, less, e
  <2>7. Underway(r, db, s)
    BY <2>1, <2>2, <2>4, <2>6 DEF Underway
  <2>8. QED
    BY <1>1, <2>4, <2>5, <2>6, <2>7, InsideStep DEF InTransaction
<1>6. QED
  BY <1>4, <1>5

LEMMA InsertMemoryInv ==
    ASSUME IInv, NEW t \in Threads, InsertMemory(t)
    PROVE  IInv'
<1> DEFINE d == View(Runs[t])
           old == work[Runs[t]]
<1>1. th[t].pc = "body" /\ th[t].pc \in InTransaction /\ InBody(t)
  BY DEF InsertMemory, InTransaction
<1>2. /\ th[t] \in Records /\ Shaped(th[t]) /\ db \in Stores /\ d = old[Len(old)] /\ d \in Stores
      /\ Underway(th[t], db, old)
  BY <1>1, InsideFacts
<1>3. PICK m \in th[t].todo.addM :
        IF m \in d.m \/ ~ForeignKey(d, m)
          THEN Goto(t, "unwind") /\ UNCHANGED work
          ELSE /\ Sees(t, [d EXCEPT !.m = @ \union {m}])
               /\ th' = [th EXCEPT ![t].todo.addM = @ \ {m}]
  BY DEF InsertMemory
<1>4. CASE m \in d.m \/ ~ForeignKey(d, m)
  BY <1>1, <1>3, <1>4, UnwindInv
<1>5. CASE m \notin d.m /\ ForeignKey(d, m)
  <2> DEFINE ch == th[t].change
             td == th[t].todo
             less == [td EXCEPT !.addM = @ \ {m}]
             r == [th[t] EXCEPT !.todo = less]
             e == [d EXCEPT !.m = @ \union {m}]
  <2>1. /\ ch \in Changes /\ td \in Changes /\ ch.dropP = {} /\ Possible(db, ch, td)
        /\ d = Partial(db, ch, td) /\ Len(old) = 2
    BY <1>1, <1>2 DEF Records, Shaped, Underway, Holding, InTransaction, Imports, Deletions
  <2>2. Partial(db, ch, less) = e /\ Possible(db, ch, less)
    BY <1>2, <1>5, <2>1, MemoryDone
  <2>3. e \in Stores /\ less \in Changes
    BY <1>2, <2>1 DEF Stores, Changes
  <2>4. PICK s \in Seq(Stores) : /\ work' = [work EXCEPT ![Runs[t]] = s]
                                 /\ Len(s) = Len(old) /\ s[Len(s)] = e
    BY <1>1, <1>3, <1>5, <2>3, SeesTop
  <2>5. th' = [th EXCEPT ![t] = r]
    BY <1>3, <1>5
  <2>6. r \in Records /\ r.pc = "body" /\ Shaped(r) /\ r.change = ch /\ r.todo = less
    BY <1>1, <1>2, <2>3 DEF Records, Changes, Shaped, Holding, InTransaction, Imports, Deletions
  <2> HIDE DEF r, less, e
  <2>7. Underway(r, db, s)
    BY <2>1, <2>2, <2>4, <2>6 DEF Underway
  <2>8. QED
    BY <1>1, <2>4, <2>5, <2>6, <2>7, InsideStep DEF InTransaction
<1>6. QED
  BY <1>4, <1>5

LEMMA SavepointInv ==
    ASSUME IInv, NEW t \in Threads, Savepoint(t)
    PROVE  IInv'
<1> DEFINE d == View(Runs[t])
           old == work[Runs[t]]
           s == Append(old, d)
           r == [th[t] EXCEPT !.pc = "nested"]
<1>1. /\ th[t].pc = "body" /\ th[t].pc \in InTransaction /\ InBody(t)
      /\ th[t].kind = "delete_projects"
      /\ th' = [th EXCEPT ![t] = r] /\ work' = [work EXCEPT ![Runs[t]] = s]
  BY DEF Savepoint, Goto, InTransaction
<1>2. /\ th[t] \in Records /\ Shaped(th[t]) /\ d = old[Len(old)] /\ d \in Stores
      /\ old \in Seq(Stores) /\ Underway(th[t], db, old)
  BY <1>1, InsideFacts
<1>3. Len(old) = 2 /\ d = Partial(db, th[t].change, th[t].todo)
      /\ Possible(db, th[t].change, th[t].todo)
  BY <1>1, <1>2 DEF Underway
<1>4. s \in Seq(Stores) /\ Len(s) = 3 /\ s[Len(s)] = d
  BY <1>2, <1>3, Pushed
<1>5. /\ r \in Records /\ r.pc = "nested" /\ Shaped(r)
      /\ r.change = th[t].change /\ r.todo = th[t].todo
  BY <1>1, <1>2 DEF Records, Pcs, Shaped, Holding, InTransaction
<1> HIDE DEF r, s
<1>6. Underway(r, db, s)
  BY <1>3, <1>4, <1>5 DEF Underway
<1>7. QED
  BY <1>1, <1>4, <1>5, <1>6, InsideStep DEF InTransaction

LEMMA DeleteRowsInv ==
    ASSUME IInv, NEW t \in Threads, DeleteRows(t)
    PROVE  IInv'
<1> DEFINE d == View(Runs[t])
           old == work[Runs[t]]
           e == [d EXCEPT !.m = @ \ RowsOf({Current(t)}, d)]
           r == [th[t] EXCEPT !.pc = "row"]
<1>1. /\ th[t].pc = IF th[t].kind = "delete_projects" THEN "nested" ELSE "body"
      /\ th[t].todo.dropP # {} /\ InBody(t)
      /\ IF Current(t) \notin d.p
           THEN Goto(t, "unwind") /\ UNCHANGED work
           ELSE Sees(t, e) /\ Goto(t, "row")
  BY DEF DeleteRows
<1>2. th[t].pc \in InTransaction
  BY <1>1 DEF InTransaction
<1>3. /\ th[t] \in Records /\ Shaped(th[t]) /\ d = old[Len(old)] /\ d \in Stores
      /\ old \in Seq(Stores) /\ Underway(th[t], db, old)
  BY <1>2, InsideFacts
<1>4. CASE Current(t) \notin d.p
  BY <1>1, <1>2, <1>4, UnwindInv
<1>5. CASE Current(t) \in d.p
  <2>1. /\ d = Partial(db, th[t].change, th[t].todo) /\ Possible(db, th[t].change, th[t].todo)
        /\ Len(old) = IF th[t].kind = "delete_projects" THEN 3 ELSE 2
    BY <1>1, <1>3 DEF Underway
  <2>2. th[t].kind \in Deletions
    BY <1>1, <1>2, <1>3 DEF Shaped, Records, Holding, Imports, Deletions
  <2>3. e \in Stores
    BY <1>3 DEF Stores
  <2>4. PICK s \in Seq(Stores) : /\ work' = [work EXCEPT ![Runs[t]] = s]
                                 /\ Len(s) = Len(old) /\ s[Len(s)] = e
    BY <1>1, <1>2, <1>5, <2>3, SeesTop
  <2>5. th' = [th EXCEPT ![t] = r]
    BY <1>1, <1>5 DEF Goto
  <2>6. /\ r \in Records /\ r.pc = "row" /\ Shaped(r) /\ r.kind = th[t].kind
        /\ r.change = th[t].change /\ r.todo = th[t].todo
    BY <1>3, <2>2 DEF Records, Pcs, Shaped, Holding, InTransaction
  <2> HIDE DEF r
  <2>7. Underway(r, db, s)
    BY <1>1, <1>5, <2>1, <2>4, <2>6 DEF Underway, Current
  <2>8. QED
    BY <1>1, <1>2, <2>4, <2>5, <2>6, <2>7, InsideStep DEF InTransaction
<1>6. QED
  BY <1>4, <1>5

LEMMA DeleteProjectRowInv ==
    ASSUME IInv, NEW t \in Threads, DeleteProjectRow(t)
    PROVE  IInv'
<1> DEFINE d == View(Runs[t])
           old == work[Runs[t]]
           ch == th[t].change
           td == th[t].todo
           less == [td EXCEPT !.dropP = @ \ {Current(t)}]
           e == [d EXCEPT !.p = @ \ {Current(t)}]
           to == IF th[t].kind = "delete_projects" THEN "release" ELSE "body"
           r == [th[t] EXCEPT !.todo = less, !.pc = to]
<1>1. th[t].pc = "row" /\ InBody(t) /\ Sees(t, e) /\ th' = [th EXCEPT ![t] = r]
  BY DEF DeleteProjectRow
<1>2. th[t].pc \in InTransaction
  BY <1>1 DEF InTransaction
<1>3. /\ th[t] \in Records /\ Shaped(th[t]) /\ d = old[Len(old)] /\ d \in Stores /\ db \in Stores
      /\ old \in Seq(Stores) /\ Underway(th[t], db, old)
  BY <1>2, InsideFacts
<1>4. /\ ch \in Changes /\ td \in Changes /\ ch.addP = {} /\ ch.addM = {}
      /\ th[t].kind \in Deletions
  BY <1>1, <1>3 DEF Records, Shaped
<1>5. /\ Possible(db, ch, td) /\ td.dropP # {} /\ Current(t) \in Partial(db, ch, td).p
      /\ d = [Partial(db, ch, td) EXCEPT !.m = @ \ RowsOf({Current(t)}, Partial(db, ch, td))]
      /\ Len(old) = IF th[t].kind = "delete_projects" THEN 3 ELSE 2
  BY <1>1, <1>3 DEF Underway, Current
<1>6. Current(t) \in td.dropP
  BY <1>5 DEF Current
<1>7. Partial(db, ch, less) = e /\ Possible(db, ch, less)
  <2> DEFINE p == Current(t)
             part == Partial(db, ch, td)
             cut == [part EXCEPT !.m = @ \ RowsOf({p}, part)]
  <2> HIDE DEF p, ch, td, d
  <2>1. ch \in Changes /\ td \in Changes /\ Possible(db, ch, td) /\ db \in Stores
    BY <1>3, <1>4, <1>5
  <2>2. ch.addP = {} /\ ch.addM = {} /\ p \in td.dropP /\ p \in Partial(db, ch, td).p /\ d = cut
    BY <1>4, <1>5, <1>6 DEF p
  <2>3. /\ Partial(db, ch, [td EXCEPT !.dropP = @ \ {p}]) = [cut EXCEPT !.p = @ \ {p}]
        /\ Possible(db, ch, [td EXCEPT !.dropP = @ \ {p}])
    BY <2>1, <2>2, DeletionDone
  <2>4. less = [td EXCEPT !.dropP = @ \ {p}] /\ e = [d EXCEPT !.p = @ \ {p}]
    BY DEF p
  <2> HIDE DEF less, e, cut
  <2>5. QED
    BY <2>2, <2>3, <2>4
<1>8. e \in Stores /\ less \in Changes
  BY <1>3, <1>4 DEF Stores, Changes
<1>9. PICK s \in Seq(Stores) : /\ work' = [work EXCEPT ![Runs[t]] = s]
                               /\ Len(s) = Len(old) /\ s[Len(s)] = e
  BY <1>1, <1>2, <1>8, SeesTop
<1>10. /\ r \in Records /\ r.pc = to /\ Shaped(r) /\ r.kind = th[t].kind
       /\ r.change = ch /\ r.todo = less
  BY <1>3, <1>4, <1>8 DEF Records, Changes, Pcs, Shaped, Holding, InTransaction, Imports, Deletions
<1> HIDE DEF r, less, e
<1>11. Underway(r, db, s)
  BY <1>5, <1>7, <1>9, <1>10 DEF Underway
<1>12. QED
  BY <1>1, <1>2, <1>9, <1>10, <1>11, InsideStep DEF InTransaction

LEMMA ReleaseInv ==
    ASSUME IInv, NEW t \in Threads, Release(t)
    PROVE  IInv'
<1> DEFINE old == work[Runs[t]]
           s == Append(SubSeq(old, 1, Len(old) - 2), old[Len(old)])
           r == [th[t] EXCEPT !.pc = "body"]
<1>1. /\ th[t].pc = "release" /\ th[t].pc \in InTransaction /\ InBody(t)
      /\ th' = [th EXCEPT ![t] = r] /\ work' = [work EXCEPT ![Runs[t]] = s]
  BY DEF Release, Goto, InTransaction
<1>2. /\ th[t] \in Records /\ Shaped(th[t])
      /\ old \in Seq(Stores) /\ Underway(th[t], db, old)
  BY <1>1, InsideFacts
<1>3. /\ Len(old) = 3 /\ old[Len(old)] = Partial(db, th[t].change, th[t].todo)
      /\ Possible(db, th[t].change, th[t].todo)
  BY <1>1, <1>2 DEF Underway
<1>4. s \in Seq(Stores) /\ Len(s) = 2 /\ s[Len(s)] = old[Len(old)]
  BY <1>2, <1>3, Released
<1>5. /\ r \in Records /\ r.pc = "body" /\ Shaped(r)
      /\ r.change = th[t].change /\ r.todo = th[t].todo
  BY <1>1, <1>2 DEF Records, Pcs, Shaped, Holding, InTransaction
<1> HIDE DEF r, s
<1>6. Underway(r, db, s)
  BY <1>3, <1>4, <1>5 DEF Underway
<1>7. QED
  BY <1>1, <1>4, <1>5, <1>6, InsideStep DEF InTransaction

LEMMA RollbackToInv ==
    ASSUME IInv, NEW t \in Threads, RollbackTo(t)
    PROVE  IInv'
<1> DEFINE old == work[Runs[t]]
           s == SubSeq(old, 1, Len(old) - 1)
<1>1. /\ th[t].pc = "unwind" /\ th[t].pc \in InTransaction /\ InBody(t) /\ Len(old) > 2
      /\ th' = [th EXCEPT ![t] = th[t]] /\ work' = [work EXCEPT ![Runs[t]] = s]
  BY DEF RollbackTo, InTransaction, IInv, TypeOK
<1>2. /\ th[t] \in Records /\ Shaped(th[t])
      /\ old \in Seq(Stores) /\ Underway(th[t], db, old)
  BY <1>1, InsideFacts
<1>3. s \in Seq(Stores) /\ Len(s) = 2
  BY <1>1, <1>2, Popped DEF Underway
<1> HIDE DEF s
<1>4. Underway(th[t], db, s)
  BY <1>1, <1>3 DEF Underway
<1>5. QED
  BY <1>1, <1>2, <1>3, <1>4, InsideStep

\* With nothing left to do, a transaction has made the whole change.
LEMMA AllDone ==
    ASSUME NEW d \in Stores, NEW ch \in Changes, Possible(d, ch, NoWrite), ch.dropM = {}
    PROVE  Partial(d, ch, NoWrite) = Changed(d, ch) /\ Accepted(d, ch)
<1>1. Partial(d, ch, NoWrite) = Changed(d, ch)
  BY DEF Partial, Changed, NoWrite
<1>2. QED
  BY <1>1 DEF Possible, Accepted, NoWrite

LEMMA CommitFacts ==
    ASSUME IInv, NEW t \in Threads, Commit(t)
    PROVE  /\ db' = Changed(db, th[t].change) /\ Accepted(db, th[t].change)
           /\ th[t].pc \in InTransaction
<1>1. th[t].pc = "body" /\ th[t].pc \in InTransaction /\ th[t].todo = NoWrite /\ db' = View(Runs[t])
  BY DEF Commit, InTransaction
<1>2. /\ th[t] \in Records /\ Shaped(th[t]) /\ db \in Stores
      /\ View(Runs[t]) = work[Runs[t]][Len(work[Runs[t]])]
      /\ Underway(th[t], db, work[Runs[t]])
  BY <1>1, InsideFacts
<1>3. th[t].change \in Changes /\ th[t].change.dropM = {}
  BY <1>1, <1>2 DEF Records, Shaped, Holding, InTransaction, Imports, Deletions
<1>4. View(Runs[t]) = Partial(db, th[t].change, NoWrite) /\ Possible(db, th[t].change, NoWrite)
  BY <1>1, <1>2 DEF Underway
<1>5. QED
  BY <1>1, <1>2, <1>3, <1>4, AllDone

LEMMA CommitInv ==
    ASSUME IInv, NEW t \in Threads, Commit(t)
    PROVE  IInv'
<1>1. /\ db' = Changed(db, th[t].change) /\ Accepted(db, th[t].change)
      /\ th[t].pc \in InTransaction
  BY CommitFacts
<1>2. db' \in Stores
  BY <1>1, ChangedTyped DEF IInv, TypeOK, Records
<1>3. NoOrphans'
  BY <1>1 DEF Accepted, Referenced, ForeignKey, NoOrphans
<1>4. QED
  BY <1>1, <1>2, <1>3, LetsGo DEF Commit, Leave, Holding

LEMMA RollbackInv ==
    ASSUME IInv, NEW t \in Threads, Rollback(t)
    PROVE  IInv'
<1>1. db' = db /\ th[t].pc \in InTransaction
  BY DEF Rollback, RolledBack, InTransaction
<1>2. NoOrphans' /\ db' \in Stores
  BY <1>1 DEF IInv, TypeOK, NoOrphans
<1>3. QED
  BY <1>1, <1>2, LetsGo DEF Rollback, Leave, Holding

LEMMA RaiseInv ==
    ASSUME IInv, NEW t \in Threads, Raise(t)
    PROVE  IInv'
<1>1. th[t].pc \in InTransaction
  BY DEF Raise, InTransaction
<1>2. QED
  BY <1>1, UnwindInv DEF Raise

\* A process that dies takes its transaction, its lock and its requests with it.
LEMMA CrashInv ==
    ASSUME IInv, NEW c \in Processes, Crash(c)
    PROVE  IInv'
<1>1. /\ th' = [t \in Threads |-> IF Runs[t] = c THEN Done ELSE th[t]]
      /\ lock' = [lock EXCEPT ![c] = NoOne]
      /\ work' = [work EXCEPT ![c] = <<>>]
      /\ writer' = IF writer = c THEN NoOne ELSE writer
      /\ answer' = [t \in Threads |-> IF Runs[t] = c /\ th[t] # Done THEN "none" ELSE answer[t]]
      /\ UNCHANGED db
  BY DEF Crash
<1>2. TypeOK'
  <2>1. <<>> \in Seq(Stores)
    OBVIOUS
  <2>2. th' \in [Threads -> Records] /\ answer' \in [Threads -> {"none", "ok", "failed"}]
    BY <1>1, DoneIsARecord DEF IInv, TypeOK
  <2>3. /\ db' \in Stores /\ lock' \in [Processes -> Threads \union {NoOne}]
        /\ writer' \in Processes \union {NoOne}
    BY <1>1 DEF IInv, TypeOK
  <2>4. work' \in [Processes -> Seq(Stores)]
    BY <1>1, <2>1 DEF IInv, TypeOK
  <2>5. QED
    BY <2>2, <2>3, <2>4 DEF TypeOK
<1>3. NoOrphans'
  BY <1>1 DEF IInv, NoOrphans
<1>4. ASSUME NEW t \in Threads PROVE Local(t)'
  <2>1. CASE Runs[t] = c
    <3>1. th'[t] = Done
      BY <1>1, <2>1
    <3>2. QED
      BY <3>1, DoneIsARecord DEF Local, Holding, InTransaction
  <2>2. CASE Runs[t] # c
    <3>1. /\ th'[t] = th[t] /\ answer'[t] = answer[t] /\ db' = db
          /\ lock'[Runs[t]] = lock[Runs[t]] /\ work'[Runs[t]] = work[Runs[t]]
      BY <1>1, <2>2, RunsAssumption DEF IInv, TypeOK
    <3>2. writer = Runs[t] => writer' = writer
      BY <1>1, <2>2
    <3>3. Local(t)
      BY DEF IInv
    <3>4. QED
      BY <3>1, <3>2, <3>3 DEF Local
  <2>3. QED
    BY <2>1, <2>2
<1>5. ASSUME NEW b \in Processes PROVE Owned(b)'
  <2>1. CASE b = c
    BY <1>1, <2>1 DEF IInv, TypeOK, Owned
  <2>2. CASE b # c
    <3>1. Owned(b) /\ work'[b] = work[b]
      BY <1>1, <2>2 DEF IInv, TypeOK
    <3>2. \A t \in Threads : Runs[t] = b => th'[t] = th[t]
      BY <1>1, <2>2
    <3>3. QED
      BY <3>1, <3>2 DEF Owned
  <2>3. QED
    BY <2>1, <2>2
<1>6. QED
  BY <1>2, <1>3, <1>4, <1>5 DEF IInv

LEMMA InitInv == Init => IInv
<1> SUFFICES ASSUME Init PROVE IInv
  OBVIOUS
<1>1. db \in Stores /\ Empty \in Stores
  BY EnvelopesAssumption DEF Init, Empty, Stores
<1>2. <<>> \in Seq(Stores)
  OBVIOUS
<1>3. TypeOK
  BY <1>1, <1>2, DoneIsARecord DEF Init, TypeOK
<1>4. \A t \in Threads : Local(t)
  BY DoneIsARecord DEF Init, Local, Holding, InTransaction
<1>5. \A c \in Processes : Owned(c)
  BY DEF Init, Owned
<1>6. QED
  BY <1>3, <1>4, <1>5 DEF IInv, Init, NoOrphans

LEMMA StutterInv == ASSUME IInv, UNCHANGED vars PROVE IInv'
<1>1. TypeOK' /\ NoOrphans'
  BY DEF vars, IInv, TypeOK, NoOrphans
<1>2. \A t \in Threads : Local(t)'
  BY DEF vars, IInv, Local
<1>3. \A c \in Processes : Owned(c)'
  BY DEF vars, IInv, Owned
<1>4. QED
  BY <1>1, <1>2, <1>3 DEF IInv

LEMMA NextInv == ASSUME IInv, Next PROVE IInv'
<1>1. ASSUME NEW t \in Threads, Serve(t) PROVE IInv'
  <2>1. CASE Call(t) \/ CallBusy(t)
    BY <2>1, CallInv, CallBusyInv
  <2>2. CASE \/ CheckProjects(t) \/ CheckMemory(t) \/ LookProjects(t) \/ LookMemory(t)
             \/ GetProject(t) \/ Find(t) \/ FindEnds(t) \/ ListProjects(t) \/ ListMemory(t)
    BY <2>2, ReadInv
  <2>3. CASE Enter(t) \/ Begin(t) \/ BeginBusy(t)
    BY <2>3, EnterInv, BeginInv, BeginBusyInv
  <2>4. CASE InsertProject(t) \/ InsertMemory(t) \/ Commit(t)
    BY <2>4, InsertProjectInv, InsertMemoryInv, CommitInv
  <2>5. CASE Savepoint(t) \/ DeleteRows(t) \/ DeleteProjectRow(t) \/ Release(t)
    BY <2>5, SavepointInv, DeleteRowsInv, DeleteProjectRowInv, ReleaseInv
  <2>6. CASE RollbackTo(t) \/ Rollback(t)
    BY <2>6, RollbackToInv, RollbackInv
  <2>7. QED
    BY <1>1, <2>1, <2>2, <2>3, <2>4, <2>5, <2>6 DEF Serve
<1>2. QED
  BY <1>1, RaiseInv, RequestInv, CrashInv DEF Next

-----------------------------------------------------------------------------
(* The theorems.                                                           *)

\* The invariant holds in every state of every behaviour: the lock and the write
\* transaction have one owner, and the stack of an open transaction holds exactly the part
\* of the request that its thread has done.
THEOREM Invariance == Spec => []IInv
<1>1. Init => IInv
  BY InitInv
<1>2. IInv /\ [Next]_vars => IInv'
  BY NextInv, StutterInv
<1>3. QED
  BY <1>1, <1>2, PTL DEF Spec

\* No memory is ever committed without its project, whatever threads and processes
\* interleave, wherever a transaction raises or its process dies: an import's inserts and
\* a deletion's cascade are committed together or not at all.
THEOREM NeverOrphaned == Spec => []NoOrphans
<1>1. IInv => NoOrphans
  BY DEF IInv
<1>2. QED
  BY <1>1, Invariance, PTL

-----------------------------------------------------------------------------
(* The refinement of AtomicStore.  A caller has asked for a change from    *)
(* the moment its request is past its reads until it is answered.          *)

Asked == [t \in Threads |-> IF Inside(t) THEN th[t].change ELSE NoChange]

\* What a step of thread t does to what is asked for.
LEMMA AskedStep ==
    ASSUME IInv, NEW t \in Threads, NEW r, th' = [th EXCEPT ![t] = r]
    PROVE  Asked' = [Asked EXCEPT ![t] = IF Inside(t)' THEN r.change ELSE NoChange]
<1>1. th'[t] = r /\ \A u \in Threads : u # t => th'[u] = th[u]
  BY DEF IInv, TypeOK
<1>2. ASSUME NEW u \in Threads, u # t PROVE Asked'[u] = Asked[u]
  BY <1>1, <1>2 DEF Asked, Inside
<1>3. Asked'[t] = IF Inside(t)' THEN r.change ELSE NoChange
  BY <1>1 DEF Asked
<1>4. QED
  BY <1>2, <1>3 DEF Asked

LEMMA AskedIs ==
    ASSUME IInv, NEW t \in Threads
    PROVE  /\ Inside(t) => Asked[t] = th[t].change /\ Asked[t] \in Changes /\ Asked[t] # NoChange
           /\ ~Inside(t) => Asked[t] = NoChange
<1>1. th[t].change \in Changes
  BY DEF IInv, TypeOK, Records
<1>2. QED
  BY <1>1, NoChangeAssumption DEF Asked, Changes

\* A request past its reads.
LEMMA AskRefines ==
    ASSUME IInv, NEW t \in Threads, NEW r \in Records, th' = [th EXCEPT ![t] = r],
           ~Inside(t), Inside(t)', answer' = [answer EXCEPT ![t] = "none"], UNCHANGED db
    PROVE  Atomic!Next
<1>1. Asked' = [Asked EXCEPT ![t] = r.change]
  BY AskedStep
<1>2. Asked[t] = NoChange /\ Asked'[t] = r.change /\ r.change \in Changes
  BY <1>1, AskedIs DEF Asked, Records
<1>3. Atomic!Ask(t)
  BY <1>1, <1>2 DEF Atomic!Ask, Atomic!Changes, Changes, Asked
<1>4. QED
  BY <1>3 DEF Atomic!Next

\* A request that has not got past its reads may be answered.
LEMMA ReadRefines ==
    ASSUME IInv, NEW t \in Threads, NEW r \in Records, th' = [th EXCEPT ![t] = r],
           ~Inside(t), ~Inside(t)', NEW a \in {"none", "ok", "failed"},
           answer' = [answer EXCEPT ![t] = a], UNCHANGED db
    PROVE  Atomic!Next
<1>1. Asked' = [Asked EXCEPT ![t] = NoChange] /\ Asked[t] = NoChange
  BY AskedStep, AskedIs
<1>2. Asked' = Asked
  BY <1>1 DEF Asked
<1>3. Atomic!Read(t)
  BY <1>1, <1>2 DEF Atomic!Read, Asked
<1>4. QED
  BY <1>3 DEF Atomic!Next

\* Steps on the way: the thread goes on asking for the same, or for nothing.
LEMMA OnTheWay ==
    ASSUME IInv, NEW t \in Threads, NEW r \in Records, th' = [th EXCEPT ![t] = r],
           Inside(t)' = Inside(t), Inside(t) => r.change = th[t].change, UNCHANGED <<db, answer>>
    PROVE  UNCHANGED <<db, Asked, answer>>
<1>1. Asked' = [Asked EXCEPT ![t] = IF Inside(t)' THEN r.change ELSE NoChange]
  BY AskedStep
<1>2. (IF Inside(t)' THEN r.change ELSE NoChange) = Asked[t]
  BY AskedIs
<1>3. QED
  BY <1>1, <1>2 DEF Asked

\* A request that fails.
LEMMA GiveUpRefines ==
    ASSUME IInv, NEW t \in Threads, Answer(t, "failed"), UNCHANGED db
    PROVE  Atomic!Next
<1>1. th' = [th EXCEPT ![t] = Done] /\ answer' = [answer EXCEPT ![t] = "failed"]
  BY DEF Answer
<1>2. th'[t] = Done
  BY <1>1 DEF IInv, TypeOK
<1>3. ~Inside(t)'
  BY <1>2, DoneIsARecord DEF Inside
<1>4. Asked' = [Asked EXCEPT ![t] = NoChange]
  BY <1>1, <1>3, AskedStep
<1>5. Asked' = [u \in Threads |-> IF u \in {t} THEN NoChange ELSE Asked[u]]
  BY <1>4 DEF Asked
<1>6. answer' = [u \in Threads |-> IF u \in {t} THEN "failed" ELSE answer[u]]
  BY <1>1 DEF IInv, TypeOK
<1>7. Atomic!GiveUp({t})
  BY <1>5, <1>6 DEF Atomic!GiveUp, Asked
<1>8. QED
  BY <1>7 DEF Atomic!Next

\* The two readings of a change agree.
LEMMA SameChange ==
    ASSUME NEW d \in Stores, NEW ch \in Changes
    PROVE  /\ Changed(d, ch) = Atomic!Applied(d, ch)
           /\ Accepted(d, ch) => Atomic!Applicable(d, ch)
<1>1. d.m \ RowsOf(ch.dropP, d) = {m \in d.m : Home[m] \notin ch.dropP}
  BY DEF RowsOf
<1>2. Changed(d, ch) = Atomic!Applied(d, ch)
  BY <1>1 DEF Changed, Atomic!Applied
<1>3. QED
  BY <1>2 DEF Accepted, Atomic!Applicable, Referenced, ForeignKey, Atomic!Sound

\* A change that takes effect.
LEMMA ApplyRefines ==
    ASSUME IInv, NEW t \in Threads, Inside(t), Accepted(db, th[t].change),
           db' = Changed(db, th[t].change), Answer(t, "ok")
    PROVE  Atomic!Next
<1>1. th' = [th EXCEPT ![t] = Done] /\ answer' = [answer EXCEPT ![t] = "ok"]
  BY DEF Answer
<1>2. th'[t] = Done
  BY <1>1 DEF IInv, TypeOK
<1>3. ~Inside(t)'
  BY <1>2, DoneIsARecord DEF Inside
<1>4. Asked' = [Asked EXCEPT ![t] = NoChange]
  BY <1>1, <1>3, AskedStep
<1>5. Asked[t] = th[t].change /\ Asked[t] \in Changes /\ Asked[t] # NoChange
  BY AskedIs
<1>6. Atomic!Applicable(db, Asked[t]) /\ db' = Atomic!Applied(db, Asked[t])
  BY <1>5, SameChange DEF IInv, TypeOK
<1>7. Atomic!Apply(t)
  BY <1>1, <1>4, <1>5, <1>6 DEF Atomic!Apply, Asked
<1>8. QED
  BY <1>7 DEF Atomic!Next

\* The requests of a process that dies.
LEMMA CrashRefines ==
    ASSUME IInv, NEW c \in Processes, Crash(c)
    PROVE  Atomic!Next
<1>0. PICK S \in SUBSET Threads : S = {t \in Threads : Runs[t] = c /\ th[t] # Done}
  OBVIOUS
<1>1. /\ th' = [t \in Threads |-> IF Runs[t] = c THEN Done ELSE th[t]]
      /\ answer' = [t \in Threads |-> IF t \in S THEN "none" ELSE answer[t]]
      /\ UNCHANGED db
  BY <1>0 DEF Crash
<1>2. ASSUME NEW t \in Threads PROVE Asked'[t] = IF t \in S THEN NoChange ELSE Asked[t]
  <2>1. CASE Runs[t] # c
    BY <1>0, <1>1, <2>1 DEF Asked, Inside
  <2>2. CASE Runs[t] = c
    <3>1. th'[t] = Done
      BY <1>1, <2>2
    <3>2. ~Inside(t)' /\ (th[t] = Done => ~Inside(t))
      BY <3>1, DoneIsARecord DEF Inside
    <3>3. QED
      BY <1>0, <2>2, <3>2 DEF Asked
  <2>3. QED
    BY <2>1, <2>2
<1>3. Asked' = [t \in Threads |-> IF t \in S THEN NoChange ELSE Asked[t]]
  BY <1>2 DEF Asked
<1>5. Atomic!GiveUp(S)
  BY <1>1, <1>3 DEF Atomic!GiveUp, Asked
<1>6. QED
  BY <1>5 DEF Atomic!Next

LEMMA RequestRefines ==
    ASSUME IInv, NEW t \in Threads, NEW kind \in Kinds, Request(t, kind)
    PROVE  Atomic!Next
<1>1. IInv'
  BY RequestInv
<1>2. PICK r : th' = [th EXCEPT ![t] = r]
  BY DEF Request
<1>3. r \in Records /\ th'[t] = r
  BY <1>1, <1>2 DEF IInv, TypeOK
<1>4. ~Inside(t) /\ answer' = [answer EXCEPT ![t] = "none"] /\ UNCHANGED db
  BY DoneIsARecord DEF Request, Inside
<1>5. CASE Inside(t)'
  BY <1>2, <1>3, <1>4, <1>5, AskRefines
<1>6. CASE ~Inside(t)'
  BY <1>2, <1>3, <1>4, <1>6, ReadRefines
<1>7. QED
  BY <1>5, <1>6

\* A read either answers, or goes on to the next read, or to the transaction.
LEMMA ReadsRefine ==
    ASSUME IInv, NEW t \in Threads,
           \/ CheckProjects(t) \/ CheckMemory(t) \/ LookProjects(t) \/ LookMemory(t)
           \/ GetProject(t) \/ Find(t) \/ FindEnds(t) \/ ListProjects(t) \/ ListMemory(t)
    PROVE  Atomic!Next
<1>1. IInv'
  BY ReadInv
<1>2. \E r : th' = [th EXCEPT ![t] = r]
  <2>1. ASSUME NEW pc, Goto(t, pc) PROVE \E r : th' = [th EXCEPT ![t] = r]
    BY <2>1 DEF Goto, IInv, TypeOK
  <2>2. ASSUME NEW a, Answer(t, a) PROVE \E r : th' = [th EXCEPT ![t] = r]
    BY <2>2 DEF Answer
  <2>3. CASE CheckProjects(t) \/ CheckMemory(t) \/ GetProject(t) \/ ListMemory(t)
    BY <2>1, <2>2, <2>3 DEF CheckProjects, CheckMemory, GetProject, ListMemory
  <2>4. CASE LookProjects(t)
    BY <2>4 DEF LookProjects
  <2>5. CASE LookMemory(t)
    BY <2>2, <2>5 DEF LookMemory
  <2>6. CASE Find(t)
    BY <2>6 DEF Find
  <2>7. CASE FindEnds(t) \/ ListProjects(t)
    BY <2>7 DEF FindEnds, ListProjects
  <2>8. QED
    BY <2>3, <2>4, <2>5, <2>6, <2>7
<1>3. PICK r : th' = [th EXCEPT ![t] = r]
  BY <1>2
<1>4. r \in Records /\ th'[t] = r
  BY <1>1, <1>3 DEF IInv, TypeOK
<1>5. ~Inside(t) /\ UNCHANGED db /\ th[t] # Done
  BY DoneIsARecord DEF Inside, CheckProjects, CheckMemory, LookProjects, LookMemory, GetProject,
     Find, FindEnds, ListProjects, ListMemory, ReadOnly
<1>6. answer[t] = "none"
  BY <1>5 DEF IInv, Local
<1>7. \/ UNCHANGED answer
      \/ \E a \in {"ok", "failed"} : Answer(t, a)
  BY DEF CheckProjects, CheckMemory, LookProjects, LookMemory, GetProject, Find, FindEnds,
     ListProjects, ListMemory
<1>8. CASE UNCHANGED answer
  <2>1. answer' = [answer EXCEPT ![t] = "none"]
    BY <1>6, <1>8 DEF IInv, TypeOK
  <2>2. CASE Inside(t)'
    BY <1>3, <1>4, <1>5, <2>1, <2>2, AskRefines
  <2>3. CASE ~Inside(t)'
    BY <1>3, <1>4, <1>5, <2>1, <2>3, ReadRefines
  <2>4. QED
    BY <2>2, <2>3
<1>9. CASE \E a \in {"ok", "failed"} : Answer(t, a)
  <2>1. PICK a \in {"ok", "failed"} : Answer(t, a)
    BY <1>9
  <2>2. answer' = [answer EXCEPT ![t] = a] /\ th'[t] = Done
    BY <2>1 DEF Answer, IInv, TypeOK
  <2>3. ~Inside(t)'
    BY <2>2, DoneIsARecord DEF Inside
  <2>4. QED
    BY <1>3, <1>4, <1>5, <2>2, <2>3, ReadRefines
<1>10. QED
  BY <1>7, <1>8, <1>9

LEMMA CallsRefine ==
    ASSUME IInv, NEW t \in Threads, Call(t) \/ CallBusy(t)
    PROVE  Atomic!Next
<1>1. CASE Call(t)
  <2>1. th[t].pc = "call" /\ MayCall(t)
    BY <1>1 DEF Call
  <2>2. work[Runs[t]] = <<>> /\ View(Runs[t]) = db
    BY <2>1, NobodyInside
  <2>3. CASE Accepted(db, th[t].change)
    BY <1>1, <2>1, <2>2, <2>3, ApplyRefines DEF Call, Write, Inside
  <2>4. CASE ~Accepted(db, th[t].change)
    BY <1>1, <2>2, <2>4, GiveUpRefines DEF Call
  <2>5. QED
    BY <2>3, <2>4
<1>2. CASE CallBusy(t)
  BY <1>2, GiveUpRefines DEF CallBusy
<1>3. QED
  BY <1>1, <1>2

\* The steps of transaction() that end nothing.
LEMMA BodyStutters ==
    ASSUME IInv, NEW t \in Threads, IInv',
           \/ Enter(t) \/ Begin(t) \/ (BeginBusy(t) /\ MayRetry(th[t].tries))
           \/ InsertProject(t) \/ InsertMemory(t) \/ Savepoint(t) \/ DeleteRows(t)
           \/ DeleteProjectRow(t) \/ Release(t) \/ RollbackTo(t) \/ Raise(t)
    PROVE  UNCHANGED <<db, Asked, answer>>
<1>1. UNCHANGED <<db, answer>> /\ Inside(t)
  BY DEF Enter, Begin, BeginBusy, InsertProject, InsertMemory, Savepoint, DeleteRows,
     DeleteProjectRow, Release, RollbackTo, Raise, InBody, Inside
<1>2. th[t] \in Records
  BY DEF IInv, TypeOK
<1>3. ASSUME NEW pc \in {"begin", "body", "nested", "row", "release", "unwind"}, Goto(t, pc)
      PROVE  \E r : th' = [th EXCEPT ![t] = r] /\ r.change = th[t].change /\ Inside(t)'
  BY <1>2, <1>3 DEF Goto, IInv, TypeOK, Records, Inside
<1>4. \E r : th' = [th EXCEPT ![t] = r] /\ r.change = th[t].change /\ Inside(t)'
  <2>1. CASE Enter(t) \/ Begin(t) \/ Savepoint(t) \/ Release(t) \/ Raise(t)
    BY <1>3, <2>1 DEF Enter, Begin, Savepoint, Release, Raise
  <2>2. CASE BeginBusy(t) /\ MayRetry(th[t].tries)
    BY <1>2, <2>2 DEF BeginBusy, IInv, TypeOK, Records, Inside
  <2>3. CASE InsertProject(t)
    BY <1>2, <1>3, <2>3 DEF InsertProject, IInv, TypeOK, Records, Inside
  <2>4. CASE InsertMemory(t)
    BY <1>2, <1>3, <2>4 DEF InsertMemory, IInv, TypeOK, Records, Inside
  <2>5. CASE DeleteRows(t)
    BY <1>3, <2>5 DEF DeleteRows
  <2>6. CASE DeleteProjectRow(t)
    BY <1>2, <2>6 DEF DeleteProjectRow, IInv, TypeOK, Records, Inside
  <2>7. CASE RollbackTo(t)
    BY <1>1, <2>7 DEF RollbackTo, IInv, TypeOK, Inside
  <2>8. QED
    BY <2>1, <2>2, <2>3, <2>4, <2>5, <2>6, <2>7
<1>5. PICK r : th' = [th EXCEPT ![t] = r] /\ r.change = th[t].change /\ Inside(t)'
  BY <1>4
<1>6. r \in Records
  BY <1>5 DEF IInv, TypeOK
<1>7. Inside(t)' = Inside(t)
  BY <1>1, <1>5 DEF Inside
<1>8. QED
  BY <1>1, <1>5, <1>6, <1>7, OnTheWay

LEMMA EndsRefine ==
    ASSUME IInv, NEW t \in Threads,
           Commit(t) \/ Rollback(t) \/ (BeginBusy(t) /\ ~MayRetry(th[t].tries))
    PROVE  Atomic!Next
<1>1. CASE Commit(t)
  <2>1. /\ db' = Changed(db, th[t].change) /\ Accepted(db, th[t].change) /\ Inside(t)
    BY <1>1, CommitFacts DEF Inside, InTransaction
  <2>2. QED
    BY <1>1, <2>1, ApplyRefines DEF Commit, Leave
<1>2. CASE Rollback(t)
  BY <1>2, GiveUpRefines DEF Rollback, RolledBack, Leave
<1>3. CASE BeginBusy(t) /\ ~MayRetry(th[t].tries)
  BY <1>3, GiveUpRefines DEF BeginBusy
<1>4. QED
  BY <1>1, <1>2, <1>3

AtomicStep == Atomic!Next \/ UNCHANGED <<db, Asked, answer>>

LEMMA NextRefines ==
    ASSUME IInv, Next
    PROVE  AtomicStep
<1>1. IInv'
  BY NextInv
<1>2. ASSUME NEW t \in Threads, Serve(t)
      PROVE  AtomicStep
  <2>1. CASE Call(t) \/ CallBusy(t)
    BY <2>1, CallsRefine DEF AtomicStep
  <2>2. CASE \/ CheckProjects(t) \/ CheckMemory(t) \/ LookProjects(t) \/ LookMemory(t)
             \/ GetProject(t) \/ Find(t) \/ FindEnds(t) \/ ListProjects(t) \/ ListMemory(t)
    BY <2>2, ReadsRefine DEF AtomicStep
  <2>3. CASE \/ Enter(t) \/ Begin(t) \/ (BeginBusy(t) /\ MayRetry(th[t].tries))
             \/ InsertProject(t) \/ InsertMemory(t) \/ Savepoint(t) \/ DeleteRows(t)
             \/ DeleteProjectRow(t) \/ Release(t) \/ RollbackTo(t)
    BY <1>1, <2>3, BodyStutters DEF AtomicStep
  <2>4. CASE Commit(t) \/ Rollback(t) \/ (BeginBusy(t) /\ ~MayRetry(th[t].tries))
    BY <2>4, EndsRefine DEF AtomicStep
  <2>5. QED
    BY <1>2, <2>1, <2>2, <2>3, <2>4 DEF Serve
<1>3. ASSUME NEW t \in Threads, Raise(t) PROVE AtomicStep
  BY <1>1, <1>3, BodyStutters DEF AtomicStep
<1>4. QED
  BY <1>2, <1>3, RequestRefines, CrashRefines DEF Next, AtomicStep

LEMMA InitRefines == Init => Atomic!Init
<1> SUFFICES ASSUME Init PROVE Atomic!Init
  OBVIOUS
<1>1. db \in Stores
  BY InitInv DEF IInv, TypeOK
<1>2. \A t \in Threads : ~Inside(t)
  BY DoneIsARecord DEF Init, Inside
<1>3. Asked = [t \in Threads |-> NoChange]
  BY <1>2 DEF Asked
<1>4. QED
  BY <1>1, <1>3 DEF Init, Atomic!Init, Atomic!Stores, Stores, Atomic!Sound, Asked

\* Every behaviour of the store's threads, processes, savepoints, retries and crashes is
\* one of AtomicStore: a request that changes the store takes effect in one step as a
\* whole and is answered "ok", or has no effect, and nothing else changes the store.
THEOREM StoreIsAtomic == Spec => AtomicSpec
<1>1. Init => Atomic!Init
  BY InitRefines
<1>2. IInv /\ [Next]_vars => [Atomic!Next]_<<db, Asked, answer>>
  <2>1. ASSUME IInv, UNCHANGED vars PROVE UNCHANGED <<db, Asked, answer>>
    BY <2>1 DEF vars, Asked, Inside
  <2>2. QED
    BY <2>1, NextRefines DEF AtomicStep
<1>3. QED
  BY <1>1, <1>2, Invariance, PTL DEF Spec, AtomicSpec, Atomic!Spec, Asked
=============================================================================
