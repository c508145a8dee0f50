----------------------------- MODULE AtomicStore -----------------------------
(***************************************************************************)
(* What the memory store promises its callers: a request to change the     *)
(* store is applied as a whole in one step and answered "ok", or leaves    *)
(* the store alone and is answered "failed".  No row is ever without its   *)
(* project.                                                                *)
(***************************************************************************)
EXTENDS Naturals

CONSTANTS Threads,   \* callers
          Projects, Memories,
          Home,      \* the project a memory belongs to, or NoProject
          NoProject,
          NoChange   \* nothing asked for

VARIABLES db,        \* the projects and the memories of the store
          asked,     \* the change each caller waits for
          answer     \* the last answer each caller got

Stores == [p : SUBSET Projects, m : SUBSET Memories]
Changes == [addP : SUBSET Projects, addM : SUBSET Memories,
            dropP : SUBSET Projects, dropM : SUBSET Memories]

Sound(d) == \A m \in d.m : Home[m] \in d.p \union {NoProject}

\* Dropping a project takes the memories it has by then.
Applied(d, ch) ==
  [p |-> (d.p \ ch.dropP) \union ch.addP,
   m |-> ({m \in d.m : Home[m] \notin ch.dropP} \ ch.dropM) \union ch.addM]

\* Nothing is added twice, and nothing absent is dropped.
Applicable(d, ch) ==
  /\ ch.addP \intersect d.p = {} /\ ch.addM \intersect d.m = {}
  /\ ch.dropP \subseteq d.p /\ ch.dropM \subseteq d.m
  /\ Sound(Applied(d, ch))

Init ==
  /\ db \in Stores /\ Sound(db)
  /\ asked = [t \in Threads |-> NoChange]
  /\ answer = [t \in Threads |-> "none"]

Ask(t) ==
  /\ asked[t] = NoChange
  /\ asked'[t] \in Changes /\ asked' = [asked EXCEPT ![t] = asked'[t]]
  /\ answer' = [answer EXCEPT ![t] = "none"]
  /\ UNCHANGED db

Apply(t) ==
  /\ asked[t] # NoChange /\ Applicable(db, asked[t])
  /\ db' = Applied(db, asked[t])
  /\ asked' = [asked EXCEPT ![t] = NoChange]
  /\ answer' = [answer EXCEPT ![t] = "ok"]

\* Callers that fail, or die together.
GiveUp(S) ==
  /\ asked' = [t \in Threads |-> IF t \in S THEN NoChange ELSE asked[t]]
  /\ \E a \in {"none", "failed"} : answer' = [t \in Threads |-> IF t \in S THEN a ELSE answer[t]]
  /\ UNCHANGED db

\* A caller that asked for no change may be answered too: a read.
Read(t) ==
  /\ asked[t] = NoChange
  /\ answer' \in {[answer EXCEPT ![t] = a] : a \in {"none", "ok", "failed"}}
  /\ UNCHANGED <<db, asked>>

Next ==
  \/ \E t \in Threads : Ask(t) \/ Apply(t) \/ Read(t)
  \/ \E S \in SUBSET Threads : GiveUp(S)

Spec == Init /\ [][Next]_<<db, asked, answer>>
=============================================================================
