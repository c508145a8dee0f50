---------------------------- MODULE ServiceProofs ---------------------------
(***************************************************************************)
(* Proofs about the serving process.  StoreStartup: for any number of      *)
(* processes and migrations, no process serves a database that is not      *)
(* migrated to the end, and the full-text index holds every memory but     *)
(* those written before any process had it.  Then the request pipeline     *)
(* with its rate limiter, and the metrics recorder, as instances.          *)
(***************************************************************************)
EXTENDS StoreStartup, HttpService, Integers, Sequences, FiniteSetTheorems, NaturalsInduction,
        WellFoundedInduction, TLAPS

LEMMA MinOfNaturals ==
    ASSUME NEW S \in SUBSET Nat, S # {}
    PROVE  Min(S) \in S /\ \A y \in S : Min(S) <= y
<1> DEFINE R == OpToRel(<, Nat)
<1>1. IsWellFoundedOn(R, Nat)
  BY NatLessThanWellFounded
<1>2. ASSUME NEW x \in Nat, NEW y \in Nat, y < x PROVE <<y, x>> \in R
  BY <1>2 DEF OpToRel
<1> HIDE DEF R
<1>3. PICK x \in S : \A y \in S : ~(<<y, x>> \in R)
  BY <1>1, WFMin
<1>4. ASSUME NEW y \in S PROVE x <= y
  <2>1. ~(y < x)
    BY <1>2, <1>3
  <2>2. QED
    BY <2>1
<1>5. QED
  BY <1>4 DEF Min

LEMMA MigrationsCounted == \E n \in Nat : Migrations = 1..n
  BY StartupAssumption, FS_CardinalityType

LEMMA MigrationsAreNumbers == Migrations \subseteq Nat
  BY StartupAssumption, MigrationsCounted

LEMMA Numbered ==
    /\ Cardinality(Migrations) \in Nat
    /\ Migrations = 1..Cardinality(Migrations)
<1>1. PICK n \in Nat : Migrations = 1..n
  BY StartupAssumption, MigrationsCounted
<1>2. Cardinality(1..n) = IF 1 > n THEN 0 ELSE n - 1 + 1
  BY FS_Interval
<1>3. Cardinality(1..n) = n
  BY <1>2
<1>4. QED
  BY <1>1, <1>3

\* The number a process is at: the least of those it has left.
LEMMA CurrentIsLeast ==
    ASSUME TypeOK, NEW p \in Procs, proc[p].pending # {}
    PROVE  /\ Current(p) \in proc[p].pending
           /\ Current(p) \in Migrations
           /\ \A v \in proc[p].pending : Current(p) <= v
<1>1. proc[p].pending \in SUBSET Migrations
  BY DEF TypeOK, Starts
<1>2. proc[p].pending \in SUBSET Nat
  BY <1>1, MigrationsAreNumbers
<1>3. QED
  BY <1>1, <1>2, MinOfNaturals DEF Current

-----------------------------------------------------------------------------
(* Type correctness.                                                       *)

LEMMA DownIsAStart == Down \in Starts
  BY DEF Down, Starts, Steps

\* A commit of one process leaves what the others are at.
LEMMA OutdatedKeeps ==
    ASSUME TypeOK, NEW p, NEW new \in Starts
    PROVE  /\ Outdated(p, new) \in [Procs -> Starts]
           /\ \A q \in Procs : q = p => Outdated(p, new)[q] = new
           /\ \A q \in Procs : q # p => /\ Outdated(p, new)[q].pc = proc[q].pc
                                        /\ Outdated(p, new)[q].pending = proc[q].pending
                                        /\ Outdated(p, new)[q].fts5 = proc[q].fts5
<1> DEFINE Late(q) == [proc[q] EXCEPT !.stale = @ \/ proc[q].pc = "checked"]
<1>1. ASSUME NEW q \in Procs
      PROVE  /\ Late(q) \in Starts
             /\ Late(q).pc = proc[q].pc /\ Late(q).pending = proc[q].pending
             /\ Late(q).fts5 = proc[q].fts5
  <2>1. proc[q] \in Starts
    BY DEF TypeOK
  <2> DEFINE flag == proc[q].stale \/ proc[q].pc = "checked"
  <2>2. flag \in BOOLEAN
    BY Zenon
  <2>3. Late(q) = [proc[q] EXCEPT !.stale = flag]
    OBVIOUS
  <2> HIDE DEF flag, Late
  <2>4. QED
    BY <2>1, <2>2, <2>3 DEF Starts
<1> HIDE DEF Late
<1>2. Outdated(p, new) = [q \in Procs |-> IF q = p THEN new ELSE Late(q)]
  BY DEF Outdated, Late
<1>3. QED
  BY <1>1, <1>2

LEMMA InitTyped == Init => TypeOK
<1> SUFFICES ASSUME Init PROVE TypeOK
  OBVIOUS
<1>1. versions \subseteq Migrations
  <2>1. PICK n \in 0..Cardinality(Migrations) : versions = 1..n
    BY DEF Init
  <2>2. QED
    BY <2>1, Numbered
<1>2. proc \in [Procs -> Starts]
  BY DownIsAStart DEF Init
<1>3. fts \in Indexes /\ gap \in [open : BOOLEAN, mem : SUBSET Mem]
  <2>1. alive \subseteq Mem
    BY DEF Init
  <2>2. CASE /\ fts = [probe |-> FALSE, table |-> FALSE, ai |-> FALSE, ad |-> FALSE, index |-> {}]
             /\ gap = [open |-> TRUE, mem |-> {}]
    BY <2>2 DEF Indexes
  <2>3. CASE /\ fts = [probe |-> FALSE, table |-> TRUE, ai |-> TRUE, ad |-> TRUE, index |-> alive]
             /\ gap = [open |-> FALSE, mem |-> {}]
    BY <2>1, <2>3 DEF Indexes
  <2>4. QED
    BY <2>2, <2>3 DEF Init
<1>4. QED
  BY <1>1, <1>2, <1>3 DEF Init, TypeOK

LEMMA AbortTyped ==
    ASSUME TypeOK, NEW p \in Procs, Abort(p)
    PROVE  /\ TypeOK'
           /\ \A q \in Procs : proc'[q] = IF q = p THEN Down ELSE proc[q]
<1>1. proc' = [proc EXCEPT ![p] = Down] /\ proc \in [Procs -> Starts]
  BY DEF Abort, TypeOK
<1>2. writer' \in Procs \union {Nobody}
  BY DEF Abort, TypeOK
<1>3. QED
  BY <1>1, <1>2, DownIsAStart DEF Abort, TypeOK, database

\* A step of the start that only moves one process on.
LEMMA GotoTyped ==
    ASSUME TypeOK, NEW p \in Procs, NEW to \in Steps, Goto(p, to)
    PROVE  /\ proc' \in [Procs -> Starts]
           /\ \A q \in Procs : /\ proc'[q].pc = IF q = p THEN to ELSE proc[q].pc
                               /\ proc'[q].pending = proc[q].pending
                               /\ proc'[q].fts5 = proc[q].fts5
  BY DEF Goto, TypeOK, Starts

LEMMA StatementTyped ==
    ASSUME TypeOK, NEW p \in Procs, NEW from, NEW to \in Steps,
           NEW new \in Indexes,
           Statement(p, from, to, new)
    PROVE  /\ TypeOK'
           /\ gap'.mem = gap.mem /\ gap'.open = (gap.open /\ to # "serving")
           /\ \A q \in Procs : /\ proc'[q].pc = IF q = p THEN to ELSE proc[q].pc
                               /\ proc'[q].pending = proc[q].pending
                               /\ proc'[q].fts5 = proc[q].fts5
<1> DEFINE mine == [proc[p] EXCEPT !.pc = to]
           shut == gap.open /\ to # "serving"
<1>1. mine \in Starts /\ mine.pc = to /\ mine.pending = proc[p].pending /\ mine.fts5 = proc[p].fts5
  BY DEF TypeOK, Starts
<1>2. /\ proc' = Outdated(p, mine) \/ Goto(p, to)
      /\ fts' = new /\ UNCHANGED <<versions, schema, naive, alive, writer>>
      /\ gap' = [gap EXCEPT !.open = shut]
  BY DEF Statement
<1> HIDE DEF mine
<1>3. shut \in BOOLEAN
  BY Zenon
<1> HIDE DEF shut
<1>4. /\ gap' \in [open : BOOLEAN, mem : SUBSET Mem]
      /\ gap'.mem = gap.mem /\ gap'.open = shut
  BY <1>2, <1>3 DEF TypeOK
<1>5. /\ proc' \in [Procs -> Starts]
      /\ \A q \in Procs : /\ proc'[q].pc = IF q = p THEN to ELSE proc[q].pc
                          /\ proc'[q].pending = proc[q].pending
                          /\ proc'[q].fts5 = proc[q].fts5
  <2>1. CASE proc' = Outdated(p, mine)
    BY <1>1, <2>1, OutdatedKeeps
  <2>2. CASE Goto(p, to)
    BY <2>2, GotoTyped
  <2>3. QED
    BY <1>2, <2>1, <2>2
<1>6. QED
  BY <1>2, <1>4, <1>5 DEF TypeOK, shut

LEMMA ReleaseMoves ==
    ASSUME TypeOK, NEW p \in Procs, Release(p), Current(p) \notin versions
    PROVE  /\ proc' \in [Procs -> Starts]
           /\ proc'[p].pc = "migrate" /\ proc'[p].pending = proc[p].pending \ {Current(p)}
           /\ proc'[p].fts5 = proc[p].fts5
           /\ \A q \in Procs : q # p => /\ proc'[q].pc = proc[q].pc
                                        /\ proc'[q].pending = proc[q].pending
                                        /\ proc'[q].fts5 = proc[q].fts5
<1> DEFINE mine == [proc[p] EXCEPT !.pc = "migrate", !.stale = FALSE, !.pending = @ \ {Current(p)}]
<1>1. /\ mine \in Starts /\ mine.pc = "migrate" /\ mine.fts5 = proc[p].fts5
      /\ mine.pending = proc[p].pending \ {Current(p)}
  BY DEF TypeOK, Starts, Steps
<1>2. proc' = Outdated(p, mine)
  BY DEF Release
<1> HIDE DEF mine
<1>3. QED
  BY <1>1, <1>2, OutdatedKeeps

LEMMA WriteMoves ==
    ASSUME TypeOK, NEW p \in Procs, proc' = Outdated(p, proc[p])
    PROVE  /\ proc' \in [Procs -> Starts]
           /\ \A q \in Procs : /\ proc'[q].pc = proc[q].pc
                               /\ proc'[q].pending = proc[q].pending
                               /\ proc'[q].fts5 = proc[q].fts5
<1>1. proc[p] \in Starts
  BY DEF TypeOK
<1>2. QED
  BY <1>1, OutdatedKeeps

LEMMA RepairMoves ==
    ASSUME TypeOK, Repair
    PROVE  /\ proc' \in [Procs -> Starts]
           /\ \A q \in Procs : \/ proc'[q] = Down
                               \/ /\ proc'[q].pc = proc[q].pc
                                  /\ proc'[q].pending = proc[q].pending
                                  /\ proc'[q].fts5 = proc[q].fts5
  BY DownIsAStart, OutdatedKeeps DEF Repair

-----------------------------------------------------------------------------
(* The inductive invariant: the recorded versions are an initial segment   *)
(* and say what is in the schema; a process that is up has everything that *)
(* is still missing on its list, however old its reading of the versions   *)
(* is; and past the check of the timestamps no bare one is left.           *)

Segment == \A v \in versions, w \in Migrations : w < v => w \in versions

Local(p) ==
    /\ proc[p].pc # "down" => Migrations \ versions \subseteq proc[p].pending
    /\ proc[p].pc \in {"probe", "drop", "table", "insert", "delete", "count", "rebuild", "serving"}
         => proc[p].pending = {}
    /\ proc[p].pc \in {"checked", "executed"} => proc[p].pending # {}
    /\ proc[p].pc = "checked" => ~naive
    /\ proc[p].pc = "executed" /\ Current(p) = Timestamps => ~naive

StartInv ==
    /\ TypeOK
    /\ schema = versions
    /\ Segment
    /\ naive => Timestamps \notin versions
    /\ \A p \in Procs : Local(p)

\* What a process knows stays true while others commit nothing.
LEMMA LocalFrame ==
    ASSUME StartInv, NEW q \in Procs, versions' = versions, naive' => naive,
           proc'[q].pc = proc[q].pc, proc'[q].pending = proc[q].pending
    PROVE  Local(q)'
<1>1. Current(q)' = Current(q)
  BY DEF Current
<1>2. QED
  BY <1>1 DEF StartInv, Local

LEMMA LocalDown ==
    ASSUME NEW q \in Procs, proc'[q] = Down
    PROVE  Local(q)'
  BY DEF Local, Down

LEMMA AbortInv ==
    ASSUME StartInv, NEW p \in Procs, Abort(p)
    PROVE  StartInv'
<1>1. TypeOK' /\ \A q \in Procs : proc'[q] = IF q = p THEN Down ELSE proc[q]
  BY AbortTyped DEF StartInv
<1>2. UNCHANGED <<versions, schema, naive>>
  BY DEF Abort, database
<1>3. ASSUME NEW q \in Procs PROVE Local(q)'
  <2>1. CASE q = p
    BY <1>1, <2>1, LocalDown
  <2>2. CASE q # p
    BY <1>1, <1>2, <2>2, LocalFrame
  <2>3. QED
    BY <2>1, <2>2
<1>4. QED
  BY <1>1, <1>2, <1>3 DEF StartInv, Segment

LEMMA OpenInv ==
    ASSUME StartInv, NEW p \in Procs, Open(p)
    PROVE  StartInv'
<1>1. PICK on \in Fts5 :
        proc' = [proc EXCEPT ![p] = [pc |-> "migrate", fts5 |-> on, stale |-> FALSE,
                                     pending |-> {v \in Migrations : \A w \in versions : v > w}]]
  BY DEF Open
<1>2. on \in BOOLEAN
  BY StartupAssumption, MigrationsCounted, Zenon
<1> DEFINE new == [pc |-> "migrate", fts5 |-> on, stale |-> FALSE,
                   pending |-> {v \in Migrations : \A w \in versions : v > w}]
<1>3. /\ new \in Starts /\ new.pc = "migrate"
      /\ new.pending = {v \in Migrations : \A w \in versions : v > w}
  BY <1>2 DEF Starts, Steps
<1> HIDE DEF new
<1>4. proc \in [Procs -> Starts] /\ versions \subseteq Migrations
  BY DEF StartInv, TypeOK
<1>5. /\ proc' \in [Procs -> Starts]
      /\ \A q \in Procs : proc'[q] = IF q = p THEN new ELSE proc[q]
  BY <1>1, <1>3, <1>4 DEF new
<1>6. UNCHANGED <<versions, schema, naive, alive, fts, gap, writer>>
  BY DEF Open, database
<1>7. Migrations \ versions \subseteq new.pending
  <2> SUFFICES ASSUME NEW v \in Migrations, v \notin versions, NEW w \in versions PROVE v > w
    BY <1>3
  <2>1. ~(v < w)
    BY DEF StartInv, Segment
  <2>2. QED
    BY <1>4, <2>1, MigrationsAreNumbers
<1>8. ASSUME NEW q \in Procs PROVE Local(q)'
  <2>1. CASE q = p
    BY <1>3, <1>5, <1>6, <1>7, <2>1 DEF Local
  <2>2. CASE q # p
    BY <1>5, <1>6, <2>2, LocalFrame
  <2>3. QED
    BY <2>1, <2>2
<1>9. QED
  BY <1>5, <1>6, <1>8 DEF StartInv, TypeOK, Segment

LEMMA CheckTimestampsInv ==
    ASSUME StartInv, NEW p \in Procs, CheckTimestamps(p)
    PROVE  StartInv'
<1>1. CASE Refuses(p)
  BY <1>1, AbortInv DEF CheckTimestamps
<1>2. CASE ~Refuses(p)
  <2>1. /\ proc' = [proc EXCEPT ![p].pc = "checked", ![p].stale = FALSE]
        /\ UNCHANGED <<versions, schema, naive, alive, fts, gap, writer>>
        /\ proc[p].pending # {} /\ proc[p].pc = "migrate" /\ ~naive
    BY <1>2 DEF CheckTimestamps, Refuses, database, At
  <2>2. proc \in [Procs -> Starts]
    BY DEF StartInv, TypeOK
  <2>3. /\ proc' \in [Procs -> Starts]
        /\ \A q \in Procs : /\ proc'[q].pc = IF q = p THEN "checked" ELSE proc[q].pc
                            /\ proc'[q].pending = proc[q].pending
    BY <2>1, <2>2 DEF Starts, Steps
  <2>4. ASSUME NEW q \in Procs PROVE Local(q)'
    <3>1. CASE q = p
      BY <2>1, <2>3, <3>1 DEF Local, StartInv
    <3>2. CASE q # p
      BY <2>1, <2>3, <3>2, LocalFrame
    <3>3. QED
      BY <3>1, <3>2
  <2>5. QED
    BY <2>1, <2>3, <2>4 DEF StartInv, TypeOK, Segment
<1>3. QED
  BY <1>1, <1>2

LEMMA ExecuteInv ==
    ASSUME StartInv, NEW p \in Procs, Execute(p)
    PROVE  StartInv'
<1>1. CASE Fails(p)
  BY <1>1, AbortInv DEF Execute
<1>2. CASE ~Fails(p)
  <2>1. /\ Goto(p, "executed") /\ writer' = p
        /\ UNCHANGED <<versions, schema, naive, alive, fts, gap>>
    BY <1>2 DEF Execute, database
  <2>2. /\ proc' \in [Procs -> Starts]
        /\ \A q \in Procs : /\ proc'[q].pc = IF q = p THEN "executed" ELSE proc[q].pc
                            /\ proc'[q].pending = proc[q].pending
    BY <2>1, GotoTyped DEF StartInv, Steps
  <2>3. Current(p)' = Current(p)
    BY <2>2 DEF Current
  <2>4. proc[p].pc \in {"checked", "migrate"} /\ proc[p].pending # {}
    BY DEF Execute, Migrates, At, StartInv, Local
  <2>5. Current(p) = Timestamps => ~naive
    BY DEF Execute, Migrates, At, StartInv, Local
  <2>6. ASSUME NEW q \in Procs PROVE Local(q)'
    <3>1. CASE q = p
      BY <2>1, <2>2, <2>3, <2>4, <2>5, <3>1 DEF Local, StartInv
    <3>2. CASE q # p
      BY <2>1, <2>2, <3>2, LocalFrame
    <3>3. QED
      BY <3>1, <3>2
  <2>7. QED
    BY <2>1, <2>2, <2>6 DEF StartInv, TypeOK, Segment
<1>3. QED
  BY <1>1, <1>2

LEMMA ReleaseInv ==
    ASSUME StartInv, NEW p \in Procs, Release(p)
    PROVE  StartInv'
<1>1. CASE Current(p) \in versions
  BY <1>1, AbortInv DEF Release
<1>2. CASE Current(p) \notin versions
  <2> DEFINE c == Current(p)
  <2>1. /\ versions' = versions \union {c} /\ schema' = schema \union {c}
        /\ writer' = Nobody /\ UNCHANGED <<naive, alive, fts, gap>>
        /\ proc[p].pc = "executed"
    BY <1>2 DEF Release, Commit, At
  <2>2. /\ proc' \in [Procs -> Starts]
        /\ proc'[p].pc = "migrate" /\ proc'[p].pending = proc[p].pending \ {c}
        /\ \A q \in Procs : q # p => proc'[q].pc = proc[q].pc /\ proc'[q].pending = proc[q].pending
    BY <1>2, ReleaseMoves DEF StartInv
  <2>3. proc[p].pending # {} /\ (c = Timestamps => ~naive)
    BY <2>1 DEF StartInv, Local
  <2>4. c \in Migrations /\ \A v \in proc[p].pending : c <= v
    BY <2>3, CurrentIsLeast DEF StartInv
  <2> HIDE DEF c
  <2>5. Segment'
    <3> SUFFICES ASSUME NEW v \in versions', NEW w \in Migrations, w < v PROVE w \in versions'
      BY DEF Segment
    <3>1. CASE v \in versions
      BY <2>1, <3>1 DEF StartInv, Segment
    <3>2. CASE v = c
      <4>1. w \notin proc[p].pending
        BY <2>4, <3>2, MigrationsAreNumbers
      <4>2. Migrations \ versions \subseteq proc[p].pending
        BY <2>1 DEF StartInv, Local
      <4>3. QED
        BY <2>1, <4>1, <4>2
    <3>3. QED
      BY <2>1, <3>1, <3>2
  <2>6. ASSUME NEW q \in Procs PROVE Local(q)'
    <3>1. Local(q)
      BY DEF StartInv
    <3>2. CASE q = p
      BY <2>1, <2>2, <3>1, <3>2 DEF Local
    <3>3. CASE q # p
      <4>1. Current(q)' = Current(q)
        BY <2>2, <3>3 DEF Current
      <4>2. QED
        BY <2>1, <2>2, <3>1, <3>3, <4>1 DEF Local
    <3>4. QED
      BY <3>2, <3>3
  <2>7. naive' => Timestamps \notin versions'
    BY <2>1, <2>3 DEF StartInv
  <2>8. TypeOK'
    BY <2>1, <2>2, <2>4 DEF StartInv, TypeOK
  <2>9. QED
    BY <2>1, <2>5, <2>6, <2>7, <2>8 DEF StartInv
<1>3. QED
  BY <1>1, <1>2

LEMMA MigratedInv ==
    ASSUME StartInv, NEW p \in Procs, Migrated(p)
    PROVE  StartInv'
<1>1. PICK to \in {"probe", "serving"} : Goto(p, to)
  BY DEF Migrated
<1>2. UNCHANGED <<versions, schema, naive, alive, fts, gap, writer>>
  BY DEF Migrated, database
<1>3. /\ proc' \in [Procs -> Starts]
      /\ \A q \in Procs : /\ proc'[q].pc = IF q = p THEN to ELSE proc[q].pc
                          /\ proc'[q].pending = proc[q].pending
  BY <1>1, GotoTyped DEF StartInv, Steps
<1>4. proc[p].pending = {} /\ proc[p].pc = "migrate"
  BY DEF Migrated, At
<1>5. ASSUME NEW q \in Procs PROVE Local(q)'
  <2>1. CASE q = p
    BY <1>2, <1>3, <1>4, <2>1 DEF Local, StartInv
  <2>2. CASE q # p
    BY <1>2, <1>3, <2>2, LocalFrame
  <2>3. QED
    BY <2>1, <2>2
<1>6. QED
  BY <1>2, <1>3, <1>5 DEF StartInv, TypeOK, Segment

\* The statements of _ensure_fts5 move one process between its last steps.
LEMMA StatementInv ==
    ASSUME StartInv, NEW p \in Procs,
           NEW from \in {"probe", "drop", "table", "insert", "delete", "count", "rebuild"},
           NEW to \in {"drop", "table", "insert", "delete", "count", "rebuild", "serving"},
           NEW new \in Indexes,
           Statement(p, from, to, new)
    PROVE  StartInv'
<1>1. /\ TypeOK'
      /\ \A q \in Procs : /\ proc'[q].pc = IF q = p THEN to ELSE proc[q].pc
                          /\ proc'[q].pending = proc[q].pending
  <2>1. TypeOK /\ to \in Steps
    BY DEF StartInv, Steps
  <2>2. QED
    BY <2>1, StatementTyped
<1>2. proc[p].pc = from /\ UNCHANGED <<versions, schema, naive>>
  BY DEF Statement, At
<1>3. ASSUME NEW q \in Procs PROVE Local(q)'
  <2>1. CASE q = p
    BY <1>1, <1>2, <2>1 DEF Local, StartInv
  <2>2. CASE q # p
    BY <1>1, <1>2, <2>2, LocalFrame
  <2>3. QED
    BY <2>1, <2>2
<1>4. QED
  BY <1>1, <1>2, <1>3 DEF StartInv, Segment

LEMMA FtsTyped ==
    ASSUME TypeOK
    PROVE  /\ [fts EXCEPT !.probe = TRUE] \in Indexes /\ [fts EXCEPT !.probe = FALSE] \in Indexes
           /\ [fts EXCEPT !.table = TRUE] \in Indexes /\ [fts EXCEPT !.ai = TRUE] \in Indexes
           /\ [fts EXCEPT !.ad = TRUE] \in Indexes /\ [fts EXCEPT !.index = alive] \in Indexes
           /\ fts \in Indexes
  BY DEF TypeOK, Indexes

\* What a memory written by p does to the index and to what it may miss.
LEMMA WriteTyped ==
    ASSUME TypeOK, NEW p \in Procs, NEW m \in Mem, AddMemory(p, m) \/ DeleteMemory(p, m)
    PROVE  /\ TypeOK'
           /\ \A q \in Procs : /\ proc'[q].pc = proc[q].pc
                               /\ proc'[q].pending = proc[q].pending
                               /\ proc'[q].fts5 = proc[q].fts5
           /\ gap'.open = gap.open
           /\ gap'.mem = IF gap.open /\ ~proc[p].fts5 THEN gap.mem \union {m} ELSE gap.mem \ {m}
           /\ fts'.ai = fts.ai /\ fts'.ad = fts.ad
<1>1. /\ proc' = Outdated(p, proc[p]) /\ UNCHANGED <<versions, schema, naive>>
      /\ alive' \subseteq Mem /\ writer' = Nobody
      /\ gap' = Missed(p, m)
  BY DEF AddMemory, DeleteMemory, TypeOK
<1>2. fts' \in Indexes /\ fts'.ai = fts.ai /\ fts'.ad = fts.ad
  <2>1. fts \in Indexes
    BY DEF TypeOK
  <2>2. fts' \in {fts, [fts EXCEPT !.index = @ \union {m}], [fts EXCEPT !.index = @ \ {m}]}
    BY DEF AddMemory, DeleteMemory
  <2>3. QED
    BY <2>1, <2>2 DEF Indexes
<1>3. /\ gap' \in [open : BOOLEAN, mem : SUBSET Mem] /\ gap'.open = gap.open
      /\ gap'.mem = IF gap.open /\ ~proc[p].fts5 THEN gap.mem \union {m} ELSE gap.mem \ {m}
  <2>1. gap \in [open : BOOLEAN, mem : SUBSET Mem]
    BY DEF TypeOK
  <2>2. CASE gap.open /\ ~proc[p].fts5
    BY <1>1, <2>1, <2>2 DEF Missed
  <2>3. CASE ~(gap.open /\ ~proc[p].fts5)
    BY <1>1, <2>1, <2>3 DEF Missed
  <2>4. QED
    BY <2>2, <2>3
<1>4. QED
  BY <1>1, <1>2, <1>3, WriteMoves DEF TypeOK

LEMMA WriteInv ==
    ASSUME StartInv, NEW p \in Procs, NEW m \in Mem, AddMemory(p, m) \/ DeleteMemory(p, m)
    PROVE  StartInv'
<1>1. UNCHANGED <<versions, schema, naive>>
  BY DEF AddMemory, DeleteMemory
<1>2. TypeOK' /\ \A q \in Procs : proc'[q].pc = proc[q].pc /\ proc'[q].pending = proc[q].pending
  BY WriteTyped DEF StartInv
<1>3. \A q \in Procs : Local(q)'
  BY <1>1, <1>2, LocalFrame
<1>4. QED
  BY <1>1, <1>2, <1>3 DEF StartInv, Segment

\* A process that gives the probe up serves.
LEMMA ProbeFailsMoves ==
    ASSUME TypeOK, NEW p \in Procs, ProbeFails(p)
    PROVE  /\ TypeOK'
           /\ UNCHANGED <<versions, schema, naive, alive, fts, gap>>
           /\ proc[p].pc \in {"probe", "drop"} /\ proc'[p].pc = "serving" /\ proc'[p].fts5 = FALSE
           /\ proc'[p].pending = proc[p].pending
           /\ \A q \in Procs : q # p => proc'[q] = proc[q]
<1>1. /\ proc' = [proc EXCEPT ![p].pc = "serving", ![p].fts5 = FALSE]
      /\ UNCHANGED <<versions, schema, naive, alive, fts, gap, writer>>
      /\ proc[p].pc \in {"probe", "drop"}
  BY DEF ProbeFails, database
<1>2. proc \in [Procs -> Starts] /\ "serving" \in Steps
  BY DEF TypeOK, Steps
<1>3. /\ proc' \in [Procs -> Starts]
      /\ proc'[p].pc = "serving" /\ proc'[p].fts5 = FALSE
      /\ proc'[p].pending = proc[p].pending
      /\ \A q \in Procs : q # p => proc'[q] = proc[q]
  BY <1>1, <1>2 DEF Starts
<1>4. QED
  BY <1>1, <1>3 DEF TypeOK

LEMMA ProbeFailsInv ==
    ASSUME StartInv, NEW p \in Procs, ProbeFails(p)
    PROVE  StartInv'
<1>1. /\ TypeOK' /\ UNCHANGED <<versions, schema, naive>>
      /\ proc[p].pc \in {"probe", "drop"} /\ proc'[p].pc = "serving"
      /\ proc'[p].pending = proc[p].pending
      /\ \A q \in Procs : q # p => proc'[q] = proc[q]
  BY ProbeFailsMoves DEF StartInv
<1>2. ASSUME NEW q \in Procs PROVE Local(q)'
  <2>1. CASE q = p
    BY <1>1, <2>1 DEF Local, StartInv
  <2>2. CASE q # p
    BY <1>1, <2>2, LocalFrame
  <2>3. QED
    BY <2>1, <2>2
<1>3. QED
  BY <1>1, <1>2 DEF StartInv, Segment

LEMMA BeginWriteInv ==
    ASSUME StartInv, NEW p \in Procs, BeginWrite(p)
    PROVE  StartInv'
<1>1. writer' = p /\ UNCHANGED <<versions, schema, naive, alive, fts, gap, proc>>
  BY DEF BeginWrite, database
<1>2. \A q \in Procs : Local(q)'
  BY <1>1, LocalFrame
<1>3. QED
  BY <1>1, <1>2 DEF StartInv, TypeOK, Segment

LEMMA RepairInv ==
    ASSUME StartInv, Repair
    PROVE  StartInv'
<1>1. naive' = FALSE /\ UNCHANGED <<versions, schema, alive, fts, gap, writer>>
  BY DEF Repair
<1>2. /\ proc' \in [Procs -> Starts]
      /\ \A q \in Procs : \/ proc'[q] = Down
                          \/ proc'[q].pc = proc[q].pc /\ proc'[q].pending = proc[q].pending
  BY RepairMoves DEF StartInv
<1>3. ASSUME NEW q \in Procs PROVE Local(q)'
  BY <1>1, <1>2, LocalDown, LocalFrame
<1>4. QED
  BY <1>1, <1>2, <1>3 DEF StartInv, TypeOK, Segment

LEMMA StartInvInit == Init => StartInv
<1> SUFFICES ASSUME Init PROVE StartInv
  OBVIOUS
<1>1. TypeOK
  BY InitTyped
<1>2. Segment
  <2>1. PICK n \in 0..Cardinality(Migrations) : versions = 1..n
    BY DEF Init
  <2>2. QED
    BY <2>1, Numbered DEF Segment
<1>3. \A p \in Procs : proc[p].pc = "down"
  BY DEF Init, Down
<1>4. QED
  BY <1>1, <1>2, <1>3 DEF Init, StartInv, Local

LEMMA StartInvStep == StartInv /\ [Next]_vars => StartInv'
<1> SUFFICES ASSUME StartInv, [Next]_vars PROVE StartInv'
  OBVIOUS
<1>1. ASSUME NEW p \in Procs, Starting(p) PROVE StartInv'
  <2>1. CASE EnsureFts5(p)
    <3>1. CASE CreateProbe(p)
      BY <3>1, StatementInv, FtsTyped DEF CreateProbe, StartInv
    <3>2. CASE DropProbe(p)
      BY <3>2, StatementInv, FtsTyped DEF DropProbe, StartInv
    <3>3. CASE CreateTable(p)
      BY <3>3, StatementInv, FtsTyped DEF CreateTable, StartInv
    <3>4. CASE InsertTrigger(p)
      BY <3>4, StatementInv, FtsTyped DEF InsertTrigger, StartInv
    <3>5. CASE DeleteTrigger(p)
      BY <3>5, StatementInv, FtsTyped DEF DeleteTrigger, StartInv
    <3>6. CASE Count(p)
      BY <3>6, StatementInv, FtsTyped DEF Count, StartInv
    <3>7. CASE Rebuild(p)
      BY <3>7, StatementInv, FtsTyped DEF Rebuild, StartInv
    <3>8. QED
      BY <2>1, <3>1, <3>2, <3>3, <3>4, <3>5, <3>6, <3>7 DEF EnsureFts5
  <2>2. QED
    BY <1>1, <2>1, OpenInv, CheckTimestampsInv, ExecuteInv, ReleaseInv, MigratedInv DEF Starting
<1>2. ASSUME NEW p \in Procs, Busy(p) \/ Crash(p) PROVE StartInv'
  BY <1>2, AbortInv DEF Busy, Crash
<1>3. ASSUME NEW p \in Procs, Close(p) PROVE StartInv'
  <2>1. /\ proc' = [proc EXCEPT ![p] = Down] /\ proc \in [Procs -> Starts]
        /\ UNCHANGED <<versions, schema, naive, alive, fts, gap, writer>>
    BY <1>3 DEF Close, database, StartInv, TypeOK
  <2>2. /\ proc' \in [Procs -> Starts]
        /\ \A q \in Procs : proc'[q] = IF q = p THEN Down ELSE proc[q]
    BY <2>1, DownIsAStart
  <2>3. \A q \in Procs : Local(q)'
    BY <2>1, <2>2, LocalDown, LocalFrame
  <2>4. QED
    BY <2>1, <2>2, <2>3 DEF StartInv, TypeOK, Segment
<1>4. CASE UNCHANGED vars
  <2>1. UNCHANGED <<versions, schema, naive, alive, fts, gap, writer, proc>>
    BY <1>4 DEF vars
  <2>2. \A q \in Procs : Local(q)'
    BY <2>1, LocalFrame
  <2>3. QED
    BY <2>1, <2>2 DEF StartInv, TypeOK, Segment
<1>5. QED
  BY <1>1, <1>2, <1>3, <1>4, WriteInv, BeginWriteInv, ProbeFailsInv, RepairInv DEF Next, Writing

\* The types of the state, for any number of processes and migrations.
THEOREM StartupTyped == Spec => []TypeOK
<1>1. StartInv => TypeOK
  BY DEF StartInv
<1>2. QED
  BY <1>1, StartInvInit, StartInvStep, PTL DEF Spec

\* No process serves a database that some migration has not finished with, however
\* many start at once, die in between or wait for the lock in vain (apply_pending).
THEOREM ServesMigrated == Spec => []ServesOnlyMigrated
<1>1. StartInv => ServesOnlyMigrated
  <2> SUFFICES ASSUME StartInv, NEW p \in Procs, Serving(p)
               PROVE  schema = Migrations /\ versions = Migrations /\ ~naive
    BY DEF ServesOnlyMigrated
  <2>1. proc[p].pc = "serving" /\ Local(p)
    BY DEF Serving, At, StartInv
  <2>2. Migrations \subseteq versions
    BY <2>1 DEF Local
  <2>3. QED
    BY <2>2, StartupAssumption, MigrationsCounted DEF StartInv, TypeOK
<1>2. QED
  BY <1>1, StartInvInit, StartInvStep, PTL DEF Spec

-----------------------------------------------------------------------------
(* The index follows the memories: a process with FTS5 in service has been *)
(* through _ensure_fts5, and nothing drops the triggers again, so that only *)
(* writes without FTS5, before the first process that has it, are missed.  *)

Triggered == fts.ai = TRUE /\ fts.ad = TRUE

Indexed ==
    /\ IndexComplete
    /\ gap.open = FALSE => Triggered
    /\ \A p \in Procs : /\ proc[p].pc = "delete" => fts.ai = TRUE
                        /\ proc[p].pc \in {"count", "rebuild"} => Triggered
                        /\ proc[p].pc = "serving" /\ proc[p].fts5 => Triggered

\* A statement of _ensure_fts5.
LEMMA StatementIndexed ==
    ASSUME TypeOK, Indexed, NEW p \in Procs, NEW from, NEW to \in Steps, NEW new \in Indexes,
           new.index \in {fts.index, alive},
           fts.ai = TRUE => new.ai = TRUE, fts.ad = TRUE => new.ad = TRUE,
           to = "delete" => new.ai = TRUE,
           to \in {"count", "rebuild", "serving"} => new.ai = TRUE /\ new.ad = TRUE,
           Statement(p, from, to, new)
    PROVE  Indexed'
<1>1. /\ \A q \in Procs : /\ proc'[q].pc = IF q = p THEN to ELSE proc[q].pc
                          /\ proc'[q].fts5 = proc[q].fts5
      /\ gap'.mem = gap.mem /\ gap'.open = (gap.open /\ to # "serving")
  BY StatementTyped
<1>2. fts' = new /\ alive' = alive
  BY DEF Statement
<1>3. gap.open \in BOOLEAN
  BY DEF TypeOK
<1>4. IndexComplete'
  BY <1>1, <1>2 DEF Indexed, IndexComplete
<1>5. gap'.open = FALSE => Triggered'
  <2>1. CASE to = "serving"
    BY <1>2, <2>1 DEF Triggered
  <2>2. CASE to # "serving"
    BY <1>1, <1>2, <1>3, <2>2 DEF Indexed, Triggered
  <2>3. QED
    BY <2>1, <2>2
<1>6. QED
  BY <1>1, <1>2, <1>4, <1>5 DEF Indexed, Triggered

LEMMA EnsureFts5Indexed ==
    ASSUME TypeOK, Indexed, NEW p \in Procs, EnsureFts5(p)
    PROVE  Indexed'
<1>1. fts \in Indexes /\ alive \subseteq Mem
  BY DEF TypeOK
<1>2. CASE CreateProbe(p)
  <2> DEFINE new == [fts EXCEPT !.probe = TRUE]
  <2>1. new \in Indexes /\ new.index = fts.index /\ new.ai = fts.ai /\ new.ad = fts.ad
    BY <1>1 DEF Indexes
  <2>2. Statement(p, "probe", "drop", new) /\ "drop" \in Steps
    BY <1>2 DEF CreateProbe, Steps
  <2> HIDE DEF new
  <2>3. QED
    BY <2>1, <2>2, StatementIndexed
<1>3. CASE DropProbe(p)
  <2> DEFINE new == [fts EXCEPT !.probe = FALSE]
  <2>1. new \in Indexes /\ new.index = fts.index /\ new.ai = fts.ai /\ new.ad = fts.ad
    BY <1>1 DEF Indexes
  <2>2. Statement(p, "drop", "table", new) /\ "table" \in Steps
    BY <1>3 DEF DropProbe, Steps
  <2> HIDE DEF new
  <2>3. QED
    BY <2>1, <2>2, StatementIndexed
<1>4. CASE CreateTable(p)
  <2> DEFINE new == [fts EXCEPT !.table = TRUE]
  <2>1. new \in Indexes /\ new.index = fts.index /\ new.ai = fts.ai /\ new.ad = fts.ad
    BY <1>1 DEF Indexes
  <2>2. Statement(p, "table", "insert", new) /\ "insert" \in Steps
    BY <1>4 DEF CreateTable, Steps
  <2> HIDE DEF new
  <2>3. QED
    BY <2>1, <2>2, StatementIndexed
<1>5. CASE InsertTrigger(p)
  <2> DEFINE new == [fts EXCEPT !.ai = TRUE]
  <2>1. new \in Indexes /\ new.index = fts.index /\ new.ai = TRUE /\ new.ad = fts.ad
    BY <1>1 DEF Indexes
  <2>2. Statement(p, "insert", "delete", new) /\ "delete" \in Steps
    BY <1>5 DEF InsertTrigger, Steps
  <2> HIDE DEF new
  <2>3. QED
    BY <2>1, <2>2, StatementIndexed
<1>6. CASE DeleteTrigger(p)
  <2> DEFINE new == [fts EXCEPT !.ad = TRUE]
  <2>1. new \in Indexes /\ new.index = fts.index /\ new.ai = fts.ai /\ new.ad = TRUE
    BY <1>1 DEF Indexes
  <2>2. Statement(p, "delete", "count", new) /\ "count" \in Steps
    BY <1>6 DEF DeleteTrigger, Steps
  <2>3. fts.ai = TRUE
    BY <2>2 DEF Statement, At, Indexed
  <2> HIDE DEF new
  <2>4. QED
    BY <2>1, <2>2, <2>3, StatementIndexed
<1>7. CASE Count(p)
  <2>1. PICK to \in {"rebuild", "serving"} : Statement(p, "count", to, fts)
    BY <1>7 DEF Count
  <2>2. to \in Steps /\ Triggered
    BY <2>1 DEF Statement, At, Indexed, Steps
  <2>3. QED
    BY <1>1, <2>1, <2>2, StatementIndexed DEF Triggered
<1>8. CASE Rebuild(p)
  <2> DEFINE new == [fts EXCEPT !.index = alive]
  <2>1. new \in Indexes /\ new.index = alive /\ new.ai = fts.ai /\ new.ad = fts.ad
    BY <1>1 DEF Indexes
  <2>2. Statement(p, "rebuild", "serving", new) /\ "serving" \in Steps
    BY <1>8 DEF Rebuild, Steps
  <2>3. Triggered
    BY <2>2 DEF Statement, At, Indexed
  <2> HIDE DEF new
  <2>4. QED
    BY <2>1, <2>2, <2>3, StatementIndexed DEF Triggered
<1>9. QED
  BY <1>2, <1>3, <1>4, <1>5, <1>6, <1>7, <1>8 DEF EnsureFts5

\* A step that leaves the database alone, and each process where it was or at a
\* step at which it relies on nothing.
LEMMA IndexedFrame ==
    ASSUME Indexed, alive' = alive, fts' = fts, gap' = gap,
           \A q \in Procs : \/ proc'[q].pc = proc[q].pc /\ proc'[q].fts5 = proc[q].fts5
                            \/ proc'[q].pc \notin {"delete", "count", "rebuild", "serving"}
                            \/ proc'[q].pc = "serving" /\ ~proc'[q].fts5
    PROVE  Indexed'
  BY DEF Indexed, IndexComplete, Triggered

LEMMA AbortIndexed ==
    ASSUME TypeOK, Indexed, NEW p \in Procs, Abort(p)
    PROVE  Indexed'
<1>1. \A q \in Procs : proc'[q] = IF q = p THEN Down ELSE proc[q]
  BY AbortTyped
<1>2. UNCHANGED <<alive, fts, gap>>
  BY DEF Abort, database
<1>3. Down.pc = "down"
  BY DEF Down
<1>4. QED
  BY <1>1, <1>2, <1>3, IndexedFrame

LEMMA WriteIndexed ==
    ASSUME TypeOK, Indexed, NEW p \in Procs, NEW m \in Mem, AddMemory(p, m) \/ DeleteMemory(p, m)
    PROVE  Indexed'
<1>1. /\ \A q \in Procs : proc'[q].pc = proc[q].pc /\ proc'[q].fts5 = proc[q].fts5
      /\ gap'.open = gap.open /\ fts'.ai = fts.ai /\ fts'.ad = fts.ad
      /\ gap'.mem = IF gap.open /\ ~proc[p].fts5 THEN gap.mem \union {m} ELSE gap.mem \ {m}
  BY WriteTyped
<1>2. fts \in Indexes /\ gap.open \in BOOLEAN /\ proc[p].pc = "serving"
  BY DEF TypeOK, AddMemory, DeleteMemory, At
<1>3. CASE gap.open /\ ~proc[p].fts5
  <2>1. ASSUME NEW n \in Mem, n # m PROVE /\ n \in fts'.index <=> n \in fts.index
                                          /\ n \in alive' <=> n \in alive
    BY <1>2, <2>1 DEF AddMemory, DeleteMemory, Indexes
  <2>2. IndexComplete'
    BY <1>1, <1>3, <2>1 DEF Indexed, IndexComplete
  <2>3. QED
    BY <1>1, <2>2 DEF Indexed, Triggered
<1>4. CASE ~(gap.open /\ ~proc[p].fts5)
  <2>1. Triggered
    BY <1>2, <1>4 DEF Indexed
  <2>2. /\ m \in fts'.index <=> m \in alive'
        /\ \A n \in Mem : n # m => /\ n \in fts'.index <=> n \in fts.index
                                   /\ n \in alive' <=> n \in alive
    <3>1. CASE AddMemory(p, m)
      BY <1>2, <2>1, <3>1 DEF AddMemory, Indexes, Triggered
    <3>2. CASE DeleteMemory(p, m)
      BY <1>2, <2>1, <3>2 DEF DeleteMemory, Indexes, Triggered
    <3>3. QED
      BY <3>1, <3>2
  <2>3. IndexComplete'
    BY <1>1, <1>4, <2>2 DEF Indexed, IndexComplete
  <2>4. QED
    BY <1>1, <2>3 DEF Indexed, Triggered
<1>5. QED
  BY <1>3, <1>4

LEMMA ReleaseIndexed ==
    ASSUME TypeOK, Indexed, NEW p \in Procs, Release(p)
    PROVE  Indexed'
<1>1. CASE Current(p) \in versions
  BY <1>1, AbortIndexed DEF Release
<1>2. CASE Current(p) \notin versions
  <2>1. UNCHANGED <<alive, fts, gap>>
    BY <1>2 DEF Release
  <2>2. /\ proc'[p].pc = "migrate" /\ proc'[p].fts5 = proc[p].fts5
        /\ \A q \in Procs : q # p => proc'[q].pc = proc[q].pc /\ proc'[q].fts5 = proc[q].fts5
    BY <1>2, ReleaseMoves
  <2>3. QED
    BY <2>1, <2>2, IndexedFrame
<1>3. QED
  BY <1>1, <1>2

LEMMA ExecuteIndexed ==
    ASSUME TypeOK, Indexed, NEW p \in Procs, Execute(p)
    PROVE  Indexed'
<1>1. CASE Fails(p)
  BY <1>1, AbortIndexed DEF Execute
<1>2. CASE ~Fails(p)
  <2>1. Goto(p, "executed") /\ UNCHANGED <<alive, fts, gap>>
    BY <1>2 DEF Execute, database
  <2>2. \A q \in Procs : /\ proc'[q].pc = IF q = p THEN "executed" ELSE proc[q].pc
                         /\ proc'[q].fts5 = proc[q].fts5
    BY <2>1, GotoTyped DEF Steps
  <2>3. QED
    BY <2>1, <2>2, IndexedFrame
<1>3. QED
  BY <1>1, <1>2

LEMMA CheckTimestampsIndexed ==
    ASSUME TypeOK, Indexed, NEW p \in Procs, CheckTimestamps(p)
    PROVE  Indexed'
<1>1. CASE Refuses(p)
  BY <1>1, AbortIndexed DEF CheckTimestamps
<1>2. CASE ~Refuses(p)
  <2>1. /\ proc' = [proc EXCEPT ![p].pc = "checked", ![p].stale = FALSE]
        /\ UNCHANGED <<alive, fts, gap>> /\ proc \in [Procs -> Starts]
    BY <1>2 DEF CheckTimestamps, database, TypeOK
  <2>2. \A q \in Procs : /\ proc'[q].pc = IF q = p THEN "checked" ELSE proc[q].pc
                         /\ proc'[q].fts5 = proc[q].fts5
    BY <2>1 DEF Starts
  <2>3. QED
    BY <2>1, <2>2, IndexedFrame
<1>3. QED
  BY <1>1, <1>2

LEMMA MigratedIndexed ==
    ASSUME TypeOK, Indexed, NEW p \in Procs, Migrated(p)
    PROVE  Indexed'
<1>1. UNCHANGED <<alive, fts, gap>>
  BY DEF Migrated, database
<1>2. PICK to \in {"probe", "serving"} : Goto(p, to) /\ (to = "serving" => ~proc[p].fts5)
  BY DEF Migrated
<1>3. \A q \in Procs : /\ proc'[q].pc = IF q = p THEN to ELSE proc[q].pc
                       /\ proc'[q].fts5 = proc[q].fts5
  BY <1>2, GotoTyped DEF Steps
<1>4. QED
  BY <1>1, <1>2, <1>3, IndexedFrame

\* Whatever crashed or timed out between the statements of _ensure_fts5, whoever
\* has FTS5 switched off and whoever gave its probe up, the index holds the
\* memories there are, but for those written without FTS5 before any process
\* had it in service.
THEOREM IndexFollows == Spec => []IndexComplete
<1>1. Init => Indexed
  <2> SUFFICES ASSUME Init PROVE Indexed
    OBVIOUS
  <2>1. \A p \in Procs : proc[p].pc = "down"
    BY DEF Init, Down
  <2>2. IndexComplete /\ (gap.open = FALSE => Triggered)
    <3>1. CASE /\ alive = {}
               /\ fts = [probe |-> FALSE, table |-> FALSE, ai |-> FALSE, ad |-> FALSE, index |-> {}]
               /\ gap = [open |-> TRUE, mem |-> {}]
      BY <3>1 DEF IndexComplete
    <3>2. CASE /\ fts = [probe |-> FALSE, table |-> TRUE, ai |-> TRUE, ad |-> TRUE, index |-> alive]
               /\ gap = [open |-> FALSE, mem |-> {}]
      BY <3>2 DEF IndexComplete, Triggered
    <3>3. QED
      BY <3>1, <3>2 DEF Init
  <2>3. QED
    BY <2>1, <2>2 DEF Indexed
<1>2. TypeOK /\ Indexed /\ [Next]_vars => Indexed'
  <2> SUFFICES ASSUME TypeOK, Indexed, [Next]_vars PROVE Indexed'
    OBVIOUS
  <2>1. ASSUME NEW p \in Procs, Open(p) PROVE Indexed'
    <3>1. PICK on \in Fts5 :
            proc' = [proc EXCEPT ![p] = [pc |-> "migrate", fts5 |-> on, stale |-> FALSE,
                                         pending |-> {v \in Migrations : \A w \in versions : v > w}]]
      BY <2>1 DEF Open
    <3>2. UNCHANGED <<alive, fts, gap>> /\ proc \in [Procs -> Starts]
      BY <2>1 DEF Open, database, TypeOK
    <3>3. \A q \in Procs : IF q = p THEN proc'[q].pc = "migrate" ELSE proc'[q] = proc[q]
      BY <3>1, <3>2
    <3>4. QED
      BY <3>2, <3>3, IndexedFrame
  <2>2. ASSUME NEW p \in Procs, Close(p) PROVE Indexed'
    <3>1. /\ proc' = [proc EXCEPT ![p] = Down] /\ proc \in [Procs -> Starts]
          /\ UNCHANGED <<alive, fts, gap>>
      BY <2>2 DEF Close, database, TypeOK
    <3>2. \A q \in Procs : IF q = p THEN proc'[q].pc = "down" ELSE proc'[q] = proc[q]
      BY <3>1 DEF Down
    <3>3. QED
      BY <3>1, <3>2, IndexedFrame
  <2>3. ASSUME NEW p \in Procs, Busy(p) \/ Crash(p) PROVE Indexed'
    BY <2>3, AbortIndexed DEF Busy, Crash
  <2>4. CASE Repair
    <3>1. \A q \in Procs : \/ proc'[q].pc = "down"
                           \/ proc'[q].pc = proc[q].pc /\ proc'[q].fts5 = proc[q].fts5
      BY <2>4, RepairMoves DEF Down
    <3>2. UNCHANGED <<alive, fts, gap>>
      BY <2>4 DEF Repair
    <3>3. QED
      BY <3>1, <3>2, IndexedFrame
  <2>5. CASE UNCHANGED vars
    <3>1. UNCHANGED <<alive, fts, gap, proc>>
      BY <2>5 DEF vars
    <3>2. QED
      BY <3>1, IndexedFrame
  <2>6. ASSUME NEW p \in Procs, Starting(p) PROVE Indexed'
    BY <2>1, <2>6, CheckTimestampsIndexed, ExecuteIndexed, ReleaseIndexed, MigratedIndexed,
       EnsureFts5Indexed DEF Starting
  <2>7. ASSUME NEW p \in Procs, ProbeFails(p) PROVE Indexed'
    <3>1. UNCHANGED <<alive, fts, gap>> /\ proc'[p].pc = "serving" /\ proc'[p].fts5 = FALSE
      BY <2>7, ProbeFailsMoves
    <3>2. \A q \in Procs : q # p => proc'[q] = proc[q]
      BY <2>7, ProbeFailsMoves
    <3>3. QED
      BY <3>1, <3>2, IndexedFrame
  <2>8. ASSUME NEW p \in Procs, BeginWrite(p) PROVE Indexed'
    <3>1. UNCHANGED <<alive, fts, gap, proc>>
      BY <2>8 DEF BeginWrite, database
    <3>2. QED
      BY <3>1, IndexedFrame
  <2>9. QED
    BY <2>2, <2>3, <2>4, <2>5, <2>6, <2>7, <2>8, WriteIndexed DEF Next, Writing
<1>3. Indexed => IndexComplete
  BY DEF Indexed
<1>4. QED
  BY <1>1, <1>2, <1>3, StartupTyped, PTL DEF Spec

-----------------------------------------------------------------------------
(***************************************************************************)
(* The request pipeline (RequestPipeline), for any requests, clients and   *)
(* configuration: what each request may rely on at each stage of its way,  *)
(* and gauges that are the sum of what requests and tools in progress add. *)
(***************************************************************************)


(* Http!Cardinality and Http!IsFiniteSet are the operators of FiniteSets. *)
LEMMA HttpSizes ==
  /\ \A S : Http!Cardinality(S) = Cardinality(S)
  /\ \A S : Http!IsFiniteSet(S) <=> IsFiniteSet(S)
BY DEF Http!Cardinality, Cardinality, Http!IsFiniteSet, IsFiniteSet
USE HttpSizes

\* Where a request can be, and what its slot holds.
Stages == {"host", "limit", "cors", "auth", "route", "handler", "transport", "call",
           "tool", "body", "done"}

RecordType ==
  [stage : Stages, in : Http!InputSet \cup {Http!Unused.in}, path : Http!Paths, charged : {0, 1},
   ran : BOOLEAN, shown : BOOLEAN, sent : Nat, seen : Nat, observed : {0, 1},
   running : BOOLEAN, executed : {0, 1}, outcomes : {0, 1}, outcome : Http!McpOutcomes \cup {"none", "cancelled"}]

\* The surface of a request, and what its guards ask of it.
OnMcp(q) == q.in.path \in {"/mcp", "/mcp/"}
HostOk(q) == Http!HostAllowed(q.in.host, Http!AlwaysAllowed \cup ApiHosts)
KeyOk(q) == KeySet => (Http!Excluded(q.in.path) \/ Http!RequestHasKey(q.in))

PastHost == {"limit", "cors", "auth", "route", "handler", "transport", "call", "tool"}
PastLimit == PastHost \ {"limit"}
PastAuth == PastLimit \ {"cors", "auth"}
InTool == {"call", "tool"}

\* The path rewrite of the /mcp mount keeps a request on its surface.
PathSound(q) ==
  /\ OnMcp(q) => q.path \in {"/mcp", "/mcp/"}
  /\ ~OnMcp(q) => q.path = q.in.path
  /\ q.stage \in InTool \cup {"transport"} => OnMcp(q)
  /\ q.stage = "handler" => ~OnMcp(q)

\* A request past a guard is one that the guard lets pass.
AdmissionSound(q, limit) ==
  /\ q.stage \in PastHost => (OnMcp(q) \/ HostOk(q))
  /\ q.stage \in {"host", "limit"} => q.charged = 0
  /\ (q.stage \in PastLimit /\ limit > 0) => q.charged = 1
  /\ q.stage \in PastAuth => KeyOk(q)
  /\ q.stage \in InTool => Http!McpHostAllowed(q.in.host)
  /\ (q.sent = 421 /\ ~OnMcp(q)) => q.charged = 0

\* All guards of its surface would let the request pass.
Admitted(q, limit) ==
  /\ IF OnMcp(q) THEN Http!McpHostAllowed(q.in.host) ELSE HostOk(q)
  /\ KeyOk(q)
  /\ limit > 0 => q.charged = 1

\* What ran was admitted; what was shown was shown to a key holder.
RanSound(q, limit) ==
  /\ q.ran = TRUE => Admitted(q, limit) /\ q.stage \in {"tool", "body", "done"}
  /\ q.shown = TRUE => (KeySet => Http!RequestHasKey(q.in))

\* Nothing is answered before the end, and nothing observed but the answer.
AnswerSound(q) ==
  /\ q.stage \notin {"body", "done"} => q.sent = Http!NoStatus
  /\ q.stage # "done" => q.observed = 0
  /\ q.observed = 1 => q.seen = Http!Recorded(q.sent)
  /\ q.stage = "done" => (q.observed = 1 <=> ~Http!Excluded(q.in.path))

\* A tool that runs has no outcome yet, and every other execution has one.
ToolSound(q) ==
  /\ q.running = TRUE => q.stage \in {"tool", "done"} /\ q.executed = 1 /\ q.outcomes = 0
  /\ q.running = FALSE => q.executed = q.outcomes
  /\ q.stage \in Stages \ {"tool", "body", "done"} => q.executed = 0
  /\ q.executed = 1 => q.in.argsKnown

\* What holds of one request, wherever it is.
QSound(q, limit) ==
  /\ q \in RecordType
  /\ PathSound(q) /\ AdmissionSound(q, limit) /\ RanSound(q, limit)
  /\ AnswerSound(q) /\ ToolSound(q)

\* The request as the next layer gets it.
GoesOn(q, stage) == [q EXCEPT !.stage = stage]

\* The fields of a request after one of them is set.
LEMMA OneFieldSet ==
  ASSUME NEW q \in RecordType
  PROVE  /\ \A v \in Stages : [q EXCEPT !.stage = v] \in RecordType
         /\ \A v \in Nat : [q EXCEPT !.sent = v] \in RecordType
         /\ \A v \in Nat : [q EXCEPT !.seen = v] \in RecordType
         /\ \A v \in {0, 1} : [q EXCEPT !.observed = v] \in RecordType
         /\ \A v \in {0, 1} : [q EXCEPT !.charged = v] \in RecordType
         /\ \A v \in {0, 1} : [q EXCEPT !.executed = v] \in RecordType
         /\ \A v \in {0, 1} : [q EXCEPT !.outcomes = v] \in RecordType
         /\ \A v \in BOOLEAN : [q EXCEPT !.ran = v] \in RecordType
         /\ \A v \in BOOLEAN : [q EXCEPT !.running = v] \in RecordType
         /\ \A v \in BOOLEAN : [q EXCEPT !.shown = v] \in RecordType
         /\ \A v \in Http!McpOutcomes \cup {"none", "cancelled"} : [q EXCEPT !.outcome = v] \in RecordType
BY DEF RecordType

\* A request that arrives.
LEMMA FreshSound ==
  ASSUME Http!PipelineAssumption, NEW in \in Inputs
  PROVE  QSound(Http!Fresh(in), rpm) /\ Http!Fresh(in).stage = "host" /\ Http!Fresh(in).running = FALSE
<1>1. in \in Http!InputSet /\ in.path \in Http!Paths
  BY DEF Http!PipelineAssumption, Http!InputSet
<1>2. Http!Fresh(in) \in RecordType
  BY <1>1 DEF Http!Fresh, RecordType, Stages, Http!NoStatus, Http!McpOutcomes
<1>3. PathSound(Http!Fresh(in))
  BY <1>1 DEF Http!Fresh, PathSound, OnMcp, InTool
<1>4. AdmissionSound(Http!Fresh(in), rpm)
  BY DEF Http!Fresh, AdmissionSound, PastHost, PastLimit, PastAuth, InTool, Http!NoStatus
<1>5. RanSound(Http!Fresh(in), rpm) /\ AnswerSound(Http!Fresh(in))
  BY DEF Http!Fresh, RanSound, AnswerSound, Http!NoStatus
<1>6. ToolSound(Http!Fresh(in))
  BY DEF Http!Fresh, ToolSound
<1> QED BY <1>2, <1>3, <1>4, <1>5, <1>6 DEF QSound, Http!Fresh

LEMMA UnusedSound ==
  QSound(Http!Unused, rpm) /\ Http!Unused.stage = "done" /\ Http!Unused.running = FALSE
<1> DEFINE in == [client |-> CHOOSE c \in Clients : TRUE, path |-> "/health",
                  host |-> Http!NoHost, bearer |-> "none", xkey |-> "none",
                  preflight |-> FALSE, argsKnown |-> TRUE]
<1>1. Http!Unused = [stage |-> "done", in |-> in, path |-> "/health", charged |-> 0,
     ran |-> FALSE, shown |-> FALSE, sent |-> Http!NoStatus, seen |-> Http!NoStatus,
     observed |-> 0, running |-> FALSE, executed |-> 0, outcomes |-> 0,
     outcome |-> "none"]
  <2> DEFINE f == FALSE
  <2>1. Http!Fresh(in) = [stage |-> "host", in |-> in, path |-> in.path, charged |-> 0,
     ran |-> f, shown |-> f, sent |-> Http!NoStatus, seen |-> Http!NoStatus,
     observed |-> 0, running |-> f, executed |-> 0, outcomes |-> 0,
     outcome |-> "none"]
    BY Zenon DEF Http!Fresh
  <2>2. Http!Unused = [Http!Fresh(in) EXCEPT !.stage = "done"] /\ in.path = "/health"
    BY DEF Http!Unused
  <2> HIDE DEF in, f
  <2>3. [Http!Fresh(in) EXCEPT !.stage = "done"] = [stage |-> "done", in |-> in, path |-> "/health", charged |-> 0,
     ran |-> f, shown |-> f, sent |-> Http!NoStatus, seen |-> Http!NoStatus,
     observed |-> 0, running |-> f, executed |-> 0, outcomes |-> 0,
     outcome |-> "none"]
    BY <2>1, <2>2
  <2> QED BY <2>2, <2>3, Zenon DEF f
<1> in.path = "/health"
  OBVIOUS
<1> HIDE DEF in
<1>2. Http!Unused \in RecordType
  BY <1>1 DEF RecordType, Stages, Http!NoStatus, Http!Paths, Http!McpOutcomes
<1>3. PathSound(Http!Unused)
  BY <1>1 DEF PathSound, OnMcp, InTool
<1>4. AdmissionSound(Http!Unused, rpm)
  BY <1>1 DEF AdmissionSound, PastHost, PastLimit, PastAuth, InTool, Http!NoStatus
<1>5. RanSound(Http!Unused, rpm) /\ AnswerSound(Http!Unused)
  BY <1>1 DEF RanSound, AnswerSound, Http!NoStatus, Http!Excluded
<1>6. ToolSound(Http!Unused)
  BY <1>1 DEF ToolSound
<1> QED BY <1>1, <1>2, <1>3, <1>4, <1>5, <1>6 DEF QSound

\* No layer has answered yet.
Waiting == Stages \ {"body", "done"}

\* A request that is answered where it stands.
LEMMA RespondSound ==
  ASSUME NEW q, QSound(q, rpm), q.stage \in Waiting, q.running = FALSE,
         NEW status \in Nat, status # Http!NoStatus,
         status = 421 => (OnMcp(q) \/ q.charged = 0)
  PROVE  QSound(Http!Respond(q, status), rpm)
<1> DEFINE y == Http!Respond(q, status)
<1>1. q \in RecordType
  BY DEF QSound
<1>2. /\ y.stage = "body" /\ y.sent = status /\ y.in = q.in /\ y.path = q.path /\ y.charged = q.charged
      /\ y.ran = q.ran /\ y.shown = q.shown /\ y.seen = q.seen /\ y.observed = q.observed
      /\ y.running = q.running /\ y.executed = q.executed /\ y.outcomes = q.outcomes
  BY <1>1 DEF Http!Respond, RecordType
<1>3. y \in RecordType
  BY <1>1 DEF Http!Respond, RecordType, Stages
<1> HIDE DEF y
<1>4. PathSound(y)
  BY <1>2 DEF QSound, PathSound, OnMcp, InTool
<1>5. AdmissionSound(y, rpm)
  BY <1>2 DEF QSound, AdmissionSound, OnMcp, PastHost, PastLimit, PastAuth, InTool
<1>6. RanSound(y, rpm)
  BY <1>2 DEF QSound, RanSound, Admitted, OnMcp, HostOk, KeyOk
<1>7. AnswerSound(y)
  BY <1>2 DEF QSound, AnswerSound, Waiting
<1>8. ToolSound(y)
  BY <1>2 DEF QSound, ToolSound
<1> QED BY <1>3, <1>4, <1>5, <1>6, <1>7, <1>8 DEF QSound, y

\* A request that a layer hands to the next one.
LEMMA GoesOnSound ==
  ASSUME NEW q, QSound(q, rpm), q.stage \in Waiting, q.stage \notin InTool,
         NEW y \in RecordType, y.stage \in Waiting \ {"tool"},
         y.in = q.in, y.sent = q.sent, y.ran = q.ran, y.shown = q.shown, y.seen = q.seen,
         y.observed = q.observed, y.running = q.running, y.executed = q.executed,
         y.outcomes = q.outcomes, PathSound(y), AdmissionSound(y, rpm)
  PROVE  QSound(y, rpm)
<1>1. q.ran \in BOOLEAN /\ q.ran # TRUE /\ q.running \in BOOLEAN /\ q.running # TRUE
  BY DEF QSound, RecordType, RanSound, ToolSound, Waiting, InTool
<1>2. RanSound(y, rpm)
  BY <1>1, Zenon DEF QSound, RanSound
<1>3. AnswerSound(y)
  BY DEF QSound, AnswerSound, Waiting
<1>4. ToolSound(y)
  BY <1>1 DEF QSound, ToolSound, Waiting, InTool
<1> QED BY <1>2, <1>3, <1>4 DEF QSound

LEMMA QuietUntilTool ==
  ASSUME NEW q, QSound(q, rpm), q.stage \in Waiting \ {"tool"}
  PROVE  q.running = FALSE /\ q.ran = FALSE
BY DEF QSound, RecordType, ToolSound, RanSound, Waiting

LEMMA StageMoves ==
  ASSUME NEW q, QSound(q, rpm), NEW stage \in Stages
  PROVE  LET y == [q EXCEPT !.stage = stage]
         IN /\ y \in RecordType /\ y.stage = stage /\ y.in = q.in /\ y.path = q.path
            /\ y.charged = q.charged /\ y.sent = q.sent /\ y.ran = q.ran /\ y.shown = q.shown
            /\ y.seen = q.seen /\ y.observed = q.observed /\ y.running = q.running
            /\ y.executed = q.executed /\ y.outcomes = q.outcomes
BY DEF QSound, RecordType

\* One lemma per layer: what the layer checked is what the next may rely on.
LEMMA HostOnSound ==
  ASSUME NEW q, QSound(q, rpm), q.stage = "host",
         Http!SkipsHostCheck(q.path) \/ HostOk(q)
  PROVE  QSound([q EXCEPT !.stage = "limit"], rpm)
<1> DEFINE y == [q EXCEPT !.stage = "limit"]
<1>1. /\ y \in RecordType /\ y.stage = "limit" /\ y.in = q.in /\ y.path = q.path
      /\ y.charged = q.charged /\ y.sent = q.sent /\ y.ran = q.ran /\ y.shown = q.shown
      /\ y.seen = q.seen /\ y.observed = q.observed /\ y.running = q.running
      /\ y.executed = q.executed /\ y.outcomes = q.outcomes
  BY StageMoves DEF Stages
<1> HIDE DEF y
<1>2. PathSound(y)
  BY <1>1 DEF QSound, PathSound, OnMcp, InTool
<1>3. OnMcp(q) \/ HostOk(q)
  BY DEF QSound, PathSound, OnMcp, Http!SkipsHostCheck
<1>4. AdmissionSound(y, rpm)
  BY <1>1, <1>3 DEF QSound, AdmissionSound, OnMcp, HostOk, PastLimit, PastHost, PastAuth, InTool
<1>5. QSound(y, rpm)
  BY <1>1, <1>2, <1>4, GoesOnSound DEF Waiting, Stages, InTool
<1> QED BY <1>5 DEF y

LEMMA LimitOnSound ==
  ASSUME NEW q, QSound(q, rpm), q.stage = "limit",
         NEW y \in RecordType, y.stage = "cors", y.in = q.in, y.path = q.path,
         rpm > 0 => y.charged = 1, y.sent = q.sent, y.ran = q.ran, y.shown = q.shown,
         y.seen = q.seen, y.observed = q.observed, y.running = q.running,
         y.executed = q.executed, y.outcomes = q.outcomes
  PROVE  QSound(y, rpm)
<1>1. PathSound(y)
  BY DEF QSound, PathSound, OnMcp, InTool
<1>2. AdmissionSound(y, rpm)
  BY DEF QSound, AdmissionSound, AnswerSound, Http!NoStatus, OnMcp, HostOk, PastLimit, PastHost, PastAuth, InTool
<1> QED BY <1>1, <1>2, GoesOnSound DEF Waiting, Stages, InTool

LEMMA CorsOnSound ==
  ASSUME NEW q, QSound(q, rpm), q.stage = "cors"
  PROVE  QSound([q EXCEPT !.stage = "auth"], rpm)
<1> DEFINE y == [q EXCEPT !.stage = "auth"]
<1>1. /\ y \in RecordType /\ y.stage = "auth" /\ y.in = q.in /\ y.path = q.path
      /\ y.charged = q.charged /\ y.sent = q.sent /\ y.ran = q.ran /\ y.shown = q.shown
      /\ y.seen = q.seen /\ y.observed = q.observed /\ y.running = q.running
      /\ y.executed = q.executed /\ y.outcomes = q.outcomes
  BY StageMoves DEF Stages
<1> HIDE DEF y
<1>2. PathSound(y)
  BY <1>1 DEF QSound, PathSound, OnMcp, InTool
<1>3. AdmissionSound(y, rpm)
  BY <1>1 DEF QSound, AdmissionSound, OnMcp, HostOk, PastLimit, PastHost, PastAuth, InTool
<1>4. QSound(y, rpm)
  BY <1>1, <1>2, <1>3, GoesOnSound DEF Waiting, Stages, InTool
<1> QED BY <1>4 DEF y

LEMMA AuthOnSound ==
  ASSUME NEW q, QSound(q, rpm), q.stage = "auth",
         ~KeySet \/ Http!Exempt(q.path) \/ Http!KeyMatches(Http!ExtractKey(q.in))
  PROVE  QSound([q EXCEPT !.stage = "route"], rpm)
<1> DEFINE y == [q EXCEPT !.stage = "route"]
<1>1. /\ y \in RecordType /\ y.stage = "route" /\ y.in = q.in /\ y.path = q.path
      /\ y.charged = q.charged /\ y.sent = q.sent /\ y.ran = q.ran /\ y.shown = q.shown
      /\ y.seen = q.seen /\ y.observed = q.observed /\ y.running = q.running
      /\ y.executed = q.executed /\ y.outcomes = q.outcomes
  BY StageMoves DEF Stages
<1> HIDE DEF y
<1>2. PathSound(y)
  BY <1>1 DEF QSound, PathSound, OnMcp, InTool
<1>3. KeyOk(q)
  BY DEF QSound, PathSound, KeyOk, Http!RequestHasKey, Http!Exempt, Http!Excluded
<1>4. AdmissionSound(y, rpm)
  BY <1>1, <1>3 DEF QSound, AdmissionSound, OnMcp, HostOk, KeyOk, PastLimit, PastHost, PastAuth, InTool
<1>5. QSound(y, rpm)
  BY <1>1, <1>2, <1>4, GoesOnSound DEF Waiting, Stages, InTool
<1> QED BY <1>5 DEF y

LEMMA RouteOnSound ==
  ASSUME NEW q, QSound(q, rpm), q.stage = "route",
         NEW y \in RecordType, y.in = q.in, y.path \in Http!Paths,
         y.charged = q.charged, y.sent = q.sent, y.ran = q.ran, y.shown = q.shown,
         y.seen = q.seen, y.observed = q.observed, y.running = q.running,
         y.executed = q.executed, y.outcomes = q.outcomes,
         y.stage \in {"route", "transport", "handler"}, PathSound(y)
  PROVE  QSound(y, rpm)
<1>1. AdmissionSound(y, rpm)
  BY DEF QSound, AdmissionSound, OnMcp, HostOk, KeyOk, PastLimit, PastHost, PastAuth, InTool
<1> QED BY <1>1, GoesOnSound DEF Waiting, Stages, InTool

LEMMA RoutedSound ==
  ASSUME NEW q, QSound(q, rpm), q.stage = "route",
         NEW y, y = CASE q.path = "/mcp" -> Http!ServeExactMcpPath(q)
                      [] q.path = "/mcp/" -> [q EXCEPT !.stage = "transport"]
                      [] OTHER -> [q EXCEPT !.stage = "handler"]
  PROVE  QSound(y, rpm) /\ y.stage # "done" /\ y.running = q.running
<1>1. q \in RecordType /\ q.path \in Http!Paths
  BY DEF QSound, RecordType
<1>2. CASE q.path = "/mcp"
  <2>1. y = [q EXCEPT !.path = "/mcp/", !.stage = "route"]
    BY <1>2 DEF Http!ServeExactMcpPath
  <2>2. /\ y \in RecordType /\ y.stage = "route" /\ y.in = q.in /\ y.path = "/mcp/"
        /\ y.charged = q.charged /\ y.sent = q.sent /\ y.ran = q.ran /\ y.shown = q.shown
        /\ y.seen = q.seen /\ y.observed = q.observed /\ y.running = q.running
        /\ y.executed = q.executed /\ y.outcomes = q.outcomes
    BY <1>1, <2>1 DEF RecordType, Http!Paths, Stages
  <2>3. PathSound(y)
    BY <1>2, <2>2 DEF QSound, PathSound, OnMcp, InTool
  <2>4. QSound(y, rpm)
    BY <2>2, <2>3, RouteOnSound DEF Http!Paths
  <2> QED BY <2>2, <2>4
<1>3. CASE q.path = "/mcp/"
  <2>1. y = [q EXCEPT !.stage = "transport"]
    BY <1>3
  <2>2. /\ y \in RecordType /\ y.stage = "transport" /\ y.in = q.in /\ y.path = q.path
        /\ y.charged = q.charged /\ y.sent = q.sent /\ y.ran = q.ran /\ y.shown = q.shown
        /\ y.seen = q.seen /\ y.observed = q.observed /\ y.running = q.running
        /\ y.executed = q.executed /\ y.outcomes = q.outcomes
    BY <1>1, <2>1 DEF RecordType, Stages
  <2>3. PathSound(y)
    BY <1>3, <2>2 DEF QSound, PathSound, OnMcp, InTool
  <2>4. QSound(y, rpm)
    BY <1>1, <2>2, <2>3, RouteOnSound
  <2> QED BY <2>2, <2>4
<1>4. CASE q.path \notin {"/mcp", "/mcp/"}
  <2>1. y = [q EXCEPT !.stage = "handler"]
    BY <1>4
  <2>2. /\ y \in RecordType /\ y.stage = "handler" /\ y.in = q.in /\ y.path = q.path
        /\ y.charged = q.charged /\ y.sent = q.sent /\ y.ran = q.ran /\ y.shown = q.shown
        /\ y.seen = q.seen /\ y.observed = q.observed /\ y.running = q.running
        /\ y.executed = q.executed /\ y.outcomes = q.outcomes
    BY <1>1, <2>1 DEF RecordType, Stages
  <2>3. PathSound(y)
    BY <1>4, <2>2 DEF QSound, PathSound, OnMcp, InTool
  <2>4. QSound(y, rpm)
    BY <1>1, <2>2, <2>3, RouteOnSound
  <2> QED BY <2>2, <2>4
<1> QED BY <1>2, <1>3, <1>4

LEMMA StatusesAreNat ==
  \A end \in DOMAIN Http!StatusOf : Http!StatusOf[end] \in Nat /\ Http!StatusOf[end] \notin {Http!NoStatus, 421}
BY DEF Http!StatusOf, Http!NoStatus

LEMMA HandledSound ==
  ASSUME NEW q, QSound(q, rpm), q.stage = "handler",
         NEW x, QSound(x, rpm), x.stage = "body", x.in = q.in, x.charged = q.charged,
         NEW y \in RecordType, y.stage = x.stage, y.in = x.in, y.path = x.path,
         y.charged = x.charged, y.sent = x.sent, y.ran = TRUE,
         y.shown = TRUE => (KeySet => Http!RequestHasKey(q.in)),
         y.seen = x.seen, y.observed = x.observed, y.running = x.running,
         y.executed = x.executed, y.outcomes = x.outcomes
  PROVE  QSound(y, rpm)
<1>1. Admitted(q, rpm)
  BY DEF QSound, PathSound, AdmissionSound, Admitted, PastHost, PastLimit, PastAuth
<1>2. RanSound(y, rpm)
  BY <1>1 DEF RanSound, Admitted, OnMcp, HostOk, KeyOk
<1>3. PathSound(y) /\ AnswerSound(y) /\ ToolSound(y)
  BY DEF QSound, PathSound, OnMcp, AnswerSound, ToolSound
<1>4. AdmissionSound(y, rpm)
  BY DEF QSound, AdmissionSound, OnMcp, HostOk, KeyOk
<1> QED BY <1>2, <1>3, <1>4 DEF QSound

\* y is x with its handler run, and with paths shown if b.
RanAndShown(x, y, b) ==
  /\ y \in RecordType
  /\ y.stage = x.stage /\ y.in = x.in /\ y.path = x.path
  /\ y.charged = x.charged /\ y.sent = x.sent
  /\ y.ran = TRUE /\ y.shown = b
  /\ y.seen = x.seen /\ y.observed = x.observed /\ y.running = x.running
  /\ y.executed = x.executed /\ y.outcomes = x.outcomes

LEMMA ShownSet ==
  ASSUME NEW x \in RecordType, NEW b \in {TRUE, FALSE}, NEW y,
         y = [x EXCEPT !.ran = TRUE, !.shown = b]
  PROVE  RanAndShown(x, y, b)
<1> DEFINE z == [x EXCEPT !.ran = TRUE]
<1>1. y = [z EXCEPT !.shown = b]
  OBVIOUS
<1>2. z \in RecordType
  BY OneFieldSet
<1>3. z.stage = x.stage /\ z.in = x.in /\ z.path = x.path /\ z.charged = x.charged /\ z.sent = x.sent
  BY DEF RecordType
<1>4. z.ran = TRUE /\ z.seen = x.seen /\ z.observed = x.observed /\ z.running = x.running
      /\ z.executed = x.executed /\ z.outcomes = x.outcomes
  BY DEF RecordType
<1> HIDE DEF z
<1>5. y \in RecordType
  BY <1>1, <1>2, OneFieldSet
<1>6. y.stage = z.stage /\ y.in = z.in /\ y.path = z.path /\ y.charged = z.charged /\ y.sent = z.sent
  BY <1>1, <1>2 DEF RecordType
<1>7. y.seen = z.seen /\ y.observed = z.observed
      /\ y.executed = z.executed /\ y.outcomes = z.outcomes
  BY <1>1, <1>2 DEF RecordType
<1>8. y.ran = z.ran /\ y.running = z.running
  BY <1>1, <1>2 DEF RecordType
<1>9. y.shown = b
  BY <1>1, <1>2 DEF RecordType
<1> QED BY <1>3, <1>4, <1>5, <1>6, <1>7, <1>8, <1>9 DEF RanAndShown

LEMMA LeftSound ==
  ASSUME NEW q, QSound(q, rpm), q.stage # "done"
  PROVE  LET y == [Http!Observe(q) EXCEPT !.stage = "done"]
         IN QSound(y, rpm) /\ y.stage = "done" /\ y.running = q.running
<1> DEFINE y == [Http!Observe(q) EXCEPT !.stage = "done"]
<1>1. q \in RecordType /\ q.observed = 0 /\ Http!Recorded(q.sent) \in Nat
  BY DEF QSound, AnswerSound, RecordType, Http!Recorded
<1>2. /\ y \in RecordType /\ y.stage = "done" /\ y.in = q.in /\ y.path = q.path
      /\ y.charged = q.charged /\ y.sent = q.sent /\ y.ran = q.ran /\ y.shown = q.shown
      /\ y.running = q.running /\ y.executed = q.executed /\ y.outcomes = q.outcomes
      /\ y.observed = (IF Http!Excluded(q.in.path) THEN 0 ELSE 1)
      /\ ~Http!Excluded(q.in.path) => y.seen = Http!Recorded(q.sent)
  <2>1. CASE Http!Excluded(q.in.path)
    <3>1. y = [q EXCEPT !.stage = "done"]
      BY <2>1 DEF Http!Observe
    <3> HIDE DEF y
    <3> QED BY <1>1, <2>1, <3>1 DEF RecordType, Stages
  <2>2. CASE ~Http!Excluded(q.in.path)
    <3>1. y = [[q EXCEPT !.observed = @ + 1, !.seen = Http!Recorded(q.sent)] EXCEPT !.stage = "done"]
      BY <2>2 DEF Http!Observe
    <3> HIDE DEF y
    <3>2. y = [q EXCEPT !.observed = 1, !.seen = Http!Recorded(q.sent), !.stage = "done"]
      BY <1>1, <3>1 DEF RecordType
    <3> QED BY <1>1, <2>2, <3>2 DEF RecordType, Stages
  <2> QED BY <2>1, <2>2
<1> HIDE DEF y
<1>3. PathSound(y)
  BY <1>2 DEF QSound, PathSound, OnMcp, InTool
<1>4. AdmissionSound(y, rpm)
  BY <1>2 DEF QSound, AdmissionSound, OnMcp, PastHost, PastLimit, PastAuth, InTool
<1>5. RanSound(y, rpm)
  BY <1>2 DEF QSound, RanSound, Admitted, OnMcp, HostOk, KeyOk
<1>6. AnswerSound(y)
  BY <1>2 DEF AnswerSound
<1>7. ToolSound(y)
  BY <1>2 DEF QSound, ToolSound
<1>8. QSound(y, rpm) /\ y.stage = "done" /\ y.running = q.running
  BY <1>2, <1>3, <1>4, <1>5, <1>6, <1>7 DEF QSound
<1> QED BY <1>8 DEF y

LEMMA RaisedSound ==
  ASSUME NEW r0, QSound(r0, rpm), r0.stage = "handler"
  PROVE  LET q == [r0 EXCEPT !.ran = TRUE]
             y == [Http!Observe(q) EXCEPT !.stage = "done", !.sent = 500]
         IN QSound(y, rpm) /\ y.stage = "done" /\ y.running = FALSE
<1>0. PICK s \in Nat : s = 500
  OBVIOUS
<1> DEFINE q == [r0 EXCEPT !.ran = TRUE]
           y == [Http!Observe(q) EXCEPT !.stage = "done", !.sent = s]
<1>1. r0 \in RecordType /\ r0.running = FALSE
  BY QuietUntilTool DEF QSound, Waiting, Stages
<1>2. r0.sent = Http!NoStatus /\ r0.observed = 0 /\ r0.executed = r0.outcomes /\ r0.executed = 0
  BY <1>1 DEF QSound, AnswerSound, ToolSound, Stages
<1>3. Admitted(r0, rpm)
  BY DEF QSound, PathSound, AdmissionSound, Admitted, PastHost, PastLimit, PastAuth
<1>4. /\ q \in RecordType /\ q.stage = "handler" /\ q.in = r0.in /\ q.path = r0.path
      /\ q.charged = r0.charged /\ q.sent = Http!NoStatus /\ q.ran = TRUE /\ q.shown = r0.shown
      /\ q.running = FALSE /\ q.executed = 0 /\ q.outcomes = 0 /\ q.observed = 0
  BY <1>1, <1>2 DEF RecordType
<1>5. Http!Recorded(q.sent) = s
  BY <1>0, <1>4 DEF Http!Recorded
<1> HIDE DEF q
<1>6. /\ y \in RecordType /\ y.stage = "done" /\ y.in = q.in /\ y.path = q.path
      /\ y.charged = q.charged /\ y.sent = s /\ y.ran = q.ran /\ y.shown = q.shown
      /\ y.running = q.running /\ y.executed = q.executed /\ y.outcomes = q.outcomes
      /\ y.observed = (IF Http!Excluded(q.in.path) THEN 0 ELSE 1)
      /\ ~Http!Excluded(q.in.path) => y.seen = s
  <2>1. CASE Http!Excluded(q.in.path)
    <3>1. y = [q EXCEPT !.stage = "done", !.sent = s]
      BY <2>1 DEF Http!Observe
    <3> HIDE DEF y
    <3>2. y \in RecordType
      <4>1. [q EXCEPT !.stage = "done"] \in RecordType
        BY <1>4, OneFieldSet DEF Stages
      <4> QED BY <3>1, <4>1, OneFieldSet
    <3> QED BY <1>4, <2>1, <3>1, <3>2 DEF RecordType
  <2>2. CASE ~Http!Excluded(q.in.path)
    <3>1. y = [[q EXCEPT !.observed = @ + 1, !.seen = Http!Recorded(q.sent)]
                  EXCEPT !.stage = "done", !.sent = s]
      BY <2>2 DEF Http!Observe
    <3> HIDE DEF y
    <3>2. y = [q EXCEPT !.observed = 1, !.seen = s, !.stage = "done", !.sent = s]
      BY <1>4, <1>5, <3>1 DEF RecordType
    <3>3. y \in RecordType
      <4>1. [q EXCEPT !.observed = 1] \in RecordType
        BY <1>4, OneFieldSet
      <4>2. [[q EXCEPT !.observed = 1] EXCEPT !.seen = s] \in RecordType
        BY <4>1, OneFieldSet
      <4>3. [[[q EXCEPT !.observed = 1] EXCEPT !.seen = s] EXCEPT !.stage = "done"] \in RecordType
        BY <4>2, OneFieldSet DEF Stages
      <4> QED BY <3>2, <4>3, OneFieldSet
    <3> QED BY <1>4, <2>2, <3>2, <3>3 DEF RecordType
  <2> QED BY <2>1, <2>2
<1> HIDE DEF y
<1>7. PathSound(y)
  BY <1>4, <1>6 DEF QSound, PathSound, OnMcp, InTool
<1>8. AdmissionSound(y, rpm)
  BY <1>0, <1>6 DEF AdmissionSound, PastHost, PastLimit, PastAuth, InTool
<1>9. RanSound(y, rpm)
  BY <1>3, <1>4, <1>6 DEF QSound, RanSound, Admitted, OnMcp, HostOk, KeyOk
<1>10. AnswerSound(y)
  BY <1>0, <1>6 DEF AnswerSound, Http!Recorded, Http!NoStatus
<1>11. ToolSound(y)
  BY <1>4, <1>6 DEF ToolSound
<1>12. QSound(y, rpm) /\ y.stage = "done" /\ y.running = FALSE
  BY <1>4, <1>6, <1>7, <1>8, <1>9, <1>10, <1>11 DEF QSound
<1> QED BY <1>0, <1>12 DEF y, q

LEMMA TransportOnSound ==
  ASSUME NEW q, QSound(q, rpm), q.stage = "transport", Http!McpHostAllowed(q.in.host)
  PROVE  QSound([q EXCEPT !.stage = "call"], rpm)
<1> DEFINE y == [q EXCEPT !.stage = "call"]
<1>1. /\ y \in RecordType /\ y.stage = "call" /\ y.in = q.in /\ y.path = q.path
      /\ y.charged = q.charged /\ y.sent = q.sent /\ y.ran = q.ran /\ y.shown = q.shown
      /\ y.seen = q.seen /\ y.observed = q.observed /\ y.running = q.running
      /\ y.executed = q.executed /\ y.outcomes = q.outcomes
  BY StageMoves DEF Stages
<1> HIDE DEF y
<1>2. PathSound(y)
  BY <1>1 DEF QSound, PathSound, OnMcp, InTool
<1>3. AdmissionSound(y, rpm)
  BY <1>1 DEF QSound, AdmissionSound, OnMcp, HostOk, KeyOk, PastLimit, PastHost, PastAuth, InTool
<1>4. QSound(y, rpm)
  BY <1>1, <1>2, <1>3, GoesOnSound DEF Waiting, Stages, InTool
<1> QED BY <1>4 DEF y

LEMMA CalledSound ==
  ASSUME NEW q, QSound(q, rpm), q.stage = "call", ~Http!RefusesArguments(q)
  PROVE  LET y == [q EXCEPT !.stage = "tool", !.ran = TRUE, !.running = TRUE, !.executed = @ + 1]
         IN QSound(y, rpm) /\ y.stage = "tool" /\ y.running = TRUE
<1> DEFINE y == [q EXCEPT !.stage = "tool", !.ran = TRUE, !.running = TRUE, !.executed = @ + 1]
<1>1. q \in RecordType /\ q.running = FALSE
  BY QuietUntilTool DEF QSound, Waiting, Stages
<1>2. q.executed = 0 /\ q.outcomes = 0
  BY <1>1 DEF QSound, ToolSound, Stages
<1>3. Admitted(q, rpm) /\ OnMcp(q)
  BY DEF QSound, PathSound, AdmissionSound, Admitted, PastHost, PastLimit, PastAuth, InTool
<1>4. /\ y \in RecordType /\ y.stage = "tool" /\ y.in = q.in /\ y.path = q.path
      /\ y.charged = q.charged /\ y.sent = q.sent /\ y.ran = TRUE /\ y.shown = q.shown
      /\ y.seen = q.seen /\ y.observed = q.observed /\ y.running = TRUE
      /\ y.executed = 1 /\ y.outcomes = 0
  <2>1. y \in RecordType
    <3>1. y = [[[[q EXCEPT !.stage = "tool"] EXCEPT !.ran = TRUE] EXCEPT !.running = TRUE]
                 EXCEPT !.executed = 1]
      BY <1>1, <1>2 DEF RecordType
    <3>2. [q EXCEPT !.stage = "tool"] \in RecordType
      BY <1>1, OneFieldSet DEF Stages
    <3>3. [[q EXCEPT !.stage = "tool"] EXCEPT !.ran = TRUE] \in RecordType
      BY <3>2, OneFieldSet
    <3>4. [[[q EXCEPT !.stage = "tool"] EXCEPT !.ran = TRUE] EXCEPT !.running = TRUE] \in RecordType
      BY <3>3, OneFieldSet
    <3> HIDE DEF y
    <3> QED BY <3>1, <3>4, OneFieldSet
  <2>2. y.stage = "tool" /\ y.in = q.in /\ y.path = q.path /\ y.charged = q.charged /\ y.sent = q.sent
    BY <1>1 DEF RecordType
  <2>3. y.ran = TRUE /\ y.shown = q.shown /\ y.seen = q.seen /\ y.observed = q.observed
    BY <1>1 DEF RecordType
  <2>4. y.running = TRUE /\ y.executed = 1 /\ y.outcomes = 0
    BY <1>1, <1>2 DEF RecordType
  <2> QED BY <2>1, <2>2, <2>3, <2>4
<1> HIDE DEF y
<1>5. PathSound(y)
  BY <1>3, <1>4 DEF QSound, PathSound, OnMcp, InTool
<1>6. AdmissionSound(y, rpm)
  BY <1>4 DEF QSound, AdmissionSound, OnMcp, HostOk, KeyOk, PastLimit, PastHost, PastAuth, InTool
<1>7. RanSound(y, rpm)
  BY <1>3, <1>4 DEF QSound, RanSound, Admitted, OnMcp, HostOk, KeyOk
<1>8. AnswerSound(y)
  BY <1>4 DEF QSound, AnswerSound
<1>9. ToolSound(y)
  BY <1>4 DEF ToolSound, Http!RefusesArguments
<1>10. QSound(y, rpm) /\ y.stage = "tool" /\ y.running = TRUE
  BY <1>4, <1>5, <1>6, <1>7, <1>8, <1>9 DEF QSound
<1> QED BY <1>10 DEF y

\* A tool that is over, cancelled or not, has its one outcome.
LEMMA OverSound ==
  ASSUME NEW q, QSound(q, rpm), q.running = TRUE, NEW outcome \in Http!McpOutcomes \cup {"cancelled"}
  PROVE  LET y == Http!ToolOver(q, outcome)
         IN QSound(y, rpm) /\ y.stage = q.stage /\ y.running = FALSE
<1> DEFINE y == Http!ToolOver(q, outcome)
<1>1. q \in RecordType
  BY DEF QSound
<1>2. q.executed = 1 /\ q.outcomes = 0
  BY DEF QSound, ToolSound
<1>3. /\ y \in RecordType /\ y.stage = q.stage /\ y.in = q.in /\ y.path = q.path
      /\ y.charged = q.charged /\ y.sent = q.sent /\ y.ran = q.ran /\ y.shown = q.shown
      /\ y.seen = q.seen /\ y.observed = q.observed /\ y.running = FALSE
      /\ y.executed = 1 /\ y.outcomes = 1
  <2>1. y \in RecordType
    <3>1. y = [[[q EXCEPT !.running = FALSE] EXCEPT !.outcomes = 1] EXCEPT !.outcome = outcome]
      BY <1>1, <1>2 DEF Http!ToolOver, RecordType
    <3>2. [q EXCEPT !.running = FALSE] \in RecordType
      BY <1>1, OneFieldSet
    <3>3. [[q EXCEPT !.running = FALSE] EXCEPT !.outcomes = 1] \in RecordType
      BY <3>2, OneFieldSet
    <3> HIDE DEF y
    <3> QED BY <3>1, <3>3, OneFieldSet
  <2>2. y.stage = q.stage /\ y.in = q.in /\ y.path = q.path /\ y.charged = q.charged /\ y.sent = q.sent
    BY <1>1 DEF RecordType, Http!ToolOver
  <2>3. y.ran = q.ran /\ y.shown = q.shown /\ y.seen = q.seen /\ y.observed = q.observed
    BY <1>1 DEF RecordType, Http!ToolOver
  <2>4. y.running = FALSE /\ y.executed = 1 /\ y.outcomes = 1
    BY <1>1, <1>2 DEF RecordType, Http!ToolOver
  <2> QED BY <2>1, <2>2, <2>3, <2>4
<1> HIDE DEF y
<1>4. PathSound(y)
  BY <1>3 DEF QSound, PathSound, OnMcp
<1>5. AdmissionSound(y, rpm)
  BY <1>3 DEF QSound, AdmissionSound, OnMcp, HostOk, KeyOk
<1>6. RanSound(y, rpm)
  BY <1>3 DEF QSound, RanSound, Admitted, OnMcp, HostOk, KeyOk
<1>7. AnswerSound(y)
  BY <1>3 DEF QSound, AnswerSound
<1>8. ToolSound(y)
  BY <1>2, <1>3 DEF QSound, ToolSound
<1>9. QSound(y, rpm) /\ y.stage = q.stage /\ y.running = FALSE
  BY <1>3, <1>4, <1>5, <1>6, <1>7, <1>8 DEF QSound
<1> QED BY <1>9 DEF y

-----------------------------------------------------------------------------
\* What a request and its tool add to the gauges.
InProgress(q) == IF q.stage = "done" THEN 0 ELSE 1
Runs(q) == IF q.running THEN 1 ELSE 0

\* The inductive invariant: every request is sound, and the gauges are exact.
RequestsSound ==
  /\ rpm \in Int
  /\ req \in [Requests -> RecordType]
  /\ \A r \in Requests : QSound(req[r], rpm)
  /\ gauge \in [rest : Int, mcp : Int]
  /\ Http!GaugesExact

\* One member more or less changes the size of a finite set by one.
LEMMA OneMoreOrLess ==
  ASSUME NEW S, IsFiniteSet(S), NEW A, A \subseteq S, NEW B, B \subseteq S, NEW r \in S,
         NEW a \in {0, 1}, NEW b \in {0, 1}, a = 1 <=> r \in A, b = 1 <=> r \in B,
         \A x \in S \ {r} : x \in A <=> x \in B
  PROVE  Cardinality(B) = Cardinality(A) + b - a
<1>1. IsFiniteSet(A) /\ IsFiniteSet(B)
  BY FS_Subset
<1>2. Cardinality(A) \in Nat /\ Cardinality(B) \in Nat
  BY <1>1, FS_CardinalityType
<1>3. CASE a = b
  <2>1. A = B
    BY <1>3
  <2> QED BY <1>2, <1>3, <2>1
<1>4. CASE a = 0 /\ b = 1
  <2>1. B = A \cup {r} /\ r \notin A
    BY <1>4
  <2> QED BY <1>1, <1>2, <1>4, <2>1, FS_AddElement
<1>5. CASE a = 1 /\ b = 0
  <2>1. B = A \ {r} /\ r \in A
    BY <1>5
  <2> QED BY <1>1, <1>2, <1>5, <2>1, FS_RemoveElement
<1> QED BY <1>3, <1>4, <1>5

\* A step of one request that moves the gauges by what it begins and ends.
LEMMA RequestStep ==
  ASSUME Http!PipelineAssumption, RequestsSound, NEW r \in Requests, NEW y, QSound(y, rpm),
         req' = [req EXCEPT ![r] = y], rpm' = rpm, gauge' \in [rest : Int, mcp : Int],
         gauge'.rest = gauge.rest + InProgress(y) - InProgress(req[r]),
         gauge'.mcp = gauge.mcp + Runs(y) - Runs(req[r])
  PROVE  RequestsSound'
<1>1. y \in RecordType /\ req[r] \in RecordType
  BY DEF QSound, RequestsSound
<1>2. req' \in [Requests -> RecordType]
  BY <1>1 DEF RequestsSound
<1>3. \A x \in Requests : req'[x] = IF x = r THEN y ELSE req[x]
  BY DEF RequestsSound
<1>4. \A x \in Requests : QSound(req'[x], rpm)
  BY <1>3 DEF RequestsSound
<1>5. IsFiniteSet(Requests)
  BY DEF Http!PipelineAssumption
<1>6. gauge'.rest = Cardinality({x \in Requests : req'[x].stage # "done"})
  <2> DEFINE A == {x \in Requests : req[x].stage # "done"}
             B == {x \in Requests : req'[x].stage # "done"}
  <2>1. InProgress(req[r]) \in {0, 1} /\ InProgress(y) \in {0, 1}
    BY DEF InProgress
  <2>2. (InProgress(req[r]) = 1 <=> r \in A) /\ (InProgress(y) = 1 <=> r \in B)
    BY <1>3 DEF InProgress
  <2>3. \A x \in Requests \ {r} : x \in A <=> x \in B
    BY <1>3
  <2>4. A \subseteq Requests /\ B \subseteq Requests
    OBVIOUS
  <2>5. gauge.rest = Cardinality(A)
    BY DEF RequestsSound, Http!GaugesExact
  <2> HIDE DEF A, B
  <2>6. Cardinality(B) = Cardinality(A) + InProgress(y) - InProgress(req[r])
    BY <1>5, <2>1, <2>2, <2>3, <2>4, OneMoreOrLess
  <2> QED BY <2>5, <2>6 DEF B
<1>7. gauge'.mcp = Cardinality({x \in Requests : req'[x].running})
  <2> DEFINE A == {x \in Requests : req[x].running}
             B == {x \in Requests : req'[x].running}
  <2>1. Runs(req[r]) \in {0, 1} /\ Runs(y) \in {0, 1}
    BY DEF Runs
  <2>2. (Runs(req[r]) = 1 <=> r \in A) /\ (Runs(y) = 1 <=> r \in B)
    BY <1>3 DEF Runs
  <2>3. \A x \in Requests \ {r} : x \in A <=> x \in B
    BY <1>3
  <2>4. A \subseteq Requests /\ B \subseteq Requests
    OBVIOUS
  <2>5. gauge.mcp = Cardinality(A)
    BY DEF RequestsSound, Http!GaugesExact
  <2> HIDE DEF A, B
  <2>6. Cardinality(B) = Cardinality(A) + Runs(y) - Runs(req[r])
    BY <1>5, <2>1, <2>2, <2>3, <2>4, OneMoreOrLess
  <2> QED BY <2>5, <2>6 DEF B
<1> QED BY <1>2, <1>4, <1>6, <1>7 DEF RequestsSound, Http!GaugesExact

\* A step by which a layer hands a request on, and one by which it answers.
LEMMA PassedOn ==
  ASSUME Http!PipelineAssumption, RequestsSound, NEW r \in Requests, NEW y, QSound(y, rpm),
         req' = [req EXCEPT ![r] = y], rpm' = rpm, gauge' = gauge,
         req[r].stage # "done", y.stage # "done", y.running = req[r].running
  PROVE  RequestsSound'
<1>1. gauge \in [rest : Int, mcp : Int]
  BY DEF RequestsSound
<1>2. InProgress(y) = 1 /\ InProgress(req[r]) = 1 /\ Runs(y) = Runs(req[r]) /\ Runs(y) \in {0, 1}
  BY DEF InProgress, Runs
<1>3. /\ gauge' \in [rest : Int, mcp : Int]
      /\ gauge'.rest = gauge.rest + InProgress(y) - InProgress(req[r])
      /\ gauge'.mcp = gauge.mcp + Runs(y) - Runs(req[r])
  BY <1>1, <1>2
<1> QED BY <1>3, RequestStep

LEMMA Answered ==
  ASSUME Http!PipelineAssumption, RequestsSound, rpm' = rpm, NEW r \in Requests, req[r].stage \in Waiting \ {"tool"},
         NEW status \in Nat, status # Http!NoStatus,
         status = 421 => (OnMcp(req[r]) \/ req[r].charged = 0),
         req' = [req EXCEPT ![r] = Http!Respond(req[r], status)], gauge' = gauge
  PROVE  RequestsSound'
<1> DEFINE y == Http!Respond(req[r], status)
<1>1. QSound(req[r], rpm) /\ req[r] \in RecordType
  BY DEF RequestsSound
<1>2. req[r].running = FALSE
  BY <1>1, QuietUntilTool
<1>3. QSound(y, rpm)
  BY <1>1, <1>2, RespondSound
<1>4. y.stage = "body" /\ y.running = req[r].running
  BY <1>1 DEF Http!Respond, RecordType
<1> QED BY <1>3, <1>4, PassedOn DEF Waiting, Stages

\* The steps of the pipeline, one lemma each.
LEMMA ArriveSound ==
  ASSUME Http!PipelineAssumption, RequestsSound, rpm' = rpm, NEW r \in Requests, NEW in \in Inputs, Http!Arrive(r, in)
  PROVE  RequestsSound'
<1>1. QSound(Http!Fresh(in), rpm) /\ Http!Fresh(in).stage = "host" /\ Http!Fresh(in).running = FALSE
  BY FreshSound
<1>2. gauge \in [rest : Int, mcp : Int]
  BY DEF RequestsSound
<1>3. InProgress(Http!Fresh(in)) = 1 /\ InProgress(req[r]) = 0 /\ Runs(Http!Fresh(in)) = 0 /\ Runs(req[r]) = 0
  BY <1>1 DEF Http!Arrive, InProgress, Runs
<1>4. gauge' = [gauge EXCEPT !.rest = @ + 1] /\ req' = [req EXCEPT ![r] = Http!Fresh(in)]
  BY DEF Http!Arrive
<1>5. /\ gauge' \in [rest : Int, mcp : Int]
      /\ gauge'.rest = gauge.rest + 1 - 0 /\ gauge'.mcp = gauge.mcp + 0 - 0
  BY <1>2, <1>4
<1> QED BY <1>1, <1>3, <1>4, <1>5, RequestStep

LEMMA HostCheckSound ==
  ASSUME Http!PipelineAssumption, RequestsSound, rpm' = rpm, NEW r \in Requests, Http!HostCheck(r)
  PROVE  RequestsSound'
<1> DEFINE q == req[r]
<1>1. QSound(q, rpm) /\ q \in RecordType /\ q.stage = "host" /\ gauge' = gauge
  BY DEF RequestsSound, Http!HostCheck
<1>2. CASE Http!SkipsHostCheck(q.path) \/ HostOk(q)
  <2> DEFINE y == [q EXCEPT !.stage = "limit"]
  <2>1. req' = [req EXCEPT ![r] = y]
    BY <1>2 DEF Http!HostCheck, HostOk
  <2>2. QSound(y, rpm)
    BY <1>1, <1>2, HostOnSound
  <2>3. y.stage = "limit" /\ y.running = q.running
    BY <1>1 DEF RecordType
  <2> HIDE DEF y
  <2> QED BY <1>1, <2>1, <2>2, <2>3, PassedOn
<1>3. CASE ~(Http!SkipsHostCheck(q.path) \/ HostOk(q))
  <2>1. req' = [req EXCEPT ![r] = Http!Respond(q, 421)]
    BY <1>3 DEF Http!HostCheck, HostOk
  <2>2. q.charged = 0
    BY <1>1 DEF QSound, AdmissionSound
  <2>3. PICK status \in Nat : status = 421
    OBVIOUS
  <2>4. req' = [req EXCEPT ![r] = Http!Respond(q, status)]
    BY <2>1, <2>3
  <2>5. q.stage \in Waiting \ {"tool"} /\ status # Http!NoStatus
    BY <1>1, <2>3 DEF Http!NoStatus, Waiting, Stages
  <2> QED BY <1>1, <2>2, <2>4, <2>5, Answered
<1> QED BY <1>2, <1>3

LEMMA RateLimitSound ==
  ASSUME Http!PipelineAssumption, RequestsSound, rpm' = rpm, NEW r \in Requests, Http!RateLimit(r)
  PROVE  RequestsSound'
<1> DEFINE q == req[r]
           live == Http!Live(Http!Times(q.in.client))
<1>1. QSound(q, rpm) /\ q \in RecordType /\ q.stage = "limit" /\ gauge' = gauge
  BY DEF RequestsSound, Http!RateLimit
<1>2. q.charged = 0
  BY <1>1 DEF QSound, AdmissionSound
<1>3. rpm \in Int
  BY DEF RequestsSound
<1>4. CASE rpm <= 0 /\ req' = [req EXCEPT ![r].stage = "cors"]
  <2> DEFINE y == [q EXCEPT !.stage = "cors"]
  <2>1. req' = [req EXCEPT ![r] = y]
    BY <1>4
  <2>2. y \in RecordType /\ y.stage = "cors" /\ y.in = q.in /\ y.path = q.path
        /\ y.sent = q.sent /\ y.ran = q.ran /\ y.shown = q.shown
        /\ y.seen = q.seen /\ y.observed = q.observed /\ y.running = q.running
        /\ y.executed = q.executed /\ y.outcomes = q.outcomes
    BY <1>1 DEF RecordType, Stages
  <2> HIDE DEF y
  <2>3. QSound(y, rpm)
    BY <1>1, <1>3, <1>4, <2>2, LimitOnSound
  <2> QED BY <1>1, <2>1, <2>2, <2>3, PassedOn
<1>5. CASE req' = [req EXCEPT ![r] = Http!Respond(q, 429)]
  <2>1. PICK status \in Nat : status = 429
    OBVIOUS
  <2>2. req' = [req EXCEPT ![r] = Http!Respond(q, status)]
    BY <1>5, <2>1
  <2>3. q.stage \in Waiting \ {"tool"} /\ status # Http!NoStatus /\ status # 421
    BY <1>1, <2>1 DEF Http!NoStatus, Waiting, Stages
  <2> QED BY <1>1, <2>2, <2>3, Answered
<1>6. CASE req' = [req EXCEPT ![r].stage = "cors", ![r].charged = @ + 1]
  <2> DEFINE x == [q EXCEPT !.stage = "cors"]
             y == [x EXCEPT !.charged = 1]
  <2>1. req' = [req EXCEPT ![r] = y]
    <3>1. [q EXCEPT !.stage = "cors", !.charged = @ + 1] = y
      BY <1>1, <1>2 DEF RecordType
    <3> HIDE DEF y
    <3> QED BY <1>6, <3>1 DEF RequestsSound
  <2>2. x \in RecordType /\ x.stage = "cors" /\ x.in = q.in /\ x.path = q.path
        /\ x.sent = q.sent /\ x.ran = q.ran /\ x.shown = q.shown
        /\ x.seen = q.seen /\ x.observed = q.observed /\ x.running = q.running
        /\ x.executed = q.executed /\ x.outcomes = q.outcomes
    BY <1>1 DEF RecordType, Stages
  <2> HIDE DEF x
  <2>3. y \in RecordType /\ y.stage = x.stage /\ y.in = x.in /\ y.path = x.path
        /\ y.charged = 1 /\ y.sent = x.sent /\ y.ran = x.ran /\ y.shown = x.shown
        /\ y.seen = x.seen /\ y.observed = x.observed /\ y.running = x.running
        /\ y.executed = x.executed /\ y.outcomes = x.outcomes
    BY <2>2 DEF RecordType
  <2> HIDE DEF y
  <2>4. QSound(y, rpm)
    BY <1>1, <2>2, <2>3, LimitOnSound
  <2> QED BY <1>1, <2>1, <2>2, <2>3, <2>4, PassedOn
<1> QED BY <1>4, <1>5, <1>6 DEF Http!RateLimit

LEMMA CorsSound ==
  ASSUME Http!PipelineAssumption, RequestsSound, rpm' = rpm, NEW r \in Requests, Http!Cors(r)
  PROVE  RequestsSound'
<1> DEFINE q == req[r]
<1>1. QSound(q, rpm) /\ q \in RecordType /\ q.stage = "cors" /\ gauge' = gauge
  BY DEF RequestsSound, Http!Cors
<1>2. CASE CorsOn /\ q.in.preflight
  <2>1. PICK status \in Nat : status = 200
    OBVIOUS
  <2>2. req' = [req EXCEPT ![r] = Http!Respond(q, status)]
    BY <1>2, <2>1 DEF Http!Cors
  <2>3. q.stage \in Waiting \ {"tool"} /\ status # Http!NoStatus /\ status # 421
    BY <1>1, <2>1 DEF Http!NoStatus, Waiting, Stages
  <2> QED BY <1>1, <2>2, <2>3, Answered
<1>3. CASE ~(CorsOn /\ q.in.preflight)
  <2> DEFINE y == [q EXCEPT !.stage = "auth"]
  <2>1. req' = [req EXCEPT ![r] = y]
    BY <1>3 DEF Http!Cors
  <2>2. QSound(y, rpm)
    BY <1>1, CorsOnSound
  <2>3. y.stage = "auth" /\ y.running = q.running
    BY <1>1 DEF RecordType
  <2> HIDE DEF y
  <2> QED BY <1>1, <2>1, <2>2, <2>3, PassedOn
<1> QED BY <1>2, <1>3

LEMMA AuthSound ==
  ASSUME Http!PipelineAssumption, RequestsSound, rpm' = rpm, NEW r \in Requests, Http!Auth(r)
  PROVE  RequestsSound'
<1> DEFINE q == req[r]
           key == Http!ExtractKey(q.in)
           status == CASE ~KeySet \/ Http!Exempt(q.path) -> Http!NoStatus
                       [] key = "none" -> 401
                       [] ~Http!KeyMatches(key) -> 403
                       [] OTHER -> Http!NoStatus
<1>1. QSound(q, rpm) /\ q \in RecordType /\ q.stage = "auth" /\ gauge' = gauge
  BY DEF RequestsSound, Http!Auth
<1>2. req' = [req EXCEPT ![r] = IF status = Http!NoStatus THEN [q EXCEPT !.stage = "route"]
                                                      ELSE Http!Respond(q, status)]
  BY Zenon DEF Http!Auth
<1>3. status \in {Http!NoStatus, 401, 403}
  OBVIOUS
<1>4. status = Http!NoStatus => (~KeySet \/ Http!Exempt(q.path) \/ Http!KeyMatches(key))
  BY DEF Http!NoStatus, Http!KeyMatches
<1> HIDE DEF status
<1>5. CASE status = Http!NoStatus
  <2> DEFINE y == [q EXCEPT !.stage = "route"]
  <2>1. req' = [req EXCEPT ![r] = y]
    BY <1>2, <1>5
  <2>2. QSound(y, rpm)
    BY <1>1, <1>4, <1>5, AuthOnSound
  <2>3. y.stage = "route" /\ y.running = q.running
    BY <1>1 DEF RecordType
  <2> HIDE DEF y
  <2> QED BY <1>1, <2>1, <2>2, <2>3, PassedOn
<1>6. CASE status # Http!NoStatus
  <2>1. req' = [req EXCEPT ![r] = Http!Respond(q, status)]
    BY <1>2, <1>6
  <2>2. q.stage \in Waiting \ {"tool"} /\ status # 421 /\ status \in Nat
    BY <1>1, <1>3 DEF Http!NoStatus, Waiting, Stages
  <2> QED BY <1>1, <1>6, <2>1, <2>2, Answered
<1> QED BY <1>5, <1>6

LEMMA RouteSound ==
  ASSUME Http!PipelineAssumption, RequestsSound, rpm' = rpm, NEW r \in Requests, Http!Route(r)
  PROVE  RequestsSound'
<1> DEFINE q == req[r]
           y == CASE q.path = "/mcp" -> Http!ServeExactMcpPath(q)
                  [] q.path = "/mcp/" -> [q EXCEPT !.stage = "transport"]
                  [] OTHER -> [q EXCEPT !.stage = "handler"]
<1>1. QSound(q, rpm) /\ q.stage = "route" /\ gauge' = gauge
  BY DEF RequestsSound, Http!Route
<1>2. QSound(y, rpm) /\ y.stage # "done" /\ y.running = q.running
  BY <1>1, RoutedSound
<1>3. req' = [req EXCEPT ![r] = y]
  BY DEF Http!Route
<1> HIDE DEF y
<1> QED BY <1>1, <1>2, <1>3, PassedOn

LEMMA HandleSound ==
  ASSUME Http!PipelineAssumption, RequestsSound, rpm' = rpm, NEW r \in Requests, NEW end \in DOMAIN Http!StatusOf,
         Http!Handle(r, end)
  PROVE  RequestsSound'
<1> DEFINE q == req[r]
           status == Http!StatusOf[end]
           x == Http!Respond(q, status)
           shows == (end = "ok" /\ Http!ShowsPaths(q))
           y == [x EXCEPT !.ran = TRUE, !.shown = shows]
<1>1. QSound(q, rpm) /\ q \in RecordType /\ q.stage = "handler" /\ gauge' = gauge
  BY DEF RequestsSound, Http!Handle
<1>2. status \in Nat /\ status # Http!NoStatus /\ status # 421
  BY StatusesAreNat
<1>3. q.running = FALSE /\ q.stage \in Waiting
  BY <1>1, QuietUntilTool DEF Waiting, Stages
<1>4. shows \in {TRUE, FALSE} /\ (shows = TRUE => (KeySet => Http!RequestHasKey(q.in)))
  BY DEF Http!ShowsPaths
<1>5. req' = [req EXCEPT ![r] = y]
  BY DEF Http!Handle
<1> HIDE DEF shows, status
<1>6. QSound(x, rpm)
  BY <1>1, <1>2, <1>3, RespondSound
<1>7. x \in RecordType /\ x.stage = "body" /\ x.in = q.in /\ x.charged = q.charged /\ x.running = q.running
  <2>1. x \in RecordType
    BY <1>6 DEF QSound
  <2> QED BY <1>1, <2>1 DEF Http!Respond, RecordType
<1> HIDE DEF x
<1>8. PICK b \in {TRUE, FALSE} : b = shows /\ y = [x EXCEPT !.ran = TRUE, !.shown = b]
  BY <1>4
<1> HIDE DEF y
<1>9. RanAndShown(x, y, b)
  BY <1>7, <1>8, ShownSet, Zenon
<1>10. y.shown = TRUE => (KeySet => Http!RequestHasKey(q.in))
  BY <1>4, <1>8, <1>9 DEF RanAndShown
<1>11. QSound(y, rpm)
  BY <1>1, <1>6, <1>7, <1>9, <1>10, HandledSound DEF RanAndShown
<1>12. y.stage = "body" /\ y.running = q.running
  BY <1>7, <1>9 DEF RanAndShown
<1> HIDE DEF q
<1> QED BY <1>1, <1>5, <1>11, <1>12, PassedOn DEF q

LEMMA LeaveSound ==
  ASSUME Http!PipelineAssumption, RequestsSound, NEW r \in Requests, req[r].stage # "done",
         NEW y, QSound(y, rpm), y.stage = "done", y.running = req[r].running,
         req' = [req EXCEPT ![r] = y], rpm' = rpm, gauge' = [gauge EXCEPT !.rest = @ - 1]
  PROVE  RequestsSound'
<1>1. gauge \in [rest : Int, mcp : Int]
  BY DEF RequestsSound
<1>2. InProgress(y) = 0 /\ InProgress(req[r]) = 1 /\ Runs(y) = Runs(req[r]) /\ Runs(y) \in {0, 1}
  BY DEF InProgress, Runs
<1>3. /\ gauge' \in [rest : Int, mcp : Int]
      /\ gauge'.rest = gauge.rest - 1 /\ gauge'.mcp = gauge.mcp
  BY <1>1
<1>4. gauge.rest - 1 = gauge.rest + 0 - 1 /\ gauge.mcp = gauge.mcp + Runs(y) - Runs(req[r])
  BY <1>1, <1>2
<1> QED BY <1>2, <1>3, <1>4, RequestStep

LEMMA CancelSound ==
  ASSUME Http!PipelineAssumption, RequestsSound, rpm' = rpm, NEW r \in Requests, Http!Cancel(r) \/ Http!EndBody(r)
  PROVE  RequestsSound'
<1> DEFINE y == [Http!Observe(req[r]) EXCEPT !.stage = "done"]
<1>1. QSound(req[r], rpm) /\ req[r].stage # "done"
  BY DEF RequestsSound, Http!Cancel, Http!EndBody
<1>2. QSound(y, rpm) /\ y.stage = "done" /\ y.running = req[r].running
  BY <1>1, LeftSound
<1>3. req' = [req EXCEPT ![r] = y] /\ gauge' = [gauge EXCEPT !.rest = @ - 1]
  BY DEF Http!Cancel, Http!EndBody, Http!Leave
<1> HIDE DEF y
<1> QED BY <1>1, <1>2, <1>3, LeaveSound

LEMMA HandleRaisesSound ==
  ASSUME Http!PipelineAssumption, RequestsSound, rpm' = rpm, NEW r \in Requests, Http!HandleRaises(r)
  PROVE  RequestsSound'
<1> DEFINE q == [req[r] EXCEPT !.ran = TRUE]
           y == [Http!Observe(q) EXCEPT !.stage = "done", !.sent = 500]
<1>1. QSound(req[r], rpm) /\ req[r] \in RecordType
  BY DEF RequestsSound
<1>2. req[r].stage = "handler"
  BY <1>1 DEF Http!HandleRaises, RecordType
<1>3. QSound(y, rpm) /\ y.stage = "done" /\ y.running = FALSE
  BY <1>1, <1>2, RaisedSound
<1>4. req[r].running = FALSE
  BY <1>1, <1>2, QuietUntilTool DEF Waiting, Stages
<1>5. req' = [req EXCEPT ![r] = y] /\ gauge' = [gauge EXCEPT !.rest = @ - 1]
  BY DEF Http!HandleRaises
<1> HIDE DEF y
<1> QED BY <1>2, <1>3, <1>4, <1>5, LeaveSound

LEMMA TransportSound ==
  ASSUME Http!PipelineAssumption, RequestsSound, rpm' = rpm, NEW r \in Requests, Http!Transport(r)
  PROVE  RequestsSound'
<1> DEFINE q == req[r]
<1>1. QSound(q, rpm) /\ q \in RecordType /\ q.stage = "transport" /\ gauge' = gauge
  BY DEF RequestsSound, Http!Transport
<1>2. CASE Http!McpHostAllowed(q.in.host)
  <2> DEFINE y == [q EXCEPT !.stage = "call"]
  <2>1. req' = [req EXCEPT ![r] = y]
    BY <1>2 DEF Http!Transport
  <2>2. QSound(y, rpm)
    BY <1>1, <1>2, TransportOnSound
  <2>3. y.stage = "call" /\ y.running = q.running
    BY <1>1 DEF RecordType
  <2> HIDE DEF y
  <2> QED BY <1>1, <2>1, <2>2, <2>3, PassedOn
<1>3. CASE ~Http!McpHostAllowed(q.in.host)
  <2>1. PICK status \in Nat : status = 421
    OBVIOUS
  <2>2. req' = [req EXCEPT ![r] = Http!Respond(q, status)]
    BY <1>3, <2>1 DEF Http!Transport
  <2>3. q.stage \in Waiting \ {"tool"} /\ status # Http!NoStatus
    BY <1>1, <2>1 DEF Http!NoStatus, Waiting, Stages
  <2>4. OnMcp(q)
    BY <1>1 DEF QSound, PathSound
  <2> QED BY <1>1, <2>2, <2>3, <2>4, Answered
<1> QED BY <1>2, <1>3

LEMMA CallToolSound ==
  ASSUME Http!PipelineAssumption, RequestsSound, rpm' = rpm, NEW r \in Requests, Http!CallTool(r)
  PROVE  RequestsSound'
<1> DEFINE q == req[r]
<1>1. QSound(q, rpm) /\ q \in RecordType /\ q.stage = "call"
  BY DEF RequestsSound, Http!CallTool
<1>2. CASE Http!RefusesArguments(q)
  <2>1. PICK status \in Nat : status = 200
    OBVIOUS
  <2>2. req' = [req EXCEPT ![r] = Http!Respond(q, status)] /\ gauge' = gauge
    BY <1>2, <2>1 DEF Http!CallTool
  <2>3. q.stage \in Waiting \ {"tool"} /\ status # Http!NoStatus /\ status # 421
    BY <1>1, <2>1 DEF Http!NoStatus, Waiting, Stages
  <2> QED BY <1>1, <2>2, <2>3, Answered
<1>3. CASE ~Http!RefusesArguments(q)
  <2> DEFINE y == [q EXCEPT !.stage = "tool", !.ran = TRUE, !.running = TRUE, !.executed = @ + 1]
  <2>1. req' = [req EXCEPT ![r] = y] /\ gauge' = [gauge EXCEPT !.mcp = @ + 1]
    BY <1>3, Zenon DEF Http!CallTool
  <2>2. QSound(y, rpm) /\ y.stage = "tool" /\ y.running = TRUE
    BY <1>1, <1>3, CalledSound
  <2>3. q.running = FALSE
    BY <1>1, QuietUntilTool DEF Waiting, Stages
  <2> HIDE DEF y
  <2>4. InProgress(y) = 1 /\ InProgress(q) = 1 /\ Runs(y) = 1 /\ Runs(q) = 0
    BY <1>1, <2>2, <2>3 DEF InProgress, Runs
  <2>5. gauge \in [rest : Int, mcp : Int]
    BY DEF RequestsSound
  <2>6. /\ gauge' \in [rest : Int, mcp : Int]
        /\ gauge'.rest = gauge.rest + 1 - 1 /\ gauge'.mcp = gauge.mcp + 1 - 0
    BY <2>1, <2>5
  <2> QED BY <2>1, <2>2, <2>4, <2>6, RequestStep
<1> QED BY <1>2, <1>3

LEMMA ToolEnds ==
  ASSUME Http!PipelineAssumption, RequestsSound, NEW r \in Requests, req[r].running = TRUE,
         NEW y, QSound(y, rpm), y.running = FALSE, y.stage = "done" <=> req[r].stage = "done",
         req' = [req EXCEPT ![r] = y], rpm' = rpm, gauge' = [gauge EXCEPT !.mcp = @ - 1]
  PROVE  RequestsSound'
<1>1. gauge \in [rest : Int, mcp : Int]
  BY DEF RequestsSound
<1>2. InProgress(y) = InProgress(req[r]) /\ InProgress(y) \in {0, 1} /\ Runs(y) = 0 /\ Runs(req[r]) = 1
  BY DEF InProgress, Runs
<1>3. /\ gauge' \in [rest : Int, mcp : Int]
      /\ gauge'.rest = gauge.rest /\ gauge'.mcp = gauge.mcp - 1
  BY <1>1
<1>4. gauge.mcp - 1 = gauge.mcp + 0 - 1 /\ gauge.rest = gauge.rest + InProgress(y) - InProgress(req[r])
  BY <1>1, <1>2
<1> QED BY <1>2, <1>3, <1>4, RequestStep

LEMMA EndToolSound ==
  ASSUME Http!PipelineAssumption, RequestsSound, rpm' = rpm, NEW r \in Requests, NEW outcome \in Http!McpOutcomes,
         Http!EndTool(r, outcome)
  PROVE  RequestsSound'
<1> DEFINE q == req[r]
           over == Http!ToolOver(q, outcome)
<1>1. QSound(q, rpm) /\ q \in RecordType /\ q.running = TRUE
  <2>1. QSound(q, rpm) /\ q \in RecordType /\ q.running
    BY DEF RequestsSound, Http!EndTool
  <2> QED BY <2>1 DEF RecordType
<1>2. gauge' = [gauge EXCEPT !.mcp = @ - 1]
  BY DEF Http!EndTool
<1>3. QSound(over, rpm) /\ over.stage = q.stage /\ over.running = FALSE
  BY <1>1, OverSound
<1>4. over \in RecordType
  BY <1>3 DEF QSound
<1>5. req' = [req EXCEPT ![r] = IF q.stage = "tool" THEN Http!Respond(over, 200) ELSE over]
  BY DEF Http!EndTool
<1> HIDE DEF over
<1>6. CASE q.stage = "tool"
  <2>1. PICK status \in Nat : status = 200
    OBVIOUS
  <2> DEFINE y == Http!Respond(over, status)
  <2>2. status # Http!NoStatus /\ status # 421 /\ over.stage \in Waiting
    BY <1>3, <1>6, <2>1 DEF Http!NoStatus, Waiting, Stages
  <2>3. QSound(y, rpm)
    BY <1>3, <2>2, RespondSound
  <2>4. y.stage = "body" /\ y.running = FALSE
    BY <1>3, <1>4 DEF Http!Respond, RecordType
  <2>5. req' = [req EXCEPT ![r] = y]
    BY <1>5, <1>6, <2>1
  <2> HIDE DEF y
  <2> QED BY <1>1, <1>2, <1>6, <2>3, <2>4, <2>5, ToolEnds
<1>7. CASE q.stage # "tool"
  <2>1. req' = [req EXCEPT ![r] = over]
    BY <1>5, <1>7
  <2> QED BY <1>1, <1>2, <1>3, <2>1, ToolEnds
<1> QED BY <1>6, <1>7

LEMMA CancelToolSound ==
  ASSUME Http!PipelineAssumption, RequestsSound, rpm' = rpm, NEW r \in Requests, Http!CancelTool(r)
  PROVE  RequestsSound'
<1> DEFINE y == Http!ToolOver(req[r], "cancelled")
<1>1. QSound(req[r], rpm) /\ req[r].running = TRUE
  <2>1. QSound(req[r], rpm) /\ req[r] \in RecordType /\ req[r].running
    BY DEF RequestsSound, Http!CancelTool
  <2> QED BY <2>1 DEF RecordType
<1>2. QSound(y, rpm) /\ y.stage = req[r].stage /\ y.running = FALSE
  BY <1>1, OverSound
<1>3. req' = [req EXCEPT ![r] = y] /\ gauge' = [gauge EXCEPT !.mcp = @ - 1]
  BY DEF Http!CancelTool
<1> HIDE DEF y
<1> QED BY <1>1, <1>2, <1>3, ToolEnds

LEMMA RequestsInit ==
  ASSUME Http!PipelineAssumption, Http!Init
  PROVE  RequestsSound
<1>1. req = [r \in Requests |-> Http!Unused] /\ gauge = [rest |-> 0, mcp |-> 0]
  BY DEF Http!Init
<1>2. QSound(Http!Unused, rpm) /\ Http!Unused.stage = "done" /\ Http!Unused.running = FALSE
  BY UnusedSound
<1>3. Http!Unused \in RecordType
  BY <1>2 DEF QSound
<1>4. req \in [Requests -> RecordType] /\ \A r \in Requests : QSound(req[r], rpm)
  BY <1>1, <1>2, <1>3
<1>5. {r \in Requests : req[r].stage # "done"} = {} /\ {r \in Requests : req[r].running} = {}
  BY <1>1, <1>2
<1>6. Http!GaugesExact
  BY <1>1, <1>5, FS_EmptySet DEF Http!GaugesExact
<1>7. rpm \in Int
  BY DEF Http!Init, Http!PipelineAssumption
<1> QED BY <1>1, <1>4, <1>6, <1>7 DEF RequestsSound

\* The limit is set once, when the app is built.
LEMMA RpmKept ==
  ASSUME [Http!Next]_Http!vars
  PROVE  rpm' = rpm
<1>1. ASSUME NEW r \in Requests, Http!RateLimit(r)
      PROVE  rpm' = rpm
  BY <1>1 DEF Http!RateLimit, Http!limiter
<1> QED BY <1>1 DEF Http!Next, Http!vars, Http!limiter, Http!Tick, Http!Arrive, Http!HostCheck, Http!Cors, Http!Auth, Http!Route, Http!Handle,
     Http!HandleRaises, Http!Transport, Http!CallTool, Http!EndTool, Http!CancelTool, Http!EndBody, Http!Cancel

LEMMA RequestsStep ==
  ASSUME Http!PipelineAssumption, RequestsSound, [Http!Next]_Http!vars
  PROVE  RequestsSound'
<1>0. rpm' = rpm
  BY RpmKept
<1>1. CASE Http!Tick
  <2>1. req' = req /\ gauge' = gauge
    BY <1>1 DEF Http!Tick
  <2> QED BY <1>0, <2>1 DEF RequestsSound, Http!GaugesExact
<1>2. CASE UNCHANGED Http!vars
  <2>1. req' = req /\ gauge' = gauge
    BY <1>2 DEF Http!vars
  <2> QED BY <1>0, <2>1 DEF RequestsSound, Http!GaugesExact
<1>3. ASSUME NEW r \in Requests,
             \/ \E in \in Inputs : Http!Arrive(r, in)
             \/ Http!HostCheck(r) \/ Http!RateLimit(r) \/ Http!Cors(r) \/ Http!Auth(r) \/ Http!Route(r)
             \/ \E end \in DOMAIN Http!StatusOf : Http!Handle(r, end)
             \/ Http!HandleRaises(r)
             \/ Http!Transport(r) \/ Http!CallTool(r)
             \/ \E outcome \in Http!McpOutcomes : Http!EndTool(r, outcome)
             \/ Http!CancelTool(r) \/ Http!EndBody(r) \/ Http!Cancel(r)
      PROVE  RequestsSound'
  BY <1>0, <1>3, ArriveSound, HostCheckSound, RateLimitSound, CorsSound, AuthSound, RouteSound,
     HandleSound, HandleRaisesSound, TransportSound, CallToolSound, EndToolSound,
     CancelToolSound, CancelSound, Zenon
<1> QED BY <1>1, <1>2, <1>3 DEF Http!Next

\* The invariant implies what is promised of requests and of their accounts.
LEMMA RequestsSoundIsEnough ==
  ASSUME RequestsSound
  PROVE  Http!OnlyAdmittedRun /\ Http!OneSlotPerRequest /\ Http!AccountsExact
<1>1. \A r \in Requests : QSound(req[r], rpm) /\ req[r] \in RecordType
  BY DEF RequestsSound
<1>2. Http!OnlyAdmittedRun
  <2>1. ASSUME NEW r \in Requests
        PROVE  /\ req[r].ran => Admitted(req[r], rpm)
               /\ req[r].shown => (KeySet => Http!RequestHasKey(req[r].in))
    <3>1. req[r].ran \in BOOLEAN /\ req[r].shown \in BOOLEAN
      BY <1>1 DEF RecordType
    <3>2. QED
      BY <1>1, <3>1 DEF QSound, RanSound
  <2>2. QED
    BY <2>1 DEF Http!OnlyAdmittedRun, Admitted, OnMcp, HostOk, KeyOk, Http!Excluded
<1>3. Http!OneSlotPerRequest
  <2>1. ASSUME NEW r \in Requests
        PROVE  /\ req[r].charged <= 1
               /\ (req[r].sent = 421 /\ ~OnMcp(req[r])) => req[r].charged = 0
    BY <1>1 DEF QSound, AdmissionSound, RecordType
  <2>2. QED
    BY <2>1 DEF Http!OneSlotPerRequest, Http!SkipsHostCheck, OnMcp
<1>4. Http!ObservedOnce
  <2>1. ASSUME NEW r \in Requests
        PROVE  /\ req[r].observed <= 1
               /\ req[r].observed = 1 => req[r].seen = Http!Recorded(req[r].sent)
               /\ req[r].stage = "done" => (req[r].observed = 1 <=> ~Http!Excluded(req[r].in.path))
    BY <1>1 DEF QSound, AnswerSound, RecordType
  <2>2. QED
    BY <2>1 DEF Http!ObservedOnce, Http!Recorded
<1>5. Http!ToolObservedOnce
  <2>1. ASSUME NEW r \in Requests
        PROVE  /\ req[r].executed = req[r].outcomes + (IF req[r].running THEN 1 ELSE 0)
               /\ req[r].executed <= 1
               /\ req[r].executed = 1 => req[r].in.argsKnown
    <3>1. /\ req[r].running \in BOOLEAN
          /\ req[r].executed \in {0, 1} /\ req[r].outcomes \in {0, 1}
      BY <1>1 DEF RecordType
    <3>2. QED
      BY <1>1, <3>1 DEF QSound, ToolSound
  <2>2. QED
    BY <2>1 DEF Http!ToolObservedOnce
<1>6. QED
  BY <1>2, <1>3, <1>4, <1>5 DEF Http!AccountsExact, RequestsSound

\* The invariant of the ASGI stack of create_app (metrics, host, rate limit, CORS and
\* key middleware, the /mcp mount and its transport security) holds for any number of
\* concurrent requests, any inputs and any configuration, cancellations included.
THEOREM RequestsInvariance ==
  ASSUME Http!PipelineAssumption
  PROVE  Http!Spec => []RequestsSound
<1>1. Http!Init => RequestsSound
  BY RequestsInit
<1>2. RequestsSound /\ [Http!Next]_Http!vars => RequestsSound'
  BY RequestsStep
<1> QED BY <1>1, <1>2, PTL DEF Http!Spec

\* No REST handler runs and no MCP tool executes for a request that a guard of its
\* surface should have stopped, and api/app.py shows database paths to key holders only.
THEOREM OnlyAdmittedRuns ==
  ASSUME Http!PipelineAssumption
  PROVE  Http!Spec => []OnlyAdmittedRun
<1>1. RequestsSound => OnlyAdmittedRun
  BY RequestsSoundIsEnough DEF OnlyAdmittedRun
<1> QED BY <1>1, RequestsInvariance, PTL

\* oc_requests_inflight is exact, every request is observed once under the status it
\* got, and every tool call that begins has one outcome, though clients go away.
THEOREM AccountsAreExact ==
  ASSUME Http!PipelineAssumption
  PROVE  Http!Spec => []AccountsExact
<1>1. RequestsSound => AccountsExact
  BY RequestsSoundIsEnough DEF AccountsExact
<1> QED BY <1>1, RequestsInvariance, PTL

-----------------------------------------------------------------------------
(***************************************************************************)
(* The rate limiter of the same module.  The list of each client is        *)
(* ascending, so pruning it keeps a suffix; pruned, it is the history of   *)
(* grants.                                                                 *)
(***************************************************************************)
\* Ascending lists, and where a cutoff divides one.
Sorted(s) == \A i, j \in 1 .. Len(s) : i <= j => s[i] <= s[j]
Suffix(s, m) == [k \in 1 .. (Len(s) - m) |-> s[m + k]]
Cut(s, cutoff, m) ==
  /\ m \in 0 .. Len(s)
  /\ \A i \in 1 .. m : s[i] <= cutoff
  /\ \A i \in (m + 1) .. Len(s) : s[i] > cutoff

\* A set of indices that is not empty has a least one.
LEMMA LeastIndex ==
  ASSUME NEW T \in SUBSET Nat, T # {}
  PROVE  \E i \in T : \A j \in T : i <= j
<1> DEFINE R == OpToRel(<, Nat)
<1>1. IsWellFoundedOn(R, Nat)
  BY NatLessThanWellFounded
<1>2. ASSUME NEW x \in Nat, NEW y \in Nat, y < x PROVE <<y, x>> \in R
  BY <1>2 DEF OpToRel
<1> HIDE DEF R
<1>3. PICK i \in T : \A j \in T : ~(<<j, i>> \in R)
  BY <1>1, WFMin
<1>4. \A j \in T : i <= j
  <2> TAKE j \in T
  <2>1. i \in Nat /\ j \in Nat /\ ~(j < i)
    BY <1>2, <1>3
  <2> QED BY <2>1
<1> QED BY <1>4

LEMMA IntervalSize ==
  ASSUME NEW a \in Nat, NEW b \in Nat, a <= b
  PROVE  Cardinality((a + 1) .. b) = b - a
<1>1. a + 1 \in Int /\ b \in Int
  OBVIOUS
<1>2. Cardinality((a + 1) .. b) = IF a + 1 > b THEN 0 ELSE b - (a + 1) + 1
  BY <1>1, FS_Interval
<1> QED BY <1>2

\* A cutoff divides an ascending list: what has expired, then what has not.
LEMMA CutExists ==
  ASSUME NEW s \in Seq(Nat), Sorted(s), NEW cutoff \in Int
  PROVE  \E m : Cut(s, cutoff, m)
<1> DEFINE kept == {i \in 1 .. Len(s) : s[i] > cutoff}
<1>1. CASE kept = {}
  <2>1. Cut(s, cutoff, Len(s))
    BY <1>1 DEF Cut
  <2> QED BY <2>1
<1>2. CASE kept # {}
  <2>0. kept \in SUBSET Nat
    OBVIOUS
  <2> HIDE DEF kept
  <2>1. PICK i \in kept : \A j \in kept : i <= j
    BY <1>2, <2>0, LeastIndex
  <2> USE DEF kept
  <2>2. i - 1 \in 0 .. Len(s)
    BY <2>1
  <2>3. \A j \in 1 .. (i - 1) : s[j] <= cutoff
    BY <2>1
  <2>4. \A j \in i .. Len(s) : s[j] > cutoff
    BY <2>1 DEF Sorted
  <2>5. Cut(s, cutoff, i - 1)
    BY <2>2, <2>3, <2>4 DEF Cut
  <2> QED BY <2>5
<1> QED BY <1>1, <1>2

\* So the pruning of rate_limit.py keeps a suffix: the list comprehension's order
\* by rank is the order of the indices after the cut.
LEMMA LaterIsSuffix ==
  ASSUME NEW s \in Seq(Nat), NEW cutoff \in Int, NEW m, Cut(s, cutoff, m)
  PROVE  Http!Later(s, cutoff) = Suffix(s, m)
<1> DEFINE kept == {i \in DOMAIN s : s[i] > cutoff}
<1>1. m \in Nat /\ m <= Len(s) /\ Len(s) \in Nat /\ DOMAIN s = 1 .. Len(s)
  BY DEF Cut
<1>2. kept = (m + 1) .. Len(s)
  BY <1>1 DEF Cut
<1>3. Cardinality(kept) = Len(s) - m
  BY <1>1, <1>2, IntervalSize
<1>4. \A i \in kept : Cardinality({j \in kept : j <= i}) = i - m
  <2> TAKE i \in kept
  <2>1. {j \in kept : j <= i} = (m + 1) .. i /\ i \in Nat /\ i >= m + 1
    BY <1>1, <1>2
  <2>2. m \in Nat /\ i \in Nat /\ m <= i
    BY <1>1, <2>1
  <2>3. Cardinality((m + 1) .. i) = i - m
    BY <2>2, IntervalSize
  <2> QED BY <2>1, <2>3
<1> HIDE DEF kept
<1>5. \A k \in 1 .. (Len(s) - m) :
        (CHOOSE i \in kept : Http!Cardinality({j \in kept : j <= i}) = k) = m + k
  <2> TAKE k \in 1 .. (Len(s) - m)
  <2>1. m + k \in kept
    BY <1>1, <1>2
  <2>2. Http!Cardinality({j \in kept : j <= m + k}) = k
    BY <1>1, <1>4, <2>1
  <2>3. \A i \in kept : Http!Cardinality({j \in kept : j <= i}) = k => i = m + k
    <3> TAKE i \in kept
    <3>1. Cardinality({j \in kept : j <= i}) = i - m
      BY <1>4
    <3>2. i \in Nat /\ (i - m = k => i = m + k)
      BY <1>1, <1>2
    <3> QED BY <3>1, <3>2
  <2> QED BY <2>1, <2>2, <2>3
<1>6. Http!Later(s, cutoff) = [k \in 1 .. Http!Cardinality(kept) |->
          s[CHOOSE i \in kept : Http!Cardinality({j \in kept : j <= i}) = k]]
  BY DEF Http!Later, kept
<1> QED BY <1>3, <1>5, <1>6 DEF Suffix

LEMMA SameList ==
  ASSUME NEW s \in Seq(Nat), NEW t \in Seq(Nat), Len(s) = Len(t), \A k \in 1 .. Len(s) : s[k] = t[k]
  PROVE  s = t
<1>1. DOMAIN s = 1 .. Len(s) /\ DOMAIN t = 1 .. Len(t)
  OBVIOUS
<1>2. s = [k \in DOMAIN s |-> s[k]] /\ t = [k \in DOMAIN t |-> t[k]]
  OBVIOUS
<1> QED BY <1>1, <1>2

LEMMA SuffixOf ==
  ASSUME NEW s \in Seq(Nat), NEW m \in 0 .. Len(s)
  PROVE  /\ Suffix(s, m) \in Seq(Nat) /\ Len(Suffix(s, m)) = Len(s) - m
         /\ \A k \in 1 .. (Len(s) - m) : Suffix(s, m)[k] = s[m + k] /\ m + k \in 1 .. Len(s)
<1>1. Len(s) - m \in Nat
  OBVIOUS
<1>2. \A k \in 1 .. (Len(s) - m) : m + k \in 1 .. Len(s) /\ s[m + k] \in Nat
  OBVIOUS
<1> QED BY <1>1, <1>2 DEF Suffix

\* What is kept of an ascending list: its later part.
LEMMA LaterFacts ==
  ASSUME NEW s \in Seq(Nat), Sorted(s), NEW cutoff \in Int
  PROVE  /\ Http!Later(s, cutoff) \in Seq(Nat) /\ Sorted(Http!Later(s, cutoff))
         /\ Len(Http!Later(s, cutoff)) <= Len(s)
         /\ \A i \in 1 .. Len(Http!Later(s, cutoff)) :
               Http!Later(s, cutoff)[i] > cutoff /\ \E j \in 1 .. Len(s) : Http!Later(s, cutoff)[i] = s[j]
         /\ Len(Http!Later(s, cutoff)) = Len(s) => Http!Later(s, cutoff) = s
<1>1. PICK m : Cut(s, cutoff, m)
  BY CutExists
<1>2. m \in 0 .. Len(s) /\ Http!Later(s, cutoff) = Suffix(s, m)
  BY <1>1, LaterIsSuffix DEF Cut
<1> DEFINE t == Suffix(s, m)
<1>3. /\ t \in Seq(Nat) /\ Len(t) = Len(s) - m
      /\ \A k \in 1 .. (Len(s) - m) : t[k] = s[m + k] /\ m + k \in 1 .. Len(s)
  BY <1>2, SuffixOf
<1> HIDE DEF t
<1>4. Sorted(t)
  <2> SUFFICES ASSUME NEW i \in 1 .. Len(t), NEW j \in 1 .. Len(t), i <= j PROVE t[i] <= t[j]
    BY DEF Sorted
  <2>1. /\ m + i \in 1 .. Len(s) /\ m + j \in 1 .. Len(s) /\ m + i <= m + j
        /\ t[i] = s[m + i] /\ t[j] = s[m + j]
    BY <1>2, <1>3
  <2> QED BY <2>1 DEF Sorted
<1>5. \A i \in 1 .. Len(t) : t[i] > cutoff /\ \E j \in 1 .. Len(s) : t[i] = s[j]
  <2> TAKE i \in 1 .. Len(t)
  <2>1. m + i \in (m + 1) .. Len(s) /\ m + i \in 1 .. Len(s) /\ t[i] = s[m + i]
    BY <1>2, <1>3
  <2> QED BY <1>1, <2>1 DEF Cut
<1>6. Len(t) = Len(s) => t = s
  <2> SUFFICES ASSUME Len(t) = Len(s) PROVE t = s
    OBVIOUS
  <2>1. m = 0
    BY <1>2, <1>3
  <2>2. \A k \in 1 .. Len(s) : t[k] = s[k]
    BY <1>3, <2>1
  <2> QED BY <1>3, <2>2, SameList
<1> QED BY <1>2, <1>3, <1>4, <1>5, <1>6 DEF t

\* Pruning keeps a list that has nothing expired in it.
LEMMA LaterAll ==
  ASSUME NEW s \in Seq(Nat), Sorted(s), NEW cutoff \in Int, \A i \in 1 .. Len(s) : s[i] > cutoff
  PROVE  Http!Later(s, cutoff) = s
<1>1. Cut(s, cutoff, 0)
  BY DEF Cut
<1>2. Http!Later(s, cutoff) = Suffix(s, 0)
  BY <1>1, LaterIsSuffix
<1>3. /\ Suffix(s, 0) \in Seq(Nat) /\ Len(Suffix(s, 0)) = Len(s)
      /\ \A k \in 1 .. Len(s) : Suffix(s, 0)[k] = s[k]
  <2>1. 0 \in 0 .. Len(s) /\ Len(s) - 0 = Len(s) /\ \A k \in 1 .. Len(s) : 0 + k = k
    OBVIOUS
  <2> QED BY <2>1, SuffixOf
<1> DEFINE t == Suffix(s, 0)
<1> HIDE DEF t
<1>4. t = s
  BY <1>3, SameList DEF t
<1> QED BY <1>2, <1>4 DEF t

\* Pruning twice is pruning once, by the later cutoff.
LEMMA LaterTwice ==
  ASSUME NEW s \in Seq(Nat), Sorted(s), NEW c1 \in Int, NEW c2 \in Int, c1 <= c2
  PROVE  Http!Later(Http!Later(s, c1), c2) = Http!Later(s, c2)
<1>1. PICK m1 : Cut(s, c1, m1)
  BY CutExists
<1>2. PICK m2 : Cut(s, c2, m2)
  BY CutExists
<1>3. m1 \in 0 .. Len(s) /\ m2 \in 0 .. Len(s) /\ Len(s) \in Nat
  BY <1>1, <1>2 DEF Cut
<1>4. m1 <= m2
  <2> SUFFICES ASSUME m2 < m1 PROVE FALSE
    BY <1>3
  <2>1. m1 \in 1 .. m1 /\ m1 \in (m2 + 1) .. Len(s) /\ m1 \in 1 .. Len(s)
    BY <1>3
  <2>2. s[m1] \in Nat /\ s[m1] <= c1 /\ s[m1] > c2
    BY <1>1, <1>2, <2>1 DEF Cut
  <2> QED BY <2>2
<1> DEFINE t == Suffix(s, m1)
           u == Suffix(t, m2 - m1)
           v == Suffix(s, m2)
<1>5. Http!Later(s, c1) = t /\ Http!Later(s, c2) = v
  BY <1>1, <1>2, LaterIsSuffix
<1>6. /\ t \in Seq(Nat) /\ Len(t) = Len(s) - m1
      /\ \A k \in 1 .. (Len(s) - m1) : t[k] = s[m1 + k] /\ m1 + k \in 1 .. Len(s)
  BY <1>3, SuffixOf
<1>7. /\ v \in Seq(Nat) /\ Len(v) = Len(s) - m2
      /\ \A k \in 1 .. (Len(s) - m2) : v[k] = s[m2 + k] /\ m2 + k \in 1 .. Len(s)
  BY <1>3, SuffixOf
<1> HIDE DEF t, v
<1>8. m2 - m1 \in 0 .. Len(t)
  BY <1>3, <1>4, <1>6
<1>9. Cut(t, c2, m2 - m1)
  <2>1. \A i \in 1 .. (m2 - m1) : t[i] <= c2
    <3> TAKE i \in 1 .. (m2 - m1)
    <3>1. i \in 1 .. (Len(s) - m1) /\ m1 + i \in 1 .. m2
      BY <1>3, <1>4
    <3> QED BY <1>2, <1>6, <3>1 DEF Cut
  <2>2. \A i \in (m2 - m1 + 1) .. Len(t) : t[i] > c2
    <3> TAKE i \in (m2 - m1 + 1) .. Len(t)
    <3>1. i \in 1 .. (Len(s) - m1) /\ m1 + i \in (m2 + 1) .. Len(s)
      BY <1>3, <1>4, <1>6
    <3> QED BY <1>2, <1>6, <3>1 DEF Cut
  <2> QED BY <1>8, <2>1, <2>2 DEF Cut
<1>10. Http!Later(t, c2) = u
  BY <1>6, <1>9, LaterIsSuffix
<1>11. /\ u \in Seq(Nat) /\ Len(u) = Len(t) - (m2 - m1)
       /\ \A k \in 1 .. (Len(t) - (m2 - m1)) : u[k] = t[(m2 - m1) + k] /\ (m2 - m1) + k \in 1 .. Len(t)
  BY <1>6, <1>8, SuffixOf
<1> HIDE DEF u
<1>12. Len(u) = Len(v)
  BY <1>3, <1>6, <1>7, <1>11
<1>13. \A k \in 1 .. Len(v) : u[k] = v[k]
  <2> TAKE k \in 1 .. Len(v)
  <2>1. k \in 1 .. (Len(t) - (m2 - m1)) /\ k \in 1 .. (Len(s) - m2)
    BY <1>3, <1>6, <1>7
  <2>2. (m2 - m1) + k \in 1 .. (Len(s) - m1) /\ m1 + ((m2 - m1) + k) = m2 + k
    BY <1>3, <1>6, <1>11, <2>1
  <2>3. u[k] = t[(m2 - m1) + k] /\ t[(m2 - m1) + k] = s[m1 + ((m2 - m1) + k)] /\ v[k] = s[m2 + k]
    BY <1>6, <1>7, <1>11, <2>1, <2>2
  <2> QED BY <2>2, <2>3
<1>14. u = v
  BY <1>7, <1>11, <1>12, <1>13, SameList
<1> QED BY <1>5, <1>10, <1>14

\* A new time stamp is the last of the list, and of what is kept of it.
LEMMA AppendedLater ==
  ASSUME NEW s \in Seq(Nat), Sorted(s), NEW t \in Nat, \A i \in 1 .. Len(s) : s[i] <= t
  PROVE  /\ Append(s, t) \in Seq(Nat) /\ Len(Append(s, t)) = Len(s) + 1
         /\ Sorted(Append(s, t))
         /\ \A i \in 1 .. Len(s) : Append(s, t)[i] = s[i]
         /\ Append(s, t)[Len(s) + 1] = t
<1>1. Append(s, t) \in Seq(Nat) /\ Len(Append(s, t)) = Len(s) + 1 /\ Len(s) \in Nat
  OBVIOUS
<1>2. \A i \in 1 .. Len(s) : Append(s, t)[i] = s[i] /\ s[i] \in Nat
  OBVIOUS
<1>3. Append(s, t)[Len(s) + 1] = t
  OBVIOUS
<1>4. Sorted(Append(s, t))
  <2> DEFINE a == Append(s, t)
  <2> HIDE DEF a
  <2> SUFFICES ASSUME NEW i \in 1 .. Len(a), NEW j \in 1 .. Len(a), i <= j PROVE a[i] <= a[j]
    BY DEF Sorted, a
  <2>1. CASE j = Len(s) + 1
    BY <1>1, <1>2, <1>3, <2>1 DEF a
  <2>2. CASE j # Len(s) + 1
    BY <1>1, <1>2, <2>2 DEF a, Sorted
  <2> QED BY <2>1, <2>2
<1> QED BY <1>1, <1>2, <1>3, <1>4

-----------------------------------------------------------------------------
\* Stamps are of the past and in the order in which they were taken.
ListSound(times) == times \in Seq(Nat) /\ Sorted(times) /\ \A i \in 1 .. Len(times) : times[i] <= now

\* A Retry-After that was promised has not been overtaken: by then the oldest stamp
\* of a full window has expired.
PromiseSound(c) ==
  promise[c] # Http!Never =>
    \/ Len(granted[c]) < rpm
    \/ Len(granted[c]) > 0 /\ granted[c][1] + Window <= promise[c]

\* What holds of one client: the middleware's list, pruned, is the history of grants.
ClientSound(c) ==
  /\ ListSound(Http!Times(c))
  /\ granted[c] = Http!Live(Http!Times(c))
  /\ promise[c] \in Int
  /\ rpm > 0 => Len(granted[c]) <= rpm
  /\ PromiseSound(c)
  /\ promise[c] # Http!Never => rpm > 0

\* The invariant of the limiter's table.
WindowsSound ==
  /\ now \in Nat /\ lastSweep \in Int /\ rpm \in Int
  /\ DOMAIN timestamps \subseteq Clients
  /\ DOMAIN granted = Clients /\ DOMAIN promise = Clients
  /\ \A c \in Clients : ClientSound(c)
  /\ Http!NoIdleClients

LEMMA EmptyList ==
  ASSUME NEW cutoff \in Int
  PROVE  /\ <<>> \in Seq(Nat) /\ Len(<<>>) = 0 /\ Sorted(<<>>) /\ Http!Later(<<>>, cutoff) = <<>>
<1>1. <<>> \in Seq(Nat) /\ Len(<<>>) = 0
  OBVIOUS
<1> DEFINE e == <<>>
<1> HIDE DEF e
<1>2. Sorted(e) /\ \A i \in 1 .. Len(e) : e[i] > cutoff
  BY <1>1 DEF Sorted, e
<1>3. Http!Later(e, cutoff) = e
  BY <1>1, <1>2, LaterAll DEF e
<1> QED BY <1>1, <1>2, <1>3 DEF e

LEMMA WindowsInit ==
  ASSUME Http!PipelineAssumption, Http!Init
  PROVE  WindowsSound
<1>1. now = 0 /\ lastSweep \in Int /\ now - Window \in Int
  BY DEF Http!PipelineAssumption, Http!Init, Http!Never
<1>2. DOMAIN timestamps = {} /\ DOMAIN granted = Clients /\ DOMAIN promise = Clients
  BY DEF Http!Init
<1>3. \A c \in Clients : Http!Times(c) = <<>> /\ granted[c] = <<>> /\ promise[c] = Http!Never
  BY <1>2 DEF Http!Init, Http!Times
<1>4. Http!Never \in Int /\ rpm \in Int
  BY DEF Http!Never, Http!Init, Http!PipelineAssumption
<1>5. ASSUME NEW c \in Clients PROVE ClientSound(c)
  <2>1. /\ <<>> \in Seq(Nat) /\ Len(<<>>) = 0 /\ Sorted(<<>>) /\ Http!Live(<<>>) = <<>>
    BY <1>1, EmptyList DEF Http!Live
  <2>2. ListSound(Http!Times(c))
    <3> DEFINE t == Http!Times(c)
    <3> HIDE DEF t
    <3>1. t \in Seq(Nat) /\ Len(t) = 0 /\ Sorted(t)
      BY <1>3, <2>1 DEF t
    <3> QED BY <3>1 DEF ListSound, t
  <2> QED
    BY <1>3, <1>4, <2>1, <2>2 DEF ClientSound, PromiseSound
<1> QED
  BY <1>1, <1>2, <1>4, <1>5 DEF WindowsSound, Http!NoIdleClients

\* What is live of a client's list.
LEMMA LiveFacts ==
  ASSUME Http!PipelineAssumption, WindowsSound, NEW c \in Clients
  PROVE  /\ now - Window \in Int /\ now > now - Window
         /\ granted[c] = Http!Live(Http!Times(c))
         /\ granted[c] \in Seq(Nat) /\ Sorted(granted[c])
         /\ \A i \in 1 .. Len(granted[c]) : granted[c][i] > now - Window /\ granted[c][i] <= now
<1>1. now - Window \in Int /\ now > now - Window
  BY DEF Http!PipelineAssumption, WindowsSound
<1>2. ListSound(Http!Times(c)) /\ granted[c] = Http!Live(Http!Times(c))
  BY DEF WindowsSound, ClientSound
<1> DEFINE t == Http!Times(c)
           g == granted[c]
<1>3. t \in Seq(Nat) /\ Sorted(t) /\ \A i \in 1 .. Len(t) : t[i] <= now
  BY <1>2 DEF ListSound
<1>4. g = Http!Later(t, now - Window)
  BY <1>2 DEF Http!Live
<1> HIDE DEF t, g
<1>5. g \in Seq(Nat) /\ Sorted(g) /\ \A i \in 1 .. Len(g) : g[i] > now - Window /\ \E j \in 1 .. Len(t) : g[i] = t[j]
  BY <1>1, <1>3, <1>4, LaterFacts
<1>6. \A i \in 1 .. Len(g) : g[i] > now - Window /\ g[i] <= now
  BY <1>3, <1>5
<1> QED BY <1>1, <1>2, <1>5, <1>6 DEF g

\* As time passes stamps expire, and with them a full window.
LEMMA TickWindows ==
  ASSUME Http!PipelineAssumption, WindowsSound, Http!Tick, rpm' = rpm
  PROVE  WindowsSound'
<1>1. now \in Nat /\ now' = now + 1 /\ Window \in Nat /\ lastSweep' = lastSweep /\ lastSweep \in Int
  BY DEF Http!PipelineAssumption, WindowsSound, Http!Tick
<1>2. timestamps' = timestamps /\ promise' = promise
  BY DEF Http!Tick
<1>3. \A c \in Clients : granted'[c] = Http!Later(granted[c], now' - Window)
  BY DEF Http!Tick
<1>4. ASSUME NEW c \in Clients PROVE ClientSound(c)'
  <2> DEFINE t == Http!Times(c)
             g == granted[c]
             h == granted'[c]
  <2>1. t \in Seq(Nat) /\ Sorted(t) /\ \A i \in 1 .. Len(t) : t[i] <= now
    BY DEF WindowsSound, ClientSound, ListSound
  <2>2. Http!Times(c)' = t
    BY <1>2 DEF Http!Times
  <2>3. g = Http!Later(t, now - Window) /\ h = Http!Later(g, now' - Window)
    BY <1>3 DEF WindowsSound, ClientSound, Http!Live
  <2>4. g \in Seq(Nat) /\ Sorted(g) /\ \A i \in 1 .. Len(g) : g[i] > now - Window /\ g[i] <= now
    BY LiveFacts
  <2>5. /\ promise[c] \in Int /\ (rpm > 0 => Len(g) <= rpm) /\ (promise[c] # Http!Never => rpm > 0)
        /\ promise[c] # Http!Never => (Len(g) < rpm \/ (Len(g) > 0 /\ g[1] + Window <= promise[c]))
    BY DEF WindowsSound, ClientSound, PromiseSound
  <2> HIDE DEF t, g, h
  <2>6. now - Window \in Int /\ now' - Window \in Int /\ now - Window <= now' - Window
    BY <1>1
  <2>7. h = Http!Later(t, now' - Window)
    BY <2>1, <2>3, <2>6, LaterTwice
  <2>8. h \in Seq(Nat) /\ Len(h) <= Len(g) /\ (Len(h) = Len(g) => h = g)
    BY <2>3, <2>4, <2>6, LaterFacts
  <2>9. \A i \in 1 .. Len(t) : t[i] <= now'
    BY <1>1, <2>1
  <2>10. rpm \in Int /\ Len(h) \in Nat /\ Len(g) \in Nat
    BY <2>4, <2>8 DEF WindowsSound
  <2>11. rpm > 0 => Len(h) <= rpm
    BY <2>5, <2>8, <2>10
  <2>12. promise[c] # Http!Never => (Len(h) < rpm \/ (Len(h) > 0 /\ h[1] + Window <= promise[c]))
    <3>1. CASE Len(h) = Len(g)
      BY <2>5, <2>8, <3>1
    <3>2. CASE Len(h) # Len(g)
      BY <2>5, <2>8, <2>10, <3>2
    <3> QED BY <3>1, <3>2
  <2>13. ListSound(Http!Times(c))'
    BY <2>1, <2>2, <2>9 DEF ListSound
  <2>14. granted'[c] = Http!Live(Http!Times(c))'
    BY <2>2, <2>7 DEF Http!Live, h
  <2> QED
    BY <1>2, <2>5, <2>11, <2>12, <2>13, <2>14 DEF ClientSound, PromiseSound, h
<1>5. DOMAIN granted' = Clients
  BY DEF Http!Tick
<1>6. Http!NoIdleClients'
  BY <1>1, <1>2 DEF WindowsSound, Http!NoIdleClients
<1>7. now' \in Nat
  BY <1>1
<1> QED
  BY <1>1, <1>2, <1>4, <1>5, <1>6, <1>7 DEF WindowsSound

\* (x \div n + 1) seconds of n ticks are more than x ticks.
LEMMA RoundedUp ==
  ASSUME NEW x \in Nat, NEW n \in Nat \ {0}, NEW w \in Nat, w >= (x \div n) + 1
  PROVE  w * n > x /\ w * n \in Nat
<1> DEFINE d == x \div n
<1>1. d \in Nat /\ x = n * d + (x % n) /\ x % n \in Nat /\ x % n < n
  OBVIOUS
<1> HIDE DEF d
<1>2. PICK e \in Nat : w = d + 1 + e
  <2>1. w - (d + 1) \in Nat /\ w = d + 1 + (w - (d + 1))
    BY <1>1 DEF d
  <2> QED BY <2>1
<1>3. w * n = n * d + n + e * n /\ e * n \in Nat /\ n * d \in Nat
  BY <1>1, <1>2
<1> QED BY <1>1, <1>3

\* The sweep of a request that is let in drops what has expired of the others, and nothing
\* that is live.
LEMMA SweptTimes ==
  ASSUME Http!PipelineAssumption, WindowsSound, NEW c \in Clients, NEW s, NEW after,
         s # <<>>, after = Http!Sweep(Http!Remember(c, s), c)
  PROVE  /\ DOMAIN after \subseteq Clients /\ c \in DOMAIN after /\ after[c] = s
         /\ \A d \in Clients \ {c} :
              /\ d \in DOMAIN after <=> Http!Live(Http!Times(d)) # <<>>
              /\ d \in DOMAIN after => after[d] = Http!Live(Http!Times(d))
<1> DEFINE T == Http!Remember(c, s)
<1>1. /\ DOMAIN T = DOMAIN timestamps \cup {c} /\ T[c] = s
      /\ \A d \in DOMAIN timestamps : d # c => T[d] = timestamps[d]
  BY DEF Http!Remember
<1> HIDE DEF T
<1> DEFINE kept == {d \in DOMAIN T : d = c \/ Http!Live(T[d]) # <<>>}
<1>2. after = [d \in kept |-> IF d = c THEN T[d] ELSE Http!Live(T[d])]
  BY DEF Http!Sweep, T
<1>3. DOMAIN after = kept /\ \A d \in kept : after[d] = IF d = c THEN T[d] ELSE Http!Live(T[d])
  BY <1>2
<1>4. DOMAIN timestamps \subseteq Clients
  BY DEF WindowsSound
<1>5. c \in kept /\ after[c] = s
  BY <1>1, <1>3
<1>6. kept \subseteq Clients
  BY <1>1, <1>4
<1>7. ASSUME NEW d \in Clients \ {c}
      PROVE  (d \in kept <=> Http!Live(Http!Times(d)) # <<>>) /\ (d \in kept => after[d] = Http!Live(Http!Times(d)))
  <2>1. CASE d \in DOMAIN timestamps
    <3>1. Http!Times(d) = timestamps[d] /\ T[d] = timestamps[d] /\ d \in DOMAIN T
      BY <1>1, <2>1 DEF Http!Times
    <3> QED BY <1>3, <3>1
  <2>2. CASE d \notin DOMAIN timestamps
    <3>1. Http!Times(d) = <<>> /\ d \notin kept
      BY <1>1, <2>2 DEF Http!Times
    <3>2. now - Window \in Int
      BY LiveFacts
    <3>3. Http!Live(Http!Times(d)) = <<>>
      BY <3>1, <3>2, EmptyList DEF Http!Live
    <3> QED BY <3>1, <3>3
  <2> QED BY <2>1, <2>2
<1> QED BY <1>3, <1>5, <1>6, <1>7

\* A request that is let in takes a slot that is free.
LEMMA LetIn ==
  ASSUME Http!PipelineAssumption, WindowsSound, NEW c \in Clients, NEW live,
         live = Http!Live(Http!Times(c)), rpm > 0, ~Http!Full(live), now' = now, rpm' = rpm,
         timestamps' = Http!Sweep(Http!Remember(c, Append(live, now)), c),
         granted' = [granted EXCEPT ![c] = Append(@, now)],
         promise' = [promise EXCEPT ![c] = Http!Never],
         lastSweep' = now
  PROVE  WindowsSound'
<1>1. now \in Nat /\ now - Window \in Int /\ now > now - Window /\ rpm \in Int
  BY LiveFacts DEF WindowsSound, Http!PipelineAssumption
<1>2. /\ live = granted[c] /\ live \in Seq(Nat) /\ Sorted(live)
      /\ \A i \in 1 .. Len(live) : live[i] > now - Window /\ live[i] <= now
  BY LiveFacts
<1> DEFINE s == Append(live, now)
<1>3. /\ s \in Seq(Nat) /\ Len(s) = Len(live) + 1 /\ Sorted(s)
      /\ \A i \in 1 .. Len(live) : s[i] = live[i]
      /\ s[Len(live) + 1] = now
  BY <1>1, <1>2, AppendedLater
<1>4. DOMAIN granted = Clients /\ DOMAIN promise = Clients
  BY DEF WindowsSound
<1>5. granted'[c] = s /\ DOMAIN granted' = Clients /\ promise'[c] = Http!Never /\ DOMAIN promise' = Clients
  BY <1>2, <1>4
<1>6. \A d \in Clients \ {c} : granted'[d] = granted[d] /\ promise'[d] = promise[d]
  BY <1>4
<1>7. timestamps' = Http!Sweep(Http!Remember(c, s), c)
  OBVIOUS
<1> HIDE DEF s
<1>8. \A i \in 1 .. Len(s) : s[i] > now - Window /\ s[i] <= now
  <2> TAKE i \in 1 .. Len(s)
  <2>1. CASE i = Len(live) + 1
    BY <1>1, <1>3, <2>1
  <2>2. CASE i # Len(live) + 1
    <3>1. i \in 1 .. Len(live)
      BY <1>2, <1>3, <2>2
    <3>2. s[i] = live[i]
      BY <1>3, <3>1
    <3> QED BY <1>2, <3>1, <3>2
  <2> QED BY <2>1, <2>2
<1>9. s # <<>> /\ Len(s) \in Nat /\ Len(live) \in Nat
  BY <1>2, <1>3
<1>10. /\ DOMAIN timestamps' \subseteq Clients /\ c \in DOMAIN timestamps' /\ timestamps'[c] = s
       /\ \A d \in Clients \ {c} :
            /\ d \in DOMAIN timestamps' <=> Http!Live(Http!Times(d)) # <<>>
            /\ d \in DOMAIN timestamps' => timestamps'[d] = Http!Live(Http!Times(d))
  BY <1>7, <1>9, SweptTimes
<1>11. Http!Times(c)' = s /\ \A d \in Clients \ {c} : Http!Times(d)' = Http!Live(Http!Times(d))
  BY <1>10 DEF Http!Times
<1>12. ClientSound(c)'
  <2>1. ListSound(Http!Times(c))'
    BY <1>3, <1>8, <1>11 DEF ListSound
  <2>2. Http!Later(s, now - Window) = s
    BY <1>1, <1>3, <1>8, LaterAll
  <2>3. granted'[c] = Http!Live(Http!Times(c))'
    BY <1>5, <1>11, <2>2 DEF Http!Live
  <2>4. Len(s) <= rpm
    BY <1>1, <1>3, <1>9 DEF Http!Full
  <2> QED
    BY <1>5, <2>1, <2>3, <2>4 DEF ClientSound, PromiseSound, Http!Never
<1>13. ASSUME NEW d \in Clients \ {c} PROVE ClientSound(d)'
  <2> DEFINE g == granted[d]
  <2>1. /\ g = Http!Live(Http!Times(d)) /\ g \in Seq(Nat) /\ Sorted(g)
        /\ \A i \in 1 .. Len(g) : g[i] > now - Window /\ g[i] <= now
    BY LiveFacts
  <2>2. granted'[d] = g /\ promise'[d] = promise[d] /\ Http!Times(d)' = g
    BY <1>6, <1>11, <2>1
  <2> HIDE DEF g
  <2>3. ListSound(Http!Times(d))'
    BY <2>1, <2>2 DEF ListSound
  <2>4. Http!Later(g, now - Window) = g
    BY <1>1, <2>1, LaterAll
  <2>5. granted'[d] = Http!Live(Http!Times(d))'
    BY <2>2, <2>4 DEF Http!Live
  <2>6. ClientSound(d)
    BY DEF WindowsSound
  <2> QED
    BY <2>2, <2>3, <2>5, <2>6 DEF ClientSound, PromiseSound, g
<1>14. Http!NoIdleClients'
  <2> SUFFICES ASSUME NEW d \in DOMAIN timestamps'
               PROVE  \E i \in DOMAIN timestamps'[d] : timestamps'[d][i] > now - Window
    BY DEF Http!NoIdleClients
  <2>1. CASE d = c
    <3>1. Len(s) \in DOMAIN s /\ Len(s) \in 1 .. Len(s)
      BY <1>3, <1>9
    <3> QED BY <1>8, <1>10, <2>1, <3>1
  <2>2. CASE d # c
    <3> DEFINE g == granted[d]
    <3>1. d \in Clients
      BY <1>10
    <3>2. /\ g = Http!Live(Http!Times(d)) /\ g \in Seq(Nat)
          /\ \A i \in 1 .. Len(g) : g[i] > now - Window
      BY <3>1, LiveFacts
    <3>3. timestamps'[d] = g /\ g # <<>>
      BY <1>10, <2>2, <3>1, <3>2
    <3> HIDE DEF g
    <3>4. 1 \in DOMAIN g /\ 1 \in 1 .. Len(g)
      BY <3>2, <3>3
    <3> QED BY <3>2, <3>3, <3>4
  <2> QED BY <2>1, <2>2
<1> QED
  BY <1>1, <1>5, <1>10, <1>12, <1>13, <1>14 DEF WindowsSound

\* A refused request is told when the oldest live stamp has expired, rounded up.
LEMMA Refused ==
  ASSUME Http!PipelineAssumption, WindowsSound, NEW c \in Clients, NEW live,
         live = Http!Live(Http!Times(c)), rpm > 0, Http!Full(live), now' = now, rpm' = rpm,
         promise' = [promise EXCEPT ![c] = now + Http!RetryAfter(live) * TicksPerSecond],
         timestamps' = timestamps, granted' = granted, lastSweep' = lastSweep
  PROVE  WindowsSound'
<1>1. now \in Nat /\ now - Window \in Int /\ rpm \in Int /\ Window \in Nat /\ TicksPerSecond \in Nat \ {0}
  BY DEF WindowsSound, Http!PipelineAssumption
<1>2. /\ live = granted[c] /\ live \in Seq(Nat)
      /\ \A i \in 1 .. Len(live) : live[i] > now - Window /\ live[i] <= now
  BY LiveFacts
<1>3. Len(live) > 0 /\ Len(live) \in Nat
  BY <1>1, <1>2 DEF Http!Full
<1>4. Head(live) = live[1] /\ live[1] \in Nat /\ live[1] > now - Window
  BY <1>2, <1>3
<1> DEFINE x == live[1] - (now - Window)
           w == Http!RetryAfter(live)
<1>5. x \in Nat
  BY <1>1, <1>4
<1>6. w = IF (x \div TicksPerSecond) + 1 > 1 THEN (x \div TicksPerSecond) + 1 ELSE 1
  BY <1>4 DEF Http!RetryAfter
<1> HIDE DEF x, w
<1>7. w \in Nat /\ w >= (x \div TicksPerSecond) + 1
  <2>1. x \div TicksPerSecond \in Nat
    BY <1>1, <1>5
  <2> QED BY <1>6, <2>1
<1>8. w * TicksPerSecond > x /\ w * TicksPerSecond \in Nat
  BY <1>1, <1>5, <1>7, RoundedUp
<1> DEFINE p == now + w * TicksPerSecond
<1>9. p \in Int /\ live[1] + Window <= p
  BY <1>1, <1>4, <1>5, <1>8 DEF x
<1>10. promise' = [promise EXCEPT ![c] = p]
  BY DEF w
<1> HIDE DEF p
<1>11. DOMAIN promise = Clients /\ DOMAIN granted = Clients /\ lastSweep \in Int
  BY DEF WindowsSound
<1>12. promise'[c] = p /\ DOMAIN promise' = Clients /\ \A d \in Clients \ {c} : promise'[d] = promise[d]
  BY <1>10, <1>11
<1>13. ASSUME NEW d \in Clients PROVE ClientSound(d)'
  <2>1. ClientSound(d)
    BY DEF WindowsSound
  <2>2. ListSound(Http!Times(d))' /\ granted'[d] = Http!Live(Http!Times(d))' /\ (rpm > 0 => Len(granted'[d]) <= rpm)
    BY <2>1 DEF ClientSound, ListSound, Http!Times, Http!Live
  <2>3. promise'[d] \in Int /\ PromiseSound(d)' /\ (promise'[d] # Http!Never => rpm > 0)
    <3>1. CASE d = c
      BY <1>2, <1>3, <1>9, <1>12, <3>1 DEF PromiseSound
    <3>2. CASE d # c
      BY <1>12, <2>1, <3>2 DEF ClientSound, PromiseSound
    <3> QED BY <3>1, <3>2
  <2> QED BY <2>2, <2>3 DEF ClientSound
<1>14. Http!NoIdleClients' /\ DOMAIN timestamps \subseteq Clients
  BY DEF WindowsSound, Http!NoIdleClients
<1> QED
  BY <1>1, <1>11, <1>12, <1>13, <1>14 DEF WindowsSound

LEMMA WindowsKept ==
  ASSUME WindowsSound, UNCHANGED <<now, Http!limiter>>
  PROVE  WindowsSound'
<1>1. /\ now' = now /\ rpm' = rpm /\ timestamps' = timestamps /\ granted' = granted
      /\ promise' = promise /\ lastSweep' = lastSweep
  BY DEF Http!limiter
<1> QED
  BY <1>1 DEF WindowsSound, ClientSound, ListSound, PromiseSound, Http!Times, Http!Live, Http!NoIdleClients

LEMMA ClientKnown ==
  ASSUME Http!PipelineAssumption, RequestsSound, NEW r \in Requests
  PROVE  req[r].in.client \in Clients
<1>1. req[r].in \in Http!InputSet \cup {Http!Unused.in}
  BY DEF RequestsSound, QSound, RecordType
<1>2. CASE req[r].in \in Http!InputSet
  BY <1>2 DEF Http!InputSet
<1>3. CASE req[r].in = Http!Unused.in
  <2>1. Http!Unused.in.client = CHOOSE c \in Clients : TRUE
    BY DEF Http!Unused, Http!Fresh
  <2> QED BY <1>3, <2>1 DEF Http!PipelineAssumption
<1> QED BY <1>1, <1>2, <1>3

LEMMA RateLimitWindows ==
  ASSUME Http!PipelineAssumption, RequestsSound, WindowsSound, rpm' = rpm, NEW r \in Requests, Http!RateLimit(r)
  PROVE  WindowsSound'
<1> DEFINE c == req[r].in.client
           live == Http!Live(Http!Times(c))
<1>1. c \in Clients
  BY ClientKnown
<1>2. now' = now
  BY DEF Http!RateLimit
<1>3. CASE UNCHANGED Http!limiter
  BY <1>2, <1>3, WindowsKept
<1>4. CASE /\ rpm > 0 /\ Http!Full(live)
           /\ promise' = [promise EXCEPT ![c] = now + Http!RetryAfter(live) * TicksPerSecond]
           /\ UNCHANGED <<timestamps, granted, lastSweep>>
  <2> HIDE DEF c
  <2> QED BY <1>1, <1>2, <1>4, Refused
<1>5. CASE /\ rpm > 0 /\ ~Http!Full(live)
           /\ timestamps' = Http!Sweep(Http!Remember(c, Append(live, now)), c)
           /\ granted' = [granted EXCEPT ![c] = Append(@, now)]
           /\ promise' = [promise EXCEPT ![c] = Http!Never]
           /\ lastSweep' = now
  <2> HIDE DEF c
  <2> QED BY <1>1, <1>2, <1>5, LetIn
<1> QED BY <1>3, <1>4, <1>5 DEF Http!RateLimit

LEMMA WindowsStep ==
  ASSUME Http!PipelineAssumption, RequestsSound, WindowsSound, [Http!Next]_Http!vars
  PROVE  WindowsSound'
<1>0. rpm' = rpm
  BY RpmKept
<1>1. CASE Http!Tick
  BY <1>0, <1>1, TickWindows
<1>2. CASE \E r \in Requests : Http!RateLimit(r)
  BY <1>0, <1>2, RateLimitWindows
<1>3. CASE UNCHANGED <<now, Http!limiter>>
  BY <1>3, WindowsKept
<1>4. UNCHANGED Http!vars => UNCHANGED <<now, Http!limiter>>
  BY DEF Http!vars, Http!limiter
<1>5. ASSUME NEW r \in Requests
      PROVE  /\ \A in \in Inputs : Http!Arrive(r, in) => UNCHANGED <<now, Http!limiter>>
             /\ (Http!HostCheck(r) \/ Http!Cors(r) \/ Http!Auth(r) \/ Http!Route(r)) => UNCHANGED <<now, Http!limiter>>
             /\ \A end \in DOMAIN Http!StatusOf : Http!Handle(r, end) => UNCHANGED <<now, Http!limiter>>
             /\ (Http!HandleRaises(r) \/ Http!Transport(r) \/ Http!CallTool(r)) => UNCHANGED <<now, Http!limiter>>
             /\ \A outcome \in Http!McpOutcomes : Http!EndTool(r, outcome) => UNCHANGED <<now, Http!limiter>>
             /\ (Http!CancelTool(r) \/ Http!EndBody(r) \/ Http!Cancel(r)) => UNCHANGED <<now, Http!limiter>>
  BY Zenon DEF Http!Arrive, Http!HostCheck, Http!Cors, Http!Auth, Http!Route, Http!Handle, Http!HandleRaises, Http!Transport, Http!CallTool, Http!EndTool,
         Http!CancelTool, Http!EndBody, Http!Cancel
<1> QED
  BY <1>1, <1>2, <1>3, <1>4, <1>5, Zenon DEF Http!Next

LEMMA WindowsSoundIsEnough ==
  ASSUME Http!PipelineAssumption, RequestsSound, WindowsSound
  PROVE  Http!LimiterSound
<1>1. Http!OneSlotPerRequest
  BY RequestsSoundIsEnough
<1>2. Http!WindowRespected
  BY DEF WindowsSound, ClientSound, Http!WindowRespected
<1>3. Http!RetryAfterHonest
  <2> SUFFICES ASSUME NEW c \in Clients, promise[c] # Http!Never, now >= promise[c]
               PROVE  Len(Http!Live(Http!Times(c))) < rpm
    BY DEF Http!RetryAfterHonest
  <2> DEFINE g == granted[c]
  <2>1. /\ g = Http!Live(Http!Times(c)) /\ g \in Seq(Nat)
        /\ \A i \in 1 .. Len(g) : g[i] > now - Window /\ g[i] <= now
    BY LiveFacts
  <2>2. promise[c] \in Int /\ (Len(g) < rpm \/ (Len(g) > 0 /\ g[1] + Window <= promise[c]))
    BY DEF WindowsSound, ClientSound, PromiseSound
  <2> HIDE DEF g
  <2>3. ~(Len(g) > 0 /\ g[1] + Window <= promise[c])
    <3> SUFFICES ASSUME Len(g) > 0, g[1] + Window <= promise[c] PROVE FALSE
      OBVIOUS
    <3>1. 1 \in 1 .. Len(g) /\ g[1] \in Nat /\ now \in Nat /\ Window \in Nat
      BY <2>1 DEF WindowsSound, Http!PipelineAssumption
    <3>2. g[1] > now - Window
      BY <2>1, <3>1
    <3> QED BY <2>2, <3>1, <3>2
  <2> QED BY <2>1, <2>2, <2>3
<1>4. Http!NoIdleClients
  BY DEF WindowsSound
<1> QED BY <1>1, <1>2, <1>3, <1>4 DEF Http!LimiterSound

\* The invariant of RateLimitMiddleware._requests holds with the one of the pipeline,
\* for any number of clients and requests, any limit, window and tick, and
\* though sweep and pruning happen at different times for different clients.
THEOREM WindowsInvariance ==
  ASSUME Http!PipelineAssumption
  PROVE  Http!Spec => [](RequestsSound /\ WindowsSound)
<1>1. Http!Init => RequestsSound /\ WindowsSound
  BY RequestsInit, WindowsInit
<1>2. RequestsSound /\ WindowsSound /\ [Http!Next]_Http!vars => (RequestsSound /\ WindowsSound)'
  BY RequestsStep, WindowsStep
<1> QED BY <1>1, <1>2, PTL DEF Http!Spec

\* RateLimitMiddleware charges a request once, never lets more than rpm requests of a
\* client in within a window, tells the refused a Retry-After after which they are let
\* in unless another request of theirs took the slot, and forgets clients that went idle.
THEOREM LimiterIsSound ==
  ASSUME Http!PipelineAssumption
  PROVE  Http!Spec => []LimiterSound
<1>1. RequestsSound /\ WindowsSound => LimiterSound
  BY WindowsSoundIsEnough DEF LimiterSound
<1> QED BY <1>1, WindowsInvariance, PTL

HIDE HttpSizes

-----------------------------------------------------------------------------
(***************************************************************************)
(* The metrics recorder and its exporter (MetricsRecorder), for any        *)
(* threads, scrapes and cache limits: who holds the health lock and what   *)
(* the gauge may show meanwhile, how many errors are not counted yet, and  *)
(* what a worker has collected of the registry as it grows.                *)
(***************************************************************************)


(* Metrics!Cardinality and Metrics!IsFiniteSet are the operators of FiniteSets. *)
LEMMA MetricsSizes ==
  /\ \A S : Metrics!Cardinality(S) = Cardinality(S)
  /\ \A S : Metrics!IsFiniteSet(S) <=> IsFiniteSet(S)
BY DEF Metrics!Cardinality, Cardinality, Metrics!IsFiniteSet, IsFiniteSet
USE MetricsSizes

\* Where threads and scrape workers can be, and the types of the state.
ThreadPcs == {"idle", "observe", "mark", "publish", "recovered", "failed", "unhealthy", "count"}
ScraperPcs == {"idle", "collect", "failed", "unhealthy", "count", "broken"}
Holding == {"publish", "recovered", "unhealthy"}
Reporting == {"failed", "unhealthy", "count"}
Answers == {"none", "awaited", "busy", "raised", "cancelled", "body", "failed"}

ActorType ==
  [pc : ThreadPcs \cup ScraperPcs, kind : Kinds \cup {"none"}, next : Nat,
   body : SUBSET (Metrics!Families \X Nat), start : [Metrics!Families -> Nat] \cup {<<>>}]

RTypeOK ==
  /\ actor \in [Metrics!Actors -> ActorType]
  /\ samples \in [Metrics!Families -> Nat]
  /\ healthGauge \in {0, 1} /\ healthy \in BOOLEAN /\ lock \in Metrics!Actors \cup {Metrics!Nobody}
  /\ errors \in Nat /\ slot \in BOOLEAN /\ answer \in [Scrapers -> Answers]
  /\ cached \subseteq Metrics!Families /\ payload \in Nat
  /\ bounds \in [ops : Nat, scrapes : Nat, faults : Nat]
  /\ history \in [last : {"success", "failure"}, unpublished : BOOLEAN, uncounted : Nat,
                  missing : Nat]

\* Threads record, workers collect.
PlaceOK ==
  /\ \A t \in Threads : actor[t].pc \in ThreadPcs
  /\ \A s \in Scrapers : actor[s].pc \in ScraperPcs
  /\ \A t \in Threads : actor[t].pc = "observe" =>
        actor[t].kind \in Kinds /\ actor[t].next \in 1..Len(Metrics!Parts[actor[t].kind])

\* The health lock has one holder, and it is held only while unhealthy is published or
\* recovered from: a healthy recorder shows a healthy gauge.
LockSound ==
  /\ \A a \in Metrics!Actors : actor[a].pc \in Holding <=> lock = a
  /\ healthy <=> history.last = "success"
  /\ healthy => healthGauge = 1
  /\ \A a \in Metrics!Actors : actor[a].pc \in Holding => ~healthy
  /\ \A a \in Metrics!Actors : actor[a].pc = "recovered" => healthGauge = 1
  /\ (~healthy /\ healthGauge = 1 /\ \A a \in Metrics!Actors : actor[a].pc \notin {"recovered", "unhealthy"})
        => history.unpublished

\* A failed operation misses two samples at most, and each is counted, reported now, or
\* known to be uncounted.
LossCounted ==
  history.missing <=
    2 * (errors + history.uncounted + Cardinality({a \in Metrics!Actors : actor[a].pc \in Reporting}))

\* One worker at a time, and the slot is taken while it works.
SlotSound ==
  /\ \A s, u \in Scrapers : (actor[s].pc # "idle" /\ actor[u].pc # "idle") => s = u
  /\ slot <=> \E s \in Scrapers : actor[s].pc # "idle"

\* What a worker has collected is between the registry as it began and as it is.
BodySound(w) ==
  /\ Metrics!Collected(w) \subseteq Metrics!Families
  /\ Cardinality(Metrics!Collected(w)) = w.next
  /\ w.start \in [Metrics!Families -> Nat]
  /\ \A f \in Metrics!Families : w.start[f] <= samples[f]
  /\ \A e \in w.body : w.start[e[1]] <= e[2] /\ e[2] <= samples[e[1]]

BodiesSound ==
  \A s \in Scrapers :
    /\ (actor[s].pc = "collect" \/ answer[s] = "body") => BodySound(actor[s])
    /\ answer[s] = "body" => actor[s].pc = "idle" /\ actor[s].next = Cardinality(Metrics!Families)

\* The inductive invariant of recorder and exporter.
RIInv == RTypeOK /\ PlaceOK /\ LockSound /\ LossCounted /\ SlotSound /\ Metrics!CacheBounded /\ BodiesSound

-----------------------------------------------------------------------------
\* Operations have one or two parts, all of them families.
LEMMA PartsShape ==
  ASSUME Metrics!RecorderAssumption, NEW k \in Kinds
  PROVE  /\ Len(Metrics!Parts[k]) \in {1, 2}
         /\ \A i \in 1..Len(Metrics!Parts[k]) : Metrics!Parts[k][i] \in Metrics!Families
<1>1. k \in DOMAIN Metrics!Parts
  BY DEF Metrics!RecorderAssumption
<1>2. \A i \in DOMAIN Metrics!Parts[k] : Metrics!Parts[k][i] \in Metrics!Families
  BY DEF Metrics!Families
<1>3. Len(Metrics!Parts[k]) \in {1, 2} /\ DOMAIN Metrics!Parts[k] = 1..Len(Metrics!Parts[k])
  BY <1>1 DEF Metrics!Parts
<1> QED BY <1>2, <1>3

\* The families by name: finitely many.
AllFamilies ==
  {"requests_inflight", "http_requests", "http_duration", "mcp_executions", "mcp_duration",
   "lock_wait", "lock_hold", "embedding_operations", "embedding_duration",
   "search_stage_duration", "search_fallbacks", "job_runs", "job_duration",
   "job_last_success", "backfill_items"}

LEMMA FamiliesFinite ==
  ASSUME Metrics!RecorderAssumption
  PROVE  IsFiniteSet(Metrics!Families) /\ Cardinality(Metrics!Families) \in Nat
<1>1. IsFiniteSet(AllFamilies)
  <2> DEFINE T == [i \in 1..15 |->
                    CASE i = 1 -> "requests_inflight" [] i = 2 -> "http_requests"
                      [] i = 3 -> "http_duration" [] i = 4 -> "mcp_executions"
                      [] i = 5 -> "mcp_duration" [] i = 6 -> "lock_wait"
                      [] i = 7 -> "lock_hold" [] i = 8 -> "embedding_operations"
                      [] i = 9 -> "embedding_duration" [] i = 10 -> "search_stage_duration"
                      [] i = 11 -> "search_fallbacks" [] i = 12 -> "job_runs"
                      [] i = 13 -> "job_duration" [] i = 14 -> "job_last_success"
                      [] OTHER -> "backfill_items"]
  <2>1. IsFiniteSet(1..15)
    <3>1. \A m, n \in Int : IsFiniteSet(m..n)
      BY FS_Interval
    <3>2. PICK m \in Int, n \in Int : m = 1 /\ n = 15
      OBVIOUS
    <3> QED BY <3>1, <3>2
  <2>2. T \in Surjection(1..15, AllFamilies)
    BY DEF Surjection, AllFamilies
  <2> QED BY <2>1, <2>2, FS_Surjection
<1>2. \A k \in DOMAIN Metrics!Parts : \A i \in DOMAIN Metrics!Parts[k] : Metrics!Parts[k][i] \in AllFamilies
  BY DEF Metrics!Parts, AllFamilies
<1>3. Metrics!Families \subseteq AllFamilies
  BY <1>2 DEF Metrics!Families, Metrics!RecorderAssumption
<1> QED BY <1>1, <1>3, FS_Subset, FS_CardinalityType

LEMMA ActorsFinite ==
  ASSUME Metrics!RecorderAssumption
  PROVE  IsFiniteSet(Metrics!Actors)
BY FS_Union DEF Metrics!RecorderAssumption, Metrics!Actors

LEMMA ActorFieldSet ==
  ASSUME NEW w \in ActorType
  PROVE  /\ \A v \in ThreadPcs \cup ScraperPcs : [w EXCEPT !.pc = v] \in ActorType
         /\ \A v \in Kinds \cup {"none"} : [w EXCEPT !.kind = v] \in ActorType
         /\ \A v \in Nat : [w EXCEPT !.next = v] \in ActorType
         /\ \A v \in SUBSET (Metrics!Families \X Nat) : [w EXCEPT !.body = v] \in ActorType
         /\ \A v \in [Metrics!Families -> Nat] \cup {<<>>} : [w EXCEPT !.start = v] \in ActorType
BY DEF ActorType

LEMMA IdleTyped ==
  Metrics!Idle \in ActorType /\ Metrics!Idle.pc = "idle" /\ Metrics!Idle.next = 0 /\ Metrics!Idle.body = {}
<1> DEFINE e == <<>>
<1>1. Metrics!Idle = [pc |-> "idle", kind |-> "none", next |-> 0, body |-> {}, start |-> e]
  BY DEF Metrics!Idle
<1>2. e \in [Metrics!Families -> Nat] \cup {<<>>}
  OBVIOUS
<1> HIDE DEF e
<1> QED BY <1>1, <1>2 DEF ActorType, ThreadPcs

LEMMA BegunTyped ==
  ASSUME NEW k \in Kinds
  PROVE  LET w == [Metrics!Idle EXCEPT !.pc = "observe", !.kind = k, !.next = 1]
         IN w \in ActorType /\ w.pc = "observe" /\ w.kind = k /\ w.next = 1
<1> DEFINE x == [Metrics!Idle EXCEPT !.pc = "observe"]
           y == [x EXCEPT !.kind = k]
           w == [y EXCEPT !.next = 1]
<1>1. Metrics!Idle \in ActorType
  BY IdleTyped
<1>2. x \in ActorType /\ x.pc = "observe"
  BY <1>1 DEF ActorType, ThreadPcs
<1> HIDE DEF x
<1>3. y \in ActorType /\ y.pc = "observe" /\ y.kind = k
  BY <1>2 DEF ActorType
<1> HIDE DEF y
<1>4. w \in ActorType /\ w.pc = "observe" /\ w.kind = k /\ w.next = 1
  BY <1>3 DEF ActorType
<1> QED BY <1>4, Zenon DEF x, y

LEMMA StartedTyped ==
  ASSUME NEW f \in [Metrics!Families -> Nat]
  PROVE  LET w == [Metrics!Idle EXCEPT !.pc = "collect", !.start = f]
         IN w \in ActorType /\ w.pc = "collect" /\ w.next = 0 /\ w.body = {} /\ w.start = f
<1> DEFINE x == [Metrics!Idle EXCEPT !.pc = "collect"]
           w == [x EXCEPT !.start = f]
<1>1. Metrics!Idle \in ActorType /\ Metrics!Idle.next = 0 /\ Metrics!Idle.body = {}
  BY IdleTyped
<1>2. x \in ActorType /\ x.pc = "collect" /\ x.next = 0 /\ x.body = {}
  BY <1>1 DEF ActorType, ScraperPcs
<1> HIDE DEF x
<1>3. w \in ActorType /\ w.pc = "collect" /\ w.next = 0 /\ w.body = {} /\ w.start = f
  BY <1>2 DEF ActorType
<1> QED BY <1>3, Zenon DEF x

LEMMA ActorGotoTyped ==
  ASSUME RTypeOK, NEW a \in Metrics!Actors, NEW pc \in ThreadPcs \cup ScraperPcs, Metrics!Goto(a, pc)
  PROVE  /\ actor' \in [Metrics!Actors -> ActorType]
         /\ actor'[a].pc = pc /\ actor'[a].kind = actor[a].kind /\ actor'[a].next = actor[a].next
         /\ actor'[a].body = actor[a].body /\ actor'[a].start = actor[a].start
         /\ \A b \in Metrics!Actors \ {a} : actor'[b] = actor[b]
<1>1. actor \in [Metrics!Actors -> ActorType] /\ actor[a] \in ActorType
  BY DEF RTypeOK
<1>2. actor' = [actor EXCEPT ![a] = [actor[a] EXCEPT !.pc = pc]]
  BY DEF Metrics!Goto
<1> DEFINE w == [actor[a] EXCEPT !.pc = pc]
<1>3. w \in ActorType /\ w.pc = pc /\ w.kind = actor[a].kind /\ w.next = actor[a].next
      /\ w.body = actor[a].body /\ w.start = actor[a].start
  BY <1>1 DEF ActorType
<1> HIDE DEF w
<1>4. actor'[a] = w /\ \A b \in Metrics!Actors \ {a} : actor'[b] = actor[b]
  BY <1>1, <1>2 DEF w
<1>5. actor' \in [Metrics!Actors -> ActorType]
  BY <1>1, <1>2, <1>3 DEF w
<1> QED BY <1>3, <1>4, <1>5

(* What one step of an actor does to the actors. *)
Moved(a, from, to) ==
  /\ actor' \in [Metrics!Actors -> ActorType]
  /\ actor[a].pc = from /\ actor'[a].pc = to
  /\ actor'[a].kind = actor[a].kind /\ actor'[a].next = actor[a].next
  /\ actor'[a].body = actor[a].body /\ actor'[a].start = actor[a].start
  /\ \A b \in Metrics!Actors \ {a} : actor'[b] = actor[b]

\* Goto moves one actor and leaves the others where they are.
LEMMA Moves ==
  ASSUME RTypeOK, NEW a \in Metrics!Actors, NEW from, actor[a].pc = from,
         NEW to \in ThreadPcs \cup ScraperPcs, Metrics!Goto(a, to)
  PROVE  Moved(a, from, to)
BY ActorGotoTyped DEF Moved

-----------------------------------------------------------------------------
LEMMA OneActorMoreOrLess ==
  ASSUME NEW S, IsFiniteSet(S), NEW A, A \subseteq S, NEW B, B \subseteq S, NEW r \in S,
         NEW a \in {0, 1}, NEW b \in {0, 1}, a = 1 <=> r \in A, b = 1 <=> r \in B,
         \A x \in S \ {r} : x \in A <=> x \in B
  PROVE  Cardinality(B) = Cardinality(A) + b - a /\ Cardinality(A) \in Nat /\ Cardinality(B) \in Nat
<1>1. IsFiniteSet(A) /\ IsFiniteSet(B)
  BY FS_Subset
<1>2. Cardinality(A) \in Nat /\ Cardinality(B) \in Nat
  BY <1>1, FS_CardinalityType
<1>3. CASE a = b
  <2>1. A = B
    BY <1>3
  <2> QED BY <1>2, <1>3, <2>1
<1>4. CASE a = 0 /\ b = 1
  <2>1. B = A \cup {r} /\ r \notin A
    BY <1>4
  <2> QED BY <1>1, <1>2, <1>4, <2>1, FS_AddElement
<1>5. CASE a = 1 /\ b = 0
  <2>1. B = A \ {r} /\ r \in A
    BY <1>5
  <2> QED BY <1>1, <1>2, <1>5, <2>1, FS_RemoveElement
<1> QED BY <1>3, <1>4, <1>5

(* The errors of actor a that are not counted yet: none or one. *)
Pending(pc) == IF pc \in Reporting THEN 1 ELSE 0

\* The steps that keep the account of losses.
LEMMA LossKept ==
  ASSUME Metrics!RecorderAssumption, LossCounted, NEW a \in Metrics!Actors,
         \A b \in Metrics!Actors \ {a} : actor'[b].pc = actor[b].pc,
         NEW known \in Nat, known = errors + history.uncounted,
         NEW known2 \in Nat, known2 = errors' + history'.uncounted,
         history.missing \in Nat, history'.missing \in Nat,
         NEW d \in {0, 1}, d = Pending(actor[a].pc), NEW e \in {0, 1}, e = Pending(actor'[a].pc),
         history'.missing + 2 * (known + d) <= history.missing + 2 * (known2 + e)
  PROVE  LossCounted'
<1> DEFINE A == {b \in Metrics!Actors : actor[b].pc \in Reporting}
           B == {b \in Metrics!Actors : actor'[b].pc \in Reporting}
<1>1. A \subseteq Metrics!Actors /\ B \subseteq Metrics!Actors /\ (d = 1 <=> a \in A) /\ (e = 1 <=> a \in B)
      /\ \A x \in Metrics!Actors \ {a} : x \in A <=> x \in B
  BY DEF Pending
<1>2. history.missing <= 2 * (known + Cardinality(A))
  BY DEF LossCounted
<1> HIDE DEF A, B
<1>3. Cardinality(B) = Cardinality(A) + e - d /\ Cardinality(A) \in Nat /\ Cardinality(B) \in Nat
  BY <1>1, ActorsFinite, OneActorMoreOrLess
<1>4. history'.missing <= 2 * (known2 + Cardinality(B))
  BY <1>2, <1>3
<1> QED BY <1>4 DEF LossCounted, B

LEMMA SlotKept ==
  ASSUME SlotSound, slot' = slot,
         \A s \in Scrapers : actor'[s].pc = "idle" <=> actor[s].pc = "idle"
  PROVE  SlotSound'
BY DEF SlotSound

LEMMA LockKept ==
  ASSUME LockSound, UNCHANGED <<healthGauge, healthy, lock>>, history'.last = history.last,
         history'.unpublished = history.unpublished,
         \A a \in Metrics!Actors : actor'[a].pc = actor[a].pc \/ {actor'[a].pc, actor[a].pc} \cap Holding = {}
  PROVE  LockSound'
<1>1. \A a \in Metrics!Actors : actor'[a].pc \in Holding <=> actor[a].pc \in Holding
  OBVIOUS
<1>2. \A a \in Metrics!Actors : /\ actor'[a].pc = "recovered" <=> actor[a].pc = "recovered"
                                /\ actor'[a].pc = "unhealthy" <=> actor[a].pc = "unhealthy"
  BY DEF Holding
<1>3. healthGauge' = healthGauge /\ healthy' = healthy /\ lock' = lock
  OBVIOUS
<1>4. \A a \in Metrics!Actors : actor'[a].pc \in Holding <=> lock' = a
  BY <1>1, <1>3 DEF LockSound
<1>5. (healthy' <=> history'.last = "success") /\ (healthy' => healthGauge' = 1)
  BY <1>3 DEF LockSound
<1>6. \A a \in Metrics!Actors : (actor'[a].pc \in Holding => ~healthy') /\ (actor'[a].pc = "recovered" => healthGauge' = 1)
  BY <1>1, <1>2, <1>3 DEF LockSound
<1>7. (~healthy' /\ healthGauge' = 1 /\ \A a \in Metrics!Actors : actor'[a].pc \notin {"recovered", "unhealthy"})
        => history'.unpublished
  BY <1>2, <1>3 DEF LockSound
<1> QED BY <1>4, <1>5, <1>6, <1>7 DEF LockSound

(* The registry is only added to. *)
Grows == samples' \in [Metrics!Families -> Nat] /\ \A f \in Metrics!Families : samples[f] <= samples'[f]

LEMMA BodyKept ==
  ASSUME RTypeOK, Grows, NEW w \in ActorType, NEW v, BodySound(w), v.body = w.body, v.start = w.start, v.next = w.next
  PROVE  /\ Metrics!Collected(v) \subseteq Metrics!Families
         /\ Cardinality(Metrics!Collected(v)) = v.next
         /\ v.start \in [Metrics!Families -> Nat]
         /\ \A f \in Metrics!Families : v.start[f] <= samples'[f]
         /\ \A e \in v.body : v.start[e[1]] <= e[2] /\ e[2] <= samples'[e[1]]
<1>1. Metrics!Collected(v) = Metrics!Collected(w)
  BY DEF Metrics!Collected
<1>2. \A f \in Metrics!Families : w.start[f] \in Nat /\ samples[f] \in Nat /\ samples'[f] \in Nat
  BY DEF BodySound, RTypeOK, Grows
<1>3. \A f \in Metrics!Families : v.start[f] <= samples'[f]
  BY <1>2 DEF BodySound, Grows
<1>4. ASSUME NEW e \in v.body PROVE v.start[e[1]] <= e[2] /\ e[2] <= samples'[e[1]]
  <2>1. e[1] \in Metrics!Families /\ e[2] \in Nat
    BY DEF ActorType
  <2>2. v.start[e[1]] <= e[2] /\ e[2] <= samples[e[1]]
    BY DEF BodySound
  <2> QED BY <1>2, <2>1, <2>2 DEF Grows
<1> QED BY <1>1, <1>3, <1>4 DEF BodySound

LEMMA BodiesKept ==
  ASSUME RTypeOK, BodiesSound, Grows,
         \A s \in Scrapers :
           /\ answer'[s] = "body" => answer[s] = "body"
           /\ \/ actor'[s] = actor[s]
              \/ actor'[s].pc # "collect" /\ answer'[s] # "body"
  PROVE  BodiesSound'
<1> SUFFICES ASSUME NEW s \in Scrapers
             PROVE  /\ (actor'[s].pc = "collect" \/ answer'[s] = "body") => BodySound(actor[s])'
                    /\ answer'[s] = "body" => actor'[s].pc = "idle" /\ actor'[s].next = Cardinality(Metrics!Families)
  BY DEF BodiesSound
<1>1. actor[s] \in ActorType
  BY DEF RTypeOK, Metrics!Actors
<1>2. CASE actor'[s] = actor[s]
  <2>1. (actor'[s].pc = "collect" \/ answer'[s] = "body") => BodySound(actor[s])
    BY <1>2 DEF BodiesSound
  <2>2. BodySound(actor[s]) => BodySound(actor[s])'
    <3> SUFFICES ASSUME BodySound(actor[s]) PROVE BodySound(actor[s])'
      OBVIOUS
    <3> DEFINE v == actor'[s]
    <3>1. v.body = actor[s].body /\ v.start = actor[s].start /\ v.next = actor[s].next
      BY <1>2
    <3> HIDE DEF v
    <3>2. /\ Metrics!Collected(v) \subseteq Metrics!Families
          /\ Cardinality(Metrics!Collected(v)) = v.next
          /\ v.start \in [Metrics!Families -> Nat]
          /\ \A f \in Metrics!Families : v.start[f] <= samples'[f]
          /\ \A e \in v.body : v.start[e[1]] <= e[2] /\ e[2] <= samples'[e[1]]
      BY <1>1, <3>1, BodyKept
    <3> QED BY <3>2 DEF BodySound, Metrics!Collected, v
  <2> QED BY <1>2, <2>1, <2>2 DEF BodiesSound
<1>3. CASE actor'[s].pc # "collect" /\ answer'[s] # "body"
  BY <1>3
<1> QED BY <1>2, <1>3

-----------------------------------------------------------------------------
(* A step of one actor that leaves the exporter alone. *)
LEMMA OneActor ==
  ASSUME Metrics!RecorderAssumption, RIInv, NEW a \in Metrics!Actors, NEW w \in ActorType,
         actor' = [actor EXCEPT ![a] = w], UNCHANGED Metrics!export, Grows,
         a \in Threads => /\ w.pc \in ThreadPcs
                          /\ w.pc = "observe" => w.kind \in Kinds /\ w.next \in 1..Len(Metrics!Parts[w.kind]),
         a \in Scrapers => actor[a].pc # "idle" /\ w.pc \in ScraperPcs \ {"idle", "collect"}
  PROVE  PlaceOK' /\ SlotSound' /\ BodiesSound' /\ Metrics!CacheBounded'
         /\ actor' \in [Metrics!Actors -> ActorType] /\ actor'[a] = w
         /\ \A b \in Metrics!Actors \ {a} : actor'[b] = actor[b]
<1>1. /\ actor' \in [Metrics!Actors -> ActorType] /\ actor'[a] = w
      /\ \A b \in Metrics!Actors \ {a} : actor'[b] = actor[b]
  BY DEF RIInv, RTypeOK
<1>2. PlaceOK'
  BY <1>1 DEF RIInv, PlaceOK, Metrics!Actors, Metrics!RecorderAssumption
<1>3. answer' = answer /\ slot' = slot /\ cached' = cached /\ payload' = payload
  BY DEF Metrics!export
<1>4. SlotSound'
  <2>1. \A s \in Scrapers : actor'[s].pc = "idle" <=> actor[s].pc = "idle"
    BY <1>1 DEF Metrics!Actors, Metrics!RecorderAssumption
  <2> QED BY <1>3, <2>1, SlotKept DEF RIInv
<1>5. BodiesSound'
  <2>1. ASSUME NEW s \in Scrapers, s = a PROVE actor'[s].pc # "collect" /\ answer'[s] # "body"
    BY <1>1, <1>3, <2>1 DEF RIInv, BodiesSound
  <2>2. ASSUME NEW s \in Scrapers, s # a PROVE actor'[s] = actor[s]
    BY <1>1, <2>2 DEF Metrics!Actors
  <2> QED BY <1>3, <2>1, <2>2, BodiesKept DEF RIInv
<1>6. Metrics!CacheBounded'
  BY <1>3 DEF RIInv, Metrics!CacheBounded, Metrics!SizeOf
<1> QED BY <1>1, <1>2, <1>4, <1>5, <1>6

LEMMA SamplesStay ==
  ASSUME RTypeOK, samples' = samples
  PROVE  Grows
BY DEF RTypeOK, Grows

LEMMA Known ==
  ASSUME RTypeOK
  PROVE  /\ errors + history.uncounted \in Nat /\ history.missing \in Nat
         /\ \A a \in Metrics!Actors : Pending(actor[a].pc) \in {0, 1}
BY DEF RTypeOK, Pending

LEMMA FaultTyped ==
  ASSUME RTypeOK, Metrics!Works \/ Metrics!Fails
  PROVE  bounds' \in [ops : Nat, scrapes : Nat, faults : Nat]
BY DEF RTypeOK, Metrics!Works, Metrics!Fails

\* The steps of a thread, one lemma each.
LEMMA BeginSound ==
  ASSUME Metrics!RecorderAssumption, RIInv, NEW t \in Threads, NEW k \in Kinds, Metrics!Begin(t, k)
  PROVE  RIInv'
<1> DEFINE w == [Metrics!Idle EXCEPT !.pc = "observe", !.kind = k, !.next = 1]
<1>1. w \in ActorType /\ w.pc = "observe" /\ w.kind = k /\ w.next = 1
  BY BegunTyped
<1>2. actor' = [actor EXCEPT ![t] = w] /\ actor[t].pc = "idle"
  BY DEF Metrics!Begin
<1>3. UNCHANGED <<samples, Metrics!health, Metrics!export, history>>
  BY DEF Metrics!Begin
<1>4. RTypeOK /\ t \in Metrics!Actors /\ t \notin Scrapers
  BY DEF RIInv, Metrics!Actors, Metrics!RecorderAssumption
<1> HIDE DEF w
<1>5. Len(Metrics!Parts[k]) \in {1, 2}
  BY PartsShape
<1>6. w.pc \in ThreadPcs /\ w.kind \in Kinds /\ w.next \in 1..Len(Metrics!Parts[w.kind])
  <2>1. Metrics!Parts[w.kind] = Metrics!Parts[k]
    BY <1>1
  <2>2. PICK n \in {1, 2} : n = Len(Metrics!Parts[w.kind])
    BY <1>5, <2>1
  <2>3. w.next \in 1..n
    BY <1>1
  <2> QED BY <1>1, <2>2, <2>3 DEF ThreadPcs
<1>7. Grows
  BY <1>3, <1>4, SamplesStay
<1>8. PlaceOK' /\ SlotSound' /\ BodiesSound' /\ Metrics!CacheBounded'
      /\ actor' \in [Metrics!Actors -> ActorType] /\ actor'[t] = w
      /\ \A b \in Metrics!Actors \ {t} : actor'[b] = actor[b]
  BY <1>1, <1>2, <1>3, <1>4, <1>6, <1>7, OneActor
<1>9. RTypeOK'
  <2>1. bounds' \in [ops : Nat, scrapes : Nat, faults : Nat]
    BY <1>4 DEF RTypeOK, Metrics!Begin
  <2> QED BY <1>3, <1>4, <1>8, <2>1 DEF RTypeOK, Metrics!health, Metrics!export
<1>10. LockSound'
  <2>1. \A a \in Metrics!Actors : actor'[a].pc = actor[a].pc \/ {actor'[a].pc, actor[a].pc} \cap Holding = {}
    BY <1>1, <1>2, <1>8 DEF Holding
  <2> QED BY <1>3, <2>1, LockKept DEF RIInv, Metrics!health
<1>11. LossCounted'
  <2>1. Pending(actor[t].pc) = 0 /\ Pending(actor'[t].pc) = 0
    BY <1>1, <1>2, <1>8 DEF Pending, Reporting
  <2>2. errors' = errors /\ history' = history
    BY <1>3 DEF Metrics!health
  <2> QED BY <1>4, <1>8, <2>1, <2>2, Known, LossKept DEF RIInv
<1> QED BY <1>8, <1>9, <1>10, <1>11 DEF RIInv

LEMMA GotoStep ==
  ASSUME Metrics!RecorderAssumption, RIInv, NEW a \in Metrics!Actors, NEW to, Metrics!Goto(a, to),
         UNCHANGED Metrics!export, samples' = samples,
         a \in Threads => to \in ThreadPcs \ {"observe"},
         a \in Scrapers => actor[a].pc # "idle" /\ to \in ScraperPcs \ {"idle", "collect"}
  PROVE  PlaceOK' /\ SlotSound' /\ BodiesSound' /\ Metrics!CacheBounded'
         /\ actor' \in [Metrics!Actors -> ActorType] /\ actor'[a].pc = to
         /\ \A b \in Metrics!Actors \ {a} : actor'[b] = actor[b]
<1> DEFINE w == [actor[a] EXCEPT !.pc = to]
<1>1. RTypeOK /\ to \in ThreadPcs \cup ScraperPcs /\ actor[a] \in ActorType
  BY DEF RIInv, RTypeOK, Metrics!Actors
<1>2. actor' = [actor EXCEPT ![a] = w]
  BY DEF Metrics!Goto
<1>3. w \in ActorType /\ w.pc = to
  BY <1>1 DEF ActorType
<1>4. Grows
  BY <1>1, SamplesStay
<1> HIDE DEF w
<1>5. PlaceOK' /\ SlotSound' /\ BodiesSound' /\ Metrics!CacheBounded'
      /\ actor' \in [Metrics!Actors -> ActorType] /\ actor'[a] = w
      /\ \A b \in Metrics!Actors \ {a} : actor'[b] = actor[b]
  BY <1>2, <1>3, <1>4, OneActor
<1> QED BY <1>3, <1>5

LEMMA MarkSuccessSound ==
  ASSUME Metrics!RecorderAssumption, RIInv, NEW t \in Threads, Metrics!MarkSuccess(t)
  PROVE  RIInv'
<1>1. RTypeOK /\ t \in Metrics!Actors /\ t \notin Scrapers /\ LockSound /\ LossCounted
  BY DEF RIInv, Metrics!Actors, Metrics!RecorderAssumption
<1>2. UNCHANGED <<samples, healthGauge, healthy, errors, Metrics!export, bounds>> /\ actor[t].pc = "mark" /\ lock = Metrics!Nobody
  BY DEF Metrics!MarkSuccess, Metrics!MaySucceed
<1>3. CASE healthy
  <2>1. Metrics!Goto(t, "idle") /\ history' = [history EXCEPT !.last = "success"] /\ lock' = lock
    BY <1>3 DEF Metrics!MarkSuccess
  <2>2. history.last = "success"
    BY <1>1, <1>3 DEF LockSound
  <2>3. history' = history
    BY <1>1, <2>1, <2>2 DEF RTypeOK
  <2>4. PlaceOK' /\ SlotSound' /\ BodiesSound' /\ Metrics!CacheBounded'
        /\ actor' \in [Metrics!Actors -> ActorType] /\ actor'[t].pc = "idle"
        /\ \A b \in Metrics!Actors \ {t} : actor'[b] = actor[b]
    BY <1>1, <1>2, <2>1, GotoStep DEF ThreadPcs
  <2>5. RTypeOK'
    BY <1>1, <1>2, <2>1, <2>3, <2>4 DEF RTypeOK, Metrics!export
  <2>6. LockSound'
    <3>1. \A a \in Metrics!Actors : actor'[a].pc = actor[a].pc \/ {actor'[a].pc, actor[a].pc} \cap Holding = {}
      BY <1>2, <2>4 DEF Holding
    <3> QED BY <1>1, <1>2, <2>1, <2>3, <3>1, LockKept DEF Metrics!health
  <2>7. LossCounted'
    <3>1. Pending(actor[t].pc) = 0 /\ Pending(actor'[t].pc) = 0
      BY <1>2, <2>4 DEF Pending, Reporting
    <3> QED BY <1>1, <1>2, <2>3, <2>4, <3>1, Known, LossKept
  <2> QED BY <2>4, <2>5, <2>6, <2>7 DEF RIInv
<1>4. CASE ~healthy
  <2>1. Metrics!Goto(t, "publish") /\ history' = history /\ lock' = t
    BY <1>4 DEF Metrics!MarkSuccess
  <2>2. PlaceOK' /\ SlotSound' /\ BodiesSound' /\ Metrics!CacheBounded'
        /\ actor' \in [Metrics!Actors -> ActorType] /\ actor'[t].pc = "publish"
        /\ \A b \in Metrics!Actors \ {t} : actor'[b] = actor[b]
    BY <1>1, <1>2, <2>1, GotoStep DEF ThreadPcs
  <2>3. RTypeOK'
    BY <1>1, <1>2, <2>1, <2>2 DEF RTypeOK, Metrics!export
  <2>4. LockSound'
    <3>1. \A a \in Metrics!Actors : actor[a].pc \notin Holding
      BY <1>1, <1>2 DEF LockSound, Metrics!RecorderAssumption, Metrics!Actors
    <3>2. \A a \in Metrics!Actors : actor'[a].pc \in Holding <=> lock' = a
      BY <2>1, <2>2, <3>1 DEF Holding
    <3>3. \A a \in Metrics!Actors : actor'[a].pc # "recovered" /\ actor[a].pc \notin {"recovered", "unhealthy"}
      BY <2>2, <3>1 DEF Holding
    <3> QED BY <1>1, <1>2, <1>4, <2>1, <3>2, <3>3 DEF LockSound
  <2>5. LossCounted'
    <3>1. Pending(actor[t].pc) = 0 /\ Pending(actor'[t].pc) = 0
      BY <1>2, <2>2 DEF Pending, Reporting
    <3> QED BY <1>1, <1>2, <2>1, <2>2, <3>1, Known, LossKept
  <2> QED BY <2>2, <2>3, <2>4, <2>5 DEF RIInv
<1> QED BY <1>3, <1>4

LEMMA PublishSuccessSound ==
  ASSUME Metrics!RecorderAssumption, RIInv, NEW t \in Threads, Metrics!PublishSuccess(t)
  PROVE  RIInv'
<1>1. RTypeOK /\ t \in Metrics!Actors /\ t \notin Scrapers /\ LockSound /\ LossCounted
  BY DEF RIInv, Metrics!Actors, Metrics!RecorderAssumption
<1>2. UNCHANGED <<samples, healthy, errors, Metrics!export, history>> /\ actor[t].pc = "publish"
  BY DEF Metrics!PublishSuccess
<1>3. bounds' \in [ops : Nat, scrapes : Nat, faults : Nat]
  BY <1>1, FaultTyped DEF Metrics!PublishSuccess
<1>4. lock = t /\ ~healthy /\ t # Metrics!Nobody
  BY <1>1, <1>2 DEF LockSound, Holding, Metrics!RecorderAssumption
<1>5. \A a \in Metrics!Actors \ {t} : actor[a].pc \notin Holding
  BY <1>1, <1>4 DEF LockSound
<1>6. CASE healthGauge' = 1 /\ Metrics!Goto(t, "recovered") /\ lock' = lock
  <2>1. PlaceOK' /\ SlotSound' /\ BodiesSound' /\ Metrics!CacheBounded'
        /\ actor' \in [Metrics!Actors -> ActorType] /\ actor'[t].pc = "recovered"
        /\ \A b \in Metrics!Actors \ {t} : actor'[b] = actor[b]
    BY <1>1, <1>2, <1>6, GotoStep DEF ThreadPcs
  <2>2. RTypeOK'
    BY <1>1, <1>2, <1>3, <1>6, <2>1 DEF RTypeOK, Metrics!export
  <2>3. LockSound'
    <3>1. \A a \in Metrics!Actors : actor'[a].pc \in Holding <=> lock' = a
      BY <1>4, <1>5, <1>6, <2>1 DEF Holding
    <3> QED BY <1>1, <1>2, <1>4, <1>6, <2>1, <3>1 DEF LockSound
  <2>4. LossCounted'
    <3>1. Pending(actor[t].pc) = 0 /\ Pending(actor'[t].pc) = 0
      BY <1>2, <2>1 DEF Pending, Reporting
    <3> QED BY <1>1, <1>2, <2>1, <3>1, Known, LossKept
  <2> QED BY <2>1, <2>2, <2>3, <2>4 DEF RIInv
<1>7. CASE Metrics!Goto(t, "failed") /\ lock' = Metrics!Nobody /\ healthGauge' = healthGauge
  <2>1. PlaceOK' /\ SlotSound' /\ BodiesSound' /\ Metrics!CacheBounded'
        /\ actor' \in [Metrics!Actors -> ActorType] /\ actor'[t].pc = "failed"
        /\ \A b \in Metrics!Actors \ {t} : actor'[b] = actor[b]
    BY <1>1, <1>2, <1>7, GotoStep DEF ThreadPcs
  <2>2. RTypeOK'
    BY <1>1, <1>2, <1>3, <1>7, <2>1 DEF RTypeOK, Metrics!export
  <2>3. LockSound'
    <3>1. \A a \in Metrics!Actors : actor'[a].pc \notin Holding
      BY <1>5, <2>1 DEF Holding
    <3>2. \A a \in Metrics!Actors : actor'[a].pc \in Holding <=> lock' = a
      BY <1>7, <3>1 DEF Metrics!RecorderAssumption, Metrics!Actors
    <3>3. \A a \in Metrics!Actors : actor[a].pc \notin {"recovered", "unhealthy"}
      BY <1>2, <1>5 DEF Holding
    <3>4. \A a \in Metrics!Actors : actor'[a].pc # "recovered"
      BY <3>1 DEF Holding
    <3> QED BY <1>1, <1>2, <1>4, <1>7, <3>1, <3>2, <3>3, <3>4 DEF LockSound
  <2>4. LossCounted'
    <3>1. Pending(actor[t].pc) = 0 /\ Pending(actor'[t].pc) = 1
      BY <1>2, <2>1 DEF Pending, Reporting
    <3> QED BY <1>1, <1>2, <2>1, <3>1, Known, LossKept
  <2> QED BY <2>1, <2>2, <2>3, <2>4 DEF RIInv
<1> QED BY <1>6, <1>7 DEF Metrics!PublishSuccess

LEMMA RecoveredSound ==
  ASSUME Metrics!RecorderAssumption, RIInv, NEW t \in Threads, Metrics!Recovered(t)
  PROVE  RIInv'
<1>1. RTypeOK /\ t \in Metrics!Actors /\ t \notin Scrapers /\ LockSound /\ LossCounted
  BY DEF RIInv, Metrics!Actors, Metrics!RecorderAssumption
<1>2. UNCHANGED <<samples, healthGauge, errors, Metrics!export, bounds>> /\ actor[t].pc = "recovered"
      /\ healthy' = TRUE /\ lock' = Metrics!Nobody /\ Metrics!Goto(t, "idle")
  BY DEF Metrics!Recovered
<1>3. lock = t /\ healthGauge = 1
  BY <1>1, <1>2 DEF LockSound, Holding
<1>4. \A a \in Metrics!Actors \ {t} : actor[a].pc \notin Holding
  BY <1>1, <1>3 DEF LockSound
<1>5. PlaceOK' /\ SlotSound' /\ BodiesSound' /\ Metrics!CacheBounded'
      /\ actor' \in [Metrics!Actors -> ActorType] /\ actor'[t].pc = "idle"
      /\ \A b \in Metrics!Actors \ {t} : actor'[b] = actor[b]
  BY <1>1, <1>2, GotoStep DEF ThreadPcs
<1>6. /\ history' \in [last : {"success", "failure"}, unpublished : BOOLEAN, uncounted : Nat,
                       missing : Nat]
      /\ history'.last = "success" /\ history'.uncounted = history.uncounted
      /\ history'.missing = history.missing
  BY <1>1 DEF RTypeOK, Metrics!Recovered
<1>7. RTypeOK'
  BY <1>1, <1>2, <1>5, <1>6 DEF RTypeOK, Metrics!export
<1>8. LockSound'
  <2>1. \A a \in Metrics!Actors : actor'[a].pc \notin Holding
    BY <1>4, <1>5 DEF Holding
  <2>2. \A a \in Metrics!Actors : actor'[a].pc \in Holding <=> lock' = a
    BY <1>2, <2>1 DEF Metrics!RecorderAssumption, Metrics!Actors
  <2>3. healthGauge' = 1
    BY <1>2, <1>3
  <2> QED BY <1>2, <1>6, <2>1, <2>2, <2>3 DEF LockSound
<1>9. LossCounted'
  <2>1. Pending(actor[t].pc) = 0 /\ Pending(actor'[t].pc) = 0
    BY <1>2, <1>5 DEF Pending, Reporting
  <2> QED BY <1>1, <1>2, <1>5, <1>6, <2>1, Known, LossKept
<1> QED BY <1>5, <1>7, <1>8, <1>9 DEF RIInv

LEMMA FailingActor ==
  ASSUME Metrics!RecorderAssumption, RIInv, NEW a \in Metrics!Actors, actor[a].pc \in Reporting
  PROVE  RTypeOK /\ LockSound /\ LossCounted /\ actor[a].pc # "idle"
         /\ (a \in Threads => {"unhealthy", "count", "idle"} \subseteq ThreadPcs \ {"observe"})
         /\ (a \in Scrapers => {"unhealthy", "count", "broken"} \subseteq ScraperPcs \ {"idle", "collect"})
         /\ (a \in Threads <=> a \notin Scrapers)
BY DEF RIInv, Reporting, ThreadPcs, ScraperPcs, Metrics!Actors, Metrics!RecorderAssumption

LEMMA MarkErrorSound ==
  ASSUME Metrics!RecorderAssumption, RIInv, NEW a \in Metrics!Actors, Metrics!MarkError(a)
  PROVE  RIInv'
<1>1. UNCHANGED <<samples, healthGauge, errors, Metrics!export, bounds>> /\ actor[a].pc = "failed"
      /\ lock = Metrics!Nobody /\ lock' = a /\ healthy' = FALSE /\ Metrics!Goto(a, "unhealthy")
  BY DEF Metrics!MarkError
<1>2. RTypeOK /\ LockSound /\ LossCounted /\ actor[a].pc # "idle"
      /\ (a \in Threads => {"unhealthy", "count", "idle"} \subseteq ThreadPcs \ {"observe"})
      /\ (a \in Scrapers => {"unhealthy", "count", "broken"} \subseteq ScraperPcs \ {"idle", "collect"})
  BY <1>1, FailingActor DEF Reporting
<1>3. PlaceOK' /\ SlotSound' /\ BodiesSound' /\ Metrics!CacheBounded'
      /\ actor' \in [Metrics!Actors -> ActorType] /\ actor'[a].pc = "unhealthy"
      /\ \A b \in Metrics!Actors \ {a} : actor'[b] = actor[b]
  BY <1>1, <1>2, GotoStep
<1>4. /\ history' \in [last : {"success", "failure"}, unpublished : BOOLEAN, uncounted : Nat,
                       missing : Nat]
      /\ history'.last = "failure" /\ history'.uncounted = history.uncounted
      /\ history'.missing = history.missing
  BY <1>2 DEF RTypeOK, Metrics!MarkError
<1>5. RTypeOK'
  BY <1>1, <1>2, <1>3, <1>4 DEF RTypeOK, Metrics!export
<1>6. LockSound'
  <2>1. \A b \in Metrics!Actors : actor[b].pc \notin Holding
    BY <1>1, <1>2 DEF LockSound, Metrics!RecorderAssumption, Metrics!Actors
  <2>2. \A b \in Metrics!Actors : actor'[b].pc \in Holding <=> lock' = b
    BY <1>1, <1>3, <2>1 DEF Holding
  <2>3. \A b \in Metrics!Actors : actor'[b].pc # "recovered"
    BY <1>3, <2>1 DEF Holding
  <2>4. ~(\A b \in Metrics!Actors : actor'[b].pc \notin {"recovered", "unhealthy"})
    BY <1>3
  <2> QED BY <1>1, <1>4, <2>2, <2>3, <2>4 DEF LockSound
<1>7. LossCounted'
  <2>1. Pending(actor[a].pc) = 1 /\ Pending(actor'[a].pc) = 1
    BY <1>1, <1>3 DEF Pending, Reporting
  <2> QED BY <1>1, <1>2, <1>3, <1>4, <2>1, Known, LossKept
<1> QED BY <1>3, <1>5, <1>6, <1>7 DEF RIInv

LEMMA PublishErrorSound ==
  ASSUME Metrics!RecorderAssumption, RIInv, NEW a \in Metrics!Actors, Metrics!PublishError(a)
  PROVE  RIInv'
<1>1. UNCHANGED <<samples, healthy, errors, Metrics!export>> /\ actor[a].pc = "unhealthy"
      /\ lock' = Metrics!Nobody /\ Metrics!Goto(a, "count")
  BY DEF Metrics!PublishError
<1>2. RTypeOK /\ LockSound /\ LossCounted /\ actor[a].pc # "idle"
      /\ (a \in Threads => {"unhealthy", "count", "idle"} \subseteq ThreadPcs \ {"observe"})
      /\ (a \in Scrapers => {"unhealthy", "count", "broken"} \subseteq ScraperPcs \ {"idle", "collect"})
  BY <1>1, FailingActor DEF Reporting
<1>3. PlaceOK' /\ SlotSound' /\ BodiesSound' /\ Metrics!CacheBounded'
      /\ actor' \in [Metrics!Actors -> ActorType] /\ actor'[a].pc = "count"
      /\ \A b \in Metrics!Actors \ {a} : actor'[b] = actor[b]
  BY <1>1, <1>2, GotoStep
<1>4. bounds' \in [ops : Nat, scrapes : Nat, faults : Nat]
  BY <1>2, FaultTyped DEF Metrics!PublishError
<1>5. /\ history' \in [last : {"success", "failure"}, unpublished : BOOLEAN, uncounted : Nat,
                       missing : Nat]
      /\ history'.last = history.last /\ history'.uncounted = history.uncounted
      /\ history'.missing = history.missing /\ healthGauge' \in {0, 1}
      /\ healthGauge' = 1 => history'.unpublished
  <2>1. CASE healthGauge' = 0 /\ history' = history
    BY <1>2, <2>1 DEF RTypeOK
  <2>2. CASE healthGauge' = healthGauge /\ history' = [history EXCEPT !.unpublished = TRUE]
    <3>1. healthGauge' \in {0, 1} /\ history \in [last : {"success", "failure"}, unpublished : BOOLEAN,
                                             uncounted : Nat, missing : Nat]
      BY <1>2, <2>2 DEF RTypeOK
    <3>2. history'.unpublished = TRUE
      BY <2>2, <3>1
    <3>3. history'.unpublished
      BY <3>2
    <3>4. /\ history' \in [last : {"success", "failure"}, unpublished : BOOLEAN,
                            uncounted : Nat, missing : Nat]
          /\ history'.last = history.last /\ history'.uncounted = history.uncounted
          /\ history'.missing = history.missing
      BY <2>2, <3>1
    <3> QED BY <3>1, <3>3, <3>4
  <2> QED BY <2>1, <2>2 DEF Metrics!PublishError
<1>6. RTypeOK'
  BY <1>1, <1>2, <1>3, <1>4, <1>5 DEF RTypeOK, Metrics!export
<1>7. LockSound'
  <2>1. lock = a /\ ~healthy
    BY <1>1, <1>2 DEF LockSound, Holding
  <2>2. \A b \in Metrics!Actors : actor'[b].pc \notin Holding
    BY <1>2, <1>3, <2>1 DEF LockSound, Holding
  <2>3. \A b \in Metrics!Actors : actor'[b].pc \in Holding <=> lock' = b
    BY <1>1, <2>2 DEF Metrics!RecorderAssumption, Metrics!Actors
  <2>4. \A b \in Metrics!Actors : actor'[b].pc # "recovered"
    BY <2>2 DEF Holding
  <2> QED BY <1>1, <1>2, <1>5, <2>1, <2>2, <2>3, <2>4 DEF LockSound
<1>8. LossCounted'
  <2>1. Pending(actor[a].pc) = 1 /\ Pending(actor'[a].pc) = 1
    BY <1>1, <1>3 DEF Pending, Reporting
  <2> QED BY <1>1, <1>2, <1>3, <1>5, <2>1, Known, LossKept
<1> QED BY <1>3, <1>6, <1>7, <1>8 DEF RIInv

LEMMA CountErrorSound ==
  ASSUME Metrics!RecorderAssumption, RIInv, NEW a \in Metrics!Actors, Metrics!CountError(a)
  PROVE  RIInv'
<1> DEFINE to == IF a \in Scrapers THEN "broken" ELSE "idle"
<1>1. UNCHANGED <<samples, healthGauge, healthy, lock, Metrics!export>> /\ actor[a].pc = "count" /\ Metrics!Goto(a, to)
  BY DEF Metrics!CountError
<1>2. RTypeOK /\ LockSound /\ LossCounted /\ actor[a].pc # "idle"
      /\ (a \in Threads => {"unhealthy", "count", "idle"} \subseteq ThreadPcs \ {"observe"})
      /\ (a \in Scrapers => {"unhealthy", "count", "broken"} \subseteq ScraperPcs \ {"idle", "collect"})
      /\ (a \in Threads <=> a \notin Scrapers)
  BY <1>1, FailingActor DEF Reporting
<1>3. (a \in Threads => to \in ThreadPcs \ {"observe"})
      /\ (a \in Scrapers => to \in ScraperPcs \ {"idle", "collect"}) /\ to \in {"broken", "idle"}
  BY <1>2
<1> HIDE DEF to
<1>4. PlaceOK' /\ SlotSound' /\ BodiesSound' /\ Metrics!CacheBounded'
      /\ actor' \in [Metrics!Actors -> ActorType] /\ actor'[a].pc = to
      /\ \A b \in Metrics!Actors \ {a} : actor'[b] = actor[b]
  BY <1>1, <1>2, <1>3, GotoStep
<1>5. bounds' \in [ops : Nat, scrapes : Nat, faults : Nat]
  BY <1>2, FaultTyped DEF Metrics!CountError
<1>6. /\ history' \in [last : {"success", "failure"}, unpublished : BOOLEAN, uncounted : Nat,
                       missing : Nat]
      /\ history'.last = history.last /\ history'.unpublished = history.unpublished
      /\ history'.missing = history.missing /\ errors' \in Nat
      /\ errors' + history'.uncounted = errors + history.uncounted + 1
  <2>1. errors \in Nat /\ history.uncounted \in Nat
        /\ history \in [last : {"success", "failure"}, unpublished : BOOLEAN, uncounted : Nat,
                        missing : Nat]
    BY <1>2 DEF RTypeOK
  <2>2. CASE errors' = errors + 1 /\ history' = history
    BY <2>1, <2>2
  <2>3. CASE errors' = errors /\ history' = [history EXCEPT !.uncounted = @ + 1]
    BY <2>1, <2>3
  <2> QED BY <2>2, <2>3 DEF Metrics!CountError
<1>7. RTypeOK'
  BY <1>1, <1>2, <1>4, <1>5, <1>6 DEF RTypeOK, Metrics!export
<1>8. LockSound'
  <2>1. UNCHANGED <<healthGauge, healthy, lock>>
    BY <1>1
  <2>2. {"count", "broken", "idle"} \cap Holding = {}
    BY DEF Holding
  <2>3. \A b \in Metrics!Actors : actor'[b].pc = actor[b].pc \/ {actor'[b].pc, actor[b].pc} \cap Holding = {}
    BY <1>1, <1>3, <1>4, <2>2
  <2> QED BY <1>2, <1>6, <2>1, <2>3, LockKept
<1>9. LossCounted'
  <2>1. Pending(actor[a].pc) = 1 /\ Pending(actor'[a].pc) = 0
    BY <1>1, <1>3, <1>4 DEF Pending, Reporting
  <2>2. errors + history.uncounted \in Nat /\ history.missing \in Nat
    BY <1>2, Known
  <2> DEFINE known == errors + history.uncounted
             known2 == errors' + history'.uncounted
  <2>3. known2 = known + 1 /\ known \in Nat /\ known2 \in Nat
    BY <1>6, <2>2
  <2>4. history'.missing \in Nat /\ history'.missing = history.missing
    BY <1>6, <2>2
  <2>5. known = errors + history.uncounted /\ known2 = errors' + history'.uncounted
    OBVIOUS
  <2> HIDE DEF known, known2
  <2>6. history'.missing + 2 * (known + 1) <= history.missing + 2 * (known2 + 0)
    BY <2>2, <2>3, <2>4
  <2> QED BY <1>2, <1>4, <2>1, <2>2, <2>3, <2>4, <2>5, <2>6, LossKept
<1> QED BY <1>4, <1>7, <1>8, <1>9 DEF RIInv

LEMMA ObservePartSound ==
  ASSUME Metrics!RecorderAssumption, RIInv, NEW t \in Threads, Metrics!ObservePart(t)
  PROVE  RIInv'
<1> DEFINE a == actor[t]
           parts == Metrics!Parts[a.kind]
           n == Len(parts)
<1>1. RTypeOK /\ t \in Metrics!Actors /\ t \notin Scrapers /\ LockSound /\ LossCounted /\ a \in ActorType
  BY DEF RIInv, Metrics!Actors, Metrics!RecorderAssumption, RTypeOK
<1>2. UNCHANGED <<Metrics!health, Metrics!export>> /\ a.pc = "observe"
  BY DEF Metrics!ObservePart
<1>3. a.kind \in Kinds /\ a.next \in 1..n
  BY <1>2 DEF RIInv, PlaceOK
<1>4. n \in {1, 2} /\ parts[a.next] \in Metrics!Families
  BY <1>3, PartsShape
<1>5. bounds' \in [ops : Nat, scrapes : Nat, faults : Nat]
  BY <1>1, FaultTyped DEF Metrics!ObservePart
<1>6. a.next \in Nat /\ n \in Nat /\ 1 <= a.next /\ a.next <= n
  <2>1. PICK m \in {1, 2} : m = n
    BY <1>4
  <2> QED BY <1>3, <2>1
<1>7. CASE /\ samples' = [samples EXCEPT ![parts[a.next]] = @ + 1]
           /\ actor' = [actor EXCEPT ![t].next = @ + 1,
                                     ![t].pc = IF a.next = Len(parts) THEN "mark" ELSE @]
           /\ history' = history
  <2> DEFINE f == parts[a.next]
             x == [a EXCEPT !.next = @ + 1]
             pc == IF a.next = n THEN "mark" ELSE "observe"
             w == [x EXCEPT !.pc = pc]
  <2>1. f \in Metrics!Families
    BY <1>4
  <2>2. Grows
    <3> HIDE DEF f
    <3>1. samples \in [Metrics!Families -> Nat] /\ samples' = [samples EXCEPT ![f] = @ + 1]
      BY <1>1, <1>7 DEF RTypeOK, f
    <3>2. samples' \in [Metrics!Families -> Nat]
      BY <2>1, <3>1
    <3>3. \A g \in Metrics!Families : samples[g] <= samples'[g]
      BY <2>1, <3>1
    <3> QED BY <3>2, <3>3 DEF Grows
  <2>3. pc \in {"mark", "observe"} /\ pc \in ThreadPcs
    BY DEF ThreadPcs
  <2>4. x \in ActorType /\ x.next = a.next + 1 /\ x.kind = a.kind /\ x.pc = "observe"
    BY <1>1, <1>2, <1>6 DEF ActorType
  <2>5. actor' = [actor EXCEPT ![t] = w]
    <3>1. [a EXCEPT !.next = @ + 1, !.pc = IF a.next = Len(parts) THEN "mark" ELSE @] = w
      BY <1>2, <2>4
    <3> HIDE DEF w
    <3> QED BY <1>7, <3>1
  <2> HIDE DEF x
  <2>6. w \in ActorType /\ w.next = a.next + 1 /\ w.kind = a.kind /\ w.pc = pc
    BY <2>3, <2>4 DEF ActorType
  <2> HIDE DEF w
  <2>7. w.pc = "observe" => w.kind \in Kinds /\ w.next \in 1..Len(Metrics!Parts[w.kind])
    <3>1. w.pc = "observe" => a.next # n
      BY <2>6
    <3>2. w.pc = "observe" => w.next \in 1..n
      BY <1>6, <2>6, <3>1
    <3>3. Len(Metrics!Parts[w.kind]) = n
      BY <2>6
    <3> HIDE DEF n
    <3> QED BY <1>3, <2>6, <3>2, <3>3
  <2>8. PlaceOK' /\ SlotSound' /\ BodiesSound' /\ Metrics!CacheBounded'
        /\ actor' \in [Metrics!Actors -> ActorType] /\ actor'[t] = w
        /\ \A b \in Metrics!Actors \ {t} : actor'[b] = actor[b]
    BY <1>1, <1>2, <2>2, <2>3, <2>5, <2>6, <2>7, OneActor
  <2>9. RTypeOK'
    BY <1>1, <1>2, <1>5, <1>7, <2>2, <2>8 DEF RTypeOK, Metrics!health, Metrics!export, Grows
  <2>10. LockSound'
    <3>1. \A b \in Metrics!Actors : actor'[b].pc = actor[b].pc \/ {actor'[b].pc, actor[b].pc} \cap Holding = {}
      BY <1>2, <2>3, <2>6, <2>8 DEF Holding
    <3> QED BY <1>1, <1>2, <1>7, <3>1, LockKept DEF Metrics!health
  <2>11. LossCounted'
    <3>1. Pending(actor[t].pc) = 0 /\ Pending(actor'[t].pc) = 0
      BY <1>2, <2>3, <2>6, <2>8 DEF Pending, Reporting
    <3>2. errors' = errors /\ history' = history
      BY <1>2, <1>7 DEF Metrics!health
    <3> QED BY <1>1, <2>8, <3>1, <3>2, Known, LossKept
  <2> QED BY <2>8, <2>9, <2>10, <2>11 DEF RIInv
<1>8. CASE /\ Metrics!Goto(t, Metrics!AfterFailure)
           /\ history' = [history EXCEPT !.missing = @ + (Len(parts) + 1 - a.next)]
           /\ samples' = samples
  <2>1. PlaceOK' /\ SlotSound' /\ BodiesSound' /\ Metrics!CacheBounded'
        /\ actor' \in [Metrics!Actors -> ActorType] /\ actor'[t].pc = "failed"
        /\ \A b \in Metrics!Actors \ {t} : actor'[b] = actor[b]
    BY <1>1, <1>2, <1>8, GotoStep DEF ThreadPcs, Metrics!AfterFailure
  <2> DEFINE lost == n + 1 - a.next
  <2>2. lost \in Nat /\ lost <= 2
    <3>1. PICK m \in {1, 2} : m = n
      BY <1>4
    <3> HIDE DEF n
    <3> QED BY <1>6, <3>1
  <2>3. history' = [history EXCEPT !.missing = @ + lost]
    BY <1>8
  <2> HIDE DEF lost
  <2>4. /\ history' \in [last : {"success", "failure"}, unpublished : BOOLEAN, uncounted : Nat,
                         missing : Nat]
        /\ history'.last = history.last /\ history'.unpublished = history.unpublished
        /\ history'.missing = history.missing + lost /\ history'.uncounted = history.uncounted
    BY <1>1, <2>2, <2>3 DEF RTypeOK
  <2>5. RTypeOK'
    BY <1>1, <1>2, <1>5, <1>8, <2>1, <2>4 DEF RTypeOK, Metrics!health, Metrics!export
  <2>6. LockSound'
    <3>1. \A b \in Metrics!Actors : actor'[b].pc = actor[b].pc \/ {actor'[b].pc, actor[b].pc} \cap Holding = {}
      BY <1>2, <2>1 DEF Holding
    <3> QED BY <1>1, <1>2, <2>4, <3>1, LockKept DEF Metrics!health
  <2>7. LossCounted'
    <3>1. Pending(actor[t].pc) = 0 /\ Pending(actor'[t].pc) = 1
      BY <1>2, <2>1 DEF Pending, Reporting
    <3>2. errors' = errors
      BY <1>2 DEF Metrics!health
    <3>3. errors + history.uncounted \in Nat /\ history.missing \in Nat
      BY <1>1, Known
    <3> DEFINE known == errors + history.uncounted
    <3>4. known \in Nat /\ known = errors' + history'.uncounted
      BY <2>4, <3>2, <3>3
    <3>5. known = errors + history.uncounted
      OBVIOUS
    <3> HIDE DEF known
    <3>6. history'.missing \in Nat /\ history'.missing + 2 * (known + 0) <= history.missing + 2 * (known + 1)
      BY <2>2, <2>4, <3>3, <3>4
    <3> QED BY <1>1, <2>1, <3>1, <3>3, <3>4, <3>5, <3>6, LossKept
  <2> QED BY <2>1, <2>5, <2>6, <2>7 DEF RIInv
<1> QED BY <1>7, <1>8 DEF Metrics!ObservePart

-----------------------------------------------------------------------------
(* A step of a scraper that leaves health, registry and history alone, and *)
(* keeps its worker out of the lock and of the reports.                    *)
LEMMA ScraperQuiet ==
  ASSUME Metrics!RecorderAssumption, RIInv, NEW s \in Scrapers, UNCHANGED <<Metrics!health, history>>,
         NEW w \in ActorType, actor' = [actor EXCEPT ![s] = w],
         w.pc \in ScraperPcs, {w.pc, actor[s].pc} \cap (Holding \cup Reporting) = {}
  PROVE  PlaceOK' /\ LockSound' /\ LossCounted'
         /\ actor' \in [Metrics!Actors -> ActorType] /\ actor'[s] = w
         /\ \A b \in Metrics!Actors \ {s} : actor'[b] = actor[b]
<1>1. s \in Metrics!Actors /\ s \notin Threads /\ RTypeOK /\ LossCounted
  BY DEF RIInv, Metrics!Actors, Metrics!RecorderAssumption
<1>2. /\ actor' \in [Metrics!Actors -> ActorType] /\ actor'[s] = w
      /\ \A b \in Metrics!Actors \ {s} : actor'[b] = actor[b]
  BY <1>1 DEF RTypeOK
<1>3. PlaceOK'
  BY <1>1, <1>2 DEF RIInv, PlaceOK, Metrics!Actors
<1>4. LockSound'
  <2>1. \A a \in Metrics!Actors : actor'[a].pc = actor[a].pc \/ {actor'[a].pc, actor[a].pc} \cap Holding = {}
    BY <1>2
  <2> QED BY <2>1, LockKept DEF RIInv, Metrics!health
<1>5. LossCounted'
  <2>1. Pending(actor[s].pc) = 0 /\ Pending(actor'[s].pc) = 0
    BY <1>2 DEF Pending
  <2>2. errors' = errors
    BY DEF Metrics!health
  <2> QED BY <1>1, <1>2, <2>1, <2>2, Known, LossKept
<1> QED BY <1>2, <1>3, <1>4, <1>5

\* The steps of a scrape, one lemma each.
LEMMA RenderSound ==
  ASSUME Metrics!RecorderAssumption, RIInv, NEW s \in Scrapers, Metrics!Render(s)
  PROVE  RIInv'
<1> DEFINE w == [Metrics!Idle EXCEPT !.pc = "collect", !.start = samples]
<1>1. UNCHANGED <<samples, Metrics!health, cached, payload, history>> /\ actor[s].pc = "idle" /\ ~slot /\ slot' = TRUE
      /\ answer' = [answer EXCEPT ![s] = "awaited"] /\ actor' = [actor EXCEPT ![s] = w]
  BY DEF Metrics!Render
<1>2. RTypeOK /\ s \in Metrics!Actors /\ samples \in [Metrics!Families -> Nat]
  BY DEF RIInv, RTypeOK, Metrics!Actors
<1>3. w \in ActorType /\ w.pc = "collect" /\ w.next = 0 /\ w.body = {} /\ w.start = samples
  BY <1>2, StartedTyped
<1> HIDE DEF w
<1>4. PlaceOK' /\ LockSound' /\ LossCounted'
      /\ actor' \in [Metrics!Actors -> ActorType] /\ actor'[s] = w
      /\ \A b \in Metrics!Actors \ {s} : actor'[b] = actor[b]
  BY <1>1, <1>3, ScraperQuiet DEF ScraperPcs, Holding, Reporting
<1>5. RTypeOK'
  <2>1. bounds' \in [ops : Nat, scrapes : Nat, faults : Nat]
    BY <1>2 DEF RTypeOK, Metrics!Render
  <2>2. answer' \in [Scrapers -> Answers]
    BY <1>1, <1>2 DEF RTypeOK, Answers
  <2> QED BY <1>1, <1>2, <1>4, <2>1, <2>2 DEF RTypeOK, Metrics!health
<1>6. SlotSound'
  <2>1. \A u \in Scrapers : actor[u].pc = "idle"
    BY <1>1 DEF RIInv, SlotSound
  <2>2. \A u \in Scrapers : actor'[u].pc # "idle" <=> u = s
    BY <1>3, <1>4, <2>1 DEF Metrics!Actors
  <2> QED BY <1>1, <2>2 DEF SlotSound
<1>7. Metrics!CacheBounded'
  BY <1>1 DEF RIInv, Metrics!CacheBounded, Metrics!SizeOf
<1>8. BodiesSound'
  <2>1. Metrics!Collected(w) = {}
    BY <1>3 DEF Metrics!Collected
  <2>2. \A f \in Metrics!Families : samples[f] <= samples'[f]
    BY <1>1, <1>2
  <2>3. BodySound(actor[s])'
    BY <1>1, <1>2, <1>3, <1>4, <2>1, <2>2, FS_EmptySet DEF BodySound, Metrics!Collected
  <2>4. answer'[s] # "body"
    BY <1>1, <1>2 DEF RTypeOK
  <2>5. ASSUME NEW u \in Scrapers, u # s
        PROVE  /\ (actor'[u].pc = "collect" \/ answer'[u] = "body") => BodySound(actor[u])'
               /\ answer'[u] = "body" => actor'[u].pc = "idle" /\ actor'[u].next = Cardinality(Metrics!Families)
    <3>1. actor'[u] = actor[u] /\ answer'[u] = answer[u] /\ samples' = samples
      BY <1>1, <1>2, <1>4, <2>5 DEF RTypeOK, Metrics!Actors
    <3> QED BY <3>1 DEF RIInv, BodiesSound, BodySound, Metrics!Collected
  <2> QED BY <2>3, <2>4, <2>5 DEF BodiesSound
<1> QED BY <1>4, <1>5, <1>6, <1>7, <1>8 DEF RIInv

LEMMA AnsweredSound ==
  ASSUME Metrics!RecorderAssumption, RIInv, NEW s \in Scrapers,
         UNCHANGED <<actor, samples, Metrics!health, slot, cached, payload, history>>,
         bounds' \in [ops : Nat, scrapes : Nat, faults : Nat],
         NEW result \in Answers \ {"body"}, answer' = [answer EXCEPT ![s] = result]
  PROVE  RIInv'
<1>1. RTypeOK /\ answer \in [Scrapers -> Answers]
  BY DEF RIInv, RTypeOK
<1>2. answer' \in [Scrapers -> Answers]
  BY <1>1
<1>3. RTypeOK'
  BY <1>1, <1>2 DEF RTypeOK, Metrics!health
<1>4. PlaceOK' /\ LockSound' /\ LossCounted' /\ SlotSound' /\ Metrics!CacheBounded'
  BY DEF RIInv, PlaceOK, LockSound, LossCounted, SlotSound, Metrics!CacheBounded, Metrics!health, Metrics!SizeOf
<1>5. BodiesSound'
  <2>1. \A u \in Scrapers : answer'[u] = "body" => answer[u] = "body"
    BY <1>1
  <2> QED BY <1>1, <2>1, SamplesStay, BodiesKept DEF RIInv
<1> QED BY <1>3, <1>4, <1>5 DEF RIInv

LEMMA RenderRefusedSound ==
  ASSUME Metrics!RecorderAssumption, RIInv, NEW s \in Scrapers,
         Metrics!RenderBusy(s) \/ Metrics!RenderFails(s) \/ Metrics!Cancel(s)
  PROVE  RIInv'
<1>1. RTypeOK
  BY DEF RIInv
<1>2. UNCHANGED <<actor, samples, Metrics!health, slot, cached, payload, history>>
  BY DEF Metrics!RenderBusy, Metrics!RenderFails, Metrics!Cancel
<1>3. bounds' \in [ops : Nat, scrapes : Nat, faults : Nat]
  <2>1. CASE Metrics!RenderBusy(s)
    BY <1>1, <2>1 DEF RTypeOK, Metrics!RenderBusy
  <2>2. CASE Metrics!RenderFails(s)
    <3> DEFINE b == [bounds EXCEPT !.scrapes = @ - 1]
    <3>1. bounds \in [ops : Nat, scrapes : Nat, faults : Nat] /\ bounds.scrapes > 0 /\ bounds.faults > 0
      BY <1>1, <2>2 DEF RTypeOK, Metrics!RenderFails
    <3>2. b \in [ops : Nat, scrapes : Nat, faults : Nat] /\ b.faults = bounds.faults
      BY <3>1
    <3>3. bounds' = [b EXCEPT !.faults = bounds.faults - 1]
      BY <2>2 DEF Metrics!RenderFails
    <3> HIDE DEF b
    <3> QED BY <3>1, <3>2, <3>3
  <2>3. CASE Metrics!Cancel(s)
    BY <1>1, <2>3 DEF RTypeOK, Metrics!Cancel
  <2> QED BY <2>1, <2>2, <2>3
<1>4. \E result \in Answers \ {"body"} : answer' = [answer EXCEPT ![s] = result]
  BY DEF Metrics!RenderBusy, Metrics!RenderFails, Metrics!Cancel, Answers
<1> QED BY <1>2, <1>3, <1>4, AnsweredSound

LEMMA GrowsByOne ==
  ASSUME Metrics!RecorderAssumption, NEW f \in Metrics!Families, NEW w \in ActorType, f \notin Metrics!Collected(w),
         BodySound(w), NEW v, v.body = Metrics!Emitted(w.body, f), v.next = w.next + 1, v.start = w.start, RTypeOK
  PROVE  BodySound(v)
<1>1. Metrics!Collected(v) = Metrics!Collected(w) \cup {f}
  <2> DEFINE p == <<f, samples[f]>>
  <2>1. v.body = w.body \cup {p}
    BY DEF Metrics!Emitted
  <2>2. p[1] = f
    OBVIOUS
  <2> HIDE DEF p
  <2>3. \A x : x \in Metrics!Collected(v) <=> \E e \in v.body : x = e[1]
    BY DEF Metrics!Collected
  <2>4. \A x : x \in Metrics!Collected(w) <=> \E e \in w.body : x = e[1]
    BY DEF Metrics!Collected
  <2> QED BY <2>1, <2>2, <2>3, <2>4
<1>2. IsFiniteSet(Metrics!Collected(w)) /\ Cardinality(Metrics!Collected(w)) = w.next /\ Metrics!Collected(w) \subseteq Metrics!Families
  BY FamiliesFinite, FS_Subset DEF BodySound
<1>3. Cardinality(Metrics!Collected(v)) = w.next + 1
  BY <1>1, <1>2, FS_AddElement
<1>4. samples[f] \in Nat /\ w.start[f] \in Nat /\ w.start[f] <= samples[f]
  BY DEF BodySound, RTypeOK
<1>5. \A e \in v.body : v.start[e[1]] <= e[2] /\ e[2] <= samples[e[1]]
  BY <1>4 DEF Metrics!Emitted, BodySound
<1> QED BY <1>1, <1>2, <1>3, <1>5 DEF BodySound

\* The prefix cache takes an entry only if both limits have room for it.
LEMMA CachedSound ==
  ASSUME Metrics!RecorderAssumption, RTypeOK, Metrics!CacheBounded, NEW f \in Metrics!Families,
         cached' = IF Metrics!Caches(f) THEN cached \cup {f} ELSE cached,
         payload' = IF Metrics!Caches(f) THEN payload + Metrics!SizeOf(f) ELSE payload
  PROVE  Metrics!CacheBounded' /\ cached' \subseteq Metrics!Families /\ payload' \in Nat
<1>1. CASE ~Metrics!Caches(f)
  BY <1>1 DEF Metrics!CacheBounded, RTypeOK, Metrics!SizeOf
<1>2. CASE Metrics!Caches(f)
  <2> DEFINE A == {g \in cached : Metrics!SizeOf(g) = 2}
             B == {g \in cached \cup {f} : Metrics!SizeOf(g) = 2}
  <2>1. cached' = cached \cup {f} /\ payload' = payload + Metrics!SizeOf(f) /\ f \notin cached
        /\ Cardinality(cached) < MaxEntries /\ payload + Metrics!SizeOf(f) <= MaxPayload
    BY <1>2 DEF Metrics!Caches
  <2>2. IsFiniteSet(cached) /\ IsFiniteSet(A) /\ cached \subseteq Metrics!Families /\ payload \in Nat
    <3>1. cached \subseteq Metrics!Families /\ payload \in Nat
      BY DEF RTypeOK
    <3>2. IsFiniteSet(cached)
      BY <3>1, FamiliesFinite, FS_Subset
    <3>3. A \subseteq cached
      OBVIOUS
    <3> QED BY <3>1, <3>2, <3>3, FS_Subset
  <2>3. Cardinality(cached) \in Nat /\ Cardinality(A) \in Nat /\ Metrics!SizeOf(f) \in {1, 2}
        /\ MaxEntries \in Nat /\ MaxPayload \in Nat
    BY <2>2, FS_CardinalityType DEF Metrics!SizeOf, Metrics!RecorderAssumption
  <2>4. Cardinality(cached') = Cardinality(cached) + 1
    BY <2>1, <2>2, FS_AddElement
  <2>5. Cardinality(B) = Cardinality(A) + Metrics!SizeOf(f) - 1
    <3>1. CASE Metrics!SizeOf(f) = 1
      <4>1. B = A
        BY <3>1
      <4> HIDE DEF A, B
      <4> QED BY <2>3, <3>1, <4>1
    <3>2. CASE Metrics!SizeOf(f) = 2
      <4>1. B = A \cup {f} /\ f \notin A
        BY <2>1, <3>2
      <4> HIDE DEF A, B
      <4>2. Cardinality(B) = Cardinality(A) + 1
        BY <2>2, <4>1, FS_AddElement
      <4> QED BY <2>3, <3>2, <4>2
    <3> QED BY <2>3, <3>1, <3>2
  <2>6. payload = Cardinality(cached) + Cardinality(A)
    BY DEF Metrics!CacheBounded
  <2>7. {g \in cached' : Metrics!SizeOf(g) = 2} = B
    BY <2>1
  <2> HIDE DEF A, B
  <2>8. payload' = Cardinality(cached') + Cardinality(B) /\ payload' <= MaxPayload
        /\ Cardinality(cached') <= MaxEntries /\ payload' \in Nat
    BY <2>1, <2>2, <2>3, <2>4, <2>5, <2>6
  <2>9. cached' \subseteq Metrics!Families
    BY <2>1, <2>2
  <2> QED BY <2>7, <2>8, <2>9 DEF Metrics!CacheBounded, Metrics!SizeOf
<1> QED BY <1>1, <1>2

LEMMA CollectSound ==
  ASSUME Metrics!RecorderAssumption, RIInv, NEW s \in Scrapers, NEW f \in Metrics!Families, Metrics!Collect(s, f)
  PROVE  RIInv'
<1> DEFINE w == actor[s]
           x == [w EXCEPT !.body = Metrics!Emitted(@, f)]
           v == [x EXCEPT !.next = @ + 1]
<1>1. RTypeOK /\ s \in Metrics!Actors /\ w \in ActorType /\ w.pc = "collect" /\ f \notin Metrics!Collected(w)
      /\ UNCHANGED <<samples, Metrics!health, slot, answer, bounds, history>>
  BY DEF RIInv, RTypeOK, Metrics!Actors, Metrics!Collect
<1>2. Metrics!Emitted(w.body, f) \subseteq Metrics!Families \X Nat
  BY <1>1 DEF Metrics!Emitted, ActorType, RTypeOK
<1>3. x \in ActorType /\ x.body = Metrics!Emitted(w.body, f) /\ x.pc = w.pc /\ x.next = w.next /\ x.start = w.start
  BY <1>1, <1>2 DEF ActorType
<1>4. actor' = [actor EXCEPT ![s] = v]
  BY <1>3 DEF Metrics!Collect
<1> HIDE DEF x
<1>5. v \in ActorType /\ v.body = x.body /\ v.pc = x.pc /\ v.next = x.next + 1 /\ v.start = x.start
  BY <1>3 DEF ActorType
<1> HIDE DEF v
<1>6. PlaceOK' /\ LockSound' /\ LossCounted'
      /\ actor' \in [Metrics!Actors -> ActorType] /\ actor'[s] = v
      /\ \A b \in Metrics!Actors \ {s} : actor'[b] = actor[b]
  BY <1>1, <1>3, <1>4, <1>5, ScraperQuiet DEF ScraperPcs, Holding, Reporting
<1>7. Metrics!CacheBounded' /\ cached' \subseteq Metrics!Families /\ payload' \in Nat
  BY <1>1, CachedSound DEF RIInv, Metrics!Collect
<1>8. RTypeOK'
  BY <1>1, <1>6, <1>7 DEF RTypeOK, Metrics!health
<1>9. SlotSound'
  <2>1. \A u \in Scrapers : actor'[u].pc = "idle" <=> actor[u].pc = "idle"
    BY <1>1, <1>3, <1>5, <1>6 DEF Metrics!Actors
  <2> QED BY <1>1, <2>1, SlotKept DEF RIInv
<1>10. BodiesSound'
  <2>1. BodySound(w) /\ answer[s] # "body"
    BY <1>1 DEF RIInv, BodiesSound
  <2>2. BodySound(v)
    BY <1>1, <1>3, <1>5, <2>1, GrowsByOne
  <2>3. BodySound(actor[s])'
    BY <1>1, <1>6, <2>2 DEF BodySound, Metrics!Collected
  <2>4. ASSUME NEW u \in Scrapers, u # s
        PROVE  /\ (actor'[u].pc = "collect" \/ answer'[u] = "body") => BodySound(actor[u])'
               /\ answer'[u] = "body" => actor'[u].pc = "idle" /\ actor'[u].next = Cardinality(Metrics!Families)
    <3>1. actor'[u] = actor[u] /\ answer'[u] = answer[u] /\ samples' = samples
      BY <1>1, <1>6, <2>4 DEF Metrics!Actors
    <3> QED BY <3>1 DEF RIInv, BodiesSound, BodySound, Metrics!Collected
  <2> QED BY <1>1, <2>1, <2>3, <2>4 DEF BodiesSound
<1> QED BY <1>6, <1>7, <1>8, <1>9, <1>10 DEF RIInv

LEMMA CollectFailsSound ==
  ASSUME Metrics!RecorderAssumption, RIInv, NEW s \in Scrapers, Metrics!CollectFails(s)
  PROVE  RIInv'
<1>1. RTypeOK /\ s \in Metrics!Actors /\ s \notin Threads /\ LockSound /\ LossCounted
  BY DEF RIInv, Metrics!Actors, Metrics!RecorderAssumption
<1>2. UNCHANGED <<samples, Metrics!health, Metrics!export, history>> /\ actor[s].pc = "collect" /\ Metrics!Goto(s, "failed") /\ Metrics!Fails
  BY DEF Metrics!CollectFails
<1>3. PlaceOK' /\ SlotSound' /\ BodiesSound' /\ Metrics!CacheBounded'
      /\ actor' \in [Metrics!Actors -> ActorType] /\ actor'[s].pc = "failed"
      /\ \A b \in Metrics!Actors \ {s} : actor'[b] = actor[b]
  BY <1>1, <1>2, GotoStep DEF ScraperPcs
<1>4. RTypeOK'
  BY <1>1, <1>2, <1>3, FaultTyped DEF RTypeOK, Metrics!health, Metrics!export
<1>5. LockSound'
  <2>1. \A a \in Metrics!Actors : actor'[a].pc = actor[a].pc \/ {actor'[a].pc, actor[a].pc} \cap Holding = {}
    BY <1>2, <1>3 DEF Holding
  <2> QED BY <1>1, <1>2, <2>1, LockKept DEF Metrics!health
<1>6. LossCounted'
  <2>1. Pending(actor[s].pc) = 0 /\ Pending(actor'[s].pc) = 1
    BY <1>2, <1>3 DEF Pending, Reporting
  <2>2. errors' = errors /\ history' = history
    BY <1>2 DEF Metrics!health
  <2> QED BY <1>1, <1>3, <2>1, <2>2, Known, LossKept
<1> QED BY <1>3, <1>4, <1>5, <1>6 DEF RIInv

LEMMA WorkerEnds ==
  ASSUME Metrics!RecorderAssumption, RIInv, NEW s \in Scrapers,
         Metrics!Serialized(s) \/ Metrics!Broken(s)
  PROVE  RIInv'
<1> DEFINE w == [actor[s] EXCEPT !.pc = "idle"]
<1>1. RTypeOK /\ s \in Metrics!Actors /\ actor[s] \in ActorType
  BY DEF RIInv, RTypeOK, Metrics!Actors
<1>2. /\ UNCHANGED <<samples, Metrics!health, cached, payload, bounds, history>> /\ slot' = FALSE
      /\ actor[s].pc \in {"collect", "broken"}
      /\ actor' = [actor EXCEPT ![s] = w]
  BY DEF Metrics!Serialized, Metrics!Broken, Metrics!Goto
<1>3. w \in ActorType /\ w.pc = "idle" /\ w.body = actor[s].body /\ w.next = actor[s].next
      /\ w.start = actor[s].start
  BY <1>1 DEF ActorType, ThreadPcs
<1> HIDE DEF w
<1>4. PlaceOK' /\ LockSound' /\ LossCounted'
      /\ actor' \in [Metrics!Actors -> ActorType] /\ actor'[s] = w
      /\ \A b \in Metrics!Actors \ {s} : actor'[b] = actor[b]
  BY <1>2, <1>3, ScraperQuiet DEF ScraperPcs, Holding, Reporting
<1>5. answer' \in [Scrapers -> Answers] /\ \A u \in Scrapers \ {s} : answer'[u] = answer[u]
  BY <1>1 DEF RTypeOK, Metrics!Serialized, Metrics!Broken, Metrics!Answer, Answers
<1>6. RTypeOK'
  BY <1>1, <1>2, <1>4, <1>5 DEF RTypeOK, Metrics!health
<1>7. SlotSound'
  <2>1. \A u \in Scrapers \ {s} : actor[u].pc = "idle"
    BY <1>2 DEF RIInv, SlotSound
  <2>2. \A u \in Scrapers : actor'[u].pc = "idle"
    BY <1>3, <1>4, <2>1 DEF Metrics!Actors
  <2> QED BY <1>2, <2>2 DEF SlotSound
<1>8. Metrics!CacheBounded'
  BY <1>2 DEF RIInv, Metrics!CacheBounded, Metrics!SizeOf
<1>9. answer[s] # "body"
  BY <1>2 DEF RIInv, BodiesSound
<1>10. answer'[s] = "body" => actor[s].pc = "collect" /\ actor[s].next = Cardinality(Metrics!Families)
  BY <1>1, <1>9 DEF RTypeOK, Metrics!Serialized, Metrics!Broken, Metrics!Answer
<1>11. BodiesSound'
  <2>1. answer'[s] = "body" => BodySound(actor[s])
    BY <1>10 DEF RIInv, BodiesSound
  <2>2. BodySound(actor[s]) => BodySound(w)
    BY <1>3 DEF BodySound, Metrics!Collected
  <2>3. BodySound(w) => BodySound(actor[s])'
    BY <1>2, <1>4 DEF BodySound, Metrics!Collected
  <2>4. ASSUME NEW u \in Scrapers, u # s
        PROVE  /\ (actor'[u].pc = "collect" \/ answer'[u] = "body") => BodySound(actor[u])'
               /\ answer'[u] = "body" => actor'[u].pc = "idle" /\ actor'[u].next = Cardinality(Metrics!Families)
    <3>1. actor'[u] = actor[u] /\ answer'[u] = answer[u] /\ samples' = samples
      BY <1>2, <1>4, <1>5, <2>4 DEF Metrics!Actors
    <3> QED BY <3>1 DEF RIInv, BodiesSound, BodySound, Metrics!Collected
  <2> QED BY <1>3, <1>4, <1>10, <2>1, <2>2, <2>3, <2>4 DEF BodiesSound
<1> QED BY <1>4, <1>6, <1>7, <1>8, <1>11 DEF RIInv

-----------------------------------------------------------------------------
LEMMA RecorderInit ==
  ASSUME Metrics!RecorderAssumption, Metrics!Init
  PROVE  RIInv
<1>1. Metrics!Idle \in ActorType /\ Metrics!Idle.pc = "idle"
  BY IdleTyped
<1>2. actor = [a \in Metrics!Actors |-> Metrics!Idle] /\ \A a \in Metrics!Actors : actor[a] = Metrics!Idle
  BY DEF Metrics!Init
<1>3. RTypeOK
  <2>1. actor \in [Metrics!Actors -> ActorType] /\ answer \in [Scrapers -> Answers]
    BY <1>1, <1>2 DEF Metrics!Init, Answers
  <2>2. bounds \in [ops : Nat, scrapes : Nat, faults : Nat]
    BY DEF Metrics!Init, Metrics!RecorderAssumption
  <2>3. history \in [last : {"success", "failure"}, unpublished : BOOLEAN, uncounted : Nat,
                     missing : Nat]
    BY DEF Metrics!Init
  <2>4. samples \in [Metrics!Families -> Nat]
    BY DEF Metrics!Init
  <2> QED BY <2>1, <2>2, <2>3, <2>4 DEF RTypeOK, Metrics!Init
<1>4. PlaceOK
  BY <1>1, <1>2 DEF PlaceOK, Metrics!Actors, ThreadPcs, ScraperPcs
<1>5. LockSound
  BY <1>1, <1>2 DEF LockSound, Metrics!Init, Holding, Metrics!RecorderAssumption, Metrics!Actors
<1>6. LossCounted
  <2>1. {a \in Metrics!Actors : actor[a].pc \in Reporting} = {}
    BY <1>1, <1>2 DEF Reporting
  <2>2. history.missing = 0 /\ history.uncounted = 0 /\ errors = 0
    BY DEF Metrics!Init
  <2> QED BY <2>1, <2>2, FS_EmptySet DEF LossCounted
<1>7. SlotSound
  BY <1>1, <1>2 DEF SlotSound, Metrics!Init, Metrics!Actors
<1>8. Metrics!CacheBounded
  <2>1. cached = {} /\ payload = 0 /\ {f \in cached : Metrics!SizeOf(f) = 2} = {}
    BY DEF Metrics!Init
  <2> QED BY <2>1, FS_EmptySet DEF Metrics!CacheBounded, Metrics!RecorderAssumption
<1>9. BodiesSound
  BY <1>1, <1>2 DEF BodiesSound, Metrics!Init, Metrics!Actors
<1> QED BY <1>3, <1>4, <1>5, <1>6, <1>7, <1>8, <1>9 DEF RIInv

LEMMA RecorderStep ==
  ASSUME Metrics!RecorderAssumption, RIInv, [Metrics!Next]_Metrics!vars
  PROVE  RIInv'
<1>1. CASE UNCHANGED Metrics!vars
  BY <1>1 DEF RIInv, RTypeOK, PlaceOK, LockSound, LossCounted, SlotSound, Metrics!CacheBounded, BodiesSound,
              BodySound, Metrics!Collected, Metrics!SizeOf, Metrics!vars
<1>2. ASSUME NEW t \in Threads,
             \/ \E k \in Kinds : Metrics!Begin(t, k)
             \/ Metrics!ObservePart(t) \/ Metrics!MarkSuccess(t) \/ Metrics!PublishSuccess(t) \/ Metrics!Recovered(t)
      PROVE  RIInv'
  BY <1>2, BeginSound, ObservePartSound, MarkSuccessSound, PublishSuccessSound, RecoveredSound, Zenon
<1>3. ASSUME NEW a \in Metrics!Actors, Metrics!Mark(a)
      PROVE  RIInv'
  BY <1>3, MarkErrorSound, PublishErrorSound, CountErrorSound, Zenon DEF Metrics!Mark
<1>4. ASSUME NEW s \in Scrapers,
             \/ Metrics!Render(s) \/ Metrics!RenderBusy(s) \/ Metrics!RenderFails(s) \/ Metrics!Cancel(s)
             \/ \E f \in Metrics!Families : Metrics!Collect(s, f)
             \/ Metrics!CollectFails(s) \/ Metrics!Serialized(s) \/ Metrics!Broken(s)
      PROVE  RIInv'
  BY <1>4, RenderSound, RenderRefusedSound, CollectSound, CollectFailsSound, WorkerEnds, Zenon
<1> QED BY <1>1, <1>2, <1>3, <1>4 DEF Metrics!Next

\* The invariant implies what is promised of the recorder and the exporter.
LEMMA RIInvIsEnough ==
  ASSUME Metrics!RecorderAssumption, RIInv
  PROVE  Metrics!RecorderSound
<1>1. Metrics!HealthShown
  <2> SUFFICES ASSUME lock = Metrics!Nobody
               PROVE  /\ healthy <=> history.last = "success"
                      /\ healthy => healthGauge = 1
                      /\ (~healthy /\ healthGauge = 1) => history.unpublished
    BY DEF Metrics!HealthShown
  <2>1. \A a \in Metrics!Actors : actor[a].pc \notin Holding
    BY DEF RIInv, LockSound, Metrics!RecorderAssumption, Metrics!Actors
  <2>2. \A a \in Metrics!Actors : actor[a].pc \notin {"recovered", "unhealthy"}
    BY <2>1 DEF Holding
  <2> QED BY <2>2 DEF RIInv, LockSound
<1>2. Metrics!MissingIsCounted
  <2> SUFFICES ASSUME \A a \in Metrics!Actors : actor[a].pc \notin {"failed", "unhealthy", "count"}
               PROVE  history.missing <= 2 * (errors + history.uncounted)
    BY DEF Metrics!MissingIsCounted
  <2>1. {a \in Metrics!Actors : actor[a].pc \in Reporting} = {}
    BY DEF Reporting
  <2>2. errors + history.uncounted \in Nat
    BY Known DEF RIInv
  <2>3. history.missing <= 2 * (errors + history.uncounted + 0)
    BY <2>1, FS_EmptySet DEF RIInv, LossCounted
  <2> QED BY <2>2, <2>3
<1>3. Metrics!OneSerializer
  <2> DEFINE working == {s \in Scrapers : actor[s].pc # "idle"}
  <2>1. slot <=> working # {}
    BY DEF RIInv, SlotSound
  <2>2. \A s, u \in working : s = u
    BY DEF RIInv, SlotSound
  <2> HIDE DEF working
  <2>3. Cardinality(working) <= 1
    <3>1. CASE working = {}
      <4>1. Cardinality(working) = 0
        BY <3>1, FS_EmptySet
      <4> QED BY <4>1
    <3>2. CASE working # {}
      <4>1. PICK s \in working : TRUE
        BY <3>2
      <4>2. working = {s}
        BY <2>2, <4>1
      <4>3. Cardinality(working) = 1
        BY <4>2, FS_Singleton
      <4> QED BY <4>3
    <3> QED BY <3>1, <3>2
  <2> QED BY <2>1, <2>3 DEF Metrics!OneSerializer, working
<1>4. Metrics!BodyFresh
  <2> SUFFICES ASSUME NEW s \in Scrapers, answer[s] = "body", NEW w, w = actor[s]
               PROVE  Metrics!Collected(w) = Metrics!Families /\ \A e \in w.body : e[2] \in w.start[e[1]]..samples[e[1]]
    BY DEF Metrics!BodyFresh
  <2>1. BodySound(w) /\ w.next = Cardinality(Metrics!Families) /\ w \in ActorType
    BY DEF RIInv, BodiesSound, RTypeOK, Metrics!Actors
  <2>2. Metrics!Collected(w) = Metrics!Families
    BY <2>1, FamiliesFinite, FS_Subset DEF BodySound
  <2>3. ASSUME NEW e \in w.body PROVE e[2] \in w.start[e[1]]..samples[e[1]]
    <3>1. e[1] \in Metrics!Families /\ e[2] \in Nat
      BY <2>1 DEF ActorType
    <3>2. w.start[e[1]] \in Nat /\ samples[e[1]] \in Nat
      BY <2>1, <3>1 DEF BodySound, RIInv, RTypeOK
    <3>3. w.start[e[1]] <= e[2] /\ e[2] <= samples[e[1]]
      BY <2>1 DEF BodySound
    <3> QED BY <3>1, <3>2, <3>3
  <2> QED BY <2>2, <2>3
<1> QED BY <1>1, <1>2, <1>3, <1>4 DEF Metrics!RecorderSound, RIInv

\* The invariant of PrometheusRecorder and of the cached exporter holds for any number of
\* threads and scrapes, any cache limits, and failures of any metric operation.
THEOREM RecorderInvariance ==
  ASSUME Metrics!RecorderAssumption
  PROVE  Metrics!Spec => []RIInv
<1>1. Metrics!Init => RIInv
  BY RecorderInit
<1>2. RIInv /\ [Metrics!Next]_Metrics!vars => RIInv'
  BY RecorderStep
<1> QED BY <1>1, <1>2, PTL DEF Metrics!Spec

\* oc_metrics_recorder_healthy shows what the recorder knows once no thread holds the
\* lock, every missing sample is accounted for, one scrape serializes at a time, the
\* prefix cache keeps both of its limits, and a body is whole and never older than its
\* scrape, though threads record and cancelled workers go on meanwhile.
THEOREM RecorderIsSound ==
  ASSUME Metrics!RecorderAssumption
  PROVE  Metrics!Spec => []RecorderSound
<1>1. RIInv => RecorderSound
  BY RIInvIsEnough DEF RecorderSound
<1> QED BY <1>1, RecorderInvariance, PTL

HIDE MetricsSizes
=============================================================================
