------------------------- MODULE OfflineRestoreProofs -------------------------
(***************************************************************************)
(* Proofs about OfflineRestore, for any number of operations, snapshots,   *)
(* candidates, transactions and kills: no log beside a foreign main file,  *)
(* nothing displaced is lost, and state.json tells the truth.              *)
(***************************************************************************)
EXTENDS OfflineRestore, TLAPS

-----------------------------------------------------------------------------
(* The inductive invariant.                                                *)

Logs == [of : Int, holds : Int]
Candidates == [name : Nat, db : Snapshots]
Families == [Members -> Int \union {NoFile, "index"} \union Logs]
Copies == Int \union {NoFile, Torn}

Phases == {"none", "created", "archiving", "abandoned", "prepared", "activated",
           "rolling_back", "rolled_back"}
Pcs == {"idle", "created", "archive", "incoming", "prepare", "displace", "activated", "forward",
        "copy", "aside", "rolled_back", "cleanup", "probe", "probing", "save", "unlink", "retired"}

States == [phase : Phases, candidate : Candidates \union {NoFile}, available : BOOLEAN,
           probe : {"none", "pending", "failed", "stale", "ok"}, forward : Families,
           retirement : {"none", "in_progress", "done"}]
Kits == [raw : Families, old : Int \union {NoFile}, displaced : Families, hasForward : BOOLEAN,
         forward : Families, aside : Families, incoming : Copies, rollback : Copies]

TypeOK ==
    /\ live \in Families
    /\ live["main"] \in Int
    /\ live["wal"] \in Logs \union {NoFile}
    /\ stage \in Candidates \union {NoFile}
    /\ state \in [Ops -> States]
    /\ files \in [Ops -> Kits]
    /\ helper \in [pc : Pcs, op : Ops \union {NoFile}]
    /\ serving \in BOOLEAN /\ touched \in BOOLEAN
    /\ staged \in Nat /\ writes \in Nat
    /\ origin \in [Ops -> Int \union {NoFile}]
    /\ entry \in [Ops -> Int \union {NoFile}]
    /\ probed \in [Ops -> Int \union {NoFile}]
    /\ last \in Ops \union {NoFile}

\* An operation past the point where it may touch the live family, and one that
\* has recorded the archive its rollback started from.
Prepared(o) == state[o].phase \in {"prepared", "activated", "rolling_back", "rolled_back"}
Returning(o) == state[o].phase \in {"rolling_back", "rolled_back"}

\* The state an operation found, in raw-old and, when it is readable, in old-consistent.
OldKept(o) ==
    /\ Logical(files[o].raw) = origin[o]
    /\ state[o].available => files[o].old = origin[o] /\ origin[o] \in Int

\* What holds of an operation, whatever the helper is doing.
Sound(o) ==
    /\ state[o].phase \notin {"none", "created"} => state[o].candidate \in Candidates
    /\ Prepared(o) => OldKept(o)
    /\ ~Returning(o) => files[o].aside = NoMember
    /\ Returning(o) => /\ state[o].available /\ files[o].hasForward
                       /\ Logical(files[o].forward) = entry[o]
    /\ state[o].phase = "rolling_back" => files[o].forward = state[o].forward
    /\ state[o].phase = "rolling_back" /\ o \notin disturbed => Resumable(o)
    /\ state[o].probe = "ok" => /\ state[o].phase \in {"activated", "rolled_back"}
                                /\ probed[o] = InstalledBy(o)

\* Every other interrupted rollback is known to be disturbed.
Overtaken(o) == \A p \in Ops \ {o} : state[p].phase = "rolling_back" => p \in disturbed

\* What the helper relies on at each step of the command it runs for o.
Doing(o, pc) ==
    /\ pc = "created" => /\ state[o].phase = "created" /\ stage \in Candidates
    /\ pc \in {"archive", "incoming", "prepare"} => state[o].phase = "archiving"
    /\ pc \in {"created", "archive"} => entry[o] = Logical(live) /\ origin[o] = entry[o]
    /\ pc \in {"incoming", "prepare"} => OldKept(o)
    /\ pc \in {"incoming", "prepare", "displace"} => origin[o] = entry[o]
    /\ pc \in {"prepare", "displace"} => files[o].incoming = state[o].candidate.db
    /\ pc \in {"displace", "activated"} => state[o].phase = "prepared"
    /\ pc = "forward" => /\ state[o].phase \in {"prepared", "activated"} /\ state[o].available
                         /\ files[o].hasForward /\ entry[o] = Logical(live)
    /\ pc \in {"copy", "aside", "rolled_back"} => state[o].phase = "rolling_back"
    /\ pc = "aside" => files[o].rollback = files[o].old
    /\ pc \in {"displace", "copy", "aside", "probing"} => Overtaken(o)
    /\ pc \in {"activated", "rolled_back"} => last = o /\ ~touched
    /\ pc = "activated" => live["main"] = state[o].candidate.db
    /\ pc \in {"rolled_back", "cleanup"} => live["main"] = files[o].old
    /\ pc = "cleanup" => state[o].phase = "rolled_back"
    /\ pc \in {"probe", "probing", "save"} => /\ state[o].phase \in {"activated", "rolled_back"}
                                              /\ live["main"] = InstalledBy(o)
    /\ pc \in {"unlink", "retired"} => state[o].phase \in {"activated", "rolled_back", "abandoned"}

Busy ==
    /\ helper # Idle => helper.pc # "idle" /\ helper.op \in Ops /\ ~serving
    /\ \A o \in Ops : \A pc \in Pcs \ {"idle"} : At(o, pc) => Doing(o, pc)

\* The service runs only when no rollback is half done.
Quiet == serving => touched /\ \A o \in Ops : state[o].phase # "rolling_back"

\* Until the service opens it, the installed file has at most an empty log.
Untouched ==
    last # NoFile /\ ~touched =>
      /\ live["wal"] # NoFile => live["wal"].holds = live["main"]
      /\ state[last].phase = "activated" => live["main"] = state[last].candidate.db
      /\ state[last].phase = "rolled_back" => live["main"] = origin[last]

\* Every state a swap displaced is in an archive that no later step writes to.
Archived ==
    \A x \in replaced : \E o \in Ops :
      \/ Prepared(o) /\ x = Logical(files[o].raw)
      \/ Returning(o) /\ x = Logical(files[o].forward)

IInv ==
    /\ TypeOK
    /\ LogMatchesMain
    /\ \A o \in Ops : Sound(o)
    /\ Busy
    /\ Quiet
    /\ Untouched
    /\ Archived

-----------------------------------------------------------------------------
(* How the parts of the invariant are carried through a step.              *)

LEMMA NoMemberTyped == NoMember \in Families
  BY DEF NoMember, Families

\* What SQLite reads from the live family is a state.
LEMMA LogicalTyped == ASSUME TypeOK PROVE Logical(live) \in Int
  BY DEF TypeOK, Logical, Logs

LEMMA CandidateTyped == ASSUME NEW c \in Candidates PROVE c.db \in Int
<1>1. c.db \in Snapshots
  BY DEF Candidates
<1>2. c.db \in Nat
  BY <1>1, SnapshotsAssumption
<1>3. QED
  BY <1>2

\* An operation that no step touches stays sound while the live family is left
\* alone, and beyond that once its interrupted rollback is known to be disturbed.
LEMMA SoundFrame ==
    ASSUME NEW o \in Ops, Sound(o), state'[o] = state[o],
           files'[o].raw = files[o].raw, files'[o].old = files[o].old,
           files'[o].aside = files[o].aside, files'[o].forward = files[o].forward,
           files'[o].hasForward = files[o].hasForward,
           origin'[o] = origin[o], entry'[o] = entry[o], probed'[o] = probed[o],
           disturbed \subseteq disturbed',
           UNCHANGED live \/ state[o].phase # "rolling_back" \/ o \in disturbed'
    PROVE  Sound(o)'
<1>1. /\ Prepared(o)' = Prepared(o) /\ Returning(o)' = Returning(o)
      /\ OldKept(o)' = OldKept(o) /\ InstalledBy(o)' = InstalledBy(o)
  BY DEF Prepared, Returning, OldKept, InstalledBy
<1>2. state[o].phase = "rolling_back" /\ o \notin disturbed' => Resumable(o)'
  BY DEF Sound, Resumable
<1>3. QED
  BY <1>1, <1>2 DEF Sound

LEMMA ArchivedFrame ==
    ASSUME Archived, NEW o \in Ops,
           \A p \in Ops \ {o} : state'[p] = state[p] /\ files'[p] = files[p],
           Prepared(o) => Prepared(o)' /\ files'[o].raw = files[o].raw,
           Returning(o) => Returning(o)' /\ files'[o].forward = files[o].forward,
           \A x \in replaced' \ replaced : \/ Prepared(o)' /\ x = Logical(files'[o].raw)
                                           \/ Returning(o)' /\ x = Logical(files'[o].forward)
    PROVE  Archived'
<1>1. SUFFICES ASSUME NEW x \in replaced'
               PROVE  \E p \in Ops : \/ Prepared(p)' /\ x = Logical(files'[p].raw)
                                     \/ Returning(p)' /\ x = Logical(files'[p].forward)
  BY DEF Archived
<1>2. CASE x \notin replaced
  BY <1>2
<1>3. CASE x \in replaced
  <2>1. PICK p \in Ops : \/ Prepared(p) /\ x = Logical(files[p].raw)
                         \/ Returning(p) /\ x = Logical(files[p].forward)
    BY <1>3 DEF Archived
  <2>2. CASE p = o
    BY <2>1, <2>2
  <2>3. CASE p # o
    BY <2>1, <2>3 DEF Prepared, Returning
  <2>4. QED
    BY <2>2, <2>3
<1>4. QED
  BY <1>2, <1>3

\* A step of operation o keeps the invariant when it keeps what concerns o.
LEMMA Assembled ==
    ASSUME IInv, NEW o \in Ops, TypeOK', ~serving',
           \A p \in Ops \ {o} : /\ state'[p] = state[p] /\ files'[p] = files[p]
                                /\ origin'[p] = origin[p] /\ entry'[p] = entry[p]
                                /\ probed'[p] = probed[p],
           disturbed \subseteq disturbed',
           \/ UNCHANGED live
           \/ \A p \in Ops \ {o} : state[p].phase = "rolling_back" => p \in disturbed',
           LogMatchesMain', Sound(o)', Busy', Untouched',
           Prepared(o) => Prepared(o)' /\ files'[o].raw = files[o].raw,
           Returning(o) => Returning(o)' /\ files'[o].forward = files[o].forward,
           \A x \in replaced' \ replaced : \/ Prepared(o)' /\ x = Logical(files'[o].raw)
                                           \/ Returning(o)' /\ x = Logical(files'[o].forward)
    PROVE  IInv'
<1>1. ASSUME NEW p \in Ops PROVE Sound(p)'
  <2>1. CASE p = o
    BY <2>1
  <2>2. CASE p # o
    <3>1. Sound(p)
      BY DEF IInv
    <3>2. QED
      BY <2>2, <3>1, SoundFrame
  <2>3. QED
    BY <2>1, <2>2
<1>2. Archived'
  BY ArchivedFrame DEF IInv
<1>3. Quiet'
  BY DEF Quiet
<1>4. QED
  BY <1>1, <1>2, <1>3 DEF IInv

\* The installed file as long as nobody opens it but a probe.
LEMMA UntouchedKept ==
    ASSUME IInv, NEW o \in Ops, UNCHANGED <<last, touched>>,
           \A p \in Ops \ {o} : state'[p] = state[p] /\ origin'[p] = origin[p],
           live'["main"] = live["main"],
           live'["wal"] \in {live["wal"], NoFile, EmptyLog(live)},
           \/ last # o
           \/ state'[o].phase \notin {"activated", "rolled_back"}
           \/ /\ state'[o].phase = state[o].phase /\ state'[o].candidate = state[o].candidate
              /\ origin'[o] = origin[o]
    PROVE  Untouched'
<1>1. SUFFICES ASSUME last # NoFile, ~touched PROVE Untouched'
  BY DEF Untouched
<1>2. last \in Ops /\ live["wal"] # NoFile => live["wal"].holds = live["main"]
  BY <1>1 DEF IInv, TypeOK, Untouched
<1>3. live'["wal"] # NoFile => live'["wal"].holds = live'["main"]
  BY <1>1 DEF IInv, Untouched, EmptyLog
<1>4. QED
  BY <1>1, <1>2, <1>3 DEF IInv, TypeOK, Untouched

\* What the helper may rely on where it is.
LEMMA AtFacts ==
    ASSUME IInv, NEW o \in Ops, NEW pc \in Pcs \ {"idle"}, At(o, pc)
    PROVE  Doing(o, pc) /\ ~serving /\ Sound(o) /\ state[o] \in States /\ files[o] \in Kits
<1>1. helper # Idle
  BY DEF At, Idle
<1>2. QED
  BY <1>1 DEF IInv, Busy, TypeOK

\* The helper goes on to pc, or ends.
LEMMA GoesTo ==
    ASSUME TypeOK, NEW o \in Ops, NEW pc \in Pcs \ {"idle"}, ~serving',
           \/ helper.op = o /\ Goto(pc)
           \/ helper' = [pc |-> pc, op |-> o],
           Doing(o, pc)'
    PROVE  Busy' /\ helper' \in [pc : Pcs, op : Ops \union {NoFile}]
<1>1. helper'.pc = pc /\ helper'.op = o /\ helper' \in [pc : Pcs, op : Ops \union {NoFile}]
  BY DEF Goto, TypeOK
<1>2. ASSUME NEW p \in Ops, NEW c \in Pcs \ {"idle"}, At(p, c)' PROVE Doing(p, c)'
  <2>1. p = o /\ c = pc
    BY <1>1, <1>2 DEF At
  <2>2. QED
    BY <2>1
<1>3. QED
  BY <1>1, <1>2 DEF Busy

LEMMA Ends ==
    ASSUME helper' = Idle
    PROVE  Busy' /\ helper' \in [pc : Pcs, op : Ops \union {NoFile}]
  BY DEF Idle, Busy, At, Pcs

LEMMA Saved ==
    ASSUME TypeOK, NEW o \in Ops, NEW r \in States, Save(o, r)
    PROVE  /\ state' \in [Ops -> States] /\ state'[o] = r
           /\ \A p \in Ops \ {o} : state'[p] = state[p]
  BY DEF TypeOK, Save

LEMMA Filed ==
    ASSUME TypeOK, NEW o \in Ops, NEW k \in Kits, files' = [files EXCEPT ![o] = k]
    PROVE  /\ files' \in [Ops -> Kits] /\ files'[o] = k
           /\ \A p \in Ops \ {o} : files'[p] = files[p]
  BY DEF TypeOK

LEMMA Same ==
    ASSUME TypeOK, NEW o \in Ops
    PROVE  /\ UNCHANGED state => Save(o, state[o])
           /\ UNCHANGED files => files' = [files EXCEPT ![o] = files[o]]
           /\ state[o] \in States /\ files[o] \in Kits
  BY DEF TypeOK, Save

\* A step of operation o that leaves the live family and the history of it alone.
LEMMA OffLive ==
    ASSUME IInv, NEW o \in Ops, NEW r \in States, NEW k \in Kits,
           Save(o, r), files' = [files EXCEPT ![o] = k],
           Busy', helper' \in [pc : Pcs, op : Ops \union {NoFile}],
           stage' \in Candidates \union {NoFile}, ~serving,
           UNCHANGED <<live, serving, staged, writes, origin, entry, replaced, last, touched>>,
           probed' \in [Ops -> Int \union {NoFile}], \A p \in Ops \ {o} : probed'[p] = probed[p],
           disturbed \subseteq disturbed', Sound(o)',
           Prepared(o) => /\ r.phase \in {"prepared", "activated", "rolling_back", "rolled_back"}
                          /\ k.raw = files[o].raw,
           Returning(o) => r.phase \in {"rolling_back", "rolled_back"} /\ k.forward = files[o].forward,
           \/ Untouched'
           \/ r.phase \notin {"activated", "rolled_back"}
           \/ r.phase = state[o].phase /\ r.candidate = state[o].candidate
    PROVE  IInv'
<1>1. /\ state' \in [Ops -> States] /\ state'[o] = r
      /\ \A p \in Ops \ {o} : state'[p] = state[p]
  BY Saved DEF IInv
<1>2. /\ files' \in [Ops -> Kits] /\ files'[o] = k
      /\ \A p \in Ops \ {o} : files'[p] = files[p]
  BY Filed DEF IInv
<1>3. TypeOK'
  BY <1>1, <1>2 DEF IInv, TypeOK
<1>4. LogMatchesMain'
  BY DEF IInv, LogMatchesMain
<1>5. Untouched'
  BY <1>1, UntouchedKept
<1>6. /\ Prepared(o) => Prepared(o)' /\ files'[o].raw = files[o].raw
      /\ Returning(o) => Returning(o)' /\ files'[o].forward = files[o].forward
  BY <1>1, <1>2 DEF Prepared, Returning
<1>7. QED
  BY <1>1, <1>2, <1>3, <1>4, <1>5, <1>6, Assembled

-----------------------------------------------------------------------------
(* activate                                                                *)

LEMMA BeginActivateInv ==
    ASSUME IInv, NEW o \in Ops, BeginActivate(o)
    PROVE  IInv'
<1> DEFINE r == [state[o] EXCEPT !.phase = "created"]
<1>1. /\ state[o] \in States /\ Sound(o) /\ Logical(live) \in Int /\ TypeOK
      /\ ~serving /\ ~serving' /\ Preflight(o) /\ state[o].phase = "none"
      /\ helper' = [pc |-> "created", op |-> o]
      /\ origin' = [origin EXCEPT ![o] = Logical(live)] /\ entry' = [entry EXCEPT ![o] = Logical(live)]
      /\ Save(o, r)
      /\ UNCHANGED <<live, stage, files, serving, staged, writes, replaced, last, touched, probed, disturbed>>
  BY LogicalTyped DEF IInv, TypeOK, BeginActivate, Begin, Offline, Preflight, bounds
<1>2. r \in States /\ r.phase = "created" /\ r.probe = state[o].probe
  BY <1>1 DEF States, Phases
<1>3. /\ state' \in [Ops -> States] /\ state'[o] = r
      /\ \A p \in Ops \ {o} : state'[p] = state[p]
  BY <1>1, <1>2, Saved
<1> HIDE DEF r
<1>4. Doing(o, "created")'
  BY <1>1, <1>2, <1>3 DEF Doing, Preflight, TypeOK
<1>5. Busy' /\ helper' \in [pc : Pcs, op : Ops \union {NoFile}]
  BY <1>1, <1>4, GoesTo DEF Pcs
<1>6. TypeOK'
  BY <1>1, <1>3, <1>5 DEF TypeOK
<1>7. Sound(o)'
  BY <1>1, <1>2, <1>3 DEF Sound, Prepared, Returning
<1>8. Untouched'
  BY <1>1, <1>2, <1>3, UntouchedKept
<1>9. ~Prepared(o) /\ ~Returning(o)
  BY <1>1 DEF Prepared, Returning
<1>10. LogMatchesMain'
  BY <1>1 DEF IInv, LogMatchesMain
<1>11. QED
  BY <1>1, <1>3, <1>5, <1>6, <1>7, <1>8, <1>9, <1>10, Assembled

LEMMA SaveArchivingInv ==
    ASSUME IInv, NEW o \in Ops, SaveArchiving(o)
    PROVE  IInv'
<1> DEFINE r == [state[o] EXCEPT !.phase = "archiving", !.candidate = stage]
<1>1. /\ At(o, "created") /\ Goto("archive") /\ Save(o, r) /\ TypeOK
      /\ UNCHANGED <<live, stage, files, serving, staged, writes, history>>
  BY DEF IInv, SaveArchiving, bounds
<1>2. Doing(o, "created") /\ ~serving /\ Sound(o) /\ state[o] \in States /\ files[o] \in Kits
  BY <1>1, AtFacts DEF Pcs
<1>3. state[o].phase = "created" /\ stage \in Candidates /\ ~Prepared(o) /\ ~Returning(o)
  BY <1>2 DEF Doing, Prepared, Returning
<1>4. r \in States /\ r.phase = "archiving" /\ r.probe = state[o].probe /\ r.candidate = stage
  BY <1>2, <1>3 DEF States, Phases
<1>5. state'[o] = r
  BY <1>1, <1>4, Saved
<1> HIDE DEF r
<1>6. Doing(o, "archive")'
  BY <1>1, <1>2, <1>4, <1>5 DEF Doing, history
<1>7. Busy' /\ helper' \in [pc : Pcs, op : Ops \union {NoFile}]
  BY <1>1, <1>2, <1>6, GoesTo DEF Pcs, At
<1>8. Sound(o)'
  BY <1>1, <1>2, <1>3, <1>4, <1>5 DEF Sound, Prepared, Returning, history
<1>9. QED
  BY <1>1, <1>2, <1>3, <1>4, <1>7, <1>8, Same, OffLive DEF history, TypeOK

LEMMA ArchiveInv ==
    ASSUME IInv, NEW o \in Ops, Archive(o)
    PROVE  IInv'
<1>1. /\ At(o, "archive") /\ TypeOK
      /\ UNCHANGED <<live, stage, state, helper, serving, staged, writes, history>>
  BY DEF IInv, Archive, bounds
<1>2. Doing(o, "archive") /\ ~serving /\ Sound(o) /\ state[o] \in States /\ files[o] \in Kits
  BY <1>1, AtFacts DEF Pcs
<1>3. PICK m \in Members : files' = [files EXCEPT ![o].raw[m] = live[m]]
  BY DEF Archive
<1> DEFINE k == [files[o] EXCEPT !.raw[m] = live[m]]
<1>4. k \in Kits /\ k.aside = files[o].aside
  BY <1>1, <1>2 DEF Kits, Families, TypeOK
<1>5. files' = [files EXCEPT ![o] = k]
  BY <1>3
<1> HIDE DEF k
<1>6. files'[o] = k
  BY <1>1, <1>4, <1>5, Filed
<1>7. Doing(o, "archive")' /\ helper' = [pc |-> "archive", op |-> o]
  BY <1>1, <1>2 DEF Doing, history, At, TypeOK
<1>8. Busy' /\ helper' \in [pc : Pcs, op : Ops \union {NoFile}]
  BY <1>1, <1>2, <1>7, GoesTo DEF Pcs
<1>9. state[o].phase = "archiving" /\ ~Prepared(o) /\ ~Returning(o)
  BY <1>2 DEF Doing, Prepared, Returning
<1>10. Sound(o)'
  BY <1>1, <1>2, <1>4, <1>6, <1>9 DEF Sound, Prepared, Returning, history
<1>11. QED
  BY <1>1, <1>2, <1>4, <1>5, <1>8, <1>9, <1>10, Same, OffLive DEF history, TypeOK

LEMMA AssessInv ==
    ASSUME IInv, NEW o \in Ops, Assess(o)
    PROVE  IInv'
<1> DEFINE old == Logical(files[o].raw)
           k == [files[o] EXCEPT !.old = IF Recognisable(old) THEN old ELSE NoFile]
           r == [state[o] EXCEPT !.available = Recognisable(old)]
<1>1. /\ At(o, "archive") /\ RawComplete(o) /\ Goto("incoming") /\ TypeOK
      /\ files' = [files EXCEPT ![o] = k] /\ Save(o, r)
      /\ UNCHANGED <<live, stage, serving, staged, writes, history>>
  BY DEF IInv, Assess, bounds
<1>2. Doing(o, "archive") /\ ~serving /\ Sound(o) /\ state[o] \in States /\ files[o] \in Kits
  BY <1>1, AtFacts DEF Pcs
<1>3. /\ state[o].phase = "archiving" /\ ~Prepared(o) /\ ~Returning(o)
      /\ entry[o] = Logical(live) /\ origin[o] = entry[o]
  BY <1>2 DEF Doing, Prepared, Returning
<1>4. old = origin[o] /\ old \in Int
  BY <1>1, <1>3, LogicalTyped DEF RawComplete
<1> HIDE DEF old
<1>5. /\ k \in Kits /\ k.aside = files[o].aside /\ k.raw = files[o].raw
      /\ k.old = IF Recognisable(old) THEN old ELSE NoFile
  BY <1>2, <1>4 DEF Kits
<1>6. /\ r \in States /\ r.phase = "archiving" /\ r.candidate = state[o].candidate
      /\ r.available = Recognisable(old) /\ r.probe = state[o].probe
  BY <1>2, <1>3 DEF States, Recognisable
<1>7. files'[o] = k /\ state'[o] = r
  BY <1>1, <1>5, <1>6, Saved, Filed
<1> HIDE DEF k, r
<1>8. Doing(o, "incoming")'
  <2>1. OldKept(o)'
    BY <1>1, <1>4, <1>5, <1>6, <1>7 DEF OldKept, history, old
  <2>2. QED
    BY <1>1, <1>3, <1>6, <1>7, <2>1 DEF Doing, history
<1>9. Busy' /\ helper' \in [pc : Pcs, op : Ops \union {NoFile}]
  BY <1>1, <1>2, <1>8, GoesTo DEF Pcs, At
<1>10. Sound(o)'
  BY <1>1, <1>2, <1>3, <1>5, <1>6, <1>7 DEF Sound, Prepared, Returning, history
<1>11. QED
  BY <1>1, <1>2, <1>3, <1>5, <1>6, <1>9, <1>10, OffLive DEF history, TypeOK

LEMMA CopyIncomingInv ==
    ASSUME IInv, NEW o \in Ops, CopyIncoming(o)
    PROVE  IInv'
<1> DEFINE k == [files[o] EXCEPT !.incoming = state[o].candidate.db]
<1>1. /\ At(o, "incoming") /\ Goto("prepare") /\ TypeOK /\ files' = [files EXCEPT ![o] = k]
      /\ UNCHANGED <<live, stage, state, serving, staged, writes, history>>
  BY DEF IInv, CopyIncoming, bounds
<1>2. Doing(o, "incoming") /\ ~serving /\ Sound(o) /\ state[o] \in States /\ files[o] \in Kits
  BY <1>1, AtFacts DEF Pcs
<1>3. /\ state[o].phase = "archiving" /\ ~Prepared(o) /\ ~Returning(o)
      /\ state[o].candidate \in Candidates /\ OldKept(o)
  BY <1>2 DEF Doing, Sound, Prepared, Returning
<1>4. state[o].candidate.db \in Copies
  BY <1>3, CandidateTyped DEF Copies
<1>5. /\ k \in Kits /\ k.aside = files[o].aside /\ k.raw = files[o].raw /\ k.old = files[o].old
      /\ k.incoming = state[o].candidate.db
  BY <1>2, <1>4 DEF Kits
<1>6. files'[o] = k
  BY <1>1, <1>5, Filed
<1> HIDE DEF k
<1>7. Doing(o, "prepare")'
  <2>1. OldKept(o)'
    BY <1>1, <1>3, <1>5, <1>6 DEF OldKept, history
  <2>2. QED
    BY <1>1, <1>2, <1>3, <1>5, <1>6, <2>1 DEF Doing, history
<1>8. Busy' /\ helper' \in [pc : Pcs, op : Ops \union {NoFile}]
  BY <1>1, <1>2, <1>7, GoesTo DEF Pcs, At
<1>9. Sound(o)'
  BY <1>1, <1>2, <1>3, <1>5, <1>6 DEF Sound, Prepared, Returning, history
<1>10. QED
  BY <1>1, <1>2, <1>3, <1>5, <1>8, <1>9, Same, OffLive DEF history, TypeOK

LEMMA SavePreparedInv ==
    ASSUME IInv, NEW o \in Ops, SavePrepared(o)
    PROVE  IInv'
<1> DEFINE r == [state[o] EXCEPT !.phase = "prepared", !.probe = "pending"]
<1>1. /\ At(o, "prepare") /\ Goto("displace") /\ TypeOK /\ Save(o, r)
      /\ UNCHANGED <<live, stage, files, serving, staged, writes,
                     origin, entry, replaced, last, touched, probed>>
      /\ disturbed' = disturbed \union {p \in Ops \ {o} : state[p].phase = "rolling_back"}
  BY DEF IInv, SavePrepared, Overtake, bounds
<1>2. Doing(o, "prepare") /\ ~serving /\ Sound(o) /\ state[o] \in States /\ files[o] \in Kits
  BY <1>1, AtFacts DEF Pcs
<1>3. /\ state[o].phase = "archiving" /\ ~Prepared(o) /\ ~Returning(o) /\ OldKept(o)
      /\ state[o].candidate \in Candidates /\ files[o].aside = NoMember
      /\ files[o].incoming = state[o].candidate.db /\ origin[o] = entry[o]
  BY <1>2 DEF Doing, Sound, Prepared, Returning
<1>4. /\ r \in States /\ r.phase = "prepared" /\ r.probe = "pending"
      /\ r.candidate = state[o].candidate /\ r.available = state[o].available
  BY <1>2 DEF States, Phases
<1>5. state'[o] = r /\ \A p \in Ops \ {o} : state'[p] = state[p]
  BY <1>1, <1>4, Saved
<1> HIDE DEF r
<1>6. OldKept(o)' /\ Overtaken(o)'
  BY <1>1, <1>3, <1>4, <1>5 DEF OldKept, Overtaken
<1>7. Doing(o, "displace")'
  BY <1>1, <1>3, <1>4, <1>5, <1>6 DEF Doing
<1>8. Busy' /\ helper' \in [pc : Pcs, op : Ops \union {NoFile}]
  BY <1>1, <1>2, <1>7, GoesTo DEF Pcs, At
<1>9. Sound(o)'
  BY <1>1, <1>3, <1>4, <1>5, <1>6 DEF Sound, Prepared, Returning
<1>10. QED
  BY <1>1, <1>2, <1>3, <1>4, <1>8, <1>9, Same, OffLive DEF TypeOK

\* A step of operation o on the live family, made when every other interrupted
\* rollback is known to be disturbed.
LEMMA OnLive ==
    ASSUME IInv, NEW o \in Ops, NEW k \in Kits, files' = [files EXCEPT ![o] = k],
           Busy', helper' \in [pc : Pcs, op : Ops \union {NoFile}], ~serving,
           live' \in Families, live'["main"] \in Int, live'["wal"] \in Logs \union {NoFile},
           LogMatchesMain', Sound(o)', Untouched',
           UNCHANGED <<stage, state, serving, staged, writes, origin, entry, probed>>,
           last' \in Ops \union {NoFile}, touched' \in BOOLEAN,
           disturbed \subseteq disturbed',
           \A p \in Ops \ {o} : state[p].phase = "rolling_back" => p \in disturbed',
           k.raw = files[o].raw, k.forward = files[o].forward,
           \/ replaced' = replaced
           \/ /\ replaced' = replaced \union {entry[o]}
              /\ \/ Prepared(o) /\ entry[o] = Logical(k.raw)
                 \/ Returning(o) /\ entry[o] = Logical(k.forward)
    PROVE  IInv'
<1>1. TypeOK /\ Prepared(o)' = Prepared(o) /\ Returning(o)' = Returning(o)
  BY DEF IInv, Prepared, Returning
<1>2. /\ files' \in [Ops -> Kits] /\ files'[o] = k
      /\ \A p \in Ops \ {o} : files'[p] = files[p]
  BY <1>1, Filed
<1>3. TypeOK'
  BY <1>1, <1>2 DEF TypeOK
<1>4. QED
  BY <1>1, <1>2, <1>3, Assembled

\* A sidecar is renamed away.
LEMMA WithoutSidecar ==
    ASSUME TypeOK, LogMatchesMain, NEW s \in Sidecars, live' = [live EXCEPT ![s] = NoFile]
    PROVE  /\ live' \in Families /\ live'["main"] = live["main"]
           /\ live'["wal"] \in {live["wal"], NoFile} /\ live'[s] = NoFile
           /\ \A q \in Sidecars \ {s} : live'[q] = live[q]
           /\ LogMatchesMain'
<1>1. /\ live' \in Families /\ live'["main"] = live["main"]
      /\ live'["wal"] \in {live["wal"], NoFile} /\ live'[s] = NoFile
      /\ \A q \in Sidecars \ {s} : live'[q] = live[q]
  BY DEF TypeOK, Families, Members, Sidecars
<1>2. QED
  BY <1>1 DEF LogMatchesMain

LEMMA DisplaceInv ==
    ASSUME IInv, NEW o \in Ops, Displace(o)
    PROVE  IInv'
<1>1. PICK s \in Sidecars : /\ files' = [files EXCEPT ![o].displaced[s] = live[s]]
                            /\ live' = [live EXCEPT ![s] = NoFile]
  BY DEF Displace
<1> DEFINE k == [files[o] EXCEPT !.displaced[s] = live[s]]
<1>2. /\ At(o, "displace") /\ TypeOK /\ LogMatchesMain /\ files' = [files EXCEPT ![o] = k]
      /\ UNCHANGED <<stage, state, helper, serving, staged, writes, history>>
  BY <1>1 DEF IInv, Displace, bounds
<1>3. Doing(o, "displace") /\ ~serving /\ Sound(o) /\ state[o] \in States /\ files[o] \in Kits
  BY <1>2, AtFacts DEF Pcs
<1>4. /\ state[o].phase = "prepared" /\ Overtaken(o) /\ origin[o] = entry[o]
      /\ files[o].incoming = state[o].candidate.db
  BY <1>3 DEF Doing
<1>5. /\ live' \in Families /\ live'["main"] = live["main"]
      /\ live'["wal"] \in {live["wal"], NoFile} /\ LogMatchesMain'
  BY <1>1, <1>2, WithoutSidecar
<1>6. /\ k \in Kits /\ k.raw = files[o].raw /\ k.forward = files[o].forward /\ k.old = files[o].old
      /\ k.aside = files[o].aside /\ k.incoming = files[o].incoming
      /\ k.hasForward = files[o].hasForward
  BY <1>2, <1>3 DEF Kits, Families, TypeOK, Members
<1> HIDE DEF k
<1>7. files'[o] = k
  BY <1>2, <1>6, Filed
<1>8. Sound(o)'
  BY <1>2, <1>3, <1>4, <1>6, <1>7, SoundFrame DEF history
<1>9. Doing(o, "displace")' /\ helper' = [pc |-> "displace", op |-> o]
  BY <1>2, <1>4, <1>6, <1>7 DEF Doing, Overtaken, history, At, TypeOK
<1>10. Busy' /\ helper' \in [pc : Pcs, op : Ops \union {NoFile}]
  BY <1>2, <1>3, <1>9, GoesTo DEF Pcs
<1>11. Untouched'
  BY <1>2, <1>5, UntouchedKept DEF history
<1>12. live'["main"] \in Int /\ live'["wal"] \in Logs \union {NoFile}
  BY <1>2, <1>5 DEF TypeOK
<1>13. \A p \in Ops \ {o} : state[p].phase = "rolling_back" => p \in disturbed'
  BY <1>2, <1>4 DEF Overtaken, history
<1>14. QED
  BY <1>2, <1>3, <1>5, <1>6, <1>8, <1>10, <1>11, <1>12, <1>13, OnLive DEF history, TypeOK

\* A file renamed over the main one, with no sidecar beside it.
LEMMA Renamed ==
    ASSUME TypeOK, SidecarsGone, NEW d \in Int, live' = [live EXCEPT !["main"] = d]
    PROVE  /\ live' \in Families /\ live'["main"] = d /\ LogMatchesMain'
           /\ \A s \in Sidecars : live'[s] = NoFile
<1>1. /\ live' \in Families /\ live'["main"] = d
      /\ \A s \in Sidecars : live'[s] = NoFile
  BY DEF TypeOK, Families, Members, Sidecars, SidecarsGone
<1>2. live'["wal"] = NoFile
  BY <1>1 DEF Sidecars
<1>3. QED
  BY <1>1, <1>2 DEF LogMatchesMain

LEMMA SwapInv ==
    ASSUME IInv, NEW o \in Ops, Swap(o)
    PROVE  IInv'
<1> DEFINE k == [files[o] EXCEPT !.incoming = NoFile]
<1>1. /\ At(o, "displace") /\ SidecarsGone /\ Goto("activated") /\ TypeOK
      /\ live' = [live EXCEPT !["main"] = files[o].incoming]
      /\ files' = [files EXCEPT ![o] = k]
      /\ replaced' = replaced \union {entry[o]} /\ last' = o /\ touched' = FALSE
      /\ UNCHANGED <<stage, state, serving, staged, writes, origin, entry, probed, disturbed>>
  BY DEF IInv, Swap, Installed, bounds
<1>2. Doing(o, "displace") /\ ~serving /\ Sound(o) /\ state[o] \in States /\ files[o] \in Kits
  BY <1>1, AtFacts DEF Pcs
<1>3. /\ state[o].phase = "prepared" /\ Overtaken(o) /\ origin[o] = entry[o]
      /\ files[o].incoming = state[o].candidate.db /\ state[o].candidate \in Candidates
      /\ Prepared(o) /\ OldKept(o)
  BY <1>2 DEF Doing, Sound, Prepared
<1>4. files[o].incoming \in Int
  BY <1>3, CandidateTyped
<1>5. /\ live' \in Families /\ live'["main"] = files[o].incoming /\ live'["wal"] = NoFile
      /\ LogMatchesMain'
  BY <1>1, <1>4, Renamed DEF Sidecars
<1>6. /\ k \in Kits /\ k.raw = files[o].raw /\ k.forward = files[o].forward /\ k.old = files[o].old
      /\ k.aside = files[o].aside /\ k.hasForward = files[o].hasForward
  BY <1>2 DEF Kits, Copies
<1> HIDE DEF k
<1>7. files'[o] = k
  BY <1>1, <1>6, Filed
<1>8. Sound(o)'
  BY <1>1, <1>2, <1>3, <1>6, <1>7, SoundFrame
<1>9. Doing(o, "activated")'
  BY <1>1, <1>3, <1>5 DEF Doing
<1>10. Busy' /\ helper' \in [pc : Pcs, op : Ops \union {NoFile}]
  BY <1>1, <1>2, <1>9, GoesTo DEF Pcs, At
<1>11. Untouched'
  BY <1>1, <1>3, <1>5 DEF Untouched
<1>12. entry[o] = Logical(k.raw)
  BY <1>3, <1>6 DEF OldKept
<1>13. \A p \in Ops \ {o} : state[p].phase = "rolling_back" => p \in disturbed'
  BY <1>1, <1>3 DEF Overtaken
<1>14. QED
  BY <1>1, <1>2, <1>3, <1>4, <1>5, <1>6, <1>8, <1>10, <1>11, <1>12, <1>13, OnLive

LEMMA SaveActivatedInv ==
    ASSUME IInv, NEW o \in Ops, SaveActivated(o)
    PROVE  IInv'
<1> DEFINE r == [state[o] EXCEPT !.phase = "activated"]
<1>1. /\ At(o, "activated") /\ Goto("probe") /\ TypeOK /\ Save(o, r)
      /\ UNCHANGED <<live, stage, files, serving, staged, writes, history>>
  BY DEF IInv, SaveActivated, bounds
<1>2. Doing(o, "activated") /\ ~serving /\ Sound(o) /\ state[o] \in States /\ files[o] \in Kits
  BY <1>1, AtFacts DEF Pcs
<1>3. /\ state[o].phase = "prepared" /\ live["main"] = state[o].candidate.db /\ last = o /\ ~touched
      /\ state[o].candidate \in Candidates /\ OldKept(o) /\ files[o].aside = NoMember
      /\ state[o].probe # "ok"
  BY <1>2 DEF Doing, Sound, Prepared, Returning
<1>4. /\ r \in States /\ r.phase = "activated" /\ r.probe = state[o].probe
      /\ r.candidate = state[o].candidate /\ r.available = state[o].available
  BY <1>2 DEF States, Phases
<1>5. state'[o] = r
  BY <1>1, <1>4, Saved
<1> HIDE DEF r
<1>6. OldKept(o)' /\ InstalledBy(o)' = live["main"]
  BY <1>1, <1>3, <1>4, <1>5 DEF OldKept, InstalledBy, history
<1>7. Doing(o, "probe")'
  BY <1>1, <1>4, <1>5, <1>6 DEF Doing
<1>8. Busy' /\ helper' \in [pc : Pcs, op : Ops \union {NoFile}]
  BY <1>1, <1>2, <1>7, GoesTo DEF Pcs, At
<1>9. Sound(o)'
  BY <1>1, <1>3, <1>4, <1>5, <1>6 DEF Sound, Prepared, Returning, history
<1>10. Untouched'
  BY <1>1, <1>3, <1>4, <1>5 DEF IInv, Untouched, history
<1>11. ~Returning(o)
  BY <1>3 DEF Returning
<1>12. QED
  BY <1>1, <1>2, <1>4, <1>8, <1>9, <1>10, <1>11, Same, OffLive DEF history, TypeOK

-----------------------------------------------------------------------------
(* rollback                                                                *)

\* Only the activation copy goes.
LEMMA IncomingRemoved ==
    ASSUME NEW o \in Ops, NEW f \in Kits
    PROVE  LET k == WithoutIncoming(f, o)
           IN /\ k \in Kits /\ k.raw = f.raw /\ k.forward = f.forward /\ k.old = f.old
              /\ k.aside = f.aside /\ k.hasForward = f.hasForward
  BY DEF WithoutIncoming, Kits, Copies

LEMMA AbandonInv ==
    ASSUME IInv, NEW o \in Ops, Abandon(o)
    PROVE  IInv'
<1> DEFINE r == [state[o] EXCEPT !.phase = "abandoned"]
           k == WithoutIncoming(files[o], o)
<1>1. /\ helper = Idle /\ ~serving /\ state[o].phase = "archiving" /\ TypeOK /\ Save(o, r)
      /\ files' = [files EXCEPT ![o] = k]
      /\ UNCHANGED <<live, stage, helper, serving, staged, writes, history>>
  BY DEF IInv, Abandon, Offline, bounds
<1>2. state[o] \in States /\ files[o] \in Kits /\ Sound(o)
  BY <1>1, Same DEF IInv
<1>3. k \in Kits /\ k.aside = files[o].aside
  BY <1>2, IncomingRemoved
<1>4. r \in States /\ r.phase = "abandoned" /\ r.probe = state[o].probe /\ r.candidate = state[o].candidate
  BY <1>2 DEF States, Phases
<1> HIDE DEF r, k
<1>5. state'[o] = r /\ files'[o] = k
  BY <1>1, <1>3, <1>4, Saved, Filed
<1>6. ~Prepared(o) /\ ~Returning(o)
  BY <1>1 DEF Prepared, Returning
<1>7. Sound(o)'
  BY <1>1, <1>2, <1>3, <1>4, <1>5 DEF Sound, Prepared, Returning
<1>8. Busy' /\ helper' \in [pc : Pcs, op : Ops \union {NoFile}]
  BY <1>1, Ends
<1>9. QED
  BY <1>1, <1>3, <1>4, <1>6, <1>7, <1>8, OffLive DEF history, TypeOK

LEMMA BeginRollbackInv ==
    ASSUME IInv, NEW o \in Ops, BeginRollback(o)
    PROVE  IInv'
<1> DEFINE k == [files[o] EXCEPT !.hasForward = TRUE]
<1>1. /\ ~serving /\ helper' = [pc |-> "forward", op |-> o] /\ TypeOK
      /\ state[o].phase \in {"prepared", "activated"} /\ state[o].available
      /\ files' = [files EXCEPT ![o] = k] /\ entry' = [entry EXCEPT ![o] = Logical(live)]
      /\ UNCHANGED <<live, stage, state, serving, staged, writes, origin, replaced, last, touched,
                     probed, disturbed>>
  BY DEF IInv, BeginRollback, Begin, Offline, bounds
<1>2. state[o] \in States /\ files[o] \in Kits /\ Sound(o) /\ Logical(live) \in Int
  BY <1>1, Same, LogicalTyped DEF IInv
<1>3. /\ k \in Kits /\ k.raw = files[o].raw /\ k.old = files[o].old /\ k.aside = files[o].aside
      /\ k.hasForward
  BY <1>2 DEF Kits
<1> HIDE DEF k
<1>4. /\ files' \in [Ops -> Kits] /\ files'[o] = k
      /\ \A p \in Ops \ {o} : files'[p] = files[p]
  BY <1>1, <1>3, Filed
<1>5. Doing(o, "forward")'
  BY <1>1, <1>2, <1>3, <1>4 DEF Doing, TypeOK
<1>6. Busy' /\ helper' \in [pc : Pcs, op : Ops \union {NoFile}]
  BY <1>1, <1>5, GoesTo DEF Pcs
<1>7. /\ Prepared(o) /\ ~Returning(o) /\ ~Returning(o)' /\ Prepared(o)'
      /\ OldKept(o)' = OldKept(o) /\ InstalledBy(o)' = InstalledBy(o)
  BY <1>1, <1>3, <1>4 DEF Prepared, Returning, OldKept, InstalledBy
<1>8. Sound(o)'
  BY <1>1, <1>2, <1>3, <1>4, <1>7 DEF Sound
<1>9. TypeOK'
  BY <1>1, <1>2, <1>4, <1>6 DEF TypeOK
<1>10. Untouched' /\ LogMatchesMain'
  BY <1>1 DEF IInv, Untouched, LogMatchesMain
<1>11. \A p \in Ops \ {o} : entry'[p] = entry[p]
  BY <1>1 DEF TypeOK
<1>12. QED
  BY <1>1, <1>3, <1>4, <1>6, <1>7, <1>8, <1>9, <1>10, <1>11, Assembled

LEMMA ArchiveForwardInv ==
    ASSUME IInv, NEW o \in Ops, ArchiveForward(o)
    PROVE  IInv'
<1>1. /\ At(o, "forward") /\ TypeOK
      /\ UNCHANGED <<live, stage, state, helper, serving, staged, writes, history>>
  BY DEF IInv, ArchiveForward, bounds
<1>2. Doing(o, "forward") /\ ~serving /\ Sound(o) /\ state[o] \in States /\ files[o] \in Kits
  BY <1>1, AtFacts DEF Pcs
<1>3. PICK m \in Members : files' = [files EXCEPT ![o].forward[m] = live[m]]
  BY DEF ArchiveForward
<1> DEFINE k == [files[o] EXCEPT !.forward[m] = live[m]]
<1>4. /\ k \in Kits /\ k.raw = files[o].raw /\ k.aside = files[o].aside /\ k.old = files[o].old
      /\ k.hasForward = files[o].hasForward
  BY <1>1, <1>2 DEF Kits, Families, TypeOK
<1>5. files' = [files EXCEPT ![o] = k]
  BY <1>3
<1> HIDE DEF k
<1>6. files'[o] = k
  BY <1>1, <1>4, <1>5, Filed
<1>7. Doing(o, "forward")' /\ helper' = [pc |-> "forward", op |-> o]
  BY <1>1, <1>2, <1>4, <1>6 DEF Doing, history, At, TypeOK
<1>8. Busy' /\ helper' \in [pc : Pcs, op : Ops \union {NoFile}]
  BY <1>1, <1>2, <1>7, GoesTo DEF Pcs
<1>9. /\ state[o].phase \in {"prepared", "activated"} /\ Prepared(o) /\ ~Returning(o)
      /\ Prepared(o)' /\ ~Returning(o)'
      /\ OldKept(o)' = OldKept(o) /\ InstalledBy(o)' = InstalledBy(o)
  BY <1>1, <1>2, <1>4, <1>6 DEF Doing, Prepared, Returning, OldKept, InstalledBy, history
<1>10. Sound(o)'
  BY <1>1, <1>2, <1>4, <1>6, <1>9 DEF Sound, history
<1>11. Untouched'
  BY <1>1 DEF IInv, Untouched, history
<1>12. QED
  BY <1>1, <1>2, <1>4, <1>5, <1>8, <1>9, <1>10, <1>11, Same, OffLive DEF history, TypeOK, Prepared

LEMMA SaveRollingBackInv ==
    ASSUME IInv, NEW o \in Ops, SaveRollingBack(o)
    PROVE  IInv'
<1> DEFINE r == RollingBack(state[o], files[o].forward)
<1>1. /\ At(o, "forward") /\ ForwardComplete(o) /\ Goto("copy") /\ TypeOK /\ Save(o, r)
      /\ UNCHANGED <<live, stage, files, serving, staged, writes,
                     origin, entry, replaced, last, touched, probed>>
      /\ disturbed' = disturbed \union {p \in Ops \ {o} : state[p].phase = "rolling_back"}
  BY DEF IInv, SaveRollingBack, Overtake, bounds
<1>2. Doing(o, "forward") /\ ~serving /\ Sound(o) /\ state[o] \in States /\ files[o] \in Kits
  BY <1>1, AtFacts DEF Pcs
<1>3. /\ state[o].phase \in {"prepared", "activated"} /\ Prepared(o) /\ ~Returning(o)
      /\ state[o].available /\ files[o].hasForward /\ entry[o] = Logical(live)
      /\ OldKept(o) /\ files[o].aside = NoMember /\ state[o].candidate \in Candidates
  BY <1>2 DEF Doing, Sound, Prepared, Returning
<1>4. /\ r \in States /\ r.phase = "rolling_back" /\ r.probe = "pending" /\ r.available
      /\ r.forward = files[o].forward /\ r.candidate = state[o].candidate
  BY <1>2, <1>3 DEF States, Phases, RollingBack, Kits
<1>5. state'[o] = r /\ \A p \in Ops \ {o} : state'[p] = state[p]
  BY <1>1, <1>4, Saved
<1> HIDE DEF r
<1>6. OldKept(o)' /\ Overtaken(o)'
  BY <1>1, <1>3, <1>4, <1>5 DEF OldKept, Overtaken
<1>7. Resumable(o)'
  BY <1>1, <1>3, <1>4, <1>5 DEF Resumable, ForwardComplete, NoMember, Members, Sidecars
<1>8. Doing(o, "copy")'
  BY <1>4, <1>5, <1>6 DEF Doing
<1>9. Busy' /\ helper' \in [pc : Pcs, op : Ops \union {NoFile}]
  BY <1>1, <1>2, <1>8, GoesTo DEF Pcs, At
<1>10. Sound(o)'
  BY <1>1, <1>3, <1>4, <1>5, <1>6, <1>7 DEF Sound, Returning, ForwardComplete
<1>11. QED
  BY <1>1, <1>2, <1>3, <1>4, <1>9, <1>10, Same, OffLive DEF TypeOK

LEMMA ResumeRollbackInv ==
    ASSUME IInv, NEW o \in Ops, ResumeRollback(o)
    PROVE  IInv'
<1>1. /\ ~serving /\ helper' = [pc |-> "copy", op |-> o] /\ TypeOK
      /\ state[o].phase = "rolling_back"
      /\ UNCHANGED <<live, stage, state, files, serving, staged, writes,
                     origin, entry, replaced, last, touched, probed>>
      /\ disturbed' = disturbed \union {p \in Ops \ {o} : state[p].phase = "rolling_back"}
  BY DEF IInv, ResumeRollback, ResumeAt, Begin, Offline, Overtake, bounds
<1>2. state[o] \in States /\ files[o] \in Kits /\ Sound(o)
  BY <1>1, Same DEF IInv
<1>3. Doing(o, "copy")'
  BY <1>1 DEF Doing, Overtaken
<1>4. Busy' /\ helper' \in [pc : Pcs, op : Ops \union {NoFile}]
  BY <1>1, <1>3, GoesTo DEF Pcs
<1>5. Sound(o)'
  BY <1>1, <1>2, SoundFrame
<1>6. QED
  BY <1>1, <1>2, <1>4, <1>5, Same, OffLive DEF TypeOK, Prepared

LEMMA CopyOldInv ==
    ASSUME IInv, NEW o \in Ops, CopyOld(o)
    PROVE  IInv'
<1> DEFINE k == [files[o] EXCEPT !.rollback = files[o].old]
<1>1. /\ At(o, "copy") /\ Goto("aside") /\ TypeOK /\ files' = [files EXCEPT ![o] = k]
      /\ UNCHANGED <<live, stage, state, serving, staged, writes, history>>
  BY DEF IInv, CopyOld, bounds
<1>2. Doing(o, "copy") /\ ~serving /\ Sound(o) /\ state[o] \in States /\ files[o] \in Kits
  BY <1>1, AtFacts DEF Pcs
<1>3. /\ k \in Kits /\ k.raw = files[o].raw /\ k.forward = files[o].forward /\ k.old = files[o].old
      /\ k.aside = files[o].aside /\ k.hasForward = files[o].hasForward /\ k.rollback = files[o].old
  BY <1>2 DEF Kits, Copies
<1> HIDE DEF k
<1>4. files'[o] = k
  BY <1>1, <1>3, Filed
<1>5. Doing(o, "aside")'
  BY <1>1, <1>2, <1>3, <1>4 DEF Doing, Overtaken, history
<1>6. Busy' /\ helper' \in [pc : Pcs, op : Ops \union {NoFile}]
  BY <1>1, <1>2, <1>5, GoesTo DEF Pcs, At
<1>7. Sound(o)'
  BY <1>1, <1>2, <1>3, <1>4, SoundFrame DEF history
<1>8. QED
  BY <1>1, <1>2, <1>3, <1>6, <1>7, Same, OffLive DEF history, TypeOK, Prepared, Returning

LEMMA DisplaceForwardInv ==
    ASSUME IInv, NEW o \in Ops, DisplaceForward(o)
    PROVE  IInv'
<1>1. PICK s \in Sidecars : /\ live[s] # NoFile /\ files[o].aside[s] = NoFile
                            /\ files' = [files EXCEPT ![o] = SetAside(@, s)]
                            /\ live' = [live EXCEPT ![s] = NoFile]
  BY DEF DisplaceForward
<1> DEFINE k == [files[o] EXCEPT !.aside[s] = live[s]]
<1>2. /\ At(o, "aside") /\ TypeOK /\ LogMatchesMain /\ files' = [files EXCEPT ![o] = k]
      /\ UNCHANGED <<stage, state, helper, serving, staged, writes, history>>
  BY <1>1 DEF IInv, DisplaceForward, SetAside, bounds
<1>3. Doing(o, "aside") /\ ~serving /\ Sound(o) /\ state[o] \in States /\ files[o] \in Kits
  BY <1>2, AtFacts DEF Pcs
<1>4. state[o].phase = "rolling_back" /\ Overtaken(o) /\ files[o].rollback = files[o].old
  BY <1>3 DEF Doing
<1>5. /\ live' \in Families /\ live'["main"] = live["main"]
      /\ live'["wal"] \in {live["wal"], NoFile} /\ live'[s] = NoFile
      /\ \A q \in Sidecars \ {s} : live'[q] = live[q]
      /\ LogMatchesMain'
  BY <1>1, <1>2, WithoutSidecar
<1>6. /\ k \in Kits /\ k.raw = files[o].raw /\ k.forward = files[o].forward /\ k.old = files[o].old
      /\ k.rollback = files[o].rollback /\ k.hasForward = files[o].hasForward
      /\ k.aside[s] = live[s] /\ \A q \in Sidecars \ {s} : k.aside[q] = files[o].aside[q]
  BY <1>2, <1>3 DEF Kits, Families, TypeOK, Members, Sidecars
<1> HIDE DEF k
<1>7. files'[o] = k
  BY <1>2, <1>6, Filed
<1>8. o \notin disturbed => Resumable(o)'
  BY <1>1, <1>2, <1>3, <1>4, <1>5, <1>6, <1>7 DEF Sound, Resumable
<1>9. OldKept(o)' = OldKept(o) /\ Returning(o) /\ Returning(o)' /\ Prepared(o) /\ Prepared(o)'
  BY <1>2, <1>4, <1>6, <1>7 DEF OldKept, Returning, Prepared, history
<1>10. Sound(o)'
  BY <1>2, <1>3, <1>4, <1>6, <1>7, <1>8, <1>9 DEF Sound, history
<1>11. Doing(o, "aside")' /\ helper' = [pc |-> "aside", op |-> o]
  BY <1>2, <1>4, <1>6, <1>7 DEF Doing, Overtaken, history, At, TypeOK
<1>12. Busy' /\ helper' \in [pc : Pcs, op : Ops \union {NoFile}]
  BY <1>2, <1>3, <1>11, GoesTo DEF Pcs
<1>13. Untouched'
  BY <1>2, <1>5, UntouchedKept DEF history
<1>14. live'["main"] \in Int /\ live'["wal"] \in Logs \union {NoFile}
  BY <1>2, <1>5 DEF TypeOK
<1>15. \A p \in Ops \ {o} : state[p].phase = "rolling_back" => p \in disturbed'
  BY <1>2, <1>4 DEF Overtaken, history
<1>16. QED
  BY <1>2, <1>3, <1>5, <1>6, <1>10, <1>12, <1>13, <1>14, <1>15, OnLive DEF history, TypeOK

LEMMA SwapBackInv ==
    ASSUME IInv, NEW o \in Ops, SwapBack(o)
    PROVE  IInv'
<1> DEFINE k == [files[o] EXCEPT !.rollback = NoFile]
<1>1. /\ At(o, "aside") /\ SidecarsGone /\ Goto("rolled_back") /\ TypeOK
      /\ live' = [live EXCEPT !["main"] = files[o].rollback]
      /\ files' = [files EXCEPT ![o] = k]
      /\ replaced' = replaced \union {entry[o]} /\ last' = o /\ touched' = FALSE
      /\ UNCHANGED <<stage, state, serving, staged, writes, origin, entry, probed, disturbed>>
  BY DEF IInv, SwapBack, Installed, bounds
<1>2. Doing(o, "aside") /\ ~serving /\ Sound(o) /\ state[o] \in States /\ files[o] \in Kits
  BY <1>1, AtFacts DEF Pcs
<1>3. /\ state[o].phase = "rolling_back" /\ Overtaken(o) /\ files[o].rollback = files[o].old
      /\ Prepared(o) /\ Returning(o) /\ OldKept(o) /\ state[o].available
      /\ Logical(files[o].forward) = entry[o]
  BY <1>2 DEF Doing, Sound, Prepared, Returning
<1>4. files[o].rollback \in Int
  BY <1>3 DEF OldKept
<1>5. /\ live' \in Families /\ live'["main"] = files[o].rollback /\ LogMatchesMain'
      /\ \A s \in Sidecars : live'[s] = NoFile
  BY <1>1, <1>4, Renamed
<1>6. live'["wal"] = NoFile
  BY <1>5 DEF Sidecars
<1>7. /\ k \in Kits /\ k.raw = files[o].raw /\ k.forward = files[o].forward /\ k.old = files[o].old
      /\ k.aside = files[o].aside /\ k.hasForward = files[o].hasForward
  BY <1>2 DEF Kits, Copies
<1> HIDE DEF k
<1>8. files'[o] = k
  BY <1>1, <1>7, Filed
<1>9. o \notin disturbed => Resumable(o)'
  <2>1. \A s \in Sidecars : live[s] = NoFile
    BY <1>1 DEF SidecarsGone, Sidecars
  <2>2. QED
    BY <1>1, <1>2, <1>3, <1>5, <1>7, <1>8, <2>1 DEF Sound, Resumable
<1>10. OldKept(o)' = OldKept(o) /\ Returning(o)' /\ Prepared(o)'
  BY <1>1, <1>3, <1>7, <1>8 DEF OldKept, Returning, Prepared
<1>11. Sound(o)'
  BY <1>1, <1>2, <1>3, <1>7, <1>8, <1>9, <1>10 DEF Sound
<1>12. Doing(o, "rolled_back")'
  BY <1>1, <1>3, <1>5, <1>7, <1>8 DEF Doing
<1>13. Busy' /\ helper' \in [pc : Pcs, op : Ops \union {NoFile}]
  BY <1>1, <1>2, <1>12, GoesTo DEF Pcs, At
<1>14. Untouched'
  BY <1>1, <1>3, <1>6 DEF Untouched
<1>15. \A p \in Ops \ {o} : state[p].phase = "rolling_back" => p \in disturbed'
  BY <1>1, <1>3 DEF Overtaken
<1>16. QED
  BY <1>1, <1>2, <1>3, <1>4, <1>5, <1>6, <1>7, <1>11, <1>13, <1>14, <1>15, OnLive

LEMMA SaveRolledBackInv ==
    ASSUME IInv, NEW o \in Ops, SaveRolledBack(o)
    PROVE  IInv'
<1> DEFINE r == [state[o] EXCEPT !.phase = "rolled_back"]
<1>1. /\ At(o, "rolled_back") /\ Goto("cleanup") /\ TypeOK /\ Save(o, r)
      /\ UNCHANGED <<live, stage, files, serving, staged, writes, history>>
  BY DEF IInv, SaveRolledBack, bounds
<1>2. Doing(o, "rolled_back") /\ ~serving /\ Sound(o) /\ state[o] \in States /\ files[o] \in Kits
  BY <1>1, AtFacts DEF Pcs
<1>3. /\ state[o].phase = "rolling_back" /\ live["main"] = files[o].old /\ last = o /\ ~touched
      /\ state[o].candidate \in Candidates /\ OldKept(o) /\ state[o].available
      /\ files[o].hasForward /\ Logical(files[o].forward) = entry[o] /\ state[o].probe # "ok"
  BY <1>2 DEF Doing, Sound, Prepared, Returning
<1>4. /\ r \in States /\ r.phase = "rolled_back" /\ r.probe = state[o].probe
      /\ r.candidate = state[o].candidate /\ r.available = state[o].available
  BY <1>2 DEF States, Phases
<1>5. state'[o] = r
  BY <1>1, <1>4, Saved
<1> HIDE DEF r
<1>6. OldKept(o)' /\ files[o].old = origin[o]
  BY <1>1, <1>3, <1>4, <1>5 DEF OldKept, history
<1>7. Doing(o, "cleanup")'
  BY <1>1, <1>3, <1>4, <1>5 DEF Doing
<1>8. Busy' /\ helper' \in [pc : Pcs, op : Ops \union {NoFile}]
  BY <1>1, <1>2, <1>7, GoesTo DEF Pcs, At
<1>9. Sound(o)'
  BY <1>1, <1>3, <1>4, <1>5, <1>6 DEF Sound, Prepared, Returning, history
<1>10. Untouched'
  BY <1>1, <1>3, <1>4, <1>5, <1>6 DEF IInv, Untouched, history
<1>11. QED
  BY <1>1, <1>2, <1>4, <1>8, <1>9, <1>10, Same, OffLive DEF history, TypeOK

LEMMA CleanupInv ==
    ASSUME IInv, NEW o \in Ops, Cleanup(o)
    PROVE  IInv'
<1> DEFINE k == WithoutIncoming(files[o], o)
<1>1. /\ At(o, "cleanup") /\ Goto("probe") /\ TypeOK /\ files' = [files EXCEPT ![o] = k]
      /\ UNCHANGED <<live, stage, state, serving, staged, writes, history>>
  BY DEF IInv, Cleanup, bounds
<1>2. Doing(o, "cleanup") /\ ~serving /\ Sound(o) /\ state[o] \in States /\ files[o] \in Kits
  BY <1>1, AtFacts DEF Pcs
<1>3. /\ k \in Kits /\ k.raw = files[o].raw /\ k.forward = files[o].forward /\ k.old = files[o].old
      /\ k.aside = files[o].aside /\ k.hasForward = files[o].hasForward
  BY <1>2, IncomingRemoved
<1> HIDE DEF k
<1>4. files'[o] = k
  BY <1>1, <1>3, Filed
<1>5. Doing(o, "probe")'
  BY <1>1, <1>2, <1>3, <1>4 DEF Doing, InstalledBy
<1>6. Busy' /\ helper' \in [pc : Pcs, op : Ops \union {NoFile}]
  BY <1>1, <1>2, <1>5, GoesTo DEF Pcs, At
<1>7. Sound(o)'
  BY <1>1, <1>2, <1>3, <1>4, SoundFrame DEF history
<1>8. QED
  BY <1>1, <1>2, <1>3, <1>6, <1>7, Same, OffLive DEF history, TypeOK, Prepared, Returning

-----------------------------------------------------------------------------
(* probe and retire-stage                                                  *)

\* A step that writes something else than the phase to state.json, or nothing.
LEMMA Noted ==
    ASSUME IInv, NEW o \in Ops, NEW r \in States, Save(o, r),
           r.phase = state[o].phase, r.candidate = state[o].candidate,
           r.available = state[o].available, r.forward = state[o].forward,
           r.probe = state[o].probe \/ r.probe # "ok",
           ~serving, Busy', helper' \in [pc : Pcs, op : Ops \union {NoFile}],
           stage' \in Candidates \union {NoFile}, UNCHANGED <<live, serving, staged, writes, history>>,
           UNCHANGED files \/ files' = [files EXCEPT ![o] = WithoutIncoming(files[o], o)]
    PROVE  IInv'
<1>1. TypeOK /\ Sound(o) /\ files[o] \in Kits
  BY Same DEF IInv
<1>2. PICK k \in Kits : /\ files' = [files EXCEPT ![o] = k]
                        /\ k.raw = files[o].raw /\ k.forward = files[o].forward
                        /\ k.old = files[o].old /\ k.aside = files[o].aside
                        /\ k.hasForward = files[o].hasForward
  <2>1. CASE UNCHANGED files
    BY <1>1, <2>1, Same
  <2>2. CASE files' = [files EXCEPT ![o] = WithoutIncoming(files[o], o)]
    BY <1>1, <2>2, IncomingRemoved
  <2>3. QED
    BY <2>1, <2>2
<1>3. files'[o] = k /\ state'[o] = r
  BY <1>1, <1>2, Filed, Saved
<1>4. /\ Prepared(o)' = Prepared(o) /\ Returning(o)' = Returning(o)
      /\ OldKept(o)' = OldKept(o) /\ InstalledBy(o)' = InstalledBy(o)
  BY <1>2, <1>3 DEF Prepared, Returning, OldKept, InstalledBy, history
<1>5. Resumable(o)' = Resumable(o)
  BY <1>2, <1>3 DEF Resumable
<1>6. Sound(o)'
  BY <1>1, <1>2, <1>3, <1>4, <1>5 DEF Sound, history
<1>7. QED
  BY <1>1, <1>2, <1>6, OffLive DEF history, TypeOK, Prepared, Returning

LEMMA BeginProbeInv ==
    ASSUME IInv, NEW o \in Ops, BeginProbe(o)
    PROVE  IInv'
<1>1. /\ helper = Idle /\ ~serving /\ state[o].phase \in {"activated", "rolled_back"} /\ TypeOK
      /\ UNCHANGED <<live, stage, files, serving, staged, writes, history>>
  BY DEF IInv, BeginProbe, Offline, bounds
<1>2. state[o] \in States /\ files[o] \in Kits
  BY <1>1, Same
<1>3. CASE Unchanged(o)
  <2>1. helper' = [pc |-> "probe", op |-> o] /\ UNCHANGED state
    BY <1>3 DEF BeginProbe
  <2>2. Doing(o, "probe")'
    BY <1>1, <1>3, <2>1 DEF Doing, Unchanged, InstalledBy
  <2>3. Busy' /\ helper' \in [pc : Pcs, op : Ops \union {NoFile}]
    BY <1>1, <2>1, <2>2, GoesTo DEF Pcs
  <2>4. QED
    BY <1>1, <1>2, <2>1, <2>3, Same, Noted DEF TypeOK
<1>4. CASE ~Unchanged(o)
  <2> DEFINE r == [state[o] EXCEPT !.probe = "stale"]
  <2>1. Save(o, r) /\ helper' = Idle
    BY <1>1, <1>4 DEF BeginProbe
  <2>2. /\ r \in States /\ r.phase = state[o].phase /\ r.candidate = state[o].candidate
        /\ r.available = state[o].available /\ r.forward = state[o].forward /\ r.probe # "ok"
    BY <1>2 DEF States
  <2> HIDE DEF r
  <2>3. QED
    BY <1>1, <2>1, <2>2, Ends, Noted DEF TypeOK
<1>5. QED
  BY <1>3, <1>4

LEMMA ProbeRefusedInv ==
    ASSUME IInv, NEW o \in Ops, ProbeRefused(o)
    PROVE  IInv'
<1> DEFINE r == [state[o] EXCEPT !.probe = "failed"]
<1>1. /\ At(o, "probe") /\ helper' = Idle /\ TypeOK /\ Save(o, r)
      /\ UNCHANGED <<live, stage, files, serving, staged, writes, history>>
  BY DEF IInv, ProbeRefused, End, bounds
<1>2. ~serving /\ state[o] \in States
  BY <1>1, AtFacts DEF Pcs
<1>3. /\ r \in States /\ r.phase = state[o].phase /\ r.candidate = state[o].candidate
      /\ r.available = state[o].available /\ r.forward = state[o].forward /\ r.probe # "ok"
  BY <1>2 DEF States
<1> HIDE DEF r
<1>4. QED
  BY <1>1, <1>2, <1>3, Ends, Noted DEF TypeOK

LEMMA ProbeOpensInv ==
    ASSUME IInv, NEW o \in Ops, ProbeOpens(o)
    PROVE  IInv'
<1>1. /\ At(o, "probe") /\ Goto("probing") /\ TypeOK
      /\ live' = [live EXCEPT !["wal"] = EmptyLog(live), !["shm"] = "index"]
      /\ UNCHANGED <<stage, state, files, serving, staged, writes,
                     origin, entry, replaced, last, touched, probed>>
      /\ disturbed' = disturbed \union {p \in Ops \ {o} : state[p].phase = "rolling_back"}
  BY DEF IInv, ProbeOpens, Overtake, bounds
<1>2. Doing(o, "probe") /\ ~serving /\ Sound(o) /\ state[o] \in States /\ files[o] \in Kits
  BY <1>1, AtFacts DEF Pcs
<1>3. state[o].phase \in {"activated", "rolled_back"} /\ live["main"] = InstalledBy(o)
  BY <1>2 DEF Doing
<1>4. EmptyLog(live) \in Logs /\ EmptyLog(live).of = live["main"]
  BY <1>1 DEF EmptyLog, Logs, TypeOK
<1>5. live' \in Families /\ live'["main"] = live["main"] /\ live'["wal"] = EmptyLog(live)
  BY <1>1, <1>4 DEF TypeOK, Families, Members, Sidecars
<1>6. LogMatchesMain'
  BY <1>4, <1>5 DEF LogMatchesMain
<1>7. InstalledBy(o)' = InstalledBy(o) /\ Overtaken(o)'
  BY <1>1 DEF InstalledBy, Overtaken
<1>8. Doing(o, "probing")'
  BY <1>1, <1>3, <1>5, <1>7 DEF Doing
<1>9. Busy' /\ helper' \in [pc : Pcs, op : Ops \union {NoFile}]
  BY <1>1, <1>2, <1>8, GoesTo DEF Pcs, At
<1>10. Sound(o)'
  BY <1>1, <1>2, <1>3, SoundFrame
<1>11. Untouched'
  BY <1>1, <1>5, UntouchedKept
<1>12. live'["main"] \in Int /\ live'["wal"] \in Logs \union {NoFile}
  BY <1>1, <1>4, <1>5 DEF TypeOK
<1>13. QED
  BY <1>1, <1>2, <1>5, <1>6, <1>9, <1>10, <1>11, <1>12, Same, OnLive DEF TypeOK

LEMMA ProbeClosesInv ==
    ASSUME IInv, NEW o \in Ops, ProbeCloses(o)
    PROVE  IInv'
<1>1. /\ At(o, "probing") /\ Goto("save") /\ TypeOK
      /\ live' = [live EXCEPT !["wal"] = NoFile, !["shm"] = NoFile]
      /\ UNCHANGED <<stage, state, files, serving, staged, writes, history>>
  BY DEF IInv, ProbeCloses, bounds
<1>2. Doing(o, "probing") /\ ~serving /\ Sound(o) /\ state[o] \in States /\ files[o] \in Kits
  BY <1>1, AtFacts DEF Pcs
<1>3. /\ state[o].phase \in {"activated", "rolled_back"} /\ live["main"] = InstalledBy(o)
      /\ Overtaken(o)
  BY <1>2 DEF Doing
<1>4. live' \in Families /\ live'["main"] = live["main"] /\ live'["wal"] = NoFile
  BY <1>1 DEF TypeOK, Families, Members, Sidecars
<1>5. LogMatchesMain'
  BY <1>4 DEF LogMatchesMain
<1>6. InstalledBy(o)' = InstalledBy(o)
  BY <1>1 DEF InstalledBy
<1>7. Doing(o, "save")'
  BY <1>1, <1>3, <1>4, <1>6 DEF Doing
<1>8. Busy' /\ helper' \in [pc : Pcs, op : Ops \union {NoFile}]
  BY <1>1, <1>2, <1>7, GoesTo DEF Pcs, At
<1>9. Sound(o)'
  BY <1>1, <1>2, <1>3, SoundFrame DEF history
<1>10. Untouched'
  BY <1>1, <1>4, UntouchedKept DEF history
<1>11. live'["main"] \in Int /\ live'["wal"] \in Logs \union {NoFile}
  BY <1>1, <1>4 DEF TypeOK
<1>12. \A p \in Ops \ {o} : state[p].phase = "rolling_back" => p \in disturbed'
  BY <1>1, <1>3 DEF Overtaken, history
<1>13. QED
  BY <1>1, <1>2, <1>4, <1>5, <1>8, <1>9, <1>10, <1>11, <1>12, Same, OnLive DEF TypeOK, history

LEMMA SaveProbeInv ==
    ASSUME IInv, NEW o \in Ops, NEW result \in {"ok", "failed"}, SaveProbe(o, result)
    PROVE  IInv'
<1> DEFINE r == [state[o] EXCEPT !.probe = result]
<1>1. /\ At(o, "save") /\ helper' = Idle /\ TypeOK /\ Save(o, r)
      /\ probed' = [probed EXCEPT ![o] = IF result = "ok" THEN live["main"] ELSE @]
      /\ UNCHANGED <<live, stage, files, serving, staged, writes, origin, entry, replaced, last,
                     touched, disturbed>>
  BY DEF IInv, SaveProbe, End, bounds
<1>2. Doing(o, "save") /\ ~serving /\ Sound(o) /\ state[o] \in States /\ files[o] \in Kits
  BY <1>1, AtFacts DEF Pcs
<1>3. /\ r \in States /\ r.phase = state[o].phase /\ r.candidate = state[o].candidate
      /\ r.available = state[o].available /\ r.forward = state[o].forward /\ r.probe = result
  BY <1>2 DEF States
<1> HIDE DEF r
<1>4. state'[o] = r
  BY <1>1, <1>3, Saved
<1>5. /\ Prepared(o)' = Prepared(o) /\ Returning(o)' = Returning(o)
      /\ OldKept(o)' = OldKept(o) /\ InstalledBy(o)' = InstalledBy(o)
      /\ Resumable(o)' = Resumable(o)
  BY <1>1, <1>3, <1>4 DEF Prepared, Returning, OldKept, InstalledBy, Resumable
<1>6. /\ probed' \in [Ops -> Int \union {NoFile}] /\ \A p \in Ops \ {o} : probed'[p] = probed[p]
      /\ result = "ok" => probed'[o] = InstalledBy(o)
  BY <1>1, <1>2 DEF TypeOK, Doing
<1>7. Sound(o)'
  BY <1>1, <1>2, <1>3, <1>4, <1>5, <1>6 DEF Sound, Doing
<1>8. QED
  BY <1>1, <1>2, <1>3, <1>6, <1>7, Same, Ends, OffLive DEF TypeOK, Prepared, Returning

LEMMA BeginRetireInv ==
    ASSUME IInv, NEW o \in Ops, BeginRetire(o)
    PROVE  IInv'
<1> DEFINE r == [state[o] EXCEPT !.retirement = "in_progress"]
<1>1. /\ ~serving /\ helper' = [pc |-> "unlink", op |-> o] /\ TypeOK /\ Save(o, r)
      /\ state[o].phase \in {"activated", "rolled_back", "abandoned"}
      /\ UNCHANGED <<live, stage, files, serving, staged, writes, history>>
  BY DEF IInv, BeginRetire, Begin, Offline, bounds
<1>2. state[o] \in States
  BY <1>1, Same
<1>3. /\ r \in States /\ r.phase = state[o].phase /\ r.candidate = state[o].candidate
      /\ r.available = state[o].available /\ r.forward = state[o].forward
      /\ r.probe = state[o].probe
  BY <1>2 DEF States
<1> HIDE DEF r
<1>4. state'[o] = r
  BY <1>1, <1>3, Saved
<1>5. Doing(o, "unlink")'
  BY <1>1, <1>3, <1>4 DEF Doing
<1>6. Busy' /\ helper' \in [pc : Pcs, op : Ops \union {NoFile}]
  BY <1>1, <1>5, GoesTo DEF Pcs
<1>7. QED
  BY <1>1, <1>3, <1>6, Noted DEF TypeOK

LEMMA UnlinkStageInv ==
    ASSUME IInv, NEW o \in Ops, UnlinkStage(o)
    PROVE  IInv'
<1>1. /\ At(o, "unlink") /\ Goto("retired") /\ TypeOK /\ stage' \in {stage, NoFile}
      /\ UNCHANGED <<live, state, files, serving, staged, writes, history>>
  BY DEF IInv, UnlinkStage, bounds
<1>2. Doing(o, "unlink") /\ ~serving /\ state[o] \in States
  BY <1>1, AtFacts DEF Pcs
<1>3. Doing(o, "retired")'
  BY <1>1, <1>2 DEF Doing
<1>4. Busy' /\ helper' \in [pc : Pcs, op : Ops \union {NoFile}]
  BY <1>1, <1>2, <1>3, GoesTo DEF Pcs, At
<1>5. QED
  BY <1>1, <1>2, <1>4, Same, Noted DEF TypeOK

LEMMA SaveRetiredInv ==
    ASSUME IInv, NEW o \in Ops, SaveRetired(o)
    PROVE  IInv'
<1> DEFINE r == [state[o] EXCEPT !.retirement = "done"]
<1>1. /\ At(o, "retired") /\ helper' = Idle /\ TypeOK /\ Save(o, r)
      /\ files' = [files EXCEPT ![o] = WithoutIncoming(files[o], o)]
      /\ UNCHANGED <<live, stage, serving, staged, writes, history>>
  BY DEF IInv, SaveRetired, End, bounds
<1>2. ~serving /\ state[o] \in States
  BY <1>1, AtFacts DEF Pcs
<1>3. /\ r \in States /\ r.phase = state[o].phase /\ r.candidate = state[o].candidate
      /\ r.available = state[o].available /\ r.forward = state[o].forward
      /\ r.probe = state[o].probe
  BY <1>2 DEF States
<1> HIDE DEF r
<1>4. QED
  BY <1>1, <1>2, <1>3, Ends, Noted DEF TypeOK

-----------------------------------------------------------------------------
(* Kills, candidates and the service.                                      *)

LEMMA KillInv ==
    ASSUME IInv, Kill
    PROVE  IInv'
<1>1. /\ helper # Idle /\ helper' = Idle /\ TypeOK
      /\ UNCHANGED <<live, stage, state, serving, staged, writes, history>>
  BY DEF IInv, Kill
<1>2. PICK o \in Ops : helper.op = o
  BY <1>1 DEF IInv, Busy
<1>3. ~serving /\ state[o] \in States /\ files[o] \in Kits /\ Sound(o)
  BY <1>1, Same DEF IInv, Busy
<1>4. \E k \in Kits : /\ files' = [files EXCEPT ![o] = k]
                      /\ k.raw = files[o].raw /\ k.forward = files[o].forward
                      /\ k.old = files[o].old /\ k.aside = files[o].aside
                      /\ k.hasForward = files[o].hasForward
  <2>1. CASE UNCHANGED files
    BY <1>1, <1>3, <2>1, Same
  <2>2. CASE files' = [files EXCEPT ![o].incoming = Torn]
    <3> DEFINE k == [files[o] EXCEPT !.incoming = Torn]
    <3>1. k \in Kits /\ files' = [files EXCEPT ![o] = k]
      BY <1>3, <2>2 DEF Kits, Copies
    <3>2. QED
      BY <1>3, <3>1 DEF Kits
  <2>3. CASE files' = [files EXCEPT ![o].rollback = Torn]
    <3> DEFINE k == [files[o] EXCEPT !.rollback = Torn]
    <3>1. k \in Kits /\ files' = [files EXCEPT ![o] = k]
      BY <1>3, <2>3 DEF Kits, Copies
    <3>2. QED
      BY <1>3, <3>1 DEF Kits
  <2>4. QED
    BY <1>2, <2>1, <2>2, <2>3 DEF Kill, At
<1>5. PICK k \in Kits : /\ files' = [files EXCEPT ![o] = k]
                        /\ k.raw = files[o].raw /\ k.forward = files[o].forward
                        /\ k.old = files[o].old /\ k.aside = files[o].aside
                        /\ k.hasForward = files[o].hasForward
  BY <1>4
<1>6. files'[o] = k
  BY <1>1, <1>5, Filed
<1>7. Sound(o)'
  BY <1>1, <1>3, <1>5, <1>6, SoundFrame DEF history
<1>8. QED
  BY <1>1, <1>3, <1>5, <1>7, Same, Ends, OffLive DEF history, TypeOK, Prepared, Returning

\* A step made while the helper is not running.
LEMMA Aside ==
    ASSUME IInv, TypeOK', LogMatchesMain', Quiet', Untouched', helper' = Idle,
           UNCHANGED <<state, files, origin, entry, replaced, probed, disturbed>>,
           UNCHANGED live \/ \A o \in Ops : state[o].phase # "rolling_back"
    PROVE  IInv'
<1>1. ASSUME NEW o \in Ops PROVE Sound(o)'
  <2>1. Sound(o)
    BY DEF IInv
  <2>2. QED
    BY <2>1, SoundFrame
<1>2. Archived'
  BY DEF IInv, Archived, Prepared, Returning
<1>3. QED
  BY <1>1, <1>2, Ends DEF IInv

LEMMA StageInv ==
    ASSUME IInv, NEW s \in Snapshots, Stage(s)
    PROVE  IInv'
<1>1. /\ helper' = Idle /\ stage' = [name |-> staged, db |-> s] /\ staged' = staged + 1
      /\ UNCHANGED <<live, state, files, serving, writes, helper, history>> /\ TypeOK
  BY DEF IInv, Stage
<1>2. stage' \in Candidates /\ staged' \in Nat
  BY <1>1 DEF Candidates, TypeOK
<1>3. TypeOK'
  BY <1>1, <1>2 DEF TypeOK, history
<1>4. LogMatchesMain' /\ Quiet' /\ Untouched'
  BY <1>1 DEF IInv, LogMatchesMain, Quiet, Untouched, history
<1>5. QED
  BY <1>1, <1>3, <1>4, Aside DEF history

\* The operator does not start the service on a half-done rollback.
LEMMA ServedQuietly ==
    ASSUME IInv, MayServe
    PROVE  \A o \in Ops : state[o].phase # "rolling_back"
<1> SUFFICES ASSUME NEW o \in Ops, state[o].phase = "rolling_back" PROVE FALSE
  OBVIOUS
<1>1. state[o].available
  BY DEF IInv, Sound, Returning
<1>2. QED
  BY <1>1 DEF MayServe

LEMMA ServiceStartsInv ==
    ASSUME IInv, ServiceStarts
    PROVE  IInv'
<1> DEFINE log == IF live["wal"] = NoFile THEN EmptyLog(live) ELSE live["wal"]
<1>1. /\ MayServe /\ serving' = TRUE /\ touched' = TRUE /\ TypeOK /\ LogMatchesMain
      /\ helper' = Idle
      /\ live' = [live EXCEPT !["wal"] = log, !["shm"] = "index"]
      /\ UNCHANGED <<stage, state, files, staged, writes, origin, entry, replaced, last, probed,
                     disturbed>>
  BY DEF IInv, ServiceStarts, MayServe, Offline, bounds
<1>2. log \in Logs /\ log.of = live["main"]
  BY <1>1 DEF TypeOK, EmptyLog, Logs, LogMatchesMain
<1> HIDE DEF log
<1>3. live' \in Families /\ live'["main"] = live["main"] /\ live'["wal"] = log
  BY <1>1, <1>2 DEF TypeOK, Families, Members, Sidecars
<1>4. LogMatchesMain'
  BY <1>2, <1>3 DEF LogMatchesMain
<1>5. \A o \in Ops : state[o].phase # "rolling_back"
  BY <1>1, ServedQuietly
<1>6. Quiet' /\ Untouched'
  BY <1>1, <1>5 DEF Quiet, Untouched
<1>7. helper' \in [pc : Pcs, op : Ops \union {NoFile}]
  BY <1>1, Ends
<1>8. TypeOK'
  BY <1>1, <1>2, <1>3, <1>7 DEF TypeOK
<1>9. QED
  BY <1>1, <1>4, <1>5, <1>6, <1>8, Aside

LEMMA ServiceWritesInv ==
    ASSUME IInv, ServiceWrites
    PROVE  IInv'
<1> DEFINE log == [of |-> live["main"], holds |-> 0 - writes - 1]
<1>1. /\ serving /\ touched /\ TypeOK /\ writes' = writes + 1
      /\ live' = [live EXCEPT !["wal"] = log]
      /\ \A o \in Ops : state[o].phase # "rolling_back"
      /\ UNCHANGED <<stage, state, files, helper, serving, staged, history>>
  BY DEF IInv, Quiet, ServiceWrites
<1>2. helper = Idle
  BY <1>1 DEF IInv, Busy
<1>3. log \in Logs /\ log.of = live["main"]
  BY <1>1 DEF TypeOK, Logs
<1> HIDE DEF log
<1>4. live' \in Families /\ live'["main"] = live["main"] /\ live'["wal"] = log
  BY <1>1, <1>3 DEF TypeOK, Families, Members, Sidecars
<1>5. LogMatchesMain'
  BY <1>3, <1>4 DEF LogMatchesMain
<1>6. Quiet' /\ Untouched'
  BY <1>1 DEF Quiet, Untouched, history
<1>7. writes' \in Nat
  BY <1>1 DEF TypeOK
<1>8. TypeOK'
  BY <1>1, <1>3, <1>4, <1>7 DEF TypeOK, history
<1>9. QED
  BY <1>1, <1>2, <1>5, <1>6, <1>8, Aside DEF history

LEMMA ServiceStopsInv ==
    ASSUME IInv, ServiceStops
    PROVE  IInv'
<1>1. /\ serving /\ touched /\ TypeOK /\ LogMatchesMain /\ serving' = FALSE
      /\ live' \in {live, [NoMember EXCEPT !["main"] = Logical(live)]}
      /\ \A o \in Ops : state[o].phase # "rolling_back"
      /\ UNCHANGED <<stage, state, files, helper, staged, writes, history>>
  BY DEF IInv, Quiet, ServiceStops, bounds
<1>2. helper = Idle
  BY <1>1 DEF IInv, Busy
<1>3. /\ live' \in Families /\ live'["main"] \in Int /\ live'["wal"] \in Logs \union {NoFile}
      /\ LogMatchesMain'
  <2>1. CASE live' = live
    BY <1>1, <2>1 DEF TypeOK, LogMatchesMain
  <2>2. CASE live' = [NoMember EXCEPT !["main"] = Logical(live)]
    <3>1. Logical(live) \in Int
      BY <1>1, LogicalTyped
    <3>2. live' \in Families /\ live'["main"] = Logical(live) /\ live'["wal"] = NoFile
      BY <2>2, <3>1 DEF NoMember, Families, Members, Sidecars
    <3>3. QED
      BY <3>1, <3>2 DEF LogMatchesMain
  <2>3. QED
    BY <1>1, <2>1, <2>2
<1>4. Quiet' /\ Untouched'
  BY <1>1 DEF Quiet, Untouched, history
<1>5. TypeOK'
  BY <1>1, <1>3 DEF TypeOK, history
<1>6. QED
  BY <1>1, <1>2, <1>3, <1>4, <1>5, Aside DEF history

-----------------------------------------------------------------------------
(* The theorems.                                                           *)

LEMMA InitInv == Init => IInv
<1> SUFFICES ASSUME Init PROVE IInv
  OBVIOUS
<1>1. NoState \in States /\ NoState.phase = "none" /\ NoState.probe = "none"
  BY NoMemberTyped DEF NoState, States, Phases
<1>2. NoFiles \in Kits /\ NoFiles.aside = NoMember
  BY NoMemberTyped DEF NoFiles, Kits, Copies
<1>3. live \in Families /\ live["main"] \in Int /\ live["wal"] = NoFile
  BY DEF Init, NoMember, Families, Members, Sidecars
<1>4. Busy /\ helper \in [pc : Pcs, op : Ops \union {NoFile}]
  BY DEF Init, Idle, Busy, At, Pcs
<1>5. TypeOK
  BY <1>1, <1>2, <1>3, <1>4 DEF Init, TypeOK
<1>6. \A o \in Ops : Sound(o)
  BY <1>1, <1>2 DEF Init, Sound, Prepared, Returning
<1>7. LogMatchesMain /\ Quiet /\ Untouched /\ Archived
  BY <1>3 DEF Init, LogMatchesMain, Quiet, Untouched, Archived
<1>8. QED
  BY <1>4, <1>5, <1>6, <1>7 DEF IInv

LEMMA NextInv == ASSUME IInv, Next PROVE IInv'
<1>1. ASSUME NEW o \in Ops, Activation(o) PROVE IInv'
  BY <1>1, BeginActivateInv, SaveArchivingInv, ArchiveInv, AssessInv, CopyIncomingInv,
     SavePreparedInv, DisplaceInv, SwapInv, SaveActivatedInv DEF Activation
<1>2. ASSUME NEW o \in Ops, Rollback(o) PROVE IInv'
  BY <1>2, AbandonInv, BeginRollbackInv, ArchiveForwardInv, SaveRollingBackInv,
     ResumeRollbackInv, CopyOldInv, DisplaceForwardInv, SwapBackInv, SaveRolledBackInv,
     CleanupInv DEF Rollback
<1>3. ASSUME NEW o \in Ops, Probing(o) PROVE IInv'
  BY <1>3, BeginProbeInv, ProbeRefusedInv, ProbeOpensInv, ProbeClosesInv, SaveProbeInv DEF Probing
<1>4. ASSUME NEW o \in Ops, Retirement(o) PROVE IInv'
  BY <1>4, BeginRetireInv, UnlinkStageInv, SaveRetiredInv DEF Retirement
<1>5. QED
  BY <1>1, <1>2, <1>3, <1>4, StageInv, KillInv, ServiceStartsInv, ServiceWritesInv,
     ServiceStopsInv DEF Next

LEMMA StutterInv == ASSUME IInv, UNCHANGED vars PROVE IInv'
<1>1. TypeOK' /\ LogMatchesMain' /\ Quiet' /\ Untouched' /\ Archived'
  BY DEF vars, IInv, TypeOK, LogMatchesMain, Quiet, Untouched, Archived, Prepared, Returning
<1>2. ASSUME NEW o \in Ops PROVE Sound(o)'
  <2>1. Sound(o)
    BY DEF IInv
  <2>2. QED
    BY <2>1, SoundFrame DEF vars
<1>3. Busy'
  BY DEF vars, IInv, Busy, At, Doing, OldKept, Overtaken, InstalledBy
<1>4. QED
  BY <1>1, <1>2, <1>3 DEF IInv

\* The invariant holds in every state of every behaviour of the helper, the kills and the
\* service: what state.json says of each operation, and what the helper relies on at each
\* step of activate, rollback, probe and retire-stage.
THEOREM Invariance == Spec => []IInv
<1>1. Init => IInv
  BY InitInv
<1>2. IInv /\ [Next]_vars => IInv'
  BY NextInv, StutterInv
<1>3. QED
  BY <1>1, <1>2, PTL DEF Spec

\* At no kill point of an activation or a rollback does a write-ahead log sit beside a
\* main file it was not written for: the sidecars leave before the main file is replaced.
THEOREM NoForeignLog == Spec => []LogMatchesMain
<1>1. IInv => LogMatchesMain
  BY DEF IInv
<1>2. QED
  BY <1>1, Invariance, PTL

\* What any swap displaced, the committed writes in a log included, stays in the raw-old or
\* the forward-state archive of the operation that made it: no later command writes to them.
THEOREM DisplacedIsKept == Spec => []NothingLost
<1>1. IInv => NothingLost
  BY DEF IInv, Archived, NothingLost
<1>2. QED
  BY <1>1, Invariance, PTL

\* state.json may be relied on by the next command: the phase tells which file is
\* installed, an undisturbed interrupted rollback can be resumed, the old state is in
\* raw-old (and in old-consistent where rollback is offered), and a probe of "ok" is about
\* the file installed now.
THEOREM RecordsAreHonest == Spec => []RecordHonest
<1>1. ASSUME IInv PROVE RecordHonest
  <2>1. PhaseIsTrue
    <3>1. SUFFICES ASSUME last # NoFile, ~touched
                   PROVE  /\ state[last].phase = "activated" => Logical(live) = state[last].candidate.db
                          /\ state[last].phase = "rolled_back" => Logical(live) = origin[last]
      BY DEF PhaseIsTrue
    <3>2. Logical(live) = live["main"]
      BY <1>1, <3>1 DEF IInv, Untouched, Logical
    <3>3. QED
      BY <1>1, <3>1, <3>2 DEF IInv, Untouched
  <2>2. RollbackResumable
    BY <1>1 DEF RollbackResumable, IInv, Sound
  <2>3. OldStateKept
    BY <1>1 DEF OldStateKept, IInv, Sound, Prepared, OldKept
  <2>4. ProbeIsOfInstalled
    BY <1>1 DEF ProbeIsOfInstalled, IInv, Sound
  <2>5. QED
    BY <2>1, <2>2, <2>3, <2>4 DEF RecordHonest
<1>2. QED
  BY <1>1, Invariance, PTL
=============================================================================
