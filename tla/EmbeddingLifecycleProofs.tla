----------------------- MODULE EmbeddingLifecycleProofs -----------------------
(***************************************************************************)
(* Safety of the embedding lifecycle for any memories, contents, threads,  *)
(* revisions and bounds.  The three properties rest on invariants of their *)
(* own, each inductive together with the types.                            *)
(***************************************************************************)
EXTENDS EmbeddingLifecycle, TLAPS

(***************************************************************************)
(* Types.                                                                  *)
(***************************************************************************)
\* A busy thread works on a real memory with a real text.
BusyWriters ==
    \A w \in Writers : writer[w].pc # "idle" => writer[w].mem \in Mem /\ writer[w].text \in Contents

Typed == TypeOK /\ BusyWriters

\* The resting states have their types.
LEMMA RestTypes ==
    ASSUME LifecycleAssumption
    PROVE  /\ IdleWriter \in WriterStates
           /\ IdleBackfill \in BackfillStates
           /\ IdleRefresher \in RefresherStates
           /\ FreeProbe \in [by : Writers \union {Nobody, Backfiller, Refresher}, seen : Snapshots]
           /\ NoRow \in Rows
           /\ Unknown \in Snapshots
<1>1. Unknown \in Snapshots
  BY DEF Snapshots
<1>2. IdleWriter \in WriterStates
  BY <1>1 DEF IdleWriter, WriterStates, Text
<1>3. IdleBackfill \in BackfillStates
  BY <1>1 DEF IdleBackfill, BackfillStates
<1>4. IdleRefresher \in RefresherStates
  BY <1>1 DEF IdleRefresher, RefresherStates
<1>5. NoRow \in Rows
  BY <1>1 DEF NoRow, Rows, Text
<1>6. FreeProbe \in [by : Writers \union {Nobody, Backfiller, Refresher}, seen : Snapshots]
  BY <1>1 DEF FreeProbe
<1> QED
  BY <1>1, <1>2, <1>3, <1>4, <1>5, <1>6

\* The initial state has its types.
LEMMA InitTyped ==
    ASSUME LifecycleAssumption, Init
    PROVE  Typed
<1>1. writer \in [Writers -> WriterStates] /\ row \in [Mem -> Rows]
  BY RestTypes DEF Init
<1>2. content \in [Mem -> Contents \union {Absent, Deleted}]
  BY DEF Init
<1>3. weights \in Revisions /\ revision \in Snapshots /\ reconciled \in Snapshots
  BY LifecycleAssumption, RestTypes DEF Init, Revisions
<1>4. cooldown \in BOOLEAN /\ queued \in BOOLEAN
  BY DEF Init
<1>5. probe \in [by : Writers \union {Nobody, Backfiller, Refresher}, seen : Snapshots]
  BY RestTypes DEF Init
<1>6. backfill \in BackfillStates /\ refresher \in RefresherStates
  BY RestTypes DEF Init
<1>7. BusyWriters
  BY DEF Init, BusyWriters, IdleWriter
<1> QED
  BY <1>1, <1>2, <1>3, <1>4, <1>5, <1>6, <1>7 DEF Init, Typed, TypeOK

\* delete_embedding leaves rows.
LEMMA DeleteTyped ==
    ASSUME LifecycleAssumption, TypeOK, NEW m, DeleteEmbedding(m)
    PROVE  row' \in [Mem -> Rows] /\ torn' \subseteq Mem
BY RestTypes DEF DeleteEmbedding, TypeOK

\* A probe's end leaves a known value in the adapter.
LEMMA ProbeTyped ==
    ASSUME LifecycleAssumption, TypeOK, NEW who, NEW snap, EndProbe(who, snap)
    PROVE  /\ probe' \in [by : Writers \union {Nobody, Backfiller, Refresher}, seen : Snapshots]
           /\ revision' \in Snapshots /\ snap \in Snapshots
           /\ cooldown' \in BOOLEAN
           /\ faults' \in Nat
<1>1. probe.seen \in Snapshots
  BY DEF TypeOK
<1>2. cooldown' \in BOOLEAN
  BY DEF EndProbe
<1> QED
  BY <1>1, <1>2, RestTypes DEF EndProbe, Fault, TypeOK

\* A thread that goes on, or is refused, keeps its type and its memory.
LEMMA ProceedsTyped ==
    ASSUME LifecycleAssumption, Typed, NEW w \in Writers, NEW snap \in Snapshots,
           writer[w].pc # "idle", WriterProceeds(w, snap)
    PROVE  writer' \in [Writers -> WriterStates] /\ BusyWriters' /\ owed' \subseteq Mem
<1> DEFINE go == [writer[w] EXCEPT !.pc = "embed", !.snap = snap]
<1>1. writer[w] \in WriterStates /\ writer[w].mem \in Mem /\ writer[w].text \in Contents
  BY DEF Typed, TypeOK, BusyWriters
<1>2. go \in WriterStates /\ go.mem = writer[w].mem /\ go.text = writer[w].text
  BY <1>1 DEF WriterStates
<1>3. writer' \in {[writer EXCEPT ![w] = IdleWriter], [writer EXCEPT ![w] = go]}
  BY DEF WriterProceeds
<1>4. owed' \subseteq Mem
  BY <1>1 DEF WriterProceeds, Typed, TypeOK
<1> HIDE DEF go
<1>5. writer' \in [Writers -> WriterStates]
  BY <1>2, <1>3, RestTypes DEF Typed, TypeOK
<1>6. /\ \A v \in Writers \ {w} : writer'[v] = writer[v]
      /\ writer'[w] \in {IdleWriter, go}
  BY <1>3 DEF Typed, TypeOK
<1>7. BusyWriters'
  BY <1>1, <1>2, <1>6 DEF Typed, BusyWriters, IdleWriter
<1> QED
  BY <1>4, <1>5, <1>7

\* The steps of request threads keep the types.
LEMMA WriterTyped ==
    ASSUME LifecycleAssumption, Typed, NEW w \in Writers,
           Request(w) \/ WriterStep(w) \/ WriterEmbedFails(w)
    PROVE  Typed'
<1>0. writer[w] \in WriterStates /\ writer \in [Writers -> WriterStates]
  BY DEF Typed, TypeOK
<1>1. ASSUME NEW t \in WriterStates, writer' = [writer EXCEPT ![w] = t],
             t.pc # "idle" => t.mem \in Mem /\ t.text \in Contents
      PROVE  writer' \in [Writers -> WriterStates] /\ BusyWriters'
  <2>1. /\ \A v \in Writers \ {w} : writer'[v] = writer[v]
        /\ writer'[w] = t
    BY <1>0, <1>1
  <2> QED
    BY <1>0, <1>1, <2>1 DEF Typed, BusyWriters
<1>2. IdleWriter \in WriterStates /\ IdleWriter.pc = "idle"
  BY RestTypes DEF IdleWriter
<1>3. ASSUME NEW m \in Mem, NEW c \in Contents, AddMemory(w, m, c) \/ UpdateMemory(w, m, c)
      PROVE  Typed'
  <2>1. content' \in [Mem -> Contents \union {Absent, Deleted}] /\ ops' \in Nat
    BY <1>3 DEF AddMemory, UpdateMemory, Operation, Typed, TypeOK
  <2>2. PICK t \in WriterStates :
           writer' = [writer EXCEPT ![w] = t] /\ t.mem \in Mem /\ t.text \in Contents
    <3>1. CASE AddMemory(w, m, c)
      <4> DEFINE t == [IdleWriter EXCEPT !.pc = "snapshot", !.mem = m, !.text = c]
      <4>1. t \in WriterStates /\ t.mem = m /\ t.text = c
        BY <1>2 DEF WriterStates, Text
      <4>2. writer' = [writer EXCEPT ![w] = t]
        BY <3>1 DEF AddMemory
      <4> HIDE DEF t
      <4> QED
        BY <4>1, <4>2
    <3>2. CASE UpdateMemory(w, m, c)
      <4> DEFINE t == [IdleWriter EXCEPT !.pc = "invalidate", !.mem = m, !.text = c,
                                         !.force = TRUE]
      <4>1. t \in WriterStates /\ t.mem = m /\ t.text = c
        BY <1>2 DEF WriterStates, Text
      <4>2. writer' = [writer EXCEPT ![w] = t]
        BY <3>2 DEF UpdateMemory
      <4> HIDE DEF t
      <4> QED
        BY <4>1, <4>2
    <3> QED
      BY <1>3, <3>1, <3>2
  <2>3. writer' \in [Writers -> WriterStates] /\ BusyWriters'
    BY <1>1, <2>2
  <2> QED
    BY <1>3, <2>1, <2>3
    DEF AddMemory, UpdateMemory, Typed, TypeOK, adapter, service, history
<1>4. ASSUME NEW m \in Mem, DeleteMemory(w, m)
      PROVE  Typed'
  <2>1. content' \in [Mem -> Contents \union {Absent, Deleted}] /\ ops' \in Nat
    BY <1>4 DEF DeleteMemory, Operation, Typed, TypeOK
  <2>2. row' \in [Mem -> Rows] /\ torn' \subseteq Mem
    BY <1>4, DeleteTyped DEF DeleteMemory, Typed
  <2> QED
    BY <1>4, <2>1, <2>2 DEF DeleteMemory, Typed, TypeOK, BusyWriters, adapter, service
<1>5. CASE Invalidate(w)
  <2>1. row' \in [Mem -> Rows] /\ torn' \subseteq Mem
    BY <1>5, DeleteTyped DEF Invalidate, Typed
  <2>2. [writer[w] EXCEPT !.pc = "snapshot"] \in WriterStates
    BY <1>0 DEF WriterStates
  <2>3. writer' \in [Writers -> WriterStates] /\ BusyWriters'
    BY <1>0, <1>1, <1>5, <2>2 DEF Invalidate, Typed, BusyWriters, WriterStates
  <2> QED
    BY <1>5, <2>1, <2>3 DEF Invalidate, Typed, TypeOK, adapter, service, bounds
<1>6. CASE ReadSnapshot(w) \/ RefreshWithoutProbe(w)
  <2>1. UNCHANGED <<database, weights, adapter, backfill, service, refresher, bounds, torn>>
    BY <1>6 DEF ReadSnapshot, RefreshWithoutProbe
  <2>2. writer' \in [Writers -> WriterStates] /\ BusyWriters' /\ owed' \subseteq Mem
    <3>1. CASE WriterProceeds(w, revision)
      BY <1>6, <3>1, ProceedsTyped DEF ReadSnapshot, RefreshWithoutProbe, Typed, TypeOK
    <3>2. CASE writer' = [writer EXCEPT ![w].pc = "refresh"] /\ UNCHANGED owed
      <4>1. [writer[w] EXCEPT !.pc = "refresh"] \in WriterStates
        BY <1>0 DEF WriterStates
      <4>2. writer[w].mem \in Mem /\ writer[w].text \in Contents
        BY <1>6 DEF ReadSnapshot, RefreshWithoutProbe, Typed, BusyWriters
      <4> QED
        BY <1>0, <1>1, <3>2, <4>1, <4>2 DEF Typed, TypeOK, WriterStates
    <3> QED
      BY <1>6, <3>1, <3>2 DEF ReadSnapshot, RefreshWithoutProbe
  <2> QED
    BY <2>1, <2>2 DEF Typed, TypeOK, database, adapter, service, bounds
<1>7. CASE RefreshWithProbe(w)
  <2>1. [writer[w] EXCEPT !.pc = "probing"] \in WriterStates
    BY <1>0 DEF WriterStates
  <2>2. writer[w].mem \in Mem /\ writer[w].text \in Contents
    BY <1>7 DEF RefreshWithProbe, Typed, BusyWriters
  <2>3. writer' \in [Writers -> WriterStates] /\ BusyWriters'
    BY <1>0, <1>1, <1>7, <2>1, <2>2 DEF RefreshWithProbe, WriterStates
  <2>4. probe' \in [by : Writers \union {Nobody, Backfiller, Refresher}, seen : Snapshots]
    BY <1>7 DEF RefreshWithProbe, StartProbe, Typed, TypeOK, Snapshots
  <2> QED
    BY <1>7, <2>3, <2>4 DEF RefreshWithProbe, Typed, TypeOK, database, service, bounds, history
<1>8. CASE WriterProbed(w)
  <2>1. PICK snap \in Snapshots : EndProbe(w, snap) /\ WriterProceeds(w, snap)
    BY <1>8 DEF WriterProbed
  <2>2. writer' \in [Writers -> WriterStates] /\ BusyWriters' /\ owed' \subseteq Mem
    BY <1>8, <2>1, ProceedsTyped DEF WriterProbed
  <2>3. /\ probe' \in [by : Writers \union {Nobody, Backfiller, Refresher}, seen : Snapshots]
        /\ revision' \in Snapshots
        /\ cooldown' \in BOOLEAN
        /\ faults' \in Nat
    BY <2>1, ProbeTyped DEF Typed
  <2> QED
    BY <1>8, <2>2, <2>3 DEF WriterProbed, Typed, TypeOK, database, service
<1>9. CASE WriterEmbeds(w)
  <2> DEFINE t == [writer[w] EXCEPT !.pc = "save", !.made = weights,
                                    !.status = Answer(writer[w].text)]
  <2>1. t \in WriterStates /\ t.mem = writer[w].mem /\ t.text = writer[w].text
    BY <1>0 DEF WriterStates, Answer, Typed, TypeOK, Snapshots
  <2>2. writer' = [writer EXCEPT ![w] = t]
    BY <1>0, <1>9 DEF WriterEmbeds
  <2>3. writer[w].mem \in Mem /\ writer[w].text \in Contents
    BY <1>9 DEF WriterEmbeds, Typed, BusyWriters
  <2> HIDE DEF t
  <2>4. writer' \in [Writers -> WriterStates] /\ BusyWriters'
    BY <1>1, <2>1, <2>2, <2>3
  <2>5. cooldown' \in BOOLEAN
    BY <1>9 DEF WriterEmbeds
  <2> QED
    BY <1>9, <2>4, <2>5 DEF WriterEmbeds, Typed, TypeOK, database, service, bounds, history
<1>10. CASE WriterEmbedFails(w)
  <2>1. writer' \in [Writers -> WriterStates] /\ BusyWriters'
    BY <1>1, <1>2, <1>10 DEF WriterEmbedFails
  <2> QED
    BY <1>10, <2>1 DEF WriterEmbedFails, Fault, Typed, TypeOK, database, adapter, service, history
<1>11. CASE WriterSaves(w)
  <2>1. writer' \in [Writers -> WriterStates] /\ BusyWriters'
    BY <1>1, <1>2, <1>11 DEF WriterSaves
  <2>2. /\ writer[w].text \in Text /\ writer[w].snap \in Snapshots
        /\ writer[w].made \in Snapshots
        /\ writer[w].status \in {"none", "ok", "content_too_long"}
    BY <1>0 DEF WriterStates
  <2>3. PICK r \in Rows : row' \in {row, [row EXCEPT ![writer[w].mem] = r]}
    <3> DEFINE r == [status |-> writer[w].status, hash |-> writer[w].text,
                     stamp |-> writer[w].snap, made |-> writer[w].made]
    <3>1. r \in Rows
      BY <2>2 DEF Rows
    <3>2. row' \in {row, [row EXCEPT ![writer[w].mem] = r]}
      BY <1>11 DEF WriterSaves, SaveEmbedding
    <3> HIDE DEF r
    <3> QED
      BY <3>1, <3>2
  <2>4. row' \in [Mem -> Rows] /\ torn' \subseteq Mem
    BY <1>11, <2>3 DEF Typed, TypeOK, WriterSaves, SaveEmbedding
  <2> QED
    BY <1>11, <2>1, <2>4 DEF WriterSaves, Typed, TypeOK, adapter, service, bounds
<1> QED
  BY <1>3, <1>4, <1>5, <1>6, <1>7, <1>8, <1>9, <1>10, <1>11 DEF Request, WriterStep

\* Backfills, started by a job or by the refresher, and their failures.
BackfillAction ==
    \/ \E scope \in Projects \union {Mem}, force \in BOOLEAN : StartBackfill(scope, force)
    \/ BackfillStep
    \/ \E items \in SUBSET backfill.todo : ChunkFails(items)
    \/ \E item \in backfill.chunk : ItemFails(item)

\* The steps of backfills keep the types.
LEMMA BackfillTyped ==
    ASSUME LifecycleAssumption, Typed, BackfillAction
    PROVE  Typed'
<1>0. /\ backfill \in BackfillStates
      /\ backfill.scope \in SUBSET Mem /\ backfill.force \in BOOLEAN
      /\ backfill.snap \in Snapshots
      /\ backfill.listed \in SUBSET Items /\ backfill.todo \in SUBSET Items
      /\ backfill.chunk \in SUBSET Items /\ backfill.vectors \in SUBSET Vectors
  BY DEF Typed, TypeOK, BackfillStates
<1>1. ASSUME NEW item \in Items
      PROVE  Vector(item) \in Vectors
  BY DEF Vector, Vectors, Items, Answer, Typed, TypeOK
<1>2. ASSUME NEW scope \in Projects \union {Mem}, NEW force \in BOOLEAN,
             StartBackfill(scope, force)
      PROVE  Typed'
  <2>1. scope \in SUBSET Mem
    BY LifecycleAssumption
  <2>2. [IdleBackfill EXCEPT !.pc = "refresh", !.scope = scope, !.force = force] \in BackfillStates
    BY <2>1, RestTypes DEF BackfillStates
  <2>3. backfill' \in BackfillStates
    BY <1>2, <2>2 DEF StartBackfill
  <2> QED
    BY <1>2, <2>3
    DEF StartBackfill, Typed, TypeOK, BusyWriters, database, adapter, service, bounds, history
<1>3. CASE StartQueued
  <2>1. [IdleBackfill EXCEPT !.pc = "refresh", !.scope = Mem] \in BackfillStates
    BY RestTypes DEF BackfillStates
  <2>2. backfill' \in BackfillStates
    BY <1>0, <1>3, <2>1 DEF StartQueued
  <2> QED
    BY <1>3, <2>2
    DEF StartQueued, Typed, TypeOK, BusyWriters, database, adapter, bounds, history
<1>4. CASE BackfillProbes
  <2>1. [backfill EXCEPT !.pc = "probing"] \in BackfillStates
    BY <1>0 DEF BackfillStates
  <2>2. probe' \in [by : Writers \union {Nobody, Backfiller, Refresher}, seen : Snapshots]
    BY <1>4 DEF BackfillProbes, StartProbe, Typed, TypeOK, Snapshots
  <2> QED
    BY <1>4, <2>1, <2>2
    DEF BackfillProbes, Typed, TypeOK, BusyWriters, database, service, bounds, history
<1>5. ASSUME NEW snap \in Snapshots, BackfillProceeds(snap)
      PROVE  backfill' \in BackfillStates
  <2>1. [backfill EXCEPT !.pc = "list", !.snap = snap] \in BackfillStates
    BY <1>0 DEF BackfillStates
  <2> QED
    BY <1>5, <2>1, RestTypes DEF BackfillProceeds
<1>6. CASE BackfillSkipsProbe
  <2>1. backfill' \in BackfillStates
    BY <1>5, <1>6 DEF BackfillSkipsProbe, Typed, TypeOK
  <2> QED
    BY <1>6, <2>1
    DEF BackfillSkipsProbe, Typed, TypeOK, BusyWriters, database, adapter, service, bounds, history
<1>7. CASE BackfillProbed
  <2>1. PICK snap \in Snapshots : EndProbe(Backfiller, snap) /\ BackfillProceeds(snap)
    BY <1>7 DEF BackfillProbed
  <2>2. /\ probe' \in [by : Writers \union {Nobody, Backfiller, Refresher}, seen : Snapshots]
        /\ revision' \in Snapshots
        /\ cooldown' \in BOOLEAN
        /\ faults' \in Nat
    BY <2>1, ProbeTyped DEF Typed
  <2>3. backfill' \in BackfillStates
    BY <1>5, <2>1
  <2> QED
    BY <1>7, <2>2, <2>3
    DEF BackfillProbed, Typed, TypeOK, BusyWriters, database, service, history
<1>8. CASE ListMemory
  <2> DEFINE found == {m \in backfill.scope : Exists(m)}
             listed == {[mem |-> m, text |-> content[m]] : m \in found}
  <2>1. listed \in SUBSET Items
    BY <1>0 DEF Items, Exists
  <2>2. backfill' = [backfill EXCEPT !.pc = "check", !.listed = listed]
    BY <1>8 DEF ListMemory
  <2> HIDE DEF listed
  <2>3. backfill' \in BackfillStates
    BY <1>0, <2>1, <2>2 DEF BackfillStates
  <2>4. owed' \subseteq Mem
    BY <1>8 DEF ListMemory, Typed, TypeOK
  <2> QED
    BY <1>8, <2>3, <2>4
    DEF ListMemory, Typed, TypeOK, BusyWriters, database, adapter, service, bounds
<1>9. ASSUME NEW item \in backfill.listed, CheckItem(item)
      PROVE  Typed'
  <2>1. PICK pc \in {"check", "work"}, todo \in SUBSET Items :
           backfill' = [backfill EXCEPT !.listed = backfill.listed \ {item}, !.todo = todo,
                                        !.pc = pc]
    <3>1. backfill.todo \union {item} \in SUBSET Items
      BY <1>0
    <3> QED
      BY <1>0, <1>9, <3>1 DEF CheckItem
  <2>2. backfill' \in BackfillStates
    BY <1>0, <2>1 DEF BackfillStates
  <2> QED
    BY <1>9, <2>2
    DEF CheckItem, Typed, TypeOK, BusyWriters, database, adapter, service, bounds, history
<1>10. CASE CheckNothing
  <2>1. [backfill EXCEPT !.pc = "work"] \in BackfillStates
    BY <1>0 DEF BackfillStates
  <2> QED
    BY <1>10, <2>1
    DEF CheckNothing, Typed, TypeOK, BusyWriters, database, adapter, service, bounds, history
<1>11. ASSUME NEW items \in SUBSET backfill.todo, EmbedChunk(items)
       PROVE  Typed'
  <2>1. items \in SUBSET Items /\ {Vector(item) : item \in items} \in SUBSET Vectors
    BY <1>0, <1>1
  <2>2. PICK chunk \in SUBSET Items, vectors \in SUBSET Vectors :
           backfill' = [backfill EXCEPT !.todo = backfill.todo \ items, !.chunk = chunk,
                                        !.vectors = vectors]
    BY <1>11, <2>1 DEF EmbedChunk
  <2>3. backfill' \in BackfillStates
    BY <1>0, <2>2 DEF BackfillStates
  <2>4. cooldown' \in BOOLEAN
    BY <1>11 DEF EmbedChunk
  <2> QED
    BY <1>11, <2>3, <2>4
    DEF EmbedChunk, Typed, TypeOK, BusyWriters, database, service, bounds, history
<1>12. ASSUME NEW items \in SUBSET backfill.todo, ChunkFails(items)
       PROVE  Typed'
  <2>1. [backfill EXCEPT !.todo = backfill.todo \ items, !.chunk = items] \in BackfillStates
    BY <1>0 DEF BackfillStates
  <2> QED
    BY <1>12, <2>1
    DEF ChunkFails, Fault, Typed, TypeOK, BusyWriters, database, adapter, service, history
<1>13. ASSUME NEW item \in backfill.chunk, EmbedItem(item)
       PROVE  Typed'
  <2>1. {Vector(item)} \in SUBSET Vectors
    BY <1>0, <1>1
  <2>2. backfill' \in BackfillStates
    BY <1>0, <1>13, <2>1 DEF EmbedItem, BackfillStates
  <2>3. cooldown' \in BOOLEAN
    BY <1>13 DEF EmbedItem
  <2> QED
    BY <1>13, <2>2, <2>3
    DEF EmbedItem, Typed, TypeOK, BusyWriters, database, service, bounds, history
<1>14. ASSUME NEW item \in backfill.chunk, ItemFails(item)
       PROVE  Typed'
  <2>1. backfill' \in BackfillStates
    BY <1>0, <1>14 DEF ItemFails, BackfillStates
  <2> QED
    BY <1>14, <2>1
    DEF ItemFails, Fault, Typed, TypeOK, BusyWriters, database, adapter, service, history
<1>15. ASSUME NEW vec \in backfill.vectors, BackfillSaves(vec)
       PROVE  Typed'
  <2>1. backfill' \in BackfillStates
    BY <1>0, <1>15 DEF BackfillSaves, BackfillStates
  <2>2. /\ vec.text \in Text /\ vec.made \in Snapshots
        /\ vec.status \in {"none", "ok", "content_too_long"}
    BY <1>0 DEF Vectors, Text, Snapshots
  <2>3. PICK r \in Rows : row' \in {row, [row EXCEPT ![vec.mem] = r]}
    <3> DEFINE r == [status |-> vec.status, hash |-> vec.text, stamp |-> backfill.snap,
                     made |-> vec.made]
    <3>1. r \in Rows
      BY <1>0, <2>2 DEF Rows
    <3>2. row' \in {row, [row EXCEPT ![vec.mem] = r]}
      BY <1>15 DEF BackfillSaves, SaveEmbedding
    <3> HIDE DEF r
    <3> QED
      BY <3>1, <3>2
  <2>4. row' \in [Mem -> Rows] /\ torn' \subseteq Mem
    BY <1>15, <2>3 DEF Typed, TypeOK, BackfillSaves, SaveEmbedding
  <2> QED
    BY <1>15, <2>1, <2>4 DEF BackfillSaves, Typed, TypeOK, BusyWriters, adapter, service, bounds
<1>16. CASE FinishBackfill
  <2>1. backfill' \in BackfillStates /\ reconciled' \in Snapshots
    BY <1>0, <1>16, RestTypes DEF FinishBackfill, Typed, TypeOK
  <2> QED
    BY <1>16, <2>1 DEF FinishBackfill, Typed, TypeOK, BusyWriters, database, adapter, bounds, history
<1> QED
  BY <1>2, <1>3, <1>4, <1>6, <1>7, <1>8, <1>9, <1>10, <1>11, <1>12, <1>13, <1>14, <1>15, <1>16
  DEF BackfillAction, BackfillStep

\* The refresher, the provider and the process itself.
OtherAction == RefresherStep \/ CooldownEnds \/ Repull \/ Crash

\* Their steps keep the types.
LEMMA OtherTyped ==
    ASSUME LifecycleAssumption, Typed, OtherAction
    PROVE  Typed'
<1>1. CASE RefresherProbes
  <2>1. refresher' \in RefresherStates
    BY <1>1 DEF RefresherProbes, Typed, TypeOK, RefresherStates
  <2>2. probe' \in [by : Writers \union {Nobody, Backfiller, Refresher}, seen : Snapshots]
    BY <1>1 DEF RefresherProbes, StartProbe, Typed, TypeOK, Snapshots
  <2> QED
    BY <1>1, <2>1, <2>2
    DEF RefresherProbes, Typed, TypeOK, BusyWriters, database, service, bounds, history
<1>2. CASE RefresherSkipsProbe
  <2>1. refresher' \in RefresherStates
    BY <1>2 DEF RefresherSkipsProbe, Typed, TypeOK, RefresherStates
  <2> QED
    BY <1>2, <2>1
    DEF RefresherSkipsProbe, Typed, TypeOK, BusyWriters, database, adapter, service, bounds, history
<1>3. CASE RefresherProbed
  <2>1. PICK snap \in Snapshots :
           EndProbe(Refresher, snap) /\ refresher' = [pc |-> "reconcile", snap |-> snap]
    BY <1>3 DEF RefresherProbed
  <2>2. refresher' \in RefresherStates
    BY <2>1 DEF RefresherStates
  <2>3. /\ probe' \in [by : Writers \union {Nobody, Backfiller, Refresher}, seen : Snapshots]
        /\ revision' \in Snapshots
        /\ cooldown' \in BOOLEAN
        /\ faults' \in Nat
    BY <2>1, ProbeTyped DEF Typed
  <2> QED
    BY <1>3, <2>2, <2>3 DEF RefresherProbed, Typed, TypeOK, BusyWriters, database, service, history
<1>4. CASE Reconcile
  <2>1. queued' \in BOOLEAN
    BY <1>4 DEF Reconcile
  <2> QED
    BY <1>4, <2>1, RestTypes
    DEF Reconcile, Typed, TypeOK, BusyWriters, database, adapter, bounds, history
<1>5. CASE CooldownEnds
  <2>1. cooldown' \in BOOLEAN
    BY <1>5 DEF CooldownEnds
  <2> QED
    BY <1>5, <2>1 DEF CooldownEnds, Typed, TypeOK, BusyWriters, database, service, bounds, history
<1>6. CASE Repull
  <2>1. weights' \in Revisions
    BY <1>6, LifecycleAssumption DEF Repull, Typed, TypeOK, Revisions
  <2> QED
    BY <1>6, <2>1 DEF Repull, Typed, TypeOK, BusyWriters, database, adapter, service, bounds, history
<1>7. CASE Crash
  <2>1. writer' \in [Writers -> WriterStates] /\ BusyWriters'
    BY <1>7, RestTypes DEF Crash, BusyWriters, IdleWriter
  <2>2. cooldown' \in BOOLEAN /\ queued' \in BOOLEAN
    BY <1>7 DEF Crash
  <2>3. /\ revision' \in Snapshots /\ reconciled' \in Snapshots /\ crashes' \in Nat
        /\ probe' \in [by : Writers \union {Nobody, Backfiller, Refresher}, seen : Snapshots]
        /\ backfill' \in BackfillStates /\ refresher' \in RefresherStates
    BY <1>7, RestTypes DEF Crash, Typed, TypeOK
  <2>4. owed' \subseteq Mem /\ torn' \subseteq Mem
    BY <1>7 DEF Crash, Typed, TypeOK
  <2> QED
    BY <1>7, <2>1, <2>2, <2>3, <2>4 DEF Crash, Typed, TypeOK, database
<1> QED
  BY <1>1, <1>2, <1>3, <1>4, <1>5, <1>6, <1>7 DEF OtherAction, RefresherStep

\* Every step is one of these.
LEMMA NextSplit ==
    ASSUME Next
    PROVE  \/ \E w \in Writers : Request(w) \/ WriterStep(w) \/ WriterEmbedFails(w)
           \/ BackfillAction
           \/ OtherAction
BY DEF Next, ProviderFailure, BackfillAction, OtherAction

\* Every step keeps the types.
LEMMA NextTyped ==
    ASSUME LifecycleAssumption, Typed, [Next]_vars
    PROVE  Typed'
<1>1. CASE UNCHANGED vars
  BY <1>1 DEF vars, database, adapter, service, bounds, history, Typed, TypeOK, BusyWriters
<1>2. CASE Next
  BY <1>2, NextSplit, WriterTyped, BackfillTyped, OtherTyped
<1> QED
  BY <1>1, <1>2

(***************************************************************************)
(* Rows follow content: inductive with the types.                          *)
(***************************************************************************)
\* A step that stores nothing and finishes no invalidation.
LEMMA RowsUntouched ==
    ASSUME Typed, RowsFollowContent, UNCHANGED <<content, row, torn>>,
           \A w \in Writers : writer[w].pc = "invalidate" => writer'[w] = writer[w]
    PROVE  RowsFollowContent'
BY DEF RowsFollowContent, Exists

\* Every step keeps the rows with their content.
LEMMA NextRows ==
    ASSUME LifecycleAssumption, Typed, RowsFollowContent, [Next]_vars
    PROVE  RowsFollowContent'
<1>0. /\ content \in [Mem -> Contents \union {Absent, Deleted}] /\ row \in [Mem -> Rows]
      /\ writer \in [Writers -> WriterStates]
  BY DEF Typed, TypeOK
<1>1. CASE UNCHANGED vars
  BY <1>1, RowsUntouched DEF vars, database, history
<1>2. ASSUME NEW m \in Mem, NEW text \in Contents, NEW r \in Rows, content[m] = text,
             r.hash = text, row' = [row EXCEPT ![m] = r], torn' = torn \ {m}, content' = content,
             \A w \in Writers : writer[w].pc = "invalidate" => writer'[w] = writer[w]
      PROVE  RowsFollowContent'
  <2>1. \A n \in Mem : row'[n] = IF n = m THEN r ELSE row[n]
    BY <1>0, <1>2
  <2> QED
    BY <1>2, <2>1 DEF RowsFollowContent, Exists
<1>3. ASSUME NEW w \in Writers, Request(w) \/ WriterStep(w) \/ WriterEmbedFails(w)
      PROVE  RowsFollowContent'
  <2>2. ASSUME NEW m \in Mem, NEW c \in Contents, AddMemory(w, m, c)
        PROVE  RowsFollowContent'
    <3>1. \A n \in Mem : content'[n] = IF n = m THEN c ELSE content[n]
      BY <1>0, <2>2 DEF AddMemory
    <3>2. row[m].status = "none"
      BY <2>2, LifecycleAssumption DEF AddMemory, RowsFollowContent, Exists
    <3>3. \A v \in Writers \ {w} : writer'[v] = writer[v]
      BY <1>0, <2>2 DEF AddMemory
    <3> QED
      BY <2>2, <3>1, <3>2, <3>3 DEF AddMemory, RowsFollowContent, Exists, history
  <2>3. ASSUME NEW m \in Mem, NEW c \in Contents, UpdateMemory(w, m, c)
        PROVE  RowsFollowContent'
    <3>1. \A n \in Mem : content'[n] = IF n = m THEN c ELSE content[n]
      BY <1>0, <2>3 DEF UpdateMemory
    <3>2. /\ \A v \in Writers \ {w} : writer'[v] = writer[v]
          /\ writer'[w].pc = "invalidate" /\ writer'[w].mem = m
      BY <1>0, <2>3 DEF UpdateMemory, IdleWriter
    <3> QED
      BY <2>3, <3>1, <3>2 DEF UpdateMemory, RowsFollowContent, Exists, history
  <2>4. ASSUME NEW m \in Mem, DeleteMemory(w, m)
        PROVE  RowsFollowContent'
    <3>1. \A n \in Mem : content'[n] = IF n = m THEN Deleted ELSE content[n]
      BY <1>0, <2>4 DEF DeleteMemory
    <3>2. \A n \in Mem : row'[n] = IF n = m THEN NoRow ELSE row[n]
      BY <1>0, <2>4 DEF DeleteMemory, DeleteEmbedding
    <3> QED
      BY <2>4, <3>1, <3>2 DEF DeleteMemory, DeleteEmbedding, RowsFollowContent, Exists, NoRow
  <2>5. CASE Invalidate(w)
    <3>1. writer[w].mem \in Mem
      BY <2>5 DEF Invalidate, Typed, BusyWriters
    <3>2. \A n \in Mem : row'[n] = IF n = writer[w].mem THEN NoRow ELSE row[n]
      BY <1>0, <2>5 DEF Invalidate, DeleteEmbedding
    <3>3. \A v \in Writers \ {w} : writer'[v] = writer[v]
      BY <1>0, <2>5 DEF Invalidate
    <3> QED
      BY <2>5, <3>1, <3>2, <3>3
      DEF Invalidate, DeleteEmbedding, RowsFollowContent, Exists, NoRow
  <2>6. CASE ReadSnapshot(w) \/ RefreshWithoutProbe(w) \/ RefreshWithProbe(w) \/ WriterProbed(w)
    <3>1. /\ UNCHANGED <<content, row, torn>>
          /\ writer[w].pc # "invalidate"
          /\ \A v \in Writers \ {w} : writer'[v] = writer[v]
      BY <1>0, <2>6
      DEF ReadSnapshot, RefreshWithoutProbe, RefreshWithProbe, WriterProbed, WriterProceeds,
          database, history
    <3> QED
      BY <3>1, RowsUntouched
  <2>7. CASE WriterEmbeds(w) \/ WriterEmbedFails(w)
    <3>1. /\ UNCHANGED <<content, row, torn>>
          /\ writer[w].pc # "invalidate"
          /\ \A v \in Writers \ {w} : writer'[v] = writer[v]
      BY <1>0, <2>7 DEF WriterEmbeds, WriterEmbedFails, database, history
    <3> QED
      BY <3>1, RowsUntouched
  <2>8. CASE WriterSaves(w)
    <3> DEFINE r == [status |-> writer[w].status, hash |-> writer[w].text,
                     stamp |-> writer[w].snap, made |-> writer[w].made]
    <3>1. /\ writer[w].mem \in Mem /\ writer[w].text \in Contents
          /\ \A v \in Writers : writer[v].pc = "invalidate" => writer'[v] = writer[v]
      BY <1>0, <2>8 DEF WriterSaves, Typed, BusyWriters
    <3>2. r \in Rows /\ r.hash = writer[w].text
      BY <1>0 DEF WriterStates, Rows
    <3>3. CASE content[writer[w].mem] = writer[w].text
      <4>1. row' = [row EXCEPT ![writer[w].mem] = r] /\ torn' = torn \ {writer[w].mem}
            /\ content' = content
        BY <2>8, <3>3 DEF WriterSaves, SaveEmbedding
      <4> HIDE DEF r
      <4> QED
        BY <1>2, <3>1, <3>2, <3>3, <4>1
    <3>4. CASE content[writer[w].mem] # writer[w].text
      BY <2>8, <3>1, <3>4, RowsUntouched DEF WriterSaves, SaveEmbedding
    <3> QED
      BY <3>3, <3>4
  <2> QED
    BY <1>3, <2>2, <2>3, <2>4, <2>5, <2>6, <2>7, <2>8 DEF Request, WriterStep
<1>4. CASE BackfillAction
  <2>1. ASSUME NEW vec \in backfill.vectors, BackfillSaves(vec)
        PROVE  RowsFollowContent'
    <3> DEFINE r == [status |-> vec.status, hash |-> vec.text, stamp |-> backfill.snap,
                     made |-> vec.made]
    <3>1. vec \in Vectors /\ backfill.snap \in Snapshots
      BY DEF Typed, TypeOK, BackfillStates
    <3>2. vec.mem \in Mem /\ vec.text \in Contents /\ r \in Rows /\ r.hash = vec.text
      BY <3>1 DEF Vectors, Rows, Text, Snapshots
    <3>3. CASE content[vec.mem] = vec.text
      <4>1. row' = [row EXCEPT ![vec.mem] = r] /\ torn' = torn \ {vec.mem}
            /\ content' = content /\ writer' = writer
        BY <2>1, <3>3 DEF BackfillSaves, SaveEmbedding
      <4> HIDE DEF r
      <4> QED
        BY <1>2, <3>2, <3>3, <4>1
    <3>4. CASE content[vec.mem] # vec.text
      BY <2>1, <3>4, RowsUntouched DEF BackfillSaves, SaveEmbedding
    <3> QED
      BY <3>3, <3>4
  <2>2. CASE UNCHANGED <<content, row, torn, writer>>
    BY <2>2, RowsUntouched
  <2> QED
    BY <1>4, <2>1, <2>2
    DEF BackfillAction, BackfillStep, StartBackfill, StartQueued, BackfillProbes,
        BackfillSkipsProbe, BackfillProbed, ListMemory, CheckItem, CheckNothing, EmbedChunk,
        EmbedItem, FinishBackfill, ChunkFails, ItemFails, database, history
<1>5. CASE RefresherStep \/ CooldownEnds \/ Repull
  <2>1. UNCHANGED <<content, row, torn, writer>>
    BY <1>5 DEF RefresherStep, RefresherProbes, RefresherSkipsProbe, RefresherProbed, Reconcile,
                CooldownEnds, Repull, database, history
  <2> QED
    BY <2>1, RowsUntouched
<1>6. CASE Crash
  <2>1. \A m \in Mem : m \in torn \/ (/\ Exists(m) /\ row[m].status # "none"
                                     /\ \E w \in Writers : writer[w].pc = "invalidate"
                                                           /\ writer[w].mem = m) => m \in torn'
    BY <1>6 DEF Crash
  <2> QED
    BY <1>6, <2>1 DEF Crash, RowsFollowContent, Exists, database
<1> QED
  BY <1>1, <1>3, <1>4, <1>5, <1>6, NextSplit DEF OtherAction

(***************************************************************************)
(* Stamps trail the weights.                                               *)
(***************************************************************************)
\* What the adapter has verified, or is about to, is not newer than the
\* weights served.
AdapterTrails == revision <= weights /\ probe.seen <= weights

\* A thread's stamp was verified before its vector was made.
WritersTrail ==
    \A w \in Writers :
        /\ writer[w].pc = "embed" => writer[w].snap <= weights
        /\ writer[w].pc = "save" => writer[w].snap <= writer[w].made

\* So was a backfill's, for every vector it holds.
BackfillTrails ==
    /\ backfill.snap <= weights
    /\ \A vec \in backfill.vectors : backfill.snap <= vec.made

\* Vectors wait only in a backfill that is at work.
VectorsAtWork == backfill.pc # "work" => backfill.vectors = {} /\ backfill.chunk = {}

StampInv == AdapterTrails /\ WritersTrail /\ BackfillTrails /\ StampNeverLeads

\* Every step keeps vectors out of a backfill that is not at work.
LEMMA NextVectors ==
    ASSUME Typed, VectorsAtWork, [Next]_vars
    PROVE  VectorsAtWork'
<1>0. backfill \in BackfillStates
  BY DEF Typed, TypeOK
<1>1. CASE UNCHANGED backfill
  BY <1>1 DEF VectorsAtWork
<1>2. CASE backfill' = IdleBackfill
  BY <1>2 DEF VectorsAtWork, IdleBackfill
<1>3. CASE BackfillAction
  <2>1. ASSUME NEW scope, NEW force, StartBackfill(scope, force)
        PROVE  VectorsAtWork'
    BY <2>1 DEF StartBackfill, VectorsAtWork, IdleBackfill
  <2>2. CASE StartQueued
    BY <1>1, <2>2 DEF StartQueued, VectorsAtWork, IdleBackfill
  <2>3. CASE BackfillProbes
    BY <1>0, <2>3 DEF BackfillProbes, VectorsAtWork, BackfillStates
  <2>4. ASSUME NEW snap, BackfillProceeds(snap), backfill.pc # "work"
        PROVE  VectorsAtWork'
    BY <1>0, <1>2, <2>4 DEF BackfillProceeds, VectorsAtWork, BackfillStates
  <2>5. CASE BackfillProbed
    BY <2>4, <2>5 DEF BackfillProbed
  <2>6. CASE BackfillSkipsProbe
    <3>1. PICK snap : snap = revision
      OBVIOUS
    <3> QED
      BY <2>4, <2>6, <3>1 DEF BackfillSkipsProbe
  <2>7. CASE ListMemory \/ CheckNothing \/ \E item \in backfill.listed : CheckItem(item)
    <3>1. backfill.pc # "work" /\ UNCHANGED <<backfill.vectors, backfill.chunk>>
      BY <1>0, <2>7 DEF ListMemory, CheckNothing, CheckItem, BackfillStates
    <3> QED
      BY <3>1 DEF VectorsAtWork
  <2>8. CASE \/ \E items \in SUBSET backfill.todo : EmbedChunk(items) \/ ChunkFails(items)
             \/ \E item \in backfill.chunk : EmbedItem(item) \/ ItemFails(item)
             \/ \E vec \in backfill.vectors : BackfillSaves(vec)
    <3>1. backfill.pc = "work"
      BY <2>8 DEF EmbedChunk, ChunkFails, BetweenChunks, VectorsAtWork
    <3>2. backfill'.pc = backfill.pc
      BY <1>0, <2>8 DEF EmbedChunk, ChunkFails, EmbedItem, ItemFails, BackfillSaves, BackfillStates
    <3> QED
      BY <3>1, <3>2 DEF VectorsAtWork
  <2>9. CASE FinishBackfill
    BY <1>2, <2>9 DEF FinishBackfill
  <2> QED
    BY <1>3, <2>1, <2>2, <2>3, <2>5, <2>6, <2>7, <2>8, <2>9 DEF BackfillAction, BackfillStep
<1>4. ASSUME NEW w \in Writers, Request(w) \/ WriterStep(w) \/ WriterEmbedFails(w)
      PROVE  UNCHANGED backfill
  BY <1>4 DEF Request, WriterStep, AddMemory, UpdateMemory, DeleteMemory, Invalidate,
              ReadSnapshot, RefreshWithoutProbe, RefreshWithProbe, WriterProbed, WriterEmbeds,
              WriterSaves, WriterEmbedFails
<1>5. CASE OtherAction
  BY <1>1, <1>2, <1>5 DEF OtherAction, RefresherStep, RefresherProbes, RefresherSkipsProbe,
                          RefresherProbed, Reconcile, CooldownEnds, Repull, Crash
<1>6. CASE UNCHANGED vars
  BY <1>1, <1>6 DEF vars
<1> QED
  BY <1>1, <1>3, <1>4, <1>5, <1>6, NextSplit

\* Initially nothing is stamped.
LEMMA InitStamps ==
    ASSUME LifecycleAssumption, Init
    PROVE  StampInv
<1>1. AdapterTrails /\ BackfillTrails
  BY DEF Init, AdapterTrails, BackfillTrails, FreeProbe, IdleBackfill, Unknown
<1>2. WritersTrail
  BY DEF Init, WritersTrail, IdleWriter
<1>3. StampNeverLeads
  BY DEF Init, StampNeverLeads, NoRow, Unknown
<1> QED
  BY <1>1, <1>2, <1>3 DEF StampInv

\* What a probe returns was served.
LEMMA ProbeTrails ==
    ASSUME LifecycleAssumption, Typed, AdapterTrails, NEW who, NEW snap, EndProbe(who, snap),
           weights' = weights
    PROVE  AdapterTrails' /\ snap <= weights
BY DEF EndProbe, AdapterTrails, FreeProbe, Typed, TypeOK, Revisions, Unknown

\* Storing under an old stamp.
LEMMA RowTrails ==
    ASSUME Typed, StampNeverLeads, NEW m, NEW r \in Rows, r.stamp <= r.made,
           row' \in {row, [row EXCEPT ![m] = r]}
    PROVE  StampNeverLeads'
<1>1. \A n \in Mem : row'[n] \in {row[n], r}
  BY DEF Typed, TypeOK
<1> QED
  BY <1>1 DEF StampNeverLeads

\* Every step keeps every stamp behind its weights.
LEMMA NextStamps ==
    ASSUME LifecycleAssumption, Typed, VectorsAtWork, StampInv, [Next]_vars
    PROVE  StampInv'
<1>0. /\ row \in [Mem -> Rows] /\ writer \in [Writers -> WriterStates]
      /\ backfill \in BackfillStates /\ weights \in Nat
  BY LifecycleAssumption DEF Typed, TypeOK, Revisions
<1>1. CASE UNCHANGED vars
  BY <1>1 DEF vars, database, adapter, StampInv, AdapterTrails, WritersTrail, BackfillTrails,
              StampNeverLeads
<1>2. NoRow \in Rows /\ NoRow.stamp <= NoRow.made
  BY RestTypes DEF NoRow, Unknown
<1>3. ASSUME NEW w \in Writers, Request(w) \/ WriterStep(w) \/ WriterEmbedFails(w)
      PROVE  StampInv'
  <2>1. UNCHANGED <<weights, backfill>>
    BY <1>3 DEF Request, WriterStep, AddMemory, UpdateMemory, DeleteMemory, Invalidate,
                ReadSnapshot, RefreshWithoutProbe, RefreshWithProbe, WriterProbed, WriterEmbeds,
                WriterSaves, WriterEmbedFails
  <2>2. BackfillTrails'
    BY <2>1 DEF StampInv, BackfillTrails
  <2>3. ASSUME NEW snap \in Snapshots, snap <= weights, WriterProceeds(w, snap)
        PROVE  WritersTrail'
    <3>1. /\ \A v \in Writers \ {w} : writer'[v] = writer[v]
          /\ \/ writer'[w] = IdleWriter
             \/ writer'[w].pc = "embed" /\ writer'[w].snap = snap
      <4> DEFINE go == [writer[w] EXCEPT !.pc = "embed", !.snap = snap]
      <4>1. go.pc = "embed" /\ go.snap = snap
        BY <1>0 DEF WriterStates
      <4>2. writer' \in {[writer EXCEPT ![w] = IdleWriter], [writer EXCEPT ![w] = go]}
        BY <2>3 DEF WriterProceeds
      <4> HIDE DEF go
      <4> QED
        BY <1>0, <4>1, <4>2
    <3> QED
      BY <2>1, <2>3, <3>1 DEF StampInv, WritersTrail, IdleWriter
  <2>4. ASSUME \A v \in Writers \ {w} : writer'[v] = writer[v],
               writer'[w].pc \notin {"embed", "save"}
        PROVE  WritersTrail'
    BY <2>1, <2>4 DEF StampInv, WritersTrail
  <2>5. ASSUME NEW m \in Mem, NEW c \in Contents, AddMemory(w, m, c) \/ UpdateMemory(w, m, c)
        PROVE  StampInv'
    <3>1. WritersTrail'
      <4>1. /\ \A v \in Writers \ {w} : writer'[v] = writer[v]
            /\ writer'[w].pc \in {"snapshot", "invalidate"}
        <5>1. CASE AddMemory(w, m, c)
          BY <1>0, <5>1 DEF AddMemory, IdleWriter
        <5>2. CASE UpdateMemory(w, m, c)
          BY <1>0, <5>2 DEF UpdateMemory, IdleWriter
        <5> QED
          BY <2>5, <5>1, <5>2
      <4> QED
        BY <2>4, <4>1
    <3> QED
      BY <2>1, <2>2, <2>5, <3>1
      DEF AddMemory, UpdateMemory, StampInv, AdapterTrails, StampNeverLeads, adapter
  <2>6. ASSUME NEW m \in Mem, DeleteMemory(w, m)
        PROVE  StampInv'
    <3>1. StampNeverLeads'
      BY <1>2, <2>6, RowTrails DEF DeleteMemory, DeleteEmbedding, StampInv
    <3> QED
      BY <2>1, <2>2, <2>6, <3>1 DEF DeleteMemory, StampInv, AdapterTrails, WritersTrail, adapter
  <2>7. CASE Invalidate(w)
    <3>1. PICK m : row' = [row EXCEPT ![m] = NoRow]
      BY <2>7 DEF Invalidate, DeleteEmbedding
    <3>2. StampNeverLeads'
      BY <1>2, <3>1, RowTrails DEF StampInv
    <3>3. WritersTrail'
      BY <1>0, <2>4, <2>7 DEF Invalidate, WriterStates
    <3> QED
      BY <2>1, <2>2, <2>7, <3>2, <3>3 DEF Invalidate, StampInv, AdapterTrails, adapter
  <2>8. CASE ReadSnapshot(w) \/ RefreshWithoutProbe(w)
    <3>1. CASE WriterProceeds(w, revision)
      <4>1. PICK snap \in Snapshots : snap = revision
        BY DEF Typed, TypeOK
      <4> QED
        BY <2>1, <2>2, <2>3, <2>8, <3>1, <4>1
        DEF ReadSnapshot, RefreshWithoutProbe, StampInv, AdapterTrails, StampNeverLeads,
            adapter, database
    <3>2. CASE writer' = [writer EXCEPT ![w].pc = "refresh"]
      <4>1. WritersTrail'
        BY <1>0, <2>4, <3>2 DEF WriterStates
      <4> QED
        BY <2>1, <2>2, <2>8, <4>1
        DEF ReadSnapshot, RefreshWithoutProbe, StampInv, AdapterTrails, StampNeverLeads,
            adapter, database
    <3> QED
      BY <2>8, <3>1, <3>2 DEF ReadSnapshot, RefreshWithoutProbe
  <2>9. CASE RefreshWithProbe(w)
    <3>1. WritersTrail'
      BY <1>0, <2>4, <2>9 DEF RefreshWithProbe, WriterStates
    <3>2. AdapterTrails'
      BY <1>0, <2>1, <2>9 DEF RefreshWithProbe, StartProbe, StampInv, AdapterTrails
    <3> QED
      BY <2>2, <2>9, <3>1, <3>2 DEF RefreshWithProbe, StampInv, StampNeverLeads, database
  <2>10. CASE WriterProbed(w)
    <3>1. PICK snap \in Snapshots : EndProbe(w, snap) /\ WriterProceeds(w, snap)
      BY <2>10 DEF WriterProbed
    <3>2. AdapterTrails' /\ snap <= weights
      BY <2>1, <3>1, ProbeTrails DEF StampInv
    <3>3. WritersTrail'
      BY <2>3, <3>1, <3>2
    <3> QED
      BY <2>2, <2>10, <3>2, <3>3 DEF WriterProbed, StampInv, StampNeverLeads, database
  <2>11. CASE WriterEmbeds(w)
    <3>1. /\ \A v \in Writers \ {w} : writer'[v] = writer[v]
          /\ writer'[w].pc = "save"
          /\ writer'[w].snap = writer[w].snap
          /\ writer'[w].made = weights
      BY <1>0, <2>11 DEF WriterEmbeds, WriterStates
    <3>2. WritersTrail'
      <4>1. writer[w].snap <= weights
        BY <2>11 DEF WriterEmbeds, StampInv, WritersTrail
      <4> QED
        BY <2>1, <3>1, <4>1 DEF StampInv, WritersTrail
    <3> QED
      BY <2>1, <2>2, <2>11, <3>2
      DEF WriterEmbeds, StampInv, AdapterTrails, StampNeverLeads, database
  <2>12. CASE WriterEmbedFails(w)
    <3>1. WritersTrail'
      BY <1>0, <2>4, <2>12 DEF WriterEmbedFails, IdleWriter
    <3> QED
      BY <2>1, <2>2, <2>12, <3>1
      DEF WriterEmbedFails, StampInv, AdapterTrails, StampNeverLeads, adapter, database
  <2>13. CASE WriterSaves(w)
    <3> DEFINE r == [status |-> writer[w].status, hash |-> writer[w].text,
                     stamp |-> writer[w].snap, made |-> writer[w].made]
    <3>1. r \in Rows /\ r.stamp = writer[w].snap /\ r.made = writer[w].made
      BY <1>0 DEF WriterStates, Rows
    <3>2. r.stamp <= r.made
      BY <2>13, <3>1 DEF WriterSaves, StampInv, WritersTrail
    <3>3. PICK m : row' \in {row, [row EXCEPT ![m] = r]}
      BY <2>13 DEF WriterSaves, SaveEmbedding
    <3> HIDE DEF r
    <3>4. PICK q \in Rows : q = r
      BY <3>1
    <3>5. StampNeverLeads'
      BY <3>2, <3>3, <3>4, RowTrails DEF StampInv
    <3>6. WritersTrail'
      BY <1>0, <2>4, <2>13 DEF WriterSaves, IdleWriter
    <3> QED
      BY <2>1, <2>2, <2>13, <3>5, <3>6 DEF WriterSaves, StampInv, AdapterTrails, adapter
  <2> QED
    BY <1>3, <2>5, <2>6, <2>7, <2>8, <2>9, <2>10, <2>11, <2>12, <2>13 DEF Request, WriterStep
<1>4. CASE BackfillAction
  <2>1. UNCHANGED <<weights, writer>>
    BY <1>4 DEF BackfillAction, BackfillStep, StartBackfill, StartQueued, BackfillProbes,
                BackfillSkipsProbe, BackfillProbed, ListMemory, CheckItem, CheckNothing,
                EmbedChunk, EmbedItem, BackfillSaves, FinishBackfill, ChunkFails, ItemFails
  <2>2. WritersTrail'
    BY <2>1 DEF StampInv, WritersTrail
  <2>3. ASSUME backfill'.snap = backfill.snap, backfill'.vectors \subseteq backfill.vectors
        PROVE  BackfillTrails'
    BY <2>1, <2>3 DEF StampInv, BackfillTrails
  <2>4. ASSUME backfill'.snap <= weights, backfill'.vectors = {}
        PROVE  BackfillTrails'
    BY <2>1, <2>4 DEF BackfillTrails
  <2>5. ASSUME BackfillTrails', UNCHANGED <<row, revision, probe>>
        PROVE  StampInv'
    BY <2>1, <2>2, <2>5 DEF StampInv, AdapterTrails, StampNeverLeads
  <2>6. IdleBackfill.snap <= weights /\ IdleBackfill.vectors = {}
    BY <1>0 DEF IdleBackfill, Unknown
  <2>7. ASSUME NEW scope \in Projects \union {Mem}, NEW force \in BOOLEAN,
               StartBackfill(scope, force)
        PROVE  StampInv'
    <3>1. BackfillTrails'
      BY <1>0, <2>4, <2>7 DEF StartBackfill, IdleBackfill, Unknown
    <3> QED
      BY <2>5, <2>7, <3>1 DEF StartBackfill, database, adapter
  <2>8. CASE StartQueued
    <3>1. BackfillTrails'
      BY <1>0, <2>3, <2>4, <2>8 DEF StartQueued, IdleBackfill, Unknown
    <3> QED
      BY <2>5, <2>8, <3>1 DEF StartQueued, database, adapter
  <2>9. CASE BackfillProbes
    <3>1. BackfillTrails'
      BY <1>0, <2>3, <2>9 DEF BackfillProbes, BackfillStates
    <3>2. AdapterTrails'
      BY <1>0, <2>1, <2>9 DEF BackfillProbes, StartProbe, StampInv, AdapterTrails
    <3> QED
      BY <2>2, <2>9, <3>1, <3>2 DEF BackfillProbes, StampInv, StampNeverLeads, database
  <2>10. ASSUME NEW snap \in Snapshots, snap <= weights, BackfillProceeds(snap),
                backfill.vectors = {}
         PROVE  BackfillTrails'
    BY <1>0, <2>4, <2>6, <2>10 DEF BackfillProceeds, BackfillStates
  <2>11. CASE BackfillSkipsProbe
    <3>1. PICK snap \in Snapshots : snap = revision
      BY DEF Typed, TypeOK
    <3>2. snap <= weights /\ backfill.vectors = {} /\ BackfillProceeds(snap)
      BY <2>11, <3>1 DEF BackfillSkipsProbe, StampInv, AdapterTrails, VectorsAtWork
    <3>3. BackfillTrails'
      BY <2>10, <3>2
    <3> QED
      BY <2>5, <2>11, <3>3 DEF BackfillSkipsProbe, database, adapter
  <2>12. CASE BackfillProbed
    <3>1. PICK snap \in Snapshots : EndProbe(Backfiller, snap) /\ BackfillProceeds(snap)
      BY <2>12 DEF BackfillProbed
    <3>2. AdapterTrails' /\ snap <= weights
      BY <2>1, <3>1, ProbeTrails DEF StampInv
    <3>3. BackfillTrails'
      BY <2>10, <2>12, <3>1, <3>2 DEF BackfillProbed, VectorsAtWork
    <3> QED
      BY <2>2, <2>12, <3>2, <3>3 DEF BackfillProbed, StampInv, StampNeverLeads, database
  <2>13. CASE ListMemory \/ CheckNothing \/ \E item \in backfill.listed : CheckItem(item)
    <3>1. /\ backfill'.snap = backfill.snap /\ backfill'.vectors = backfill.vectors
          /\ UNCHANGED <<row, revision, probe>>
      BY <1>0, <2>13 DEF ListMemory, CheckNothing, CheckItem, BackfillStates, database, adapter
    <3> QED
      BY <2>3, <2>5, <3>1
  <2>14. ASSUME NEW items \in SUBSET backfill.todo, EmbedChunk(items)
         PROVE  StampInv'
    <3>1. /\ backfill'.snap = backfill.snap
          /\ backfill'.vectors \in {{}, {Vector(item) : item \in items}}
          /\ UNCHANGED <<row, revision, probe>>
      BY <1>0, <2>14 DEF EmbedChunk, BackfillStates, database
    <3>2. \A item \in items : Vector(item).made = weights
      BY DEF Vector
    <3>3. BackfillTrails'
      BY <2>1, <3>1, <3>2 DEF StampInv, BackfillTrails
    <3> QED
      BY <2>5, <3>1, <3>3
  <2>15. ASSUME NEW item \in backfill.chunk, EmbedItem(item)
         PROVE  StampInv'
    <3>1. /\ backfill'.snap = backfill.snap
          /\ backfill'.vectors = {Vector(item)}
          /\ UNCHANGED <<row, revision, probe>>
      BY <1>0, <2>15 DEF EmbedItem, BackfillStates, database
    <3>2. BackfillTrails'
      BY <2>1, <3>1 DEF Vector, StampInv, BackfillTrails
    <3> QED
      BY <2>5, <3>1, <3>2
  <2>16. CASE \/ \E items \in SUBSET backfill.todo : ChunkFails(items)
              \/ \E item \in backfill.chunk : ItemFails(item)
    <3>1. /\ backfill'.snap = backfill.snap /\ backfill'.vectors = backfill.vectors
          /\ UNCHANGED <<row, revision, probe>>
      BY <1>0, <2>16 DEF ChunkFails, ItemFails, BackfillStates, database, adapter
    <3> QED
      BY <2>3, <2>5, <3>1
  <2>17. ASSUME NEW vec \in backfill.vectors, BackfillSaves(vec)
         PROVE  StampInv'
    <3> DEFINE r == [status |-> vec.status, hash |-> vec.text, stamp |-> backfill.snap,
                     made |-> vec.made]
    <3>1. r \in Rows /\ r.stamp = backfill.snap /\ r.made = vec.made
      BY <1>0 DEF BackfillStates, Vectors, Rows, Text, Snapshots
    <3>2. r.stamp <= r.made
      BY <3>1 DEF StampInv, BackfillTrails
    <3>3. PICK m : row' \in {row, [row EXCEPT ![m] = r]}
      BY <2>17 DEF BackfillSaves, SaveEmbedding
    <3> HIDE DEF r
    <3>4. PICK q \in Rows : q = r
      BY <3>1
    <3>5. StampNeverLeads'
      BY <3>2, <3>3, <3>4, RowTrails DEF StampInv
    <3>6. BackfillTrails'
      BY <1>0, <2>3, <2>17 DEF BackfillSaves, BackfillStates
    <3> QED
      BY <2>1, <2>2, <2>17, <3>5, <3>6 DEF BackfillSaves, StampInv, AdapterTrails, adapter
  <2>18. CASE FinishBackfill
    BY <2>4, <2>5, <2>6, <2>18 DEF FinishBackfill, database, adapter
  <2> QED
    BY <1>4, <2>7, <2>8, <2>9, <2>11, <2>12, <2>13, <2>14, <2>15, <2>16, <2>17, <2>18
    DEF BackfillAction, BackfillStep
<1>5. CASE OtherAction
  <2>1. CASE RefresherProbes
    <3>1. AdapterTrails'
      BY <1>0, <2>1 DEF RefresherProbes, StartProbe, StampInv, AdapterTrails
    <3> QED
      BY <2>1, <3>1 DEF RefresherProbes, StampInv, WritersTrail, BackfillTrails, StampNeverLeads,
                        database
  <2>2. CASE RefresherProbed
    <3>1. PICK snap : EndProbe(Refresher, snap)
      BY <2>2 DEF RefresherProbed
    <3>2. AdapterTrails'
      BY <2>2, <3>1, ProbeTrails DEF RefresherProbed, StampInv
    <3> QED
      BY <2>2, <3>2 DEF RefresherProbed, StampInv, WritersTrail, BackfillTrails, StampNeverLeads,
                        database
  <2>3. CASE RefresherSkipsProbe \/ Reconcile \/ CooldownEnds
    BY <2>3 DEF RefresherSkipsProbe, Reconcile, CooldownEnds, StampInv, AdapterTrails,
                WritersTrail, BackfillTrails, StampNeverLeads, database, adapter
  <2>4. CASE Repull
    <3>1. weights' = weights + 1 /\ UNCHANGED <<row, revision, probe, writer, backfill>>
      BY <2>4 DEF Repull, database, adapter
    <3>2. /\ revision \in Nat /\ probe.seen \in Nat /\ backfill.snap \in Nat
          /\ \A w \in Writers : writer[w].snap \in Nat
      BY LifecycleAssumption
      DEF Typed, TypeOK, Snapshots, Revisions, Unknown, BackfillStates, WriterStates
    <3>3. AdapterTrails' /\ WritersTrail'
      BY <1>0, <3>1, <3>2 DEF StampInv, AdapterTrails, WritersTrail
    <3>4. BackfillTrails' /\ StampNeverLeads'
      BY <1>0, <3>1, <3>2 DEF StampInv, BackfillTrails, StampNeverLeads
    <3> QED
      BY <3>3, <3>4 DEF StampInv
  <2>5. CASE Crash
    <3>1. AdapterTrails' /\ BackfillTrails'
      BY <1>0, <2>5 DEF Crash, AdapterTrails, BackfillTrails, FreeProbe, IdleBackfill, Unknown
    <3>2. WritersTrail'
      BY <2>5 DEF Crash, WritersTrail, IdleWriter
    <3> QED
      BY <2>5, <3>1, <3>2 DEF Crash, StampInv, StampNeverLeads, database
  <2> QED
    BY <1>5, <2>1, <2>2, <2>3, <2>4, <2>5 DEF OtherAction, RefresherStep
<1> QED
  BY <1>1, <1>3, <1>4, <1>5, NextSplit

(***************************************************************************)
(* Nothing is owed once reconciled.                                        *)
(***************************************************************************)
\* A probe under way has seen a digest.
ProbeSawDigest == probe.by # Nobody => probe.seen # Unknown

\* A backfill past its refresh, or one completed in this process, has made
\* the revision known, and a process never unlearns it; so no request is
\* refused after that, and what a whole-corpus listing cleared stays clear.
RefusalsOver ==
    /\ backfill.pc \in {"list", "check", "work"} => revision # Unknown /\ backfill.snap # Unknown
    /\ reconciled # Unknown => revision # Unknown
    /\ (backfill.pc \in {"check", "work"} /\ backfill.scope = Mem) => owed = {}

OwedInv == ProbeSawDigest /\ RefusalsOver /\ NothingOwedOnceReconciled

\* A probe returns what the adapter then knows, and never unlearns it.
LEMMA ProbeLearns ==
    ASSUME Typed, ProbeSawDigest, NEW who, who # Nobody, NEW snap, EndProbe(who, snap)
    PROVE  /\ ProbeSawDigest'
           /\ revision' = snap
           /\ revision # Unknown => snap # Unknown
BY DEF EndProbe, ProbeSawDigest, FreeProbe

\* Every step keeps the accounts of what is owed.
LEMMA NextOwed ==
    ASSUME LifecycleAssumption, Typed, VectorsAtWork, OwedInv, [Next]_vars
    PROVE  OwedInv'
<1>0. backfill \in BackfillStates /\ Unknown \notin Revisions /\ weights \in Revisions
  BY DEF Typed, TypeOK, Unknown, Revisions
<1>1. Backfiller # Nobody /\ Refresher # Nobody /\ \A w \in Writers : w # Nobody
  BY LifecycleAssumption DEF Backfiller, Refresher, Nobody
<1>2. ASSUME UNCHANGED <<backfill, reconciled>>, ProbeSawDigest',
             revision # Unknown => revision' # Unknown /\ owed' \subseteq owed
      PROVE  OwedInv'
  BY <1>2 DEF OwedInv, RefusalsOver, NothingOwedOnceReconciled
<1>3. CASE UNCHANGED vars
  BY <1>3 DEF vars, adapter, service, history, OwedInv, RefusalsOver, NothingOwedOnceReconciled,
              ProbeSawDigest
<1>4. ASSUME NEW w \in Writers, Request(w) \/ WriterStep(w) \/ WriterEmbedFails(w)
      PROVE  OwedInv'
  <2>1. UNCHANGED <<backfill, reconciled>>
    BY <1>4 DEF Request, WriterStep, AddMemory, UpdateMemory, DeleteMemory, Invalidate,
                ReadSnapshot, RefreshWithoutProbe, RefreshWithProbe, WriterProbed, WriterEmbeds,
                WriterSaves, WriterEmbedFails, service
  <2>2. CASE WriterProbed(w)
    <3>1. PICK snap \in Snapshots : EndProbe(w, snap) /\ WriterProceeds(w, snap)
      BY <2>2 DEF WriterProbed
    <3>2. ProbeSawDigest' /\ revision' = snap /\ (revision # Unknown => snap # Unknown)
      BY <1>1, <3>1, ProbeLearns DEF OwedInv
    <3>3. snap # Unknown => owed' = owed
      BY <3>1 DEF WriterProceeds
    <3> QED
      BY <1>2, <2>1, <3>2, <3>3
  <2>3. CASE RefreshWithProbe(w)
    <3>1. ProbeSawDigest'
      BY <1>0, <2>3 DEF RefreshWithProbe, StartProbe, ProbeSawDigest
    <3> QED
      BY <1>2, <2>1, <2>3, <3>1 DEF RefreshWithProbe, history
  <2>4. CASE ReadSnapshot(w) \/ RefreshWithoutProbe(w)
    <3>1. UNCHANGED <<revision, probe>> /\ (revision # Unknown => owed' = owed)
      BY <2>4 DEF ReadSnapshot, RefreshWithoutProbe, WriterProceeds, adapter
    <3> QED
      BY <1>2, <2>1, <3>1 DEF OwedInv, ProbeSawDigest
  <2>5. CASE UNCHANGED <<revision, probe>> /\ owed' \subseteq owed
    BY <1>2, <2>1, <2>5 DEF OwedInv, ProbeSawDigest
  <2> QED
    BY <1>4, <2>2, <2>3, <2>4, <2>5
    DEF Request, WriterStep, AddMemory, UpdateMemory, DeleteMemory, Invalidate, WriterEmbeds,
        WriterSaves, WriterEmbedFails, adapter, history
<1>5. CASE BackfillAction
  <2>1. ASSUME backfill'.pc \in {"idle", "refresh", "probing"}, UNCHANGED <<reconciled, owed>>,
               ProbeSawDigest', revision # Unknown => revision' # Unknown
        PROVE  OwedInv'
    BY <2>1 DEF OwedInv, RefusalsOver, NothingOwedOnceReconciled
  <2>2. ASSUME NEW scope, NEW force, StartBackfill(scope, force)
        PROVE  OwedInv'
    BY <2>1, <2>2 DEF StartBackfill, IdleBackfill, OwedInv, ProbeSawDigest, adapter, service, history
  <2>3. CASE StartQueued
    <3>1. CASE backfill.pc = "idle"
      BY <2>1, <2>3, <3>1 DEF StartQueued, IdleBackfill, OwedInv, ProbeSawDigest, adapter, history
    <3>2. CASE backfill.pc # "idle"
      BY <1>2, <2>3, <3>2 DEF StartQueued, OwedInv, ProbeSawDigest, adapter, history
    <3> QED
      BY <3>1, <3>2
  <2>4. CASE BackfillProbes
    <3>1. ProbeSawDigest'
      BY <1>0, <2>4 DEF BackfillProbes, StartProbe, ProbeSawDigest
    <3>2. backfill'.pc = "probing"
      BY <1>0, <2>4 DEF BackfillProbes, BackfillStates
    <3> QED
      BY <2>1, <2>4, <3>1, <3>2 DEF BackfillProbes, service, history
  <2>5. ASSUME NEW snap, BackfillProceeds(snap), revision' = snap, UNCHANGED <<reconciled, owed>>,
               ProbeSawDigest', revision # Unknown => revision' # Unknown
        PROVE  OwedInv'
    <3>1. CASE snap = Unknown
      BY <2>1, <2>5, <3>1 DEF BackfillProceeds, IdleBackfill
    <3>2. CASE snap # Unknown
      <4>1. backfill'.pc = "list" /\ backfill'.snap = snap
        BY <1>0, <2>5, <3>2 DEF BackfillProceeds, BackfillStates
      <4> QED
        BY <2>5, <3>2, <4>1 DEF OwedInv, RefusalsOver, NothingOwedOnceReconciled
    <3> QED
      BY <3>1, <3>2
  <2>6. CASE BackfillProbed
    <3>1. PICK snap \in Snapshots : EndProbe(Backfiller, snap) /\ BackfillProceeds(snap)
      BY <2>6 DEF BackfillProbed
    <3>2. ProbeSawDigest' /\ revision' = snap /\ (revision # Unknown => snap # Unknown)
      BY <1>1, <3>1, ProbeLearns DEF OwedInv
    <3> QED
      BY <2>5, <2>6, <3>1, <3>2 DEF BackfillProbed, service, history
  <2>7. CASE BackfillSkipsProbe
    <3>1. PICK snap : snap = revision
      OBVIOUS
    <3>2. BackfillProceeds(snap) /\ UNCHANGED <<revision, probe, reconciled, owed>>
      BY <2>7, <3>1 DEF BackfillSkipsProbe, adapter, service, history
    <3> QED
      BY <2>5, <3>1, <3>2 DEF OwedInv, ProbeSawDigest
  <2>8. CASE ListMemory
    <3>1. /\ backfill.pc = "list" /\ backfill'.pc = "check" /\ backfill'.snap = backfill.snap
          /\ backfill'.scope = backfill.scope
          /\ owed' = owed \ backfill.scope /\ owed \subseteq Mem
          /\ UNCHANGED <<revision, probe, reconciled>>
      BY <1>0, <2>8 DEF ListMemory, BackfillStates, Typed, TypeOK, adapter, service
    <3> QED
      BY <3>1 DEF OwedInv, ProbeSawDigest, RefusalsOver, NothingOwedOnceReconciled
  <2>9. ASSUME backfill.pc \in {"check", "work"}, backfill'.pc \in {"check", "work"},
               backfill'.snap = backfill.snap, backfill'.scope = backfill.scope,
               UNCHANGED <<revision, probe, reconciled, owed>>
        PROVE  OwedInv'
    BY <2>9 DEF OwedInv, ProbeSawDigest, RefusalsOver, NothingOwedOnceReconciled
  <2>10. CASE CheckNothing \/ \E item \in backfill.listed : CheckItem(item)
    BY <1>0, <2>9, <2>10
    DEF CheckNothing, CheckItem, BackfillStates, adapter, service, history
  <2>11. CASE \/ \E items \in SUBSET backfill.todo : EmbedChunk(items) \/ ChunkFails(items)
              \/ \E item \in backfill.chunk : EmbedItem(item) \/ ItemFails(item)
              \/ \E vec \in backfill.vectors : BackfillSaves(vec)
    <3>1. backfill.pc = "work"
      BY <2>11 DEF EmbedChunk, ChunkFails, BetweenChunks, VectorsAtWork
    <3>2. /\ backfill'.pc = backfill.pc /\ backfill'.snap = backfill.snap
          /\ backfill'.scope = backfill.scope
      <4>1. CASE \E items \in SUBSET backfill.todo : EmbedChunk(items)
        BY <1>0, <4>1 DEF EmbedChunk, BackfillStates
      <4>2. CASE \E items \in SUBSET backfill.todo : ChunkFails(items)
        BY <1>0, <4>2 DEF ChunkFails, BackfillStates
      <4>3. CASE \E item \in backfill.chunk : EmbedItem(item) \/ ItemFails(item)
        BY <1>0, <4>3 DEF EmbedItem, ItemFails, BackfillStates
      <4>4. CASE \E vec \in backfill.vectors : BackfillSaves(vec)
        BY <1>0, <4>4 DEF BackfillSaves, BackfillStates
      <4> QED
        BY <2>11, <4>1, <4>2, <4>3, <4>4
    <3>3. UNCHANGED <<revision, probe, reconciled, owed>>
      BY <2>11 DEF EmbedChunk, ChunkFails, EmbedItem, ItemFails, BackfillSaves, adapter, service,
                   history
    <3> QED
      BY <2>9, <3>1, <3>2, <3>3
  <2>12. CASE FinishBackfill
    <3>1. /\ backfill.pc = "work" /\ backfill'.pc = "idle"
          /\ reconciled' = IF backfill.scope = Mem THEN backfill.snap ELSE reconciled
          /\ UNCHANGED <<revision, probe, owed>>
      BY <2>12 DEF FinishBackfill, BetweenChunks, IdleBackfill, adapter, history
    <3> QED
      BY <3>1 DEF OwedInv, ProbeSawDigest, RefusalsOver, NothingOwedOnceReconciled
  <2> QED
    BY <1>5, <2>2, <2>3, <2>4, <2>6, <2>7, <2>8, <2>10, <2>11, <2>12
    DEF BackfillAction, BackfillStep
<1>6. CASE OtherAction
  <2>1. CASE RefresherProbes
    <3>1. ProbeSawDigest'
      BY <1>0, <2>1 DEF RefresherProbes, StartProbe, ProbeSawDigest
    <3> QED
      BY <1>2, <2>1, <3>1 DEF RefresherProbes, service, history
  <2>2. CASE RefresherProbed
    <3>1. PICK snap : EndProbe(Refresher, snap)
      BY <2>2 DEF RefresherProbed
    <3>2. ProbeSawDigest' /\ (revision # Unknown => revision' # Unknown)
      BY <1>1, <3>1, ProbeLearns DEF OwedInv
    <3> QED
      BY <1>2, <2>2, <3>2 DEF RefresherProbed, service, history
  <2>3. CASE RefresherSkipsProbe \/ Reconcile \/ CooldownEnds \/ Repull
    BY <1>2, <2>3 DEF RefresherSkipsProbe, Reconcile, CooldownEnds, Repull, OwedInv,
                      ProbeSawDigest, adapter, service, history
  <2>4. CASE Crash
    BY <2>4 DEF Crash, OwedInv, ProbeSawDigest, RefusalsOver, NothingOwedOnceReconciled,
                FreeProbe, IdleBackfill
  <2> QED
    BY <1>6, <2>1, <2>2, <2>3, <2>4 DEF OtherAction, RefresherStep
<1> QED
  BY <1>3, <1>4, <1>5, <1>6, NextSplit

(***************************************************************************)
(* Theorems.                                                               *)
(***************************************************************************)
\* Every thread, the backfill and the refresher stay within their types, and
\* a busy thread always has a memory and a text.
THEOREM TypeCorrect == ASSUME LifecycleAssumption PROVE Spec => [](TypeOK /\ BusyWriters)
<1>1. Init => Typed
  BY InitTyped
<1>2. Typed /\ [Next]_vars => Typed'
  BY NextTyped
<1>3. Typed <=> TypeOK /\ BusyWriters
  BY DEF Typed
<1> QED
  BY <1>1, <1>2, <1>3, PTL DEF Spec

\* No race of add, update, delete, backfill, refresher and crash leaves a
\* vector of another content, or of a deleted memory, other than an update
\* caught between its two store calls.
THEOREM VectorsFollowContent == ASSUME LifecycleAssumption PROVE Spec => []RowsFollowContent
<1>1. Init => Typed /\ RowsFollowContent
  <2>1. Init => RowsFollowContent
    BY DEF Init, RowsFollowContent, NoRow
  <2> QED
    BY <2>1, InitTyped
<1>2. Typed /\ RowsFollowContent /\ [Next]_vars => (Typed /\ RowsFollowContent)'
  BY NextTyped, NextRows
<1> QED
  BY <1>1, <1>2, PTL DEF Spec

\* However re-pulls, probes, requests and backfills interleave, no vector is
\* stamped with a revision newer than the weights that made it.
THEOREM StampsTrail == ASSUME LifecycleAssumption PROVE Spec => []StampNeverLeads
<1> DEFINE Inv == Typed /\ VectorsAtWork /\ StampInv
<1>1. Init => Inv
  <2>1. Init => VectorsAtWork
    BY DEF Init, VectorsAtWork, IdleBackfill
  <2> QED
    BY <2>1, InitTyped, InitStamps
<1>2. Inv /\ [Next]_vars => Inv'
  BY NextTyped, NextVectors, NextStamps
<1>3. Inv => StampNeverLeads
  BY DEF StampInv
<1> QED
  BY <1>1, <1>2, <1>3, PTL DEF Spec

\* A completed whole-corpus backfill has seen every memory whose embedding
\* was refused or cut off before, and nothing is refused afterwards.
THEOREM ReconciledMeansCovered ==
    ASSUME LifecycleAssumption PROVE Spec => []NothingOwedOnceReconciled
<1> DEFINE Inv == Typed /\ VectorsAtWork /\ OwedInv
<1>1. Init => Inv
  <2>1. Init => VectorsAtWork /\ OwedInv
    BY DEF Init, VectorsAtWork, IdleBackfill, OwedInv, ProbeSawDigest, RefusalsOver,
           NothingOwedOnceReconciled, FreeProbe
  <2> QED
    BY <2>1, InitTyped
<1>2. Inv /\ [Next]_vars => Inv'
  BY NextTyped, NextVectors, NextOwed
<1>3. Inv => NothingOwedOnceReconciled
  BY DEF OwedInv
<1> QED
  BY <1>1, <1>2, <1>3, PTL DEF Spec
=============================================================================
