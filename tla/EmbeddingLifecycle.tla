-------------------------- MODULE EmbeddingLifecycle --------------------------
(***************************************************************************)
(* How a memory's vector follows its content and the model's weights.      *)
(*                                                                         *)
(* Request threads add, update and delete memories (use_cases/add_memory,  *)
(* update_memory, delete_memory) and embed them through EmbeddingService;  *)
(* one backfill at a time re-embeds whatever is out of date; a refresher   *)
(* keeps the model revision verified and starts a backfill when it has     *)
(* changed.  Every store call is atomic (the store lock), every provider   *)
(* call happens outside it, so all of these interleave between calls.      *)
(*                                                                         *)
(* The provider is external: `weights` is the revision it really serves    *)
(* and only grows (an operator re-pulls a tag), `revision` is what the     *)
(* Ollama adapter has verified, Unknown until a probe has succeeded.       *)
(* A vector is abstracted to the weights that made it, a content hash to   *)
(* the content.                                                            *)
(***************************************************************************)
EXTENDS Integers, FiniteSets

CONSTANTS
    Mem,          \* memory ids
    Contents,     \* texts a memory can hold
    Absent,       \* the content of an id not stored yet
    Deleted,      \* the content of an id deleted for good
    Writers,      \* request threads
    Projects,     \* the proper subsets of Mem a project backfill may cover
    TooLong,      \* <<content, revision>> pairs the model rejects for length
    ChunkSize,    \* _BACKFILL_CHUNK_SIZE
    AutoBackfill, \* does the refresher start backfills?
    MaxRevision, MaxOps, MaxFaults, MaxCrashes   \* bounds

Unknown == 0
Revisions == 1..MaxRevision
Snapshots == Revisions \union {Unknown}
Nobody == "nobody"
Backfiller == "backfill"
Refresher == "refresher"

ASSUME LifecycleAssumption ==
    /\ Absent \notin Contents /\ Deleted \notin Contents /\ Absent # Deleted
    /\ Absent \notin Mem
    /\ Projects \subseteq (SUBSET Mem) \ {Mem}
    /\ TooLong \subseteq Contents \X Revisions
    /\ ChunkSize \in Nat \ {0}
    /\ AutoBackfill \in BOOLEAN
    /\ MaxRevision \in Nat \ {0}
    /\ MaxOps \in Nat /\ MaxFaults \in Nat /\ MaxCrashes \in Nat
    /\ {Nobody, Backfiller, Refresher} \intersect Writers = {}

VARIABLES
    \* The database.
    content,     \* memory_items
    row,         \* memory_embeddings
    \* The provider.
    weights,
    \* The adapter.
    revision,    \* _revision
    cooldown,    \* is a failed probe's cooldown running?
    probe,       \* who holds _probe_lock, and the digest its request saw
    \* The service.
    writer,      \* each request thread's place in its use case
    backfill,    \* the holder of _backfill_lock
    queued,      \* a background backfill task created but not started
    reconciled,  \* _reconciled_revision, Unknown for _NOT_RECONCILED
    refresher,
    \* Bounds used up.
    ops, faults, crashes,
    \* History.
    owed,        \* memories whose embedding was refused or cut off by a crash
    torn         \* memories whose update a crash cut before the invalidation

database == <<content, row>>
adapter == <<revision, cooldown, probe>>
service == <<queued, reconciled>>
bounds == <<ops, faults, crashes>>
history == <<owed, torn>>
vars == <<database, weights, adapter, writer, backfill, service, refresher,
          bounds, history>>

(***************************************************************************)
(* Values.                                                                 *)
(***************************************************************************)
Text == Contents \union {Absent}
NoRow == [status |-> "none", hash |-> Absent, stamp |-> Unknown, made |-> Unknown]
Rows == [status : {"none", "ok", "content_too_long"}, hash : Text,
         stamp : Snapshots, made : Snapshots]

IdleWriter == [pc |-> "idle", mem |-> Absent, text |-> Absent, force |-> FALSE,
               snap |-> Unknown, made |-> Unknown, status |-> "none"]
WriterStates ==
    [pc : {"idle", "invalidate", "snapshot", "refresh", "probing", "embed", "save"},
     mem : Mem \union {Absent}, text : Text, force : BOOLEAN, snap : Snapshots, made : Snapshots,
     status : {"none", "ok", "content_too_long"}]

Items == [mem : Mem, text : Contents]
Vectors == [mem : Mem, text : Contents, made : Revisions,
            status : {"ok", "content_too_long"}]
IdleBackfill == [pc |-> "idle", scope |-> {}, force |-> FALSE, snap |-> Unknown,
                 listed |-> {}, todo |-> {}, chunk |-> {}, vectors |-> {}]
BackfillStates ==
    [pc : {"idle", "refresh", "probing", "list", "check", "work"},
     scope : SUBSET Mem, force : BOOLEAN, snap : Snapshots, listed : SUBSET Items,
     todo : SUBSET Items, chunk : SUBSET Items, vectors : SUBSET Vectors]

IdleRefresher == [pc |-> "asleep", snap |-> Unknown]
RefresherStates == [pc : {"asleep", "probing", "reconcile"}, snap : Snapshots]
FreeProbe == [by |-> Nobody, seen |-> Unknown]

Init ==
    /\ content = [m \in Mem |-> Absent]
    /\ row = [m \in Mem |-> NoRow]
    /\ weights = 1
    /\ revision = Unknown
    /\ cooldown = FALSE
    /\ probe = FreeProbe
    /\ writer = [w \in Writers |-> IdleWriter]
    /\ backfill = IdleBackfill
    /\ queued = FALSE
    /\ reconciled = Unknown
    /\ refresher = IdleRefresher
    /\ ops = 0 /\ faults = 0 /\ crashes = 0
    /\ owed = {}
    /\ torn = {}

(***************************************************************************)
(* The store (persistence/sqlite_store.py), one call each.                 *)
(***************************************************************************)
Exists(m) == content[m] \in Contents

\* EmbeddingService._is_current over get_embedding_identity.
IsCurrent(m, text, snap) ==
    row[m].status # "none" /\ row[m].hash = text /\ row[m].stamp = snap

\* Bug: last writer wins; only the memory's existence is checked.
SaveEmbeddingBlindly(m, text, snap, made, status) ==
    IF Exists(m)
    THEN /\ row' = [row EXCEPT ![m] = [status |-> status, hash |-> text,
                                       stamp |-> snap, made |-> made]]
         /\ torn' = torn \ {m}
    ELSE UNCHANGED <<row, torn>>

\* save_embedding: published only if the memory still holds that content.
SaveEmbedding(m, text, snap, made, status) ==
    IF content[m] = text
    THEN /\ row' = [row EXCEPT ![m] = [status |-> status, hash |-> text,
                                       stamp |-> snap, made |-> made]]
         /\ torn' = torn \ {m}
    ELSE UNCHANGED <<row, torn>>

\* delete_embedding.
DeleteEmbedding(m) ==
    /\ row' = [row EXCEPT ![m] = NoRow]
    /\ torn' = torn \ {m}

(***************************************************************************)
(* The adapter (embedding/ollama_adapter.py).                              *)
(***************************************************************************)
Fault == faults < MaxFaults /\ faults' = faults + 1

\* _probe sends its request; the lock is held until the answer is handled.
StartProbe(who) ==
    /\ probe.by = Nobody
    /\ probe' = [by |-> who, seen |-> weights]

\* The answer: the digest the server listed, or a failure, which never changes
\* a verified revision.  `snap` is what refresh_revision returns.
EndProbe(who, snap) ==
    /\ probe.by = who
    /\ probe' = FreeProbe
    /\ \/ /\ snap = probe.seen
          /\ revision' = snap
          /\ cooldown' = FALSE
          /\ UNCHANGED faults
       \/ /\ snap = revision
          /\ cooldown' = TRUE
          /\ Fault
          /\ UNCHANGED revision

\* PROBE_COOLDOWN_SECONDS have passed.
CooldownEnds ==
    /\ cooldown
    /\ cooldown' = FALSE
    /\ UNCHANGED <<database, weights, revision, probe, writer, backfill, service,
                   refresher, bounds, history>>

\* The external provider: an operator pulls new weights under the same tag.
Repull ==
    /\ weights < MaxRevision
    /\ weights' = weights + 1
    /\ UNCHANGED <<database, adapter, writer, backfill, service, refresher,
                   bounds, history>>

\* What the provider answers for one text, now.
Answer(text) == IF <<text, weights>> \in TooLong THEN "content_too_long" ELSE "ok"

(***************************************************************************)
(* Request threads.                                                        *)
(***************************************************************************)
Operation == ops < MaxOps /\ ops' = ops + 1

AddMemory(w, m, c) ==
    /\ writer[w].pc = "idle"
    /\ content[m] = Absent
    /\ Operation
    /\ content' = [content EXCEPT ![m] = c]
    /\ writer' = [writer EXCEPT ![w] = [IdleWriter EXCEPT !.pc = "snapshot", !.mem = m, !.text = c]]
    /\ UNCHANGED <<row, weights, adapter, backfill, service, refresher, faults,
                   crashes, history>>

UpdateMemory(w, m, c) ==
    /\ writer[w].pc = "idle"
    /\ Exists(m)
    /\ Operation
    /\ content' = [content EXCEPT ![m] = c]
    /\ writer' = [writer EXCEPT ![w] = [IdleWriter EXCEPT
                      !.pc = "invalidate", !.mem = m, !.text = c, !.force = TRUE]]
    /\ UNCHANGED <<row, weights, adapter, backfill, service, refresher, faults,
                   crashes, history>>

\* The row goes with the memory (ON DELETE CASCADE).
DeleteMemory(w, m) ==
    /\ writer[w].pc = "idle"
    /\ Exists(m)
    /\ Operation
    /\ content' = [content EXCEPT ![m] = Deleted]
    /\ DeleteEmbedding(m)
    /\ owed' = owed \ {m}
    /\ UNCHANGED <<weights, adapter, writer, backfill, service, refresher, faults,
                   crashes>>

\* update_memory drops the old vector before it tries to make a new one.
Invalidate(w) ==
    /\ writer[w].pc = "invalidate"
    /\ DeleteEmbedding(writer[w].mem)
    /\ writer' = [writer EXCEPT ![w].pc = "snapshot"]
    /\ UNCHANGED <<content, weights, adapter, backfill, service, refresher, bounds, owed>>

\* generate_for_memory goes on with a verified revision, or is refused.
WriterProceeds(w, snap) ==
    LET me == writer[w] IN
    IF snap = Unknown
    THEN /\ writer' = [writer EXCEPT ![w] = IdleWriter]
         /\ owed' = IF Exists(me.mem) THEN owed \union {me.mem} ELSE owed
    ELSE /\ writer' = [writer EXCEPT ![w] =
                          IF ~me.force /\ IsCurrent(me.mem, me.text, snap)
                          THEN IdleWriter
                          ELSE [me EXCEPT !.pc = "embed", !.snap = snap]]
         /\ UNCHANGED owed

ReadSnapshot(w) ==
    /\ writer[w].pc = "snapshot"
    /\ IF revision = Unknown
       THEN writer' = [writer EXCEPT ![w].pc = "refresh"] /\ UNCHANGED owed
       ELSE WriterProceeds(w, revision)
    /\ UNCHANGED <<database, weights, adapter, backfill, service, refresher,
                   bounds, torn>>

\* refresh_revision() without force: no probe once known or in a cooldown; a
\* probe of someone else's that outlasts the wait leaves the value as it is.
RefreshWithoutProbe(w) ==
    /\ writer[w].pc = "refresh"
    /\ probe.by # Nobody \/ revision # Unknown \/ cooldown
    /\ WriterProceeds(w, revision)
    /\ UNCHANGED <<database, weights, adapter, backfill, service, refresher,
                   bounds, torn>>

RefreshWithProbe(w) ==
    /\ writer[w].pc = "refresh"
    /\ revision = Unknown /\ ~cooldown
    /\ StartProbe(w)
    /\ writer' = [writer EXCEPT ![w].pc = "probing"]
    /\ UNCHANGED <<database, weights, revision, cooldown, backfill, service,
                   refresher, bounds, history>>

WriterProbed(w) ==
    /\ writer[w].pc = "probing"
    /\ \E snap \in Snapshots : EndProbe(w, snap) /\ WriterProceeds(w, snap)
    /\ UNCHANGED <<database, weights, backfill, service, refresher, ops, crashes, torn>>

\* _embed_single, outside the store lock.  A success ends the probe cooldown.
WriterEmbeds(w) ==
    LET answer == Answer(writer[w].text) IN
    /\ writer[w].pc = "embed"
    /\ writer' = [writer EXCEPT ![w].pc = "save", ![w].made = weights, ![w].status = answer]
    /\ cooldown' = (cooldown /\ answer # "ok")
    /\ UNCHANGED <<database, weights, revision, probe, backfill, service, refresher,
                   bounds, history>>

\* Logged and swallowed: the memory is stored, its vector is missing.
WriterEmbedFails(w) ==
    /\ writer[w].pc = "embed"
    /\ Fault
    /\ writer' = [writer EXCEPT ![w] = IdleWriter]
    /\ UNCHANGED <<database, weights, adapter, backfill, service, refresher, ops,
                   crashes, history>>

\* Bug: the stamp is read after the provider call, not before it.
WriterSavesLateStamp(w) ==
    LET me == writer[w] IN
    /\ me.pc = "save"
    /\ SaveEmbedding(me.mem, me.text, revision, me.made, me.status)
    /\ writer' = [writer EXCEPT ![w] = IdleWriter]
    /\ UNCHANGED <<content, weights, adapter, backfill, service, refresher, bounds, owed>>

\* The vector, or the tombstone of a text the model rejected.
WriterSaves(w) ==
    LET me == writer[w] IN
    /\ me.pc = "save"
    /\ SaveEmbedding(me.mem, me.text, me.snap, me.made, me.status)
    /\ writer' = [writer EXCEPT ![w] = IdleWriter]
    /\ UNCHANGED <<content, weights, adapter, backfill, service, refresher, bounds, owed>>

(***************************************************************************)
(* generate_missing.                                                       *)
(***************************************************************************)
BackfillRunning == queued \/ backfill.pc # "idle"

\* The maintenance job, memory_embed or the CLI call generate_missing; one
\* that finds the lock taken returns `skipped` and changes nothing.
StartBackfill(scope, force) ==
    /\ backfill.pc = "idle"
    /\ backfill' = [IdleBackfill EXCEPT !.pc = "refresh", !.scope = scope, !.force = force]
    /\ UNCHANGED <<database, weights, adapter, writer, service, refresher, bounds, history>>

\* The refresher's background task gets to run generate_missing.
StartQueued ==
    /\ queued
    /\ queued' = FALSE
    /\ backfill' = IF backfill.pc = "idle"
                   THEN [IdleBackfill EXCEPT !.pc = "refresh", !.scope = Mem]
                   ELSE backfill
    /\ UNCHANGED <<database, weights, adapter, writer, reconciled, refresher,
                   bounds, history>>

\* Bug: the error path leaves _backfill_lock held.
BackfillProceedsLeakingLock(snap) ==
    backfill' = IF snap = Unknown
                THEN [backfill EXCEPT !.pc = "leaked"]
                ELSE [backfill EXCEPT !.pc = "list", !.snap = snap]

\* An unverified revision raises before any candidate is selected.
BackfillProceeds(snap) ==
    backfill' = IF snap = Unknown
                THEN IdleBackfill
                ELSE [backfill EXCEPT !.pc = "list", !.snap = snap]

BackfillProbes ==
    /\ backfill.pc = "refresh"
    /\ StartProbe(Backfiller)
    /\ backfill' = [backfill EXCEPT !.pc = "probing"]
    /\ UNCHANGED <<database, weights, revision, cooldown, writer, service,
                   refresher, bounds, history>>

\* The wait for someone else's probe timed out.
BackfillSkipsProbe ==
    /\ backfill.pc = "refresh"
    /\ probe.by # Nobody
    /\ BackfillProceeds(revision)
    /\ UNCHANGED <<database, weights, adapter, writer, service, refresher, bounds, history>>

BackfillProbed ==
    /\ backfill.pc = "probing"
    /\ \E snap \in Snapshots : EndProbe(Backfiller, snap) /\ BackfillProceeds(snap)
    /\ UNCHANGED <<database, weights, writer, service, refresher, ops, crashes, history>>

\* list_memory.
ListMemory ==
    /\ backfill.pc = "list"
    /\ LET found == {m \in backfill.scope : Exists(m)} IN
       /\ backfill' = [backfill EXCEPT !.pc = "check",
                           !.listed = {[mem |-> m, text |-> content[m]] : m \in found}]
       /\ owed' = owed \ backfill.scope
    /\ UNCHANGED <<database, weights, adapter, writer, service, refresher, bounds, torn>>

\* Currency is checked item by item, each against the row as it is by then.
CheckItem(item) ==
    /\ backfill.pc = "check"
    /\ item \in backfill.listed
    /\ LET skip == ~backfill.force /\ IsCurrent(item.mem, item.text, backfill.snap) IN
       backfill' = [backfill EXCEPT
                        !.listed = @ \ {item},
                        !.todo = IF skip THEN @ ELSE @ \union {item},
                        !.pc = IF backfill.listed = {item} THEN "work" ELSE "check"]
    /\ UNCHANGED <<database, weights, adapter, writer, service, refresher, bounds, history>>

\* list_memory found nothing.
CheckNothing ==
    /\ backfill.pc = "check"
    /\ backfill.listed = {}
    /\ backfill' = [backfill EXCEPT !.pc = "work"]
    /\ UNCHANGED <<database, weights, adapter, writer, service, refresher, bounds, history>>

BetweenChunks == backfill.pc = "work" /\ backfill.chunk = {} /\ backfill.vectors = {}

IsChunk(items) ==
    /\ items \subseteq backfill.todo
    /\ items # {}
    /\ Cardinality(items) <= ChunkSize
    /\ items = backfill.todo \/ Cardinality(items) = ChunkSize

Vector(item) == [mem |-> item.mem, text |-> item.text, made |-> weights,
                 status |-> Answer(item.text)]

\* embed_batch on one chunk: one over-long text fails the whole request, and
\* the chunk is then retried item by item.
EmbedChunk(items) ==
    /\ BetweenChunks
    /\ IsChunk(items)
    /\ LET rejected == \E item \in items : Answer(item.text) # "ok" IN
       /\ backfill' = [backfill EXCEPT
                           !.todo = @ \ items,
                           !.chunk = IF rejected THEN items ELSE {},
                           !.vectors = IF rejected THEN {} ELSE {Vector(item) : item \in items}]
       /\ cooldown' = (cooldown /\ rejected)
    /\ UNCHANGED <<database, weights, revision, probe, writer, service, refresher,
                   bounds, history>>

ChunkFails(items) ==
    /\ BetweenChunks
    /\ IsChunk(items)
    /\ Fault
    /\ backfill' = [backfill EXCEPT !.todo = @ \ items, !.chunk = items]
    /\ UNCHANGED <<database, weights, adapter, writer, service, refresher, ops,
                   crashes, history>>

EmbedItem(item) ==
    /\ item \in backfill.chunk
    /\ backfill.vectors = {}
    /\ backfill' = [backfill EXCEPT !.chunk = @ \ {item}, !.vectors = {Vector(item)}]
    /\ cooldown' = (cooldown /\ Answer(item.text) # "ok")
    /\ UNCHANGED <<database, weights, revision, probe, writer, service, refresher,
                   bounds, history>>

ItemFails(item) ==
    /\ item \in backfill.chunk
    /\ backfill.vectors = {}
    /\ Fault
    /\ backfill' = [backfill EXCEPT !.chunk = @ \ {item}]
    /\ UNCHANGED <<database, weights, adapter, writer, service, refresher, ops,
                   crashes, history>>

BackfillSaves(vec) ==
    /\ vec \in backfill.vectors
    /\ SaveEmbedding(vec.mem, vec.text, backfill.snap, vec.made, vec.status)
    /\ backfill' = [backfill EXCEPT !.vectors = @ \ {vec}]
    /\ UNCHANGED <<content, weights, adapter, writer, service, refresher, bounds, owed>>

\* Bug: a project's backfill passes for a whole-corpus one.
FinishAnyBackfill ==
    /\ BetweenChunks
    /\ backfill.todo = {}
    /\ reconciled' = backfill.snap
    /\ backfill' = IdleBackfill
    /\ UNCHANGED <<database, weights, adapter, writer, queued, refresher, bounds, history>>

\* A whole-corpus run records the revision it used, whatever items failed.
FinishBackfill ==
    /\ BetweenChunks
    /\ backfill.todo = {}
    /\ reconciled' = IF backfill.scope = Mem THEN backfill.snap ELSE reconciled
    /\ backfill' = IdleBackfill
    /\ UNCHANGED <<database, weights, adapter, writer, queued, refresher, bounds, history>>

(***************************************************************************)
(* The revision refresher.                                                 *)
(***************************************************************************)
RefresherProbes ==
    /\ refresher.pc = "asleep"
    /\ StartProbe(Refresher)
    /\ refresher' = [refresher EXCEPT !.pc = "probing"]
    /\ UNCHANGED <<database, weights, revision, cooldown, writer, backfill, service,
                   bounds, history>>

RefresherSkipsProbe ==
    /\ refresher.pc = "asleep"
    /\ probe.by # Nobody
    /\ refresher' = [pc |-> "reconcile", snap |-> revision]
    /\ UNCHANGED <<database, weights, adapter, writer, backfill, service, bounds, history>>

RefresherProbed ==
    /\ refresher.pc = "probing"
    /\ \E snap \in Snapshots :
          /\ EndProbe(Refresher, snap)
          /\ refresher' = [pc |-> "reconcile", snap |-> snap]
    /\ UNCHANGED <<database, weights, writer, backfill, service, ops, crashes, history>>

\* _reconcile, then sleep.
Reconcile ==
    /\ refresher.pc = "reconcile"
    /\ queued' = (queued \/ (/\ AutoBackfill
                             /\ refresher.snap # Unknown
                             /\ reconciled # refresher.snap
                             /\ ~BackfillRunning))
    /\ refresher' = IdleRefresher
    /\ UNCHANGED <<database, weights, adapter, writer, backfill, reconciled,
                   bounds, history>>

(***************************************************************************)
(* The process dies and comes back: only the database is left.             *)
(***************************************************************************)
Crash ==
    /\ crashes < MaxCrashes
    /\ crashes' = crashes + 1
    /\ revision' = Unknown
    /\ cooldown' = FALSE
    /\ probe' = FreeProbe
    /\ writer' = [w \in Writers |-> IdleWriter]
    /\ backfill' = IdleBackfill
    /\ queued' = FALSE
    /\ reconciled' = Unknown
    /\ refresher' = IdleRefresher
    /\ LET cut(pcs) == {m \in Mem : Exists(m) /\ \E w \in Writers :
                                        writer[w].mem = m /\ writer[w].pc \in pcs} IN
       /\ owed' = owed \union
              cut({"invalidate", "snapshot", "refresh", "probing", "embed", "save"})
       /\ torn' = torn \union {m \in cut({"invalidate"}) : row[m].status # "none"}
    /\ UNCHANGED <<database, weights, ops, faults>>

WriterStep(w) ==
    \/ Invalidate(w)
    \/ ReadSnapshot(w)
    \/ RefreshWithoutProbe(w)
    \/ RefreshWithProbe(w)
    \/ WriterProbed(w)
    \/ WriterEmbeds(w)
    \/ WriterSaves(w)

BackfillStep ==
    \/ StartQueued
    \/ BackfillProbes
    \/ BackfillSkipsProbe
    \/ BackfillProbed
    \/ ListMemory
    \/ \E item \in backfill.listed : CheckItem(item)
    \/ CheckNothing
    \/ \E items \in SUBSET backfill.todo : EmbedChunk(items)
    \/ \E item \in backfill.chunk : EmbedItem(item)
    \/ \E vec \in backfill.vectors : BackfillSaves(vec)
    \/ FinishBackfill

RefresherStep ==
    \/ RefresherProbes
    \/ RefresherSkipsProbe
    \/ RefresherProbed
    \/ Reconcile

Request(w) ==
    \E m \in Mem :
        \/ \E c \in Contents : AddMemory(w, m, c) \/ UpdateMemory(w, m, c)
        \/ DeleteMemory(w, m)

ProviderFailure ==
    \/ \E w \in Writers : WriterEmbedFails(w)
    \/ \E items \in SUBSET backfill.todo : ChunkFails(items)
    \/ \E item \in backfill.chunk : ItemFails(item)

Next ==
    \/ \E w \in Writers : Request(w) \/ WriterStep(w)
    \/ \E scope \in Projects \union {Mem}, force \in BOOLEAN : StartBackfill(scope, force)
    \/ BackfillStep
    \/ RefresherStep
    \/ ProviderFailure
    \/ CooldownEnds
    \/ Repull
    \/ Crash

Spec == Init /\ [][Next]_vars

\* Threads that can step do; the refresher wakes again and again; the
\* maintenance job calls a whole-corpus backfill again and again; a cooldown
\* ends.  Requests, re-pulls, provider failures and crashes are not owed.
Fairness ==
    /\ \A w \in Writers : WF_vars(WriterStep(w))
    /\ WF_vars(BackfillStep)
    /\ WF_vars(RefresherStep)
    /\ WF_vars(StartBackfill(Mem, FALSE))
    /\ WF_vars(CooldownEnds)

FairSpec == Spec /\ Fairness

(***************************************************************************)
(* Properties.                                                             *)
(***************************************************************************)
TypeOK ==
    /\ content \in [Mem -> Contents \union {Absent, Deleted}]
    /\ row \in [Mem -> Rows]
    /\ weights \in Revisions
    /\ revision \in Snapshots
    /\ cooldown \in BOOLEAN
    /\ probe \in [by : Writers \union {Nobody, Backfiller, Refresher}, seen : Snapshots]
    /\ writer \in [Writers -> WriterStates]
    /\ backfill \in BackfillStates
    /\ queued \in BOOLEAN
    /\ reconciled \in Snapshots
    /\ refresher \in RefresherStates
    /\ ops \in Nat /\ faults \in Nat /\ crashes \in Nat
    /\ owed \subseteq Mem
    /\ torn \subseteq Mem

\* ADR 0005, "a slow older writer could otherwise publish last": a stored row
\* belongs to a live memory and to its present content, whoever raced whom,
\* except while an update stands between its two store calls, or died there.
RowsFollowContent ==
    \A m \in Mem : row[m].status # "none" =>
        /\ Exists(m)
        /\ \/ row[m].hash = content[m]
           \/ m \in torn
           \/ \E w \in Writers : writer[w].pc = "invalidate" /\ writer[w].mem = m

\* "A stamp can trail the weights but never lead them" (generate_missing): the
\* revision a row is stamped with is never newer than the weights that made it,
\* so a re-pull can never leave an old vector passing as current.
StampNeverLeads == \A m \in Mem : row[m].stamp <= row[m].made

\* Once a whole-corpus backfill has completed in this process, every memory
\* whose embedding was refused while the revision was unknown, or was cut off
\* by an earlier crash, has been through a backfill's candidate list.
NothingOwedOnceReconciled == reconciled # Unknown => owed = {}

Settled(m) ==
    /\ row[m].hash = content[m]
    /\ row[m].stamp = weights
    /\ row[m].made = weights
    /\ row[m].status = Answer(content[m])

\* Once requests, operators' backfills of single projects, re-pulls, failures
\* and crashes stop, every memory comes to carry a vector of its own content
\* made by the weights being served, or a tombstone if those weights reject it,
\* and keeps it.
EventuallySettled ==
    <>[](backfill.pc # "idle" => backfill.scope = Mem)
        => <>[](\A m \in Mem : Exists(m) => Settled(m))
=============================================================================
