--------------------------- MODULE EmbeddingBatch ---------------------------
(***************************************************************************)
(* One backfill run at the provider boundary: what an embedding server     *)
(* answers, what the OpenAI and Ollama adapters accept of it, how the      *)
(* service isolates a bad item of a chunk, and the verdict that the job,   *)
(* the memory_embed payload, health and the metric give of the run.        *)
(* EmbeddingLifecycle models revisions and races over many runs; here one  *)
(* run is followed vector by vector.                                       *)
(***************************************************************************)
EXTENDS Naturals, SequencesExt

CONSTANTS Mem,         \* memories
          Candidates,  \* the sequence generate_missing selected
          TooLong,     \* the memories whose content the model cannot take
          ChunkSize,   \* _BACKFILL_CHUNK_SIZE
          Adapters,    \* the configured provider and dimensions, 0 for none
          Native,      \* the length the model produces by itself
          MaxFaults    \* bound on faulty replies and failed writes

ASSUME BatchAssumption ==
    /\ TooLong \subseteq Mem
    /\ Candidates \in Seq(Mem) /\ IsInjective(Candidates)
    /\ ChunkSize \in Nat \ {0} /\ Native \in Nat \ {0}
    /\ Adapters \subseteq [provider : {"openai", "ollama"}, requested : Nat]

VARIABLES pc,       \* "idle", "chunk", "items" or "done"
          adapter,  \* the one that serves
          trigger,  \* who called: the maintenance job, memory_embed, or its background task
          next,     \* index of the next candidate
          vectors,  \* the batch's vectors still to be saved; <<>> when it failed
          batched,  \* whether the current chunk's batch call succeeded
          last,     \* index of the chunk's last candidate
          stored,   \* what memory_embeddings holds for each memory
          moved,    \* memories edited since the candidates were selected
          tally,    \* count, failed, tombstoned
          shown,    \* what the four surfaces say of the run
          faults

setting == <<adapter, trigger>>
progress == <<next, vectors, batched, last>>
vars == <<pc, setting, progress, stored, moved, tally, shown, faults>>

Surfaces == {"job", "payload", "health", "metric"}
Nothing == [of |-> "nobody", at |-> "nobody", kind |-> "none", len |-> 0]
Parked == [Nothing EXCEPT !.kind = "content_too_long"]
NoTally == [generated |-> 0, failed |-> 0, tombstoned |-> 0]

Init ==
    /\ pc = "idle"
    /\ adapter \in Adapters
    /\ trigger \in {"job", "memory_embed", "background"}
    /\ next = 1 /\ vectors = <<>> /\ batched = FALSE /\ last = 0
    /\ stored = [m \in Mem |-> Nothing]
    /\ moved = {}
    /\ tally = NoTally
    /\ shown = [s \in Surfaces |-> "none"]
    /\ faults = 0

Fault == faults < MaxFaults /\ faults' = faults + 1

(***************************************************************************)
(* The server, as the adapters meet it.  A reply is an HTTP status, the    *)
(* marks an error carries (the context_length_exceeded code, an over-length*)
(* phrase in the message) and the vectors of a 200; status 0 is a refused  *)
(* connection or a timeout.  A vector embeds the text `of` a memory and    *)
(* stands `at` the place of a memory's text in the request.                *)
(***************************************************************************)
Vector(m, length) == [of |-> m, at |-> m, kind |-> "finite", len |-> length]
VectorsOf(mems, length) == [i \in DOMAIN mems |-> Vector(mems[i], length)]
Spoiled(vecs, i, kind) == [vecs EXCEPT ![i].kind = kind]
Stretched(vecs, i) == [vecs EXCEPT ![i].len = @ + 1]
Rearranged(vecs, p) == [i \in DOMAIN vecs |-> [vecs[i] EXCEPT !.of = vecs[p[i]].of]]
Error(status, code, phrase) ==
    [status |-> status, code |-> code, phrase |-> phrase, vecs |-> <<>>]
Success(vecs) == [status |-> 200, code |-> FALSE, phrase |-> FALSE, vecs |-> vecs]

Length == IF adapter.requested = 0 THEN Native ELSE adapter.requested
Rejected(mems) == ToSet(mems) \cap TooLong # {}

\* A host may name its over-length refusal in any of three ways, the last of
\* which no adapter recognises.
HonestReplies(mems) ==
    IF Rejected(mems)
    THEN {Error(400, TRUE, TRUE), Error(400, FALSE, TRUE), Error(400, FALSE, FALSE)}
    ELSE {Success(VectorsOf(mems, Length))}

\* Bodies that are short of a vector, hold an unusable one, mix lengths, or have
\* one per text in another order or with repetitions: no adapter looks at
\* item.index.
FaultyBodies(good) ==
    {RemoveAt(good, i) : i \in DOMAIN good} \union {Stretched(good, i) : i \in DOMAIN good}
    \union {Spoiled(good, i, k) : i \in DOMAIN good, k \in {"empty", "boolean", "non-finite"}}
    \union {Rearranged(good, p) : p \in [DOMAIN good -> DOMAIN good]}

\* A dead or overloaded server, one whose 5xx text happens to hold the phrase,
\* one that ignores the requested length, and one whose body is faulty.
FaultyReplies(mems) ==
    {Error(0, FALSE, FALSE), Error(429, FALSE, FALSE), Error(500, FALSE, TRUE),
     Success(VectorsOf(mems, Native))}
    \union {Success(vecs) : vecs \in FaultyBodies(VectorsOf(mems, Length))}

(***************************************************************************)
(* The adapters.                                                           *)
(***************************************************************************)
OpenAIClassifies(reply) ==
    IF reply.code \/ (reply.status \in 400..499 /\ reply.phrase)
    THEN "CONTENT_TOO_LONG" ELSE "PROVIDER_ERROR"

OllamaClassifies(reply) ==
    IF reply.status = 400 /\ reply.phrase THEN "CONTENT_TOO_LONG" ELSE "PROVIDER_ERROR"

\* Bug: the values are not looked at.
ValidByShape(vecs, expected) ==
    /\ Len(vecs) = expected
    /\ \A v \in ToSet(vecs) : v.kind # "empty" /\ v.len = vecs[1].len

Valid(vecs, expected) ==
    /\ Len(vecs) = expected
    /\ \A v \in ToSet(vecs) : v.kind = "finite" /\ v.len = vecs[1].len
    /\ adapter.provider = "ollama" /\ adapter.requested # 0 => vecs[1].len = adapter.requested

ErrorCode(reply, expected) ==
    CASE reply.status # 200 /\ adapter.provider = "openai" -> OpenAIClassifies(reply)
      [] reply.status # 200 /\ adapter.provider = "ollama" -> OllamaClassifies(reply)
      [] OTHER -> IF Valid(reply.vecs, expected) THEN "none" ELSE "PROVIDER_ERROR"

\* One call of embed_batch, honest or not.
Answer(mems, reply) ==
    \/ reply \in HonestReplies(mems) /\ UNCHANGED faults
    \/ reply \in FaultyReplies(mems) /\ Fault

(***************************************************************************)
(* The run.                                                                *)
(***************************************************************************)
\* Bug: a run that generated nothing passes for one that had nothing to do.
OutcomeOfGenerated(t) == IF t.failed = 0 \/ t.generated = 0 THEN "ok" ELSE "partial"

Outcome(t) == IF t.failed = 0 THEN "ok" ELSE IF t.generated = 0 THEN "failed" ELSE "partial"

JobMetricOutcome(outcome) ==
    [skipped |-> "overlap", ok |-> "success", partial |-> "partial",
     failed |-> "failure", error |-> "failure"][outcome]

\* embedding_backfill, embed_memory and _record_background_outcome report the
\* run to whoever called; the metric is observed for the background task.
\* A task cancelled earlier keeps what the cancellation reported.
Show(outcome) ==
    shown' = CASE trigger = "job" ->
                    [shown EXCEPT !["job"] = IF outcome \in {"failed", "error"} THEN "raised"
                                             ELSE IF outcome = "skipped" THEN "skipped" ELSE "success"]
               [] trigger = "memory_embed" ->
                    [shown EXCEPT !["payload"] = CASE outcome = "skipped" -> "already_running"
                                                   [] outcome = "error" -> "failed"
                                                   [] OTHER -> outcome]
               [] trigger = "background" /\ shown["health"] = "cancelled" -> shown
               [] OTHER -> [shown EXCEPT !["health"] = outcome,
                                         !["metric"] = JobMetricOutcome(outcome)]

\* The lock is free and the revision verified: the candidates are fixed.
Begin ==
    /\ pc = "idle"
    /\ pc' = "chunk"
    /\ UNCHANGED <<setting, progress, stored, moved, tally, shown, faults>>

\* Another backfill holds _backfill_lock, or the revision is not verified.
Decline(outcome) ==
    /\ pc = "idle"
    /\ pc' = "done"
    /\ Show(outcome)
    /\ UNCHANGED <<setting, progress, stored, moved, tally, faults>>

\* The event loop cancels the background task at shutdown; its thread goes on.
Cancel ==
    /\ trigger = "background"
    /\ pc \in {"chunk", "items"}
    /\ shown["health"] = "none"
    /\ shown' = [shown EXCEPT !["health"] = "cancelled", !["metric"] = "cancel"]
    /\ UNCHANGED <<pc, setting, progress, stored, moved, tally, faults>>

EmbedBatch ==
    /\ pc = "chunk"
    /\ next <= Len(Candidates)
    /\ LET end == IF next + ChunkSize - 1 < Len(Candidates) THEN next + ChunkSize - 1 ELSE Len(Candidates)
           mems == SubSeq(Candidates, next, end)
       IN \E reply \in HonestReplies(mems) \union FaultyReplies(mems) :
            /\ Answer(mems, reply)
            /\ batched' = (ErrorCode(reply, Len(mems)) = "none" /\ Len(reply.vecs) = Len(mems))
            /\ vectors' = IF batched' THEN reply.vecs ELSE <<>>
            /\ last' = end
    /\ pc' = "items"
    /\ UNCHANGED <<setting, next, stored, moved, tally, shown>>

Advance ==
    /\ next' = next + 1
    /\ pc' = IF next = last THEN "chunk" ELSE "items"
    /\ vectors' = IF batched THEN Tail(vectors) ELSE <<>>

Counted(what) == tally' = [tally EXCEPT ![what] = @ + 1]

\* save_embedding refuses, and nothing is counted, when the content moved on.
Save(m, value, what) ==
    IF m \in moved
    THEN UNCHANGED <<stored, tally>>
    ELSE stored' = [stored EXCEPT ![m] = value] /\ Counted(what)

ItemOutcome(code) ==
    CASE code = "none" -> "generated"
      [] code = "CONTENT_TOO_LONG" -> "tombstoned"
      [] OTHER -> "failed"

Settle(m, code, vec) ==
    LET outcome == ItemOutcome(code) IN
    CASE outcome = "generated" -> Save(m, vec, outcome)
      [] outcome = "tombstoned" -> Save(m, Parked, outcome)
      [] OTHER -> Counted(outcome) /\ UNCHANGED stored

\* The batch succeeded: its vectors are saved one by one, by position.
SaveFromBatch ==
    /\ pc = "items" /\ batched
    /\ Settle(Candidates[next], "none", vectors[1])
    /\ Advance
    /\ UNCHANGED <<setting, batched, last, moved, shown, faults>>

\* The batch failed: every item is embedded alone.
EmbedSingle ==
    /\ pc = "items" /\ ~batched
    /\ LET mems == <<Candidates[next]>> IN
       \E reply \in HonestReplies(mems) \union FaultyReplies(mems) :
         /\ Answer(mems, reply)
         /\ LET code == ErrorCode(reply, 1)
            IN Settle(mems[1], code, IF code = "none" THEN reply.vecs[1] ELSE Nothing)
    /\ Advance
    /\ UNCHANGED <<setting, batched, last, moved, shown>>

\* The database refuses the write of a vector or of a tombstone.
WriteFails ==
    /\ pc = "items"
    /\ Fault
    /\ Counted("failed")
    /\ Advance
    /\ UNCHANGED <<setting, batched, last, stored, moved, shown>>

\* Someone edits or deletes a memory meanwhile; its vector goes with the old text.
Move(m) ==
    /\ pc \in {"chunk", "items"}
    /\ m \notin moved
    /\ moved' = moved \union {m}
    /\ stored' = [stored EXCEPT ![m] = Nothing]
    /\ UNCHANGED <<pc, setting, progress, tally, shown, faults>>

Finish ==
    /\ pc = "chunk"
    /\ next > Len(Candidates)
    /\ pc' = "done"
    /\ Show(Outcome(tally))
    /\ UNCHANGED <<setting, progress, stored, moved, tally, faults>>

Next ==
    \/ Begin \/ Decline("skipped") \/ Decline("error") \/ Cancel
    \/ EmbedBatch \/ SaveFromBatch \/ EmbedSingle \/ WriteFails \/ Finish
    \/ \E m \in Mem : Move(m)

Spec == Init /\ [][Next]_vars

(***************************************************************************)
(* Properties.                                                             *)
(***************************************************************************)
\* A memory is given only what the server returned at its own text's place, and
\* nothing that ranking cannot use: validate_embeddings and the attribution by
\* position in generate_missing.  That a body of the right length is in order is
\* the server's word: the code stores a rearranged one as it comes.
StoredVectorsSound ==
    \A m \in Mem : stored[m].kind \notin {"none", "content_too_long"} =>
        /\ stored[m].at = m /\ stored[m].kind = "finite"
        /\ adapter.provider = "ollama" /\ adapter.requested # 0 => stored[m].len = adapter.requested

\* Only a memory that is itself over-long is parked: not a chunk-mate of one,
\* and not one met by a failing server (ADR 0009's asymmetric bias).
OnlyOverlongParked == \A m \in Mem : stored[m] = Parked => m \in TooLong

\* While the server is honest and the database writes, one bad memory cannot
\* discard its chunk-mates' results: each has the vector of its own text.
ChunkMatesSurvive ==
    pc = "done" /\ next > Len(Candidates) /\ faults = 0 =>
        \A m \in ToSet(Candidates) \ (TooLong \union moved) : stored[m].of = m

\* However the server fails and whoever edits meanwhile, the rows a run leaves
\* are sound as far as the adapters can tell, and no memory pays for another.
RunSound == StoredVectorsSound /\ OnlyOverlongParked /\ ChunkMatesSurvive

Unserved == {m \in ToSet(Candidates) \ moved : stored[m] = Nothing}
Embedded == {m \in Mem : stored[m].kind = "finite"}

\* What a surface says of a finished run is what the run did to the store: `ok`
\* leaves nothing undone, `failed` means that not one vector was saved, and the
\* job never counts such a run a success.
VerdictHonest ==
    pc = "done" =>
        /\ (shown["payload"] = "ok" \/ shown["health"] = "ok" \/ shown["metric"] = "success")
              => Unserved = {}
        /\ (shown["job"] = "raised" \/ shown["payload"] = "failed"
              \/ shown["health"] = "failed" \/ shown["metric"] = "failure") => Embedded = {}
        /\ shown["job"] = "success" => Unserved = {} \/ Embedded # {} \/ moved # {}
=============================================================================
