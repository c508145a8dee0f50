--------------------------- MODULE EmbeddingProofs --------------------------
(***************************************************************************)
(* Proofs about embeddings.  EmbeddingBatch: whatever the servers answer,  *)
(* whichever writes fail and whoever edits meanwhile, the rows of a        *)
(* backfill run are sound and the verdict on it is true, for any           *)
(* candidates, any chunk size and any number of faults.  Then what a       *)
(* health call says of the embeddings, and the vector space of a search,   *)
(* as instances of their modules.                                          *)
(***************************************************************************)
EXTENDS EmbeddingBatch, EmbeddingCoverage, SearchRequest, SequenceTheorems, FiniteSetTheorems, TLAPS

(***************************************************************************)
(* The inductive invariant                                                 *)
(***************************************************************************)
Kinds == {"none", "content_too_long", "finite", "empty", "boolean", "non-finite"}

\* What the job, the payload, health and the metric may say.
Words == {"none", "ok", "partial", "failed", "error", "skipped", "raised", "success",
          "already_running", "cancelled", "overlap", "failure", "cancel"}

\* What a row of memory_embeddings may be: none, a tombstone, a finite vector.
Value == [of : Mem \union {"nobody"}, at : Mem \union {"nobody"},
          kind : {"none", "content_too_long", "finite"}, len : Nat]

TypeOK ==
  /\ pc \in {"idle", "chunk", "items", "done"}
  /\ adapter \in Adapters
  /\ trigger \in {"job", "memory_embed", "background"}
  /\ next \in Nat \ {0} /\ last \in Nat
  /\ vectors \in Seq(Value) /\ batched \in BOOLEAN
  /\ stored \in [Mem -> Value]
  /\ moved \subseteq Mem
  /\ tally \in [generated : Nat, failed : Nat, tombstoned : Nat]
  /\ shown \in [Surfaces -> Words]
  /\ faults \in Nat

\* A vector that ranking may use for memory m: the one at its place, of its own
\* text as long as nothing failed.
Fit(v, m, bad) ==
  /\ v.at = m /\ v.kind = "finite"
  /\ bad = 0 => v.of = m
  /\ (adapter.provider = "ollama" /\ adapter.requested # 0) => v.len = adapter.requested

\* The loop stays within the chunk, and the chunk within the candidates.
Within ==
  /\ pc = "items" => next <= last /\ last <= Len(Candidates)
  /\ pc = "chunk" => next <= Len(Candidates) + 1
  /\ pc = "idle" => next = 1 /\ tally = NoTally

\* The vectors a batch still holds are those of the candidates still to be saved.
Positioned ==
  (pc = "items" /\ batched) =>
    /\ Len(vectors) = last - next + 1
    /\ \A i \in 1 .. Len(vectors) : Fit(vectors[i], Candidates[next + i - 1], faults)

RowsSound ==
  \A m \in Mem : /\ stored[m].kind = "finite" => Fit(stored[m], m, faults)
                 /\ stored[m].kind = "content_too_long" => m \in TooLong

\* What the loop has done for the candidates it is past.
Served ==
  \A i \in 1 .. Len(Candidates) :
    (i < next /\ Candidates[i] \notin moved) =>
      /\ (faults = 0 /\ Candidates[i] \notin TooLong) => stored[Candidates[i]].of = Candidates[i]
      /\ tally.failed = 0 => stored[Candidates[i]].kind # "none"

\* The count of vectors is zero exactly when there is none, edits aside.
CountsTrue ==
  /\ tally.generated = 0 => \A m \in Mem : stored[m].kind # "finite"
  /\ (tally.generated # 0 /\ moved = {}) =>
       \E i \in 1 .. Len(Candidates) : i < next /\ stored[Candidates[i]].kind = "finite"

\* Before it is over a run has reported nothing but its cancellation.
Unsaid ==
  pc # "done" =>
    /\ shown["job"] = "none" /\ shown["payload"] = "none"
    /\ \/ shown["health"] = "none" /\ shown["metric"] = "none"
       \/ shown["health"] = "cancelled" /\ shown["metric"] = "cancel"

IInv ==
  TypeOK /\ Within /\ Positioned /\ RowsSound /\ Served /\ CountsTrue /\ Unsaid /\ VerdictHonest

(***************************************************************************)
(* What the adapters let through                                           *)
(***************************************************************************)
Replies(mems) == HonestReplies(mems) \union FaultyReplies(mems)

\* A vector as a server may give it, usable or not.
Vec == [of : Mem, at : Mem, kind : Kinds, len : Nat]

\* A function on 1 .. n is a sequence of that length.
LEMMA FunctionIsSeq ==
  ASSUME NEW S, NEW n \in Nat, NEW f \in [1 .. n -> S]
  PROVE  f \in Seq(S) /\ Len(f) = n
  OBVIOUS

\* A sequence without one of its elements is one shorter.
LEMMA RemoveAtShorter ==
  ASSUME NEW S, NEW s \in Seq(S), NEW i \in 1 .. Len(s)
  PROVE  RemoveAt(s, i) \in Seq(S) /\ Len(RemoveAt(s, i)) = Len(s) - 1
<1>1. i \in Nat /\ Len(s) \in Nat /\ 1 <= i /\ i <= Len(s) /\ i - 1 \in Nat
  OBVIOUS
<1>2. SubSeq(s, 1, i - 1) \in Seq(S) /\ Len(SubSeq(s, 1, i - 1)) = i - 1
  BY <1>1
<1>3. SubSeq(s, i + 1, Len(s)) \in Seq(S) /\ Len(SubSeq(s, i + 1, Len(s))) = Len(s) - i
  BY <1>1
<1>4. ASSUME NEW a \in Seq(S), NEW b \in Seq(S)
      PROVE  a \o b \in Seq(S) /\ Len(a \o b) = Len(a) + Len(b)
  OBVIOUS
<1>5. RemoveAt(s, i) \in Seq(S) /\ Len(RemoveAt(s, i)) = (i - 1) + (Len(s) - i)
  BY <1>2, <1>3, <1>4, Zenon DEF RemoveAt
<1> QED
  BY <1>1, <1>5

\* The vectors of a list of texts are as many, each of its own text.
LEMMA VectorsOfTexts ==
  ASSUME NEW mems \in Seq(Mem), NEW n \in Nat
  PROVE  /\ VectorsOf(mems, n) \in Seq(Vec) /\ Len(VectorsOf(mems, n)) = Len(mems)
         /\ \A i \in 1 .. Len(mems) : VectorsOf(mems, n)[i] = Vector(mems[i], n)
<1>1. DOMAIN mems = 1 .. Len(mems) /\ Len(mems) \in Nat /\ \A i \in 1 .. Len(mems) : mems[i] \in Mem
  OBVIOUS
<1>2. \A i \in 1 .. Len(mems) : Vector(mems[i], n) \in Vec
  BY <1>1 DEF Vector, Vec, Kinds
<1>3. VectorsOf(mems, n) \in [1 .. Len(mems) -> Vec]
  BY <1>1, <1>2 DEF VectorsOf
<1>4. \A i \in 1 .. Len(mems) : VectorsOf(mems, n)[i] = Vector(mems[i], n)
  BY <1>1 DEF VectorsOf
<1> QED
  BY <1>1, <1>3, <1>4, FunctionIsSeq

\* Spoiling one vector's value or length leaves all of them of their texts.
LEMMA SpoiledVectors ==
  ASSUME NEW s \in Seq(Vec), NEW i \in 1 .. Len(s), NEW k \in Kinds
  PROVE  /\ Spoiled(s, i, k) \in Seq(Vec)
         /\ Len(Spoiled(s, i, k)) = Len(s)
         /\ \A j \in 1 .. Len(s) : Spoiled(s, i, k)[j].at = s[j].at
         /\ Spoiled(s, i, k)[i].kind = k
         /\ Stretched(s, i) \in Seq(Vec)
         /\ Len(Stretched(s, i)) = Len(s)
         /\ \A j \in 1 .. Len(s) : Stretched(s, i)[j].at = s[j].at
<1>1. Len(s) \in Nat /\ DOMAIN s = 1 .. Len(s) /\ s \in [1 .. Len(s) -> Vec] /\ s[i] \in Vec
  OBVIOUS
<1>2. ASSUME NEW v \in Vec, v.at = s[i].at
      PROVE  /\ [s EXCEPT ![i] = v] \in Seq(Vec) /\ Len([s EXCEPT ![i] = v]) = Len(s)
             /\ \A j \in 1 .. Len(s) : [s EXCEPT ![i] = v][j].at = s[j].at
             /\ [s EXCEPT ![i] = v][i] = v
  BY <1>1, <1>2
<1>3. [s[i] EXCEPT !.kind = k] \in Vec /\ [s[i] EXCEPT !.kind = k].at = s[i].at
        /\ [s[i] EXCEPT !.kind = k].kind = k
  BY <1>1 DEF Vec
<1>4. [s[i] EXCEPT !.len = @ + 1] \in Vec /\ [s[i] EXCEPT !.len = @ + 1].at = s[i].at
  BY <1>1 DEF Vec
<1>5. Spoiled(s, i, k) = [s EXCEPT ![i] = [s[i] EXCEPT !.kind = k]]
  BY Zenon DEF Spoiled
<1>6. Stretched(s, i) = [s EXCEPT ![i] = [s[i] EXCEPT !.len = @ + 1]]
  BY Zenon DEF Stretched
<1> QED
  <2>1. PICK v : v = [s[i] EXCEPT !.kind = k]
    OBVIOUS
  <2>2. PICK w : w = [s[i] EXCEPT !.len = @ + 1]
    OBVIOUS
  <2>3. /\ v \in Vec /\ v.at = s[i].at /\ v.kind = k /\ Spoiled(s, i, k) = [s EXCEPT ![i] = v]
        /\ w \in Vec /\ w.at = s[i].at /\ Stretched(s, i) = [s EXCEPT ![i] = w]
    BY <1>3, <1>4, <1>5, <1>6, <2>1, <2>2, Zenon
  <2> QED
    BY <1>2, <2>3

\* The replies of a server that is honest, spelled out.
LEMMA HonestCases ==
  ASSUME NEW mems \in Seq(Mem), NEW reply \in HonestReplies(mems)
  PROVE  \/ Rejected(mems) /\ \E c, p \in BOOLEAN : reply = Error(400, c, p)
         \/ ~ Rejected(mems) /\ reply = Success(VectorsOf(mems, Length))
  BY DEF HonestReplies

\* And of one that is not.
LEMMA FaultyCases ==
  ASSUME NEW mems \in Seq(Mem), NEW reply \in FaultyReplies(mems)
  PROVE  \/ reply \in {Error(0, FALSE, FALSE), Error(429, FALSE, FALSE), Error(500, FALSE, TRUE)}
         \/ reply = Success(VectorsOf(mems, Native))
         \/ \E vecs \in FaultyBodies(VectorsOf(mems, Length)) : reply = Success(vecs)
  BY DEF FaultyReplies

\* Rearranging the texts leaves every vector at its place.
LEMMA RearrangedVectors ==
  ASSUME NEW s \in Seq(Vec), NEW p \in [DOMAIN s -> DOMAIN s]
  PROVE  /\ Rearranged(s, p) \in Seq(Vec)
         /\ Len(Rearranged(s, p)) = Len(s)
         /\ \A j \in 1 .. Len(s) : Rearranged(s, p)[j].at = s[j].at
<1>1. Len(s) \in Nat /\ DOMAIN s = 1 .. Len(s) /\ \A j \in 1 .. Len(s) : s[j] \in Vec /\ p[j] \in 1 .. Len(s)
  OBVIOUS
<1>2. ASSUME NEW j \in 1 .. Len(s)
      PROVE  /\ [s[j] EXCEPT !.of = s[p[j]].of] \in Vec
             /\ [s[j] EXCEPT !.of = s[p[j]].of].at = s[j].at
  <2>1. s[j] \in Vec /\ s[p[j]].of \in Mem
    BY <1>1 DEF Vec
  <2> QED
    BY <2>1 DEF Vec
<1>3. \A j \in 1 .. Len(s) : Rearranged(s, p)[j] = [s[j] EXCEPT !.of = s[p[j]].of]
  BY <1>1 DEF Rearranged
<1>4. Rearranged(s, p) \in [1 .. Len(s) -> Vec]
  BY <1>1, <1>2 DEF Rearranged
<1> QED
  BY <1>1, <1>2, <1>3, <1>4, FunctionIsSeq

\* A faulty body is short of a vector, or has one at the place of each text.
LEMMA FaultyBodyShape ==
  ASSUME NEW good \in Seq(Vec), NEW vecs \in FaultyBodies(good)
  PROVE  /\ vecs \in Seq(Vec)
         /\ \/ Len(vecs) # Len(good)
            \/ Len(vecs) = Len(good) /\ \A j \in 1 .. Len(good) : vecs[j].at = good[j].at
<1>1. DOMAIN good = 1 .. Len(good) /\ Len(good) \in Nat
  OBVIOUS
<1>2. \/ \E i \in DOMAIN good : vecs = RemoveAt(good, i)
      \/ \E i \in DOMAIN good : vecs = Stretched(good, i)
      \/ \E i \in DOMAIN good, k \in {"empty", "boolean", "non-finite"} : vecs = Spoiled(good, i, k)
      \/ \E p \in [DOMAIN good -> DOMAIN good] : vecs = Rearranged(good, p)
  BY DEF FaultyBodies
<1>3. {"empty", "boolean", "non-finite"} \subseteq Kinds /\ "none" \in Kinds
  BY DEF Kinds
<1>4. ASSUME NEW i \in DOMAIN good, vecs = RemoveAt(good, i)
      PROVE  vecs \in Seq(Vec) /\ Len(vecs) # Len(good)
  BY <1>1, <1>4, RemoveAtShorter
<1>5. ASSUME NEW i \in DOMAIN good, NEW k \in Kinds,
             vecs = Stretched(good, i) \/ vecs = Spoiled(good, i, k)
      PROVE  /\ vecs \in Seq(Vec) /\ Len(vecs) = Len(good)
             /\ \A j \in 1 .. Len(good) : vecs[j].at = good[j].at
  BY <1>1, <1>5, SpoiledVectors
<1>6. ASSUME NEW p \in [DOMAIN good -> DOMAIN good], vecs = Rearranged(good, p)
      PROVE  /\ vecs \in Seq(Vec) /\ Len(vecs) = Len(good)
             /\ \A j \in 1 .. Len(good) : vecs[j].at = good[j].at
  BY <1>6, RearrangedVectors
<1> QED
  BY <1>2, <1>3, <1>4, <1>5, <1>6

\* A status, the marks and the vectors of a reply are what it was made with.
LEMMA ReplyFields ==
  /\ \A s, c, p : /\ Error(s, c, p).status = s /\ Error(s, c, p).code = c
                  /\ Error(s, c, p).phrase = p /\ Error(s, c, p).vecs = <<>>
  /\ \A vecs : /\ Success(vecs).status = 200 /\ Success(vecs).code = FALSE
               /\ Success(vecs).phrase = FALSE /\ Success(vecs).vecs = vecs
  BY DEF Error, Success

\* A 200, faulty or not, is short of a vector or has one at the place of each text,
\* and an honest one has that text's.
LEMMA SuccessShape ==
  ASSUME adapter \in Adapters, NEW mems \in Seq(Mem), NEW reply \in Replies(mems),
         reply.status = 200
  PROVE  /\ reply.vecs \in Seq(Vec)
         /\ Len(reply.vecs) = Len(mems) => \A i \in 1 .. Len(mems) : reply.vecs[i].at = mems[i]
         /\ reply \in HonestReplies(mems) => \A i \in 1 .. Len(mems) : reply.vecs[i].of = mems[i]
<1>1. Length \in Nat /\ Native \in Nat
  BY BatchAssumption DEF Length
<1>2. \A n \in Nat, i \in 1 .. Len(mems) : VectorsOf(mems, n)[i].at = mems[i] /\ VectorsOf(mems, n)[i].of = mems[i]
  <2>1. \A n \in Nat, i \in 1 .. Len(mems) : VectorsOf(mems, n)[i] = Vector(mems[i], n)
    BY VectorsOfTexts
  <2>2. \A n, m : Vector(m, n).at = m /\ Vector(m, n).of = m
    BY DEF Vector
  <2> QED
    BY <2>1, <2>2
<1>3. ASSUME NEW n \in Nat, reply = Success(VectorsOf(mems, n))
      PROVE  /\ reply.vecs \in Seq(Vec)
             /\ \A i \in 1 .. Len(mems) : reply.vecs[i].at = mems[i] /\ reply.vecs[i].of = mems[i]
  <2>1. reply.vecs = VectorsOf(mems, n)
    BY <1>3, ReplyFields, Zenon
  <2> QED
    BY <1>2, <2>1, VectorsOfTexts
<1>4. ASSUME reply \in HonestReplies(mems)
      PROVE  /\ reply.vecs \in Seq(Vec)
             /\ \A i \in 1 .. Len(mems) : reply.vecs[i].at = mems[i] /\ reply.vecs[i].of = mems[i]
  <2>1. \A c, p : reply # Error(400, c, p)
    BY ReplyFields
  <2> QED
    BY <1>1, <1>3, <1>4, <2>1, HonestCases
<1>5. ASSUME reply \in FaultyReplies(mems)
      PROVE  /\ reply.vecs \in Seq(Vec)
             /\ Len(reply.vecs) = Len(mems) => \A i \in 1 .. Len(mems) : reply.vecs[i].at = mems[i]
  <2>1. PICK good : good = VectorsOf(mems, Length)
    OBVIOUS
  <2>2. good \in Seq(Vec) /\ Len(good) = Len(mems) /\ \A i \in 1 .. Len(mems) : good[i].at = mems[i]
    BY <1>1, <1>2, <2>1, VectorsOfTexts
  <2>3. reply \notin {Error(0, FALSE, FALSE), Error(429, FALSE, FALSE), Error(500, FALSE, TRUE)}
    BY DEF Error
  <2>4. CASE reply = Success(VectorsOf(mems, Native))
    BY <1>1, <1>3, <2>4
  <2>5. ASSUME NEW vecs \in FaultyBodies(good), reply = Success(vecs)
        PROVE  /\ reply.vecs \in Seq(Vec)
               /\ Len(reply.vecs) = Len(mems) => \A i \in 1 .. Len(mems) : reply.vecs[i].at = mems[i]
    <3>1. reply.vecs = vecs
      BY <2>5, ReplyFields, Zenon
    <3> QED
      BY <2>2, <3>1, FaultyBodyShape
  <2>6. CASE \E vecs \in FaultyBodies(good) : reply = Success(vecs)
    BY <2>5, <2>6, Zenon
  <2>7. \/ reply \in {Error(0, FALSE, FALSE), Error(429, FALSE, FALSE), Error(500, FALSE, TRUE)}
        \/ reply = Success(VectorsOf(mems, Native))
        \/ \E vecs \in FaultyBodies(VectorsOf(mems, Length)) : reply = Success(vecs)
    BY <1>5, FaultyCases, Zenon
  <2> QED
    BY <2>1, <2>3, <2>4, <2>6, <2>7, Zenon
<1>6. reply \in HonestReplies(mems) \/ reply \in FaultyReplies(mems)
  BY DEF Replies
<1> QED
  BY <1>4, <1>5, <1>6, Zenon

\* validate_embeddings: what passes has a finite vector of one length per text,
\* and of the requested length where the adapter checks it.
LEMMA ValidFits ==
  ASSUME NEW vecs \in Seq(Vec), NEW n \in Nat, Valid(vecs, n)
  PROVE  /\ Len(vecs) = n
         /\ \A i \in 1 .. n :
              /\ vecs[i].kind = "finite"
              /\ (adapter.provider = "ollama" /\ adapter.requested # 0) => vecs[i].len = adapter.requested
<1>1. Len(vecs) = n /\ DOMAIN vecs = 1 .. n
  BY DEF Valid
<1>2. \A i \in 1 .. n : vecs[i] \in ToSet(vecs)
  BY <1>1 DEF ToSet
<1>3. \A i \in 1 .. n : vecs[i].kind = "finite" /\ vecs[i].len = vecs[1].len
  BY <1>2 DEF Valid
<1>4. (adapter.provider = "ollama" /\ adapter.requested # 0) => vecs[1].len = adapter.requested
  BY DEF Valid
<1> QED
  BY <1>1, <1>3, <1>4

\* An adapter that reports no error gives one vector per text, each fit for the
\* memory at its position.
LEMMA AcceptedFits ==
  ASSUME adapter \in Adapters, NEW mems \in Seq(Mem), NEW reply \in Replies(mems),
         ErrorCode(reply, Len(mems)) = "none", NEW n, n = 0 => reply \in HonestReplies(mems)
  PROVE  /\ reply.vecs \in Seq(Value) /\ Len(reply.vecs) = Len(mems)
         /\ \A i \in 1 .. Len(mems) : Fit(reply.vecs[i], mems[i], n)
<1>1. adapter.provider \in {"openai", "ollama"}
  BY BatchAssumption
<1>2. OpenAIClassifies(reply) # "none" /\ OllamaClassifies(reply) # "none"
  BY DEF OpenAIClassifies, OllamaClassifies
<1>3. reply.status = 200 /\ Valid(reply.vecs, Len(mems))
  BY <1>1, <1>2 DEF ErrorCode
<1>4. Len(mems) \in Nat
  OBVIOUS
<1>5. reply.vecs \in Seq(Vec) /\ Len(reply.vecs) = Len(mems)
  BY <1>3, <1>4, SuccessShape, ValidFits
<1>6. \A i \in 1 .. Len(mems) : reply.vecs[i].at = mems[i] /\ (n = 0 => reply.vecs[i].of = mems[i])
  BY <1>3, <1>5, SuccessShape
<1>7. \A i \in 1 .. Len(mems) : Fit(reply.vecs[i], mems[i], n)
  BY <1>3, <1>4, <1>5, <1>6, ValidFits DEF Fit
<1>8. \A i \in 1 .. Len(mems) : reply.vecs[i] \in Value
  <2> TAKE i \in 1 .. Len(mems)
  <2>1. reply.vecs[i] \in Vec /\ reply.vecs[i].kind = "finite"
    BY <1>5, <1>7 DEF Fit
  <2> QED
    BY <2>1 DEF Vec, Value
<1>9. reply.vecs \in [1 .. Len(mems) -> Value]
  BY <1>4, <1>5, <1>8
<1> QED
  BY <1>4, <1>5, <1>7, <1>9, FunctionIsSeq

\* An adapter reports CONTENT_TOO_LONG only of a text that is too long.
LEMMA TooLongIsHonest ==
  ASSUME adapter \in Adapters, NEW mems \in Seq(Mem), NEW reply \in Replies(mems),
         NEW n, ErrorCode(reply, n) = "CONTENT_TOO_LONG"
  PROVE  Rejected(mems)
<1>1. adapter.provider \in {"openai", "ollama"}
  BY BatchAssumption
<1>2. /\ reply.status # 200
      /\ reply.code \/ (reply.status \in 400 .. 499 /\ reply.phrase)
  BY <1>1 DEF ErrorCode, OpenAIClassifies, OllamaClassifies
<1>3. CASE reply \in HonestReplies(mems)
  <2>1. reply # Success(VectorsOf(mems, Length))
    BY <1>2 DEF Success
  <2> QED
    BY <1>3, <2>1, HonestCases
<1>4. CASE reply \in FaultyReplies(mems)
  <2>1. \A vecs : reply # Success(vecs)
    BY <1>2 DEF Success
  <2>2. reply \notin {Error(0, FALSE, FALSE), Error(429, FALSE, FALSE), Error(500, FALSE, TRUE)}
    <3>1. ASSUME NEW s, NEW p, reply = Error(s, FALSE, p)
          PROVE  s \in 400 .. 499 /\ p
      <4>1. reply.status = s /\ reply.code = FALSE /\ reply.phrase = p
        BY <3>1 DEF Error
      <4> QED
        BY <1>2, <4>1, Zenon
    <3>2. 0 \notin 400 .. 499 /\ 500 \notin 400 .. 499
      OBVIOUS
    <3>3. reply # Error(0, FALSE, FALSE) /\ reply # Error(429, FALSE, FALSE)
      BY <3>1, Zenon
    <3>4. reply # Error(500, FALSE, TRUE)
      BY <3>1, <3>2, Zenon
    <3> QED
      BY <3>3, <3>4, Zenon
  <2>3. \/ reply \in {Error(0, FALSE, FALSE), Error(429, FALSE, FALSE), Error(500, FALSE, TRUE)}
        \/ reply = Success(VectorsOf(mems, Native))
        \/ \E vecs \in FaultyBodies(VectorsOf(mems, Length)) : reply = Success(vecs)
    BY <1>4, FaultyCases, Zenon
  <2> QED
    BY <2>1, <2>2, <2>3, Zenon
<1> QED
  BY <1>3, <1>4 DEF Replies

\* An honest answer for a text that the model takes is accepted by either adapter.
LEMMA HonestAccepted ==
  ASSUME adapter \in Adapters, NEW m \in Mem, m \notin TooLong, NEW reply \in HonestReplies(<<m>>)
  PROVE  ErrorCode(reply, 1) = "none"
<1>1. adapter.provider \in {"openai", "ollama"} /\ adapter.requested \in Nat
  BY BatchAssumption
<1>2. <<m>> \in Seq(Mem) /\ Len(<<m>>) = 1 /\ <<m>>[1] = m /\ ToSet(<<m>>) = {m}
  BY DEF ToSet
<1>3. ~ Rejected(<<m>>)
  BY <1>2 DEF Rejected
<1>4. PICK vecs : vecs = VectorsOf(<<m>>, Length)
  OBVIOUS
<1>5. reply = Success(vecs)
  BY <1>2, <1>3, <1>4, HonestCases
<1>6. Length \in Nat /\ (adapter.requested # 0 => Length = adapter.requested)
  BY <1>1, BatchAssumption DEF Length
<1>7. vecs \in Seq(Vec) /\ Len(vecs) = 1 /\ vecs[1] = Vector(m, Length)
  <2>1. PICK mems \in Seq(Mem) : mems = <<m>>
    BY <1>2
  <2>2. Len(mems) = 1 /\ mems[1] = m /\ vecs = VectorsOf(mems, Length)
    BY <1>2, <1>4, <2>1, Zenon
  <2>3. /\ vecs \in Seq(Vec) /\ Len(vecs) = Len(mems)
        /\ \A i \in 1 .. Len(mems) : vecs[i] = Vector(mems[i], Length)
    BY <1>6, <2>2, VectorsOfTexts, Zenon
  <2> QED
    BY <2>2, <2>3
<1>8. ToSet(vecs) = {vecs[1]}
  BY <1>7 DEF ToSet
<1>9. vecs[1].kind = "finite" /\ vecs[1].len = Length
  BY <1>7 DEF Vector
<1>10. Valid(vecs, 1)
  BY <1>6, <1>7, <1>8, <1>9 DEF Valid
<1>11. reply.status = 200 /\ reply.vecs = vecs
  BY <1>5 DEF Success
<1> QED
  BY <1>10, <1>11 DEF ErrorCode

(***************************************************************************)
(* One candidate of a chunk                                                *)
(***************************************************************************)
\* What any of the three ways to deal with a candidate does to its row and to
\* the counts: nothing once the memory moved, a fit vector, a tombstone for an
\* over-long text, or a failure, which needs a fault or an over-long text.
ItemDone(m) ==
  \/ m \in moved /\ UNCHANGED <<stored, tally>>
  \/ /\ m \notin moved /\ Counted("generated")
     /\ \E v \in Value : Fit(v, m, faults') /\ stored' = [stored EXCEPT ![m] = v]
  \/ /\ m \notin moved /\ m \in TooLong /\ Counted("tombstoned")
     /\ stored' = [stored EXCEPT ![m] = Parked]
  \/ /\ m \in TooLong \/ faults' # 0
     /\ Counted("failed") /\ UNCHANGED stored

\* The counters a candidate adds to.
LEMMA CountedTally ==
  ASSUME TypeOK, NEW what \in {"generated", "failed", "tombstoned"}, Counted(what)
  PROVE  /\ tally' \in [generated : Nat, failed : Nat, tombstoned : Nat]
         /\ tally'.generated = IF what = "generated" THEN tally.generated + 1 ELSE tally.generated
         /\ tally'.failed = IF what = "failed" THEN tally.failed + 1 ELSE tally.failed
  BY DEF TypeOK, Counted

\* What one candidate's turn leaves in its row and in the counts.
LEMMA ItemEffect ==
  ASSUME IInv, NEW m \in Mem, ItemDone(m), faults' = 0 => faults = 0
  PROVE  /\ stored' \in [Mem -> Value]
         /\ \A x \in Mem : x # m => stored'[x] = stored[x]
         /\ stored'[m].kind = "finite" => Fit(stored'[m], m, faults')
         /\ stored'[m].kind = "content_too_long" => m \in TooLong
         /\ tally' \in [generated : Nat, failed : Nat, tombstoned : Nat]
         /\ tally'.generated = 0 => tally.generated = 0 /\ (stored'[m].kind = "finite" => stored[m].kind = "finite")
         /\ tally'.failed = 0 => tally.failed = 0 /\ (m \notin moved => stored'[m].kind # "none")
         /\ (m \notin moved /\ m \notin TooLong /\ faults' = 0) => stored'[m].of = m
         /\ tally'.generated # 0 => tally.generated # 0 \/ stored'[m].kind = "finite"
<1> USE DEF IInv
<1>1. /\ stored \in [Mem -> Value] /\ tally \in [generated : Nat, failed : Nat, tombstoned : Nat]
      /\ stored[m].kind = "finite" => Fit(stored[m], m, faults')
      /\ stored[m].kind = "content_too_long" => m \in TooLong
  BY DEF TypeOK, RowsSound, Fit
<1>2. CASE m \in moved /\ UNCHANGED <<stored, tally>>
  BY <1>1, <1>2
<1>3. ASSUME NEW v \in Value, Fit(v, m, faults'), m \notin moved, Counted("generated"),
             stored' = [stored EXCEPT ![m] = v]
      PROVE  /\ stored' \in [Mem -> Value] /\ stored'[m] = v /\ v.kind = "finite" /\ (faults' = 0 => v.of = m)
             /\ \A x \in Mem : x # m => stored'[x] = stored[x]
             /\ tally' \in [generated : Nat, failed : Nat, tombstoned : Nat]
             /\ tally'.generated # 0 /\ tally'.failed = tally.failed
  <2>1. tally'.generated = tally.generated + 1 /\ tally'.failed = tally.failed
          /\ tally' \in [generated : Nat, failed : Nat, tombstoned : Nat]
    BY <1>3, CountedTally
  <2> QED
    BY <1>1, <1>3, <2>1 DEF Fit
<1>4. CASE /\ m \notin moved /\ m \in TooLong /\ Counted("tombstoned")
           /\ stored' = [stored EXCEPT ![m] = Parked]
  <2>1. tally'.generated = tally.generated /\ tally'.failed = tally.failed
          /\ tally' \in [generated : Nat, failed : Nat, tombstoned : Nat]
    BY <1>4, CountedTally
  <2>2. Parked \in Value /\ Parked.kind = "content_too_long"
    BY DEF Parked, Nothing, Value
  <2>3. /\ stored' \in [Mem -> Value] /\ stored'[m] = Parked
        /\ \A x \in Mem : x # m => stored'[x] = stored[x]
    BY <1>1, <1>4, <2>2
  <2> QED
    BY <1>4, <2>1, <2>2, <2>3
<1>5. CASE (m \in TooLong \/ faults' # 0) /\ Counted("failed") /\ UNCHANGED stored
  <2>1. tally'.generated = tally.generated /\ tally'.failed # 0
          /\ tally' \in [generated : Nat, failed : Nat, tombstoned : Nat]
    BY <1>1, <1>5, CountedTally
  <2> QED
    BY <1>1, <1>5, <2>1
<1> QED
  BY <1>2, <1>3, <1>4, <1>5 DEF ItemDone

\* Candidates is a sequence of distinct memories.
LEMMA CandidatesDistinct ==
  /\ Len(Candidates) \in Nat /\ DOMAIN Candidates = 1 .. Len(Candidates)
  /\ \A i \in 1 .. Len(Candidates) : Candidates[i] \in Mem
  /\ \A i, j \in 1 .. Len(Candidates) : Candidates[i] = Candidates[j] => i = j
<1>1. /\ Len(Candidates) \in Nat /\ DOMAIN Candidates = 1 .. Len(Candidates)
      /\ \A i \in 1 .. Len(Candidates) : Candidates[i] \in Mem
  BY BatchAssumption
<1>2. \A i, j \in DOMAIN Candidates : Candidates[i] = Candidates[j] => i = j
  BY BatchAssumption DEF IsInjective
<1> QED
  BY <1>1, <1>2

\* A candidate's turn preserves the invariant.
LEMMA ItemStep ==
  ASSUME IInv, pc = "items", ItemDone(Candidates[next]), Advance,
         UNCHANGED <<setting, batched, last, moved, shown>>, faults' \in {faults, faults + 1}
  PROVE  IInv'
<1> DEFINE m == Candidates[next]
           n == Len(Candidates)
<1>1. /\ faults' = 0 => faults = 0
      /\ next \in 1 .. n /\ n \in Nat /\ m \in Mem /\ next <= last /\ last <= n /\ last \in Nat
  BY CandidatesDistinct DEF IInv, TypeOK, Within
<1>2. /\ stored' \in [Mem -> Value]
      /\ \A x \in Mem : x # m => stored'[x] = stored[x]
      /\ stored'[m].kind = "finite" => Fit(stored'[m], m, faults')
      /\ stored'[m].kind = "content_too_long" => m \in TooLong
      /\ tally' \in [generated : Nat, failed : Nat, tombstoned : Nat]
      /\ tally'.generated = 0 => tally.generated = 0 /\ (stored'[m].kind = "finite" => stored[m].kind = "finite")
      /\ tally'.failed = 0 => tally.failed = 0 /\ (m \notin moved => stored'[m].kind # "none")
      /\ (m \notin moved /\ m \notin TooLong /\ faults' = 0) => stored'[m].of = m
      /\ tally'.generated # 0 => tally.generated # 0 \/ stored'[m].kind = "finite"
  BY <1>1, ItemEffect
<1>3. \A i \in 1 .. n : Candidates[i] \in Mem /\ (i # next => Candidates[i] # m)
  BY <1>1, CandidatesDistinct
<1>4. /\ next' = next + 1 /\ pc' \in {"chunk", "items"}
      /\ pc' = "items" => next # last
      /\ adapter' = adapter /\ trigger' = trigger /\ batched' = batched /\ last' = last /\ moved' = moved
      /\ shown' = shown
  BY DEF Advance, setting
<1> HIDE DEF m, n
<1>5. TypeOK'
  <2>1. vectors' \in Seq(Value)
    <3>1. CASE batched
      <4>1. vectors \in Seq(Value) /\ vectors # <<>>
        BY <1>1, <3>1 DEF IInv, TypeOK, Positioned
      <4> QED
        BY <3>1, <4>1 DEF Advance
    <3>2. CASE ~ batched
      BY <3>2 DEF Advance
    <3> QED
      BY <3>1, <3>2
  <2>2. faults' \in Nat /\ next' \in Nat \ {0}
    BY <1>1, <1>4 DEF IInv, TypeOK
  <2> QED
    BY <1>2, <1>4, <2>1, <2>2 DEF IInv, TypeOK
<1>6. Within'
  BY <1>1, <1>4 DEF Within, n
<1>7. Positioned'
  <2> SUFFICES ASSUME pc' = "items", batched
               PROVE  /\ Len(vectors') = last' - next' + 1
                      /\ \A i \in 1 .. Len(vectors') : Fit(vectors'[i], Candidates[next' + i - 1], faults')
    BY <1>4 DEF Positioned, Fit
  <2>1. /\ vectors \in Seq(Value) /\ Len(vectors) = last - next + 1
        /\ \A i \in 1 .. Len(vectors) : Fit(vectors[i], Candidates[next + i - 1], faults)
    BY DEF IInv, TypeOK, Positioned
  <2>2. vectors' = Tail(vectors) /\ vectors # <<>>
    BY <1>1, <2>1 DEF Advance
  <2>3. /\ Len(vectors') = Len(vectors) - 1
        /\ \A i \in 1 .. Len(vectors') : vectors'[i] = vectors[i + 1]
    BY <2>1, <2>2
  <2>4. Len(vectors') = last' - next' + 1
    BY <1>1, <1>4, <2>1, <2>3
  <2>5. ASSUME NEW i \in 1 .. Len(vectors')
        PROVE  Fit(vectors'[i], Candidates[next' + i - 1], faults')
    <3>1. i + 1 \in 1 .. Len(vectors) /\ vectors'[i] = vectors[i + 1]
      BY <2>1, <2>3
    <3>2. next + (i + 1) - 1 = next' + i - 1
      BY <1>1, <1>4
    <3> QED
      BY <1>1, <2>1, <3>1, <3>2 DEF Fit
  <2> QED
    BY <2>4, <2>5
<1>8. RowsSound'
  <2> SUFFICES ASSUME NEW x \in Mem
               PROVE  /\ stored'[x].kind = "finite" => Fit(stored'[x], x, faults')
                      /\ stored'[x].kind = "content_too_long" => x \in TooLong
    BY <1>4 DEF RowsSound, Fit
  <2> QED
    BY <1>1, <1>2 DEF IInv, RowsSound, Fit
<1>9. Served'
  <2> SUFFICES ASSUME NEW i \in 1 .. n, i < next', Candidates[i] \notin moved
               PROVE  /\ (faults' = 0 /\ Candidates[i] \notin TooLong) => stored'[Candidates[i]].of = Candidates[i]
                      /\ tally'.failed = 0 => stored'[Candidates[i]].kind # "none"
    BY <1>4 DEF Served, n
  <2>1. CASE i = next
    BY <1>2, <2>1 DEF m
  <2>2. CASE i # next
    <3>1. i < next /\ stored'[Candidates[i]] = stored[Candidates[i]]
      BY <1>1, <1>2, <1>3, <1>4, <2>2
    <3>2. faults' = 0 => faults = 0
      BY DEF IInv, TypeOK
    <3> QED
      BY <1>2, <3>1, <3>2 DEF IInv, Served, n
  <2> QED
    BY <2>1, <2>2
<1>10. CountsTrue'
  <2>1. ASSUME tally'.generated = 0, NEW x \in Mem
        PROVE  stored'[x].kind # "finite"
    BY <1>2, <2>1 DEF IInv, CountsTrue
  <2>2. ASSUME tally'.generated # 0, moved' = {}
        PROVE  \E i \in 1 .. n : i < next' /\ stored'[Candidates[i]].kind = "finite"
    <3>1. CASE stored'[m].kind = "finite"
      BY <1>1, <1>4, <3>1 DEF m
    <3>2. CASE tally.generated # 0
      <4>1. PICK i \in 1 .. n : i < next /\ stored[Candidates[i]].kind = "finite"
        BY <1>4, <2>2, <3>2 DEF IInv, CountsTrue, n
      <4>2. i < next' /\ stored'[Candidates[i]].kind = "finite"
        BY <1>1, <1>2, <1>3, <1>4, <4>1
      <4> QED
        BY <4>2
    <3> QED
      BY <1>2, <2>2, <3>1, <3>2
  <2> QED
    BY <2>1, <2>2 DEF CountsTrue, n
<1>11. Unsaid' /\ VerdictHonest'
  BY <1>4 DEF IInv, Unsaid, VerdictHonest
<1> QED
  BY <1>5, <1>6, <1>7, <1>8, <1>9, <1>10, <1>11 DEF IInv

\* Settle with the vector or the error code that the adapter gave.
LEMMA SettleIsItemDone ==
  ASSUME TypeOK, NEW m \in Mem, NEW vec,
         NEW code \in {"none", "CONTENT_TOO_LONG", "PROVIDER_ERROR"}, Settle(m, code, vec),
         code = "none" => vec \in Value /\ Fit(vec, m, faults'),
         code = "CONTENT_TOO_LONG" => m \in TooLong,
         code = "PROVIDER_ERROR" => m \in TooLong \/ faults' # 0
  PROVE  ItemDone(m)
<1>1. CASE code = "none"
  <2>1. ItemOutcome(code) = "generated"
    BY <1>1 DEF ItemOutcome
  <2>2. Save(m, vec, "generated")
    BY <2>1 DEF Settle
  <2> QED
    BY <1>1, <2>2 DEF Save, ItemDone
<1>2. CASE code = "CONTENT_TOO_LONG"
  <2>1. ItemOutcome(code) = "tombstoned"
    BY <1>2 DEF ItemOutcome
  <2>2. Save(m, Parked, "tombstoned")
    BY <2>1 DEF Settle
  <2> QED
    BY <1>2, <2>2 DEF Save, ItemDone
<1>3. CASE code = "PROVIDER_ERROR"
  <2>1. ItemOutcome(code) = "failed"
    BY <1>3 DEF ItemOutcome
  <2>2. Counted("failed") /\ UNCHANGED stored
    BY <2>1 DEF Settle
  <2> QED
    BY <1>3, <2>2 DEF ItemDone
<1> QED
  BY <1>1, <1>2, <1>3

LEMMA SaveFromBatchStep ==
  ASSUME IInv, SaveFromBatch
  PROVE  IInv'
<1>1. /\ pc = "items" /\ batched /\ Settle(Candidates[next], "none", vectors[1]) /\ Advance
      /\ UNCHANGED <<setting, batched, last, moved, shown>> /\ faults' = faults
  BY DEF SaveFromBatch
<1>2. next \in 1 .. Len(Candidates) /\ next <= last /\ last \in Nat /\ Candidates[next] \in Mem
  BY <1>1, CandidatesDistinct DEF IInv, TypeOK, Within
<1>3. /\ vectors \in Seq(Value) /\ Len(vectors) = last - next + 1
      /\ \A i \in 1 .. Len(vectors) : Fit(vectors[i], Candidates[next + i - 1], faults)
  BY <1>1 DEF IInv, TypeOK, Positioned
<1>4. 1 \in 1 .. Len(vectors) /\ next + 1 - 1 = next
  BY <1>2, <1>3
<1>5. vectors[1] \in Value /\ Fit(vectors[1], Candidates[next], faults)
  BY <1>3, <1>4
<1>6. ItemDone(Candidates[next])
  BY <1>1, <1>2, <1>5, SettleIsItemDone DEF IInv
<1> QED
  BY <1>1, <1>6, ItemStep

\* The adapters' error codes.
LEMMA ErrorCodes ==
  ASSUME adapter \in Adapters, NEW reply, NEW n
  PROVE  ErrorCode(reply, n) \in {"none", "CONTENT_TOO_LONG", "PROVIDER_ERROR"}
<1>1. adapter.provider \in {"openai", "ollama"}
  BY BatchAssumption
<1> QED
  BY <1>1 DEF ErrorCode, OpenAIClassifies, OllamaClassifies

LEMMA EmbedSingleStep ==
  ASSUME IInv, EmbedSingle
  PROVE  IInv'
<1> DEFINE m == Candidates[next]
<1>1. /\ pc = "items" /\ Advance
      /\ UNCHANGED <<setting, batched, last, moved, shown>>
  BY DEF EmbedSingle
<1>2. m \in Mem
  BY <1>1, CandidatesDistinct DEF IInv, TypeOK, Within
<1>3. PICK mems : mems = <<m>>
  OBVIOUS
<1>4. mems \in Seq(Mem) /\ Len(mems) = 1 /\ mems[1] = m /\ ToSet(mems) = {m}
  BY <1>2, <1>3 DEF ToSet
<1>5. PICK reply \in Replies(mems) :
        /\ Answer(mems, reply)
        /\ Settle(m, ErrorCode(reply, 1), IF ErrorCode(reply, 1) = "none" THEN reply.vecs[1] ELSE Nothing)
  BY <1>3, <1>4 DEF EmbedSingle, Replies
<1>6. PICK code : code = ErrorCode(reply, 1)
  OBVIOUS
<1>7. adapter \in Adapters /\ faults \in Nat
  BY DEF IInv, TypeOK
<1>8. code \in {"none", "CONTENT_TOO_LONG", "PROVIDER_ERROR"}
  BY <1>6, <1>7, ErrorCodes
<1>9. ASSUME code = "none"
      PROVE  reply.vecs[1] \in Value /\ Fit(reply.vecs[1], m, faults')
  <2>1. /\ reply.vecs \in Seq(Value) /\ Len(reply.vecs) = 1
        /\ \A i \in 1 .. 1 : Fit(reply.vecs[i], mems[i], faults')
    <3>1. faults' = 0 => reply \in HonestReplies(mems)
      BY <1>5, <1>7 DEF Answer, Fault
    <3>2. ErrorCode(reply, Len(mems)) = "none"
      BY <1>4, <1>6, <1>9
    <3>3. /\ reply.vecs \in Seq(Value) /\ Len(reply.vecs) = Len(mems)
          /\ \A i \in 1 .. Len(mems) : Fit(reply.vecs[i], mems[i], faults')
      BY <1>4, <1>5, <1>7, <3>1, <3>2, AcceptedFits
    <3> QED
      BY <1>4, <3>3
  <2> QED
    BY <1>4, <2>1
<1>10. ASSUME code = "CONTENT_TOO_LONG"
       PROVE  m \in TooLong
  <2>1. Rejected(mems)
    BY <1>4, <1>6, <1>7, <1>10, TooLongIsHonest
  <2> QED
    BY <1>4, <2>1 DEF Rejected
<1>11. ASSUME code = "PROVIDER_ERROR", m \notin TooLong
       PROVE  faults' # 0
  <2>1. reply \notin HonestReplies(mems)
    BY <1>2, <1>3, <1>6, <1>7, <1>11, HonestAccepted
  <2> QED
    BY <1>5, <1>7, <2>1 DEF Answer, Fault
<1>12. faults' \in {faults, faults + 1}
  BY <1>5 DEF Answer, Fault
<1>13. ItemDone(m)
  <2>1. PICK vec : vec = IF code = "none" THEN reply.vecs[1] ELSE Nothing
    OBVIOUS
  <2>2. Settle(m, code, vec)
    BY <1>5, <1>6, <2>1
  <2>3. code = "none" => vec \in Value /\ Fit(vec, m, faults')
    BY <1>9, <2>1
  <2> HIDE DEF m
  <2> QED
    BY <1>2, <1>8, <1>10, <1>11, <2>2, <2>3, SettleIsItemDone DEF IInv
<1> QED
  BY <1>1, <1>12, <1>13, ItemStep

LEMMA WriteFailsStep ==
  ASSUME IInv, WriteFails
  PROVE  IInv'
<1>1. /\ pc = "items" /\ Counted("failed") /\ Advance /\ faults' = faults + 1
      /\ UNCHANGED <<setting, batched, last, moved, shown>> /\ UNCHANGED stored
  BY DEF WriteFails, Fault
<1>2. faults' # 0
  BY <1>1 DEF IInv, TypeOK
<1>3. ItemDone(Candidates[next])
  BY <1>1, <1>2 DEF ItemDone
<1> QED
  BY <1>1, <1>3, ItemStep

(***************************************************************************)
(* The other steps                                                         *)
(***************************************************************************)
\* What the surfaces say once a run has reported its outcome.
LEMMA ShowTells ==
  ASSUME TypeOK, Unsaid, pc # "done",
         NEW outcome \in {"ok", "partial", "failed", "skipped", "error"}, Show(outcome)
  PROVE  /\ shown' \in [Surfaces -> Words]
         /\ (shown'["payload"] = "ok" \/ shown'["health"] = "ok" \/ shown'["metric"] = "success")
              => outcome = "ok"
         /\ (shown'["job"] = "raised" \/ shown'["payload"] = "failed"
              \/ shown'["health"] = "failed" \/ shown'["metric"] = "failure")
              => outcome \in {"failed", "error"}
         /\ shown'["job"] = "success" => outcome \in {"ok", "partial"}
<1>1. /\ shown \in [Surfaces -> Words] /\ trigger \in {"job", "memory_embed", "background"}
      /\ shown["job"] = "none" /\ shown["payload"] = "none"
      /\ \/ shown["health"] = "none" /\ shown["metric"] = "none"
         \/ shown["health"] = "cancelled" /\ shown["metric"] = "cancel"
  BY DEF TypeOK, Unsaid
<1>2. {"job", "payload", "health", "metric"} = Surfaces
  BY DEF Surfaces
<1>3. CASE trigger = "job"
  <2>1. PICK word : word = IF outcome \in {"failed", "error"} THEN "raised"
                           ELSE IF outcome = "skipped" THEN "skipped" ELSE "success"
    OBVIOUS
  <2>2. shown' = [shown EXCEPT !["job"] = word]
    BY <1>3, <2>1, Zenon DEF Show
  <2>3. /\ word \in {"raised", "skipped", "success"}
        /\ word = "raised" => outcome \in {"failed", "error"}
        /\ word = "success" => outcome \in {"ok", "partial"}
    BY <2>1
  <2> QED
    BY <1>1, <1>2, <2>2, <2>3 DEF Words
<1>4. CASE trigger = "memory_embed"
  <2>1. PICK word : word = CASE outcome = "skipped" -> "already_running"
                             [] outcome = "error" -> "failed"
                             [] OTHER -> outcome
    OBVIOUS
  <2>2. shown' = [shown EXCEPT !["payload"] = word]
    BY <1>4, <2>1 DEF Show
  <2>3. /\ word \in {"ok", "partial", "failed", "already_running"}
        /\ word = "ok" => outcome = "ok"
        /\ word = "failed" => outcome \in {"failed", "error"}
    BY <2>1
  <2> QED
    BY <1>1, <1>2, <2>2, <2>3 DEF Words
<1>5. CASE trigger = "background" /\ shown["health"] = "cancelled"
  <2>1. shown' = shown
    BY <1>5 DEF Show
  <2> QED
    BY <1>1, <1>5, <2>1
<1>6. CASE trigger = "background" /\ shown["health"] # "cancelled"
  <2>1. shown' = [shown EXCEPT !["health"] = outcome, !["metric"] = JobMetricOutcome(outcome)]
    BY <1>6 DEF Show
  <2>2. /\ JobMetricOutcome(outcome) \in {"overlap", "success", "partial", "failure"}
        /\ JobMetricOutcome(outcome) = "success" => outcome = "ok"
        /\ JobMetricOutcome(outcome) = "failure" => outcome \in {"failed", "error"}
    BY DEF JobMetricOutcome
  <2>3. PICK word : word = JobMetricOutcome(outcome)
    OBVIOUS
  <2>4. /\ shown' \in [Surfaces -> Words] /\ shown'["job"] = "none" /\ shown'["payload"] = "none"
        /\ shown'["health"] = outcome /\ shown'["metric"] = word
    BY <1>1, <1>2, <2>1, <2>2, <2>3 DEF Words
  <2> QED
    BY <2>2, <2>3, <2>4
<1> QED
  BY <1>1, <1>3, <1>4, <1>5, <1>6

LEMMA BeginStep ==
  ASSUME IInv, Begin
  PROVE  IInv'
<1>1. /\ pc' = "chunk" /\ pc = "idle" /\ adapter' = adapter /\ trigger' = trigger
      /\ next' = next /\ vectors' = vectors /\ batched' = batched /\ last' = last
      /\ stored' = stored /\ moved' = moved /\ tally' = tally /\ shown' = shown /\ faults' = faults
  BY DEF Begin, setting, progress
<1> QED
  BY <1>1 DEF IInv, TypeOK, Within, Positioned, RowsSound, Served, CountsTrue, Unsaid, VerdictHonest, Fit

LEMMA CancelStep ==
  ASSUME IInv, Cancel
  PROVE  IInv'
<1>1. /\ pc' = pc /\ pc # "done" /\ adapter' = adapter /\ trigger' = trigger
      /\ next' = next /\ vectors' = vectors /\ batched' = batched /\ last' = last
      /\ stored' = stored /\ moved' = moved /\ tally' = tally /\ faults' = faults
  BY DEF Cancel, setting, progress
<1>2. /\ shown' \in [Surfaces -> Words] /\ shown'["job"] = "none" /\ shown'["payload"] = "none"
      /\ shown'["health"] = "cancelled" /\ shown'["metric"] = "cancel"
  BY <1>1 DEF Cancel, IInv, TypeOK, Unsaid, Surfaces, Words
<1>3. TypeOK' /\ Unsaid'
  BY <1>1, <1>2 DEF IInv, TypeOK, Unsaid
<1>4. Within' /\ Positioned' /\ RowsSound' /\ Served' /\ CountsTrue' /\ VerdictHonest'
  BY <1>1 DEF IInv, Within, Positioned, RowsSound, Served, CountsTrue, VerdictHonest, Fit
<1> QED
  BY <1>3, <1>4 DEF IInv

\* The loop over, or never begun, the invariant but for the verdict.
LEMMA DoneFrame ==
  ASSUME IInv, pc # "done", pc' = "done", shown' \in [Surfaces -> Words], VerdictHonest',
         UNCHANGED <<setting, progress, stored, moved, tally, faults>>
  PROVE  IInv'
<1>1. /\ adapter' = adapter /\ trigger' = trigger
      /\ next' = next /\ vectors' = vectors /\ batched' = batched /\ last' = last
      /\ stored' = stored /\ moved' = moved /\ tally' = tally /\ faults' = faults
  BY DEF setting, progress
<1>2. TypeOK'
  BY <1>1 DEF IInv, TypeOK
<1>3. Within' /\ Positioned' /\ RowsSound' /\ Served' /\ CountsTrue' /\ Unsaid'
  BY <1>1 DEF IInv, Within, Positioned, RowsSound, Served, CountsTrue, Unsaid, Fit
<1> QED
  BY <1>2, <1>3 DEF IInv

LEMMA DeclineStep ==
  ASSUME IInv, NEW outcome \in {"skipped", "error"}, Decline(outcome)
  PROVE  IInv'
<1>1. /\ pc = "idle" /\ pc' = "done" /\ Show(outcome)
      /\ UNCHANGED <<setting, progress, stored, moved, tally, faults>> /\ stored' = stored
  BY DEF Decline
<1>2. tally.generated = 0
  BY <1>1 DEF IInv, Within, NoTally
<1>3. \A m \in Mem : stored'[m].kind # "finite"
  BY <1>1, <1>2 DEF IInv, CountsTrue
<1>4. Embedded' = {}
  BY <1>3 DEF Embedded
<1>5. /\ shown' \in [Surfaces -> Words]
      /\ ~ (shown'["payload"] = "ok" \/ shown'["health"] = "ok" \/ shown'["metric"] = "success")
      /\ shown'["job"] # "success"
  BY <1>1, ShowTells DEF IInv
<1>6. VerdictHonest'
  BY <1>4, <1>5 DEF VerdictHonest
<1> QED
  BY <1>1, <1>5, <1>6, DoneFrame

LEMMA FinishStep ==
  ASSUME IInv, Finish
  PROVE  IInv'
<1>1. /\ pc = "chunk" /\ next > Len(Candidates) /\ pc' = "done" /\ Show(Outcome(tally))
      /\ UNCHANGED <<setting, progress, stored, moved, tally, faults>>
      /\ stored' = stored /\ moved' = moved
  BY DEF Finish
<1>2. tally.generated \in Nat /\ tally.failed \in Nat
  BY DEF IInv, TypeOK
<1>3. PICK outcome : outcome = Outcome(tally)
  OBVIOUS
<1>4. /\ outcome \in {"ok", "partial", "failed"}
      /\ outcome = "ok" => tally.failed = 0
      /\ outcome = "failed" => tally.generated = 0
      /\ outcome = "partial" => tally.generated # 0
  BY <1>2, <1>3 DEF Outcome
<1>5. /\ shown' \in [Surfaces -> Words]
      /\ (shown'["payload"] = "ok" \/ shown'["health"] = "ok" \/ shown'["metric"] = "success")
           => outcome = "ok"
      /\ (shown'["job"] = "raised" \/ shown'["payload"] = "failed"
           \/ shown'["health"] = "failed" \/ shown'["metric"] = "failure")
           => outcome \in {"failed", "error"}
      /\ shown'["job"] = "success" => outcome \in {"ok", "partial"}
  BY <1>1, <1>3, <1>4, ShowTells DEF IInv
<1>6. ASSUME outcome = "ok"
      PROVE  Unserved' = {}
  <2>1. ASSUME NEW m \in ToSet(Candidates), m \notin moved
        PROVE  stored[m] # Nothing
    <3>1. PICK i \in 1 .. Len(Candidates) : m = Candidates[i]
      BY CandidatesDistinct DEF ToSet
    <3>2. i < next
      BY <1>1, CandidatesDistinct DEF IInv, TypeOK
    <3>3. stored[m].kind # "none"
      BY <1>4, <1>6, <2>1, <3>1, <3>2 DEF IInv, Served
    <3> QED
      BY <3>3 DEF Nothing
  <2> QED
    BY <1>1, <2>1 DEF Unserved
<1>7. ASSUME outcome \in {"failed", "error"}
      PROVE  Embedded' = {}
  <2>1. \A m \in Mem : stored[m].kind # "finite"
    BY <1>4, <1>7 DEF IInv, CountsTrue
  <2> QED
    BY <1>1, <2>1 DEF Embedded
<1>8. ASSUME outcome = "partial"
      PROVE  Embedded' # {} \/ moved' # {}
  <2>1. ASSUME moved = {}
        PROVE  \E m \in Mem : stored[m].kind = "finite"
    <3>1. PICK i \in 1 .. Len(Candidates) : stored[Candidates[i]].kind = "finite"
      BY <1>4, <1>8, <2>1 DEF IInv, CountsTrue
    <3> QED
      BY <3>1, CandidatesDistinct
  <2> QED
    BY <1>1, <2>1 DEF Embedded
<1>9. VerdictHonest'
  BY <1>5, <1>6, <1>7, <1>8 DEF VerdictHonest
<1> QED
  BY <1>1, <1>5, <1>9, DoneFrame

LEMMA MoveStep ==
  ASSUME IInv, NEW m \in Mem, Move(m)
  PROVE  IInv'
<1>1. /\ pc \in {"chunk", "items"} /\ pc' = pc /\ adapter' = adapter /\ trigger' = trigger
      /\ next' = next /\ vectors' = vectors /\ batched' = batched /\ last' = last
      /\ tally' = tally /\ faults' = faults /\ shown' = shown
      /\ moved' = moved \union {m} /\ stored' = [stored EXCEPT ![m] = Nothing]
  BY DEF Move, setting, progress
<1>2. Nothing \in Value /\ Nothing.kind = "none"
  BY DEF Nothing, Value
<1>3. /\ stored' \in [Mem -> Value] /\ stored'[m] = Nothing
      /\ \A x \in Mem : x # m => stored'[x] = stored[x]
  BY <1>1, <1>2 DEF IInv, TypeOK
<1>4. TypeOK'
  BY <1>1, <1>3 DEF IInv, TypeOK
<1>5. RowsSound'
  <2> SUFFICES ASSUME NEW x \in Mem
               PROVE  /\ stored'[x].kind = "finite" => Fit(stored'[x], x, faults')
                      /\ stored'[x].kind = "content_too_long" => x \in TooLong
    BY <1>1 DEF RowsSound, Fit
  <2> QED
    BY <1>1, <1>2, <1>3 DEF IInv, RowsSound
<1>6. Served'
  BY <1>1, <1>3, CandidatesDistinct DEF IInv, Served
<1>7. CountsTrue'
  BY <1>1, <1>2, <1>3 DEF IInv, CountsTrue
<1>8. Within' /\ Positioned' /\ Unsaid' /\ VerdictHonest'
  BY <1>1 DEF IInv, Within, Positioned, Unsaid, VerdictHonest, Fit
<1> QED
  BY <1>4, <1>5, <1>6, <1>7, <1>8 DEF IInv

LEMMA EmbedBatchStep ==
  ASSUME IInv, EmbedBatch
  PROVE  IInv'
<1>1. /\ pc = "chunk" /\ next <= Len(Candidates) /\ pc' = "items"
      /\ adapter' = adapter /\ trigger' = trigger /\ next' = next /\ stored' = stored
      /\ moved' = moved /\ tally' = tally /\ shown' = shown
  BY DEF EmbedBatch, setting
<1>2. /\ next \in Nat /\ next >= 1 /\ Len(Candidates) \in Nat /\ ChunkSize \in Nat /\ ChunkSize >= 1
      /\ adapter \in Adapters /\ faults \in Nat /\ Candidates \in Seq(Mem)
  BY CandidatesDistinct, BatchAssumption DEF IInv, TypeOK
<1>3. PICK end : end = IF next + ChunkSize - 1 < Len(Candidates) THEN next + ChunkSize - 1 ELSE Len(Candidates)
  OBVIOUS
<1>4. end \in Nat /\ next <= end /\ end <= Len(Candidates)
  BY <1>1, <1>2, <1>3
<1>5. PICK mems : mems = SubSeq(Candidates, next, end)
  OBVIOUS
<1>6. /\ mems \in Seq(Mem) /\ Len(mems) = end - next + 1
      /\ \A i \in 1 .. Len(mems) : mems[i] = Candidates[next + i - 1]
  BY <1>2, <1>4, <1>5
<1>7. PICK reply \in Replies(mems) :
        /\ Answer(mems, reply)
        /\ batched' = (ErrorCode(reply, Len(mems)) = "none" /\ Len(reply.vecs) = Len(mems))
        /\ vectors' = IF batched' THEN reply.vecs ELSE <<>>
        /\ last' = end
  BY <1>3, <1>5 DEF EmbedBatch, Replies
<1>8. ASSUME batched'
      PROVE  /\ vectors' \in Seq(Value) /\ Len(vectors') = end - next + 1
             /\ \A i \in 1 .. Len(vectors') : Fit(vectors'[i], Candidates[next + i - 1], faults')
  <2>1. ErrorCode(reply, Len(mems)) = "none" /\ vectors' = reply.vecs
    BY <1>7, <1>8
  <2>2. /\ reply.vecs \in Seq(Value) /\ Len(reply.vecs) = Len(mems)
        /\ \A i \in 1 .. Len(mems) : Fit(reply.vecs[i], mems[i], faults')
    <3>1. faults' = 0 => reply \in HonestReplies(mems)
      BY <1>2, <1>7 DEF Answer, Fault
    <3> QED
      BY <1>2, <1>6, <2>1, <3>1, AcceptedFits
  <2> QED
    BY <1>6, <2>1, <2>2
<1>9. ~ batched' => vectors' = <<>>
  BY <1>7
<1>10. batched' \in BOOLEAN /\ vectors' \in Seq(Value)
  <2>1. batched' \in BOOLEAN
    BY <1>7
  <2>2. <<>> \in Seq(Value)
    OBVIOUS
  <2> QED
    BY <1>8, <1>9, <2>1, <2>2, Zenon
<1>11. faults' \in {faults, faults + 1} /\ faults' \in Nat /\ (faults' = 0 => faults = 0)
  BY <1>2, <1>7 DEF Answer, Fault
<1>12. TypeOK'
  BY <1>1, <1>4, <1>7, <1>10, <1>11 DEF IInv, TypeOK
<1>13. Within'
  BY <1>1, <1>4, <1>7 DEF Within
<1>14. Positioned'
  BY <1>1, <1>7, <1>8 DEF Positioned, Fit
<1>15. RowsSound' /\ CountsTrue' /\ Unsaid' /\ VerdictHonest'
  BY <1>1, <1>11 DEF IInv, RowsSound, CountsTrue, Unsaid, VerdictHonest, Fit
<1>16. Served'
  BY <1>1, <1>11 DEF IInv, Served
<1> QED
  BY <1>12, <1>13, <1>14, <1>15, <1>16 DEF IInv

LEMMA Stutter ==
  ASSUME IInv, UNCHANGED vars
  PROVE  IInv'
<1>1. /\ pc' = pc /\ adapter' = adapter /\ trigger' = trigger
      /\ next' = next /\ vectors' = vectors /\ batched' = batched /\ last' = last
      /\ stored' = stored /\ moved' = moved /\ tally' = tally /\ shown' = shown /\ faults' = faults
  BY DEF vars, setting, progress
<1>2. Unserved' = Unserved /\ Embedded' = Embedded
  BY <1>1 DEF Unserved, Embedded
<1>3. TypeOK' /\ Within' /\ Positioned' /\ RowsSound' /\ Served' /\ CountsTrue' /\ Unsaid'
  BY <1>1 DEF IInv, TypeOK, Within, Positioned, RowsSound, Served, CountsTrue, Unsaid, Fit
<1>4. VerdictHonest'
  BY <1>1, <1>2 DEF IInv, VerdictHonest
<1> QED
  BY <1>3, <1>4 DEF IInv

LEMMA InitIInv ==
  ASSUME Init
  PROVE  IInv
<1>1. Nothing \in Value /\ Nothing.kind = "none"
  BY DEF Nothing, Value
<1>2. NoTally \in [generated : Nat, failed : Nat, tombstoned : Nat] /\ NoTally.generated = 0
  BY DEF NoTally
<1>3. TypeOK
  <2>1. <<>> \in Seq(Value) /\ "none" \in Words
    BY DEF Words
  <2>2. stored \in [Mem -> Value] /\ shown \in [Surfaces -> Words]
    BY <1>1, <2>1 DEF Init
  <2>3. vectors \in Seq(Value) /\ tally \in [generated : Nat, failed : Nat, tombstoned : Nat]
    BY <1>2, <2>1, Zenon DEF Init
  <2>4. /\ pc \in {"idle", "chunk", "items", "done"} /\ adapter \in Adapters
        /\ trigger \in {"job", "memory_embed", "background"} /\ moved \subseteq Mem
        /\ batched \in BOOLEAN
    BY DEF Init
  <2>5. next \in Nat \ {0} /\ last \in Nat /\ faults \in Nat
    BY DEF Init
  <2> QED
    BY <2>2, <2>3, <2>4, <2>5, Zenon DEF TypeOK
<1>4. \A m \in Mem : stored[m].kind = "none"
  BY <1>1 DEF Init
<1>5. Within /\ Positioned /\ RowsSound /\ Served /\ VerdictHonest
  BY <1>4 DEF Init, Within, Positioned, RowsSound, Served, VerdictHonest
<1>6. CountsTrue
  BY <1>2, <1>4 DEF Init, CountsTrue
<1>7. Unsaid
  BY DEF Init, Unsaid, Surfaces
<1> QED
  BY <1>3, <1>5, <1>6, <1>7 DEF IInv

LEMMA NextIInv ==
  ASSUME IInv, [Next]_vars
  PROVE  IInv'
<1>1. CASE UNCHANGED vars
  BY <1>1, Stutter
<1>2. ASSUME NEW m \in Mem, Move(m)
      PROVE  IInv'
  BY <1>2, MoveStep
<1>3. CASE Decline("skipped") \/ Decline("error")
  BY <1>3, DeclineStep
<1> QED
  BY <1>1, <1>2, <1>3, BeginStep, CancelStep, EmbedBatchStep, SaveFromBatchStep, EmbedSingleStep,
     WriteFailsStep, FinishStep DEF Next

(***************************************************************************)
(* Theorems                                                                *)
(***************************************************************************)
\* The inductive invariant: position by position, generate_missing keeps every
\* vector with its text, and its counts with the rows.
THEOREM Invariance == Spec => []IInv
<1>1. Init => IInv
  BY InitIInv
<1>2. IInv /\ [Next]_vars => IInv'
  BY NextIInv
<1> QED
  BY <1>1, <1>2, PTL DEF Spec

\* RunSound: however a server fails, rearranged bodies included, a memory is given
\* only what came at its own text's place and only what ranking can use, only an
\* over-long memory is parked, and under an honest server each candidate gets its
\* own text's vector and none pays for a chunk-mate.
THEOREM RunsAreSound == Spec => []RunSound
<1>1. ASSUME IInv
      PROVE  RunSound
  <2>1. StoredVectorsSound
    <3> SUFFICES ASSUME NEW m \in Mem, stored[m].kind \notin {"none", "content_too_long"}
                 PROVE  Fit(stored[m], m, faults)
      BY DEF StoredVectorsSound, Fit
    <3>1. stored[m] \in Value
      BY <1>1 DEF IInv, TypeOK
    <3>2. stored[m].kind = "finite"
      BY <3>1 DEF Value
    <3> QED
      BY <1>1, <3>2 DEF IInv, RowsSound
  <2>2. OnlyOverlongParked
    <3>1. Parked.kind = "content_too_long"
      BY DEF Parked, Nothing
    <3> QED
      BY <1>1, <3>1 DEF IInv, RowsSound, OnlyOverlongParked
  <2>3. ChunkMatesSurvive
    <3> SUFFICES ASSUME next > Len(Candidates), faults = 0,
                        NEW m \in ToSet(Candidates) \ (TooLong \union moved)
                 PROVE  stored[m].of = m
      BY DEF ChunkMatesSurvive
    <3>1. PICK i \in 1 .. Len(Candidates) : m = Candidates[i]
      BY CandidatesDistinct DEF ToSet
    <3>2. i < next
      BY <1>1, CandidatesDistinct DEF IInv, TypeOK
    <3> QED
      BY <1>1, <3>1, <3>2 DEF IInv, Served
  <2> QED
    BY <2>1, <2>2, <2>3 DEF RunSound
<1> QED
  BY <1>1, Invariance, PTL

\* VerdictHonest: what the job, the payload, health and the metric say of a
\* finished run is what it did to the store.
THEOREM VerdictsAreHonest == Spec => []VerdictHonest
<1>1. IInv => VerdictHonest
  BY DEF IInv
<1> QED
  BY <1>1, Invariance, PTL

-----------------------------------------------------------------------------
(***************************************************************************)
(* The embedding part of a health call (EmbeddingHealth), for any memories *)
(* and revisions: each count is right when it is read and stays so while   *)
(* nothing is written; the categories divide the rows.                     *)
(***************************************************************************)


(* Health!Cardinality and Health!IsFiniteSet are the operators of FiniteSets. *)
LEMMA HealthSizes ==
  /\ \A S : Health!Cardinality(S) = Cardinality(S)
  /\ \A S : Health!IsFiniteSet(S) <=> IsFiniteSet(S)
BY DEF Health!Cardinality, Cardinality, Health!IsFiniteSet, IsFiniteSet
USE HealthSizes

\* Where a health call can be, and the types of the state.
ReportPcs == {"none", "total", "rows", "embedded", "stale", "unembeddable", "status", "done"}

ReportType ==
  [pc : ReportPcs, snap : Health!Snapshots, total : Nat, rows : Nat, embedded : Nat, space : Nat,
   content : Nat, unembeddable : Nat, status : {"none", "degraded", "active"}]

HTypeOK ==
  /\ content \in [Corpus -> Contents \union {Health!Absent}]
  /\ row \in [Corpus -> Health!Rows \union {Health!NoRow}]
  /\ revision \in Health!Snapshots
  /\ count \in Nat /\ failedOp \in Health!Ops \union {"none"} /\ searches \in Nat /\ naming \subseteq Health!Ops
  /\ report \in ReportType /\ calm \in BOOLEAN /\ ops \in Nat

\* The memories, and those with a row.
Existing == {m \in Corpus : Health!Exists(m)}
StoredMem == {m \in Corpus : Health!Stored(m)}

\* The foreign key: a row belongs to a memory.
RowsOfMemories == StoredMem \subseteq Existing

\* While nothing is written, every field that the call has filled is the count it is
\* named for.
ReportSound ==
  calm = TRUE =>
    /\ report.pc # "none" => report.snap = revision
    /\ report.pc \in ReportPcs \ {"none", "total"} => report.total = Cardinality(Existing)
    /\ report.pc \in ReportPcs \ {"none", "total", "rows"} => report.rows = Cardinality(StoredMem)
    /\ report.pc \in {"unembeddable", "status", "done"} =>
         /\ report.space = Cardinality(Health!SpaceMismatch(report.snap))
         /\ report.content = Cardinality(Health!ContentMismatch(report.snap))
    /\ report.pc \in {"status", "done"} => report.unembeddable = Cardinality(Health!Unembeddable(report.snap))
    /\ (report.pc = "done" /\ report.snap = Health!Unknown) => report.status = "degraded"

\* A count without an operation is one that a thread is about to name.
Named == (count > 0 /\ failedOp = "none") => naming # {}

\* The inductive invariant.
HIInv == HTypeOK /\ RowsOfMemories /\ ReportSound /\ Named

-----------------------------------------------------------------------------
LEMMA DisjointSum ==
  ASSUME NEW A, NEW B, IsFiniteSet(A), IsFiniteSet(B), A \cap B = {}
  PROVE  /\ IsFiniteSet(A \cup B)
         /\ Cardinality(A \cup B) = Cardinality(A) + Cardinality(B)
<1>1. Cardinality(A) \in Nat /\ Cardinality(B) \in Nat
  BY FS_CardinalityType
<1>2. Cardinality(A \cap B) = 0
  BY FS_EmptySet
<1>3. /\ IsFiniteSet(A \cup B)
      /\ Cardinality(A \cup B) = Cardinality(A) + Cardinality(B) - Cardinality(A \cap B)
  BY FS_Union
<1> QED BY <1>1, <1>2, <1>3

LEMMA PartsFinite ==
  ASSUME Health!HealthAssumption, NEW A, A \subseteq Corpus
  PROVE  IsFiniteSet(A) /\ Cardinality(A) \in Nat
BY FS_Subset, FS_CardinalityType DEF Health!HealthAssumption

LEMMA RowCases ==
  ASSUME HTypeOK, NEW m \in Corpus
  PROVE  /\ Health!Stored(m) => row[m] \in Health!Rows
         /\ ~Health!Stored(m) => row[m] = Health!NoRow
BY DEF HTypeOK, Health!Stored, Health!Rows, Health!NoRow

\* A row is current when its space, its revision and its hash are.
LEMMA Currency ==
  ASSUME HTypeOK, NEW m \in Corpus, NEW r
  PROVE  Health!IsCurrent(m, r) <=>
           (Health!Stored(m) /\ row[m].space = "active" /\ row[m].rev = r /\ row[m].hash = content[m])
<1>1. CASE ~Health!Stored(m)
  BY <1>1 DEF Health!IsCurrent
<1>2. CASE Health!Stored(m)
  <2>1. row[m] \in Health!Rows
    BY <1>2, RowCases
  <2> DEFINE w == row[m]
             x == [w EXCEPT !.space = "active"]
             y == [x EXCEPT !.rev = r]
             z == [y EXCEPT !.hash = content[m]]
  <2>2. Health!IsCurrent(m, r) <=> w = z
    BY <1>2, Zenon DEF Health!IsCurrent
  <2>3. w = [status |-> w.status, space |-> w.space, rev |-> w.rev, hash |-> w.hash]
    BY <2>1 DEF Health!Rows
  <2>4. z = [status |-> w.status, space |-> "active", rev |-> r, hash |-> content[m]]
    <3> DEFINE c == content[m]
    <3> HIDE DEF w, c
    <3>1. x = [status |-> w.status, space |-> "active", rev |-> w.rev, hash |-> w.hash]
      BY <2>3
    <3> HIDE DEF x
    <3>2. y = [status |-> w.status, space |-> "active", rev |-> r, hash |-> w.hash]
      BY <3>1
    <3> HIDE DEF y
    <3>3. z = [status |-> w.status, space |-> "active", rev |-> r, hash |-> c]
      BY <3>2 DEF c
    <3> QED BY <3>3 DEF c
  <2>5. z.space = "active" /\ z.rev = r /\ z.hash = content[m]
    BY <2>4
  <2> HIDE DEF z
  <2>6. w = z => (w.space = "active" /\ w.rev = r /\ w.hash = content[m])
    BY <2>5
  <2>7. (w.space = "active" /\ w.rev = r /\ w.hash = content[m]) => w = z
    BY <2>3, <2>4
  <2> QED BY <1>2, <2>2, <2>6, <2>7
<1> QED BY <1>1, <1>2

\* Under a known revision the categories of the report divide the rows, and what is
\* missing or stale is what a backfill would embed.
LEMMA VerifiedPartition ==
  ASSUME Health!HealthAssumption, HTypeOK, RowsOfMemories, NEW snap \in Health!Snapshots, snap.known
  PROVE  LET v == snap.value
             current == Health!RowsWhere(LAMBDA r : r.status = "ok") \ Health!Work(v)
         IN /\ Cardinality(Existing) - Cardinality(StoredMem)
                 + (Cardinality(Health!SpaceMismatch(snap)) + Cardinality(Health!ContentMismatch(snap)))
                 = Cardinality(Health!Work(v))
            /\ Cardinality(StoredMem)
                 = Cardinality(Health!SpaceMismatch(snap)) + Cardinality(Health!ContentMismatch(snap))
                     + Cardinality(Health!Unembeddable(snap)) + Cardinality(current)
<1> DEFINE v == snap.value
           current == Health!RowsWhere(LAMBDA r : r.status = "ok") \ Health!Work(v)
           A == Existing \ StoredMem
           B == Health!SpaceMismatch(snap)
           C == Health!ContentMismatch(snap)
           D == Health!Unembeddable(snap)
<1>1. \A m \in Corpus : Health!Stored(m) => Health!Exists(m)
  BY DEF RowsOfMemories, StoredMem, Existing
<1>2. \A m : m \in B <=> m \in Corpus /\ Health!Stored(m) /\ ~(row[m].space = "active" /\ row[m].rev = v)
  BY DEF Health!SpaceMismatch, Health!RowsWhere, Health!InSpace
<1>3. \A m : m \in C <=> m \in Corpus /\ Health!Stored(m) /\ row[m].space = "active" /\ row[m].rev = v
                           /\ row[m].hash # content[m]
  BY DEF Health!ContentMismatch, Health!RowsWhere, Health!InSpace
<1>4. \A m : m \in D <=> m \in Corpus /\ Health!Stored(m) /\ row[m].status = "content_too_long"
                           /\ row[m].space = "active" /\ row[m].rev = v /\ row[m].hash = content[m]
  BY DEF Health!Unembeddable, Health!RowsWhere, Health!InSpace
<1>5. \A m : m \in Health!Work(v) <=> m \in Corpus /\ Health!Exists(m)
                 /\ ~(Health!Stored(m) /\ row[m].space = "active" /\ row[m].rev = v /\ row[m].hash = content[m])
  BY Currency DEF Health!Work
<1>6. \A m : m \in current <=> m \in Corpus /\ Health!Stored(m) /\ row[m].status = "ok" /\ m \notin Health!Work(v)
  BY DEF Health!RowsWhere
<1>7. \A m \in Corpus : Health!Stored(m) => row[m].status \in {"ok", "content_too_long"}
  BY RowCases DEF Health!Rows
<1>8. \A m : (m \in Existing <=> m \in Corpus /\ Health!Exists(m)) /\ (m \in StoredMem <=> m \in Corpus /\ Health!Stored(m))
  BY DEF Existing, StoredMem
<1>9. A \subseteq Corpus /\ B \subseteq Corpus /\ C \subseteq Corpus /\ D \subseteq Corpus /\ current \subseteq Corpus
      /\ StoredMem \subseteq Corpus /\ Existing \subseteq Corpus
  BY <1>2, <1>3, <1>4, <1>6, <1>8
<1> HIDE DEF A, B, C, D, current, v
<1>10. Health!Work(v) = (A \cup B) \cup C /\ A \cap B = {} /\ (A \cup B) \cap C = {}
  BY <1>1, <1>2, <1>3, <1>5, <1>8, Zenon DEF A
<1>11. StoredMem = ((B \cup C) \cup D) \cup current /\ B \cap C = {} /\ (B \cup C) \cap D = {}
       /\ ((B \cup C) \cup D) \cap current = {}
  <2>1. B \cap C = {} /\ (B \cup C) \cap D = {}
    BY <1>2, <1>3, <1>4
  <2>2. ((B \cup C) \cup D) \cap current = {}
    BY <1>1, <1>2, <1>3, <1>4, <1>5, <1>6
  <2>3. StoredMem \subseteq ((B \cup C) \cup D) \cup current
    BY <1>2, <1>3, <1>4, <1>5, <1>6, <1>7, <1>8
  <2>4. ((B \cup C) \cup D) \cup current \subseteq StoredMem
    BY <1>2, <1>3, <1>4, <1>6, <1>8
  <2> QED BY <2>1, <2>2, <2>3, <2>4
<1>12. /\ IsFiniteSet(A) /\ IsFiniteSet(B) /\ IsFiniteSet(C) /\ IsFiniteSet(D) /\ IsFiniteSet(current)
       /\ IsFiniteSet(StoredMem)
       /\ Cardinality(A) \in Nat /\ Cardinality(B) \in Nat /\ Cardinality(C) \in Nat
       /\ Cardinality(D) \in Nat /\ Cardinality(current) \in Nat /\ Cardinality(StoredMem) \in Nat
  BY <1>9, PartsFinite
<1>13. Cardinality(Health!Work(v)) = Cardinality(A) + Cardinality(B) + Cardinality(C)
  <2>1. IsFiniteSet(A \cup B) /\ Cardinality(A \cup B) = Cardinality(A) + Cardinality(B)
    BY <1>10, <1>12, DisjointSum
  <2>2. Cardinality((A \cup B) \cup C) = Cardinality(A \cup B) + Cardinality(C)
    BY <1>10, <1>12, <2>1, DisjointSum
  <2> QED BY <1>10, <2>1, <2>2
<1>14. Cardinality(Existing) = Cardinality(StoredMem) + Cardinality(A)
  <2>1. Existing = StoredMem \cup A /\ StoredMem \cap A = {}
    BY DEF A, RowsOfMemories
  <2> QED BY <1>12, <2>1, DisjointSum
<1>15. Cardinality(StoredMem) = Cardinality(B) + Cardinality(C) + Cardinality(D) + Cardinality(current)
  <2>1. IsFiniteSet(B \cup C) /\ Cardinality(B \cup C) = Cardinality(B) + Cardinality(C)
    BY <1>11, <1>12, DisjointSum
  <2>2. IsFiniteSet((B \cup C) \cup D)
        /\ Cardinality((B \cup C) \cup D) = Cardinality(B \cup C) + Cardinality(D)
    BY <1>11, <1>12, <2>1, DisjointSum
  <2>3. Cardinality(((B \cup C) \cup D) \cup current)
          = Cardinality((B \cup C) \cup D) + Cardinality(current)
    BY <1>11, <1>12, <2>2, DisjointSum
  <2> QED BY <1>11, <2>1, <2>2, <2>3
<1>16. /\ Cardinality(Existing) - Cardinality(StoredMem) + (Cardinality(B) + Cardinality(C))
            = Cardinality(Health!Work(v))
       /\ Cardinality(StoredMem)
            = Cardinality(B) + Cardinality(C) + Cardinality(D) + Cardinality(current)
  BY <1>12, <1>13, <1>14, <1>15
<1> QED BY <1>16 DEF B, C, D, current, v

\* Without one, what is missing or stale is work under every revision.
LEMMA UnverifiedBound ==
  ASSUME Health!HealthAssumption, HTypeOK, RowsOfMemories, NEW r \in Revs
  PROVE  Cardinality(Existing) - Cardinality(StoredMem)
           + (Cardinality(Health!SpaceMismatch(Health!Unknown)) + Cardinality(Health!ContentMismatch(Health!Unknown)))
           <= Cardinality(Health!Work(r))
<1> DEFINE A == Existing \ StoredMem
           B == Health!SpaceMismatch(Health!Unknown)
           C == Health!ContentMismatch(Health!Unknown)
<1>1. \A m \in Corpus : Health!Stored(m) => Health!Exists(m)
  BY DEF RowsOfMemories, StoredMem, Existing
<1>2. \A m : m \in B <=> m \in Corpus /\ Health!Stored(m) /\ row[m].space # "active"
  BY DEF Health!SpaceMismatch, Health!RowsWhere, Health!InSpace, Health!Unknown
<1>3. \A m : m \in C <=> m \in Corpus /\ Health!Stored(m) /\ row[m].space = "active" /\ row[m].hash # content[m]
  BY DEF Health!ContentMismatch, Health!RowsWhere, Health!InSpace, Health!Unknown
<1>4. \A m : m \in Health!Work(r) <=> m \in Corpus /\ Health!Exists(m)
                 /\ ~(Health!Stored(m) /\ row[m].space = "active" /\ row[m].rev = r /\ row[m].hash = content[m])
  BY Currency DEF Health!Work
<1>5. \A m : (m \in Existing <=> m \in Corpus /\ Health!Exists(m)) /\ (m \in StoredMem <=> m \in Corpus /\ Health!Stored(m))
  BY DEF Existing, StoredMem
<1>6. A \subseteq Corpus /\ B \subseteq Corpus /\ C \subseteq Corpus /\ StoredMem \subseteq Corpus /\ Health!Work(r) \subseteq Corpus
  BY <1>2, <1>3, <1>4, <1>5
<1> HIDE DEF A, B, C
<1>7. A \cap B = {} /\ (A \cup B) \cap C = {}
  BY <1>2, <1>3, <1>5 DEF A
<1>8. (A \cup B) \cup C \subseteq Health!Work(r)
  <2>1. A \subseteq Health!Work(r)
    BY <1>4, <1>5 DEF A
  <2>2. B \subseteq Health!Work(r) /\ C \subseteq Health!Work(r)
    BY <1>1, <1>2, <1>3, <1>4
  <2> QED BY <2>1, <2>2
<1>9. /\ IsFiniteSet(A) /\ IsFiniteSet(B) /\ IsFiniteSet(C) /\ IsFiniteSet(StoredMem)
      /\ IsFiniteSet(Health!Work(r))
      /\ Cardinality(A) \in Nat /\ Cardinality(B) \in Nat /\ Cardinality(C) \in Nat
      /\ Cardinality(StoredMem) \in Nat /\ Cardinality(Health!Work(r)) \in Nat
  BY <1>6, PartsFinite
<1>10. Cardinality(A) + Cardinality(B) + Cardinality(C) <= Cardinality(Health!Work(r))
  <2>1. IsFiniteSet(A \cup B) /\ Cardinality(A \cup B) = Cardinality(A) + Cardinality(B)
    BY <1>7, <1>9, DisjointSum
  <2>2. Cardinality((A \cup B) \cup C) = Cardinality(A \cup B) + Cardinality(C)
    BY <1>7, <1>9, <2>1, DisjointSum
  <2>3. Cardinality((A \cup B) \cup C) <= Cardinality(Health!Work(r))
    BY <1>8, <1>9, FS_Subset
  <2> QED BY <2>1, <2>2, <2>3
<1>11. Cardinality(Existing) = Cardinality(StoredMem) + Cardinality(A)
  <2>1. Existing = StoredMem \cup A /\ StoredMem \cap A = {}
    BY DEF A, RowsOfMemories
  <2> QED BY <1>9, <2>1, DisjointSum
<1>12. Cardinality(Existing) - Cardinality(StoredMem) + (Cardinality(B) + Cardinality(C))
         <= Cardinality(Health!Work(r))
  BY <1>9, <1>10, <1>11
<1> QED BY <1>12 DEF B, C

LEMMA SnapshotCases ==
  ASSUME NEW snap \in Health!Snapshots
  PROVE  /\ snap.known \/ snap = Health!Unknown
         /\ snap = Health!Unknown => ~snap.known
<1>1. Health!Unknown.known = FALSE
  BY DEF Health!Unknown
<1>2. snap \in [known : {TRUE}, value : Revs] => snap.known = TRUE
  OBVIOUS
<1>3. snap.known = TRUE \/ snap = Health!Unknown
  BY <1>2 DEF Health!Snapshots
<1> QED BY <1>1, <1>3

\* The invariant implies that the report is honest.
LEMMA HIInvIsEnough ==
  ASSUME Health!HealthAssumption, HIInv
  PROVE  Health!HealthHonest
<1>1. HTypeOK /\ RowsOfMemories /\ report \in ReportType /\ calm \in BOOLEAN /\ report.snap \in Health!Snapshots
  BY DEF HIInv, HTypeOK, ReportType
<1>2. ASSUME report.pc = "done", calm
      PROVE  /\ report.total = Cardinality(Existing) /\ report.rows = Cardinality(StoredMem)
             /\ report.space = Cardinality(Health!SpaceMismatch(report.snap))
             /\ report.content = Cardinality(Health!ContentMismatch(report.snap))
             /\ report.unembeddable = Cardinality(Health!Unembeddable(report.snap))
             /\ report.snap = Health!Unknown => report.status = "degraded"
  BY <1>1, <1>2 DEF HIInv, ReportSound, ReportPcs
<1>3. Health!ReportCountsTheWork
  <2> SUFFICES ASSUME report.pc = "done", calm, report.snap.known
               PROVE  /\ Health!Missing + Health!Stale = Cardinality(Health!Work(report.snap.value))
                      /\ report.rows = Health!Stale + report.unembeddable
                           + Cardinality(Health!RowsWhere(LAMBDA r : r.status = "ok") \ Health!Work(report.snap.value))
    BY DEF Health!ReportCountsTheWork
  <2> DEFINE current == Health!RowsWhere(LAMBDA r : r.status = "ok") \ Health!Work(report.snap.value)
  <2>1. /\ Cardinality(Existing) - Cardinality(StoredMem)
             + (Cardinality(Health!SpaceMismatch(report.snap)) + Cardinality(Health!ContentMismatch(report.snap)))
             = Cardinality(Health!Work(report.snap.value))
        /\ Cardinality(StoredMem)
             = Cardinality(Health!SpaceMismatch(report.snap)) + Cardinality(Health!ContentMismatch(report.snap))
                 + Cardinality(Health!Unembeddable(report.snap)) + Cardinality(current)
    BY <1>1, VerifiedPartition
  <2> HIDE DEF current
  <2>2. /\ Health!Missing + Health!Stale = Cardinality(Health!Work(report.snap.value))
        /\ report.rows = Health!Stale + report.unembeddable + Cardinality(current)
    BY <1>2, <2>1 DEF Health!Missing, Health!Stale
  <2> QED BY <2>2 DEF current
<1>4. Health!UnverifiedNeverOverstates
  <2> SUFFICES ASSUME report.pc = "done", calm, ~report.snap.known
               PROVE  /\ \A r \in Revs : Health!Missing + Health!Stale <= Cardinality(Health!Work(r))
                      /\ report.status = "degraded"
    BY DEF Health!UnverifiedNeverOverstates
  <2>1. report.snap = Health!Unknown
    BY <1>1, SnapshotCases
  <2>2. ASSUME NEW r \in Revs PROVE Health!Missing + Health!Stale <= Cardinality(Health!Work(r))
    BY <1>1, <1>2, <2>1, UnverifiedBound DEF Health!Missing, Health!Stale
  <2> QED BY <1>2, <2>1, <2>2
<1>5. Health!FailureNamed
  BY DEF Health!FailureNamed, HIInv, Named
<1> QED BY <1>3, <1>4, <1>5 DEF Health!HealthHonest

-----------------------------------------------------------------------------
LEMMA HealthInit ==
  ASSUME Health!HealthAssumption, Health!Init
  PROVE  HIInv
<1>1. Health!Unknown \in Health!Snapshots
  BY DEF Health!Snapshots
<1>2. Health!NoReport \in ReportType /\ Health!NoReport.pc = "none"
  BY <1>1 DEF Health!NoReport, ReportType, ReportPcs
<1>3. HTypeOK
  BY <1>2 DEF HTypeOK, Health!Init, Health!Ops
<1>4. RowsOfMemories
  BY DEF Health!Init, RowsOfMemories, StoredMem, Existing
<1>5. ReportSound
  BY <1>2 DEF Health!Init, ReportSound, ReportPcs
<1>6. Named
  BY DEF Health!Init, Named
<1> QED BY <1>3, <1>4, <1>5, <1>6 DEF HIInv

\* A write ends the calm, so that the report owes nothing any more.
LEMMA WriterSound ==
  ASSUME Health!HealthAssumption, HIInv, Health!Writer
  PROVE  HIInv'
<1>1. HTypeOK /\ RowsOfMemories /\ Named
  BY DEF HIInv
<1>2. UNCHANGED <<Health!counters, report>> /\ ops' = ops + 1 /\ calm' = FALSE
  BY DEF Health!Writer, Health!AddMemory, Health!UpdateMemory, Health!DeleteEmbedding, Health!DeleteMemory, Health!Probe, Health!Written
<1>3. Named' /\ ReportSound'
  BY <1>1, <1>2 DEF Named, Health!counters, ReportSound
<1>4. /\ content' \in [Corpus -> Contents \union {Health!Absent}] /\ row' \in [Corpus -> Health!Rows \union {Health!NoRow}]
      /\ revision' \in Health!Snapshots /\ RowsOfMemories'
  <2>1. ASSUME NEW m \in Corpus, NEW c \in Contents, Health!AddMemory(m, c) \/ Health!UpdateMemory(m, c)
        PROVE  /\ content' \in [Corpus -> Contents \union {Health!Absent}] /\ row' \in [Corpus -> Health!Rows \union {Health!NoRow}]
               /\ revision' \in Health!Snapshots /\ RowsOfMemories'
    <3>1. content' = [content EXCEPT ![m] = c] /\ row' = row /\ revision' = revision
      BY <2>1 DEF Health!AddMemory, Health!UpdateMemory
    <3>2. c # Health!Absent
      BY DEF Health!HealthAssumption
    <3>3. content' \in [Corpus -> Contents \union {Health!Absent}] /\ \A x \in Corpus : content[x] # Health!Absent => content'[x] # Health!Absent
      BY <1>1, <3>1, <3>2 DEF HTypeOK
    <3>4. RowsOfMemories'
      BY <1>1, <3>1, <3>3 DEF RowsOfMemories, StoredMem, Existing, Health!Stored, Health!Exists
    <3> QED BY <1>1, <3>1, <3>3, <3>4 DEF HTypeOK
  <2>2. ASSUME NEW m \in Corpus, Health!DeleteEmbedding(m) \/ Health!DeleteMemory(m)
        PROVE  /\ content' \in [Corpus -> Contents \union {Health!Absent}] /\ row' \in [Corpus -> Health!Rows \union {Health!NoRow}]
               /\ revision' \in Health!Snapshots /\ RowsOfMemories'
    <3>1. row' = [row EXCEPT ![m] = Health!NoRow] /\ revision' = revision
          /\ (content' = content \/ content' = [content EXCEPT ![m] = Health!Absent])
      BY <2>2 DEF Health!DeleteEmbedding, Health!DeleteMemory
    <3>2. content' \in [Corpus -> Contents \union {Health!Absent}] /\ row' \in [Corpus -> Health!Rows \union {Health!NoRow}]
      BY <1>1, <3>1 DEF HTypeOK
    <3>3. \A x \in Corpus : row'[x].status # "none" => x # m /\ row[x].status # "none"
      BY <1>1, <3>1 DEF HTypeOK, Health!NoRow
    <3>4. \A x \in Corpus : x # m => content'[x] = content[x]
      BY <1>1, <3>1 DEF HTypeOK
    <3>5. RowsOfMemories'
      BY <1>1, <3>3, <3>4 DEF RowsOfMemories, StoredMem, Existing, Health!Stored, Health!Exists
    <3> QED BY <1>1, <3>1, <3>2, <3>5 DEF HTypeOK
  <2>3. ASSUME NEW value \in Revs, Health!Probe(value)
        PROVE  /\ content' \in [Corpus -> Contents \union {Health!Absent}] /\ row' \in [Corpus -> Health!Rows \union {Health!NoRow}]
               /\ revision' \in Health!Snapshots /\ RowsOfMemories'
    <3>1. content' = content /\ row' = row /\ revision' = [known |-> TRUE, value |-> value]
      BY <2>3 DEF Health!Probe, Health!database
    <3>2. revision' \in Health!Snapshots
      BY <3>1 DEF Health!Snapshots
    <3> QED BY <1>1, <3>1, <3>2 DEF HTypeOK, RowsOfMemories, StoredMem, Existing, Health!Stored, Health!Exists
  <2> QED BY <2>1, <2>2, <2>3 DEF Health!Writer
<1>5. HTypeOK'
  <2>1. count' = count /\ failedOp' = failedOp /\ searches' = searches /\ naming' = naming /\ report' = report
    BY <1>2 DEF Health!counters
  <2>2. ops' \in Nat
    BY <1>1, <1>2 DEF HTypeOK
  <2>3. calm' \in BOOLEAN
    BY <1>2
  <2> QED BY <1>1, <1>4, <2>1, <2>2, <2>3 DEF HTypeOK
<1> QED BY <1>3, <1>4, <1>5 DEF HIInv

LEMMA ReportKept ==
  ASSUME ReportSound, UNCHANGED <<Health!database, revision, report, calm>>
  PROVE  ReportSound'
BY DEF ReportSound, Health!database, Existing, StoredMem, Health!Exists, Health!Stored, Health!SpaceMismatch, Health!ContentMismatch,
       Health!Unembeddable, Health!RowsWhere, Health!InSpace

\* Failures, and what the provider says of its revision.
LEMMA ProviderSound ==
  ASSUME Health!HealthAssumption, HIInv, Health!Provider
  PROVE  HIInv'
<1>1. HTypeOK /\ RowsOfMemories /\ Named /\ ReportSound
  BY DEF HIInv
<1>2. CASE Health!SearchServed
  <2>1. UNCHANGED <<Health!database, revision, naming, report, calm, ops>> /\ count' = 0 /\ failedOp' = "none"
        /\ searches' = 0
    BY <1>2 DEF Health!SearchServed, Health!RecordSuccess
  <2>2. HTypeOK'
    BY <1>1, <2>1 DEF HTypeOK, Health!database
  <2>3. RowsOfMemories' /\ ReportSound'
    BY <1>1, <2>1, ReportKept DEF RowsOfMemories, StoredMem, Existing, Health!Stored, Health!Exists, Health!database
  <2>4. Named'
    BY <2>1 DEF Named
  <2> QED BY <2>2, <2>3, <2>4 DEF HIInv
<1>3. ASSUME NEW op \in Health!Ops \ {"search"}, NEW m \in Corpus, NEW s \in {"ok", "content_too_long"}, Health!Embed(op, m, s)
      PROVE  HIInv'
  <2> DEFINE w == [status |-> s, space |-> "active", rev |-> revision.value, hash |-> content[m]]
  <2>1. /\ revision.known /\ Health!Exists(m) /\ calm' = FALSE /\ ops' = ops + 1
        /\ row' = [row EXCEPT ![m] = w]
        /\ UNCHANGED <<content, revision, naming, report>>
    BY <1>3 DEF Health!Embed, Health!Written
  <2>2. revision.value \in Revs /\ content[m] \in Contents
    <3>1. revision \in Health!Snapshots /\ revision # Health!Unknown
      BY <1>1, <2>1, SnapshotCases DEF HTypeOK
    <3>2. revision \in [known : {TRUE}, value : Revs]
      BY <3>1 DEF Health!Snapshots
    <3> QED BY <1>1, <2>1, <3>2 DEF HTypeOK, Health!Exists
  <2>3. w \in Health!Rows
    BY <2>2 DEF Health!Rows
  <2>4. row' \in [Corpus -> Health!Rows \union {Health!NoRow}]
    BY <1>1, <2>1, <2>3 DEF HTypeOK
  <2>5. RowsOfMemories'
    <3>1. \A x \in Corpus : x # m => row'[x] = row[x]
      BY <1>1, <2>1 DEF HTypeOK
    <3> QED BY <1>1, <2>1, <3>1 DEF RowsOfMemories, StoredMem, Existing, Health!Stored, Health!Exists
  <2>6. /\ count' \in Nat /\ failedOp' \in Health!Ops \union {"none"} /\ searches' \in Nat
        /\ count' > 0 => count' = count /\ failedOp' = failedOp
    <3>1. CASE count' = 0 /\ failedOp' = "none" /\ searches' = searches
      BY <1>1, <3>1 DEF HTypeOK
    <3>2. CASE count' = count /\ failedOp' = failedOp /\ searches' = searches
      BY <1>1, <3>2 DEF HTypeOK
    <3> QED BY <1>3, <3>1, <3>2 DEF Health!Embed, Health!RecordSuccess
  <2>7. HTypeOK'
    <3>1. ops' \in Nat
      BY <1>1, <2>1 DEF HTypeOK
    <3>2. calm' \in BOOLEAN
      BY <2>1
    <3> QED BY <1>1, <2>1, <2>4, <2>6, <3>1, <3>2 DEF HTypeOK
  <2>8. ReportSound'
    BY <2>1 DEF ReportSound
  <2>9. Named'
    BY <1>1, <2>1, <2>6 DEF Named
  <2> QED BY <2>5, <2>7, <2>8, <2>9 DEF HIInv
<1>4. ASSUME NEW op \in Health!Ops, Health!CallFails(op)
      PROVE  HIInv'
  <2>1. /\ naming' = naming \union {op} /\ UNCHANGED <<Health!database, revision, report, calm, ops>>
        /\ count' = count + 1 /\ failedOp' = failedOp
        /\ searches' \in {searches, searches + 1}
    BY <1>4 DEF Health!CallFails, Health!Assign
  <2>2. HTypeOK'
    <3>1. count' \in Nat /\ searches' \in Nat /\ naming' \subseteq Health!Ops
      BY <1>1, <2>1 DEF HTypeOK
    <3> QED BY <1>1, <2>1, <3>1 DEF HTypeOK, Health!database
  <2>3. RowsOfMemories' /\ ReportSound'
    BY <1>1, <2>1, ReportKept DEF RowsOfMemories, StoredMem, Existing, Health!Stored, Health!Exists, Health!database
  <2>4. Named'
    BY <2>1 DEF Named
  <2> QED BY <2>2, <2>3, <2>4 DEF HIInv
<1>5. ASSUME NEW op \in Health!Ops, Health!NameFailure(op)
      PROVE  HIInv'
  <2>1. /\ naming' = naming \ {op} /\ UNCHANGED <<Health!database, revision, searches, report, calm, ops>>
        /\ count' = count /\ failedOp' = op
    BY <1>5 DEF Health!NameFailure, Health!Assign
  <2>2. HTypeOK'
    BY <1>1, <2>1 DEF HTypeOK, Health!database
  <2>3. RowsOfMemories' /\ ReportSound'
    BY <1>1, <2>1, ReportKept DEF RowsOfMemories, StoredMem, Existing, Health!Stored, Health!Exists, Health!database
  <2>4. Named'
    BY <2>1 DEF Named, Health!Ops
  <2> QED BY <2>2, <2>3, <2>4 DEF HIInv
<1> QED BY <1>2, <1>3, <1>4, <1>5 DEF Health!Provider

LEMMA ReportFields ==
  ASSUME NEW w \in ReportType, NEW at \in ReportPcs
  PROVE  /\ [w EXCEPT !.pc = at] \in ReportType
         /\ \A n \in Nat : /\ [w EXCEPT !.total = n] \in ReportType /\ [w EXCEPT !.rows = n] \in ReportType
                           /\ [w EXCEPT !.embedded = n] \in ReportType /\ [w EXCEPT !.space = n] \in ReportType
                           /\ [w EXCEPT !.content = n] \in ReportType
                           /\ [w EXCEPT !.unembeddable = n] \in ReportType
BY DEF ReportType

(* What a read of the report keeps of the fields filled before it. *)
LEMMA ReadSound ==
  ASSUME Health!HealthAssumption, HIInv, report' \in ReportType,
         UNCHANGED <<Health!database, revision, Health!counters, ops>>, calm' \in BOOLEAN,
         calm' = TRUE =>
           /\ report'.pc # "none" => report'.snap = revision
           /\ report'.pc \in ReportPcs \ {"none", "total"} => report'.total = Cardinality(Existing)
           /\ report'.pc \in ReportPcs \ {"none", "total", "rows"} => report'.rows = Cardinality(StoredMem)
           /\ report'.pc \in {"unembeddable", "status", "done"} =>
                /\ report'.space = Cardinality(Health!SpaceMismatch(report'.snap))
                /\ report'.content = Cardinality(Health!ContentMismatch(report'.snap))
           /\ report'.pc \in {"status", "done"} =>
                report'.unembeddable = Cardinality(Health!Unembeddable(report'.snap))
           /\ (report'.pc = "done" /\ report'.snap = Health!Unknown) => report'.status = "degraded"
  PROVE  HIInv'
<1>1. HTypeOK /\ RowsOfMemories /\ Named
  BY DEF HIInv
<1>2. content' = content /\ row' = row /\ revision' = revision /\ count' = count /\ failedOp' = failedOp
      /\ searches' = searches /\ naming' = naming /\ ops' = ops
  BY DEF Health!database, Health!counters
<1>3. HTypeOK'
  BY <1>1, <1>2 DEF HTypeOK
<1>4. RowsOfMemories' /\ Named'
  BY <1>1, <1>2 DEF RowsOfMemories, StoredMem, Existing, Health!Stored, Health!Exists, Named
<1>5. Existing' = Existing /\ StoredMem' = StoredMem
  BY <1>2 DEF Existing, StoredMem, Health!Exists, Health!Stored
<1>6. /\ Health!SpaceMismatch(report.snap)' = Health!SpaceMismatch(report'.snap)
      /\ Health!ContentMismatch(report.snap)' = Health!ContentMismatch(report'.snap)
      /\ Health!Unembeddable(report.snap)' = Health!Unembeddable(report'.snap)
  BY <1>2 DEF Health!SpaceMismatch, Health!ContentMismatch, Health!Unembeddable, Health!RowsWhere, Health!InSpace, Health!Stored
<1>7. ReportSound'
  BY <1>2, <1>5, <1>6 DEF ReportSound
<1> QED BY <1>3, <1>4, <1>7 DEF HIInv

\* The reads of a health call, one case each.
LEMMA HealthStep ==
  ASSUME Health!HealthAssumption, HIInv, Health!Health
  PROVE  HIInv'
<1>1. HTypeOK /\ ReportSound /\ report \in ReportType /\ revision \in Health!Snapshots /\ calm \in BOOLEAN
  BY DEF HIInv, HTypeOK
<1>2. UNCHANGED <<Health!database, revision, Health!counters, ops>>
  BY DEF Health!Health, Health!Ask, Health!CountMemory, Health!CountRows, Health!CountEmbedded, Health!StaleCounts, Health!CountUnembeddable, Health!Answer,
         Health!Forget, Health!Read
<1>3. /\ Existing \subseteq Corpus /\ StoredMem \subseteq Corpus /\ Health!RowsWhere(LAMBDA r : r.status = "ok") \subseteq Corpus
      /\ Health!SpaceMismatch(report.snap) \subseteq Corpus /\ Health!ContentMismatch(report.snap) \subseteq Corpus
      /\ Health!Unembeddable(report.snap) \subseteq Corpus
  BY DEF Existing, StoredMem, Health!RowsWhere, Health!SpaceMismatch, Health!ContentMismatch, Health!Unembeddable
<1>4. /\ Cardinality(Existing) \in Nat /\ Cardinality(StoredMem) \in Nat
      /\ Cardinality(Health!RowsWhere(LAMBDA r : r.status = "ok")) \in Nat
      /\ Cardinality(Health!SpaceMismatch(report.snap)) \in Nat /\ Cardinality(Health!ContentMismatch(report.snap)) \in Nat
      /\ Cardinality(Health!Unembeddable(report.snap)) \in Nat
  BY <1>3, PartsFinite
<1>5. CASE Health!Ask
  <2> DEFINE x == [Health!NoReport EXCEPT !.pc = "total"]
             w == [x EXCEPT !.snap = revision]
  <2>1. report' = w /\ calm' = TRUE
    BY <1>5 DEF Health!Ask, Health!Read
  <2>2. Health!NoReport \in ReportType
    BY DEF Health!NoReport, ReportType, ReportPcs, Health!Snapshots
  <2>3. x \in ReportType /\ x.pc = "total"
    BY <2>2 DEF ReportType, ReportPcs
  <2> HIDE DEF x
  <2>4. w \in ReportType /\ w.pc = "total" /\ w.snap = revision
    BY <1>1, <2>3 DEF ReportType
  <2> HIDE DEF w
  <2>5. calm' \in BOOLEAN
    BY <2>1
  <2> QED BY <1>2, <2>1, <2>4, <2>5, ReadSound DEF ReportPcs
<1>6. CASE Health!CountMemory
  <2> DEFINE n == Cardinality(Existing)
             x == [report EXCEPT !.pc = "rows"]
             w == [x EXCEPT !.total = n]
  <2>1. report' = w /\ calm' = calm /\ report.pc = "total"
    BY <1>6 DEF Health!CountMemory, Health!Read, Existing
  <2>2. x \in ReportType /\ x.pc = "rows" /\ x.snap = report.snap
    BY <1>1 DEF ReportType, ReportPcs
  <2> HIDE DEF x
  <2>3. w \in ReportType /\ w.pc = "rows" /\ w.snap = report.snap /\ w.total = n
    BY <1>4, <2>2 DEF ReportType
  <2> HIDE DEF w
  <2>4. calm' = TRUE => report.snap = revision
    BY <1>1, <2>1 DEF ReportSound
  <2> QED BY <1>1, <1>2, <2>1, <2>3, <2>4, ReadSound DEF ReportPcs
<1>7. CASE Health!CountRows
  <2> DEFINE n == Cardinality(StoredMem)
             x == [report EXCEPT !.pc = "embedded"]
             w == [x EXCEPT !.rows = n]
  <2>1. report' = w /\ calm' = calm /\ report.pc = "rows"
    BY <1>7 DEF Health!CountRows, Health!Read, StoredMem, Health!RowsWhere
  <2>2. x \in ReportType /\ x.pc = "embedded" /\ x.snap = report.snap /\ x.total = report.total
    BY <1>1 DEF ReportType, ReportPcs
  <2> HIDE DEF x
  <2>3. w \in ReportType /\ w.pc = "embedded" /\ w.snap = report.snap /\ w.total = report.total /\ w.rows = n
    BY <1>4, <2>2 DEF ReportType
  <2> HIDE DEF w
  <2>4. calm' = TRUE => report.snap = revision /\ report.total = Cardinality(Existing)
    BY <1>1, <2>1 DEF ReportSound, ReportPcs
  <2> QED BY <1>1, <1>2, <2>1, <2>3, <2>4, ReadSound DEF ReportPcs
<1>8. CASE Health!CountEmbedded
  <2> DEFINE n == Cardinality(Health!RowsWhere(LAMBDA r : r.status = "ok"))
             x == [report EXCEPT !.pc = "stale"]
             w == [x EXCEPT !.embedded = n]
  <2>1. report' = w /\ calm' = calm /\ report.pc = "embedded"
    BY <1>8 DEF Health!CountEmbedded, Health!Read
  <2>2. x \in ReportType /\ x.pc = "stale" /\ x.snap = report.snap /\ x.total = report.total
        /\ x.rows = report.rows
    BY <1>1 DEF ReportType, ReportPcs
  <2> HIDE DEF x
  <2>3. w \in ReportType /\ w.pc = "stale" /\ w.snap = report.snap /\ w.total = report.total
        /\ w.rows = report.rows
    BY <1>4, <2>2 DEF ReportType
  <2> HIDE DEF w
  <2>4. calm' = TRUE => report.snap = revision /\ report.total = Cardinality(Existing)
                          /\ report.rows = Cardinality(StoredMem)
    BY <1>1, <2>1 DEF ReportSound, ReportPcs
  <2> QED BY <1>1, <1>2, <2>1, <2>3, <2>4, ReadSound DEF ReportPcs
<1>9. CASE Health!StaleCounts
  <2> DEFINE n == Cardinality(Health!SpaceMismatch(report.snap))
             k == Cardinality(Health!ContentMismatch(report.snap))
             x == [report EXCEPT !.pc = "unembeddable"]
             y == [x EXCEPT !.space = n]
             w == [y EXCEPT !.content = k]
  <2>1. report' = w /\ calm' = calm /\ report.pc = "stale"
    BY <1>9 DEF Health!StaleCounts, Health!Read
  <2>2. x \in ReportType /\ x.pc = "unembeddable" /\ x.snap = report.snap /\ x.total = report.total
        /\ x.rows = report.rows
    BY <1>1 DEF ReportType, ReportPcs
  <2> HIDE DEF x
  <2>3. y \in ReportType /\ y.pc = "unembeddable" /\ y.snap = report.snap /\ y.total = report.total
        /\ y.rows = report.rows /\ y.space = n
    BY <1>4, <2>2 DEF ReportType
  <2> HIDE DEF y
  <2>4. w \in ReportType /\ w.pc = "unembeddable" /\ w.snap = report.snap /\ w.total = report.total
        /\ w.rows = report.rows /\ w.space = n /\ w.content = k
    BY <1>4, <2>3 DEF ReportType
  <2> HIDE DEF w
  <2>5. calm' = TRUE => report.snap = revision /\ report.total = Cardinality(Existing)
                          /\ report.rows = Cardinality(StoredMem)
    BY <1>1, <2>1 DEF ReportSound, ReportPcs
  <2> QED BY <1>1, <1>2, <2>1, <2>4, <2>5, ReadSound DEF ReportPcs
<1>10. CASE Health!CountUnembeddable
  <2> DEFINE n == Cardinality(Health!Unembeddable(report.snap))
             x == [report EXCEPT !.pc = "status"]
             w == [x EXCEPT !.unembeddable = n]
  <2>1. report' = w /\ calm' = calm /\ report.pc = "unembeddable"
    BY <1>10 DEF Health!CountUnembeddable, Health!Read
  <2>2. x \in ReportType /\ x.pc = "status" /\ x.snap = report.snap /\ x.total = report.total
        /\ x.rows = report.rows /\ x.space = report.space /\ x.content = report.content
    BY <1>1 DEF ReportType, ReportPcs
  <2> HIDE DEF x
  <2>3. w \in ReportType /\ w.pc = "status" /\ w.snap = report.snap /\ w.total = report.total
        /\ w.rows = report.rows /\ w.space = report.space /\ w.content = report.content /\ w.unembeddable = n
    BY <1>4, <2>2 DEF ReportType
  <2> HIDE DEF w
  <2>4. calm' = TRUE => /\ report.snap = revision /\ report.total = Cardinality(Existing)
                        /\ report.rows = Cardinality(StoredMem)
                        /\ report.space = Cardinality(Health!SpaceMismatch(report.snap))
                        /\ report.content = Cardinality(Health!ContentMismatch(report.snap))
    BY <1>1, <2>1 DEF ReportSound, ReportPcs
  <2> QED BY <1>1, <1>2, <2>1, <2>3, <2>4, ReadSound DEF ReportPcs
<1>11. CASE Health!Answer
  <2> DEFINE x == [report EXCEPT !.pc = "done"]
             w == [x EXCEPT !.status = Health!Status]
  <2>1. report' = w /\ calm' = calm /\ report.pc = "status"
    BY <1>11 DEF Health!Answer, Health!Read
  <2>2. Health!Status \in {"degraded", "active"} /\ (revision = Health!Unknown => Health!Status = "degraded")
    BY <1>1, SnapshotCases DEF Health!Status
  <2>3. x \in ReportType /\ x.pc = "done" /\ x.snap = report.snap /\ x.total = report.total
        /\ x.rows = report.rows /\ x.space = report.space /\ x.content = report.content
        /\ x.unembeddable = report.unembeddable
    BY <1>1 DEF ReportType, ReportPcs
  <2> HIDE DEF x
  <2>4. w \in ReportType /\ w.pc = "done" /\ w.snap = report.snap /\ w.total = report.total
        /\ w.rows = report.rows /\ w.space = report.space /\ w.content = report.content
        /\ w.unembeddable = report.unembeddable /\ w.status = Health!Status
    BY <2>2, <2>3 DEF ReportType
  <2> HIDE DEF w
  <2>5. calm' = TRUE => /\ report.snap = revision /\ report.total = Cardinality(Existing)
                        /\ report.rows = Cardinality(StoredMem)
                        /\ report.space = Cardinality(Health!SpaceMismatch(report.snap))
                        /\ report.content = Cardinality(Health!ContentMismatch(report.snap))
                        /\ report.unembeddable = Cardinality(Health!Unembeddable(report.snap))
    BY <1>1, <2>1 DEF ReportSound, ReportPcs
  <2> QED BY <1>1, <1>2, <2>1, <2>2, <2>4, <2>5, ReadSound DEF ReportPcs
<1>12. CASE Health!Forget
  <2>1. report' = Health!NoReport /\ calm' = calm
    BY <1>12 DEF Health!Forget, Health!Read
  <2>2. Health!NoReport \in ReportType /\ Health!NoReport.pc = "none"
    BY DEF Health!NoReport, ReportType, ReportPcs, Health!Snapshots
  <2> QED BY <1>1, <1>2, <2>1, <2>2, ReadSound DEF ReportPcs
<1> QED BY <1>5, <1>6, <1>7, <1>8, <1>9, <1>10, <1>11, <1>12 DEF Health!Health

\* The invariant of embedding_status_dict holds for any memories, contents and revisions,
\* with writers and failing operations between any two of its reads.
THEOREM HealthInvariance ==
  ASSUME Health!HealthAssumption
  PROVE  Health!Spec => []HIInv
<1>1. Health!Init => HIInv
  BY HealthInit
<1>2. HIInv /\ [Health!Next]_Health!vars => HIInv'
  <2>1. HIInv /\ UNCHANGED Health!vars => HIInv'
    BY DEF HIInv, HTypeOK, RowsOfMemories, StoredMem, Existing, Health!Stored, Health!Exists, ReportSound, Named,
           Health!SpaceMismatch, Health!ContentMismatch, Health!Unembeddable, Health!RowsWhere, Health!InSpace, Health!vars, Health!database, Health!counters
  <2> QED BY <2>1, WriterSound, ProviderSound, HealthStep DEF Health!Next
<1> QED BY <1>1, <1>2, PTL DEF Health!Spec

\* A health call that no write disturbs counts exactly the work that a backfill under its
\* revision would do, never overstates it when the revision is unknown, and a failure
\* count that EmbeddingService shows names the operation that failed.
THEOREM HealthIsHonest ==
  ASSUME Health!HealthAssumption
  PROVE  Health!Spec => []HealthHonest
<1>1. HIInv => HealthHonest
  BY HIInvIsEnough DEF HealthHonest
<1> QED BY <1>1, HealthInvariance, PTL

HIDE HealthSizes

-----------------------------------------------------------------------------
(***************************************************************************)
(* A search (HybridSearch), for any memories, worlds and queries: what     *)
(* lists in an order are, what a request has read and when that is         *)
(* current, the stream its page is cut from, the pages a caller has been   *)
(* given, and the vector space it ranks in.                                *)
(***************************************************************************)


(* Search!Cardinality and Search!IsFiniteSet are the operators of FiniteSets. *)
LEMMA SearchSizes ==
  /\ \A S : Search!Cardinality(S) = Cardinality(S)
  /\ \A S : Search!IsFiniteSet(S) <=> IsFiniteSet(S)
BY DEF Search!Cardinality, Cardinality, Search!IsFiniteSet, IsFiniteSet
USE SearchSizes

\* R puts the elements of S in a line.
Lines(S, R) ==
  /\ \A a \in S : <<a, a>> \notin R
  /\ \A a, b, c \in S : <<a, b>> \in R /\ <<b, c>> \in R => <<a, c>> \in R
  /\ \A a, b \in S : a # b => <<a, b>> \in R \/ <<b, a>> \in R

Ahead(m, S, R) == {n \in S : <<n, m>> \in R}

\* The sets of those ahead grow along the line.
LEMMA AheadGrows ==
  ASSUME NEW S, NEW R, IsFiniteSet(S), Lines(S, R), NEW a \in S, NEW b \in S, <<a, b>> \in R
  PROVE  Cardinality(Ahead(a, S, R)) < Cardinality(Ahead(b, S, R))
<1> DEFINE A == Ahead(a, S, R)
<1> DEFINE B == Ahead(b, S, R)
<1>1. A \subseteq B
  BY DEF Ahead, Lines
<1>2. a \in B /\ a \notin A
  BY DEF Ahead, Lines
<1>3. B \subseteq S
  BY DEF Ahead
<1>4. IsFiniteSet(B)
  BY <1>3, FS_Subset
<1>5. IsFiniteSet(A) /\ Cardinality(A) <= Cardinality(B) /\ (Cardinality(B) = Cardinality(A) => B = A)
  BY <1>1, <1>4, FS_Subset
<1>6. Cardinality(A) \in Nat /\ Cardinality(B) \in Nat
  BY <1>4, <1>5, FS_CardinalityType
<1> HIDE DEF A, B
<1>7. Cardinality(A) < Cardinality(B)
  BY <1>2, <1>5, <1>6
<1> QED BY <1>7 DEF A, B

\* No two have as many ahead, and each has fewer than there are.
LEMMA AheadCount ==
  ASSUME NEW S, NEW R, IsFiniteSet(S), Lines(S, R)
  PROVE  /\ Cardinality(S) \in Nat
         /\ \A a \in S : Cardinality(Ahead(a, S, R)) \in 0 .. Cardinality(S) - 1
         /\ \A a, b \in S : Cardinality(Ahead(a, S, R)) = Cardinality(Ahead(b, S, R)) => a = b
         /\ \A a, b \in S : Cardinality(Ahead(a, S, R)) < Cardinality(Ahead(b, S, R)) <=> <<a, b>> \in R
<1>1. Cardinality(S) \in Nat
  BY FS_CardinalityType
<1>2. ASSUME NEW a \in S PROVE Cardinality(Ahead(a, S, R)) \in 0 .. Cardinality(S) - 1
  <2>1. Ahead(a, S, R) \subseteq S
    BY DEF Ahead
  <2>2. a \notin Ahead(a, S, R)
    BY DEF Ahead, Lines
  <2>3. /\ IsFiniteSet(Ahead(a, S, R))
        /\ Cardinality(Ahead(a, S, R)) <= Cardinality(S)
        /\ Cardinality(S) = Cardinality(Ahead(a, S, R)) => S = Ahead(a, S, R)
    BY <2>1, FS_Subset
  <2>4. Cardinality(Ahead(a, S, R)) \in Nat
    BY <2>3, FS_CardinalityType
  <2> QED BY <1>1, <2>2, <2>3, <2>4
<1>3. ASSUME NEW a \in S, NEW b \in S
      PROVE  /\ Cardinality(Ahead(a, S, R)) = Cardinality(Ahead(b, S, R)) => a = b
             /\ Cardinality(Ahead(a, S, R)) < Cardinality(Ahead(b, S, R)) <=> <<a, b>> \in R
  <2>1. Cardinality(Ahead(a, S, R)) \in Int /\ Cardinality(Ahead(b, S, R)) \in Int
    BY <1>1, <1>2
  <2>2. CASE a = b
    BY <2>1, <2>2 DEF Lines
  <2>3. CASE <<a, b>> \in R
    BY <2>1, <2>3, AheadGrows
  <2>4. CASE <<b, a>> \in R
    <3>1. <<a, b>> \notin R
      BY <2>4 DEF Lines
    <3> QED BY <2>1, <2>4, <3>1, AheadGrows
  <2> QED BY <2>2, <2>3, <2>4 DEF Lines
<1> QED BY <1>1, <1>2, <1>3

\* A list is what the line says: all of S, each once, the k-th with k - 1 ahead.
LEMMA ListedFacts ==
  ASSUME NEW S, NEW R, IsFiniteSet(S), Lines(S, R)
  PROVE  /\ Cardinality(S) \in Nat
         /\ Search!Listed(S, R) \in Seq(S) /\ Len(Search!Listed(S, R)) = Cardinality(S)
         /\ DOMAIN Search!Listed(S, R) = 1 .. Cardinality(S)
         /\ \A k \in 1 .. Cardinality(S) :
              Search!Listed(S, R)[k] \in S /\ Cardinality(Ahead(Search!Listed(S, R)[k], S, R)) = k - 1
         /\ \A m \in S : \E k \in 1 .. Cardinality(S) : Search!Listed(S, R)[k] = m
         /\ \A i, j \in 1 .. Cardinality(S) :
              /\ Search!Listed(S, R)[i] = Search!Listed(S, R)[j] => i = j
              /\ i < j <=> <<Search!Listed(S, R)[i], Search!Listed(S, R)[j]>> \in R
<1> DEFINE N == Cardinality(S)
<1> DEFINE L == Search!Listed(S, R)
<1> DEFINE rank == [m \in S |-> Cardinality(Ahead(m, S, R)) + 1]
<1>1. N \in Nat
  BY FS_CardinalityType
<1>2. rank \in Injection(S, 1 .. N)
  <2>1. rank \in [S -> 1 .. N]
    BY <1>1, AheadCount
  <2>2. ASSUME NEW a \in S, NEW b \in S, rank[a] = rank[b] PROVE a = b
    <3>1. Cardinality(Ahead(a, S, R)) \in Int /\ Cardinality(Ahead(b, S, R)) \in Int
      BY <1>1, AheadCount
    <3>2. Cardinality(Ahead(a, S, R)) = Cardinality(Ahead(b, S, R))
      BY <2>2, <3>1
    <3> QED BY <3>2, AheadCount
  <2> QED BY <2>1, <2>2 DEF Injection, IsInjective
<1>3. IsFiniteSet(1 .. N) /\ Cardinality(1 .. N) = N
  BY <1>1, FS_Interval
<1>4. rank \in Surjection(S, 1 .. N)
  <2> HIDE DEF rank
  <2> QED BY <1>2, <1>3, FS_Injection
<1>5. \A k \in 1 .. N : \E m \in S : Cardinality(Ahead(m, S, R)) = k - 1
  <2> TAKE k \in 1 .. N
  <2>1. PICK m \in S : rank[m] = k
    BY <1>4 DEF Surjection
  <2>2. Cardinality(Ahead(m, S, R)) \in Int
    BY <1>1, AheadCount
  <2> QED BY <2>1, <2>2
<1>6. L = [k \in 1 .. N |-> CHOOSE m \in S : Cardinality(Ahead(m, S, R)) = k - 1]
  BY DEF Search!Listed, Ahead, Search!Cardinality, Cardinality, Search!IsFiniteSet, IsFiniteSet
<1>7. ASSUME NEW k \in 1 .. N PROVE L[k] \in S /\ Cardinality(Ahead(L[k], S, R)) = k - 1
  <2>1. L[k] = CHOOSE m \in S : Cardinality(Ahead(m, S, R)) = k - 1
    BY <1>6
  <2> HIDE DEF L, N
  <2> QED BY <1>5, <2>1
<1>8. L \in [1 .. N -> S]
  <2> HIDE DEF L
  <2> QED BY <1>6, <1>7
<1>9. L \in Seq(S) /\ Len(L) = N /\ DOMAIN L = 1 .. N
  <2> HIDE DEF L, N
  <2>1. L \in Seq(S)
    BY <1>1, <1>8, SeqDef
  <2>2. DOMAIN L = 1 .. N
    BY <1>8
  <2> QED BY <1>1, <2>1, <2>2, LenProperties
<1>10. ASSUME NEW m \in S PROVE \E k \in 1 .. N : L[k] = m
  <2> DEFINE k == Cardinality(Ahead(m, S, R)) + 1
  <2>1. k \in 1 .. N /\ k - 1 = Cardinality(Ahead(m, S, R))
    BY <1>1, AheadCount
  <2>2. L[k] \in S /\ Cardinality(Ahead(L[k], S, R)) = Cardinality(Ahead(m, S, R))
    <3> HIDE DEF k, L, N
    <3> QED BY <1>7, <2>1
  <2>3. L[k] = m
    <3> HIDE DEF k, L, N
    <3> QED BY <2>2, AheadCount
  <2> QED BY <2>1, <2>3
<1>11. ASSUME NEW i \in 1 .. N, NEW j \in 1 .. N
       PROVE  (L[i] = L[j] => i = j) /\ (i < j <=> <<L[i], L[j]>> \in R)
  <2>1. /\ L[i] \in S /\ Cardinality(Ahead(L[i], S, R)) = i - 1
        /\ L[j] \in S /\ Cardinality(Ahead(L[j], S, R)) = j - 1
    BY <1>7
  <2>2. i \in Int /\ j \in Int
    BY <1>1
  <2> HIDE DEF L, N
  <2>3. L[i] = L[j] => i = j
    BY <2>1, <2>2
  <2>4. i < j <=> Cardinality(Ahead(L[i], S, R)) < Cardinality(Ahead(L[j], S, R))
    BY <2>1, <2>2
  <2> QED BY <2>1, <2>3, <2>4, AheadCount
<1> QED BY <1>1, <1>7, <1>9, <1>10, <1>11

\* A part of the line that nothing outside precedes is its beginning.
LEMMA ListedDownward ==
  ASSUME NEW S, NEW R, IsFiniteSet(S), Lines(S, R), NEW T, T \subseteq S,
         \A m \in T, n \in S : <<n, m>> \in R => n \in T
  PROVE  /\ IsFiniteSet(T) /\ Lines(T, R) /\ Cardinality(T) <= Cardinality(S)
         /\ \A k \in 1 .. Cardinality(T) : Search!Listed(T, R)[k] = Search!Listed(S, R)[k]
<1>1. IsFiniteSet(T) /\ Cardinality(T) <= Cardinality(S)
  BY FS_Subset
<1>2. Lines(T, R)
  BY DEF Lines
<1>3. Cardinality(T) \in Nat /\ Cardinality(S) \in Nat
  BY <1>1, FS_CardinalityType
<1>4. ASSUME NEW k \in 1 .. Cardinality(T) PROVE Search!Listed(T, R)[k] = Search!Listed(S, R)[k]
  <2>1. k \in 1 .. Cardinality(S)
    BY <1>1, <1>3
  <2>2. Search!Listed(T, R)[k] \in T /\ Cardinality(Ahead(Search!Listed(T, R)[k], T, R)) = k - 1
    BY <1>1, <1>2, ListedFacts
  <2>3. Search!Listed(S, R)[k] \in S /\ Cardinality(Ahead(Search!Listed(S, R)[k], S, R)) = k - 1
    BY <2>1, ListedFacts
  <2>4. Ahead(Search!Listed(T, R)[k], T, R) = Ahead(Search!Listed(T, R)[k], S, R)
    BY <2>2 DEF Ahead
  <2> QED BY <2>2, <2>3, <2>4, AheadCount
<1> QED BY <1>1, <1>2, <1>4

Distinct(s) == \A i, j \in DOMAIN s : s[i] = s[j] => i = j

\* The beginning of a list is part of it, in its order.
LEMMA FirstFacts ==
  ASSUME NEW X, NEW s \in Seq(X), NEW n \in Nat
  PROVE  /\ Search!Lesser(n, Len(s)) \in Nat /\ Search!Lesser(n, Len(s)) <= n /\ Search!Lesser(n, Len(s)) <= Len(s)
         /\ Search!First(s, n) \in Seq(X) /\ Len(Search!First(s, n)) = Search!Lesser(n, Len(s))
         /\ DOMAIN Search!First(s, n) = 1 .. Search!Lesser(n, Len(s))
         /\ \A i \in 1 .. Search!Lesser(n, Len(s)) : Search!First(s, n)[i] = s[i]
         /\ Search!Range(Search!First(s, n)) \subseteq Search!Range(s)
         /\ Distinct(s) => Distinct(Search!First(s, n))
         /\ Len(s) <= n => Search!First(s, n) = s
<1> DEFINE l == Search!Lesser(n, Len(s))
<1> DEFINE F == Search!First(s, n)
<1>1. Len(s) \in Nat /\ DOMAIN s = 1 .. Len(s) /\ \A i \in 1 .. Len(s) : s[i] \in X
  BY LenProperties
<1>2. l \in Nat /\ l <= n /\ l <= Len(s)
  BY <1>1 DEF Search!Lesser
<1>3. F = SubSeq(s, 1, l)
  BY DEF Search!First
<1> HIDE DEF l, F
<1>4. \A i \in 1 .. l : s[i] \in X
  BY <1>1, <1>2
<1>5. F \in Seq(X) /\ Len(F) = (IF 1 <= l THEN l - 1 + 1 ELSE 0) /\ \A i \in 1 .. l - 1 + 1 : F[i] = s[1 + i - 1]
  BY <1>2, <1>3, <1>4, SubSeqProperties
<1>6. Len(F) = l
  BY <1>2, <1>5
<1>7. DOMAIN F = 1 .. l
  BY <1>5, <1>6, LenProperties
<1>8. \A i \in 1 .. l : F[i] = s[i]
  BY <1>2, <1>5
<1>9. Search!Range(F) \subseteq Search!Range(s)
  BY <1>1, <1>2, <1>7, <1>8 DEF Search!Range
<1>10. Distinct(s) => Distinct(F)
  BY <1>1, <1>2, <1>7, <1>8 DEF Distinct
<1>11. ASSUME Len(s) <= n PROVE F = s
  <2>0. Len(s) \in Nat
    BY <1>1
  <2>1. ~ (n < Len(s))
    BY <1>11, <2>0
  <2>2. l = Len(s)
    BY <2>1 DEF Search!Lesser, l
  <2> QED BY <1>3, <2>2, SubSeqFull
<1> QED BY <1>2, <1>5, <1>6, <1>7, <1>8, <1>9, <1>10, <1>11 DEF l, F

\* A list without repeats is as long as what it lists.
LEMMA DistinctCount ==
  ASSUME NEW X, NEW s \in Seq(X)
  PROVE  /\ Search!Range(s) \subseteq X /\ IsFiniteSet(Search!Range(s)) /\ Cardinality(Search!Range(s)) \in Nat
         /\ Cardinality(Search!Range(s)) <= Len(s)
         /\ Cardinality(Search!Range(s)) = Len(s) <=> Distinct(s)
<1>1. Len(s) \in Nat /\ DOMAIN s = 1 .. Len(s) /\ s \in [1 .. Len(s) -> X]
  BY LenProperties
<1>2. IsFiniteSet(1 .. Len(s)) /\ Cardinality(1 .. Len(s)) = Len(s)
  <2>1. Len(s) \in Nat /\ Len(s) - 1 + 1 = Len(s)
    BY <1>1
  <2> QED BY <2>1, FS_Interval
<1>3. s \in [1 .. Len(s) -> Search!Range(s)]
  BY <1>1 DEF Search!Range
<1>4. s \in Surjection(1 .. Len(s), Search!Range(s))
  BY <1>1, <1>3 DEF Surjection, Search!Range
<1>5. s \in Injection(1 .. Len(s), Search!Range(s)) <=> Distinct(s)
  BY <1>1, <1>3 DEF Injection, IsInjective, Distinct
<1>6. /\ IsFiniteSet(Search!Range(s)) /\ Cardinality(Search!Range(s)) <= Cardinality(1 .. Len(s))
      /\ Cardinality(Search!Range(s)) = Cardinality(1 .. Len(s)) <=> s \in Injection(1 .. Len(s), Search!Range(s))
  BY <1>2, <1>4, FS_Surjection
<1>7. Search!Range(s) \subseteq X
  BY <1>1 DEF Search!Range
<1> QED BY <1>2, <1>5, <1>6, <1>7, FS_CardinalityType

\* There is one list of S in the order of the line.
LEMMA SortedIsListed ==
  ASSUME NEW S, NEW R, IsFiniteSet(S), Lines(S, R), NEW s \in Seq(S), Search!Range(s) = S,
         \A i, j \in DOMAIN s : i < j => <<s[i], s[j]>> \in R
  PROVE  s = Search!Listed(S, R)
<1>1. Len(s) \in Nat /\ DOMAIN s = 1 .. Len(s) /\ \A i \in 1 .. Len(s) : s[i] \in S
  BY LenProperties
<1>2. ASSUME NEW i \in 1 .. Len(s), NEW j \in 1 .. Len(s), s[i] = s[j] PROVE i = j
  <2>1. s[i] \in S /\ i \in Int /\ j \in Int
    BY <1>1
  <2>2. <<s[i], s[i]>> \notin R
    BY <2>1 DEF Lines
  <2>3. ~ i < j /\ ~ j < i
    BY <1>1, <1>2, <2>2
  <2> QED BY <2>1, <2>3
<1>3. Len(s) = Cardinality(S)
  BY <1>1, <1>2, DistinctCount DEF Distinct
<1>4. ASSUME NEW k \in 1 .. Len(s) PROVE s[k] = Search!Listed(S, R)[k]
  <2> DEFINE F == Search!First(s, k - 1)
  <2>1. k - 1 \in Nat /\ Search!Lesser(k - 1, Len(s)) = k - 1
    BY <1>1 DEF Search!Lesser
  <2>2. /\ F \in Seq(S) /\ Len(F) = k - 1 /\ DOMAIN F = 1 .. k - 1 /\ Distinct(F)
        /\ \A i \in 1 .. k - 1 : F[i] = s[i]
    <3>1. Distinct(s)
      BY <1>1, <1>2 DEF Distinct
    <3> QED BY <2>1, <3>1, FirstFacts
  <2> HIDE DEF F
  <2>3. Cardinality(Search!Range(F)) = k - 1
    BY <2>2, DistinctCount
  <2>4. Search!Range(F) = Ahead(s[k], S, R)
    <3>1. ASSUME NEW m \in Search!Range(F) PROVE m \in Ahead(s[k], S, R)
      <4>1. PICK i \in 1 .. k - 1 : m = F[i]
        BY <2>2 DEF Search!Range
      <4>2. m = s[i] /\ i \in 1 .. Len(s) /\ i < k
        BY <1>1, <2>2, <4>1
      <4> QED BY <1>1, <4>2 DEF Ahead
    <3>2. ASSUME NEW m \in Ahead(s[k], S, R) PROVE m \in Search!Range(F)
      <4>1. PICK i \in 1 .. Len(s) : m = s[i]
        BY <1>1 DEF Search!Range, Ahead
      <4>2. <<s[i], s[k]>> \in R
        BY <4>1 DEF Ahead
      <4>3. ~ k < i /\ k # i
        BY <1>1, <4>2 DEF Lines
      <4>4. i \in 1 .. k - 1
        BY <1>1, <4>3
      <4> QED BY <2>2, <4>1, <4>4 DEF Search!Range
    <3> QED BY <3>1, <3>2
  <2>5. s[k] \in S /\ Search!Listed(S, R)[k] \in S
    BY <1>1, <1>3, ListedFacts
  <2>6. Cardinality(Ahead(Search!Listed(S, R)[k], S, R)) = k - 1
    BY <1>3, ListedFacts
  <2> QED BY <2>3, <2>4, <2>5, <2>6, AheadCount
<1>5. DOMAIN Search!Listed(S, R) = 1 .. Len(s) /\ Search!Listed(S, R) \in [1 .. Len(s) -> S]
  BY <1>3, ListedFacts, LenProperties
<1>6. s \in [1 .. Len(s) -> S]
  BY LenProperties
<1> HIDE DEF Search!Listed
<1> QED BY <1>4, <1>5, <1>6

\* Filtering a list keeps what is in the set, in the order of the list.
LEMMA FilterFacts ==
  ASSUME NEW X, NEW s \in Seq(X), NEW T
  PROVE  /\ Search!Filter(s, T) \in Seq(X)
         /\ Search!Range(Search!Filter(s, T)) = Search!Range(s) \intersect T
         /\ Distinct(s) => Distinct(Search!Filter(s, T))
         /\ \E at \in [DOMAIN Search!Filter(s, T) -> DOMAIN s] :
              /\ \A i \in DOMAIN Search!Filter(s, T) : Search!Filter(s, T)[i] = s[at[i]]
              /\ \A i, j \in DOMAIN Search!Filter(s, T) : i < j => at[i] < at[j]
<1> DEFINE kept == {k \in DOMAIN s : s[k] \in T}
<1> DEFINE earlier == {p \in kept \X kept : p[1] < p[2]}
<1> DEFINE at == Search!Listed(kept, earlier)
<1> DEFINE n == Cardinality(kept)
<1> DEFINE F == Search!Filter(s, T)
<1>1. Len(s) \in Nat /\ DOMAIN s = 1 .. Len(s) /\ \A i \in 1 .. Len(s) : s[i] \in X
  BY LenProperties
<1>2. IsFiniteSet(1 .. Len(s))
  BY <1>1, FS_Interval
<1>3. kept \subseteq 1 .. Len(s)
  BY <1>1
<1>4. IsFiniteSet(kept)
  BY <1>2, <1>3, FS_Subset
<1>5. \A a, b \in kept : <<a, b>> \in earlier <=> a < b
  OBVIOUS
<1>6. \A a \in kept : a \in Int
  BY <1>1, <1>3
<1>7. F = [i \in DOMAIN at |-> s[at[i]]]
  BY DEF Search!Filter
<1>8. \A k \in DOMAIN s : k \in kept <=> s[k] \in T
  OBVIOUS
<1> HIDE DEF kept, earlier, F
<1>9. Lines(kept, earlier)
  BY <1>5, <1>6 DEF Lines
<1>10. /\ n \in Nat /\ DOMAIN at = 1 .. n /\ at \in Seq(kept) /\ Len(at) = n
       /\ \A k \in 1 .. n : at[k] \in kept
       /\ \A m \in kept : \E k \in 1 .. n : at[k] = m
       /\ \A i, j \in 1 .. n : (at[i] = at[j] => i = j) /\ (i < j <=> <<at[i], at[j]>> \in earlier)
  BY <1>4, <1>9, ListedFacts
<1> HIDE DEF at, n
<1>11. DOMAIN F = 1 .. n /\ \A i \in 1 .. n : F[i] = s[at[i]] /\ at[i] \in DOMAIN s /\ F[i] \in X
  BY <1>1, <1>3, <1>7, <1>10
<1>12. F \in Seq(X)
  <2>1. F \in [1 .. n -> X]
    BY <1>7, <1>10, <1>11
  <2> QED BY <1>10, <2>1, SeqDef
<1>13. Search!Range(F) = Search!Range(s) \intersect T
  <2>1. ASSUME NEW m \in Search!Range(F) PROVE m \in Search!Range(s) \intersect T
    <3>1. PICK i \in 1 .. n : m = F[i]
      BY <1>11 DEF Search!Range
    <3>2. m = s[at[i]] /\ at[i] \in DOMAIN s /\ at[i] \in kept
      BY <1>10, <1>11, <3>1
    <3> QED BY <1>8, <3>2 DEF Search!Range
  <2>2. ASSUME NEW m \in Search!Range(s) \intersect T PROVE m \in Search!Range(F)
    <3>1. PICK k \in DOMAIN s : m = s[k]
      BY DEF Search!Range
    <3>2. PICK i \in 1 .. n : at[i] = k
      BY <1>8, <1>10, <3>1
    <3> QED BY <1>11, <3>1, <3>2 DEF Search!Range
  <2> QED BY <2>1, <2>2
<1>14. Distinct(s) => Distinct(F)
  <2> SUFFICES ASSUME Distinct(s), NEW i \in 1 .. n, NEW j \in 1 .. n, F[i] = F[j] PROVE i = j
    BY <1>11 DEF Distinct
  <2>1. s[at[i]] = s[at[j]] /\ at[i] \in DOMAIN s /\ at[j] \in DOMAIN s
    BY <1>11
  <2>2. at[i] = at[j]
    BY <2>1 DEF Distinct
  <2> QED BY <1>10, <2>2
<1>15. at \in [DOMAIN F -> DOMAIN s]
  <2>1. at \in [1 .. n -> kept]
    BY <1>10, LenProperties
  <2> QED BY <1>1, <1>3, <1>11, <2>1
<1>16. \A i, j \in DOMAIN F : i < j => at[i] < at[j]
  BY <1>5, <1>10, <1>11
<1> QED BY <1>11, <1>12, <1>13, <1>14, <1>15, <1>16 DEF F

\* What a filter leaves of the beginning of a line is the beginning of the line of
\* what it lets through.
LEMMA FilterOfListed ==
  ASSUME NEW S, NEW R, IsFiniteSet(S), Lines(S, R), NEW n \in Nat, NEW T
  PROVE  Search!Filter(Search!First(Search!Listed(S, R), n), T) =
           Search!First(Search!Listed(S \intersect T, R),
             Cardinality(Search!Range(Search!First(Search!Listed(S, R), n)) \intersect T))
<1> DEFINE L == Search!Listed(S, R)
<1> DEFINE P == Search!First(L, n)
<1> DEFINE F == Search!Filter(P, T)
<1> DEFINE V == S \intersect T
<1> DEFINE U == Search!Range(P) \intersect T
<1>1. /\ L \in Seq(S) /\ Len(L) \in Nat /\ DOMAIN L = 1 .. Len(L)
      /\ \A i \in 1 .. Len(L) : L[i] \in S
      /\ \A m \in S : \E k \in 1 .. Len(L) : L[k] = m
      /\ \A i, j \in 1 .. Len(L) : i < j <=> <<L[i], L[j]>> \in R
  BY ListedFacts
<1> HIDE DEF L
<1>2. /\ P \in Seq(S) /\ Len(P) \in Nat /\ Len(P) <= Len(L) /\ DOMAIN P = 1 .. Len(P)
      /\ \A i \in 1 .. Len(P) : P[i] = L[i]
  BY <1>1, FirstFacts
<1> HIDE DEF P
<1>3. Search!Range(P) \subseteq S
  BY <1>2, DistinctCount
<1>4. \A m \in Search!Range(P), k \in S : <<k, m>> \in R => k \in Search!Range(P)
  <2> SUFFICES ASSUME NEW m \in Search!Range(P), NEW k \in S, <<k, m>> \in R PROVE k \in Search!Range(P)
    OBVIOUS
  <2>1. PICK j \in 1 .. Len(P) : m = L[j]
    BY <1>2 DEF Search!Range
  <2>2. PICK i \in 1 .. Len(L) : k = L[i]
    BY <1>1
  <2>3. j \in 1 .. Len(L)
    BY <1>1, <1>2
  <2>4. i < j
    BY <1>1, <2>1, <2>2, <2>3
  <2>5. i \in 1 .. Len(P)
    BY <1>1, <1>2, <2>4
  <2> QED BY <1>2, <2>2, <2>5 DEF Search!Range
<1>5. F \in Seq(S) /\ Search!Range(F) = U
  BY <1>2, FilterFacts
<1>6. \A i, j \in DOMAIN F : i < j => <<F[i], F[j]>> \in R
  <2>1. PICK at \in [DOMAIN F -> DOMAIN P] :
              /\ \A i \in DOMAIN F : F[i] = P[at[i]]
              /\ \A i, j \in DOMAIN F : i < j => at[i] < at[j]
    BY <1>2, FilterFacts
  <2> HIDE DEF F
  <2> TAKE i, j \in DOMAIN F
  <2> HAVE i < j
  <2>2. at[i] < at[j] /\ at[i] \in 1 .. Len(P) /\ at[j] \in 1 .. Len(P)
    BY <1>2, <2>1
  <2>3. F[i] = L[at[i]] /\ F[j] = L[at[j]] /\ at[i] \in 1 .. Len(L) /\ at[j] \in 1 .. Len(L)
    BY <1>1, <1>2, <2>1, <2>2
  <2> QED BY <1>1, <2>2, <2>3
<1> HIDE DEF F
<1>7. U \subseteq V
  BY <1>3
<1>8. IsFiniteSet(V) /\ Lines(V, R)
  BY FS_Intersection DEF Lines
<1>9. \A m \in U, k \in V : <<k, m>> \in R => k \in U
  BY <1>4
<1>10. /\ IsFiniteSet(U) /\ Lines(U, R) /\ Cardinality(U) <= Cardinality(V)
       /\ \A k \in 1 .. Cardinality(U) : Search!Listed(U, R)[k] = Search!Listed(V, R)[k]
  BY <1>7, <1>8, <1>9, ListedDownward
<1>11. F \in Seq(U)
  <2>1. Len(F) \in Nat /\ DOMAIN F = 1 .. Len(F) /\ F \in [1 .. Len(F) -> S]
    BY <1>5, LenProperties
  <2>2. \A k \in 1 .. Len(F) : F[k] \in U
    BY <1>5, <2>1 DEF Search!Range
  <2>3. F \in [1 .. Len(F) -> U]
    BY <2>1, <2>2
  <2> QED BY <2>1, <2>3, SeqDef
<1> HIDE DEF U, V
<1>12. F = Search!Listed(U, R)
  BY <1>5, <1>6, <1>10, <1>11, SortedIsListed
<1>13. Len(F) = Cardinality(U) /\ Cardinality(U) \in Nat
  BY <1>10, <1>12, ListedFacts
<1>14. F \in Seq(V)
  BY <1>7, <1>11, SeqMonotonic
<1> DEFINE G == Search!Listed(V, R)
<1>15. G \in Seq(V) /\ Len(G) = Cardinality(V)
  BY <1>8, ListedFacts
<1> HIDE DEF G
<1> DEFINE H == Search!First(G, Cardinality(U))
<1>16. Search!Lesser(Cardinality(U), Len(G)) = Cardinality(U)
  <2>1. Cardinality(V) \in Nat
    BY <1>8, FS_CardinalityType
  <2> QED BY <1>10, <1>13, <1>15, <2>1 DEF Search!Lesser
<1>17. H \in Seq(V) /\ Len(H) = Cardinality(U) /\ \A i \in 1 .. Cardinality(U) : H[i] = G[i]
  BY <1>13, <1>15, <1>16, FirstFacts
<1> HIDE DEF H
<1>18. \A i \in 1 .. Len(F) : F[i] = H[i]
  BY <1>10, <1>12, <1>13, <1>17 DEF G
<1>19. F = H
  BY <1>13, <1>14, <1>17, <1>18, SeqEqual
<1> QED BY <1>19 DEF F, H, G, P, L, U, V

(***************************************************************************)
(* What the store's queries return.                                        *)
(***************************************************************************)
StoreTyped == /\ world \in Worlds /\ query \in Queries
              /\ alive \subseteq Memories /\ pinned \subseteq alive

\* A part of what is in line is in line.
LEMMA LinesOfSubset ==
  ASSUME NEW S, NEW R, Lines(S, R), NEW T, T \subseteq S
  PROVE  Lines(T, R)
BY DEF Lines

\* created_at orders the memories.
LEMMA NewestLines == ASSUME Search!SearchAssumption PROVE Lines(Memories, Search!Newest)
<1>1. Memories \subseteq Int
  BY DEF Search!SearchAssumption
<1>2. \A a, b \in Memories : <<a, b>> \in Search!Newest <=> a > b
  BY DEF Search!Newest
<1> QED BY <1>1, <1>2 DEF Lines

\* Scores order the memories, created_at among equals.
LEMMA ByScoreLines == ASSUME Search!SearchAssumption, world \in Worlds PROVE Lines(Memories, Search!ByScore)
<1>1. \A a \in Memories : a \in Int /\ world.score[a] \in Int
  BY DEF Search!SearchAssumption
<1>2. \A a, b \in Memories : <<a, b>> \in Search!ByScore <=>
          world.score[a] > world.score[b] \/ (world.score[a] = world.score[b] /\ a > b)
  BY DEF Search!ByScore
<1> QED BY <1>1, <1>2 DEF Lines

\* Similarities order the memories.
LEMMA BySimilarityLines == ASSUME Search!SearchAssumption, world \in Worlds PROVE Lines(Memories, Search!BySimilarity)
<1>1. \A a \in Memories : world.similarity[a] \in Int
  BY DEF Search!SearchAssumption
<1>2. \A a, b \in Memories : <<a, b>> \in Search!BySimilarity <=> world.similarity[a] > world.similarity[b]
  BY DEF Search!BySimilarity
<1>3. \A a, b \in Memories : world.similarity[a] = world.similarity[b] => a = b
  BY DEF Search!SearchAssumption
<1> QED BY <1>1, <1>2, <1>3 DEF Lines

\* The rows a keyword search sees, and their order.
SearchRows(mode) == IF world.fts THEN Search!Fts5Rows(mode) ELSE Search!FallbackRows(mode)
SearchOrder == IF ~ world.fts /\ query.phrase THEN Search!Newest ELSE Search!ByScore

\* The rows of a search are finitely many rows in scope, in line.
LEMMA SearchRowsFacts ==
  ASSUME Search!SearchAssumption, StoreTyped, NEW mode, NEW T
  PROVE  /\ SearchRows(mode) \subseteq Search!Rows(mode) /\ Search!Rows(mode) \subseteq Memories
         /\ IsFiniteSet(SearchRows(mode) \ T) /\ Lines(SearchRows(mode) \ T, SearchOrder)
         /\ IsFiniteSet(SearchRows(mode)) /\ Lines(SearchRows(mode), SearchOrder)
         /\ IsFiniteSet(Search!Rows(mode))
<1>1. SearchRows(mode) \subseteq Search!Rows(mode) /\ Search!Rows(mode) \subseteq Memories
  BY DEF SearchRows, Search!Fts5Rows, Search!FallbackRows, Search!Rows, StoreTyped
<1>2. IsFiniteSet(Memories)
  BY DEF Search!SearchAssumption
<1>3. Lines(Memories, SearchOrder)
  BY NewestLines, ByScoreLines DEF StoreTyped, SearchOrder
<1>4. SearchRows(mode) \subseteq Memories /\ SearchRows(mode) \ T \subseteq Memories
  BY <1>1
<1>5. IsFiniteSet(SearchRows(mode)) /\ IsFiniteSet(SearchRows(mode) \ T) /\ IsFiniteSet(Search!Rows(mode))
  BY <1>1, <1>2, <1>4, FS_Subset
<1>6. Lines(SearchRows(mode), SearchOrder) /\ Lines(SearchRows(mode) \ T, SearchOrder)
  BY <1>3, <1>4, LinesOfSubset
<1> QED BY <1>1, <1>5, <1>6

\* Both forms of the search list their rows in their order and cut at the limit.
LEMMA RankedSearchIs ==
  ASSUME NEW mode, NEW limit
  PROVE  Search!RankedSearch(mode, limit) = Search!First(Search!Listed(SearchRows(mode), SearchOrder), limit)
BY DEF Search!RankedSearch, SearchRows, SearchOrder

\* Cutting twice is cutting at the shorter length.
LEMMA FirstOfFirst ==
  ASSUME NEW X, NEW s \in Seq(X), NEW n \in Nat, NEW k \in Nat, k <= n \/ Len(s) <= n
  PROVE  Search!First(Search!First(s, n), k) = Search!First(s, k)
<1> DEFINE F == Search!First(s, n)
<1>0. Len(s) \in Nat
  BY LenProperties
<1>1. F \in Seq(X) /\ Len(F) = Search!Lesser(n, Len(s)) /\ \A i \in 1 .. Search!Lesser(n, Len(s)) : F[i] = s[i]
  BY FirstFacts
<1> HIDE DEF F
<1>2. Search!Lesser(k, Len(F)) = Search!Lesser(k, Len(s)) /\ Search!Lesser(k, Len(s)) <= Search!Lesser(n, Len(s))
  BY <1>0, <1>1 DEF Search!Lesser
<1>3. /\ Search!First(F, k) \in Seq(X) /\ Len(Search!First(F, k)) = Search!Lesser(k, Len(s))
      /\ \A i \in 1 .. Search!Lesser(k, Len(s)) : Search!First(F, k)[i] = F[i]
  BY <1>1, <1>2, FirstFacts
<1>4. /\ Search!First(s, k) \in Seq(X) /\ Len(Search!First(s, k)) = Search!Lesser(k, Len(s))
      /\ \A i \in 1 .. Search!Lesser(k, Len(s)) : Search!First(s, k)[i] = s[i]
      /\ Search!Lesser(k, Len(s)) \in Nat /\ Search!Lesser(n, Len(s)) \in Nat
  BY FirstFacts
<1>5. \A i \in 1 .. Search!Lesser(k, Len(s)) : F[i] = s[i]
  BY <1>1, <1>2, <1>4
<1>6. Search!First(F, k) = Search!First(s, k)
  BY <1>3, <1>4, <1>5, SeqEqual
<1> QED BY <1>6 DEF F

\* The hits after those left out are the first of all others: asking for as many
\* more as are left out is enough.
LEMMA SearchMemoryIs ==
  ASSUME Search!SearchAssumption, StoreTyped, NEW k \in Nat, NEW W, IsFiniteSet(W)
  PROVE  Search!SearchMemory(k, W) = Search!First(Search!Listed(SearchRows(Search!Visibility) \ W, SearchOrder), k)
<1> DEFINE S == SearchRows(Search!Visibility)
<1> DEFINE n == k + Cardinality(W)
<1> DEFINE T == Memories \ W
<1> DEFINE V == S \ W
<1> DEFINE L == Search!Listed(S, SearchOrder)
<1> DEFINE P == Search!First(L, n)
<1> DEFINE F == Search!Filter(P, T)
<1> DEFINE G == Search!Listed(V, SearchOrder)
<1>1. n \in Nat /\ Cardinality(W) \in Nat
  BY FS_CardinalityType
<1>2. /\ S \subseteq Memories /\ IsFiniteSet(S) /\ Lines(S, SearchOrder)
      /\ IsFiniteSet(V) /\ Lines(V, SearchOrder)
  BY SearchRowsFacts
<1>3. S \intersect T = V
  BY <1>2
<1>4. Search!SearchMemory(k, W) = Search!First(F, k)
  BY RankedSearchIs DEF Search!SearchMemory
<1> HIDE DEF S, n, T, V
<1>5. F = Search!First(G, Cardinality(Search!Range(P) \intersect T))
  BY <1>1, <1>2, <1>3, FilterOfListed
<1>6. G \in Seq(V) /\ Len(G) = Cardinality(V) /\ Len(G) \in Nat
  BY <1>2, ListedFacts
<1> DEFINE c == Cardinality(Search!Range(P) \intersect T)
<1>7. c \in Nat /\ (k <= c \/ Len(G) <= c)
  <2>2. L \in Seq(S) /\ Len(L) = Cardinality(S) /\ Search!Range(L) = S /\ Cardinality(S) \in Nat /\ Distinct(L)
    <3>1. /\ L \in Seq(S) /\ Len(L) = Cardinality(S) /\ Cardinality(S) \in Nat
          /\ DOMAIN L = 1 .. Cardinality(S)
          /\ \A m \in S : \E i \in 1 .. Cardinality(S) : L[i] = m
          /\ \A i \in 1 .. Cardinality(S) : L[i] \in S
          /\ \A i, j \in 1 .. Cardinality(S) : L[i] = L[j] => i = j
      BY <1>2, ListedFacts
    <3> HIDE DEF L
    <3> QED BY <3>1 DEF Search!Range, Distinct
  <2> HIDE DEF L
  <2>1. c \in Nat
    <3>1. P \in Seq(S)
      BY <1>1, <2>2, FirstFacts
    <3>2. IsFiniteSet(Search!Range(P))
      BY <3>1, DistinctCount
    <3> QED BY <3>2, FS_Intersection, FS_CardinalityType
  <2>3. CASE Cardinality(S) <= n
    <3>1. P = L
      BY <1>1, <2>2, <2>3, FirstFacts DEF L
    <3>2. Search!Range(P) \intersect T = V
      BY <1>3, <2>2, <3>1
    <3>3. c = Cardinality(V)
      BY <3>2
    <3> HIDE DEF c, G
    <3> QED BY <1>6, <2>1, <3>3
  <2>4. CASE n < Cardinality(S)
    <3>1. P \in Seq(S) /\ Len(P) = n /\ Distinct(P)
      <4>1. Search!Lesser(n, Len(L)) = n
        BY <1>1, <2>2, <2>4 DEF Search!Lesser
      <4> QED BY <1>1, <2>2, <4>1, FirstFacts DEF L
    <3> HIDE DEF P
    <3>2. IsFiniteSet(Search!Range(P)) /\ Cardinality(Search!Range(P)) = n /\ Search!Range(P) \subseteq S
      BY <3>1, DistinctCount
    <3>3. Search!Range(P) \intersect T = Search!Range(P) \ W
      BY <1>2, <3>2 DEF T
    <3>4. /\ Cardinality(Search!Range(P) \ W) = Cardinality(Search!Range(P)) - Cardinality(Search!Range(P) \intersect W)
          /\ Cardinality(Search!Range(P) \intersect W) \in Nat
          /\ Cardinality(Search!Range(P) \intersect W) <= Cardinality(W)
      BY <3>2, FS_Difference, FS_Intersection, FS_CardinalityType
    <3>5. c = n - Cardinality(Search!Range(P) \intersect W)
      BY <3>2, <3>3, <3>4
    <3>6. n = k + Cardinality(W)
      BY DEF n
    <3> QED BY <1>1, <2>1, <3>4, <3>5, <3>6
  <2> QED BY <1>1, <2>1, <2>2, <2>3, <2>4
<1> HIDE DEF G, c
<1>8. Search!First(F, k) = Search!First(G, k)
  BY <1>5, <1>6, <1>7, FirstOfFirst DEF c
<1> QED BY <1>4, <1>8 DEF G, S, V

\* The first n of a line.
LEMMA BeginningFacts ==
  ASSUME NEW M, NEW S, NEW R, IsFiniteSet(S), Lines(S, R), S \subseteq M, NEW n \in Nat,
         NEW P, P = Search!First(Search!Listed(S, R), n)
  PROVE  /\ P \in Seq(M) /\ Distinct(P) /\ Search!Range(P) \subseteq S
         /\ Len(P) = Search!Lesser(n, Cardinality(S)) /\ Cardinality(S) \in Nat
         /\ Len(P) = n \/ Search!Range(P) = S
<1> DEFINE L == Search!Listed(S, R)
<1>1. /\ L \in Seq(S) /\ Len(L) = Cardinality(S) /\ Cardinality(S) \in Nat
      /\ DOMAIN L = 1 .. Cardinality(S)
      /\ \A m \in S : \E i \in 1 .. Cardinality(S) : L[i] = m
      /\ \A i \in 1 .. Cardinality(S) : L[i] \in S
      /\ \A i, j \in 1 .. Cardinality(S) : L[i] = L[j] => i = j
  BY ListedFacts
<1> HIDE DEF L
<1>2. Distinct(L) /\ Search!Range(L) = S
  BY <1>1 DEF Search!Range, Distinct
<1>3. /\ Search!First(L, n) \in Seq(S) /\ Distinct(Search!First(L, n))
           /\ Search!Range(Search!First(L, n)) \subseteq Search!Range(L)
      /\ Len(Search!First(L, n)) = Search!Lesser(n, Len(L))
      /\ Len(L) <= n => Search!First(L, n) = L
  BY <1>1, <1>2, FirstFacts, Zenon
<1>4. P = Search!First(L, n)
  BY DEF L
<1>5. Search!Lesser(n, Cardinality(S)) = n \/ Cardinality(S) <= n
  BY <1>1 DEF Search!Lesser
<1>6. P \in Seq(M)
  BY <1>3, <1>4, SeqMonotonic
<1> QED BY <1>1, <1>2, <1>3, <1>4, <1>5, <1>6

\* search_memory fetches enough to fill k entries past those left out, or has them all.
LEMMA SearchMemoryFacts ==
  ASSUME Search!SearchAssumption, StoreTyped, NEW k \in Nat, NEW W, IsFiniteSet(W)
  PROVE  LET h == Search!SearchMemory(k, W)
         IN  /\ h \in Seq(Memories) /\ Distinct(h) /\ Search!Range(h) \subseteq SearchRows(Search!Visibility) \ W
             /\ Len(h) = k \/ Search!Range(h) = SearchRows(Search!Visibility) \ W
<1> DEFINE S == SearchRows(Search!Visibility) \ W
<1> DEFINE h == Search!SearchMemory(k, W)
<1>1. h = Search!First(Search!Listed(S, SearchOrder), k)
  BY SearchMemoryIs
<1>2. IsFiniteSet(S) /\ Lines(S, SearchOrder) /\ S \subseteq Memories
  BY SearchRowsFacts
<1> HIDE DEF S, h
<1>3. h \in Seq(Memories) /\ Distinct(h) /\ Search!Range(h) \subseteq S
  BY <1>1, <1>2, BeginningFacts
<1>4. Len(h) = k \/ Search!Range(h) = S
  <2>1. Len(h) = Search!Lesser(k, Cardinality(S))
    BY <1>1, <1>2, BeginningFacts
  <2>2. Cardinality(S) \in Nat
    BY <1>2, FS_CardinalityType
  <2>3. Len(h) = k \/ Len(h) = Cardinality(S)
    BY <2>1, <2>2 DEF Search!Lesser
  <2>4. Cardinality(Search!Range(h)) = Len(h)
    BY <1>3, DistinctCount
  <2> QED BY <1>2, <1>3, <2>3, <2>4, FS_Subset
<1> QED BY <1>3, <1>4 DEF S, h

\* search_pinned lists pins in scope, once each.
LEMMA SearchPinnedFacts ==
  ASSUME Search!SearchAssumption, StoreTyped
  PROVE  /\ Search!SearchPinned \in Seq(Memories) /\ Distinct(Search!SearchPinned)
         /\ Search!Range(Search!SearchPinned) \subseteq Search!Rows("only")
<1> DEFINE S == SearchRows("only")
<1> DEFINE h == Search!SearchPinned
<1> DEFINE n == query.pinnedLimit
<1>0. n \in Nat
  BY DEF Search!SearchAssumption, StoreTyped
<1>1. h = Search!First(Search!Listed(S, SearchOrder), n)
  BY RankedSearchIs DEF Search!SearchPinned
<1>2. IsFiniteSet(S) /\ Lines(S, SearchOrder) /\ S \subseteq Memories /\ S \subseteq Search!Rows("only")
  BY SearchRowsFacts
<1> HIDE DEF S, h, n
<1>3. h \in Seq(Memories) /\ Distinct(h) /\ Search!Range(h) \subseteq S
  BY <1>0, <1>1, <1>2, BeginningFacts
<1> QED BY <1>2, <1>3 DEF h

(***************************************************************************)
(* Entries, streams and pages.                                             *)
(***************************************************************************)
Channels == {"pinned", "keyword", "semantic", "hybrid"}
Entries == [m : Memories, channel : Channels]

\* No memory twice.
NoRepeat(list) == \A i, j \in DOMAIN list : list[i].m = list[j].m => i = j

\* A list without repeats has as many memories as entries.
LEMMA IdsCount ==
  ASSUME NEW list \in Seq(Entries)
  PROVE  /\ Search!Ids(list) \subseteq Memories
         /\ NoRepeat(list) => Cardinality(Search!Ids(list)) = Len(list)
<1> DEFINE s == [k \in DOMAIN list |-> list[k].m]
<1>1. Len(list) \in Nat /\ DOMAIN list = 1 .. Len(list) /\ \A k \in 1 .. Len(list) : list[k] \in Entries
  BY LenProperties
<1>2. s \in [1 .. Len(list) -> Memories]
  BY <1>1 DEF Entries
<1>3. s \in Seq(Memories)
  BY <1>1, <1>2, SeqDef
<1>4. DOMAIN s = 1 .. Len(list)
  BY <1>1
<1>5. Len(s) = Len(list)
  BY <1>1, <1>3, <1>4, LenProperties
<1>6. Search!Range(s) = Search!Ids(list)
  BY DEF Search!Range, Search!Ids
<1>7. NoRepeat(list) => Distinct(s)
  BY DEF NoRepeat, Distinct
<1> HIDE DEF s
<1> QED BY <1>3, <1>5, <1>6, <1>7, DistinctCount

\* Tagging a list with its channel changes nothing else.
LEMMA AsFacts ==
  ASSUME NEW list \in Seq(Memories), NEW c \in Channels
  PROVE  /\ Search!As(list, c) \in Seq(Entries) /\ Len(Search!As(list, c)) = Len(list)
         /\ Search!Ids(Search!As(list, c)) = Search!Range(list)
         /\ \A k \in 1 .. Len(list) : Search!As(list, c)[k] = [m |-> list[k], channel |-> c]
         /\ Distinct(list) => NoRepeat(Search!As(list, c))
<1> DEFINE A == Search!As(list, c)
<1>1. Len(list) \in Nat /\ DOMAIN list = 1 .. Len(list) /\ \A k \in 1 .. Len(list) : list[k] \in Memories
  BY LenProperties
<1>2. A = [k \in 1 .. Len(list) |-> [m |-> list[k], channel |-> c]]
  BY <1>1 DEF Search!As
<1>3. A \in [1 .. Len(list) -> Entries]
  BY <1>1, <1>2 DEF Entries
<1>4. A \in Seq(Entries)
  <2> HIDE DEF A
  <2> QED BY <1>1, <1>3, SeqDef
<1>5. DOMAIN A = 1 .. Len(list)
  BY <1>2
<1> HIDE DEF A
<1>6. Len(A) = Len(list)
  BY <1>1, <1>4, <1>5, LenProperties
<1>7. \A k \in 1 .. Len(list) : A[k] = [m |-> list[k], channel |-> c] /\ A[k].m = list[k]
  BY <1>2
<1>8. Search!Ids(A) = Search!Range(list)
  BY <1>1, <1>5, <1>7 DEF Search!Ids, Search!Range
<1>9. Distinct(list) => NoRepeat(A)
  BY <1>1, <1>5, <1>7 DEF Distinct, NoRepeat
<1> QED BY <1>4, <1>6, <1>7, <1>8, <1>9 DEF A

\* The pins, then the ranking.
Stream(pins, rest) == Search!As(pins, "pinned") \o rest

\* The pins come first in the stream, then the rest.
LEMMA StreamFacts ==
  ASSUME NEW pins \in Seq(Memories), NEW rest \in Seq(Entries)
  PROVE  /\ Stream(pins, rest) \in Seq(Entries) /\ Len(Stream(pins, rest)) = Len(pins) + Len(rest)
         /\ \A k \in 1 .. Len(pins) : Stream(pins, rest)[k] = [m |-> pins[k], channel |-> "pinned"]
         /\ \A k \in 1 .. Len(rest) : Stream(pins, rest)[Len(pins) + k] = rest[k]
         /\ \A k \in 1 .. Len(Stream(pins, rest)) :
              k <= Len(pins) \/ (/\ k - Len(pins) \in 1 .. Len(rest)
                                  /\ Stream(pins, rest)[k] = rest[k - Len(pins)])
         /\ Search!Ids(Stream(pins, rest)) = Search!Range(pins) \union Search!Ids(rest)
         /\ Distinct(pins) /\ NoRepeat(rest) /\ Search!Ids(rest) \intersect Search!Range(pins) = {} =>
              NoRepeat(Stream(pins, rest))
<1> DEFINE A == Search!As(pins, "pinned")
<1> DEFINE st == Stream(pins, rest)
<1>0. "pinned" \in Channels
  BY DEF Channels
<1>1. /\ A \in Seq(Entries) /\ Len(A) = Len(pins) /\ Search!Ids(A) = Search!Range(pins)
      /\ \A k \in 1 .. Len(pins) : A[k] = [m |-> pins[k], channel |-> "pinned"]
  BY <1>0, AsFacts
<1>2. st = A \o rest
  BY DEF Stream
<1> HIDE DEF A, st
<1>3. Len(pins) \in Nat /\ Len(rest) \in Nat /\ DOMAIN pins = 1 .. Len(pins) /\ DOMAIN rest = 1 .. Len(rest)
  BY LenProperties
<1>4. /\ A \o rest \in Seq(Entries) /\ Len(A \o rest) = Len(A) + Len(rest)
      /\ \A i \in 1 .. Len(A) + Len(rest) : (A \o rest)[i] = IF i <= Len(A) THEN A[i] ELSE rest[i - Len(A)]
  BY <1>1, ConcatProperties
<1>5. /\ st \in Seq(Entries) /\ Len(st) = Len(pins) + Len(rest)
      /\ \A i \in 1 .. Len(st) : st[i] = IF i <= Len(pins) THEN A[i] ELSE rest[i - Len(pins)]
  BY <1>1, <1>2, <1>4
<1>6. DOMAIN st = 1 .. Len(st)
  BY <1>5, LenProperties
<1>7. \A k \in 1 .. Len(pins) : st[k] = [m |-> pins[k], channel |-> "pinned"] /\ st[k].m = pins[k] /\ k \in DOMAIN st
  BY <1>1, <1>3, <1>5, <1>6
<1>8. \A k \in 1 .. Len(rest) : st[Len(pins) + k] = rest[k] /\ Len(pins) + k \in DOMAIN st
  BY <1>3, <1>5, <1>6
<1>9. \A k \in 1 .. Len(st) : k \in 1 .. Len(pins) \/ (k - Len(pins) \in 1 .. Len(rest) /\ st[k] = rest[k - Len(pins)])
  BY <1>3, <1>5
<1>10. Search!Ids(st) = Search!Range(pins) \union Search!Ids(rest)
  <2>1. ASSUME NEW x \in Search!Ids(st) PROVE x \in Search!Range(pins) \union Search!Ids(rest)
    <3>1. PICK k \in 1 .. Len(st) : x = st[k].m
      BY <1>6 DEF Search!Ids
    <3>2. CASE k \in 1 .. Len(pins)
      BY <1>3, <1>7, <3>1, <3>2 DEF Search!Range
    <3>3. CASE k - Len(pins) \in 1 .. Len(rest) /\ st[k] = rest[k - Len(pins)]
      BY <1>3, <3>1, <3>3 DEF Search!Ids
    <3> QED BY <1>9, <3>2, <3>3
  <2>2. ASSUME NEW x \in Search!Range(pins) PROVE x \in Search!Ids(st)
    <3>1. PICK k \in 1 .. Len(pins) : x = pins[k]
      BY <1>3 DEF Search!Range
    <3> QED BY <1>7, <3>1 DEF Search!Ids
  <2>3. ASSUME NEW x \in Search!Ids(rest) PROVE x \in Search!Ids(st)
    <3>1. PICK k \in 1 .. Len(rest) : x = rest[k].m
      BY <1>3 DEF Search!Ids
    <3>2. x = st[Len(pins) + k].m /\ Len(pins) + k \in DOMAIN st
      BY <1>8, <3>1
    <3> QED BY <3>2 DEF Search!Ids
  <2> QED BY <2>1, <2>2, <2>3
<1>11. ASSUME Distinct(pins), NoRepeat(rest), Search!Ids(rest) \intersect Search!Range(pins) = {} PROVE NoRepeat(st)
  <2> SUFFICES ASSUME NEW i \in 1 .. Len(st), NEW j \in 1 .. Len(st), st[i].m = st[j].m PROVE i = j
    BY <1>6 DEF NoRepeat
  <2>0. i \in Int /\ j \in Int
    BY <1>3, <1>5
  <2>1. CASE i \in 1 .. Len(pins) /\ j \in 1 .. Len(pins)
    BY <1>3, <1>7, <1>11, <2>1 DEF Distinct
  <2>2. CASE /\ i - Len(pins) \in 1 .. Len(rest) /\ st[i] = rest[i - Len(pins)]
             /\ j - Len(pins) \in 1 .. Len(rest) /\ st[j] = rest[j - Len(pins)]
    <3>1. i - Len(pins) = j - Len(pins)
      BY <1>3, <1>11, <2>2 DEF NoRepeat
    <3> QED BY <1>3, <2>0, <3>1
  <2>3. \A a \in 1 .. Len(pins), b \in 1 .. Len(st) :
            b - Len(pins) \in 1 .. Len(rest) /\ st[b] = rest[b - Len(pins)] => st[a].m # st[b].m
    <3> SUFFICES ASSUME NEW a \in 1 .. Len(pins), NEW b \in 1 .. Len(st),
                        b - Len(pins) \in 1 .. Len(rest), st[b] = rest[b - Len(pins)], st[a].m = st[b].m
                 PROVE  FALSE
      OBVIOUS
    <3>1. st[b].m \in Search!Ids(rest)
      BY <1>3 DEF Search!Ids
    <3>2. st[a].m \in Search!Range(pins)
      BY <1>3, <1>7 DEF Search!Range
    <3> QED BY <1>11, <3>1, <3>2
  <2> QED BY <1>9, <2>1, <2>2, <2>3
<1> QED BY <1>3, <1>5, <1>7, <1>8, <1>9, <1>10, <1>11 DEF st

\* A page is a window of the stream.
LEMMA PageFacts ==
  ASSUME offset \in Nat, query.topK \in Nat, NEW st \in Seq(Entries)
  PROVE  /\ Search!Page(st) \in Seq(Entries) /\ Len(Search!Page(st)) <= query.topK
         /\ Len(Search!Page(st)) = IF offset >= Len(st) THEN 0 ELSE Search!Lesser(offset + query.topK, Len(st)) - offset
         /\ Len(Search!Page(st)) = query.topK \/ Len(st) <= offset + Len(Search!Page(st))
         /\ \A i \in 1 .. Len(Search!Page(st)) : offset + i \in 1 .. Len(st) /\ Search!Page(st)[i] = st[offset + i]
         /\ \A k \in 1 .. Len(st) : offset < k /\ k <= offset + query.topK =>
              k - offset \in 1 .. Len(Search!Page(st)) /\ Search!Page(st)[k - offset] = st[k]
         /\ Search!Ids(Search!Page(st)) \subseteq Search!Ids(st)
         /\ NoRepeat(st) => NoRepeat(Search!Page(st))
<1> DEFINE page == Search!Page(st)
<1> DEFINE K == query.topK
<1> DEFINE l == Search!Lesser(offset + K, Len(st))
<1>1. Len(st) \in Nat /\ DOMAIN st = 1 .. Len(st) /\ \A i \in 1 .. Len(st) : st[i] \in Entries
  BY LenProperties
<1>0. Len(st) \in Nat
  BY LenProperties
<1>2. K \in Nat
  OBVIOUS
<1>3. page = IF offset >= Len(st) THEN <<>> ELSE SubSeq(st, offset + 1, l)
  BY DEF Search!Page
<1> HIDE DEF K, page
<1>4. l \in Nat /\ l <= offset + K /\ l <= Len(st) /\ (l = offset + K \/ l = Len(st))
  BY <1>0, <1>2 DEF Search!Lesser
<1>5. /\ page \in Seq(Entries) /\ Len(page) \in Nat /\ DOMAIN page = 1 .. Len(page)
      /\ Len(page) = IF offset >= Len(st) THEN 0 ELSE l - offset
      /\ \A i \in 1 .. Len(page) : offset + i \in 1 .. Len(st) /\ page[i] = st[offset + i]
  <2>1. CASE offset >= Len(st)
    <3>1. page = <<>>
      BY <1>3, <2>1
    <3> QED BY <2>1, <3>1
  <2>2. CASE ~ (offset >= Len(st))
    <3> HIDE DEF l
    <3>1. page = SubSeq(st, offset + 1, l)
      BY <1>3, <2>2
    <3>2. offset + 1 \in Int /\ l \in Int /\ offset <= l
      BY <1>0, <1>2, <1>4, <2>2
    <3>3. \A i \in offset + 1 .. l : st[i] \in Entries
      <4>1. \A i \in offset + 1 .. l : i \in 1 .. Len(st)
        BY <1>0, <1>4
      <4> QED BY <1>1, <4>1
    <3>4. /\ page \in Seq(Entries)
          /\ Len(page) = IF offset + 1 <= l THEN l - (offset + 1) + 1 ELSE 0
          /\ \A i \in 1 .. l - (offset + 1) + 1 : page[i] = st[offset + 1 + i - 1]
      BY <3>1, <3>2, <3>3, SubSeqProperties
    <3>5. Len(page) = l - offset /\ Len(page) \in Nat
      BY <1>4, <3>2, <3>4
    <3>6. ASSUME NEW i \in 1 .. Len(page) PROVE offset + i \in 1 .. Len(st) /\ page[i] = st[offset + i]
      <4>1. i \in 1 .. l - (offset + 1) + 1 /\ offset + 1 + i - 1 = offset + i
        BY <1>4, <3>5
      <4>2. page[i] = st[offset + 1 + i - 1]
        BY <3>4, <4>1
      <4>3. offset + i \in 1 .. Len(st)
        BY <1>0, <1>4, <3>5
      <4> QED BY <4>1, <4>2, <4>3
    <3>7. DOMAIN page = 1 .. Len(page)
      BY <3>4, LenProperties
    <3> QED BY <2>2, <3>4, <3>5, <3>6, <3>7
  <2> QED BY <2>1, <2>2
<1> HIDE DEF l
<1>10. Len(page) \in Nat /\ Len(page) = IF offset >= Len(st) THEN 0 ELSE l - offset
  BY <1>5
<1>6. Len(page) <= K /\ (Len(page) = K \/ Len(st) <= offset + Len(page))
  BY <1>0, <1>2, <1>4, <1>10
<1>7. ASSUME NEW k \in 1 .. Len(st), offset < k, k <= offset + K
      PROVE  k - offset \in 1 .. Len(page) /\ page[k - offset] = st[k]
  <2>1. k \in Int /\ k - offset \in 1 .. Len(page)
    BY <1>0, <1>2, <1>4, <1>7, <1>10
  <2>2. offset + (k - offset) = k
    BY <2>1
  <2> QED BY <1>5, <2>1, <2>2
<1>8. Search!Ids(page) \subseteq Search!Ids(st)
  BY <1>1, <1>5 DEF Search!Ids
<1>9. ASSUME NoRepeat(st) PROVE NoRepeat(page)
  <2> SUFFICES ASSUME NEW i \in 1 .. Len(page), NEW j \in 1 .. Len(page), page[i].m = page[j].m PROVE i = j
    BY <1>5 DEF NoRepeat
  <2>1. offset + i = offset + j
    BY <1>1, <1>5, <1>9 DEF NoRepeat
  <2> QED BY <1>5, <2>1
<1> QED BY <1>5, <1>6, <1>7, <1>8, <1>9 DEF K, l, page

\* Two streams that agree as far as the page reaches give the same page.
LEMMA PageAgrees ==
  ASSUME offset \in Nat, query.topK \in Nat, NEW st \in Seq(Entries), NEW su \in Seq(Entries),
         Search!Lesser(offset + query.topK, Len(st)) = Search!Lesser(offset + query.topK, Len(su)),
         \A i \in 1 .. Search!Lesser(offset + query.topK, Len(st)) : st[i] = su[i]
  PROVE  Search!Page(st) = Search!Page(su)
<1> DEFINE p == Search!Page(st)
<1> DEFINE q == Search!Page(su)
<1> DEFINE k == offset + query.topK
<1> DEFINE l == Search!Lesser(k, Len(st))
<1>1. /\ p \in Seq(Entries) /\ Len(p) = IF offset >= Len(st) THEN 0 ELSE l - offset
      /\ \A i \in 1 .. Len(p) : p[i] = st[offset + i]
  BY PageFacts
<1>2. /\ q \in Seq(Entries) /\ Len(q) = IF offset >= Len(su) THEN 0 ELSE Search!Lesser(k, Len(su)) - offset
      /\ \A i \in 1 .. Len(q) : q[i] = su[offset + i]
  BY PageFacts
<1> HIDE DEF p, q
<1>3. Len(st) \in Nat /\ Len(su) \in Nat /\ Len(p) \in Nat
  BY <1>1, LenProperties
<1>4. k \in Nat /\ offset <= k
  OBVIOUS
<1>5. l = Search!Lesser(k, Len(su)) /\ \A i \in 1 .. l : st[i] = su[i]
  OBVIOUS
<1> HIDE DEF k
<1>6. Len(p) = Len(q) /\ (Len(p) = 0 \/ Len(p) = l - offset)
  <2>1. Len(p) = IF offset >= Len(st) THEN 0 ELSE Search!Lesser(k, Len(st)) - offset
    BY <1>1
  <2>2. Search!Lesser(k, Len(su)) = Search!Lesser(k, Len(st))
    BY <1>5
  <2> QED BY <1>2, <1>3, <1>4, <2>1, <2>2 DEF Search!Lesser
<1>7. l \in Nat
  BY <1>3, <1>4 DEF Search!Lesser
<1> HIDE DEF l
<1>8. \A i \in 1 .. Len(p) : p[i] = q[i]
  <2> TAKE i \in 1 .. Len(p)
  <2>1. offset + i \in 1 .. l
    BY <1>3, <1>6, <1>7
  <2> QED BY <1>1, <1>2, <1>5, <1>6, <2>1
<1>9. p = q
  BY <1>1, <1>2, <1>6, <1>8, SeqEqual
<1> QED BY <1>9 DEF p, q

\* The float followed by a keyword ranking: what is fetched beyond the page does not
\* change it.
LEMMA FetchMore ==
  ASSUME offset \in Nat, query.topK \in Nat, NEW pins \in Seq(Memories), NEW L \in Seq(Memories),
         NEW n \in Nat, offset + query.topK <= n
  PROVE  Search!Page(Stream(pins, Search!As(Search!First(L, n), "keyword")))
           = Search!Page(Stream(pins, Search!As(L, "keyword")))
<1> DEFINE A == Search!As(Search!First(L, n), "keyword")
<1> DEFINE B == Search!As(L, "keyword")
<1> DEFINE st == Stream(pins, A)
<1> DEFINE su == Stream(pins, B)
<1> DEFINE k == offset + query.topK
<1>1. k \in Nat /\ k <= n
  OBVIOUS
<1>2. Len(L) \in Nat /\ Len(pins) \in Nat
  BY LenProperties
<1>3. /\ Search!First(L, n) \in Seq(Memories) /\ Len(Search!First(L, n)) = Search!Lesser(n, Len(L))
      /\ \A i \in 1 .. Search!Lesser(n, Len(L)) : Search!First(L, n)[i] = L[i]
  BY FirstFacts
<1>4. "keyword" \in Channels
  BY DEF Channels
<1>5. /\ A \in Seq(Entries) /\ Len(A) = Search!Lesser(n, Len(L))
      /\ \A i \in 1 .. Search!Lesser(n, Len(L)) : A[i] = [m |-> Search!First(L, n)[i], channel |-> "keyword"]
  BY <1>3, <1>4, AsFacts
<1>6. /\ B \in Seq(Entries) /\ Len(B) = Len(L)
      /\ \A i \in 1 .. Len(L) : B[i] = [m |-> L[i], channel |-> "keyword"]
  BY <1>4, AsFacts
<1>7. Search!Lesser(n, Len(L)) \in Nat /\ Search!Lesser(n, Len(L)) <= Len(L)
        /\ (Search!Lesser(n, Len(L)) = n \/ Search!Lesser(n, Len(L)) = Len(L))
  BY <1>2 DEF Search!Lesser
<1>8. \A i \in 1 .. Len(A) : A[i] = B[i]
  <2> TAKE i \in 1 .. Len(A)
  <2>1. i \in 1 .. Search!Lesser(n, Len(L)) /\ i \in 1 .. Len(L)
    BY <1>2, <1>5, <1>7
  <2> QED BY <1>3, <1>5, <1>6, <2>1
<1> HIDE DEF A, B
<1>9. /\ st \in Seq(Entries) /\ Len(st) = Len(pins) + Len(A)
      /\ \A i \in 1 .. Len(pins) : st[i] = [m |-> pins[i], channel |-> "pinned"]
      /\ \A i \in 1 .. Len(A) : st[Len(pins) + i] = A[i]
  BY <1>5, StreamFacts
<1>10. /\ su \in Seq(Entries) /\ Len(su) = Len(pins) + Len(B)
       /\ \A i \in 1 .. Len(pins) : su[i] = [m |-> pins[i], channel |-> "pinned"]
       /\ \A i \in 1 .. Len(B) : su[Len(pins) + i] = B[i]
  BY <1>6, StreamFacts
<1> HIDE DEF st, su, k
<1>11. Search!Lesser(k, Len(st)) = Search!Lesser(k, Len(su)) /\ Search!Lesser(k, Len(st)) \in Nat
         /\ Search!Lesser(k, Len(st)) <= Len(st)
  BY <1>1, <1>2, <1>5, <1>6, <1>7, <1>9, <1>10 DEF Search!Lesser
<1>12. ASSUME NEW i \in 1 .. Search!Lesser(k, Len(st)) PROVE st[i] = su[i]
  <2>1. CASE i \in 1 .. Len(pins)
    BY <1>9, <1>10, <2>1
  <2>2. CASE i \notin 1 .. Len(pins)
    <3>1. i - Len(pins) \in 1 .. Len(A) /\ i - Len(pins) \in 1 .. Len(B) /\ Len(pins) + (i - Len(pins)) = i
      BY <1>2, <1>5, <1>6, <1>7, <1>9, <1>11, <2>2
    <3> QED BY <1>8, <1>9, <1>10, <3>1
  <2> QED BY <2>1, <2>2
<1>13. \A i \in 1 .. Search!Lesser(k, Len(st)) : st[i] = su[i]
  BY <1>12
<1>14. Search!Page(st) = Search!Page(su)
  BY <1>9, <1>10, <1>11, <1>13, PageAgrees DEF k
<1> QED BY <1>14 DEF st, su, A, B

(***************************************************************************)
(* The fusion of the two rankings.                                         *)
(***************************************************************************)
LEMMA Times ==
  /\ \A a, b, c \in Nat : a <= b => a * c <= b * c
  /\ \A a, b, c \in Nat : a < b /\ 0 < c => a * c < b * c
  /\ \A a, b, c \in Nat : a * c <= b * c /\ 0 < c => a <= b
  /\ \A a, b, c \in Nat : a * c < b * c => a < b
  /\ \A a, b \in Nat : a * b \in Nat /\ (0 < a /\ 0 < b => 0 < a * b)
<1>1. ASSUME NEW a \in Nat, NEW b \in Nat, NEW c \in Nat, a <= b PROVE a * c <= b * c
  BY <1>1
<1>2. ASSUME NEW a \in Nat, NEW b \in Nat, NEW c \in Nat, a < b, 0 < c PROVE a * c < b * c
  BY <1>2
<1>3. ASSUME NEW a \in Nat, NEW b \in Nat PROVE a * b \in Nat /\ (0 < a /\ 0 < b => 0 < a * b)
  OBVIOUS
<1>4. ASSUME NEW a \in Nat, NEW b \in Nat, NEW c \in Nat, a * c <= b * c, 0 < c PROVE a <= b
  <2>1. b < a => b * c < a * c
    BY <1>2, <1>4
  <2>2. a * c \in Nat /\ b * c \in Nat
    BY <1>3
  <2> QED BY <1>4, <2>1, <2>2
<1>5. ASSUME NEW a \in Nat, NEW b \in Nat, NEW c \in Nat, a * c < b * c PROVE a < b
  <2>1. b <= a => b * c <= a * c
    BY <1>1
  <2>2. a * c \in Nat /\ b * c \in Nat
    BY <1>3
  <2> QED BY <1>5, <2>1, <2>2
<1> QED BY <1>1, <1>2, <1>3, <1>4, <1>5

\* Comparing fractions is transitive.
LEMMA Fractions ==
  ASSUME NEW a \in Nat, NEW b \in Nat, NEW c \in Nat, NEW d \in Nat, NEW e \in Nat, NEW f \in Nat,
         0 < b, 0 < d, 0 < f
  PROVE  /\ a * d >= c * b /\ c * f >= e * d => a * f >= e * b
         /\ a * d > c * b /\ c * f >= e * d => a * f > e * b
         /\ a * d >= c * b /\ c * f > e * d => a * f > e * b
<1> DEFINE ad == a * d
<1> DEFINE cb == c * b
<1> DEFINE cf == c * f
<1> DEFINE ed == e * d
<1> DEFINE af == a * f
<1> DEFINE eb == e * b
<1>1. ad \in Nat /\ cb \in Nat /\ cf \in Nat /\ ed \in Nat /\ af \in Nat /\ eb \in Nat
  BY Times
<1>2. ad * f = af * d /\ cb * f = cf * b /\ ed * b = eb * d
  OBVIOUS
<1> HIDE DEF ad, cb, cf, ed, af, eb
<1>3. ad * f \in Nat /\ cb * f \in Nat /\ ed * b \in Nat /\ cf * b \in Nat /\ af * d \in Nat /\ eb * d \in Nat
  BY <1>1, Times
<1>4. ASSUME ad >= cb, cf >= ed PROVE af >= eb
  <2>1. cb * f <= ad * f /\ ed * b <= cf * b
    BY <1>1, <1>4, Times
  <2>2. eb * d <= af * d
    BY <1>2, <1>3, <2>1
  <2> QED BY <1>1, <2>2, Times
<1>5. ASSUME ad > cb, cf >= ed PROVE af > eb
  <2>1. cb * f < ad * f /\ ed * b <= cf * b
    BY <1>1, <1>5, Times
  <2>2. eb * d < af * d
    BY <1>2, <1>3, <2>1
  <2> QED BY <1>1, <2>2, Times
<1>6. ASSUME ad >= cb, cf > ed PROVE af > eb
  <2>1. cb * f <= ad * f /\ ed * b < cf * b
    BY <1>1, <1>6, Times
  <2>2. eb * d < af * d
    BY <1>2, <1>3, <2>1
  <2> QED BY <1>1, <2>2, Times
<1> QED BY <1>4, <1>5, <1>6 DEF ad, cb, cf, ed, af, eb

\* A listed memory is at its rank.
LEMMA RankFacts ==
  ASSUME NEW list \in Seq(Memories), NEW m \in Search!Range(list)
  PROVE  Search!Rank(list, m) \in 1 .. Len(list) /\ list[Search!Rank(list, m)] = m
<1>1. DOMAIN list = 1 .. Len(list)
  BY LenProperties
<1>2. \E k \in DOMAIN list : list[k] = m
  BY DEF Search!Range
<1> QED BY <1>1, <1>2 DEF Search!Rank

\* What either channel ranks.
Ranked == Search!Range(keyword) \union Search!Range(semantic)

RankingsTyped == RrfK \in Nat /\ keyword \in Seq(Memories) /\ semantic \in Seq(Memories)

\* What a channel divides by.
Share(list, m) == RrfK + Search!Rank(list, m)

\* The denominator of a channel is positive.
LEMMA ShareFacts ==
  ASSUME RrfK \in Nat, NEW list \in Seq(Memories), NEW m \in Search!Range(list)
  PROVE  Share(list, m) \in Nat /\ 0 < Share(list, m)
<1>1. Search!Rank(list, m) \in 1 .. Len(list) /\ Len(list) \in Nat
  BY RankFacts, LenProperties
<1> QED BY <1>1 DEF Share

\* The score of a ranked memory, by the channels that rank it.
LEMMA FractionFacts ==
  ASSUME RankingsTyped, NEW m \in Ranked
  PROVE  /\ Search!Fraction(m)[1] \in Nat /\ Search!Fraction(m)[2] \in Nat /\ 0 < Search!Fraction(m)[2]
         /\ m \in Search!Range(keyword) /\ m \in Search!Range(semantic) =>
              /\ Search!Fraction(m)[1] = Share(keyword, m) + Share(semantic, m)
              /\ Search!Fraction(m)[2] = Share(keyword, m) * Share(semantic, m)
         /\ m \in Search!Range(keyword) /\ m \notin Search!Range(semantic) => Search!Fraction(m)[1] = 1
              /\ Search!Fraction(m)[2] = Share(keyword, m)
         /\ m \notin Search!Range(keyword) => Search!Fraction(m)[1] = 1 /\ Search!Fraction(m)[2] = Share(semantic, m)
<1>1. m \in Search!Range(keyword) => Share(keyword, m) \in Nat /\ 0 < Share(keyword, m)
  BY ShareFacts DEF RankingsTyped
<1>2. m \in Search!Range(semantic) => Share(semantic, m) \in Nat /\ 0 < Share(semantic, m)
  BY ShareFacts DEF RankingsTyped
<1>3. Search!Fraction(m) = IF m \in Search!Range(keyword) /\ m \in Search!Range(semantic)
                           THEN <<Share(keyword, m) + Share(semantic, m), Share(keyword, m) * Share(semantic, m)>>
                           ELSE IF m \in Search!Range(keyword) THEN <<1, Share(keyword, m)>> ELSE <<1,
                                  Share(semantic, m)>>
  BY DEF Search!Fraction, Share
<1>4. CASE m \in Search!Range(keyword) /\ m \in Search!Range(semantic)
  <2>1. Share(keyword, m) * Share(semantic, m) \in Nat /\ 0 < Share(keyword, m) * Share(semantic, m)
    BY <1>1, <1>2, <1>4, Times
  <2>2. Search!Fraction(m)[1] = Share(keyword, m) + Share(semantic, m)
          /\ Search!Fraction(m)[2] = Share(keyword, m) * Share(semantic, m)
    BY <1>3, <1>4
  <2> QED BY <1>1, <1>2, <1>4, <2>1, <2>2
<1>5. CASE m \in Search!Range(keyword) /\ m \notin Search!Range(semantic)
  BY <1>1, <1>3, <1>5
<1>6. CASE m \notin Search!Range(keyword)
  <2>1. m \in Search!Range(semantic)
    BY <1>6 DEF Ranked
  <2> QED BY <1>2, <1>3, <1>6, <2>1
<1> QED BY <1>4, <1>5, <1>6

\* A smaller share of each ranking it is in, and in every ranking the other is in, is a
\* larger sum.
LEMMA FusionPrefers ==
  ASSUME RankingsTyped, NEW m \in Ranked, NEW n \in Ranked,
         Search!NotAfter(keyword, m, n), Search!NotAfter(semantic, m, n),
         Search!Before(keyword, m, n) \/ Search!Before(semantic, m, n)
  PROVE  Search!Fraction(m)[1] * Search!Fraction(n)[2] > Search!Fraction(n)[1] * Search!Fraction(m)[2]
<1> DEFINE a == Share(keyword, m)
<1> DEFINE b == Share(semantic, m)
<1> DEFINE c == Share(keyword, n)
<1> DEFINE d == Share(semantic, n)
<1>1. /\ m \in Search!Range(keyword) => a \in Nat /\ 0 < a
      /\ m \in Search!Range(semantic) => b \in Nat /\ 0 < b
      /\ n \in Search!Range(keyword) => c \in Nat /\ 0 < c
      /\ n \in Search!Range(semantic) => d \in Nat /\ 0 < d
  BY ShareFacts DEF RankingsTyped
<1>2. n \in Search!Range(keyword) => m \in Search!Range(keyword) /\ a < c
  <2> SUFFICES ASSUME n \in Search!Range(keyword) PROVE m \in Search!Range(keyword) /\ a < c
    OBVIOUS
  <2>1. m \in Search!Range(keyword) /\ Search!Rank(keyword, m) < Search!Rank(keyword, n)
    BY DEF Search!NotAfter, Search!Before
  <2>2. Search!Rank(keyword, m) \in 1 .. Len(keyword) /\ Search!Rank(keyword, n) \in 1 .. Len(keyword)
          /\ Len(keyword) \in Nat
    BY <2>1, RankFacts, LenProperties DEF RankingsTyped
  <2> QED BY <2>1, <2>2 DEF Share, RankingsTyped
<1>3. n \in Search!Range(semantic) => m \in Search!Range(semantic) /\ b < d
  <2> SUFFICES ASSUME n \in Search!Range(semantic) PROVE m \in Search!Range(semantic) /\ b < d
    OBVIOUS
  <2>1. m \in Search!Range(semantic) /\ Search!Rank(semantic, m) < Search!Rank(semantic, n)
    BY DEF Search!NotAfter, Search!Before
  <2>2. Search!Rank(semantic, m) \in 1 .. Len(semantic) /\ Search!Rank(semantic, n) \in 1 .. Len(semantic)
          /\ Len(semantic) \in Nat
    BY <2>1, RankFacts, LenProperties DEF RankingsTyped
  <2> QED BY <2>1, <2>2 DEF Share, RankingsTyped
<1> HIDE DEF a, b, c, d
<1>4. /\ m \in Search!Range(keyword) /\ m \in Search!Range(semantic) => Search!Fraction(m)[1] = a + b
           /\ Search!Fraction(m)[2] = a * b
      /\ m \in Search!Range(keyword) /\ m \notin Search!Range(semantic) => Search!Fraction(m)[1] = 1
           /\ Search!Fraction(m)[2] = a
      /\ m \notin Search!Range(keyword) => Search!Fraction(m)[1] = 1 /\ Search!Fraction(m)[2] = b
  BY FractionFacts DEF a, b
<1>5. /\ n \in Search!Range(keyword) /\ n \in Search!Range(semantic) => Search!Fraction(n)[1] = c + d
           /\ Search!Fraction(n)[2] = c * d
      /\ n \in Search!Range(keyword) /\ n \notin Search!Range(semantic) => Search!Fraction(n)[1] = 1
           /\ Search!Fraction(n)[2] = c
      /\ n \notin Search!Range(keyword) => Search!Fraction(n)[1] = 1 /\ Search!Fraction(n)[2] = d
  BY FractionFacts DEF c, d
<1>6. CASE n \in Search!Range(keyword) /\ n \in Search!Range(semantic)
  <2>1. a \in Nat /\ b \in Nat /\ c \in Nat /\ d \in Nat /\ 0 < a /\ 0 < b /\ a < c /\ b < d
    BY <1>1, <1>2, <1>3, <1>6
  <2>2. Search!Fraction(m)[1] = a + b /\ Search!Fraction(m)[2] = a * b /\ Search!Fraction(n)[1] = c + d
          /\ Search!Fraction(n)[2] = c * d
    BY <1>2, <1>3, <1>4, <1>5, <1>6
  <2>3. (a + b) * (c * d) > (c + d) * (a * b)
    <3> DEFINE ac == a * c
    <3> DEFINE bd == b * d
    <3>1. ac \in Nat /\ 0 < ac /\ bd \in Nat /\ 0 < bd
      BY <2>1, Times
    <3>2. b * ac < d * ac /\ a * bd < c * bd
      <4> HIDE DEF ac, bd
      <4> QED BY <2>1, <3>1, Times
    <3>3. (a + b) * (c * d) = d * ac + c * bd /\ (c + d) * (a * b) = b * ac + a * bd
      BY <2>1
    <3>4. b * ac \in Nat /\ d * ac \in Nat /\ a * bd \in Nat /\ c * bd \in Nat
      <4> HIDE DEF ac, bd
      <4> QED BY <2>1, <3>1, Times
    <3> HIDE DEF ac, bd
    <3> QED BY <3>2, <3>3, <3>4
  <2> QED BY <2>2, <2>3
<1>7. CASE n \in Search!Range(keyword) /\ n \notin Search!Range(semantic)
  <2>1. a \in Nat /\ c \in Nat /\ 0 < a /\ a < c /\ m \in Search!Range(keyword) /\ Search!Fraction(n)[1] = 1
          /\ Search!Fraction(n)[2] = c
    BY <1>1, <1>2, <1>5, <1>7
  <2>2. CASE m \in Search!Range(semantic)
    <3>1. b \in Nat /\ 0 < b /\ Search!Fraction(m)[1] = a + b /\ Search!Fraction(m)[2] = a * b
      BY <1>1, <1>4, <2>1, <2>2
    <3>2. a * b < c * b /\ a * c \in Nat /\ a * b \in Nat /\ c * b \in Nat
      BY <2>1, <3>1, Times
    <3>3. (a + b) * c = a * c + c * b /\ 1 * (a * b) = a * b
      BY <2>1, <3>1
    <3> QED BY <2>1, <3>1, <3>2, <3>3
  <2>3. CASE m \notin Search!Range(semantic)
    BY <1>4, <2>1, <2>3
  <2> QED BY <2>2, <2>3
<1>8. CASE n \notin Search!Range(keyword)
  <2>0. n \in Search!Range(semantic)
    BY <1>8 DEF Ranked
  <2>1. b \in Nat /\ d \in Nat /\ 0 < b /\ b < d /\ m \in Search!Range(semantic) /\ Search!Fraction(n)[1] = 1
          /\ Search!Fraction(n)[2] = d
    BY <1>1, <1>3, <1>5, <1>8, <2>0
  <2>2. CASE m \in Search!Range(keyword)
    <3>1. a \in Nat /\ 0 < a /\ Search!Fraction(m)[1] = a + b /\ Search!Fraction(m)[2] = a * b
      BY <1>1, <1>4, <2>1, <2>2
    <3>2. b * a < d * a /\ b * d \in Nat /\ b * a \in Nat /\ d * a \in Nat
      BY <2>1, <3>1, Times
    <3>3. (a + b) * d = d * a + b * d /\ 1 * (a * b) = b * a
      BY <2>1, <3>1
    <3> QED BY <2>1, <3>1, <3>2, <3>3
  <2>3. CASE m \notin Search!Range(keyword)
    BY <1>4, <2>1, <2>3
  <2> QED BY <2>2, <2>3
<1> QED BY <1>6, <1>7, <1>8

\* rrf_scores.
Scores(ids) == {[m |-> m, score |-> Search!Fraction(m)] : m \in ids}
ScoreOrder(ids, up) == {p \in Scores(ids) \X Scores(ids) : Search!Above(p[1], p[2], up)}

\* rrf_scores has one score for each memory.
LEMMA ScoresFacts ==
  ASSUME NEW ids, IsFiniteSet(ids)
  PROVE  /\ IsFiniteSet(Scores(ids)) /\ Cardinality(Scores(ids)) = Cardinality(ids)
         /\ \A e \in Scores(ids) : e.m \in ids /\ e.score = Search!Fraction(e.m)
         /\ \A e, f \in Scores(ids) : e.m = f.m => e = f
<1> DEFINE g == [m \in ids |-> [m |-> m, score |-> Search!Fraction(m)]]
<1>1. \A e \in Scores(ids) : e.m \in ids /\ e = [m |-> e.m, score |-> Search!Fraction(e.m)]
  BY DEF Scores
<1>2. \A m \in ids : g[m] \in Scores(ids) /\ g[m].m = m
  BY DEF Scores
<1>3. g \in [ids -> Scores(ids)]
  BY <1>2
<1>4. \A e \in Scores(ids) : \E m \in ids : g[m] = e
  BY DEF Scores
<1> HIDE DEF g
<1>5. g \in Bijection(ids, Scores(ids))
  BY <1>2, <1>3, <1>4 DEF Bijection, Injection, Surjection, IsInjective
<1>6. IsFiniteSet(Scores(ids)) /\ Cardinality(Scores(ids)) = Cardinality(ids)
  BY <1>5, FS_Bijection DEF ExistsBijection
<1> QED BY <1>1, <1>6

\* The sums order the entries, and a tie is broken one way or the other.
LEMMA ScoreOrderLines ==
  ASSUME RankingsTyped, NEW ids, IsFiniteSet(ids), ids \subseteq Ranked, ids \subseteq Nat, NEW up \in BOOLEAN
  PROVE  Lines(Scores(ids), ScoreOrder(ids, up))
<1> DEFINE S == Scores(ids)
<1>1. \A e \in S : /\ e.m \in Nat
                   /\ e.score[1] \in Nat /\ e.score[2] \in Nat /\ 0 < e.score[2]
  <2> TAKE e \in S
  <2>1. e.m \in ids /\ e.score = Search!Fraction(e.m)
    BY ScoresFacts
  <2>2. e.m \in Ranked /\ e.m \in Nat
    BY <2>1
  <2>3. Search!Fraction(e.m)[1] \in Nat /\ Search!Fraction(e.m)[2] \in Nat /\ 0 < Search!Fraction(e.m)[2]
    BY <2>2, FractionFacts
  <2> QED BY <2>1, <2>2, <2>3
<1>2. \A e, f \in S : e.m = f.m => e = f
  BY ScoresFacts
<1>3. \A e, f \in S : <<e, f>> \in ScoreOrder(ids, up) <=> Search!Above(e, f, up)
  BY DEF ScoreOrder
<1>4. \A e, f \in S : e.score[1] * f.score[2] \in Nat
  BY <1>1, Times
<1> HIDE DEF S
<1>5. ASSUME NEW e \in S PROVE ~ Search!Above(e, e, up)
  <2>1. e.score[1] * e.score[2] \in Nat /\ e.m \in Nat
    BY <1>1, <1>4
  <2> QED BY <2>1 DEF Search!Above
<1>6. ASSUME NEW e \in S, NEW f \in S, e # f PROVE Search!Above(e, f, up) \/ Search!Above(f, e, up)
  <2>1. e.score[1] * f.score[2] \in Nat /\ f.score[1] * e.score[2] \in Nat /\ e.m \in Nat /\ f.m \in Nat /\ e.m # f.m
    BY <1>1, <1>2, <1>4, <1>6
  <2> QED BY <2>1 DEF Search!Above
<1>7. ASSUME NEW e \in S, NEW f \in S, NEW g \in S, Search!Above(e, f, up),
             Search!Above(f, g, up) PROVE Search!Above(e, g, up)
  <2> DEFINE a == e.score[1]
  <2> DEFINE b == e.score[2]
  <2> DEFINE c == f.score[1]
  <2> DEFINE d == f.score[2]
  <2> DEFINE x == g.score[1]
  <2> DEFINE y == g.score[2]
  <2>1. /\ a \in Nat /\ b \in Nat /\ c \in Nat /\ d \in Nat /\ x \in Nat /\ y \in Nat
        /\ 0 < b /\ 0 < d /\ 0 < y /\ e.m \in Nat /\ f.m \in Nat /\ g.m \in Nat
    BY <1>1
  <2>2. a * d > c * b \/ (a * d = c * b /\ (IF up THEN e.m < f.m ELSE e.m > f.m))
    BY <1>7 DEF Search!Above
  <2>3. c * y > x * d \/ (c * y = x * d /\ (IF up THEN f.m < g.m ELSE f.m > g.m))
    BY <1>7 DEF Search!Above
  <2>4. a * y > x * b \/ (a * y = x * b /\ (IF up THEN e.m < g.m ELSE e.m > g.m))
    <3> HIDE DEF a, b, c, d, x, y
    <3>1. /\ a * d \in Nat /\ c * b \in Nat /\ c * y \in Nat /\ x * d \in Nat /\ a * y \in Nat /\ x * b \in Nat
      BY <2>1, Times
    <3>2. CASE a * d > c * b
      <4>1. c * y >= x * d
        BY <2>3, <3>1
      <4>2. a * y > x * b
        BY <2>1, <3>2, <4>1, Fractions
      <4> QED BY <4>2
    <3>3. CASE c * y > x * d
      <4>1. a * d >= c * b
        BY <2>2, <3>1
      <4>2. a * y > x * b
        BY <2>1, <3>3, <4>1, Fractions
      <4> QED BY <4>2
    <3>4. CASE a * d = c * b /\ c * y = x * d /\ (IF up THEN e.m < f.m ELSE e.m > f.m)
            /\ (IF up THEN f.m < g.m ELSE f.m > g.m)
      <4>1. a * d >= c * b /\ c * y >= x * d /\ c * b >= a * d /\ x * d >= c * y
        BY <3>1, <3>4
      <4>2. a * y >= x * b
        BY <2>1, <4>1, Fractions
      <4>3. x * b >= a * y
        BY <2>1, <4>1, Fractions
      <4>4. IF up THEN e.m < g.m ELSE e.m > g.m
        BY <2>1, <3>4
      <4> QED BY <3>1, <4>2, <4>3, <4>4
    <3> QED BY <2>2, <2>3, <3>2, <3>3, <3>4
  <2> QED BY <2>4 DEF Search!Above
<1>8. \A e \in S : <<e, e>> \notin ScoreOrder(ids, up)
  BY <1>3, <1>5
<1>9. \A e, f, g \in S : <<e, f>> \in ScoreOrder(ids, up) /\ <<f, g>> \in ScoreOrder(ids, up)
        => <<e, g>> \in ScoreOrder(ids, up)
  BY <1>3, <1>7
<1>10. \A e, f \in S : e # f => <<e, f>> \in ScoreOrder(ids, up) \/ <<f, e>> \in ScoreOrder(ids, up)
  BY <1>3, <1>6
<1> QED BY <1>8, <1>9, <1>10 DEF Lines, S

\* The entries of the fused ranking.
Merged(ids, up, n) ==
  LET merged == Search!First(Search!Fused(ids, up), n)
  IN [k \in DOMAIN merged |-> [m |-> merged[k].m, channel |-> Search!Channel(merged[k].m)]]

\* The fused list: what may be shown, once each, by score.
LEMMA MergedFacts ==
  ASSUME RankingsTyped, NEW ids, IsFiniteSet(ids), ids \subseteq Ranked, ids \subseteq Memories, Memories \subseteq Nat,
         NEW up \in BOOLEAN, NEW n \in Nat
  PROVE  /\ Merged(ids, up, n) \in Seq(Entries) /\ NoRepeat(Merged(ids, up, n))
         /\ Search!Ids(Merged(ids, up, n)) \subseteq ids
         /\ Len(Merged(ids, up, n)) = Search!Lesser(n, Cardinality(ids)) /\ Cardinality(ids) \in Nat
         /\ \A i \in 1 .. Len(Merged(ids, up, n)) : Merged(ids, up, n)[i].channel # "pinned"
         /\ \A i, j \in 1 .. Len(Merged(ids, up, n)) :
              LET a == Merged(ids, up, n)[i].m
                  b == Merged(ids, up, n)[j].m
              IN  Search!Fraction(a)[1] * Search!Fraction(b)[2] > Search!Fraction(b)[1] * Search!Fraction(a)[2] => i < j
<1> DEFINE S == Scores(ids)
<1> DEFINE R == ScoreOrder(ids, up)
<1> DEFINE L == Search!Listed(S, R)
<1> DEFINE P == Search!First(L, n)
<1> DEFINE M == Merged(ids, up, n)
<1>1. /\ IsFiniteSet(S) /\ Cardinality(S) = Cardinality(ids)
      /\ \A e \in S : e.m \in ids /\ e.score = Search!Fraction(e.m)
      /\ \A e, f \in S : e.m = f.m => e = f
  BY ScoresFacts
<1>2. Lines(S, R)
  BY ScoreOrderLines
<1>3. \A e, f \in S : <<e, f>> \in R <=> Search!Above(e, f, up)
  BY DEF ScoreOrder
<1>4. Search!Fused(ids, up) = L
  BY DEF Search!Fused, Scores, ScoreOrder
<1>5. M = [k \in DOMAIN P |-> [m |-> P[k].m, channel |-> Search!Channel(P[k].m)]]
  BY <1>4 DEF Merged
<1> HIDE DEF M, S, R
<1>6. /\ L \in Seq(S) /\ Len(L) = Cardinality(S) /\ Cardinality(S) \in Nat
      /\ \A i, j \in 1 .. Cardinality(S) : (L[i] = L[j] => i = j) /\ (i < j <=> <<L[i], L[j]>> \in R)
  BY <1>1, <1>2, ListedFacts
<1> HIDE DEF L
<1>7. /\ P \in Seq(S) /\ Len(P) = Search!Lesser(n, Len(L)) /\ Len(P) \in Nat /\ Len(P) <= Len(L)
      /\ DOMAIN P = 1 .. Len(P) /\ \A i \in 1 .. Len(P) : P[i] = L[i]
  <2>1. L \in Seq(S)
    BY <1>6
  <2> QED BY <2>1, FirstFacts
<1> HIDE DEF P
<1>8. \A i \in 1 .. Len(P) : P[i] \in S
  BY <1>7, LenProperties
<1>9. \A i, j \in 1 .. Len(P) : (P[i] = P[j] => i = j) /\ (i < j <=> <<P[i], P[j]>> \in R)
  <2> TAKE i, j \in 1 .. Len(P)
  <2>1. Len(P) \in Nat /\ Len(L) \in Nat /\ Len(P) <= Len(L)
    BY <1>6, <1>7
  <2>2. i \in 1 .. Cardinality(S) /\ j \in 1 .. Cardinality(S)
    BY <1>6, <2>1
  <2> QED BY <1>6, <1>7, <2>2
<1>10. \A x : Search!Channel(x) \in Channels /\ Search!Channel(x) # "pinned"
  BY DEF Search!Channel, Channels
<1>11. DOMAIN M = 1 .. Len(P) /\ \A i \in 1 .. Len(P) : M[i].m = P[i].m /\ M[i].channel # "pinned"
         /\ M[i].m \in ids /\ M[i] \in Entries
  <2>1. DOMAIN M = 1 .. Len(P)
    BY <1>5, <1>7
  <2> SUFFICES ASSUME NEW i \in 1 .. Len(P)
               PROVE  M[i].m = P[i].m /\ M[i].channel # "pinned" /\ M[i].m \in ids /\ M[i] \in Entries
    BY <2>1
  <2>2. M[i] = [m |-> P[i].m, channel |-> Search!Channel(P[i].m)]
    BY <1>5, <1>7
  <2>3. P[i].m \in ids
    BY <1>1, <1>8
  <2>4. Search!Channel(P[i].m) \in Channels /\ Search!Channel(P[i].m) # "pinned"
    BY <1>10
  <2>5. M[i] \in Entries
    <3> DEFINE x == P[i].m
    <3> DEFINE c == Search!Channel(x)
    <3>1. M[i] = [m |-> x, channel |-> c] /\ x \in Memories /\ c \in Channels
      BY <2>2, <2>3, <2>4
    <3> HIDE DEF x, c
    <3> QED BY <3>1 DEF Entries
  <2> QED BY <2>2, <2>3, <2>4, <2>5
<1>12. M \in Seq(Entries) /\ Len(M) = Len(P)
  <2>1. M \in [1 .. Len(P) -> Entries]
    BY <1>5, <1>7, <1>11
  <2>2. M \in Seq(Entries)
    BY <1>7, <2>1, SeqDef
  <2> QED BY <1>7, <1>11, <2>2, LenProperties
<1>13. NoRepeat(M)
  <2> SUFFICES ASSUME NEW i \in 1 .. Len(P), NEW j \in 1 .. Len(P), M[i].m = M[j].m PROVE i = j
    BY <1>11 DEF NoRepeat
  <2>1. P[i].m = P[j].m /\ P[i] \in S /\ P[j] \in S
    BY <1>8, <1>11
  <2>2. P[i] = P[j]
    BY <1>1, <2>1
  <2> QED BY <1>9, <2>2
<1>14. Search!Ids(M) \subseteq ids
  BY <1>11 DEF Search!Ids
<1>15. ASSUME NEW i \in 1 .. Len(M), NEW j \in 1 .. Len(M),
              Search!Fraction(M[i].m)[1] * Search!Fraction(M[j].m)[2]
                > Search!Fraction(M[j].m)[1] * Search!Fraction(M[i].m)[2]
       PROVE  i < j
  <2>1. M[i].m = P[i].m /\ M[j].m = P[j].m /\ P[i] \in S /\ P[j] \in S
    BY <1>8, <1>11, <1>12
  <2>2. P[i].score = Search!Fraction(M[i].m) /\ P[j].score = Search!Fraction(M[j].m)
    BY <1>1, <2>1
  <2>3. Search!Above(P[i], P[j], up)
    BY <1>15, <2>2 DEF Search!Above
  <2> QED BY <1>3, <1>9, <1>12, <2>1, <2>3
<1>16. Len(M) = Search!Lesser(n, Cardinality(ids)) /\ Cardinality(ids) \in Nat
  BY <1>1, <1>6, <1>7, <1>12
<1> QED BY <1>11, <1>12, <1>13, <1>14, <1>15, <1>16 DEF M

(***************************************************************************)
(* The invariant of a search.                                              *)
(***************************************************************************)
Steps == {"float", "keyword", "open", "embed", "load", "eligible", "fetch", "answered"}

\* The type invariant of a search.
SearchTyped ==
  /\ StoreTyped
  /\ offset \in Nat /\ writes \in Nat /\ step \in Steps
  /\ floated \in Seq(Memories) /\ keyword \in Seq(Memories) /\ semantic \in Seq(Memories)
  /\ answer \in Seq(Entries) /\ pages \in Seq(Seq(Entries))

\* What has been read was allowed, once each, and what floated is not ranked again.
ListsSound ==
  /\ Search!Rows(Search!Visibility) \subseteq eligibleSeen
  /\ Distinct(floated) /\ Search!Range(floated) \subseteq eligibleSeen
  /\ Distinct(keyword) /\ Search!Range(keyword) \subseteq eligibleSeen
       /\ Search!Range(keyword) \intersect Search!Range(floated) = {}
  /\ Distinct(semantic) /\ Search!Range(semantic) \intersect Search!Range(floated) = {}
  /\ pinnedThen \subseteq Search!Range(keyword)
  /\ step = "float" => query.includePinned /\ query.pinnedLimit > 0
  /\ step \in {"float", "keyword"} => keyword = <<>>
  /\ step \in {"float", "keyword", "open", "embed", "load"} => semantic = <<>>
  /\ query.mode = "keyword" => step \in {"float", "keyword", "answered"}

\* What floats over a store at rest, and the vectors in scope.
Pins == IF query.includePinned /\ query.pinnedLimit > 0 THEN Search!SearchPinned ELSE <<>>
Vectors == (Search!ListEmbeddings \intersect Search!Rows("include")) \ Search!Range(floated)

\* Over a store at rest, what has been read is what the store holds.
ListsCurrent ==
  writes = 0 =>
    /\ step # "float" => floated = Pins
    /\ pinnedThen = Search!Range(keyword) \intersect pinned
    /\ query.mode = "hybrid" /\ step \notin {"float", "keyword"} =>
         keyword = Search!SearchMemory(2 * (offset + query.topK), Search!Range(floated))
    /\ query.mode = "keyword" /\ step = "answered" =>
         keyword = Search!SearchMemory(offset + query.topK, Search!Range(floated))
    /\ step = "eligible" => Search!Range(semantic) = Search!ListEmbeddings \ Search!Range(floated)
    /\ step = "fetch" => /\ Search!Range(semantic) \subseteq Vectors
                         /\ Len(semantic) = 2 * (offset + query.topK) \/ Search!Range(semantic) = Vectors

\* The queries of the store depend on the rows and the request alone.
LEMMA StoreStill ==
  ASSUME UNCHANGED <<world, alive, pinned, query>>
  PROVE  /\ StoreTyped' = StoreTyped /\ Search!Visibility' = Search!Visibility
         /\ \A mode : Search!Rows(mode)' = Search!Rows(mode)
         /\ \A mode : SearchRows(mode)' = SearchRows(mode)
         /\ SearchOrder' = SearchOrder
         /\ Search!SearchPinned' = Search!SearchPinned /\ Pins' = Pins
         /\ \A k, W : Search!SearchMemory(k, W)' = Search!SearchMemory(k, W)
<1>1. StoreTyped' = StoreTyped /\ Search!Visibility' = Search!Visibility
  BY DEF StoreTyped, Search!Visibility
<1>2. \A mode : Search!Rows(mode)' = Search!Rows(mode)
  BY DEF Search!Rows, Search!Scope, Search!Tags
<1>3. \A mode : Search!Fts5Rows(mode)' = Search!Fts5Rows(mode)
  BY <1>2 DEF Search!Fts5Rows
<1>4. \A mode : Search!FallbackRows(mode)' = Search!FallbackRows(mode)
  BY <1>2 DEF Search!FallbackRows
<1>5. \A mode : SearchRows(mode)' = SearchRows(mode)
  BY <1>3, <1>4 DEF SearchRows
<1>6. SearchOrder' = SearchOrder /\ Search!ByScore' = Search!ByScore
  BY DEF SearchOrder, Search!ByScore, Search!Newest
<1>7. \A mode, limit : Search!RankedSearch(mode, limit)' = Search!RankedSearch(mode, limit)
  BY <1>3, <1>4, <1>6 DEF Search!RankedSearch
<1>8. Search!SearchPinned' = Search!SearchPinned
  BY <1>7 DEF Search!SearchPinned
<1>9. Pins' = Pins
  BY <1>8 DEF Pins
<1>10. \A k, W : Search!SearchMemory(k, W)' = Search!SearchMemory(k, W)
  BY <1>1, <1>7 DEF Search!SearchMemory
<1> QED BY <1>1, <1>2, <1>5, <1>6, <1>8, <1>9, <1>10

\* The parameters of a query.
LEMMA QueryTyped ==
  ASSUME Search!SearchAssumption, query \in Queries
  PROVE  query.topK \in Nat /\ query.pinnedLimit \in Nat /\ query.mode \in {"keyword", "semantic", "hybrid"}
BY DEF Search!SearchAssumption

\* The pins and a ranking that leaves them out make one stream without repeats.
LEMMA RankingStream ==
  ASSUME NEW pins \in Seq(Memories), Distinct(pins), NEW list \in Seq(Memories), Distinct(list),
         Search!Range(list) \intersect Search!Range(pins) = {}, NEW c \in Channels
  PROVE  /\ Stream(pins, Search!As(list, c)) \in Seq(Entries) /\ NoRepeat(Stream(pins, Search!As(list, c)))
         /\ Search!Ids(Stream(pins, Search!As(list, c))) = Search!Range(pins) \union Search!Range(list)
         /\ Len(Stream(pins, Search!As(list, c))) = Len(pins) + Len(list)
<1> DEFINE A == Search!As(list, c)
<1>1. A \in Seq(Entries) /\ Len(A) = Len(list) /\ Search!Ids(A) = Search!Range(list) /\ NoRepeat(A)
  BY AsFacts
<1> HIDE DEF A
<1>2. /\ Stream(pins, A) \in Seq(Entries) /\ Len(Stream(pins, A)) = Len(pins) + Len(A)
      /\ Search!Ids(Stream(pins, A)) = Search!Range(pins) \union Search!Ids(A)
      /\ Distinct(pins) /\ NoRepeat(A) /\ Search!Ids(A) \intersect Search!Range(pins) = {} => NoRepeat(Stream(pins, A))
  BY <1>1, StreamFacts
<1> QED BY <1>1, <1>2 DEF A

\* An answer cut from a stream without repeats.
LEMMA Answered ==
  ASSUME Search!SearchAssumption, SearchTyped, query' = query,
         NEW st \in Seq(Entries), NoRepeat(st), answer' = Search!Page(st), pages' = Append(pages, answer')
  PROVE  /\ answer' \in Seq(Entries) /\ pages' \in Seq(Seq(Entries))
         /\ Search!OncePerPage' /\ Search!Ids(answer') \subseteq Search!Ids(st) /\ NoRepeat(answer')
<1> DEFINE p == Search!Page(st)
<1>1. offset \in Nat /\ query.topK \in Nat
  BY QueryTyped DEF SearchTyped, StoreTyped
<1>2. p \in Seq(Entries) /\ Len(p) <= query.topK /\ Search!Ids(p) \subseteq Search!Ids(st)
        /\ (NoRepeat(st) => NoRepeat(p))
  BY <1>1, PageFacts
<1>3. answer' = p
  OBVIOUS
<1> HIDE DEF p
<1>4. Cardinality(Search!Ids(p)) = Len(p)
  BY <1>2, IdsCount
<1>5. pages' \in Seq(Seq(Entries))
  <2>1. pages \in Seq(Seq(Entries)) /\ p \in Seq(Entries) /\ pages' = Append(pages, p)
    BY <1>2, <1>3 DEF SearchTyped
  <2> QED BY <2>1, AppendProperties
<1>6. Search!OncePerPage'
  BY <1>2, <1>3, <1>4 DEF Search!OncePerPage
<1> QED BY <1>2, <1>3, <1>5, <1>6

\* What the last step fetches, what it takes for pinned, and what it fuses or shows.
Fetched == (Search!Range(semantic) \ Search!Range(keyword)) \intersect alive
Then == pinnedThen \union (Fetched \intersect pinned)
FusedIds == {m \in Search!Range(keyword) \union Fetched : Search!Allowed(m, Then)}
Hits == Search!Filter(semantic, {m \in alive : Search!Allowed(m, pinned)})

\* What the last step answers, by the mode of the search.
LEMMA FuseEffect ==
  ASSUME Search!Fuse
  PROVE  /\ step' = "answered" /\ pages' = Append(pages, answer')
         /\ \/ query.mode = "semantic" /\ answer' = Search!Page(Stream(floated, Search!As(Hits, "semantic")))
            \/ /\ query.mode # "semantic"
               /\ \E up \in BOOLEAN : answer' = Search!Page(Stream(floated, Merged(FusedIds, up, offset + query.topK)))
<1>1. CASE query.mode = "semantic"
  BY <1>1 DEF Search!Fuse, Search!Finish, Search!SemanticPage, Hits, Stream
<1>2. CASE query.mode # "semantic"
  BY <1>2 DEF Search!Fuse, Search!Finish, Fetched, Then, FusedIds, Merged, Stream
<1> QED BY <1>1, <1>2

\* The hits of a search by vectors alone.
LEMMA HitsFacts ==
  ASSUME SearchTyped, ListsSound
  PROVE  /\ Hits \in Seq(Memories) /\ Distinct(Hits)
         /\ Search!Range(Hits) = Search!Range(semantic) \intersect {m \in alive : Search!Allowed(m, pinned)}
<1>1. semantic \in Seq(Memories) /\ Distinct(semantic)
  BY DEF SearchTyped, ListsSound
<1> QED BY <1>1, FilterFacts DEF Hits

\* What is fused was ranked, and did not float.
LEMMA FusedIdsFacts ==
  ASSUME Search!SearchAssumption, SearchTyped, ListsSound
  PROVE  /\ RankingsTyped /\ IsFiniteSet(FusedIds) /\ FusedIds \subseteq Ranked /\ FusedIds \subseteq Memories
         /\ Memories \subseteq Nat /\ FusedIds \intersect Search!Range(floated) = {}
<1>1. RankingsTyped /\ Memories \subseteq Nat /\ IsFiniteSet(Memories)
  BY DEF RankingsTyped, Search!SearchAssumption, SearchTyped
<1>2. FusedIds \subseteq Ranked
  BY DEF FusedIds, Fetched, Ranked
<1>3. Search!Range(keyword) \subseteq Memories /\ Search!Range(semantic) \subseteq Memories
  BY DistinctCount DEF SearchTyped
<1>4. FusedIds \subseteq Memories
  BY <1>2, <1>3 DEF Ranked
<1>5. FusedIds \intersect Search!Range(floated) = {}
  BY <1>2 DEF ListsSound, Ranked
<1> QED BY <1>1, <1>2, <1>4, <1>5, FS_Subset

\* What the fusion reads of the rows now is what a query would find now.
LEMMA AllowedIsEligible ==
  ASSUME NEW m \in alive, Search!Allowed(m, pinned)
  PROVE  m \in Search!Rows(Search!Visibility) \/ m \in Search!Range(floated)
BY DEF Search!Allowed, Search!MayShow, Search!Rows, Search!Visibility, Search!Scope, Search!Tags

\* What is fused was allowed when it was read.
LEMMA FusedIsEligible ==
  ASSUME SearchTyped, ListsSound
  PROVE  FusedIds \subseteq eligibleSeen
<1> SUFFICES ASSUME NEW m \in FusedIds PROVE m \in eligibleSeen
  OBVIOUS
<1>1. CASE m \in Search!Range(keyword)
  BY <1>1 DEF ListsSound
<1>2. CASE m \notin Search!Range(keyword)
  <2>1. m \in Fetched /\ m \in alive /\ Search!Allowed(m, Then)
    BY <1>2 DEF FusedIds, Fetched
  <2>2. m \in Then <=> m \in pinned
    BY <1>2, <2>1 DEF Then, ListsSound
  <2>3. Search!Allowed(m, pinned)
    BY <2>1, <2>2 DEF Search!Allowed, Search!MayShow
  <2> QED BY <2>1, <2>3, AllowedIsEligible DEF ListsSound
<1> QED BY <1>1, <1>2

\* The stream a fusion is cut from.
LEMMA FuseStream ==
  ASSUME Search!SearchAssumption, SearchTyped, ListsSound, NEW up \in BOOLEAN, NEW n \in Nat
  PROVE  LET rest == Merged(FusedIds, up, n)
             st == Stream(floated, rest)
         IN  /\ rest \in Seq(Entries) /\ st \in Seq(Entries) /\ NoRepeat(st) /\ Search!Ids(st) \subseteq eligibleSeen
             /\ Len(st) = Len(floated) + Search!Lesser(n, Cardinality(FusedIds))
<1> DEFINE rest == Merged(FusedIds, up, n)
<1>1. /\ RankingsTyped /\ IsFiniteSet(FusedIds) /\ FusedIds \subseteq Ranked /\ FusedIds \subseteq Memories
      /\ Memories \subseteq Nat /\ FusedIds \intersect Search!Range(floated) = {}
  BY FusedIdsFacts
<1>2. /\ rest \in Seq(Entries) /\ NoRepeat(rest) /\ Search!Ids(rest) \subseteq FusedIds
      /\ Len(rest) = Search!Lesser(n, Cardinality(FusedIds))
  BY <1>1, MergedFacts
<1> HIDE DEF rest
<1>3. floated \in Seq(Memories) /\ Distinct(floated) /\ Search!Range(floated) \subseteq eligibleSeen
  BY DEF SearchTyped, ListsSound
<1>4. /\ Stream(floated, rest) \in Seq(Entries) /\ Len(Stream(floated, rest)) = Len(floated) + Len(rest)
      /\ Search!Ids(Stream(floated, rest)) = Search!Range(floated) \union Search!Ids(rest)
      /\ Distinct(floated) /\ NoRepeat(rest) /\ Search!Ids(rest) \intersect Search!Range(floated) = {}
           => NoRepeat(Stream(floated, rest))
  BY <1>2, <1>3, StreamFacts
<1>5. Search!Ids(rest) \intersect Search!Range(floated) = {}
  BY <1>1, <1>2
<1>6. Search!Ids(Stream(floated, rest)) \subseteq eligibleSeen
  BY <1>2, <1>3, <1>4, FusedIsEligible
<1> QED BY <1>2, <1>3, <1>4, <1>5, <1>6 DEF rest

(***************************************************************************)
(* The steps keep what has been read sound and current.                    *)
(***************************************************************************)
Lists == SearchTyped /\ ListsSound /\ ListsCurrent /\ Search!OncePerPage

\* A page that is left alone stays sound.
LEMMA OnceStill ==
  ASSUME Search!OncePerPage, UNCHANGED <<answer, query>>
  PROVE  Search!OncePerPage'
BY DEF Search!OncePerPage, Search!Ids

\* A request begins with the float, the keyword ranking or the vectors.
LEMMA FirstStepFacts ==
  /\ Search!FirstStep \in {"float", "open", "keyword"}
  /\ Search!FirstStep = "float" => query.includePinned /\ query.pinnedLimit > 0
  /\ Search!FirstStep # "float" => Pins = <<>>
  /\ Search!FirstStep = "open" => query.mode = "semantic"
BY DEF Search!FirstStep, Pins

\* The empty list.
LEMMA EmptyList ==
  /\ \A X : <<>> \in Seq(X)
  /\ Distinct(<<>>) /\ Search!Range(<<>>) = {} /\ Len(<<>>) = 0 /\ NoRepeat(<<>>) /\ Search!Ids(<<>>) = {}
<1>1. \A X : <<>> \in Seq(X)
  BY EmptySeq
<1>2. Len(<<>>) = 0 /\ DOMAIN <<>> = {}
  BY EmptySeq
<1> QED BY <1>1, <1>2 DEF Distinct, Search!Range, NoRepeat, Search!Ids

\* A request begins with nothing read.
LEMMA InitLists ==
  ASSUME Search!SearchAssumption, Search!Init
  PROVE  Lists
<1>1. StoreTyped
  BY DEF Search!Init, StoreTyped
<1>2. SearchTyped
  BY <1>1, EmptyList, FirstStepFacts DEF Search!Init, SearchTyped, Steps
<1>3. ListsSound
  BY EmptyList, FirstStepFacts DEF Search!Init, ListsSound
<1>4. ListsCurrent
  BY EmptyList, FirstStepFacts DEF Search!Init, ListsCurrent
<1>5. Search!OncePerPage
  <2>1. answer = <<>> /\ query.topK \in Nat
    BY <1>1, QueryTyped DEF Search!Init, StoreTyped
  <2> QED BY <2>1, EmptyList, FS_EmptySet DEF Search!OncePerPage
<1> QED BY <1>2, <1>3, <1>4, <1>5 DEF Lists

\* The pins shown are rows the query allows.
LEMMA PinsEligible ==
  ASSUME query.includePinned
  PROVE  Search!Rows("only") \subseteq Search!Rows(Search!Visibility)
BY DEF Search!Rows, Search!Visibility, Search!Scope

\* search_pinned reads pins the query allows.
LEMMA FloatStep ==
  ASSUME Search!SearchAssumption, Lists, Search!Float
  PROVE  Lists'
<1> USE DEF Lists
<1>1. UNCHANGED <<world, alive, pinned, query>>
  BY DEF Search!Float, Search!store
<1>2. StoreTyped /\ query.includePinned /\ query.pinnedLimit > 0 /\ keyword = <<>> /\ semantic = <<>>
  BY DEF SearchTyped, ListsSound, Search!Float
<1>3. /\ floated' = Search!SearchPinned /\ Search!SearchPinned \in Seq(Memories) /\ Distinct(Search!SearchPinned)
      /\ Search!Range(Search!SearchPinned) \subseteq Search!Rows("only")
  BY <1>2, SearchPinnedFacts DEF Search!Float
<1>4. SearchTyped'
  BY <1>1, <1>2, <1>3, StoreStill DEF SearchTyped, Search!Float, Steps, Search!bounds
<1>5. Search!Range(Search!SearchPinned) \subseteq Search!Rows(Search!Visibility)
  BY <1>2, <1>3, PinsEligible
<1>6. UNCHANGED <<eligibleSeen, keyword, semantic, pinnedThen, offset, writes>>
  BY DEF Search!Float, Search!bounds
<1>7. Search!Rows(Search!Visibility)' = Search!Rows(Search!Visibility)
  BY <1>1, StoreStill
<1>8. step' \in {"open", "keyword"} /\ (step' = "open" <=> query.mode = "semantic")
  BY DEF Search!Float
<1>9. ListsSound'
  BY <1>1, <1>2, <1>3, <1>5, <1>6, <1>7, <1>8, EmptyList DEF ListsSound
<1>10. ListsCurrent'
  <2> SUFFICES ASSUME writes = 0 PROVE ListsCurrent'
    BY <1>6 DEF ListsCurrent
  <2>1. Pins' = Pins /\ Pins = Search!SearchPinned
    BY <1>1, <1>2, StoreStill DEF Pins
  <2> QED BY <1>1, <1>3, <1>6, <1>8, <2>1 DEF ListsCurrent
<1>11. Search!OncePerPage'
  BY <1>1, OnceStill DEF Search!Float
<1> QED BY <1>4, <1>9, <1>10, <1>11

\* search_memory reads rows the query allows and leaves out what floated.
LEMMA KeywordStep ==
  ASSUME Search!SearchAssumption, Lists, Search!Keyword
  PROVE  Lists'
<1> USE DEF Lists
<1> DEFINE k == offset + query.topK
           n == IF query.mode = "keyword" THEN k ELSE 2 * k
           hits == Search!SearchMemory(n, Search!Range(floated))
<1>1. UNCHANGED <<world, alive, pinned, query, observed, offset, floated, semantic, eligibleSeen, writes>>
  BY DEF Search!Keyword, Search!store, Search!bounds
<1>2. /\ StoreTyped /\ semantic = <<>> /\ floated \in Seq(Memories) /\ Distinct(floated)
      /\ offset \in Nat /\ query.topK \in Nat /\ Search!Range(floated) \subseteq eligibleSeen
      /\ Search!Rows(Search!Visibility) \subseteq eligibleSeen
  BY QueryTyped DEF SearchTyped, StoreTyped, ListsSound, Search!Keyword
<1>3. n \in Nat /\ IsFiniteSet(Search!Range(floated))
  BY <1>2, DistinctCount
<1>4. keyword' = hits /\ pinnedThen' = Search!Range(keyword') \intersect pinned
  BY DEF Search!Keyword, Search!Excluded
<1> HIDE DEF n
<1>5. hits \in Seq(Memories) /\ Distinct(hits) /\ Search!Range(hits)
        \subseteq SearchRows(Search!Visibility) \ Search!Range(floated)
  BY <1>2, <1>3, SearchMemoryFacts
<1>6. SearchRows(Search!Visibility) \subseteq Search!Rows(Search!Visibility)
  BY <1>2, SearchRowsFacts
<1>7. step' = (IF query.mode = "keyword" THEN "answered" ELSE "open")
  BY DEF Search!Keyword, Search!Finish
<1>8. hits \in Seq(Memories) /\ Distinct(hits) /\ Search!Range(hits) \subseteq eligibleSeen
        /\ Search!Range(hits) \intersect Search!Range(floated) = {}
  BY <1>2, <1>5, <1>6
<1>9. ListsCurrent'
  <2> SUFFICES ASSUME writes = 0 PROVE ListsCurrent'
    BY <1>1 DEF ListsCurrent
  <2>1. floated' = Pins'
    BY <1>1, StoreStill DEF ListsCurrent, Search!Keyword
  <2>2. \A j, W : Search!SearchMemory(j, W)' = Search!SearchMemory(j, W)
    BY <1>1, StoreStill
  <2>3. query.mode = "keyword" => keyword' = Search!SearchMemory(k, Search!Range(floated))
    BY <1>4 DEF n
  <2>4. query.mode = "hybrid" => keyword' = Search!SearchMemory(2 * k, Search!Range(floated))
    BY <1>4 DEF n
  <2>5. Search!SearchMemory(k, Search!Range(floated))' = Search!SearchMemory(k, Search!Range(floated))
    BY <1>1, <2>2
  <2>6. Search!SearchMemory(2 * k, Search!Range(floated))' = Search!SearchMemory(2 * k, Search!Range(floated))
    BY <1>1, <2>2
  <2>7. step' \in {"answered", "open"}
    BY <1>7
  <2> HIDE DEF hits
  <2> QED BY <1>1, <1>4, <2>1, <2>3, <2>4, <2>5, <2>6, <2>7 DEF ListsCurrent
<1> HIDE DEF hits
<1>10. ListsSound'
  <2>1. Search!Rows(Search!Visibility)' = Search!Rows(Search!Visibility)
    BY <1>1, StoreStill
  <2>2. step' \in {"answered", "open"} /\ (query.mode = "keyword" => step' = "answered")
    BY <1>7
  <2> QED BY <1>1, <1>2, <1>4, <1>8, <2>1, <2>2, EmptyList DEF ListsSound
<1>11. CASE query.mode = "keyword"
  <2> DEFINE st == Stream(floated, Search!As(hits, "keyword"))
  <2>1. st \in Seq(Entries) /\ NoRepeat(st)
    BY <1>2, <1>8, RankingStream DEF Channels
  <2>2. answer' = Search!Page(st) /\ pages' = Append(pages, answer')
    BY <1>4, <1>11 DEF Search!Keyword, Search!Finish, Stream, Search!Excluded, hits, n
  <2> HIDE DEF st
  <2>3. answer' \in Seq(Entries) /\ pages' \in Seq(Seq(Entries)) /\ Search!OncePerPage'
    BY <1>1, <2>1, <2>2, Answered
  <2>4. SearchTyped'
    BY <1>1, <1>4, <1>7, <1>8, <1>11, <2>3, StoreStill DEF SearchTyped, Steps
  <2> QED BY <1>9, <1>10, <2>3, <2>4
<1>12. CASE query.mode # "keyword"
  <2>1. UNCHANGED <<answer, pages>>
    BY <1>12 DEF Search!Keyword
  <2>2. SearchTyped'
    BY <1>1, <1>4, <1>7, <1>8, <1>12, <2>1, StoreStill DEF SearchTyped, Steps
  <2>3. Search!OncePerPage'
    BY <1>1, <2>1, OnceStill
  <2> QED BY <1>9, <1>10, <2>2, <2>3
<1> QED BY <1>11, <1>12

\* A step that reads nothing from the store, and what it leaves of the lists.
LEMMA QuietStep ==
  ASSUME Search!SearchAssumption, Lists,
         UNCHANGED <<world, alive, pinned, query, offset, floated, keyword, pinnedThen, eligibleSeen, writes>>,
         semantic = <<>>, UNCHANGED semantic, step \in {"open", "embed"}, step' \in {"embed", "load", "answered"},
         answer' \in Seq(Entries), pages' \in Seq(Seq(Entries)), Search!OncePerPage'
  PROVE  Lists'
<1> USE DEF Lists
<1>1. SearchTyped'
  BY StoreStill DEF SearchTyped, Steps
<1>2. ListsSound'
  <2>1. Search!Rows(Search!Visibility)' = Search!Rows(Search!Visibility)
    BY StoreStill
  <2>2. query.mode # "keyword"
    BY DEF ListsSound
  <2> QED BY <2>1, <2>2 DEF ListsSound
<1>3. ListsCurrent'
  <2> SUFFICES ASSUME writes = 0 PROVE ListsCurrent'
    BY DEF ListsCurrent
  <2> DEFINE k == 2 * (offset + query.topK)
  <2>1. Pins' = Pins
    BY StoreStill
  <2>2. Search!SearchMemory(k, Search!Range(floated))' = Search!SearchMemory(k, Search!Range(floated))
    BY StoreStill
  <2>3. query.mode # "keyword"
    BY DEF ListsSound
  <2> QED BY <2>1, <2>2, <2>3 DEF ListsCurrent
<1> QED BY <1>1, <1>2, <1>3

\* Taking the snapshot of the revision reads no rows.
LEMMA OpenStep ==
  ASSUME Search!SearchAssumption, Lists, Search!Open
  PROVE  Lists'
<1>1. UNCHANGED <<world, alive, pinned, query, offset, floated, keyword, pinnedThen, eligibleSeen, writes,
        semantic, answer, pages>>
  BY DEF Search!Open, Search!store, Search!read, Search!bounds
<1>2. step = "open" /\ step' = "embed" /\ semantic = <<>>
  BY DEF Search!Open, Lists, ListsSound
<1>3. answer' \in Seq(Entries) /\ pages' \in Seq(Seq(Entries)) /\ Search!OncePerPage'
  BY <1>1, OnceStill DEF Lists, SearchTyped
<1> QED BY <1>1, <1>2, <1>3, QuietStep

\* A request that gives up answers with the keyword ranking, or with an error.
LEMMA GiveUpAnswer ==
  ASSUME Search!SearchAssumption, Lists, query' = query, Search!GiveUp
  PROVE  /\ answer' \in Seq(Entries) /\ pages' \in Seq(Seq(Entries)) /\ Search!OncePerPage'
              /\ step' = "answered" /\ degraded'
         /\ query.mode = "semantic" => answer' = <<>>
         /\ query.mode # "semantic" => answer' = Search!Page(Stream(floated, Search!As(keyword, "keyword")))
<1> USE DEF Lists
<1>1. step' = "answered" /\ degraded' /\ pages' = Append(pages, answer')
  BY DEF Search!GiveUp, Search!Finish
<1>2. CASE query.mode = "semantic"
  <2>1. answer' = <<>>
    BY <1>2 DEF Search!GiveUp, Search!Finish
  <2>2. answer' = Search!Page(<<>>)
    <3>1. offset \in Nat
      BY DEF SearchTyped
    <3> QED BY <2>1, <3>1, EmptyList DEF Search!Page
  <2>3. answer' \in Seq(Entries) /\ pages' \in Seq(Seq(Entries)) /\ Search!OncePerPage'
    BY <1>1, <2>2, EmptyList, Answered
  <2> QED BY <1>1, <1>2, <2>1, <2>3
<1>3. CASE query.mode # "semantic"
  <2> DEFINE st == Stream(floated, Search!As(keyword, "keyword"))
  <2>1. answer' = Search!Page(st)
    BY <1>3 DEF Search!GiveUp, Search!Finish, Stream
  <2>2. st \in Seq(Entries) /\ NoRepeat(st)
    <3>1. /\ floated \in Seq(Memories) /\ Distinct(floated) /\ keyword \in Seq(Memories) /\ Distinct(keyword)
          /\ Search!Range(keyword) \intersect Search!Range(floated) = {} /\ "keyword" \in Channels
      BY DEF SearchTyped, ListsSound, Channels
    <3> QED BY <3>1, RankingStream
  <2> HIDE DEF st
  <2>3. answer' \in Seq(Entries) /\ pages' \in Seq(Seq(Entries)) /\ Search!OncePerPage'
    BY <1>1, <2>1, <2>2, Answered
  <2> QED BY <1>1, <1>3, <2>1, <2>3 DEF st
<1> QED BY <1>2, <1>3

\* What the answer of the provider, or its failure, leads to.
LEMMA EmbedEffect ==
  ASSUME Search!Embed \/ Search!EmbedFails
  PROVE  /\ UNCHANGED <<world, alive, pinned, query, offset, floated, keyword, pinnedThen, eligibleSeen,
              writes, semantic>>
         /\ step = "embed"
         /\ \/ Search!GiveUp
            \/ step' \in {"embed", "load"} /\ UNCHANGED <<answer, pages>>
<1>1. CASE Search!Embed
  BY <1>1 DEF Search!Embed, Search!store, Search!read, Search!bounds
<1>2. CASE Search!EmbedFails
  BY <1>2 DEF Search!EmbedFails, Search!store, Search!read
<1> QED BY <1>1, <1>2

\* The answer of the provider changes none of the lists.
LEMMA EmbedStep ==
  ASSUME Search!SearchAssumption, Lists, Search!Embed \/ Search!EmbedFails
  PROVE  Lists'
<1>1. /\ UNCHANGED <<world, alive, pinned, query, offset, floated, keyword, pinnedThen, eligibleSeen, writes, semantic>>
      /\ step = "embed"
  BY EmbedEffect
<1>2. semantic = <<>>
  BY <1>1 DEF Lists, ListsSound
<1>3. CASE Search!GiveUp
  <2>1. answer' \in Seq(Entries) /\ pages' \in Seq(Seq(Entries)) /\ Search!OncePerPage' /\ step' = "answered"
    BY <1>1, <1>3, GiveUpAnswer
  <2> QED BY <1>1, <1>2, <2>1, QuietStep
<1>4. CASE step' \in {"embed", "load"} /\ UNCHANGED <<answer, pages>>
  <2>1. answer' \in Seq(Entries) /\ pages' \in Seq(Seq(Entries)) /\ Search!OncePerPage'
    BY <1>1, <1>4, OnceStill DEF Lists, SearchTyped
  <2> QED BY <1>1, <1>2, <1>4, <2>1, QuietStep
<1> QED BY <1>3, <1>4, EmbedEffect

\* A step that only changes the vectors' ranking.
LEMMA VectorStep ==
  ASSUME Search!SearchAssumption, Lists,
         UNCHANGED <<world, alive, pinned, query, offset, floated, keyword, pinnedThen, eligibleSeen, writes,
                     matched, snapshot, answer, pages>>,
         semantic' \in Seq(Memories), Distinct(semantic'),
           Search!Range(semantic') \intersect Search!Range(floated) = {},
         \/ step = "load" /\ step' = "eligible" /\ Search!Range(semantic')
              = Search!ListEmbeddings \ Search!Range(floated)
         \/ /\ step = "eligible" /\ step' = "fetch"
            /\ writes = 0 => /\ Search!Range(semantic') \subseteq Vectors
                             /\ Len(semantic') = 2 * (offset + query.topK) \/ Search!Range(semantic') = Vectors
  PROVE  Lists'
<1> USE DEF Lists
<1>1. SearchTyped'
  BY StoreStill DEF SearchTyped, Steps
<1>2. query.mode # "keyword"
  BY DEF ListsSound
<1>3. ListsSound'
  <2>1. Search!Rows(Search!Visibility)' = Search!Rows(Search!Visibility)
    BY StoreStill
  <2> QED BY <1>2, <2>1 DEF ListsSound
<1>4. ListsCurrent'
  <2> SUFFICES ASSUME writes = 0 PROVE ListsCurrent'
    BY DEF ListsCurrent
  <2> DEFINE k == 2 * (offset + query.topK)
  <2>1. Pins' = Pins /\ Search!Rows("include")' = Search!Rows("include")
    BY StoreStill
  <2>2. Search!SearchMemory(k, Search!Range(floated))' = Search!SearchMemory(k, Search!Range(floated))
    BY StoreStill
  <2>3. Search!ListEmbeddings' = Search!ListEmbeddings
    BY DEF Search!ListEmbeddings
  <2>4. Vectors' = Vectors
    BY <2>1, <2>3 DEF Vectors
  <2> QED BY <1>2, <2>1, <2>2, <2>3, <2>4 DEF ListsCurrent
<1>5. Search!OncePerPage'
  BY OnceStill
<1> QED BY <1>1, <1>3, <1>4, <1>5

\* The vectors are ranked without what floated.
LEMMA LoadStep ==
  ASSUME Search!SearchAssumption, Lists, Search!Load
  PROVE  Lists'
<1> DEFINE S == Search!ListEmbeddings \ Search!Range(floated)
<1>1. /\ UNCHANGED <<world, alive, pinned, query, offset, floated, keyword, pinnedThen, eligibleSeen, writes,
                     matched, snapshot, answer, pages>>
      /\ step = "load" /\ step' = "eligible" /\ semantic' = Search!Listed(S, Search!BySimilarity)
  BY DEF Search!Load, Search!store, Search!revision, Search!bounds, Search!Excluded
<1>2. S \subseteq Memories /\ Search!Range(floated) \intersect S = {} /\ world \in Worlds /\ IsFiniteSet(Memories)
  BY DEF Search!ListEmbeddings, Lists, SearchTyped, StoreTyped, Search!SearchAssumption
<1>3. S = Search!ListEmbeddings \ Search!Range(floated)
  OBVIOUS
<1> HIDE DEF S
<1>4. IsFiniteSet(S) /\ Lines(S, Search!BySimilarity)
  BY <1>2, FS_Subset, BySimilarityLines, LinesOfSubset
<1> DEFINE s == Search!Listed(S, Search!BySimilarity)
<1>5. Cardinality(S) \in Nat /\ s \in Seq(S) /\ DOMAIN s = 1 .. Cardinality(S)
  BY <1>4, ListedFacts
<1>6. /\ \A k \in 1 .. Cardinality(S) : s[k] \in S
      /\ \A m \in S : \E k \in 1 .. Cardinality(S) : s[k] = m
      /\ \A i, j \in 1 .. Cardinality(S) : s[i] = s[j] => i = j
  BY <1>4, ListedFacts
<1>7. semantic' = s
  BY <1>1
<1> HIDE DEF s
<1>8. Distinct(s) /\ Search!Range(s) = S
  BY <1>5, <1>6 DEF Distinct, Search!Range
<1>9. s \in Seq(Memories)
  BY <1>2, <1>5
<1> QED BY <1>1, <1>2, <1>3, <1>7, <1>8, <1>9, VectorStep

\* The window holds what is in scope, as much as the fusion asks for.
LEMMA NarrowStep ==
  ASSUME Search!SearchAssumption, Lists, Search!Narrow
  PROVE  Lists'
<1> DEFINE n == 2 * (offset + query.topK)
           all == query.project = AnyProject /\ ~ query.tags
           L == IF all THEN semantic ELSE Search!Filter(semantic, Search!Rows("include"))
<1>1. /\ UNCHANGED <<world, alive, pinned, query, offset, floated, keyword, pinnedThen, eligibleSeen, writes,
                     matched, snapshot, answer, pages>>
      /\ step = "eligible" /\ step' = "fetch" /\ semantic' = Search!First(L, n)
  BY DEF Search!Narrow, Search!Window, Search!store, Search!revision, Search!bounds
<1>2. /\ semantic \in Seq(Memories) /\ Distinct(semantic)
           /\ Search!Range(semantic) \intersect Search!Range(floated) = {}
      /\ writes = 0 => Search!Range(semantic) = Search!ListEmbeddings \ Search!Range(floated)
  BY <1>1 DEF Lists, SearchTyped, ListsSound, ListsCurrent
<1>3. n \in Nat
  BY QueryTyped DEF Lists, SearchTyped, StoreTyped
<1>4. L \in Seq(Memories) /\ Distinct(L) /\ Search!Range(L) \subseteq Search!Range(semantic)
      /\ (writes = 0 => Search!Range(L) = Vectors)
  <2>1. CASE all
    <3>1. Search!Rows("include") = alive
      BY <2>1 DEF Search!Rows, Search!Scope, Search!Tags
    <3>2. writes = 0 => Search!Range(semantic) = Vectors
      BY <1>2, <3>1 DEF Vectors, Search!ListEmbeddings
    <3> QED BY <1>2, <2>1, <3>2
  <2>2. CASE ~ all
    <3>1. /\ Search!Filter(semantic, Search!Rows("include")) \in Seq(Memories)
               /\ Distinct(Search!Filter(semantic, Search!Rows("include")))
          /\ Search!Range(Search!Filter(semantic, Search!Rows("include")))
               = Search!Range(semantic) \intersect Search!Rows("include")
      BY <1>2, FilterFacts
    <3>2. L = Search!Filter(semantic, Search!Rows("include"))
      BY <2>2
    <3>3. writes = 0 => Search!Range(semantic) \intersect Search!Rows("include") = Vectors
      BY <1>2 DEF Vectors
    <3> HIDE DEF L
    <3> QED BY <3>1, <3>2, <3>3
  <2> QED BY <2>1, <2>2
<1> HIDE DEF L
<1>5. /\ Search!First(L, n) \in Seq(Memories) /\ Search!Range(Search!First(L, n)) \subseteq Search!Range(L)
           /\ Distinct(Search!First(L, n))
      /\ Len(L) <= n => Search!First(L, n) = L
  BY <1>3, <1>4, FirstFacts
<1>6. Len(Search!First(L, n)) = n \/ Search!First(L, n) = L
  <2>1. Len(L) \in Nat
    BY <1>4, LenProperties
  <2>2. Len(Search!First(L, n)) = Search!Lesser(n, Len(L))
    BY <1>3, <1>4, FirstFacts
  <2> QED BY <1>3, <1>5, <2>1, <2>2 DEF Search!Lesser
<1> QED BY <1>1, <1>2, <1>4, <1>5, <1>6, VectorStep

\* The stream of a search by vectors alone.
LEMMA HitsStream ==
  ASSUME SearchTyped, ListsSound
  PROVE  /\ Search!As(Hits, "semantic") \in Seq(Entries) /\ NoRepeat(Search!As(Hits, "semantic"))
         /\ Search!Ids(Search!As(Hits, "semantic")) = Search!Range(Hits) /\ Len(Search!As(Hits, "semantic")) = Len(Hits)
         /\ Search!Range(Hits) \intersect Search!Range(floated) = {} /\ Search!Range(Hits) \subseteq eligibleSeen
         /\ Stream(floated, Search!As(Hits, "semantic")) \in Seq(Entries)
         /\ NoRepeat(Stream(floated, Search!As(Hits, "semantic")))
<1>1. /\ Hits \in Seq(Memories) /\ Distinct(Hits)
      /\ Search!Range(Hits) = Search!Range(semantic) \intersect {m \in alive : Search!Allowed(m, pinned)}
  BY HitsFacts
<1>2. Search!Range(Hits) \intersect Search!Range(floated) = {}
  BY <1>1 DEF ListsSound
<1>3. Search!Range(Hits) \subseteq eligibleSeen
  BY <1>1, AllowedIsEligible DEF ListsSound
<1>4. floated \in Seq(Memories) /\ Distinct(floated) /\ "semantic" \in Channels
  BY DEF SearchTyped, ListsSound, Channels
<1>5. /\ Search!As(Hits, "semantic") \in Seq(Entries) /\ NoRepeat(Search!As(Hits, "semantic"))
      /\ Search!Ids(Search!As(Hits, "semantic")) = Search!Range(Hits) /\ Len(Search!As(Hits, "semantic")) = Len(Hits)
  BY <1>1, <1>4, AsFacts
<1>6. Stream(floated, Search!As(Hits, "semantic")) \in Seq(Entries)
        /\ NoRepeat(Stream(floated, Search!As(Hits, "semantic")))
  BY <1>1, <1>2, <1>4, RankingStream
<1> QED BY <1>2, <1>3, <1>5, <1>6

\* The last step answers and leaves the lists as they are.
LEMMA FuseStep ==
  ASSUME Search!SearchAssumption, Lists, Search!Fuse
  PROVE  Lists'
<1> USE DEF Lists
<1>1. /\ UNCHANGED <<world, alive, pinned, query, offset, floated, keyword, semantic, pinnedThen, eligibleSeen, writes>>
      /\ step = "fetch" /\ step' = "answered" /\ pages' = Append(pages, answer')
  BY FuseEffect DEF Search!Fuse, Search!store, Search!read, Search!bounds
<1>2. offset + query.topK \in Nat
  BY QueryTyped DEF SearchTyped, StoreTyped
<1>3. PICK st \in Seq(Entries) : NoRepeat(st) /\ answer' = Search!Page(st)
  <2>1. CASE query.mode = "semantic"
    BY <2>1, FuseEffect, HitsStream
  <2>2. CASE query.mode # "semantic"
    <3>1. PICK up \in BOOLEAN : answer' = Search!Page(Stream(floated, Merged(FusedIds, up, offset + query.topK)))
      BY <2>2, FuseEffect
    <3>2. /\ Stream(floated, Merged(FusedIds, up, offset + query.topK)) \in Seq(Entries)
          /\ NoRepeat(Stream(floated, Merged(FusedIds, up, offset + query.topK)))
      BY <1>2, FuseStream
    <3> QED BY <3>1, <3>2
  <2> QED BY <2>1, <2>2
<1>4. answer' \in Seq(Entries) /\ pages' \in Seq(Seq(Entries)) /\ Search!OncePerPage'
  BY <1>1, <1>3, Answered
<1>5. SearchTyped'
  BY <1>1, <1>4, StoreStill DEF SearchTyped, Steps
<1>6. ListsSound'
  <2>1. Search!Rows(Search!Visibility)' = Search!Rows(Search!Visibility)
    BY <1>1, StoreStill
  <2> QED BY <1>1, <2>1 DEF ListsSound
<1>7. ListsCurrent'
  <2> SUFFICES ASSUME writes = 0 PROVE ListsCurrent'
    BY <1>1 DEF ListsCurrent
  <2> DEFINE k == 2 * (offset + query.topK)
  <2>1. Pins' = Pins
    BY <1>1, StoreStill
  <2>2. Search!SearchMemory(k, Search!Range(floated))' = Search!SearchMemory(k, Search!Range(floated))
    BY <1>1, StoreStill
  <2>3. query.mode # "keyword"
    BY <1>1 DEF ListsSound
  <2> QED BY <1>1, <2>1, <2>2, <2>3 DEF ListsCurrent
<1> QED BY <1>4, <1>5, <1>6, <1>7

\* The next page begins with nothing read.
LEMMA NextPageStep ==
  ASSUME Search!SearchAssumption, Lists, Search!NextPage
  PROVE  Lists'
<1> USE DEF Lists
<1>1. /\ UNCHANGED <<world, alive, pinned, query, answer, pages, writes>>
      /\ floated' = <<>> /\ keyword' = <<>> /\ semantic' = <<>> /\ pinnedThen' = {}
      /\ offset' = offset + query.topK /\ eligibleSeen' = Search!Rows(Search!Visibility) /\ step' = Search!FirstStep
  BY DEF Search!NextPage, Search!store, Search!bounds
<1>2. query.topK \in Nat
  BY QueryTyped DEF SearchTyped, StoreTyped
<1>3. SearchTyped'
  BY <1>1, <1>2, EmptyList, FirstStepFacts, StoreStill DEF SearchTyped, Steps
<1>4. ListsSound'
  <2>1. Search!Rows(Search!Visibility)' = Search!Rows(Search!Visibility)
    BY <1>1, StoreStill
  <2> QED BY <1>1, <2>1, EmptyList, FirstStepFacts DEF ListsSound
<1>5. ListsCurrent'
  <2>1. Pins' = Pins
    BY <1>1, StoreStill
  <2> QED BY <1>1, <2>1, EmptyList, FirstStepFacts DEF ListsCurrent
<1>6. Search!OncePerPage'
  BY <1>1, OnceStill
<1> QED BY <1>3, <1>4, <1>5, <1>6

\* A write may make rows eligible, never the lists unsound.
LEMMA WriteStep ==
  ASSUME Search!SearchAssumption, Lists, Search!Write
  PROVE  Lists'
<1> USE DEF Lists
<1>1. /\ UNCHANGED <<world, query, offset, step, floated, keyword, semantic, pinnedThen, answer, pages>>
      /\ writes' = writes + 1 /\ eligibleSeen' = eligibleSeen \union Search!Rows(Search!Visibility)'
  BY DEF Search!Write, Search!read
<1>2. alive' \subseteq Memories /\ pinned' \subseteq alive'
  BY DEF Search!Write, SearchTyped, StoreTyped
<1>3. SearchTyped'
  BY <1>1, <1>2 DEF SearchTyped, StoreTyped
<1>4. ListsSound'
  BY <1>1 DEF ListsSound
<1>5. ListsCurrent'
  BY <1>1 DEF ListsCurrent, SearchTyped
<1>6. Search!OncePerPage'
  BY <1>1, OnceStill
<1> QED BY <1>3, <1>4, <1>5, <1>6

\* A probe, or a step of someone who does not search.
LEMMA IdleStep ==
  ASSUME Search!SearchAssumption, Lists, Search!Probe \/ UNCHANGED Search!vars
  PROVE  Lists'
<1> USE DEF Lists
<1>1. UNCHANGED <<world, alive, pinned, query, offset, step, floated, keyword, semantic, pinnedThen, matched, snapshot,
                  answer, pages, eligibleSeen, writes>>
  BY DEF Search!Probe, Search!vars, Search!store, Search!read, Search!revision, Search!bounds
<1>2. SearchTyped'
  BY <1>1, StoreStill DEF SearchTyped
<1>3. ListsSound'
  <2>1. Search!Rows(Search!Visibility)' = Search!Rows(Search!Visibility)
    BY <1>1, StoreStill
  <2> QED BY <1>1, <2>1 DEF ListsSound
<1>4. ListsCurrent'
  <2> SUFFICES ASSUME writes = 0 PROVE ListsCurrent'
    BY <1>1 DEF ListsCurrent
  <2> DEFINE k == offset + query.topK
  <2>1. Pins' = Pins /\ Search!Rows("include")' = Search!Rows("include")
    BY <1>1, StoreStill
  <2>2. /\ Search!SearchMemory(k, Search!Range(floated))' = Search!SearchMemory(k, Search!Range(floated))
        /\ Search!SearchMemory(2 * k, Search!Range(floated))' = Search!SearchMemory(2 * k, Search!Range(floated))
    BY <1>1, StoreStill
  <2>3. Search!ListEmbeddings' = Search!ListEmbeddings
    BY <1>1 DEF Search!ListEmbeddings
  <2>4. Vectors' = Vectors
    BY <1>1, <2>1, <2>3 DEF Vectors
  <2> QED BY <1>1, <2>1, <2>2, <2>3, <2>4 DEF ListsCurrent
<1>5. Search!OncePerPage'
  BY <1>1, OnceStill
<1> QED BY <1>2, <1>3, <1>4, <1>5

\* Every step keeps the lists sound and, over a store at rest, current.
LEMMA StepLists ==
  ASSUME Search!SearchAssumption, Lists, [Search!Next]_Search!vars
  PROVE  Lists'
BY FloatStep, KeywordStep, OpenStep, EmbedStep, LoadStep, NarrowStep, FuseStep, NextPageStep, WriteStep,
   IdleStep DEF Search!Next

(***************************************************************************)
(* The answer, as the request left it.                                     *)
(***************************************************************************)
Cut(stream, from, n) == IF from >= Len(stream) THEN <<>>
                        ELSE SubSeq(stream, from + 1, Search!Lesser(from + n, Len(stream)))

\* A page by its bounds.
LEMMA PageIsCut == ASSUME NEW st PROVE Search!Page(st) = Cut(st, offset, query.topK)
BY DEF Search!Page, Cut

\* What the search can find.
Findable == {m \in Search!Rows(Search!Visibility) : Search!Found(m)}

\* Of a ranking in which neither channel objects.
InAgreement(rest, a, b) ==
  \A i, j \in 1 .. Len(rest) :
    LET m == rest[i].m
        n == rest[j].m
    IN  /\ Search!NotAfter(a, m, n) /\ Search!NotAfter(b, m, n)
        /\ Search!Before(a, m, n) \/ Search!Before(b, m, n)
        => i < j

Unpinned(rest) == \A i \in 1 .. Len(rest) : rest[i].channel # "pinned"

\* The rest of the stream, behind what floated.
RestSound(rest) ==
  /\ NoRepeat(rest) /\ Search!Ids(rest) \intersect Search!Range(floated) = {} /\ Search!Ids(rest) \subseteq eligibleSeen
  /\ writes = 0 /\ ~ degraded /\ (query.mode = "keyword" \/ query.includePinned) =>
       Len(rest) >= query.topK \/ Findable \subseteq Search!Ids(rest) \union Search!Range(floated)
  /\ query.mode = "keyword" \/ (query.mode = "hybrid" /\ degraded) => rest = Search!As(keyword, "keyword")
  /\ query.mode = "hybrid" /\ ~ degraded => Unpinned(rest) /\ InAgreement(rest, keyword, semantic)

AnswerCut ==
  step = "answered" =>
    \/ query.mode = "semantic" /\ degraded /\ answer = <<>>
    \/ \E rest \in Seq(Entries) :
         RestSound(rest) /\ answer = Cut(Stream(floated, rest), offset, query.topK)

\* What can be found depends on the rows, the request and its space alone.
LEMMA FindableStill ==
  ASSUME UNCHANGED <<world, alive, pinned, query, matched, snapshot>>
  PROVE  Findable' = Findable
<1>1. Search!Rows(Search!Visibility)' = Search!Rows(Search!Visibility)
        /\ (\A mode : Search!Rows(mode)' = Search!Rows(mode)) /\ Search!Visibility' = Search!Visibility
  BY StoreStill
<1>2. \A m : Search!Found(m)' <=> Search!Found(m)
  BY <1>1 DEF Search!Found
<1> QED BY <1>1, <1>2 DEF Findable

\* So does what is known of the rest of the stream.
LEMMA RestStill ==
  ASSUME NEW rest, UNCHANGED <<world, alive, pinned, query, matched, snapshot, floated, keyword, semantic,
                               eligibleSeen, writes, degraded>>
  PROVE  RestSound(rest)' <=> RestSound(rest)
BY FindableStill DEF RestSound

\* An answer nobody touches stays what it is.
LEMMA AnswerStill ==
  ASSUME AnswerCut, UNCHANGED Search!vars
  PROVE  AnswerCut'
<1>1. UNCHANGED <<world, alive, pinned, query, offset, step, matched, snapshot, floated, keyword, semantic,
                  eligibleSeen, writes, degraded, answer>>
  BY DEF Search!vars, Search!store, Search!read, Search!revision, Search!bounds
<1>2. \A rest : RestSound(rest)' <=> RestSound(rest)
  BY <1>1, RestStill
<1> QED BY <1>1, <1>2 DEF AnswerCut

\* In keyword mode what the search can find is what the store ranks.
LEMMA KeywordFinds ==
  ASSUME query.mode = "keyword"
  PROVE  Findable = SearchRows(Search!Visibility)
BY DEF Findable, Search!Found, SearchRows, Search!Fts5Rows, Search!FallbackRows

\* The answer of a keyword search.
LEMMA KeywordAnswer ==
  ASSUME Search!SearchAssumption, Lists, Search!Keyword
  PROVE  AnswerCut'
<1> DEFINE k == offset + query.topK
           hits == Search!SearchMemory(k, Search!Range(floated))
           rest == Search!As(hits, "keyword")
<1>1. UNCHANGED <<world, alive, pinned, query, matched, snapshot, offset, floated, semantic, eligibleSeen,
        writes, degraded>>
  BY DEF Search!Keyword, Search!store, Search!bounds, Search!revision
<1>2. CASE query.mode # "keyword"
  BY <1>2 DEF Search!Keyword, AnswerCut
<1>3. CASE query.mode = "keyword"
  <2>1. keyword' = hits /\ answer' = Search!Page(Stream(floated, rest))
    BY <1>3 DEF Search!Keyword, Search!Finish, Search!Excluded, Stream
  <2>2. answer' = Cut(Stream(floated, rest), offset, query.topK)
    BY <2>1, PageIsCut
  <2>3. /\ StoreTyped /\ floated \in Seq(Memories) /\ offset \in Nat /\ query.topK \in Nat /\ k \in Nat
        /\ Search!Rows(Search!Visibility) \subseteq eligibleSeen
    BY QueryTyped DEF Lists, SearchTyped, StoreTyped, ListsSound
  <2>4. IsFiniteSet(Search!Range(floated))
    BY <2>3, DistinctCount
  <2>5. /\ hits \in Seq(Memories) /\ Distinct(hits) /\ Search!Range(hits)
             \subseteq SearchRows(Search!Visibility) \ Search!Range(floated)
        /\ Len(hits) = k \/ Search!Range(hits) = SearchRows(Search!Visibility) \ Search!Range(floated)
    BY <2>3, <2>4, SearchMemoryFacts
  <2>6. SearchRows(Search!Visibility) \subseteq Search!Rows(Search!Visibility)
    BY <2>3, SearchRowsFacts
  <2> HIDE DEF hits
  <2>7. rest \in Seq(Entries) /\ Len(rest) = Len(hits) /\ Search!Ids(rest) = Search!Range(hits) /\ NoRepeat(rest)
    BY <2>5, AsFacts DEF Channels
  <2>8. rest = Search!As(keyword', "keyword")
    BY <2>1
  <2> HIDE DEF rest
  <2>9. Search!Ids(rest) \intersect Search!Range(floated) = {} /\ Search!Ids(rest) \subseteq eligibleSeen
    BY <2>3, <2>5, <2>6, <2>7
  <2>10. Len(rest) >= query.topK \/ Findable \subseteq Search!Ids(rest) \union Search!Range(floated)
    <3>1. CASE Len(hits) = k
      BY <2>3, <2>7, <3>1
    <3>2. CASE Search!Range(hits) = SearchRows(Search!Visibility) \ Search!Range(floated)
      BY <1>3, <2>7, <3>2, KeywordFinds
    <3> QED BY <2>5, <3>1, <3>2
  <2>11. PICK r \in Seq(Entries) : r = rest
    BY <2>7
  <2>12. RestSound(r)'
    BY <1>1, <1>3, <2>7, <2>8, <2>9, <2>10, <2>11, FindableStill DEF RestSound
  <2> QED BY <1>1, <2>2, <2>11, <2>12 DEF AnswerCut
<1> QED BY <1>2, <1>3

\* The answer of a search that gives up.
LEMMA GiveUpCut ==
  ASSUME Search!SearchAssumption, Lists, Search!Embed \/ Search!EmbedFails
  PROVE  AnswerCut'
<1>1. /\ UNCHANGED <<world, alive, pinned, query, offset, floated, keyword, pinnedThen, eligibleSeen, writes, semantic>>
      /\ step = "embed"
  BY EmbedEffect
<1>2. CASE step' \in {"embed", "load"}
  BY <1>2 DEF AnswerCut
<1>3. CASE Search!GiveUp
  <2>1. /\ degraded'
        /\ query.mode = "semantic" => answer' = <<>>
        /\ query.mode # "semantic" => answer' = Search!Page(Stream(floated, Search!As(keyword, "keyword")))
    BY <1>1, <1>3, GiveUpAnswer
  <2>2. CASE query.mode = "semantic"
    BY <1>1, <2>1, <2>2 DEF AnswerCut
  <2>3. CASE query.mode # "semantic"
    <3> DEFINE rest == Search!As(keyword, "keyword")
    <3>1. answer' = Cut(Stream(floated, rest), offset, query.topK)
      BY <2>1, <2>3, PageIsCut
    <3>2. /\ keyword \in Seq(Memories) /\ Distinct(keyword) /\ Search!Range(keyword) \subseteq eligibleSeen
          /\ Search!Range(keyword) \intersect Search!Range(floated) = {}
      BY DEF Lists, SearchTyped, ListsSound
    <3>3. rest \in Seq(Entries) /\ Search!Ids(rest) = Search!Range(keyword) /\ NoRepeat(rest)
      BY <3>2, AsFacts DEF Channels
    <3>4. rest = Search!As(keyword', "keyword")
      BY <1>1
    <3> HIDE DEF rest
    <3>5. PICK r \in Seq(Entries) : r = rest
      BY <3>3
    <3>6. query.mode # "keyword"
      BY <1>1 DEF Lists, ListsSound
    <3>7. RestSound(r)'
      BY <1>1, <2>1, <3>2, <3>3, <3>4, <3>5, <3>6 DEF RestSound
    <3> QED BY <1>1, <3>1, <3>5, <3>7 DEF AnswerCut
  <2> QED BY <2>2, <2>3
<1> QED BY <1>2, <1>3, EmbedEffect

\* With pins included, every vector in scope that did not float may be shown.
LEMMA VectorsShown ==
  ASSUME query.includePinned, NEW m \in Vectors
  PROVE  m \in alive /\ Search!Allowed(m, pinned)
BY DEF Vectors, Search!Rows, Search!Scope, Search!Tags, Search!Allowed, Search!MayShow

\* Over a store at rest, the vectors' ranking fills its window or has them all.
LEMMA SemanticFull ==
  ASSUME Search!SearchAssumption, Lists, step = "fetch", writes = 0, query.includePinned, query.mode = "semantic"
  PROVE  Len(Hits) >= query.topK \/ Findable \subseteq Search!Range(Hits) \union Search!Range(floated)
<1>1. /\ offset \in Nat /\ query.topK \in Nat /\ semantic \in Seq(Memories) /\ Distinct(semantic)
      /\ Search!Range(semantic) \subseteq Vectors
      /\ Len(semantic) = 2 * (offset + query.topK) \/ Search!Range(semantic) = Vectors
  BY QueryTyped DEF Lists, SearchTyped, StoreTyped, ListsSound, ListsCurrent
<1>2. /\ Hits \in Seq(Memories) /\ Distinct(Hits)
      /\ Search!Range(Hits) = Search!Range(semantic) \intersect {m \in alive : Search!Allowed(m, pinned)}
  BY HitsFacts DEF Lists
<1>3. Search!Range(Hits) = Search!Range(semantic)
  BY <1>1, <1>2, VectorsShown
<1>4. Len(Hits) = Len(semantic)
  <2>1. Cardinality(Search!Range(Hits)) = Len(Hits)
    BY <1>2, DistinctCount
  <2>2. Cardinality(Search!Range(semantic)) = Len(semantic)
    BY <1>1, DistinctCount
  <2> QED BY <1>3, <2>1, <2>2
<1>5. CASE Len(semantic) = 2 * (offset + query.topK)
  BY <1>1, <1>4, <1>5
<1>6. CASE Search!Range(semantic) = Vectors
  <2>1. Findable \subseteq Vectors \union Search!Range(floated)
    BY DEF Findable, Search!Found, Vectors, Search!ListEmbeddings, Search!Visibility, Search!Rows
  <2> QED BY <1>3, <1>6, <2>1
<1> QED BY <1>1, <1>5, <1>6

\* With pins included, every keyword hit may be shown.
LEMMA KeywordShown ==
  ASSUME Search!SearchAssumption, Lists, writes = 0, query.includePinned,
         NEW m \in Search!Range(keyword), m \in Search!Rows("include")
  PROVE  Search!Allowed(m, Then)
<1>1. m \notin Search!Range(floated)
  BY DEF Lists, ListsSound
<1>2. m \in pinned => m \in Then
  BY DEF Lists, ListsCurrent, Then
<1> QED BY <1>1, <1>2 DEF Search!Rows, Search!Scope, Search!Tags, Search!Allowed, Search!MayShow

\* With pins included, every hit of the vectors alone may be shown.
LEMMA FetchedShown ==
  ASSUME query.includePinned, NEW m \in Fetched, m \in Vectors
  PROVE  Search!Allowed(m, Then)
<1>1. m \in pinned => m \in Then
  BY DEF Then
<1> QED BY <1>1 DEF Vectors, Search!Rows, Search!Scope, Search!Tags, Search!Allowed, Search!MayShow

\* Over a store at rest everything either ranking holds is fused.
LEMMA HybridIds ==
  ASSUME Search!SearchAssumption, Lists, step = "fetch", writes = 0, query.includePinned, query.mode = "hybrid"
  PROVE  FusedIds = Search!Range(keyword) \union Search!Range(semantic)
<1>1. StoreTyped /\ floated \in Seq(Memories) /\ 2 * (offset + query.topK) \in Nat
  BY QueryTyped DEF Lists, SearchTyped, StoreTyped
<1>2. IsFiniteSet(Search!Range(floated))
  BY <1>1, DistinctCount
<1>3. keyword = Search!SearchMemory(2 * (offset + query.topK), Search!Range(floated))
        /\ Search!Range(semantic) \subseteq Vectors
  BY DEF Lists, ListsCurrent
<1>4. Search!Range(keyword) \subseteq SearchRows(Search!Visibility)
  BY <1>1, <1>2, <1>3, SearchMemoryFacts
<1>5. SearchRows(Search!Visibility) \subseteq Search!Rows(Search!Visibility) /\ Search!Visibility = "include"
  BY <1>1, SearchRowsFacts DEF Search!Visibility
<1>6. Fetched = Search!Range(semantic) \ Search!Range(keyword)
  BY <1>3 DEF Fetched, Vectors, Search!Rows
<1>7. \A m \in Search!Range(keyword) : Search!Allowed(m, Then)
  BY <1>4, <1>5, KeywordShown
<1>8. \A m \in Fetched : Search!Allowed(m, Then)
  BY <1>3, <1>6, FetchedShown
<1> QED BY <1>6, <1>7, <1>8 DEF FusedIds

\* What a hybrid search can find is ranked by keywords, by vectors, or floated.
LEMMA HybridFinds ==
  ASSUME query.mode = "hybrid", query.includePinned
  PROVE  Findable \subseteq SearchRows(Search!Visibility) \union Vectors \union Search!Range(floated)
BY DEF Findable, Search!Found, Search!Visibility, SearchRows, Search!Fts5Rows, Search!FallbackRows, Vectors,
       Search!ListEmbeddings, Search!Rows

\* Over a store at rest, the fusion has a page's worth or everything there is.
LEMMA HybridFull ==
  ASSUME Search!SearchAssumption, Lists, step = "fetch", writes = 0, query.includePinned, query.mode = "hybrid"
  PROVE  Cardinality(FusedIds) >= query.topK \/ Findable \subseteq FusedIds \union Search!Range(floated)
<1> DEFINE n == 2 * (offset + query.topK)
<1>1. /\ StoreTyped /\ floated \in Seq(Memories) /\ offset \in Nat /\ query.topK \in Nat /\ n \in Nat
      /\ keyword \in Seq(Memories) /\ semantic \in Seq(Memories) /\ Distinct(keyword) /\ Distinct(semantic)
      /\ keyword = Search!SearchMemory(n, Search!Range(floated))
      /\ Len(semantic) = n \/ Search!Range(semantic) = Vectors
  BY QueryTyped DEF Lists, SearchTyped, StoreTyped, ListsSound, ListsCurrent
<1>2. IsFiniteSet(Search!Range(floated))
  BY <1>1, DistinctCount
<1>3. Len(keyword) = n \/ Search!Range(keyword) = SearchRows(Search!Visibility) \ Search!Range(floated)
  BY <1>1, <1>2, SearchMemoryFacts
<1>4. FusedIds = Search!Range(keyword) \union Search!Range(semantic) /\ IsFiniteSet(FusedIds)
  BY HybridIds, FusedIdsFacts DEF Lists
<1>5. /\ Cardinality(Search!Range(keyword)) = Len(keyword) /\ Cardinality(Search!Range(semantic)) = Len(semantic)
      /\ Cardinality(FusedIds) \in Nat
  BY <1>1, <1>4, DistinctCount, FS_CardinalityType
<1>6. Search!Range(keyword) \subseteq FusedIds /\ Search!Range(semantic) \subseteq FusedIds
  BY <1>4
<1>7. /\ Cardinality(Search!Range(keyword)) <= Cardinality(FusedIds)
      /\ Cardinality(Search!Range(semantic)) <= Cardinality(FusedIds)
  BY <1>4, <1>6, FS_Subset
<1>8. n >= query.topK
  BY <1>1
<1> HIDE DEF n
<1>9. CASE Len(keyword) = n \/ Len(semantic) = n
  BY <1>1, <1>5, <1>7, <1>8, <1>9
<1>10. CASE Search!Range(keyword) = SearchRows(Search!Visibility) \ Search!Range(floated)
         /\ Search!Range(semantic) = Vectors
  BY <1>4, <1>10, HybridFinds
<1> QED BY <1>1, <1>3, <1>9, <1>10

\* A part as large as the whole is the whole.
LEMMA SameCount ==
  ASSUME NEW S, IsFiniteSet(S), NEW T, T \subseteq S, Cardinality(T) = Cardinality(S)
  PROVE  T = S
BY FS_Subset

\* The fusion's part of the stream.
LEMMA MergedRest ==
  ASSUME Search!SearchAssumption, Lists, step = "fetch", query.mode = "hybrid", NEW up \in BOOLEAN
  PROVE  LET rest == Merged(FusedIds, up, offset + query.topK)
         IN  /\ rest \in Seq(Entries) /\ NoRepeat(rest) /\ Search!Ids(rest) \intersect Search!Range(floated) = {}
             /\ Search!Ids(rest) \subseteq eligibleSeen
             /\ Unpinned(rest) /\ InAgreement(rest, keyword, semantic)
             /\ writes = 0 /\ query.includePinned =>
                  Len(rest) >= query.topK \/ Findable \subseteq Search!Ids(rest) \union Search!Range(floated)
<1> DEFINE n == offset + query.topK
           rest == Merged(FusedIds, up, n)
<1>1. offset \in Nat /\ query.topK \in Nat /\ n \in Nat
  BY QueryTyped DEF Lists, SearchTyped, StoreTyped
<1>2. /\ RankingsTyped /\ IsFiniteSet(FusedIds) /\ FusedIds \subseteq Ranked /\ FusedIds \subseteq Memories
      /\ Memories \subseteq Nat /\ FusedIds \intersect Search!Range(floated) = {}
  BY FusedIdsFacts DEF Lists
<1>3. n >= query.topK
  BY <1>1
<1> HIDE DEF n
<1>4. /\ rest \in Seq(Entries) /\ NoRepeat(rest) /\ Search!Ids(rest) \subseteq FusedIds
      /\ Len(rest) = Search!Lesser(n, Cardinality(FusedIds)) /\ Cardinality(FusedIds) \in Nat
  BY <1>1, <1>2, MergedFacts
<1>5. \A i \in 1 .. Len(rest) : rest[i].channel # "pinned"
  BY <1>1, <1>2, MergedFacts
<1>6. \A i, j \in 1 .. Len(rest) :
        Search!Fraction(rest[i].m)[1] * Search!Fraction(rest[j].m)[2]
          > Search!Fraction(rest[j].m)[1] * Search!Fraction(rest[i].m)[2] => i < j
  BY <1>1, <1>2, MergedFacts
<1> HIDE DEF rest
<1>7. FusedIds \subseteq eligibleSeen
  BY FusedIsEligible DEF Lists
<1>8. InAgreement(rest, keyword, semantic)
  <2> SUFFICES ASSUME NEW i \in 1 .. Len(rest), NEW j \in 1 .. Len(rest),
                      Search!NotAfter(keyword, rest[i].m, rest[j].m), Search!NotAfter(semantic, rest[i].m, rest[j].m),
                      Search!Before(keyword, rest[i].m, rest[j].m) \/ Search!Before(semantic, rest[i].m, rest[j].m)
               PROVE  i < j
    BY DEF InAgreement
  <2>1. DOMAIN rest = 1 .. Len(rest)
    BY <1>4, LenProperties
  <2>2. rest[i].m \in Search!Ids(rest) /\ rest[j].m \in Search!Ids(rest)
    BY <2>1 DEF Search!Ids
  <2>3. rest[i].m \in Ranked /\ rest[j].m \in Ranked
    BY <1>2, <1>4, <2>2
  <2>4. Search!Fraction(rest[i].m)[1] * Search!Fraction(rest[j].m)[2]
          > Search!Fraction(rest[j].m)[1] * Search!Fraction(rest[i].m)[2]
    BY <1>2, <2>3, FusionPrefers
  <2> QED BY <1>6, <2>4
<1>9. ASSUME writes = 0, query.includePinned
      PROVE  Len(rest) >= query.topK \/ Findable \subseteq Search!Ids(rest) \union Search!Range(floated)
  <2>1. Cardinality(FusedIds) >= query.topK \/ Findable \subseteq FusedIds \union Search!Range(floated)
    BY <1>9, HybridFull
  <2>2. CASE Cardinality(FusedIds) >= query.topK
    BY <1>1, <1>3, <1>4, <2>2 DEF Search!Lesser
  <2>3. CASE Findable \subseteq FusedIds \union Search!Range(floated)
    <3>1. CASE n <= Cardinality(FusedIds)
      BY <1>1, <1>3, <1>4, <3>1 DEF Search!Lesser
    <3>2. CASE ~ n <= Cardinality(FusedIds)
      <4>1. Len(rest) = Cardinality(FusedIds)
        BY <1>1, <1>4, <3>2 DEF Search!Lesser
      <4>2. Cardinality(Search!Ids(rest)) = Cardinality(FusedIds)
        BY <1>4, <4>1, IdsCount
      <4>3. Search!Ids(rest) = FusedIds
        BY <1>2, <1>4, <4>2, SameCount
      <4> QED BY <2>3, <4>3
    <3> QED BY <3>1, <3>2
  <2> QED BY <2>1, <2>2, <2>3
<1>10. Search!Ids(rest) \intersect Search!Range(floated) = {} /\ Search!Ids(rest) \subseteq eligibleSeen
  BY <1>2, <1>4, <1>7
<1>11. Unpinned(rest)
  BY <1>5 DEF Unpinned
<1> QED BY <1>4, <1>8, <1>9, <1>10, <1>11 DEF rest, n

\* The answer of a search that used its vectors.
LEMMA FuseAnswer ==
  ASSUME Search!SearchAssumption, Lists, Search!Fuse, ~ degraded
  PROVE  AnswerCut'
<1>1. /\ UNCHANGED <<world, alive, pinned, query, matched, snapshot, offset, floated, keyword, semantic, eligibleSeen,
                     writes, degraded>>
      /\ step = "fetch"
  BY DEF Search!Fuse, Search!store, Search!read, Search!revision, Search!bounds
<1>2. query.mode \in {"semantic", "hybrid"} /\ Lists
  <2>1. query.mode # "keyword" /\ query \in Queries
    BY <1>1 DEF Lists, ListsSound, SearchTyped, StoreTyped
  <2> QED BY <2>1, QueryTyped
<1>3. PICK rest \in Seq(Entries) : RestSound(rest) /\ answer' = Search!Page(Stream(floated, rest))
  <2>1. CASE query.mode = "semantic"
    <3> DEFINE rest == Search!As(Hits, "semantic")
    <3>1. answer' = Search!Page(Stream(floated, rest))
      BY <2>1, FuseEffect
    <3>2. /\ rest \in Seq(Entries) /\ NoRepeat(rest) /\ Search!Ids(rest) = Search!Range(Hits) /\ Len(rest) = Len(Hits)
          /\ Search!Range(Hits) \intersect Search!Range(floated) = {} /\ Search!Range(Hits) \subseteq eligibleSeen
      BY HitsStream DEF Lists
    <3> HIDE DEF rest
    <3>3. writes = 0 /\ query.includePinned =>
            Len(rest) >= query.topK \/ Findable \subseteq Search!Ids(rest) \union Search!Range(floated)
      BY <1>1, <2>1, <3>2, SemanticFull
    <3>4. RestSound(rest)
      BY <2>1, <3>2, <3>3 DEF RestSound
    <3> QED BY <3>1, <3>2, <3>4
  <2>2. CASE query.mode = "hybrid"
    <3>1. PICK up \in BOOLEAN : answer' = Search!Page(Stream(floated, Merged(FusedIds, up, offset + query.topK)))
      BY <2>2, FuseEffect
    <3> DEFINE rest == Merged(FusedIds, up, offset + query.topK)
    <3>2. /\ rest \in Seq(Entries) /\ NoRepeat(rest) /\ Search!Ids(rest) \intersect Search!Range(floated) = {}
          /\ Search!Ids(rest) \subseteq eligibleSeen
          /\ Unpinned(rest) /\ InAgreement(rest, keyword, semantic)
          /\ writes = 0 /\ query.includePinned =>
               Len(rest) >= query.topK \/ Findable \subseteq Search!Ids(rest) \union Search!Range(floated)
      BY <1>1, <2>2, MergedRest
    <3>3. answer' = Search!Page(Stream(floated, rest))
      BY <3>1
    <3> HIDE DEF rest
    <3>4. RestSound(rest)
      BY <2>2, <3>2 DEF RestSound
    <3> QED BY <3>2, <3>3, <3>4
  <2> QED BY <1>2, <2>1, <2>2
<1>4. answer' = Cut(Stream(floated, rest), offset, query.topK)
  BY <1>3, PageIsCut
<1>5. RestSound(rest)'
  BY <1>1, <1>3, RestStill
<1> QED BY <1>1, <1>4, <1>5 DEF AnswerCut

\* Every answer is cut from its stream; only an answer is degraded.
Answers == AnswerCut /\ (step # "answered" => ~ degraded)

\* There is no answer at first.
LEMMA InitAnswers == ASSUME Search!Init PROVE Answers
BY FirstStepFacts DEF Search!Init, Answers, AnswerCut

\* Every step leaves the answer cut from its stream.
LEMMA StepAnswers ==
  ASSUME Search!SearchAssumption, Lists, Answers, [Search!Next]_Search!vars
  PROVE  Answers'
<1> USE DEF Answers
<1>1. CASE Search!Float
  BY <1>1 DEF Search!Float, AnswerCut
<1>2. CASE Search!Keyword
  <2>1. degraded' = degraded /\ step # "answered"
    BY <1>2 DEF Search!Keyword
  <2> QED BY <1>2, <2>1, KeywordAnswer
<1>3. CASE Search!Open
  BY <1>3 DEF Search!Open, AnswerCut
<1>4. CASE Search!Embed \/ Search!EmbedFails
  <2>1. step' # "answered" => degraded' = degraded /\ step # "answered"
    BY <1>4 DEF Search!Embed, Search!EmbedFails, Search!GiveUp, Search!Finish
  <2> QED BY <1>4, <2>1, GiveUpCut
<1>5. CASE Search!Load
  BY <1>5 DEF Search!Load, AnswerCut
<1>6. CASE Search!Narrow
  BY <1>6 DEF Search!Narrow, AnswerCut
<1>7. CASE Search!Fuse
  <2>1. step # "answered" /\ step' = "answered"
    BY <1>7, FuseEffect DEF Search!Fuse
  <2> QED BY <1>7, <2>1, FuseAnswer
<1>8. CASE Search!NextPage
  <2>1. step' # "answered" /\ ~ degraded'
    BY <1>8, FirstStepFacts DEF Search!NextPage
  <2> QED BY <2>1 DEF AnswerCut
<1>9. CASE Search!Write
  BY <1>9 DEF Search!Write, AnswerCut
<1>10. CASE Search!Probe
  BY <1>10 DEF Search!Probe, AnswerCut
<1>11. CASE UNCHANGED Search!vars
  <2>1. UNCHANGED <<step, degraded>>
    BY <1>11 DEF Search!vars
  <2> QED BY <1>11, <2>1, AnswerStill
<1> QED BY <1>1, <1>2, <1>3, <1>4, <1>5, <1>6, <1>7, <1>8, <1>9, <1>10, <1>11 DEF Search!Next

\* A page at the start of a stream is full, or holds all of it.
LEMMA FullPage ==
  ASSUME offset = 0, query.topK \in Nat, NEW st \in Seq(Entries), NoRepeat(st), NEW S, IsFiniteSet(S),
         Len(st) >= query.topK \/ S \subseteq Search!Ids(st)
  PROVE  Len(Search!Page(st)) >= Search!Lesser(query.topK, Cardinality(S))
<1>1. Cardinality(S) \in Nat
  BY FS_CardinalityType
<1>2. Len(st) \in Nat
  BY LenProperties
<1>3. Len(Search!Page(st)) = Search!Lesser(query.topK, Len(st))
  <2>1. offset \in Nat
    OBVIOUS
  <2>2. Len(Search!Page(st)) = IF offset >= Len(st) THEN 0 ELSE Search!Lesser(offset + query.topK, Len(st)) - offset
    BY <2>1, PageFacts
  <2> QED BY <1>2, <2>2 DEF Search!Lesser
<1>4. CASE Len(st) >= query.topK
  BY <1>1, <1>2, <1>3, <1>4 DEF Search!Lesser
<1>5. CASE S \subseteq Search!Ids(st)
  <2>1. Cardinality(Search!Ids(st)) = Len(st)
    BY IdsCount
  <2>2. IsFiniteSet(Search!Ids(st))
    <3>1. Search!Ids(st) = {st[k].m : k \in 1 .. Len(st)}
      BY LenProperties DEF Search!Ids
    <3>2. IsFiniteSet(1 .. Len(st))
      BY <1>2, FS_Interval
    <3> DEFINE f == [k \in 1 .. Len(st) |-> st[k].m]
    <3>3. f \in Surjection(1 .. Len(st), Search!Ids(st))
      BY <3>1 DEF Surjection
    <3> QED BY <3>2, <3>3, FS_Surjection
  <2>3. Cardinality(S) <= Len(st)
    BY <1>5, <2>1, <2>2, FS_Subset
  <2> QED BY <1>1, <1>2, <1>3, <2>3 DEF Search!Lesser
<1> QED BY <1>4, <1>5

\* Of the answer of a finished request, when there is one.
LEMMA AnswerStream ==
  ASSUME Search!SearchAssumption, Lists, NEW rest \in Seq(Entries), RestSound(rest)
  PROVE  /\ floated \in Seq(Memories) /\ offset \in Nat /\ query.topK \in Nat
         /\ Stream(floated, rest) \in Seq(Entries) /\ NoRepeat(Stream(floated, rest))
         /\ Search!Ids(Stream(floated, rest)) = Search!Range(floated) \union Search!Ids(rest)
         /\ Len(Stream(floated, rest)) = Len(floated) + Len(rest)
<1>1. /\ floated \in Seq(Memories) /\ offset \in Nat /\ query.topK \in Nat /\ Distinct(floated)
      /\ NoRepeat(rest) /\ Search!Ids(rest) \intersect Search!Range(floated) = {}
  BY QueryTyped DEF Lists, SearchTyped, StoreTyped, ListsSound, RestSound
<1> QED BY <1>1, StreamFacts

\* A page cut from a sound stream is sound.
LEMMA AnswerSound ==
  ASSUME Search!SearchAssumption, Lists, Answers
  PROVE  Search!PageSound
<1>1. Search!OncePerPage
  BY DEF Lists
<1>2. CASE step # "answered"
  BY <1>1, <1>2 DEF Search!PageSound, Search!OnlyEligible, Search!FirstPageFull
<1>3. CASE step = "answered" /\ degraded /\ answer = <<>>
  BY <1>1, <1>3, EmptyList DEF Search!PageSound, Search!OnlyEligible, Search!FirstPageFull
<1>4. ASSUME step = "answered", NEW rest \in Seq(Entries), RestSound(rest),
             answer = Cut(Stream(floated, rest), offset, query.topK)
      PROVE  Search!PageSound
  <2> DEFINE st == Stream(floated, rest)
  <2>1. answer = Search!Page(st)
    BY <1>4, PageIsCut
  <2>2. /\ floated \in Seq(Memories) /\ offset \in Nat /\ query.topK \in Nat
        /\ st \in Seq(Entries) /\ NoRepeat(st) /\ Search!Ids(st) = Search!Range(floated) \union Search!Ids(rest)
        /\ Len(st) = Len(floated) + Len(rest)
    BY <1>4, AnswerStream
  <2> HIDE DEF st
  <2>3. Search!Ids(answer) \subseteq Search!Ids(st)
    BY <2>1, <2>2, PageFacts
  <2>4. Search!Range(floated) \subseteq eligibleSeen /\ Search!Ids(rest) \subseteq eligibleSeen
    BY <1>4 DEF RestSound, Lists, ListsSound
  <2>5. Search!OnlyEligible
    BY <2>2, <2>3, <2>4 DEF Search!OnlyEligible
  <2>6. ASSUME query.mode = "keyword" \/ query.includePinned, offset = 0, writes = 0, ~ degraded
        PROVE  Len(answer) >= Search!Lesser(query.topK, Cardinality(Findable))
    <3>1. Len(rest) >= query.topK \/ Findable \subseteq Search!Ids(rest) \union Search!Range(floated)
      BY <1>4, <2>6 DEF RestSound
    <3>2. Len(floated) \in Nat /\ Len(rest) \in Nat
      BY <1>4, <2>2, LenProperties
    <3>3. Len(st) >= query.topK \/ Findable \subseteq Search!Ids(st)
      BY <2>2, <3>1, <3>2
    <3>4. Findable \subseteq Search!Rows(Search!Visibility) /\ IsFiniteSet(Search!Rows(Search!Visibility))
      BY SearchRowsFacts DEF Findable, Lists, SearchTyped
    <3>5. IsFiniteSet(Findable)
      BY <3>4, FS_Subset
    <3> QED BY <2>1, <2>2, <2>6, <3>3, <3>5, FullPage
  <2>7. query.mode = "keyword" \/ query.includePinned => Search!FirstPageFull
    BY <2>6 DEF Search!FirstPageFull, Findable
  <2> QED BY <1>1, <2>5, <2>7 DEF Search!PageSound
<1> QED BY <1>2, <1>3, <1>4 DEF Answers, AnswerCut

\* The whole keyword ranking, behind the pins.
Ranking(W) == Search!Listed(SearchRows(Search!Visibility) \ W, SearchOrder)

\* The whole ranking holds every row of the search that is not left out, once.
LEMMA RankingFacts ==
  ASSUME Search!SearchAssumption, StoreTyped, NEW W
  PROVE  Ranking(W) \in Seq(Memories) /\ Distinct(Ranking(W))
           /\ Search!Range(Ranking(W)) = SearchRows(Search!Visibility) \ W
<1> DEFINE S == SearchRows(Search!Visibility) \ W
           s == Ranking(W)
<1>1. IsFiniteSet(S) /\ Lines(S, SearchOrder)
  BY SearchRowsFacts
<1>2. SearchRows(Search!Visibility) \subseteq Search!Rows(Search!Visibility)
        /\ Search!Rows(Search!Visibility) \subseteq Memories
  BY SearchRowsFacts
<1>3. S \subseteq Memories /\ s = Search!Listed(S, SearchOrder)
  BY <1>2 DEF Ranking
<1> HIDE DEF S, s
<1>4. Cardinality(S) \in Nat /\ s \in Seq(S) /\ DOMAIN s = 1 .. Cardinality(S)
  BY <1>1, <1>3, ListedFacts
<1>5. /\ \A k \in 1 .. Cardinality(S) : s[k] \in S
      /\ \A m \in S : \E k \in 1 .. Cardinality(S) : s[k] = m
      /\ \A i, j \in 1 .. Cardinality(S) : s[i] = s[j] => i = j
  BY <1>1, <1>3, ListedFacts
<1>6. Distinct(s) /\ Search!Range(s) = S
  BY <1>4, <1>5 DEF Distinct, Search!Range
<1>7. s \in Seq(Memories)
  BY <1>3, <1>4
<1> QED BY <1>6, <1>7 DEF S, s

\* Any fetch of a page's worth or more gives the page of the whole ranking.
LEMMA PageOfRanking ==
  ASSUME Search!SearchAssumption, StoreTyped, offset \in Nat, query.topK \in Nat, NEW pins \in Seq(Memories),
         NEW n \in Nat, offset + query.topK <= n
  PROVE  Search!Page(Stream(pins, Search!As(Search!SearchMemory(n, Search!Range(pins)), "keyword"))) =
           Search!Page(Stream(pins, Search!As(Ranking(Search!Range(pins)), "keyword")))
<1> DEFINE L == Ranking(Search!Range(pins))
<1>1. IsFiniteSet(Search!Range(pins))
  BY DistinctCount
<1>2. Search!SearchMemory(n, Search!Range(pins)) = Search!First(L, n)
  BY <1>1, SearchMemoryIs DEF Ranking
<1>3. L \in Seq(Memories)
  BY RankingFacts
<1> HIDE DEF L
<1>4. Search!Page(Stream(pins, Search!As(Search!First(L, n), "keyword")))
        = Search!Page(Stream(pins, Search!As(L, "keyword")))
  BY <1>3, FetchMore
<1> QED BY <1>2, <1>4 DEF L

\* The pins a request floats over a store at rest.
LEMMA PinsFacts ==
  ASSUME Search!SearchAssumption, StoreTyped
  PROVE  /\ Pins \in Seq(Memories) /\ Distinct(Pins)
         /\ Pins = (IF query.includePinned THEN Search!SearchPinned ELSE <<>>)
<1>1. Search!SearchPinned \in Seq(Memories) /\ Distinct(Search!SearchPinned)
  BY SearchPinnedFacts
<1>2. query.pinnedLimit = 0 => Search!SearchPinned = <<>>
  <2> SUFFICES ASSUME query.pinnedLimit = 0 PROVE Search!SearchPinned = <<>>
    OBVIOUS
  <2> DEFINE S == SearchRows("only")
             s == Search!Listed(S, SearchOrder)
  <2>1. Search!SearchPinned = Search!First(s, 0)
    BY RankedSearchIs DEF Search!SearchPinned
  <2>2. IsFiniteSet(S) /\ Lines(S, SearchOrder)
    BY SearchRowsFacts
  <2> HIDE DEF S
  <2>3. s \in Seq(S)
    BY <2>2, ListedFacts
  <2> HIDE DEF s
  <2>4. Len(Search!First(s, 0)) = Search!Lesser(0, Len(s)) /\ Search!First(s, 0) \in Seq(S)
    BY <2>3, FirstFacts
  <2>5. Len(s) \in Nat
    BY <2>3, LenProperties
  <2>6. Len(Search!First(s, 0)) = 0
    BY <2>4, <2>5 DEF Search!Lesser
  <2> QED BY <2>1, <2>4, <2>6, EmptySeq
<1>3. query.pinnedLimit \in Nat
  BY QueryTyped DEF StoreTyped
<1> QED BY <1>1, <1>2, <1>3, EmptyList DEF Pins

\* Without vectors, a hybrid search answers as a keyword search.
LEMMA Degrades ==
  ASSUME Search!SearchAssumption, Lists, Answers
  PROVE  Search!DegradedIsKeyword
<1> SUFFICES ASSUME step = "answered", degraded, query.mode = "hybrid", writes = 0
             PROVE  answer = Search!Page(Stream(Pins,
                      Search!As(Search!SearchMemory(offset + query.topK, Search!Range(Pins)), "keyword")))
  <2>1. Pins = (IF query.includePinned THEN Search!SearchPinned ELSE <<>>)
    BY PinsFacts DEF Lists, SearchTyped
  <2> QED BY <2>1 DEF Search!DegradedIsKeyword, Stream
<1> DEFINE k == offset + query.topK
<1>1. StoreTyped /\ offset \in Nat /\ query.topK \in Nat /\ k \in Nat /\ 2 * k \in Nat /\ k <= 2 * k
  BY QueryTyped DEF Lists, SearchTyped, StoreTyped
<1>2. floated = Pins /\ keyword = Search!SearchMemory(2 * k, Search!Range(Pins))
  BY DEF Lists, ListsCurrent
<1>3. Pins \in Seq(Memories)
  BY <1>1, PinsFacts
<1>4. answer = Cut(Stream(Pins, Search!As(keyword, "keyword")), offset, query.topK)
  BY <1>2 DEF Answers, AnswerCut, RestSound
<1>5. answer = Search!Page(Stream(Pins, Search!As(Search!SearchMemory(2 * k, Search!Range(Pins)), "keyword")))
  BY <1>2, <1>4, PageIsCut
<1>6. Search!Page(Stream(Pins, Search!As(Search!SearchMemory(2 * k, Search!Range(Pins)), "keyword")))
        = Search!Page(Stream(Pins, Search!As(Ranking(Search!Range(Pins)), "keyword")))
  BY <1>1, <1>3, PageOfRanking
<1>7. Search!Page(Stream(Pins, Search!As(Search!SearchMemory(k, Search!Range(Pins)), "keyword")))
        = Search!Page(Stream(Pins, Search!As(Ranking(Search!Range(Pins)), "keyword")))
  BY <1>1, <1>3, PageOfRanking
<1> QED BY <1>5, <1>6, <1>7

\* The fused part of a page follows both rankings.
LEMMA Agrees ==
  ASSUME Search!SearchAssumption, Lists, Answers
  PROVE  Search!FusionAgrees
<1> SUFFICES ASSUME step = "answered", query.mode = "hybrid", ~ degraded, NEW j \in DOMAIN answer,
                    NEW k \in DOMAIN answer,
                    answer[j].channel # "pinned", answer[k].channel # "pinned",
                    Search!NotAfter(keyword, answer[j].m, answer[k].m),
                      Search!NotAfter(semantic, answer[j].m, answer[k].m),
                    Search!Before(keyword, answer[j].m, answer[k].m)
                      \/ Search!Before(semantic, answer[j].m, answer[k].m)
             PROVE  j < k
  BY DEF Search!FusionAgrees
<1>1. PICK rest \in Seq(Entries) : RestSound(rest) /\ answer = Cut(Stream(floated, rest), offset, query.topK)
  BY DEF Answers, AnswerCut
<1> DEFINE st == Stream(floated, rest)
<1>2. answer = Search!Page(st)
  BY <1>1, PageIsCut
<1>3. /\ floated \in Seq(Memories) /\ offset \in Nat /\ query.topK \in Nat /\ st \in Seq(Entries)
      /\ Len(st) = Len(floated) + Len(rest)
  BY <1>1, AnswerStream
<1>4. Len(floated) \in Nat /\ Len(rest) \in Nat /\ answer \in Seq(Entries)
  BY <1>1, <1>3, LenProperties DEF Lists, SearchTyped
<1>5. DOMAIN answer = 1 .. Len(answer) /\ Len(answer) \in Nat
  BY <1>4, LenProperties
<1>6. \A i \in 1 .. Len(floated) : st[i] = [m |-> floated[i], channel |-> "pinned"]
  BY <1>3, StreamFacts
<1>7. \A i \in 1 .. Len(st) : i <= Len(floated)
        \/ (i - Len(floated) \in 1 .. Len(rest) /\ st[i] = rest[i - Len(floated)])
  BY <1>3, StreamFacts
<1> HIDE DEF st
<1>8. \A i \in 1 .. Len(answer) : offset + i \in 1 .. Len(st) /\ answer[i] = st[offset + i]
  BY <1>2, <1>3, PageFacts
<1>9. ASSUME NEW i \in 1 .. Len(answer), answer[i].channel # "pinned"
      PROVE  offset + i - Len(floated) \in 1 .. Len(rest) /\ answer[i] = rest[offset + i - Len(floated)]
  <2>1. offset + i \in 1 .. Len(st) /\ answer[i] = st[offset + i]
    BY <1>8
  <2>2. ~ offset + i <= Len(floated)
    <3> SUFFICES ASSUME offset + i <= Len(floated) PROVE FALSE
      OBVIOUS
    <3>1. offset + i \in 1 .. Len(floated)
      <4>1. offset \in Nat /\ i \in Nat /\ 1 <= i /\ Len(floated) \in Nat
        BY <1>3, <1>4, <1>5
      <4> QED BY <4>1
    <3>2. st[offset + i] = [m |-> floated[offset + i], channel |-> "pinned"]
      BY <1>6, <3>1
    <3>3. answer[i].channel = "pinned"
      BY <2>1, <3>2
    <3> QED BY <1>9, <3>3
  <2>3. PICK q \in 1 .. Len(st) : q = offset + i
    BY <2>1
  <2>4. q - Len(floated) \in 1 .. Len(rest) /\ st[q] = rest[q - Len(floated)]
    BY <1>7, <2>2, <2>3
  <2>5. answer[i] = rest[q - Len(floated)]
    BY <2>1, <2>3, <2>4
  <2>6. offset + i - Len(floated) = q - Len(floated)
    <3>1. offset \in Nat /\ i \in Nat /\ Len(floated) \in Nat
      BY <1>3, <1>4, <1>5
    <3> QED BY <2>3, <3>1
  <2> QED BY <2>4, <2>5, <2>6
<1> DEFINE a == offset + j - Len(floated)
           b == offset + k - Len(floated)
<1>10. a \in 1 .. Len(rest) /\ answer[j] = rest[a] /\ b \in 1 .. Len(rest) /\ answer[k] = rest[b]
  BY <1>5, <1>9
<1>11. InAgreement(rest, keyword, semantic)
  BY <1>1 DEF RestSound
<1>12. j \in Nat /\ k \in Nat
  BY <1>5
<1> HIDE DEF a, b
<1>13. a < b
  BY <1>10, <1>11 DEF InAgreement
<1> QED BY <1>3, <1>4, <1>12, <1>13 DEF a, b

(***************************************************************************)
(* The pages of one stream.                                                *)
(***************************************************************************)
Whole == Stream(Pins, Search!As(Ranking(Search!Range(Pins)), "keyword"))
Shown == IF step = "answered" THEN offset + query.topK ELSE offset

\* The whole stream of a keyword search has no repeats and every row it finds.
LEMMA WholeFacts ==
  ASSUME Search!SearchAssumption, StoreTyped
  PROVE  /\ Whole \in Seq(Entries) /\ NoRepeat(Whole)
         /\ Search!Ids(Whole) = Search!Range(Pins) \union (SearchRows(Search!Visibility) \ Search!Range(Pins))
<1>1. Pins \in Seq(Memories) /\ Distinct(Pins)
  BY PinsFacts
<1> DEFINE L == Ranking(Search!Range(Pins))
<1>2. L \in Seq(Memories) /\ Distinct(L) /\ Search!Range(L) = SearchRows(Search!Visibility) \ Search!Range(Pins)
  BY RankingFacts
<1> HIDE DEF L
<1>3. Search!Range(L) \intersect Search!Range(Pins) = {} /\ "keyword" \in Channels
  BY <1>2 DEF Channels
<1>4. /\ Stream(Pins, Search!As(L, "keyword")) \in Seq(Entries) /\ NoRepeat(Stream(Pins, Search!As(L, "keyword")))
      /\ Search!Ids(Stream(Pins, Search!As(L, "keyword"))) = Search!Range(Pins) \union Search!Range(L)
  BY <1>1, <1>2, <1>3, RankingStream
<1> QED BY <1>2, <1>4 DEF Whole, L

\* The stream depends on the rows and the request alone.
LEMMA WholeStill ==
  ASSUME UNCHANGED <<world, alive, pinned, query>>
  PROVE  Whole' = Whole
<1>1. Pins' = Pins /\ SearchOrder' = SearchOrder /\ SearchRows(Search!Visibility)' = SearchRows(Search!Visibility)
  BY StoreStill
<1> QED BY <1>1 DEF Whole, Ranking

\* The pages so far hold the beginning of the stream, each entry once.
PagesCut(whole, end) ==
  /\ \A i \in DOMAIN pages :
       NoRepeat(pages[i]) /\ \A m \in Search!Ids(pages[i]) : \E p \in 1 .. Len(whole) : p <= end /\ whole[p].m = m
  /\ \A i, j \in DOMAIN pages : (i # j) => Search!Ids(pages[i]) \intersect Search!Ids(pages[j]) = {}
  /\ \A p \in 1 .. Len(whole) : p <= end => \E i \in DOMAIN pages : whole[p].m \in Search!Ids(pages[i])

\* Over a store at rest the pages make up the beginning of the stream, and a short page ends it.
Paged ==
  writes = 0 /\ query.mode = "keyword" =>
    /\ PagesCut(Whole, Shown)
    /\ step = "answered" /\ Len(answer) < query.topK => Len(Whole) <= Shown

\* No page has been given at first.
LEMMA InitPaged == ASSUME Search!SearchAssumption, Search!Init PROVE Paged
<1>1. pages = <<>> /\ offset = 0 /\ step # "answered" /\ DOMAIN pages = {} /\ Shown = 0
  BY FirstStepFacts, EmptySeq DEF Search!Init, Shown
<1> QED BY <1>1 DEF Paged, PagesCut

\* The page just given extends the beginning of the stream.
LEMMA KeywordPaged ==
  ASSUME Search!SearchAssumption, Lists, Paged, Search!Keyword
  PROVE  Paged'
<1> SUFFICES ASSUME writes = 0, query.mode = "keyword" PROVE Paged'
  BY DEF Search!Keyword, Paged, Search!bounds
<1>1. UNCHANGED <<world, alive, pinned, query, offset, writes>> /\ step = "keyword" /\ step' = "answered"
  BY DEF Search!Keyword, Search!Finish, Search!store, Search!bounds
<1> DEFINE k == offset + query.topK
           W == Whole
           new == Len(pages) + 1
<1>2. /\ StoreTyped /\ offset \in Nat /\ query.topK \in Nat /\ k \in Nat /\ pages \in Seq(Seq(Entries))
      /\ floated = Pins /\ Pins \in Seq(Memories) /\ k <= k
  BY <1>1, QueryTyped, PinsFacts DEF Lists, SearchTyped, StoreTyped, ListsCurrent
<1>3. answer' = Search!Page(W) /\ pages' = Append(pages, answer')
  <2>1. answer' = Search!Page(Stream(Pins, Search!As(Search!SearchMemory(k, Search!Range(Pins)), "keyword")))
          /\ pages' = Append(pages, answer')
    BY <1>2 DEF Search!Keyword, Search!Finish, Stream, Search!Excluded
  <2>2. Search!Page(Stream(Pins, Search!As(Search!SearchMemory(k, Search!Range(Pins)), "keyword"))) = Search!Page(W)
    BY <1>2, PageOfRanking DEF Whole
  <2> QED BY <2>1, <2>2
<1>4. W \in Seq(Entries) /\ NoRepeat(W) /\ W' = W
  BY <1>1, <1>2, WholeFacts, WholeStill
<1>5. Shown = offset /\ Shown' = k
  BY <1>1 DEF Shown
<1>6. PagesCut(W, offset)
  BY <1>5 DEF Paged
<1> HIDE DEF W
<1>7. Len(W) \in Nat /\ DOMAIN W = 1 .. Len(W) /\ Len(pages) \in Nat /\ DOMAIN pages = 1 .. Len(pages)
  BY <1>2, <1>4, LenProperties
<1> DEFINE pg == Search!Page(W)
<1>8. /\ pg \in Seq(Entries) /\ NoRepeat(pg)
      /\ Len(pg) = query.topK \/ Len(W) <= offset + Len(pg)
  BY <1>2, <1>4, PageFacts
<1>9. /\ \A i \in 1 .. Len(pg) : offset + i \in 1 .. Len(W) /\ pg[i] = W[offset + i]
      /\ \A p \in 1 .. Len(W) : offset < p /\ p <= k => p - offset \in 1 .. Len(pg) /\ pg[p - offset] = W[p]
  BY <1>2, <1>4, PageFacts
<1>10. Len(pg) <= query.topK
  BY <1>2, <1>4, PageFacts
<1>11. Len(pg) \in Nat /\ DOMAIN pg = 1 .. Len(pg)
  BY <1>8, LenProperties
<1>12. answer' = pg
  BY <1>3
<1> HIDE DEF pg
<1>13. /\ DOMAIN pages' = 1 .. new /\ pages'[new] = pg
       /\ \A i \in DOMAIN pages : pages'[i] = pages[i]
       /\ new \in Nat /\ new \notin DOMAIN pages /\ DOMAIN pages' = DOMAIN pages \union {new}
  <2>1. pages' = Append(pages, pg) /\ pg \in Seq(Entries) /\ pages \in Seq(Seq(Entries))
    BY <1>2, <1>3, <1>8, <1>12
  <2>2. pages' \in Seq(Seq(Entries)) /\ Len(pages') = new /\ pages'[new] = pg
        /\ \A i \in 1 .. Len(pages) : pages'[i] = pages[i]
    BY <2>1, AppendProperties
  <2>3. DOMAIN pages' = 1 .. Len(pages')
    BY <2>2, LenProperties
  <2>4. 1 .. new = (1 .. Len(pages)) \union {new} /\ new \notin 1 .. Len(pages) /\ new \in Nat
    BY <1>7
  <2> QED BY <1>7, <2>2, <2>3, <2>4
<1>14. \A m \in Search!Ids(pg) : \E p \in 1 .. Len(W) : offset < p /\ p <= k /\ W[p].m = m
  <2> SUFFICES ASSUME NEW i \in 1 .. Len(pg) PROVE \E p \in 1 .. Len(W) : offset < p /\ p <= k /\ W[p].m = pg[i].m
    BY <1>11 DEF Search!Ids
  <2>1. offset + i \in 1 .. Len(W) /\ pg[i] = W[offset + i]
    BY <1>9
  <2>2. offset < offset + i /\ offset + i <= k
    BY <1>2, <1>10, <1>11
  <2> QED BY <2>1, <2>2
<1>15. \A p \in 1 .. Len(W) : offset < p /\ p <= k => W[p].m \in Search!Ids(pg)
  BY <1>9, <1>11 DEF Search!Ids
<1>16. \A i \in DOMAIN pages : Search!Ids(pages[i]) \intersect Search!Ids(pg) = {}
  <2> SUFFICES ASSUME NEW i \in DOMAIN pages, NEW m \in Search!Ids(pages[i]), m \in Search!Ids(pg) PROVE FALSE
    OBVIOUS
  <2>1. PICK p \in 1 .. Len(W) : p <= offset /\ W[p].m = m
    BY <1>6 DEF PagesCut
  <2>2. PICK q \in 1 .. Len(W) : offset < q /\ W[q].m = m
    BY <1>14
  <2>3. p = q
    BY <1>4, <1>7, <2>1, <2>2 DEF NoRepeat
  <2> QED BY <1>2, <1>7, <2>1, <2>2, <2>3
<1>17. \A i \in DOMAIN pages' : NoRepeat(pages'[i])
  BY <1>6, <1>8, <1>13 DEF PagesCut
<1>18. \A i \in DOMAIN pages' : \A m \in Search!Ids(pages'[i]) : \E p \in 1 .. Len(W) : p <= k /\ W[p].m = m
  <2> SUFFICES ASSUME NEW i \in DOMAIN pages', NEW m \in Search!Ids(pages'[i])
               PROVE  \E p \in 1 .. Len(W) : p <= k /\ W[p].m = m
    OBVIOUS
  <2>1. CASE i = new
    BY <1>13, <1>14, <2>1
  <2>2. CASE i \in DOMAIN pages
    <3>1. PICK p \in 1 .. Len(W) : p <= offset /\ W[p].m = m
      BY <1>6, <1>13, <2>2 DEF PagesCut
    <3>2. p <= k
      BY <1>2, <1>7, <3>1
    <3> QED BY <3>1, <3>2
  <2> QED BY <1>13, <2>1, <2>2
<1>19. \A i, j \in DOMAIN pages' : (i # j) => Search!Ids(pages'[i]) \intersect Search!Ids(pages'[j]) = {}
  <2> SUFFICES ASSUME NEW i \in DOMAIN pages', NEW j \in DOMAIN pages', i # j
               PROVE  Search!Ids(pages'[i]) \intersect Search!Ids(pages'[j]) = {}
    OBVIOUS
  <2>1. CASE i \in DOMAIN pages /\ j \in DOMAIN pages
    BY <1>6, <1>13, <2>1 DEF PagesCut
  <2>2. CASE i = new /\ j \in DOMAIN pages
    BY <1>13, <1>16, <2>2
  <2>3. CASE i \in DOMAIN pages /\ j = new
    BY <1>13, <1>16, <2>3
  <2> QED BY <1>13, <2>1, <2>2, <2>3
<1>20. \A p \in 1 .. Len(W) : p <= k => \E i \in DOMAIN pages' : W[p].m \in Search!Ids(pages'[i])
  <2> SUFFICES ASSUME NEW p \in 1 .. Len(W), p <= k PROVE \E i \in DOMAIN pages' : W[p].m \in Search!Ids(pages'[i])
    OBVIOUS
  <2>1. CASE p <= offset
    <3>1. PICK i \in DOMAIN pages : W[p].m \in Search!Ids(pages[i])
      BY <1>6, <2>1 DEF PagesCut
    <3> QED BY <1>13, <3>1
  <2>2. CASE offset < p
    BY <1>13, <1>15, <2>2
  <2> QED BY <1>2, <1>7, <2>1, <2>2
<1>21. Len(pg) < query.topK => Len(W) <= k
  BY <1>2, <1>7, <1>8, <1>11
<1>22. PagesCut(W, k)'
  <2>1. k' = k /\ W' = W
    BY <1>1, <1>4
  <2> HIDE DEF k, new
  <2> QED BY <1>17, <1>18, <1>19, <1>20, <2>1 DEF PagesCut
<1> QED BY <1>1, <1>4, <1>5, <1>12, <1>21, <1>22 DEF Paged, W

\* The pages given stay the beginning of the stream.
LEMMA PagedStill ==
  ASSUME Paged, UNCHANGED <<world, alive, pinned, query, pages, writes>>, Shown' = Shown,
         step' = "answered" => step = "answered" /\ UNCHANGED answer
  PROVE  Paged'
<1>1. Whole' = Whole
  BY WholeStill
<1>2. PagesCut(Whole, Shown)' <=> PagesCut(Whole, Shown)
  BY <1>1 DEF PagesCut
<1> QED BY <1>1, <1>2 DEF Paged

\* Every step keeps the pages the beginning of the stream.
LEMMA StepPaged ==
  ASSUME Search!SearchAssumption, Lists, Paged, [Search!Next]_Search!vars
  PROVE  Paged'
<1>1. CASE Search!Float
  <2>1. UNCHANGED <<world, alive, pinned, query, pages, writes, offset>> /\ step # "answered" /\ step' # "answered"
    BY <1>1 DEF Search!Float, Search!store, Search!bounds
  <2>2. Shown' = Shown
    BY <2>1 DEF Shown
  <2> QED BY <2>1, <2>2, PagedStill
<1>2. CASE Search!Keyword
  BY <1>2, KeywordPaged
<1>3. CASE Search!Open \/ Search!Embed \/ Search!EmbedFails \/ Search!Load \/ Search!Narrow \/ Search!Fuse
  <2>1. query.mode # "keyword"
    BY <1>3 DEF Lists, ListsSound, Search!Open, Search!Embed, Search!EmbedFails, Search!Load, Search!Narrow, Search!Fuse
  <2>2. query' = query
    BY <1>3 DEF Search!Open, Search!Embed, Search!EmbedFails, Search!Load, Search!Narrow, Search!Fuse
  <2> QED BY <2>1, <2>2 DEF Paged
<1>4. CASE Search!NextPage
  <2>1. /\ UNCHANGED <<world, alive, pinned, query, pages, writes>> /\ offset' = offset + query.topK
        /\ step = "answered" /\ step' # "answered"
    BY <1>4, FirstStepFacts DEF Search!NextPage, Search!store, Search!bounds
  <2>2. Shown' = Shown
    BY <2>1 DEF Shown
  <2> QED BY <2>1, <2>2, PagedStill
<1>5. CASE Search!Write
  <2>1. writes' # 0
    BY <1>5 DEF Search!Write, Lists, SearchTyped
  <2> QED BY <2>1 DEF Paged
<1>6. CASE Search!Probe \/ UNCHANGED Search!vars
  <2>1. UNCHANGED <<world, alive, pinned, query, pages, writes, offset, step, answer>>
    BY <1>6 DEF Search!Probe, Search!vars, Search!store, Search!bounds
  <2>2. Shown' = Shown
    BY <2>1 DEF Shown
  <2> QED BY <2>1, <2>2, PagedStill
<1> QED BY <1>1, <1>2, <1>3, <1>4, <1>5, <1>6 DEF Search!Next

\* Pages that make up the beginning of the stream repeat nothing and miss nothing.
LEMMA OneStream ==
  ASSUME Search!SearchAssumption, Lists, Paged
  PROVE  Search!PagesOfOneStream
<1> SUFFICES ASSUME writes = 0, query.mode = "keyword" PROVE Search!PagesOfOneStream
  BY DEF Search!PagesOfOneStream
<1>1. PagesCut(Whole, Shown) /\ pages \in Seq(Seq(Entries)) /\ StoreTyped
  BY DEF Paged, Lists, SearchTyped
<1>2. \A i \in DOMAIN pages : pages[i] \in Seq(Entries)
  <2>1. DOMAIN pages = 1 .. Len(pages)
    BY <1>1, LenProperties
  <2> QED BY <1>1, <2>1, ElementOfSeq
<1>3. \A i \in DOMAIN pages : Cardinality(Search!Ids(pages[i])) = Len(pages[i])
  BY <1>1, <1>2, IdsCount DEF PagesCut
<1>4. ASSUME step = "answered", Len(answer) < query.topK, NEW m \in Search!Rows(Search!Visibility), Search!Found(m)
      PROVE  \E i \in DOMAIN pages : m \in Search!Ids(pages[i])
  <2>1. Whole \in Seq(Entries) /\ Search!Ids(Whole) = Search!Range(Pins)
          \union (SearchRows(Search!Visibility) \ Search!Range(Pins))
    BY <1>1, WholeFacts
  <2>2. m \in SearchRows(Search!Visibility)
    BY <1>4, KeywordFinds DEF Findable
  <2>3. Len(Whole) \in Nat /\ DOMAIN Whole = 1 .. Len(Whole) /\ Len(Whole) <= Shown
    BY <1>4, <2>1, LenProperties DEF Paged
  <2>4. Shown \in Nat
    BY <1>1, QueryTyped DEF Shown, Lists, SearchTyped, StoreTyped
  <2>5. PICK p \in 1 .. Len(Whole) : Whole[p].m = m
    BY <2>1, <2>2, <2>3 DEF Search!Ids
  <2>6. p <= Shown
    BY <2>3, <2>4, <2>5
  <2> QED BY <1>1, <2>5, <2>6 DEF PagesCut
<1> QED BY <1>1, <1>3, <1>4 DEF Search!PagesOfOneStream, PagesCut

\* The invariant of a search.
SearchInvariant == Lists /\ Answers /\ Paged

\* search_memory: whatever is written between the store calls of a request, what it has read
\* was allowed and repeats nothing; over a store at rest it is current, the answer is cut from
\* one stream, and the pages given are the beginning of it.
THEOREM SearchInvariance ==
  ASSUME Search!SearchAssumption
  PROVE  Search!Spec => []SearchInvariant
<1>1. Search!Init => SearchInvariant
  BY InitLists, InitAnswers, InitPaged DEF SearchInvariant
<1>2. SearchInvariant /\ [Search!Next]_Search!vars => SearchInvariant'
  BY StepLists, StepAnswers, StepPaged DEF SearchInvariant
<1> QED BY <1>1, <1>2, PTL DEF Search!Spec

\* search_memory and its REST, MCP and CLI callers: whatever is pinned, unpinned, added or deleted
\* between the store calls of a request, for any memories, worlds and queries, its page has no
\* repeated entry and nothing that was never allowed, and over a store at rest it is full.
THEOREM PagesAreSound ==
  ASSUME Search!SearchAssumption
  PROVE  Search!Spec => []PageSound
<1>1. SearchInvariant => PageSound
  BY AnswerSound DEF PageSound, SearchInvariant
<1> QED BY <1>1, SearchInvariance, PTL

\* The fusion of search_memory lists a hit before another when neither ranking puts it below and
\* one puts it above, whatever the ranks and the constant RrfK (scores are exact fractions here, where
\* the code adds floats); and a hybrid search that lost its provider or its revision answers exactly
\* what the keyword search would have.
THEOREM HybridIsSound ==
  ASSUME Search!SearchAssumption
  PROVE  Search!Spec => []HybridSound
<1>1. SearchInvariant => HybridSound
  BY Agrees, Degrades DEF HybridSound, SearchInvariant, Search!HybridSound
<1> QED BY <1>1, SearchInvariance, PTL

\* The offset of search_memory: over a store that does not change the pages of a keyword search
\* repeat no memory and, once one comes back short, have shown every memory it can find.
THEOREM PagesAreOneStream ==
  ASSUME Search!SearchAssumption
  PROVE  Search!Spec => []PagesOfOneStream
<1>1. SearchInvariant => PagesOfOneStream
  BY OneStream DEF PagesOfOneStream, SearchInvariant
<1> QED BY <1>1, SearchInvariance, PTL

\* No vector is ranked before a request has matched a revision.
LEMMA InitSpace == Search!Init => Search!SpaceKept
  BY Zenon DEF Search!Init, Search!SpaceKept, Search!FirstStep

\* Embed is the one step that reaches the vectors, and it refuses a space that was lost.
LEMMA StepSpace == ASSUME Search!SpaceKept, [Search!Next]_Search!vars PROVE Search!SpaceKept'
<1>1. CASE Search!Float
  BY <1>1, Zenon DEF Search!Float, Search!SpaceKept
<1>2. CASE Search!Keyword
  <2>1. step' \in {"answered", "open"}
    BY <1>2, Zenon DEF Search!Keyword, Search!Finish
  <2> QED
    BY <2>1, Zenon DEF Search!SpaceKept
<1>3. CASE Search!Open
  BY <1>3, Zenon DEF Search!Open, Search!SpaceKept
<1>4. CASE Search!Embed
  <2>1. CASE step' = "load"
    <3>1. matched' = snapshot.known /\ snapshot = observed /\ ~ Search!SpaceLost
      BY <1>4, <2>1, Zenon DEF Search!Embed, Search!GiveUp, Search!Finish
    <3>2. opening' = opening
      BY <1>4, Zenon DEF Search!Embed
    <3> QED
      BY <3>1, <3>2, Zenon DEF Search!SpaceLost, Search!SpaceKept
  <2>2. CASE step' # "load"
    <3>1. step' \in {"answered", "embed"}
      BY <1>4, <2>2, Zenon DEF Search!Embed, Search!GiveUp, Search!Finish
    <3> QED
      BY <3>1, Zenon DEF Search!SpaceKept
  <2> QED
    BY <2>1, <2>2
<1>5. CASE Search!EmbedFails
  BY <1>5, Zenon DEF Search!EmbedFails, Search!GiveUp, Search!Finish, Search!SpaceKept
<1>6. CASE Search!Load
  BY <1>6, Zenon DEF Search!Load, Search!revision, Search!SpaceKept
<1>7. CASE Search!Narrow
  BY <1>7, Zenon DEF Search!Narrow, Search!revision, Search!SpaceKept
<1>8. CASE Search!Fuse
  <2>1. step' = "answered"
    BY <1>8, Zenon DEF Search!Fuse, Search!Finish
  <2> QED
    BY <2>1, Zenon DEF Search!SpaceKept
<1>9. CASE Search!NextPage
  <2>1. step' \in {"float", "open", "keyword"}
    BY <1>9, Zenon DEF Search!NextPage, Search!FirstStep
  <2> QED
    BY <2>1, Zenon DEF Search!SpaceKept
<1>10. CASE Search!Write
  BY <1>10, Zenon DEF Search!Write, Search!revision, Search!SpaceKept
<1>11. CASE Search!Probe
  BY <1>11, Zenon DEF Search!Probe, Search!revision, Search!SpaceKept
<1>12. CASE UNCHANGED Search!vars
  BY <1>12, Zenon DEF Search!vars, Search!revision, Search!SpaceKept
<1> QED
  BY <1>1, <1>2, <1>3, <1>4, <1>5, <1>6, <1>7, <1>8, <1>9, <1>10, <1>11, <1>12, Zenon DEF Search!Next

\* search_memory: a request that opened under a known revision of the embedding model
\* compares only vectors stamped with a revision, however probes of the adapter fall
\* between its snapshot, its embedding and its reads, for any memories and queries.
THEOREM RequestKeepsItsSpace ==
  Search!Spec => []SpaceKept
<1>1. Search!Spec => []Search!SpaceKept
  BY InitSpace, StepSpace, PTL DEF Search!Spec
<1> QED BY <1>1 DEF SpaceKept

HIDE SearchSizes
=============================================================================
