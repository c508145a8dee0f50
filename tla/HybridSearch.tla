---------------------------- MODULE HybridSearch ----------------------------
(***************************************************************************)
(* A memory search, store call by store call: the pins that float, the     *)
(* keyword ranking, the embedding of the query between two looks at the    *)
(* model's revision, the vectors, the fusion of the two rankings, and the  *)
(* page cut from one stream.  Other requests pin, unpin, add and delete    *)
(* memories in between; a caller pages through the answers.                *)
(***************************************************************************)
EXTENDS Naturals, FiniteSets, FiniteSetsExt, Sequences, SequencesExt

CONSTANTS Memories,    \* numbers: the order of created_at
          Worlds,      \* what is stored: how well a memory matches the query (0: not at
                       \* all), its place in the order argsort gives the vectors, its
                       \* project, whether it is tagged, the revision of its vector; and
                       \* whether SQLite was built with FTS5
          Queries,     \* mode, top_k, pinned_limit, project, tags, include_pinned, phrase
          AnyProject, Global, NoVector,
          Observations,\* revision snapshots: known or not, and a value
          RrfK,        \* _RRF_K
          SearchLimit, \* _MEMORY_SEARCH_LIMIT
          MaxWrites, MaxProbes, MaxFailures, MaxPages \* bounds

SearchAssumption ==
  /\ Memories \subseteq Nat /\ IsFiniteSet(Memories)
  /\ RrfK \in Nat /\ SearchLimit \in Nat
  /\ \A w \in Worlds :
       /\ w.score \in [Memories -> Nat] /\ w.similarity \in [Memories -> Nat]
       /\ \A m, n \in Memories : w.similarity[m] = w.similarity[n] => m = n
  /\ \A q \in Queries : q.topK \in Nat /\ q.pinnedLimit \in Nat
                         /\ q.mode \in {"keyword", "semantic", "hybrid"}

VARIABLES world, alive, pinned, \* the store
          observed,             \* what revision_snapshot returns
          query, offset,        \* the request, and the page asked for
          pc, floated, keyword, semantic, \* the lists read so far
          pinnedThen,           \* which of the rows read were pinned when read
          opening, snapshot, attempt, matched, \* the revision as the request saw it
          answer,               \* the last page, with the channel of each entry
          pages,                \* history: the pages given so far
          eligibleSeen,         \* history: rows the query allowed at some time since it began
          degraded, writes, probes, failures

store == <<world, alive, pinned>>
revision == <<opening, snapshot, attempt, matched>>
read == <<floated, keyword, semantic, pinnedThen>>
bounds == <<writes, probes, failures>>
vars == <<store, observed, query, offset, pc, read, revision, answer, pages, eligibleSeen, degraded, bounds>>

(***************************************************************************)
(* The store's queries                                                     *)
(***************************************************************************)
\* _pinned_clauses: pins of no project apply inside every project.
Scope(mode, m) ==
  \/ query.project \in {AnyProject, world.home[m]}
  \/ world.home[m] = Global /\ mode # "exclude" /\ m \in pinned

\* _tags_clause: the row carries every tag asked for.
Tags(m) == query.tags => m \in world.tagged

Rows(mode) ==
  {m \in alive : /\ mode = "exclude" => m \notin pinned
                 /\ mode = "only" => m \in pinned
                 /\ Scope(mode, m) /\ Tags(m)}

Lesser(a, b) == IF a < b THEN a ELSE b
First(s, n) == SubSeq(s, 1, Lesser(n, Len(s)))

\* S in the order R: the k-th has k - 1 of them before it.
Listed(S, R) ==
  [k \in 1..Cardinality(S) |-> CHOOSE m \in S : Cardinality({n \in S : <<n, m>> \in R}) = k - 1]

Rank(list, m) == CHOOSE k \in DOMAIN list : list[k] = m

\* The entries of a list that are in T, in the order of the list.
Filter(list, T) ==
  LET kept == {k \in DOMAIN list : list[k] \in T}
      order == Listed(kept, {p \in kept \X kept : p[1] < p[2]})
  IN [i \in DOMAIN order |-> list[order[i]]]

Newest == {p \in Memories \X Memories : p[1] > p[2]}

\* By rank, the newest first among equals.
ByScore == {p \in Memories \X Memories : \/ world.score[p[1]] > world.score[p[2]]
                                         \/ world.score[p[1]] = world.score[p[2]] /\ p[1] > p[2]}

\* MATCH.
Fts5Rows(mode) == {m \in Rows(mode) : world.score[m] > 0}

\* Without FTS5: the newest rows, scored in Python; a phrase only filters them.
FallbackRows(mode) ==
  {m \in Rows(mode) : /\ Cardinality({n \in Rows(mode) : n > m}) < SearchLimit
                      /\ query.phrase => world.score[m] > 0}

RankedSearch(mode, limit) ==
  First(IF world.fts THEN Listed(Fts5Rows(mode), ByScore)
        ELSE Listed(FallbackRows(mode), IF query.phrase THEN Newest ELSE ByScore), limit)

SearchPinned == RankedSearch("only", query.pinnedLimit)

Visibility == IF query.includePinned THEN "include" ELSE "exclude"

SearchMemory(k, without) ==
  First(Filter(RankedSearch(Visibility, k + Cardinality(without)), Memories \ without), k)

(***************************************************************************)
(* The request                                                             *)
(***************************************************************************)
Page(stream) == IF offset >= Len(stream) THEN <<>>
                ELSE SubSeq(stream, offset + 1, Lesser(offset + query.topK, Len(stream)))

As(list, channel) == [k \in DOMAIN list |-> [m |-> list[k], channel |-> channel]]

Finish(page) ==
  /\ answer' = page
  /\ pages' = Append(pages, answer')
  /\ pc' = "answered"

\* The float, then the keyword ranking unless only vectors were asked for.
FirstStep == IF query.includePinned /\ query.pinnedLimit > 0 THEN "float"
             ELSE IF query.mode = "semantic" THEN "open" ELSE "keyword"

Init ==
  /\ world \in Worlds /\ alive \in {Memories, Memories \ {Max(Memories)}} /\ pinned \in SUBSET alive
  /\ observed \in Observations
  /\ query \in Queries /\ offset = 0 /\ pc = FirstStep
  /\ floated = <<>> /\ keyword = <<>> /\ semantic = <<>> /\ pinnedThen = {}
  /\ opening = observed /\ snapshot = observed /\ attempt = 0 /\ matched = FALSE
  /\ answer = <<>> /\ pages = <<>> /\ degraded = FALSE
  /\ eligibleSeen = Rows(Visibility)
  /\ writes = 0 /\ probes = 0 /\ failures = 0

Float ==
  /\ pc = "float"
  /\ floated' = SearchPinned
  /\ pc' = IF query.mode = "semantic" THEN "open" ELSE "keyword"
  /\ UNCHANGED <<store, observed, query, offset, keyword, semantic, pinnedThen, revision, answer,
                 pages, eligibleSeen, degraded, bounds>>

\* Bug: every pin is left out of the ranking, floated or not.
ExcludedAll == Range(floated) \union pinned

Excluded == Range(floated)

\* Keyword mode answers at once; hybrid fetches twice the page for the fusion.
Keyword ==
  /\ pc = "keyword"
  /\ LET k == offset + query.topK IN
     IF query.mode = "keyword"
     THEN LET hits == SearchMemory(k, Excluded) IN
          /\ keyword' = hits
          /\ Finish(Page(As(floated, "pinned") \o As(hits, "keyword")))
     ELSE /\ keyword' = SearchMemory(2 * k, Excluded)
          /\ pc' = "open"
          /\ UNCHANGED <<answer, pages>>
  /\ pinnedThen' = Range(keyword') \intersect pinned
  /\ UNCHANGED <<store, observed, query, offset, floated, semantic, revision, eligibleSeen, degraded, bounds>>

Open ==
  /\ pc = "open"
  /\ opening' = observed /\ snapshot' = observed /\ attempt' = 0
  /\ pc' = "embed"
  /\ UNCHANGED <<store, observed, query, offset, read, matched, answer, pages, eligibleSeen, degraded, bounds>>

\* The keyword ranking alone, or, in semantic mode, an error.
GiveUp ==
  /\ degraded' = TRUE
  /\ Finish(IF query.mode = "semantic" THEN <<>> ELSE Page(As(floated, "pinned") \o As(keyword, "keyword")))

\* Bug: an unknown revision is as good as the known one the request began with.
SpaceLostNever == FALSE

\* A request that has seen a known revision does not go on without one.
SpaceLost == opening.known /\ ~ observed.known

\* The provider answers: the revision must read as before, or it is tried once more.
Embed ==
  /\ pc = "embed"
  /\ IF snapshot = observed
     THEN IF SpaceLost THEN GiveUp /\ UNCHANGED <<attempt, snapshot, matched>>
          ELSE /\ pc' = "load" /\ matched' = snapshot.known
               /\ UNCHANGED <<attempt, snapshot, answer, pages, degraded>>
     ELSE IF attempt = 1 THEN GiveUp /\ UNCHANGED <<attempt, snapshot, matched>>
     ELSE /\ attempt' = 1 /\ snapshot' = observed
          /\ UNCHANGED <<pc, matched, answer, pages, degraded>>
  /\ UNCHANGED <<store, observed, query, offset, read, opening, eligibleSeen, bounds>>

\* The provider fails, or finds the query too long.
EmbedFails ==
  /\ pc = "embed" /\ failures < MaxFailures
  /\ failures' = failures + 1
  /\ GiveUp
  /\ UNCHANGED <<store, observed, query, offset, read, revision, eligibleSeen, writes, probes>>

\* The vectors of the request's space; a row without one never ranks.
ListEmbeddings == {m \in alive : world.vector[m] # NoVector
                                   /\ (matched => world.vector[m] = snapshot.value)}

BySimilarity ==
  {p \in Memories \X Memories : world.similarity[p[1]] > world.similarity[p[2]]}

Load ==
  /\ pc = "load"
  /\ semantic' = Listed(ListEmbeddings \ Excluded, BySimilarity)
  /\ pc' = "eligible"
  /\ UNCHANGED <<store, observed, query, offset, floated, keyword, pinnedThen, revision, answer, pages,
                 eligibleSeen, degraded, bounds>>

\* Bug: the window is cut before the rows out of scope are dropped.
WindowUnfiltered(n) == Filter(First(semantic, n), Rows("include"))

\* eligible_memory_ids, then the top of what is left.
Window(n) ==
  First(IF query.project = AnyProject /\ ~ query.tags THEN semantic
        ELSE Filter(semantic, Rows("include")), n)

Narrow ==
  /\ pc = "eligible"
  /\ semantic' = Window(2 * (offset + query.topK))
  /\ pc' = "fetch"
  /\ UNCHANGED <<store, observed, query, offset, floated, keyword, pinnedThen, revision, answer, pages,
                 eligibleSeen, degraded, bounds>>

\* A pin that floated, or that the caller hid, is not ranked.
MayShow(m, then) == ~ (m \in then /\ (m \in Range(floated) \/ ~ query.includePinned))

\* The filters repeated on what get_memory returned.
Allowed(m, then) ==
  /\ MayShow(m, then)
  /\ Tags(m)
  /\ query.project \in {AnyProject, world.home[m]} \/ (m \in then /\ world.home[m] = Global)

\* Bug: only the keyword rank is counted.
FractionKeyword(m) == IF m \in Range(keyword) THEN <<1, RrfK + Rank(keyword, m)>> ELSE <<0, 1>>

\* 1 / (RrfK + rank), summed over the channels, as a fraction.
Fraction(m) ==
  LET a == RrfK + Rank(keyword, m)
      b == RrfK + Rank(semantic, m)
      inA == m \in Range(keyword)
      inB == m \in Range(semantic)
  IN IF inA /\ inB THEN <<a + b, a * b>> ELSE IF inA THEN <<1, a>> ELSE <<1, b>>

\* Equal scores come in the order of a set, which nothing fixes.
Above(e, f, up) ==
  \/ e.score[1] * f.score[2] > f.score[1] * e.score[2]
  \/ e.score[1] * f.score[2] = f.score[1] * e.score[2] /\ IF up THEN e.m < f.m ELSE e.m > f.m

\* rrf_scores, sorted.
Fused(ids, up) ==
  LET scores == {[m |-> m, score |-> Fraction(m)] : m \in ids}
  IN Listed(scores, {p \in scores \X scores : Above(p[1], p[2], up)})

Channel(m) == IF m \notin Range(semantic) THEN "keyword"
              ELSE IF m \notin Range(keyword) THEN "semantic" ELSE "hybrid"

\* Semantic mode: the vectors' ranking alone, filtered by the rows as they are now.
SemanticPage ==
  LET hits == Filter(semantic, {m \in alive : Allowed(m, pinned)})
  IN Page(As(floated, "pinned") \o As(hits, "semantic"))

\* get_memory of the hits only the vectors found; fusion; the page.
Fuse ==
  /\ pc = "fetch"
  /\ LET fetched == (Range(semantic) \ Range(keyword)) \intersect alive
         then == pinnedThen \union (fetched \intersect pinned)
         ids == {m \in Range(keyword) \union fetched : Allowed(m, then)}
     IN IF query.mode = "semantic" THEN Finish(SemanticPage)
        ELSE \E up \in BOOLEAN :
               LET merged == First(Fused(ids, up), offset + query.topK)
               IN Finish(Page(As(floated, "pinned") \o
                              [k \in DOMAIN merged |-> [m |-> merged[k].m, channel |-> Channel(merged[k].m)]]))
  /\ UNCHANGED <<store, observed, query, offset, read, revision, eligibleSeen, degraded, bounds>>

\* The caller asks for the next page of the same search.
NextPage ==
  /\ pc = "answered" /\ Len(answer) = query.topK /\ Len(pages) < MaxPages
  /\ offset' = offset + query.topK
  /\ pc' = FirstStep
  /\ floated' = <<>> /\ keyword' = <<>> /\ semantic' = <<>> /\ pinnedThen' = {}
  /\ matched' = FALSE /\ degraded' = FALSE
  /\ eligibleSeen' = Rows(Visibility)
  /\ UNCHANGED <<store, observed, query, opening, snapshot, attempt, answer, pages, bounds>>

(***************************************************************************)
(* Everyone else                                                           *)
(***************************************************************************)
Write ==
  /\ writes < MaxWrites /\ pc # "answered" /\ writes' = writes + 1
  /\ \E m \in Memories :
       \/ m \in alive /\ alive' = alive \ {m} /\ pinned' = pinned \ {m}
       \/ m \in alive /\ UNCHANGED alive /\ pinned' \in {pinned \union {m}, pinned \ {m}} \ {pinned}
       \/ m = Max(Memories) /\ m \notin alive /\ alive' = alive \union {m} /\ UNCHANGED pinned
  /\ UNCHANGED <<world, observed, query, offset, pc, read, revision, answer, pages, degraded, probes, failures>>
  /\ eligibleSeen' = eligibleSeen \union Rows(Visibility)'

Probe ==
  /\ probes < MaxProbes /\ pc # "answered" /\ probes' = probes + 1
  /\ observed' \in Observations \ {observed}
  /\ UNCHANGED <<store, query, offset, pc, read, revision, answer, pages, eligibleSeen, degraded, writes, failures>>

Next ==
  \/ Float \/ Keyword \/ Open \/ Embed \/ EmbedFails \/ Load \/ Narrow \/ Fuse \/ NextPage
  \/ Write \/ Probe

Spec == Init /\ [][Next]_vars

(***************************************************************************)
(* Properties                                                              *)
(***************************************************************************)
Ids(list) == {list[k].m : k \in DOMAIN list}

\* A page holds at most top_k entries, and no memory twice.
OncePerPage == Len(answer) <= query.topK /\ Cardinality(Ids(answer)) = Len(answer)

\* Nothing is shown that the query's project, tags and treatment of pins did
\* not allow at some time while the request ran.
OnlyEligible == pc = "answered" => Ids(answer) \subseteq eligibleSeen

\* What a channel of the search gets to see: without FTS5 the newest rows only.
Found(m) ==
  \/ /\ query.mode # "semantic" /\ (world.fts \/ query.phrase => world.score[m] > 0)
     /\ world.fts \/ Cardinality({n \in Rows(Visibility) : n > m}) < SearchLimit
  \/ query.mode # "keyword" /\ world.vector[m] # NoVector /\ (matched => world.vector[m] = snapshot.value)

\* A first page is full while there are memories the search can find.
FirstPageFull ==
  pc = "answered" /\ offset = 0 /\ writes = 0 /\ ~ degraded =>
    Len(answer) >= Lesser(query.topK, Cardinality({m \in Rows(Visibility) : Found(m)}))

\* Whatever is pinned, unpinned, added or deleted between the store calls of a
\* request, its page is sound; and over a store at rest it is full, the vectors
\* of other projects not using up the window.  Pins hidden from a search that
\* uses vectors do use it up, and are left aside.
PageSound ==
  /\ OncePerPage /\ OnlyEligible
  /\ query.mode = "keyword" \/ query.includePinned => FirstPageFull

\* A request that began under a known revision ranks only vectors stamped with
\* a revision: however probes fall, it never compares with every vector there is.
SpaceKept == pc \in {"load", "eligible", "fetch"} /\ opening.known => matched

\* A hybrid search that lost its provider or its revision answers exactly what
\* a keyword search would have.
DegradedIsKeyword ==
  pc = "answered" /\ degraded /\ query.mode = "hybrid" /\ writes = 0 =>
    LET pins == IF query.includePinned THEN SearchPinned ELSE <<>>
    IN answer = Page(As(pins, "pinned") \o As(SearchMemory(offset + query.topK, Range(pins)), "keyword"))

Before(list, m, n) == m \in Range(list) /\ (n \in Range(list) => Rank(list, m) < Rank(list, n))
NotAfter(list, m, n) == n \in Range(list) => Before(list, m, n)

\* A hit that neither channel ranks below another, and one ranks above it, is
\* listed before it.
FusionAgrees ==
  pc = "answered" /\ query.mode = "hybrid" /\ ~ degraded =>
    \A j, k \in DOMAIN answer :
      LET m == answer[j].m
          n == answer[k].m
      IN /\ "pinned" \notin {answer[j].channel, answer[k].channel}
         /\ NotAfter(keyword, m, n) /\ NotAfter(semantic, m, n)
         /\ Before(keyword, m, n) \/ Before(semantic, m, n)
         /\ m # n
         => j < k

\* A hybrid search serves both rankings: it lists first what neither of them
\* ranks below, and without vectors it is the keyword search.
HybridSound == FusionAgrees /\ DegradedIsKeyword

\* The pages of a keyword search over a store that does not change are cut from
\* one stream: none repeats an entry and, once a page comes back short, every
\* memory the search can find has been shown, the pins that did not float too.
PagesOfOneStream ==
  writes = 0 /\ query.mode = "keyword" =>
    /\ \A i, j \in DOMAIN pages : (i # j) => Ids(pages[i]) \intersect Ids(pages[j]) = {}
    /\ \A i \in DOMAIN pages : Cardinality(Ids(pages[i])) = Len(pages[i])
    /\ pc = "answered" /\ Len(answer) < query.topK =>
         \A m \in Rows(Visibility) : Found(m) => \E i \in DOMAIN pages : m \in Ids(pages[i])
=============================================================================
