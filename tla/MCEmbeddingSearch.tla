-------------------------- MODULE MCEmbeddingSearch --------------------------
(***************************************************************************)
(* The embedding service's three calls in one run.  They share no variable;*)
(* `part` says which one a behaviour is about, and the others stay at one  *)
(* of their initial states.                                                *)
(*   run       a backfill run over two chunks                              *)
(*   report    a health call over two memories, with a write in between    *)
(*   counters  health calls over one memory at a time, with more writes    *)
(*             and with failing provider calls                             *)
(* and four kinds of search, each with its stores, queries and faults:     *)
(*   races     writes, probes of the revision and a provider failure fall  *)
(*             between the store calls of one request                      *)
(*   pages     a caller pages through keyword searches, with and without   *)
(*             FTS5                                                        *)
(*   ranks     vectors and keywords rank four memories in different        *)
(*             orders, and the provider or the revision may be lost        *)
(*   scopes    half of the memories are out of the query's project or tags *)
(***************************************************************************)
EXTENDS EmbeddingBatch, EmbeddingCoverage, SearchRequest, TLC

CONSTANTS m1, m2, m3, h1, h2, c1, c2, r1, all, global, none

VARIABLE part

health == <<content, row, revision, count, failedOp, searches, naming, report, calm, ops>>
search == <<world, alive, pinned, observed, query, offset, step, floated, keyword, semantic,
            pinnedThen, opening, snapshot, attempt, matched, answer, pages, eligibleSeen, degraded,
            writes, probes, failures>>

(***************************************************************************)
(* The backfill run and the health call.                                   *)
(***************************************************************************)
MCCandidates == <<m1, m2, m3>>
MCAdapters == {[provider |-> "openai", requested |-> 0], [provider |-> "ollama", requested |-> 2]}

Counters == INSTANCE EmbeddingHealth WITH Mem <- Corpus, MaxOps <- 2, MaxCount <- 2

ASSUME Health!HealthAssumption /\ Counters!HealthAssumption

AtMostOne(contents) == \A m, n \in Corpus : (m # n) => "absent" \in {contents[m], contents[n]}

(***************************************************************************)
(* The searches.                                                           *)
(***************************************************************************)
ASSUME Search!SearchAssumption

MCMemories == 1 .. 4
Orders == {q \in [MCMemories -> MCMemories] : {q[m] : m \in MCMemories} = MCMemories}

World(score, similarity, home, tagged, vector, fts) ==
  [score |-> score, similarity |-> similarity, home |-> home, tagged |-> tagged, vector |-> vector,
   fts |-> fts]

Query(mode, k, float, project, tags, pins, phrase) ==
  [mode |-> mode, topK |-> k, pinnedLimit |-> float, project |-> project, tags |-> tags,
   includePinned |-> pins, phrase |-> phrase]

\* A memory that does not match, one without a vector, one of another revision.
RaceWorlds ==
  {World(<<2, 0, 1, 1>>, <<1, 4, 2, 3>>, <<1, 1, global, 2>>, {1, 2, 3}, <<1, 1, 1, 2>>, TRUE),
   World(<<1, 2, 0, 1>>, <<3, 1, 4, 2>>, <<1, global, 1, 1>>, {1, 3, 4}, <<none, 1, 2, 1>>, TRUE)}
RaceQueries ==
  {Query(mode, 2, 1, project, project # all, pins, FALSE) :
     mode \in {"hybrid", "semantic", "keyword"}, project \in {all, 1}, pins \in BOOLEAN}

\* Many ways in which four memories may match, in one project or global.
PageWorlds ==
  {World(score, <<4, 3, 2, 1>>, home, {1, 2, 4}, <<1, 1, 1, 1>>, fts) :
     score \in [MCMemories -> 0 .. 1] \union {<<2, 1, 0, 2>>},
     home \in {<<1, 1, 1, 1>>, <<1, global, 2, global>>}, fts \in BOOLEAN}
PageQueries ==
  {Query("keyword", k, float, project, tags, pins, phrase) :
     k \in {1, 2}, float \in {0, 1}, project \in {all, 1}, tags \in {FALSE}, pins \in BOOLEAN, phrase \in BOOLEAN}

RankWorlds ==
  {World(score, similarity, <<1, 1, 1, 1>>, {}, <<1, 1, 1, 1>>, TRUE) :
     score \in {<<4, 3, 2, 1>>, <<4, 3, 0, 1>>, <<0, 0, 0, 1>>},
     similarity \in {<<1, 2, 3, 4>>, <<2, 4, 1, 3>>}}
RankQueries ==
  {Query("hybrid", k, float, all, FALSE, TRUE, FALSE) : k \in {1, 2}, float \in {0, 1}}

ScopeWorlds ==
  {World(<<0, 1, 0, 2>>, similarity, <<1, 2, 1, global>>, {1, 2, 4}, <<1, 1, 1, 1>>, TRUE) :
     similarity \in Orders}
ScopeQueries ==
  {Query(mode, 1, float, 1, tags, TRUE, FALSE) :
     mode \in {"semantic", "hybrid"}, float \in {0, 1}, tags \in BOOLEAN}

MCWorlds == RaceWorlds \union PageWorlds \union RankWorlds \union ScopeWorlds
MCQueries == RaceQueries \union PageQueries \union RankQueries \union ScopeQueries

MCObservations ==
  {[known |-> TRUE, value |-> 1], [known |-> TRUE, value |-> 2], [known |-> FALSE, value |-> 0]}
Verified == [known |-> TRUE, value |-> 1]
Unverified == [known |-> FALSE, value |-> 0]

(***************************************************************************)
(* One part at a time.                                                     *)
(***************************************************************************)
BatchAtRest == trigger = "job" /\ Init /\ adapter.provider = "openai"
HealthAtRest ==
  /\ content = [m \in Corpus |-> "absent"] /\ row = [m \in Corpus |-> Health!NoRow]
  /\ revision = Health!Unknown
  /\ Health!Init
SearchAtRest ==
  /\ world = World(<<1, 1, 1, 1>>, <<4, 3, 2, 1>>, <<1, 1, 1, 1>>, {1, 2, 4}, <<1, 1, 1, 1>>, TRUE)
  /\ query = Query("keyword", 1, 0, all, FALSE, FALSE, FALSE) /\ observed = Verified
  /\ alive = Memories /\ pinned = {}
  /\ Search!Init

SearchInit ==
  /\ \/ part = "races" /\ world \in RaceWorlds /\ query \in RaceQueries
     \/ /\ part = "pages" /\ world \in PageWorlds /\ query \in PageQueries /\ observed = Verified
        /\ (query.phrase => ~ world.fts) /\ (~ query.includePinned => query.pinnedLimit = 0)
     \/ /\ part = "ranks" /\ world \in RankWorlds /\ query \in RankQueries
        /\ observed \in {Verified, Unverified} /\ alive = Memories
     \/ part = "scopes" /\ world \in ScopeWorlds /\ query \in ScopeQueries /\ observed = Verified
  /\ Search!Init

MCInit ==
  \/ part = "run" /\ HealthAtRest /\ SearchAtRest /\ Init
  \/ part = "report" /\ BatchAtRest /\ SearchAtRest /\ Health!Init
  \/ part = "counters" /\ BatchAtRest /\ SearchAtRest /\ Health!Init /\ AtMostOne(content)
  \/ BatchAtRest /\ HealthAtRest /\ SearchInit

SearchNext ==
  /\ part \in {"races", "pages", "ranks", "scopes"}
  /\ Search!Next
  /\ part # "races" => writes' = 0 /\ probes' <= 1
  /\ part \in {"pages", "scopes"} => probes' + failures' = 0
  /\ part = "ranks" => Len(pages') <= 2
  /\ part \in {"races", "scopes"} => Len(pages') <= 1 /\ offset' = 0

MCNext ==
  /\ UNCHANGED part
  /\ \/ part = "run" /\ Next /\ UNCHANGED <<health, search>>
     \/ part = "report" /\ Health!Next /\ UNCHANGED <<vars, search>>
     \/ part = "counters" /\ Counters!Next /\ AtMostOne(content') /\ UNCHANGED <<vars, search>>
     \/ SearchNext /\ UNCHANGED <<vars, health>>

MCSpec == MCInit /\ [][MCNext]_<<vars, part, health, search>>

Symmetry == Permutations({h1, h2}) \union Permutations({c1, c2})
=============================================================================
