---------------------------- MODULE SearchRequest ----------------------------
(***************************************************************************)
(* The search of one caller (HybridSearch), its program counter `step`,    *)
(* and what the caller may rely on.                                        *)
(***************************************************************************)
EXTENDS Naturals

CONSTANTS Memories, Worlds, Queries, AnyProject, Global, NoVector, Observations, RrfK,
          SearchLimit, MaxWrites, MaxProbes, MaxFailures, MaxPages

VARIABLES world, alive, pinned, observed, query, offset, step, floated, keyword, semantic,
          pinnedThen, opening, snapshot, attempt, matched, answer, pages, eligibleSeen, degraded,
          writes, probes, failures

Search == INSTANCE HybridSearch WITH pc <- step

\* A page has no repeated entry and nothing the query does not allow, and is full
\* while there is something to show, whatever is written between the store calls.
PageSound == Search!PageSound

\* A request that began under a known revision never ranks vectors of any other space.
SpaceKept == Search!SpaceKept

\* Hybrid search lists first what neither ranking puts below, and degrades to
\* exactly the keyword search.
HybridSound == Search!HybridSound

\* The pages of a keyword search are cut from one stream, without repeats or gaps.
PagesOfOneStream == Search!PagesOfOneStream
=============================================================================
