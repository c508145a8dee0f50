-------------------------- MODULE EmbeddingCoverage --------------------------
(***************************************************************************)
(* What health says of the embeddings (EmbeddingHealth), beside the runs   *)
(* of EmbeddingBatch: over a corpus of its own, since a report may come at *)
(* any time and not only after a run.                                      *)
(***************************************************************************)
EXTENDS Integers

CONSTANTS Corpus, Contents, Revs, NoRev, MaxOps, MaxCount

VARIABLES content, row, revision, count, failedOp, searches, naming, report, calm, ops

Health == INSTANCE EmbeddingHealth WITH Mem <- Corpus

\* The coverage a health call reports is the work a backfill would do, an unverified
\* revision never overstates it, and a count of failures comes with the
\* operation's name.
HealthHonest == Health!HealthHonest
=============================================================================
