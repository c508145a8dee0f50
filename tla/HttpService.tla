----------------------------- MODULE HttpService -----------------------------
(***************************************************************************)
(* What the serving process does for a request beside the store: the       *)
(* guards and accounts of the request (RequestPipeline) and the recorder   *)
(* behind its metrics (MetricsRecorder).  The two share no variable; each  *)
(* keeps a gauge, and the recorder's is healthGauge here.                  *)
(***************************************************************************)
EXTENDS Integers

CONSTANTS Requests, Clients, Inputs, ApiHosts, McpHosts, KeySet, CorsOn, Rpms, Window,
          TicksPerSecond, MaxTime

VARIABLES now, req, rpm, timestamps, gauge, granted, promise, lastSweep

Http == INSTANCE RequestPipeline

CONSTANTS Threads, Scrapers, Kinds, MaxEntries, MaxPayload, MaxOps, MaxScrapes, MaxFailures

VARIABLES actor, samples, healthGauge, healthy, lock, errors, slot, answer, cached, payload,
          bounds, history

Metrics == INSTANCE MetricsRecorder WITH gauge <- healthGauge, MaxFaults <- MaxFailures

\* A handler or tool runs only for a request that every guard of its surface admits:
\* Host, API key and rate limit.
OnlyAdmittedRun == Http!OnlyAdmittedRun

\* The rate limiter keeps its word: one slot per request, no window overrun, an
\* honest Retry-After, and no client remembered for ever.
LimiterSound == Http!LimiterSound

\* Every request and every tool execution is accounted for once, and the in-flight
\* gauges are what is in progress.
AccountsExact == Http!AccountsExact

\* The recorder's health, its lost samples, the scrape slot, the prefix cache and the
\* bodies served are what the threads and scrapes made them.
RecorderSound == Metrics!RecorderSound
=============================================================================
