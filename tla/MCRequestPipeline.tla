------------------------- MODULE MCRequestPipeline -------------------------
(***************************************************************************)
(* The request pipeline and the metrics recorder under several settings,   *)
(* one of which `part` picks.  The pipeline: one request of every kind     *)
(* through every guard ("guards"), two clients over several windows        *)
(* ("budget"), overlapping requests on both surfaces ("accounts").  The    *)
(* recorder: overlapping threads ("threads"), overlapping scrapes          *)
(* ("scrapes").  The settings differ in the limit set, the requests that   *)
(* arrive, the bounds, and in who takes part.                              *)
(***************************************************************************)
EXTENDS HttpService

VARIABLE part

pipeline == <<now, req, rpm, timestamps, gauge, granted, promise, lastSweep>>
recorder == <<actor, samples, healthGauge, healthy, lock, errors, slot, answer, cached,
              payload, bounds, history>>

MCAnyPort == {[name |-> "lan", port |-> "*"]}

Plain(c, path) ==
  [client |-> c, path |-> path, host |-> [name |-> "lan", port |-> "8000"],
   bearer |-> "right", xkey |-> "none", preflight |-> FALSE, argsKnown |-> TRUE]

\* One client, every path, and every way to fail a guard.
MCGuardInputs ==
  LET host(name, port) == [name |-> name, port |-> port]
  IN {[Plain("c1", path) EXCEPT !.host = h] :
        path \in Http!Paths,
        h \in {Http!NoHost, host("lan", Http!NoPort), host("lan", "8000"),
               host("localhost", "8000"), host("other", "8000")}}
     \cup {[Plain("c1", path) EXCEPT !.bearer = b, !.xkey = x] :
             path \in Http!Paths \ {"/health"}, b \in Http!Keys, x \in Http!Keys}
     \cup {[Plain("c1", "/mcp") EXCEPT !.argsKnown = FALSE],
           [Plain("c1", "/api/v1/memory") EXCEPT !.bearer = "none", !.preflight = TRUE]}

\* Well-formed requests of two clients to one REST route.
Budget == INSTANCE RequestPipeline WITH
  Inputs <- {Plain(c, "/api/v1/memory") : c \in Clients}, MaxTime <- 11

\* One client on both surfaces, right and wrong.
Accounts == INSTANCE RequestPipeline WITH
  Inputs <- {Plain("c1", path) : path \in {"/mcp", "/health", "/api/v1/memory"}}
            \cup {[Plain("c1", "/mcp/") EXCEPT !.argsKnown = FALSE],
                  [Plain("c1", "/mcp") EXCEPT !.bearer = "wrong"]},
  MaxTime <- 0

ThreadsOnly == INSTANCE MetricsRecorder WITH
  gauge <- healthGauge, MaxScrapes <- 0, MaxFaults <- MaxFailures

Scrapes == INSTANCE MetricsRecorder WITH
  gauge <- healthGauge, MaxOps <- 1, MaxFaults <- 1

ASSUME /\ Http!PipelineAssumption /\ Budget!PipelineAssumption /\ Accounts!PipelineAssumption
       /\ ThreadsOnly!RecorderAssumption /\ Scrapes!RecorderAssumption

MCInit ==
  /\ Http!Init
  /\ \/ part = "guards" /\ rpm = 1 /\ ThreadsOnly!Init
     \/ part = "budget" /\ rpm = 2 /\ ThreadsOnly!Init
     \/ part = "accounts" /\ rpm = 0 /\ ThreadsOnly!Init
     \/ part = "threads" /\ rpm = 0 /\ ThreadsOnly!Init
     \/ part = "scrapes" /\ rpm = 0 /\ Scrapes!Init

\* One slot for requests is used but in "accounts", one thread in "scrapes".
MCNext ==
  /\ UNCHANGED part
  /\ \/ part = "guards" /\ Http!Next /\ UNCHANGED recorder
     \/ part = "budget" /\ Budget!Next /\ UNCHANGED recorder
     \/ part = "accounts" /\ Accounts!Next /\ UNCHANGED recorder
     \/ part = "threads" /\ ThreadsOnly!Next /\ UNCHANGED pipeline
     \/ part = "scrapes" /\ Scrapes!Next /\ UNCHANGED pipeline
  /\ part # "accounts" => req'["r2"] = Http!Unused /\ req'["r3"] = Http!Unused
  /\ part = "scrapes" => actor'["t2"].pc = "idle" /\ actor'["t3"].pc = "idle"

MCSpec == MCInit /\ [][MCNext]_<<part, pipeline, recorder>>
=============================================================================
