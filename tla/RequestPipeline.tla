-------------------------- MODULE RequestPipeline --------------------------
(***************************************************************************)
(* The guards every HTTP request passes on its way to a route or an MCP    *)
(* tool, and the accounts kept of it: metrics, host allowlist, rate limit, *)
(* CORS, API key, router, MCP transport (interfaces/api/middleware,        *)
(* interfaces/api/app.py, interfaces/mcp/server.py).                       *)
(*                                                                         *)
(* Each guard hands the request to the next one with an await, so the      *)
(* requests interleave between guards; what one guard does is one step of  *)
(* the event loop.  A request's task can be cancelled at any await.  A     *)
(* request keeps its record when it is over ("done"), until the slot is    *)
(* used again.  Time is in ticks, TicksPerSecond of them to a second.      *)
(***************************************************************************)
EXTENDS Integers, Sequences, FiniteSets

CONSTANTS
    Requests,        \* slots for requests in progress at one time
    Clients,         \* client addresses
    Inputs,          \* the requests that may arrive: see InputSet
    ApiHosts,        \* host allowlist of the REST surface
    McpHosts,        \* OC_MCP_ALLOWED_HOSTS
    KeySet,          \* OC_API_KEY is set
    CorsOn,          \* OC_API_CORS_ORIGINS is set
    Rpms,            \* what OC_API_RATE_LIMIT_RPM may be set to
    Window,          \* length of the rate window, in ticks
    TicksPerSecond,
    MaxTime          \* bound on the clock

AnyPort == "*"
NoPort == "none"
NoHost == [name |-> "", port |-> NoPort]
Hosts == [name : STRING, port : STRING]
\* "/docs" stands for the three pages of the OpenAPI documentation.
Paths == {"/health", "/api/v1/health", "/docs", "/api/v1/memory", "/mcp", "/mcp/"}
Keys == {"none", "right", "wrong"}

(* A request: where it comes from, what it asks for, what it shows, and    *)
(* for MCP whether the arguments of the tool call are declared ones.       *)
InputSet ==
    [client : Clients, path : Paths, host : Hosts, bearer : Keys,
     xkey : Keys, preflight : BOOLEAN, argsKnown : BOOLEAN]

PipelineAssumption ==
    /\ IsFiniteSet(Requests)
    /\ Clients # {} /\ Inputs \subseteq InputSet
    /\ KeySet \in BOOLEAN /\ CorsOn \in BOOLEAN
    /\ Rpms \subseteq Int
    /\ Window \in Nat \ {0} /\ TicksPerSecond \in Nat \ {0}
    /\ MaxTime \in Nat

VARIABLES
    now,          \* time.monotonic()
    req,          \* the request of each slot
    rpm,          \* RateLimitMiddleware._rpm
    timestamps,   \* RateLimitMiddleware._requests
    gauge,        \* oc_requests_inflight, per surface
    granted,      \* history: when each client was let in, over the last window
    promise,      \* history: when each refused client was told to come back
    lastSweep     \* history: when a request was last let in

vars == <<now, req, rpm, timestamps, gauge, granted, promise, lastSweep>>
limiter == <<rpm, timestamps, granted, promise, lastSweep>>

Never == -1
NoStatus == 0

(* What is kept of a request: the stage it is at, the path the router sees,*)
(* the slots it was charged, whether a handler ran and showed the database *)
(* paths, the status put on the wire, what observe_http recorded and how   *)
(* often, and the same of its tool: running, executions, observations.     *)
Fresh(in) ==
    [stage |-> "host", in |-> in, path |-> in.path, charged |-> 0,
     ran |-> FALSE, shown |-> FALSE, sent |-> NoStatus, seen |-> NoStatus,
     observed |-> 0, running |-> FALSE, executed |-> 0, outcomes |-> 0,
     outcome |-> "none"]

Unused == [Fresh([client |-> CHOOSE c \in Clients : TRUE, path |-> "/health",
                  host |-> NoHost, bearer |-> "none", xkey |-> "none",
                  preflight |-> FALSE, argsKnown |-> TRUE])
           EXCEPT !.stage = "done"]

Init ==
    /\ now = 0
    /\ req = [r \in Requests |-> Unused]
    /\ rpm \in Rpms /\ timestamps = <<>>
    /\ gauge = [rest |-> 0, mcp |-> 0]
    /\ granted = [c \in Clients |-> <<>>]
    /\ promise = [c \in Clients |-> Never]
    /\ lastSweep = Never - Window

-----------------------------------------------------------------------------
(* MetricsMiddleware: the outermost layer.                                 *)

Arrive(r, in) ==
    /\ req[r].stage = "done" /\ ~req[r].running
    /\ req' = [req EXCEPT ![r] = Fresh(in)]
    /\ gauge' = [gauge EXCEPT !.rest = @ + 1]
    /\ UNCHANGED <<now, limiter>>

(* normalize_http_route: probes and docs are not application traffic.      *)
Excluded(path) == path \in {"/health", "/api/v1/health", "/docs"}

(* What the finally block finds in status_code: the status that was        *)
(* started, or the 500 the middleware began with.                          *)
Recorded(status) == IF status = NoStatus THEN 500 ELSE status

(* The path is the one the client sent: the scope is read before the app   *)
(* is called, so the router's rewriting of /mcp does not show.             *)
Observe(q) ==
    IF Excluded(q.in.path) THEN q
    ELSE [q EXCEPT !.observed = @ + 1, !.seen = Recorded(q.sent)]

(* The finally block, whatever ended the request.                          *)
Leave(r, q) ==
    /\ req' = [req EXCEPT ![r] = [Observe(q) EXCEPT !.stage = "done"]]
    /\ gauge' = [gauge EXCEPT !.rest = @ - 1]

(* Bug: the gauge is lowered after the call instead of in a finally block. *)
CancelWithoutFinally(r) ==
    /\ req[r].stage # "done"
    /\ req' = [req EXCEPT ![r] = [Observe(@) EXCEPT !.stage = "done"]]
    /\ UNCHANGED <<now, gauge, limiter>>

(* The request's task is cancelled, or the client is gone: whatever layer  *)
(* the request is at, only the metrics layer's finally block runs.  A tool *)
(* runs in a task of its own and is cancelled on its own, or ends by       *)
(* itself later.                                                           *)
Cancel(r) ==
    /\ req[r].stage # "done"
    /\ Leave(r, req[r])
    /\ UNCHANGED <<now, limiter>>

(* The response has been sent to the end.                                  *)
EndBody(r) ==
    /\ req[r].stage = "body"
    /\ Leave(r, req[r])
    /\ UNCHANGED <<now, limiter>>

(* A layer answers: the response starts, its body follows.                 *)
Respond(q, status) == [q EXCEPT !.sent = status, !.stage = "body"]

-----------------------------------------------------------------------------
(* HostAllowlistMiddleware.                                                *)

AlwaysAllowed ==
    [name : {"127.0.0.1", "localhost", "[::1]"}, port : {NoPort, AnyPort}]
        \cup {[name |-> "testserver", port |-> NoPort]}

(* An entry for any port also matches the bare name: browsers leave out    *)
(* default ports.                                                          *)
HostAllowed(host, allowed) ==
    /\ host # NoHost
    /\ \E e \in allowed :
          host = e \/ (e.port = AnyPort /\ e.name = host.name)

SkipsHostCheck(path) == path \in {"/mcp", "/mcp/"}

HostCheck(r) ==
    LET q == req[r]
        ok == \/ SkipsHostCheck(q.path)
              \/ HostAllowed(q.in.host, AlwaysAllowed \cup ApiHosts)
    IN /\ q.stage = "host"
       /\ req' = [req EXCEPT ![r] = IF ok THEN [q EXCEPT !.stage = "limit"]
                                          ELSE Respond(q, 421)]
       /\ UNCHANGED <<now, gauge, limiter>>

-----------------------------------------------------------------------------
(* RateLimitMiddleware.                                                    *)

(* The comprehension [t for t in times if t > cutoff]: the k-th of the     *)
(* timestamps that are kept is the one with k - 1 kept before it.          *)
Later(times, cutoff) ==
    LET kept == {i \in DOMAIN times : times[i] > cutoff}
    IN [k \in 1 .. Cardinality(kept) |->
          times[CHOOSE i \in kept : Cardinality({j \in kept : j <= i}) = k]]

Live(times) == Later(times, now - Window)

Times(c) == IF c \in DOMAIN timestamps THEN timestamps[c] ELSE <<>>

(* Bug: the limit is overrun by one. *)
FullPastLimit(times) == Len(times) > rpm

Full(times) == Len(times) >= rpm

(* The Retry-After header, in seconds; int() drops the fraction.           *)
RetryAfter(times) ==
    LET wait == ((Head(times) - (now - Window)) \div TicksPerSecond) + 1
    IN IF wait > 1 THEN wait ELSE 1

Remember(c, times) ==
    [d \in DOMAIN timestamps \cup {c} |-> IF d = c THEN times ELSE timestamps[d]]

(* The windows of the other clients lose what is expired, and a client     *)
(* with nothing left is forgotten.                                         *)
Sweep(times, c) ==
    LET kept == {d \in DOMAIN times : d = c \/ Live(times[d]) # <<>>}
    IN [d \in kept |-> IF d = c THEN times[d] ELSE Live(times[d])]

RateLimit(r) ==
    LET q == req[r]
        c == q.in.client
        live == Live(Times(c))
    IN /\ q.stage = "limit"
       /\ \/ /\ rpm <= 0
             /\ req' = [req EXCEPT ![r].stage = "cors"]
             /\ UNCHANGED limiter
          \/ /\ rpm > 0 /\ Full(live)
             /\ req' = [req EXCEPT ![r] = Respond(q, 429)]
             /\ promise' = [promise EXCEPT
                              ![c] = now + RetryAfter(live) * TicksPerSecond]
             /\ UNCHANGED <<rpm, timestamps, granted, lastSweep>>
          \/ /\ rpm > 0 /\ ~Full(live)
             /\ req' = [req EXCEPT ![r].stage = "cors", ![r].charged = @ + 1]
             /\ timestamps' = Sweep(Remember(c, Append(live, now)), c)
             /\ granted' = [granted EXCEPT ![c] = Append(@, now)]
             /\ promise' = [promise EXCEPT ![c] = Never]
             /\ lastSweep' = now
             /\ UNCHANGED rpm
       /\ UNCHANGED <<now, gauge>>

(* The clock; grants older than a window leave the history.                *)
Tick ==
    /\ now < MaxTime
    /\ now' = now + 1
    /\ granted' = [c \in Clients |-> Later(granted[c], now' - Window)]
    /\ UNCHANGED <<req, rpm, timestamps, gauge, promise, lastSweep>>

-----------------------------------------------------------------------------
(* CORSMiddleware answers preflight requests itself.                       *)
Cors(r) ==
    /\ req[r].stage = "cors"
    /\ req' = [req EXCEPT ![r] = IF CorsOn /\ @.in.preflight
                                   THEN Respond(@, 200)
                                   ELSE [@ EXCEPT !.stage = "auth"]]
    /\ UNCHANGED <<now, gauge, limiter>>

-----------------------------------------------------------------------------
(* APIKeyMiddleware.                                                       *)

(* A bearer token, right or wrong, hides the X-API-Key header.             *)
ExtractKey(in) == IF in.bearer # "none" THEN in.bearer ELSE in.xkey

KeyMatches(key) == key = "right"

(* request_has_key: for the exempt route that shows more to key holders.   *)
RequestHasKey(in) == KeyMatches(ExtractKey(in))

(* Bug: the MCP mount is taken for a surface with a guard of its own. *)
ExemptWithMcp(path) ==
    path \in {"/health", "/api/v1/health", "/docs", "/mcp", "/mcp/"}

Exempt(path) == path \in {"/health", "/api/v1/health", "/docs"}

Auth(r) ==
    LET q == req[r]
        key == ExtractKey(q.in)
        status == CASE ~KeySet \/ Exempt(q.path) -> NoStatus
                    [] key = "none" -> 401
                    [] ~KeyMatches(key) -> 403
                    [] OTHER -> NoStatus
    IN /\ q.stage = "auth"
       /\ req' = [req EXCEPT ![r] =
                    IF status = NoStatus THEN [q EXCEPT !.stage = "route"]
                                         ELSE Respond(q, status)]
       /\ UNCHANGED <<now, gauge, limiter>>

-----------------------------------------------------------------------------
(* The router of the app.                                                  *)

(* A bare /mcp is handed back to the router as /mcp/, which the mount      *)
(* serves; the guards are behind it already.                               *)
ServeExactMcpPath(q) == [q EXCEPT !.path = "/mcp/", !.stage = "route"]

Route(r) ==
    LET q == req[r]
    IN /\ q.stage = "route"
       /\ req' = [req EXCEPT ![r] =
                    CASE q.path = "/mcp" -> ServeExactMcpPath(q)
                      [] q.path = "/mcp/" -> [q EXCEPT !.stage = "transport"]
                      [] OTHER -> [q EXCEPT !.stage = "handler"]]
       /\ UNCHANGED <<now, gauge, limiter>>

(* Full health goes to everyone, the database and config paths to key      *)
(* holders, or to everyone when there is no key.                           *)
ShowsPaths(q) ==
    q.path = "/api/v1/health" /\ (KeySet => RequestHasKey(q.in))

(* The statuses of the app's exception handlers.                           *)
StatusOf ==
    [ok |-> 200, NotFoundError |-> 404, ValidationError |-> 422,
     ProviderError |-> 502, FileNotFoundError |-> 400]

Handle(r, end) ==
    LET q == req[r]
    IN /\ q.stage = "handler"
       /\ q.path \in {"/health", "/docs"} => end = "ok"
       /\ req' = [req EXCEPT ![r] =
                    [Respond(q, StatusOf[end]) EXCEPT
                       !.ran = TRUE, !.shown = (end = "ok" /\ ShowsPaths(q))]]
       /\ UNCHANGED <<now, gauge, limiter>>

(* Any other exception goes through every layer; the server's outermost    *)
(* error layer, outside the metrics, answers 500.                          *)
HandleRaises(r) ==
    LET q == [req[r] EXCEPT !.ran = TRUE]
    IN /\ q.stage = "handler" /\ q.path \notin {"/health", "/docs"}
       /\ req' = [req EXCEPT ![r] =
                    [Observe(q) EXCEPT !.stage = "done", !.sent = 500]]
       /\ gauge' = [gauge EXCEPT !.rest = @ - 1]
       /\ UNCHANGED <<now, limiter>>

-----------------------------------------------------------------------------
(* The MCP surface.                                                        *)

(* FastMCP's transport security: unlike the REST allowlist, an entry for   *)
(* any port wants a port in the header.                                    *)
McpHostAllowed(host) ==
    /\ host # NoHost
    /\ \E e \in McpHosts :
          host = e \/ (e.port = AnyPort /\ e.name = host.name
                         /\ host.port # NoPort)

Transport(r) ==
    /\ req[r].stage = "transport"
    /\ req' = [req EXCEPT ![r] = IF McpHostAllowed(@.in.host)
                                   THEN [@ EXCEPT !.stage = "call"]
                                   ELSE Respond(@, 421)]
    /\ UNCHANGED <<now, gauge, limiter>>

(* _reject_unknown_arguments, before the handler is dispatched.            *)
RefusesArguments(q) == ~q.in.argsKnown

(* call_tool.  A refused call is answered as a tool error, HTTP 200.       *)
CallTool(r) ==
    LET q == req[r]
    IN /\ q.stage = "call"
       /\ IF RefusesArguments(q)
            THEN /\ req' = [req EXCEPT ![r] = Respond(q, 200)]
                 /\ UNCHANGED gauge
            ELSE /\ req' = [req EXCEPT ![r] =
                              [q EXCEPT !.stage = "tool", !.ran = TRUE,
                                        !.running = TRUE, !.executed = @ + 1]]
                 /\ gauge' = [gauge EXCEPT !.mcp = @ + 1]
       /\ UNCHANGED <<now, limiter>>

(* _mcp_outcome of a result's status, and of the exceptions.               *)
McpOutcomes == {"ok", "started", "partial", "rejected", "error"}

(* The finally block of async_handler.                                     *)
ToolOver(q, outcome) ==
    [q EXCEPT !.running = FALSE, !.outcomes = @ + 1, !.outcome = outcome]

(* The handler returns or raises.  The answer is HTTP 200 either way, and  *)
(* goes nowhere when the request is over.                                  *)
EndTool(r, outcome) ==
    LET q == req[r]
        over == ToolOver(q, outcome)
    IN /\ q.running
       /\ req' = [req EXCEPT ![r] = IF q.stage = "tool" THEN Respond(over, 200)
                                                        ELSE over]
       /\ gauge' = [gauge EXCEPT !.mcp = @ - 1]
       /\ UNCHANGED <<now, limiter>>

(* The handler of a request that is over is cancelled.                     *)
CancelTool(r) ==
    /\ req[r].running /\ req[r].stage = "done"
    /\ req' = [req EXCEPT ![r] = ToolOver(@, "cancelled")]
    /\ gauge' = [gauge EXCEPT !.mcp = @ - 1]
    /\ UNCHANGED <<now, limiter>>

Next ==
    \/ Tick
    \/ \E r \in Requests :
          \/ \E in \in Inputs : Arrive(r, in)
          \/ HostCheck(r) \/ RateLimit(r) \/ Cors(r) \/ Auth(r) \/ Route(r)
          \/ \E end \in DOMAIN StatusOf : Handle(r, end)
          \/ HandleRaises(r)
          \/ Transport(r) \/ CallTool(r)
          \/ \E outcome \in McpOutcomes : EndTool(r, outcome)
          \/ CancelTool(r) \/ EndBody(r) \/ Cancel(r)

Spec == Init /\ [][Next]_vars

-----------------------------------------------------------------------------
(* No handler runs and no tool executes for a request that some guard of   *)
(* its surface should have stopped: its Host is allowed there, it shows    *)
(* the key unless the path is exempt, it was charged a slot; and the       *)
(* database paths in the health report are shown to key holders only.      *)
(* The two surfaces have guards of their own for Host and share the rest.  *)
OnlyAdmittedRun ==
    \A r \in Requests :
       LET q == req[r]
           onMcp == q.in.path \in {"/mcp", "/mcp/"}
       IN /\ q.ran =>
               /\ IF onMcp THEN McpHostAllowed(q.in.host)
                           ELSE HostAllowed(q.in.host, AlwaysAllowed \cup ApiHosts)
               /\ KeySet => \/ q.in.path \in {"/health", "/api/v1/health", "/docs"}
                            \/ RequestHasKey(q.in)
               /\ rpm > 0 => q.charged = 1
          /\ q.shown => (KeySet => RequestHasKey(q.in))

(* A request is charged one slot of its client's budget at most, however   *)
(* the router hands it on, and none when the REST allowlist refused its    *)
(* Host: a forged Host is rejected before the limiter sees it.             *)
OneSlotPerRequest ==
    \A r \in Requests :
       /\ req[r].charged <= 1
       /\ (req[r].sent = 421 /\ ~SkipsHostCheck(req[r].in.path)) => req[r].charged = 0

(* A client is let in at most rpm times in any window, whatever the other  *)
(* clients' requests sweep away.                                           *)
WindowRespected ==
    rpm > 0 => \A c \in Clients : Len(granted[c]) <= rpm

(* A client that was refused, and waits for the seconds it was told, has a *)
(* slot, unless another request of the same client took it in between.     *)
RetryAfterHonest ==
    \A c \in Clients :
       (promise[c] # Never /\ now >= promise[c]) => Len(Live(Times(c))) < rpm

(* The limiter remembers no client that was idle for a whole window before *)
(* the last request that was let in: its table does not grow for ever.     *)
NoIdleClients ==
    \A c \in DOMAIN timestamps :
       \E i \in DOMAIN timestamps[c] : timestamps[c][i] > lastSweep - Window

(* The limiter keeps its word to every client: all four of the above.      *)
LimiterSound == OneSlotPerRequest /\ WindowRespected /\ RetryAfterHonest /\ NoIdleClients

(* The in-flight gauges are the requests and the handlers in progress,     *)
(* cancelled ones and handlers that outlive their request included.        *)
GaugesExact ==
    /\ gauge.rest = Cardinality({r \in Requests : req[r].stage # "done"})
    /\ gauge.mcp = Cardinality({r \in Requests : req[r].running})

(* A request that is over was observed once, under the status the client   *)
(* got, or as a 500 when it got none; the health probes never are.         *)
ObservedOnce ==
    \A r \in Requests :
       LET q == req[r]
       IN /\ q.observed <= 1
          /\ (q.observed = 1) =>
                q.seen = (IF q.sent = NoStatus THEN 500 ELSE q.sent)
          /\ (q.stage = "done" /\ q # Unused) =>
                (q.observed = 1 <=> ~Excluded(q.in.path))

(* Every execution of a tool is observed once when it ends, a call with    *)
(* undeclared arguments is never executed.                                 *)
ToolObservedOnce ==
    \A r \in Requests :
       LET q == req[r]
       IN /\ q.executed = q.outcomes + (IF q.running THEN 1 ELSE 0)
          /\ q.executed <= 1
          /\ q.executed = 1 => q.in.argsKnown

(* The accounts kept of requests and tools are exact: all three above.     *)
AccountsExact == GaugesExact /\ ObservedOnce /\ ToolObservedOnce
=============================================================================
