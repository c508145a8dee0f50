-------------------------- MODULE MetricsRecorder --------------------------
(***************************************************************************)
(* PrometheusMetricsRecorder: threads record observations, publish the     *)
(* recorder's own health, and the /metrics route serializes the registry   *)
(* in a worker thread behind a slot for one scrape                         *)
(* (infrastructure/observability/prometheus_recorder.py and                *)
(* cached_exporter.py, the /metrics route of interfaces/api/app.py).       *)
(*                                                                         *)
(* A family stands for one of its series; what is kept of it is how many   *)
(* samples it took.  Any call of the Prometheus client may fail, at most   *)
(* MaxFaults times, and so may the creation of the worker's task.  The     *)
(* caches of children are left out: labels() returns the same child to all *)
(* who ask.                                                                *)
(***************************************************************************)
EXTENDS Naturals, Sequences, FiniteSets

CONSTANTS
    Threads,      \* threads that record
    Scrapers,     \* requests to /metrics
    Kinds,        \* the observations made: see Parts
    MaxEntries,   \* entries of the exporter's prefix cache
    MaxPayload,   \* payload bytes of the prefix cache
    MaxOps,       \* bound on the observations
    MaxScrapes,   \* bound on the scrapes
    MaxFaults     \* bound on the faults

(* The families each observation updates, in this order.                   *)
Parts ==
    [inflight     |-> <<"requests_inflight">>,
     http         |-> <<"http_requests", "http_duration">>,
     mcp          |-> <<"mcp_executions", "mcp_duration">>,
     store_lock   |-> <<"lock_wait", "lock_hold">>,
     embedding    |-> <<"embedding_operations", "embedding_duration">>,
     search_stage |-> <<"search_stage_duration">>,
     search_fallback |-> <<"search_fallbacks">>,
     job          |-> <<"job_runs", "job_duration">>,
     job_last_success |-> <<"job_last_success">>,
     backfill_item |-> <<"backfill_items">>]

Families == UNION {{Parts[k][i] : i \in DOMAIN Parts[k]} : k \in Kinds}

(* Bytes a family's prefix takes in the cache: two sizes tell the entry    *)
(* and the payload limits apart.                                           *)
SizeOf(f) == IF f \in {"http_duration", "lock_hold"} THEN 2 ELSE 1

Nobody == "nobody"

RecorderAssumption ==
    /\ IsFiniteSet(Threads) /\ IsFiniteSet(Scrapers)
    /\ Threads \cap Scrapers = {}
    /\ Nobody \notin Threads \cup Scrapers
    /\ Kinds \subseteq DOMAIN Parts
    /\ MaxEntries \in Nat /\ MaxPayload \in Nat
    /\ MaxOps \in Nat /\ MaxScrapes \in Nat /\ MaxFaults \in Nat

VARIABLES
    actor,     \* what each thread, and the worker of each scrape, is doing
    samples,   \* samples each family took
    gauge,     \* oc_metrics_recorder_healthy
    healthy,   \* _healthy
    lock,      \* holder of _health_lock
    errors,    \* oc_metrics_recorder_errors_total
    slot,      \* _scrape_slot is taken
    answer,    \* of each scraper's last request
    cached,    \* the families with a prefix in the exporter's cache
    payload,   \* _payload_bytes
    bounds,    \* observations, scrapes and faults left
    history    \* the last health published, publications and errors lost,
               \* parts of observations that were not recorded

vars == <<actor, samples, gauge, healthy, lock, errors, slot, answer, cached,
          payload, bounds, history>>
health == <<gauge, healthy, lock, errors>>
export == <<slot, answer, cached, payload>>

Actors == Threads \cup Scrapers
Idle == [pc |-> "idle", kind |-> "none", next |-> 0, body |-> {},
         start |-> <<>>]

Init ==
    /\ actor = [a \in Actors |-> Idle]
    /\ samples = [f \in Families |-> 0]
    /\ gauge = 1 /\ healthy = TRUE /\ lock = Nobody /\ errors = 0
    /\ slot = FALSE /\ cached = {} /\ payload = 0
    /\ answer = [s \in Scrapers |-> "none"]
    /\ bounds = [ops |-> MaxOps, scrapes |-> MaxScrapes, faults |-> MaxFaults]
    /\ history = [last |-> "success", unpublished |-> FALSE, uncounted |-> 0,
                  missing |-> 0]

Goto(a, pc) == actor' = [actor EXCEPT ![a].pc = pc]

(* A call of the client goes through, or fails and costs a fault.          *)
Works == UNCHANGED bounds
Fails ==
    /\ bounds.faults > 0
    /\ bounds' = [bounds EXCEPT !.faults = @ - 1]

-----------------------------------------------------------------------------
(* _safe(operation, callback).                                             *)

Begin(t, kind) ==
    /\ actor[t].pc = "idle" /\ bounds.ops > 0
    /\ actor' = [actor EXCEPT ![t] = [Idle EXCEPT !.pc = "observe",
                                                  !.kind = kind, !.next = 1]]
    /\ bounds' = [bounds EXCEPT !.ops = @ - 1]
    /\ UNCHANGED <<samples, health, export, history>>

(* Where _safe goes when the callback raised.                              *)
AfterFailure == "failed"

(* The next family of the observation.  A failure leaves what is recorded  *)
(* already and skips the rest.                                             *)
ObservePart(t) ==
    LET a == actor[t]
        parts == Parts[a.kind]
    IN /\ a.pc = "observe"
       /\ \/ /\ Works
             /\ samples' = [samples EXCEPT ![parts[a.next]] = @ + 1]
             /\ actor' = [actor EXCEPT
                            ![t].next = @ + 1,
                            ![t].pc = IF a.next = Len(parts) THEN "mark" ELSE @]
             /\ UNCHANGED history
          \/ /\ Fails
             /\ Goto(t, AfterFailure)
             /\ history' = [history EXCEPT
                              !.missing = @ + (Len(parts) + 1 - a.next)]
             /\ UNCHANGED samples
       /\ UNCHANGED <<health, export>>

(* Bug: the success path does without the lock. *)
MaySucceedUnlocked(t) == TRUE

(* _mark_success enters the lock.                                          *)
MaySucceed(t) == lock = Nobody

(* _mark_success: nothing to publish while the recorder is healthy.        *)
MarkSuccess(t) ==
    /\ actor[t].pc = "mark" /\ MaySucceed(t)
    /\ IF healthy
         THEN /\ Goto(t, "idle")
              /\ history' = [history EXCEPT !.last = "success"]
              /\ UNCHANGED lock
         ELSE /\ Goto(t, "publish")
              /\ lock' = t
              /\ UNCHANGED history
    /\ UNCHANGED <<samples, gauge, healthy, errors, export, bounds>>

(* set(1).  If it raises, the lock is left and the operation has failed.   *)
PublishSuccess(t) ==
    /\ actor[t].pc = "publish"
    /\ \/ /\ Works /\ gauge' = 1 /\ Goto(t, "recovered")
          /\ UNCHANGED lock
       \/ /\ Fails /\ Goto(t, "failed") /\ lock' = Nobody
          /\ UNCHANGED gauge
    /\ UNCHANGED <<samples, healthy, errors, export, history>>

(* _healthy follows the gauge, and the lock is left.                       *)
Recovered(t) ==
    /\ actor[t].pc = "recovered"
    /\ healthy' = TRUE
    /\ lock' = Nobody
    /\ Goto(t, "idle")
    /\ history' = [history EXCEPT !.last = "success", !.unpublished = FALSE]
    /\ UNCHANGED <<samples, gauge, errors, export, bounds>>

(* _mark_error: the state first, so that a recording that succeeds later   *)
(* publishes again even if publishing this failure fails.                  *)
MarkError(a) ==
    /\ actor[a].pc = "failed" /\ lock = Nobody
    /\ lock' = a
    /\ healthy' = FALSE
    /\ history' = [history EXCEPT !.last = "failure"]
    /\ Goto(a, "unhealthy")
    /\ UNCHANGED <<samples, gauge, errors, export, bounds>>

(* set(0), suppressed if it raises.                                        *)
PublishError(a) ==
    /\ actor[a].pc = "unhealthy"
    /\ \/ Works /\ gauge' = 0 /\ UNCHANGED history
       \/ /\ Fails /\ UNCHANGED gauge
          /\ history' = [history EXCEPT !.unpublished = TRUE]
    /\ lock' = Nobody
    /\ Goto(a, "count")
    /\ UNCHANGED <<samples, healthy, errors, export>>

(* The error counter, attempted whatever came of the publication.          *)
CountError(a) ==
    /\ actor[a].pc = "count"
    /\ \/ Works /\ errors' = errors + 1 /\ UNCHANGED history
       \/ /\ Fails /\ UNCHANGED errors
          /\ history' = [history EXCEPT !.uncounted = @ + 1]
    /\ Goto(a, IF a \in Scrapers THEN "broken" ELSE "idle")
    /\ UNCHANGED <<samples, gauge, healthy, lock, export>>

-----------------------------------------------------------------------------
(* The /metrics route.                                                     *)

(* render: the slot is taken on the event loop, without waiting, before    *)
(* the worker is dispatched.                                               *)
Render(s) ==
    /\ answer[s] # "awaited" /\ actor[s].pc = "idle"
    /\ bounds.scrapes > 0 /\ ~slot
    /\ bounds' = [bounds EXCEPT !.scrapes = @ - 1]
    /\ slot' = TRUE
    /\ answer' = [answer EXCEPT ![s] = "awaited"]
    /\ actor' = [actor EXCEPT ![s] = [Idle EXCEPT !.pc = "collect",
                                                  !.start = samples]]
    /\ UNCHANGED <<samples, health, cached, payload, history>>

(* The slot is taken: 503 with Retry-After, no queue.                      *)
RenderBusy(s) ==
    /\ answer[s] # "awaited"
    /\ bounds.scrapes > 0 /\ slot
    /\ bounds' = [bounds EXCEPT !.scrapes = @ - 1]
    /\ answer' = [answer EXCEPT ![s] = "busy"]
    /\ UNCHANGED <<actor, samples, health, slot, cached, payload, history>>

(* The worker's task cannot be created: the slot is given back at once.    *)
RenderFails(s) ==
    /\ answer[s] # "awaited" /\ actor[s].pc = "idle"
    /\ bounds.scrapes > 0 /\ bounds.faults > 0 /\ ~slot
    /\ bounds' = [bounds EXCEPT !.scrapes = @ - 1, !.faults = @ - 1]
    /\ answer' = [answer EXCEPT ![s] = "raised"]
    /\ UNCHANGED <<actor, samples, health, slot, cached, payload, history>>

(* The request is cancelled; shield keeps the worker going.                *)
Cancel(s) ==
    /\ answer[s] = "awaited"
    /\ answer' = [answer EXCEPT ![s] = "cancelled"]
    /\ UNCHANGED <<actor, samples, health, slot, cached, payload, bounds, history>>

(* A prefix is kept while both limits leave room for it.                   *)
Caches(f) ==
    /\ f \notin cached
    /\ Cardinality(cached) < MaxEntries
    /\ payload + SizeOf(f) <= MaxPayload

(* The value is collected afresh whether the prefix is cached or not.      *)
Emitted(body, f) == body \cup {<<f, samples[f]>>}

Collected(w) == {e[1] : e \in w.body}

(* _render_owned in the worker thread: the registry's families one by one, *)
(* while the recording threads go on.                                      *)
Collect(s, f) ==
    LET w == actor[s]
    IN /\ w.pc = "collect" /\ f \in Families \ Collected(w)
       /\ w.next < Cardinality(Families)
       /\ actor' = [actor EXCEPT ![s].body = Emitted(@, f), ![s].next = @ + 1]
       /\ cached' = IF Caches(f) THEN cached \cup {f} ELSE cached
       /\ payload' = IF Caches(f) THEN payload + SizeOf(f) ELSE payload
       /\ UNCHANGED <<samples, health, slot, answer, bounds, history>>

(* Serialization raises; the recorder is marked before the slot is free.   *)
CollectFails(s) ==
    /\ actor[s].pc = "collect" /\ Fails
    /\ Goto(s, "failed")
    /\ UNCHANGED <<samples, health, export, history>>

(* The request gets the worker's result, if it still waits for it.         *)
Answer(s, result) ==
    answer' = [answer EXCEPT ![s] = IF @ = "awaited" THEN result ELSE @]

Serialized(s) ==
    /\ actor[s].pc = "collect" /\ actor[s].next = Cardinality(Families)
    /\ slot' = FALSE
    /\ Goto(s, "idle")
    /\ Answer(s, "body")
    /\ UNCHANGED <<samples, health, cached, payload, bounds, history>>

(* MetricsScrapeError: 503 without Retry-After; finally frees the slot.    *)
Broken(s) ==
    /\ actor[s].pc = "broken"
    /\ slot' = FALSE
    /\ Goto(s, "idle")
    /\ Answer(s, "failed")
    /\ UNCHANGED <<samples, health, cached, payload, bounds, history>>

Mark(a) == MarkError(a) \/ PublishError(a) \/ CountError(a)

Next ==
    \/ \E t \in Threads :
          \/ \E k \in Kinds : Begin(t, k)
          \/ ObservePart(t) \/ MarkSuccess(t) \/ PublishSuccess(t) \/ Recovered(t)
    \/ \E a \in Actors : Mark(a)
    \/ \E s \in Scrapers :
          \/ Render(s) \/ RenderBusy(s) \/ RenderFails(s) \/ Cancel(s)
          \/ \E f \in Families : Collect(s, f)
          \/ CollectFails(s) \/ Serialized(s) \/ Broken(s)

Spec == Init /\ [][Next]_vars

-----------------------------------------------------------------------------
(* Outside the lock, the cached state is the last result published by any  *)
(* thread, a healthy recorder shows a 1, and an unhealthy one shows a 0    *)
(* unless that very publication failed.  Overlapping successes and         *)
(* failures are ordered by the lock.                                       *)
HealthShown ==
    (lock = Nobody) =>
       /\ healthy <=> history.last = "success"
       /\ healthy => gauge = 1
       /\ (~healthy /\ gauge = 1) => history.unpublished

(* Once no thread is between a failure and its report, every observation   *)
(* that is missing from a family is matched by an error that was counted,  *)
(* or by one whose count failed too: samples are not lost silently.  An    *)
(* observation loses two families at most.                                 *)
MissingIsCounted ==
    (\A a \in Actors : actor[a].pc \notin {"failed", "unhealthy", "count"}) =>
       history.missing <= 2 * (errors + history.uncounted)

(* One worker serializes at a time, whatever becomes of the requests: the  *)
(* exporter's cache has no lock of its own.  The slot is taken exactly     *)
(* while a worker is at work.                                              *)
OneSerializer ==
    LET working == {s \in Scrapers : actor[s].pc # "idle"}
    IN Cardinality(working) <= 1 /\ (slot <=> working # {})

(* The prefix cache stays within both limits, and its byte account is what *)
(* it holds: a byte for each prefix, and another for each large one.       *)
CacheBounded ==
    /\ Cardinality(cached) <= MaxEntries
    /\ payload <= MaxPayload
    /\ payload = Cardinality(cached) + Cardinality({f \in cached : SizeOf(f) = 2})

(* A served body has every family, with a value that was true at some time *)
(* between the request and the answer, full cache or not.                  *)
BodyFresh ==
    \A s \in Scrapers :
       answer[s] = "body" =>
          LET w == actor[s]
          IN /\ Collected(w) = Families
             /\ \A e \in w.body : e[2] \in w.start[e[1]]..samples[e[1]]

(* What the recorder shows is so, and its slot and cache are kept: all     *)
(* five of the above.                                                      *)
RecorderSound ==
    HealthShown /\ MissingIsCounted /\ OneSerializer /\ CacheBounded /\ BodyFresh
=============================================================================
