-------------------------- MODULE PerformanceMonitoring --------------------------
(***************************************************************************)
(* Performance monitoring (apps/api-service/src/performance-monitoring):   *)
(* the middleware that every request passes, the counters, gauges and      *)
(* histograms it keeps in memory, and the row it saves per response.       *)
(*                                                                         *)
(* A path is the sequence of its segments; a key is the set of labels it   *)
(* is built from.  Handlers, the moment at which a response is finished    *)
(* and the cut of a connection before that are external.                   *)
(***************************************************************************)
EXTENDS Integers, FiniteSets, Sequences, Functions

CONSTANTS
  HttpCalls,      \* requests that may be under way at a time
  HttpRequests,   \* what may be asked for: a method, a path, and the row that the client
                  \* wants recorded (POST /api/performance/metrics) or NoMetric
  StatusCodes,    \* with which handlers answer
  ResponseTimes,  \* that a request may take
  MaxArrivals,    \* bound on the requests
  MaxBoots        \* bound on the restarts

NoMetric == [endpoint |-> <<>>]

ASSUME PerformanceMonitoringAssumption ==
  /\ \A r \in HttpRequests : r.path # <<>> /\ (r.metric = NoMetric \/ r.method = "POST")
  /\ IsFiniteSet(HttpCalls) /\ ResponseTimes \subseteq Nat /\ MaxArrivals \in Nat /\ MaxBoots \in Nat

VARIABLES
  http,          \* the requests under way
  counters,      \* http_requests_total: per key
  gauges,        \* http_requests_in_flight: per key
  histograms,    \* http_request_duration_ms: per key
  apiMetrics,    \* the rows of api_performance_metrics, in the order of their saves
  unsaved,       \* responses whose row could not be saved, as the log of errors tells
  cut,           \* methods of the requests that never finished, one for each
  bootRows,      \* rows that were there when the process started
  arrivals, boots

monitoringVars ==
  <<http, counters, gauges, histograms, apiMetrics, unsaved, cut, bootRows, arrivals, boots>>

IdleHttp == [step |-> "idle"]
Nothing == [k \in {} |-> 0]

MonitoringInit ==
  /\ http = [c \in HttpCalls |-> IdleHttp]
  /\ counters = Nothing /\ gauges = Nothing /\ histograms = Nothing
  /\ apiMetrics = <<>> /\ unsaved = <<>> /\ cut = <<>>
  /\ bootRows = 0 /\ arrivals = 0 /\ boots = 0

-----------------------------------------------------------------------------
(* MonitoringHooksService *)

\* Labels are sorted before a key is built: it depends on what they are only.
MetricKey(r) == [method |-> r.method, endpoint |-> r.endpoint, statusCode |-> r.statusCode]

ValueAt(metrics, key, default) == IF key \in DOMAIN metrics THEN metrics[key] ELSE default

SetMetric(metrics, key, value) ==
  [k \in DOMAIN metrics \cup {key} |-> IF k = key THEN value ELSE metrics[k]]

IncrementCounter(key) == SetMetric(counters, key, ValueAt(counters, key, 0) + 1)

AdjustGauge(key, delta) == SetMetric(gauges, key, ValueAt(gauges, key, 0) + delta)

Smaller(a, b) == IF a < b THEN a ELSE b
Larger(a, b) == IF a > b THEN a ELSE b

ObserveHistogram(key, value) ==
  LET current == ValueAt(histograms, key, [count |-> 0, sum |-> 0, min |-> value, max |-> value])
      next == [count |-> current.count + 1, sum |-> current.sum + value,
               min |-> Smaller(current.min, value), max |-> Larger(current.max, value)]
  IN SetMetric(histograms, key, next)

-----------------------------------------------------------------------------
(* PerformanceLoggingMiddleware *)

\* Below /api/ the first segment is the category, which may be empty.
CategorizeEndpoint(path) ==
  IF Len(path) >= 2 /\ path[1] = "api" THEN <<"api", path[2]>> ELSE path

Use(c) ==
  /\ http[c].step = "idle" /\ arrivals < MaxArrivals
  /\ \E r \in HttpRequests :
       /\ http' = [http EXCEPT ![c] = [step |-> "handling", request |-> r]]
       /\ gauges' = AdjustGauge(r.method, 1)
  /\ arrivals' = arrivals + 1
  /\ UNCHANGED <<counters, histograms, apiMetrics, unsaved, cut, bootRows, boots>>

\* The handler: it saves the row that a client wants recorded, or fails to
\* (PerformanceController.recordMetric), or its work is none of this service's.
Respond(c, code) == http' = [http EXCEPT ![c] = [step |-> "responding", request |-> http[c].request,
                                                 statusCode |-> code]]

Handle(c) ==
  /\ http[c].step = "handling"
  /\ LET metric == http[c].request.metric
     IN \/ /\ metric = NoMetric
           /\ \E code \in StatusCodes : Respond(c, code)
           /\ UNCHANGED apiMetrics
        \/ /\ metric # NoMetric
           /\ Respond(c, 201)
           /\ apiMetrics' =
                Append(apiMetrics,
                       [endpoint |-> metric.endpoint, method |-> metric.method, own |-> FALSE,
                        statusCode |-> metric.statusCode, responseTime |-> metric.responseTime])
        \/ /\ metric # NoMetric
           /\ Respond(c, 500)
           /\ UNCHANGED apiMetrics
  /\ UNCHANGED <<counters, gauges, histograms, unsaved, cut, bootRows, arrivals, boots>>

\* The finish event of the response: the row's save starts, and nobody waits for it.
Finish(c) ==
  /\ http[c].step = "responding"
  /\ \E time \in ResponseTimes :
       LET row == [endpoint |-> CategorizeEndpoint(http[c].request.path),
                   method |-> http[c].request.method, statusCode |-> http[c].statusCode,
                   responseTime |-> time, own |-> TRUE]
       IN /\ counters' = IncrementCounter(MetricKey(row))
          /\ gauges' = AdjustGauge(row.method, -1)
          /\ histograms' = ObserveHistogram(MetricKey(row), time)
          /\ http' = [http EXCEPT ![c] = [step |-> "logging", row |-> row]]
  /\ UNCHANGED <<apiMetrics, unsaved, cut, bootRows, arrivals, boots>>

\* The save of the row ends; that it failed is only printed.
LogPerformance(c) ==
  /\ http[c].step = "logging"
  /\ \/ apiMetrics' = Append(apiMetrics, http[c].row) /\ UNCHANGED unsaved
     \/ unsaved' = Append(unsaved, http[c].row) /\ UNCHANGED apiMetrics
  /\ http' = [http EXCEPT ![c] = IdleHttp]
  /\ UNCHANGED <<counters, gauges, histograms, cut, bootRows, arrivals, boots>>

\* A connection that closes before the response was handed over never finishes it, and
\* close is not listened to.
Disconnect(c) ==
  /\ http[c].step = "responding"
  /\ cut' = Append(cut, http[c].request.method)
  /\ http' = [http EXCEPT ![c] = IdleHttp]
  /\ UNCHANGED <<counters, gauges, histograms, apiMetrics, unsaved, bootRows, arrivals, boots>>

\* A restart leaves the rows only.
Reboot ==
  /\ boots < MaxBoots
  /\ http' = [c \in HttpCalls |-> IdleHttp]
  /\ counters' = Nothing /\ gauges' = Nothing /\ histograms' = Nothing
  /\ unsaved' = <<>> /\ cut' = <<>>
  /\ bootRows' = Len(apiMetrics) /\ boots' = boots + 1
  /\ UNCHANGED <<apiMetrics, arrivals>>

MonitoringNext ==
  \/ \E c \in HttpCalls : Use(c) \/ Handle(c) \/ Finish(c) \/ LogPerformance(c) \/ Disconnect(c)
  \/ Reboot

MonitoringSpec == MonitoringInit /\ [][MonitoringNext]_monitoringVars

-----------------------------------------------------------------------------
(* Properties *)

\* What has become of the responses that this process finished: rows, errors and saves.
FinishedResponses ==
  ({"row"} \X {i \in bootRows + 1 .. Len(apiMetrics) : apiMetrics[i].own})
    \cup ({"error"} \X DOMAIN unsaved)
    \cup ({"save"} \X {c \in HttpCalls : http[c].step = "logging"})

RowOf(response) ==
  CASE response[1] = "row" -> apiMetrics[response[2]]
    [] response[1] = "error" -> unsaved[response[2]]
    [] response[1] = "save" -> http[response[2]].row

LabelsOf == [response \in FinishedResponses |-> MetricKey(RowOf(response))]
TimeOf == [response \in FinishedResponses |-> RowOf(response).responseTime]

OpenRequests(method) ==
  {c \in HttpCalls : /\ http[c].step \in {"handling", "responding"}
                     /\ http[c].request.method = method}

\* Requests are counted as they finish and written down later, one by one, some of them
\* in vain, among rows that clients have written and those of earlier processes.  Still
\* counters and histograms are those of the rows (and of what failed to become one), key
\* by key; and the gauge of a method is the number of its requests that were not
\* finished, those for ever that were cut off included: it never falls below the truth.
TrafficAddsUp ==
  /\ DOMAIN counters = DOMAIN histograms /\ DOMAIN counters = Range(LabelsOf)
  /\ \A key \in DOMAIN counters :
       LET responses == {response \in FinishedResponses : LabelsOf[response] = key}
           times == {TimeOf[response] : response \in responses}
       IN /\ counters[key] = Cardinality(responses)
          /\ histograms[key] =
               [count |-> Cardinality(responses), sum |-> SumFunctionOnSet(TimeOf, responses),
                min |-> CHOOSE t \in times : \A u \in times : t <= u,
                max |-> CHOOSE t \in times : \A u \in times : t >= u]
  /\ \A method \in {r.method : r \in HttpRequests} \cup DOMAIN gauges :
       ValueAt(gauges, method, 0) =
         Cardinality(OpenRequests(method)) + Cardinality({i \in DOMAIN cut : cut[i] = method})
=============================================================================
