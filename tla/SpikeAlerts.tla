------------------------------- MODULE SpikeAlerts -------------------------------
(***************************************************************************)
(* Gas spike alerts (src/modules/gas-spike-alert): the monitor's ticks,    *)
(* the classifier and its history, the threshold engine, and the webhooks  *)
(* an alert is sent to, with their retries.                                *)
(*                                                                         *)
(* A tick is not awaited by the interval: the fetches of several ticks may *)
(* be under way and end in any order.  From the end of a fetch to the      *)
(* start of the dispatches nothing is awaited: one step.                   *)
(* Severities are 1 (Info) to 3 (Critical), 0 for null.                    *)
(***************************************************************************)
EXTENDS Integers, Sequences, SequencesExt

CONSTANTS
  Chains,             \* chain ids that may be tracked
  Webhooks,           \* ids of subscriptions
  Snapshots,          \* base and priority fees that may be fetched
  DefaultThresholds,  \* DEFAULT_THRESHOLDS: per metric, for severities 1 to 3
  ThresholdConfigs,   \* bodies of PUT config: thresholds of some <<metric, severity>>
  Window,             \* MOVING_AVERAGE_WINDOW
  MaxHistory,         \* MAX_HISTORY_POINTS
  MaxRetries,         \* WEBHOOK_MAX_RETRIES
  MaxTicks,           \* bound on the ticks
  MaxConfigs          \* bound on the changes of webhooks and thresholds

Metrics == {"baseChange", "base", "volatility", "priorityChange"}
Severities == 1..3
Null == 0
Global == 0        \* the key of thresholds without a chain

ASSUME SpikeAssumption ==
  /\ Snapshots \subseteq [base : Nat, priority : Nat]
  /\ DefaultThresholds \in [Metrics -> [Severities -> Int]]
  /\ \A c \in ThresholdConfigs :
       DOMAIN c \subseteq Metrics \X Severities /\ \A k \in DOMAIN c : c[k] \in Int
  /\ Chains \subseteq Nat \ {Global}
  /\ Window \in Nat \ {0} /\ MaxHistory \in Nat /\ MaxHistory >= 2
  /\ MaxRetries \in Nat \ {0} /\ MaxTicks \in Nat /\ MaxConfigs \in Nat

VARIABLES
  spikeHistory,   \* per chain: the snapshots, oldest first
  customThresholds,
  trackedChains,
  fetches,        \* fetches under way: the chain and the tick
  ticks,          \* ticks so far
  lastAlerts,     \* per chain
  webhooks,       \* the subscriptions
  dispatches,     \* per <<webhook, chain, tick>>: its attempts and how it stands
  spikeChanges    \* changes of webhooks and thresholds so far

spikeVars == <<spikeHistory, customThresholds, trackedChains, fetches, ticks, lastAlerts,
               webhooks, dispatches, spikeChanges>>

-----------------------------------------------------------------------------
(* SpikeClassifierService *)

WithSnapshot(history, s) ==
  LET longer == Append(history, s)
  IN IF Len(longer) > MaxHistory THEN Tail(longer) ELSE longer

\* The chain's own thresholds over the global ones over the defaults.
EffectiveThresholds(chain) ==
  [m \in Metrics |-> [s \in Severities |->
     IF <<m, s>> \in DOMAIN customThresholds[chain] THEN customThresholds[chain][<<m, s>>]
     ELSE IF <<m, s>> \in DOMAIN customThresholds[Global] THEN customThresholds[Global][<<m, s>>]
     ELSE DefaultThresholds[m][s]]]

LastOf(seq, n) == SubSeq(seq, IF Len(seq) > n THEN Len(seq) - n + 1 ELSE 1, Len(seq))

\* The snapshot with what its metrics are computed from.
Enrich(history, s) ==
  LET previous == IF history = <<>> THEN s ELSE Last(history) IN
    [base |-> s.base, priority |-> s.priority,
     baseWas |-> previous.base, priorityWas |-> previous.priority,
     window |-> [i \in DOMAIN LastOf(history, Window) |-> LastOf(history, Window)[i].base]]

\* A percentage of increase reaches t, a whole percentage.
IncreaseReaches(new, old, t) == IF old > 0 THEN (new - old) * 100 >= t * old ELSE 0 >= t

SumSeq(s) == FoldSeq(LAMBDA x, y : x + y, 0, s)

\* The coefficient of variation of the window, clamped to 1, reaches t percent.
VolatilityReaches(w, t) ==
  LET n == Len(w)
      sum == SumSeq(w)
      variance == n * SumSeq([i \in DOMAIN w |-> w[i] * w[i]]) - sum * sum
  IN IF n < 2 \/ sum = 0 THEN 0 >= t
     ELSE t <= 0 \/ (t <= 100 /\ variance * 10000 >= t * t * sum * sum)

Reached(e, m, t) ==
  CASE m = "baseChange" -> IncreaseReaches(e.base, e.baseWas, t)
    [] m = "base" -> e.base >= t
    [] m = "volatility" -> VolatilityReaches(e.window, t)
    [] m = "priorityChange" -> IncreaseReaches(e.priority, e.priorityWas, t)

Elevate(highest, s) == IF highest = Null \/ s > highest THEN s ELSE highest

ElevateBy(highest, e, m, t) ==
  IF Reached(e, m, t[m][3]) THEN Elevate(highest, 3)
  ELSE IF Reached(e, m, t[m][2]) THEN Elevate(highest, 2)
  ELSE IF Reached(e, m, t[m][1]) THEN Elevate(highest, 1)
  ELSE highest

ClassifySeverity(e, t) ==
  LET first == ElevateBy(Null, e, "baseChange", t)
      second == ElevateBy(first, e, "base", t)
      third == ElevateBy(second, e, "volatility", t)
  IN ElevateBy(third, e, "priorityChange", t)

ValueToSeverity(e, m, t) ==
  IF Reached(e, m, t[m][3]) THEN 3
  ELSE IF Reached(e, m, t[m][2]) THEN 2
  ELSE IF Reached(e, m, t[m][1]) THEN 1
  ELSE Null

TriggeredSpikeTypes(e, t, severity) ==
  {m \in Metrics : ValueToSeverity(e, m, t) # Null /\ ValueToSeverity(e, m, t) >= severity}

-----------------------------------------------------------------------------
(* ThresholdEngineService *)

\* Mutant: the critical threshold must be exceeded.
MutResolveSeverity(e, m, t) ==
  IF Reached(e, m, t[m][3] + 1) THEN 3
  ELSE IF Reached(e, m, t[m][2]) THEN 2
  ELSE IF Reached(e, m, t[m][1]) THEN 1
  ELSE Null

ResolveSeverity(e, m, t) ==
  IF Reached(e, m, t[m][3]) THEN 3
  ELSE IF Reached(e, m, t[m][2]) THEN 2
  ELSE IF Reached(e, m, t[m][1]) THEN 1
  ELSE Null

\* One result per rule that fired.
Evaluate(e, t) ==
  {r \in {[type |-> m, severity |-> ResolveSeverity(e, m, t)] : m \in Metrics} :
     r.severity # Null}

HighestSeverity(results) ==
  IF results = {} THEN Null
  ELSE CHOOSE s \in {r.severity : r \in results} : \A r \in results : r.severity <= s

-----------------------------------------------------------------------------
(* WebhookDispatcherService *)

Absent == [active |-> FALSE, chains |-> {}, minSeverity |-> 2, present |-> FALSE]

\* register: subscriptions start active; a chain filter of none means all.
Register(w) ==
  /\ spikeChanges < MaxConfigs
  /\ ~webhooks[w].present
  /\ \E cs \in SUBSET Chains, s \in Severities :
       webhooks' = [webhooks EXCEPT ![w] =
         [active |-> TRUE, chains |-> cs, minSeverity |-> s, present |-> TRUE]]
  /\ spikeChanges' = spikeChanges + 1
  /\ UNCHANGED <<spikeHistory, customThresholds, trackedChains, fetches, ticks, lastAlerts,
                 dispatches>>

UpdateWebhook(w) ==
  /\ spikeChanges < MaxConfigs
  /\ webhooks[w].present
  /\ \/ \E a \in BOOLEAN : webhooks' = [webhooks EXCEPT ![w].active = a]
     \/ \E s \in Severities : webhooks' = [webhooks EXCEPT ![w].minSeverity = s]
     \/ \E cs \in SUBSET Chains : webhooks' = [webhooks EXCEPT ![w].chains = cs]
  /\ spikeChanges' = spikeChanges + 1
  /\ UNCHANGED <<spikeHistory, customThresholds, trackedChains, fetches, ticks, lastAlerts,
                 dispatches>>

DeleteWebhook(w) ==
  /\ webhooks[w].present
  /\ webhooks' = [webhooks EXCEPT ![w] = Absent]
  /\ UNCHANGED <<spikeHistory, customThresholds, trackedChains, fetches, ticks, lastAlerts,
                 dispatches, spikeChanges>>

MatchingSubscriptions(chain, severity) ==
  {w \in Webhooks : /\ webhooks[w].active
                    /\ webhooks[w].chains # {} => chain \in webhooks[w].chains
                    /\ severity >= webhooks[w].minSeverity}

Sending == [attempts |-> 0, stands |-> "sending"]

\* Mutant: the last attempt is not made.
MutAfterAttempt(attempt) == IF attempt >= MaxRetries - 1 THEN "failed" ELSE "sending"

AfterAttempt(attempt) == IF attempt >= MaxRetries THEN "failed" ELSE "sending"

\* dispatchOne holds on to the subscription it was given: what becomes of it
\* meanwhile does not matter.
DispatchOne(d) ==
  LET attempt == dispatches[d].attempts + 1 IN
  /\ dispatches[d].stands = "sending"
  /\ \E ok \in BOOLEAN :
       dispatches' = [dispatches EXCEPT ![d] =
         [attempts |-> attempt,
          stands |-> IF ok THEN "delivered" ELSE AfterAttempt(attempt)]]
  /\ UNCHANGED <<spikeHistory, customThresholds, trackedChains, fetches, ticks, lastAlerts,
                 webhooks, spikeChanges>>

-----------------------------------------------------------------------------
(* GasMonitorService *)

\* The interval, or POST trigger (which tracks its chain first).
Tick ==
  /\ ticks < MaxTicks
  /\ \E cs \in {{}} \cup {{c} : c \in Chains} :
       /\ trackedChains' = trackedChains \cup cs
       /\ fetches' = fetches \cup {[chain |-> c, tick |-> ticks + 1] : c \in trackedChains \cup cs}
  /\ ticks' = ticks + 1
  /\ UNCHANGED <<spikeHistory, customThresholds, lastAlerts, webhooks, dispatches, spikeChanges>>

UntrackChain ==
  /\ spikeChanges < MaxConfigs
  /\ \E c \in trackedChains : trackedChains' = trackedChains \ {c}
  /\ spikeChanges' = spikeChanges + 1
  /\ UNCHANGED <<spikeHistory, customThresholds, fetches, ticks, lastAlerts, webhooks, dispatches>>

Previous(history, s) == IF Len(history) >= 2 THEN history[Len(history) - 1] ELSE s

\* processChain from the end of its fetch to the start of its dispatches.
ProcessChain(f, s) ==
  LET c == f.chain
      t == EffectiveThresholds(c)
      e == Enrich(spikeHistory[c], s)
      history == WithSnapshot(spikeHistory[c], s)
      results == Evaluate(e, t)
      severity == HighestSeverity(results)
  IN
  /\ fetches' = fetches \ {f}
  /\ spikeHistory' = [spikeHistory EXCEPT ![c] = history]
  /\ IF severity = Null THEN UNCHANGED <<lastAlerts, dispatches>>
     ELSE /\ lastAlerts' = [lastAlerts EXCEPT ![c] =
               [severity |-> severity, types |-> {r.type : r \in results}, tick |-> f.tick,
                base |-> e.base, previousBase |-> Previous(history, s).base]]
          /\ dispatches' =
               [d \in DOMAIN dispatches \cup
                      {<<w, c, f.tick>> : w \in MatchingSubscriptions(c, severity)} |->
                  IF d \in DOMAIN dispatches THEN dispatches[d] ELSE Sending]
  /\ UNCHANGED <<customThresholds, trackedChains, ticks, webhooks, spikeChanges>>

FetchFails(f) ==
  /\ fetches' = fetches \ {f}
  /\ UNCHANGED <<spikeHistory, customThresholds, trackedChains, ticks, lastAlerts, webhooks,
                 dispatches, spikeChanges>>

\* PUT config replaces the whole of the chain's, or of the global, configuration.
SetCustomThresholds ==
  /\ spikeChanges < MaxConfigs
  /\ \E key \in Chains \cup {Global}, config \in ThresholdConfigs :
       customThresholds' = [customThresholds EXCEPT ![key] = config]
  /\ spikeChanges' = spikeChanges + 1
  /\ UNCHANGED <<spikeHistory, trackedChains, fetches, ticks, lastAlerts, webhooks, dispatches>>

-----------------------------------------------------------------------------

NoAlert == [severity |-> Null, types |-> {}, tick |-> 0, base |-> 0, previousBase |-> 0]
NoConfig == [k \in {} |-> 0]

SpikeInit ==
  /\ spikeHistory = [c \in Chains |-> <<>>]
  /\ customThresholds = [k \in Chains \cup {Global} |-> NoConfig]
  /\ trackedChains \in {{c} : c \in Chains}
  /\ fetches = {} /\ ticks = 0
  /\ lastAlerts = [c \in Chains |-> NoAlert]
  /\ webhooks = [w \in Webhooks |-> Absent]
  /\ dispatches = [d \in {} |-> Sending]
  /\ spikeChanges = 0

SpikeNext ==
  \/ \E w \in Webhooks : Register(w) \/ UpdateWebhook(w) \/ DeleteWebhook(w)
  \/ Tick \/ UntrackChain \/ SetCustomThresholds
  \/ \E f \in fetches : FetchFails(f) \/ \E s \in Snapshots : ProcessChain(f, s)
  \/ \E d \in DOMAIN dispatches : DispatchOne(d)

SpikeSpec == SpikeInit /\ [][SpikeNext]_spikeVars

\* fetch() settles and the back-off timers fire.
Alerts == Webhooks \X Chains \X (1..MaxTicks)
SpikeFairness ==
  \A d \in Alerts : WF_spikeVars(d \in DOMAIN dispatches /\ DispatchOne(d))

-----------------------------------------------------------------------------
(* Properties *)

\* The classifier's own severity and the threshold engine's are two computations of
\* one decision: for whatever thresholds an operator sets (also ones that are not in
\* order) they agree, and the types reported are those at or above that severity or
\* a lower one.
EnginesAgree ==
  \A c \in Chains, s \in Snapshots :
    LET t == EffectiveThresholds(c)
        e == Enrich(spikeHistory[c], s)
    IN /\ ClassifySeverity(e, t) = HighestSeverity(Evaluate(e, t))
       /\ \A severity \in Severities :
            TriggeredSpikeTypes(e, t, severity) =
              {r.type : r \in {q \in Evaluate(e, t) : q.severity >= severity}}

\* dispatchOne: whatever the endpoints answer and however webhooks change meanwhile,
\* every alert that was raised for a subscription is delivered, or has been tried
\* WEBHOOK_MAX_RETRIES times.
AlertsAreDelivered ==
  \A d \in Alerts :
    d \in DOMAIN dispatches ~>
      /\ d \in DOMAIN dispatches
      /\ \/ dispatches[d].stands = "delivered"
         \/ dispatches[d].stands = "failed" /\ dispatches[d].attempts = MaxRetries
=================================================================================
