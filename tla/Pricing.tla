--------------------------------- MODULE Pricing ---------------------------------
(***************************************************************************)
(* Gas prices from the load of a network (apps/api-service/src/            *)
(* gas-estimation): the monitor's two caches, refreshed by a job, and the  *)
(* estimates, options and suggestions computed from them.                  *)
(*                                                                         *)
(* The fetches are mocked and wait for nothing outside: what a request or  *)
(* a job starts runs to its end in one turn of the event loop, as          *)
(* continuations taken in the order in which they were queued; a            *)
(* continuation ends at the next await.  Surges are in 300ths of the base  *)
(* fee, and what follows from them in exact fractions.                     *)
(***************************************************************************)
EXTENDS Integers, SequencesExt

CONSTANTS
  NetworkOrder,   \* the supported chains, in the order configured
  Baseline,       \* load of each, in per cent
  Fluctuations    \* what a fetch may add to it (-15 to 15)

PricedChains == ToSet(NetworkOrder)

\* As configured, 40 and 30 per cent, no load gets out of the two lower bands.
ASSUME PricingAssumption ==
  /\ IsInjective(NetworkOrder) /\ NetworkOrder \in Seq(PricedChains) /\ NetworkOrder # <<>>
  /\ \A c \in PricedChains, f \in Fluctuations : Baseline[c] + f \in 0 .. 84

VARIABLES
  metricsCache,    \* per chain: the load fetched last, NoLoad without
  snapshotCache,   \* per chain: the snapshot in use
  turn,            \* the continuations queued
  options          \* what was answered last

pricingVars == <<metricsCache, snapshotCache, turn, options>>

-----------------------------------------------------------------------------
(* Prices *)

NoLoad == -1

CalculateSurgeMultiplier(load) ==
  CASE load < 30 -> 300
    [] load >= 30 /\ load < 60 -> 300 + 5 * (load - 30)
    [] OTHER -> 450 + 12 * (load - 60)

CreateGasPriceSnapshot(load) ==
  [load |-> load, rate |-> CalculateSurgeMultiplier(load),
   confidence |-> IF load > 80 THEN 20 ELSE 100 - load]

NoPriceYet == [load |-> NoLoad, rate |-> 0, confidence |-> 0]

Priorities == <<"low", "normal", "high", "critical">>

\* In tenths.
PriorityMultiplier ==
  [p \in ToSet(Priorities) |->
     CASE p = "low" -> 8 [] p = "normal" -> 10 [] p = "high" -> 15 [] p = "critical" -> 25]

\* With the safety margin, in 300000ths of the base fee.
DynamicGasPrice(snapshot, priority) == 115 * snapshot.rate * PriorityMultiplier[priority]

\* The low one leaves the surge out.
AlternativePrices(snapshot) ==
  [low |-> (115 * 300 * 85) \div 10, medium |-> 115 * snapshot.rate * 10,
   high |-> 115 * snapshot.rate * 13]

\* In ms; the volatility is half the load.
PriceValidityWindow(snapshot) == 60000 - 150 * snapshot.load

\* The rates simulated for six hours, divided by twelve: 241, which is below any rate, so
\* that no network is ever told to be decreasing.
HistoricalAverage == 241

\* In 500ths of those of DynamicGasPrice.
SuggestedPrice(snapshot) ==
  [price |-> 115 * snapshot.rate * 10 * (600 - snapshot.confidence),
   trend |-> IF snapshot.rate > HistoricalAverage THEN "increasing" ELSE "decreasing"]

-----------------------------------------------------------------------------
(* Continuations *)

NoOptions == [for |-> "none", warm |-> FALSE, load |-> NoLoad, from |-> <<>>]

PricingInit ==
  /\ metricsCache = [c \in PricedChains |-> NoLoad]
  /\ snapshotCache = [c \in PricedChains |-> NoPriceYet]
  /\ turn = <<>> /\ options = NoOptions

\* Up to its first await a fetch draws the load.
FetchNetworkMetrics(c) == {Baseline[c] + f : f \in Fluctuations}

\* getNetworkMetrics
Loads(c) == IF metricsCache[c] # NoLoad THEN {metricsCache[c]} ELSE FetchNetworkMetrics(c)

\* getGasPriceSnapshot up to its first await: what it goes on with.
SnapshotCalls(for, c) ==
  IF snapshotCache[c] # NoPriceYet
  THEN {[for |-> for, chain |-> c, step |-> "answer", snapshot |-> snapshotCache[c]]}
  ELSE {[for |-> for, chain |-> c, snapshot |-> CreateGasPriceSnapshot(load),
         step |-> IF metricsCache[c] # NoLoad THEN "setSnapshot" ELSE "setMetrics"] :
          load \in Loads(c)}

Begin(for, c) ==
  options' = [NoOptions EXCEPT !.for = for, !.warm = snapshotCache[c] # NoPriceYet]

\* POST estimate or suggest-optimal, of a supported chain.
EstimateGasPrice ==
  /\ turn = <<>>
  /\ \E c \in PricedChains, for \in {"estimate", "suggestion"} :
       (\E call \in SnapshotCalls(for, c) : turn' = <<call>>) /\ Begin(for, c)
  /\ UNCHANGED <<metricsCache, snapshotCache>>

\* Promise.all: four estimates are begun before any of them goes on.
GetMultiplePriceOptions ==
  /\ turn = <<>>
  /\ \E c \in PricedChains :
       /\ turn' \in [DOMAIN Priorities -> SnapshotCalls("options", c)]
       /\ Begin("options", c)
  /\ UNCHANGED <<metricsCache, snapshotCache>>

\* GET network-metrics: first the metrics, then the snapshot.
GetNetworkMetrics ==
  /\ turn = <<>>
  /\ \E c \in PricedChains : \E load \in Loads(c) :
       /\ turn' = <<[for |-> "metrics", chain |-> c, snapshot |-> CreateGasPriceSnapshot(load),
                     step |-> IF metricsCache[c] # NoLoad THEN "getSnapshot" ELSE "setMetrics"]>>
       /\ Begin("metrics", c)
  /\ UNCHANGED <<metricsCache, snapshotCache>>

JobCall(c, load) ==
  [for |-> "job", chain |-> c, step |-> "setMetrics", snapshot |-> CreateGasPriceSnapshot(load)]

\* Every ten seconds, chain after chain.
UpdateNetworkMetrics ==
  /\ turn = <<>>
  /\ LET c == NetworkOrder[1] IN
     \E load \in FetchNetworkMetrics(c) : turn' = <<JobCall(c, load)>>
  /\ UNCHANGED <<metricsCache, snapshotCache, options>>

Queue(call) == turn' = Append(Tail(turn), call)

\* Mutant: the job makes its snapshot of the metrics before the new ones are cached.
MutSetMetrics ==
  LET call == turn[1]
      old == metricsCache[call.chain] IN
  /\ turn # <<>> /\ call.step = "setMetrics"
  /\ metricsCache' = [metricsCache EXCEPT ![call.chain] = call.snapshot.load]
  /\ IF call.for = "metrics"
     THEN Queue([call EXCEPT !.step = "getSnapshot"])
     ELSE Queue([call EXCEPT !.step = "setSnapshot",
                   !.snapshot = IF old = NoLoad THEN @ ELSE CreateGasPriceSnapshot(old)])
  /\ UNCHANGED <<snapshotCache, options>>

\* Metrics fetched are cached, and the snapshot made of them.
SetMetrics ==
  LET call == turn[1] IN
  /\ turn # <<>> /\ call.step = "setMetrics"
  /\ metricsCache' = [metricsCache EXCEPT ![call.chain] = call.snapshot.load]
  /\ Queue([call EXCEPT !.step = IF call.for = "metrics" THEN "getSnapshot" ELSE "setSnapshot"])
  /\ UNCHANGED <<snapshotCache, options>>

\* The controller has the metrics and asks for the snapshot.
GetSnapshot ==
  LET call == turn[1] IN
  /\ turn # <<>> /\ call.step = "getSnapshot"
  /\ options' = [options EXCEPT !.load = call.snapshot.load]
  /\ \E next \in SnapshotCalls("metrics", call.chain) : Queue(next)
  /\ UNCHANGED <<metricsCache, snapshotCache>>

\* The snapshot is cached; the job goes on to the next chain.
SetSnapshot ==
  LET call == turn[1]
      next == {i \in DOMAIN NetworkOrder : i > 1 /\ NetworkOrder[i - 1] = call.chain}
  IN /\ turn # <<>> /\ call.step = "setSnapshot"
     /\ snapshotCache' = [snapshotCache EXCEPT ![call.chain] = call.snapshot]
     /\ \/ call.for # "job" /\ Queue([call EXCEPT !.step = "answer"])
        \/ call.for = "job" /\ next = {} /\ turn' = <<>>
        \/ /\ call.for = "job"
           /\ \E i \in next : \E load \in FetchNetworkMetrics(NetworkOrder[i]) :
                Queue(JobCall(NetworkOrder[i], load))
     /\ UNCHANGED <<metricsCache, options>>

Answer ==
  LET call == turn[1] IN
  /\ turn # <<>> /\ call.step = "answer"
  /\ turn' = Tail(turn)
  /\ options' = [options EXCEPT !.from = Append(@, call.snapshot)]
  /\ UNCHANGED <<metricsCache, snapshotCache>>

PricingNext ==
  \/ EstimateGasPrice \/ GetMultiplePriceOptions \/ GetNetworkMetrics \/ UpdateNetworkMetrics
  \/ SetMetrics \/ GetSnapshot \/ SetSnapshot \/ Answer

PricingSpec == PricingInit /\ [][PricingNext]_pricingVars

-----------------------------------------------------------------------------
Answered(for) == turn = <<>> /\ options.for = for

\* Between turns the snapshot that prices are taken from is the one of the metrics cached,
\* whoever filled either cache -- overlapping estimates on a cold one and the job that
\* overwrites both included -- so metrics and snapshot answered together agree.  Options
\* taken from one snapshot grow with the priority, as do the alternatives given with an
\* estimate, and a quote is valid for a while.  On a cold cache each of the four options
\* fetches a load of its own: critical still costs more than low and normal, but low may
\* cost more than normal, and more gets out of order at higher loads, whatever
\* docs/DYNAMIC_GAS_ESTIMATION.md:92-98 has them to be
\* (network-monitor.service.ts, dynamic-pricing.service.ts).
PricesAgree ==
  /\ turn = <<>> =>
       \A c \in PricedChains :
         snapshotCache[c] # NoPriceYet => metricsCache[c] = snapshotCache[c].load
  /\ Answered("metrics") => options.load = options.from[1].load
  /\ Answered("options") =>
       \A i, k \in DOMAIN Priorities :
         /\ i < k
         /\ \/ options.warm
            \/ Priorities[i] \in {"low", "normal"} /\ Priorities[k] = "critical"
         => DynamicGasPrice(options.from[i], Priorities[i])
              < DynamicGasPrice(options.from[k], Priorities[k])
  /\ Answered("estimate") =>
       LET alternatives == AlternativePrices(options.from[1]) IN
       /\ alternatives.low < alternatives.medium /\ alternatives.medium < alternatives.high
       /\ PriceValidityWindow(options.from[1]) > 0
  /\ Answered("suggestion") =>
       SuggestedPrice(options.from[1]).price >= 500 * DynamicGasPrice(options.from[1], "normal")
==================================================================================
