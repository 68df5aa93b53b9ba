--------------------------- MODULE ChainReliability ---------------------------
(***************************************************************************)
(* Reliability of chains (apps/api-service/src/chain-reliability): jobs    *)
(* that append a scored metric per chain, and the leaderboard read from    *)
(* the latest metric of each.                                              *)
(*                                                                         *)
(* The metrics are those of one time window: those of the others are other *)
(* rows, collected and read in the same way.  What the database sums up    *)
(* over the transactions is any of what the constants list.  Every round   *)
(* trip is a step; each may fail.  Scores are in hundredths.               *)
(***************************************************************************)
EXTENDS Integers, FiniteSets, SequencesExt

CONSTANTS
  ChainOrder,     \* the chains in the order in which the database returns them
  ActiveOrder,    \* those whose status is active, likewise
  Collectors,     \* jobs that may run at a time, of one process or of several
  Aggregates,     \* success rates, gas prices and volatilities that may be summed up
  Comparisons,    \* chains that may be compared, {} for the whole leaderboard
  BoardLimit,     \* limit of the whole leaderboard (10)
  MaxTick,        \* bound on time
  MaxMetrics      \* bound on the metrics of a chain

RankedChains == ToSet(ChainOrder)
ActiveChains == ToSet(ActiveOrder)

ASSUME ChainReliabilityAssumption ==
  /\ ChainOrder \in Seq(RankedChains) /\ IsInjective(ChainOrder)
  /\ ActiveOrder \in Seq(RankedChains)
  /\ Aggregates \subseteq [rate : 0 .. 10000, price : Nat, volatility : Nat]
  /\ Comparisons \subseteq SUBSET RankedChains
  /\ BoardLimit \in Nat \ {0} /\ {MaxTick, MaxMetrics} \subseteq Nat

VARIABLES
  metricRows,   \* per chain: its metrics, in the order in which they were saved
  tick,         \* the clock
  collections,  \* the jobs under way: the chains still to do and when the first was begun
  view          \* the leaderboard asked for last, with what was recorded by then

reliabilityVars == <<metricRows, tick, collections, view>>

-----------------------------------------------------------------------------
(* Scores *)

AtLeastZero(n) == IF n < 0 THEN 0 ELSE n

\* 100 exp(-1/6), about: the latency is a placeholder of 500 ms.
LatencyScore == 8465

\* Both in tenths of a hundredth.
StabilityScore(rate) == 6 * rate + 4 * LatencyScore

\* A price of 100 hundredths and more scores nothing; so does such a volatility.
CostEfficiencyScore(price, volatility) ==
  6 * AtLeastZero(10000 - 100 * price) + 4 * AtLeastZero(10000 - 100 * volatility)

\* 60 % stability and 40 % cost, rounded to hundredths.
CalculateReliabilityScores(a) ==
  (6 * StabilityScore(a.rate) + 4 * CostEfficiencyScore(a.price, a.volatility) + 50) \div 100

-----------------------------------------------------------------------------
IdleCollection == [step |-> "idle", todo |-> <<>>, at |-> 0]
IdleView ==
  [step |-> "idle", todo |-> <<>>, found |-> <<>>, entries |-> <<>>, compared |-> {}, before |-> <<>>]

Metric(at, a) == [at |-> at, score |-> CalculateReliabilityScores(a)]

\* Chains that are no longer active keep what was recorded of them.
ReliabilityInit ==
  /\ metricRows \in [RankedChains -> {<<>>} \cup {<<Metric(0, a)>> : a \in Aggregates}]
  /\ \A c \in ActiveChains : metricRows[c] = <<>>
  /\ tick = 0
  /\ collections = [j \in Collectors |-> IdleCollection]
  /\ view = IdleView

TickPasses ==
  tick < MaxTick /\ tick' = tick + 1 /\ UNCHANGED <<metricRows, collections, view>>

-----------------------------------------------------------------------------
(* collectAllChainMetrics *)

BecomeCollection(j, call) == collections' = [collections EXCEPT ![j] = call]

CollectAllChainMetrics(j) ==
  /\ collections[j].step = "idle" /\ ActiveOrder # <<>>
  /\ BecomeCollection(j, [step |-> "chain", at |-> 0, todo |-> ActiveOrder])
  /\ UNCHANGED <<metricRows, tick, view>>

NextChain(call) ==
  IF Len(call.todo) = 1 THEN IdleCollection
  ELSE [call EXCEPT !.step = "chain", !.todo = Tail(@)]

\* The time recorded is that at which the window ends, read before the queries.
CollectMetrics(j) ==
  LET call == collections[j] IN
  /\ call.step = "chain"
  /\ BecomeCollection(j, [call EXCEPT !.step = "save", !.at = tick])
  /\ UNCHANGED <<metricRows, tick, view>>

\* The row is saved, or the chain passed over when this or a query before it fails.  Then
\* the chain's own score is updated where the primary key is the chain id, which it never
\* is: that changes nothing, or fails after the row is there.
SaveMetric(j) ==
  LET call == collections[j] IN
  /\ call.step = "save"
  /\ \/ \E a \in Aggregates :
          /\ Len(metricRows[Head(call.todo)]) < MaxMetrics
          /\ metricRows' = [metricRows EXCEPT ![Head(call.todo)] =
                              Append(@, Metric(call.at, a))]
     \/ UNCHANGED metricRows
  /\ BecomeCollection(j, NextChain(call))
  /\ UNCHANGED <<tick, view>>

-----------------------------------------------------------------------------
(* getLeaderboard *)

\* Latest time recorded, -1 without any.
RecordedBy(rows) == IF rows = <<>> THEN -1 ELSE Max({rows[i].at : i \in DOMAIN rows})

GetLeaderboard ==
  /\ view.step \in {"idle", "done"}
  /\ \E compared \in Comparisons :
       view' = [IdleView EXCEPT !.step = "metrics", !.todo = ChainOrder, !.compared = compared,
                  !.before = [c \in RankedChains |-> RecordedBy(metricRows[c])]]
  /\ UNCHANGED <<metricRows, tick, collections>>

\* Mutant: the latest by the order of saving.
MutLatestMetrics(rows) == {i \in DOMAIN rows : i = Len(rows)}

\* The latest by the time recorded, whichever was saved last.
LatestMetrics(rows) ==
  {i \in DOMAIN rows : \A k \in DOMAIN rows : rows[k].at <= rows[i].at}

\* One query per chain, one after the other.  One that fails fails the request.
GetLatestMetric ==
  LET chain == Head(view.todo)
      rows == metricRows[chain]
  IN /\ view.step = "metrics" /\ view.todo # <<>>
     /\ \/ view' = IdleView
        \/ rows = <<>> /\ view' = [view EXCEPT !.todo = Tail(@)]
        \/ \E i \in LatestMetrics(rows) :
             view' = [view EXCEPT !.todo = Tail(@),
                        !.found = Append(@, [chain |-> chain, at |-> rows[i].at,
                                             score |-> rows[i].score])]
     /\ UNCHANGED <<metricRows, tick, collections>>

\* By score, descending; the sort is stable.
Ahead(found, i, k) ==
  \/ found[i].score > found[k].score
  \/ found[i].score = found[k].score /\ i < k

\* What is sorted to a place has so many ahead of it.
ByScore(found, place) ==
  CHOOSE i \in DOMAIN found :
    Cardinality({k \in DOMAIN found : Ahead(found, k, i)}) = place - 1

Limit(compared) == IF compared = {} THEN BoardLimit ELSE Cardinality(compared)

\* Ranks are given, and the limit applied, before the chains to compare are picked out: of
\* those only the ones within the limit remain.
Ranked(found, limit) ==
  [rank \in 1 .. IF Len(found) < limit THEN Len(found) ELSE limit |->
     LET best == found[ByScore(found, rank)] IN
     [rank |-> rank, chain |-> best.chain, at |-> best.at, score |-> best.score]]

\* What a filter keeps, in the order of the ranks.
Picked(ranked, compared) ==
  LET kept == {r \in DOMAIN ranked : ranked[r].chain \in compared} IN
  [p \in 1 .. Cardinality(kept) |->
     ranked[CHOOSE r \in kept : Cardinality({q \in kept : q < r}) = p - 1]]

RankLeaderboard ==
  LET ranked == Ranked(view.found, Limit(view.compared)) IN
  /\ view.step = "metrics" /\ view.todo = <<>>
  /\ view' = [view EXCEPT !.step = "done", !.found = <<>>,
                 !.entries = IF view.compared = {} THEN ranked ELSE Picked(ranked, view.compared)]
  /\ UNCHANGED <<metricRows, tick, collections>>

ReliabilityNext ==
  \/ TickPasses \/ GetLeaderboard \/ GetLatestMetric \/ RankLeaderboard
  \/ \E j \in Collectors : CollectAllChainMetrics(j) \/ CollectMetrics(j) \/ SaveMetric(j)

ReliabilitySpec == ReliabilityInit /\ [][ReliabilityNext]_reliabilityVars

-----------------------------------------------------------------------------
\* A leaderboard ranks by falling score, no entry goes back behind what was recorded for
\* its chain when it was asked for -- however many jobs overlap and in whatever order they
\* save -- and the whole one gives positions as ranks and leaves out no chain of which
\* there was a metric then, but for its limit (getLeaderboard,
\* getLatestMetricsForAllChains, collectAllChainMetrics).
LeaderboardIsCurrent ==
  view.step = "done" =>
    LET entries == view.entries IN
    /\ \A i, k \in DOMAIN entries : i < k =>
         entries[i].rank < entries[k].rank /\ entries[i].score >= entries[k].score
    /\ \A i \in DOMAIN entries : view.before[entries[i].chain] <= entries[i].at
    /\ view.compared = {} =>
         /\ \A i \in DOMAIN entries : entries[i].rank = i
         /\ \A c \in RankedChains : view.before[c] >= 0 =>
              Len(entries) = BoardLimit \/ \E i \in DOMAIN entries : entries[i].chain = c

===================================================================================
