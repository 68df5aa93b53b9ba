----------------------------- MODULE GasVolatility -----------------------------
(***************************************************************************)
(* Gas price volatility of a chain (src/modules/price-volatility-analyzer):*)
(* the hourly job that saves averaged prices, and the snapshots that the   *)
(* five-minute job and stale answers compute from them.                    *)
(*                                                                         *)
(* Time is in units of which an hour has several.  The prices of the past  *)
(* are the provider's, which may fail; they are not the raw records of the *)
(* minute job, which nothing reads.  A job that is skipped is one that the *)
(* process was not up for.  The seven-day index and the moving averages    *)
(* are output only and left out.                                           *)
(***************************************************************************)
EXTENDS Integers, FiniteSets, FiniteSetsExt, Functions, SequencesExt

CONSTANTS
  HourLength,   \* units of an hour
  BufferHours,  \* hours that the hourly job goes back (2)
  DayLength,    \* units of the window of a snapshot (24 hours)
  StaleAfter,   \* age above which a snapshot is computed anew (5 minutes)
  Prices,       \* prices that a unit may have
  Computations, \* computations and answers that may be under way
  MaxUnit       \* bound on time

ASSUME GasVolatilityAssumption ==
  /\ {HourLength, BufferHours} \subseteq Nat \ {0}
  /\ {DayLength, StaleAfter, MaxUnit} \subseteq Nat /\ Prices \subseteq Nat \ {0}

VARIABLES
  pastPrices,    \* the price of each unit, which the provider knows; the last is now's
  hourRows,      \* the averaged prices saved, in the order of their saving
  backfill,      \* the last hourly job: when it was started and what it has yet to save
  backfilled,    \* when the jobs were started that saved all they had to
  snapshot,      \* the latest snapshot
  computations   \* the computations under way

volatilityVars ==
  <<pastPrices, hourRows, backfill, backfilled, snapshot, computations>>

NoBackfill == [at |-> -1, todo |-> <<>>]
NoSnapshot == [at |-> -1, level |-> "none"]
IdleComputation == [step |-> "idle", at |-> 0, level |-> "none"]

VolatilityInit ==
  /\ \E p \in Prices : pastPrices = <<p>>
  /\ hourRows = <<>> /\ backfill = NoBackfill /\ backfilled = {}
  /\ snapshot = NoSnapshot
  /\ computations = [c \in Computations |-> IdleComputation]

\* The first unit is 0.
Unit == Len(pastPrices) - 1
PriceAt(u) == pastPrices[u + 1]

UnitPasses ==
  /\ Unit < MaxUnit
  /\ \E p \in Prices : pastPrices' = Append(pastPrices, p)
  /\ UNCHANGED <<hourRows, backfill, backfilled, snapshot, computations>>

-----------------------------------------------------------------------------
(* hourlyAggregation *)

HourOf(u) == u \div HourLength
UnitsOf(h) == h * HourLength .. h * HourLength + HourLength - 1

SumOver(S, values) == SumFunctionOnSet(values, S)

Average(units) == SumOver(units, [u \in units |-> PriceAt(u)]) \div Cardinality(units)

\* One row per hour of which there is a price, averaging those that were fetched.
AggregateByInterval(units) ==
  LET hours == {HourOf(u) : u \in units}
      inOrder == CHOOSE s \in [1 .. Cardinality(hours) -> hours] :
                   \A i, j \in DOMAIN s : i < j => s[i] < s[j]
  IN [i \in 1 .. Cardinality(hours) |->
        [hour |-> inOrder[i], price |-> Average(units \cap UnitsOf(inOrder[i]))]]

\* Mutant: the buffer of two hours is one.
MutBufferStart(to) == to - HourLength

BufferStart(to) == to - BufferHours * HourLength

\* The job of an hour, on time or late.
HourlyAggregation ==
  /\ backfill.todo = <<>>
  /\ HourOf(backfill.at) # HourOf(Unit)
  /\ LET from == BufferStart(Unit)
         units == {u \in 0 .. Unit : u >= from}
     IN backfill' = [at |-> Unit, todo |-> AggregateByInterval(units)]
  /\ UNCHANGED <<pastPrices, hourRows, backfilled, snapshot, computations>>

\* Rows are added, whatever rows of the hour there are; the first failure ends the job.
SaveRecord ==
  /\ backfill.todo # <<>>
  /\ \/ /\ hourRows' = Append(hourRows, Head(backfill.todo))
        /\ backfill' = [backfill EXCEPT !.todo = Tail(@)]
        /\ backfilled' = IF Len(backfill.todo) = 1 THEN backfilled \cup {backfill.at} ELSE backfilled
     \/ backfill' = [backfill EXCEPT !.todo = <<>>] /\ UNCHANGED <<hourRows, backfilled>>
  /\ UNCHANGED <<pastPrices, snapshot, computations>>

-----------------------------------------------------------------------------
(* The engine *)

Abs(n) == IF n < 0 THEN -n ELSE n

\* Whether 0.7 stdDev / mean + 0.3 |short / mean - 1| is at most a hundredth of "bound",
\* multiplied out and squared: n rows, of which the k last are the short window.
IndexAtMost(bound, rows, short) ==
  LET price == [i \in rows |-> hourRows[i].price]
      square == [i \in rows |-> price[i] * price[i]]
      n == Cardinality(rows)
      k == Cardinality(short)
      sum == SumOver(rows, price)
      spread == n * SumOver(rows, square) - sum * sum
      rest == bound * sum * k - 30 * Abs(n * SumOver(short, price) - sum * k)
  IN rest >= 0 /\ 4900 * k * k * spread <= rest * rest

\* The index is clamped to 1, which is above the last bound.
ClassifyVolatility(rows, short) ==
  IF IndexAtMost(25, rows, short) THEN "Low"
  ELSE IF IndexAtMost(50, rows, short) THEN "Moderate"
  ELSE IF IndexAtMost(75, rows, short) THEN "High"
  ELSE "Extreme"

\* The rows of the window, by the start of their hour.
GetHourlySeries(to) ==
  {i \in DOMAIN hourRows : hourRows[i].hour * HourLength \in to - DayLength .. to}

\* A tenth of the rows, the last ones: those of one hour come in any order.
ShortWindows(rows) ==
  LET tenth == Cardinality(rows) \div 10
      k == IF tenth < 1 THEN 1 ELSE tenth
  IN {short \in kSubset(k, rows) :
        \A i \in short, j \in rows \ short : hourRows[j].hour <= hourRows[i].hour}

-----------------------------------------------------------------------------
(* computeAndSave and getVolatility *)

BecomeComputation(c, call) == computations' = [computations EXCEPT ![c] = call]

BeginComputation(c) ==
  BecomeComputation(c, [IdleComputation EXCEPT !.step = "read", !.at = Unit])

\* Every five minutes, whatever else is being computed.
RecomputeVolatility(c) ==
  /\ computations[c].step = "idle"
  /\ BeginComputation(c)
  /\ UNCHANGED <<pastPrices, hourRows, backfill, backfilled, snapshot>>

IsStale(s) == s = NoSnapshot \/ Unit - s.at > StaleAfter

\* A fresh snapshot is the answer and changes nothing; else one is computed, at once.
GetVolatility(c) ==
  /\ computations[c].step = "idle" /\ IsStale(snapshot)
  /\ BeginComputation(c)
  /\ UNCHANGED <<pastPrices, hourRows, backfill, backfilled, snapshot>>

ComputeMetrics(c) ==
  LET call == computations[c]
      rows == GetHourlySeries(call.at)
  IN /\ call.step = "read"
     /\ IF Cardinality(rows) < 2 THEN BecomeComputation(c, [call EXCEPT !.step = "save", !.level = "Low"])
        ELSE \E short \in ShortWindows(rows) :
               BecomeComputation(c, [call EXCEPT !.step = "save",
                                                 !.level = ClassifyVolatility(rows, short)])
     /\ UNCHANGED <<pastPrices, hourRows, backfill, backfilled, snapshot>>

\* The latest snapshot is the one that was begun last, not the one saved last.  A failure
\* here, or in a read before, leaves none.
SaveSnapshot(c) ==
  LET call == computations[c] IN
  /\ call.step = "save"
  /\ BecomeComputation(c, IdleComputation)
  /\ \/ UNCHANGED snapshot
     \/ snapshot' = IF call.at > snapshot.at THEN [at |-> call.at, level |-> call.level]
                    ELSE snapshot
  /\ UNCHANGED <<pastPrices, hourRows, backfill, backfilled>>

VolatilityNext ==
  \/ UnitPasses \/ HourlyAggregation \/ SaveRecord
  \/ \E c \in Computations :
       RecomputeVolatility(c) \/ GetVolatility(c) \/ ComputeMetrics(c) \/ SaveSnapshot(c)

VolatilitySpec == VolatilityInit /\ [][VolatilityNext]_volatilityVars

-----------------------------------------------------------------------------
HasFullRow(h) ==
  \E i \in DOMAIN hourRows : hourRows[i].hour = h /\ hourRows[i].price = Average(UnitsOf(h))

\* Once an hour is over, one job that saves all it has to, started before the buffer has
\* left the hour's beginning behind, leaves a row of the whole hour, whatever partial rows
\* there are and whichever jobs failed or were skipped (hourlyAggregation, "last 2 hours
\* buffer").
EveryHourIsCovered ==
  \A u \in backfilled : \A h \in 0 .. HourOf(u) - 1 :
    u <= h * HourLength + 2 * HourLength => HasFullRow(h)

\* Prices that never moved are never called volatile, however many rows an hour has.
CalmIsLow ==
  (\A u \in 0 .. Unit : PriceAt(u) = PriceAt(0)) => snapshot.level \in {"none", "Low"}

\* What the analyser knows is current: a row of every hour that is over, and a snapshot that
\* takes no partial row for a movement of the price (gas-volatility.scheduler.ts,
\* gas-data-aggregation.service.ts, volatility.engine.ts).
VolatilityIsCurrent == EveryHourIsCovered /\ CalmIsLow

===================================================================================
