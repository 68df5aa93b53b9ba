--------------------------- MODULE TransactionMetrics ---------------------------
(***************************************************************************)
(* The metrics of a merchant's transactions on a chain                     *)
(* (apps/api-service/src/transection): periods, totals by type, the time   *)
(* series and the success-rate alert.                                      *)
(*                                                                         *)
(* Months are numbered through the years, so that a month or a day that    *)
(* runs over its year or month needs no case of its own, as with Date.     *)
(* Times are counted in parts of a day.  Rates are in hundredths of a      *)
(* percent.                                                                *)
(***************************************************************************)
EXTENDS Integers, FiniteSets, Sequences, Functions

CONSTANTS
  FirstDays,     \* per month: its first day
  DayParts,      \* distinct times of a day
  TxTypes,       \* types of transactions
  MaxRows        \* bound on the transactions of a merchant on a chain

ASSUME TransactionMetricsAssumption ==
  /\ DayParts \in Nat \ {0} /\ MaxRows \in Nat
  /\ FirstDays \in Seq(Nat)
  /\ \A m, n \in DOMAIN FirstDays : m < n => FirstDays[m] < FirstDays[n]

VARIABLE history   \* the transactions, numbered

metricVars == <<history>>

FullMonths == {m \in DOMAIN FirstDays : m + 1 \in DOMAIN FirstDays}
Times == UNION {(FirstDays[m] * DayParts)..(FirstDays[m + 1] * DayParts - 1) : m \in FullMonths}
TxRecords == [time : Times, type : TxTypes, status : {"success", "failure", "reverted"}]

-----------------------------------------------------------------------------

\* Mutant: a day ends with the first instant of the next.
MutParsePeriod(period) ==
  IF period.day = 0
  THEN [start |-> FirstDays[period.month] * DayParts, end |-> FirstDays[period.month + 1] * DayParts]
  ELSE LET day == FirstDays[period.month] + period.day - 1
       IN [start |-> day * DayParts, end |-> (day + 1) * DayParts + 1]

\* A period is a month, or a month and a day; its end is excluded.
ParsePeriod(period) ==
  IF period.day = 0
  THEN [start |-> FirstDays[period.month] * DayParts, end |-> FirstDays[period.month + 1] * DayParts]
  ELSE LET day == FirstDays[period.month] + period.day - 1
       IN [start |-> day * DayParts, end |-> (day + 1) * DayParts]

AnyPeriod == [month |-> 0, day |-> 0]

\* The numbers of the transactions that a query selects.
Aggregate(query) ==
  {i \in DOMAIN history :
     /\ query.period # AnyPeriod =>
          /\ history[i].time >= ParsePeriod(query.period).start
          /\ history[i].time < ParsePeriod(query.period).end
     /\ query.type # "any" => history[i].type = query.type}

Having(txs, status) == {i \in txs : history[i].status = status}

\* toFixed(2) of a percentage.
Rate(successful, total) == (2 * 10000 * successful + total) \div (2 * total)
NoRate == -1

BreakdownByType(txs) ==
  [type \in {history[i].type : i \in txs} |->
     LET ofType == {i \in txs : history[i].type = type} IN
       [total |-> Cardinality(ofType), successful |-> Cardinality(Having(ofType, "success")),
        rate |-> Rate(Cardinality(Having(ofType, "success")), Cardinality(ofType))]]

BuildResult(txs) ==
  LET successful == Cardinality(Having(txs, "success")) IN
    [total |-> Cardinality(txs),
     successful |-> successful,
     failed |-> Cardinality(Having(txs, "failure")),
     reverted |-> Cardinality(Having(txs, "reverted")),
     rate |-> IF txs = {} THEN NoRate ELSE Rate(successful, Cardinality(txs)),
     byType |-> BreakdownByType(txs)]

GetMetrics(query) == BuildResult(Aggregate(query))

\* The month and, for the daily series, the day of the month that a time falls in.
BucketKey(time, granularity) ==
  LET day == time \div DayParts
      month == CHOOSE m \in FullMonths : FirstDays[m] <= day /\ day < FirstDays[m + 1]
  IN [month |-> month, day |-> IF granularity = "monthly" THEN 0 ELSE day - FirstDays[month] + 1]

GetTimeSeries(query, granularity) ==
  LET txs == Aggregate(query)
      key(i) == BucketKey(history[i].time, granularity)
  IN [k \in {key(i) : i \in txs} |-> BuildResult({i \in txs : key(i) = k})]

\* threshold is in percent.
CheckAlerts(query, threshold) ==
  LET rate == GetMetrics(query).rate IN
    IF rate = NoRate \/ rate >= threshold * 100 THEN "none"
    ELSE IF rate < (threshold - 10) * 100 THEN "critical" ELSE "warning"

-----------------------------------------------------------------------------

MetricsInit == history \in UNION {[1..n -> TxRecords] : n \in 0..MaxRows}

\* Queries change nothing.
MetricsNext == UNCHANGED metricVars

MetricsSpec == MetricsInit /\ [][MetricsNext]_metricVars

-----------------------------------------------------------------------------
(* Properties *)

Granularities == {"monthly", "daily"}

\* parsePeriod and the time series cut time in two ways that must be one: each bucket
\* of a series is what the metrics of its period are, and the buckets together hold
\* every transaction once, also at midnight, at the ends of months and for one type.
\* The alert compares a rate rounded to hundredths of a per cent: it is never raised when
\* the exact one reaches the threshold, and always when what is missing does not round away.
PeriodsMatchBuckets ==
  \A type \in TxTypes \cup {"any"} :
    LET all == [period |-> AnyPeriod, type |-> type]
        metrics == GetMetrics(all)
    IN /\ \A g \in Granularities :
            LET series == GetTimeSeries(all, g) IN
              /\ \A k \in DOMAIN series :
                   series[k] = GetMetrics([period |-> k, type |-> type])
              /\ SumFunction([k \in DOMAIN series |-> series[k].total]) = metrics.total
       /\ SumFunction([t \in DOMAIN metrics.byType |-> metrics.byType[t].total]) = metrics.total
       /\ \A threshold \in {50, 95} :
            LET missing == threshold * metrics.total - 100 * metrics.successful
                alert == CheckAlerts(all, threshold)
            IN /\ missing <= 0 => alert = "none"
               /\ 200 * missing > metrics.total => alert # "none"
=================================================================================
