-------------------------- MODULE ServicesFiguresProofs --------------------------
(***************************************************************************)
(* The services of MCServicesSafe whose figures are counted and summed up, *)
(* for every value of their constants: the metrics of transactions         *)
(* (PeriodsMatchBuckets), the suggestions to save gas (SuggestionsPay),    *)
(* the advice on failed transactions (AdviceFits), and, as services that   *)
(* run beside all the others, the cost model, the prices of gas and the    *)
(* monitoring of requests (FiguresAgree).                                  *)
(***************************************************************************)
EXTENDS MCServicesSafe, DataInduction

---------------------------------------------------------------------------------
(* TransactionMetrics: PeriodsMatchBuckets. *)

-----------------------------------------------------------------------------
\* The day of a time, and the month that it is in.
InMonth(m, day) == m \in FullMonths /\ FirstDays[m] <= day /\ day < FirstDays[m + 1]

LEMMA MonthsAre ==
  ASSUME NEW m \in FullMonths
  PROVE  m \in Nat /\ m >= 1 /\ FirstDays[m] \in Nat /\ FirstDays[m + 1] \in Nat
BY TransactionMetricsAssumption DEF FullMonths

LEMMA OneMonth ==
  ASSUME NEW day \in Nat, NEW m, InMonth(m, day), NEW n, InMonth(n, day)
  PROVE  m = n
<1>1. ASSUME NEW j \in FullMonths, NEW k \in FullMonths, j < k,
             day < FirstDays[j + 1], FirstDays[k] <= day
      PROVE  FALSE
  <2>1. j \in Nat /\ k \in Nat /\ j + 1 \in DOMAIN FirstDays /\ k \in DOMAIN FirstDays
    BY MonthsAre DEF FullMonths
  <2>2. FirstDays[j + 1] \in Nat /\ FirstDays[k] \in Nat
    BY MonthsAre
  <2>3. j + 1 = k \/ j + 1 < k
    BY <2>1, <1>1
  <2>4. FirstDays[j + 1] <= FirstDays[k]
    <3>1. \A a, b \in DOMAIN FirstDays : a < b => FirstDays[a] < FirstDays[b]
      BY ONLY TransactionMetricsAssumption
    <3> QED BY ONLY <2>1, <2>2, <2>3, <3>1
  <2> QED BY <2>2, <2>4, <1>1
<1>2. m \in Nat /\ n \in Nat /\ m \in FullMonths /\ n \in FullMonths
  BY MonthsAre DEF InMonth
<1>3. ~(m < n) /\ ~(n < m)
  BY <1>1, <1>2 DEF InMonth
<1> QED BY <1>2, <1>3

(* A number of whole days. *)
LEMMA DayIs ==
  ASSUME NEW time \in Nat, NEW d \in Nat
  PROVE  /\ time \div DayParts \in Nat
         /\ d * DayParts \in Nat
         /\ d * DayParts <= time <=> d <= time \div DayParts
<1>1. PICK p \in Nat \ {0} : p = DayParts
  BY TransactionMetricsAssumption
<1>2. PICK q \in Nat : q = time \div p
  <2>1. time \div p \in Nat
    OBVIOUS
  <2> QED BY <2>1
<1>3. q * p <= time /\ time < q * p + p /\ q * p \in Nat /\ d * p \in Nat
  <2>1. time = p * q + (time % p) /\ time % p \in 0..(p - 1)
    BY <1>2
  <2>2. PICK u \in Nat : u = p * q
    OBVIOUS
  <2> QED BY <2>1, <2>2
<1>4. CASE d <= q
  <2>1. PICK e \in Nat : q = d + e
    <3>1. q - d \in Nat /\ q = d + (q - d)
      BY <1>4
    <3> QED BY <3>1
  <2>2. q * p = d * p + e * p /\ e * p \in Nat
    BY <2>1
  <2>3. PICK u \in Nat, v \in Nat, w \in Nat : u = q * p /\ v = d * p /\ w = e * p
    OBVIOUS
  <2>4. v <= time
    BY <1>3, <2>2, <2>3
  <2> QED BY <1>1, <1>2, <1>3, <1>4, <2>3, <2>4
<1>5. CASE ~(d <= q)
  <2>1. PICK e \in Nat : d = q + 1 + e
    <3>1. d - q - 1 \in Nat /\ d = q + 1 + (d - q - 1)
      BY <1>5
    <3> QED BY <3>1
  <2>2. d * p = q * p + p + e * p /\ e * p \in Nat
    BY <2>1
  <2>3. PICK u \in Nat, v \in Nat, w \in Nat : u = q * p /\ v = d * p /\ w = e * p
    OBVIOUS
  <2>4. ~(v <= time)
    BY <1>3, <2>2, <2>3
  <2> QED BY <1>1, <1>2, <1>3, <1>5, <2>3, <2>4
<1> QED BY <1>4, <1>5

\* What times of the calendar are like.
LEMMA TimesAreDays ==
  ASSUME NEW time \in Times
  PROVE  /\ time \in Nat /\ time \div DayParts \in Nat
         /\ \E m \in FullMonths : InMonth(m, time \div DayParts)
<1>1. PICK m \in FullMonths : time \in (FirstDays[m] * DayParts)..(FirstDays[m + 1] * DayParts - 1)
  BY DEF Times
<1>2. PICK a \in Nat, b \in Nat, p \in Nat : a = FirstDays[m] /\ b = FirstDays[m + 1] /\ p = DayParts
  BY MonthsAre, TransactionMetricsAssumption
<1>3. PICK u \in Nat, v \in Nat : u = a * p /\ v = b * p
  OBVIOUS
<1>4. time \in Nat /\ u <= time /\ ~(v <= time)
  BY <1>1, <1>2, <1>3
<1>5. time \div DayParts \in Nat /\ a <= time \div DayParts /\ ~(b <= time \div DayParts)
  BY <1>2, <1>3, <1>4, DayIs
<1>6. InMonth(m, time \div DayParts)
  BY <1>2, <1>5 DEF InMonth
<1> QED BY <1>4, <1>5, <1>6

(* The month that BucketKey chooses. *)
LEMMA BucketMonth ==
  ASSUME NEW time \in Times, NEW g \in Granularities
  PROVE  \E m \in FullMonths :
           /\ InMonth(m, time \div DayParts)
           /\ BucketKey(time, g) =
                [month |-> m, day |-> IF g = "monthly" THEN 0
                                      ELSE time \div DayParts - FirstDays[m] + 1]
<1>1. PICK day \in Nat : day = time \div DayParts
  BY TimesAreDays
<1>2. PICK m : m = CHOOSE n \in FullMonths : FirstDays[n] <= day /\ day < FirstDays[n + 1]
  OBVIOUS
<1>3. m \in FullMonths /\ InMonth(m, day)
  BY <1>1, <1>2, TimesAreDays DEF InMonth
<1>4. BucketKey(time, g) = [month |-> m, day |-> IF g = "monthly" THEN 0
                                                ELSE day - FirstDays[m] + 1]
  BY <1>1, <1>2 DEF BucketKey
<1> QED BY <1>1, <1>3, <1>4

(* A time is in the period that is the key of another exactly if they have one key.  *)
LEMMA PeriodIsBucket ==
  ASSUME NEW time \in Times, NEW other \in Times, NEW g \in Granularities,
         NEW k, k = BucketKey(other, g)
  PROVE  /\ k # AnyPeriod
         /\ BucketKey(time, g) = k
              <=> ParsePeriod(k).start <= time /\ time < ParsePeriod(k).end
<1>1. PICK d \in Nat, e \in Nat : d = time \div DayParts /\ e = other \div DayParts
  BY TimesAreDays
<1>2. PICK m \in FullMonths :
        /\ InMonth(m, e)
        /\ k = [month |-> m, day |-> IF g = "monthly" THEN 0 ELSE e - FirstDays[m] + 1]
  BY <1>1, BucketMonth
<1>3. PICK n \in FullMonths :
        /\ InMonth(n, d)
        /\ BucketKey(time, g) =
             [month |-> n, day |-> IF g = "monthly" THEN 0 ELSE d - FirstDays[n] + 1]
  BY <1>1, BucketMonth
<1>4. PICK a \in Nat, b \in Nat : a = FirstDays[m] /\ b = FirstDays[m + 1] /\ a <= e /\ e < b
  BY <1>2, MonthsAre DEF InMonth
<1>5. k # AnyPeriod
  BY <1>2, MonthsAre DEF AnyPeriod
<1>6. time \in Nat /\ \A x \in Nat : x * DayParts \in Nat /\ (x * DayParts <= time <=> x <= d)
  BY <1>1, TimesAreDays, DayIs
<1>7. \A x \in Nat : time < x * DayParts <=> d < x
  <2> SUFFICES ASSUME NEW x \in Nat PROVE time < x * DayParts <=> d < x
    OBVIOUS
  <2>1. PICK y \in Nat : y = x * DayParts
    BY <1>6
  <2>2. y <= time <=> x <= d
    BY <1>6, <2>1
  <2> QED BY <1>6, <2>1, <2>2
<1>8. CASE g = "monthly"
  <2>1. k = [month |-> m, day |-> 0] /\ BucketKey(time, g) = [month |-> n, day |-> 0]
    BY <1>2, <1>3, <1>8
  <2>2. ParsePeriod(k) = [start |-> a * DayParts, end |-> b * DayParts]
    BY <2>1, <1>4 DEF ParsePeriod
  <2>3. ParsePeriod(k).start <= time /\ time < ParsePeriod(k).end <=> a <= d /\ d < b
    BY <2>2, <1>4, <1>6, <1>7
  <2>4. a <= d /\ d < b <=> InMonth(m, d)
    BY <1>4 DEF InMonth
  <2>5. InMonth(m, d) <=> m = n
    BY <1>3, OneMonth
  <2>6. BucketKey(time, g) = k <=> m = n
    BY <2>1
  <2> QED BY <1>5, <2>3, <2>4, <2>5, <2>6
<1>9. CASE g # "monthly"
  <2>1. /\ k = [month |-> m, day |-> e - a + 1]
        /\ BucketKey(time, g) = [month |-> n, day |-> d - FirstDays[n] + 1]
    BY <1>2, <1>3, <1>4, <1>9
  <2>2. e - a + 1 # 0 /\ a + (e - a + 1) - 1 = e /\ e + 1 \in Nat
    BY <1>4
  <2>3. ParsePeriod(k) = [start |-> e * DayParts, end |-> (e + 1) * DayParts]
    BY <2>1, <2>2, <1>4 DEF ParsePeriod
  <2>4. ParsePeriod(k).start <= time /\ time < ParsePeriod(k).end <=> e <= d /\ d < e + 1
    BY <2>2, <2>3, <1>6, <1>7
  <2>5. e <= d /\ d < e + 1 <=> d = e
    OBVIOUS
  <2>6. ASSUME d = e PROVE BucketKey(time, g) = k
    <3>1. m = n
      BY <2>6, <1>2, <1>3, OneMonth
    <3> QED BY <2>1, <2>6, <3>1, <1>4
  <2>7. ASSUME BucketKey(time, g) = k PROVE d = e
    <3>1. m = n /\ d - FirstDays[n] + 1 = e - a + 1
      BY <2>1, <2>7
    <3>2. d - a + 1 = e - a + 1
      BY <3>1, <1>4
    <3> QED BY <3>2
  <2> QED BY <1>5, <2>4, <2>5, <2>6, <2>7
<1> QED BY <1>8, <1>9

-----------------------------------------------------------------------------
\* The metrics of a period are made of the same transactions as the bucket.

TxHistory == history \in UNION {[1..n -> TxRecords] : n \in Nat}

Everything(type) == [period |-> AnyPeriod, type |-> type]

LEMMA HistoryIs ==
  ASSUME TxHistory
  PROVE  IsFiniteSet(DOMAIN history) /\ \A i \in DOMAIN history : history[i].time \in Times
<1>1. PICK n \in Nat : history \in [1..n -> TxRecords]
  BY DEF TxHistory
<1>2. IsFiniteSet(1..n)
  BY FS_Interval
<1>3. \A i \in 1..n : history[i] \in TxRecords
  BY <1>1
<1> QED BY <1>1, <1>2, <1>3 DEF TxRecords

LEMMA AllOfType ==
  ASSUME NEW type
  PROVE  Aggregate(Everything(type)) =
           {i \in DOMAIN history : type # "any" => history[i].type = type}
BY DEF Aggregate, Everything

LEMMA BucketIsPeriod ==
  ASSUME TxHistory, NEW type, NEW g \in Granularities,
         NEW txs, txs = Aggregate(Everything(type)),
         NEW j \in txs, NEW k, k = BucketKey(history[j].time, g)
  PROVE  {i \in txs : BucketKey(history[i].time, g) = k} = Aggregate([period |-> k, type |-> type])
<1>1. txs = {i \in DOMAIN history : type # "any" => history[i].type = type}
  BY AllOfType
<1>2. \A i \in DOMAIN history :
        /\ k # AnyPeriod
        /\ BucketKey(history[i].time, g) = k
             <=> ParsePeriod(k).start <= history[i].time /\ history[i].time < ParsePeriod(k).end
  <2> SUFFICES ASSUME NEW i \in DOMAIN history
               PROVE  /\ k # AnyPeriod
                      /\ BucketKey(history[i].time, g) = k
                           <=> ParsePeriod(k).start <= history[i].time
                                 /\ history[i].time < ParsePeriod(k).end
    OBVIOUS
  <2>1. history[i].time \in Times /\ history[j].time \in Times
    BY <1>1, HistoryIs
  <2> QED BY <2>1, PeriodIsBucket
<1>3. Aggregate([period |-> k, type |-> type]) =
        {i \in DOMAIN history :
           /\ k # AnyPeriod => ParsePeriod(k).start <= history[i].time
                                 /\ history[i].time < ParsePeriod(k).end
           /\ type # "any" => history[i].type = type}
  <2>1. \A i \in DOMAIN history :
          /\ ParsePeriod(k).start \in Int /\ history[i].time \in Int
    <3>1. \A i \in DOMAIN history : history[i].time \in Int
      BY HistoryIs, TimesAreDays
    <3>2. history[j].time \in Times
      BY <1>1, HistoryIs
    <3>3. PICK m \in FullMonths :
            /\ InMonth(m, history[j].time \div DayParts)
            /\ k = [month |-> m, day |-> IF g = "monthly" THEN 0
                                         ELSE history[j].time \div DayParts - FirstDays[m] + 1]
      BY <3>2, BucketMonth
    <3>4. PICK a \in Nat, d \in Nat, p \in Nat :
            a = FirstDays[m] /\ d = history[j].time \div DayParts /\ p = DayParts
      BY <3>2, MonthsAre, TimesAreDays, TransactionMetricsAssumption
    <3>5. ParsePeriod(k).start \in Int
      <4>1. CASE k.day = 0
        BY <4>1, <3>3, <3>4 DEF ParsePeriod
      <4>2. CASE k.day # 0
        <5>1. k.day \in Int /\ k.month = m
          BY <4>2, <3>3, <3>4
        <5>2. (a + k.day - 1) * p \in Int
          BY <5>1
        <5> QED BY <4>2, <5>1, <5>2, <3>4 DEF ParsePeriod
      <4> QED BY <4>1, <4>2
    <3> QED BY <3>1, <3>5
  <2>2. \A i \in DOMAIN history :
          history[i].time >= ParsePeriod(k).start <=> ParsePeriod(k).start <= history[i].time
    BY <2>1
  <2> QED BY <2>2 DEF Aggregate
<1> QED BY <1>1, <1>2, <1>3

LEMMA ResultTotal ==
  ASSUME NEW txs
  PROVE  BuildResult(txs).total = Cardinality(txs)
BY DEF BuildResult

LEMMA SeriesAgrees ==
  ASSUME TxHistory, NEW type, NEW g \in Granularities,
         NEW series, series = GetTimeSeries(Everything(type), g)
  PROVE  /\ \A k \in DOMAIN series : series[k] = GetMetrics([period |-> k, type |-> type])
         /\ SumFunction([k \in DOMAIN series |-> series[k].total])
              = GetMetrics(Everything(type)).total
<1>1. PICK txs : txs = Aggregate(Everything(type))
  OBVIOUS
<1> DEFINE key == [i \in txs |-> BucketKey(history[i].time, g)]
           K == {key[i] : i \in txs}
           portion(k) == {i \in txs : BucketKey(history[i].time, g) = k}
<1>2. /\ DOMAIN series = K /\ \A k \in K : series[k] = BuildResult(portion(k))
  <2>1. K = {BucketKey(history[i].time, g) : i \in txs}
    OBVIOUS
  <2>2. series = [k \in K |-> BuildResult(portion(k))]
    BY <1>1, <2>1 DEF GetTimeSeries
  <2> QED BY <2>2
<1>3. ASSUME NEW k \in K PROVE series[k] = GetMetrics([period |-> k, type |-> type])
  <2>1. PICK j \in txs : k = BucketKey(history[j].time, g)
    OBVIOUS
  <2>2. portion(k) = Aggregate([period |-> k, type |-> type])
    BY <1>1, <2>1, BucketIsPeriod
  <2> QED BY <1>2, <2>2 DEF GetMetrics
<1>4. IsFiniteSet(txs)
  <2>1. txs \subseteq DOMAIN history
    BY <1>1 DEF Aggregate
  <2> QED BY <2>1, HistoryIs, FS_Subset
<1>5. \A k \in K : portion(k) = Keyed(txs, key, k)
  BY DEF Keyed
<1> DEFINE totals == [k \in K |-> series[k].total]
<1>6. \A k \in K : totals[k] = Cardinality(Keyed(txs, key, k))
  <2>1. \A k \in K : series[k].total = Cardinality(portion(k))
    <3> HIDE DEF K, portion
    <3> QED BY <1>2, ResultTotal
  <2> QED BY <2>1, <1>5
<1>7. SumFunctionOnSet(totals, K) = Cardinality(txs)
  <2>1. PICK f, keys : f = totals /\ keys = K
    OBVIOUS
  <2>2. PICK h : h = key
    OBVIOUS
  <2>3. keys = {h[i] : i \in txs} /\ \A k \in keys : f[k] = Cardinality(Keyed(txs, h, k))
    BY <1>6, <2>1, <2>2
  <2>4. SumFunctionOnSet(f, keys) = Cardinality(txs)
    BY <1>4, <2>3, CountByKey
  <2> QED BY <2>1, <2>4
<1>8. DOMAIN totals = K
  OBVIOUS
<1>9. SumFunction(totals) = Cardinality(txs)
  BY <1>7, <1>8 DEF SumFunction
<1>10. GetMetrics(Everything(type)).total = Cardinality(txs)
  BY <1>1 DEF GetMetrics, BuildResult
<1> QED BY <1>2, <1>3, <1>9, <1>10

LEMMA TypesAgree ==
  ASSUME TxHistory, NEW type, NEW metrics, metrics = GetMetrics(Everything(type))
  PROVE  SumFunction([t \in DOMAIN metrics.byType |-> metrics.byType[t].total]) = metrics.total
<1>1. PICK txs : txs = Aggregate(Everything(type))
  OBVIOUS
<1>2. PICK key : key = [i \in txs |-> history[i].type]
  OBVIOUS
<1>3. PICK K : K = {key[i] : i \in txs}
  OBVIOUS
<1>4. metrics.byType = BreakdownByType(txs) /\ metrics.total = Cardinality(txs)
  BY <1>1 DEF GetMetrics, BuildResult
<1>5. K = {history[i].type : i \in txs}
  BY <1>2, <1>3
<1>6. /\ DOMAIN metrics.byType = K
      /\ \A t \in K : metrics.byType[t].total = Cardinality({i \in txs : history[i].type = t})
  BY <1>4, <1>5 DEF BreakdownByType
<1>7. \A t \in K : {i \in txs : history[i].type = t} = Keyed(txs, key, t)
  BY <1>2 DEF Keyed
<1>8. IsFiniteSet(txs)
  <2>1. txs \subseteq DOMAIN history
    BY <1>1 DEF Aggregate
  <2> QED BY <2>1, HistoryIs, FS_Subset
<1>9. PICK f : f = [t \in DOMAIN metrics.byType |-> metrics.byType[t].total]
  OBVIOUS
<1>10. DOMAIN f = K /\ \A t \in K : f[t] = Cardinality(Keyed(txs, key, t))
  BY <1>6, <1>7, <1>9
<1>11. SumFunctionOnSet(f, K) = Cardinality(txs)
  BY <1>3, <1>8, <1>10, CountByKey
<1> QED BY <1>4, <1>9, <1>10, <1>11 DEF SumFunction

-----------------------------------------------------------------------------
\* The alert.

Rounds(r, s, n) ==
  /\ \A x \in Nat : 10000 * s >= x * n => r >= x
  /\ \A x \in Nat : r >= x => 20000 * s + n >= 2 * (x * n)

(* A rate is rounded by half a hundredth of a per cent at most. *)
LEMMA RateIs ==
  ASSUME NEW s \in Nat, NEW n \in Nat \ {0}, NEW r, r = Rate(s, n)
  PROVE  r \in Nat /\ Rounds(r, s, n)
<1>1. PICK a \in Nat, d \in Nat \ {0} : a = 2 * 10000 * s + n /\ d = 2 * n
  OBVIOUS
<1>2. r = a \div d /\ r \in Nat
  BY <1>1 DEF Rate
<1>3. r * d <= a /\ a < r * d + d /\ r * d \in Nat
  <2>1. a = d * r + (a % d) /\ a % d \in 0..(d - 1)
    BY <1>2
  <2>2. PICK u \in Nat : u = d * r /\ u = r * d
    BY <1>2
  <2> QED BY <2>1, <2>2
<1>4. ASSUME NEW x \in Nat, 10000 * s >= x * n PROVE r >= x
  <2> SUFFICES ASSUME r < x PROVE FALSE
    BY <1>2
  <2>1. PICK e \in Nat : x = r + 1 + e
    <3>1. x - r - 1 \in Nat /\ x = r + 1 + (x - r - 1)
      BY <1>2
    <3> QED BY <3>1
  <2>2. x * n = r * n + n + e * n /\ r * d = 2 * (r * n)
    BY <1>1, <1>2, <2>1
  <2>3. PICK u \in Nat, v \in Nat, w \in Nat : u = x * n /\ v = r * n /\ w = e * n
    BY <1>2
  <2> QED BY <1>1, <1>3, <1>4, <2>2, <2>3
<1>5. ASSUME NEW x \in Nat, r >= x PROVE 20000 * s + n >= 2 * (x * n)
  <2>1. PICK e \in Nat : r = x + e
    <3>1. r - x \in Nat /\ r = x + (r - x)
      BY <1>2, <1>5
    <3> QED BY <3>1
  <2>2. r * d = 2 * (x * n) + 2 * (e * n)
    BY <1>1, <2>1
  <2>3. PICK u \in Nat, v \in Nat : u = x * n /\ v = e * n
    OBVIOUS
  <2> QED BY <1>1, <1>3, <2>2, <2>3
<1> QED BY <1>2, <1>4, <1>5 DEF Rounds

LEMMA AlertIs ==
  ASSUME TxHistory, NEW query, NEW threshold \in {50, 95},
         NEW metrics, metrics = GetMetrics(query)
  PROVE  LET missing == threshold * metrics.total - 100 * metrics.successful
             alert == CheckAlerts(query, threshold)
         IN /\ missing <= 0 => alert = "none"
            /\ 200 * missing > metrics.total => alert # "none"
<1>1. PICK txs : txs = Aggregate(query) /\ txs \subseteq DOMAIN history
  BY ZenonT(30) DEF Aggregate
<1>2. IsFiniteSet(txs)
  BY <1>1, HistoryIs, FS_Subset
<1>3. PICK n \in Nat, s \in Nat : n = Cardinality(txs) /\ s = Cardinality(Having(txs, "success")) /\ s <= n
  <2>1. Having(txs, "success") \subseteq txs
    BY DEF Having
  <2> QED BY <1>2, <2>1, FS_Subset, FS_CardinalityType
<1>4. /\ metrics.total = n /\ metrics.successful = s
      /\ metrics.rate = IF txs = {} THEN NoRate ELSE Rate(s, n)
  BY <1>1, <1>3 DEF GetMetrics, BuildResult
<1>5. CASE txs = {}
  <2>1. n = 0 /\ s = 0
    BY <1>3, <1>5, FS_EmptySet
  <2>2. CheckAlerts(query, threshold) = "none"
    BY <1>4, <1>5 DEF CheckAlerts
  <2> QED BY <1>4, <2>1, <2>2
<1>6. CASE txs # {}
  <2>1. n \in Nat \ {0}
    BY <1>2, <1>3, <1>6, FS_EmptySet
  <2>2. PICK r \in Nat : metrics.rate = r /\ Rounds(r, s, n)
    <3>1. PICK r : r = Rate(s, n)
      OBVIOUS
    <3>2. r \in Nat /\ Rounds(r, s, n)
      BY <2>1, <3>1, RateIs
    <3> QED BY <1>4, <1>6, <3>1, <3>2
  <2>3. CheckAlerts(query, threshold) = "none" <=> r >= threshold * 100
    BY <2>2 DEF CheckAlerts, NoRate
  <2>4. threshold \in Nat /\ threshold * 100 \in Nat
    OBVIOUS
  <2>5. PICK p \in Nat : p = threshold * n /\ (threshold * 100) * n = 100 * p
    BY <2>4
  <2>6. 10000 * s >= 100 * p => r >= threshold * 100
    BY <2>2, <2>4, <2>5 DEF Rounds
  <2>7. r >= threshold * 100 => 20000 * s + n >= 2 * (100 * p)
    BY <2>2, <2>4, <2>5 DEF Rounds
  <2> QED BY <1>4, <2>3, <2>5, <2>6, <2>7
<1> QED BY <1>5, <1>6

(* Whatever the months, the types and the transactions are: the metrics of a period are *)
(* those of its bucket, buckets and types hold every transaction once, and the alert is *)
(* raised when more is missing than rounds away (parsePeriod, getTimeSeries,            *)
(* checkAlerts of transactions.service.ts).                                             *)
THEOREM PeriodsHold == MetricsSpec => []PeriodsMatchBuckets
<1>1. TxHistory => PeriodsMatchBuckets
  <2> SUFFICES ASSUME TxHistory, NEW type \in TxTypes \cup {"any"}
               PROVE  LET all == Everything(type)
                          metrics == GetMetrics(all)
                      IN /\ \A g \in Granularities :
                              LET series == GetTimeSeries(all, g) IN
                                /\ \A k \in DOMAIN series :
                                     series[k] = GetMetrics([period |-> k, type |-> type])
                                /\ SumFunction([k \in DOMAIN series |-> series[k].total]) = metrics.total
                         /\ SumFunction([t \in DOMAIN metrics.byType |-> metrics.byType[t].total]) = metrics.total
                         /\ \A threshold \in {50, 95} :
                              LET missing == threshold * metrics.total - 100 * metrics.successful
                                  alert == CheckAlerts(all, threshold)
                              IN /\ missing <= 0 => alert = "none"
                                 /\ 200 * missing > metrics.total => alert # "none"
    BY DEF PeriodsMatchBuckets, Everything
  <2> QED BY SeriesAgrees, TypesAgree, AlertIs
<1>2. MetricsInit => TxHistory
  <2>1. MaxRows \in Nat
    BY TransactionMetricsAssumption
  <2>2. 0..MaxRows \subseteq Nat
    BY <2>1
  <2> QED BY <2>2 DEF MetricsInit, TxHistory
<1>3. TxHistory /\ [MetricsNext]_metricVars => TxHistory'
  BY DEF MetricsNext, metricVars, TxHistory
<1> QED BY <1>1, <1>2, <1>3, PTL DEF MetricsSpec

---------------------------------------------------------------------------------
(* Optimization: SuggestionsPay. *)

\* Averages as fractions.

LEMMA CheaperIs ==
  ASSUME NEW hours, NEW h, NEW k,
         hours[h].price \in Nat, hours[k].price \in Nat,
         hours[h].count \in Nat \ {0}, hours[k].count \in Nat \ {0}
  PROVE  LET x == hours[h].price * hours[k].count
             y == hours[k].price * hours[h].count
         IN CheaperHour(hours, h, k) <=> x < y \/ (x = y /\ h < k)
<1>1. PICK x \in Nat, y \in Nat :
        x = hours[h].price * hours[k].count /\ y = hours[k].price * hours[h].count
  OBVIOUS
<1>2. CheaperHour(hours, h, k) <=> x - y < 0 \/ (x - y = 0 /\ h < k)
  BY <1>1 DEF CheaperHour
<1> QED BY <1>1, <1>2

LEMMA CheaperOrders ==
  ASSUME NEW H, H \subseteq Nat, NEW hours,
         \A h \in H : hours[h].price \in Nat /\ hours[h].count \in Nat \ {0}
  PROVE  /\ \A h, k \in H : h # k => CheaperHour(hours, h, k) \/ CheaperHour(hours, k, h)
         /\ \A h, k, l \in H : CheaperHour(hours, h, k) /\ CheaperHour(hours, k, l)
                                 => CheaperHour(hours, h, l)
<1>1. ASSUME NEW h \in H, NEW k \in H, h # k
      PROVE  CheaperHour(hours, h, k) \/ CheaperHour(hours, k, h)
  <2>1. PICK p \in Nat, q \in Nat, a \in Nat, b \in Nat :
          p = hours[h].price /\ q = hours[k].price /\ a = hours[h].count /\ b = hours[k].count
    OBVIOUS
  <2>4. PICK x \in Nat, y \in Nat :
          x = hours[h].price * hours[k].count /\ y = hours[k].price * hours[h].count
    <3>1. p * b \in Nat /\ q * a \in Nat
      OBVIOUS
    <3> QED BY <2>1, <3>1
  <2>2. /\ CheaperHour(hours, h, k) <=> x < y \/ (x = y /\ h < k)
        /\ CheaperHour(hours, k, h) <=> y < x \/ (y = x /\ k < h)
    BY <2>4, CheaperIs
  <2>3. h < k \/ k < h
    <3>1. h \in Nat /\ k \in Nat
      OBVIOUS
    <3> QED BY ONLY <1>1, <3>1
  <2> QED BY <2>2, <2>3
<1>2. ASSUME NEW h \in H, NEW k \in H, NEW l \in H,
             CheaperHour(hours, h, k), CheaperHour(hours, k, l)
      PROVE  CheaperHour(hours, h, l)
  <2>1. PICK p \in Nat, q \in Nat, r \in Nat, a \in Nat \ {0}, b \in Nat \ {0}, c \in Nat \ {0} :
          /\ p = hours[h].price /\ q = hours[k].price /\ r = hours[l].price
          /\ a = hours[h].count /\ b = hours[k].count /\ c = hours[l].count
    <3>1. /\ hours[h].price \in Nat /\ hours[k].price \in Nat /\ hours[l].price \in Nat
          /\ hours[h].count \in Nat \ {0} /\ hours[k].count \in Nat \ {0}
          /\ hours[l].count \in Nat \ {0}
      OBVIOUS
    <3> QED BY ONLY <3>1, Zenon
  <2>2. PICK x \in Nat, y \in Nat, v \in Nat, w \in Nat, s \in Nat, t \in Nat :
          /\ x = p * b /\ y = q * a
          /\ v = q * c /\ w = r * b
          /\ s = p * c /\ t = r * a
    <3>1. /\ p * b \in Nat /\ q * a \in Nat /\ q * c \in Nat
          /\ r * b \in Nat /\ p * c \in Nat /\ r * a \in Nat
      OBVIOUS
    <3> QED BY ONLY <3>1, Zenon
  <2>3. /\ x < y \/ (x = y /\ h < k)
        /\ v < w \/ (v = w /\ k < l)
        /\ CheaperHour(hours, h, l) <=> s < t \/ (s = t /\ h < l)
    BY <1>2, <2>1, <2>2, CheaperIs
  <2>4. h \in Nat /\ k \in Nat /\ l \in Nat
    OBVIOUS
  <2>5. c * x = b * s /\ c * y = a * v /\ a * w = b * t
    BY <2>2
  <2>6. c * x <= c * y /\ (c * y <= c * x <=> y <= x)
    BY <2>3, Multiplied
  <2>7. a * v <= a * w /\ (a * w <= a * v <=> w <= v)
    BY <2>3, Multiplied
  <2>8. b * s <= b * t => s <= t
    BY Multiplied
  <2>9. b * t <= b * s <=> t <= s
    BY Multiplied
  <2>10. PICK i \in Nat, j \in Nat, m \in Nat : i = b * s /\ j = a * v /\ m = b * t
    OBVIOUS
  <2>11. s <= t
    BY <2>5, <2>6, <2>7, <2>8, <2>10
  <2>12. t <= s => y <= x /\ w <= v
    BY <2>5, <2>6, <2>7, <2>9, <2>10
  <2>13. CASE t <= s
    BY <2>3, <2>4, <2>11, <2>12, <2>13
  <2>14. CASE ~(t <= s)
    BY <2>3, <2>14
  <2> QED BY <2>13, <2>14
<1> QED BY <1>1, <1>2

(* There is a cheapest hour and a dearest one. *)
LEMMA ExtremeHours ==
  ASSUME NEW H, IsFiniteSet(H), H # {}, H \subseteq Nat, NEW hours,
         \A h \in H : hours[h].price \in Nat /\ hours[h].count \in Nat \ {0}
  PROVE  /\ \E h \in H : \A k \in H : k = h \/ CheaperHour(hours, h, k)
         /\ \E h \in H : \A k \in H : k = h \/ CheaperHour(hours, k, h)
<1> DEFINE R == {p \in H \X H : CheaperHour(hours, p[1], p[2])}
           Q == {p \in H \X H : CheaperHour(hours, p[2], p[1])}
<1>1. \A h, k \in H : /\ <<h, k>> \in R <=> CheaperHour(hours, h, k)
                      /\ <<h, k>> \in Q <=> CheaperHour(hours, k, h)
  OBVIOUS
<1> HIDE DEF R, Q
<1>2. /\ \A h, k \in H : h # k => CheaperHour(hours, h, k) \/ CheaperHour(hours, k, h)
      /\ \A h, k, l \in H : CheaperHour(hours, h, k) /\ CheaperHour(hours, k, l)
                              => CheaperHour(hours, h, l)
  BY CheaperOrders
<1>3. \E h \in H : \A k \in H : k = h \/ <<h, k>> \in R
  <2>1. \A h, k \in H : h # k => <<h, k>> \in R \/ <<k, h>> \in R
    BY <1>1, <1>2
  <2>2. \A h, k, l \in H : <<h, k>> \in R /\ <<k, l>> \in R => <<h, l>> \in R
    BY <1>1, <1>2
  <2>3. IsFiniteSet(H) /\ H # {}
    OBVIOUS
  <2> QED BY ONLY <2>1, <2>2, <2>3, FirstExists
<1>4. \E h \in H : \A k \in H : k = h \/ <<h, k>> \in Q
  <2>1. \A h, k \in H : h # k => <<h, k>> \in Q \/ <<k, h>> \in Q
    BY <1>1, <1>2
  <2>2. \A h, k, l \in H : <<h, k>> \in Q /\ <<k, l>> \in Q => <<h, l>> \in Q
    BY <1>1, <1>2
  <2>3. IsFiniteSet(H) /\ H # {}
    OBVIOUS
  <2> QED BY ONLY <2>1, <2>2, <2>3, FirstExists
<1> QED BY <1>1, <1>3, <1>4

-----------------------------------------------------------------------------
\* The figures of an analysis.

Analysed(txs) == txs \in Seq(MerchantTxs) /\ txs # <<>>

LEMMA AnalysedTxs ==
  ASSUME NEW txs, Analysed(txs)
  PROVE  /\ IsFiniteSet(DOMAIN txs) /\ Cardinality(DOMAIN txs) = Len(txs)
         /\ DOMAIN txs # {} /\ Len(txs) \in Nat \ {0}
         /\ \A i \in DOMAIN txs :
              /\ txs[i].chain \in STRING /\ txs[i].hour \in 0 .. 23
              /\ txs[i].gas \in Nat /\ txs[i].fee \in Nat /\ txs[i].price \in Nat
         /\ \A S \in SUBSET DOMAIN txs :
              /\ GasSum(txs, S) \in Nat /\ FeeSum(txs, S) \in Nat /\ PriceSum(txs, S) \in Nat
              /\ IsFiniteSet(S) /\ Successful(txs, S) \in 0 .. Cardinality(S)
<1>1. txs \in Seq(MerchantTxs) /\ txs # <<>>
  BY DEF Analysed
<1>2. Len(txs) \in Nat \ {0} /\ DOMAIN txs = 1 .. Len(txs)
  BY <1>1, EmptySeq
<1>3. IsFiniteSet(1 .. Len(txs)) /\ Cardinality(1 .. Len(txs)) = Len(txs)
  <2>1. 1 \in Int /\ Len(txs) \in Int /\ 1 <= Len(txs)
    BY <1>2
  <2>2. IsFiniteSet(1 .. Len(txs))
    BY <2>1, FS_Interval
  <2>3. Cardinality(1 .. Len(txs)) = IF 1 > Len(txs) THEN 0 ELSE Len(txs) - 1 + 1
    BY <2>1, FS_Interval
  <2> QED BY <2>1, <2>2, <2>3
<1>4. \A i \in DOMAIN txs :
        /\ txs[i].chain \in STRING /\ txs[i].hour \in 0 .. 23
        /\ txs[i].gas \in Nat /\ txs[i].fee \in Nat /\ txs[i].price \in Nat
  <2>1. \A i \in DOMAIN txs : txs[i] \in MerchantTxs
    BY <1>1
  <2> QED BY <2>1, OptimizationAssumption
<1>5. 1 \in DOMAIN txs
  BY <1>2
<1>6. ASSUME NEW S \in SUBSET DOMAIN txs
      PROVE  /\ GasSum(txs, S) \in Nat /\ FeeSum(txs, S) \in Nat /\ PriceSum(txs, S) \in Nat
             /\ IsFiniteSet(S) /\ Successful(txs, S) \in 0 .. Cardinality(S)
  <2>1. IsFiniteSet(S)
    BY <1>2, <1>3, FS_Subset
  <2>2. \A i \in S : i \in DOMAIN txs
    OBVIOUS
  <2> DEFINE gas == [i \in DOMAIN txs |-> txs[i].gas]
             fee == [i \in DOMAIN txs |-> txs[i].fee]
             price == [i \in DOMAIN txs |-> txs[i].price]
  <2>3. \A i \in S : gas[i] \in Nat /\ fee[i] \in Nat /\ price[i] \in Nat
    BY <1>4, <2>2
  <2>4. /\ GasSum(txs, S) = SumFunctionOnSet(gas, S)
        /\ FeeSum(txs, S) = SumFunctionOnSet(fee, S)
        /\ PriceSum(txs, S) = SumFunctionOnSet(price, S)
    BY DEF GasSum, FeeSum, PriceSum
  <2> HIDE DEF gas, fee, price
  <2>5. GasSum(txs, S) \in Nat /\ FeeSum(txs, S) \in Nat /\ PriceSum(txs, S) \in Nat
    BY <2>1, <2>3, <2>4, SumOfNaturals
  <2>6. Successful(txs, S) \in 0 .. Cardinality(S)
    <3> DEFINE T == {i \in S : txs[i].status = "success"}
    <3>1. T \in SUBSET S
      OBVIOUS
    <3>2. IsFiniteSet(T) /\ Cardinality(T) <= Cardinality(S)
      BY <2>1, <3>1, FS_Subset
    <3>3. Cardinality(T) \in Nat /\ Cardinality(S) \in Nat
      BY <2>1, <3>2, FS_CardinalityType
    <3> QED BY <3>2, <3>3 DEF Successful
  <2> QED BY <2>1, <2>5, <2>6
<1> QED BY <1>2, <1>3, <1>4, <1>5, <1>6

(* The mean price lies between the lowest price and the highest.                     *)
LEMMA MeanBetween ==
  ASSUME NEW txs, Analysed(txs)
  PROVE  LET v == GasPriceVolatility(txs) IN
         /\ v.min \in Nat /\ v.max \in Nat /\ v.sum \in Nat
         /\ AllPriced(txs) => v.min <= v.sum /\ v.sum <= v.max
<1> DEFINE n == Len(txs)
           D == DOMAIN txs
           sum == PriceSum(txs, D)
           price == [i \in D |-> txs[i].price]
<1>1. /\ IsFiniteSet(D) /\ Cardinality(D) = n /\ D # {} /\ n \in Nat \ {0}
      /\ \A i \in D : txs[i].price \in Nat
      /\ sum \in Nat
  BY AnalysedTxs
<1>2. CASE Priced(txs) = {}
  <2>1. GasPriceVolatility(txs) = [min |-> sum, max |-> sum, sum |-> sum]
    BY <1>2 DEF GasPriceVolatility
  <2> QED BY <1>1, <2>1
<1>3. CASE Priced(txs) # {}
  <2>1. IsFiniteSet(Priced(txs)) /\ Priced(txs) \subseteq Nat
    <3>1. IsFiniteSet({txs[i].price : i \in D})
      <4>1. {txs[i].price : i \in D} = {price[i] : i \in D}
        OBVIOUS
      <4> HIDE DEF price
      <4>2. IsFiniteSet({price[i] : i \in D})
        BY <1>1, ValuesAreFinite
      <4> QED BY <4>1, <4>2
    <3>2. Priced(txs) \subseteq {txs[i].price : i \in D}
      BY DEF Priced
    <3> QED BY <1>1, <3>1, <3>2, FS_Subset
  <2>2. \E p \in Priced(txs) : \A m \in Priced(txs) : p <= m
    BY <1>3, <2>1, LeastNumber
  <2>3. PICK low \in Priced(txs) : low = Min(Priced(txs)) /\ \A m \in Priced(txs) : low <= m
    BY <2>2 DEF Min
  <2>4. \E p \in Priced(txs) : \A m \in Priced(txs) : m <= p
    BY <1>3, <2>1, GreatestNumber
  <2>5. \E p \in Priced(txs) : \A m \in Priced(txs) : p >= m
    BY <2>1, <2>4
  <2>6. PICK high \in Priced(txs) : high = Max(Priced(txs)) /\ \A m \in Priced(txs) : m <= high
    <3>1. PICK high \in Priced(txs) :
            high = Max(Priced(txs)) /\ \A m \in Priced(txs) : high >= m
      BY <2>5 DEF Max
    <3> QED BY <2>1, <3>1
  <2>7. low \in Nat /\ high \in Nat
    BY <2>1, <2>3, <2>6
  <2>8. GasPriceVolatility(txs) = [min |-> n * low, max |-> n * high, sum |-> sum]
    BY <1>3, <2>3, <2>6 DEF GasPriceVolatility
  <2>9. n * low \in Nat /\ n * high \in Nat
    BY <1>1, <2>7
  <2>10. AllPriced(txs) => n * low <= sum /\ sum <= n * high
    <3> SUFFICES ASSUME AllPriced(txs) PROVE n * low <= sum /\ sum <= n * high
      OBVIOUS
    <3>1. \A i \in D : price[i] \in Nat /\ price[i] \in Priced(txs)
      BY <1>1 DEF AllPriced, Priced
    <3>2. \A i \in D : low <= price[i] /\ price[i] <= high
      BY <2>3, <2>6, <3>1
    <3>3. sum = SumFunctionOnSet(price, D)
      BY DEF PriceSum
    <3> HIDE DEF price, sum
    <3>4. low * Cardinality(D) <= SumFunctionOnSet(price, D)
          /\ SumFunctionOnSet(price, D) <= high * Cardinality(D)
      BY <1>1, <2>7, <3>1, <3>2, SumBetween
    <3>5. n * low = low * Cardinality(D) /\ n * high = high * Cardinality(D)
      <4>1. PICK c \in Nat, p \in Nat, q \in Nat : c = n /\ p = low /\ q = high
        BY <1>1, <2>7
      <4>2. c * p = p * c /\ c * q = q * c
        OBVIOUS
      <4> QED BY ONLY <1>1, <4>1, <4>2, Zenon
    <3> QED BY ONLY <3>3, <3>4, <3>5, Zenon
  <2> QED BY <1>1, <2>8, <2>9, <2>10
<1> QED BY <1>2, <1>3

(* The chains' transactions are all of them, the hours' fees are all fees.           *)
LEMMA PartsAgree ==
  ASSUME NEW txs, Analysed(txs)
  PROVE  LET a == AnalyzeMerchantTransactions(txs) IN
         /\ SumFunction([c \in DOMAIN a.chains |-> a.chains[c].count]) = a.total
         /\ SumFunction([h \in DOMAIN a.hours |-> a.hours[h].fee]) = a.fee
<1> DEFINE D == DOMAIN txs
           chain == [i \in D |-> txs[i].chain]
           hour == [i \in D |-> txs[i].hour]
           fee == [i \in D |-> txs[i].fee]
           a == AnalyzeMerchantTransactions(txs)
           C == DOMAIN a.chains
           H == DOMAIN a.hours
           number == [c \in C |-> a.chains[c].count]
           fees == [h \in H |-> a.hours[h].fee]
<1>1. IsFiniteSet(D) /\ Cardinality(D) = Len(txs) /\ \A i \in D : fee[i] \in Int
  BY AnalysedTxs
<1>2. /\ a.chains = ChainBreakdown(txs) /\ a.hours = TimeBasedPatterns(txs)
      /\ a.total = Len(txs) /\ a.fee = FeeSum(txs, D)
  BY DEF AnalyzeMerchantTransactions
<1>3. C = {chain[i] : i \in D} /\ H = {hour[i] : i \in D}
  BY <1>2 DEF ChainBreakdown, TimeBasedPatterns
<1>4. \A c \in C : number[c] = Cardinality(Keyed(D, chain, c))
  <2> SUFFICES ASSUME NEW c \in C PROVE number[c] = Cardinality(Keyed(D, chain, c))
    OBVIOUS
  <2>1. a.chains[c].count = Cardinality(OnChain(txs, c))
    BY <1>2, <1>3 DEF ChainBreakdown
  <2>2. OnChain(txs, c) = Keyed(D, chain, c)
    BY DEF OnChain, Keyed
  <2> QED BY <2>1, <2>2
<1>5. \A h \in H : fees[h] = SumFunctionOnSet(fee, Keyed(D, hour, h))
  <2> SUFFICES ASSUME NEW h \in H PROVE fees[h] = SumFunctionOnSet(fee, Keyed(D, hour, h))
    OBVIOUS
  <2>1. a.hours[h].fee = FeeSum(txs, OfHour(txs, h))
    BY <1>2, <1>3 DEF TimeBasedPatterns
  <2>2. OfHour(txs, h) = Keyed(D, hour, h)
    BY DEF OfHour, Keyed
  <2> QED BY <2>1, <2>2 DEF FeeSum
<1>6. SumFunction(number) = SumFunctionOnSet(number, C) /\ SumFunction(fees) = SumFunctionOnSet(fees, H)
  BY DEF SumFunction, SumFunctionOnSet, FoldFunction
<1>7. FeeSum(txs, D) = SumFunctionOnSet(fee, D)
  BY DEF FeeSum
<1>8. IsFiniteSet(H) /\ \A i \in D : hour[i] \in H
  <2>1. \A i \in D : hour[i] \in H
    BY <1>3
  <2> HIDE DEF H, hour, D
  <2>2. IsFiniteSet({hour[i] : i \in D})
    BY <1>1, ValuesAreFinite
  <2> QED BY <1>3, <2>1, <2>2
<1> HIDE DEF D, chain, hour, fee, C, H, number, fees
<1>9. SumFunctionOnSet(number, C) = Cardinality(D)
  <2>1. PICK t, K, S, g : t = number /\ K = C /\ S = D /\ g = chain
    OBVIOUS
  <2>2. /\ IsFiniteSet(S) /\ K = {g[i] : i \in S}
        /\ \A c \in K : t[c] = Cardinality(Keyed(S, g, c))
    BY ONLY <1>1, <1>3, <1>4, <2>1
  <2>3. SumFunctionOnSet(t, K) = Cardinality(S)
    BY ONLY <2>2, CountByKey
  <2> QED BY <2>1, <2>3
<1>10. SumFunctionOnSet(fees, H) = SumFunctionOnSet(fee, D)
  <2>1. PICK t, K, v, S, g : t = fees /\ K = H /\ v = fee /\ S = D /\ g = hour
    OBVIOUS
  <2>2. /\ IsFiniteSet(S) /\ (\A i \in S : v[i] \in Int)
        /\ IsFiniteSet(K) /\ (\A i \in S : g[i] \in K)
        /\ \A h \in K : t[h] = SumFunctionOnSet(v, Keyed(S, g, h))
    BY ONLY <1>1, <1>5, <1>8, <2>1
  <2>3. SumFunctionOnSet(t, K) = SumFunctionOnSet(v, S)
    BY ONLY <2>2, SumByKey
  <2> QED BY <2>1, <2>3
<1> QED BY <1>1, <1>2, <1>6, <1>7, <1>9, <1>10 DEF number, fees, C, H

-----------------------------------------------------------------------------
\* The suggestions.

SuggestionTypes == {"TimingAdjustment", "BatchOptimization", "FailedTransactionReduction",
                    "GasPriceOptimization"}
Suggested ==
  [type : SuggestionTypes, savings : Int, priority : Nat, status : {"pending", "applied"}]
\* What may be derived, and what is derived of transactions with their prices.
Proposed ==
  {s \in Suggested : s.status = "pending" /\ (s.savings < 0 => s.type = "GasPriceOptimization")}
Paying == [type : SuggestionTypes, savings : Nat, priority : Nat, status : {"pending"}]

LEMMA SuggestionIs ==
  ASSUME NEW type \in SuggestionTypes, NEW x \in Int, NEW priority \in Nat
  PROVE  /\ x >= 0 \/ type = "GasPriceOptimization" => Suggestion(type, x, priority) \in Seq(Proposed)
         /\ x >= 0 => Suggestion(type, x, priority) \in Seq(Paying)
<1> DEFINE s == [type |-> type, savings |-> x, priority |-> priority, status |-> "pending"]
<1>1. /\ x >= 0 \/ type = "GasPriceOptimization" => s \in Proposed
      /\ x >= 0 => s \in Paying
  BY DEF Suggested, Proposed, Paying
<1>2. Suggestion(type, x, priority) = <<s>>
  BY DEF Suggestion
<1> QED BY <1>1, <1>2

LEMMA Generated ==
  ASSUME NEW txs, Analysed(txs)
  PROVE  LET found == GenerateOptimizationSuggestions(AnalyzeMerchantTransactions(txs)) IN
         /\ found \in Seq(Proposed)
         /\ AllPriced(txs) => found \in Seq(Paying)
<1> DEFINE D == DOMAIN txs
<1>1. PICK a : a = AnalyzeMerchantTransactions(txs)
  OBVIOUS
<1> DEFINE H == DOMAIN a.hours
<1>2. /\ a.total \in Nat /\ a.failed \in Nat /\ a.gas \in Nat /\ a.fee \in Nat
      /\ a.hours = TimeBasedPatterns(txs) /\ a.prices = GasPriceVolatility(txs)
  <2>1. /\ Len(txs) \in Nat /\ Cardinality(D) = Len(txs)
        /\ D \in SUBSET D /\ Successful(txs, D) \in 0 .. Cardinality(D)
        /\ GasSum(txs, D) \in Nat /\ FeeSum(txs, D) \in Nat
    BY AnalysedTxs
  <2> QED BY <1>1, <2>1 DEF AnalyzeMerchantTransactions
<1>3. /\ H = {txs[i].hour : i \in D} /\ IsFiniteSet(H) /\ H # {} /\ H \subseteq Nat
      /\ \A h \in H : a.hours[h].price \in Nat /\ a.hours[h].count \in Nat \ {0}
  <2>1. H = {txs[i].hour : i \in D}
    BY <1>2 DEF TimeBasedPatterns
  <2>2. IsFiniteSet(H)
    <3> DEFINE hour == [i \in D |-> txs[i].hour]
    <3>1. H = {hour[i] : i \in D}
      BY <2>1
    <3>2. IsFiniteSet(D)
      BY AnalysedTxs
    <3> HIDE DEF hour, H, D
    <3>3. IsFiniteSet({hour[i] : i \in D})
      BY <3>2, ValuesAreFinite
    <3> QED BY <3>1, <3>3
  <2>3. H # {} /\ H \subseteq Nat
    <3>1. D # {} /\ \A i \in D : txs[i].hour \in 0 .. 23
      BY AnalysedTxs
    <3>2. 0 .. 23 \subseteq Nat
      OBVIOUS
    <3> QED BY <2>1, <3>1, <3>2
  <2>4. ASSUME NEW h \in H
        PROVE  a.hours[h].price \in Nat /\ a.hours[h].count \in Nat \ {0}
    <3> DEFINE own == OfHour(txs, h)
    <3>1. own \in SUBSET D /\ own # {}
      BY <2>1 DEF OfHour
    <3>2. a.hours[h].price = PriceSum(txs, own) /\ a.hours[h].count = Cardinality(own)
      BY <1>2, <2>1 DEF TimeBasedPatterns
    <3>3. PriceSum(txs, own) \in Nat /\ IsFiniteSet(own)
      BY <3>1, AnalysedTxs
    <3>4. Cardinality(own) \in Nat /\ Cardinality(own) # 0
      BY <3>1, <3>3, FS_CardinalityType, FS_EmptySet
    <3> QED BY <3>2, <3>3, <3>4
  <2> QED BY <2>1, <2>2, <2>3, <2>4
<1>4. TimingAdjustmentSuggestions(a) \in Seq(Proposed)
      /\ TimingAdjustmentSuggestions(a) \in Seq(Paying)
  <2>1. /\ \E h \in H : \A k \in H : k = h \/ CheaperHour(a.hours, h, k)
        /\ \E h \in H : \A k \in H : k = h \/ CheaperHour(a.hours, k, h)
    BY <1>3, ExtremeHours
  <2>2. PICK first \in H :
          first = CHOOSE h \in H : \A k \in H : k = h \/ CheaperHour(a.hours, h, k)
    BY <2>1
  <2>3. PICK last \in H :
          last = CHOOSE h \in H : \A k \in H : k = h \/ CheaperHour(a.hours, k, h)
    BY <2>1
  <2>4. PICK p \in Nat, q \in Nat, m \in Nat, n \in Nat :
          /\ p = a.hours[first].price /\ m = a.hours[first].count
          /\ q = a.hours[last].price /\ n = a.hours[last].count
    BY <1>3
  <2>5. TimingAdjustmentSuggestions(a) =
          IF 2 * q * m > 3 * p * n THEN Suggestion("TimingAdjustment", q * m - p * n, 3) ELSE <<>>
    BY <2>2, <2>3, <2>4 DEF TimingAdjustmentSuggestions
  <2>6. PICK x \in Nat, y \in Nat : x = q * m /\ y = p * n
    OBVIOUS
  <2>7. 2 * q * m = 2 * x /\ 3 * p * n = 3 * y
    BY <2>6
  <2>8. x - y \in Int /\ (2 * x > 3 * y => x - y >= 0)
    OBVIOUS
  <2>9. /\ x - y >= 0 => Suggestion("TimingAdjustment", x - y, 3) \in Seq(Proposed)
        /\ x - y >= 0 => Suggestion("TimingAdjustment", x - y, 3) \in Seq(Paying)
    <3>0. "TimingAdjustment" \in SuggestionTypes
      BY DEF SuggestionTypes
    <3>1. 3 \in Nat /\ x - y \in Int
      BY <2>8
    <3> QED BY <3>0, <3>1, SuggestionIs
  <2>10. CASE 2 * x > 3 * y
    BY <2>5, <2>6, <2>7, <2>8, <2>9, <2>10
  <2>11. CASE ~(2 * x > 3 * y)
    <3>1. TimingAdjustmentSuggestions(a) = <<>>
      BY <2>5, <2>7, <2>11
    <3> QED BY <3>1
  <2> QED BY <2>10, <2>11
<1>5. BatchOptimizationSuggestions(a) \in Seq(Proposed)
      /\ BatchOptimizationSuggestions(a) \in Seq(Paying)
  <2>1. a.fee \in Int /\ a.fee >= 0
    BY <1>2
  <2>2. /\ Suggestion("BatchOptimization", a.fee, 2) \in Seq(Proposed)
        /\ Suggestion("BatchOptimization", a.fee, 2) \in Seq(Paying)
    <3>0. "BatchOptimization" \in SuggestionTypes
      BY DEF SuggestionTypes
    <3>1. 2 \in Nat
      OBVIOUS
    <3> QED BY <3>0, <2>1, <3>1, SuggestionIs
  <2>3. <<>> \in Seq(Proposed) /\ <<>> \in Seq(Paying)
    OBVIOUS
  <2> QED BY <2>2, <2>3 DEF BatchOptimizationSuggestions
<1>6. FailedTransactionReductionSuggestions(a) \in Seq(Proposed)
      /\ FailedTransactionReductionSuggestions(a) \in Seq(Paying)
  <2>1. PICK x \in Nat : x = a.failed * a.gas
    BY <1>2
  <2>2. /\ Suggestion("FailedTransactionReduction", x, 5) \in Seq(Proposed)
        /\ Suggestion("FailedTransactionReduction", x, 5) \in Seq(Paying)
    <3>0. "FailedTransactionReduction" \in SuggestionTypes
      BY DEF SuggestionTypes
    <3>1. 5 \in Nat /\ x \in Int /\ x >= 0
      OBVIOUS
    <3> QED BY <3>0, <3>1, SuggestionIs
  <2>3. <<>> \in Seq(Proposed) /\ <<>> \in Seq(Paying)
    OBVIOUS
  <2> QED BY <2>1, <2>2, <2>3 DEF FailedTransactionReductionSuggestions
<1>7. GasPriceOptimizationSuggestions(a) \in Seq(Proposed)
      /\ (AllPriced(txs) => GasPriceOptimizationSuggestions(a) \in Seq(Paying))
  <2>1. PICK x \in Int : x = a.prices.sum - a.prices.min /\ (AllPriced(txs) => x >= 0)
    <3>1. /\ a.prices.min \in Nat /\ a.prices.sum \in Nat
          /\ AllPriced(txs) => a.prices.min <= a.prices.sum
      BY <1>2, MeanBetween
    <3>2. a.prices.sum - a.prices.min \in Int
          /\ (AllPriced(txs) => a.prices.sum - a.prices.min >= 0)
      BY <3>1
    <3> QED BY <3>2
  <2>2. /\ Suggestion("GasPriceOptimization", x, 3) \in Seq(Proposed)
        /\ x >= 0 => Suggestion("GasPriceOptimization", x, 3) \in Seq(Paying)
    <3>0. "GasPriceOptimization" \in SuggestionTypes
      BY DEF SuggestionTypes
    <3>1. 3 \in Nat
      OBVIOUS
    <3> QED BY <3>0, <3>1, SuggestionIs
  <2>3. <<>> \in Seq(Proposed) /\ <<>> \in Seq(Paying)
    OBVIOUS
  <2> QED BY <2>1, <2>2, <2>3 DEF GasPriceOptimizationSuggestions
<1>8. <<>> \in Seq(Proposed) /\ <<>> \in Seq(Paying)
  OBVIOUS
<1>9. GenerateOptimizationSuggestions(a) \in Seq(Proposed)
  BY <1>4, <1>5, <1>6, <1>7, <1>8, ConcatProperties
     DEF GenerateOptimizationSuggestions, ChainSwitchSuggestions
<1>10. AllPriced(txs) => GenerateOptimizationSuggestions(a) \in Seq(Paying)
  BY <1>4, <1>5, <1>6, <1>7, <1>8, ConcatProperties
     DEF GenerateOptimizationSuggestions, ChainSwitchSuggestions
<1> QED BY <1>1, <1>9, <1>10

-----------------------------------------------------------------------------
\* What is known of a request at each step, of itself and of the rows it has saved.

Inquiries ==
  [step : {"idle", "chains", "save", "list", "summary", "answered"}, txs : Seq(MerchantTxs),
   todo : Seq(Proposed), saved : Seq(Nat)]

InquiryFits(call) ==
  /\ call \in Inquiries
  /\ call.step = "chains" => call.txs # <<>> /\ call.saved = <<>>
  /\ call.step = "save" => call.todo # <<>> /\ call.txs # <<>>

RowsFit(call, rows) ==
  /\ \A k \in DOMAIN call.saved : call.saved[k] \in DOMAIN rows
  /\ call.txs # <<>> /\ call.step # "chains" =>
       /\ Len(call.saved) + Len(call.todo) = Len(Derived(call))
       /\ \A k \in DOMAIN call.saved : AsSaved(rows[call.saved[k]]) = Derived(call)[k]
       /\ \A k \in DOMAIN call.todo : call.todo[k] = Derived(call)[Len(call.saved) + k]
       /\ call.step # "save" => call.todo = <<>>

KeptApart ==
  \A q, r \in OptimizationCalls :
    \A j \in DOMAIN inquiries[q].saved, k \in DOMAIN inquiries[r].saved :
      inquiries[q].saved[j] = inquiries[r].saved[k] => q = r /\ j = k

OptimizationInv ==
  /\ merchantTxs \in Seq(MerchantTxs)
  /\ suggestions \in Seq(Suggested)
  /\ inquiries \in [OptimizationCalls -> Inquiries]
  /\ \A q \in OptimizationCalls : InquiryFits(inquiries[q]) /\ RowsFit(inquiries[q], suggestions)
  /\ KeptApart

LEMMA IdleFits ==
  /\ InquiryFits(IdleInquiry) /\ IdleInquiry \in Inquiries /\ IdleInquiry.saved = <<>>
  /\ \A rows : RowsFit(IdleInquiry, rows)
<1>1. <<>> \in Seq(MerchantTxs) /\ <<>> \in Seq(Proposed) /\ <<>> \in Seq(Nat)
  OBVIOUS
<1>2. IdleInquiry.saved = <<>> /\ IdleInquiry.txs = <<>> /\ DOMAIN IdleInquiry.saved = {}
  BY DEF IdleInquiry
<1> QED BY <1>1, <1>2 DEF InquiryFits, RowsFit, IdleInquiry, Inquiries

LEMMA InquiryIs ==
  ASSUME OptimizationInv, NEW q \in OptimizationCalls
  PROVE  /\ InquiryFits(inquiries[q]) /\ inquiries[q] \in Inquiries
         /\ RowsFit(inquiries[q], suggestions)
         /\ merchantTxs \in Seq(MerchantTxs) /\ suggestions \in Seq(Suggested)
BY DEF OptimizationInv

(* A step of a request that saves nothing, and keeps or forgets what it has saved.     *)
LEMMA Proceeds ==
  ASSUME OptimizationInv, NEW q \in OptimizationCalls, NEW call,
         InquiryFits(call), RowsFit(call, suggestions),
         call.saved = inquiries[q].saved \/ call.saved = <<>>,
         Proceed(q, call), merchantTxs' = merchantTxs, suggestions' = suggestions
  PROVE  OptimizationInv'
<1>1. inquiries' = [inquiries EXCEPT ![q] = call] /\ inquiries \in [OptimizationCalls -> Inquiries]
  BY DEF Proceed, OptimizationInv
<1>2. call \in Inquiries
  BY DEF InquiryFits
<1>3. inquiries' \in [OptimizationCalls -> Inquiries]
  BY <1>1, <1>2
<1>4. \A r \in OptimizationCalls : inquiries'[r] = IF r = q THEN call ELSE inquiries[r]
  BY <1>1
<1>5. ASSUME NEW r \in OptimizationCalls
      PROVE  InquiryFits(inquiries'[r]) /\ RowsFit(inquiries'[r], suggestions')
  <2>1. InquiryFits(inquiries[r]) /\ RowsFit(inquiries[r], suggestions)
    BY InquiryIs
  <2> QED BY <1>4, <2>1
<1>6. ASSUME NEW r \in OptimizationCalls, NEW k \in DOMAIN inquiries'[r].saved
      PROVE  k \in DOMAIN inquiries[r].saved /\ inquiries'[r].saved[k] = inquiries[r].saved[k]
  <2>1. DOMAIN <<>> = {}
    OBVIOUS
  <2>2. inquiries'[r].saved # <<>>
    BY <1>6, <2>1
  <2> QED BY <1>4, <2>2
<1>7. KeptApart'
  <2>1. KeptApart
    BY DEF OptimizationInv
  <2> QED BY <1>6, <2>1 DEF KeptApart
<1>8. merchantTxs' \in Seq(MerchantTxs) /\ suggestions' \in Seq(Suggested)
  BY DEF OptimizationInv
<1> QED BY <1>3, <1>5, <1>7, <1>8 DEF OptimizationInv

LEMMA GetTransactionAnalysisKeeps ==
  ASSUME OptimizationInv, NEW q \in OptimizationCalls, GetTransactionAnalysis(q)
  PROVE  OptimizationInv'
<1> DEFINE call == [IdleInquiry EXCEPT !.step = "chains", !.txs = merchantTxs]
<1>1. /\ merchantTxs # <<>> /\ Proceed(q, call)
      /\ merchantTxs' = merchantTxs /\ suggestions' = suggestions
  BY DEF GetTransactionAnalysis
<1>2. InquiryFits(call) /\ RowsFit(call, suggestions) /\ call.saved = <<>>
  <2>1. IdleInquiry \in Inquiries /\ IdleInquiry.saved = <<>> /\ merchantTxs \in Seq(MerchantTxs)
    BY IdleFits, InquiryIs
  <2>2. call \in Inquiries /\ call.step = "chains" /\ call.txs = merchantTxs /\ call.saved = <<>>
    BY <2>1 DEF Inquiries
  <2>3. DOMAIN <<>> = {}
    OBVIOUS
  <2> HIDE DEF call
  <2> QED BY <1>1, <2>2, <2>3 DEF InquiryFits, RowsFit
<1> HIDE DEF call
<1> QED BY <1>1, <1>2, Proceeds

LEMMA FindChainsKeeps ==
  ASSUME OptimizationInv, NEW q \in OptimizationCalls, FindChains(q)
  PROVE  OptimizationInv'
<1> DEFINE call == inquiries[q]
           found == GenerateOptimizationSuggestions(AnalyzeMerchantTransactions(call.txs))
           next == [call EXCEPT !.todo = found, !.step = IF found = <<>> THEN "list" ELSE "save"]
<1>1. /\ call.step = "chains" /\ merchantTxs' = merchantTxs /\ suggestions' = suggestions
      /\ Proceed(q, IdleInquiry) \/ Proceed(q, next)
  BY DEF FindChains
<1>2. InquiryFits(call) /\ call \in Inquiries
  BY InquiryIs
<1>3. Analysed(call.txs) /\ call.saved = <<>>
  BY <1>1, <1>2 DEF InquiryFits, Inquiries, Analysed
<1>4. found \in Seq(Proposed)
  BY <1>3, Generated
<1>5. \A c : c.txs = call.txs => Derived(c) = found
  BY DEF Derived
<1> HIDE DEF found
<1>6. InquiryFits(next) /\ RowsFit(next, suggestions) /\ next.saved = <<>>
  <2>1. /\ next \in Inquiries /\ next.txs = call.txs /\ next.todo = found /\ next.saved = <<>>
        /\ next.step = IF found = <<>> THEN "list" ELSE "save"
    BY <1>2, <1>3, <1>4 DEF Inquiries
  <2>2. Derived(next) = found
    BY <1>5, <2>1
  <2> HIDE DEF next
  <2>3. InquiryFits(next)
    BY <1>3, <2>1 DEF InquiryFits, Analysed
  <2>4. DOMAIN <<>> = {} /\ Len(<<>>) = 0
    OBVIOUS
  <2>5. Len(found) \in Nat /\ DOMAIN found = 1 .. Len(found)
    BY <1>4
  <2>6. /\ Len(next.saved) + Len(next.todo) = Len(found)
        /\ \A k \in DOMAIN next.todo : next.todo[k] = found[Len(next.saved) + k]
    BY <2>1, <2>4, <2>5
  <2>7. RowsFit(next, suggestions)
    BY <2>1, <2>2, <2>4, <2>6 DEF RowsFit
  <2> QED BY <2>1, <2>3, <2>7
<1> HIDE DEF next
<1> QED BY <1>1, <1>6, IdleFits, Proceeds

(* A row more, or a row applied, leaves the other rows of a request as they are.       *)
LEMMA RowsStay ==
  ASSUME NEW call, NEW rows, NEW later, RowsFit(call, rows),
         DOMAIN rows \subseteq DOMAIN later,
         \A i \in DOMAIN rows : AsSaved(later[i]) = AsSaved(rows[i])
  PROVE  RowsFit(call, later)
BY DEF RowsFit

LEMMA SaveOptimizationSuggestionKeeps ==
  ASSUME OptimizationInv, NEW q \in OptimizationCalls, SaveOptimizationSuggestion(q)
  PROVE  OptimizationInv'
<1> DEFINE call == inquiries[q]
           next == [call EXCEPT !.todo = Tail(@), !.saved = Append(@, Len(suggestions')),
                                !.step = IF Len(call.todo) = 1 THEN "list" ELSE @]
<1>1. /\ call.step = "save" /\ merchantTxs' = merchantTxs
      /\ \/ Proceed(q, IdleInquiry) /\ suggestions' = suggestions
         \/ suggestions' = Append(suggestions, Head(call.todo)) /\ Proceed(q, next)
  BY DEF SaveOptimizationSuggestion
<1>2. InquiryFits(call) /\ call \in Inquiries /\ RowsFit(call, suggestions)
      /\ suggestions \in Seq(Suggested) /\ merchantTxs \in Seq(MerchantTxs)
  BY InquiryIs
<1>3. CASE Proceed(q, IdleInquiry) /\ suggestions' = suggestions
  BY <1>1, <1>3, IdleFits, Proceeds
<1>4. ASSUME suggestions' = Append(suggestions, Head(call.todo)), Proceed(q, next)
      PROVE  OptimizationInv'
  <2>1. call.todo \in Seq(Proposed) /\ call.saved \in Seq(Nat) /\ call.todo # <<>> /\ call.txs # <<>>
    BY <1>1, <1>2 DEF InquiryFits, Inquiries
  <2>2. PICK n \in Nat, m \in Nat, l \in Nat :
          n = Len(suggestions) /\ m = Len(call.saved) /\ l = Len(call.todo)
    BY <1>2, <2>1
  <2>3. /\ Head(call.todo) = call.todo[1] /\ Head(call.todo) \in Proposed
        /\ Tail(call.todo) \in Seq(Proposed) /\ Len(Tail(call.todo)) = l - 1 /\ l >= 1
        /\ \A k \in 1 .. l - 1 : Tail(call.todo)[k] = call.todo[k + 1]
    BY <2>1, <2>2, HeadTailProperties
  <2>4. /\ suggestions' \in Seq(Suggested) /\ Len(suggestions') = n + 1
        /\ DOMAIN suggestions = 1 .. n /\ DOMAIN suggestions' = 1 .. n + 1
        /\ \A i \in 1 .. n : suggestions'[i] = suggestions[i]
        /\ suggestions'[n + 1] = call.todo[1]
    <3>1. Head(call.todo) \in Suggested
      BY <2>3 DEF Proposed
    <3> HIDE DEF call
    <3> QED BY <1>2, <1>4, <2>2, <2>3, <3>1, AppendProperties
  <2>5. PICK ids \in Seq(Nat) : ids = Append(call.saved, n + 1)
    <3>1. PICK old \in Seq(Nat), row \in Nat : old = call.saved /\ row = n + 1
      BY <2>1
    <3>2. Append(old, row) \in Seq(Nat)
      BY AppendProperties
    <3> QED BY <3>1, <3>2
  <2>6. /\ Len(ids) = m + 1 /\ DOMAIN ids = 1 .. m + 1 /\ DOMAIN call.saved = 1 .. m
        /\ \A k \in 1 .. m : ids[k] = call.saved[k]
        /\ ids[m + 1] = n + 1
    BY <2>1, <2>2, <2>5, AppendProperties
  <2>7. PICK step \in {"list", "save"} : step = IF l = 1 THEN "list" ELSE "save"
    OBVIOUS
  <2>8. next = [call EXCEPT !.todo = Tail(call.todo), !.saved = ids, !.step = step]
    BY <1>1, <2>2, <2>4, <2>5, <2>7
  <2>9. /\ next \in Inquiries /\ next.txs = call.txs /\ next.todo = Tail(call.todo)
        /\ next.saved = ids /\ next.step = step
    BY <1>2, <2>3, <2>8 DEF Inquiries
  <2>10. Derived(next) = Derived(call)
    BY <2>9 DEF Derived
  <2> HIDE DEF next
  <2>11. inquiries' = [inquiries EXCEPT ![q] = next]
         /\ inquiries \in [OptimizationCalls -> Inquiries]
    BY <1>4 DEF Proceed, OptimizationInv
  <2>12. \A r \in OptimizationCalls : inquiries'[r] = IF r = q THEN next ELSE inquiries[r]
    BY <2>11
  <2> HIDE DEF call
  <2>13. Tail(call.todo) = <<>> <=> l = 1
    <3>1. PICK tail \in Seq(Proposed) : tail = Tail(call.todo)
      BY <2>3
    <3>2. tail = <<>> <=> Len(tail) = 0
      BY EmptySeq
    <3>3. Len(tail) = l - 1
      BY <2>3, <3>1
    <3> QED BY <3>1, <3>2, <3>3
  <2>14. InquiryFits(next)
    BY <2>1, <2>7, <2>9, <2>13 DEF InquiryFits
  <2>15. RowsFit(next, suggestions')
    <3>1. /\ m + l = Len(Derived(call))
          /\ \A k \in 1 .. m : call.saved[k] \in 1 .. n
          /\ \A k \in 1 .. m : AsSaved(suggestions[call.saved[k]]) = Derived(call)[k]
          /\ \A k \in 1 .. l : call.todo[k] = Derived(call)[m + k]
      <4>1. DOMAIN call.todo = 1 .. l /\ call.step # "chains"
        BY <1>1, <2>1, <2>2
      <4> QED BY <1>2, <2>1, <2>2, <2>4, <2>6, <4>1 DEF RowsFit
    <3>2. ASSUME NEW k \in DOMAIN ids PROVE ids[k] \in DOMAIN suggestions'
      <4>1. k \in 1 .. m \/ k = m + 1
        BY <2>6
      <4>2. 1 .. n \subseteq 1 .. n + 1 /\ n + 1 \in 1 .. n + 1
        OBVIOUS
      <4>3. ids[k] \in 1 .. n \/ ids[k] = n + 1
        BY <2>6, <3>1, <4>1, Zenon
      <4>4. ids[k] \in 1 .. n + 1
        BY ONLY <4>2, <4>3, Zenon
      <4> QED BY <2>4, <4>4, Zenon
    <3>3. Len(ids) + Len(Tail(call.todo)) = Len(Derived(call))
      <4>1. Len(ids) = m + 1 /\ Len(Tail(call.todo)) = l - 1
        BY <2>3, <2>6
      <4>2. m + 1 + (l - 1) = m + l
        OBVIOUS
      <4> QED BY ONLY <3>1, <4>1, <4>2
    <3>4. AsSaved(call.todo[1]) = call.todo[1]
      BY <2>3 DEF AsSaved, Proposed, Suggested
    <3>5. ASSUME NEW k \in DOMAIN ids
          PROVE  AsSaved(suggestions'[ids[k]]) = Derived(call)[k]
      <4>1. CASE k \in 1 .. m
        BY <2>4, <2>6, <3>1, <4>1
      <4>2. CASE k = m + 1
        <5>1. call.todo[1] = Derived(call)[m + 1]
          <6>1. 1 \in 1 .. l
            BY <2>3
          <6> QED BY ONLY <3>1, <6>1, Zenon
        <5> QED BY <2>4, <2>6, <3>4, <4>2, <5>1
      <4> QED BY <2>6, <4>1, <4>2
    <3>6. ASSUME NEW k \in DOMAIN Tail(call.todo)
          PROVE  Tail(call.todo)[k] = Derived(call)[Len(ids) + k]
      <4>1. k \in 1 .. l - 1 /\ k + 1 \in 1 .. l
        BY <2>3
      <4>2. Tail(call.todo)[k] = Derived(call)[m + (k + 1)]
        BY <2>3, <3>1, <4>1
      <4>3. m + (k + 1) = Len(ids) + k
        BY <2>6, <4>1
      <4> QED BY <4>2, <4>3
    <3>7. step # "save" => Tail(call.todo) = <<>>
      BY <2>7, <2>13
    <3> QED BY <2>9, <2>10, <3>2, <3>3, <3>5, <3>6, <3>7 DEF RowsFit
  <2>16. ASSUME NEW r \in OptimizationCalls
         PROVE  InquiryFits(inquiries'[r]) /\ RowsFit(inquiries'[r], suggestions')
    <3>1. CASE r = q
      BY <2>12, <2>14, <2>15, <3>1
    <3>2. CASE r # q
      <4>1. InquiryFits(inquiries[r]) /\ RowsFit(inquiries[r], suggestions)
        BY InquiryIs
      <4>2. DOMAIN suggestions \subseteq DOMAIN suggestions'
            /\ \A i \in DOMAIN suggestions : AsSaved(suggestions'[i]) = AsSaved(suggestions[i])
        BY <2>4
      <4>3. RowsFit(inquiries[r], suggestions')
        BY <4>1, <4>2, RowsStay
      <4> QED BY <2>12, <3>2, <4>1, <4>3
    <3> QED BY <3>1, <3>2
  <2>17. ASSUME NEW r \in OptimizationCalls, NEW k \in DOMAIN inquiries'[r].saved
         PROVE  \/ k \in DOMAIN inquiries[r].saved /\ inquiries'[r].saved[k] = inquiries[r].saved[k]
                   /\ inquiries[r].saved[k] \in 1 .. n
                \/ r = q /\ k = m + 1 /\ inquiries'[r].saved[k] = n + 1
    <3>1. \A i \in DOMAIN inquiries[r].saved : inquiries[r].saved[i] \in 1 .. n
      BY <2>4, InquiryIs DEF RowsFit
    <3>2. CASE r = q
      <4>1. inquiries'[r].saved = ids /\ inquiries[r].saved = call.saved
        BY <2>9, <2>12, <3>2 DEF call
      <4> QED BY <2>6, <2>17, <3>1, <3>2, <4>1
    <3>3. CASE r # q
      BY <2>12, <2>17, <3>1, <3>3
    <3> QED BY <3>2, <3>3
  <2>18. KeptApart'
    <3>1. KeptApart
      BY DEF OptimizationInv
    <3>2. \A i \in 1 .. n : i # n + 1
      OBVIOUS
    <3> SUFFICES ASSUME NEW r \in OptimizationCalls, NEW u \in OptimizationCalls,
                        NEW j \in DOMAIN inquiries'[r].saved, NEW k \in DOMAIN inquiries'[u].saved,
                        inquiries'[r].saved[j] = inquiries'[u].saved[k]
                 PROVE  r = u /\ j = k
      BY DEF KeptApart
    <3> QED BY <2>17, <3>1, <3>2 DEF KeptApart
  <2>19. inquiries' \in [OptimizationCalls -> Inquiries]
    BY <2>9, <2>11
  <2> QED BY <1>1, <1>2, <2>4, <2>16, <2>18, <2>19 DEF OptimizationInv
<1> QED BY <1>1, <1>3, <1>4

LEMMA AnswersKeep ==
  ASSUME OptimizationInv, NEW q \in OptimizationCalls,
         GetOptimizationSuggestions(q) \/ AskForSummary(q) \/ GetOptimizationSummary(q) \/ Forget(q)
  PROVE  OptimizationInv'
<1> DEFINE call == inquiries[q]
           asked == [call EXCEPT !.step = "summary"]
           anew == [IdleInquiry EXCEPT !.step = "summary"]
           answered == [call EXCEPT !.step = "answered"]
<1>1. /\ merchantTxs' = merchantTxs /\ suggestions' = suggestions
      /\ \/ Proceed(q, IdleInquiry) \/ Proceed(q, anew)
         \/ Proceed(q, asked) /\ call.step = "list"
         \/ Proceed(q, answered) /\ call.step = "summary"
  BY DEF GetOptimizationSuggestions, AskForSummary, GetOptimizationSummary, Forget
<1>2. InquiryFits(call) /\ call \in Inquiries /\ RowsFit(call, suggestions)
  BY InquiryIs
<1>3. ASSUME NEW next \in Inquiries, NEW step \in {"summary", "answered"},
             next = [call EXCEPT !.step = step], call.step \in {"list", "summary"}
      PROVE  InquiryFits(next) /\ RowsFit(next, suggestions) /\ next.saved = call.saved
  <2>1. /\ next.step = step /\ next.txs = call.txs /\ next.todo = call.todo
        /\ next.saved = call.saved
    BY <1>2, <1>3 DEF Inquiries
  <2>2. Derived(next) = Derived(call)
    BY <2>1 DEF Derived
  <2>3. InquiryFits(next)
    BY <1>3, <2>1 DEF InquiryFits
  <2>4. RowsFit(next, suggestions)
    BY <1>2, <1>3, <2>1, <2>2 DEF RowsFit
  <2> QED BY <2>1, <2>3, <2>4
<1>4. asked \in Inquiries /\ answered \in Inquiries
  BY <1>2 DEF Inquiries
<1>5. InquiryFits(anew) /\ RowsFit(anew, suggestions) /\ anew.saved = <<>>
  <2>1. IdleInquiry \in Inquiries /\ IdleInquiry.saved = <<>> /\ IdleInquiry.txs = <<>>
    BY IdleFits DEF IdleInquiry
  <2>2. anew \in Inquiries /\ anew.step = "summary" /\ anew.saved = <<>> /\ anew.txs = <<>>
    BY <2>1 DEF Inquiries
  <2>3. DOMAIN <<>> = {}
    OBVIOUS
  <2> HIDE DEF anew
  <2> QED BY <2>2, <2>3 DEF InquiryFits, RowsFit
<1>6. CASE Proceed(q, IdleInquiry)
  BY <1>1, <1>6, IdleFits, Proceeds
<1>7. CASE Proceed(q, anew)
  <2> HIDE DEF anew
  <2> QED BY <1>1, <1>5, <1>7, Proceeds
<1>8. CASE Proceed(q, asked) /\ call.step = "list"
  <2>1. InquiryFits(asked) /\ RowsFit(asked, suggestions) /\ asked.saved = call.saved
    BY <1>3, <1>4, <1>8
  <2> HIDE DEF asked
  <2> QED BY <1>1, <1>8, <2>1, Proceeds
<1>9. CASE Proceed(q, answered) /\ call.step = "summary"
  <2>1. InquiryFits(answered) /\ RowsFit(answered, suggestions) /\ answered.saved = call.saved
    BY <1>3, <1>4, <1>9
  <2> HIDE DEF answered
  <2> QED BY <1>1, <1>9, <2>1, Proceeds
<1> QED BY <1>1, <1>6, <1>7, <1>8, <1>9

LEMMA OtherOptimizationSteps ==
  ASSUME OptimizationInv,
         TransactionRecorded \/ MarkSuggestionAsApplied \/ UNCHANGED optimizationVars
  PROVE  OptimizationInv'
<1>1. CASE TransactionRecorded
  <2>1. PICK tx \in MerchantTxs : merchantTxs' = Append(merchantTxs, tx)
    BY <1>1 DEF TransactionRecorded
  <2>2. merchantTxs' \in Seq(MerchantTxs)
    BY <2>1, AppendProperties DEF OptimizationInv
  <2> QED BY <1>1, <2>2 DEF TransactionRecorded, OptimizationInv, KeptApart
<1>2. CASE MarkSuggestionAsApplied
  <2>1. PICK i \in DOMAIN suggestions : suggestions' = [suggestions EXCEPT ![i].status = "applied"]
    BY <1>2 DEF MarkSuggestionAsApplied
  <2>2. suggestions \in Seq(Suggested) /\ suggestions[i] \in Suggested
    BY DEF OptimizationInv
  <2>3. [suggestions[i] EXCEPT !.status = "applied"] \in Suggested
    BY <2>2 DEF Suggested
  <2>4. suggestions' \in Seq(Suggested)
    BY <2>1, <2>2, <2>3
  <2>5. AsSaved([suggestions[i] EXCEPT !.status = "applied"]) = AsSaved(suggestions[i])
    BY <2>2 DEF AsSaved, Suggested
  <2>6. DOMAIN suggestions' = DOMAIN suggestions
        /\ \A k \in DOMAIN suggestions : AsSaved(suggestions'[k]) = AsSaved(suggestions[k])
    BY <2>1, <2>2, <2>5
  <2>7. ASSUME NEW q \in OptimizationCalls PROVE RowsFit(inquiries[q], suggestions')
    BY <2>6, RowsStay, InquiryIs
  <2>8. inquiries' = inquiries /\ merchantTxs' = merchantTxs
    BY <1>2 DEF MarkSuggestionAsApplied
  <2>9. KeptApart'
    BY <2>8 DEF OptimizationInv, KeptApart
  <2> QED BY <2>4, <2>7, <2>8, <2>9 DEF OptimizationInv
<1>3. CASE UNCHANGED optimizationVars
  BY <1>3 DEF optimizationVars, OptimizationInv, KeptApart
<1> QED BY <1>1, <1>2, <1>3

LEMMA SuggestionsPayWhenFit ==
  ASSUME OptimizationInv
  PROVE  SuggestionsPay
<1>1. KeptApart
  BY DEF OptimizationInv
<1>2. ASSUME NEW q \in OptimizationCalls,
             inquiries[q].txs # <<>> /\ inquiries[q].step # "chains"
      PROVE  LET call == inquiries[q]
                 a == AnalyzeMerchantTransactions(call.txs)
                 derived == Derived(call)
             IN /\ Len(call.saved) + Len(call.todo) = Len(derived)
                /\ \A k \in DOMAIN call.saved : AsSaved(suggestions[call.saved[k]]) = derived[k]
                /\ call.step # "save" => call.todo = <<>>
                /\ \A k \in DOMAIN derived : derived[k].savings < 0 =>
                     derived[k].type = "GasPriceOptimization" /\ ~AllPriced(call.txs)
                /\ SumFunction([c \in DOMAIN a.chains |-> a.chains[c].count]) = a.total
                /\ SumFunction([h \in DOMAIN a.hours |-> a.hours[h].fee]) = a.fee
  <2> DEFINE call == inquiries[q]
             a == AnalyzeMerchantTransactions(call.txs)
             derived == Derived(call)
  <2>1. /\ Len(call.saved) + Len(call.todo) = Len(derived)
        /\ \A k \in DOMAIN call.saved : AsSaved(suggestions[call.saved[k]]) = derived[k]
        /\ call.step # "save" => call.todo = <<>>
    BY <1>2, InquiryIs DEF RowsFit
  <2>2. Analysed(call.txs)
    BY <1>2, InquiryIs DEF Inquiries, Analysed
  <2>3. ASSUME NEW k \in DOMAIN derived, derived[k].savings < 0
        PROVE  derived[k].type = "GasPriceOptimization" /\ ~AllPriced(call.txs)
    <3>1. derived \in Seq(Proposed) /\ (AllPriced(call.txs) => derived \in Seq(Paying))
      BY <2>2, Generated DEF Derived
    <3> HIDE DEF derived, call
    <3>2. derived[k] \in Proposed /\ (AllPriced(call.txs) => derived[k] \in Paying)
      BY <2>3, <3>1
    <3>3. derived[k] \in Paying => derived[k].savings \in Nat
      BY DEF Paying
    <3> QED BY <2>3, <3>2, <3>3 DEF Proposed
  <2>4. /\ SumFunction([c \in DOMAIN a.chains |-> a.chains[c].count]) = a.total
        /\ SumFunction([h \in DOMAIN a.hours |-> a.hours[h].fee]) = a.fee
    BY <2>2, PartsAgree
  <2> QED BY <2>1, <2>3, <2>4
<1> QED BY <1>1, <1>2 DEF SuggestionsPay, KeptApart

(* In every reachable state, what the requests under way have derived is kept once,  *)
(* each suggestion in a row of its own and as it was derived; none promises a loss   *)
(* unless some transaction lacks its gas price; and the parts of an analysis add up  *)
(* to the whole.                                                                     *)
THEOREM SuggestionsHold == OptimizationSpec => []SuggestionsPay
<1>1. OptimizationInit => OptimizationInv
  <2> SUFFICES ASSUME OptimizationInit PROVE OptimizationInv
    OBVIOUS
  <2>1. merchantTxs \in PastTransactions /\ suggestions = <<>>
        /\ inquiries = [q \in OptimizationCalls |-> IdleInquiry]
    BY DEF OptimizationInit
  <2>2. merchantTxs \in Seq(MerchantTxs) /\ <<>> \in Seq(Suggested)
    BY <2>1, OptimizationAssumption
  <2>3. \A q \in OptimizationCalls : inquiries[q] = IdleInquiry
    BY <2>1
  <2>4. KeptApart
    <3>1. DOMAIN <<>> = {}
      OBVIOUS
    <3> QED BY <2>3, <3>1, IdleFits DEF KeptApart
  <2>5. inquiries \in [OptimizationCalls -> Inquiries]
    BY <2>1, IdleFits
  <2> QED BY <2>1, <2>2, <2>3, <2>4, <2>5, IdleFits DEF OptimizationInv
<1>2. OptimizationInv /\ [OptimizationNext]_optimizationVars => OptimizationInv'
  BY GetTransactionAnalysisKeeps, FindChainsKeeps, SaveOptimizationSuggestionKeeps, AnswersKeep,
     OtherOptimizationSteps DEF OptimizationNext
<1>3. OptimizationInv => SuggestionsPay
  BY SuggestionsPayWhenFit
<1> QED BY <1>1, <1>2, <1>3, PTL DEF OptimizationSpec

---------------------------------------------------------------------------------
(* FailedTransactions: AdviceFits. *)

Categories == {"underpriced_gas", "out_of_gas", "insufficient_balance", "nonce_conflict",
               "slippage_exceeded", "contract_revert", "unknown"}

\* No transaction uses more gas than its limit, and none gets along with less than four units.
Sendable ==
  {tx \in [chain : Nat, gas : Nat, price : Nat, limit : Nat \ {0}, nonce : Nat, reason : Reasons] :
     tx.gas <= tx.limit /\ 4 <= tx.limit}

Failures == [tx : Sendable, timestamp : Nat, cures : Categories \cup {"none"}, used : Nat,
             category : Categories]

\* A retry did not fail as the failure did whose advice it followed.
CuredFailures ==
  {f \in Failures : /\ f.cures = "underpriced_gas" => f.category # "underpriced_gas"
                    /\ f.cures = "out_of_gas" /\ f.category = "out_of_gas" => f.tx.gas > f.used}

\* The price is no longer too low, or what was used is well below the limit.
Cured(advice, tx) ==
  /\ advice.cures = "underpriced_gas" => ~IsUnderpriced(tx)
  /\ advice.cures = "out_of_gas" => advice.used * 1000 < tx.limit * 995

\* What is advised will not fail as the failure did.
Advices ==
  {a \in [tx : {<<>>} \cup {<<tx>> : tx \in Sendable}, cures : Categories \cup {"none"}, used : Nat] :
     \A tx \in Sendable : a.tx = <<tx>> => Cured(a, tx)}

FailureInv ==
  /\ walletFailures \in [Wallets -> Seq(CuredFailures)]
  /\ advised \in [Wallets -> Advices]
  /\ minute \in Nat

(* A category tells the first of the checks that the transaction failed.             *)
LEMMA Classified ==
  ASSUME NEW failures, NEW tx
  PROVE  /\ ClassifyFailure(failures, tx) \in Categories
         /\ ClassifyFailure(failures, tx) = "underpriced_gas" => IsUnderpriced(tx)
         /\ ClassifyFailure(failures, tx) = "out_of_gas" => OutOfGas(tx)
<1>1. CategoryOf(tx.reason) \in
        {"insufficient_balance", "nonce_conflict", "slippage_exceeded", "contract_revert", "unknown"}
  BY DEF CategoryOf
<1>2. CASE IsUnderpriced(tx)
  BY <1>2 DEF ClassifyFailure, Categories
<1>3. CASE ~IsUnderpriced(tx) /\ OutOfGas(tx)
  BY <1>3 DEF ClassifyFailure, Categories
<1>4. CASE ~IsUnderpriced(tx) /\ ~OutOfGas(tx) /\ CategoryOf(tx.reason) # "unknown"
  BY <1>1, <1>4 DEF ClassifyFailure, Categories
<1>5. CASE ~IsUnderpriced(tx) /\ ~OutOfGas(tx) /\ CategoryOf(tx.reason) = "unknown"
  BY <1>5 DEF ClassifyFailure, Categories
<1> QED BY <1>2, <1>3, <1>4, <1>5

(* The suggested price is above the network's.                                       *)
LEMMA PriceSuffices ==
  ASSUME NEW chain \in Nat
  PROVE  /\ CalculateOptimalGasPrice(chain) \in Nat
         /\ CalculateOptimalGasPrice(chain) >= GetNetworkGasPrice(chain)
<1>1. /\ (30000 * 120) \div 100 = 36000 /\ (50000 * 120) \div 100 = 60000
      /\ (10000 * 120) \div 100 = 12000 /\ (200 * 120) \div 100 = 240
      /\ (20000 * 120) \div 100 = 24000
  BY SMT
<1>2. CASE chain = 1
  BY <1>1, <1>2 DEF CalculateOptimalGasPrice, GetNetworkGasPrice
<1>3. CASE chain = 137
  BY <1>1, <1>3 DEF CalculateOptimalGasPrice, GetNetworkGasPrice
<1>4. CASE chain = 56
  BY <1>1, <1>4 DEF CalculateOptimalGasPrice, GetNetworkGasPrice
<1>5. CASE chain \in {42161, 10}
  BY <1>1, <1>5 DEF CalculateOptimalGasPrice, GetNetworkGasPrice
<1>6. CASE chain \notin {1, 137, 56, 42161, 10}
  BY <1>1, <1>6 DEF CalculateOptimalGasPrice, GetNetworkGasPrice
<1> QED BY <1>2, <1>3, <1>4, <1>5, <1>6

(* A quotient reaches what its numerator reaches.                                    *)
LEMMA QuotientReaches ==
  ASSUME NEW n \in Nat, NEW d \in Nat \ {0}, NEW k \in Nat, n >= k * d
  PROVE  n \div d \in Nat /\ n \div d >= k
<1>1. PICK q \in Nat : q = n \div d /\ d * q <= n /\ n < d * q + d
  BY SMT
<1>2. ASSUME q < k PROVE FALSE
  <2>1. d * (q + 1) <= d * k
    BY <1>2, Multiplied
  <2>2. d * (q + 1) = d * q + d /\ d * k = k * d
    BY SMT
  <2> QED BY <1>1, <2>1, <2>2
<1> QED BY <1>1, <1>2

(* The suggested limit leaves the gas used below what counts as running out of it.   *)
LEMMA LimitSuffices ==
  ASSUME NEW tx \in Sendable
  PROVE  /\ CalculateOptimalGasLimit(tx) \in Nat
         /\ tx.limit <= CalculateOptimalGasLimit(tx)
         /\ tx.gas * 1000 < CalculateOptimalGasLimit(tx) * 995
<1>1. PICK gas \in Nat, limit \in Nat \ {0} : gas = tx.gas /\ limit = tx.limit
                                              /\ gas <= limit /\ 4 <= limit
  BY DEF Sendable
<1>2. PICK u \in Int : u = (gas * 100) \div limit
  BY <1>1
<1>3. PICK percent \in {110, 120, 130} :
        percent = IF u >= 100 THEN 130 ELSE IF u >= 95 THEN 120 ELSE 110
  OBVIOUS
<1>4. CalculateOptimalGasLimit(tx) = (limit * percent) \div 100
  BY <1>1, <1>2, <1>3 DEF CalculateOptimalGasLimit
<1>5. PICK raised \in Nat : raised = (limit * percent) \div 100
                            /\ limit * percent < 100 * raised + 100 /\ limit <= raised
  BY <1>1, <1>3, SMT
<1>6. gas * 1000 < raised * 995
  <2>1. CASE gas * 1000 < limit * 995
    BY <1>1, <1>5, <2>1
  <2>2. CASE gas * 1000 >= limit * 995 /\ gas < limit
    <3>1. limit >= 200
      BY <1>1, <2>2
    <3>2. gas * 100 >= 95 * limit
      BY <1>1, <2>2
    <3>3. u >= 95
      BY <1>2, <3>2, QuotientReaches
    <3>4. percent \in {120, 130}
      BY <1>3, <3>3
    <3> QED BY <1>1, <1>5, <3>1, <3>4
  <2>3. CASE gas = limit
    <3>1. u >= 100
      BY <1>2, <2>3, QuotientReaches
    <3>2. percent = 130
      BY <1>3, <3>1
    <3>3. raised >= limit + 1 /\ (limit >= 200 => 100 * raised > 130 * limit - 100)
      BY <1>1, <1>5, <3>2
    <3> QED BY <1>1, <1>5, <2>3, <3>3
  <2> QED BY <1>1, <2>1, <2>2, <2>3
<1> QED BY <1>1, <1>4, <1>5, <1>6

(* The advice on a failure cures it.                                                 *)
LEMMA AdviceCures ==
  ASSUME NEW f \in Failures
  PROVE  [tx |-> Mitigated(f), cures |-> f.category, used |-> f.tx.gas] \in Advices
<1>1. f.tx \in Sendable /\ f.category \in Categories /\ f.tx.gas \in Nat
  BY DEF Failures, Sendable
<1>2. CASE f.category = "underpriced_gas"
  <2>1. PICK price \in Nat : price = CalculateOptimalGasPrice(f.tx.chain)
                             /\ price >= GetNetworkGasPrice(f.tx.chain)
    BY <1>1, PriceSuffices DEF Sendable
  <2>2. PICK sent \in Sendable : sent = [f.tx EXCEPT !.price = price]
                                /\ sent.price = price /\ sent.chain = f.tx.chain
    <3>1. /\ f.tx \in [chain : Nat, gas : Nat, price : Nat, limit : Nat \ {0}, nonce : Nat,
                       reason : Reasons]
          /\ f.tx.gas \in Nat /\ f.tx.limit \in Nat /\ f.tx.gas <= f.tx.limit /\ 4 <= f.tx.limit
      BY <1>1 DEF Sendable
    <3>2. PICK sent : sent = [f.tx EXCEPT !.price = price]
      OBVIOUS
    <3>3. sent \in [chain : Nat, gas : Nat, price : Nat, limit : Nat \ {0}, nonce : Nat,
                   reason : Reasons]
      BY <2>1, <3>1, <3>2
    <3>4. /\ sent.price = price /\ sent.chain = f.tx.chain
          /\ sent.gas = f.tx.gas /\ f.tx.limit <= sent.limit
      BY <2>1, <3>1, <3>2
    <3> QED BY <2>1, <3>1, <3>2, <3>3, <3>4 DEF Sendable
  <2>3. GetNetworkGasPrice(f.tx.chain) \in Nat
    BY <1>1 DEF GetNetworkGasPrice, Sendable
  <2>4. ~IsUnderpriced(sent)
    BY <2>1, <2>2, <2>3 DEF IsUnderpriced
  <2>5. Mitigated(f) = <<sent>>
    BY <1>2, <2>1, <2>2 DEF Mitigated
  <2>6. \A t \in Sendable : <<sent>> = <<t>> => t = sent
    OBVIOUS
  <2> QED BY <1>1, <1>2, <2>4, <2>5, <2>6 DEF Advices, Cured
<1>3. CASE f.category = "out_of_gas"
  <2>1. PICK limit \in Nat : limit = CalculateOptimalGasLimit(f.tx)
                             /\ f.tx.limit <= limit /\ f.tx.gas * 1000 < limit * 995
    BY <1>1, LimitSuffices
  <2>2. PICK sent \in Sendable : sent = [f.tx EXCEPT !.limit = limit]
                                /\ sent.limit = limit /\ sent.gas = f.tx.gas
    <3>1. /\ f.tx \in [chain : Nat, gas : Nat, price : Nat, limit : Nat \ {0}, nonce : Nat,
                       reason : Reasons]
          /\ f.tx.gas \in Nat /\ f.tx.limit \in Nat /\ f.tx.gas <= f.tx.limit /\ 4 <= f.tx.limit
      BY <1>1 DEF Sendable
    <3>2. PICK sent : sent = [f.tx EXCEPT !.limit = limit]
      OBVIOUS
    <3>3. sent \in [chain : Nat, gas : Nat, price : Nat, limit : Nat \ {0}, nonce : Nat,
                   reason : Reasons]
      BY <2>1, <3>1, <3>2
    <3>4. /\ sent.limit = limit /\ sent.gas = f.tx.gas
          /\ sent.gas = f.tx.gas /\ f.tx.limit <= sent.limit
      BY <2>1, <3>1, <3>2
    <3> QED BY <2>1, <3>1, <3>2, <3>3, <3>4 DEF Sendable
  <2>3. f.tx.gas * 1000 < sent.limit * 995
    BY <2>1, <2>2
  <2>4. Mitigated(f) = <<sent>>
    BY <1>3, <2>1, <2>2 DEF Mitigated
  <2>5. \A t \in Sendable : <<sent>> = <<t>> => t = sent
    OBVIOUS
  <2> QED BY <1>1, <1>3, <2>3, <2>4, <2>5 DEF Advices, Cured
<1>4. CASE f.category \notin {"underpriced_gas", "out_of_gas"}
  <2>1. Mitigated(f) = <<>>
    BY <1>4 DEF Mitigated
  <2>2. \A t \in Sendable : <<>> # <<t>>
    OBVIOUS
  <2> QED BY <1>1, <2>1, <2>2 DEF Advices
<1> QED BY <1>2, <1>3, <1>4

-----------------------------------------------------------------------------
\* The steps.

(* A failure that is tracked is not the one again that the advice followed was on.   *)
LEMMA TrackKeeps ==
  ASSUME FailureInv, NEW w \in Wallets, NEW tx \in Sendable, NEW timestamp \in Nat,
         NEW advice, advice.cures \in Categories \cup {"none"}, advice.used \in Nat,
         Cured(advice, tx), Track(w, tx, timestamp, advice)
  PROVE  walletFailures' \in [Wallets -> Seq(CuredFailures)]
<1> DEFINE failures == walletFailures[w]
           f == [tx |-> tx, timestamp |-> timestamp, cures |-> advice.cures, used |-> advice.used,
                 category |-> ClassifyFailure(failures, tx)]
<1>1. walletFailures' = [walletFailures EXCEPT ![w] = Append(failures, f)]
  BY DEF Track
<1>2. PICK category \in Categories :
        category = ClassifyFailure(failures, tx)
        /\ (category = "underpriced_gas" => IsUnderpriced(tx))
        /\ (category = "out_of_gas" => OutOfGas(tx))
  BY Classified
<1>3. PICK cures \in Categories \cup {"none"}, used \in Nat :
        cures = advice.cures /\ used = advice.used
  OBVIOUS
<1>4. f = [tx |-> tx, timestamp |-> timestamp, cures |-> cures, used |-> used,
           category |-> category]
  BY <1>2, <1>3
<1>5. cures = "out_of_gas" /\ category = "out_of_gas" => tx.gas > used
  <2>1. tx.gas \in Nat /\ tx.limit \in Nat
    BY DEF Sendable
  <2> QED BY <1>2, <1>3, <2>1 DEF Cured, OutOfGas
<1>6. cures = "underpriced_gas" => category # "underpriced_gas"
  BY <1>2, <1>3 DEF Cured
<1>7. f \in CuredFailures
  <2>1. f \in Failures
    BY <1>4 DEF Failures
  <2> QED BY <1>4, <1>5, <1>6, <2>1 DEF CuredFailures
<1>8. walletFailures \in [Wallets -> Seq(CuredFailures)] /\ failures \in Seq(CuredFailures)
  BY DEF FailureInv
<1> HIDE DEF f, failures
<1>9. Append(failures, f) \in Seq(CuredFailures)
  BY <1>7, <1>8, AppendProperties
<1> QED BY <1>1, <1>8, <1>9

(* The order in which advice sorts the failures of a wallet is one.                  *)
LEMMA NewerOrders ==
  ASSUME NEW stored, stored \in Seq(CuredFailures)
  PROVE  \E R : /\ Linear(DOMAIN stored, R)
                /\ \A i \in DOMAIN stored :
                     Preceding(DOMAIN stored, R, i) = {k \in DOMAIN stored : Newer(stored, k, i)}
<1> DEFINE D == DOMAIN stored
           R == {p \in D \X D : Newer(stored, p[1], p[2])}
<1>1. \A i, k \in D : <<i, k>> \in R <=> Newer(stored, i, k)
  OBVIOUS
<1>2. D \subseteq Nat /\ \A i \in D : stored[i].timestamp \in Int
  <2>1. \A i \in D : stored[i] \in CuredFailures
    OBVIOUS
  <2> QED BY <2>1 DEF CuredFailures, Failures
<1> HIDE DEF R
<1>3. \A i, k \in D : i # k => Newer(stored, i, k) \/ Newer(stored, k, i)
  BY <1>2 DEF Newer
<1>4. \A i, k, l \in D : Newer(stored, i, k) /\ Newer(stored, k, l) => Newer(stored, i, l)
  BY <1>2 DEF Newer
<1>5. \A i \in D : ~Newer(stored, i, i)
  BY <1>2 DEF Newer
<1>6. Linear(D, R)
  BY <1>1, <1>3, <1>4, <1>5 DEF Linear
<1>7. \A i \in D : Preceding(D, R, i) = {k \in D : Newer(stored, k, i)}
  BY <1>1 DEF Preceding
<1> QED BY <1>6, <1>7

LEMMA NewestAtIs ==
  ASSUME NEW stored, stored \in Seq(CuredFailures), NEW p \in DOMAIN stored
  PROVE  NewestAt(stored, p) \in DOMAIN stored
<1> DEFINE D == DOMAIN stored
<1>1. D = 1 .. Len(stored) /\ Len(stored) \in Nat
  OBVIOUS
<1>2. IsFiniteSet(D) /\ Cardinality(D) = Len(stored)
  <2>1. 1 \in Int /\ Len(stored) \in Int
    BY <1>1
  <2>2. IsFiniteSet(1 .. Len(stored))
    BY <2>1, FS_Interval
  <2>3. Cardinality(1 .. Len(stored)) = IF 1 > Len(stored) THEN 0 ELSE Len(stored) - 1 + 1
    BY <2>1, FS_Interval
  <2> QED BY <1>1, <2>2, <2>3
<1>3. PICK R : /\ Linear(D, R)
               /\ \A i \in D : Preceding(D, R, i) = {k \in D : Newer(stored, k, i)}
  BY NewerOrders
<1>4. \E i \in D : Cardinality(Preceding(D, R, i)) = p - 1
  <2>1. p \in 1 .. Cardinality(D)
    BY <1>1, <1>2
  <2> QED BY <1>2, <1>3, <2>1, PlaceExists
<1>5. \E i \in D : Cardinality({k \in D : Newer(stored, k, i)}) = p - 1
  BY <1>3, <1>4
<1> QED BY <1>5 DEF NewestAt

(* Advice on a failure that could be stored is as it should be.                      *)
LEMMA AdviseKeeps ==
  ASSUME FailureInv, NEW w \in Wallets, NEW failure \in CuredFailures, Advise(w, failure)
  PROVE  advised' \in [Wallets -> Advices]
<1>1. [tx |-> Mitigated(failure), cures |-> failure.category, used |-> failure.tx.gas] \in Advices
  BY AdviceCures DEF CuredFailures
<1> QED BY <1>1 DEF Advise, FailureInv

(* Advice only orders what is stored, and cures the failure it is on.                *)
LEMMA MitigationKeeps ==
  ASSUME FailureInv, NEW w \in Wallets, GetImmediateMitigation(w)
  PROVE  FailureInv'
<1>1. PICK stored \in Seq(CuredFailures) : stored = walletFailures[w]
  BY DEF FailureInv
<1>2. PICK sorted : sorted = LatestFirst(stored)
  OBVIOUS
<1>3. walletFailures \in [Wallets -> Seq(CuredFailures)] /\ minute \in Nat
  BY DEF FailureInv
<1>4. /\ stored # <<>> /\ minute' = minute
      /\ \/ \E i \in DOMAIN stored : Advise(w, stored[i]) /\ walletFailures' = walletFailures
         \/ walletFailures' = [walletFailures EXCEPT ![w] = sorted] /\ Advise(w, sorted[1])
  BY <1>1, <1>2 DEF GetImmediateMitigation
<1>5. CASE \E i \in DOMAIN stored : Advise(w, stored[i]) /\ walletFailures' = walletFailures
  <2>1. PICK i \in DOMAIN stored : Advise(w, stored[i]) /\ walletFailures' = walletFailures
    BY <1>5
  <2>2. stored[i] \in CuredFailures
    OBVIOUS
  <2>3. advised' \in [Wallets -> Advices]
    BY <2>1, <2>2, AdviseKeeps
  <2> QED BY <1>3, <1>4, <2>1, <2>3 DEF FailureInv
<1>6. CASE walletFailures' = [walletFailures EXCEPT ![w] = sorted] /\ Advise(w, sorted[1])
  <2>1. \A p \in DOMAIN stored : NewestAt(stored, p) \in DOMAIN stored
    BY NewestAtIs
  <2>2. DOMAIN stored = 1 .. Len(stored) /\ Len(stored) \in Nat /\ 1 \in DOMAIN stored
        /\ \A i \in DOMAIN stored : stored[i] \in CuredFailures
    BY <1>4, EmptySeq
  <2>3. sorted = [p \in DOMAIN stored |-> stored[NewestAt(stored, p)]]
    BY <1>2 DEF LatestFirst
  <2>4. sorted \in [1 .. Len(stored) -> CuredFailures]
    BY <2>1, <2>2, <2>3
  <2>5. sorted \in Seq(CuredFailures) /\ sorted[1] \in CuredFailures
    BY <2>2, <2>4
  <2>6. advised' \in [Wallets -> Advices]
    BY <1>6, <2>5, AdviseKeeps
  <2>7. walletFailures' \in [Wallets -> Seq(CuredFailures)]
    BY <1>3, <1>6, <2>5
  <2> QED BY <1>3, <1>4, <2>6, <2>7 DEF FailureInv
<1> QED BY <1>4, <1>5, <1>6

(* The advice of nobody.                                                             *)
LEMMA NoAdviceIs == NoAdvice \in Advices /\ NoAdvice.cures = "none" /\ NoAdvice.used = 0
<1>1. \A t \in Sendable : <<>> # <<t>>
  OBVIOUS
<1> QED BY <1>1 DEF NoAdvice, Advices

(* Every call keeps failures and advice as they should be.                           *)
LEMMA FailureInductive ==
  ASSUME FailedTxs \subseteq Sendable, FailureInv, [FailureNext]_failureVars
  PROVE  FailureInv'
<1>1. walletFailures \in [Wallets -> Seq(CuredFailures)]
      /\ advised \in [Wallets -> Advices] /\ minute \in Nat
  BY DEF FailureInv
<1>2. ASSUME NEW w \in Wallets, TrackFailedTransaction(w) PROVE FailureInv'
  <2>1. PICK tx \in FailedTxs, timestamp \in 0 .. minute : Track(w, tx, timestamp, NoAdvice)
    BY <1>2 DEF TrackFailedTransaction
  <2>2. Cured(NoAdvice, tx) /\ timestamp \in Nat /\ tx \in Sendable
    BY <1>1, NoAdviceIs DEF Cured
  <2>3. NoAdvice.cures \in Categories \cup {"none"} /\ NoAdvice.used \in Nat
    BY NoAdviceIs
  <2>4. walletFailures' \in [Wallets -> Seq(CuredFailures)]
    BY <2>1, <2>2, <2>3, TrackKeeps
  <2> QED BY <1>1, <1>2, <2>4 DEF FailureInv, TrackFailedTransaction
<1>3. ASSUME NEW w \in Wallets, GetImmediateMitigation(w) PROVE FailureInv'
  BY <1>3, MitigationKeeps
<1>4. ASSUME NEW w \in Wallets, FailAgain(w) PROVE FailureInv'
  <2>1. PICK advice : advice = advised[w]
    OBVIOUS
  <2>2. advice \in Advices
    BY <1>1, <2>1
  <2>3. /\ advice.tx # <<>> /\ advised' = [advised EXCEPT ![w] = NoAdvice] /\ minute' = minute
        /\ \E gas \in {advice.tx[1].gas, advice.tx[1].limit} :
             Track(w, [advice.tx[1] EXCEPT !.gas = gas], minute, advice)
    BY <1>4, <2>1 DEF FailAgain
  <2>4. PICK tx \in Sendable : advice.tx = <<tx>> /\ Cured(advice, tx)
    BY <2>2, <2>3 DEF Advices
  <2>5. PICK gas \in {tx.gas, tx.limit} : Track(w, [tx EXCEPT !.gas = gas], minute, advice)
    <3>1. advice.tx[1] = tx
      BY <2>4
    <3> QED BY <2>3, <3>1
  <2>6. PICK sent : sent = [tx EXCEPT !.gas = gas]
    OBVIOUS
  <2>7. /\ sent \in Sendable /\ sent.chain = tx.chain /\ sent.price = tx.price
        /\ sent.limit = tx.limit
    <3>1. /\ tx \in [chain : Nat, gas : Nat, price : Nat, limit : Nat \ {0}, nonce : Nat,
                       reason : Reasons]
          /\ tx.gas <= tx.limit /\ 4 <= tx.limit
      BY DEF Sendable
    <3>2. gas \in Nat /\ gas <= tx.limit
      BY <2>5, <3>1
    <3>3. sent \in [chain : Nat, gas : Nat, price : Nat, limit : Nat \ {0}, nonce : Nat,
                    reason : Reasons]
      BY <2>6, <3>1, <3>2
    <3>4. sent.chain = tx.chain /\ sent.price = tx.price /\ sent.limit = tx.limit /\ sent.gas = gas
      BY <2>6, <3>1
    <3> QED BY <3>1, <3>2, <3>3, <3>4 DEF Sendable
  <2>8. Cured(advice, sent)
    BY <2>4, <2>7 DEF Cured, IsUnderpriced
  <2>9. advice.cures \in Categories \cup {"none"} /\ advice.used \in Nat
    BY <2>2 DEF Advices
  <2>10. walletFailures' \in [Wallets -> Seq(CuredFailures)]
    BY <1>1, <2>5, <2>6, <2>7, <2>8, <2>9, TrackKeeps
  <2> QED BY <1>1, <2>3, <2>10, NoAdviceIs DEF FailureInv
<1>5. ASSUME MinutePasses PROVE FailureInv'
  BY <1>1, <1>5 DEF MinutePasses, FailureInv
<1>6. ASSUME UNCHANGED failureVars PROVE FailureInv'
  BY <1>1, <1>6 DEF failureVars, FailureInv
<1> QED BY <1>2, <1>3, <1>4, <1>5, <1>6 DEF FailureNext

-----------------------------------------------------------------------------
\* The analysis.

Analysable(stored, some) == stored \in Seq(Failures) /\ some \in SUBSET DOMAIN stored

Wastes(stored) == [i \in DOMAIN stored |-> Waste(stored[i])]
CategoryAt(stored) == [i \in DOMAIN stored |-> stored[i].category]
ChainAt(stored) == [i \in DOMAIN stored |-> stored[i].tx.chain]

LEMMA AnalysableIs ==
  ASSUME NEW stored, NEW some, Analysable(stored, some)
  PROVE  /\ IsFiniteSet(some) /\ Cardinality(some) \in Nat
         /\ some \subseteq DOMAIN stored /\ DOMAIN stored = 1 .. Len(stored) /\ Len(stored) \in Nat
         /\ \A i \in some : /\ i \in Nat /\ stored[i] \in Failures /\ Wastes(stored)[i] \in Nat
                            /\ CategoryAt(stored)[i] = stored[i].category
                            /\ ChainAt(stored)[i] = stored[i].tx.chain
<1>1. stored \in Seq(Failures) /\ some \subseteq DOMAIN stored
  BY DEF Analysable
<1>2. DOMAIN stored = 1 .. Len(stored) /\ Len(stored) \in Nat /\ some \subseteq 1 .. Len(stored)
  BY <1>1
<1>3. IsFiniteSet(1 .. Len(stored))
  BY <1>2, FS_Interval
<1>4. IsFiniteSet(some) /\ Cardinality(some) \in Nat
  BY <1>2, <1>3, FS_Subset, FS_CardinalityType
<1>5. ASSUME NEW i \in some
      PROVE  /\ i \in Nat /\ stored[i] \in Failures /\ Wastes(stored)[i] \in Nat
             /\ CategoryAt(stored)[i] = stored[i].category
             /\ ChainAt(stored)[i] = stored[i].tx.chain
  <2>1. i \in Nat /\ i \in DOMAIN stored /\ stored[i] \in Failures
    BY <1>1, <1>2
  <2>2. PICK tx \in Sendable : tx = stored[i].tx
    BY <2>1 DEF Failures
  <2>3. PICK gas \in Nat, price \in Nat : gas = tx.gas /\ price = tx.price
    BY DEF Sendable
  <2>4. gas * price \in Nat
    OBVIOUS
  <2> QED BY <2>1, <2>2, <2>3, <2>4 DEF Wastes, Waste, CategoryAt, ChainAt
<1> QED BY <1>1, <1>2, <1>4, <1>5

(* What is wasted by a key adds up to what is wasted.                                *)
LEMMA WasteByKey ==
  ASSUME NEW stored, NEW some, Analysable(stored, some), NEW key, NEW K, K = {key[i] : i \in some},
         NEW t, DOMAIN t = K, \A k \in K : t[k] = WasteOf(stored, Keyed(some, key, k))
  PROVE  SumFunction(t) = WasteOf(stored, some)
<1>1. IsFiniteSet(some) /\ \A i \in some : Wastes(stored)[i] \in Int
  BY AnalysableIs
<1>2. \A s : WasteOf(stored, s) = SumFunctionOnSet(Wastes(stored), s)
  BY DEF WasteOf, Wastes
<1>3. IsFiniteSet(K) /\ \A i \in some : key[i] \in K
  <2>1. IsFiniteSet({key[i] : i \in some})
    BY <1>1, ValuesAreFinite
  <2> QED BY <2>1
<1>4. \A k \in K : t[k] = SumFunctionOnSet(Wastes(stored), Keyed(some, key, k))
  BY <1>2
<1>5. SumFunctionOnSet(t, K) = SumFunctionOnSet(Wastes(stored), some)
  BY <1>1, <1>3, <1>4, SumByKey
<1>6. SumFunction(t) = SumFunctionOnSet(t, K)
  BY DEF SumFunction
<1> QED BY <1>2, <1>5, <1>6

LEMMA GroupsAre ==
  ASSUME NEW stored, NEW some, Analysable(stored, some)
  PROVE  /\ \A c : OfChain(stored, some, c) = Keyed(some, ChainAt(stored), c)
         /\ \A c : OfCategory(stored, some, c) = Keyed(some, CategoryAt(stored), c)
         /\ ChainsOf(stored, some) = {ChainAt(stored)[i] : i \in some}
         /\ CategoriesOf(stored, some) = {CategoryAt(stored)[i] : i \in some}
<1>1. \A i \in some : CategoryAt(stored)[i] = stored[i].category
                      /\ ChainAt(stored)[i] = stored[i].tx.chain
  BY AnalysableIs
<1>2. \A c : OfChain(stored, some, c) = Keyed(some, ChainAt(stored), c)
  BY <1>1 DEF OfChain, Keyed
<1>3. \A c : OfCategory(stored, some, c) = Keyed(some, CategoryAt(stored), c)
  BY <1>1 DEF OfCategory, Keyed
<1>4. ChainsOf(stored, some) = {ChainAt(stored)[i] : i \in some}
  BY <1>1 DEF ChainsOf
<1>5. CategoriesOf(stored, some) = {CategoryAt(stored)[i] : i \in some}
  BY <1>1 DEF CategoriesOf
<1> QED BY <1>2, <1>3, <1>4, <1>5

(* Both accounts of the costs are of the same total.                                 *)
LEMMA CostsAddUp ==
  ASSUME NEW stored, NEW some, Analysable(stored, some)
  PROVE  LET cost == CostMetrics(stored, some) IN
         /\ cost.totalGasWasted = WasteOf(stored, some)
         /\ SumFunction(cost.wasteByCategory) = cost.totalGasWasted
         /\ SumFunction(cost.wasteByChain) = cost.totalGasWasted
<1>1. PICK byCategory : byCategory = CostMetrics(stored, some).wasteByCategory
  OBVIOUS
<1>2. PICK byChain : byChain = CostMetrics(stored, some).wasteByChain
  OBVIOUS
<1>3. CostMetrics(stored, some).totalGasWasted = WasteOf(stored, some)
  BY DEF CostMetrics
<1>4. byCategory = [c \in CategoriesOf(stored, some) |-> WasteOf(stored, OfCategory(stored, some, c))]
  BY <1>1 DEF CostMetrics
<1>5. byChain = [c \in ChainsOf(stored, some) |-> WasteOf(stored, OfChain(stored, some, c))]
  BY <1>2 DEF CostMetrics
<1>6. PICK A : A = CategoriesOf(stored, some)
  OBVIOUS
<1>7. PICK C : C = ChainsOf(stored, some)
  OBVIOUS
<1>8. /\ DOMAIN byCategory = A /\ A = {CategoryAt(stored)[i] : i \in some}
      /\ \A c \in A : byCategory[c] = WasteOf(stored, Keyed(some, CategoryAt(stored), c))
  BY <1>4, <1>6, GroupsAre
<1>9. /\ DOMAIN byChain = C /\ C = {ChainAt(stored)[i] : i \in some}
      /\ \A c \in C : byChain[c] = WasteOf(stored, Keyed(some, ChainAt(stored), c))
  BY <1>5, <1>7, GroupsAre
<1>10. SumFunction(byCategory) = WasteOf(stored, some)
  <2>1. PICK key : key = CategoryAt(stored)
    OBVIOUS
  <2>2. /\ Analysable(stored, some) /\ DOMAIN byCategory = A /\ A = {key[i] : i \in some}
        /\ \A c \in A : byCategory[c] = WasteOf(stored, Keyed(some, key, c))
    BY <1>8, <2>1
  <2> QED BY ONLY <2>2, WasteByKey
<1>11. SumFunction(byChain) = WasteOf(stored, some)
  <2>1. PICK key : key = ChainAt(stored)
    OBVIOUS
  <2>2. /\ Analysable(stored, some) /\ DOMAIN byChain = C /\ C = {key[i] : i \in some}
        /\ \A c \in C : byChain[c] = WasteOf(stored, Keyed(some, key, c))
    BY <1>9, <2>1
  <2> QED BY ONLY <2>2, WasteByKey
<1> QED BY <1>1, <1>2, <1>3, <1>10, <1>11

(* The chains' failures and waste are those of what is analysed.                     *)
LEMMA BreakdownAddsUp ==
  ASSUME NEW stored, NEW some, Analysable(stored, some), NEW breakdown,
         breakdown = CalculateChainBreakdown(stored, some)
  PROVE  /\ SumFunction([c \in DOMAIN breakdown |-> breakdown[c].failures]) = Cardinality(some)
         /\ SumFunction([c \in DOMAIN breakdown |-> breakdown[c].gasWasted]) = WasteOf(stored, some)
<1>1. PICK C : C = ChainsOf(stored, some)
  OBVIOUS
<1>2. PICK number : number = [c \in DOMAIN breakdown |-> breakdown[c].failures]
  OBVIOUS
<1>3. PICK wasted : wasted = [c \in DOMAIN breakdown |-> breakdown[c].gasWasted]
  OBVIOUS
<1>4. /\ DOMAIN breakdown = C /\ C = {ChainAt(stored)[i] : i \in some}
      /\ \A c \in C : /\ breakdown[c].failures = Cardinality(Keyed(some, ChainAt(stored), c))
                      /\ breakdown[c].gasWasted = WasteOf(stored, Keyed(some, ChainAt(stored), c))
  BY <1>1, GroupsAre DEF CalculateChainBreakdown
<1>5. /\ DOMAIN number = C /\ DOMAIN wasted = C
      /\ \A c \in C : number[c] = Cardinality(Keyed(some, ChainAt(stored), c))
      /\ \A c \in C : wasted[c] = WasteOf(stored, Keyed(some, ChainAt(stored), c))
  BY <1>2, <1>3, <1>4
<1>6. SumFunction(wasted) = WasteOf(stored, some)
  <2>1. PICK key : key = ChainAt(stored)
    OBVIOUS
  <2>2. /\ Analysable(stored, some) /\ DOMAIN wasted = C /\ C = {key[i] : i \in some}
        /\ \A c \in C : wasted[c] = WasteOf(stored, Keyed(some, key, c))
    BY <1>4, <1>5, <2>1
  <2> QED BY ONLY <2>2, WasteByKey
<1>7. IsFiniteSet(some)
  BY AnalysableIs
<1>8. SumFunctionOnSet(number, C) = Cardinality(some)
  BY <1>4, <1>5, <1>7, CountByKey
<1>9. SumFunction(number) = SumFunctionOnSet(number, C)
  BY <1>5 DEF SumFunction
<1> QED BY <1>2, <1>3, <1>6, <1>8, <1>9

(* Less is wasted by fewer failures.                                                 *)
LEMMA WasteOfPart ==
  ASSUME NEW stored, NEW some, Analysable(stored, some), NEW portion \in SUBSET some
  PROVE  WasteOf(stored, portion) <= WasteOf(stored, some)
<1>1. IsFiniteSet(some) /\ \A i \in some : Wastes(stored)[i] \in Nat
  BY AnalysableIs
<1>2. PICK rest : rest = some \ portion
  OBVIOUS
<1>3. /\ IsFiniteSet(portion) /\ IsFiniteSet(rest) /\ portion \cap rest = {} /\ some = portion \cup rest
      /\ \A i \in portion \cup rest : Wastes(stored)[i] \in Int
      /\ \A i \in portion : Wastes(stored)[i] \in Nat
      /\ \A i \in rest : Wastes(stored)[i] \in Nat
  BY <1>1, <1>2, FS_Subset
<1>4. SumFunctionOnSet(Wastes(stored), some)
        = SumFunctionOnSet(Wastes(stored), portion) + SumFunctionOnSet(Wastes(stored), rest)
  BY <1>3, SumOfUnion
<1>5. /\ SumFunctionOnSet(Wastes(stored), portion) \in Nat
      /\ SumFunctionOnSet(Wastes(stored), rest) \in Nat
  BY <1>3, SumOfNaturals
<1>6. \A s : WasteOf(stored, s) = SumFunctionOnSet(Wastes(stored), s)
  BY DEF WasteOf, Wastes
<1> QED BY <1>4, <1>5, <1>6

(* Nothing is sorted before advice of high priority that stands first.               *)
LEMMA FirstStaysFirst ==
  ASSUME NEW all, NEW n \in Nat \ {0}, Len(all) = n, DOMAIN all = 1 .. n, all[1].priority = "high"
  PROVE  SortedByPriority(all)[1] = all[1]
<1> DEFINE D == DOMAIN all
           Prior(i) == {k \in D : MoreUrgent(all, k, i)}
<1>1. \A p : GetPriorityScore(p) \in 1 .. 3
  BY DEF GetPriorityScore
<1>2. GetPriorityScore(all[1].priority) = 3 /\ 1 \in D
  BY DEF GetPriorityScore
<1>3. Prior(1) = {}
  BY <1>1, <1>2 DEF MoreUrgent
<1>4. ASSUME NEW i \in D, i # 1 PROVE 1 \in Prior(i)
  <2>1. GetPriorityScore(all[i].priority) \in 1 .. 3 /\ 1 < i
    BY <1>1, <1>4
  <2> QED BY <1>2, <2>1 DEF MoreUrgent
<1>5. IsFiniteSet(D)
  <2>1. 1 \in Int /\ n \in Int
    OBVIOUS
  <2>2. IsFiniteSet(1 .. n)
    BY <2>1, FS_Interval
  <2> QED BY <2>2
<1>6. ASSUME NEW i \in D, i # 1 PROVE Cardinality(Prior(i)) # 0
  <2>1. IsFiniteSet(Prior(i))
    BY <1>5, FS_Subset
  <2>2. Prior(i) # {}
    BY <1>4, <1>6
  <2> QED BY <2>1, <2>2, FS_EmptySet
<1>7. Cardinality(Prior(1)) = 0
  BY <1>3, FS_EmptySet
<1>8. \A i \in D : Cardinality(Prior(i)) = 1 - 1 <=> i = 1
  <2> HIDE DEF Prior
  <2> QED BY <1>2, <1>6, <1>7
<1>9. (CHOOSE i \in D : Cardinality(Prior(i)) = 1 - 1) = 1
  <2> HIDE DEF Prior
  <2> QED BY <1>2, <1>8
<1>10. SortedByPriority(all)[1] = all[CHOOSE i \in D : Cardinality(Prior(i)) = 1 - 1]
  <2>1. 1 \in 1 .. IF n < 5 THEN n ELSE 5
    OBVIOUS
  <2> QED BY <2>1 DEF SortedByPriority
<1> QED BY <1>9, <1>10

(* The advice on the most frequent category is among the five, and the first of them. *)
LEMMA TopAdviceIsFirst ==
  ASSUME NEW stored, NEW some, Analysable(stored, some),
         GetCategorySpecificRecommendations(GetTopFailureCategory(stored, some)) # <<>>
  PROVE  GenerateRecommendations(stored, some)[1]
           = Advice(GetTopFailureCategory(stored, some), "high")
<1>1. PICK top : top = GetTopFailureCategory(stored, some)
  OBVIOUS
<1>2. PICK breakdown : breakdown = CalculateChainBreakdown(stored, some)
  OBVIOUS
<1>3. PICK A : A = GetCategorySpecificRecommendations(top)
  OBVIOUS
<1>4. PICK B : B = GetPatternBasedRecommendations(breakdown, Cardinality(some))
  OBVIOUS
<1>5. PICK C : C = GetChainSpecificRecommendations(breakdown)
  OBVIOUS
<1>6. GenerateRecommendations(stored, some) = SortedByPriority(A \o B \o C)
  BY <1>1, <1>2, <1>3, <1>4, <1>5 DEF GenerateRecommendations
<1>7. PICK T : T = {Advice(top, "high"), Advice(top, "medium"), Advice("unknown", "medium"),
                    Advice("unknown", "low")} \cup {C[p] : p \in DOMAIN C}
  OBVIOUS
<1>8. A \in Seq(T) /\ A # <<>> /\ A[1] = Advice(top, "high")
  <2>1. PICK high \in T, medium \in T : high = Advice(top, "high") /\ medium = Advice(top, "medium")
    BY <1>7
  <2>2. A # <<>>
    BY <1>1, <1>3
  <2>3. CASE top \in {"underpriced_gas", "out_of_gas", "slippage_exceeded"}
    <3>1. A = <<high, medium>>
      BY <1>3, <2>1, <2>3 DEF GetCategorySpecificRecommendations
    <3> QED BY <2>1, <2>2, <3>1
  <2>4. CASE top \in {"nonce_conflict", "insufficient_balance"}
    <3>1. A = <<high>>
      BY <1>3, <2>1, <2>4 DEF GetCategorySpecificRecommendations
    <3> QED BY <2>1, <2>2, <3>1
  <2>5. CASE top \notin {"underpriced_gas", "out_of_gas", "slippage_exceeded", "nonce_conflict",
                         "insufficient_balance"}
    BY <1>3, <2>2, <2>5 DEF GetCategorySpecificRecommendations
  <2> QED BY <2>3, <2>4, <2>5
<1>9. B \in Seq(T)
  <2>1. PICK batch \in T, few \in T :
          batch = Advice("unknown", "medium") /\ few = Advice("unknown", "low")
    BY <1>7
  <2> DEFINE u == IF Cardinality(some) > ManyFailures THEN <<batch>> ELSE <<>>
             v == IF Cardinality(DOMAIN breakdown) > ManyChains THEN <<few>> ELSE <<>>
  <2>2. u \in Seq(T) /\ v \in Seq(T)
    <3>1. <<>> \in Seq(T) /\ <<batch>> \in Seq(T) /\ <<few>> \in Seq(T)
      OBVIOUS
    <3> QED BY <3>1
  <2>3. B = u \o v
    BY <1>4, <2>1 DEF GetPatternBasedRecommendations
  <2> HIDE DEF u, v
  <2> QED BY <2>2, <2>3
<1>10. C \in Seq(T)
  <2> DEFINE own == {c \in DOMAIN breakdown \cap {1, 137, 42161} :
                       breakdown[c].failures > ChainFailures}
  <2>1. own \in SUBSET DOMAIN breakdown
    OBVIOUS
  <2> HIDE DEF own
  <2>2. Cardinality(own) \in Nat
    <3>1. DOMAIN breakdown = ChainsOf(stored, some)
      BY <1>2 DEF CalculateChainBreakdown
    <3>2. IsFiniteSet({ChainAt(stored)[i] : i \in some})
      BY AnalysableIs, ValuesAreFinite
    <3>3. IsFiniteSet(DOMAIN breakdown)
      BY <3>1, <3>2, GroupsAre
    <3> QED BY <2>1, <3>3, FS_Subset, FS_CardinalityType
  <2>3. PICK m \in Nat : m = Cardinality(own)
    BY <2>2
  <2>4. DOMAIN C = 1 .. m /\ C = [p \in 1 .. m |-> C[p]]
    BY <1>5, <2>3 DEF own, GetChainSpecificRecommendations
  <2>5. \A p \in 1 .. m : C[p] \in T
    BY <1>7, <2>4
  <2>6. C \in [1 .. m -> T]
    BY <2>4, <2>5
  <2> QED BY <2>6
<1>11. PICK all : all = A \o B \o C
  OBVIOUS
<1>12. A \o B \in Seq(T) /\ Len(A \o B) = Len(A) + Len(B) /\ (A \o B)[1] = A[1]
       /\ Len(A) \in Nat \ {0} /\ Len(B) \in Nat /\ Len(C) \in Nat
  BY <1>8, <1>9, <1>10, EmptySeq
<1>13. all \in Seq(T) /\ Len(all) = Len(A) + Len(B) + Len(C) /\ all[1] = A[1]
  BY <1>10, <1>11, <1>12
<1>14. PICK n \in Nat \ {0} : n = Len(all) /\ DOMAIN all = 1 .. n
  BY <1>12, <1>13
<1>15. all[1].priority = "high"
  BY <1>8, <1>13 DEF Advice
<1>16. SortedByPriority(all)[1] = all[1]
  BY <1>14, <1>15, FirstStaysFirst
<1> QED BY <1>1, <1>6, <1>8, <1>11, <1>13, <1>16

(* Every analysis adds up, of whatever chains and times.                             *)
LEMMA AnalysesAddUp ==
  ASSUME FailureInv, NEW w \in Wallets, NEW chains, NEW from \in Nat
  PROVE  AnalysisAddsUp(w, chains, from, minute)
<1>1. PICK stored : stored = walletFailures[w]
  OBVIOUS
<1>2. PICK some : some = FailuresOf(w, chains, from, minute)
  OBVIOUS
<1>3. PICK ever : ever = FailuresOf(w, chains, 0, minute)
  OBVIOUS
<1>4. Analysable(stored, some) /\ Analysable(stored, ever) /\ some \in SUBSET ever
  <2>1. stored \in Seq(CuredFailures) /\ minute \in Nat
    BY <1>1 DEF FailureInv
  <2>2. stored \in Seq(Failures)
    <3>1. CuredFailures \subseteq Failures
      BY DEF CuredFailures
    <3> QED BY <2>1, <3>1
  <2>3. from .. minute \subseteq 0 .. minute
    BY <2>1
  <2> QED BY <1>1, <1>2, <1>3, <2>2, <2>3 DEF Analysable, FailuresOf
<1>5. PICK a : a = AnalyzeWalletFailures(w, chains, from, minute)
  OBVIOUS
<1>6. /\ a.totalFailures = Cardinality(some)
      /\ a.cost = CostMetrics(stored, ever)
      /\ a.topFailureCategory = GetTopFailureCategory(stored, some)
      /\ a.chainBreakdown = CalculateChainBreakdown(stored, some)
      /\ a.recommendations = GenerateRecommendations(stored, some)
  BY <1>1, <1>2, <1>3, <1>5 DEF AnalyzeWalletFailures
<1>7. /\ a.cost.totalGasWasted = WasteOf(stored, ever)
      /\ SumFunction(a.cost.wasteByCategory) = a.cost.totalGasWasted
      /\ SumFunction(a.cost.wasteByChain) = a.cost.totalGasWasted
  BY <1>4, <1>6, CostsAddUp
<1>8. PICK breakdown : breakdown = a.chainBreakdown
  OBVIOUS
<1>9. /\ SumFunction([c \in DOMAIN breakdown |-> breakdown[c].failures]) = Cardinality(some)
      /\ SumFunction([c \in DOMAIN breakdown |-> breakdown[c].gasWasted]) = WasteOf(stored, some)
  BY <1>4, <1>6, <1>8, BreakdownAddsUp
<1>10. WasteOf(stored, some) <= WasteOf(stored, ever)
  BY <1>4, WasteOfPart
<1>11. GetCategorySpecificRecommendations(a.topFailureCategory) # <<>>
         => a.recommendations[1] = Advice(a.topFailureCategory, "high")
  BY <1>4, <1>6, TopAdviceIsFirst
<1> QED BY <1>5, <1>6, <1>7, <1>8, <1>9, <1>10, <1>11 DEF AnalysisAddsUp

(* In every reachable state analyses add up for every choice of chains and times, and no *)
(* retry that followed advice, on the latest failure or a named one, is underpriced      *)
(* again or out of gas at the gas that failure used; transactions use no more gas than   *)
(* their limit, which is of four units at least                                          *)
(* (failed-transaction.service.ts, transaction-analysis.service.ts, mitigation.service.ts). *)
THEOREM AdviceHolds ==
  ASSUME \A tx \in FailedTxs : tx.gas <= tx.limit /\ 4 <= tx.limit
  PROVE  FailureSpec => []AdviceFits
<1>1. FailedTxs \subseteq Sendable
  BY FailedTransactionsAssumption DEF Sendable
<1>2. FailureInit => FailureInv
  <2> SUFFICES ASSUME FailureInit PROVE FailureInv
    OBVIOUS
  <2>1. <<>> \in Seq(CuredFailures)
    OBVIOUS
  <2> QED BY <2>1, NoAdviceIs DEF FailureInit, FailureInv
<1>3. FailureInv /\ [FailureNext]_failureVars => FailureInv'
  BY <1>1, FailureInductive
<1>4. FailureInv => AdviceFits
  <2> SUFFICES ASSUME FailureInv, NEW w \in Wallets
               PROVE  /\ RetriesDoBetter(w)
                      /\ \A chains, from : from \in 0 .. minute =>
                           AnalysisAddsUp(w, chains, from, minute)
    BY DEF AdviceFits
  <2>1. RetriesDoBetter(w)
    <3>1. \A i \in DOMAIN walletFailures[w] : walletFailures[w][i] \in CuredFailures
      BY DEF FailureInv
    <3> QED BY <3>1 DEF RetriesDoBetter, CuredFailures
  <2>2. ASSUME NEW chains, NEW from \in 0 .. minute PROVE AnalysisAddsUp(w, chains, from, minute)
    <3>1. from \in Nat
      BY DEF FailureInv
    <3> QED BY <3>1, AnalysesAddUp
  <2> QED BY <2>1, <2>2
<1> QED BY <1>2, <1>3, <1>4, PTL DEF FailureSpec

---------------------------------------------------------------------------------
(* CostModel: AnalysisIsMonotone. *)

(* Division by the same number keeps order, and bounds carry over. *)
LEMMA QuotientIs ==
  ASSUME NEW n \in Int, NEW d \in Nat \ {0}
  PROVE  \E q \in Int : q = n \div d /\ d * q <= n /\ n < d * q + d
BY SMT

LEMMA QuotientsAgree ==
  ASSUME NEW n \in Int, NEW d \in Nat \ {0}, NEW k \in Int
  PROVE  /\ n \div d \in Int
         /\ k * d <= n => k <= n \div d
         /\ n <= k * d => n \div d <= k
<1>1. PICK q \in Int : q = n \div d /\ d * q <= n /\ n < d * q + d
  BY QuotientIs
<1>2. d * (q + 1) = d * q + d /\ d * k = k * d
  BY SMT
<1>3. ASSUME k * d <= n PROVE k <= q
  <2>1. d * (q + 1) > d * k
    BY <1>1, <1>2, <1>3
  <2>2. ~(d * (q + 1) <= d * k)
    BY <2>1
  <2>3. ~(q + 1 <= k)
    BY <2>2, Multiplied
  <2> QED BY <2>3
<1>4. ASSUME n <= k * d PROVE q <= k
  <2>1. d * q <= d * k
    BY <1>1, <1>2, <1>4
  <2> QED BY <2>1, Multiplied
<1> QED BY <1>1, <1>3, <1>4

LEMMA QuotientsGrow ==
  ASSUME NEW m \in Int, NEW n \in Int, m <= n, NEW d \in Nat \ {0}
  PROVE  m \div d \in Int /\ n \div d \in Int /\ m \div d <= n \div d
<1>1. PICK q \in Int : q = m \div d /\ d * q <= m
  BY QuotientIs
<1>2. q * d <= n
  BY <1>1
<1> QED BY <1>1, <1>2, QuotientsAgree

(* A score is between 0 and 100, and falls as the share that is used grows.          *)
LEMMA ScoreFalls ==
  ASSUME NEW d \in Nat \ {0}, NEW m \in Nat, NEW n \in Nat, m <= n
  PROVE  /\ ScoreDimension(n, d) \in 0 .. 100
         /\ ScoreDimension(n, d) <= ScoreDimension(m, d)
         /\ \A percent \in 51 .. 79 : 100 * n <= percent * d => ScoreDimension(n, d) >= 130 - percent
         /\ 100 * n <= 50 * d => ScoreDimension(n, d) >= 80
<1> DEFINE Low(k) == (100 * d - 40 * k) \div d
           Mid(k) == (130 * d - 100 * k) \div d
           High(k) == (250 * d - 250 * k) \div d
<1>1. ASSUME NEW k \in Nat
      PROVE  /\ Low(k) \in Int /\ Mid(k) \in Int /\ High(k) \in Int
             /\ 2 * k < d => Low(k) \in 80 .. 100
             /\ 2 * k >= d /\ 10 * k < 8 * d => Mid(k) \in 50 .. 80
             /\ 10 * k >= 8 * d /\ k <= d => High(k) \in 0 .. 50
             /\ \A percent \in 51 .. 79 : 100 * k <= percent * d => Mid(k) >= 130 - percent
             /\ 100 * k <= 50 * d => Mid(k) >= 80
  <2>11. PICK a \in Int : a = 100 * d - 40 * k
    <3>1. 100 * d - 40 * k \in Int
      OBVIOUS
    <3> QED BY <3>1
  <2>12. PICK b \in Int : b = 130 * d - 100 * k
    <3>1. 130 * d - 100 * k \in Int
      OBVIOUS
    <3> QED BY <3>1
  <2>13. PICK c \in Int : c = 250 * d - 250 * k
    <3>1. 250 * d - 250 * k \in Int
      OBVIOUS
    <3> QED BY <3>1
  <2>1. a = 100 * d - 40 * k /\ b = 130 * d - 100 * k /\ c = 250 * d - 250 * k
    BY <2>11, <2>12, <2>13
  <2>2. ASSUME NEW p \in Int, p \in {a, b, c}, NEW j \in Int
        PROVE  p \div d \in Int /\ (j * d <= p => j <= p \div d) /\ (p <= j * d => p \div d <= j)
    BY QuotientsAgree
  <2>3. a \div d \in Int /\ b \div d \in Int /\ c \div d \in Int
    BY <2>2
  <2>4. 2 * k < d => a \div d \in 80 .. 100
    <3>1. (80 * d <= a => 80 <= a \div d) /\ (a <= 100 * d => a \div d <= 100)
      BY <2>2
    <3> QED BY <2>1, <2>3, <3>1
  <2>5. 2 * k >= d /\ 10 * k < 8 * d => b \div d \in 50 .. 80
    <3>1. (50 * d <= b => 50 <= b \div d) /\ (b <= 80 * d => b \div d <= 80)
      BY <2>2
    <3> QED BY <2>1, <2>3, <3>1
  <2>6. 10 * k >= 8 * d /\ k <= d => c \div d \in 0 .. 50
    <3>1. (0 * d <= c => 0 <= c \div d) /\ (c <= 50 * d => c \div d <= 50)
      BY <2>2
    <3> QED BY <2>1, <2>3, <3>1
  <2>7. ASSUME NEW percent \in 51 .. 79, 100 * k <= percent * d PROVE b \div d >= 130 - percent
    <3>1. (130 - percent) * d <= b => 130 - percent <= b \div d
      BY <2>2
    <3>2. (130 - percent) * d = 130 * d - percent * d
      OBVIOUS
    <3> QED BY <2>1, <2>3, <2>7, <3>1, <3>2
  <2>8. 100 * k <= 50 * d => b \div d >= 80
    <3>1. 80 * d <= b => 80 <= b \div d
      BY <2>2
    <3> QED BY <2>1, <2>3, <3>1
  <2> QED BY <2>1, <2>3, <2>4, <2>5, <2>6, <2>7, <2>8
<1>2. Low(n) <= Low(m) /\ Mid(n) <= Mid(m) /\ High(n) <= High(m)
  <2>1. 100 * d - 40 * n <= 100 * d - 40 * m
    OBVIOUS
  <2>2. 130 * d - 100 * n <= 130 * d - 100 * m
    OBVIOUS
  <2>3. 250 * d - 250 * n <= 250 * d - 250 * m
    OBVIOUS
  <2>4. Low(n) <= Low(m)
    BY <2>1, QuotientsGrow
  <2>5. Mid(n) <= Mid(m)
    BY <2>2, QuotientsGrow
  <2>6. High(n) <= High(m)
    BY <2>3, QuotientsGrow
  <2> QED BY <2>4, <2>5, <2>6
<1> HIDE DEF Low, Mid, High
<1>3. \A k \in Nat : ScoreDimension(k, d) = IF 2 * k < d THEN Low(k)
                                            ELSE IF 10 * k < 8 * d THEN Mid(k)
                                            ELSE IF k > d THEN 0 ELSE High(k)
  BY DEF ScoreDimension, Low, Mid, High
<1>4. ASSUME NEW k \in Nat PROVE ScoreDimension(k, d) \in 0 .. 100
  <2>1. CASE 2 * k < d
    BY <1>1, <1>3, <2>1
  <2>2. CASE 2 * k >= d /\ 10 * k < 8 * d
    BY <1>1, <1>3, <2>2
  <2>3. CASE 10 * k >= 8 * d /\ k <= d
    BY <1>1, <1>3, <2>3
  <2>4. CASE k > d
    BY <1>3, <2>4
  <2> QED BY <2>1, <2>2, <2>3, <2>4
<1>5. ScoreDimension(n, d) <= ScoreDimension(m, d)
  <2>1. CASE 2 * n < d
    BY <1>2, <1>3, <2>1
  <2>2. CASE 2 * n >= d /\ 10 * n < 8 * d
    BY <1>1, <1>2, <1>3, <2>2
  <2>3. CASE 10 * n >= 8 * d /\ n <= d
    <3>1. ScoreDimension(n, d) = High(n) /\ High(n) \in 0 .. 50 /\ High(m) \in Int
      BY <1>1, <1>3, <2>3
    <3>2. CASE 2 * m < d
      BY <1>1, <1>3, <3>1, <3>2, SMTT(30)
    <3>3. CASE 2 * m >= d /\ 10 * m < 8 * d
      <4>1. ScoreDimension(m, d) = Mid(m) /\ Mid(m) \in 50 .. 80
        BY <1>1, <1>3, <3>3
      <4> QED BY <3>1, <4>1
    <3>4. CASE 10 * m >= 8 * d
      BY <1>2, <1>3, <2>3, <3>1, <3>4
    <3> QED BY <3>2, <3>3, <3>4
  <2>4. CASE n > d
    <3>1. ScoreDimension(n, d) = 0
      BY <1>3, <2>4
    <3>2. ScoreDimension(m, d) \in 0 .. 100
      BY <1>4
    <3> QED BY <3>1, <3>2
  <2> QED BY <2>1, <2>2, <2>3, <2>4
<1>6. ASSUME NEW percent \in 51 .. 79, 100 * n <= percent * d
      PROVE  ScoreDimension(n, d) >= 130 - percent
  <2>1. percent * d <= 79 * d
    BY Multiplied
  <2>2. 10 * n < 8 * d
    BY <1>6, <2>1
  <2> QED BY <1>1, <1>3, <1>6, <2>2
<1>7. 100 * n <= 50 * d => ScoreDimension(n, d) >= 80
  BY <1>1, <1>3
<1> QED BY <1>4, <1>5, <1>6, <1>7

-----------------------------------------------------------------------------
\* Two analyses, of which the second is of a transaction that uses no less of anything.

Affordable(l) == \A r \in Resources : Amount(l, r) \in Nat /\ Amount(l, r) <= TxLimits[r]

LEMMA ResourcesAre ==
  /\ IsFiniteSet(LedgerResources) /\ Cardinality(LedgerResources) = 5
  /\ LedgerResources \subseteq Resources /\ "cpu" \in Resources /\ "memory" \in Resources
<1>1. IsFiniteSet({"read_entries"}) /\ Cardinality({"read_entries"}) = 1
  <2>1. {"read_entries"} = {} \cup {"read_entries"} /\ "read_entries" \notin {}
    OBVIOUS
  <2>2. IsFiniteSet({}) /\ Cardinality({}) = 0
    BY FS_EmptySet
  <2> QED BY <2>1, <2>2, FS_AddElement
<1>2. /\ IsFiniteSet({"read_entries", "read_bytes"})
      /\ Cardinality({"read_entries", "read_bytes"}) = 2
  <2>1. {"read_entries", "read_bytes"} = {"read_entries"} \cup {"read_bytes"}
        /\ "read_bytes" \notin {"read_entries"}
    OBVIOUS
  <2> QED BY <1>1, <2>1, FS_AddElement
<1>3. /\ IsFiniteSet({"read_entries", "read_bytes", "write_entries"})
      /\ Cardinality({"read_entries", "read_bytes", "write_entries"}) = 3
  <2>1. {"read_entries", "read_bytes", "write_entries"}
          = {"read_entries", "read_bytes"} \cup {"write_entries"}
        /\ "write_entries" \notin {"read_entries", "read_bytes"}
    OBVIOUS
  <2> QED BY <1>2, <2>1, FS_AddElement
<1>4. /\ IsFiniteSet({"read_entries", "read_bytes", "write_entries", "write_bytes"})
      /\ Cardinality({"read_entries", "read_bytes", "write_entries", "write_bytes"}) = 4
  <2>1. {"read_entries", "read_bytes", "write_entries", "write_bytes"}
          = {"read_entries", "read_bytes", "write_entries"} \cup {"write_bytes"}
        /\ "write_bytes" \notin {"read_entries", "read_bytes", "write_entries"}
    OBVIOUS
  <2> QED BY <1>3, <2>1, FS_AddElement
<1>5. IsFiniteSet(LedgerResources) /\ Cardinality(LedgerResources) = 5
  <2>1. LedgerResources = {"read_entries", "read_bytes", "write_entries", "write_bytes"}
                            \cup {"bandwidth"}
        /\ "bandwidth" \notin {"read_entries", "read_bytes", "write_entries", "write_bytes"}
    BY DEF LedgerResources
  <2> QED BY <1>4, <2>1, FS_AddElement
<1> QED BY <1>5 DEF Resources

LEMMA LimitsAre ==
  /\ \A r \in Resources : TxLimits[r] \in Nat \ {0}
  /\ CPUIncrement \in Nat \ {0} /\ KB \in Nat \ {0} /\ Whole \in Nat \ {0}
  /\ \A r \in Resources \ {"memory"} : UnitFees[r] \in Nat
BY CostModelAssumption

(* What is charged for grows with what is used.                                      *)
LEMMA CeilingGrows ==
  ASSUME NEW m \in Nat, NEW n \in Nat, m <= n, NEW d \in Nat \ {0}
  PROVE  Ceiling(m, d) \in Nat /\ Ceiling(n, d) \in Nat /\ Ceiling(m, d) <= Ceiling(n, d)
<1>1. m + d - 1 \in Int /\ n + d - 1 \in Int /\ m + d - 1 <= n + d - 1
      /\ 0 * d <= m + d - 1 /\ 0 * d <= n + d - 1
  OBVIOUS
<1>2. (m + d - 1) \div d \in Int /\ (n + d - 1) \div d \in Int
      /\ (m + d - 1) \div d <= (n + d - 1) \div d
  BY <1>1, QuotientsGrow
<1>3. 0 <= (m + d - 1) \div d /\ 0 <= (n + d - 1) \div d
  BY <1>1, QuotientsAgree
<1> QED BY <1>2, <1>3 DEF Ceiling

LEMMA ProductsGrow ==
  ASSUME NEW a \in Nat, NEW b \in Nat, a <= b, NEW c \in Nat
  PROVE  a * c \in Nat /\ b * c \in Nat /\ a * c <= b * c
<1>1. PICK e \in Nat : b = a + e
  <2>1. b - a \in Nat /\ b = a + (b - a)
    OBVIOUS
  <2> QED BY <2>1
<1>2. b * c = a * c + e * c /\ e * c \in Nat /\ a * c \in Nat
  BY <1>1
<1> QED BY <1>2

LEMMA FeeGrows ==
  ASSUME NEW b, NEW l, Affordable(b), Affordable(l),
         \A r \in Resources : Amount(b, r) <= Amount(l, r)
  PROVE  ComputeCPUCost(b) + ComputeLedgerCost(b) <= ComputeCPUCost(l) + ComputeLedgerCost(l)
<1>1. /\ ComputeCPUCost(b) \in Nat /\ ComputeCPUCost(l) \in Nat
      /\ ComputeCPUCost(b) <= ComputeCPUCost(l)
  <2>1. /\ Amount(b, "cpu") \in Nat /\ Amount(l, "cpu") \in Nat /\ Amount(b, "cpu") <= Amount(l, "cpu")
        /\ UnitFees["cpu"] \in Nat
    BY ResourcesAre, LimitsAre DEF Affordable
  <2>2. PICK m \in Nat, n \in Nat : /\ m = Ceiling(Amount(b, "cpu"), CPUIncrement)
                                    /\ n = Ceiling(Amount(l, "cpu"), CPUIncrement) /\ m <= n
    BY <2>1, LimitsAre, CeilingGrows
  <2> QED BY <2>1, <2>2, ProductsGrow DEF ComputeCPUCost
<1>2. PICK f : f = [r \in LedgerResources |-> Charged(b, r) * UnitFees[r]]
  OBVIOUS
<1>3. PICK h : h = [r \in LedgerResources |-> Charged(l, r) * UnitFees[r]]
  OBVIOUS
<1>4. ASSUME NEW r \in LedgerResources
      PROVE  f[r] \in Int /\ h[r] \in Int /\ f[r] <= h[r]
  <2>1. /\ Amount(b, r) \in Nat /\ Amount(l, r) \in Nat /\ Amount(b, r) <= Amount(l, r)
        /\ UnitFees[r] \in Nat
    <3>1. r \in Resources /\ r # "memory"
      BY ResourcesAre DEF LedgerResources
    <3> QED BY <3>1, LimitsAre DEF Affordable
  <2>2. PICK m \in Nat, n \in Nat : m = Charged(b, r) /\ n = Charged(l, r) /\ m <= n
    <3>1. /\ Ceiling(Amount(b, r), KB) \in Nat /\ Ceiling(Amount(l, r), KB) \in Nat
          /\ Ceiling(Amount(b, r), KB) <= Ceiling(Amount(l, r), KB)
      BY <2>1, LimitsAre, CeilingGrows
    <3> QED BY <2>1, <3>1 DEF Charged
  <2>3. f[r] = m * UnitFees[r] /\ h[r] = n * UnitFees[r]
    BY <1>2, <1>3, <2>2
  <2> QED BY <2>1, <2>2, <2>3, ProductsGrow
<1>5. IsFiniteSet(LedgerResources)
  BY ResourcesAre
<1>6. SumFunctionOnSet(f, LedgerResources) <= SumFunctionOnSet(h, LedgerResources)
  BY <1>4, <1>5, SumMonotone
<1>7. SumFunctionOnSet(f, LedgerResources) \in Int /\ SumFunctionOnSet(h, LedgerResources) \in Int
  BY <1>4, <1>5, SumOnSet
<1>8. /\ ComputeLedgerCost(b) = SumFunctionOnSet(f, LedgerResources)
      /\ ComputeLedgerCost(l) = SumFunctionOnSet(h, LedgerResources)
  BY <1>2, <1>3 DEF ComputeLedgerCost
<1> QED BY <1>1, <1>6, <1>7, <1>8

(* The composite grows, and is no more than 75 per cent if every share is. *)
LEMMA CompositeGrows ==
  ASSUME NEW b, NEW l, Affordable(b), Affordable(l),
         \A r \in Resources : Amount(b, r) <= Amount(l, r)
  PROVE  /\ LedgerComposite(b) \in Nat /\ LedgerComposite(l) \in Nat
         /\ LedgerComposite(b) <= LedgerComposite(l)
         /\ (\A r \in LedgerResources : ~Above(l, r, 75)) => 20 * LedgerComposite(l) <= 75 * Whole
<1>1. PICK f : f = [r \in LedgerResources |-> Amount(b, r) * (Whole \div TxLimits[r])]
  OBVIOUS
<1>2. PICK h : h = [r \in LedgerResources |-> Amount(l, r) * (Whole \div TxLimits[r])]
  OBVIOUS
<1>3. ASSUME NEW r \in LedgerResources
      PROVE  /\ f[r] \in Nat /\ h[r] \in Nat /\ f[r] <= h[r]
             /\ ~Above(l, r, 75) => 100 * h[r] <= 75 * Whole
  <2>1. PICK m \in Nat, n \in Nat, t \in Nat \ {0} :
          m = Amount(b, r) /\ n = Amount(l, r) /\ m <= n /\ t = TxLimits[r]
    <3>1. r \in Resources
      BY ResourcesAre
    <3> QED BY <3>1, LimitsAre DEF Affordable
  <2>2. PICK q \in Nat : q = Whole \div t /\ Whole = t * q
    <3>1. Whole % t = 0 /\ Whole \in Nat
      BY <2>1, CostModelAssumption
    <3>2. PICK q \in Int : q = Whole \div t /\ Whole = t * q
      BY <3>1, SMT
    <3>3. 0 * t <= Whole
      BY <3>1
    <3>4. 0 <= q
      BY <3>1, <3>2, <3>3, QuotientsAgree
    <3> QED BY <3>2, <3>4
  <2>3. f[r] = m * q /\ h[r] = n * q
    BY <1>1, <1>2, <2>1, <2>2
  <2>4. f[r] \in Nat /\ h[r] \in Nat /\ f[r] <= h[r]
    <3>1. m * q \in Nat /\ n * q \in Nat /\ m * q <= n * q
      BY ONLY <2>1, <2>2, ProductsGrow
    <3> QED BY ONLY <2>3, <3>1
  <2>5. ASSUME ~Above(l, r, 75) PROVE 100 * h[r] <= 75 * Whole
    <3>1. 100 * n <= 75 * t
      BY <2>1, <2>5 DEF Above
    <3>2. (100 * n) * q <= (75 * t) * q
      <4>1. 100 * n \in Nat /\ 75 * t \in Nat
        BY <2>1
      <4> QED BY <2>2, <3>1, <4>1, ProductsGrow
    <3>3. (100 * n) * q = 100 * (n * q) /\ (75 * t) * q = 75 * (t * q)
      BY <2>1, <2>2
    <3> QED BY <2>2, <2>3, <3>2, <3>3
  <2> QED BY <2>4, <2>5
<1>4. IsFiniteSet(LedgerResources) /\ Cardinality(LedgerResources) = 5
  BY ResourcesAre
<1>5. PICK x : x = SumFunctionOnSet(f, LedgerResources)
  OBVIOUS
<1>6. PICK y : y = SumFunctionOnSet(h, LedgerResources)
  OBVIOUS
<1>7. x \in Nat
  BY <1>3, <1>4, <1>5, SumOfNaturals
<1>8. y \in Nat
  BY <1>3, <1>4, <1>6, SumOfNaturals
<1>9. x <= y
  BY <1>3, <1>4, <1>5, <1>6, SumMonotone
<1>10. LedgerComposite(b) = x /\ LedgerComposite(l) = y
  BY <1>1, <1>2, <1>5, <1>6 DEF LedgerComposite
<1>11. ASSUME \A r \in LedgerResources : ~Above(l, r, 75) PROVE 20 * y <= 75 * Whole
  <2>1. PICK k \in Nat : k = (75 * Whole) \div 100 /\ 100 * k <= 75 * Whole
    BY LimitsAre, SMT
  <2>2. \A r \in LedgerResources : h[r] \in Nat /\ 0 <= h[r] /\ h[r] <= k
    <3> SUFFICES ASSUME NEW r \in LedgerResources PROVE h[r] \in Nat /\ 0 <= h[r] /\ h[r] <= k
      OBVIOUS
    <3>1. h[r] \in Nat /\ 100 * h[r] <= 75 * Whole
      BY <1>3, <1>11
    <3> QED BY <2>1, <3>1, LimitsAre, SMT
  <2>3. y <= k * 5
    BY <1>4, <1>6, <2>2, SumBetween
  <2> QED BY <1>8, <2>1, <2>3, LimitsAre
<1> QED BY <1>7, <1>8, <1>9, <1>10, <1>11

LEMMA ScoreIs ==
  ASSUME NEW d \in Nat \ {0}, NEW n \in Nat
  PROVE  ScoreDimension(n, d) \in 0 .. 100
<1>1. n <= n
  OBVIOUS
<1> QED BY <1>1, ScoreFalls

LEMMA ScoresAre ==
  ASSUME NEW b, NEW l, Affordable(b), Affordable(l),
         \A r \in Resources : Amount(b, r) <= Amount(l, r)
  PROVE  /\ DOMAIN ComputeScores(l) = {"cpu", "memory", "ledger", "total"}
         /\ \A dimension \in {"cpu", "memory", "ledger", "total"} :
              /\ ComputeScores(l)[dimension] <= ComputeScores(b)[dimension]
              /\ ComputeScores(l)[dimension] \in 0 .. 100
         /\ /\ ~Above(l, "cpu", 60) /\ ~Above(l, "memory", 50)
            /\ \A r \in LedgerResources : ~Above(l, r, 75)
            => ComputeScores(l)["total"] >= 66
<1>1. \A r \in {"cpu", "memory"} : /\ Amount(b, r) \in Nat /\ Amount(l, r) \in Nat
                                   /\ Amount(b, r) <= Amount(l, r) /\ TxLimits[r] \in Nat \ {0}
  BY ResourcesAre, LimitsAre DEF Affordable
<1>2. 5 * Whole \in Nat \ {0}
  BY LimitsAre
<1>3. PICK cpu \in 0 .. 100, cpu0 \in 0 .. 100 :
        /\ cpu = ScoreDimension(Amount(l, "cpu"), TxLimits["cpu"])
        /\ cpu0 = ScoreDimension(Amount(b, "cpu"), TxLimits["cpu"])
        /\ cpu <= cpu0 /\ (~Above(l, "cpu", 60) => cpu >= 70)
  <2>1. PICK m \in Nat, n \in Nat, d \in Nat \ {0} :
          m = Amount(b, "cpu") /\ n = Amount(l, "cpu") /\ m <= n /\ d = TxLimits["cpu"]
    BY <1>1
  <2>2. /\ ScoreDimension(n, d) \in 0 .. 100 /\ ScoreDimension(n, d) <= ScoreDimension(m, d)
        /\ \A percent \in 51 .. 79 : 100 * n <= percent * d => ScoreDimension(n, d) >= 130 - percent
    BY <2>1, ScoreFalls
  <2>3. ScoreDimension(m, d) \in 0 .. 100
    BY ScoreIs
  <2>4. 100 * n <= 60 * d => ScoreDimension(n, d) >= 70
    <3>1. 60 \in 51 .. 79 /\ 130 - 60 = 70
      OBVIOUS
    <3> QED BY <2>2, <3>1
  <2>5. ~Above(l, "cpu", 60) => 100 * n <= 60 * d
    BY <2>1 DEF Above
  <2> QED BY <2>1, <2>2, <2>3, <2>4, <2>5
<1>4. PICK memory \in 0 .. 100, memory0 \in 0 .. 100 :
        /\ memory = ScoreDimension(Amount(l, "memory"), TxLimits["memory"])
        /\ memory0 = ScoreDimension(Amount(b, "memory"), TxLimits["memory"])
        /\ memory <= memory0 /\ (~Above(l, "memory", 50) => memory >= 80)
  <2>1. PICK m \in Nat, n \in Nat, d \in Nat \ {0} :
          m = Amount(b, "memory") /\ n = Amount(l, "memory") /\ m <= n /\ d = TxLimits["memory"]
    BY <1>1
  <2>2. /\ ScoreDimension(n, d) \in 0 .. 100 /\ ScoreDimension(n, d) <= ScoreDimension(m, d)
        /\ 100 * n <= 50 * d => ScoreDimension(n, d) >= 80
    BY <2>1, ScoreFalls
  <2>3. ScoreDimension(m, d) \in 0 .. 100
    BY ScoreIs
  <2>4. ~Above(l, "memory", 50) => 100 * n <= 50 * d
    BY <2>1 DEF Above
  <2> QED BY <2>1, <2>2, <2>3, <2>4
<1>5. PICK ledger \in 0 .. 100, ledger0 \in 0 .. 100 :
        /\ ledger = ScoreDimension(LedgerComposite(l), 5 * Whole)
        /\ ledger0 = ScoreDimension(LedgerComposite(b), 5 * Whole)
        /\ ledger <= ledger0
        /\ (\A r \in LedgerResources : ~Above(l, r, 75)) => ledger >= 55
  <2>1. PICK m \in Nat, n \in Nat :
          /\ m = LedgerComposite(b) /\ n = LedgerComposite(l) /\ m <= n
          /\ (\A r \in LedgerResources : ~Above(l, r, 75)) => 20 * n <= 75 * Whole
    BY CompositeGrows
  <2>2. PICK d \in Nat \ {0} : d = 5 * Whole
    BY <1>2
  <2>3. /\ ScoreDimension(n, d) \in 0 .. 100 /\ ScoreDimension(n, d) <= ScoreDimension(m, d)
        /\ \A percent \in 51 .. 79 : 100 * n <= percent * d => ScoreDimension(n, d) >= 130 - percent
    BY <2>1, <2>2, ScoreFalls
  <2>4. ScoreDimension(m, d) \in 0 .. 100
    BY ScoreIs
  <2>5. 20 * n <= 75 * Whole => 100 * n <= 75 * d
    BY <2>1, <2>2, LimitsAre
  <2>6. 100 * n <= 75 * d => ScoreDimension(n, d) >= 55
    <3>1. 75 \in 51 .. 79 /\ 130 - 75 = 55
      OBVIOUS
    <3> QED BY <2>3, <3>1
  <2> QED BY <2>1, <2>2, <2>3, <2>4, <2>5, <2>6
<1>6. PICK total \in Int, total0 \in Int :
        /\ total = (4 * cpu + 2 * memory + 4 * ledger) \div 10
        /\ total0 = (4 * cpu0 + 2 * memory0 + 4 * ledger0) \div 10
  OBVIOUS
<1>21. PICK all \in 0 .. 1000, all0 \in 0 .. 1000 :
         /\ all = 4 * cpu + 2 * memory + 4 * ledger
         /\ all0 = 4 * cpu0 + 2 * memory0 + 4 * ledger0
  <2>1. /\ 4 * cpu + 2 * memory + 4 * ledger \in 0 .. 1000
        /\ 4 * cpu0 + 2 * memory0 + 4 * ledger0 \in 0 .. 1000
    OBVIOUS
  <2> QED BY <2>1, ZenonT(30)
<1>22. all <= all0
  <2>1. cpu <= cpu0 /\ memory <= memory0 /\ ledger <= ledger0
    BY <1>3, <1>4, <1>5
  <2> QED BY ONLY <1>21, <2>1
<1>7. total \in 0 .. 100 /\ total <= total0
  <2>1. total = all \div 10 /\ total0 = all0 \div 10
    BY <1>6, <1>21
  <2> QED BY <2>1, <1>22
<1>8. ASSUME cpu >= 70, memory >= 80, ledger >= 55 PROVE total >= 66
  <2>1. all >= 660 /\ total = all \div 10
    BY <1>6, <1>8, <1>21
  <2> QED BY <2>1
<1>9. ComputeScores(l) = [cpu |-> cpu, memory |-> memory, ledger |-> ledger, total |-> total]
  BY <1>3, <1>4, <1>5, <1>6 DEF ComputeScores
<1>10. ComputeScores(b) = [cpu |-> cpu0, memory |-> memory0, ledger |-> ledger0, total |-> total0]
  BY <1>3, <1>4, <1>5, <1>6 DEF ComputeScores
<1>11. DOMAIN ComputeScores(l) = {"cpu", "memory", "ledger", "total"}
  BY <1>9
<1>12. \A dimension \in {"cpu", "memory", "ledger", "total"} :
         /\ ComputeScores(l)[dimension] <= ComputeScores(b)[dimension]
         /\ ComputeScores(l)[dimension] \in 0 .. 100
  BY <1>3, <1>4, <1>5, <1>7, <1>9, <1>10
<1>13. ComputeScores(l)["total"] = total
  BY <1>9
<1> QED BY <1>3, <1>4, <1>5, <1>8, <1>11, <1>12, <1>13

(* What breaks the safety margin is hinted at, and where nothing is hinted no resource   *)
(* is above what its hint is for.                                                        *)
LEMMA HintsCover ==
  ASSUME NEW l, Affordable(l)
  PROVE  /\ \A r \in Resources : Above(l, r, 95) => Severity(l, r) # "none"
         /\ Above(l, "cpu", 60) => Severity(l, "cpu") # "none"
         /\ Above(l, "memory", 50) => Severity(l, "memory") # "none"
         /\ \A r \in LedgerResources : Above(l, r, 75) => Severity(l, r) # "none"
<1>1. \A r \in Resources : Amount(l, r) \in Nat /\ TxLimits[r] \in Nat
  BY LimitsAre DEF Affordable
<1>2. \A r \in Resources : /\ Above(l, r, 95) => Above(l, r, 60)
                           /\ Above(l, r, 95) => Above(l, r, 50)
                           /\ Above(l, r, 95) => Above(l, r, 75)
  BY <1>1 DEF Above
<1>3. Above(l, "cpu", 60) => Severity(l, "cpu") # "none"
  BY DEF Severity, LedgerResources
<1>4. Above(l, "memory", 50) => Severity(l, "memory") # "none"
  BY DEF Severity, LedgerResources
<1>5. \A r \in LedgerResources : Above(l, r, 75) => Severity(l, r) # "none"
  BY DEF Severity, LedgerResources
<1>6. \A r \in Resources : r = "cpu" \/ r = "memory" \/ r \in LedgerResources
  BY DEF Resources
<1> QED BY <1>2, <1>3, <1>4, <1>5, <1>6

CostInv ==
  /\ level \in [Resources -> Nat] /\ \A r \in Resources : level[r] \in 1 .. Len(Levels[r])
  /\ grown \subseteq Resources /\ \A r \in grown : level[r] > 1

LEMMA AmountIs ==
  ASSUME NEW l, NEW r \in Resources, l[r] \in 1 .. Len(Levels[r])
  PROVE  Amount(l, r) \in Nat /\ Amount(l, r) <= TxLimits[r]
<1>1. Levels[r] \in Seq(0 .. TxLimits[r]) /\ TxLimits[r] \in Nat
  BY CostModelAssumption
<1>2. Levels[r][l[r]] \in 0 .. TxLimits[r]
  BY <1>1
<1> QED BY <1>1, <1>2 DEF Amount

(* An analysis compares as it should wherever the levels are.                        *)
LEMMA MonotoneWhenTyped == CostInv => AnalysisIsMonotone
<1> SUFFICES ASSUME CostInv PROVE AnalysisIsMonotone
  OBVIOUS
<1>1. PICK b : b = Before
  OBVIOUS
<1>2. ASSUME NEW r \in Resources
      PROVE  /\ level[r] \in 1 .. Len(Levels[r]) /\ b[r] \in 1 .. Len(Levels[r])
             /\ b[r] <= level[r]
  <2>1. level[r] \in 1 .. Len(Levels[r]) /\ Len(Levels[r]) \in Nat
    <3>1. Levels[r] \in Seq(0 .. TxLimits[r])
      BY CostModelAssumption
    <3> QED BY <3>1 DEF CostInv
  <2>2. b[r] = IF r \in grown THEN level[r] - 1 ELSE level[r]
    BY <1>1 DEF Before
  <2> QED BY <2>1, <2>2 DEF CostInv
<1>3. Affordable(b) /\ Affordable(level)
  BY <1>2, AmountIs DEF Affordable
<1>4. ASSUME NEW r \in Resources PROVE Amount(b, r) <= Amount(level, r)
  <2>1. CASE b[r] = level[r]
    <3>1. Amount(b, r) = Amount(level, r) /\ Amount(b, r) \in Nat
      BY <1>3, <2>1 DEF Amount, Affordable
    <3> QED BY <3>1
  <2>2. CASE b[r] < level[r]
    <3>1. Levels[r] \in Seq(0 .. TxLimits[r])
          /\ \A i, k \in DOMAIN Levels[r] : i < k => Levels[r][i] < Levels[r][k]
      BY CostModelAssumption
    <3>2. b[r] \in DOMAIN Levels[r] /\ level[r] \in DOMAIN Levels[r]
      BY <1>2, <3>1
    <3>3. Amount(b, r) < Amount(level, r)
      BY <2>2, <3>1, <3>2 DEF Amount
    <3>4. Amount(b, r) \in Nat /\ Amount(level, r) \in Nat
      BY <1>3 DEF Affordable
    <3> QED BY <3>3, <3>4
  <2>3. b[r] \in Int /\ level[r] \in Int /\ b[r] <= level[r]
    BY <1>2
  <2> QED BY <2>1, <2>2, <2>3
<1>5. PICK before : before = AnalyzeTransaction(b)
  OBVIOUS
<1>6. PICK after : after = AnalyzeTransaction(level)
  OBVIOUS
<1>7. /\ before.fee = ComputeCPUCost(b) + ComputeLedgerCost(b)
      /\ before.scores = ComputeScores(b) /\ before.violations = SafetyViolations(b)
  BY <1>5 DEF AnalyzeTransaction
<1>8. /\ after.fee = ComputeCPUCost(level) + ComputeLedgerCost(level)
      /\ after.scores = ComputeScores(level) /\ after.violations = SafetyViolations(level)
      /\ after.hints = GenerateHints(level)
  BY <1>6 DEF AnalyzeTransaction
<1>9. before.fee <= after.fee
  BY <1>3, <1>4, <1>7, <1>8, FeeGrows
<1>10. /\ DOMAIN after.scores = {"cpu", "memory", "ledger", "total"}
       /\ \A dimension \in {"cpu", "memory", "ledger", "total"} :
            /\ after.scores[dimension] <= before.scores[dimension]
            /\ after.scores[dimension] \in 0 .. 100
       /\ /\ ~Above(level, "cpu", 60) /\ ~Above(level, "memory", 50)
          /\ \A r \in LedgerResources : ~Above(level, r, 75)
          => after.scores["total"] >= 66
  BY <1>3, <1>4, <1>7, <1>8, ScoresAre
<1>11. before.violations \subseteq after.violations
  <2>1. \A r \in Resources : Above(b, r, 95) => Above(level, r, 95)
    <3> SUFFICES ASSUME NEW r \in Resources, Above(b, r, 95) PROVE Above(level, r, 95)
      OBVIOUS
    <3>1. Amount(b, r) \in Nat /\ Amount(level, r) \in Nat /\ TxLimits[r] \in Nat
          /\ Amount(b, r) <= Amount(level, r)
      BY <1>3, <1>4, LimitsAre DEF Affordable
    <3> QED BY <3>1 DEF Above
  <2> QED BY <1>7, <1>8, <2>1 DEF SafetyViolations
<1>12. \A r \in Resources : Severity(level, r) # "none" => <<Severity(level, r), r>> \in after.hints
  BY <1>8 DEF GenerateHints
<1>13. ASSUME NEW r \in after.violations PROVE \E hint \in after.hints : hint[2] = r
  <2>1. r \in Resources /\ Above(level, r, 95)
    BY <1>8, <1>13 DEF SafetyViolations
  <2>2. <<Severity(level, r), r>> \in after.hints
    BY <1>3, <1>12, <2>1, HintsCover
  <2>3. <<Severity(level, r), r>>[2] = r
    OBVIOUS
  <2> QED BY <2>2, <2>3
<1>14. after.hints = {} => after.scores.total >= 66
  <2> SUFFICES ASSUME after.hints = {} PROVE after.scores["total"] >= 66
    OBVIOUS
  <2>1. \A r \in Resources : Severity(level, r) = "none"
    BY <1>12
  <2>2. /\ ~Above(level, "cpu", 60) /\ ~Above(level, "memory", 50)
        /\ \A r \in LedgerResources : ~Above(level, r, 75)
    BY <1>3, <2>1, HintsCover, ResourcesAre
  <2> QED BY <1>10, <2>2
<1> QED BY <1>1, <1>5, <1>6, <1>9, <1>10, <1>11, <1>13, <1>14 DEF AnalysisIsMonotone

(* To use more of anything never costs less and never scores higher, whatever the limits, *)
(* fees and amounts; scores stay within their bounds, and what is wrong is hinted at      *)
(* (cost_model.py).                                                                       *)
LEMMA CostsInductive ==
  /\ CostInit => CostInv
  /\ CostInv /\ [CostNext]_costVars => CostInv'
<1>1. CostInit => CostInv
  <2> SUFFICES ASSUME CostInit PROVE CostInv
    OBVIOUS
  <2>1. \A r \in Resources : Len(Levels[r]) \in Nat /\ Len(Levels[r]) > 0
    <3> SUFFICES ASSUME NEW r \in Resources PROVE Len(Levels[r]) \in Nat /\ Len(Levels[r]) > 0
      OBVIOUS
    <3>1. Levels[r] \in Seq(0 .. TxLimits[r]) /\ Len(Levels[r]) > 0
      BY CostModelAssumption
    <3> QED BY <3>1
  <2> QED BY <2>1 DEF CostInit, CostInv
<1>2. ASSUME CostInv, UseMore PROVE CostInv'
  <2>1. PICK r \in Resources : /\ level[r] < Len(Levels[r])
                               /\ level' = [level EXCEPT ![r] = level[r] + 1] /\ grown' = {r}
    BY <1>2 DEF UseMore
  <2>2. Len(Levels[r]) \in Nat
    <3>1. Levels[r] \in Seq(0 .. TxLimits[r])
      BY CostModelAssumption
    <3> QED BY <3>1
  <2>3. level \in [Resources -> Nat] /\ level[r] \in 1 .. Len(Levels[r])
        /\ \A s \in Resources : level[s] \in 1 .. Len(Levels[s])
    BY <1>2 DEF CostInv
  <2>4. level'[r] = level[r] + 1 /\ level'[r] \in 1 .. Len(Levels[r]) /\ level'[r] > 1
    BY <2>1, <2>2, <2>3
  <2>5. \A s \in Resources : s # r => level'[s] = level[s]
    BY <2>1, <2>3
  <2>6. level' \in [Resources -> Nat]
    BY <2>1, <2>3
  <2> QED BY <2>1, <2>3, <2>4, <2>5, <2>6 DEF CostInv
<1>3. ASSUME CostInv, UNCHANGED costVars PROVE CostInv'
  BY <1>3 DEF costVars, CostInv
<1> QED BY <1>1, <1>2, <1>3 DEF CostNext

---------------------------------------------------------------------------------
(* Pricing: PricesAgree. *)

Snapshots == {CreateGasPriceSnapshot(load) : load \in 0 .. 84}

PriceCalls ==
  [for : {"estimate", "suggestion", "options", "metrics", "job"}, chain : PricedChains,
   step : {"setMetrics", "getSnapshot", "setSnapshot", "answer"}, snapshot : Snapshots]

PriceAnswers ==
  [for : {"none", "estimate", "suggestion", "options", "metrics"}, warm : BOOLEAN,
   load : {NoLoad} \cup 0 .. 84, from : Seq(Snapshots)]

PricingTypeOK ==
  /\ metricsCache \in [PricedChains -> {NoLoad} \cup 0 .. 84]
  /\ snapshotCache \in [PricedChains -> {NoPriceYet} \cup Snapshots]
  /\ turn \in Seq(PriceCalls)
  /\ options \in PriceAnswers

Settled(c) == snapshotCache[c] # NoPriceYet => metricsCache[c] = snapshotCache[c].load

Setting(i) == turn[i].step \in {"setMetrics", "setSnapshot"}

\* No more metrics are cached, nor a snapshot after this one.
LastSet(i) ==
  /\ turn[i].step = "setSnapshot"
  /\ \A k \in DOMAIN turn : /\ turn[k].step # "setMetrics"
                            /\ k > i => turn[k].step # "setSnapshot"

OneQuestion ==
  /\ \A i, k \in DOMAIN turn : turn[i].chain = turn[k].chain
  /\ \A i \in DOMAIN turn :
       /\ turn[i].for \in {"job", "metrics"} => Len(turn) = 1
       /\ turn[i].for # "job" => turn[i].for = options.for
       /\ turn[i].for = "job" => Setting(i)
       /\ turn[i].step = "getSnapshot" => turn[i].for = "metrics"

CachesAgree ==
  /\ \A c \in PricedChains : Settled(c) \/ \E i \in DOMAIN turn : turn[i].chain = c /\ Setting(i)
  /\ \A i \in DOMAIN turn : LastSet(i) => metricsCache[turn[i].chain] = turn[i].snapshot.load

MetricsAgree ==
  \A i \in DOMAIN turn : turn[i].for = "metrics" =>
    /\ turn[i].step = "setMetrics" => snapshotCache[turn[i].chain] = NoPriceYet
    /\ turn[i].step = "getSnapshot" => metricsCache[turn[i].chain] = turn[i].snapshot.load
    /\ turn[i].step \in {"setSnapshot", "answer"} => turn[i].snapshot.load = options.load

Remaining == IF turn # <<>> /\ turn[1].for = "job" THEN 0 ELSE Len(turn)

AnswersAgree ==
  /\ options.for # "none" => Len(options.from) + Remaining = IF options.for = "options" THEN 4 ELSE 1
  /\ options.for = "metrics" => \A i \in DOMAIN options.from : options.from[i].load = options.load
  /\ options.for = "options" /\ options.warm =>
       /\ \A i, k \in DOMAIN options.from : options.from[i] = options.from[k]
       /\ \A i, k \in DOMAIN turn : turn[i].for # "job" => turn[i].snapshot = turn[k].snapshot
       /\ \A i \in DOMAIN turn, k \in DOMAIN options.from :
            turn[i].for # "job" => turn[i].snapshot = options.from[k]

PricingInv == PricingTypeOK /\ OneQuestion /\ CachesAgree /\ MetricsAgree /\ AnswersAgree

LEMMA SnapshotMade ==
  ASSUME NEW load \in 0 .. 84
  PROVE  /\ CreateGasPriceSnapshot(load) \in Snapshots
         /\ CreateGasPriceSnapshot(load).load = load
  BY DEF Snapshots, CreateGasPriceSnapshot

LEMMA SnapshotIs ==
  ASSUME NEW s \in Snapshots
  PROVE  /\ s.load \in 0 .. 84 /\ s.rate \in 300 .. 738 /\ s.confidence \in 0 .. 100
         /\ s # NoPriceYet
<1>1. PICK load \in 0 .. 84 : s = CreateGasPriceSnapshot(load)
  BY DEF Snapshots
<1>2. CalculateSurgeMultiplier(load) \in 300 .. 738
  BY DEF CalculateSurgeMultiplier
<1>3. s.load = load /\ s.rate = CalculateSurgeMultiplier(load)
      /\ s.confidence = IF load > 80 THEN 20 ELSE 100 - load
  BY <1>1 DEF CreateGasPriceSnapshot
<1>4. NoPriceYet.load = -1
  BY DEF NoPriceYet, NoLoad
<1> QED BY <1>2, <1>3, <1>4

(* What the queue is after its first call went on.                                    *)
LEMMA Requeued ==
  ASSUME NEW S, NEW s \in Seq(S), s # <<>>, NEW x \in S, NEW t, t = Append(Tail(s), x)
  PROVE  /\ t \in Seq(S) /\ Len(t) = Len(s) /\ t # <<>> /\ Len(s) \in Nat /\ Len(s) > 0
         /\ s[1] \in S /\ 1 \in DOMAIN s /\ DOMAIN t = DOMAIN s /\ DOMAIN s = 1 .. Len(s)
         /\ t[Len(s)] = x /\ \A i \in 1 .. Len(s) - 1 : t[i] = s[i + 1]
<1>1. /\ Tail(s) \in Seq(S) /\ Len(Tail(s)) = Len(s) - 1 /\ Len(s) \in Nat /\ Len(s) > 0
      /\ \A i \in 1 .. Len(s) - 1 : Tail(s)[i] = s[i + 1]
  BY SMT
<1>2. /\ t \in Seq(S) /\ Len(t) = Len(s) /\ t[Len(s)] = x
      /\ \A i \in 1 .. Len(s) - 1 : t[i] = Tail(s)[i]
  BY <1>1, AppendProperties
<1>3. t # <<>>
  BY <1>1, <1>2
<1> QED BY <1>1, <1>2, <1>3

LEMMA ChainsPriced ==
  /\ \A c \in PricedChains : FetchNetworkMetrics(c) \subseteq 0 .. 84
  /\ NetworkOrder[1] \in PricedChains
  /\ \A i \in DOMAIN NetworkOrder : NetworkOrder[i] \in PricedChains
<1>1. \A c \in PricedChains, f \in Fluctuations : Baseline[c] + f \in 0 .. 84
  BY PricingAssumption
<1>2. \A c \in PricedChains : FetchNetworkMetrics(c) \subseteq 0 .. 84
  BY <1>1 DEF FetchNetworkMetrics
<1>3. NetworkOrder \in Seq(PricedChains) /\ NetworkOrder # <<>>
  BY PricingAssumption
<1>4. Len(NetworkOrder) \in Nat /\ Len(NetworkOrder) > 0 /\ DOMAIN NetworkOrder = 1 .. Len(NetworkOrder)
  BY <1>3
<1>5. \A i \in DOMAIN NetworkOrder : NetworkOrder[i] \in PricedChains
  BY <1>3
<1>6. 1 \in DOMAIN NetworkOrder
  BY <1>4
<1> QED BY <1>2, <1>5, <1>6

LEMMA LoadsAre ==
  ASSUME PricingTypeOK, NEW c \in PricedChains
  PROVE  /\ Loads(c) \subseteq 0 .. 84
         /\ metricsCache[c] # NoLoad => Loads(c) = {metricsCache[c]}
  BY ChainsPriced DEF Loads, PricingTypeOK

(* What a look for a snapshot goes on with.                                           *)
LEMMA SnapshotCallsAre ==
  ASSUME PricingTypeOK, NEW c \in PricedChains,
         NEW for \in {"estimate", "suggestion", "options", "metrics"},
         NEW call \in SnapshotCalls(for, c)
  PROVE  /\ call \in PriceCalls /\ call.for = for /\ call.chain = c
         /\ \/ call.step = "answer" /\ call.snapshot = snapshotCache[c]
               /\ snapshotCache[c] # NoPriceYet
            \/ call.step = "setSnapshot" /\ snapshotCache[c] = NoPriceYet
               /\ metricsCache[c] # NoLoad /\ call.snapshot.load = metricsCache[c]
            \/ call.step = "setMetrics" /\ snapshotCache[c] = NoPriceYet /\ metricsCache[c] = NoLoad
<1>1. snapshotCache[c] \in {NoPriceYet} \cup Snapshots
  BY DEF PricingTypeOK
<1>2. CASE snapshotCache[c] # NoPriceYet
  <2>1. call = [for |-> for, chain |-> c, step |-> "answer", snapshot |-> snapshotCache[c]]
    BY <1>2 DEF SnapshotCalls
  <2> QED BY <1>1, <1>2, <2>1 DEF PriceCalls
<1>3. CASE snapshotCache[c] = NoPriceYet
  <2>1. PICK load \in Loads(c) :
          call = [for |-> for, chain |-> c, snapshot |-> CreateGasPriceSnapshot(load),
                  step |-> IF metricsCache[c] # NoLoad THEN "setSnapshot" ELSE "setMetrics"]
    BY <1>3 DEF SnapshotCalls
  <2>2. /\ CreateGasPriceSnapshot(load) \in Snapshots
        /\ CreateGasPriceSnapshot(load).load = load
        /\ metricsCache[c] # NoLoad => load = metricsCache[c]
    BY LoadsAre, SnapshotMade
  <2> QED BY <1>3, <2>1, <2>2 DEF PriceCalls
<1> QED BY <1>2, <1>3

(* Between turns every chain is settled. *)
LEMMA SettledBetween ==
  ASSUME CachesAgree, turn = <<>>
  PROVE  \A c \in PricedChains : Settled(c)
  BY DEF CachesAgree

LEMMA NoMetricsNoSnapshot ==
  ASSUME PricingTypeOK, NEW c \in PricedChains, Settled(c), metricsCache[c] = NoLoad
  PROVE  snapshotCache[c] = NoPriceYet
<1>1. snapshotCache[c] \in {NoPriceYet} \cup Snapshots
  BY DEF PricingTypeOK
<1> QED BY <1>1, SnapshotIs DEF Settled, NoLoad

LEMMA PricingStarts == PricingInit => PricingInv
<1> SUFFICES ASSUME PricingInit PROVE PricingInv
  OBVIOUS
<1>1. turn = <<>> /\ DOMAIN turn = {} /\ options = NoOptions
  BY DEF PricingInit
<1>2. PricingTypeOK
  <2>1. turn \in Seq(PriceCalls)
    BY <1>1
  <2>2. <<>> \in Seq(Snapshots)
    OBVIOUS
  <2>3. options \in PriceAnswers
    BY <1>1, <2>2 DEF NoOptions, PriceAnswers
  <2> QED BY <2>1, <2>3 DEF PricingTypeOK, PricingInit
<1>3. CachesAgree
  BY <1>1 DEF CachesAgree, PricingInit, Settled
<1>4. options.for = "none"
  BY <1>1 DEF NoOptions
<1> QED BY <1>1, <1>2, <1>3, <1>4 DEF PricingInv, OneQuestion, MetricsAgree, AnswersAgree

(* A question begins, while nothing is queued.                                         *)
LEMMA QuestionBegins ==
  ASSUME PricingInv, turn = <<>>, UNCHANGED <<metricsCache, snapshotCache>>,
         NEW c \in PricedChains, NEW for \in {"estimate", "suggestion", "options", "metrics"},
         turn' \in Seq(PriceCalls), Len(turn') = (IF for = "options" THEN 4 ELSE 1),
         \A i \in DOMAIN turn' :
           /\ turn'[i].chain = c /\ turn'[i].for = for
           /\ turn'[i].step = "setSnapshot" => metricsCache[c] = turn'[i].snapshot.load
           /\ for = "metrics" => turn'[i].step \in {"setMetrics", "getSnapshot"}
           /\ for # "metrics" => turn'[i].step # "getSnapshot"
           /\ turn'[i].step = "setMetrics" => snapshotCache[c] = NoPriceYet
           /\ turn'[i].step = "getSnapshot" => metricsCache[c] = turn'[i].snapshot.load,
         snapshotCache[c] # NoPriceYet /\ for = "options" =>
           \A i, k \in DOMAIN turn' : turn'[i].snapshot = turn'[k].snapshot,
         Begin(for, c)
  PROVE  PricingInv'
<1>1. /\ options'.for = for /\ options'.load = NoLoad /\ options'.from = <<>>
      /\ options'.warm = (snapshotCache[c] # NoPriceYet)
  BY DEF Begin, NoOptions
<1>2. options' \in PriceAnswers
  <2>1. options' = [for |-> for, warm |-> snapshotCache[c] # NoPriceYet, load |-> NoLoad,
                    from |-> <<>>]
    BY DEF Begin, NoOptions
  <2>2. <<>> \in Seq(Snapshots) /\ (snapshotCache[c] # NoPriceYet) \in BOOLEAN
    OBVIOUS
  <2> QED BY <2>1, <2>2 DEF PriceAnswers
<1>3. PricingTypeOK'
  BY <1>2 DEF PricingInv, PricingTypeOK
<1>4. /\ Len(turn') \in {1, 4} /\ DOMAIN turn' = 1 .. Len(turn') /\ DOMAIN turn' # {} /\ 1 \in DOMAIN turn'
      /\ DOMAIN options'.from = {} /\ Len(options'.from) = 0
  <2>1. Len(turn') \in {1, 4} /\ DOMAIN turn' = 1 .. Len(turn')
    <3>1. Len(turn') = 4 \/ Len(turn') = 1
      OBVIOUS
    <3>2. DOMAIN turn' = 1 .. Len(turn')
      <4>1. turn' \in Seq(PriceCalls)
        OBVIOUS
      <4> QED BY ONLY <4>1
    <3> QED BY <3>1, <3>2
  <2>2. 1 \in 1 .. Len(turn')
    BY <2>1
  <2>3. DOMAIN options'.from = {} /\ Len(options'.from) = 0
    BY <1>1
  <2> QED BY <2>1, <2>2, <2>3
<1>5. OneQuestion'
  BY <1>1, <1>4 DEF OneQuestion
<1>6. CachesAgree'
  <2>1. \A d \in PricedChains : Settled(d)'
    BY SettledBetween DEF PricingInv, Settled
  <2>2. \A i \in DOMAIN turn' : turn'[i].step = "setSnapshot" => metricsCache'[turn'[i].chain] = turn'[i].snapshot.load
    OBVIOUS
  <2> QED BY <2>1, <2>2 DEF CachesAgree, LastSet
<1>7. MetricsAgree'
  BY DEF MetricsAgree
<1>8. Remaining' = Len(turn')
  BY <1>4 DEF Remaining
<1>9. AnswersAgree'
  <2>1. options'.warm => snapshotCache[c] # NoPriceYet
    BY <1>1
  <2>2. \A i, k \in DOMAIN options'.from : options'.from[i] = options'.from[k]
    BY <1>4
  <2>3. options'.for = "options" /\ options'.warm =>
          \A i, k \in DOMAIN turn' : turn'[i].snapshot = turn'[k].snapshot
    BY <1>1, <2>1
  <2>4. Len(options'.from) + Remaining' = IF options'.for = "options" THEN 4 ELSE 1
    BY <1>1, <1>4, <1>8
  <2> QED BY <1>4, <2>2, <2>3, <2>4 DEF AnswersAgree
<1> QED BY <1>3, <1>5, <1>6, <1>7, <1>9 DEF PricingInv

LEMMA OneCall ==
  ASSUME NEW S, NEW x \in S, NEW t, t = <<x>>
  PROVE  t \in Seq(S) /\ Len(t) = 1 /\ DOMAIN t = {1} /\ t[1] = x
OBVIOUS

LEMMA EstimateBegins ==
  ASSUME PricingInv, EstimateGasPrice
  PROVE  PricingInv'
<1>1. PICK c \in PricedChains, for \in {"estimate", "suggestion"} :
        (\E call \in SnapshotCalls(for, c) : turn' = <<call>>) /\ Begin(for, c)
  BY DEF EstimateGasPrice
<1>2. PICK call \in SnapshotCalls(for, c) : turn' = <<call>>
  BY <1>1
<1>3. PricingTypeOK
  BY DEF PricingInv
<1>4. /\ call \in PriceCalls /\ call.for = for /\ call.chain = c /\ call.step # "getSnapshot"
      /\ call.step = "setSnapshot" => metricsCache[c] = call.snapshot.load
      /\ call.step = "setMetrics" => snapshotCache[c] = NoPriceYet
  BY <1>3, SnapshotCallsAre
<1>5. turn' \in Seq(PriceCalls) /\ Len(turn') = 1 /\ DOMAIN turn' = {1} /\ turn'[1] = call
  BY <1>2, <1>4, OneCall
<1>6. for \in {"estimate", "suggestion", "options", "metrics"} /\ for # "options" /\ for # "metrics"
  OBVIOUS
<1>7. turn = <<>> /\ UNCHANGED <<metricsCache, snapshotCache>>
  BY DEF EstimateGasPrice
<1> QED BY <1>1, <1>4, <1>5, <1>6, <1>7, QuestionBegins

LEMMA OptionsBegin ==
  ASSUME PricingInv, GetMultiplePriceOptions
  PROVE  PricingInv'
<1>1. PICK c \in PricedChains :
        turn' \in [DOMAIN Priorities -> SnapshotCalls("options", c)] /\ Begin("options", c)
  BY DEF GetMultiplePriceOptions
<1>2. DOMAIN Priorities = 1 .. 4
  BY DEF Priorities
<1>3. PricingTypeOK
  BY DEF PricingInv
<1>4. ASSUME NEW i \in 1 .. 4
      PROVE  /\ turn'[i] \in PriceCalls /\ turn'[i].for = "options" /\ turn'[i].chain = c
             /\ turn'[i].step # "getSnapshot"
             /\ turn'[i].step = "setSnapshot" => metricsCache[c] = turn'[i].snapshot.load
             /\ turn'[i].step = "setMetrics" => snapshotCache[c] = NoPriceYet
             /\ snapshotCache[c] # NoPriceYet => turn'[i].snapshot = snapshotCache[c]
  <2>1. turn'[i] \in SnapshotCalls("options", c)
    BY <1>1, <1>2
  <2>2. "options" \in {"estimate", "suggestion", "options", "metrics"}
    OBVIOUS
  <2> QED BY <1>3, <2>1, <2>2, SnapshotCallsAre
<1>5. turn' \in Seq(PriceCalls) /\ Len(turn') = 4 /\ DOMAIN turn' = 1 .. 4
  <2>1. turn' \in [1 .. 4 -> PriceCalls]
    BY <1>1, <1>2, <1>4
  <2>2. turn' \in Seq(PriceCalls)
    <3>1. PICK n \in Nat : n = 4
      OBVIOUS
    <3>2. turn' \in [1 .. n -> PriceCalls]
      BY <2>1, <3>1
    <3> QED BY <3>2, SeqDef
  <2> QED BY <2>1, <2>2
<1>6. "options" \in {"estimate", "suggestion", "options", "metrics"} /\ "options" # "metrics"
  OBVIOUS
<1>7. turn = <<>> /\ UNCHANGED <<metricsCache, snapshotCache>>
  BY DEF GetMultiplePriceOptions
<1> QED BY <1>1, <1>4, <1>5, <1>6, <1>7, QuestionBegins

LEMMA MetricsQuestionBegins ==
  ASSUME PricingInv, GetNetworkMetrics
  PROVE  PricingInv'
<1>1. PICK c \in PricedChains : \E load \in Loads(c) :
       /\ turn' = <<[for |-> "metrics", chain |-> c, snapshot |-> CreateGasPriceSnapshot(load),
                     step |-> IF metricsCache[c] # NoLoad THEN "getSnapshot" ELSE "setMetrics"]>>
       /\ Begin("metrics", c)
  BY DEF GetNetworkMetrics
<1>2. PICK load \in Loads(c) :
         turn' = <<[for |-> "metrics", chain |-> c, snapshot |-> CreateGasPriceSnapshot(load),
                    step |-> IF metricsCache[c] # NoLoad THEN "getSnapshot" ELSE "setMetrics"]>>
  BY <1>1
<1>3. PICK call : call = [for |-> "metrics", chain |-> c, snapshot |-> CreateGasPriceSnapshot(load),
                   step |-> IF metricsCache[c] # NoLoad THEN "getSnapshot" ELSE "setMetrics"]
  OBVIOUS
<1>4. PricingTypeOK /\ turn = <<>> /\ UNCHANGED <<metricsCache, snapshotCache>> /\ Settled(c)
  BY SettledBetween DEF PricingInv, GetNetworkMetrics
<1>5. /\ CreateGasPriceSnapshot(load) \in Snapshots /\ CreateGasPriceSnapshot(load).load = load
      /\ metricsCache[c] # NoLoad => load = metricsCache[c]
  BY <1>4, LoadsAre, SnapshotMade
<1>6. /\ call \in PriceCalls /\ call.for = "metrics" /\ call.chain = c
      /\ call.step \in {"setMetrics", "getSnapshot"}
      /\ call.step = "getSnapshot" => metricsCache[c] = call.snapshot.load
      /\ call.step = "setMetrics" => metricsCache[c] = NoLoad
  BY <1>3, <1>5 DEF PriceCalls
<1>7. call.step = "setMetrics" => snapshotCache[c] = NoPriceYet
  BY <1>4, <1>6, NoMetricsNoSnapshot
<1>8. turn' \in Seq(PriceCalls) /\ Len(turn') = 1 /\ DOMAIN turn' = {1} /\ turn'[1] = call
  BY <1>2, <1>3, <1>6, OneCall
<1>9. "metrics" \in {"estimate", "suggestion", "options", "metrics"} /\ "options" # "metrics"
  OBVIOUS
<1> QED BY <1>1, <1>4, <1>6, <1>7, <1>8, <1>9, QuestionBegins

LEMMA JobCallIs ==
  ASSUME NEW c \in PricedChains, NEW load \in 0 .. 84
  PROVE  /\ JobCall(c, load) \in PriceCalls /\ JobCall(c, load).chain = c
         /\ JobCall(c, load).for = "job" /\ JobCall(c, load).step = "setMetrics"
  BY SnapshotMade DEF JobCall, PriceCalls

LEMMA JobBegins ==
  ASSUME PricingInv, UpdateNetworkMetrics
  PROVE  PricingInv'
<1>1. PICK load \in FetchNetworkMetrics(NetworkOrder[1]) : turn' = <<JobCall(NetworkOrder[1], load)>>
  BY DEF UpdateNetworkMetrics
<1>2. PICK c \in PricedChains : c = NetworkOrder[1]
  BY ChainsPriced
<1>3. load \in 0 .. 84
  BY <1>1, <1>2, ChainsPriced
<1>4. PICK call \in PriceCalls : /\ call = JobCall(c, load) /\ call.for = "job" /\ call.chain = c
                                 /\ call.step = "setMetrics"
  BY <1>3, JobCallIs
<1>5. turn' \in Seq(PriceCalls) /\ Len(turn') = 1 /\ DOMAIN turn' = {1} /\ turn'[1] = call
  BY <1>1, <1>2, <1>4, OneCall
<1>6. turn = <<>> /\ UNCHANGED <<metricsCache, snapshotCache, options>> /\ Len(turn) = 0
  BY DEF UpdateNetworkMetrics
<1>7. PricingTypeOK'
  BY <1>5, <1>6 DEF PricingInv, PricingTypeOK
<1>8. OneQuestion'
  BY <1>4, <1>5 DEF OneQuestion, Setting
<1>9. CachesAgree'
  <2>1. \A d \in PricedChains : Settled(d)'
    BY <1>6, SettledBetween DEF PricingInv, Settled
  <2> QED BY <1>4, <1>5, <2>1 DEF CachesAgree, LastSet
<1>10. MetricsAgree'
  BY <1>4, <1>5 DEF MetricsAgree
<1>11. Remaining = 0 /\ Remaining' = 0
  BY <1>4, <1>5, <1>6 DEF Remaining
<1>12. AnswersAgree'
  BY <1>4, <1>5, <1>6, <1>11 DEF AnswersAgree, PricingInv
<1> QED BY <1>7, <1>8, <1>9, <1>10, <1>12 DEF PricingInv

(* The first call goes on as x, behind the others. *)
GoesOn(x) ==
  /\ turn # <<>> /\ turn' = Append(Tail(turn), x) /\ x \in PriceCalls
  /\ x.for = turn[1].for /\ (x.chain = turn[1].chain \/ Len(turn) = 1)
  /\ x.for = "job" => x.step \in {"setMetrics", "setSnapshot"}
  /\ x.step = "getSnapshot" => x.for = "metrics"

LEMMA QueueIs ==
  ASSUME PricingTypeOK, NEW x, GoesOn(x)
  PROVE  /\ turn' \in Seq(PriceCalls) /\ Len(turn') = Len(turn) /\ Len(turn) \in Nat \ {0}
         /\ DOMAIN turn = 1 .. Len(turn) /\ DOMAIN turn' = 1 .. Len(turn) /\ 1 \in DOMAIN turn
         /\ turn' # <<>> /\ turn[1] \in PriceCalls /\ turn[1].chain \in PricedChains
         /\ turn'[Len(turn)] = x /\ \A i \in 1 .. Len(turn) - 1 : turn'[i] = turn[i + 1]
         /\ \A i \in DOMAIN turn' : \/ i = Len(turn) /\ turn'[i] = x
                                    \/ i + 1 \in DOMAIN turn /\ turn'[i] = turn[i + 1]
<1>1. turn \in Seq(PriceCalls) /\ turn # <<>> /\ turn' = Append(Tail(turn), x) /\ x \in PriceCalls
  BY DEF PricingTypeOK, GoesOn
<1>2. /\ turn' \in Seq(PriceCalls) /\ Len(turn') = Len(turn) /\ Len(turn) \in Nat \ {0}
      /\ DOMAIN turn = 1 .. Len(turn) /\ DOMAIN turn' = 1 .. Len(turn) /\ 1 \in DOMAIN turn
      /\ turn' # <<>> /\ turn[1] \in PriceCalls
      /\ turn'[Len(turn)] = x /\ \A i \in 1 .. Len(turn) - 1 : turn'[i] = turn[i + 1]
  BY <1>1, Requeued
<1>3. turn[1].chain \in PricedChains
  BY <1>2 DEF PriceCalls
<1>4. \A i \in DOMAIN turn' : \/ i = Len(turn) /\ turn'[i] = x
                              \/ i + 1 \in DOMAIN turn /\ turn'[i] = turn[i + 1]
  BY <1>2
<1> QED BY <1>2, <1>3, <1>4

LEMMA QuestionGoesOn ==
  ASSUME PricingInv, NEW x, GoesOn(x), options'.for = options.for
  PROVE  OneQuestion' /\ Remaining' = Remaining
<1>1. /\ Len(turn') = Len(turn) /\ Len(turn) \in Nat \ {0} /\ 1 \in DOMAIN turn
      /\ DOMAIN turn = 1 .. Len(turn) /\ DOMAIN turn' = 1 .. Len(turn)
      /\ \A i \in DOMAIN turn' : \/ i = Len(turn) /\ turn'[i] = x
                                 \/ i + 1 \in DOMAIN turn /\ turn'[i] = turn[i + 1]
      /\ turn'[Len(turn)] = x
  BY QueueIs DEF PricingInv
<1>2. OneQuestion /\ x.for = turn[1].for /\ (x.chain = turn[1].chain \/ Len(turn) = 1)
      /\ (x.for = "job" => x.step \in {"setMetrics", "setSnapshot"})
      /\ (x.step = "getSnapshot" => x.for = "metrics")
  BY DEF PricingInv, GoesOn
<1>3. \A i, k \in DOMAIN turn' : turn'[i].chain = turn'[k].chain
  <2>1. CASE Len(turn) = 1
    BY <1>1, <2>1
  <2>2. CASE x.chain = turn[1].chain
    <3>1. \A i \in DOMAIN turn' : turn'[i].chain = turn[1].chain
      BY <1>1, <1>2, <2>2 DEF OneQuestion
    <3> QED BY <3>1
  <2> QED BY <1>2, <2>1, <2>2
<1>4. ASSUME NEW i \in DOMAIN turn'
      PROVE  /\ turn'[i].for \in {"job", "metrics"} => Len(turn') = 1
             /\ turn'[i].for # "job" => turn'[i].for = options'.for
             /\ turn'[i].for = "job" => turn'[i].step \in {"setMetrics", "setSnapshot"}
             /\ turn'[i].step = "getSnapshot" => turn'[i].for = "metrics"
  BY <1>1, <1>2 DEF OneQuestion, Setting
<1>5. OneQuestion'
  BY <1>3, <1>4 DEF OneQuestion, Setting
<1>6. turn'[1].for = "job" <=> turn[1].for = "job"
  <2>1. CASE Len(turn) = 1
    BY <1>1, <1>2, <2>1
  <2>2. CASE Len(turn) # 1
    <3>1. 1 + 1 \in DOMAIN turn /\ turn'[1] = turn[1 + 1]
      BY <1>1, <2>2
    <3> QED BY <1>1, <1>2, <2>2, <3>1 DEF OneQuestion
  <2> QED BY <2>1, <2>2
<1>7. turn # <<>> /\ turn' # <<>>
  BY QueueIs DEF GoesOn, PricingInv
<1> QED BY <1>1, <1>5, <1>6, <1>7 DEF Remaining

LEMMA AnswersGoOn ==
  ASSUME PricingInv, NEW x, GoesOn(x), options'.for = options.for, options'.from = options.from,
         options'.warm = options.warm, options' = options \/ x.for = "metrics",
         x.snapshot = turn[1].snapshot \/ x.for \in {"job", "metrics"}
  PROVE  AnswersAgree'
<1>1. /\ Len(turn') = Len(turn) /\ Len(turn) \in Nat \ {0} /\ 1 \in DOMAIN turn
      /\ DOMAIN turn = 1 .. Len(turn) /\ DOMAIN turn' = 1 .. Len(turn)
      /\ \A i \in DOMAIN turn' : \/ i = Len(turn) /\ turn'[i] = x
                                 \/ i + 1 \in DOMAIN turn /\ turn'[i] = turn[i + 1]
  BY QueueIs DEF PricingInv
<1>2. Remaining' = Remaining /\ AnswersAgree /\ OneQuestion /\ x.for = turn[1].for /\ turn # <<>>
  BY QuestionGoesOn DEF PricingInv, GoesOn
<1>3. options'.for = "metrics" =>
        \A i \in DOMAIN options'.from : options'.from[i].load = options'.load
  <2>1. CASE options' = options
    BY <1>2, <2>1 DEF AnswersAgree
  <2>2. CASE x.for = "metrics"
    <3>1. Remaining = 1 /\ options.for = "metrics"
      BY <1>1, <1>2, <2>2 DEF OneQuestion, Remaining
    <3>2. options.from \in Seq(Snapshots)
      BY DEF PricingInv, PricingTypeOK, PriceAnswers
    <3>3. Len(options.from) + 1 = 1 /\ Len(options.from) \in Nat
      BY <1>2, <3>1, <3>2 DEF AnswersAgree
    <3>4. DOMAIN options'.from = {}
      BY <3>2, <3>3
    <3> QED BY <3>4
  <2> QED BY <2>1, <2>2
<1>4. ASSUME options.for = "options", options.warm
      PROVE  /\ \A i, k \in DOMAIN turn' : turn'[i].for # "job" => turn'[i].snapshot = turn'[k].snapshot
             /\ \A i \in DOMAIN turn', k \in DOMAIN options.from :
                  turn'[i].for # "job" => turn'[i].snapshot = options.from[k]
  <2>1. CASE x.for \in {"job", "metrics"}
    <3>1. Len(turn) = 1 /\ (x.for = "metrics" => options.for = "metrics")
      BY <1>1, <1>2, <2>1 DEF OneQuestion
    <3>2. x.for = "job"
      BY <1>4, <2>1, <3>1
    <3> QED BY <1>1, <3>1, <3>2
  <2>2. CASE x.snapshot = turn[1].snapshot /\ x.for \notin {"job", "metrics"}
    <3>1. \A i \in DOMAIN turn : turn[i].for # "job"
      BY <1>1, <1>2, <2>2 DEF OneQuestion
    <3>2. \A i \in DOMAIN turn : turn[i].snapshot = turn[1].snapshot
      BY <1>1, <1>2, <1>4, <3>1 DEF AnswersAgree
    <3>3. \A i \in DOMAIN turn' : turn'[i].snapshot = turn[1].snapshot
      BY <1>1, <2>2, <3>2
    <3>4. \A k \in DOMAIN options.from : turn[1].snapshot = options.from[k]
      BY <1>1, <1>2, <1>4, <3>1 DEF AnswersAgree
    <3> QED BY <3>3, <3>4
  <2> QED BY <2>1, <2>2
<1>5. options'.for = "options" /\ options'.warm => options.for = "options" /\ options.warm
  OBVIOUS
<1>6. options.for = "options" /\ options.warm =>
        \A i, k \in DOMAIN options.from : options.from[i] = options.from[k]
  BY <1>2 DEF AnswersAgree
<1>7. options'.for # "none" =>
        Len(options'.from) + Remaining' = IF options'.for = "options" THEN 4 ELSE 1
  BY <1>2 DEF AnswersAgree
<1> QED BY <1>3, <1>4, <1>5, <1>6, <1>7 DEF AnswersAgree

LEMMA SetMetricsKeeps ==
  ASSUME PricingInv, SetMetrics
  PROVE  PricingInv'
<1>1. /\ PricingTypeOK /\ OneQuestion /\ CachesAgree /\ MetricsAgree
      /\ turn # <<>> /\ turn[1].step = "setMetrics" /\ options' = options
      /\ snapshotCache' = snapshotCache
      /\ metricsCache' = [metricsCache EXCEPT ![turn[1].chain] = turn[1].snapshot.load]
  BY DEF PricingInv, SetMetrics
<1>2. turn \in Seq(PriceCalls) /\ turn[1] \in PriceCalls
  BY <1>1 DEF PricingTypeOK
<1>3. PICK call \in PriceCalls : call = turn[1]
  BY <1>2
<1>4. PICK x : x = [call EXCEPT !.step = IF call.for = "metrics" THEN "getSnapshot" ELSE "setSnapshot"]
  OBVIOUS
<1>5. /\ x \in PriceCalls /\ x.for = call.for /\ x.chain = call.chain /\ x.snapshot = call.snapshot
      /\ x.step = IF call.for = "metrics" THEN "getSnapshot" ELSE "setSnapshot"
  BY <1>4 DEF PriceCalls
<1>6. turn' = Append(Tail(turn), x)
  BY <1>3, <1>4 DEF SetMetrics, Queue
<1>7. GoesOn(x)
  BY <1>1, <1>3, <1>5, <1>6 DEF GoesOn
<1>8. OneQuestion' /\ AnswersAgree'
  BY <1>1, <1>3, <1>5, <1>7, QuestionGoesOn, AnswersGoOn
<1>9. /\ turn' \in Seq(PriceCalls) /\ Len(turn) \in Nat \ {0} /\ 1 \in DOMAIN turn
      /\ DOMAIN turn = 1 .. Len(turn) /\ DOMAIN turn' = 1 .. Len(turn)
      /\ turn'[Len(turn)] = x
      /\ \A i \in DOMAIN turn' : \/ i = Len(turn) /\ turn'[i] = x
                                 \/ i + 1 \in DOMAIN turn /\ turn'[i] = turn[i + 1]
  BY <1>1, <1>7, QueueIs
<1>10. call.chain \in PricedChains /\ call.snapshot \in Snapshots /\ call.snapshot.load \in 0 .. 84
  BY SnapshotIs DEF PriceCalls
<1>11. PricingTypeOK'
  BY <1>1, <1>3, <1>9, <1>10 DEF PricingTypeOK
<1>12. metricsCache'[call.chain] = call.snapshot.load
       /\ \A c \in PricedChains : c # call.chain => metricsCache'[c] = metricsCache[c]
  BY <1>1, <1>3, <1>10 DEF PricingTypeOK
<1>13. ASSUME call.for = "metrics"
       PROVE  /\ Len(turn) = 1 /\ snapshotCache[call.chain] = NoPriceYet
              /\ turn'[1] = x /\ DOMAIN turn' = {1}
  BY <1>1, <1>3, <1>9, <1>13 DEF OneQuestion, MetricsAgree
<1>14. \A i \in DOMAIN turn : turn[i].chain = call.chain
  BY <1>1, <1>3, <1>9 DEF OneQuestion
<1>15. ASSUME NEW c \in PricedChains
       PROVE  \/ snapshotCache'[c] # NoPriceYet => metricsCache'[c] = snapshotCache'[c].load
              \/ \E i \in DOMAIN turn' : turn'[i].chain = c /\ turn'[i].step \in {"setMetrics", "setSnapshot"}
  <2>1. CASE c = call.chain /\ call.for = "metrics"
    BY <1>1, <1>13, <2>1
  <2>2. CASE c = call.chain /\ call.for # "metrics"
    <3>1. Len(turn) \in DOMAIN turn'
      BY <1>9
    <3> QED BY <1>5, <1>9, <2>2, <3>1
  <2>3. CASE c # call.chain
    <3>1. Settled(c)
      BY <1>1, <1>14, <2>3 DEF CachesAgree
    <3> QED BY <1>1, <1>12, <2>3, <3>1 DEF Settled
  <2> QED BY <2>1, <2>2, <2>3
<1>16. ASSUME NEW i \in DOMAIN turn', LastSet(i)'
       PROVE  metricsCache'[turn'[i].chain] = turn'[i].snapshot.load
  <2>1. call.for # "metrics"
    <3>1. turn'[i].step = "setSnapshot"
      BY <1>16 DEF LastSet
    <3> QED BY <1>5, <1>13, <1>16, <3>1
  <2>2. i = Len(turn)
    <3>1. CASE i # Len(turn)
      <4>1. Len(turn) > i /\ Len(turn) \in DOMAIN turn' /\ turn'[Len(turn)].step = "setSnapshot"
        BY <1>5, <1>9, <2>1, <3>1
      <4> QED BY <1>16, <4>1 DEF LastSet
    <3> QED BY <3>1
  <2> QED BY <1>5, <1>9, <1>12, <2>2
<1>17. CachesAgree'
  BY <1>15, <1>16 DEF CachesAgree, Settled, Setting
<1>18. MetricsAgree'
  <2> SUFFICES ASSUME NEW i \in DOMAIN turn', turn'[i].for = "metrics"
               PROVE  /\ turn'[i].step = "getSnapshot"
                      /\ metricsCache'[turn'[i].chain] = turn'[i].snapshot.load
    BY DEF MetricsAgree
  <2>1. call.for = "metrics"
    <3>1. CASE turn'[i] = x
      BY <1>5, <3>1
    <3>2. CASE i + 1 \in DOMAIN turn /\ turn'[i] = turn[i + 1]
      <4>1. Len(turn) = 1
        BY <1>1, <3>2 DEF OneQuestion
      <4> QED BY <1>9, <3>2, <4>1
    <3> QED BY <1>9, <3>1, <3>2
  <2>2. turn'[i] = x
    BY <1>13, <2>1
  <2> QED BY <1>5, <1>12, <2>1, <2>2
<1> QED BY <1>8, <1>11, <1>17, <1>18 DEF PricingInv

LEMMA GetSnapshotKeeps ==
  ASSUME PricingInv, GetSnapshot
  PROVE  PricingInv'
<1>1. /\ PricingTypeOK /\ OneQuestion /\ CachesAgree /\ MetricsAgree
      /\ turn # <<>> /\ turn[1].step = "getSnapshot"
      /\ options' = [options EXCEPT !.load = turn[1].snapshot.load]
      /\ snapshotCache' = snapshotCache /\ metricsCache' = metricsCache
  BY DEF PricingInv, GetSnapshot
<1>2. turn \in Seq(PriceCalls) /\ turn[1] \in PriceCalls /\ 1 \in DOMAIN turn /\ options \in PriceAnswers
  BY <1>1 DEF PricingTypeOK
<1>3. PICK call \in PriceCalls : call = turn[1]
  BY <1>2
<1>4. call.for = "metrics" /\ Len(turn) = 1 /\ DOMAIN turn = {1} /\ options.for = "metrics"
  BY <1>1, <1>2, <1>3 DEF OneQuestion
<1>5. call.chain \in PricedChains /\ call.snapshot \in Snapshots /\ call.snapshot.load \in 0 .. 84
  BY SnapshotIs DEF PriceCalls
<1>6. PICK x \in SnapshotCalls("metrics", call.chain) : turn' = Append(Tail(turn), x)
  BY <1>3 DEF GetSnapshot, Queue
<1>7. /\ x \in PriceCalls /\ x.for = "metrics" /\ x.chain = call.chain
      /\ \/ x.step = "answer" /\ x.snapshot = snapshotCache[call.chain]
            /\ snapshotCache[call.chain] # NoPriceYet
         \/ x.step = "setSnapshot" /\ snapshotCache[call.chain] = NoPriceYet
            /\ metricsCache[call.chain] # NoLoad /\ x.snapshot.load = metricsCache[call.chain]
         \/ x.step = "setMetrics" /\ snapshotCache[call.chain] = NoPriceYet
            /\ metricsCache[call.chain] = NoLoad
  <2>1. "metrics" \in {"estimate", "suggestion", "options", "metrics"}
    OBVIOUS
  <2> QED BY <1>1, <1>5, <2>1, SnapshotCallsAre
<1>8. GoesOn(x)
  BY <1>1, <1>3, <1>4, <1>6, <1>7 DEF GoesOn
<1>9. /\ options'.for = options.for /\ options'.from = options.from /\ options'.warm = options.warm
      /\ options'.load = call.snapshot.load /\ options' \in PriceAnswers
  <2>1. PICK load \in 0 .. 84 : load = call.snapshot.load
    BY <1>5
  <2>2. options' = [options EXCEPT !.load = load]
    BY <1>1, <1>3, <2>1
  <2>3. /\ options'.for = options.for /\ options'.from = options.from
        /\ options'.warm = options.warm /\ options'.load = load
    BY <1>2, <2>2 DEF PriceAnswers
  <2>4. options' \in PriceAnswers
    BY <1>2, <2>2 DEF PriceAnswers
  <2> QED BY <2>1, <2>3, <2>4
<1>10. OneQuestion' /\ AnswersAgree'
  BY <1>7, <1>8, <1>9, QuestionGoesOn, AnswersGoOn
<1>11. turn' \in Seq(PriceCalls) /\ DOMAIN turn' = {1} /\ turn'[1] = x
  BY <1>1, <1>4, <1>8, QueueIs
<1>12. PricingTypeOK'
  BY <1>1, <1>9, <1>11 DEF PricingTypeOK
<1>13. metricsCache[call.chain] = call.snapshot.load
  BY <1>1, <1>2, <1>3, <1>4 DEF MetricsAgree
<1>14. \A c \in PricedChains : Settled(c)
  BY <1>1, <1>3, <1>4 DEF CachesAgree, Setting
<1>15. CachesAgree'
  BY <1>1, <1>7, <1>11, <1>14 DEF CachesAgree, Settled, LastSet
<1>16. x.step \in {"setSnapshot", "answer"} => x.snapshot.load = call.snapshot.load
  BY <1>5, <1>7, <1>13, <1>14 DEF Settled
<1>17. MetricsAgree'
  BY <1>1, <1>7, <1>9, <1>11, <1>16 DEF MetricsAgree
<1> QED BY <1>10, <1>12, <1>15, <1>17 DEF PricingInv

(* Once a snapshot is cached, its chain is settled unless another one waits to be.      *)
LEMMA SnapshotSettles ==
  ASSUME PricingInv, turn # <<>>, turn[1].step = "setSnapshot",
         snapshotCache' = [snapshotCache EXCEPT ![turn[1].chain] = turn[1].snapshot],
         metricsCache' = metricsCache
  PROVE  /\ snapshotCache' \in [PricedChains -> {NoPriceYet} \cup Snapshots]
         /\ \A c \in PricedChains :
              \/ snapshotCache'[c] # NoPriceYet => metricsCache'[c] = snapshotCache'[c].load
              \/ \E i \in DOMAIN turn : i # 1 /\ turn[i].chain = c /\ Setting(i)
<1>1. PricingTypeOK /\ OneQuestion /\ CachesAgree
  BY DEF PricingInv
<1>2. turn \in Seq(PriceCalls) /\ turn[1] \in PriceCalls /\ 1 \in DOMAIN turn
  BY <1>1 DEF PricingTypeOK
<1>3. PICK call \in PriceCalls : call = turn[1]
  BY <1>2
<1>4. call.chain \in PricedChains /\ call.snapshot \in Snapshots
  BY DEF PriceCalls
<1>5. /\ snapshotCache' \in [PricedChains -> {NoPriceYet} \cup Snapshots]
      /\ snapshotCache'[call.chain] = call.snapshot
      /\ \A c \in PricedChains : c # call.chain => snapshotCache'[c] = snapshotCache[c]
  BY <1>1, <1>3, <1>4 DEF PricingTypeOK
<1>6. \A i \in DOMAIN turn : turn[i].chain = call.chain
  BY <1>1, <1>2, <1>3 DEF OneQuestion
<1>7. ASSUME NEW c \in PricedChains, c # call.chain 
      PROVE  snapshotCache'[c] # NoPriceYet => metricsCache'[c] = snapshotCache'[c].load
  <2>1. Settled(c)
    BY <1>1, <1>6, <1>7 DEF CachesAgree
  <2> QED BY <1>5, <1>7, <2>1 DEF Settled
<1>8. CASE \E i \in DOMAIN turn : i # 1 /\ Setting(i)
  BY <1>5, <1>6, <1>7, <1>8
<1>9. CASE \A i \in DOMAIN turn : i # 1 => ~Setting(i)
  <2>1. LastSet(1)
    <3>1. \A k \in DOMAIN turn : k > 1 => k # 1
      BY <1>2 DEF PricingTypeOK
    <3> QED BY <1>2, <1>9, <3>1 DEF LastSet, Setting
  <2>2. metricsCache[call.chain] = call.snapshot.load
    BY <1>1, <1>2, <1>3, <2>1 DEF CachesAgree
  <2>3. metricsCache'[call.chain] = snapshotCache'[call.chain].load
    BY <1>5, <2>2
  <2> QED BY <1>5, <1>7, <2>3
<1> QED BY <1>5, <1>8, <1>9

LEMMA SetSnapshotKeeps ==
  ASSUME PricingInv, SetSnapshot, turn[1].for # "job"
  PROVE  PricingInv'
<1>1. /\ PricingTypeOK /\ OneQuestion /\ CachesAgree /\ MetricsAgree
      /\ turn # <<>> /\ turn[1].step = "setSnapshot" /\ options' = options
      /\ snapshotCache' = [snapshotCache EXCEPT ![turn[1].chain] = turn[1].snapshot]
      /\ metricsCache' = metricsCache
  BY DEF PricingInv, SetSnapshot
<1>2. turn \in Seq(PriceCalls) /\ turn[1] \in PriceCalls
  BY <1>1 DEF PricingTypeOK
<1>3. PICK call \in PriceCalls : call = turn[1]
  BY <1>2
<1>4. PICK x : x = [call EXCEPT !.step = "answer"]
  OBVIOUS
<1>5. /\ x \in PriceCalls /\ x.for = call.for /\ x.chain = call.chain /\ x.snapshot = call.snapshot
      /\ x.step = "answer"
  BY <1>4 DEF PriceCalls
<1>6. turn' = Append(Tail(turn), x)
  BY <1>3, <1>4 DEF SetSnapshot, Queue
<1>7. GoesOn(x)
  BY <1>1, <1>3, <1>5, <1>6 DEF GoesOn
<1>8. OneQuestion' /\ AnswersAgree'
  BY <1>1, <1>3, <1>5, <1>7, QuestionGoesOn, AnswersGoOn
<1>9. /\ turn' \in Seq(PriceCalls) /\ Len(turn) \in Nat \ {0} /\ 1 \in DOMAIN turn
      /\ DOMAIN turn = 1 .. Len(turn) /\ DOMAIN turn' = 1 .. Len(turn)
      /\ turn'[Len(turn)] = x /\ (\A i \in 1 .. Len(turn) - 1 : turn'[i] = turn[i + 1])
      /\ \A i \in DOMAIN turn' : \/ i = Len(turn) /\ turn'[i] = x
                                 \/ i + 1 \in DOMAIN turn /\ turn'[i] = turn[i + 1]
  BY <1>1, <1>7, QueueIs
<1>10. \A i \in DOMAIN turn : i # 1 => i - 1 \in DOMAIN turn' /\ turn'[i - 1] = turn[i]
  BY <1>9
<1>11. PricingTypeOK'
  BY <1>1, <1>9, SnapshotSettles DEF PricingTypeOK
<1>12. ASSUME NEW c \in PricedChains
       PROVE  \/ snapshotCache'[c] # NoPriceYet => metricsCache'[c] = snapshotCache'[c].load
              \/ \E i \in DOMAIN turn' : turn'[i].chain = c /\ turn'[i].step \in {"setMetrics", "setSnapshot"}
  <2>1. CASE snapshotCache'[c] # NoPriceYet => metricsCache'[c] = snapshotCache'[c].load
    BY <2>1
  <2>2. CASE \E i \in DOMAIN turn : i # 1 /\ turn[i].chain = c /\ Setting(i)
    BY <1>10, <2>2 DEF Setting
  <2> QED BY <1>1, <2>1, <2>2, SnapshotSettles
<1>13. ASSUME NEW i \in DOMAIN turn', LastSet(i)'
       PROVE  metricsCache'[turn'[i].chain] = turn'[i].snapshot.load
  <2>1. /\ turn'[i].step = "setSnapshot"
        /\ \A k \in DOMAIN turn' : /\ turn'[k].step # "setMetrics"
                                   /\ k > i => turn'[k].step # "setSnapshot"
    BY <1>13 DEF LastSet
  <2>2. i + 1 \in DOMAIN turn /\ turn'[i] = turn[i + 1]
    BY <1>5, <1>9, <2>1
  <2>3. LastSet(i + 1)
    <3> SUFFICES ASSUME NEW k \in DOMAIN turn
                 PROVE  /\ turn[k].step # "setMetrics"
                        /\ k > i + 1 => turn[k].step # "setSnapshot"
      BY <2>1, <2>2 DEF LastSet
    <3>1. CASE k = 1
      BY <1>1, <1>9, <3>1
    <3>2. CASE k # 1
      <4>1. k - 1 \in DOMAIN turn' /\ turn'[k - 1] = turn[k] /\ k \in Int /\ i \in Int
        BY <1>9, <1>10, <3>2
      <4>2. k > i + 1 => k - 1 > i
        BY <4>1
      <4> QED BY <2>1, <4>1, <4>2
    <3> QED BY <3>1, <3>2
  <2> QED BY <1>1, <2>2, <2>3 DEF CachesAgree
<1>14. CachesAgree'
  BY <1>12, <1>13 DEF CachesAgree, Setting, Settled
<1>15. MetricsAgree'
  <2> SUFFICES ASSUME NEW i \in DOMAIN turn', turn'[i].for = "metrics"
               PROVE  /\ turn'[i].step = "answer" /\ turn'[i].snapshot.load = options'.load
    BY DEF MetricsAgree
  <2>1. Len(turn) = 1
    BY <1>1, <1>3, <1>5, <1>9 DEF OneQuestion
  <2>2. turn'[i] = x /\ call.for = "metrics"
    BY <1>5, <1>9, <2>1
  <2>3. call.snapshot.load = options.load
    BY <1>1, <1>3, <1>9, <2>2 DEF MetricsAgree
  <2> QED BY <1>1, <1>5, <2>2, <2>3
<1> QED BY <1>8, <1>11, <1>14, <1>15 DEF PricingInv

(* The job ends, or goes on to the next chain.                                          *)
LEMMA JobKeeps ==
  ASSUME PricingInv, SetSnapshot, turn[1].for = "job"
  PROVE  PricingInv'
<1>1. /\ PricingTypeOK /\ OneQuestion /\ CachesAgree /\ AnswersAgree
      /\ turn # <<>> /\ turn[1].step = "setSnapshot" /\ options' = options
      /\ snapshotCache' = [snapshotCache EXCEPT ![turn[1].chain] = turn[1].snapshot]
      /\ metricsCache' = metricsCache
  BY DEF PricingInv, SetSnapshot
<1>2. turn \in Seq(PriceCalls) /\ 1 \in DOMAIN turn /\ Len(turn) = 1 /\ DOMAIN turn = {1}
  BY <1>1 DEF PricingTypeOK, OneQuestion
<1>3. snapshotCache' \in [PricedChains -> {NoPriceYet} \cup Snapshots]
      /\ \A c \in PricedChains :
           snapshotCache'[c] # NoPriceYet => metricsCache'[c] = snapshotCache'[c].load
  BY <1>1, <1>2, SnapshotSettles
<1>4. Remaining = 0
  BY <1>1 DEF Remaining
<1>5. CASE turn' = <<>>
  <2>1. DOMAIN turn' = {} /\ Len(turn') = 0 /\ turn' \in Seq(PriceCalls)
    BY <1>5
  <2>2. PricingTypeOK'
    BY <1>1, <1>3, <2>1 DEF PricingTypeOK
  <2>3. Remaining' = 0
    BY <1>5, <2>1 DEF Remaining
  <2>4. AnswersAgree'
    BY <1>1, <1>4, <2>1, <2>3 DEF AnswersAgree
  <2>5. CachesAgree'
    BY <1>3, <2>1 DEF CachesAgree, Settled
  <2> QED BY <2>1, <2>2, <2>4, <2>5 DEF PricingInv, OneQuestion, MetricsAgree
<1>6. CASE turn' # <<>>
  <2>1. PICK i \in DOMAIN NetworkOrder : \E load \in FetchNetworkMetrics(NetworkOrder[i]) :
               turn' = Append(Tail(turn), JobCall(NetworkOrder[i], load))
    BY <1>6 DEF SetSnapshot, Queue
  <2>2. PICK c \in PricedChains : c = NetworkOrder[i]
    BY ChainsPriced
  <2>3. PICK load \in 0 .. 84 : turn' = Append(Tail(turn), JobCall(c, load))
    BY <2>1, <2>2, ChainsPriced
  <2>4. PICK x \in PriceCalls : /\ x = JobCall(c, load) /\ x.for = "job" /\ x.chain = c
                                /\ x.step = "setMetrics"
    BY JobCallIs
  <2>5. GoesOn(x)
    BY <1>1, <1>2, <2>3, <2>4 DEF GoesOn
  <2>6. OneQuestion' /\ AnswersAgree'
    BY <1>1, <2>4, <2>5, QuestionGoesOn, AnswersGoOn
  <2>7. turn' \in Seq(PriceCalls) /\ DOMAIN turn' = {1} /\ turn'[1] = x
    BY <1>1, <1>2, <2>5, QueueIs
  <2>8. PricingTypeOK'
    BY <1>1, <1>3, <2>7 DEF PricingTypeOK
  <2>9. CachesAgree' /\ MetricsAgree'
    BY <1>3, <2>4, <2>7 DEF CachesAgree, MetricsAgree, LastSet, Settled
  <2> QED BY <2>6, <2>8, <2>9 DEF PricingInv
<1> QED BY <1>5, <1>6

LEMMA AnswerKeeps ==
  ASSUME PricingInv, Answer
  PROVE  PricingInv'
<1>1. /\ PricingTypeOK /\ OneQuestion /\ CachesAgree /\ MetricsAgree /\ AnswersAgree
      /\ turn # <<>> /\ turn[1].step = "answer" /\ turn' = Tail(turn)
      /\ options' = [options EXCEPT !.from = Append(options.from, turn[1].snapshot)]
      /\ snapshotCache' = snapshotCache /\ metricsCache' = metricsCache
  BY DEF PricingInv, Answer
<1>2. turn \in Seq(PriceCalls) /\ turn[1] \in PriceCalls /\ options \in PriceAnswers
  BY <1>1 DEF PricingTypeOK
<1>3. PICK call \in PriceCalls : call = turn[1]
  BY <1>2
<1>4. /\ turn' \in Seq(PriceCalls) /\ Len(turn) \in Nat \ {0} /\ 1 \in DOMAIN turn
      /\ DOMAIN turn = 1 .. Len(turn) /\ DOMAIN turn' = 1 .. Len(turn) - 1
      /\ Len(turn') = Len(turn) - 1
      /\ \A i \in 1 .. Len(turn) - 1 : turn'[i] = turn[i + 1]
  BY <1>1, <1>2, SMT
<1>5. /\ \A i \in DOMAIN turn' : i + 1 \in DOMAIN turn /\ turn'[i] = turn[i + 1]
      /\ \A i \in DOMAIN turn : i # 1 => i - 1 \in DOMAIN turn' /\ turn'[i - 1] = turn[i]
  BY <1>4
<1>6. /\ \A i \in DOMAIN turn : turn[i].for # "job" /\ turn[i].for = options.for
      /\ call.for # "job" /\ call.for = options.for
  <2>1. call.for # "job"
    BY <1>1, <1>3, <1>4 DEF OneQuestion, Setting
  <2>2. ASSUME NEW i \in DOMAIN turn PROVE turn[i].for # "job"
    <3>1. turn[i].for = "job" => i = 1
      BY <1>1, <1>4 DEF OneQuestion
    <3> QED BY <1>3, <2>1, <3>1
  <2> QED BY <1>1, <1>3, <1>4, <2>2 DEF OneQuestion
<1>7. call.snapshot \in Snapshots /\ call.for \in {"estimate", "suggestion", "options", "metrics", "job"}
  BY DEF PriceCalls
<1>8. PICK answered \in Seq(Snapshots), n \in Nat :
        /\ answered = Append(options.from, call.snapshot) /\ n = Len(options.from)
        /\ options.from \in Seq(Snapshots) /\ DOMAIN options.from = 1 .. n
        /\ Len(answered) = n + 1 /\ DOMAIN answered = 1 .. n + 1 /\ answered[n + 1] = call.snapshot
        /\ \A i \in 1 .. n : answered[i] = options.from[i]
  <2>1. options.from \in Seq(Snapshots)
    BY <1>2 DEF PriceAnswers
  <2>2. Len(options.from) \in Nat /\ DOMAIN options.from = 1 .. Len(options.from)
    BY <2>1
  <2>3. /\ Append(options.from, call.snapshot) \in Seq(Snapshots)
        /\ Len(Append(options.from, call.snapshot)) = Len(options.from) + 1
        /\ Append(options.from, call.snapshot)[Len(options.from) + 1] = call.snapshot
        /\ \A i \in 1 .. Len(options.from) :
             Append(options.from, call.snapshot)[i] = options.from[i]
    BY <1>7, <2>1, AppendProperties
  <2>4. DOMAIN Append(options.from, call.snapshot) = 1 .. Len(options.from) + 1
    BY <2>3
  <2> QED BY <2>1, <2>2, <2>3, <2>4
<1>9. /\ options'.for = options.for /\ options'.warm = options.warm /\ options'.load = options.load
      /\ options'.from = answered /\ options' \in PriceAnswers
  <2>1. options' = [options EXCEPT !.from = answered]
    BY <1>1, <1>3, <1>8
  <2>2. /\ options'.for = options.for /\ options'.warm = options.warm
        /\ options'.load = options.load /\ options'.from = answered
    BY <1>2, <2>1 DEF PriceAnswers
  <2>3. options' \in PriceAnswers
    BY <1>2, <2>1 DEF PriceAnswers
  <2> QED BY <2>2, <2>3
<1>10. PricingTypeOK'
  BY <1>1, <1>4, <1>9 DEF PricingTypeOK
<1>11. OneQuestion'
  <2>1. \A i \in DOMAIN turn' : turn'[i].for = "metrics" => Len(turn) = 1
    BY <1>1, <1>5 DEF OneQuestion
  <2>2. Len(turn) # 1
        \/ DOMAIN turn' = {}
    BY <1>4
  <2> QED BY <1>1, <1>5, <1>6, <1>9, <2>1, <2>2 DEF OneQuestion
<1>12. CachesAgree'
  <2>1. ASSUME NEW c \in PricedChains
        PROVE  Settled(c) \/ \E i \in DOMAIN turn' : turn'[i].chain = c /\ turn'[i].step \in {"setMetrics", "setSnapshot"}
    <3>1. CASE \E i \in DOMAIN turn : turn[i].chain = c /\ Setting(i)
      <4>1. PICK i \in DOMAIN turn : turn[i].chain = c /\ Setting(i)
        BY <3>1
      <4>2. i # 1
        BY <1>1, <4>1 DEF Setting
      <4> QED BY <1>5, <4>1, <4>2 DEF Setting
    <3> QED BY <1>1, <3>1 DEF CachesAgree
  <2>2. ASSUME NEW i \in DOMAIN turn', LastSet(i)'
        PROVE  metricsCache'[turn'[i].chain] = turn'[i].snapshot.load
    <3>1. /\ turn'[i].step = "setSnapshot"
          /\ \A k \in DOMAIN turn' : /\ turn'[k].step # "setMetrics"
                                     /\ k > i => turn'[k].step # "setSnapshot"
      BY <2>2 DEF LastSet
    <3>2. i + 1 \in DOMAIN turn /\ turn'[i] = turn[i + 1]
      BY <1>5
    <3>3. LastSet(i + 1)
      <4> SUFFICES ASSUME NEW k \in DOMAIN turn
                   PROVE  /\ turn[k].step # "setMetrics"
                          /\ k > i + 1 => turn[k].step # "setSnapshot"
        BY <3>1, <3>2 DEF LastSet
      <4>1. CASE k = 1
        BY <1>1, <4>1
      <4>2. CASE k # 1
        <5>1. k - 1 \in DOMAIN turn' /\ turn'[k - 1] = turn[k] /\ k \in Int /\ i \in Int
          BY <1>4, <1>5, <4>2
        <5>2. k > i + 1 => k - 1 > i
          BY <5>1
        <5> QED BY <3>1, <5>1, <5>2
      <4> QED BY <4>1, <4>2
    <3> QED BY <1>1, <3>2, <3>3 DEF CachesAgree
  <2> QED BY <1>1, <2>1, <2>2 DEF CachesAgree, Setting, Settled
<1>13. MetricsAgree'
  <2>1. \A i \in DOMAIN turn' : turn'[i].for # "metrics"
    <3>1. \A i \in DOMAIN turn' : turn'[i].for = "metrics" => Len(turn) = 1
      BY <1>1, <1>5 DEF OneQuestion
    <3> QED BY <1>4, <3>1
  <2> QED BY <2>1 DEF MetricsAgree
<1>14. Remaining = Len(turn) /\ Remaining' = Len(turn) - 1
  <2>1. Remaining = Len(turn)
    BY <1>4, <1>6 DEF Remaining
  <2>2. turn' # <<>> => 1 \in DOMAIN turn'
    BY <1>4
  <2>3. turn' # <<>> => turn'[1].for # "job"
    BY <1>5, <1>6, <2>2
  <2> QED BY <1>4, <2>1, <2>3 DEF Remaining
<1>15. options'.for = "metrics" =>
         \A i \in DOMAIN options'.from : options'.from[i].load = options'.load
  <2> SUFFICES ASSUME options.for = "metrics", NEW i \in 1 .. n + 1
               PROVE  answered[i].load = options.load
    BY <1>8, <1>9
  <2>1. call.snapshot.load = options.load
    BY <1>1, <1>3, <1>4, <1>6 DEF MetricsAgree
  <2>2. CASE i = n + 1
    BY <1>8, <2>1, <2>2
  <2>3. CASE i # n + 1
    <3>1. i \in 1 .. n
      BY <2>3
    <3> QED BY <1>1, <1>8, <3>1 DEF AnswersAgree
  <2> QED BY <2>2, <2>3
<1>16. ASSUME options.for = "options", options.warm
       PROVE  /\ \A i \in 1 .. n + 1 : answered[i] = call.snapshot
              /\ \A i \in DOMAIN turn' : turn'[i].snapshot = call.snapshot
  <2>1. \A i \in DOMAIN turn : turn[i].snapshot = call.snapshot
    BY <1>1, <1>3, <1>4, <1>6, <1>16 DEF AnswersAgree
  <2>2. \A i \in 1 .. n : answered[i] = call.snapshot
    <3> SUFFICES ASSUME NEW i \in 1 .. n PROVE answered[i] = call.snapshot
      OBVIOUS
    <3>1. i \in DOMAIN options.from /\ 1 \in DOMAIN turn /\ turn[1].for # "job"
      BY <1>3, <1>4, <1>6, <1>8
    <3>2. turn[1].snapshot = options.from[i]
      BY <1>1, <1>16, <3>1 DEF AnswersAgree
    <3> QED BY <1>3, <1>8, <3>2
  <2>3. \A i \in 1 .. n + 1 : i \in 1 .. n \/ i = n + 1
    OBVIOUS
  <2> QED BY <1>5, <1>8, <2>1, <2>2, <2>3
<1>17. options'.for = "options" /\ options'.warm => options.for = "options" /\ options.warm
  BY <1>9
<1>18. options'.for # "none" =>
         Len(options'.from) + Remaining' = IF options'.for = "options" THEN 4 ELSE 1
  BY <1>1, <1>4, <1>8, <1>9, <1>14 DEF AnswersAgree
<1>19. options'.for = "options" /\ options'.warm =>
         /\ \A i, k \in DOMAIN options'.from : options'.from[i] = options'.from[k]
         /\ \A i, k \in DOMAIN turn' : turn'[i].snapshot = turn'[k].snapshot
         /\ \A i \in DOMAIN turn', k \in DOMAIN options'.from : turn'[i].snapshot = options'.from[k]
  BY <1>8, <1>9, <1>16, <1>17
<1>20. AnswersAgree'
  BY <1>15, <1>18, <1>19 DEF AnswersAgree
<1> QED BY <1>10, <1>11, <1>12, <1>13, <1>20 DEF PricingInv

LEMMA PricingKept == PricingInv /\ [PricingNext]_pricingVars => PricingInv'
<1> SUFFICES ASSUME PricingInv, [PricingNext]_pricingVars PROVE PricingInv'
  OBVIOUS
<1>1. CASE UNCHANGED pricingVars
  <2>1. UNCHANGED <<metricsCache, snapshotCache, turn, options>>
    BY <1>1 DEF pricingVars
  <2>2. PricingTypeOK' /\ OneQuestion'
    BY <2>1 DEF PricingInv, PricingTypeOK, OneQuestion, Setting
  <2>3. CachesAgree' /\ MetricsAgree'
    BY <2>1 DEF PricingInv, CachesAgree, MetricsAgree, Setting, Settled, LastSet
  <2>4. AnswersAgree'
    BY <2>1 DEF PricingInv, AnswersAgree, Remaining
  <2> QED BY <2>2, <2>3, <2>4 DEF PricingInv
<1>2. CASE SetSnapshot
  BY <1>2, SetSnapshotKeeps, JobKeeps
<1>3. CASE EstimateGasPrice \/ GetMultiplePriceOptions \/ GetNetworkMetrics
  BY <1>3, EstimateBegins, OptionsBegin, MetricsQuestionBegins
<1>4. CASE UpdateNetworkMetrics \/ SetMetrics \/ GetSnapshot \/ Answer
  BY <1>4, JobBegins, SetMetricsKeeps, GetSnapshotKeeps, AnswerKeeps
<1> QED BY <1>1, <1>2, <1>3, <1>4 DEF PricingNext

LEMMA PriorityIs ==
  /\ DOMAIN Priorities = 1 .. 4
  /\ PriorityMultiplier[Priorities[1]] = 8 /\ PriorityMultiplier[Priorities[2]] = 10
  /\ PriorityMultiplier[Priorities[3]] = 15 /\ PriorityMultiplier[Priorities[4]] = 25
  /\ PriorityMultiplier["normal"] = 10
<1>1. /\ DOMAIN Priorities = 1 .. 4 /\ Priorities[1] = "low" /\ Priorities[2] = "normal"
      /\ Priorities[3] = "high" /\ Priorities[4] = "critical"
  BY DEF Priorities
<1>2. {"low", "normal", "high", "critical"} \subseteq ToSet(Priorities)
  BY <1>1 DEF ToSet
<1> QED BY <1>1, <1>2 DEF PriorityMultiplier

(* What is answered from one snapshot is consistent.                                    *)
LEMMA PricesOf ==
  ASSUME NEW s \in Snapshots
  PROVE  /\ \A i, k \in DOMAIN Priorities : i < k =>
              DynamicGasPrice(s, Priorities[i]) < DynamicGasPrice(s, Priorities[k])
         /\ AlternativePrices(s).low < AlternativePrices(s).medium
         /\ AlternativePrices(s).medium < AlternativePrices(s).high
         /\ PriceValidityWindow(s) > 0
         /\ SuggestedPrice(s).price >= 500 * DynamicGasPrice(s, "normal")
<1>1. PICK rate \in 300 .. 738, load \in 0 .. 84, confidence \in 0 .. 100 :
        rate = s.rate /\ load = s.load /\ confidence = s.confidence
  <2>1. s.rate \in 300 .. 738 /\ s.load \in 0 .. 84 /\ s.confidence \in 0 .. 100
    BY SnapshotIs
  <2> QED BY ONLY <2>1
<1>2. \A i, k \in 1 .. 4 : i < k =>
        115 * rate * PriorityMultiplier[Priorities[i]] < 115 * rate * PriorityMultiplier[Priorities[k]]
  <2>1. /\ 115 * rate * 8 < 115 * rate * 10 /\ 115 * rate * 10 < 115 * rate * 15
        /\ 115 * rate * 15 < 115 * rate * 25
    OBVIOUS
  <2>2. \A i, k \in 1 .. 4 : i < k => \/ i = 1 /\ k \in {2, 3, 4}
                                      \/ i = 2 /\ k \in {3, 4}
                                      \/ i = 3 /\ k = 4
    OBVIOUS
  <2> QED BY <2>1, <2>2, PriorityIs
<1>3. PriceValidityWindow(s) > 0
  BY <1>1 DEF PriceValidityWindow
<1>4. AlternativePrices(s).low < AlternativePrices(s).medium
      /\ AlternativePrices(s).medium < AlternativePrices(s).high
  <2>1. /\ AlternativePrices(s).low = (115 * 300 * 85) \div 10
        /\ AlternativePrices(s).medium = 115 * rate * 10
        /\ AlternativePrices(s).high = 115 * rate * 13
    BY <1>1 DEF AlternativePrices
  <2>2. (115 * 300 * 85) \div 10 = 293250
    OBVIOUS
  <2> QED BY <2>1, <2>2
<1>5. SuggestedPrice(s).price >= 500 * DynamicGasPrice(s, "normal")
  <2>1. PICK c \in Nat \ {0}, q \in Nat : c = 115 * rate * 10 /\ q = 600 - confidence /\ 500 <= q
    <3>1. 115 * rate * 10 \in Nat \ {0} /\ 600 - confidence \in Nat /\ 500 <= 600 - confidence
      OBVIOUS
    <3> QED BY <3>1
  <2>2. c * 500 <= c * q
    <3>1. 500 \in Int /\ q \in Int
      OBVIOUS
    <3> QED BY <2>1, <3>1, Multiplied
  <2>3. SuggestedPrice(s).price = c * q
    BY <1>1, <2>1 DEF SuggestedPrice
  <2>4. DynamicGasPrice(s, "normal") = c
    BY <1>1, <2>1, PriorityIs DEF DynamicGasPrice
  <2>5. c * 500 = 500 * c /\ c * q \in Int
    OBVIOUS
  <2> QED BY <2>2, <2>3, <2>4, <2>5
<1>6. \A i, k \in DOMAIN Priorities : i < k =>
        DynamicGasPrice(s, Priorities[i]) < DynamicGasPrice(s, Priorities[k])
  BY <1>1, <1>2, PriorityIs DEF DynamicGasPrice
<1> QED BY <1>3, <1>4, <1>5, <1>6

(* Whatever the loads that two options were taken from, critical costs more than low and *)
(* normal.                                                                              *)
LEMMA CriticalCostsMore ==
  ASSUME NEW s \in Snapshots, NEW t \in Snapshots, NEW i \in {1, 2}
  PROVE  DynamicGasPrice(s, Priorities[i]) < DynamicGasPrice(t, Priorities[4])
<1>1. PICK low \in 300 .. 738 : low = s.rate
  BY SnapshotIs
<1>2. PICK high \in 300 .. 738 : high = t.rate
  BY SnapshotIs
<1>3. 115 * low * 8 < 115 * high * 25 /\ 115 * low * 10 < 115 * high * 25
  OBVIOUS
<1>4. /\ DynamicGasPrice(s, Priorities[1]) = 115 * low * 8
      /\ DynamicGasPrice(s, Priorities[2]) = 115 * low * 10
      /\ DynamicGasPrice(t, Priorities[4]) = 115 * high * 25
  BY <1>1, <1>2, PriorityIs DEF DynamicGasPrice
<1> QED BY <1>3, <1>4

LEMMA PricesAgreeThen == PricingInv => PricesAgree
<1> SUFFICES ASSUME PricingInv PROVE PricesAgree
  OBVIOUS
<1>1. turn = <<>> => \A c \in PricedChains :
        snapshotCache[c] # NoPriceYet => metricsCache[c] = snapshotCache[c].load
  BY SettledBetween DEF PricingInv, Settled
<1>2. options.from \in Seq(Snapshots)
  BY DEF PricingInv, PricingTypeOK, PriceAnswers
<1>3. ASSUME turn = <<>>, options.for # "none"
      PROVE  /\ DOMAIN options.from = IF options.for = "options" THEN 1 .. 4 ELSE {1}
             /\ options.from[1] \in Snapshots
  <2>1. Remaining = 0
    BY <1>3 DEF Remaining
  <2>2. Len(options.from) \in Nat /\ DOMAIN options.from = 1 .. Len(options.from)
    BY <1>2
  <2>3. Len(options.from) = IF options.for = "options" THEN 4 ELSE 1
    BY <1>3, <2>1, <2>2 DEF PricingInv, AnswersAgree
  <2>4. 1 .. 1 = {1} /\ 1 \in 1 .. 4
    OBVIOUS
  <2>5. DOMAIN options.from = IF options.for = "options" THEN 1 .. 4 ELSE {1}
    BY <2>2, <2>3, <2>4
  <2>6. 1 \in DOMAIN options.from
    BY <2>4, <2>5
  <2> QED BY <1>2, <2>5, <2>6
<1>4. Answered("metrics") => options.load = options.from[1].load
  BY <1>3 DEF Answered, PricingInv, AnswersAgree
<1>5. ASSUME Answered("options"), NEW i \in DOMAIN Priorities, NEW k \in DOMAIN Priorities, i < k,
             options.warm \/ (Priorities[i] \in {"low", "normal"} /\ Priorities[k] = "critical")
      PROVE  DynamicGasPrice(options.from[i], Priorities[i])
               < DynamicGasPrice(options.from[k], Priorities[k])
  <2>1. DOMAIN Priorities = 1 .. 4 /\ DOMAIN options.from = 1 .. 4 /\ AnswersAgree
    BY <1>3, <1>5, PriorityIs DEF Answered, PricingInv
  <2>2. PICK s \in Snapshots, t \in Snapshots : options.from[i] = s /\ options.from[k] = t
    <3>1. i \in DOMAIN options.from /\ k \in DOMAIN options.from
      BY <2>1
    <3>2. options.from[i] \in Snapshots /\ options.from[k] \in Snapshots
      BY <1>2, <3>1
    <3> QED BY ONLY <3>2
  <2>3. CASE options.warm
    <3>1. s = t
      BY <1>5, <2>1, <2>2, <2>3 DEF Answered, AnswersAgree
    <3> QED BY <1>5, <2>2, <3>1, PricesOf
  <2>4. CASE Priorities[i] \in {"low", "normal"} /\ Priorities[k] = "critical"
    <3>1. i \in {1, 2} /\ k = 4
      BY <1>5, <2>1, <2>4 DEF Priorities
    <3> QED BY <2>2, <3>1, CriticalCostsMore
  <2> QED BY <1>5, <2>3, <2>4
<1>6. Answered("estimate") \/ Answered("suggestion") => options.from[1] \in Snapshots
  BY <1>3 DEF Answered
<1> QED BY <1>1, <1>4, <1>5, <1>6, PricesOf DEF PricesAgree

---------------------------------------------------------------------------------
(* PerformanceMonitoring: TrafficAddsUp. *)

\* The counters and histograms of the responses F, given the key and the time of each.
Figures(F, key, time, C, H) ==
  /\ IsFiniteSet(F) /\ \A f \in F : time[f] \in Nat
  /\ DOMAIN C = DOMAIN H /\ DOMAIN C = {key[f] : f \in F}
  /\ \A k \in DOMAIN C :
       /\ C[k] = Cardinality(Keyed(F, key, k))
       /\ H[k] = [count |-> C[k], sum |-> SumFunctionOnSet(time, Keyed(F, key, k)),
                  min |-> H[k].min, max |-> H[k].max]
       /\ \E f \in Keyed(F, key, k) : H[k].min = time[f]
       /\ \E f \in Keyed(F, key, k) : H[k].max = time[f]
       /\ \A f \in Keyed(F, key, k) : H[k].min <= time[f] /\ time[f] <= H[k].max

LEMMA KeyedIs ==
  ASSUME NEW F, IsFiniteSet(F), NEW key, NEW k
  PROVE  /\ IsFiniteSet(Keyed(F, key, k)) /\ Cardinality(Keyed(F, key, k)) \in Nat
         /\ Keyed(F, key, k) \subseteq F /\ \A f \in F : f \in Keyed(F, key, k) <=> key[f] = k
<1>1. Keyed(F, key, k) \subseteq F /\ \A f \in F : f \in Keyed(F, key, k) <=> key[f] = k
  BY DEF Keyed
<1> QED BY <1>1, FS_Subset, FS_CardinalityType

LEMMA NoFigures ==
  ASSUME NEW key, NEW time, NEW C, DOMAIN C = {}, NEW H, DOMAIN H = {}
  PROVE  Figures({}, key, time, C, H)
  BY FS_EmptySet DEF Figures

(* The figures tell nothing of the responses but their keys and times.                  *)
LEMMA FiguresStay ==
  ASSUME NEW F, NEW key, NEW time, NEW C, NEW H, Figures(F, key, time, C, H),
         NEW key2, NEW time2, \A f \in F : key2[f] = key[f] /\ time2[f] = time[f]
  PROVE  Figures(F, key2, time2, C, H)
<1>1. IsFiniteSet(F)
  BY DEF Figures
<1>2. ASSUME NEW k
      PROVE  /\ Keyed(F, key2, k) = Keyed(F, key, k)
             /\ SumFunctionOnSet(time2, Keyed(F, key, k)) = SumFunctionOnSet(time, Keyed(F, key, k))
  <2>1. Keyed(F, key2, k) = Keyed(F, key, k)
    BY DEF Keyed
  <2>2. IsFiniteSet(Keyed(F, key, k)) /\ \A f \in Keyed(F, key, k) : time2[f] = time[f]
    BY <1>1, KeyedIs
  <2> QED BY <2>1, <2>2, SumOnSetAgrees
<1>3. {key2[f] : f \in F} = {key[f] : f \in F}
  OBVIOUS
<1>4. \A f \in F : time2[f] \in Nat
  BY DEF Figures
<1>5. \A k : Keyed(F, key, k) \subseteq F
  BY DEF Keyed
<1>6. ASSUME NEW k \in DOMAIN C
      PROVE  /\ C[k] = Cardinality(Keyed(F, key2, k))
             /\ H[k] = [count |-> C[k], sum |-> SumFunctionOnSet(time2, Keyed(F, key2, k)),
                        min |-> H[k].min, max |-> H[k].max]
             /\ \E f \in Keyed(F, key2, k) : H[k].min = time2[f]
             /\ \E f \in Keyed(F, key2, k) : H[k].max = time2[f]
             /\ \A f \in Keyed(F, key2, k) : H[k].min <= time2[f] /\ time2[f] <= H[k].max
  BY <1>2, <1>5 DEF Figures
<1> QED BY <1>1, <1>3, <1>4, <1>6 DEF Figures

(* A response that is written down is another one with the same key and time.           *)
LEMMA FiguresMove ==
  ASSUME NEW F, NEW key, NEW time, NEW C, NEW H, Figures(F, key, time, C, H),
         NEW x \in F, NEW y, y \notin F,
         NEW G, G = (F \ {x}) \cup {y},
         NEW key2, NEW time2, key2[y] = key[x], time2[y] = time[x],
         \A f \in F \ {x} : key2[f] = key[f] /\ time2[f] = time[f]
  PROVE  Figures(G, key2, time2, C, H)
<1>1. IsFiniteSet(F) /\ IsFiniteSet(F \ {x}) /\ IsFiniteSet(G)
  BY FS_RemoveElement, FS_AddElement DEF Figures
<1>2. \A f \in F : time[f] \in Nat
  BY DEF Figures
<1>3. \A f \in G : time2[f] \in Nat
  BY <1>2
<1>4. {key2[f] : f \in G} = {key[f] : f \in F}
  <2>1. ASSUME NEW f \in G PROVE \E g \in F : key[g] = key2[f]
    BY <2>1
  <2>2. ASSUME NEW g \in F PROVE \E f \in G : key[g] = key2[f]
    BY <2>2
  <2> QED BY <2>1, <2>2
<1>5. ASSUME NEW k, k # key[x]
      PROVE  /\ Keyed(G, key2, k) = Keyed(F, key, k)
             /\ SumFunctionOnSet(time2, Keyed(F, key, k)) = SumFunctionOnSet(time, Keyed(F, key, k))
             /\ \A f \in Keyed(F, key, k) : time2[f] = time[f]
  <2>1. Keyed(G, key2, k) = Keyed(F, key, k)
    BY <1>5 DEF Keyed
  <2>2. IsFiniteSet(Keyed(F, key, k)) /\ \A f \in Keyed(F, key, k) : time2[f] = time[f]
    <3>1. x \notin Keyed(F, key, k)
      BY <1>5 DEF Keyed
    <3> QED BY <1>1, <3>1, KeyedIs
  <2> QED BY <2>1, <2>2, SumOnSetAgrees
<1>6. PICK k : k = key[x]
  OBVIOUS
<1>7. PICK U : U = Keyed(F, key, k) \ {x}
  OBVIOUS
<1>8. /\ x \in Keyed(F, key, k) /\ Keyed(F, key, k) = U \cup {x} /\ x \notin U /\ y \notin U
      /\ Keyed(G, key2, k) = U \cup {y} /\ U \subseteq F \ {x}
  BY <1>6, <1>7 DEF Keyed
<1>9. IsFiniteSet(U)
  BY <1>1, <1>8, FS_Subset
<1>10. Cardinality(Keyed(G, key2, k)) = Cardinality(Keyed(F, key, k))
  <2>1. Cardinality(U \cup {x}) = Cardinality(U) + 1 /\ Cardinality(U \cup {y}) = Cardinality(U) + 1
    BY <1>8, <1>9, FS_AddElement
  <2> QED BY <1>8, <2>1
<1>11. SumFunctionOnSet(time2, Keyed(G, key2, k)) = SumFunctionOnSet(time, Keyed(F, key, k))
  <2>1. SumFunctionOnSet(time, U \cup {x}) = SumFunctionOnSet(time, U) + time[x]
    <3>1. \A i \in U \cup {x} : time[i] \in Int
      BY <1>2, <1>8
    <3> QED BY <1>8, <1>9, <3>1, SumAddsOne
  <2>2. SumFunctionOnSet(time2, U \cup {y}) = SumFunctionOnSet(time2, U) + time2[y]
    <3>1. \A i \in U \cup {y} : time2[i] \in Int
      BY <1>2, <1>8
    <3>2. y \notin U
      BY <1>8
    <3> QED BY ONLY <1>9, <3>1, <3>2, SumAddsOne
  <2>3. SumFunctionOnSet(time2, U) = SumFunctionOnSet(time, U)
    <3>1. \A i \in U : time2[i] = time[i]
      BY <1>8
    <3> QED BY <1>9, <3>1, SumOnSetAgrees
  <2> QED BY <1>8, <2>1, <2>2, <2>3
<1>12. ASSUME NEW n
       PROVE  /\ (\E f \in Keyed(F, key, k) : n = time[f]) => \E f \in Keyed(G, key2, k) : n = time2[f]
              /\ (\A f \in Keyed(F, key, k) : n <= time[f]) => \A f \in Keyed(G, key2, k) : n <= time2[f]
              /\ (\A f \in Keyed(F, key, k) : time[f] <= n) => \A f \in Keyed(G, key2, k) : time2[f] <= n
  <2>1. \A f \in U : time2[f] = time[f]
    BY <1>8
  <2> QED BY <1>8, <2>1
<1>13. ASSUME NEW j \in DOMAIN C
       PROVE  /\ C[j] = Cardinality(Keyed(G, key2, j))
              /\ H[j] = [count |-> C[j], sum |-> SumFunctionOnSet(time2, Keyed(G, key2, j)),
                         min |-> H[j].min, max |-> H[j].max]
              /\ \E f \in Keyed(G, key2, j) : H[j].min = time2[f]
              /\ \E f \in Keyed(G, key2, j) : H[j].max = time2[f]
              /\ \A f \in Keyed(G, key2, j) : H[j].min <= time2[f] /\ time2[f] <= H[j].max
  <2>1. /\ C[j] = Cardinality(Keyed(F, key, j))
        /\ H[j] = [count |-> C[j], sum |-> SumFunctionOnSet(time, Keyed(F, key, j)),
                   min |-> H[j].min, max |-> H[j].max]
        /\ \E f \in Keyed(F, key, j) : H[j].min = time[f]
        /\ \E f \in Keyed(F, key, j) : H[j].max = time[f]
        /\ \A f \in Keyed(F, key, j) : H[j].min <= time[f] /\ time[f] <= H[j].max
    BY DEF Figures
  <2>2. CASE j = k
    <3>1. /\ C[j] = Cardinality(Keyed(G, key2, j))
          /\ H[j] = [count |-> C[j], sum |-> SumFunctionOnSet(time2, Keyed(G, key2, j)),
                     min |-> H[j].min, max |-> H[j].max]
      BY <1>10, <1>11, <2>1, <2>2
    <3>2. \A f \in Keyed(G, key2, j) : H[j].min <= time2[f] /\ time2[f] <= H[j].max
      BY <1>12, <2>1, <2>2
    <3>3. /\ \E f \in Keyed(G, key2, j) : H[j].min = time2[f]
          /\ \E f \in Keyed(G, key2, j) : H[j].max = time2[f]
      BY <1>12, <2>1, <2>2, ZenonT(30)
    <3> QED BY <3>1, <3>2, <3>3
  <2>3. CASE j # k
    BY <1>5, <1>6, <2>1, <2>3
  <2> QED BY <2>2, <2>3
<1>14. DOMAIN C = DOMAIN H /\ DOMAIN C = {key2[f] : f \in G}
  BY <1>4 DEF Figures
<1> QED BY <1>1, <1>3, <1>13, <1>14 DEF Figures

(* One more response of some key.                                                       *)
LEMMA FiguresGrow ==
  ASSUME NEW F, NEW key, NEW time, NEW C, NEW H, Figures(F, key, time, C, H),
         NEW y, y \notin F, NEW G, G = F \cup {y},
         NEW key2, NEW time2, \A f \in F : key2[f] = key[f] /\ time2[f] = time[f],
         NEW k, key2[y] = k, NEW t \in Nat, time2[y] = t,
         NEW C2, C2 = SetMetric(C, k, ValueAt(C, k, 0) + 1),
         NEW current, current = ValueAt(H, k, [count |-> 0, sum |-> 0, min |-> t, max |-> t]),
         NEW H2, H2 = SetMetric(H, k, [count |-> current.count + 1, sum |-> current.sum + t,
                                       min |-> Smaller(current.min, t), max |-> Larger(current.max, t)])
  PROVE  Figures(G, key2, time2, C2, H2)
<1>1. IsFiniteSet(F) /\ IsFiniteSet(G)
  BY FS_AddElement DEF Figures
<1>2. \A f \in F : time[f] \in Nat
  BY DEF Figures
<1>3. \A f \in G : time2[f] \in Nat
  BY <1>2
<1>4. DOMAIN C = DOMAIN H /\ DOMAIN C = {key[f] : f \in F}
  BY DEF Figures
<1>5. /\ DOMAIN C2 = DOMAIN C \cup {k} /\ DOMAIN H2 = DOMAIN C \cup {k}
      /\ C2[k] = ValueAt(C, k, 0) + 1
      /\ H2[k] = [count |-> current.count + 1, sum |-> current.sum + t,
                  min |-> Smaller(current.min, t), max |-> Larger(current.max, t)]
      /\ \A j \in DOMAIN C : j # k => C2[j] = C[j] /\ H2[j] = H[j]
  BY <1>4 DEF SetMetric
<1>6. DOMAIN C2 = DOMAIN H2 /\ DOMAIN C2 = {key2[f] : f \in G}
  <2>1. {key2[f] : f \in G} = {key[f] : f \in F} \cup {k}
    <3>1. ASSUME NEW f \in G PROVE key2[f] \in {key[g] : g \in F} \cup {k}
      BY <3>1
    <3>2. ASSUME NEW g \in F PROVE \E f \in G : key[g] = key2[f]
      BY <3>2
    <3>3. \E f \in G : key2[f] = k
      OBVIOUS
    <3> QED BY <3>1, <3>2, <3>3
  <2> QED BY <1>4, <1>5, <2>1
<1>7. PICK U : U = Keyed(F, key, k)
  OBVIOUS
<1>8. /\ Keyed(G, key2, k) = U \cup {y} /\ U \subseteq F /\ y \notin U /\ IsFiniteSet(U)
      /\ Cardinality(U) \in Nat
  <2>1. Keyed(G, key2, k) = U \cup {y}
    BY <1>7 DEF Keyed
  <2> QED BY <1>1, <1>7, <2>1, KeyedIs
<1>9. PICK n \in Nat : n = Cardinality(U)
  BY <1>8
<1>10. Cardinality(U \cup {y}) = n + 1
  BY <1>8, <1>9, FS_AddElement
<1>11. PICK total \in Int : total = SumFunctionOnSet(time, U)
  <2>1. \A i \in U : time[i] \in Int
    BY <1>2, <1>8
  <2>2. SumFunctionOnSet(time, U) \in Int
    BY <1>8, <2>1, SumOnSet
  <2> QED BY <2>2
<1>12. SumFunctionOnSet(time2, U \cup {y}) = total + t
  <2>1. \A i \in U \cup {y} : time2[i] \in Int
    BY <1>3, <1>8
  <2>2. y \notin U
    BY <1>8
  <2>3. SumFunctionOnSet(time2, U \cup {y}) = SumFunctionOnSet(time2, U) + time2[y]
    BY ONLY <1>8, <2>1, <2>2, SumAddsOne
  <2>4. SumFunctionOnSet(time2, U) = SumFunctionOnSet(time, U)
    <3>1. \A i \in U : time2[i] = time[i]
      BY <1>8
    <3> QED BY <1>8, <3>1, SumOnSetAgrees
  <2> QED BY <1>11, <2>3, <2>4
<1>13. ASSUME k \in DOMAIN C
       PROVE  /\ C[k] = n /\ current.count = n /\ current.sum = total
              /\ current.min \in Nat /\ current.max \in Nat
              /\ \E f \in U : current.min = time[f]
              /\ \E f \in U : current.max = time[f]
              /\ \A f \in U : current.min <= time[f] /\ time[f] <= current.max
  <2>1. current = H[k]
    BY <1>4, <1>13 DEF ValueAt
  <2>2. /\ C[k] = Cardinality(U)
        /\ H[k] = [count |-> C[k], sum |-> SumFunctionOnSet(time, U),
                   min |-> H[k].min, max |-> H[k].max]
        /\ \E f \in U : H[k].min = time[f]
        /\ \E f \in U : H[k].max = time[f]
        /\ \A f \in U : H[k].min <= time[f] /\ time[f] <= H[k].max
    BY <1>7, <1>13 DEF Figures
  <2>3. H[k].count = C[k] /\ H[k].sum = SumFunctionOnSet(time, U)
    BY <2>2
  <2>4. H[k].min \in Nat /\ H[k].max \in Nat
    BY <1>2, <1>8, <2>2
  <2> QED BY <1>9, <1>11, <2>1, <2>2, <2>3, <2>4
<1>14. ASSUME k \notin DOMAIN C
       PROVE  /\ U = {} /\ n = 0 /\ total = 0
              /\ current = [count |-> 0, sum |-> 0, min |-> t, max |-> t]
  <2>1. U = {}
    BY <1>4, <1>7, <1>14 DEF Keyed
  <2>2. n = 0
    BY <1>9, <2>1, FS_EmptySet
  <2>3. total = 0
    <3>1. \A i \in U : time[i] \in Int
      BY <2>1
    <3> QED BY <1>8, <1>11, <2>1, <3>1, SumOnSet
  <2> QED BY <1>4, <1>14, <2>1, <2>2, <2>3 DEF ValueAt
<1>15. PICK low \in Nat, high \in Nat :
         /\ low = Smaller(current.min, t) /\ high = Larger(current.max, t)
         /\ \E f \in U \cup {y} : low = time2[f]
         /\ \E f \in U \cup {y} : high = time2[f]
         /\ \A f \in U \cup {y} : low <= time2[f] /\ time2[f] <= high
  <2>1. \A f \in U : time2[f] = time[f] /\ time[f] \in Nat
    BY <1>2, <1>8
  <2>2. CASE k \in DOMAIN C
    <3>1. PICK a \in Nat, b \in Nat :
            /\ a = current.min /\ b = current.max
            /\ \E f \in U : a = time[f]
            /\ \E f \in U : b = time[f]
            /\ \A f \in U : a <= time[f] /\ time[f] <= b
      BY <1>13, <2>2
    <3>2. Smaller(a, t) \in {a, t} /\ Smaller(a, t) <= a /\ Smaller(a, t) <= t
      BY DEF Smaller
    <3>3. Larger(b, t) \in {b, t} /\ Larger(b, t) >= b /\ Larger(b, t) >= t
      BY DEF Larger
    <3>4. PICK low \in Nat, high \in Nat : low = Smaller(a, t) /\ high = Larger(b, t)
      BY <3>2, <3>3
    <3>5. \A f \in U \cup {y} : low <= time2[f] /\ time2[f] <= high
      <4> SUFFICES ASSUME NEW f \in U \cup {y} PROVE low <= time2[f] /\ time2[f] <= high
        OBVIOUS
      <4>1. CASE f = y
        BY <3>2, <3>3, <3>4, <4>1
      <4>2. CASE f \in U
        BY <2>1, <3>1, <3>2, <3>3, <3>4, <4>2
      <4> QED BY <4>1, <4>2
    <3>6. /\ \E f \in U \cup {y} : low = time2[f]
          /\ \E f \in U \cup {y} : high = time2[f]
      BY <2>1, <3>1, <3>2, <3>3, <3>4
    <3> QED BY <3>1, <3>4, <3>5, <3>6
  <2>3. CASE k \notin DOMAIN C
    <3>1. Smaller(t, t) = t /\ Larger(t, t) = t
      BY DEF Smaller, Larger
    <3>2. current.min = t /\ current.max = t /\ U = {}
      BY <1>14, <2>3
    <3> QED BY <3>1, <3>2
  <2> QED BY <2>2, <2>3
<1>16. C2[k] = n + 1 /\ current.count = n /\ current.sum = total
  <2>1. CASE k \in DOMAIN C
    BY <1>5, <1>13, <2>1 DEF ValueAt
  <2>2. CASE k \notin DOMAIN C
    <3>1. ValueAt(C, k, 0) = 0
      BY <2>2 DEF ValueAt
    <3>2. current.count = 0 /\ current.sum = 0
      BY <1>14, <2>2
    <3> QED BY <1>5, <1>14, <2>2, <3>1, <3>2
  <2> QED BY <2>1, <2>2
<1>17. H2[k] = [count |-> n + 1, sum |-> total + t, min |-> low, max |-> high]
  BY <1>5, <1>15, <1>16
<1>18. ASSUME NEW j \in DOMAIN C2
       PROVE  /\ C2[j] = Cardinality(Keyed(G, key2, j))
              /\ H2[j] = [count |-> C2[j], sum |-> SumFunctionOnSet(time2, Keyed(G, key2, j)),
                          min |-> H2[j].min, max |-> H2[j].max]
              /\ \E f \in Keyed(G, key2, j) : H2[j].min = time2[f]
              /\ \E f \in Keyed(G, key2, j) : H2[j].max = time2[f]
              /\ \A f \in Keyed(G, key2, j) : H2[j].min <= time2[f] /\ time2[f] <= H2[j].max
  <2>1. CASE j = k
    <3>1. H2[k].min = low /\ H2[k].max = high
      BY <1>17
    <3>2. Keyed(G, key2, j) = U \cup {y}
      BY <1>8, <2>1
    <3>3. /\ C2[j] = n + 1 /\ C2[j] = Cardinality(Keyed(G, key2, j))
          /\ SumFunctionOnSet(time2, Keyed(G, key2, j)) = total + t
      BY <1>10, <1>12, <1>16, <2>1, <3>2
    <3>4. H2[j].min = low /\ H2[j].max = high
          /\ H2[j] = [count |-> n + 1, sum |-> total + t, min |-> low, max |-> high]
      BY <1>17, <2>1, <3>1
    <3>5. H2[j] = [count |-> C2[j], sum |-> SumFunctionOnSet(time2, Keyed(G, key2, j)),
                   min |-> H2[j].min, max |-> H2[j].max]
      BY ONLY <3>3, <3>4, Zenon
    <3>6. /\ \E f \in Keyed(G, key2, j) : H2[j].min = time2[f]
          /\ \E f \in Keyed(G, key2, j) : H2[j].max = time2[f]
          /\ \A f \in Keyed(G, key2, j) : H2[j].min <= time2[f] /\ time2[f] <= H2[j].max
      <4>1. PICK f \in U \cup {y} : low = time2[f]
        BY <1>15
      <4>2. PICK g \in U \cup {y} : high = time2[g]
        BY <1>15
      <4>3. \A h \in U \cup {y} : low <= time2[h] /\ time2[h] <= high
        BY <1>15
      <4>4. H2[j].min = low /\ H2[j].max = high
        BY <3>4
      <4> QED BY ONLY <3>2, <4>1, <4>2, <4>3, <4>4
    <3> QED BY ONLY <3>3, <3>5, <3>6
  <2>2. CASE j # k
    <3>1. j \in DOMAIN C /\ C2[j] = C[j] /\ H2[j] = H[j]
      BY <1>5, <2>2
    <3>2. /\ C[j] = Cardinality(Keyed(F, key, j))
          /\ H[j] = [count |-> C[j], sum |-> SumFunctionOnSet(time, Keyed(F, key, j)),
                     min |-> H[j].min, max |-> H[j].max]
          /\ \E f \in Keyed(F, key, j) : H[j].min = time[f]
          /\ \E f \in Keyed(F, key, j) : H[j].max = time[f]
          /\ \A f \in Keyed(F, key, j) : H[j].min <= time[f] /\ time[f] <= H[j].max
      BY <3>1 DEF Figures
    <3>3. Keyed(G, key2, j) = Keyed(F, key, j)
      BY <2>2 DEF Keyed
    <3>4. \A f \in Keyed(F, key, j) : time2[f] = time[f]
      BY DEF Keyed
    <3>5. SumFunctionOnSet(time2, Keyed(F, key, j)) = SumFunctionOnSet(time, Keyed(F, key, j))
      BY <1>1, <3>4, KeyedIs, SumOnSetAgrees
    <3>6. /\ C2[j] = Cardinality(Keyed(G, key2, j))
          /\ H2[j] = [count |-> C2[j], sum |-> SumFunctionOnSet(time2, Keyed(G, key2, j)),
                      min |-> H2[j].min, max |-> H2[j].max]
      <4>1. C2[j] = C[j] /\ H2[j].min = H[j].min /\ H2[j].max = H[j].max /\ H2[j] = H[j]
        BY <3>1
      <4>2. SumFunctionOnSet(time2, Keyed(G, key2, j)) = SumFunctionOnSet(time, Keyed(F, key, j))
        BY <3>3, <3>5
      <4>3. C2[j] = Cardinality(Keyed(G, key2, j))
        BY <3>2, <3>3, <4>1
      <4>4. H[j] = [count |-> C[j], sum |-> SumFunctionOnSet(time, Keyed(F, key, j)),
                    min |-> H[j].min, max |-> H[j].max]
        BY <3>2
      <4> QED BY ONLY <4>1, <4>2, <4>3, <4>4, Zenon
    <3>7. /\ \E f \in Keyed(G, key2, j) : H2[j].min = time2[f]
          /\ \E f \in Keyed(G, key2, j) : H2[j].max = time2[f]
          /\ \A f \in Keyed(G, key2, j) : H2[j].min <= time2[f] /\ time2[f] <= H2[j].max
      BY <3>1, <3>2, <3>3, <3>4
    <3> QED BY <3>6, <3>7
  <2> QED BY <2>1, <2>2
<1> QED BY <1>1, <1>3, <1>6, <1>18 DEF Figures

OwnRows ==
  [endpoint : {CategorizeEndpoint(r.path) : r \in HttpRequests}, method : {r.method : r \in HttpRequests},
   statusCode : StatusCodes \cup {201, 500}, responseTime : ResponseTimes, own : {TRUE}]

ClientRows ==
  [endpoint : {r.metric.endpoint : r \in HttpRequests}, method : {r.metric.method : r \in HttpRequests},
   statusCode : {r.metric.statusCode : r \in HttpRequests},
   responseTime : {r.metric.responseTime : r \in HttpRequests}, own : {FALSE}]

HttpStates ==
  {IdleHttp} \cup [step : {"handling"}, request : HttpRequests]
    \cup [step : {"responding"}, request : HttpRequests, statusCode : StatusCodes \cup {201, 500}]
    \cup [step : {"logging"}, row : OwnRows]

Methods == {r.method : r \in HttpRequests}

MonitoringTypeOK ==
  /\ http \in [HttpCalls -> HttpStates]
  /\ apiMetrics \in Seq(OwnRows \cup ClientRows) /\ unsaved \in Seq(OwnRows)
  /\ cut \in Seq(Methods) /\ bootRows \in 0 .. Len(apiMetrics)
  /\ DOMAIN gauges \subseteq Methods

CutOf(method) == {i \in DOMAIN cut : cut[i] = method}

GaugesTrue ==
  \A method \in Methods :
    ValueAt(gauges, method, 0) = Cardinality(OpenRequests(method)) + Cardinality(CutOf(method))

FiguresTrue == Figures(FinishedResponses, LabelsOf, TimeOf, counters, histograms)

MonitoringInv == MonitoringTypeOK /\ GaugesTrue /\ FiguresTrue

SavedOf == {i \in bootRows + 1 .. Len(apiMetrics) : apiMetrics[i].own}
LoggingOf == {c \in HttpCalls : http[c].step = "logging"}

LEMMA StateIs ==
  ASSUME MonitoringTypeOK, NEW c \in HttpCalls
  PROVE  /\ http[c].step \in {"handling", "responding"} => http[c].request \in HttpRequests
         /\ http[c].step = "responding" => http[c].statusCode \in StatusCodes \cup {201, 500}
         /\ http[c].step = "logging" => http[c].row \in OwnRows
<1>1. http[c] \in HttpStates
  BY DEF MonitoringTypeOK
<1> QED BY <1>1 DEF HttpStates, IdleHttp

LEMMA ResponseIs ==
  /\ \A f : f \in FinishedResponses <=> \/ \E i \in SavedOf : f = <<"row", i>>
                                        \/ \E i \in DOMAIN unsaved : f = <<"error", i>>
                                        \/ \E c \in LoggingOf : f = <<"save", c>>
  /\ \A i : /\ RowOf(<<"row", i>>) = apiMetrics[i] /\ RowOf(<<"error", i>>) = unsaved[i]
            /\ RowOf(<<"save", i>>) = http[i].row
<1>1. \A i : /\ RowOf(<<"row", i>>) = apiMetrics[i] /\ RowOf(<<"error", i>>) = unsaved[i]
             /\ RowOf(<<"save", i>>) = http[i].row
  BY DEF RowOf
<1>2. FinishedResponses = ({"row"} \X SavedOf) \cup ({"error"} \X DOMAIN unsaved)
                             \cup ({"save"} \X LoggingOf)
  BY DEF FinishedResponses, SavedOf, LoggingOf
<1> HIDE DEF SavedOf, LoggingOf
<1>3. ASSUME NEW f
      PROVE  f \in FinishedResponses <=> \/ \E i \in SavedOf : f = <<"row", i>>
                                         \/ \E i \in DOMAIN unsaved : f = <<"error", i>>
                                         \/ \E c \in LoggingOf : f = <<"save", c>>
  BY <1>2
<1> QED BY <1>1, <1>3

LEMMA ResponseNextIs ==
  /\ \A f : f \in FinishedResponses' <=> \/ \E i \in SavedOf' : f = <<"row", i>>
                                         \/ \E i \in DOMAIN unsaved' : f = <<"error", i>>
                                         \/ \E c \in LoggingOf' : f = <<"save", c>>
  /\ \A i : /\ RowOf(<<"row", i>>)' = apiMetrics'[i] /\ RowOf(<<"error", i>>)' = unsaved'[i]
            /\ RowOf(<<"save", i>>)' = http'[i].row
<1>1. \A i : /\ RowOf(<<"row", i>>)' = apiMetrics'[i] /\ RowOf(<<"error", i>>)' = unsaved'[i]
             /\ RowOf(<<"save", i>>)' = http'[i].row
  BY DEF RowOf
<1>2. FinishedResponses' = ({"row"} \X SavedOf') \cup ({"error"} \X DOMAIN unsaved')
                              \cup ({"save"} \X LoggingOf')
  BY DEF FinishedResponses, SavedOf, LoggingOf
<1> HIDE DEF SavedOf, LoggingOf
<1>3. ASSUME NEW f
      PROVE  f \in FinishedResponses' <=> \/ \E i \in SavedOf' : f = <<"row", i>>
                                          \/ \E i \in DOMAIN unsaved' : f = <<"error", i>>
                                          \/ \E c \in LoggingOf' : f = <<"save", c>>
  BY <1>2
<1> QED BY <1>1, <1>3

(* The responses are the same ones, and the rows of them.                               *)
LEMMA FiguresKept ==
  ASSUME FiguresTrue, UNCHANGED <<counters, histograms, unsaved>>,
         SavedOf' = SavedOf, \A i \in SavedOf : apiMetrics'[i] = apiMetrics[i],
         LoggingOf' = LoggingOf, \A c \in LoggingOf : http'[c].row = http[c].row
  PROVE  FiguresTrue'
<1>1. FinishedResponses' = FinishedResponses
  BY ResponseIs, ResponseNextIs
<1>2. ASSUME NEW f \in FinishedResponses
      PROVE  LabelsOf'[f] = LabelsOf[f] /\ TimeOf'[f] = TimeOf[f]
  <2>1. RowOf(f)' = RowOf(f)
    BY ResponseIs, ResponseNextIs
  <2> QED BY <1>1, <2>1 DEF LabelsOf, TimeOf, MetricKey
<1> QED BY <1>1, <1>2, FiguresStay DEF FiguresTrue

LEMMA RowsAre ==
  ASSUME MonitoringTypeOK
  PROVE  /\ SavedOf \subseteq 1 .. Len(apiMetrics) /\ DOMAIN apiMetrics = 1 .. Len(apiMetrics)
         /\ Len(apiMetrics) \in Nat /\ bootRows \in Nat /\ bootRows <= Len(apiMetrics)
         /\ \A i \in 1 .. Len(apiMetrics) : apiMetrics[i] \in OwnRows \cup ClientRows
         /\ DOMAIN unsaved = 1 .. Len(unsaved) /\ Len(unsaved) \in Nat
         /\ \A i \in DOMAIN unsaved : unsaved[i] \in OwnRows
  BY DEF MonitoringTypeOK, SavedOf

LEMMA OneMoreRow ==
  ASSUME MonitoringTypeOK, NEW row \in OwnRows \cup ClientRows,
         apiMetrics' = Append(apiMetrics, row), bootRows' = bootRows
  PROVE  /\ apiMetrics' \in Seq(OwnRows \cup ClientRows) /\ Len(apiMetrics') = Len(apiMetrics) + 1
         /\ apiMetrics'[Len(apiMetrics) + 1] = row /\ Len(apiMetrics) + 1 \notin SavedOf
         /\ \A i \in SavedOf : apiMetrics'[i] = apiMetrics[i]
         /\ row \in ClientRows => SavedOf' = SavedOf
         /\ row \in OwnRows => SavedOf' = SavedOf \cup {Len(apiMetrics) + 1}
<1>1. /\ apiMetrics \in Seq(OwnRows \cup ClientRows) /\ bootRows \in 0 .. Len(apiMetrics)
  BY DEF MonitoringTypeOK
<1>2. /\ apiMetrics' \in Seq(OwnRows \cup ClientRows) /\ Len(apiMetrics') = Len(apiMetrics) + 1
      /\ apiMetrics'[Len(apiMetrics) + 1] = row
      /\ \A i \in 1 .. Len(apiMetrics) : apiMetrics'[i] = apiMetrics[i]
  BY <1>1, AppendProperties
<1>3. PICK n \in Nat, b \in Nat : n = Len(apiMetrics) /\ b = bootRows /\ b <= n
  BY <1>1
<1>4. SavedOf = {i \in b + 1 .. n : apiMetrics[i].own}
      /\ SavedOf' = {i \in b + 1 .. n + 1 : apiMetrics'[i].own}
  BY <1>2, <1>3 DEF SavedOf
<1>5. (row \in ClientRows => ~row.own) /\ (row \in OwnRows => row.own)
  BY DEF OwnRows, ClientRows
<1>6. \A i : i \in b + 1 .. n + 1 <=> i \in b + 1 .. n \/ i = n + 1
  BY <1>3
<1>7. \A i \in b + 1 .. n : apiMetrics'[i] = apiMetrics[i]
  BY <1>2, <1>3
<1>8. row \in ClientRows => SavedOf' = SavedOf
  BY <1>2, <1>3, <1>4, <1>5, <1>6, <1>7
<1>9. row \in OwnRows => SavedOf' = SavedOf \cup {n + 1}
  BY <1>2, <1>3, <1>4, <1>5, <1>6, <1>7
<1>10. n + 1 \notin SavedOf /\ \A i \in SavedOf : apiMetrics'[i] = apiMetrics[i]
  BY <1>3, <1>4, <1>7
<1> QED BY <1>2, <1>3, <1>8, <1>9, <1>10

LEMMA OpenIs ==
  ASSUME MonitoringTypeOK, NEW m
  PROVE  /\ IsFiniteSet(OpenRequests(m)) /\ Cardinality(OpenRequests(m)) \in Nat
         /\ IsFiniteSet(CutOf(m)) /\ Cardinality(CutOf(m)) \in Nat
         /\ CutOf(m) \subseteq DOMAIN cut /\ DOMAIN cut = 1 .. Len(cut) /\ Len(cut) \in Nat
<1>1. OpenRequests(m) \subseteq HttpCalls /\ IsFiniteSet(HttpCalls)
  BY PerformanceMonitoringAssumption DEF OpenRequests
<1>2. cut \in Seq(Methods)
  BY DEF MonitoringTypeOK
<1>3. DOMAIN cut = 1 .. Len(cut) /\ Len(cut) \in Nat
  BY <1>2
<1>4. IsFiniteSet(DOMAIN cut)
  BY <1>3, FS_Interval
<1>5. CutOf(m) \subseteq DOMAIN cut
  BY DEF CutOf
<1> QED BY <1>1, <1>3, <1>4, <1>5, FS_Subset, FS_CardinalityType

LEMMA GaugeAdjusted ==
  ASSUME MonitoringTypeOK, NEW m \in Methods, NEW delta, gauges' = AdjustGauge(m, delta)
  PROVE  /\ DOMAIN gauges' \subseteq Methods
         /\ \A n \in Methods : ValueAt(gauges', n, 0)
                                 = IF n = m THEN ValueAt(gauges, m, 0) + delta ELSE ValueAt(gauges, n, 0)
<1>1. /\ DOMAIN gauges' = DOMAIN gauges \cup {m} /\ gauges'[m] = ValueAt(gauges, m, 0) + delta
      /\ \A n \in DOMAIN gauges : n # m => gauges'[n] = gauges[n]
  BY DEF AdjustGauge, SetMetric
<1> QED BY <1>1 DEF ValueAt, MonitoringTypeOK

LEMMA SameOpen ==
  ASSUME NEW c \in HttpCalls, \A d \in HttpCalls : d # c => http'[d] = http[d],
         http'[c].step \in {"handling", "responding"}, http[c].step \in {"handling", "responding"},
         http'[c].request = http[c].request
  PROVE  \A m : OpenRequests(m)' = OpenRequests(m)
BY DEF OpenRequests

LEMMA UseKeeps ==
  ASSUME MonitoringInv, NEW c \in HttpCalls, Use(c)
  PROVE  MonitoringInv'
<1>1. PICK r \in HttpRequests : /\ http' = [http EXCEPT ![c] = [step |-> "handling", request |-> r]]
                                /\ gauges' = AdjustGauge(r.method, 1)
  BY DEF Use
<1>2. /\ http[c].step = "idle" /\ MonitoringTypeOK /\ GaugesTrue /\ FiguresTrue
      /\ UNCHANGED <<counters, histograms, apiMetrics, unsaved, cut, bootRows>>
  BY DEF Use, MonitoringInv
<1>3. PICK h : h = [step |-> "handling", request |-> r]
  OBVIOUS
<1>4. h \in HttpStates /\ h.step = "handling" /\ h.request = r
  BY <1>3 DEF HttpStates
<1>5. /\ http' \in [HttpCalls -> HttpStates] /\ http'[c] = h
      /\ \A d \in HttpCalls : d # c => http'[d] = http[d]
  BY <1>1, <1>2, <1>3, <1>4 DEF MonitoringTypeOK
<1>6. PICK m \in Methods : m = r.method
  BY DEF Methods
<1>7. MonitoringTypeOK'
  BY <1>1, <1>2, <1>5, <1>6, GaugeAdjusted DEF MonitoringTypeOK
<1>8. GaugesTrue'
  <2> SUFFICES ASSUME NEW n \in Methods
               PROVE  ValueAt(gauges', n, 0) = Cardinality(OpenRequests(n)') + Cardinality(CutOf(n)')
    BY DEF GaugesTrue
  <2>1. CutOf(n)' = CutOf(n)
    BY <1>2 DEF CutOf
  <2>2. Cardinality(OpenRequests(n)') = Cardinality(OpenRequests(n)) + IF n = m THEN 1 ELSE 0
    <3>1. c \notin OpenRequests(n) /\ OpenRequests(n)' = OpenRequests(n) \cup IF n = m THEN {c} ELSE {}
      BY <1>2, <1>4, <1>5, <1>6 DEF OpenRequests
    <3>2. IsFiniteSet(OpenRequests(n)) /\ Cardinality(OpenRequests(n)) \in Nat
      BY <1>2, OpenIs
    <3>3. Cardinality(OpenRequests(n) \cup {c}) = Cardinality(OpenRequests(n)) + 1
      BY <3>1, <3>2, FS_AddElement
    <3> QED BY <3>1, <3>2, <3>3
  <2>3. ValueAt(gauges', n, 0) = ValueAt(gauges, n, 0) + IF n = m THEN 1 ELSE 0
    <3>1. ValueAt(gauges, n, 0) \in Int
      BY <1>2, OpenIs DEF GaugesTrue
    <3> QED BY <1>1, <1>2, <1>6, <3>1, GaugeAdjusted
  <2>4. /\ Cardinality(OpenRequests(n)) \in Nat /\ Cardinality(CutOf(n)) \in Nat
        /\ ValueAt(gauges, n, 0) = Cardinality(OpenRequests(n)) + Cardinality(CutOf(n))
    BY <1>2, OpenIs DEF GaugesTrue
  <2> QED BY <2>1, <2>2, <2>3, <2>4
<1>9. FiguresTrue'
  <2>1. SavedOf' = SavedOf
    BY <1>2 DEF SavedOf
  <2>2. LoggingOf' = LoggingOf /\ \A d \in LoggingOf : http'[d].row = http[d].row
    BY <1>2, <1>4, <1>5 DEF LoggingOf
  <2> QED BY <1>2, <2>1, <2>2, FiguresKept
<1> QED BY <1>7, <1>8, <1>9 DEF MonitoringInv

LEMMA HandleKeeps ==
  ASSUME MonitoringInv, NEW c \in HttpCalls, Handle(c)
  PROVE  MonitoringInv'
<1>1. /\ http[c].step = "handling" /\ MonitoringTypeOK /\ GaugesTrue /\ FiguresTrue
      /\ UNCHANGED <<counters, gauges, histograms, unsaved, cut, bootRows>>
  BY DEF Handle, MonitoringInv
<1>2. PICK r \in HttpRequests : r = http[c].request
  BY <1>1, StateIs
<1>3. PICK code \in StatusCodes \cup {201, 500} : Respond(c, code)
  BY <1>2 DEF Handle
<1>4. PICK h \in HttpStates : h = [step |-> "responding", request |-> r, statusCode |-> code]
  <2>1. [step |-> "responding", request |-> r, statusCode |-> code] \in HttpStates
    BY DEF HttpStates
  <2> QED BY <2>1
<1>5. h.step = "responding" /\ h.request = r
  BY <1>4
<1>6. /\ http' \in [HttpCalls -> HttpStates] /\ http'[c] = h
      /\ \A d \in HttpCalls : d # c => http'[d] = http[d]
  BY <1>1, <1>2, <1>3, <1>4, <1>5 DEF MonitoringTypeOK, Respond
<1>7. /\ apiMetrics' \in Seq(OwnRows \cup ClientRows) /\ Len(apiMetrics') \in Nat
      /\ Len(apiMetrics') >= Len(apiMetrics)
      /\ SavedOf' = SavedOf /\ \A i \in SavedOf : apiMetrics'[i] = apiMetrics[i]
  <2>1. CASE apiMetrics' = apiMetrics
    <3>1. SavedOf' = SavedOf
      BY <1>1, <2>1 DEF SavedOf
    <3> QED BY <1>1, <2>1, <3>1 DEF MonitoringTypeOK
  <2>2. CASE apiMetrics' # apiMetrics
    <3>1. PICK row \in ClientRows : apiMetrics' = Append(apiMetrics, row)
      <4>1. [endpoint |-> r.metric.endpoint, method |-> r.metric.method, own |-> FALSE,
             statusCode |-> r.metric.statusCode, responseTime |-> r.metric.responseTime] \in ClientRows
        BY DEF ClientRows
      <4> QED BY <1>2, <2>2, <4>1 DEF Handle
    <3>2. Len(apiMetrics) \in Nat
      BY <1>1, RowsAre
    <3>3. /\ apiMetrics' \in Seq(OwnRows \cup ClientRows)
          /\ Len(apiMetrics') = Len(apiMetrics) + 1 /\ SavedOf' = SavedOf
          /\ \A i \in SavedOf : apiMetrics'[i] = apiMetrics[i]
      <4>1. apiMetrics' = Append(apiMetrics, row) /\ bootRows' = bootRows /\ MonitoringTypeOK
            /\ row \in OwnRows \cup ClientRows
        BY <1>1, <3>1
      <4>2. row \in ClientRows
        BY <3>1
      <4>3. row \in ClientRows => SavedOf' = SavedOf
        BY ONLY <4>1, OneMoreRow
      <4>4. Len(apiMetrics') = Len(apiMetrics) + 1 /\ apiMetrics' \in Seq(OwnRows \cup ClientRows)
        BY ONLY <4>1, OneMoreRow
      <4>5. \A i \in SavedOf : apiMetrics'[i] = apiMetrics[i]
        <5>1. SavedOf \subseteq 1 .. Len(apiMetrics) /\ apiMetrics \in Seq(OwnRows \cup ClientRows)
          BY <1>1, RowsAre DEF MonitoringTypeOK
        <5>2. \A i \in 1 .. Len(apiMetrics) : Append(apiMetrics, row)[i] = apiMetrics[i]
          BY <4>1, <5>1, AppendProperties
        <5> QED BY <4>1, <5>1, <5>2
      <4> QED BY <4>2, <4>3, <4>4, <4>5
    <3> QED BY <3>2, <3>3
  <2> QED BY <2>1, <2>2
<1>8. MonitoringTypeOK'
  <2>1. bootRows' \in 0 .. Len(apiMetrics')
    BY <1>1, <1>7, RowsAre
  <2> QED BY <1>1, <1>6, <1>7, <2>1 DEF MonitoringTypeOK
<1>9. GaugesTrue'
  <2>1. \A m : OpenRequests(m)' = OpenRequests(m)
    BY <1>1, <1>2, <1>5, <1>6, SameOpen
  <2>2. \A m : CutOf(m)' = CutOf(m)
    BY <1>1 DEF CutOf
  <2> QED BY <1>1, <2>1, <2>2 DEF GaugesTrue, ValueAt
<1>10. FiguresTrue'
  <2>1. LoggingOf' = LoggingOf /\ \A d \in LoggingOf : http'[d].row = http[d].row
    BY <1>1, <1>5, <1>6 DEF LoggingOf
  <2> QED BY <1>1, <1>7, <2>1, FiguresKept
<1> QED BY <1>8, <1>9, <1>10 DEF MonitoringInv

LEMMA OneFewer ==
  ASSUME MonitoringTypeOK, NEW c \in HttpCalls, \A d \in HttpCalls : d # c => http'[d] = http[d],
         http'[c].step \notin {"handling", "responding"}, http[c].step = "responding",
         NEW m, m = http[c].request.method, NEW n
  PROVE  Cardinality(OpenRequests(n)) = Cardinality(OpenRequests(n)') + IF n = m THEN 1 ELSE 0
<1>1. IsFiniteSet(OpenRequests(n)) /\ Cardinality(OpenRequests(n)) \in Nat
  BY OpenIs
<1>2. CASE n = m
  <2>1. c \in OpenRequests(n) /\ OpenRequests(n)' = OpenRequests(n) \ {c}
    BY <1>2 DEF OpenRequests
  <2>2. Cardinality(OpenRequests(n) \ {c}) = Cardinality(OpenRequests(n)) - 1
    BY <1>1, <2>1, FS_RemoveElement
  <2> QED BY <1>1, <1>2, <2>1, <2>2
<1>3. CASE n # m
  <2>1. OpenRequests(n)' = OpenRequests(n)
    BY <1>3 DEF OpenRequests
  <2> QED BY <1>1, <1>3, <2>1
<1> QED BY <1>2, <1>3

LEMMA FinishKeeps ==
  ASSUME MonitoringInv, NEW c \in HttpCalls, Finish(c)
  PROVE  MonitoringInv'
<1>1. /\ http[c].step = "responding" /\ MonitoringTypeOK /\ GaugesTrue /\ FiguresTrue
      /\ UNCHANGED <<apiMetrics, unsaved, cut, bootRows>>
  BY DEF Finish, MonitoringInv
<1>2. PICK time \in ResponseTimes :
        LET row == [endpoint |-> CategorizeEndpoint(http[c].request.path),
                    method |-> http[c].request.method, statusCode |-> http[c].statusCode,
                    responseTime |-> time, own |-> TRUE]
        IN /\ counters' = IncrementCounter(MetricKey(row))
           /\ gauges' = AdjustGauge(row.method, -1)
           /\ histograms' = ObserveHistogram(MetricKey(row), time)
           /\ http' = [http EXCEPT ![c] = [step |-> "logging", row |-> row]]
  BY DEF Finish
<1>3. http[c].request \in HttpRequests /\ http[c].statusCode \in StatusCodes \cup {201, 500}
  BY <1>1, StateIs
<1>4. PICK row \in OwnRows :
        row = [endpoint |-> CategorizeEndpoint(http[c].request.path),
               method |-> http[c].request.method, statusCode |-> http[c].statusCode,
               responseTime |-> time, own |-> TRUE]
  <2>1. [endpoint |-> CategorizeEndpoint(http[c].request.path),
         method |-> http[c].request.method, statusCode |-> http[c].statusCode,
         responseTime |-> time, own |-> TRUE] \in OwnRows
    BY <1>3 DEF OwnRows
  <2> QED BY <2>1
<1>5. row.method = http[c].request.method /\ row.responseTime = time /\ time \in Nat
  BY <1>4, PerformanceMonitoringAssumption
<1>6. /\ counters' = IncrementCounter(MetricKey(row)) /\ gauges' = AdjustGauge(row.method, -1)
      /\ histograms' = ObserveHistogram(MetricKey(row), time)
      /\ http' = [http EXCEPT ![c] = [step |-> "logging", row |-> row]]
  BY <1>2, <1>4
<1>7. PICK h \in HttpStates : h = [step |-> "logging", row |-> row]
  <2>1. [step |-> "logging", row |-> row] \in HttpStates
    BY DEF HttpStates
  <2> QED BY <2>1
<1>8. /\ http' \in [HttpCalls -> HttpStates] /\ http'[c].step = "logging" /\ http'[c].row = row
      /\ \A d \in HttpCalls : d # c => http'[d] = http[d]
  BY <1>1, <1>6, <1>7 DEF MonitoringTypeOK
<1>9. PICK m \in Methods : m = http[c].request.method
  BY <1>3 DEF Methods
<1>10. MonitoringTypeOK'
  BY <1>1, <1>5, <1>6, <1>8, <1>9, GaugeAdjusted DEF MonitoringTypeOK
<1>11. GaugesTrue'
  <2> SUFFICES ASSUME NEW n \in Methods
               PROVE  ValueAt(gauges', n, 0) = Cardinality(OpenRequests(n)') + Cardinality(CutOf(n)')
    BY DEF GaugesTrue
  <2>1. CutOf(n)' = CutOf(n)
    BY <1>1 DEF CutOf
  <2>2. Cardinality(OpenRequests(n)) = Cardinality(OpenRequests(n)') + IF n = m THEN 1 ELSE 0
    BY <1>1, <1>8, <1>9, OneFewer
  <2>3. ValueAt(gauges', n, 0) = IF n = m THEN ValueAt(gauges, m, 0) + (-1) ELSE ValueAt(gauges, n, 0)
    BY <1>1, <1>5, <1>6, <1>9, GaugeAdjusted
  <2>4. /\ Cardinality(OpenRequests(n)) \in Nat /\ Cardinality(CutOf(n)) \in Nat
        /\ ValueAt(gauges, n, 0) = Cardinality(OpenRequests(n)) + Cardinality(CutOf(n))
    BY <1>1, OpenIs DEF GaugesTrue
  <2>5. Cardinality(OpenRequests(n)') \in Int
    <3>1. /\ \A d \in OpenRequests(n)' : d \in HttpCalls
          /\ IsFiniteSet(HttpCalls)
      BY PerformanceMonitoringAssumption DEF OpenRequests
    <3>2. OpenRequests(n)' \subseteq HttpCalls
      BY <3>1
    <3> QED BY <3>1, <3>2, FS_Subset, FS_CardinalityType
  <2> QED BY <2>1, <2>2, <2>3, <2>4, <2>5
<1>12. FiguresTrue'
  <2>1. PICK y : y = <<"save", c>>
    OBVIOUS
  <2>2. y \notin FinishedResponses
    <3>1. c \notin LoggingOf
      BY <1>1 DEF LoggingOf
    <3> QED BY <2>1, <3>1, ResponseIs
  <2>3. SavedOf' = SavedOf
    BY <1>1 DEF SavedOf
  <2>4. LoggingOf' = LoggingOf \cup {c} /\ \A d \in LoggingOf : http'[d].row = http[d].row
    BY <1>1, <1>8 DEF LoggingOf
  <2>5. FinishedResponses' = FinishedResponses \cup {y}
    <3> HIDE DEF SavedOf, LoggingOf
    <3> QED BY <1>1, <2>1, <2>3, <2>4, ResponseIs, ResponseNextIs
  <2>6. ASSUME NEW f \in FinishedResponses
        PROVE  LabelsOf'[f] = LabelsOf[f] /\ TimeOf'[f] = TimeOf[f]
    <3>1. RowOf(f)' = RowOf(f)
      BY <1>1, <2>4, ResponseIs, ResponseNextIs
    <3> QED BY <2>5, <3>1 DEF LabelsOf, TimeOf, MetricKey
  <2>7. LabelsOf'[y] = MetricKey(row) /\ TimeOf'[y] = time
    <3>1. RowOf(y)' = row
      BY <1>8, <2>1, ResponseNextIs
    <3> QED BY <1>5, <2>5, <3>1 DEF LabelsOf, TimeOf, MetricKey
  <2>8. PICK k : k = MetricKey(row)
    OBVIOUS
  <2>9. counters' = SetMetric(counters, k, ValueAt(counters, k, 0) + 1)
    BY <1>6, <2>8 DEF IncrementCounter
  <2>10. PICK current : current = ValueAt(histograms, k, [count |-> 0, sum |-> 0, min |-> time, max |-> time])
    OBVIOUS
  <2>11. histograms' = SetMetric(histograms, k,
           [count |-> current.count + 1, sum |-> current.sum + time,
            min |-> Smaller(current.min, time), max |-> Larger(current.max, time)])
    BY <1>6, <2>8, <2>10 DEF ObserveHistogram
  <2>12. Figures(FinishedResponses, LabelsOf, TimeOf, counters, histograms)
    BY <1>1 DEF FiguresTrue
  <2>13. time \in Nat /\ LabelsOf'[y] = k
    BY <1>5, <2>7, <2>8
  <2>14. Figures(FinishedResponses', LabelsOf', TimeOf', counters', histograms')
    <3>1. PICK F, G, key, keys, span, spans, C, C2, H, H2 :
            /\ F = FinishedResponses /\ G = FinishedResponses' /\ key = LabelsOf /\ keys = LabelsOf'
            /\ span = TimeOf /\ spans = TimeOf' /\ C = counters /\ C2 = counters'
            /\ H = histograms /\ H2 = histograms'
      OBVIOUS
    <3>2. /\ Figures(F, key, span, C, H) /\ y \notin F /\ G = F \cup {y}
          /\ \A f \in F : keys[f] = key[f] /\ spans[f] = span[f]
          /\ keys[y] = k /\ time \in Nat /\ spans[y] = time
          /\ C2 = SetMetric(C, k, ValueAt(C, k, 0) + 1)
          /\ current = ValueAt(H, k, [count |-> 0, sum |-> 0, min |-> time, max |-> time])
          /\ H2 = SetMetric(H, k, [count |-> current.count + 1, sum |-> current.sum + time,
                                   min |-> Smaller(current.min, time),
                                   max |-> Larger(current.max, time)])
      BY <2>2, <2>5, <2>6, <2>7, <2>9, <2>10, <2>11, <2>12, <2>13, <3>1, Zenon
    <3>3. Figures(G, keys, spans, C2, H2)
      BY ONLY <3>2, FiguresGrow
    <3> QED BY <3>1, <3>3
  <2> QED BY <2>14 DEF FiguresTrue
<1> QED BY <1>10, <1>11, <1>12 DEF MonitoringInv

LEMMA LogKeeps ==
  ASSUME MonitoringInv, NEW c \in HttpCalls, LogPerformance(c)
  PROVE  MonitoringInv'
<1>1. /\ http[c].step = "logging" /\ MonitoringTypeOK /\ GaugesTrue /\ FiguresTrue
      /\ UNCHANGED <<counters, gauges, histograms, cut, bootRows>>
      /\ http' = [http EXCEPT ![c] = IdleHttp]
  BY DEF LogPerformance, MonitoringInv
<1>2. PICK row \in OwnRows : row = http[c].row
  BY <1>1, StateIs
<1>3. IdleHttp \in HttpStates /\ IdleHttp.step = "idle"
  BY DEF HttpStates, IdleHttp
<1>4. /\ http' \in [HttpCalls -> HttpStates] /\ http'[c] = IdleHttp
      /\ \A d \in HttpCalls : d # c => http'[d] = http[d]
  BY <1>1, <1>3 DEF MonitoringTypeOK
<1>5. GaugesTrue'
  <2>1. \A m : OpenRequests(m)' = OpenRequests(m)
    BY <1>1, <1>3, <1>4 DEF OpenRequests
  <2>2. \A m : CutOf(m)' = CutOf(m)
    BY <1>1 DEF CutOf
  <2> QED BY <1>1, <2>1, <2>2 DEF GaugesTrue, ValueAt
<1>6. LoggingOf' = LoggingOf \ {c} /\ c \in LoggingOf
      /\ \A d \in LoggingOf' : http'[d].row = http[d].row
  BY <1>1, <1>3, <1>4 DEF LoggingOf
<1>7. PICK x : x = <<"save", c>>
  OBVIOUS
<1>8. x \in FinishedResponses
  BY <1>6, <1>7, ResponseIs
<1>9. ASSUME NEW y, y \notin FinishedResponses,
             FinishedResponses' = (FinishedResponses \ {x}) \cup {y}, RowOf(y)' = row,
             \A f \in FinishedResponses \ {x} : RowOf(f)' = RowOf(f)
      PROVE  FiguresTrue'
  <2>1. RowOf(x) = row
    BY <1>2, <1>7, ResponseIs
  <2>2. LabelsOf'[y] = LabelsOf[x] /\ TimeOf'[y] = TimeOf[x]
    BY <1>8, <1>9, <2>1 DEF LabelsOf, TimeOf, MetricKey
  <2>3. \A f \in FinishedResponses \ {x} : LabelsOf'[f] = LabelsOf[f] /\ TimeOf'[f] = TimeOf[f]
    <3> SUFFICES ASSUME NEW f \in FinishedResponses \ {x} PROVE LabelsOf'[f] = LabelsOf[f] /\ TimeOf'[f] = TimeOf[f]
      OBVIOUS
    <3>1. RowOf(f)' = RowOf(f) /\ f \in FinishedResponses'
      BY <1>9
    <3> QED BY <3>1 DEF LabelsOf, TimeOf, MetricKey
  <2>4. Figures(FinishedResponses, LabelsOf, TimeOf, counters, histograms)
    BY <1>1 DEF FiguresTrue
  <2>5. Figures(FinishedResponses', LabelsOf', TimeOf', counters, histograms)
    BY ONLY <1>8, <1>9, <2>2, <2>3, <2>4, FiguresMove
  <2> QED BY <1>1, <2>5 DEF FiguresTrue
<1>10. CASE apiMetrics' = Append(apiMetrics, http[c].row) /\ UNCHANGED unsaved
  <2>1. PICK n \in Nat : n = Len(apiMetrics)
    BY <1>1, RowsAre
  <2>2. /\ apiMetrics' \in Seq(OwnRows \cup ClientRows) /\ Len(apiMetrics') = n + 1
        /\ apiMetrics'[n + 1] = row /\ n + 1 \notin SavedOf
        /\ \A i \in SavedOf : apiMetrics'[i] = apiMetrics[i]
        /\ SavedOf' = SavedOf \cup {n + 1}
    <3>1. apiMetrics' = Append(apiMetrics, row) /\ bootRows' = bootRows /\ MonitoringTypeOK
          /\ row \in OwnRows \cup ClientRows
      BY <1>1, <1>2, <1>10
    <3> QED BY ONLY <1>2, <2>1, <3>1, OneMoreRow
  <2>3. MonitoringTypeOK'
    <3>1. bootRows' \in 0 .. Len(apiMetrics')
      BY <1>1, <2>1, <2>2, RowsAre
    <3> QED BY <1>1, <1>4, <1>10, <2>2, <3>1 DEF MonitoringTypeOK
  <2>4. PICK y : y = <<"row", n + 1>>
    OBVIOUS
  <2>5. y \notin FinishedResponses
    BY <2>2, <2>4, ResponseIs
  <2>6. FinishedResponses' = (FinishedResponses \ {x}) \cup {y}
    <3> HIDE DEF SavedOf, LoggingOf
    <3> QED BY <1>6, <1>7, <1>10, <2>2, <2>4, ResponseIs, ResponseNextIs
  <2>7. RowOf(y)' = row
    BY <2>2, <2>4, ResponseNextIs
  <2>8. \A f \in FinishedResponses \ {x} : RowOf(f)' = RowOf(f)
    <3> HIDE DEF SavedOf, LoggingOf
    <3> SUFFICES ASSUME NEW f \in FinishedResponses \ {x} PROVE RowOf(f)' = RowOf(f)
      OBVIOUS
    <3>1. CASE \E i \in SavedOf : f = <<"row", i>>
      BY <2>2, <3>1, ResponseIs, ResponseNextIs
    <3>2. CASE \E i \in DOMAIN unsaved : f = <<"error", i>>
      BY <1>10, <3>2, ResponseIs, ResponseNextIs
    <3>3. CASE \E d \in LoggingOf : f = <<"save", d>>
      BY <1>6, <1>7, <3>3, ResponseIs, ResponseNextIs
    <3> QED BY <3>1, <3>2, <3>3, ResponseIs
  <2>9. FiguresTrue'
    BY <1>9, <2>5, <2>6, <2>7, <2>8
  <2> QED BY <1>5, <2>3, <2>9 DEF MonitoringInv
<1>11. CASE unsaved' = Append(unsaved, http[c].row) /\ UNCHANGED apiMetrics
  <2>1. unsaved \in Seq(OwnRows)
    BY <1>1 DEF MonitoringTypeOK
  <2>2. PICK n \in Nat : n = Len(unsaved)
    BY <2>1
  <2>3. /\ unsaved' \in Seq(OwnRows) /\ DOMAIN unsaved = 1 .. n /\ DOMAIN unsaved' = 1 .. n + 1
        /\ unsaved'[n + 1] = row /\ \A i \in 1 .. n : unsaved'[i] = unsaved[i]
    BY <1>2, <1>11, <2>1, <2>2, AppendProperties
  <2>4. DOMAIN unsaved' = DOMAIN unsaved \cup {n + 1} /\ n + 1 \notin DOMAIN unsaved
    BY <2>3
  <2>5. MonitoringTypeOK'
    BY <1>1, <1>4, <1>11, <2>3 DEF MonitoringTypeOK
  <2>6. PICK y : y = <<"error", n + 1>>
    OBVIOUS
  <2>7. y \notin FinishedResponses
    BY <2>4, <2>6, ResponseIs
  <2>8. SavedOf' = SavedOf
    BY <1>1, <1>11 DEF SavedOf
  <2>9. FinishedResponses' = (FinishedResponses \ {x}) \cup {y}
    <3> HIDE DEF SavedOf, LoggingOf
    <3> QED BY <1>6, <1>7, <2>4, <2>6, <2>8, ResponseIs, ResponseNextIs
  <2>10. RowOf(y)' = row
    BY <2>3, <2>6, ResponseNextIs
  <2>11. \A f \in FinishedResponses \ {x} : RowOf(f)' = RowOf(f)
    <3> HIDE DEF SavedOf, LoggingOf
    <3> QED BY <1>6, <1>7, <1>11, <2>3, ResponseIs, ResponseNextIs
  <2>12. FiguresTrue'
    BY <1>9, <2>7, <2>9, <2>10, <2>11
  <2> QED BY <1>5, <2>5, <2>12 DEF MonitoringInv
<1> QED BY <1>10, <1>11 DEF LogPerformance

LEMMA DisconnectKeeps ==
  ASSUME MonitoringInv, NEW c \in HttpCalls, Disconnect(c)
  PROVE  MonitoringInv'
<1>1. /\ http[c].step = "responding" /\ MonitoringTypeOK /\ GaugesTrue /\ FiguresTrue
      /\ UNCHANGED <<counters, gauges, histograms, apiMetrics, unsaved, bootRows>>
      /\ cut' = Append(cut, http[c].request.method) /\ http' = [http EXCEPT ![c] = IdleHttp]
  BY DEF Disconnect, MonitoringInv
<1>2. PICK m \in Methods : m = http[c].request.method
  BY <1>1, StateIs DEF Methods
<1>3. IdleHttp \in HttpStates /\ IdleHttp.step = "idle"
  BY DEF HttpStates, IdleHttp
<1>4. /\ http' \in [HttpCalls -> HttpStates] /\ http'[c] = IdleHttp
      /\ \A d \in HttpCalls : d # c => http'[d] = http[d]
  BY <1>1, <1>3 DEF MonitoringTypeOK
<1>5. cut \in Seq(Methods)
  BY <1>1 DEF MonitoringTypeOK
<1>6. PICK n \in Nat : n = Len(cut)
  BY <1>5
<1>7. /\ cut' \in Seq(Methods) /\ DOMAIN cut = 1 .. n /\ DOMAIN cut' = 1 .. n + 1
      /\ cut'[n + 1] = m /\ \A i \in 1 .. n : cut'[i] = cut[i]
  BY <1>1, <1>2, <1>5, <1>6, AppendProperties
<1>8. MonitoringTypeOK'
  BY <1>1, <1>4, <1>7 DEF MonitoringTypeOK
<1>9. GaugesTrue'
  <2> SUFFICES ASSUME NEW k \in Methods
               PROVE  ValueAt(gauges', k, 0) = Cardinality(OpenRequests(k)') + Cardinality(CutOf(k)')
    BY DEF GaugesTrue
  <2>1. Cardinality(OpenRequests(k)) = Cardinality(OpenRequests(k)') + IF k = m THEN 1 ELSE 0
    BY <1>1, <1>2, <1>3, <1>4, OneFewer
  <2>2. IsFiniteSet(CutOf(k)) /\ Cardinality(CutOf(k)) \in Nat /\ n + 1 \notin CutOf(k)
    <3>1. n + 1 \notin CutOf(k)
      BY <1>7 DEF CutOf
    <3> QED BY <1>1, <3>1, OpenIs
  <2>3. CutOf(k)' = CutOf(k) \cup IF k = m THEN {n + 1} ELSE {}
    <3>1. \A i : i \in 1 .. n + 1 <=> i \in 1 .. n \/ i = n + 1
      OBVIOUS
    <3> QED BY <1>7, <3>1 DEF CutOf
  <2>4. Cardinality(CutOf(k) \cup {n + 1}) = Cardinality(CutOf(k)) + 1
    BY <2>2, FS_AddElement
  <2>5. Cardinality(CutOf(k)') = Cardinality(CutOf(k)) + IF k = m THEN 1 ELSE 0
    BY <2>2, <2>3, <2>4
  <2>6. /\ Cardinality(OpenRequests(k)) \in Nat /\ gauges' = gauges
        /\ ValueAt(gauges, k, 0) = Cardinality(OpenRequests(k)) + Cardinality(CutOf(k))
    BY <1>1, OpenIs DEF GaugesTrue
  <2>7. Cardinality(OpenRequests(k)') \in Int
    <3>1. /\ \A d \in OpenRequests(k)' : d \in HttpCalls
          /\ IsFiniteSet(HttpCalls)
      BY PerformanceMonitoringAssumption DEF OpenRequests
    <3>2. OpenRequests(k)' \subseteq HttpCalls
      BY <3>1
    <3> QED BY <3>1, <3>2, FS_Subset, FS_CardinalityType
  <2> QED BY <2>1, <2>2, <2>5, <2>6, <2>7
<1>10. FiguresTrue'
  <2>1. SavedOf' = SavedOf
    BY <1>1 DEF SavedOf
  <2>2. LoggingOf' = LoggingOf /\ \A d \in LoggingOf : http'[d].row = http[d].row
    BY <1>1, <1>3, <1>4 DEF LoggingOf
  <2> QED BY <1>1, <2>1, <2>2, FiguresKept
<1> QED BY <1>8, <1>9, <1>10 DEF MonitoringInv

\* Nothing runs and nothing was counted: at the start, and when the process starts again.
NothingYet ==
  /\ http = [c \in HttpCalls |-> IdleHttp]
  /\ counters = Nothing /\ gauges = Nothing /\ histograms = Nothing
  /\ unsaved = <<>> /\ cut = <<>> /\ bootRows = Len(apiMetrics)
  /\ apiMetrics \in Seq(OwnRows \cup ClientRows)

LEMMA NothingAddsUp ==
  NothingYet => MonitoringInv
<1> SUFFICES ASSUME NothingYet PROVE MonitoringInv
  OBVIOUS
<1>1. DOMAIN Nothing = {}
  BY DEF Nothing
<1>2. PICK n \in Nat : n = Len(apiMetrics) /\ bootRows = n
  BY DEF NothingYet
<1>3. MonitoringTypeOK
  <2>1. IdleHttp \in HttpStates
    BY DEF HttpStates
  <2>2. unsaved \in Seq(OwnRows) /\ cut \in Seq(Methods)
    BY DEF NothingYet
  <2> QED BY <1>1, <1>2, <2>1, <2>2 DEF MonitoringTypeOK, NothingYet
<1>4. \A c \in HttpCalls : http[c].step = "idle"
  BY DEF NothingYet, IdleHttp
<1>5. GaugesTrue
  <2> SUFFICES ASSUME NEW m \in Methods
               PROVE  ValueAt(gauges, m, 0) = Cardinality(OpenRequests(m)) + Cardinality(CutOf(m))
    BY DEF GaugesTrue
  <2>1. OpenRequests(m) = {}
    BY <1>4 DEF OpenRequests
  <2>2. CutOf(m) = {}
    BY DEF CutOf, NothingYet
  <2>3. ValueAt(gauges, m, 0) = 0
    BY <1>1 DEF ValueAt, NothingYet
  <2> QED BY <2>1, <2>2, <2>3, FS_EmptySet
<1>6. FiguresTrue
  <2>1. SavedOf = {}
    BY <1>2 DEF SavedOf
  <2>2. LoggingOf = {}
    BY <1>4 DEF LoggingOf
  <2>3. DOMAIN unsaved = {}
    BY DEF NothingYet
  <2>4. FinishedResponses = {}
    BY <2>1, <2>2, <2>3, ResponseIs
  <2>5. DOMAIN counters = {} /\ DOMAIN histograms = {}
    BY <1>1 DEF NothingYet
  <2> QED BY <2>4, <2>5, NoFigures DEF FiguresTrue
<1> QED BY <1>3, <1>5, <1>6 DEF MonitoringInv

LEMMA RebootKeeps ==
  ASSUME MonitoringInv, Reboot
  PROVE  MonitoringInv'
<1>1. NothingYet'
  BY DEF NothingYet, Reboot, MonitoringInv, MonitoringTypeOK
<1> QED BY <1>1, NothingAddsUp, PTL

LEMMA MonitoringStarts ==
  MonitoringInit => MonitoringInv
<1> SUFFICES ASSUME MonitoringInit PROVE MonitoringInv
  OBVIOUS
<1>1. <<>> \in Seq(OwnRows \cup ClientRows) /\ Len(<<>>) = 0
  OBVIOUS
<1>2. NothingYet
  BY <1>1 DEF NothingYet, MonitoringInit
<1> QED BY <1>2, NothingAddsUp

LEMMA MonitoringKept ==
  MonitoringInv /\ [MonitoringNext]_monitoringVars => MonitoringInv'
<1> SUFFICES ASSUME MonitoringInv, [MonitoringNext]_monitoringVars PROVE MonitoringInv'
  OBVIOUS
<1>1. CASE UNCHANGED monitoringVars
  <2>1. /\ UNCHANGED <<http, counters, gauges, histograms, apiMetrics, unsaved, cut, bootRows>>
        /\ MonitoringTypeOK /\ GaugesTrue /\ FiguresTrue
    BY <1>1 DEF monitoringVars, MonitoringInv
  <2>2. MonitoringTypeOK'
    BY <2>1 DEF MonitoringTypeOK
  <2>3. GaugesTrue'
    <3>1. \A m : OpenRequests(m)' = OpenRequests(m) /\ CutOf(m)' = CutOf(m)
      BY <2>1 DEF OpenRequests, CutOf
    <3> QED BY <2>1, <3>1 DEF GaugesTrue, ValueAt
  <2>4. FiguresTrue'
    <3>1. SavedOf' = SavedOf
      BY <2>1 DEF SavedOf
    <3>2. LoggingOf' = LoggingOf
      BY <2>1 DEF LoggingOf
    <3> QED BY <2>1, <3>1, <3>2, FiguresKept
  <2> QED BY <2>2, <2>3, <2>4 DEF MonitoringInv
<1>2. CASE MonitoringNext
  BY <1>2, UseKeeps, HandleKeeps, FinishKeeps, LogKeeps, DisconnectKeeps, RebootKeeps
     DEF MonitoringNext
<1> QED BY <1>1, <1>2

LEMMA LeastAndLargest ==
  ASSUME NEW S, \A u \in S : u \in Nat, NEW low \in S, NEW high \in S,
         \A u \in S : low <= u /\ u <= high
  PROVE  /\ (CHOOSE t \in S : \A u \in S : t <= u) = low
         /\ (CHOOSE t \in S : \A u \in S : t >= u) = high
<1>1. \A t \in S : (\A u \in S : t <= u) => t = low
  OBVIOUS
<1>2. \A t \in S : (\A u \in S : t >= u) => t = high
  OBVIOUS
<1>3. (\A u \in S : low <= u) /\ (\A u \in S : high >= u)
  OBVIOUS
<1>4. PICK t : t = CHOOSE s \in S : \A u \in S : s <= u
  OBVIOUS
<1>5. t \in S /\ \A u \in S : t <= u
  BY <1>3, <1>4
<1>6. PICK r : r = CHOOSE s \in S : \A u \in S : s >= u
  OBVIOUS
<1>7. r \in S /\ \A u \in S : r >= u
  BY <1>3, <1>6
<1> QED BY <1>1, <1>2, <1>4, <1>5, <1>6, <1>7

(* What the middleware has counted adds up to the rows and the requests (see            *)
(* PerformanceMonitoring).                                                              *)
LEMMA TrafficThen ==
  MonitoringInv => TrafficAddsUp
<1> SUFFICES ASSUME MonitoringInv PROVE TrafficAddsUp
  OBVIOUS
<1>1. /\ MonitoringTypeOK /\ GaugesTrue
      /\ Figures(FinishedResponses, LabelsOf, TimeOf, counters, histograms)
  BY DEF MonitoringInv, FiguresTrue
<1>2. DOMAIN counters = DOMAIN histograms /\ DOMAIN counters = Range(LabelsOf)
  BY <1>1 DEF Figures, Range, LabelsOf
<1>3. ASSUME NEW k \in DOMAIN counters,
             NEW responses, responses = {response \in FinishedResponses : LabelsOf[response] = k},
             NEW times, times = {TimeOf[response] : response \in responses}
      PROVE  /\ counters[k] = Cardinality(responses)
             /\ histograms[k] =
                  [count |-> Cardinality(responses), sum |-> SumFunctionOnSet(TimeOf, responses),
                   min |-> CHOOSE t \in times : \A u \in times : t <= u,
                   max |-> CHOOSE t \in times : \A u \in times : t >= u]
  <2>1. responses = Keyed(FinishedResponses, LabelsOf, k)
    BY <1>3 DEF Keyed
  <2>2. /\ counters[k] = Cardinality(responses)
        /\ histograms[k] = [count |-> counters[k], sum |-> SumFunctionOnSet(TimeOf, responses),
                            min |-> histograms[k].min, max |-> histograms[k].max]
        /\ \E f \in responses : histograms[k].min = TimeOf[f]
        /\ \E f \in responses : histograms[k].max = TimeOf[f]
        /\ \A f \in responses : histograms[k].min <= TimeOf[f] /\ TimeOf[f] <= histograms[k].max
    BY <1>1, <2>1 DEF Figures
  <2>3. \A f \in FinishedResponses : TimeOf[f] \in Nat
    BY <1>1 DEF Figures
  <2>4. PICK low, high : low = histograms[k].min /\ high = histograms[k].max
    OBVIOUS
  <2>5. /\ \A u \in times : u \in Nat
        /\ low \in times /\ high \in times
        /\ \A u \in times : low <= u /\ u <= high
    BY <1>3, <2>2, <2>3, <2>4
  <2>6. /\ (CHOOSE t \in times : \A u \in times : t <= u) = low
        /\ (CHOOSE t \in times : \A u \in times : t >= u) = high
    BY ONLY <2>5, LeastAndLargest
  <2> QED BY ONLY <2>2, <2>4, <2>6
<1>4. \A method \in {r.method : r \in HttpRequests} \cup DOMAIN gauges :
        ValueAt(gauges, method, 0) =
          Cardinality(OpenRequests(method)) + Cardinality({i \in DOMAIN cut : cut[i] = method})
  BY <1>1 DEF MonitoringTypeOK, GaugesTrue, CutOf, Methods
<1> QED BY <1>2, <1>3, <1>4, ZenonT(30) DEF TrafficAddsUp

---------------------------------------------------------------------------------
(* MCServicesSafe: FiguresAgree. *)

\* Every step is one of each of the three services or leaves its state alone.
LEMMA PartsStep ==
  [Next]_safeVars =>
    [CostNext]_costVars /\ [PricingNext]_pricingVars /\ [MonitoringNext]_monitoringVars
<1> SUFFICES ASSUME [Next]_safeVars
             PROVE  [CostNext]_costVars /\ [PricingNext]_pricingVars /\ [MonitoringNext]_monitoringVars
  OBVIOUS
<1>1. CASE UNCHANGED safeVars
  BY <1>1 DEF safeVars, adviceGroup
<1>2. CASE Limiting \/ Recording \/ Measuring \/ Caching \/ Ruling
  BY <1>2 DEF Limiting, Recording, Measuring, Caching, Ruling, adviceGroup
<1>3. CASE Suspecting \/ Failing \/ Exporting \/ Fluctuating \/ Ranking
  BY <1>3 DEF Suspecting, Failing, Exporting, Fluctuating, Ranking, adviceGroup
<1>4. CASE Auditing \/ Advising \/ Registering
  BY <1>4 DEF Auditing, Advising, Registering
<1>5. CASE Costing
  BY <1>5 DEF Costing
<1>6. CASE Quoting
  BY <1>6 DEF Quoting
<1>7. CASE Monitoring
  BY <1>7 DEF Monitoring
<1> QED BY <1>1, <1>2, <1>3, <1>4, <1>5, <1>6, <1>7 DEF Next

(* The figures that services report agree with each other: what a contract costs grows  *)
(* with what it uses (cost_model.py), the prices quoted are those of the network's last *)
(* metrics (dynamic-pricing.service.ts), and what is counted is what was saved          *)
(* (performance-logging.middleware.ts).  Every other part leaves their state alone.     *)
THEOREM FiguresAgreeHolds == Spec => []FiguresAgree
<1>1. Init => CostInv /\ PricingInv /\ MonitoringInv
  <2>1. Init => CostInit /\ PricingInit /\ MonitoringInit
    BY DEF Init
  <2> QED BY <2>1, CostsInductive, PricingStarts, MonitoringStarts
<1>2. CostInv /\ PricingInv /\ MonitoringInv /\ [Next]_safeVars
        => (CostInv /\ PricingInv /\ MonitoringInv)'
  BY PartsStep, CostsInductive, PricingKept, MonitoringKept
<1>3. CostInv /\ PricingInv /\ MonitoringInv => FiguresAgree
  BY MonotoneWhenTyped, PricesAgreeThen, TrafficThen DEF FiguresAgree
<1> QED BY <1>1, <1>2, <1>3, PTL DEF Spec
=================================================================================
