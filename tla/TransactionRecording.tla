-------------------------- MODULE TransactionRecording --------------------------
(***************************************************************************)
(* Recording the transactions of one merchant                              *)
(* (apps/api-service/src/transection): the in-memory rate limit that is    *)
(* checked before a transaction is saved and counted after it, and the     *)
(* rolling windows of the suspicious-activity detection.                   *)
(*                                                                         *)
(* The save is the only await: what comes before it is one step, what      *)
(* comes after it another.  The timestamp of a transaction is the          *)
(* client's or else the database's at the insertion.                       *)
(***************************************************************************)
EXTENDS Integers, FiniteSets, Sequences, SequencesExt

CONSTANTS
  TxCalls,       \* requests that may be under way at a time
  TxChains,      \* chains
  Outcomes,      \* status and gas that a transaction may have
  Minute, Hour,  \* spans of the limits
  PerMinute, PerHour,
  BurstSpan,     \* ten seconds
  RollingSize,   \* transactions kept per chain (50)
  EnoughTx,      \* transactions needed to draw conclusions (5)
  BurstSizes,    \* sizes of a burst of low, medium and high severity (5, 8, 15)
  RecentTx,      \* transactions that the failure rate is about (10)
  MaxClock       \* bound on the time

ASSUME TransactionRecordingAssumption ==
  /\ IsFiniteSet(TxCalls)
  /\ Outcomes \subseteq [status : {"success", "failure", "reverted"}, gas : Nat]
  /\ Minute \in Nat \ {0} /\ Hour \in Nat /\ Minute <= Hour /\ BurstSpan \in 0..(Minute - 1)
  /\ PerMinute \in Nat \ {0} /\ PerHour \in Nat \ {0}
  /\ RollingSize \in Nat \ {0} /\ EnoughTx \in Nat \ {0} /\ RecentTx \in Nat \ {0}
  /\ BurstSizes \in [1..3 -> Nat] /\ MaxClock \in Nat

VARIABLES
  timestamps, \* of the transactions counted, oldest first
  windows,    \* per chain: the transactions analysed last, oldest first
  txCalls,    \* the requests under way
  clock,
  lastAlert,  \* the alert raised last, with what it was raised on
  overlapped  \* since the start of the process: requests overlapped or named a time

txVars == <<timestamps, windows, txCalls, clock, lastAlert, overlapped>>

NoFinding == [type |-> "none", severity |-> 0]
NoAlertYet == [type |-> "none", size |-> 0, overlapped |-> FALSE]
IdleTx == [step |-> "idle", chain |-> 0, timestamp |-> 0, status |-> "success", gas |-> 0]

TxInit ==
  /\ timestamps = <<>>
  /\ windows = [c \in TxChains |-> <<>>]
  /\ txCalls = [k \in TxCalls |-> IdleTx]
  /\ clock = 0 /\ lastAlert = NoAlertYet /\ overlapped = FALSE

-----------------------------------------------------------------------------
(* RateLimitService *)

\* The times later than the given one, in their order.
LaterThan(time, times) ==
  LET kept[n \in 0..Len(times)] ==
        IF n = 0 THEN <<>>
        ELSE IF times[n] > time THEN Append(kept[n - 1], times[n]) ELSE kept[n - 1]
  IN kept[Len(times)]

Within(times, span) == LaterThan(clock - span, times)

\* Mutant: a minute is full only once it is over its limit.
MutWithinLimits ==
  /\ Len(Within(timestamps, Minute)) <= PerMinute
  /\ Len(Within(timestamps, Hour)) < PerHour

\* check; the pruned list replaces the old one also when it throws.
WithinLimits ==
  /\ Len(Within(timestamps, Minute)) < PerMinute
  /\ Len(Within(timestamps, Hour)) < PerHour

-----------------------------------------------------------------------------
(* SuspiciousActivityService.  Severities are 1 to 3, 0 when nothing is found. *)

LastTx(window, n) == SubSeq(window, IF Len(window) > n THEN Len(window) - n + 1 ELSE 1, Len(window))

\* All that is not older than the latest by more than the span: also what is younger.
BurstCount(window) ==
  Cardinality({i \in DOMAIN window : window[i].timestamp >= Last(window).timestamp - BurstSpan})

SeverityOf(n, sizes) == Cardinality({i \in 1..3 : n >= sizes[i]})

DetectBurst(window) == SeverityOf(BurstCount(window), BurstSizes)

\* Tenths of the latest transactions that failed: 7, 8 and 9 of 10.
DetectHighFailureRate(window) ==
  LET recent == LastTx(window, RecentTx)
      failures == Len(SelectSeq(recent, LAMBDA w : w.status # "success"))
  IN Cardinality({tenths \in {7, 8, 9} : failures * 10 >= tenths * Len(recent)})

\* The latest against the average of those before it: 4, 6 and 10 times.
DetectGasSpike(window) ==
  LET prior == SubSeq(window, 1, Len(window) - 1)
      sum == FoldSeq(LAMBDA w, s : w.gas + s, 0, prior)
  IN IF sum = 0 THEN 0
     ELSE Cardinality({times \in {4, 6, 10} : Last(window).gas * Len(prior) >= times * sum})

\* The first detector that finds something decides.
Analysis(window) ==
  IF Len(window) < EnoughTx THEN NoFinding
  ELSE IF DetectBurst(window) > 0 THEN [type |-> "burst", severity |-> DetectBurst(window)]
  ELSE IF DetectHighFailureRate(window) > 0
       THEN [type |-> "failures", severity |-> DetectHighFailureRate(window)]
  ELSE IF DetectGasSpike(window) > 0
       THEN [type |-> "gas", severity |-> DetectGasSpike(window)]
  ELSE NoFinding

Rolled(window, tx) ==
  LET longer == Append(window, [timestamp |-> tx.timestamp, status |-> tx.status, gas |-> tx.gas])
  IN IF Len(longer) > RollingSize THEN Tail(longer) ELSE longer

-----------------------------------------------------------------------------
(* TransactionsService.record *)

\* Up to the save.  A timestamp of -1 is one the client left out.
Record(k) ==
  /\ txCalls[k].step = "idle"
  /\ WithinLimits
  /\ timestamps' = Within(timestamps, Hour)
  /\ \E c \in TxChains, t \in {-1} \cup 0..clock, o \in Outcomes :
       /\ txCalls' = [txCalls EXCEPT ![k] =
            [step |-> "save", chain |-> c, timestamp |-> t, status |-> o.status, gas |-> o.gas]]
       /\ overlapped' = (overlapped \/ t >= 0 \/ \E j \in TxCalls : txCalls[j].step # "idle")
  /\ UNCHANGED <<windows, clock, lastAlert>>

Refuse ==
  /\ ~WithinLimits
  /\ timestamps # Within(timestamps, Hour)
  /\ timestamps' = Within(timestamps, Hour)
  /\ UNCHANGED <<windows, txCalls, clock, lastAlert, overlapped>>

\* The row is inserted, its timestamp set.
Insert(k) ==
  /\ txCalls[k].step = "save"
  /\ txCalls' = [txCalls EXCEPT ![k].step = "saved",
                                ![k].timestamp = IF @ = -1 THEN clock ELSE @]
  /\ UNCHANGED <<timestamps, windows, clock, lastAlert, overlapped>>

\* From the end of the save: record, analyze and the answer.
CountAndAnalyze(k) ==
  LET tx == txCalls[k]
      window == Rolled(windows[tx.chain], tx)
      result == Analysis(window)
  IN
  /\ tx.step = "saved"
  /\ timestamps' = Append(timestamps, clock)
  /\ windows' = [windows EXCEPT ![tx.chain] = window]
  /\ lastAlert' = IF result = NoFinding THEN lastAlert
                  ELSE [type |-> result.type, size |-> BurstCount(window),
                        overlapped |-> overlapped]
  /\ txCalls' = [txCalls EXCEPT ![k] = IdleTx]
  /\ UNCHANGED <<clock, overlapped>>

\* The hash is taken or the insertion fails; or its answer is lost.
FailSave(k) ==
  /\ txCalls[k].step \in {"save", "saved"}
  /\ txCalls' = [txCalls EXCEPT ![k] = IdleTx]
  /\ UNCHANGED <<timestamps, windows, clock, lastAlert, overlapped>>

\* What is in memory is lost.
RestartTx ==
  /\ timestamps' = <<>> /\ windows' = [c \in TxChains |-> <<>>]
  /\ txCalls' = [k \in TxCalls |-> IdleTx]
  /\ overlapped' = FALSE
  /\ UNCHANGED <<clock, lastAlert>>

TickTx ==
  /\ clock < MaxClock /\ clock' = clock + 1
  /\ UNCHANGED <<timestamps, windows, txCalls, lastAlert, overlapped>>

TxNext ==
  \/ \E k \in TxCalls : Record(k) \/ Insert(k) \/ CountAndAnalyze(k) \/ FailSave(k)
  \/ Refuse \/ RestartTx \/ TickTx

TxSpec == TxInit /\ [][TxNext]_txVars

-----------------------------------------------------------------------------
(* Properties *)

LimitBounded ==
  /\ Len(Within(timestamps, Minute)) <= PerMinute + Cardinality(TxCalls) - 1
  /\ Len(Within(timestamps, Hour)) <= PerHour + Cardinality(TxCalls) - 1

BurstsWithinLimit ==
  lastAlert.type = "burst" /\ ~lastAlert.overlapped => lastAlert.size <= PerMinute

\* A transaction is counted after its save only: those that overlap may all pass
\* the check, but no minute and no hour counts more than one less than may overlap
\* over its limit, however slow the saves are.  The detection looks at the same
\* transactions through another clock: without overlap, and with the database's
\* timestamps, no burst is ever larger than what the limiter admits in a minute.
MerchantLimitBounded == LimitBounded /\ BurstsWithinLimit
=================================================================================
