------------------------------ MODULE SuspiciousGas ------------------------------
(***************************************************************************)
(* Suspicious gas patterns of one account on one chain                     *)
(* (apps/api-service/src/analytics): the detection of a transaction, the   *)
(* pattern it is added to, and the reviewers who settle patterns.          *)
(*                                                                         *)
(* The table of transactions belongs to others: how many there are and     *)
(* which baseline they give is any of what the constants list.  Every      *)
(* round trip is a step and may fail; saves are those of EntitySave.       *)
(* Severities are 1 to 3.  decimal columns are read as text, which         *)
(* arithmetic turns back into numbers and === 0 does not.                  *)
(***************************************************************************)
EXTENDS Integers, Sequences, EntitySave

CONSTANTS
  Detections,    \* transactions that may be processed at a time
  Reviewers,     \* decisions that may be under way at a time
  GasTxs,        \* gas used and gas price that a transaction may have
  Baselines,     \* baselines that the transactions of thirty days may give
  TxCounts,      \* numbers of transactions that the account may have
  MinSamples,    \* minBaselineSamples
  MaxPatterns,   \* bound on the patterns
  MaxDetections  \* bound on the transactions flagged

NoBaseline == [avg |-> 0, dev |-> 0, price |-> 0, freq |-> 0, samples |-> 0]

ASSUME SuspiciousGasAssumption ==
  /\ GasTxs \subseteq [gas : Nat, price : Nat]
  /\ Baselines \subseteq [avg : Nat, dev : Nat, price : Nat, freq : Nat \ {0}, samples : Nat]
  /\ TxCounts \subseteq Nat /\ MinSamples \in Nat \ {0}
  /\ MaxPatterns \in Nat /\ MaxDetections \in Nat

VARIABLES
  patterns,    \* the patterns in the order of their creation
  baseline,    \* the baseline that is saved, NoBaseline when there is none
  detections,  \* the transactions being processed
  reviews,     \* the decisions under way
  tally,       \* per pattern: detections added or being added, first and highest severity
  settled      \* patterns decided while no call held what it had read of them before

suspicionVars == <<patterns, baseline, detections, reviews, tally, settled>>

-----------------------------------------------------------------------------
(* Detection *)

NotSuspicious == [type |-> "none", severity |-> 0, finite |-> TRUE]
Suspicious(type, severity) == [type |-> type, severity |-> severity, finite |-> TRUE]
Infinite(type) == [type |-> type, severity |-> 3, finite |-> FALSE]

\* z-scores of 2, 3 and 5.  A deviation of zero counts as a score of zero only while
\* it is a number: read as text it divides, and what is above the mean is infinite.
AbnormalGasUsage(tx, b, text) ==
  LET above(z) == tx.gas - b.avg > z * b.dev IN
  IF b.samples < MinSamples THEN NotSuspicious
  ELSE IF b.dev = 0 THEN IF text /\ tx.gas > b.avg THEN Infinite("usage") ELSE NotSuspicious
  ELSE IF above(5) THEN Suspicious("usage", 3)
  ELSE IF above(3) THEN Suspicious("usage", 2)
  ELSE IF above(2) THEN Suspicious("usage", 1)
  ELSE NotSuspicious

\* All transactions of the account against an hour's, not those of the last hour.
FrequencyAnomaly(count, b) ==
  IF b # NoBaseline
  THEN IF count > b.freq * 50 THEN Suspicious("frequency", 3)
       ELSE IF count > b.freq * 20 THEN Suspicious("frequency", 2)
       ELSE IF count > b.freq * 10 THEN Suspicious("frequency", 1)
       ELSE NotSuspicious
  ELSE IF count > 100 THEN Suspicious("bot", 2) ELSE NotSuspicious

GasPriceManipulation(tx, b) ==
  IF b.samples < MinSamples THEN NotSuspicious
  ELSE IF b.price = 0 THEN IF tx.price > 0 THEN Infinite("price") ELSE NotSuspicious
  ELSE IF tx.price > 10 * b.price THEN Suspicious("price", 3)
  ELSE IF tx.price > 5 * b.price THEN Suspicious("price", 2)
  ELSE NotSuspicious

-----------------------------------------------------------------------------
(* processTransaction *)

NoPattern == [type |-> "none", severity |-> 1, status |-> "active", flagged |-> 0, deleted |-> TRUE]
IdleDetection ==
  [step |-> "idle", tx |-> [gas |-> 0, price |-> 0], b |-> NoBaseline, result |-> NotSuspicious,
   row |-> 0, entity |-> NoPattern, loaded |-> NoPattern]
IdleReview == [step |-> "idle", row |-> 0, entity |-> NoPattern, loaded |-> NoPattern]

SuspicionInit ==
  /\ patterns = <<>> /\ tally = <<>> /\ settled = {}
  /\ baseline = NoBaseline
  /\ detections = [d \in Detections |-> IdleDetection]
  /\ reviews = [r \in Reviewers |-> IdleReview]

Decided(p) == ~p.deleted /\ p.status # "active"
Held(i) == \/ \E d \in Detections : detections'[d].row = i
           \/ \E r \in Reviewers : reviews'[r].row = i

\* Every step ends with it.
Settle == settled' = settled \cup {i \in DOMAIN patterns' : Decided(patterns'[i]) /\ ~Held(i)}

Become(d, call) == detections' = [detections EXCEPT ![d] = call]

\* Flagging what a detector found, or going on to the next one.
Conclude(d, call, result, next) ==
  Become(d, IF result.severity > 0 THEN [IdleDetection EXCEPT !.step = "flag", !.result = result]
            ELSE IF next = "done" THEN IdleDetection ELSE [call EXCEPT !.step = next])

ProcessTransaction(d) ==
  /\ detections[d].step = "idle"
  /\ \E tx \in GasTxs : Become(d, [IdleDetection EXCEPT !.step = "baseline", !.tx = tx])
  /\ UNCHANGED <<patterns, baseline, reviews, tally>> /\ Settle

\* getOrComputeBaseline: what is found is text; else it is computed, from enough
\* samples, and saved.  Overlapping calls may save one each: they are equally good.
GetOrComputeBaseline(b) ==
  IF baseline # NoBaseline THEN b = baseline /\ UNCHANGED baseline
  ELSE /\ b \in {NoBaseline} \cup {c \in Baselines : c.samples >= MinSamples}
       /\ baseline' = b

DetectAbnormalGasUsage(d) ==
  LET call == detections[d] IN
  /\ call.step = "baseline"
  /\ \E b \in Baselines \cup {NoBaseline} :
       /\ GetOrComputeBaseline(b)
       /\ Conclude(d, [call EXCEPT !.b = b],
                   AbnormalGasUsage(call.tx, b, baseline # NoBaseline), "frequency")
  /\ UNCHANGED <<patterns, reviews, tally>> /\ Settle

\* Counts, and gets the baseline once more.  The price goes by the first one.
DetectFrequencyAnomaly(d) ==
  LET call == detections[d] IN
  /\ call.step = "frequency"
  /\ \E count \in TxCounts, b \in Baselines \cup {NoBaseline} :
       /\ GetOrComputeBaseline(b)
       /\ LET frequency == FrequencyAnomaly(count, b) IN
            Conclude(d, call, IF frequency.severity > 0 THEN frequency
                              ELSE GasPriceManipulation(call.tx, call.b), "done")
  /\ UNCHANGED <<patterns, reviews, tally>> /\ Settle

(* flagAccount *)

Worse(severity, other) == IF other > severity THEN other ELSE severity

\* Mutant: the latest severity replaces the worst.
MutHigher(p, severity) == [p EXCEPT !.flagged = @ + 1, !.severity = severity]

Higher(p, severity) == [p EXCEPT !.flagged = @ + 1, !.severity = Worse(@, severity)]

ActiveOfType(type) ==
  {i \in DOMAIN patterns : /\ ~patterns[i].deleted /\ patterns[i].status = "active"
                           /\ patterns[i].type = type}

\* A score that is infinite does not fit its column: the save fails, and with it all
\* that is left of the call.
FindActivePattern(d) ==
  LET call == detections[d] found == ActiveOfType(call.result.type) IN
  /\ call.step = "flag"
  /\ IF ~call.result.finite THEN Become(d, IdleDetection) /\ UNCHANGED tally
     ELSE IF found = {} THEN Become(d, [call EXCEPT !.step = "insert"]) /\ UNCHANGED tally
     ELSE \E i \in found :
            /\ Become(d, [IdleDetection EXCEPT !.step = "load", !.row = i,
                                               !.entity = Higher(patterns[i], call.result.severity)])
            /\ tally[i].detections < MaxDetections
            /\ tally' = [tally EXCEPT ![i].detections = @ + 1,
                                      ![i].highest = Worse(@, call.result.severity)]
  /\ UNCHANGED <<patterns, baseline, reviews>> /\ Settle

InsertPattern(d) ==
  LET call == detections[d] severity == call.result.severity IN
  /\ call.step = "insert" /\ Len(patterns) < MaxPatterns
  /\ patterns' = Append(patterns, [type |-> call.result.type, severity |-> severity,
                                   status |-> "active", flagged |-> 1, deleted |-> FALSE])
  /\ tally' = Append(tally, [detections |-> 1, first |-> severity, highest |-> severity])
  /\ Become(d, [IdleDetection EXCEPT !.step = "log"])
  /\ UNCHANGED <<baseline, reviews>> /\ Settle

\* The two halves of a save; a row that is gone is inserted again.
LoadPattern(d) ==
  /\ detections[d].step = "load"
  /\ Become(d, [detections[d] EXCEPT !.step = "update", !.loaded = patterns[detections[d].row]])
  /\ UNCHANGED <<patterns, baseline, reviews, tally>> /\ Settle

Saved(call) ==
  IF call.loaded.deleted THEN call.entity
  ELSE IF patterns[call.row].deleted THEN patterns[call.row]
  ELSE Merged(patterns[call.row], call.loaded, call.entity)

UpdatePattern(d) ==
  LET call == detections[d] IN
  /\ call.step = "update"
  /\ patterns' = [patterns EXCEPT ![call.row] = Saved(call)]
  /\ Become(d, [IdleDetection EXCEPT !.step = "log"])
  /\ UNCHANGED <<baseline, reviews, tally>> /\ Settle

\* What is logged is read by nobody.
LogDetection(d) ==
  /\ detections[d].step = "log"
  /\ Become(d, IdleDetection)
  /\ UNCHANGED <<patterns, baseline, reviews, tally>> /\ Settle

FailDetection(d) ==
  /\ detections[d].step # "idle"
  /\ Become(d, IdleDetection)
  /\ UNCHANGED <<patterns, baseline, reviews, tally>> /\ Settle

-----------------------------------------------------------------------------
(* SuspiciousGasController *)

\* POST :id/review, :id/clear and :id/confirm
Decide(r) ==
  /\ reviews[r].step = "idle"
  /\ \E i \in DOMAIN patterns, status \in {"reviewed", "cleared", "confirmed_abuse"} :
       /\ ~patterns[i].deleted
       /\ reviews' = [reviews EXCEPT ![r] =
            [step |-> "load", row |-> i, entity |-> [patterns[i] EXCEPT !.status = status],
             loaded |-> NoPattern]]
  /\ UNCHANGED <<patterns, baseline, detections, tally>> /\ Settle

LoadDecided(r) ==
  /\ reviews[r].step = "load"
  /\ reviews' = [reviews EXCEPT ![r].step = "update", ![r].loaded = patterns[reviews[r].row]]
  /\ UNCHANGED <<patterns, baseline, detections, tally>> /\ Settle

SaveDecision(r) ==
  /\ reviews[r].step = "update"
  /\ patterns' = [patterns EXCEPT ![reviews[r].row] = Saved(reviews[r])]
  /\ reviews' = [reviews EXCEPT ![r] = IdleReview]
  /\ UNCHANGED <<baseline, detections, tally>> /\ Settle

FailDecision(r) ==
  /\ reviews[r].step # "idle"
  /\ reviews' = [reviews EXCEPT ![r] = IdleReview]
  /\ UNCHANGED <<patterns, baseline, detections, tally>> /\ Settle

\* clearOldFlags, thirty days later: no call lasts that long.
ClearOldFlags ==
  /\ \A d \in Detections : detections[d].step = "idle"
  /\ \A r \in Reviewers : reviews[r].step = "idle"
  /\ \E i \in DOMAIN patterns : ~patterns[i].deleted /\ patterns[i].status = "cleared"
  /\ patterns' = [i \in DOMAIN patterns |->
       [patterns[i] EXCEPT !.deleted = @ \/ patterns[i].status = "cleared"]]
  /\ UNCHANGED <<baseline, detections, reviews, tally>> /\ Settle

\* updateBaseline saves a further one; which of them a query finds is not said.
UpdateBaseline ==
  /\ baseline' \in {baseline} \cup {b \in Baselines : b.samples >= MinSamples}
  /\ UNCHANGED <<patterns, detections, reviews, tally>> /\ Settle

SuspicionNext ==
  \/ \E d \in Detections :
       \/ ProcessTransaction(d) \/ DetectAbnormalGasUsage(d) \/ DetectFrequencyAnomaly(d)
       \/ FindActivePattern(d) \/ InsertPattern(d) \/ LoadPattern(d) \/ UpdatePattern(d)
       \/ LogDetection(d) \/ FailDetection(d)
  \/ \E r \in Reviewers : Decide(r) \/ LoadDecided(r) \/ SaveDecision(r) \/ FailDecision(r)
  \/ ClearOldFlags \/ UpdateBaseline

SuspicionSpec == SuspicionInit /\ [][SuspicionNext]_suspicionVars

-----------------------------------------------------------------------------
(* Properties *)

FindingTypes == {"none", "usage", "frequency", "bot", "price"}
Findings == [type : FindingTypes, severity : 0..3, finite : BOOLEAN]
PatternStates ==
  [type : FindingTypes, severity : 1..3, flagged : Nat, deleted : BOOLEAN,
   status : {"active", "reviewed", "cleared", "confirmed_abuse"}]
TallyStates == [detections : Nat, first : 1..3, highest : 1..3]
DetectionStates ==
  [step : {"idle", "baseline", "frequency", "flag", "insert", "load", "update", "log"},
   tx : GasTxs \cup {[gas |-> 0, price |-> 0]}, b : Baselines \cup {NoBaseline},
   result : Findings, row : Nat, entity : PatternStates, loaded : PatternStates]
ReviewStates ==
  [step : {"idle", "load", "update"}, row : Nat, entity : PatternStates, loaded : PatternStates]

SuspicionTypeOK ==
  /\ \E n \in Nat : patterns \in [1..n -> PatternStates] /\ tally \in [1..n -> TallyStates]
  /\ settled \subseteq DOMAIN patterns
  /\ baseline \in Baselines \cup {NoBaseline}
  /\ detections \in [Detections -> DetectionStates]
  /\ reviews \in [Reviewers -> ReviewStates]

\* flagAccount saves what overlapping calls have read: a pattern may lose detections and
\* a worse severity, but it never counts more than concerned it, is never milder than
\* what it was raised for nor worse than anything found; and a reviewer's decision
\* stands once the calls that read the pattern before it have ended.
PatternsAreBacked ==
  \A i \in DOMAIN patterns :
    /\ patterns[i].flagged \in 1..tally[i].detections
    /\ patterns[i].severity \in tally[i].first..tally[i].highest
    /\ i \in settled => patterns[i].status # "active"
=================================================================================
