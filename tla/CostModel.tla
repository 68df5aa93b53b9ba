-------------------------------- MODULE CostModel --------------------------------
(***************************************************************************)
(* The cost model of a Soroban transaction (src/cost_model.py): fees,      *)
(* scores, hints and safety violations computed from what a simulation     *)
(* says that it uses.                                                      *)
(*                                                                         *)
(* Two analyses are compared: that of a transaction and that of one that   *)
(* uses more of one resource.  Fractions are exact, where the code's are   *)
(* floating-point numbers: a score that it cuts to an integer may be one   *)
(* lower.  The penalties for memory and for the share of a ledger's        *)
(* instructions, which nothing decides on, are left out; as no transaction *)
(* uses half of a ledger, so is the hint about that share.                 *)
(***************************************************************************)
EXTENDS Integers, Functions, Sequences

CONSTANTS
  TxLimits,     \* the limit of each resource for a transaction
  CPUIncrement, \* instructions that are charged for together
  KB,           \* bytes that are charged for together (1024)
  UnitFees,     \* fee per increment, entry or KB, of each resource but memory
  Whole,        \* a common multiple of the limits of the ledger's resources
  Levels        \* per resource: the amounts to look at, rising

LedgerResources == {"read_entries", "read_bytes", "write_entries", "write_bytes", "bandwidth"}
Resources == {"cpu", "memory"} \cup LedgerResources

ASSUME CostModelAssumption ==
  /\ TxLimits \in [Resources -> Nat \ {0}] /\ UnitFees \in [Resources \ {"memory"} -> Nat]
  /\ {CPUIncrement, KB, Whole} \subseteq Nat \ {0}
  /\ \A r \in LedgerResources : Whole % TxLimits[r] = 0
  /\ \A r \in Resources :
       /\ Levels[r] \in Seq(0 .. TxLimits[r]) /\ Len(Levels[r]) > 0
       /\ \A i, k \in DOMAIN Levels[r] : i < k => Levels[r][i] < Levels[r][k]

VARIABLES
  level,   \* per resource: which of its amounts the transaction uses
  grown    \* the resource that it uses more of than the one before, if any

costVars == <<level, grown>>

-----------------------------------------------------------------------------
(* Costs *)

Amount(l, r) == Levels[r][l[r]]

Ceiling(n, d) == (n + d - 1) \div d

ComputeCPUCost(l) == Ceiling(Amount(l, "cpu"), CPUIncrement) * UnitFees["cpu"]

Charged(l, r) ==
  IF r \in {"read_entries", "write_entries"} THEN Amount(l, r) ELSE Ceiling(Amount(l, r), KB)

ComputeLedgerCost(l) ==
  SumFunctionOnSet([r \in LedgerResources |-> Charged(l, r) * UnitFees[r]], LedgerResources)

\* The mean of the five utilisations: a fraction of 5 * Whole.
LedgerComposite(l) ==
  SumFunctionOnSet([r \in LedgerResources |-> Amount(l, r) * (Whole \div TxLimits[r])],
                   LedgerResources)

\* More than so many per cent.
Above(l, r, percent) == 100 * Amount(l, r) > percent * TxLimits[r]

-----------------------------------------------------------------------------
(* Scores *)

\* Of n / d: 100 to 80 below a half, to 50 below four fifths, to 0 below one.
ScoreDimension(n, d) ==
  CASE 2 * n < d -> (100 * d - 40 * n) \div d
    [] 2 * n >= d /\ 10 * n < 8 * d -> (130 * d - 100 * n) \div d
    [] OTHER -> IF n > d THEN 0 ELSE (250 * d - 250 * n) \div d

ComputeScores(l) ==
  LET cpu == ScoreDimension(Amount(l, "cpu"), TxLimits["cpu"])
      memory == ScoreDimension(Amount(l, "memory"), TxLimits["memory"])
      ledger == ScoreDimension(LedgerComposite(l), 5 * Whole)
  IN [cpu |-> cpu, memory |-> memory, ledger |-> ledger,
      total |-> (4 * cpu + 2 * memory + 4 * ledger) \div 10]

-----------------------------------------------------------------------------
(* Hints *)

Severity(l, r) ==
  CASE r = "cpu" /\ Above(l, r, 80) -> "CRITICAL"
    [] r = "cpu" /\ Above(l, r, 60) /\ ~Above(l, r, 80) -> "HIGH"
    [] r = "memory" /\ Above(l, r, 70) -> "CRITICAL"
    [] r = "memory" /\ Above(l, r, 50) /\ ~Above(l, r, 70) -> "MODERATE"
    [] r \in LedgerResources /\ Above(l, r, 75) -> "HIGH"
    [] OTHER -> "none"

RedundantReads(l) == Above(l, "cpu", 70) /\ Above(l, "read_entries", 50)

GenerateHints(l) ==
  {<<Severity(l, r), r>> : r \in {r \in Resources : Severity(l, r) # "none"}}
    \cup (IF RedundantReads(l) THEN {<<"TIP", "cpu">>} ELSE {})

\* What 95 per cent of a limit does not cover.
SafetyViolations(l) == {r \in Resources : Above(l, r, 95)}

AnalyzeTransaction(l) ==
  [fee |-> ComputeCPUCost(l) + ComputeLedgerCost(l), scores |-> ComputeScores(l),
   hints |-> GenerateHints(l), violations |-> SafetyViolations(l)]

-----------------------------------------------------------------------------
CostInit == level = [r \in Resources |-> 1] /\ grown = {}

UseMore ==
  \E r \in Resources :
    /\ level[r] < Len(Levels[r])
    /\ level' = [level EXCEPT ![r] = @ + 1]
    /\ grown' = {r}

CostNext == UseMore

CostSpec == CostInit /\ [][CostNext]_costVars

-----------------------------------------------------------------------------
Before == [r \in Resources |-> IF r \in grown THEN level[r] - 1 ELSE level[r]]

\* To use more of anything never costs less and never scores higher in any dimension;
\* scores stay between 0 and 100 across the three bands; what breaks the safety margin is
\* hinted at; and a transaction without a hint, which is called excellent, scores at least
\* 66 (score_dimension, compute_scores, generate_hints, analyze_transaction).
AnalysisIsMonotone ==
  LET before == AnalyzeTransaction(Before)
      now == AnalyzeTransaction(level)
  IN /\ before.fee <= now.fee
     /\ \A dimension \in DOMAIN now.scores :
          /\ now.scores[dimension] <= before.scores[dimension]
          /\ now.scores[dimension] \in 0 .. 100
     /\ before.violations \subseteq now.violations
     /\ \A r \in now.violations : \E hint \in now.hints : hint[2] = r
     /\ now.hints = {} => now.scores.total >= 66
==================================================================================
