------------------------------- MODULE SorobanRules -------------------------------
(***************************************************************************)
(* The Soroban rule engine and analyzer (packages/rules/src/soroban): what *)
(* each reports about a parsed contract, and the engine's rules being      *)
(* disabled, enabled and added again.                                      *)
(*                                                                         *)
(* All checks look for substrings, in the lower-case name of a function or *)
(* in its source.  A function is the set of the substrings (marks) its     *)
(* name and its source have, how often it reads and writes storage, and    *)
(* what its signature tells; a field likewise.  A mark that contains       *)
(* another brings it along.                                                *)
(***************************************************************************)
EXTENDS Integers, FiniteSets

CONSTANTS
  FunctionShapes,  \* functions that a contract may have
  FieldShapes,     \* fields that a contract may have
  Toggled,         \* ids of the rules that are disabled and enabled
  MaxFunctions,    \* bound on the functions of a contract
  MaxRuleChanges   \* bound on the changes of the engine

Substrings ==
  { <<"settle", "set">>, <<"pseudo_random", "random">>, <<"timestamp()", "timestamp">> }

Closed(marks) == \A p \in Substrings : p[1] \in marks => p[2] \in marks

RuleIds ==
  {"soroban-unused-state-variables", "soroban-inefficient-storage", "soroban-unbounded-loop",
   "soroban-expensive-strings", "soroban-missing-constructor", "soroban-admin-pattern",
   "soroban-inefficient-integers", "soroban-missing-error-handling",
   "soroban-emergency-withdrawal", "soroban-governance-voting", "soroban-claim-expiration",
   "soroban-anti-front-running", "soroban-secure-randomness", "soroban-upgrade-version-tracking"}

ASSUME SorobanAssumption ==
  /\ \A f \in FunctionShapes :
       /\ Closed(f.name) /\ Closed(f.source)
       /\ f.reads \in Nat /\ f.writes \in Nat
       /\ {f.result, f.constructor, f.address} \subseteq BOOLEAN
  /\ \A x \in FieldShapes : x.uses \in Nat /\ {x.admin, x.version, x.public} \subseteq BOOLEAN
  /\ Toggled \subseteq RuleIds /\ MaxFunctions \in Nat /\ MaxRuleChanges \in Nat

VARIABLES
  contract,     \* its functions and fields, numbered
  disabled,     \* ids of the rules that are disabled
  ruleChanges   \* changes of the engine so far

ruleVars == <<contract, disabled, ruleChanges>>

-----------------------------------------------------------------------------

Finding(id, severity, kind, which) == [rule |-> id, severity |-> severity, kind |-> kind, which |-> which]
OnFunctions(id, severity, c, Matches(_)) ==
  {Finding(id, severity, "function", i) : i \in {j \in DOMAIN c.functions : Matches(c.functions[j])}}
OnFields(id, severity, c, Matches(_)) ==
  {Finding(id, severity, "field", i) : i \in {j \in DOMAIN c.fields : Matches(c.fields[j])}}
OnContract(id, severity, matches) ==
  IF matches THEN {Finding(id, severity, "contract", 0)} ELSE {}

Named(f, marks) == f.name \cap marks # {}
Has(f, marks) == f.source \cap marks # {}

HasConstructor(c) == \E i \in DOMAIN c.functions : c.functions[i].constructor
HasAdmin(c) == \E i \in DOMAIN c.fields : c.fields[i].admin \/ c.fields[i].type = "Address"

Unused(x) == x.uses <= 2
Wide(x) == x.type \in {"u128", "i128"}

-----------------------------------------------------------------------------
(* The rules of the engine *)

\* Mutant: the declaration of a field counts as a use.
MutUnusedStateVariablesRule(c) ==
  OnFields("soroban-unused-state-variables", "Warning", c, LAMBDA x : x.uses < 2)

UnusedStateVariablesRule(c) == OnFields("soroban-unused-state-variables", "Warning", c, Unused)

InefficientStorageAccessRule(c) ==
  OnFunctions("soroban-inefficient-storage", "Medium", c, LAMBDA f : f.reads + f.writes > 3)

UnboundedLoopRule(c) ==
  OnFunctions("soroban-unbounded-loop", "High", c,
    LAMBDA f : Has(f, {"loop {", "while ", "for "}) /\ ~Has(f, {".len()", "range(", ".."}))

ExpensiveStringOperationsRule(c) ==
  OnFunctions("soroban-expensive-strings", "Medium", c,
    LAMBDA f : Has(f, {".to_string()", "String::from(", "format!("}))

MissingConstructorRule(c) == OnContract("soroban-missing-constructor", "Warning", ~HasConstructor(c))

AdminPatternRule(c) == OnContract("soroban-admin-pattern", "Info", ~HasAdmin(c))

InefficientIntegerTypesRule(c) == OnFields("soroban-inefficient-integers", "Info", c, Wide)

MissingErrorHandlingRule(c) ==
  OnFunctions("soroban-missing-error-handling", "Medium", c,
    LAMBDA f : Named(f, {"transfer", "mint", "burn", "set"}) /\ ~f.result)

EmergencyWithdrawalRule(c) ==
  OnFunctions("soroban-emergency-withdrawal", "High", c,
    LAMBDA f : /\ Named(f, {"emergency", "withdraw_all", "rescue"})
               /\ ~Has(f, {"require_auth", "authorize", "panic!"}))

\* Two findings of one rule, with a severity each.
GovernanceVotingRule(c) ==
  OnFunctions("soroban-governance-voting", "High", c,
    LAMBDA f : Named(f, {"vote", "propose", "ballot"}) /\ ~Has(f, {"require_auth", "authorize"}))
  \cup OnFunctions("soroban-governance-voting", "Warning", c,
    LAMBDA f : Named(f, {"propose"}) /\ ~Has(f, {"timestamp", "expiration"}))

ClaimExpirationRule(c) ==
  OnFunctions("soroban-claim-expiration", "Medium", c,
    LAMBDA f : /\ Named(f, {"claim", "settle", "redeem"})
               /\ ~Has(f, {"timestamp", "expiration", "expiry"}))

AntiFrontRunningRule(c) ==
  OnFunctions("soroban-anti-front-running", "High", c,
    LAMBDA f : /\ Named(f, {"transfer", "swap", "liquidate"})
               /\ ~Has(f, {"nonce", "deadline", "min_amount"}))

SecureRandomnessRule(c) ==
  OnFunctions("soroban-secure-randomness", "High", c,
    LAMBDA f : /\ Has(f, {"random", "seed"}) /\ Has(f, {"timestamp()", "sequence()"})
               /\ ~Has(f, {"pseudo_random"}))

UpgradeVersionTrackingRule(c) ==
  OnContract("soroban-upgrade-version-tracking", "Info",
    /\ \A i \in DOMAIN c.fields : ~c.fields[i].version
    /\ \A i \in DOMAIN c.functions : ~Named(c.functions[i], {"version"}))

DefaultRules(c) ==
  UnusedStateVariablesRule(c) \cup InefficientStorageAccessRule(c) \cup UnboundedLoopRule(c)
    \cup ExpensiveStringOperationsRule(c) \cup MissingConstructorRule(c) \cup AdminPatternRule(c)
    \cup InefficientIntegerTypesRule(c) \cup MissingErrorHandlingRule(c)
    \cup EmergencyWithdrawalRule(c) \cup GovernanceVotingRule(c) \cup ClaimExpirationRule(c)
    \cup AntiFrontRunningRule(c) \cup SecureRandomnessRule(c) \cup UpgradeVersionTrackingRule(c)

-----------------------------------------------------------------------------
(* SorobanAnalyzer, which every analysis runs first *)

AnalyzeContractType(c) ==
  OnFields("unused-state-variable", "Warning", c, Unused)
    \cup OnFields("inefficient-integer-type", "Info", c, Wide)
    \cup OnFields("string-instead-of-symbol", "Info", c, LAMBDA x : x.type = "String")
    \cup OnFields("private-contract-field", "Warning", c, LAMBDA x : ~x.public)

CheckExpensiveOperations(c) ==
  OnFunctions("expensive-string-operation", "Medium", c,
    LAMBDA f : Has(f, {".to_string()", "String::from("}))
  \cup OnFunctions("vec-without-capacity", "Medium", c,
    LAMBDA f : Has(f, {"Vec::new()"}) /\ ~Has(f, {"with_capacity"}))
  \cup OnFunctions("unnecessary-clone", "Medium", c, LAMBDA f : Has(f, {".clone()"}))

CheckParameterValidation(c) ==
  OnFunctions("missing-address-validation", "Medium", c,
    LAMBDA f : f.address /\ Named(f, {"set", "transfer"}))

CheckReturnValues(c) ==
  OnFunctions("missing-error-handling", "Medium", c,
    LAMBDA f : Named(f, {"transfer", "mint", "burn"}) /\ ~f.result)

CheckUnboundedLoops(c) ==
  OnFunctions("unbounded-loop", "High", c,
    LAMBDA f : Has(f, {"for ", "while "}) /\ ~Has(f, {".len()", "range("}))

CheckStoragePatterns(c) ==
  OnFunctions("inefficient-storage-access", "Medium", c, LAMBDA f : f.reads > 2)

AnalyzeContractStructure(c) ==
  OnContract("missing-constructor", "Warning", ~HasConstructor(c))
    \cup OnContract("missing-admin-pattern", "Info", ~HasAdmin(c))

AnalyzeContract(c) ==
  AnalyzeContractType(c) \cup CheckExpensiveOperations(c) \cup CheckParameterValidation(c)
    \cup CheckReturnValues(c) \cup CheckUnboundedLoops(c) \cup CheckStoragePatterns(c)
    \cup AnalyzeContractStructure(c)

\* The analyzer's findings stay whatever rule is disabled.
Analyze(c) == AnalyzeContract(c) \cup {v \in DefaultRules(c) : v.rule \notin disabled}

-----------------------------------------------------------------------------
(* The engine *)

RulesInit ==
  /\ \E n \in 0..MaxFunctions, fields \in {0, 1} :
       contract \in [functions : [1..n -> FunctionShapes], fields : [1..fields -> FieldShapes]]
  /\ disabled = {} /\ ruleChanges = 0

SetRuleEnabled ==
  /\ ruleChanges < MaxRuleChanges
  /\ \E id \in Toggled : disabled' \in {disabled \cup {id}, disabled \ {id}}
  /\ ruleChanges' = ruleChanges + 1
  /\ UNCHANGED contract

\* add_rule replaces the rule of the same id: a disabled one is enabled by it.
AddRule ==
  /\ ruleChanges < MaxRuleChanges
  /\ \E id \in disabled : disabled' = disabled \ {id}
  /\ ruleChanges' = ruleChanges + 1
  /\ UNCHANGED contract

RulesNext == SetRuleEnabled \/ AddRule

RulesSpec == RulesInit /\ [][RulesNext]_ruleVars

-----------------------------------------------------------------------------
(* Properties *)

Places(findings, rule) == {<<v.kind, v.which>> : v \in {w \in findings : w.rule = rule}}
SameAs ==
  { <<"unused-state-variable", "soroban-unused-state-variables">>,
    <<"inefficient-integer-type", "soroban-inefficient-integers">>,
    <<"missing-constructor", "soroban-missing-constructor">>,
    <<"missing-admin-pattern", "soroban-admin-pattern">> }
Narrower ==
  { <<"expensive-string-operation", "soroban-expensive-strings">>,
    <<"missing-error-handling", "soroban-missing-error-handling">> }

\* SorobanAnalyzer and the engine have checks of their own for the same mistakes: four
\* find them in the same places and two of the analyzer's in no place that the engine's
\* pass, so that nothing they report is lost or contradicted by the other.  (The loop
\* and the storage checks are not among them: they differ in both directions.)
TwinsAgree ==
  LET analyzer == AnalyzeContract(contract)
      engine == DefaultRules(contract)
  IN /\ \A p \in SameAs : Places(analyzer, p[1]) = Places(engine, p[2])
     /\ \A p \in Narrower : Places(analyzer, p[1]) \subseteq Places(engine, p[2])
=================================================================================
