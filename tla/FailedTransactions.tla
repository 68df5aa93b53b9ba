--------------------------- MODULE FailedTransactions ---------------------------
(***************************************************************************)
(* The failed transactions of wallets (apps/api/src/services): tracked     *)
(* with a category, summed up and answered with advice, in the memory of   *)
(* one process, where each call runs to its end within one turn.           *)
(*                                                                         *)
(* A transaction is given with its gas, price (in units of 0.001 gwei),    *)
(* limit and nonce, its revert reason as the pattern it matches first.     *)
(* Confidence, evidence, dollars and the daily trend are output only and   *)
(* left out.                                                               *)
(***************************************************************************)
EXTENDS Integers, FiniteSets, FiniteSetsExt, Functions, SequencesExt

CONSTANTS
  Wallets,        \* wallets whose transactions fail
  FailedTxs,      \* the transactions that may fail
  ManyFailures,   \* failures above which batching is recommended (10)
  ManyChains,     \* chains above which the chain strategy is (3)
  ChainFailures,  \* failures above which a chain has its own advice (5)
  Window,         \* minutes in which a repeated nonce is a conflict (5)
  MaxFailures,    \* bound on the failures of a wallet
  MaxMinute       \* bound on time

Reasons == {"none", "balance", "nonce", "slippage", "revert", "other"}

ASSUME FailedTransactionsAssumption ==
  /\ FailedTxs \subseteq [chain : Nat, gas : Nat, price : Nat, limit : Nat \ {0},
                          nonce : Nat, reason : Reasons]
  /\ {ManyFailures, ManyChains, ChainFailures, Window, MaxFailures, MaxMinute} \subseteq Nat

VARIABLES
  walletFailures,  \* per wallet: its failures, in the order in which they are stored
  advised,         \* per wallet: the last immediate mitigation, as the transaction to send
  minute           \* the clock

failureVars == <<walletFailures, advised, minute>>

NoAdvice == [tx |-> <<>>, cures |-> "none", used |-> 0]

FailureInit ==
  /\ walletFailures = [w \in Wallets |-> <<>>]
  /\ advised = [w \in Wallets |-> NoAdvice]
  /\ minute = 0

-----------------------------------------------------------------------------
(* Classification *)

GetNetworkGasPrice(chain) ==
  CASE chain = 137 -> 30000 [] chain = 56 -> 5000
    [] chain \in {42161, 10} -> 100 [] OTHER -> 20000

\* The percentage is cut off towards zero: 20.9 % below is 20 %, not more than it.
IsUnderpriced(tx) ==
  LET network == GetNetworkGasPrice(tx.chain) IN
  tx.price < network /\ ((network - tx.price) * 100) \div network > 20

OutOfGas(tx) == tx.gas * 1000 >= tx.limit * 995

CategoryOf(reason) ==
  CASE reason = "balance" -> "insufficient_balance" [] reason = "nonce" -> "nonce_conflict"
    [] reason = "slippage" -> "slippage_exceeded" [] reason = "revert" -> "contract_revert"
    [] OTHER -> "unknown"

HasSameNonce(failures, tx) ==
  \E i \in DOMAIN failures :
    failures[i].tx.nonce = tx.nonce /\ failures[i].timestamp > minute - Window

ClassifyFailure(failures, tx) ==
  IF IsUnderpriced(tx) THEN "underpriced_gas"
  ELSE IF OutOfGas(tx) THEN "out_of_gas"
  ELSE IF CategoryOf(tx.reason) # "unknown" THEN CategoryOf(tx.reason)
  ELSE IF HasSameNonce(failures, tx) THEN "nonce_conflict"
  ELSE "unknown"

Waste(failure) == failure.tx.gas * failure.tx.price

\* Of the failure whose advice this transaction follows, "cures" is the category and
\* "used" the gas.
Track(w, tx, timestamp, advice) ==
  /\ Len(walletFailures[w]) < MaxFailures
  /\ walletFailures' = [walletFailures EXCEPT ![w] = Append(@,
       [tx |-> tx, timestamp |-> timestamp, cures |-> advice.cures, used |-> advice.used,
        category |-> ClassifyFailure(walletFailures[w], tx)])]

\* The time may be the caller's, of a transaction that failed some time ago.
TrackFailedTransaction(w) ==
  /\ \E tx \in FailedTxs, timestamp \in 0 .. minute : Track(w, tx, timestamp, NoAdvice)
  /\ UNCHANGED <<advised, minute>>

-----------------------------------------------------------------------------
(* Analysis: of some of what a wallet has stored, by their places *)

FailuresOf(w, chains, from, to) ==
  {i \in DOMAIN walletFailures[w] : /\ walletFailures[w][i].tx.chain \in chains
                                    /\ walletFailures[w][i].timestamp \in from .. to}

WasteOf(stored, some) == SumFunctionOnSet([i \in DOMAIN stored |-> Waste(stored[i])], some)

OfCategory(stored, some, c) == {i \in some : stored[i].category = c}
OfChain(stored, some, c) == {i \in some : stored[i].tx.chain = c}

ChainsOf(stored, some) == {stored[i].tx.chain : i \in some}
CategoriesOf(stored, some) == {stored[i].category : i \in some}

CostMetrics(stored, some) ==
  [totalGasWasted |-> WasteOf(stored, some),
   wasteByCategory |-> [c \in CategoriesOf(stored, some) |->
                          WasteOf(stored, OfCategory(stored, some, c))],
   wasteByChain |-> [c \in ChainsOf(stored, some) |-> WasteOf(stored, OfChain(stored, some, c))]]

\* Of the most frequent ones the one stored first.
GetTopFailureCategory(stored, some) ==
  LET count(i) == Cardinality(OfCategory(stored, some, stored[i].category))
      top == {i \in some : \A j \in some : count(j) <= count(i)}
  IN IF some = {} THEN "unknown" ELSE stored[Min(top)].category

CalculateChainBreakdown(stored, some) ==
  [c \in ChainsOf(stored, some) |->
     LET own == OfChain(stored, some, c) IN
     [failures |-> Cardinality(own), gasWasted |-> WasteOf(stored, own),
      mostCommonCategory |-> GetTopFailureCategory(stored, own)]]

Advice(category, priority) == [category |-> category, priority |-> priority]

GetCategorySpecificRecommendations(category) ==
  CASE category \in {"underpriced_gas", "out_of_gas", "slippage_exceeded"} ->
         <<Advice(category, "high"), Advice(category, "medium")>>
    [] category \in {"nonce_conflict", "insufficient_balance"} -> <<Advice(category, "high")>>
    [] OTHER -> <<>>

GetPatternBasedRecommendations(breakdown, total) ==
  (IF total > ManyFailures THEN <<Advice("unknown", "medium")>> ELSE <<>>)
    \o (IF Cardinality(DOMAIN breakdown) > ManyChains THEN <<Advice("unknown", "low")>> ELSE <<>>)

\* Chain by chain, in the order of their numbers.
GetChainSpecificRecommendations(breakdown) ==
  LET own == {c \in DOMAIN breakdown \cap {1, 137, 42161} : breakdown[c].failures > ChainFailures}
      chain(p) == CHOOSE c \in own : Cardinality({d \in own : d < c}) = p - 1
  IN [p \in 1 .. Cardinality(own) |-> Advice(breakdown[chain(p)].mostCommonCategory, "medium")]

GetPriorityScore(priority) ==
  CASE priority = "high" -> 3 [] priority = "medium" -> 2 [] OTHER -> 1

\* By score, descending; the sort is stable.
MoreUrgent(all, i, k) ==
  \/ GetPriorityScore(all[i].priority) > GetPriorityScore(all[k].priority)
  \/ GetPriorityScore(all[i].priority) = GetPriorityScore(all[k].priority) /\ i < k

\* What is sorted to a place has so many before it; the first five are returned.
SortedByPriority(all) ==
  [p \in 1 .. IF Len(all) < 5 THEN Len(all) ELSE 5 |->
     all[CHOOSE i \in DOMAIN all : Cardinality({k \in DOMAIN all : MoreUrgent(all, k, i)}) = p - 1]]

GenerateRecommendations(stored, some) ==
  LET breakdown == CalculateChainBreakdown(stored, some) IN
  SortedByPriority(GetCategorySpecificRecommendations(GetTopFailureCategory(stored, some))
                     \o GetPatternBasedRecommendations(breakdown, Cardinality(some))
                     \o GetChainSpecificRecommendations(breakdown))

\* The costs are those of all times, whatever times are asked for.
AnalyzeWalletFailures(w, chains, from, to) ==
  LET stored == walletFailures[w]
      some == FailuresOf(w, chains, from, to)
  IN [totalFailures |-> Cardinality(some),
      cost |-> CostMetrics(stored, FailuresOf(w, chains, 0, minute)),
      topFailureCategory |-> GetTopFailureCategory(stored, some),
      chainBreakdown |-> CalculateChainBreakdown(stored, some),
      recommendations |-> GenerateRecommendations(stored, some)]

-----------------------------------------------------------------------------
(* Mitigation of the latest failure or of a named one, and the transaction sent again *)

CalculateOptimalGasPrice(chain) ==
  LET base == CASE chain = 1 -> 30000 [] chain = 137 -> 50000 [] chain = 56 -> 10000
                [] chain \in {42161, 10} -> 200 [] OTHER -> 20000
  IN (base * 120) \div 100

\* Mutant: the limit is raised only when it was all but used up, and to what was used.
MutCalculateOptimalGasLimit(tx) ==
  IF (tx.gas * 1000) \div tx.limit >= 1000 THEN (tx.limit * 130) \div 100 ELSE tx.gas

\* The utilisation is cut off: what is below 100 % counts as 99 % at most.
CalculateOptimalGasLimit(tx) ==
  LET utilization == (tx.gas * 100) \div tx.limit
      percent == IF utilization >= 100 THEN 130 ELSE IF utilization >= 95 THEN 120 ELSE 110
  IN (tx.limit * percent) \div 100

\* What to send instead, when the advice has parameters for it.
Mitigated(failure) ==
  CASE failure.category = "underpriced_gas" ->
         <<[failure.tx EXCEPT !.price = CalculateOptimalGasPrice(failure.tx.chain)]>>
    [] failure.category = "out_of_gas" ->
         <<[failure.tx EXCEPT !.limit = CalculateOptimalGasLimit(failure.tx)]>>
    [] OTHER -> <<>>

Newer(stored, i, k) ==
  \/ stored[i].timestamp > stored[k].timestamp
  \/ stored[i].timestamp = stored[k].timestamp /\ i < k

\* Which one is sorted to a place: so many are before it.
NewestAt(stored, p) ==
  CHOOSE i \in DOMAIN stored : Cardinality({k \in DOMAIN stored : Newer(stored, k, i)}) = p - 1

LatestFirst(stored) == [p \in DOMAIN stored |-> stored[NewestAt(stored, p)]]

Advise(w, failure) ==
  advised' = [advised EXCEPT ![w] =
    [tx |-> Mitigated(failure), cures |-> failure.category, used |-> failure.tx.gas]]

\* Any failure may be named by its hash. The latest is found by sorting the stored list
\* itself, which stays sorted.
GetImmediateMitigation(w) ==
  LET stored == walletFailures[w] IN
  /\ stored # <<>>
  /\ \/ \E i \in DOMAIN stored : Advise(w, stored[i]) /\ UNCHANGED walletFailures
     \/ /\ walletFailures' = [walletFailures EXCEPT ![w] = LatestFirst(stored)]
        /\ Advise(w, LatestFirst(stored)[1])
  /\ UNCHANGED minute

\* The wallet does as advised, the network's price being the same, and still fails: with the
\* gas used before or, what it needs being cut off by any limit, with all of the new one.
FailAgain(w) ==
  /\ advised[w].tx # <<>>
  /\ LET tx == advised[w].tx[1] IN
     \E gas \in {tx.gas, tx.limit} : Track(w, [tx EXCEPT !.gas = gas], minute, advised[w])
  /\ advised' = [advised EXCEPT ![w] = NoAdvice]
  /\ UNCHANGED minute

MinutePasses ==
  minute < MaxMinute /\ minute' = minute + 1 /\ UNCHANGED <<walletFailures, advised>>

FailureNext ==
  \/ \E w \in Wallets : TrackFailedTransaction(w) \/ GetImmediateMitigation(w) \/ FailAgain(w)
  \/ MinutePasses

FailureSpec == FailureInit /\ [][FailureNext]_failureVars

-----------------------------------------------------------------------------
\* What is wasted by category and by chain are two accounts of the same total, the
\* failures of the chains are those counted, and neither the order in which advice
\* has left the list nor the cut to five loses the advice on the top category
\* (calculateCostMetrics, calculateChainBreakdown, generateRecommendations).
AnalysisAddsUp(w, chains, from, to) ==
  LET a == AnalyzeWalletFailures(w, chains, from, to) IN
  /\ SumFunction(a.cost.wasteByCategory) = a.cost.totalGasWasted
  /\ SumFunction(a.cost.wasteByChain) = a.cost.totalGasWasted
  /\ SumFunction([c \in DOMAIN a.chainBreakdown |-> a.chainBreakdown[c].failures]) = a.totalFailures
  /\ SumFunction([c \in DOMAIN a.chainBreakdown |-> a.chainBreakdown[c].gasWasted])
       <= a.cost.totalGasWasted
  /\ GetCategorySpecificRecommendations(a.topFailureCategory) # <<>>
       => a.recommendations[1] = Advice(a.topFailureCategory, "high")

\* A transaction sent again with the suggested price is not underpriced again, and one sent
\* again with the suggested limit runs out only if it got further than before: it does not
\* fail once more at the gas it failed at (getImmediateMitigation against classifyFailure).
\* How much gas it needs nobody knows, so that it may run out again: what the advice adds,
\* "Transaction will execute successfully" (mitigation.service.ts:271), is not claimed.
RetriesDoBetter(w) ==
  \A i \in DOMAIN walletFailures[w] :
    LET f == walletFailures[w][i] IN
    /\ f.cures = "underpriced_gas" => f.category # "underpriced_gas"
    /\ f.cures = "out_of_gas" /\ f.category = "out_of_gas" => f.tx.gas > f.used

\* Advice fits: analyses add up for every choice of chains and times, and no retry that
\* followed the advice on a failure, the latest or a named one, fails as that one did,
\* whatever was tracked and asked before
\* (failed-transaction.service.ts, transaction-analysis.service.ts, mitigation.service.ts).
AdviceFits ==
  \A w \in Wallets :
    /\ RetriesDoBetter(w)
    /\ \A chains \in {ChainsOf(walletFailures[w], DOMAIN walletFailures[w]), {1}}, from \in 0 .. minute :
         AnalysisAddsUp(w, chains, from, minute)

===================================================================================
