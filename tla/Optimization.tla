------------------------------- MODULE Optimization -------------------------------
(***************************************************************************)
(* Suggestions to save gas (apps/api-service/src/optimization): a          *)
(* merchant's transactions are analysed, suggestions derived from them and *)
(* saved one by one, and what was ever suggested is summed up.             *)
(*                                                                         *)
(* One merchant.  Every round trip is a step and may fail, which fails the *)
(* request and leaves what it saved.  Averages and savings are compared as *)
(* fractions; savings are kept up to a positive factor.  The database      *)
(* gives back decimals as text: a sum over them is no number.              *)
(***************************************************************************)
EXTENDS Integers, FiniteSets, FiniteSetsExt, Functions, SequencesExt

CONSTANTS
  MerchantTxs,        \* what a transaction may be
  PastTransactions,   \* the histories a merchant may begin with
  ManyTransactions,   \* more than these are to be batched (100)
  OptimizationCalls,  \* requests that may be under way at a time
  MaxTransactions,    \* bound on the transactions
  MaxSuggestions      \* bound on the suggestions kept

\* A price of 0 stands for none.
ASSUME OptimizationAssumption ==
  /\ MerchantTxs \subseteq [chain : STRING, hour : 0 .. 23, gas : Nat, fee : Nat, price : Nat,
                            status : {"success", "failed", "pending"}]
  /\ PastTransactions \subseteq Seq(MerchantTxs)
  /\ {ManyTransactions, MaxTransactions, MaxSuggestions} \subseteq Nat

VARIABLES
  merchantTxs,   \* the merchant's transactions within the days looked back
  suggestions,   \* the suggestions saved, in order
  inquiries      \* the requests under way or answered

optimizationVars == <<merchantTxs, suggestions, inquiries>>

-----------------------------------------------------------------------------
(* Analysis *)

OfHour(txs, hour) == {i \in DOMAIN txs : txs[i].hour = hour}
OnChain(txs, chain) == {i \in DOMAIN txs : txs[i].chain = chain}
Priced(txs) == {txs[i].price : i \in DOMAIN txs} \ {0}

GasSum(txs, some) == SumFunctionOnSet([i \in DOMAIN txs |-> txs[i].gas], some)
FeeSum(txs, some) == SumFunctionOnSet([i \in DOMAIN txs |-> txs[i].fee], some)

\* Mutant: only the prices of successful transactions are summed up.
MutPriceSum(txs, some) ==
  SumFunctionOnSet([i \in DOMAIN txs |-> IF txs[i].status = "success" THEN txs[i].price ELSE 0], some)

\* Divided by the number of all transactions, those without a price among them.
PriceSum(txs, some) == SumFunctionOnSet([i \in DOMAIN txs |-> txs[i].price], some)

Successful(txs, some) == Cardinality({i \in some : txs[i].status = "success"})

ChainBreakdown(txs) ==
  [c \in {txs[i].chain : i \in DOMAIN txs} |->
     LET own == OnChain(txs, c) IN
     [count |-> Cardinality(own), gas |-> GasSum(txs, own), fee |-> FeeSum(txs, own),
      succeeded |-> Successful(txs, own)]]

TimeBasedPatterns(txs) ==
  [h \in {txs[i].hour : i \in DOMAIN txs} |->
     LET own == OfHour(txs, h) IN
     [count |-> Cardinality(own), price |-> PriceSum(txs, own), fee |-> FeeSum(txs, own)]]

\* min and max are numerators over count, like the sum.
GasPriceVolatility(txs) ==
  LET n == Len(txs)
      sum == PriceSum(txs, DOMAIN txs)
  IN IF Priced(txs) = {} THEN [min |-> sum, max |-> sum, sum |-> sum]
     ELSE [min |-> n * Min(Priced(txs)), max |-> n * Max(Priced(txs)), sum |-> sum]

AnalyzeMerchantTransactions(txs) ==
  [total |-> Len(txs), failed |-> Len(txs) - Successful(txs, DOMAIN txs),
   gas |-> GasSum(txs, DOMAIN txs), fee |-> FeeSum(txs, DOMAIN txs),
   chains |-> ChainBreakdown(txs), hours |-> TimeBasedPatterns(txs),
   prices |-> GasPriceVolatility(txs)]

-----------------------------------------------------------------------------
(* Suggestions: none or one of each kind *)

Suggestion(type, savings, priority) ==
  <<[type |-> type, savings |-> savings, priority |-> priority, status |-> "pending"]>>

\* The breakdown has no avgCostPerTransaction: no chain passes the filter.
ChainSwitchSuggestions(a) == <<>>

CheaperHour(hours, h, k) ==
  LET difference == hours[h].price * hours[k].count - hours[k].price * hours[h].count IN
  difference < 0 \/ (difference = 0 /\ h < k)

\* The first and the last of the hours sorted; the sort is stable: of hours of one average
\* the earlier comes first.
TimingAdjustmentSuggestions(a) ==
  LET hours == DOMAIN a.hours
      low == a.hours[CHOOSE h \in hours : \A k \in hours : k = h \/ CheaperHour(a.hours, h, k)]
      high == a.hours[CHOOSE h \in hours : \A k \in hours : k = h \/ CheaperHour(a.hours, k, h)]
  IN IF 2 * high.price * low.count > 3 * low.price * high.count
     THEN Suggestion("TimingAdjustment", high.price * low.count - low.price * high.count, 3)
     ELSE <<>>

BatchOptimizationSuggestions(a) ==
  IF a.total > ManyTransactions THEN Suggestion("BatchOptimization", a.fee, 2) ELSE <<>>

\* More than 5 % not successful, those that are pending among them.
FailedTransactionReductionSuggestions(a) ==
  IF 20 * a.failed > a.total
  THEN Suggestion("FailedTransactionReduction", a.failed * a.gas, 5) ELSE <<>>

\* A volatility of more than a half.
GasPriceOptimizationSuggestions(a) ==
  IF 2 * (a.prices.max - a.prices.min) > a.prices.max
  THEN Suggestion("GasPriceOptimization", a.prices.sum - a.prices.min, 3) ELSE <<>>

GenerateOptimizationSuggestions(a) ==
  ChainSwitchSuggestions(a) \o TimingAdjustmentSuggestions(a) \o BatchOptimizationSuggestions(a)
    \o FailedTransactionReductionSuggestions(a) \o GasPriceOptimizationSuggestions(a)

-----------------------------------------------------------------------------
\* saved are the rows that the request has saved itself.
IdleInquiry == [step |-> "idle", txs |-> <<>>, todo |-> <<>>, saved |-> <<>>]

OptimizationInit ==
  /\ merchantTxs \in PastTransactions /\ suggestions = <<>>
  /\ inquiries = [q \in OptimizationCalls |-> IdleInquiry]

Proceed(q, call) == inquiries' = [inquiries EXCEPT ![q] = call]

TransactionRecorded ==
  /\ Len(merchantTxs) < MaxTransactions
  /\ \E tx \in MerchantTxs : merchantTxs' = Append(merchantTxs, tx)
  /\ UNCHANGED <<suggestions, inquiries>>

\* GET :merchantId/cost-optimization; without transactions it fails.
GetTransactionAnalysis(q) ==
  /\ inquiries[q].step = "idle"
  /\ merchantTxs # <<>>
  /\ Proceed(q, [IdleInquiry EXCEPT !.step = "chains", !.txs = merchantTxs])
  /\ UNCHANGED <<merchantTxs, suggestions>>

FindChains(q) ==
  /\ inquiries[q].step = "chains"
  /\ LET found == GenerateOptimizationSuggestions(AnalyzeMerchantTransactions(inquiries[q].txs)) IN
     \/ Proceed(q, IdleInquiry)
     \/ Proceed(q, [inquiries[q] EXCEPT !.todo = found,
                     !.step = IF found = <<>> THEN "list" ELSE "save"])
  /\ UNCHANGED <<merchantTxs, suggestions>>

SaveOptimizationSuggestion(q) ==
  LET call == inquiries[q] IN
  /\ call.step = "save"
  /\ \/ Proceed(q, IdleInquiry) /\ UNCHANGED suggestions
     \/ /\ Len(suggestions) < MaxSuggestions
        /\ suggestions' = Append(suggestions, Head(call.todo))
        /\ Proceed(q, [call EXCEPT !.todo = Tail(@), !.saved = Append(@, Len(suggestions')),
                        !.step = IF Len(call.todo) = 1 THEN "list" ELSE @])
  /\ UNCHANGED merchantTxs

GetOptimizationSuggestions(q) ==
  /\ inquiries[q].step = "list"
  /\ Proceed(q, IdleInquiry) \/ Proceed(q, [inquiries[q] EXCEPT !.step = "summary"])
  /\ UNCHANGED <<merchantTxs, suggestions>>

\* GET .../summary does only this.
AskForSummary(q) ==
  /\ inquiries[q].step = "idle"
  /\ Proceed(q, [IdleInquiry EXCEPT !.step = "summary"])
  /\ UNCHANGED <<merchantTxs, suggestions>>

Pending(kept) == SelectSeq(kept, LAMBDA s : s.status = "pending")

\* The savings are added to a 0: with any of them, text, which has no toFixed.  Its test
\* (optimization-engine.service.spec.ts:140-175) sums up numbers, as no row holds them.
GetOptimizationSummary(q) ==
  /\ inquiries[q].step = "summary"
  /\ IF Pending(suggestions) # <<>> THEN Proceed(q, IdleInquiry)
     ELSE \/ Proceed(q, IdleInquiry)
          \/ Proceed(q, [inquiries[q] EXCEPT !.step = "answered"])
  /\ UNCHANGED <<merchantTxs, suggestions>>

Forget(q) ==
  /\ inquiries[q].step = "answered" /\ Proceed(q, IdleInquiry)
  /\ UNCHANGED <<merchantTxs, suggestions>>

\* By whoever calls the service: no endpoint does.
MarkSuggestionAsApplied ==
  /\ \E i \in DOMAIN suggestions :
       /\ suggestions[i].status = "pending"
       /\ suggestions' = [suggestions EXCEPT ![i].status = "applied"]
  /\ UNCHANGED <<merchantTxs, inquiries>>

OptimizationNext ==
  \/ TransactionRecorded \/ MarkSuggestionAsApplied
  \/ \E q \in OptimizationCalls :
       \/ GetTransactionAnalysis(q) \/ FindChains(q) \/ SaveOptimizationSuggestion(q)
       \/ GetOptimizationSuggestions(q) \/ AskForSummary(q) \/ GetOptimizationSummary(q)
       \/ Forget(q)

OptimizationSpec == OptimizationInit /\ [][OptimizationNext]_optimizationVars

-----------------------------------------------------------------------------
AllPriced(txs) == \A i \in DOMAIN txs : txs[i].price > 0

Derived(call) == GenerateOptimizationSuggestions(AnalyzeMerchantTransactions(call.txs))

\* A suggestion as it was saved.
AsSaved(s) == [s EXCEPT !.status = "pending"]

\* What a request derives from a merchant's transactions is kept once, in rows of its own,
\* and as it was derived, whatever other requests save between its saves, break off half-way
\* or begin again, and whatever is applied meanwhile; sent again, it is saved and counted
\* again.  No suggestion promises a loss if every transaction carries its gas price; rows
\* without one, which pull the mean below the lowest price, let only the advice to wait for
\* a lower price promise one.  The chains' and the hours' transactions are those of the
\* merchant (analyzeMerchantTransactions, generateOptimizationSuggestions,
\* saveOptimizationSuggestions).
SuggestionsPay ==
  /\ \A q \in OptimizationCalls :
       LET call == inquiries[q]
           a == AnalyzeMerchantTransactions(call.txs)
           derived == Derived(call)
       IN call.txs # <<>> /\ call.step # "chains" =>
            /\ Len(call.saved) + Len(call.todo) = Len(derived)
            /\ \A k \in DOMAIN call.saved : AsSaved(suggestions[call.saved[k]]) = derived[k]
            /\ call.step # "save" => call.todo = <<>>
            /\ \A k \in DOMAIN derived : derived[k].savings < 0 =>
                 derived[k].type = "GasPriceOptimization" /\ ~AllPriced(call.txs)
            /\ SumFunction([c \in DOMAIN a.chains |-> a.chains[c].count]) = a.total
            /\ SumFunction([h \in DOMAIN a.hours |-> a.hours[h].fee]) = a.fee
  /\ \A q, r \in OptimizationCalls :
       \A j \in DOMAIN inquiries[q].saved, k \in DOMAIN inquiries[r].saved :
         inquiries[q].saved[j] = inquiries[r].saved[k] => q = r /\ j = k
===================================================================================
