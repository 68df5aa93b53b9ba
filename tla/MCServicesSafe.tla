------------------------------ MODULE MCServicesSafe ------------------------------
(* Services that are about what they must never do, each on its own: every         *)
(* behaviour is one of the part chosen at its start.                               *)
EXTENDS RateLimit, TransactionRecording, TransactionMetrics, GasCache, SorobanRules,
        SuspiciousGas, FailedTransactions, Exports, GasVolatility, ChainReliability,
        AuditLog, CostModel, Pricing, Optimization, AnalyzerRegistry, PerformanceMonitoring, TLC

VARIABLE part

CONSTANTS p1, p2

\* What runs at a time within a part is interchangeable.
Symmetry == Permutations({p1, p2})

MCDurations == <<1, 2>>
MCTierQuotas == [free |-> <<1, 1>>, pro |-> <<1, 2>>]
MCChanges == {[tier |-> "pro", quota |-> (1 :> 1)]}

MCBurstSizes == <<2, 3, 4>>
MCOutcomes == {[status |-> "success", gas |-> 1], [status |-> "reverted", gas |-> 4]}

MCFirstDays == <<1, 3, 4, 6>>

PlainFunction ==
  [name |-> {}, source |-> {}, reads |-> 0, writes |-> 0, result |-> FALSE, constructor |-> FALSE,
   address |-> TRUE]
MCFunctionShapes ==
  {[PlainFunction EXCEPT !.name = n, !.source = s] :
     n \in {{"transfer"}, {"settle", "set"}, {"emergency"}, {"propose"}},
     s \in {{}, {"require_auth"}, {"for ", ".."}, {"seed", "timestamp()", "timestamp"},
            {"format!(", "deadline"}, {"String::from(", ".clone()"}}}
    \cup {[PlainFunction EXCEPT !.reads = 3, !.writes = w, !.constructor = TRUE, !.result = TRUE,
                                !.address = FALSE] : w \in {0, 2}}
PlainField == [type |-> "u128", uses |-> 2, admin |-> FALSE, version |-> FALSE, public |-> TRUE]
MCFieldShapes ==
  {[PlainField EXCEPT !.type = "Address", !.uses = 3],
   [PlainField EXCEPT !.type = "String", !.public = FALSE, !.admin = TRUE],
   [PlainField EXCEPT !.version = TRUE]}

MCGasTxs == {[gas |-> 16, price |-> 6]}
MCBaselines ==
  {[avg |-> 10, dev |-> 2, price |-> 1, freq |-> 1, samples |-> 2],
   [avg |-> 10, dev |-> 0, price |-> 0, freq |-> 3, samples |-> 2]}

MCFailedTxs ==
  {[chain |-> 1, gas |-> 500, price |-> 15800, limit |-> 1000, nonce |-> 1, reason |-> "other"],
   [chain |-> 1, gas |-> 996, price |-> 16000, limit |-> 1000, nonce |-> 1, reason |-> "slippage"],
   [chain |-> 137, gas |-> 500, price |-> 30000, limit |-> 1000, nonce |-> 2, reason |-> "none"],
   [chain |-> 137, gas |-> 500, price |-> 30000, limit |-> 1000, nonce |-> 2,
    reason |-> "slippage"]}

MCTxKinds == {[own |-> TRUE, logs |-> 2], [own |-> FALSE, logs |-> 1]}

MCChainOrder == <<"celo", "base">>
MCActiveOrder == <<"celo">>
MCAggregates == {[rate |-> 10000, price |-> 2, volatility |-> 1],
                 [rate |-> 5000, price |-> 100, volatility |-> 200]}

MCAuditFilters ==
  {[kind |-> "", outcome |-> "", from |-> 0, to |-> 0],
   [kind |-> "KeyRevoked", outcome |-> "success", from |-> 1, to |-> 2]}

MCTxLimits ==
  [cpu |-> 100000, memory |-> 40960, read_entries |-> 40, read_bytes |-> 200000,
   write_entries |-> 25, write_bytes |-> 100000, bandwidth |-> 100000]
MCUnitFees ==
  [cpu |-> 1, read_entries |-> 10, read_bytes |-> 5, write_entries |-> 20, write_bytes |-> 10,
   bandwidth |-> 1]
MCLevels ==
  [cpu |-> <<1250, 49999, 60000, 79999, 80000, 96000, 100000>>,
   memory |-> <<2048, 20480, 32767, 32768, 40960>>,
   read_entries |-> <<2, 30, 40>>, read_bytes |-> <<150000, 200000>>,
   write_entries |-> <<1, 18, 24>>, write_bytes |-> <<256, 75000, 100000>>,
   bandwidth |-> <<75000, 100000>>]

MCNetworkOrder == <<"mainnet", "testnet">>
MCBaseline == [mainnet |-> 40, testnet |-> 30]
MCFluctuations == {-15, 0, 14}

MCMerchantTxs ==
  {[chain |-> "a", hour |-> 1, gas |-> 2, fee |-> 1, price |-> 5, status |-> "failed"],
   [chain |-> "b", hour |-> 2, gas |-> 1, fee |-> 2, price |-> 2, status |-> "success"],
   [chain |-> "b", hour |-> 1, gas |-> 1, fee |-> 2, price |-> 0, status |-> "success"]}

\* Nothing yet, or a mean price below the lowest.
MCPastTransactions ==
  {<<>>} \cup {<<t, u, v, v>> : t \in {x \in MCMerchantTxs : x.price = 5},
                u \in {x \in MCMerchantTxs : x.price = 2}, v \in {x \in MCMerchantTxs : x.price = 0}}

MCAnalyzers == {"rust", "rust2", "solidity"}
MCAnalyzerName == [rust |-> "rust", rust2 |-> "rust", solidity |-> "solidity"]
MCAnalyzerLanguages == [rust |-> {"rs"}, rust2 |-> {"rs", "sol"}, solidity |-> {"sol"}]

MCHttpRequests ==
  {[method |-> "GET", path |-> <<"api", "gas", "1">>, metric |-> NoMetric],
   [method |-> "GET", path |-> <<"api", "gas", "2">>, metric |-> NoMetric],
   [method |-> "POST", path |-> <<"api", "performance", "metrics">>,
    metric |-> [endpoint |-> <<"api", "gas">>, method |-> "GET", statusCode |-> 200,
                responseTime |-> 3]]}

requestGroup == <<limitVars, txVars, metricVars, cacheVars, ruleVars>>
watchGroup == <<suspicionVars, failureVars, exportVars, volatilityVars, reliabilityVars>>
adviceGroup == <<auditVars, costVars, pricingVars, optimizationVars, registryVars,
                 monitoringVars>>
safeVars == <<requestGroup, watchGroup, adviceGroup, part>>

\* Of a behaviour of one part only what that part changes tells states apart.
View ==
  <<part,
    CASE part = "limits" -> limitVars [] part = "recording" -> txVars
      [] part = "metrics" -> metricVars [] part = "cache" -> cacheVars
      [] part = "rules" -> ruleVars [] part = "suspicion" -> suspicionVars
      [] part = "failures" -> failureVars [] part = "exports" -> exportVars
      [] part = "volatility" -> volatilityVars [] part = "reliability" -> reliabilityVars
      [] part = "audit" -> auditVars [] part = "costs" -> costVars
      [] part = "prices" -> pricingVars [] part = "advice" -> optimizationVars
      [] part = "registry" -> registryVars [] part = "traffic" -> monitoringVars>>

Limiting ==
  part = "limits" /\ LimitNext
    /\ UNCHANGED <<txVars, metricVars, cacheVars, ruleVars, watchGroup, adviceGroup, part>>
Recording ==
  part = "recording" /\ TxNext
    /\ UNCHANGED <<limitVars, metricVars, cacheVars, ruleVars, watchGroup, adviceGroup, part>>
Measuring ==
  part = "metrics" /\ MetricsNext
    /\ UNCHANGED <<limitVars, txVars, cacheVars, ruleVars, watchGroup, adviceGroup, part>>
Caching ==
  part = "cache" /\ CacheNext
    /\ UNCHANGED <<limitVars, txVars, metricVars, ruleVars, watchGroup, adviceGroup, part>>
Ruling ==
  part = "rules" /\ RulesNext
    /\ UNCHANGED <<limitVars, txVars, metricVars, cacheVars, watchGroup, adviceGroup, part>>
Suspecting ==
  part = "suspicion" /\ SuspicionNext
    /\ UNCHANGED <<failureVars, exportVars, volatilityVars, reliabilityVars, requestGroup, adviceGroup, part>>
Failing ==
  part = "failures" /\ FailureNext
    /\ UNCHANGED <<suspicionVars, exportVars, volatilityVars, reliabilityVars, requestGroup, adviceGroup, part>>
Exporting ==
  part = "exports" /\ ExportsNext
    /\ UNCHANGED <<suspicionVars, failureVars, volatilityVars, reliabilityVars, requestGroup, adviceGroup, part>>
Fluctuating ==
  part = "volatility" /\ VolatilityNext
    /\ UNCHANGED <<suspicionVars, failureVars, exportVars, reliabilityVars, requestGroup, adviceGroup, part>>
Ranking ==
  part = "reliability" /\ ReliabilityNext
    /\ UNCHANGED <<suspicionVars, failureVars, exportVars, volatilityVars, requestGroup, adviceGroup, part>>
Auditing ==
  part = "audit" /\ AuditNext
    /\ UNCHANGED <<costVars, pricingVars, optimizationVars, registryVars, monitoringVars, requestGroup,
                 watchGroup, part>>
Costing ==
  part = "costs" /\ CostNext
    /\ UNCHANGED <<auditVars, pricingVars, optimizationVars, registryVars, monitoringVars, requestGroup,
                 watchGroup, part>>
Quoting ==
  part = "prices" /\ PricingNext
    /\ UNCHANGED <<auditVars, costVars, optimizationVars, registryVars, monitoringVars, requestGroup,
                 watchGroup, part>>
Advising ==
  part = "advice" /\ OptimizationNext
    /\ UNCHANGED <<auditVars, costVars, pricingVars, registryVars, monitoringVars, requestGroup,
                 watchGroup, part>>
Registering ==
  part = "registry" /\ RegistryNext
    /\ UNCHANGED <<auditVars, costVars, pricingVars, optimizationVars, monitoringVars, requestGroup,
                 watchGroup, part>>
Monitoring ==
  part = "traffic" /\ MonitoringNext
    /\ UNCHANGED <<auditVars, costVars, pricingVars, optimizationVars, registryVars, requestGroup,
                 watchGroup, part>>

Init ==
  /\ part \in {"limits", "recording", "metrics", "cache", "rules", "suspicion",
              "failures", "exports", "volatility", "reliability",
              "audit", "costs", "prices", "advice", "registry", "traffic"}
  /\ AuditInit /\ CostInit /\ PricingInit /\ OptimizationInit /\ RegistryInit
  /\ MonitoringInit
  /\ LimitInit /\ TxInit /\ SuspicionInit
  /\ IF part = "metrics" THEN MetricsInit ELSE history = <<>>
  /\ FailureInit
  /\ ReliabilityInit /\ (part # "reliability" => \A c \in RankedChains : metricRows[c] = <<>>)
  /\ ExportsInit /\ (part # "exports" => blocks[1].tx = [own |-> TRUE, logs |-> 2])
  /\ VolatilityInit /\ (part # "volatility" => pastPrices = <<1>>)
  /\ CacheInit /\ (part # "cache" => reachable)
  /\ IF part = "rules" THEN RulesInit
     ELSE contract = [functions |-> <<>>, fields |-> <<>>] /\ disabled = {} /\ ruleChanges = 0

Next ==
  \/ Limiting \/ Recording \/ Measuring \/ Caching \/ Ruling \/ Suspecting
  \/ Failing \/ Exporting \/ Fluctuating \/ Ranking
  \/ Auditing \/ Costing \/ Quoting \/ Advising \/ Registering \/ Monitoring

Spec == Init /\ [][Next]_safeVars

\* Figures that services report agree with each other: costs and scores of a simulated
\* transaction (cost_model.py), the prices of a network (network-monitor.service.ts,
\* dynamic-pricing.service.ts), counters and gauges of the requests with the rows saved
\* of them (performance-logging.middleware.ts).  Each in its own part: the others leave its
\* state as it began.
FiguresAgree ==
  /\ part = "costs" => AnalysisIsMonotone
  /\ part = "prices" => PricesAgree
  /\ part = "traffic" => TrafficAddsUp
===================================================================================
