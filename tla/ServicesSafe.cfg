SPECIFICATION Spec
CONSTANTS
  p1 = p1
  p2 = p2
  Requests = {p1, p2}
  Admins = {a1}
  Durations <- MCDurations
  FreeTier = "free"
  Tiers = {"free", "pro"}
  TierQuotas <- MCTierQuotas
  DefaultTier = "free"
  Changes <- MCChanges
  MaxTime = 1
  MaxCount = 3
  TxCalls = {p1, p2}
  TxChains = {c1}
  Outcomes <- MCOutcomes
  Minute = 2
  Hour = 3
  PerMinute = 1
  PerHour = 2
  BurstSpan = 1
  RollingSize = 2
  EnoughTx = 2
  BurstSizes <- MCBurstSizes
  RecentTx = 2
  MaxClock = 3
  FirstDays <- MCFirstDays
  DayParts = 2
  TxTypes = {"transfer", "swap"}
  MaxRows = 2
  CacheKeys = {1, 2}
  Fills = {p1, p2}
  TTL = 1
  MaxRetry = 1
  MaxNow = 2
  MaxPurges = 1
  FunctionShapes <- MCFunctionShapes
  FieldShapes <- MCFieldShapes
  MaxFunctions = 2
  Toggled = {"soroban-anti-front-running"}
  MaxRuleChanges = 2
  Detections = {p1, p2}
  Reviewers = {v1}
  GasTxs <- MCGasTxs
  Baselines <- MCBaselines
  TxCounts = {2, 101}
  MinSamples = 2
  MaxPatterns = 1
  MaxDetections = 2
  Wallets = {w1}
  FailedTxs <- MCFailedTxs
  ManyFailures = 1
  ManyChains = 1
  ChainFailures = 1
  Window = 1
  MaxFailures = 3
  MaxMinute = 2
  BlockTime = 2
  Gaps = {1, 2, 3}
  Lookback = 4
  ChunkSize = 2
  BatchSize = 2
  WriteChunk = 1
  HighWater = 1
  TxKinds <- MCTxKinds
  Dates = {3}
  MaxBlocks = 4
  HourLength = 2
  BufferHours = 2
  DayLength = 4
  StaleAfter = 1
  Prices = {1, 5}
  Computations = {q1}
  MaxUnit = 4
  ChainOrder <- MCChainOrder
  ActiveOrder <- MCActiveOrder
  Collectors = {p1, p2}
  Aggregates <- MCAggregates
  Comparisons = {{}, {"base"}}
  BoardLimit = 2
  MaxTick = 1
  MaxMetrics = 2
  KeyEvents = {"KeyRevoked"}
  AuditFilters <- MCAuditFilters
  SortOrders = {"", "ASC"}
  PageLimits = {0}
  DefaultLimit = 2
  LatestLimit = 1
  MaxEvents = 3
  MaxStamp = 2
  TxLimits <- MCTxLimits
  CPUIncrement = 10
  KB = 1024
  UnitFees <- MCUnitFees
  Whole = 200000
  Levels <- MCLevels
  NetworkOrder <- MCNetworkOrder
  Baseline <- MCBaseline
  Fluctuations <- MCFluctuations
  MerchantTxs <- MCMerchantTxs
  PastTransactions <- MCPastTransactions
  ManyTransactions = 1
  OptimizationCalls = {p1, p2}
  MaxTransactions = 2
  MaxSuggestions = 3
  Analyzers <- MCAnalyzers
  AnalyzerName <- MCAnalyzerName
  AnalyzerLanguages <- MCAnalyzerLanguages
  Removers = {p1, p2}
  MaxRegistrations = 2
  HttpCalls = {p1, p2}
  HttpRequests <- MCHttpRequests
  StatusCodes = {200, 500}
  ResponseTimes = {1, 3}
  MaxArrivals = 3
  MaxBoots = 1
SYMMETRY Symmetry
VIEW View
CHECK_DEADLOCK FALSE
INVARIANTS OverAdmissionBounded MerchantLimitBounded PeriodsMatchBuckets NothingStaleIsServed TwinsAgree PatternsAreBacked
           AdviceFits ExportIsHonest VolatilityIsCurrent LeaderboardIsCurrent
           ReadersMissNothing FiguresAgree SuggestionsPay RegistryIsConsistent
