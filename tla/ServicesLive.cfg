SPECIFICATION Spec
CONSTANTS
  Requests = {r1, r2}
  Amounts = {1, 6}
  CapRequests <- MCCaps
  Take = 1
  Factor = 1
  Rapid = 1
  MonthFirsts <- MCMonthFirsts
  Days = {30, 60}
  MaxCaps = 2
  MaxLogs = 2
  Merchants = {m1}
  MaxReports = 2
  MaxEdits = 2
  MaxClients = 3
  MaxAttempts = 2
  Chains = {1}
  Webhooks = {w1}
  Snapshots <- MCSnapshots
  DefaultThresholds <- MCDefaultThresholds
  ThresholdConfigs <- MCThresholdConfigs
  Window = 2
  MaxHistory = 2
  MaxRetries = 2
  MaxTicks = 3
  MaxConfigs = 2
CHECK_DEADLOCK FALSE
INVARIANTS BooksMatchLog CompletedMeansDelivered NoLostReady EnginesAgree
PROPERTIES RequestsAreAnswered ReportsSettle RedisRecovers AlertsAreDelivered
