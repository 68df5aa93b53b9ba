# GasGuard in TLA+

This directory holds a TLA+ development of the parts of GasGuard whose
correctness depends on the order in which things happen: services that keep
state in memory or in a database while other calls, timers, failures and late
messages go on around them. Each part has a module translated from its source,
small instances for TLC, and, for the parts that matter most, theorems proved
with TLAPS for every value of the constants.

Paths below are those of the repository (`apps/...`, `src/...`).

## 1. Inventory of the system

GasGuard is a monorepo of mostly independent services around one theme, the
cost of transactions on several chains.

| Part | State | Operations | What is hard | What makes it correct |
|---|---|---|---|---|
| Fee configuration (`apps/api-service/src/gas-estimation/services/fee-configuration.service.ts`) | five in-memory collections and the admin settings | direct update, creation, approval requests and votes, scheduling, processing of due updates, settings | settings and prices that change while requests wait; an `await` between taking effect and saying so; dates | a change takes effect once, after its timelock, with its quorum, and is in the history |
| Property token (`apps/rust/property-token`) | contract storage, the account on the chain | metadata and batches, fee withdrawal, treasury, roles, clean-up, migration | messages that come twice, late or out of order; books and account that must move together; old storage | no replay, no gap, nothing after its expiry; books covered by the account |
| API keys (`apps/api-service/src/audit`) | the table `api_keys` | create, validate, rotate, revoke, two nightly jobs | every call is several round trips; a save writes what an earlier read saw | revocation is final, rotation leaves a successor, keys that are due are retired |
| User accounts (`apps/api-service/src/auth`, `rbac`) | the table `users` | login, failed login and lock-out, unlock, roles, deactivation | the same read, change and save; columns a save leaves out | locked only for failures it had, decisions not undone by stale saves |
| Gas subsidy (`apps/api-service/src/gas-subsidy`) | caps, usage log, flags | check, record, period reset, flags and their clearing | check, log and update are apart; reset races with use; ends of months | usage is what was logged, nothing is counted twice, every request is answered |
| Request rate limiting (`apps/api/src/rate-limiting`) | counters and quotas in Redis | check, increment, reset, quota and tier updates | check and increment are apart; windows turn, Redis comes and goes | overshoot bounded by the requests that overlap |
| Redis connection (`redis.service.ts` there) | client, flag, attempts, timer | connect, events, reconnect, disconnect | two reconnection mechanisms, events of old clients | ready means ready; it is ready again once Redis stays |
| Transaction recording (`apps/api-service/src/transection`) | table, per-merchant timestamps, rolling windows | record, metrics, time series | limit checked before the save, recorded after it; periods and buckets | overshoot bounded; the buckets are the periods |
| Reports (`apps/api-service/src/reports`) | the table of reports | ad-hoc reports, download, scheduled jobs | a task nobody awaits; file, mail and row one after the other | every report ends completed or failed, and completed means delivered |
| Cache (`apps/api-service/src/gas/caching`) | Redis or an in-memory store with timers | read-through, set, invalidate, fall back | fills, deletions, timers and the fall-back over one another | nothing stale after an invalidation |
| Gas spike alerts (`src/modules/gas-spike-alert`) | history, thresholds, subscriptions, last alerts | tick, threshold and subscription changes, dispatch with retries | overlapping ticks; subscriptions that change during retries; severity computed twice | each alert reaches each subscriber of the time |
| Suspicious gas detection (`apps/api-service/src/analytics`) | pattern rows, a baseline | detect, flag, review, clear, clean up | stale saves of detections and reviews over one another | a pattern is what was detected, a decision stands |
| Failed transactions and mitigation (`apps/api/src/services`) | an in-memory list per wallet | track, analyse, advise | thresholds of the classifier against the limits of the advice | analyses add up, a retry as advised gets further |
| Exports (`apps/api/src/exports`) | none, but a growing chain | estimate blocks, read logs and transactions, stream | estimates, chunks that fail, a chain that grows, back pressure | no row lost from the first block read, invented or out of order |
| Volatility (`src/modules/price-volatility-analyzer`) | hourly rows, snapshots | hourly and five-minute jobs, requests | jobs that fail, come late or not at all | every hour is covered, calm is low |
| Chain reliability (`apps/api-service/src/chain-reliability`) | metric rows | collect, score, leaderboard, compare | jobs that save in another order than they measured | the leaderboard is complete, in order and never older than what was recorded |
| Audit log (`apps/api-service/src/audit`) | event rows | record, filter by page, latest, export, retention | pages cut by offset while rows arrive and go | a reader of all pages misses nothing |
| Pricing (`apps/api-service/src/gas-estimation`) | two caches of the monitor | refresh, estimate, options, suggestions | continuations of several requests over the caches | prices agree with the load and with each other |
| Cost model (`src/cost_model.py`) | none | fees, scores, hints, violations | rounding at boundaries | more use is never cheaper or better |
| Optimisation (`apps/api-service/src/optimization`) | suggestion rows | analyse, suggest, save, summarise | saves one by one beside other requests, a failure half-way | what was derived is kept once and as derived, no suggestion promises a loss |
| Analysis engine (`libs/engine`) | the registry of analyzers | register, remove, dispose, analyse | removals that wait beside registrations and analyses | maps by name and by language agree |
| Rules (`packages/rules`) | the rules of an engine | analyse, disable, enable, add | two implementations of the same checks | they report the same places |
| Performance monitoring (`apps/api-service/src/performance-monitoring`) | counters, gauges and histograms in memory, rows of responses | count at arrival and at the end, save a row, record a client's row | saves nobody awaits, connections that are cut, restarts that forget the memory | figures are those of the rows, the gauge never below the truth |
| RPC fail-over (`apps/api/src/services/rpc-provider-manager.ts`) | health table | - | - | see section 6 |

How they interact. The services of `apps/api-service` share one PostgreSQL
database and one Node process: they interact through rows (users, keys,
reports, caps) and through the event emitter that feeds the audit log; timers
(`@Cron`) and requests run interleaved at every `await`. `apps/api` is a second
process with its own Redis. The contracts under `apps/rust` run on a chain, one
message at a time. The guard of the audit module calls the API-key service on
every request. The fee configuration service is called by its controller only.

## 2. Plan

In this order, the most consequential state machines first:

1. `ChangeControl` (abstract), `FeeConfiguration`, with proofs. *Done.*
2. `PropertyToken`, with proofs. *Done.*
3. `ApiKeys`, with proofs. *Done.*
4. `UserAccounts`, with proofs. *Done.*
5. Services whose work must end: `GasSubsidy`, `Reports`, `RedisConnection`,
   `SpikeAlerts`. *Done, with proofs (`ServicesLiveProofs`).*
6. Services with a bound or a promise to keep under interleaving: `RateLimit`,
   `TransactionRecording`, `GasCache`, `SuspiciousGas`, `AuditLog`,
   `Optimization`, `AnalyzerRegistry`, `ChainReliability`, `GasVolatility`,
   `Exports`, `Pricing`, `PerformanceMonitoring`. *Done, with proofs
   (`ServicesSafeProofs`; `ServicesLiveProofs` for those that keep what came in over
   time, `TransactionRecording`, `GasVolatility` and `ChainReliability`; and
   `ServicesFiguresProofs` for those whose figures are counted and summed up,
   `Optimization`, `Pricing` and `PerformanceMonitoring`).*
7. Functions against each other or a reference: `TransactionMetrics`,
   `SorobanRules`, `FailedTransactions`, `CostModel`. *Done, with proofs
   (`SorobanRules` in `ServicesSafeProofs`, the others in `ServicesFiguresProofs`).*

The modules of 5 to 7 are small and never share state, so one run explores those
with liveness properties and one the others: each behaviour is of one part,
chosen at its start (`MCServicesLive`, `MCServicesSafe`). `MCDecisions` does the same
for the accounts of `UserAccounts` and the votes of `FeeConfiguration`, whose
question is one: are decisions kept?

Left: abstract specifications for `GasSubsidy` and `RateLimit` (a counter with
a cap) and their refinements; text analysis beyond what section 3 names. Every
safety property of a run is proved; what section 5 leaves to TLC is out of the
provers' reach.

## 3. Modules and what they model

**FeeConfiguration** models the whole service. `configs`, `history`,
`approvals`, `scheduled` and `settings` are its collections (the history entry
and the change event are made together and are one record); `submitted` keeps
what was asked, under which settings, and from when on it may be in force, for the
properties. Each public method
is an action. The awaits of this service wait for nothing outside the process,
so a call is interrupted only between the step that takes effect and the
assignment after its `await`: `approving` and `loops` hold the calls that are
there. `SameTurn = FALSE` is a server handling requests one by one (Node runs
the continuation before the next request); `TRUE` lets any call run in between,
as when several calls are started in one turn. A date is absent, a `Date` or
the string a JSON body carries, which compares with nothing and so promises nothing
(`PromisedDate`). Tier multipliers, discounts and limits are one
field, `rest`. One branch of `createApprovalRequest` (a request approved on
creation) is dead code, because multisig needs a threshold above one.

**ChangeControl** is what the service promises: a change has a date before
which it is not in force, is applied at most once and makes one version, and is
never applied once refused. FeeConfiguration implements it under the mapping at
its end (`StageOf`): a change is applied when its history entry exists.

**PropertyToken** models every execute handler, instantiation, migration and
the self-check. The chain runs one message at a time and undoes a message that
fails, so a failed delivery is a stuttering step; any message may be delivered
at any time, any number of times. `bank` is the account the chain keeps for the
contract; `unbacked` records what was booked and never came to it, by deposits, which
the contract does not compare with their coins, or in old storage. Current code never credits `FEE_BALANCES`; fees, tombstones and
missing entries come from storage of older deployments (`LegacyStates`), which
is what migration and clean-up are for. A batch is a recursive function over
its elements.

**ApiKeys** models the table and every call that writes it, at the grain of
database round trips: `calls[c].step` says which round trip a call does next
and `calls[c].entity` what it has read. TypeORM's `save` is two round trips, a
read and an update of the columns that differ. `updatedAt` keeps the time of
the insertion, because `onUpdate` in a column option means nothing to
PostgreSQL. `started`, `rotatedAt` and `settled` record what happened, for the
properties. Refused calls change nothing and are left out; so are audit events.

**UserAccounts** models the table `users` and every call of the two services
that writes it, at the same grain as `ApiKeys`, with one more step for the
comparison of the password hash. A save whose row is gone inserts the entity
again (`InsertRow`), and a column that is `undefined` in the entity is left out,
so neither `unlockUser` nor a successful login clears `lockedUntil`; `recordLogin`
of the RBAC service, which sets it to `null`, does. `failed`, `left` (the lock that an
unlocking or a login left in force) and `decided` record what happened, for the
properties. Email addresses, profile fields and
passwords are left out: no call decides anything on them but the login, whose
comparison has either outcome.

**EntitySave** is TypeORM's `save` as the two services below share it: what it
writes into a row that has changed since it was read.

**GasSubsidy** models the caps, log and flags of a wallet at the grain of round
trips. `checkSubsidy` calls itself after a reset, which is the step back to its
start; dates are day numbers, because the end of a monthly period is computed by
`setMonth` on days that the next month may not have. `base` and `counted` are
history: what was logged since the last cap, and counted at all.

**Reports** models one row, its task behind the answered request and the mails
that left. `cut` records the reports whose task died with the process.

**RedisConnection** models all clients ever made (`status`), of which `client` is
the service's: replaced clients keep their listeners. Delays are left out.

**SpikeAlerts** models ticks that overlap, both computations of the severity,
thresholds by layers and the dispatches with their retries. Back-off times are
left out.

**RateLimit** models the guard's round trips, for windows aligned to multiples of
their length; `blind` counts what was admitted while Redis hid a count.

**TransactionRecording** models limiter, save and detection; **TransactionMetrics**
the metrics, as functions of the rows over a calendar of its own.

**GasCache** models both stores, the timers of the one in memory, read-through
fills and invalidations; `gone` records what an invalidation was to delete with no
fill under way, `spared` what of it is there all the same.
A value stands for itself by the time at which it expires.

**SuspiciousGas** models detectors, patterns, reviewers and the saves of both.
`tally` and `settled` record what happened. A `decimal` column read as text makes
the difference between `=== 0` and arithmetic.

**SorobanRules** models the Soroban engine and analyzer over functions and fields
that are given by the substrings they are searched for.

**FailedTransactions** models tracking, classification, analyses and advice with
their exact thresholds, the advice on the latest failure and on a named one; a retry
is the transaction sent again as advised, which uses what it used before or, if its
limit cut it off, as much as the new limit lets it.

**Exports** models the estimate of the first block, the chunks, batches and the
stream with its back pressure, while the chain grows and calls fail.

**GasVolatility** models the hourly job and the snapshots; **ChainReliability** the
collections, the scores and the leaderboard; **AuditLog** events, rows, pages and
retention, with the client that pages as an external actor.

**CostModel** models the functions of `cost_model.py` in exact fractions.
**Pricing** models the monitor's caches under the exact order of continuations of
one event loop. **Optimization** models analysis, suggestions and their saves.

**AnalyzerRegistry** models the registry's two maps and what awaits analyzers.

**PerformanceMonitoring** models the middleware from the arrival of a request to the
save of its row, with what it keeps in memory, between connections that are cut and
restarts. `unsaved` is what the log of errors tells, `cut` and `bootRows` record what
happened. A client's own row comes without an id.

The `MC*` modules hold the small instances, the `*Proofs` modules the theorems.
`MCServicesLive`, `MCServicesSafe` and `MCDecisions` compose modules that share no
state: the variable `part` says which of them a behaviour is of. `MCPropertyToken`
divides the messages of the token into two traffics, metadata and money: replay
is the same for all, and books know nothing of nonces.

## 4. What the runs check

| Run | Question | Answer |
|---|---|---|
| decisions | do votes decide requests, while signers and thresholds change? are accounts locked and decided on as their administrators and failures say, in every interleaving of two calls, with failures? | yes: `QuorumDecides`, `DecisionsAreFinal` (FeeConfiguration), `LockIsEarned`, `DecisionsSettle` (UserAccounts) |
| fee_schedule | does anything take effect twice or too early, does the service keep the abstract promise, are due updates executed? | `TakesEffectOnce`, `TimelockRespected` (a date that is a string promises nothing), `ImplementsChangeControl` hold, and `DueUpdatesAreExecuted` if the endpoint is called |
| fee_same_turn | does the audit trail survive calls that interleave at every await? | yes: `HistoryComplete` |
| fee_stale_threshold | are all large changes approved? | **no**: two small scheduled steps add up |
| fee_text_dates | do approved changes wait for their timelock? | **no**: not if they name a date as JSON does |
| property_token | replay and gaps under arbitrary delivery; does the batch loop compute what a batch should? do books and account agree, through migration and clean-up? | `OnceInOrder`, `BatchIsSequential`, `Solvent`, `CleanupIsInvisible`, `BooksFollowPayments` hold |
| key_races | revocation, rotation and use in every interleaving, with failures | `RevocationSettles`, `RowsAreBacked` hold |
| key_sweeps | are due keys retired in the end? | yes: `ExpiredKeysAreRetired`, `RotatedKeysAreRevoked` |
| key_unrevoked | is a revoked key ever active again? | **yes**: a save of an older read undoes the revocation |
| user_unlock | does `unlockUser` unlock? | **no**: the lock stays, a save leaves it out |
| services_live | does what must end, end, and end well? | `BooksMatchLog`, `RequestsAreAnswered` (GasSubsidy), `CompletedMeansDelivered`, `ReportsSettle` (Reports), `NoLostReady`, `RedisRecovers` (RedisConnection), `EnginesAgree`, `AlertsAreDelivered` (SpikeAlerts) hold |
| services_safe | do the other services keep their bounds and promises? | `OverAdmissionBounded` (RateLimit), `MerchantLimitBounded` (TransactionRecording), `PeriodsMatchBuckets` (TransactionMetrics), `NothingStaleIsServed` (GasCache), `TwinsAgree` (SorobanRules), `PatternsAreBacked` (SuspiciousGas), `AdviceFits` (FailedTransactions), `ExportIsHonest` (Exports), `VolatilityIsCurrent` (GasVolatility), `LeaderboardIsCurrent` (ChainReliability), `ReadersMissNothing` (AuditLog), `FiguresAgree` (CostModel, Pricing, PerformanceMonitoring), `SuggestionsPay` (Optimization), `RegistryIsConsistent` (AnalyzerRegistry) hold |

Bounds. Two update requests are enough for every pair of the fee service's
hazards (a stale price, a double execution, an approval beside a schedule);
three signers give quorums that are neither one nor all; a second configuration
is created in the run on the history. Prices are multiples
of a quarter of the default, so that a step of one is exactly the threshold.
The clock is as long as the longest delay and one more. The token's two senders
with two nonces each cover every replay of one message between two others; sums
go up to the model's `MaxUint128` of three, so the overflow check is met. Two
keys are the least with a rotation, two requests and the two jobs give every
pair of overlapping saves. Accounts are never related to each other, so one of
them and two overlapping calls do for `UserAccounts`, with a lock after two
failures and a clock of two times (`LastTime = 1`): before a lock and after it. The
votes need three times, for a timelock within which settings change. In the two runs of services, two overlapping calls meet every pair of
steps, and two limits and windows every change of one below the other; a third
call would only repeat what one of two does. `MaxCount = 3` is what a wrong order
of check and count needs to pass its bound; two registrations are two analyzers of
a language, or one again; three ticks of alerts overlap with
both earlier ones; three clients are one more than the attempts that make them.
Three requests and one restart let a cut, a failed save and two rows under one key
meet in the monitoring. The export's chain has four blocks, which are two chunks,
one, two or three units apart where the constant says two. A merchant begins without
transactions or with four of which two have no price, the least that have a
mean below the lowest price. Days, hours and
windows are as short as keeps their order (a day of four units, an hour of two).
Inputs of the functions are the values around each threshold of the code
(`MCLevels`, `MCFailedTxs`, `MCBaselines`). Symmetry is used only for sets whose
members no constant tells apart (`p1` and `p2`, calls of one part), and never
with liveness; the view of `services_safe` leaves out the variables of the parts
that a behaviour is not of, which keep the values they began with.

Fairness. `FeeConfiguration`: the runtime resumes suspended calls and time
passes; that the processing endpoint is called is an assumption about the
operator, for nothing in the repository calls it. `ApiKeys`: both cron jobs run
and the database answers them, with `Failures = FALSE`; requests are under no
fairness at all. `services_live`: each subsidy request and each report task goes on
or fails (what is awaited returns or throws), a client of ioredis that retries
becomes ready if Redis stays reachable, and a dispatch makes its next attempt
(its timer fires); nothing is assumed of callers, of Redis itself, or of the
reconnection timer. Runs of `ApiKeys` and of the services do not check deadlock,
because bounded clocks and finitely many calls leave a system that has nothing
left to do.

## 5. What is proved

All theorems are for every value of the constants that satisfies the module's
assumption, and go through an inductive invariant. Where a theorem assumes more
of the constants, the list says what and why. Every invariant and every action
property that a run checks is the conclusion of a theorem, and so is the refinement.

* `FeeConfigurationProofs`: `TypeCorrect`, `TimelockHolds` and `HistoryHolds`, for
  dates of every kind. Alone `TimelockRespected` speaks of
  applied changes only; the invariant adds that every scheduled update and every
  approval request carries a date that is no earlier than what it was promised, or a
  string (`Delays`, `Timely`), which is what a later step applies it on. `HistoryInv` numbers the history: exactly the
  versions from 2 to the one in force have an entry, each one's old fees are the new
  fees of the one before; so applying a change adds one entry and disturbs none,
  also between the turns of other calls.

  The decisions: `QuorumHolds`, `OnceHolds`, `FinalHolds`, and the refinement
  `ImplementsControl`. They assume `SameTurn = FALSE`, that no other call runs while
  a decision is being executed, as is so in the runs that check them: the service
  does apply a request twice when two calls share a turn. `RequestsInv` has a part for each thing that
  could go wrong: settings are among those offered, a suspended call is alone and its
  request has its quorum, a request that took effect did so in one place, votes are
  of different signers, and the status follows from their number. The refinement
  goes action by action: a vote, a refused creation and a turn of the loop that finds
  nothing due are stutters, everything else one step of `ChangeControl`; a change
  whose date is a string is due there from its submission on. That
  the signers of all settings are finite sets (`FeeAssumption`) is what makes votes countable.
* `PropertyTokenProofs`: `TypeCorrect`, `ReplayHolds`, `NoGapHolds`,
  `OnceInOrderHolds` (both together), `NothingExpiredHolds`, `SolventHolds`. The replay invariant ties the log to
  the contract's storage: every logged nonce is below its sender's counter and
  every logged `tx_id` is among the processed ones. `SolventHolds` assumes
  nothing of deposits and old deployments: what the books exceed the account by is what
  `unbacked` has counted, so no other handler adds to it. `CleanupHolds`
  needs that a migrated contract has a treasury entry (`MigratedInv`), `PaymentsHold`
  the types only. `BatchHolds` is by induction over the elements of a batch: after each
  of them the loop holds what the elements so far read as a whole (`AsRead`).
* `ApiKeysProofs`: `TypeCorrect`, `RevocationHolds`, `SuccessorHolds`,
  `UsesHold`, `RowsHold` (the last two together). The revocation invariant says that a settled key is revoked and
  that whatever call concerns it either has not read it yet or has read it
  revoked, with nothing to write but the same status. `UsesAreReal` needs that
  each entity held by a call counts at most the uses started.
* `UserAccountsProofs`: `TypeCorrect`, `LockHolds`, `DecisionsHold`. The lock
  invariant says that rows and the entities calls hold are backed: no more
  failures than were counted since the account was last at rest with none, and no lock
  in force but one that those failures, or a lock left in force, account for
  (`CountBacked`). The decision invariant says that while a decision
  stands no deciding call is under way and every entity held agrees with it, so
  that saves write it back unchanged and an insertion finds its row there.

* `ServicesLiveProofs`, one section per module.
  * `RedisConnection`: `RedisTypeCorrect`, `NoLostReadyHolds`. With the types
    the property is inductive: whatever clears `isConnected` leaves a client that
    is not ready.
  * `Reports`: `ReportsTypeCorrect`, `CompletedMeansDeliveredHolds`. The
    invariant (`Sound`) says what the row and the mails must be like at each step of
    the task: a file before the mail, the mail before the last update, no apology
    before the row says that it failed. The step of a task concerns its own report
    only, so each is proved for one report.
  * `GasSubsidy`: `BooksAlwaysMatchLog`. `SubsidyInv` says of the caps and of every
    entity a call holds that they count no more than was counted; that without a
    disturbance one call at most is between its check and its answer; and what the
    usage of the last cap and of that call's entity is at each of its steps,
    compared with the uses logged since the cap began.
  * `SpikeAlerts`: `EnginesAlwaysAgree`, which needs no invariant: it is proved of the
    two computations, for any thresholds and prices.
  * `TransactionRecording`: `TxTypeCorrect`, `MerchantLimitHolds`. `TxInv` bounds the
    entries later than any moment together with the requests admitted and not yet
    recorded (`AdmittedBounded`); while nothing has overlapped (`NeverTwoRecordings`) what a
    request saves was counted before, which is why a burst cannot be larger than a
    minute admits.
  * `GasVolatility`: `VolatilityHolds`. `JobCovers` says of a job that has rows to save
    which hours are covered once it has saved them, and `JobsCovered` which are by
    the jobs that saved all; it assumes a buffer of two hours at least, as the code has, for
    only then does a job see the whole of the last hour. `CalmEverywhere` says
    that prices that never moved are the same in all rows, so whatever window is
    taken of them has no spread.
  * `ChainReliability`: `LeaderboardHolds`. `FoundIsCurrent` says that whatever a request
    has found for a chain is as new as what was recorded when it was asked, and that a
    chain is found, still to do or without a metric; the sort by score puts every entry in
    one place, because the order is linear.
* `ServicesSafeProofs`, one section per module.
  * `RateLimit`: `OverAdmissionHolds`. `LimitInv` bounds what is counted together with
    the requests that have passed the check and not counted yet: the sum grows only
    when a check passes, which it does below the limit, while at most all the
    other requests can have passed before. Windows, requests, tiers and changes are finite
    (`RateLimitAssumption`), without which there is neither a number of requests nor a highest limit.
  * `GasCache`: `CacheTypeCorrect`, `NothingStaleIsServedHolds`. What an
    invalidation deleted, and did not spare, must be dead in the store in use also while
    that does not answer, and nobody may be about to fill it (`GoneForGood`).
  * `SuspiciousGas`: `SuspicionTypeCorrect`, `PatternsAreBackedHolds`. Not only
    patterns but the entities that calls hold are backed by what was detected; a
    reviewer never holds one that is undecided, and a detection never one that has
    settled. A save mixes two backed records column by column (`MergedTyped`).
  * `SorobanRules`: `TwinsAlwaysAgree`. What each check can report is described by
    its rule (`AnalyzerRules`, `EngineRules`), so that the places of a rule are those of
    its own check.
  * `AnalyzerRegistry`: `RegistryStaysConsistent`. `RegistryInv` adds that unless
    removals have raced whatever is being removed is still registered and of one removal only
    (`Orderly`), and that an analysis under way has run or still lists what it is due (`Ahead`,
    `AnalysisOK`).
  * `AuditLog`: `ReadersNeverMiss`. As long as a client has not been given a row, at
    least as many rows come before it as the client has been given or has skipped
    (`ReaderInv`); late saves only add to those, and a page that lacks the row is full of
    such (`PageIsBefore`). Rows are numbered, so that none is saved again after its
    deletion (`Numbered`).
  * `Exports`: `ExportsAreHonest`, for chains of any speed. Where the blocks from one on
    to the end took `AVG_BLOCK_TIME` or longer on average, that one is not before the
    first block estimated; elsewhere only the blocks from the first one on are
    claimed. `NoneLost`
    says where a transaction that has to be listed is at each step: in a block that is
    still to be read, among the hashes, or in the records; `Written`, that the rows are
    the beginning of the sorting of the records. Any set of blocks has a sorting, by induction, and it
    lists all of them; a longer chain sorts what was read as before (`SortingStays`).
* `ServicesFiguresProofs`, one section per module; what these count and sum up is
  counted and summed up by key, which the lemmas of `DataInduction` are for.
  * `TransactionMetrics`: `PeriodsHold`. The rows keep their types, and the rest is
    about the functions: each row has one bucket and one type, so sums over buckets
    are the sum; an alert is exact but for the rounding of the rate it
    compares to hundredths of a per cent.
  * `Optimization`: `SuggestionsHold`. `OptimizationInv` says of each request that the
    rows it has saved, as they were saved, and what it still has to save are together what
    it derived, place by place (`RowsFit`), which saves of others and applied rows leave as
    it is (`RowsStay`), and that no row is of two requests or two places
    (`KeptApart`). What is derived pays but for one kind (`Proposed`), and all of it
    if every transaction has its price (`Paying`, `MeanBetween`).
  * `FailedTransactions`: `AdviceHolds`. `FailureInv` says that a stored failure that followed
    advice on its price is not underpriced, and that one that followed advice on its limit
    and ran out again had used more than the failure before; the suggested price is no
    longer below, and the suggested limit no longer used up to at the old use, what the
    classifier compares with. It assumes
    that a transaction uses no more than its limit, as chains guarantee, and a limit of
    four units at least (a transfer takes 21000): 130 % of less is cut off to no raise
    that helps. Sorting the list in place changes no sum, and the advice of the
    top category is the only one with priority high, so it comes first.
  * `FiguresAgreeHolds` is about the composed specification of `MCServicesSafe`: every
    step of it is a step of each of three services or leaves that service alone
    (`PartsStep`), and each has its own invariant. `CostModel`: `CostInv` keeps
    the levels in range, also before what has just grown; fees and scores are then compared fraction by fraction, as all of them grow
    with each amount. `Pricing`: `PricingInv` says that the queue of continuations is of
    one question about one chain, that the last write to a cache still in the queue is
    of the load its metrics have (`CachesAgree`), and that the answers given and those
    still queued are of the same prices if the cache was warm; of prices taken at
    different loads it is their bounds that keep the critical one above the two lowest
    (`CriticalCostsMore`). `PerformanceMonitoring`:
    `MonitoringInv` says of the responses that this process finished, wherever their
    row is (`FinishedResponses`), that counters and histograms are their numbers, sums and
    bounds, key by key (`Figures`): a response more changes one key, and a row that
    is saved, or refused, changes none.
* `DataInduction` has the lemmas on data that these need: induction over numbers
  and over finite sets stated with a set instead of an operator (the library's
  theorems take an operator, whose instances the provers do not find; theirs on well-founded orders
  does not, and a nonempty set of finite sets has a minimal one by it), that finitely many
  values have a greatest one, and that the folds by which `SumOfSeq` and `SumFunctionOnSet` are
  defined add up: what one element more, a change of one entry and a split by key do to a
  sum and to a number, and what bounds them. The members of a finite set have one place each
  in a linear order, which is what sorting is about.

Left to TLC:

* liveness, and whatever needs ENABLED (`DueUpdatesAreExecuted`, `ExpiredKeysAreRetired`,
  `RotatedKeysAreRevoked`, `RequestsAreAnswered`, `ReportsSettle`, `RedisRecovers`,
  `AlertsAreDelivered`): the provers have no rule for fairness of actions;
* the four runs that expect a violation, which refute something.

## 6. What is not modelled

Code that cannot run as it stands:

* `tiered-pricing.service.ts` is commented out with its controller, so
  `DynamicPricingService`, which asks for it, cannot be built by Nest; its tiered
  variants are left out of `Pricing`. `FeeConfigurationController` is registered in
  no module.
* `solidity-analyzer.ts`, `cross-chain-gas.service.ts` and
  `failed-transaction.controller.ts` do not parse. `RpcProviderManager` has no caller
  but the second of them.
* `tiered_scanner.rs` does not compile (`UsageTier` lacks the traits of a map's key).
* The scheduled report jobs: one is triggered on Sundays and returns unless it is
  Monday, one has no trigger expression, one calls a method its repository lacks.
* The price history reads with Mongo's operators where TypeORM has its own, and so
  do the aggregates and the summary of the performance monitoring.

Code with nothing to check: moving
averages, dollars, confidence, texts of advice and of reports; endpoints that only
read. Pattern matching over program text in the analyzers, parsers and the Vyper
and ink rules is left out, but for the Soroban rules.

Met while proving: advice to raise a limit of less than four units of gas would raise it by
nothing that helps, and an alert of `TransactionMetrics` compares rounded rates, so it may
miss what rounds away; no chain has the former and no document promises more of the latter.

Where documents, comments or tests promise what the code does not do. Four of these are
runs that expect a violation (section 4): dates that stay the strings of a JSON body
are no dates for the timelock (docs/FEE_CONFIGURATION_SYSTEM.md:412, :432); `unlockUser`
leaves `lockedUntil` as it was (rbac.service.ts:235); large changes in small steps are not
approved (docs/FEE_CONFIGURATION_SYSTEM.md:406); a revoked key may come back
(api-key.controller.ts:135). The others are in the modules as the code has them, and the
properties beside them claim what holds and say what does not:

* a key in its grace period is refused, because only active keys validate, whatever
  api-key.controller.ts:114 answers after a rotation;
* the export of the audit log ignores the filters its endpoint takes;
* the summary of suggestions fails over decimals read as text as long as one is
  pending, against optimization-engine.service.spec.ts:140-175 and
  docs/MERCHANT_COST_OPTIMIZATION_SUGGESTIONS.md:96-101; suggestions to change the
  chain, which the same document shows, never occur, since the analysis has no such
  average; advice to wait for a lower price may promise a loss when transactions lack
  their price;
* `invalidateChain` deletes one key of the chain in memory (cache.service.ts:129),
  against CACHING_GUIDE.md:122 and :137 beside it;
* an export misses its first blocks where the chain is faster than its constant
  (Gnosis and Fantom have the default of 12 s, Arbitrum 1 s) and when the end lies in
  the past, for it counts back from the latest block, against "Resolves all records
  matching filters" (exports.service.ts:65);
* the trend of a price suggestion is always "increasing", for the average it is compared
  with divides by twelve what six hours have (dynamic-pricing.service.ts:257-262), against
  docs/DYNAMIC_GAS_ESTIMATION.md:204; on a cold cache the four options may be of
  different loads and low cost more than normal (:92-98 there). `FiguresAgree` claims
  the order for a warm cache, and for a cold one of critical only;
* a transaction sent again with the suggested limit may run out of gas again, against
  mitigation.service.ts:271, "Transaction will execute successfully": `AdviceFits` claims
  that it got further.

Met while modelling, with no document that promises otherwise: minimum and maximum fee
are validated at creation and not on update; the hourly and daily change limits are stored
and never enforced; a deposit books coins that were not sent; a subsidy alert is
never saved; the audit log calls every request a success before its handler has run;
suggestions are saved again, and counted again, by every request for them; overlapping
removals may leave a removed analyzer under its language; the gauge of requests in
flight counts for ever those whose connection was cut before they were finished.
Wording of errors, address normalisation and audit events are left out everywhere.
