# A verification project for the CurrentDao backend

TLA+ models of the parts of this backend whose behaviour depends on the order of
events: what several replicas, timers, crons and HTTP calls do to the same rows.
`src/src` is the NestJS application; every path below is relative to it.

| Module | Models |
|---|---|
| `TxMonitor` | the transaction monitor and its retry timers, on every replica |
| `RetryOperator` | the same system with the public methods of `RetryService` called from outside |
| `RetryOperatorProofs` | the invariants of `RetryOperator` |
| `MCRetryOperator` | `RetryOperator` with symmetry, a view and a bound, for the runs |
| `TxRecord` | what a reader of `transaction_status` is promised (abstract specification) |
| `TxMonitorProofs`, `TxRecordProofs` | type correctness and safety of `TxMonitor`; `TxMonitor` implements `TxRecord` |
| `WebhookDelivery`, `WebhookDeliveryProofs` | the webhook service on every replica: events, deliveries, retries; its proofs |
| `LedgerSync`, `LedgerSyncProofs` | `sync/`: the ledger stream, the partition handler and the recovery service on the rows of `sync_states`; its proofs |
| `MCLedgerSync` | `LedgerSync` with symmetry |
| `CircuitBreaker` | the circuit breaker of the gateway |
| `LogBuffer`, `LogBufferProofs` | the log buffer and its flushes; their proofs |
| `FraudCases` | fraud cases, reports to the regulator, queue and crons |
| `FraudPrevention` | the pre-trade check: whitelist, blocklist, rate limit |
| `ContractRegistry` | deployments and upgrades on the table of contracts |
| `ContractEvents`, `ContractEventsProofs` | the event listeners and their cursors on the same table, which `ContractRegistry` changes meanwhile; the proofs of both |
| `CrossBorder` | processing, retry and cancellation of cross-border trades |
| `TxWorkflow` | transaction workflows |
| `Services`, `MCServices` | the last eight together, for one run |
| `ServicesProofs` | the theorems about `CircuitBreaker`, `FraudCases`, `FraudPrevention`, `CrossBorder` and `TxWorkflow` |

## 1. The system

`app.module.ts` imports Asset, Security, Apm, Tracing, Sharding, MarketForecasting,
RiskManagement, CrossBorder, Contracts, ApiGateway, Monitoring, Sentiment,
FraudDetection, PredictiveBalancing, Sync, Logging and Settings. The directories
`scheduler`, `energy`, `matching`, `multisig`, `webhooks`, `gas`, `pricing`, `fees`,
`location`, `stellar`, `audit`, `analytics`, `carbon`, `classification` and `ai` hold
modules that nothing imports yet. `k8s/deployment.yaml:13` runs three replicas with a
rolling update; they share one MySQL database (TypeORM) and nothing else: each replica
has its own Maps, Sets, timers and crons, and loses them when it stops.

### Inventory

The components that keep state and act by themselves, or on state that others act on:

| Component | State | Operations | What is hard | What makes it correct |
|---|---|---|---|---|
| Transaction monitor `monitoring/transaction-monitor.service.ts` | table `transaction_status`; `monitoredTransactions` (hash -> interval) | create, poll every 5 s, sweep every minute, `updateTransactionStatus`, reload at start, archive | polls overlap and run on every replica; entities are read, awaited on, and saved whole; intervals die with the replica | a recorded verdict is the network's; no row stays PENDING; intervals of settled rows end |
| Retry service `monitoring/retry/retry.service.ts` | `activeRetries`, `retryQueue`; columns `status`, `retryCount`, `maxRetries` | schedule, execute, manual, cancel, cancel all, prioritise | a timer, its `finally` block, a poll and an operator meet on one hash | at most one retry per hash and replica; never more attempts than the limit |
| Alert service `monitoring/alerts/alert.service.ts` | `alertHistory`, `rateLimiter`; column `alerts` | send, record | rate limit shared by all hashes; read-modify-write of a column | exhaustion is alerted |
| Workflow `monitoring/workflows/transaction.workflow.ts` | `activeWorkflows` with the context of their steps; the same rows | create, execute, cancel | nothing keeps two executions of one workflow apart; cancel stops none; the first to end deletes the workflow under the other | CONFIRMED only of a success; no workflow is left behind; executions end |
| Ledger sync `sync/` | table `sync_states`; `isSyncing`, `isPartitioned`, the streams | poll every 5 s, batches, partition check every 30 s, pause, validate, resume, catch up, recover by four strategies, full sync | writers of one row with old copies; an error may end a stream; the bigint column is read as a string | no row ahead of the network; one `syncLedger` at a time |
| Contract events `contracts/contract.service.ts` | `eventIntervals`; column `lastProcessedLedger` | listen, poll, stop | the interval does not wait for a slow poll; each poll resolves the active row again; the cursor is saved before the events leave; a client's `startLedger` | no cursor passes an event that was not delivered; a listener that has a cursor delivers |
| Contract registry `contracts/deployer/` | table `contracts`, `isActive` | deploy, upgrade | find, deactivate and save without a transaction; an upgrade finds its predecessor whatever its type; the deactivated entity takes its old cursor back | the contract of a type registered last is active |
| Circuit breaker `gateway/circuit-breaker/` | `state`, `failureCount`, timers | check, report success, report failure, timeout | timers that nothing clears, reports that come late | an open circuit opens again; a closed one is below its threshold |
| Webhooks `webhooks/webhook.service.ts` | tables `webhooks`, `webhook_deliveries` | trigger, process, fail, retry cron | crash between save and send; rows not claimed; late failure over SUCCESS | every event is sent; SUCCESS means accepted |
| Log buffer `logging/logging.service.ts` | `logBuffer`, flushes under way | log, flush, stop | a failed flush puts ten entries back before those logged meanwhile | nothing twice, nothing lost while requests succeed, memory bounded |
| Fraud cases `fraud/monitoring`, `fraud/reporting` | table `fraud_cases`, `pendingTrades` | analyse, enqueue, 15 s cycle, SAR, hourly and daily cron, investigator | cycles overlap; the crons and the SAR write from copies | a trade is analysed once; a report is not taken back; critical cases are attended |
| Fraud prevention `fraud/prevention/` | whitelist, blocklist, rate timestamps | check, block, unblock, whitelist | the trade is counted after an await | the limit is passed by the checks in flight only |
| Cross-border trade `cross-border/transactions/` | table `cross_border_transactions` | process, retry, cancel | the entity is saved again after its checks, from the copy inserted; a retry inserts again | a cancelled trade stays cancelled |
| Multisig, settings, supply adjuster | | | | see section 8: they cannot run as they stand |

The components without such behaviour (numerical prediction, scoring, reports, queries,
infrastructure) and those that cannot run as they stand are listed with their reason in
`PROJECT.json`, and so are the hazards, each at its line.

### How they interact

The monitor calls `RetryService.scheduleRetry` with the entity it is about to save, and
`AlertService`; the workflow calls all three; all of them write `transaction_status`.
Sync, its partition handler and its recovery service write `sync_states`: one module has
all three. The fraud monitor calls the SAR service, and both write `fraud_cases`. The
listeners of `ContractService` read the active row of the table `contracts` at every poll and
write its cursor, while `DeployerService` inserts, deactivates and retires rows of it. Every
service logs through Nest's `Logger`. Horizon and Soroban RPC are asked over HTTP. Each of
these groups has tables, maps and timers of its own, which is why `Services` may look at one
group at a time; a group is one module or, for the contracts, two with a joint next-state
relation.

## 2. Plan

1. *(done)* `TxMonitor`, `RetryOperator`, `TxRecord`, `WebhookDelivery` and their proofs.
2. *(done)* `LedgerSync` with partition handler and recovery; proofs of its three
   invariants. A specification "the ledgers up to `lastLedgerSequence` have been
   processed" is not stated: failed batches are skipped and strings make gaps, so the
   code does not implement it, and no text of the repository promises it.
3. *(done)* `CircuitBreaker`, `ContractRegistry` and `ContractEvents` on one table,
   `LogBuffer`, `FraudCases`, `FraudPrevention`, `CrossBorder`, `TxWorkflow`, and `Services`
   for one run of them; proofs of their invariants and action properties.
4. *(done)* Proofs of the remaining invariants of `TxMonitor` and `WebhookDelivery`, and of
   `RetryOperator`. Every safety property that a passing run checks is now a theorem.
5. Left: `cancelRecovery` and `cleanupOldStates` in `LedgerSync`; an abstract specification of
   what a reader of `webhook_deliveries` is promised, as `TxRecord` is of
   `transaction_status`, and its refinement.

## 3. The transaction monitor

### State

| Variable | Code |
|---|---|
| `row` | table `transaction_status`; `status`, `retryCount`, `maxRetries`, whether `errorMessage` names a non-retryable error (`fatal`), whether `ledgerSequence` is set |
| `monitoredTransactions[s]` | the Map of poll intervals of replica `s` |
| `activeRetries[s]`, `retryQueue[s]` | the Set and the Map of `RetryService`; a handle is the timer's slot |
| `call[c]` | a `checkTransactionStatus` or a `handleTimeoutTransactions` between two awaits: the status it is about to set, the entity it holds, the rows left to time out |
| `timer[k]` | a retry timer, asleep or executing, and the entity its closure holds |
| `ledger`, `aged` | what Horizon would answer; which rows are older than five minutes |
| `up`, `faults`, `alerted` | running replicas; stops and database errors so far; hashes `sendCriticalAlert` was called for |

### Actions

An action is the code between two awaits, ending with one database statement or one
answer of Horizon. What a handler read before an await stays in its frame and is used
after it: this is what the model is about.

* A poll: `PollStops` or `PollAsks`; `PollAnswered`, `PollNotFound` (404: nothing),
  `PollFails` (any other error: time the row out if it is old); then
  `updateTransactionStatus`: `FindThenSave`, `FindThenRetry` or `FindThenGiveUp`,
  `MarkRetrying` (the UPDATE of `updateTransactionForRetry`), `Save`, `RecordLedger`.
* A sweep: `Sweep`, then `FindThenSave` and `Save` for each row that was listed.
* A retry: `StartTimer` inside `FindThenRetry`; `TimerFires`; `RetryFindsSuccess` and
  `RetryConfirms`, or `RetryFails` and `RetrySaves` / `RetrySavesAndReschedules`
  (then `RetryMarks`). Each way out removes the hash, as the `finally` block does.
* Environment: `LedgerDecides`, `FiveMinutesPass`, `Stop`, `LoadPendingTransactions`,
  and the failing database calls `PollDbError`, `CallDbError`, `ConfirmDbError`,
  `RetryDbError`.
* `RetryOperator` adds `ManualRetry`, `CancelRetry`, `CancelAllRetries`,
  `PrioritizeRetries` and the steps they continue with (`CancelWrites`, `ManualGoesOn`,
  `OpMarks`, `OpDbError`). A call in progress holds a slot of `call`, with a frame of its
  own (`OpFrame`); the number of calls is not bounded. The items of a list are tested each at
  its turn (`After`): those before the next that is handled were left alone.

A call and the timer it sets hold the *same* entity object (the closure of `setTimeout`
captures it): `call[c].obj` names the timer, and `Save` writes the object as the timer
may have changed it (`Held`).

### Abstractions

* `save(entity)` writes every column in one step (TypeORM updates the changed columns of
  the entity it compares with the row). The continuation of a write up to the next await
  belongs to the same step; only in-memory statements of the same replica could fall
  between them.
* `errorMessage` is one bit. `result_xdr` is base64 and names no code, so a poll's failure
  is never fatal; an error met by a retry may be.
* Alerts and their history are left out but for `alerted`; so are delays and priorities:
  a timer may fire at any time.
* `PollFails` merges the second read of the row, of which only `createdAt` is used.
* A database error in the catch block, or in a sweep, ends the call: the rejection
  reaches the process handler of `logging.service.ts:109`, which logs and goes on.
* A reschedule after a cancellation copies the entity instead of sharing it: the attempt
  that shares it has ended.
* A call to Horizon returns some day (the client has no timeout; TCP does).

Not modelled of these services: `archiveOldTransactions` (rows older than a year),
`cleanupExpiredTransactions` (`expiresAt` is not in the create DTO), the queries and
statistics, `LinearBackoffStrategy` (registered, never selected, though
`monitoring/README.md:21` promises it), and `registerRetryStrategy`.

## 4. The webhook service

`triggerWebhook` saves one delivery for each matching webhook and starts
`processWebhookDelivery` with `setImmediate`; a cron that every replica runs once a minute
starts it again for the rows that are RETRYING and due. Nothing marks a row as taken.

| Variable | Code |
|---|---|
| `webhook` | table `webhooks`: `active`, `maxRetries`, the two counters |
| `row` | table `webhook_deliveries`: `status`, `attemptNumber`, whether `nextRetryAt` has passed (`due`) |
| `trigger[e]` | `triggerWebhook` of event `e`: the webhooks it has still to queue the event for |
| `call[c]` | a `processWebhookDelivery` between two awaits, with the `attemptNumber` and `maxRetries` it has read |
| `up`, `faults` | running replicas; stops and database errors so far |
| `posts`, `accepted`, `answers` | history: POSTs made per delivery, deliveries whose endpoint accepted a POST, and per webhook the POSTs that were answered with 2xx in time |

* The loop of `triggerWebhook`: `TriggerWebhook`, `QueueWebhookDelivery` for each webhook
  (save, then `setImmediate`), `TriggerReturns`; after `TriggerDbError` the rest of the loop
  is lost.
* A call: `FindDelivery`; `PostAccepted`, `PostUnanswered` (the endpoint took it, the answer
  is lost or late) or `PostRejected`; `RecordSuccess` and `CountDelivery`, or `GiveUp` and
  `CountFailure`, or `PlanRetry`. `SuccessDbError` is the case of a database error inside
  the `try` block, which sends an accepted delivery to `handleFailedDelivery`.
* The cron: `RetryFailedDelivery`, one step for each row it lists. `BackoffEnds` lets
  `nextRetryAt` pass.
* Clients and platform: `UpdateWebhook`, `Stop`, `Start`. Nothing is resumed at start.

Abstractions: registration happens before the model starts; events and filters of a webhook
let an event through or not (any subset of the active webhooks matches); every statement is
an UPDATE of the columns named in the code, so unlike the monitor's `save` it disturbs no
other; payload, signature and headers are left out; the cron's list and its loop are one
step per row, since it neither writes nor waits between them; a POST and its outcome are one
step, so a replica that stops while a POST is under way stops before or after that step. Not
modelled: deletion (the foreign key refuses it once there are deliveries) and the statistics.

## 5. Ledger synchronisation

| Variable | Code |
|---|---|
| `row` | table `sync_states`: `status`, `lastLedgerSequence`, `retryCount` |
| `task[k]` | a handler between two awaits: where it is, the copies it listed and has still to handle (`list`), the entity at hand (`ent`, `copy`), the ledger it was told (`now`), where its batches are (`at`; `to` and `next` within a recovery) |
| `isSyncing[s]`, `polling[s]`, `errors[s]` | of `SyncService`: the flag, whether the stream of 5 s is alive, what its `retry(3)` has counted |
| `isPartitioned[s]`, `monitoring[s]` | of `PartitionHandler`: the flag, whether its interval of 10 s is alive |
| `ledger`, `faults` | the last ledger of the network; failing calls and restarts so far |

An action is again the code between two awaits. `syncLedger` is `SyncTick`, `SyncAsks`,
`SyncFinds`, then for each row `SyncMarks`, `BatchSaved` for each batch, `RangeDone`, and
`SyncReturns`; a failing batch is `BatchFails` or `TransactionFails` and then
`HandleBatchError`, which may run a recovery *inside* the call (`inline`). A rejection is
`Throws`: `switchMap` has dropped the call, or `retry` counts it, or the stream is replaced
by one recovery of all rows. `RecoveryService` is `RecoverFinds` .. `RecoverThrows`, with
the four strategies; `PartitionHandler` is `DetectPartition` .. `LoopEnds`, one step for
each row that it saves.

* `last_ledger_sequence` is a bigint, which the MySQL driver returns as a string, so that
  `lastLedgerSequence + 1` of an entity as it was read appends a digit: `NextLedger` is
  `10 * last + 1` until the program has assigned a number (`num`). Comparisons and
  subtractions convert.
* `getCurrentLedgerSequence` answers 0 when it fails (`Asked`).
* The size of a batch is the optimizer's: a batch ends anywhere in the range.
* The columns that no decision reads (`targetLedgerSequence`, `errorMessage`, counters,
  times) and the contents of ledgers are left out; so is whether the last successful sync is an
  hour old, which leaves the choice of the recovery strategy open in that branch.
* The check of the monitoring is three steps: the tick, the answer of the network
  (`CheckAsks`), the find (`CheckFinds`); `NotRecovered` ends it wherever it is, since
  `switchMap` drops a check that the next tick overtakes.
* Left out: `cleanupOldStates` (`sync.service.ts:417-426`), which every hour deletes the IDLE
  rows that were not touched for 24 hours; `cancelRecovery` (`recovery.service.ts:489-507`),
  which no controller calls and which writes ERROR into the row of a recovery under way; and
  escalation, which writes no row. What is proved of the module is proved of the handlers it has.

## 6. The other services

Each module has its own variables, `Init`, `Next`, fairness and properties. `Services`
composes them for one run: `focus` names what acts, the rest stays in its initial state.
Where no variable is shared, a behaviour of all is any interleaving of behaviours of each, and
every property is about one of them, so nothing is missed; and since no action that fairness is
assumed of is enabled in an initial state, resting is fair. `ContractEvents` and
`ContractRegistry` share the variable `contracts`: `ContractEvents` extends `ContractRegistry`,
and `ContractNext` interleaves the steps of both. Under the focus "contracts" both act; under
"deployments" more deployments overlap than TLC could explore beside the listeners.

* `CircuitBreaker`: `checkCircuit`, `reportSuccess`, `reportFailure` and the timer of each
  failure beyond the threshold. Requests report late, in whatever state the circuit is.
* `LogBuffer`: `Log` (with the flush of a full buffer), `PeriodicFlush`; a flush is
  `FlushLogs` up to its await and then `BulkIndexed`, `BulkRejects` or `BulkFails`, where
  the request may have been carried out. A full buffer is flushed only while a slot of
  `Flusher` is free, a bound of the model. `LoggerStops` loses the buffer: nothing calls
  `enableShutdownHooks`, so `onModuleDestroy` does not run.
* `FraudCases`: a frame per analysis, cycle, cron or SAR, with the batch and the cases it
  has still to handle and the copy of the case at hand. Scores are left open. `UpdateCase`
  lets an investigator set a status of `InvestigatorSets`.
* `FraudPrevention`: `preTradeCheck` up to its await, `Allow`, `Refuse`; the clock is left
  open (`MinutePasses`, `BlockExpires`).
* `ContractRegistry`: the rows of the table in the order of insertion, with type, contract,
  `isActive`, cursor (0 is null) and `updatedAt`, of which only the order counts (`Touch`). A
  deployment is `DeployContract`, `FindActive`, `Deactivate` (the entity is saved as it was read,
  its cursor included), `SaveContract`; an upgrade has found its predecessor before, in
  `UpgradeContract`, by contract only, and adds `Retire` and `Relink`. `orphaned` collects the
  rows that a deployment deactivated before it failed, `retyped` those that an upgrade to
  another type retired.
* `ContractEvents`: one listener for each type; the events are numbered, `chain` gives their
  contract and ledger. A poll is `PollBegins`, `PollResolves` (the latest active row of the type or
  the contract of the configuration; then the request's `startLedger` or the row's cursor),
  `PollFetches` (a page) and `PollPersists`, which writes the cursor into every row of the
  contract. Without a start the code sends `startLedger: undefined`, which `getEvents`
  refuses: such a poll has no page. `gone` collects what the code gives up: events beyond a
  page within its last ledger, events before a client's `startLedger`, and pages whose UPDATE was
  made when the poll failed.
* `CrossBorder`: insert, check, save the same copy again; a retry inserts (and is refused
  by the unique index); `CancelSaves` writes the changed columns or all, as `save` may find.
* `TxWorkflow`: a workflow with its step and its shared context, executions with their
  attempts. The steps of a type are one step; the retry that a failure schedules is one
  step, `ExecuteRetry`.

## 7. What is checked

| Run | Bounds | Shows |
|---|---|---|
| `TxMonitor` | 2 replicas, 1 hash, 2 calls, 2 timers, limits 1 and 2, one stop, one database error | the safety properties and the refinement |
| `TxMonitorLive` | the same, limit 2 | the liveness properties |
| `RetryOperator` | 1 replica, 1 hash, 2 calls (of the monitor or of operators), 2 timers, limits 1 and 2 | operators racing the monitor, raising and lowering limits |
| `RetryOperatorPair` | 1 replica, 2 hashes, 1 call, 2 timers, one stop, one database error; faults happen only while one hash at most has been created (`FaultsAlone`, a constraint) | the lists of `cancelAllRetries` and `prioritizeRetries`; operators and retries that are cut short |
| `TxMonitorConfirmed`, `TxMonitorStuck`, `TxMonitorAlert` | 1 replica, 1 hash, 2 calls, 1 timer | three promises of the documentation that the code does not keep |
| `WebhookDelivery` | 2 replicas, 1 webhook, 1 event, 2 calls, limit 2, one stop, one database error | overlapping attempts on one delivery, safety and liveness |
| `WebhookPending` | the same with limit 1, no database error | a promise of the documentation that the code does not keep |
| `LedgerSync` | 1 replica, 1 row, 2 handlers, ledgers 0 to 2, two faults, ledgers and faults together 3 (`MaxEvents`); `retry(1)`, recovery at the 2nd and manual intervention at the 2nd error; all spans and gaps 0 or 1 | stream, recovery and partition handler on one row |
| `Services` | 2 of each kind of handler (3 calls of `CrossBorder`), a buffer of 2, 4 log entries, 2 trades, 1 workflow, 1 fault each (2 of the log); 2 types and 2 contracts, one of which a client may deploy to each type (`DeployRequest`), 3 rows without and 2 with listeners (`MaxListenedRows`); listeners of one type, with and without `startLedger` (`Request`), 2 events of one contract (`EventContract`) in 3 ledgers, pages of 1 event; beside listeners one deployment at a time, and polls, deployments and faults together 2 (`MaxLoad`) | what each service promises, safety and liveness |
| `FraudReported` | 1 trade, 1 handler, 1 fault | a promise of a comment that the code does not keep |

Properties:

* `RetryBudget`: four handlers write `retryCount` from entities read earlier; none
  exceeds the row's limit. With operators it holds of the highest limit only (`OpBudget`): a
  manual retry changes the limit of an entity whose row keeps the old one until the attempt is
  saved, and `updateTransactionForRetry` counts in the row before that.
* `VerdictRespected`: CONFIRMED only if the network accepted, FAILED or RETRYING only if it
  rejected, however late the write. Operators may cancel, so `RetryOperator` keeps the
  first half (`ConfirmedIsTrue`).
* `OneRetryPerReplica`: `activeRetries`, `retryQueue` and the timers of a replica agree.
  It does not hold with operators: a cancellation during an execution frees the hash, and
  a manual retry starts a second timer. What holds then is `HandleIsLive`. `OpTypeOK` adds
  that a call in progress belongs to a replica that runs and to a row that exists.
* `PendingIsWatched`: across stops, a PENDING row has an interval or a call about to settle
  it. After a database error it may have neither until the sweep; that is the case the
  invariant excludes and `EventuallySettled` depends on the sweep for.
* `EventuallySettled`, `MonitorCleanup`, `RetryEnds`: see the module. A promise "whenever P,
  some day Q" whose P lasts until Q is stated as `[]<>(P => Q)`, which says the same and is
  checked faster. A retry may leave `activeRetries` by failing, by a limit or by a database
  error; in `TxMonitor` it never finds success (`NoRetrySucceeds`).
* `ImplementsRecord`: the rows implement `TxRecord`.

Properties of `WebhookDelivery`:

* `GivenUpLate`: every call writes the `attemptNumber` it read before its POST, plus one, and
  calls of two replicas overlap; FAILED is still never written before more POSTs than a limit
  its client had set.
* `SuccessIsAccepted`: a status never claims a delivery that no endpoint accepted, whatever
  errors divert a call between the POST and the UPDATEs. `CountIsHonest`: `deliveryCount`
  counts no more than the POSTs that were answered; two calls may both count one delivery, for
  both have POSTed it.
* `OneFirstAttempt`: no cron joins the call that `setImmediate` started until it has recorded
  an outcome.
* `RetriesEnd`, `FirstAttemptMade`: late writes of old attempt numbers do not keep a delivery
  RETRYING for ever; without a stop or an error every saved delivery is attempted.

Properties of `LedgerSync`:

* `NeverAhead`: no row claims a ledger that the network has not closed, although cursors are
  written from copies of any age, computed from strings, and from answers of 0.
* `SyncExclusive`: `isSyncing` is up exactly while one `syncLedger` runs, through every
  return, rejection, inline recovery and restart; `TypeOK` bounds what `retry` has counted.

Properties of the services:

* `OpenIsTimed`, `BreakerReopens`: late reports and left-over timers may close an open circuit
  or half-open a closed one, but an open one always has a timer and a reason, and
  ends.
* `LogConserved`, `BufferBounded`, `LogSettles`: see the module; an outage keeps the memory
  within the limit plus what the flushes under way put back. That every entry is indexed or
  lost some day holds because `MaxLosses` bounds the failures: while Elasticsearch stays down
  entries may go round for ever.
* `TradeAnalysedOnce`, `ReportStands`, `CriticalIsAttended`: the queue against its
  overlapping cycles; reports against stale SARs, escalations and investigators; every open
  critical case is reported, escalated or taken up.
* `RateOvershoot`: checks in flight pass the limit together, by no more than their number.
* `EventsKept`: cursors go back and forth when polls overlap and when a deployment saves an old
  one with its entity, and still no row's cursor passes an event over. `EventsDelivered`: a
  listener without a `startLedger` that stays delivers all events of the contract that its row
  keeps and has a cursor for. Both conditions are needed: a new row has no cursor, so after a
  deployment the listener asks without a start, or asks the other contract, and is silent.
* `NewestIsActive`: deployments and upgrades that deactivate and retire one another's rows leave
  the contract of a type registered last active; but an upgrade that registers another type
  retires the newest row of the old one, without any overlap or fault (`retyped`).
* `CancellationStands`: one processing of a trade at a time, and after it a cancellation stays.
* `WorkflowVerdict`, `RunningIsRun`, `ExecutionIsOver`: executions that share a context, with
  cancellations and deletions among them.

Both runs of `RetryOperator` use a view: no step and none of their properties looks at `alerted`,
at the `ledgerSequence` of a row or an entity, or at the entity of a timer that is over and that
no call shares, so states that differ in these only are one (`View`).

Why the bounds are enough: a hash never reads or writes anything of another hash except
through the lists of a sweep and of the operators, which `RetryOperatorPair` covers; two
calls and two timers give every overlap of two handlers on one row, on one replica or
two; one stop and one database error can fall at every await. Limit 1 lets the first
failure exhaust the retries, limit 2 lets one attempt follow. Deliveries share nothing but
the counters of their webhook, which are incremented in place; limit 2 with two calls is
the smallest case in which a late call writes RETRYING over FAILED. The runs of the monitor
say `CHECK_DEADLOCK FALSE`: when every row is settled and the faults are used up the system
rests; so do `LedgerSync` and the services. The webhook runs do not, for clients can always
update a webhook.

`LedgerSync` has one row: rows meet only in the lists of finds, each of which is handled row
by row. Two handlers give every overlap of two writers with one copy each, and a third would
only write what one of the two may write; two faults are a call that fails inside the
handling of another failure. Its gaps and thresholds are as small as they can be with every
branch on either side of them taken. What the limits are in the code does not matter to the three invariants: the
proofs are for all of them, and for any limit of `WebhookDelivery`, whose run has limit 2 only, so
that a PATCH cannot change it there. Two ledgers make the digit that `NextLedger` appends differ
from an addition. A buffer of 2 with one entry put back makes a failed flush lose one and
keep one; 4 entries fill it twice. Pages of one event with two events make the cut within a ledger;
two polls write cursors out of order. Two deployments and three rows let an upgrade retire a row
that a deployment has activated. Beside the listeners one deployment and two rows are enough to
move a listener to another row, to set a cursor back and to retire a row of another type. Faults
count towards `MaxLoad`: one fault and a deployment that hangs leave no room for a poll, and
`EventsDelivered` says nothing of such behaviours. Three calls of `CrossBorder` are a processing, its retry
and a cancellation; two executions of a workflow are enough for one to end under the other.

### Fairness

`FairSpec` assumes what the platform gives: five minutes pass; a database or Horizon call
that was made returns; a set timer fires and its callback goes on; a stopped replica is
started again (Deployment); an interval that is set keeps firing (`PollStops`); the cron
keeps firing. The sweep has strong fairness because in the model it shares its slot with
polls, which could take it each time; in the code each tick of the cron runs. Nothing is
assumed of the network's verdict, of clients or of faults.

In the services: timers of the circuit breaker fire; the flush interval fires and a bulk
request ends (it has a timeout); analyses and statements return; an event listener's interval
fires and its calls return; the calls of a workflow execution return. The fraud crons have
strong fairness because in the model they share their slots with clients' requests, which
could always be first; in the code each tick of a cron runs.

`FairSpec` of `WebhookDelivery` assumes weak fairness of a loop of `triggerWebhook` and of a
call (the database answers, the POST has a timeout), of back-offs, of the cron on some
replica and of `Start`.

### What the documentation says and the code does not do

1. *CONFIRMED is not final.* "Tracks transactions from submission to final confirmation"
   (`monitoring/README.md:9`). A sweep lists the row PENDING, a poll confirms it, the
   sweep saves TIMEOUT (`transaction-monitor.service.ts:130`).
2. *A row stays RETRYING.* "RETRYING - Transaction is being retried" (`:16`). The
   reschedule at `retry.service.ts:275` meets its own hash in `activeRetries`.
3. *Exhaustion without alert.* "Retry exhaustion -> Alert generation" (`:134`).
   `retry.service.ts:252-262` saves FAILED and throws into a callback that logs. No call and no
   timer works on the row then, and no alert was asked for.
4. *A saved event is never sent.* "Deliver webhooks within 5 seconds of event"
   (`README-WEBHOOK-PRICING.md:210`). The row is saved PENDING and sent from memory; the cron
   selects RETRYING only (`webhook.service.ts:111`, `:231`). A replica that stops in between
   leaves it PENDING for ever.
5. *A critical case is never reported.* "Daily SAR summary sweep — auto-report all
   unprocessed CRITICAL cases" (`fraud/reporting/suspicious-activity.service.ts:287`). If the
   SAR of a new case fails, `hourlyEscalation` sets it ESCALATED within the hour, and the
   sweep selects OPEN cases only (`:296`).

Seen while modelling the monitor and the webhooks, without a run of its own: no module imports the webhook module,
although that README says both features are integrated into `AppModule`; a delivery that
reads SUCCESS may read RETRYING or FAILED afterwards, by a late call or a failed UPDATE; a retry looks the transaction up again and
never resubmits it, so after a rejection no automatic retry can succeed (lemma
`NoRetrySucceeds`); the RETRYING written by `updateTransactionForRetry` is overwritten
with FAILED by the `save` at `transaction-monitor.service.ts:151`; RETRYING rows are not
reloaded at start; after a manual retry that raised the limit (`retry.service.ts:202`) the
row's `retryCount` may exceed the row's own `maxRetries` until the attempt is saved (`:307`
writes the count only).

Seen while modelling the rest:

* `sync/`: a range whose row was just read starts at the appended digit, so
  that a row that is behind is set IDLE with nothing processed until some handler has
  assigned a number; a failed batch is skipped; rows set RECOVERING by the partition handler are
  picked up by no query; the stream ends for good after its fourth error; the status of a
  manual intervention is overwritten with IDLE (`recovery.service.ts:340`, then `:156`).
* `contracts/`: `isActive: request.activate === false` is inverted (`deployer.service.ts:140`);
  an upgrade selects its predecessor without its type and retires it (`:123`); a listener whose
  row has no cursor asks with `startLedger: undefined` (`contract.service.ts:183`); a
  `startLedger` goes before the cursor at every poll; a page may end within a ledger;
  `stellar-sdk` is required but `package.json` has `@stellar/stellar-sdk` only.
* `cross-border/`: a retry is always refused by the unique `transactionId`; a check that throws leaves the
  row PROCESSING for ever.
* `fraud/`: a case says `preventionApplied` though nothing calls `applyPreventionForCase`.
* `enqueuePendingTrade`, `listenToEvents`, the workflow service and the circuit breaker are called
  by tests only: their models are of what they would do in use.

## 8. What is not modelled

* *Cannot run as they stand:* the settings service does not parse; multisig refuses every
  signature (`validateSignature` passes an array as a status); the marketplace's `acceptBid`
  uses `Not` without importing it; the scheduler uses operators it does not import; order matching
  imports an `EventEmitter` that does not exist; the supply adjuster adds numbers to decimal
  columns that come back as strings. A model of what was meant would not be one of the code.
* *Numerical:* risk, forecasting, balancing, pricing, fees, gas, sentiment and the fraud scores
  are floating-point and statistics, partly with random inputs, without a protocol.
* *Reports, queries and infrastructure:* audit, analytics, classification, carbon, location, AI, APM,
  tracing, sharding, caching; the statistics and queries of the modelled services.
* *Security filters:* outside the purpose of this project.

These are most of the repository's lines. `PROJECT.json` lists each with its reason.

## 9. What is proved

For all sets of replicas, hashes, webhooks, rows, events, slots and limits, and any number of
stops and errors. The only assumptions are those the modules state on their constants: limits
are numbers, some of them not 0, sets of slots whose size is counted are finite
(`LimitAssumption`, `FaultAssumption`, `CallAssumption`, `NumberAssumption`,
`BreakerAssumption`, `FraudAssumption`,
`LogAssumption`, `PreventionAssumption`, `EventAssumption`, `RegistryAssumption`,
`WorkflowAssumption`), and the value that stands for "none" is no row and no frame
(`NoneAssumption`, `ExecutionAssumption`):

| Theorem | Statement |
|---|---|
| `TypeCorrect` | `Spec => []TypeOK` |
| `BudgetKept` | `Spec => []RetryBudget` |
| `VerdictsTrue` | `Spec => []VerdictRespected` |
| `OneRetryAtATime`, `PendingNeverOrphaned` | `Spec => []OneRetryPerReplica`, `[]PendingIsWatched` |
| `RecordImplemented` | `Spec => ImplementsRecord` |
| `CallsTyped`, `ConfirmedTrue`, `OperatorBudget`, `HandlesLive` | `OpSpec => []OpTypeOK`, `[]ConfirmedIsTrue`, `[]OpBudget`, `[]HandleIsLive` |
| `DeliveryTypes`, `DeliveryCountHonest` | `Spec => []TypeOK`, `[]CountIsHonest` of `WebhookDelivery` |
| `DeliveryNotGivenUpEarly` | `Spec => []GivenUpLate` |
| `DeliverySuccessTrue` | `Spec => []SuccessIsAccepted` |
| `FirstAttemptAlone` | `Spec => []OneFirstAttempt` |
| `LedgerTypes`, `RowsNeverAhead`, `OneSyncAtATime` | `Spec => []TypeOK`, `[]NeverAhead`, `[]SyncExclusive` of `LedgerSync` |
| `CircuitIsTimed` | `BreakerSpec => []OpenIsTimed` |
| `OvershootIsBounded` | `PreventionSpec => []RateOvershoot` |
| `WorkflowIsRight`, `WorkflowIsRun` | `WorkflowSpec => []WorkflowVerdict`, `[]RunningIsRun` |
| `EntriesAreConserved`, `BufferIsBounded` | `LogSpec => []LogConserved`, `[]BufferBounded` |
| `CursorSkipsNone`, `LastIsActive` | `ContractSpec => []EventsKept`, `ContractSpec => []NewestIsActive` |
| `TradesAnalysedOnce`, `ReportsStand` | `FraudSpec => []TradeAnalysedOnce`, `FraudSpec => ReportStands` |
| `CancelledStays` | `BorderSpec => CancellationStands` |

### The monitor

None of the three invariants is inductive alone, because rows are written from frames.
`IInv` adds to `TypeOK`:

* `Rows`: every row is within its limit, its status agrees with the ledger;
* `Old`: an aged row exists;
* `Calls`: the entity in a call's frame belongs to an existing row, is within its limit,
  has the row's limit, and the status it is about to set agrees with the ledger; a call
  that shares a timer's object works on the same hash;
* `Timers`: the same of the entity a timer holds, which may be one attempt further; and
  a timer exists only for a transaction the network rejected.

One lemma per group of actions shows that a step keeps `IInv` (`CallStepKeeps`,
`WriteKeeps`, `TimerMovesKeeps`, `TimerEndsKeeps`, `RescheduleKeeps`, `StopKeeps`, ...);
`NextKeeps` combines them. `NoRetrySucceeds` uses `Timers` to show that `RetryConfirms`
and `ConfirmDbError` never occur without operators: that branch is exercised by the
`RetryOperator` runs. The refinement maps every step that writes a row to `Write`,
`CreateTransaction` to `Submit`, `LedgerDecides` to `Decide`, and all others to stutters,
using `IInv` for what may be written.

`OneRetryPerReplica` and `PendingIsWatched` are inductive beside `IInv`, which supplies the
types and that a timer's hash exists. For the first, three lemmas say what starts a retry
(`RetryStarts`: the hash was not in `activeRetries`, so it had no timer), what ends one
(`RetryEndsAlone`: the timer that ends was the only one, so its hash may be freed) and what
stops them all; a retry that reschedules itself needs its hash gone from `activeRetries`, which
only a cancellation does before the retry ends (`NoReschedule`). For the second,
`WatchKept` says that a step must leave the interval or the deciding call of a row that stays
PENDING; a step that ends a deciding call writes the row (`WriteWatches`), or is a database
error and excused (`ErrorExcuses`), and what a replica that stops takes with it is polled again by
`LoadPendingTransactions` before all replicas run (`MonitorsWatch`).

### The operators

`IInv` does not survive operators: a manual retry may look up, from an old copy, a transaction
that the network accepted; the limit of an entity is no longer its row's; a cancellation
writes FAILED of a transaction without a verdict. `OpInv` therefore compares each entity with
what no step changes, the set of limits that clients may ask for, and keeps of the verdicts
that CONFIRMED is true:

* `OpRows`, `OpCalls`, `OpTimers`: a row, and every entity read from one, is `Counted`
  (within some limit of `RetryLimit`); an entity that a retry works on is `Retriable`
  (FAILED, TIMEOUT or RETRYING) and, where a timer is about to be set for it, has an attempt left;
  a call belongs to a replica that runs, and all hashes it still has to handle exist;
* `Sharing`: the timer whose object a call shares is still of the same replica and holds a
  `Retriable` entity, even after operators have cancelled it;
* `HandleIsLive`: a handle is that of a timer of its hash that is not free. This part is what makes a
  cancellation harmless: the timer it clears is the one asleep for that hash.

`HandlesStay`, `HandleForgotten` and `HandleSet` say how the handles change, `OpTimerStarts`
and `ClearKeeps` that scheduling and cancelling keep `OpInv`, and `OpStepKeeps` combines them for all
other actions, the monitor's included.

### The webhook service

`IInv` adds to `TypeOK` what relates rows and frames to the POSTs made: `Rows` (a row counts
no more attempts than POSTs, FAILED means more than some limit, SUCCESS means an accepted
POST) and `Calls` (the attempt number in a frame is below the POSTs once its own was made,
and a call about to record a success has one that was accepted). `OneFirstAttempt` needs
more, proved on top of `IInv`: `FInv` adds `Firsts` (a PENDING delivery has at most one call
and one POST, none of either before that call POSTs, and an absent delivery has no call) and
`Queues` (a webhook that is still to be queued has no row yet). `CountIsHonest` needs `Counts`:
the counter plus the calls of that webhook whose POST was answered and that have not counted
it yet (`Answered`) do not pass the answers. A call that counts leaves `Answered` as it
increments the counter; one that is diverted by an error, or dies, leaves it for good.

### Ledger synchronisation

Rows are written from frames, so `Inv` of `LedgerSyncProofs` adds to the three invariants
that every frame is `Good`: the copies it listed, the copy at hand, the ledger it was told
and the end of its range are not beyond the network; where a row is at hand there is one; and
a recovery is `inline` only in its own steps. Batches lie between `at` and `now`, so a
start that the appended digit has put beyond the network has no batch. Three lemmas say what keeps `Inv`
when a handler goes on (`Goes`), when one that is no `syncLedger` begins or ends (`Begins`)
and when a `syncLedger` ends (`SyncEnds`); each of the actions is an instance of one of
them, and only `SyncTick`, `LedgerCloses` and `Restart` are argued on their own.

### The services

* `OpenIsTimed` is inductive with the types (`BreakerInv`).
* `RateOvershoot` bounds the trades counted plus the checks in flight, and is inductive with
  the types (`PreventionInv`): a check that begins has found the count below the limit and was not
  in flight itself; counting its trade leaves the sum as it was.
* `WorkflowVerdict`: the steps are passed in order, so an execution that is beyond "successful"
  has a context that says so (`WorkflowInv`); executions that join later inherit it through
  `currentStep`.
* `LogConserved`: instead of counting places, `HeldOnce` says that the positions of an entry in
  the buffer and in all flushes are one; a failed flush moves a suffix of its entries. `BufferBounded`
  follows by counting the flushes that run.
* `NewestIsActive` and `EventsKept` are proved of the joint specification of listeners and
  deployments. `TableInv`: the row that an upgrade is about to retire, if its type is that of the
  new row, is followed by another of it, the one the upgrade has saved, and is therefore not the
  newest; what polls write (`SameRows`) changes no type, contract or `isActive`. `EventInv`:
  the cursor of every row, and the one in the entity that a deployment is about to save, is
  `Settled` (all events of its contract up to it are emitted or gone), and of every poll
  (`PollGood`) its start is its client's or settled too, and its page holds, in the order of the
  network, the first events after its start. The last ledger of a page exists because pages
  are finite and not empty. Old cursors are harmless because what is settled once stays so.
* `TradeAnalysedOnce`: `InOnePlace` of `FraudInv` says that the queue and every batch have no
  repetition and that the trades in the queue, in the hands of each call and done are
  disjoint; `splice` moves a prefix of the queue into a batch (`SpliceFacts`).
* `ReportStands`: `CasesGood` and `CallsGood` say that a reported case has a SAR and is
  critical, that a call about to insert a case holds a trade that has none, and that the copy
  a SAR works on has the severity of its row, which no handler changes.
* `CancellationStands`: `OneProcesses` of `BorderInv` says that two calls are never between insert
  and save of one trade: the second insert meets the unique index. After that one call only
  cancellations write the row.

Only model-checked: the liveness properties (`EventuallySettled`, `MonitorCleanup`,
`RetryEnds`, `RetriesEnd`, `FirstAttemptMade`, `BreakerReopens`, `LogSettles`,
`CriticalIsAttended`, `EventsDelivered`, `ExecutionIsOver`), which rest on fairness and ENABLED and
are out of the proof system's reach. The modules use no recursion.
