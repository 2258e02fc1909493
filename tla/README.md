# StockShield: TLA+ models, runs and proofs

StockShield keeps one number right: how much of a SKU may be sold at a location, in its own tables
and on the sales channel. It is a NestJS service (API, worker and scheduler processes) over Postgres
(READ COMMITTED, through Prisma), BullMQ queues in Redis, Redis `SET NX PX` locks and the Shopify
REST API. What is hard about it is that most handlers read, decide and then write absolute totals,
with other handlers, worker attempts, retries, crashes and lock expiry in between.

Paths below are under `src/src/`.

## 1. Inventory of the system

| component | state | operations | hard behaviour | what makes it correct |
|---|---|---|---|---|
| Hybrid order engine (`hybrid/hybrid-orders`, `hybrid-order-worker`) | `orders`, queue `order.process`, its DLQ | create, retry, worker attempt (reserve, confirm, push), terminal failure, requeue | attempts are repeated after faults and crashes; the terminal handler decides from an unlocked read; manual retry races with workers | an order is sold at most once, its reservation ends in one sale or one release, it always settles |
| Hybrid stock and lock (`hybrid-inventory*`, `locks/redis-lock`, `hybrid-stock`) | `inventory`, lock keys with TTL | adjust, product upsert, `withLock` | the lock is never renewed and may expire under its holder, waiting for it may fail | no row reserves more than it holds; a release frees only its own key |
| Mock channel (`hybrid-external`) | `external_orders`, `external_inventory` | push order, set stock, channel sale, inventory webhook | reads outside the lock, absolute writes | the channel hears of an order only after its sale |
| OMS orders and returns (`inventory/orders.service`) | `orders`, lines, reservations, returns | create, cancel, fulfill, createReturn | checks happen outside the transaction that acts on them | reservations follow the order's status; returns never exceed what shipped |
| OMS ledger (`inventory/inventory-ledger`) | `inventory_balance`, `inventory_ledger`, `inventory_sync_outbox` | adjust, applyMovement | lost updates, unique indexes that abort the transaction, row-lock deadlocks | balance = ledger = reservations; the newest outbox row carries the current quantity |
| Inventory sync (`inventory-sync-outbox`, `shopify-sync-*`) | outbox status, queue `inventory.sync`, the channel's number | enqueue, retry, worker attempt | commit and enqueue are two systems; five workers push in any order; answers are lost | SUCCEEDED means Shopify has it; unfinished rows have a job; the channel ends current |
| Drift scan, recheck (`scans`, `rechecks`, `scheduler`) | `drift_scan_cursor`, `drift_event`, queues `drift.scan`, `drift.recheck` | scan window, recheck, create/reuse/resolve event, enqueue fix | cursor regressions, late commits, events reused while being fixed | every changed row is compared; one open event per row |
| Drift fix (`fixes`) | event status, idempotency records, attempt logs, fix lock, queue `drift.fix`, `drift.dlq` | process attempt, retry, terminal failure | stale targets, lock-busy attempts, lock released early | an event resolved by a fix matches the channel; an event never stays queued without a job |
| Drift events (`drift-events`) | `drift_event` | create, retry, ignore | enqueue before update; races with fixes | a queued event has a job, and every event settles |
| Hybrid drift (`hybrid-drift-*`) | `inventory_drift`, queue `hybrid.drift.fix` | detectAll, queueFix, fix | no unique index, stale expected and actual quantities | one open drift per row; a fix never writes an outdated quantity |
| Inventory webhooks (`webhooks`, `rechecks`) | `webhook_recheck_event`, queue `drift.recheck` | verify, find config and mapping, store event, add job, recheck, close event | Shopify delivers at least once and overlaps; event and job are two systems; the failed handler does not wait for its update | no change of the channel's number is forgotten; a PROCESSED event was really read |
| Order webhooks (`webhooks`) | none of its own | one hybrid order per line item | partial failure of the lines, redelivery, order ids made afresh | an accepted sale has an order or a named failure per line; a refused delivery places nothing |
| Risk and alerts (`risk`, `alerts`) | `sku_risk_snapshot`, `alert_delivery_log` | refresh after each drift event, alerts for drifts, failures, high-risk rows | count and upsert are two statements; alerts are decided from what was read before | every reported drift, every final failure and every high-risk row has been announced |
| Live events, observability, catalog, ATP, root cause | none, or rows for display | reads and single inserts | none that inventory depends on | not modelled |
| Accounts, auth, crypto, channel configs, sku maps, controllers, scripts | configuration | single-row CRUD | none that inventory depends on | not modelled (a config or mapping switched off under a worker is `Toggle` in `InventorySync` and `Relink` in `DriftRepair`) |

How they interact: HTTP handlers and workers share Postgres rows; the ledger's transaction leaves
outbox rows that `inventory.sync` jobs carry to Shopify; scans compare the ledger (or an external
OMS) with Shopify and leave events that `drift.fix` jobs repair on the same channel row; the hybrid
engine is a second, lock-based stock with its own queue, drift detector and channel, and the shop's
sales reach it through the order webhook. Whoever writes a drift event refreshes the row's risk snapshot
and sends the alerts that are due.

## 2. Modules

    HybridOrders        order engine, lock, order queue and mock channel, composed
      AtomicOrders      what it promises: whole orders moving in single steps
      HybridOrdersProofs
      MCHybridOrders    TLC instances (2 cfgs)
    HybridDrift         detections, drift rows, fix jobs and workers of the hybrid shop, composed
                        with AtomicOrders and the channel's other writers
      HybridDriftProofs
      MCHybridDrift     TLC instance (1 cfg)
    WebhookOrders       order webhooks and their redelivery, composed with AtomicOrders
      WebhookOrdersProofs
      MCWebhookOrders   TLC instance (1 cfg)
    OmsLedger           OMS orders, returns, ledger, balances and outbox
      OmsLedgerProofs
      MCOmsLedger       TLC instances (4 cfgs)
    InventorySync       outbox rows, BullMQ jobs, sync workers and the channel
      InventorySyncProofs
      MCInventorySync   TLC instances (2 cfgs)
    DriftRepair         scans of one row, its drift events, fix jobs and workers, operators
      DriftRepairProofs
      MCDriftRepair     TLC instances (2 cfgs)
    ScanCursor          which rows the scans of a tenant read: scheduler, windows, cursor, limit
      MCScanCursor      TLC instances (2 cfgs)
    WebhookRechecks     inventory webhooks, recheck events, jobs and workers for one row
      WebhookRechecksProofs
      MCWebhookRechecks TLC instance (1 cfg)
    RiskAlerts          what follows a drift event: risk refresh and alerts for one row
      MCRiskAlerts      TLC instances (4 cfgs)
    MonitorProofs       what ScanCursor and RiskAlerts keep

Common conventions. A *slot* (or *worker*) is one concurrent execution: an HTTP request or a BullMQ
worker slot. Its record holds the next statement that touches shared state (`pc`) and the local
variables that survive an await. One action is one handler step between two awaits that matter; a
transaction is a read step and a commit step, and everything else may move in between. Definitions
whose name and comment say "Mutant" are plausible bugs, used only to show that a property can fail.
Bounds (`Budgets`, `MaxRetries`, `MaxJobs`, `Mishaps`, `Allowance`) limit how often the environment acts; where a
module has a constant `Cost`, it says what each kind of mishap takes of `Mishaps` each time it happens.
`StallLimit` is BullMQ's `maxStalledCount` (1, as no worker sets it): the job of a dead worker is handed on
so often; at the next stall BullMQ fails it, although attempts are left, and calls no terminal handler of the
repository that would act on it.

### HybridOrders

`physical`, `reserved`, `product` are the `inventory` and product rows, `status`, `synced`, `pushed`
the orders and external orders, `ext` the channel's stock, `lock` the Redis key of each row (a slot's
token, "free", or "orphan" for a key whose holder is gone), `waiting` and `dlq` the queues. Actions
follow the code: `CreateOrder`, `RetryOrder`/`ResetOrder`, `TakeJob` (worker attempt), `Acquire`/
`LockBusy`/`Release` (`withLock`), `ReserveRead`/`ReserveCommit`, `ConfirmRead`/`ConfirmCommit`,
`ReleaseRead`/`ReleaseCommit`, `Terminal`/`MarkFailed`, `PushOrder` … `MarkSynced`, `Catch`,
`MoveToDlq`, `Enqueue`/`QueuedAt`, the stock requests, and the environment: `Fault` (one statement
rejects), `Crash` (a request is gone, a job's `stalls` grow), `OrphanExpires`, `HeldExpires` (the TTL runs
out under a live holder). The history variable `stranded` names orders whose last call ended without leaving
a job: a request that died before its enqueue or whose catch block failed, a last attempt whose terminal
handler failed or did not get the lock, a job that stalled too often. A manual retry takes an order out of it.

Abstractions: a missing inventory row is a row of two zeros, which every handler treats alike; a
product belongs to one row; BullMQ's `Date.now()` job ids are unique; a stalled job runs again only
when its worker is gone; channel orders with a caller-chosen `coreOrderId` are left out.

`ImplementsAtomic` is a refinement: with the identity mapping on `physical`, `reserved`, `status`,
every behaviour is one of `AtomicOrders`, where orders move whole and stock moves with them.

### HybridDrift

`physical`, `reserved`, `status` are the engine's rows and move only as `AtomicOrders` says
(`Engine == INSTANCE AtomicOrders`), which `HybridOrders` implements; whatever moves stock needs the
row's lock to be free. `ext` is the channel's number, `drifts` the `inventory_drift` rows, `jobs` the
queue `hybrid.drift.fix`. A detection (`call`) runs `ReadInternal` and `ReadExternal` in either order
(`Promise.all`), then per row `ResolveMatched`, or `FindOpen` and `UpdateOpen` or `InsertDrift`, and
with autoFix `QueueMark` and `QueueAdd`. A fix runs `Take`, `FixRead`, `MarkFixing`, then `SetAvailable`,
or `Acquire`, `ReadRow`, `WriteRow`, `Unlock`, and `Resolve`. The number a fix writes is the one its drift
row had in `FixRead`.

Requests that have read or received a number and not yet written it are members of `late`: channel
sales, the unlocked channel sync, the second half of an inventory webhook. They land at any time.

Mishaps: a detection or request that dies, a statement of a fix that rejects, a worker that dies (its
lock is orphaned and expires), a late request that is lost, a detection that begins while another
runs; and the requests the environment may make (orders, sales, syncs, webhooks, adjustments).
`stranded` names drifts whose request died between row and queue, or whose job failed for good or stalled
too often before its fix had begun.

Abstractions: the two reads of a detection see all rows at once; a lock that expires under a live
holder is HybridOrders' subject.

### WebhookOrders

`mail[s]` is what Shopify makes of sale s's webhook, `sent[s]` how often it was delivered, `handler` the
requests. `Verify`, `ResolveTenant` (the active config of the shop, or the default tenant), then per line
`Insert`, `Reserve`, `Enqueue`, `Mark`: the statements of `HybridOrdersService.create`, each a step of the
abstract engine. A line fails when `ReserveRefused` finds too little stock or a statement of create()'s try block
rejects, with or without effect (`OrderFails`); `FindOrder` and `FailOrder` are then its terminal handler, and
`LineFails` a statement outside that try block or within the handler. `Answer` is the 2xx that names the
failed lines. `FindOrder` reads the order without its lock, and `FailOrder` writes FAILED whatever has become of
it: a create() that fails after its enqueue may overwrite a sale. That one step is not a step of
`AtomicOrders`; HybridOrders excludes it where it claims the refinement (`create` not in `Fragile`), and here
it is an action.

`Work` is the order worker as the engine promises it. In `WorkFails` the last attempt fails: the reservation is
given back, or the order is `stranded`, because the terminal handler failed too (`withLock` gave up, a
statement rejected) or BullMQ failed the job at its second stall.

An order's id is made afresh by each delivery, so orders are named by sale, line, delivery and tenant. A
delivery that Shopify repeats while it still runs, or that dies before its answer, does place its lines
twice; nothing in the repository promises otherwise, and `cut` names these sales. `stranded` also names
orders whose request died over them or could not fail them, and those whose insert committed although its
answer was lost. An answer that Shopify no longer waits for is ignored.

### OmsLedger

`balance` and `moved` are the balance rows and the sums of the ledger's deltas; `status`, `held`,
`returned` the order, its reservations and its restocked returns; `outbox` and `queued` the sync
jobs. `call[p].written` is what slot p's open transaction has written: its own reads see it, others
wait for the row (`Locked`), `Commit` installs it. `Insert` is the unique (tenant, external order
id) index: a second insert waits for the first. `Check` is `assertSellable`, `Read` and `Write` are
`applyMovementTx`, `DeadlockVictim` is Postgres breaking a cycle of row locks, `Interrupt` a request
that dies at any statement.

Two facts about Postgres carry the model: under READ COMMITTED an absolute update based on an older
read loses the update in between, and a unique violation aborts the whole transaction, so the
`catch` in `createSyncJob` cannot recover. The history variable `stale` names rows that a
transaction wrote from data that had changed since it was read; properties that lost updates break
are stated for the other rows, and `OmsLedgerLostUpdate.cfg` shows what happens on these.

Abstractions: orders carry an external order id; unknown SKUs and locations throw before anything
changes; the order's status update is merged with the commit of its transaction; Prisma's `include`
reads relations in later queries (`ReadLines` after `FindOrder`).

### InventorySync

Outbox rows are numbered in commit order; `adding` holds requests between their commit and
`queue.add`; `bull[j]` is the job whose id is the row's id — while BullMQ knows the id, also of a
finished job, `add` does nothing. `Load`, `Begin`, `ReadConfig`, `Push`/`Refused`, `Succeed`, `Fail`
are the awaits of `ShopifySyncProcessorService.process`. When it has returned or thrown (`pc` is `return`
or `throw`) the job is still active: BullMQ ends it or backs it off in a step of its own, `Complete` or
`Throw`, and an operator's retry may come in between. Mishaps: `Retry`, `LoseJob`, `Evict` (retention),
`Toggle`, `Refused` (with or without effect), `DatabaseFails`, `Crash`. History variables: `pushed`
(targets Shopify has taken), `overtaken` (stock rows where an older target was taken after a newer one),
`forgotten`: rows whose last job will not run for them. The ways there are a lost add; an add that BullMQ
ignores because the job is finished, or because the processor has returned for the row and BullMQ has not yet
completed the job; a last attempt that could not be recorded; a second stall, after which the row stays
QUEUED or SYNCING. An add that BullMQ takes brings the row back.

### DriftRepair

One stock row: `oms` and `channel` are its two numbers, `link` whether the channel config and the sku
mapping are there, `events` the drift events. A fix's job id and its idempotency key are both built
from the target and the scan window, not from the event, so one key names `job[k]` and `idem[k]`, and
`job[k].event` is the event the payload names. `lock` is the row's Redis key.

A scan or recheck runs `StartScan`, `Compare`, then `FindReusable` and `UpdateDrift` or
`CreateDrift`, then `EnqueueFix`, or `ResolveInSync`; `ScanFails` is the catch block that reports a
failed read or a failed enqueue as a drift of its own. A fix attempt runs `Take`, `Acquire`,
`Reserve`, `FindEvent`, `ReadConfig`, `MarkFixing`, `ReadChannel`, `SetChannel`, `Resolve`, with
`Catch` and `FailManual` for the two ways to fail, `Unlock` for the finally block, and `Settle`,
`Throw`, `Bury` for what the worker and BullMQ make of the outcome. The operator's `AskRetry`,
`RetryAdd`, `RetryMark` and `AskIgnore`, `Ignore` are cut at the awaits of `DriftEventsService`;
`CreateEvent` posts an event without a job.

The environment (each kind costs what `Cost` says): stock moves in the OMS, the number is edited in
Shopify, a config or mapping is switched, a call to Postgres, Shopify or Redis fails before or after it took
effect (`CallFails`; `LockFails` at the lock's acquire and release, `BuryFails` at the dead letter), a fix
worker, a scan or a request dies, the lock expires under its holder, BullMQ forgets finished jobs. An expired
lock of a dead worker and a lapsed `lockedUntil` of its record come for free: that is what TTLs do.

History variables: `wanted` (target of the newest queued fix, None once the row was seen in sync),
`stranded` (open events that lost their job, with the step that loses it; see 6), `unburied` (failed
jobs without a dead letter: their worker died before it, Redis rejected it, or they stalled too often, which
the failed handler does not take for terminal), `expired` (the lock has run out under a live fix).

Abstractions: attempt logs, alerts, priority and root cause are left out; a scan compares one row it
has already chosen (which one is ScanCursor's part); a recheck whose OMS row is missing, and the recheck
event's own status, are left out; BullMQ hands a stalled job to another worker only when its worker is gone;
`lockedUntil` lapses only for a holder that no longer has the row's lock (both last equally long).

### ScanCursor

`row[r]` is a row's last committed change (its `updated_at` and a version), `writing[r]` the time an
open transaction has stamped. `cursor` is `drift_scan_cursor` (None while `lastSeenAt` is null),
`waiting` the `drift.scan` jobs, `scan[s]` one execution of the scan worker: its job, the place it
reads from, the rows read and not yet compared, the cursor it will store. Actions: `Tick`
(`enqueueCycle`), `Trigger` (POST /scans/trigger), `Take`, `ReadCursor` (`scanCursorForWindow`),
`ReadRows` (the query with its order and limit, `nextCursorFromRows`), `CompareRow` per row, `Store`,
`Recheck`, and the environment: `Change` and `Commit` of the OMS, `Switch` of the channel config,
`ScanFails` (a statement throws, BullMQ tries again), `Crash` (the job is handed on, or dropped at its second
stall).

`Order[r]` is the rank of a row's id in the ORDER BY, `Text[r]` its rank as text, which is what the
cursor compares; `Millis` rounds a time to the precision of a JavaScript Date. The internal OMS has
equal ranks and exact times, an external OMS (numeric ids, microseconds) need not.

History variables: `seen` (newest version compared), `horizon` (newest window end read by a scheduled
scan), `late` (rows whose last change committed with a time the scans had already passed), `origin`
(newest window start used because there was no cursor yet).

Abstractions: the clock moves with the scheduler's cycles, so that a change carries the time of the
next window's end; what a comparison does is DriftRepair; skus and locations of a scan asked for by
hand are a set of rows; a crash after a scan's last statement is a job that runs again, like the
next one; invalid windows, a missing `OMS_DATABASE_URL` and the recheck event's status are left out.

### WebhookRechecks

One row. `changed` counts the changes of Shopify's number, `compared` is the newest change a recheck has
read; webhook v announces change v. The handler's steps are `Admit` (signature and shop), `FindMapping`,
`Refuse` or `CreateEvent`, `AddJob`, `Accept`; event, job and delivery share one number because the job's id
is the event's. A recheck runs `ReadConfig`, `ReadRow`, `ReadMapping`, `Compare`, `WriteDrift`, with
`CompareFails` and `ReportManual` for the catch block and `CloseEvent` at the end; a worker that dies or loses
its answer there may have closed the event before its job comes back (`Interrupted`). `Throws` is BullMQ's
retry and the failed handler, whose FAILED update is sent and not awaited (`verdicts`, `VerdictArrives`).

What may be missing (`setup`): the webhook secret, the channel config, the sku mapping, the OMS row. A
missing secret or shop is refused and Shopify repeats the webhook; a missing mapping is accepted as a
FAILED event. Further mishaps: a repetition while the first request still runs, a request that fails or
dies anywhere, a failing statement, a dying worker (BullMQ hands a stalled job on once, then fails it
although attempts are left, so the failed handler leaves the event QUEUED), Shopify giving up.

History variables: `skipped` (events whose worker found no active config: PROCESSED without a read),
`stranded` (events nobody will close: no job was added, the un-awaited update was lost, or the job
stalled too often). Abstractions: payloads and signatures are whether they are accepted; what a
comparison does to drift events is DriftRepair.

### RiskAlerts

One row. `events` are the statuses of its drift events ("FIX_QUEUED" stands for the open ones, DETECTED,
FIX_QUEUED, FIXING and RETRYING, "CLOSED" for RESOLVED and IGNORED), `recent` how many are younger than a day, `snapshot` the count of
the
risk row (0 for none), `log` the alerts with a delivery-log row. A call is a scan or recheck reporting
a drift or a failure (`Report`, `FindReusable`, `UpdateDrift` or `CreateDrift`), a post in any status
(`CreateEvent`) or a fix that gives up, whatever has become of its event (`FixFails`, which alerts and does not
refresh). The endpoint takes every `DriftStatus` and announces DETECTED, FIX_QUEUED and FAILED_MANUAL
(`PostAlerts`); an event posted as FIXING, RETRYING, RESOLVED or IGNORED is stored without a word, and is in
`silent`. Then `ReadLevel` and `ReadCount` in
either order, `Upsert`, `NotifyHigh`, `Notify`. `Caught` is the catch block of `processRow`.

Slack's refusal is caught by `sendSlack` and logged as FAILED, so sending and logging are one step. `lost`
names alerts owed by calls that failed or died; the high-risk alert is one of them only if the call was going to
send it or would have, by its count. Abstractions: who closes an event and which open
status it has is DriftRepair's subject; `lastDriftAt` and the live-event stream are left out.

## 3. Runs

| run | what it checks | bounds, and why they are enough |
|---|---|---|
| `hybrid_once` | `NoOverselling`, `ReservationsBacked`, `PushAfterSale`, refinement `ImplementsAtomic` | 2 orders on one row of two units, 3 slots, 2 attempts, a stock request, one crash, one fault anywhere in a job, an adjustment or a webhook, and lock waits that give up: the orders compete with each other and with the request in every phase, and one failed attempt and its redelivery reach every restart point. No manual retries, and no faults in `create` (see 6) |
| `hybrid_live` | `OrdersSettle`, `NoStrandedReservation`, `ReleaseOwnOnly` | 2 orders, 2 slots, 2 attempts, locks that may expire under their holder, lock waits that may give up, and one of three troubles (`OneTrouble`): a manual retry of one order; a crash and a failing statement, in `create` too; two crashes, which is a job that stalls too often |
| `oms_races` | `ReservationsCounted`, `LedgerExplainsBalance`, `ReservationFollowsOrder`, `ReturnsBounded`, `NewestJobCurrent`, `BufferKept` | 2 slots, one row of 3 with a buffer of 1, two orders (one names the row twice), 2 returns, an adjustment, an interrupted cancel: two concurrent requests give every pair of handlers every interleaving |
| `oms_live` | `RequestsEnd` | two orders whose lines cross on two rows: the smallest deadlock |
| `sync_races` | `SucceededReached`, `OpenJobsHaveWork`, `ChannelCurrent`, `JobsSettle` | one row changing twice, 2 workers, 2 attempts, one stall forgiven, any 3 mishaps: order of two pushes, a failure and its repetition, plus one more; two deaths and a retry, or a retry between a processor's return and BullMQ's completion |
| `drift_races` | `EndedJobsAccounted`, `ResolutionsMatch`, `QueuedEventsHaveWork`, `CorrectedOnce`, `EventsSettle` | one scan, two fixers, an operator, quantities 0 and 1, 2 attempts, one stall forgiven, 2 events, two deaths or any one other mishap: a retry of an event while its fix runs gives two jobs of one event, and the mishap may fall into any of their steps. Any two mishaps, or two runs of the window, take too long for a run; the invariants are proved for any number |
| `drift_newest` (violation) | `ResolvedMeansRepaired` | three quantities, two scan windows, stock moves once and nothing fails |
| `scan_changes` | `NothingSkipped`, `ChangesCompared` | 2 rows changing once each, a limit of one row, 2 scan workers, 2 attempts, one stall forgiven, 2 windows and the late repetitions of the second, and any one of a scan by hand, a failure, a crash, a recheck, a switched config: two changes at one time already need two full scans, two workers store their cursors in either order |
| `hybrid_drift` | `QueuedDriftsHaveJob`, refinement `EngineUndisturbed`, `ChannelConverges`, `DriftsClose` | one row, `EXTERNAL_TO_INTERNAL` for the fixes of a cycle and either strategy for a fix that is asked for, 2 detections, a fix worker, 2 attempts, 2 jobs, 7 drift rows, more than the budget can make, so the bound never stops a detection. `Mishaps` is 2: an order, a channel sale, a failing fix, a dead worker and a lost request cost 1 each, anything else both (a cycle that overtakes another, a dying request, a sync, webhook or adjustment, a fix asked for), so that any two of the first, two stalls of one job among them, or one of the second fall into any step |
| `webhook_rechecks` | `UnseenChangesCovered`, `EventsTruthful`, `EventsSettle`, `ChangesNoticed` | 2 changes, 2 requests, 2 workers, 2 attempts. `Mishaps` is 2: a failing statement costs 1, a death, a broken setting, a repeated webhook, a lost update or Shopify giving up both |
| `webhook_orders` | `AcceptedLinesAccounted`, `RefusalsPlaceNothing`, `OrdersInHand`, `SalesSettle`, types | 2 sales, one of two lines that compete for one unit, with a line without sku and one without quantity, and one that only the default tenant's stock can serve; 2 requests, 2 deliveries, any two mishaps: a failing line, order or last attempt, a dying request, a setting switched off, a repetition of a request that still runs |
| `risk_alerts` | `RowsAnnounced`, `DriftsAnnounced` | 2 calls, 2 events, a threshold of 2 (LOW and HIGH; the mutant that asks for MEDIUM shows that the middle level matters). `Mishaps` is 2: a retry or a post without a word costs 1, a failing statement, a crash, an event growing older than a day or a fix that fails after its event was closed both |

The type invariants, and `LockExclusion`, `RowsSound` and the `NoOverselling` of HybridDrift, are proved
for every value of the constants (section 4) and not repeated as runs. `webhook_orders` does check its
`TypeOK`, which says that stock and reservations are natural numbers and that jobs name orders; that a row
reserves what its RESERVED orders add up to, and never more than it holds, is the theorem
`WebhookStockAddsUp`.

Rows are independent except for transactions that touch several (`oms_live`) and the symmetric
treatment of locks, so one stock row is the rule. Every passing run finishes within about two and a
half minutes with two TLC workers. Symmetry (slots; orders of equal quantity) is used only in runs
without liveness properties.

`CHECK_DEADLOCK FALSE` everywhere: with the budgets spent and all requests done the system rests.

### What the violation shows

`drift_newest`: a second scan reuses the open event for a newer target and queues a second job; the
first job sets its older target and resolves the event, the second job finds it RESOLVED and returns.
All jobs are done, the event is RESOLVED and Shopify keeps the older quantity until a later scan
(README.md:382).

### Further configurations

These also end in a counterexample. They show limits of the code that the properties above leave out
(rows in `stale`, equal ranks, overtaken pushes, old events), and are kept beside the regular runs to
be replayed by hand, e.g. `tlc -config OmsLedgerLostUpdate.cfg MCOmsLedger`.

* `OmsLedgerLostUpdate.cfg`, `OrdersReserveStock`: two requests that read the same balance: the later
  write removes the earlier one's reservation, although its order stays RESERVED (START-HERE.md:61).
* `OmsLedgerSyncKey.cfg`, `SyncKeysNeverRefuse`: reserve A, reserve B, cancel A: the cancel needs a
  sync key A's reservation has used (same row, target, order), the insert aborts the transaction and
  the order cannot be cancelled, every time it is tried (START-HERE.md:62).
* `InventorySyncOrder.cfg`, `CorrectQuantityPushed`: two targets pushed by two workers with nothing
  failing: the older may land last, both rows are SUCCEEDED and Shopify shows the older quantity
  (START-HERE.md:6).
* `ScanCursorTies.cfg`, `TiesNotSkipped`: rows come sorted by their typed id, the cursor compares ids
  as text: when a full scan ends on id 9 of a timestamp that 10 shares, 10 is never read
  (README.md:371).
* `RiskAlertsLostUpdate.cfg`, `RiskCurrent`: two refreshes count one and two events and upsert in the
  other order: the snapshot says one until the row drifts again (README.md:447).
* `RiskAlertsAge.cfg`, `RiskCurrent`: nothing refreshes a snapshot when its events leave the 24 hours;
  `refreshByDriftEventId` has no caller (README.md:447).
* `RiskAlertsDetected.cfg`, `DetectionsLogged`: a scan finds a drift on a row whose event is
  FAILED_MANUAL: it reuses the event, queues the fix and sends no drift alert (README.md:445).

### Fairness

* HybridOrders: a running call goes on (Node runs what it awaits), workers poll, Redis expires keys
  of dead holders. Clients owe nothing. `withLock` gives up after a fixed number of tries, and no scheduling
  assumption prevents that under contention, so every acquire may fail instead (`LockWaitMayFail`), a finite
  number of times as attempts are bounded. `OrdersSettle` promises nothing for orders in `stranded`, which
  only a client can take up again.
* OmsLedger: requests go on; strong fairness for `Write` and `Insert`, because Postgres queues
  waiters and wakes them when a holder ends; Postgres breaks deadlocks.
* InventorySync: committed requests reach `queue.add`, workers poll and keep running. No fairness
  for retries, evictions or toggles.
* DriftRepair: workers poll and their attempts run on, a scan or request that has begun goes on, and
  Redis and `lockedUntil` time out for holders that are gone. Nobody owes a scan, a manual retry or
  an eviction, so `EventsSettle` rests on the jobs alone.
* ScanCursor: the scheduler's timer fires, workers poll and their scans run on. Nobody owes a scan by
  hand, a recheck or a commit, so `ChangesCompared` rests on the scheduled scans alone.
* HybridDrift: the scheduler begins a cycle again and again, calls, workers and requests under way run
  on, Redis expires orphaned keys. Nobody owes a request, so both properties say what holds once the
  budget of requests and mishaps is spent.
* WebhookRechecks: Shopify delivers what is due, requests and workers run on, BullMQ hands jobs out,
  an update that is not lost arrives. Nobody has to mend a setting: `ChangesNoticed` assumes that
  secret and config are there for good from some time on.
* WebhookOrders: Shopify delivers or gives up, requests run on, BullMQ hands jobs out. That a job in the end
  sells its order, gives it back or strands it is what `OrdersSettle` shows of the engine, with crashes,
  failing statements and lock waits that give up.
* RiskAlerts: none; no liveness is claimed of it.

## 4. Proofs

Each theorem holds for every value of the constants that satisfies the module's assumption
(`HybridAssumption`, `HybridDriftAssumption`, `OmsAssumption`, `SyncAssumption`, `DriftAssumption`,
`ScanAssumption`, `WebhookAssumption`, `OrderHookAssumption`, `RiskAssumption`); TLC evaluates these on every run.

* `HybridOrdersProofs`: `TypeCorrect`, `NoOversold`, `LocksExclude`. `NoOverselling` is not
  inductive: a commit writes what an earlier read allowed. The invariant adds `CallShape` (what a
  call's position says of its order, row and next step), `LockOwned` (a call inside `withLock` holds
  its row's key) and `CommitsAllowed` (what a call is about to commit keeps the row sound). The last
  two need `~LockMayExpire`, the hypothesis of `NoOversold` and `LocksExclude`; `TypeCorrect` (from
  `TypeOK /\ CallShape`) does not. The hypothesis is necessary: with `LockMayExpire = TRUE` in
  `hybrid_once` TLC finds an order that reserves between an adjustment's read and its upsert, which
  leaves `reserved > physical` (the TTL of `withLock` is never renewed).
  `OrdersMoveForward` and `PushesFollowSales` rest on `Tokens`: an order is in one pair of hands, those
  of the request that creates it and then those of its one waiting or running job. That needs
  `MaxRetries = 0` and a `create` that does not fail after its enqueue (see 6), but no lock:
  both hold even when locks expire under their holders. The hypotheses are the constants of the run
  `hybrid_once`. `ReservationsNeverStranded` has no hypothesis: whatever fails, dies, expires, stays busy or is
  retried by hand, a reserved order has a waiting job or a call, or is in `stranded`. It rests on `Carried`, which
  says of that call that it is at a position from which it queues, confirms or releases. An order enters
  `stranded` only in the step in which a call about it ends and no job of it waits (`Behind`).
  `ReservationsAddUp` adds `Backed` to `Tokens`: between two commits a row reserves what its RESERVED
  orders add up to, since an order in one pair of hands enters and leaves that sum once, with the same
  quantity. It needs no lock. `OrdersAreAtomic` is the refinement: every step is a step of
  `AtomicOrders` or changes none of its variables. It needs all of this at once: `CommitsAllowed` for
  the reserve that may not exceed the stock, `Tokens` for the status an order moves from, `Backed` for
  the release, which takes from the row what the order had put there. `ReleasesAreOwn` holds for all
  constants: only `release()` in the hands of the owner takes a key away.
* `OmsLedgerProofs`: `OmsTypeCorrect`, `RowsStaySound`, `ReservationsFollowOrders`, `LedgerExplains`,
  `NewestJobsCurrent`, `ReturnsStayBounded`, `BuffersKept`. The invariant
  adds `CallsShaped` (written balances are sound, the movement about to be written is allowed),
  `OrdersKnown` (what a call knows of its order is still so: a create in its transaction finds it
  new, what a cancel skipped stays released) and `OneInserter` (the unique index). The last four add
  `Books`: on a row nobody wrote from outdated data at most one transaction has a write that has not
  committed, and its ledger entries, outbox rows and what it has checked account for that write; the
  committed ones account for the committed balance. `ReservationsAreCounted` adds `Counted`: a
  row's reserved quantity is the sum, over the orders whose reservations are ACTIVE, of what their lines
  reserve on it, and a transaction under way has written exactly what its own order's lines up to the
  present one change of that sum (`Settled`).
* `InventorySyncProofs`: `SyncTypeCorrect`, `SuccessReachedShopify`, `UnfinishedRowsHaveWork`,
  `ChannelEndsCurrent`. The
  invariant adds `WorkShape` (a worker's job is a committed row, active in BullMQ, held by this
  worker alone; a worker about to record success has pushed), `KnownToBull` and `SpentJobs` (an unfinished row
  whose job's processor has already returned is in `forgotten` or still has an add coming). Without the
  exclusive job one worker's completion could strand a row another has set back to SYNCING; without
  `SpentJobs` a completion could strand one that a retry set back in between. For
  `ChannelEndsCurrent` the invariant `Tracks` says that the newest outbox row of a row carries its
  sellable quantity, and that the channel shows the newest push unless an older one has overtaken it.
* `DriftRepairProofs`: `DriftTypeCorrect`, `EndedJobsAreAccounted`, `SuccessShowsTarget`,
  `CorrectionsMadeOnce`, `QueuedEventsAreWorked`. The invariant adds `CallShape` (a scan or request under way knows its
  quantity, window, key and event) and `FixShape` (a running fix has an active job nobody else has;
  until a TTL ran out under a holder it also holds the row's lock, its record is open while it works
  and COMPLETED when it ends done, and the channel is at its target when it is about to record
  success). `CorrectionsMadeOnce` is an action property proved from the same invariant; the catch
  block, which writes FAILED over whatever the record is, is its one exception.
  `QueuedEventsAreWorked` needs no hypothesis and a second invariant, `WInv`: an event that waits for
  its fix has a job that no attempt has ended with, or a scan that has written it and still owes the job;
  and the job of a request's retry is the first of its key, because its window is nobody else's. A second
  stall ends a job in the midst of an attempt: its event is `stranded` and its dead letter `unburied`.
* `HybridDriftProofs`: `TypeCorrect`, `FixesNeverOversell`, `QueuedDriftsAreFixed`, and the refinement
  `FixesAreAdjustments`: every step of detections, fixes, webhooks and channel sales is a step of
  `AtomicOrders` or a stutter, because a fix that writes stock is a `Restock` never below what is
  reserved. The invariant adds `FixShape`: a running fix has an active job of its own and a drift that
  exists, and between `Acquire` and `Unlock` it holds the row's lock, so that the reserved quantity it
  adds to the channel's number is still the row's when it writes.
* `WebhookRechecksProofs`: `TypeCorrect`, `ChangesCovered`, `ProcessedMeansRead`. The invariant adds what a
  request and a worker know of their event: which change it announces, that its job is active and
  theirs, and that a worker past `Compare` has read at least that change.
* `WebhookOrdersProofs`: `WebhookOrdersTypeCorrect`, `WebhookStockAddsUp`, `AcceptedLinesAreAccounted`,
  `RefusedPlaceNothing`, `OrdersStayInHand`, without any hypothesis. `WebhookStockAddsUp` says that a row
  reserves what its RESERVED orders add up to and never more than it holds, through deliveries, repetitions,
  failing and dying requests, and a create() that overwrites a sale (`Overwrite`, which moves no stock).
  An accepted answer accounts for its sale because every line
  behind a request has an order or is on the request's list of failures (`Covered`, `Started`). A worker
  may drop the job of an order that is not RESERVED because what is queued, or about to be, has been
  reserved before (`Reserved`). `Lone` speaks of sales none of whose deliveries died or was overtaken: they
  have one request at a time, which is the newest delivery, found no orders when it began, and whose
  delivery and tenant all the sale's orders share; and once there are orders and no request, the webhook
  is accepted and not sent again. The stock part of `TypeOK` rests on `WebhookStockAddsUp`.
* `MonitorProofs`, of ScanCursor: `ScanTypeCorrect`, `NoChangeSkipped`. A scan stores its cursor long after it has
  read its rows, so the invariant (`ScanReady`) says of each scheduled scan what `NothingSkipped` says
  of the cursor: what is still due is behind the place it reads from, then behind the cursor it is
  going to store or among the rows it is about to compare; and no cursor is beyond the horizon, which
  keeps later commits behind it. `NoChangeSkipped` assumes `Text = Order`, and `ScanCursorTies.cfg` shows why;
  it needs nothing of `Millis` but that it never rounds up.
  Of RiskAlerts: `RiskTypeCorrect`, `RowsAreAnnounced`, `DriftsAreAnnounced`. None of them is
  inductive: a late refresh may lower the snapshot and a later one raise it again. What survives is
  that an alert once owed stays in `Sent`; the invariant adds what a call has seen when it judges
  (`HighSeen`: a HIGH level that was read is announced; `FailedSeen`: an event found failed is
  announced; `BurstWatched`: while enough events are recent and no alert is out, some call that has
  created one has still to count).

Every proof follows the same plan: Init implies the invariant; one lemma per action (with lemmas for
the step shapes several actions share) shows that it is kept; the invariant implies the property;
PTL closes the temporal step.

Sums. `SumFunctionOnSet` of the community modules is a choice of a recursive function, and the library's
induction theorems are out of reach (they take an operator as a parameter). The three modules that
reason about sums therefore prove what they need from scratch, in a section of their own: a function
that adds up every subset of a finite set exists (`AddsExists`), two of them agree (`AddsAlike`), the sum
of natural numbers is one and any element may be taken out first (`SumSplits`), a new element adds its
number (`SumGrows`). In place of induction they take a counterexample of the smallest cardinality
(`Smallest`, from the well-foundedness of < on Nat).

Every safety property of the passing runs, invariant or action property, and both refinements are thus
proved. Model-checked only is liveness: `OrdersSettle`, `RequestsEnd`, `JobsSettle`, `EventsSettle` (of
DriftRepair and of WebhookRechecks), `ChangesCompared`, `ChannelConverges`, `DriftsClose`, `ChangesNoticed`
and `SalesSettle`, since fairness and ENABLED are outside the prover.

## 5. Plan

1. HybridOrders, AtomicOrders, their runs and proofs — done.
2. OmsLedger, its runs and proofs — done.
3. InventorySync, its runs and proofs — done.
4. DriftRepair, its runs and proofs — done.
5. ScanCursor, its runs and proofs — done.
6. HybridDrift on the abstract engine, its runs and proofs — done.
7. WebhookRechecks and RiskAlerts, their runs and proofs — done.
8. WebhookOrders on the abstract engine, its run and proofs — done.
9. Proofs of `PushAfterSale`, `NoStrandedReservation`; `LedgerExplainsBalance`, `NewestJobCurrent`,
   `BufferKept`, `ReturnsBounded`; `ChannelCurrent`; `QueuedEventsHaveWork`; `ReservationsBacked`,
   `ImplementsAtomic`, `ReleaseOwnOnly`; `ReservationsCounted`; WebhookOrders' invariants — done. Left:
   weaker hypotheses (section 6 says why `OrdersMoveForward` and what rests on it need theirs).
10. OmsLedger and InventorySync meet in the outbox alone, and each run speaks of its side of it:
   `NewestJobCurrent` says that the newest outbox row carries the committed sellable quantity,
   `JobsSettle` and `ChannelCurrent` that it reaches Shopify. A module that joins the two is worth its
   state space only if one of them comes to read what the other keeps.

## 6. Known limits of what is claimed

* Two manual retries of one FAILED order can reset each other's reservation, so
  `ReservationsBacked` and the refinement are checked and proved without manual retries;
  `NoOverselling` holds and is proved with them.
* A confirmed sale is final (a part of `ImplementsAtomic`), but not when `create()` itself fails after
  it has enqueued the job:
  `releaseAndFail` writes FAILED whatever the order has become. `create` is therefore not among the
  fragile operations of `hybrid_once`.
* `OrdersSettle` and `NoStrandedReservation` are stated for orders outside `stranded`. These are the ways to
  get there, and nothing but a manual retry takes such an order up again: `create()` dies before its
  enqueue, or its catch block fails; the terminal handler of a last attempt fails, or its `withLock` gives up;
  the job stalls twice. A reserved order keeps its stock meanwhile. `OrdersSettle` also leaves out orders
  retried by hand: a retry that cannot reserve leaves its order CREATED with no job.
* An outbox row may stay QUEUED or SYNCING with nothing to finish it (`forgotten`): its add was lost, or
  was ignored because BullMQ still keeps the finished job; an operator retried it after its processor had
  returned and before BullMQ completed the job, so that the add was ignored; its last attempt could not be
  recorded; its job stalled twice.
* Two channel sales at once, and the unlocked channel sync, may leave the channel with an older
  number; nothing in the code promises otherwise, and `ChannelConverges` says that the drift cycle
  brings the number back once requests and mishaps have ended.
* A drift row of the hybrid shop may be opened twice, or reopened after its fix resolved it; the next
  detections close both (`DriftsClose`). With `EXTERNAL_TO_INTERNAL` fixes overwrite the stock with an old
  number of the channel: `EngineUndisturbed` shows that orders are not hurt, not that the number is right.
* The scans promise nothing for a change that commits after a scan has read past its time (`late`):
  nothing looks behind the cursor again, unless the row changes once more or is rechecked.
* Until a scheduled scan has found a row there is no cursor, and every window stands alone: changes of
  a window whose job was lost, or between two windows, are older than `origin` and not promised.
* When the OMS keeps microseconds, the row a cursor was made from is read again by every scan, and a
  whole batch inside one millisecond is read for ever; `ChangesCompared` is checked with exact times.
* An order webhook that is repeated while it still runs, or after its request died, places its lines
  again: order ids are made afresh and Shopify's own id is not stored. `RefusalsPlaceNothing` excludes
  these sales (`cut`). An order whose request died between its insert and its job, whose insert
  lost its answer, or whose last attempt could neither sell it nor give it back stays CREATED or RESERVED
  (`stranded`).
* When a create() fails after it has queued its job, its terminal handler may write FAILED over an order a
  worker has sold meanwhile. The stock stays sold (`WebhookStockAddsUp`), the line counts as failed.
* A recheck event stays QUEUED for ever when its request died before the job was added, when the
  un-awaited FAILED update is lost, or when its job stalled twice (`stranded`). Its change is then not
  read, unless Shopify repeats the webhook or a scan comes by.
* A recheck without an active config is PROCESSED (`skipped`), although nothing was compared.
* An alert is lost with the call that owed it; nothing sends it again (`lost`).
* An event posted as FIXING, RETRYING, RESOLVED or IGNORED is announced by nobody (`silent`), also not when a
  scan takes it up later; only if it becomes FAILED_MANUAL is it announced.
* Drift fixes: a catch block that could not read the record (a crash before it, then a failing
  database) may take a COMPLETED record back to FAILED and a RESOLVED event to RETRYING;
  `CorrectedOnce` excludes that block. A fix that is already running overwrites IGNORED; which of the
  two should win is nowhere said, so no property decides it.
* `failManual` is returned without `await`, so the lock may be free before its transaction runs. The
  model has the order of the code, and the properties hold with it.
* `QueuedEventsHaveWork` and `EventsSettle` are stated for events that are not in `stranded`. These are
  the ways to get there: a last attempt that found the lock busy or threw before the try block;
  a job that stalled twice;
  an add that BullMQ ignored because the finished job of that target and window is still kept;
  a job skipped because the record of its key is COMPLETED, or whose failure is recorded on another
  event with the same key; a scan that died between writing the event and adding its job; `retry`
  marking the event after its job was already taken; events posted by hand, which get no job. In each
  the event stays open until the next scan or an operator comes to it.

## 7. Not modelled

* Root cause, availability and the catalog: reads that classify or show, and creates that set up the
  rows the ledger starts from. Nothing decides on what they answer.
* Live events: an in-process stream without state. Observability and metrics: counts and lists; the one
  invariant the metrics report, no oversold row, is `NoOverselling`.
* The Shopify client: its outcomes (taken, refused, taken with the answer lost) are in InventorySync
  and DriftRepair; URLs, tokens and ids are formatting.
* Accounts, authentication, guards, encryption: single transactions and single-row reads that share no
  state with the rest.
* Channel configs and sku mappings: single-row writes; their effect is `Toggle` in InventorySync,
  `Relink` in DriftRepair, `Switch` in ScanCursor and WebhookOrders, `Break` and `Restore` in
  WebhookRechecks.
* POST /external/orders with a `coreOrderId` chosen by the caller, which lets a client of the mock
  channel claim an order before it is pushed.
* Of the scans: windows that are rejected, priority and lost-revenue figures; of the queues: job counts
  and connections.
* Controllers, modules and entry points (wiring and DTO validation), the schema (its unique indexes are
  guards of the modelled inserts), scripts and deployment.
