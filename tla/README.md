# chatapi (Sub2API) in TLA+

chatapi is an API gateway: users pay for balance or subscriptions, and their
requests are forwarded to pooled upstream accounts under concurrency, rate and
quota limits. The backend (`src/backend/internal`) is Go over PostgreSQL and
Redis, and runs as one or more processes. This directory models the parts where
several requests, background jobs and retries change the same rows or keys:
payment orders and refunds, the idempotency store, the system operation lock, the
concurrency slots of the gateway, usage billing with its worker pool and caches, the
platform quota, the scheduler's snapshots with their outbox, and OAuth token refresh.

## Modules

| Module | Models | Checked by |
|---|---|---|
| `OrderPromise` | abstract specification: pay, credit once, complete | refined by `PaymentOrder` |
| `PaymentOrder` | one payment order: creation, webhooks, queries, cancel, expiry, fulfilment, rebate, retry | `MCPaymentOrder` |
| `PaymentRefund` | refunds, extends `PaymentOrder` with admins and the wallet | `MCPaymentRefund` |
| `PaymentProofs` | theorems about `PaymentOrder` and `PaymentRefund` | TLAPS |
| `IdempotencyStore` | the table `idempotency_records`: one operator per SQL statement | through the next two |
| `Idempotency` | `IdempotencyCoordinator.Execute` for one key | `MCIdempotency` |
| `IdempotencyProofs` | theorems about `Idempotency` | TLAPS |
| `SystemOperationLock` | lock of update, rollback and restart, on the same table | `MCSystemOperationLock` |
| `SystemOperationLockProofs` | theorems about `SystemOperationLock` | TLAPS |
| `ConcurrencySlots` | slots and wait queue of one user or account in Redis | itself |
| `ConcurrencySlotsProofs` | theorems about `ConcurrencySlots` | TLAPS |
| `UsageBilling` | usage records: worker pool, billing transaction, archive of claims | through the next |
| `BalanceCache` | extends `UsageBilling` with admission, the cached balance, its write queue and the circuit breaker | `MCBalanceCache` |
| `BalanceCacheProofs` | theorems about `UsageBilling` and `BalanceCache` | TLAPS |
| `PlatformQuota` | daily quota of a user on a platform: Redis entry, row, flusher | itself |
| `PlatformQuotaProofs` | theorems about `PlatformQuota` | TLAPS |
| `SchedulerSnapshot` | outbox table, watermark, snapshot builders of one bucket | itself |
| `SchedulerSnapshotProofs` | theorems about `SchedulerSnapshot` | TLAPS |
| `OAuthRefresh` | rotation of one account's refresh token and the access token cache | `MCOAuthRefresh` |
| `OAuthRefreshProofs` | theorems about `OAuthRefresh` | TLAPS |

`PaymentRefund` composes refunds with fulfilment on one order, `BalanceCache` composes
admission, billing, the worker pool and the cache around one balance. The `MC` modules
add only symmetry sets, named fault sets and the constants a `.cfg` cannot write.

### How a module corresponds to the code

* **A step is a statement.** Every SQL statement, transaction, Redis script or
  provider call that takes effect by itself is one action. Between two of them any
  other request may run. `pc` says where a request is; what it read earlier
  (`seen`, `read`, `now`, `plan`) is kept in variables of its own and used when it
  may be stale, as the code does.
* **Faults.** A step can fail without effect (`Fault`), or take effect and lose its
  answer (`Lost`), and a process can stop anywhere. `MaxFaults` bounds their number;
  in the payment modules `FaultAt` and `LostAt` say where they may strike. A
  cancelled request context is a stop: later statements of that request fail too.
* **Ignored errors** of the code (`_, _ =`, "only logged") are steps with and
  without effect that go on in the same way.
* **History variables** (`raced`, `lapse`, `late`, `excuse`, `losses`, `lost`, `evicted`,
  `overrun`, `missed`, `unmarked`) record that one of the code's known races has
  happened. A property of the form "right, unless raced" says that these named races are
  the only ways to go wrong, which is what a reader of the code wants to know; the
  comment of the property lists them all, and the liveness properties beside them say
  that the system recovers. Each is set only where the race really spoils something and
  is cleared when that is put right; what a quota entry misses is counted cost by cost.
* **Versions** of snapshots matter only by their order: `SchedulerSnapshot` keeps the pairs
  of builders whose versions are taken and not yet activated, instead of a counter. Its
  history variable `known` serves the proof and decides nothing.
* **One row, one key.** All statements are keyed by order id, by (scope, key) or by
  user or account id, so one row is checked with several requests around it.
* **Data** is reduced to what conditions tell apart: a notification is exact, short
  or foreign; a trade number is empty, our own or the provider's; payloads and
  request ids are model values. Time is counted in ticks, as ages or deadlines.

## The system: components, state, interaction

### Payments
State: `payment_orders` (status, paid_at, payment_trade_no, updated_at,
expires_at), `payment_audit_logs` (unique per order and action, so a set), the redeem
code of a balance order, subscription days, the inviter's rebate.

`CreateOrder` commits a PENDING row, then asks the provider for a payment, saves its
details, or on an error sets FAILED. A payment is confirmed by a webhook, by a
polling client (`VerifyOrderByOutTradeNo`), by the reconcile job, or by the query
that precedes a cancel or an expiry; all go through `confirmPayment` and `toPaid`.
Fulfilment is entered with a compare-and-set to RECHARGING. A balance order is then
credited through a redeem code with a fixed name, a subscription through
`AssignOrExtendSubscription`; a rebate follows; the row becomes COMPLETED or FAILED.
Webhooks are repeated until they are answered 2xx. Admins can retry PAID and FAILED
orders. A refund is prepared, then executed: lock (REFUNDING), take the credit back,
ask the gateway, on an error give it back and restore the status. The gateway may accept
a refund as pending, which counts as success: `accepted` and `returned` are two variables.

Hard: duplicated and concurrent confirmations, a cancel racing a payment, faults
between steps that are not one transaction, retries of what was already done, locks
without a timeout. Correct means: paid once leads to credited once or to a place
where somebody can act; nothing is credited without payment; money and status agree.

### Idempotency store and system operation lock
State: one row per (scope, key) with fingerprint, status, `locked_until`,
`expires_at`, stored answer. `Execute` inserts or reads the row, reclaims an expired
or failed one, runs the operation, and records the outcome; a job deletes expired
rows. The system lock uses one such row as a lease, renewed by a goroutine every
third of the lease. Operations take any time; `overrun` records that one outlived the
lease of a row it had reclaimed, which is not renewed.

Hard: the row is read and claimed in separate statements, times are read once at the
start, leases run out, holders crash. Correct means: one executor at a time, one
success per validity, replays of genuine answers, a lease that lasts while held.

### Concurrency slots
State: a sorted set of request ids with the time they were taken, and a counter of
waiting requests, both with a TTL, in Redis; per request its context and release
function. A request tries for a slot, else is counted and polls until it has one, its
timeout passes or its client leaves. The slot is given back once, at the end or by an
`AfterFunc` of the cancelled context, while the handler still runs. A starting process
removes the slots of all others and the counters.

Hard: commands that fail or run twice, leaked slots, counters that drift, restarts.
Correct means: no more requests forwarded than slots, by all processes together, and
nothing leaked for ever.

### Usage billing, worker pool and balance cache
State: `usage_billing_dedup` and its archive (fingerprint by request id and API key), the
open transaction of a key, `users.balance`, the pool's queue; in Redis the cached balance;
in the process the load in flight, the cache write queue and the circuit breaker.

A request is admitted on the cached balance (`CheckBillingEligibility`), a miss loads it
once for all waiting requests and queues the cache write. After the answer the handler
submits a usage record: queued, run by the caller, or dropped, by policy; image requests
are never dropped. The task inserts the claim, which waits for an open insert of the same
key, compares fingerprints or looks into the archive, applies all effects and commits.
Then the cached balance is lowered through the queue, by the caller when the queue is full,
or deleted when the balance is used up. A redeemed code raises the balance and deletes the
key in a goroutine. A job archives old claims.

Hard: repeated submissions around the archive, rollback beside a waiting insert, lost
commits, shutdown of two queues at once, fills that overlap changes. Correct means:
charged once, never skipped unless charged, claims and charges agree; what the pool
accepted is carried out; the cached balance is the balance but for changes on their way;
an exhausted user is refused in the end; the breaker never stays half-open while the
service runs.

### Platform quota
State: the row `user_platform_quotas` (usage and window start), the Redis entry, the dirty
mark, per request and flusher what it read. Admission reads the entry, fills it from the
row or resets a closed window; a served request adds its cost to an existing entry, and to
the row by a goroutine, or, with the flusher, by snapshots of the entries marked dirty.

Hard: read, decide and overwrite in separate commands, costs across midnight, an
administrator's reset beside a flush, two flushers. Correct means: the row shows what was
spent, the entry what was served, and an entry ahead of the row reaches it. Costs that the
code fails to show are counted one by one in `missed`, which starts again with each window;
`unmarked` says that an entry ahead of the row is in nobody's hands, until a cost or a
batch put back marks the key again.

### Scheduler snapshots and outbox
State: the account row, `scheduler_outbox` (ids, dedup keys), the watermark, the bucket
lock, the active snapshot and its version, account metadata. Writers change an account and
enqueue an event, in one transaction (usage billing) or in two statements; an outbox worker
lists the rows past the watermark, releases their dedup keys, rebuilds the buckets and
moves the watermark; a timer rebuilds everything; a request without a snapshot rebuilds
without the lock.

Hard: ids that commit out of order, deduplication against a row already listed, a locked
bucket that counts as rebuilt, versions taken after the data was read. Correct means: the
copy is current, or an event is on its way, or one of these races has happened; and then
the periodic rebuild repairs it.

### OAuth token refresh
State: the account's credentials and `_token_version`, its status and pause, the cached
access token, a Redis lock with a TTL, a mutex per process; at the provider the one refresh
token it still accepts. Workers and requests refresh through `RefreshIfNeeded`; the
administrator's handler refreshes without a lock, and every other edit of the account
reads the row and writes all of it back.

Hard: a used refresh token is refused, so a second refresher with a stale account looks
like a revoked account; the lock expires under a slow call and is deleted by whoever ends;
the new token is lost when its write fails. Correct means: an account in error really
cannot be refreshed, the live token is stored or about to be, a stale cached token is
repaired, and an account that is due is settled.

### Not modelled
`PROJECT.json` lists every component with the reason. In short: format conversion and
streaming between providers, HTTP clients of payment services, metrics, e-mail,
backups, CRUD, generated code and the frontend are I/O or data without a protocol, and
they are most of the repository's lines: the generated ORM code alone is several times
the size of everything modelled here. Order admission, the user message queue, the leader
lock, the image limiter, the API key cache and subscription windows have a protocol and
are in the plan below. Within the modelled parts the following is left out: the caches of
subscriptions and rate limits beside the cached balance; weekly and monthly quota windows,
users without a quota row, changed limits; scheduler events of groups and of last use;
providers' special fields, re-authorisation and accounts without a refresh token.

## Runs

All runs fit in a few GB; the longest take about two minutes on two workers.

| Run | Bounds | Shows |
|---|---|---|
| `PaymentOrder_balance` | 2 handlers, 2 recoverable faults, fairness | CreditedAtMostOnce; PromiseKept (refinement of `OrderPromise`); AckedIsAccounted; PaidIsSettled |
| `PaymentOrder_subscription` | 2 handlers, 2 faults anywhere, provider without trade numbers | OneFulfiller; GrantedOncePerFault; RebatedAtMostOnce; CompletedIsCredited; PaidNeverForgotten |
| `PaymentRefund_balance` | 2 admins, 1 handler, 3 faults, amount 2 | OneRefunder; RefundedAtMostOnce; RefundBooksBalance; DeductedAtMostOnce |
| `Idempotency_key` | 2 requests, 2 payloads, 6 ticks, 1 fault | OneExecutor; OnceUnlessRenewed; ReplayIsGenuine |
| `SystemOperationLock_exclusion` | 2 operations of any length, lease 6, 13 ticks, 1 fault | MutualExclusion; LockedWhileHeld |
| `ConcurrencySlots_limits` | 2 processes, 2 requests, 1 slot, queue of 2, 3 request ids, 2 faults, fairness | ConcurrencyBound; LeakedSlotsFreed; CountResets |
| `BalanceCache_billing` | 2 usage records (one request, one id with two payloads, two requests), queue of 1, 1 to 2 workers, cache queue of 1, balance 1, 1 recharge, 1 fault, fairness | BilledAtMostOnce; ClaimedIffCharged; SkippedIsBilled; CacheIsExact; HalfOpenIsProbed; AcceptedIsExecuted; ExhaustedIsRefused |
| `PlatformQuota_ledger` | 2 requests at a time, 3 served, 2 flushers, limit 2, 1 midnight, 2 faults, fairness, flusher on and off | LedgerIsExact; EntryIsComplete; AheadIsMarked; RowCatchesUp |
| `SchedulerSnapshot_outbox` | 1 outbox worker, 1 rebuilder, 1 writer, 1 transaction, 2 changes, 2 faults, fairness | StaleIsExplained; CopyConverges; OutboxIsConsumed |
| `OAuthRefresh_rotation` | 2 processes, 1 request, 1 administrator, 2 tokens, 2 attempts, 2 faults, fairness | ErrorIsGenuine; OneRefresher; LiveTokenIsKept; StaleCacheIsExplained; DueIsSettled |
| `PaymentOrder_stuck_recharging` | 1 crash | **violates** PaidCanBeRetried |
| `SystemOperationLock_not_renewed` | 2 operations, lease 6, 11 ticks, no fault | **violates** RenewedWhileHeld |

Each module also defines a type invariant (`TypeOK`, in `PaymentRefund` `RefundTypeOK`).
The proofs start from it; the runs spend their time on the properties above. CreditedIsPaid
and CompletedIsFinal are proved, and for a balance order follow from PromiseKept.

Why the bounds are enough: the races are between two requests for one row, and a
third adds interleavings but no new kind of conflict; two faults allow a failed step
and a failed or crashed recovery of it, three in the refund run allow a failed
gateway, a failed rollback and a failed retry. Amount 2 and opening credit 1 give
partial refunds and overdrafts. 6 ticks let a key with a validity of 3 expire, be
claimed again late and expire once more; with a lease of 6, which leaves room for one
missed renewal, and a validity of 9, 13 ticks let the lock's row be reclaimed, its lease
be outrun and taken by the other operation, and the row expire and be deleted. Three
request ids give one leaked slot beside two live ones; with two processes one starts
while the other serves. Two usage records meet at every step of the billing transaction; queues of one make both
overflow; balance 1 is used up by one of two charges and can be refilled. Three served
requests pass a limit of 2, and a midnight separates any two of them. Two changes give an
older and a newer read, one in a transaction and one outside. Two tokens are one rotation,
which is what two refreshers compete for. The theorems need none of these bounds.

### Known divergences

Two runs are kept as violating runs:

* **Stuck in RECHARGING.** A crash, or a cancelled request context, between the
  RECHARGING update and `markCompleted`/`markFailed` leaves a status that webhooks
  answer with an error and `RetryFulfillment` refuses. Nothing resets it
  (`PaymentOrder_stuck_recharging`).
* **Lease not renewed.** A lock obtained by reclaiming keeps the fingerprint of the
  operation that inserted the row; `ExtendProcessingLock` matches on the fingerprint,
  so the lease is never renewed (`system_operation_lock_service.go:178`), although the
  test of the renewal expects "locked_until should be renewed while lock is held"
  (`SystemOperationLock_not_renewed`). The row of an earlier operation stays for hours, so
  this is the usual case. MutualExclusion and LockedWhileHeld cover every operation until
  one outruns such a lease (`overrun`), and afterwards those that inserted the row.

The models also contain these behaviours. The passing runs bound or name them, and the
changes given here show them:

* **Answered, but not looked at.** When `GetWebhookProviders` fails (the instance cannot
  be read, is gone or is ambiguous), every notification but WeChat's is answered with
  success and the order stays as it is (`payment_webhook_handler.go:90`,
  `ProviderUnresolved`). With `"providers"` in `FaultAt` AckedIsAccounted fails.
* **Refunded, but pending.** `validateRefundProviderResponse` (`payment_refund.go:365`)
  takes a pending refund for a success, the order is shown as refunded, and nothing asks
  for the outcome. RefundBooksBalance says of such an order that the gateway accepted the
  refund, not that the money has moved; `PendingSettles` may happen or not.
* **Rolled back, but not whole.** After a refund whose rollback failed, a second
  attempt skips the deduction; when the gateway fails again there is nothing to give
  back, the order becomes COMPLETED and the answer says "rolled back"
  (`payment_refund.go:391`). Reached in `PaymentRefund_balance` with three faults;
  RefundBooksBalance allows for it through the REFUND_ROLLBACK_FAILED entry.
* **Expired key, two executions.** Two requests read the same expired row. The first
  reclaims it, runs and marks it succeeded; the second reclaims it by its status,
  which matches again, and runs too (`idempotency_repo.go:119`). OnceUnlessRenewed
  speaks of one validity and leaves out a success whose row was reclaimed as expired;
  without that exception it fails. A late reclaim also puts a new `expires_at` on the row
  from a clock read earlier, and so may shorten a validity that somebody else began: the
  property was once stated without this case, held for 5 ticks, and the attempt to prove
  it showed the counterexample that 6 ticks reach.
* **Restart outside the lock.** `RestartService` releases the lock when its handler
  returns; the goroutine that restarts the server runs half a second later
  (`system_handler.go:150`), and MutualExclusion says nothing of it.
* **Requests outside the limit.** `wrapReleaseOnDone` gives the slot of a request back when
  its client goes away, while the upstream call still runs (`gateway_helper.go:157`), and
  `CleanupStaleProcessSlots` of a starting process removes the slots of requests that other
  processes serve (`concurrency_cache.go:506`). ConcurrencyBound counts all other forwarded
  requests; without either exception it fails.
* **Outbox ids passed.** The comment at `scheduler_outbox_repo.go:111` counts on a
  transaction ending within ten seconds of taking its id; that grace protects rows from
  deletion, and nothing keeps the watermark from passing the id first. The row is then
  never listed, and only the full rebuild repairs the copy (`lapse` in `TxCommit`).
* **Quota costs missed.** The comments at `billing_cache_service.go:677` and
  `gateway_service.go:9112` say that the next admission sees every cost, so that overspending
  is limited to the requests in flight. A fill that was read before a cost overwrites it;
  one that keeps a closed or missing window start lets the next admission reset it, so the
  first cost of a fresh row is not seen; with the flusher a cost without an entry is recorded
  nowhere; and a cost stamped before midnight wipes a row of the new day. `Miss` counts each
  such cost where it is lost (`Unseen`, `Load`, `Persist`, `Write`, `Unwritten`), and
  EntryIsComplete says that no other cost is missing. Dropping any of these terms makes the
  run fail, the one of a late cost with larger bounds.
* **Manual token refresh.** It takes no lock and keeps `_token_version`
  (`account_handler.go:906`), so that a concurrent worker may put the account in error,
  and requests may cache the old token as current (`excuse` and `behind`).
* **Live token refused.** `isNonRetryableRefreshError` also holds for answers that say
  nothing of the token (`invalid_client`, `access_denied`, `missing_project_id`, ...), and
  the account is put into error (`token_refresh_service.go:311`). ErrorIsGenuine names it.
* **Edit rolls a token back.** `UpdateAccount` reads the account and writes its whole
  credentials column back (`account_repo.go:332`), over a token that a refresh stored in
  between; `ratelimit_service.go:269` explains why another writer gave that up. `EditWrite`
  does so; LiveTokenIsKept, ErrorIsGenuine and StaleCacheIsExplained name it, and it is
  recorded only when the credentials really differ.
* **Breaker not told.** A balance load that had read the stopped flag before the write queue
  was closed panics on the send, together with the requests that wait for it, and the
  breaker hears nothing (`LoadPanics`). HalfOpenIsProbed ends with the stop of the queue.

### Assumptions of the passing runs

* `PaymentOrder_balance` excludes the faults after which the code loses a payment:
  a provider instance that cannot be found, a failed read in `confirmPayment` or
  `alreadyProcessed` (all answered as success), and anything that leaves RECHARGING behind (lost answer of the lock, failed
  `markFailed`, crash). With `"confirm"` in `FaultAt` AckedIsAccounted fails. CreditedAtMostOnce
  and PromiseKept are proved under all faults. For a subscription PaidIsSettled does not hold:
  when the group is gone, redeliveries and retries may go on without ever resting.
* `PaymentRefund_balance` refunds a balance order; for a subscription, and for every fault,
  OneRefunder is proved (`RefundIsExclusive`). It excludes lost answers of the deduction, the rollback and the
  gateway, and faults of the REFUND_ROLLBACK_FAILED entry: after a lost answer the
  code rolls back, or restores the status, on a wrong belief, and RefundBooksBalance
  fails. The orders of this run have a trade number; without one a refund is marked as
  done and the gateway is not asked.
* `Idempotency`: statements take less than the lease (`MaxLag < Lease`), operations
  less than the validity of a key (`MaxRun < TTL`).
* `SystemOperationLock`: one failed renewal does not cost the lease
  (`MaxLag + 2 * RenewInterval < Lease`: the code renews three times per lease), and a row is
  valid for at least a lease. Nothing bounds how long an operation takes.
* `ConcurrencySlots`: requests are shorter than the TTL of a slot (`MaxRun < SlotTTL`).
* `BalanceCache`: one process and one user, a minimum reserve of zero, a cost of one.
* `PlatformQuota`: the entry's TTL of a day does not run out while a request for it is
  under way (`CacheExpires`); every cost is one.
* `SchedulerSnapshot`: one bucket and one account; the watermark is set within its three
  attempts unless the worker's process dies.
* `OAuthRefresh`: the provider accepts only the newest refresh token. A lock that
  expires under its holder is a fault.

### Fairness

`PaymentOrder`: weak fairness of the steps of a running request (goroutines run, and
statements have timeouts), and strong fairness of the redelivery of an unanswered
notification of a payment, which is what payment providers do. Nobody is obliged to
pay, poll, cancel or retry. `ConcurrencySlots`: weak fairness of the clock, of each
request's own steps, and of the removal of expired slots (cleanup worker, every
acquisition, or EXPIRE of the key). New requests, disconnects and restarts are not
fair.

`BalanceCache`: weak fairness of each task's own goroutine, of a worker starting the next
task while fewer than `MinWorkers` run (resizing never goes below), of loads, cache
writers, the invalidation goroutine and the TTL of the key. `PlatformQuota`: weak fairness
of each flusher (timing wheel) and of the second half of a reset. `SchedulerSnapshot`: weak
fairness of the workers and their tickers, of the writers' second statement and commit, and
of the lock's TTL. `OAuthRefresh`: weak fairness of the workers, of started requests and
manual refreshes, of the end of a pause and of the TTL of a lock left behind. Nobody is
obliged to send a request, to recharge, to change an account or to refresh by hand.

## Proofs

Eight modules hold theorems that TLAPS checks. They are about any number of handlers,
requests, operations, tasks, keys, flushers, workers and threads, any number of faults, and any
limits, leases and amounts that the named `ASSUME`s of the modules allow. TLC evaluates
these `ASSUME`s in every run; besides types and distinctness of the special values they
say that `Tasks`, `Threads` and the `Requests` of the quota are finite sets, and that the
time a statement or an operation takes is below the lease or the validity it needs. Every
theorem below follows from an invariant `IInv` that is inductive, is shown to hold at the
start and to be kept by each action, and was checked by TLC before it was proved; that of
`SchedulerSnapshot` with two outbox workers as well, although the run has one.

| Module | Theorem | Statement | Under |
|---|---|---|---|
| `PaymentProofs` | `TypeCorrect`, `Invariance` | `[]TypeOK`, `[]IInv` | |
| | `FulfilmentIsExclusive` | `[]OneFulfiller` | |
| | `BalanceCreditedAtMostOnce` | `[]CreditedAtMostOnce` | balance orders |
| | `CompletedOrdersAreCredited` | `[]CompletedIsCredited` | |
| | `CreditedOrdersArePaid` | `[]CreditedIsPaid` | |
| | `RebateAtMostOnce` | `[]RebatedAtMostOnce` | |
| | `FurtherGrantsCostFaults` | `[]GrantedOncePerFault` | |
| | `AnsweredPaymentsAreAccounted` | `[]AckedIsAccounted` | `RecoverableOnly` |
| | `PaymentIsNeverForgotten` | `PaidNeverForgotten` (steps) | |
| | `CompletionIsFinal` | `CompletedIsFinal` (steps) | |
| | `BalanceOrderKeepsPromise` | `PromiseKept` (refinement) | balance orders |
| | `RefundTypeCorrect`, `RefundInvariance` | `[]RefundTypeOK`, `[]RefundIInv` | |
| | `RefundIsExclusive` | `[]OneRefunder` | |
| | `BooksInvariance` | `[]BooksIInv` | `ReliableRefund` |
| | `GatewayRefundsAtMostOnce` | `[]RefundedAtMostOnce` | `ReliableRefund` |
| | `CreditTakenAtMostOnce` | `[]DeductedAtMostOnce` | `ReliableRefund` |
| | `RefundBooksAreBalanced` | `[]RefundBooksBalance` | `ReliableRefund` |
| `IdempotencyProofs` | `TypeCorrect`, `Invariance` | `[]TypeOK`, `[](Typed /\ IInv)` | |
| | `OneRunsAtATime` | `[]OneExecutor` | |
| | `SucceedsOnce` | `[]OnceUnlessRenewed` | |
| | `ReplaysAreGenuine` | `ReplayIsGenuine` (steps) | |
| `SystemOperationLockProofs` | `TypeCorrect`, `Invariance` | `[]TypeOK`, `[]IInv` | `LeaseCovers` for the second |
| | `OperationsExclude` | `[]MutualExclusion` | `LeaseCovers` |
| | `LeaseIsKept` | `[]LockedWhileHeld` | `LeaseCovers` |
| `ConcurrencySlotsProofs` | `TypeCorrect`, `Invariance` | `[]TypeOK`, `[]IInv` | |
| | `ConcurrencyIsBounded` | `[]ConcurrencyBound` | |
| `BalanceCacheProofs` | `TypeCorrect`, `Invariance` | `[]TypeOK`, `[](Typed /\ IInv)` | |
| | `ChargedOnce` | `[]BilledAtMostOnce` | |
| | `ClaimsMatchCharges` | `[]ClaimedIffCharged` | |
| | `SkippedTasksAreBilled` | `[]SkippedIsBilled` | |
| | `CachedBalanceIsExact` | `[]CacheIsExact` | |
| | `BreakerIsProbed` | `[]HalfOpenIsProbed` | |
| `PlatformQuotaProofs` | `Invariance` | `[](Typed /\ IInv)` | |
| | `RowIsExact` | `[]LedgerIsExact` | |
| | `AdmissionMissesNothing` | `[]EntryIsComplete` | |
| | `AheadEntriesAreMarked` | `[]AheadIsMarked` | |
| `OAuthRefreshProofs` | `TypeCorrect`, `Invariance` | `[]TypeOK`, `[](Typed /\ IInv)` | |
| | `NoTokenIsOverwritten` | `[]LiveTokenIsKept` | |
| | `OnlyDeadAccountsFail` | `[]ErrorIsGenuine` | |
| | `RefreshersAreFenced` | `[]OneRefresher` | |
| | `StaleTokensAreRepaired` | `[]StaleCacheIsExplained` | |
| `SchedulerSnapshotProofs` | `TypeCorrect`, `Invariance` | `[]TypeOK`, `[](TypeOK /\ IInv)` | |
| | `StaleCopiesAreExplained` | `[]StaleIsExplained` | |

The hypotheses are the assumptions of the passing runs in general form, and the runs'
constants satisfy them:

* `RecoverableOnly`: the webhook finds its provider instance, no fault strikes the reads of `confirmPayment` and
  `alreadyProcessed` or `markFailed`, nobody crashes, and the answer of the RECHARGING
  update is not lost. After any of these the code forgets an answered payment.
* `ReliableRefund`: a balance order with the provider's trade number, whose deduction and
  gateway call do not lose their answers and whose REFUND_ROLLBACK_FAILED entry and flag
  are written. Faults without effect may strike everywhere else.
* `LeaseCovers`: `MaxLag + MaxFaults * RenewInterval + RenewInterval < Lease`, since each
  fault may spoil one renewal. Operations may take any time, on a reclaimed row too.

### The arguments

**Payment orders.** `IInv` is the conjunction of

* `PaidFirst`: only an order that `CreateOrder` answered is paid, so its unguarded
  UPDATE to FAILED never meets a payment; a request past the checks of
  `confirmPayment` implies a full payment at the provider;
* `PaidStatus`: `paid_at` implies a payment, the unpaid statuses exclude it, all others
  but a FAILED creation require it;
* `OneFulfiller`: the compare-and-set to RECHARGING is a lock, with the one exception
  of a handler on its way to `markFailed` after a lost answer of `markCompleted`;
* `CodeIsCredit`: the used redeem code of a balance order is its one credit;
* `CreditFirst`: the step of a handler, the audit entries, the used code, a fulfilled
  status and a rebate each imply a credit, and a credit implies the payment.

Two more parts carry the last theorems: `GrantsArePaidFor` counts grants against faults,
with a handler that may still grant on the side of the grants; `Accounted` says of each
handler what its step implies about the row, so that a RECHARGING row always has a handler
that will end it. The refinement maps `paid` to a full payment at the provider, `credited`
to the credits and `done` to COMPLETED or a refund status; every step is a step of
`OrderPromise` or leaves the three unchanged.

**Refunds.** `RefundIInv` is `IInv` with `OneRefunder`: every step of a handler is seen to
leave a REFUNDING row alone. `BooksIInv` adds `TradeNoIsKnown`, `StatusBooks` (what was
deducted and what the gateway accepted in each status, and what a marker entry explains) and `AdminBooks`
(the same for the administrator between two statements).

**Idempotency.** `Exclusion` says who runs: a running request holds the latest row, the
row outlives it (`RunningHolds`), a request about to claim acts on a clock at most `MaxLag`
old (`ClaimClocks`), and one that saw the row while expired finds the new `locked_until`
in its way (`LateReclaim`). `History` says what has been done: effects are of their
request's payload (`Genuine`), the row of an effect stays as it was left until it is
reclaimed as expired (`KeptRow`), and whoever runs came after the validity of every
earlier effect (`FirstRun`).

**System operation lock.** The lease of an operation that inserted the row is tied to the
ticker of its renewal loop: it lags behind by one interval for each fault so far
(`Renewed`). One that reclaimed the row is within the lease it was given, or `overrun` is set
(`OwnedRow`). Nobody reclaims a row whose lease runs, so there is one owner until an overrun
(`OneOwner`); afterwards the ids carry the argument: a row that is inserted later is a new
one, and what others do with the earlier row by its id does not touch it (`OwnIds`).

**Concurrency slots.** The request id of every holder that was not evicted is in the sorted
set and younger than the holder's own clock (`HoldersHaveSlots`), two holders have different
ids (`SlotsAreUnshared`), only a request whose client is gone is forwarded without one
(`ServedHoldSlots`), and the scripts keep the live ids within the limit
(`SlotsWithinLimit`); the requests that count therefore map one to one into the live ids.

**Usage billing and balance cache.** `Holders`: an open claim belongs to one transaction,
no other claim of its key is on record, and once the transaction has looked into the
archive none is archived. `FillIsFresh`: a fill under way carries the balance of now or is
recorded as raced; then `CacheIsExact` survives each write, in any order, by counting the
deductions, recharges and deletions on their way.

**Platform quota.** `Dated`: no window is of a day to come. `OneWay`: costs reach the row by
goroutines or by the flusher, never by both. `Booked`: today's usage of the row and the costs
on their way are what was spent. `Shown`: together with `missed`, everything that is the entry
or may become it shows what was served in this window: the entry, what a request is about to
write, and the row, with the goroutines of today or, with the flusher, while there is no
entry. `Marked`: an entry that the row does not show is marked, about to be read or marked
again, or in a snapshot that shows it.

**OAuth refresh.** `Coherent`: credentials are known by token and version; a thread that
carries a new token was answered for the stored one, and only one does (`Carries`).
`MutexHeld` and `Fenced` bound the refreshers that no lock protects (`Zombies`, those that
will delete a lock not theirs included) by the number of losses. `Undisturbed`: without a
loss or an excuse nobody overtakes a refresher between its reread and its call, so that a
refusal means a dead token (`Condemned`). `BehindKnown` and `RepairPending`: a stale cached
token has a request on record that will store it, or a thread that will repair it.

**Scheduler snapshots.** A worker that has listed rows stands for the refresh they ask
for. `Handled` says, step by step, what it owes: what it reads, writes and activates is
current, or a refresh is to come that does not depend on the rows it found listed
(`Missing(known[b])`): a row listed later, a writer about to enqueue, or a recorded loss. A
newer version that beats its own carries a read that is at least as good. `known`, a history
variable, holds the rows that anybody had listed when the worker polled; for two workers
these sets are nested (`Nested`), which is what carries the argument to any number of
outbox workers, where one of them moves the watermark over rows of another. `Explained`,
the copy's own part, then survives the watermark: at that step the copy is current, or the
missing refresh is above the watermark or is recorded as passed.

### Only model-checked

* The liveness properties `PaidIsSettled`, `LeakedSlotsFreed`, `CountResets`,
  `AcceptedIsExecuted`, `ExhaustedIsRefused`, `CopyConverges`, `OutboxIsConsumed`,
  `DueIsSettled` and `RowCatchesUp`: the prover has no rule for fairness and ENABLED.
* The type invariant of `PlatformQuota` (its bounds on usage; `Typed` of the proofs gives
  the types without them).
* What the hypotheses above exclude (lost answers of a refund, refunds of
  subscription orders beyond `OneRefunder`, short leases) is neither proved nor claimed:
  there the properties fail as described above, or were not studied.

## Plan

1. **Done**: payment orders and refunds, idempotency, system lock, slots, usage billing
   with worker pool, balance cache and breaker, platform quota, scheduler snapshots and
   outbox, OAuth token refresh; theorems for every invariant and every action property of
   the runs but `PlatformQuota`'s types.
2. **Theorems next**: the refund books of subscription orders; the number of requests by
   which the concurrency limit can be passed after a disconnect or a restart; the type invariant of
   `PlatformQuota`; then the invariants of each module below, in the proof module of the
   component it joins.
3. **Modules after that**: order admission (pending and daily limits) beside
   `PaymentOrder`; user message queue and leader lock as instances of a lease with an
   owner; image concurrency limiter; API key cache invalidation; subscription windows.
