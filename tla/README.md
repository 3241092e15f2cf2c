# suseok-trader-v2: TLA+ models and proofs

TLA+ models of the parts of suseok-trader-v2 where a wrong step costs money or
data: the path of an order from Core to the broker and out of doubt, the event
buffer that feeds Core, the projection of price ticks by competing parties, the
evaluation queue and its lock, and the LIVE_SIM books with the inbox that feeds them. Every
definition is translated from the source; `PROJECT.json` maps each one to its
lines. TLC checks small instances, TLAPS proves the central safety properties for
every value of the constants.

## 1. The system

An automatic trading system for the Korean stock market, restricted to Kiwoom's
simulation server (LIVE_SIM). Two processes matter:

- **Core** (`apps/core_api.py`, `api/`, `services/`, `storage/`): a FastAPI server
  over one SQLite database. It stores every gateway event, projects market data,
  evaluates candidates, decides on orders, and keeps the command queue.
- **Kiwoom Gateway** (`apps/kiwoom_gateway.py`, `gateway/`): a 32-bit process that
  owns the Kiwoom ActiveX control. It polls Core for commands, executes them one
  after the other, and posts events.

They speak HTTP. Core never calls the Gateway: commands are polled, events posted.
Either may die, and either may lose the other's answer.

### Inventory

| Component | State | Operations | Hard because |
|---|---|---|---|
| command store (`storage/gateway_command_store.py`) | `gateway_commands`, dedupe rows | enqueue, poll (expire, time out, claim), record event | lost poll answers, late events, requeue after a rate limit |
| broker boundary (`storage/gateway_order_broker_boundary.py`) | one row per order: state, sticky timestamps, key | claim, event, mark unconfirmed, status/fence, operator resolution | reordered events, fencing from stale rows |
| event store (`storage/event_store.py`) | raw events by `event_id` | append once | retried posts |
| gateway runtime, handlers (`gateway/kiwoom_runtime.py`, `kiwoom_command_handlers.py`) | inbox, event queue, pending registry | poll, handle, flush, replay, chejan, session loss | crash between broker call and report |
| pre-ack journal (`gateway/order_pre_ack_journal.py`) | append-only file | record, mark, replay | failing writes, replay of settled orders |
| core I/O worker (`gateway/core_io_worker.py`) | deque of events | enqueue, coalesce, drop, select, post, remove | producers change the deque while a batch is posted |
| gateway routes (`api/routes/gateway.py`) | – | event, batch, commands | partial batches, 503 in the middle, late commits |
| projection outbox and worker (`storage/projection_outbox.py`, `services/runtime/projection_outbox_worker.py`) | jobs with owner | enqueue, claim, reset stale, apply, verify, mark | competing appliers, crashes between transactions |
| market data (`services/market_data_service.py`) | samples, latest tick, minute bars, errors | process event | check before the transaction, out-of-order ticks |
| evaluation guard, incremental queue (`services/runtime/`) | lock rows with fencing tokens, queue, dead letters | acquire, renew, enqueue, process | takeover of a lock whose owner lives, re-enqueue while processing |
| LIVE_SIM inbox (`services/runtime/live_sim_lifecycle_consumer.py`, `gateway_live_sim_lifecycle_routing.py`) | inbox rows, routing decisions | enqueue, route, apply inline, claim, reset, dead letter | request and batches on one row, strict order |
| LIVE_SIM books (`services/live_sim/live_sim_service.py`) | intents, orders, cancels, exits, executions, positions | queue, cancel, exit, sweep, reconcile, event handlers | runners without a lock, stale reads, commands committed before their rows |
| candidates, dry-run OMS, subscriptions | state machines in SQLite | transitions | long sequences of legal calls |
| strategy, risk, themes, index/regime/scan | snapshots | scoring | numeric, no protocol |
| dashboard, AI sidecar, profit lab, tools | – | reports | none for a model checker |

What makes each correct, and the line where it may fail, is in the `hazards` of
`PROJECT.json`.

## 2. Modules

| Module | Models |
|---|---|
| `OrderBoundary` | the pure rules: status of a command and state of its boundary row after an event, and what fences routing |
| `GatewayOrders` | Core, wire, Gateway and broker for order commands |
| `GatewayOrdersProofs` | their theorems |
| `CoreIoWorker` | the Gateway's event buffer and its worker thread against Core's batch route |
| `CoreIoWorkerProofs` | its theorems |
| `ProjectionOutbox` | price ticks applied by the gateway route and by worker runs |
| `ProjectionOutboxProofs` | its theorems |
| `EvaluationRunGuard` | the lock that keeps evaluation runs apart: lease, takeover, fencing token |
| `FencedLock` | what that lock promises; `EvaluationRunGuard` implements it |
| `EvaluationRunGuardProofs` | the theorems of the run guard |
| `BoundaryResolution` | operators who take an order out of doubt: resolution and fence ledgers, on top of `OrderBoundary` |
| `BoundaryResolutionProofs` | its theorems |
| `LifecycleInbox` | LIVE_SIM events from the POST to the handlers, inline or by a durable worker |
| `LifecycleInboxProofs` | its theorems |
| `LiveSim` | LIVE_SIM orders, cancels, exits, executions and positions against the broker |
| `LiveSimProofs` | its theorems |
| `IncrementalEvaluation` | the queue of candidates to evaluate, its retries and dead letters |
| `IncrementalEvaluationProofs` | its theorems |
| `MC*` | constants for TLC |

Operators whose name ends in `Fault` are deliberately wrong variants of the
operator after them. No specification uses them; putting one in the place of the
operator it belongs to makes the property named for it fail.

### OrderBoundary and GatewayOrders

State and code:

- `status`, `attempts`, `expired`: a row of `gateway_commands`; `boundary`: a row
  of `gateway_order_broker_boundaries` with its state and the two timestamps the
  state does not determine; `seen`: the recorded `event_id`s.
- `response`, `latePreAck`: a poll answer and the timed-out pre-ack requests on
  the wire.
- `inbox`, `hand`, `outbox`, `pending`: the Gateway's memory. `hand` is the command
  being handled and the stage of its handler; a crash may fall between any two
  stages. `journal` survives it.
- `calls`, `accepted`: the broker's side, which no code can see; the properties
  compare it with what Core believes.

Core's actions are its transactions: `EnqueueCommand`, `ExpireStaleGatewayCommands`
and `DispatchReadyCommands` (the two transactions of a poll), and `Record`
(`_append_gateway_event_once` with `record_command_event` and the boundary
upsert). The handler's actions follow `_handle_send_order`, which
`_handle_cancel_order` repeats: refuse, rate limit, start, journal, pre-ack, broker
call, report, with every exception path. `BrokerCall` is external: it accepts,
refuses, or raises without telling.

Abstractions: clocks (any claim may be found past its timeout, any command may
expire), payloads, the rate limiter's windows, and the sort and limit of a poll (any
subset of the dispatchable commands may be claimed). Events are posted one at a
time from the head of the queue, which has the same committed prefixes as the
batches of the code. A chejan callback the registry cannot link carries no
command and is left out. The pre-ack answer of a confirmed request is taken with
its commit: nothing the Gateway does depends on the time between them, and the case
that the Gateway dies or gives up in between is there.

### CoreIoWorker

`events` is the deque, `batch` the copy the worker is posting, `todo` and `late`
what Core has still to commit of the current and of abandoned requests, `core` what
it has committed. `EnqueueEvent` is one critical section of a producer: insertion
behind the command events, replacement or coalescing, and the buffer limit.
`SelectBatch` is the choice under the lock; `BatchPosted` removes what was posted.
The ten command event types behave alike and are one class. The fast types
(`price_tick`, `condition_event`) are committed as one transaction, the others one
by one.

Coalescing replaces the *first* queued event of a key, so with an older event of
the same key further back an older tick may be posted after a newer one. Core
compares timestamps (`LatestIsNewest` of the next module); `NewestSurvives` states
what the worker itself guarantees.

### ProjectionOutbox

One stock. `market` holds the tables, `job` the outbox rows, `route` the request
the write lock admits, `worker` the runs. `AppendEvent` to `InlineEvaluate` are the
transactions of a single-event request; `PostFastBatch` is the same in one
transaction, with the inline retirement of the job. A run resets and claims
(`StartRun`), and for each job verifies, checks, projects, enqueues the
evaluation, verifies again and marks it. `process_gateway_event` looks for the tick
before `BEGIN IMMEDIATE`, so check and projection are two actions on both sides.
Reset and claim are two transactions in the code and one action here; a claim
takes pending jobs only, so another run in between could only claim a part of them.

### EvaluationRunGuard and FencedLock

`row` is the lock's row, `lastToken` the fences table, `writer` the connection in a
`BEGIN IMMEDIATE` transaction, `pc` where each thread is, `beats` the heartbeat
threads, `lost` the leases whose `_lost_error` is set. A run takes the lock
(`Acquire`), works in fenced transactions (`Begin`, `Fence` or `FenceLost`, `Commit` or
`Rollback`), deletes rows of closed candidates (`CheckCandidate`, `DeleteClosed`) and
leaves (`EndBody`, `CheckAtEnd`, `Release` or `ReleaseFails`). A heartbeat may be late by
any time, also after the release. What a fenced transaction renews becomes visible
at its commit. Processes crash and start; a process started again stands for one
that got the same process id, a Core clears residual rows first, a tool does not.
`Trusted` are the processes for which `os.kill(pid, 0)` fails only when they are dead:
`_lock_owner_is_alive` takes every `OSError` but `PermissionError` for death.

`FencedLock` is the abstract promise: a holder, an epoch that grows with every grant,
and writes by the holder under the last epoch. The mapping is direct (`holder` is the
row's owner, `epoch` the last token, `written` the token of the last committed
transaction), so no auxiliary variable is needed.

### BoundaryResolution

An order starts UNCONFIRMED by the dispatch timeout while its gateway may still wake
up, start, pre-ack, call the broker and report, each event delivered late and in any
order. An operator's `Prepare` is the preview with what the request freezes (fingerprints,
the resolution in force, the head of the fence ledger, the day); `Resolve`, `Revoke`, `Release` and `Reinstate` are the
transactions that apply it, at any later time, also twice (an applied request is
answered again). `other` is the order that waits behind the fence: `Claim` is the only
step that lets it through, `version` the full-state fingerprint that moves with it.
`Blocks` and `Released` are the boundary status as the code computes it from both
ledgers. The ledger triggers (append-only, one head) are in the appends.

### LifecycleInbox

`settings` is chosen once, so one run has every combination of worker, cutover and
inline. `Append` to `InlineMark` are the transactions of a request, which may be cut off
between any two; the gateway sends one event after the other and repeats what was not
answered. A batch resets stale rows, claims the first unresolved row, applies it and
marks failures; `ResetStale` may hit a batch that is alive. `_mark_lifecycle_failure` looks at
neither owner nor status: `reopened` remembers the APPLIED rows that a late mark has set
back, and the properties say what holds for all others. What the handlers do with an
event is `LiveSim`.

### LiveSim

One account and one stock code. Every transaction of `live_sim_service.py` on the order
path is an action; what a runner has read before is in `run`, and it may end between
any two of them. `BuyStep` is eligibility, queueing and the sweep of expired commands,
`CancelStep` and `ExitStep` the runners, `HandlerStep` the event handlers with the
position arithmetic, `BrokerStep` the external side. Events arrive in order, one
transaction each (that is what `LifecycleInbox` shows), and a command reaches the broker
at most once (`GatewayOrders`). What a runner reads and what it writes from it are two
actions wherever the code has no transaction around both, so any number of runners interleave
there: `ExitRead` checks for an exit under way, `ExitSignal` inserts the signal and reads again,
and `ExitIntent` inserts what that read has found. The passing runs have the mock gateway's feed, one
execution event per fill; `ChejanFeed` switches to Kiwoom's, which also sends every
chejan. Reprice is another BUY after a cancel.

### IncrementalEvaluation

`line` is the queue by `updated_at`, `dead` the dead letters of a candidate with their
effective disposition, `lock` what `EvaluationRunGuard` shows of the lock. An enqueuer
checks for a block and inserts in two actions. A worker refreshes the first row's
candidate, evaluates and deletes in one fenced transaction, counts failures and
appends dead letters; it may lose its lease anywhere. The operator disposes, resets as a
canary, verifies and revokes.

Refresh and evaluation are two transactions, and ticks come in between. The evaluation takes
price and bars from the market tables as they are then (`priced`), but the candidate's state,
tick age and readiness from the row the refresh has left (`judged`; `run.read` carries it).
`slipped` remembers the latest tick that came in that window. `Backfill` looks for an
evaluation older than the latest tick, so it goes by `priced`.

## 3. What is checked

| Run | Properties | Instance and why it is enough |
|---|---|---|
| `orders_lifecycle` | `CallOnlyAfterDurablePreAck`, `AcceptedOrderStaysVisible`, `SingleClaim`, `BoundaryNeverRegresses` | a send and a cancel order, two claims each (one requeue), one crash: every pair of stages of two orders meets; 840 000 states |
| `orders_same_key` | `AtMostOneCallPerKey`, `BoundaryRowsComplete`, `AcceptedOrderSurfaces` | two orders with one key, one crash and one failing journal write, under fairness; 18 000 states |
| `io_buffer` | `TypeOK`, `ProtectedNeverLost`, `CriticalInOrder`, `NewestSurvives`, `QueuedEventLeaves` | four events of five types (one of each class the worker tells apart) through a buffer and a batch of two: the limit, coalescing, both batch groups and a changed deque all happen within one post; one failure; fairness |
| `outbox` | `TypeOK`, `VolumeCountedOnce`, `LatestIsNewest`, `AnsweredEventHasJob`, `AppliedTickIsEvaluated`, `SettledJobLeavesTrace`, `SettledJobStays` | two of four ticks (two valid, one invalid, one quote-only), `InScope`: two valid ones with two overlapping applying runs and the route, three appliers of one tick; or any two with one run that applies, verifies or is refused, since runs meet in the tick they both apply and other ticks are applied by nobody; one crash, lock or failed side effect; 870 000 states |
| `guard` | `LostLeaseIsGone`, `RunHasLock`, `DeletesAreFenced`, `DeadOwnersRowGoes`, `Fenced` | two threads of Core and one of a tool that may be taken for dead, two acquisitions (takeover within a process and between processes), one crash, so that a process survives; fairness; 108 000 states |
| `inbox` | `AnsweredEventInInbox`, `AppliedOnce`, `InlineAnswerIsApplied`, `RowidOrder`, `InboxSettles` | two events (an earlier one to hold back a later one), two batches and the request, all eight settings, a retry limit of two, one unresolved row allowed, one fault; fairness; 182 000 states |
| `live_sim` | `TypeOK`, `NeverSellsMoreThanHeld`, `LiveOrdersCounted` | a BUY of two shares (partial fill), its cancel, two symmetric exits, two symmetric runners: every pair of steps of two runners meets; 762 000 states |
| `live_sim_limit` | `BooksMatchBroker`, `ActiveLimitHolds` | two symmetric BUYs of one share with a limit of one, an exit, one runner, one repeated report or lost runner; 812 000 states |
| `incremental` | `TypeOK`, `NoTickForgotten`, `QueueDrains` | one candidate, two ticks, two workers, two attempts, three operator actions (dispose or reset, verify, revoke), one fault; fairness; 344 000 states. One candidate suffices for `NoTickForgotten`: rows of two candidates meet only in the order of the queue |
| `resolution` | `LedgersValid`, `ClaimOnlyWithoutDoubt`, `ReleaseNeverRevives` | one order in doubt, two symmetric operators, four requests (resolve, release, revoke, resolve again), three changes of the other order, two days; 2.5 million states |
| `doc_phantom_fill` | `PartialFillIsAFill` | a BUY of two shares and one runner with Kiwoom's feed; expected to fail, see below |
| `doc_close_only` | `SellsOnlyClose` | a BUY of one share, two exits, two runners; expected to fail, see below |

The type invariants of the order path, the guard, the resolution and the inbox are proved
(section 4) and not checked again; the others are checked as well. Deadlock is checked for
the run guard only. In the other models every behaviour ends with bounded attempts, crashes and events, and the system may always be idle.

**Fairness.** `orders_same_key` assumes only that the dispatch timeout of each claim
is served: the Gateway polls for ever (also when it has failed to handle anything),
and each poll runs `expire_stale_gateway_commands`. Delivery, handlers and the broker
get no fairness. `io_buffer` assumes that the worker loop runs and that Core answers
once the (bounded) failures are over: the loop retries for ever, with a delay of at
most five seconds. Its producers pause after a bounded number of events: `QueuedEventLeaves`
says that the deque then empties and what is protected arrives. It says nothing of producers
that never pause (see below). `guard` assumes that time passes, that a process which runs has
worker threads, that a run's finite batch ends and the run then leaves, and that a
process does not miss every opportunity to take the lock (strong fairness: Core's loops
call `runtime_execution_lock` at every interval, and retry `BEGIN IMMEDIATE`); heartbeats
and restarts get none, and a release may still fail. `inbox` assumes that claims age and
retry delays end, that `_live_sim_lifecycle_consumer_loop` starts batches again and again,
and that not every batch is cut off just before it resets or claims (strong fairness; the
cuts are bounded by `MaxFaults`, the loop is not). `incremental` assumes that
`_incremental_evaluation_loop` runs the batch again whatever it raised. Worker runs of
the outbox are started by an operator, so no progress is claimed for them.

### Where documents and code disagree

`doc_phantom_fill` states `docs/live_sim_execution_lifecycle_ko.md:36`, which makes an order
PARTIALLY_FILLED by a partial fill. `_handle_live_sim_chejan_event` takes every order chejan
with a quantity and a price for an execution, and the Kiwoom parser fills both from the
order itself: the acceptance of an order is booked as an execution of its whole
quantity. Fills themselves are booked once: a chejan and its `execution_event` both carry the
execution number of FID 909 (`kiwoom_client.py:2014`, 2043, 2056), and the second is a duplicate.

`doc_close_only` states line 76 of the same document, that a SELL is close-only. The check for
an exit under way and the insert of a new one are not one transaction
(`live_sim_service.py:3830` and 3833, 2308 and 2333), and the key of an exit command is per
signal (2322). The operating cycle (`live_sim_operating_orchestrator.py:248`), the route
(`api/routes/live_sim.py:764`) and `tools/run_live_sim_exit_once.py` run the exit path without
a lock between them, so two of them can each queue a SELL of one position.

### Behaviour worth knowing

- A key may be enqueued again after `expires_at`. If the first order still has its
  boundary row, the claim of the second violates the unique index and the whole
  poll fails until the second expires.
- The order boundary runbook counts `command_state_mismatch_count=0` (line 74) among the
  conditions of a healthy system; a rate-limited order that is claimed again is
  CLAIMED while its row stays GATEWAY_STARTED, so the count is 1 and new orders are
  fenced until it moves on.
- A late `command_failed` overwrites the command status UNCONFIRMED with FAILED
  (`_effective_order_command_status`), although line 16 of the runbook says it is not
  overwritten; the boundary row keeps UNCONFIRMED.
- The deletion of a closed candidate's queue row is not in the transaction of the fence
  check. `DeletesAreFenced` holds as long as `os.kill` tells the truth; with
  a process that is not in `Trusted` a run that lost the lock in between still deletes,
  which line 12 of the execution lock runbook rules out.
- A late pre-ack moves a FAILED command back to PRE_ACK_RECORDED; the timeout then
  makes it UNCONFIRMED. That is fail-closed.
- After a restart the pending registry is empty: a chejan callback for an order
  of the previous run is not linked, and the order is found by the timeout.
- The race of check and insert ends in a primary key error: the tick is counted
  once, but its job becomes ERROR although the tick was applied.
- A locked database during the worker's projection makes the job ERROR, and an
  ERROR job is not claimed again. A verifying run marks a deferred, not yet applied
  tick ERROR as well.
- If the broker method raises and the journal write before the event fails too, the order
  is reported failed, not UNCONFIRMED (order boundary runbook, line 42).
- With the apply settings off, every claimed outbox job is closed as SKIPPED without
  verification; the outbox backlog runbook (line 51) says such a run only verifies.
- After a crash between a worker's projection and its enqueue of the evaluation, a
  repeated run finds the tick applied and does not enqueue; the price tick cutover
  runbook (line 13) says the worker repeats it. `AppliedTickIsEvaluated` holds without
  such a fault.
- An expired lock row with a live owner may also be one whose release failed: the run
  is over, the thread lives on in the pool, and the lock stays taken until the process
  ends. The execution lock runbook (line 62) knows only the late heartbeat.
- The resolution's fingerprint covers the order, not its ledger: a RESOLVE prepared before
  another operator's REVOKE is still accepted. The fence stays closed all the same, since
  a release is bound to the resolution it was given for and needs a new approval.
- A failure mark that comes after another batch has applied the event sets its row back
  to PENDING, and the event is applied again, by handlers that are only partly
  idempotent (`docs/structural_audit_2026-07-07.md:455` expects one application).
- Inline, a failure below the retry limit is answered 200; with the worker disabled (the
  default) the row stays PENDING and blocks every later event. At the limit the request
  is answered with an error, and the gateway repeats it until an operator resets the row.
- A tick that is applied after `refresh_candidate_context` and before the evaluation is judged
  by the candidate's state, tick age and readiness from before it (`strategy_engine.py:132-136`,
  223-225, 1164-1202), and `incremental_evaluation.py:506` deletes the row it has queued. The
  backfill (1105-1110) compares the time of the evaluation with the tick's and does not find it:
  a candidate that was DATA_WAIT at the refresh stays so until its next tick or the next
  full cycle. `NoTickForgotten` shows that this window is the only one and that the price
  was read; the queue's runbook (lines 5-6) only says that an applied tick is evaluated incrementally.
- While command events keep arriving, `_select_batch_fast_group_locked`
  (`core_io_worker.py:337-342`) goes on choosing their group; ticks and conditions wait, and may
  be dropped at the buffer limit.
- While the route has not decided, a worker run may close the job of a tick behind a newer one
  as SKIPPED, and the tick is then not applied by the worker. `SettledJobLeavesTrace` admits it.
- `NeverSellsMoreThanHeld` has two premises. One is that no two runners have got an exit command
  for one position, see `doc_close_only`.
- The other is that no SELL fill has found too few shares. No gateway names a
  position in an execution, so `_apply_sell_fill` takes a SELL fill from the earliest
  position. When a second position is opened while the first is being closed, the fill of the
  second exit may be taken from the first position; the fill of the first exit then does not
  fit, the position becomes RECONCILE_MISMATCH, and its exit counts as closed with the shares
  still in. A later BUY makes the position OPEN again, and its next exit may sell more than the
  account has, against `docs/live_sim_execution_lifecycle_ko.md:76` (SELL is close-only). It
  takes partial fills, which the mock gateway does not send. The proof attempt without the
  premise led to it, and TLC reaches it with a BUY of four shares and three exits.
- A failed SELL, or a signal whose runner ended, leaves a position that no later exit
  takes up. Events of an exit command that arrive before its order row are dropped.
- A cancel that was prepared before the order was filled sets FILLED back to
  CANCEL_REQUESTED; the order then counts as active for ever. CANCEL_REJECTED is
  terminal although the order is open at the broker, and the unique key forbids
  another cancel. The position limit counts FILLED BUY orders of closed positions.
- Kiwoom's `SendOrder` returns no order number, so that the cancel after the time to live
  never finds an eligible order unless a chejan brought one.
- The check for a dead letter and the INSERT into the evaluation queue are not one
  transaction, so a candidate may be queued beside an OPEN dead letter (the queue's
  runbook excludes it), also by revoking a RESET_CANARY while it is queued. When that row
  fails for good, `_move_queue_row_to_dead_letter` raises, the row stays, and every batch
  aborts there: the `Stuck` of `QueueDrains`.
- The pending registry links a chejan by (account, code, side): the callback of an order
  that was never registered goes to another order with that signature, and a complete
  fill drops the whole list of its signature.

## 4. What is proved

For all constants that satisfy the `ASSUME`s (any finite set of commands, any keys
and bounds; any ticks, timestamps, workers and bounds; any threads and processes; any
orders and operators; any events and batches; any event types, buffer and batch sizes; any
LIVE_SIM orders, runners and limits; any candidates and enqueuers).

| Theorem | States |
|---|---|
| `GatewayOrdersProofs!TypeCorrect` | `Spec => []TypeOK` |
| `GatewayOrdersProofs!BoundaryMonotone` | `Spec => BoundaryNeverRegresses` |
| `GatewayOrdersProofs!AtMostOnce` | `Spec => []AtMostOneCallPerKey` |
| `GatewayOrdersProofs!PreAckFirst` | `Spec => []CallOnlyAfterDurablePreAck` |
| `GatewayOrdersProofs!ClaimIsSingle` | `Spec => []SingleClaim` |
| `GatewayOrdersProofs!RowsComplete` | `Spec => []BoundaryRowsComplete` |
| `GatewayOrdersProofs!AcceptedStaysVisible` | `Spec => []AcceptedOrderStaysVisible` |
| `CoreIoWorkerProofs!TypeCorrect` | `Spec => []TypeOK` |
| `CoreIoWorkerProofs!ProtectedKept` | `Spec => []ProtectedNeverLost` |
| `CoreIoWorkerProofs!CommandsInOrder` | `Spec => []CriticalInOrder` |
| `CoreIoWorkerProofs!NewestKept` | `Spec => []NewestSurvives` |
| `ProjectionOutboxProofs!TypeCorrect` | `Spec => []TypeOK` |
| `ProjectionOutboxProofs!CountedOnce` | `Spec => []VolumeCountedOnce` |
| `ProjectionOutboxProofs!NewestIsLatest` | `Spec => []LatestIsNewest` |
| `ProjectionOutboxProofs!AnsweredHasJob` | `Spec => []AnsweredEventHasJob` |
| `ProjectionOutboxProofs!SettledStays` | `Spec => SettledJobStays` |
| `ProjectionOutboxProofs!SettledLeavesTrace` | `Spec => []SettledJobLeavesTrace` |
| `ProjectionOutboxProofs!AppliedIsEvaluated` | `Spec => []AppliedTickIsEvaluated` |
| `EvaluationRunGuardProofs!GuardIsFenced` | `Spec => Fenced`: the guard implements `FencedLock` |
| `EvaluationRunGuardProofs!GuardWritesInOrder` | `Spec => WritesInTokenOrder` |
| `EvaluationRunGuardProofs!LiveRunHasLock` | `Spec => []RunHasLock` |
| `EvaluationRunGuardProofs!GuardDeletesFenced` | `Spec => DeletesAreFenced` |
| `EvaluationRunGuardProofs!LostIsGone` | `Spec => []LostLeaseIsGone` |
| `EvaluationRunGuardProofs!GuardTypeCorrect` | `Spec => []TypeOK` |
| `BoundaryResolutionProofs!ResolutionTypeCorrect` | `Spec => []TypeOK` |
| `BoundaryResolutionProofs!LedgersStayValid` | `Spec => []LedgersValid` |
| `BoundaryResolutionProofs!NoClaimInDoubt` | `Spec => ClaimOnlyWithoutDoubt` |
| `BoundaryResolutionProofs!ReleasesNeverRevive` | `Spec => ReleaseNeverRevives` |
| `LifecycleInboxProofs!InboxTypeCorrect` | `Spec => []TypeOK` |
| `LifecycleInboxProofs!AnsweredEventsAreInInbox` | `Spec => []AnsweredEventInInbox` |
| `LifecycleInboxProofs!EventsAreAppliedOnce` | `Spec => []AppliedOnce` |
| `LifecycleInboxProofs!EventsAreAppliedInOrder` | `Spec => RowidOrder` |
| `LifecycleInboxProofs!InlineAnswersAreApplied` | `Spec => []InlineAnswerIsApplied` |
| `LiveSimProofs!RowsAreTyped` | `Spec => []TypeOK` |
| `LiveSimProofs!LiveIsCounted` | `Spec => []LiveOrdersCounted` |
| `LiveSimProofs!LimitIsKept` | `Spec => []ActiveLimitHolds` |
| `LiveSimProofs!BooksMatch` | `Spec => []BooksMatchBroker`, with the mock gateway's feed |
| `LiveSimProofs!ExitsOnlyClose` | `Spec => []NeverSellsMoreThanHeld`, with the mock gateway's feed |
| `IncrementalEvaluationProofs!TypeCorrect` | `Spec => []TypeOK` |
| `IncrementalEvaluationProofs!NothingForgotten` | `Spec => []NoTickForgotten` |

**At most once.** `AtMostOneCallPerKey` is not inductive: whether the next call is the
first depends on everything still on its way. The inductive invariant is

    IInv == TypeOK /\ SingleClaim /\ RowBeforeAnyTrace /\ OneRowPerKey /\ PreAckBeforeCall

`SingleClaim` treats the right to call the broker as a token: it is in the queue, in
a poll answer, in the inbox, with the handler, or in a `rate_limited` event that
Core has not recorded yet, and after the call nowhere. The last place is the
subtle one: a requeue hands the token back, and the deduplication of events makes
sure it does so once. `RowBeforeAnyTrace` says that whatever is on its way about a
command, its boundary row exists, so no event creates a row; with the unique index
at the claim this gives `OneRowPerKey`, and one key has one token.
`PreAckBeforeCall` carries the committed pre-ack from its answer to the call. Most
steps only pass events on; `QuietStep` treats them together.

**Monotone boundary.** `ResolveStateMonotone` and `UpsertBoundaryMonotone` show that
`_resolve_state` never lowers the rank and that the upsert keeps timestamps; every write of
a row is an upsert.

**Visible orders.** `AcceptedOrderStaysVisible` compares the broker with Core. Beside `IInv`
it needs

    VInv == AttemptHasRow /\ PreAckRanks /\ ProgressHasPreAck /\ UnsentIsClean
            /\ AcceptedWasCalled /\ FailedIsOver /\ SentIsVisible

`PreAckRanks` and `ProgressHasPreAck` tie the committed pre-ack to the row's rank, so that no
late event makes the effective status of a pre-acked order that of an unsent one;
`FailedIsOver` says that a failure still to be recorded is of an order the broker does not
have, and `UnsentIsClean` that a command which was not sent has no pre-ack, recorded or on its way.
`RowStep` reduces the whole next-state relation to five ways in which a command's rows
move. `BoundaryRowsComplete` follows from `AttemptHasRow`, `ProgressHasPreAck` and `OneRowPerKey`.

**Event buffer.**

    Inv == TypeOK /\ Numbered /\ DequeInOrder /\ CoreOrdered /\ RequestsInOrder
           /\ PostedIsCommitted /\ ProtectedNeverLost /\ NewestSurvives

The order of the command events is the hard one: requests that the worker gave up on are
committed beside the one that repeats them. The deque holds command events in the order
of their numbers (`Sorted`), because each is inserted behind the last one. `BatchIsWellChosen`
shows that the four passes of `_select_event_batch_locked` put every older queued command event in
front of a selected one; since `ProtectedNeverLost` says that whatever is no longer queued is
with Core, a new request is `Ready`: every older command event is in front of it in the
request or committed. `Ready` survives every commit of any request and every new event, so each
commit appends a command event younger than all committed ones (`CommitProperties`), and
what Core holds is always an initial segment of the command events (`Closed`).
`PostedIsCommitted` makes the removal after the answer safe. What `Keep` returns is
proved by induction on a prefix, with the least counterexample of a set of numbers
(`WFMin`), since the library's induction theorems on predicates are out of reach.

**Market tables.** The tables change in `process_gateway_event` only, so `Good(market)`
(well formed, counted at most once and with a sample, latest is newest) is inductive
by one lemma about `ProcessPriceTick`, whoever calls it and whatever was checked
before: the primary key inside the transaction carries the argument, not the check.

**Outbox jobs.** `JobInv` says that a request past its enqueue has a job, that jobs are
of stored events, and that only a PROCESSING job has an owner; the last makes the owner
check of a mark also a check that the job is not settled, which is `SettledJobStays`.
`TraceInv` carries a run's verdict from its verification to its mark: the tables only grow,
so what was true of a tick stays true while others write. `AppliedTickIsEvaluated` needs that
the projection which finds a tick absent is the only one that goes on to apply it.

**Run guard.** A step that writes must find the lock its run was granted. `Fence` checks
it, but the write is committed later, so the invariant carries it across:
`TxnHasRow` (from the check to the commit the run has the row, because whoever changes
the owner must be the writer), `RowIsLast` (the row has the last token), `BeatOwner` and
`DownIsDead` (heartbeats mark only leases that are gone; threads end with their
process). With these, `Commit` is a `Write` of `FencedLock`, `Acquire` a `Grant`, a release or
a cleanup `Free`, and everything else a stutter. `RunHasLock` is inductive beside them, for
the processes in `Trusted`: a row that may be taken or cleared is not that of a run under way.

**Resolution.** The inductive invariant is

    IInv == TypeOK /\ LedgerTypes /\ LedgersValid /\ BrokerTold /\ StaysKnown /\ NoEvidence /\ FenceIsPast

`LedgersValid` follows from the appends, which check the head inside their transaction.
`ClaimOnlyWithoutDoubt` is the hard one: an operator may resolve an order whose gateway
wakes up afterwards. `BrokerTold` says that an order at the broker left its pre-ack in Core
first, and `StaysKnown` that no event returns it to a state before its doubt, so a
resolution made earlier is no longer effective and `Blocks` is true again. `NoEvidence`
says what an order without any trace looks like. `FenceIsPast` says of every fence entry
that its day and its resolution are not in the future, and that its fingerprint is the
present one or can never come back; so a release that is invalid once stays so.

**Inbox.**

    IInv == TypeOK /\ RequestHolds /\ BatchesHold /\ Arrived /\ AnsweredEventInInbox /\ Once /\ Ordered

`RequestHolds` and `BatchesHold` say that the request and the batches hold rows that exist,
whatever a stale reset took away; `Arrived` that nothing is known of an event that was not
sent yet; `Once` ties the number of applications to the row (none, or one and APPLIED,
unless reopened); `Ordered` that an event which was applied, claimed, or routed inline has
no unresolved row before it, reopened ones aside. The transactions that apply an event look
at its row again inside, which is what the steps rest on. `InlineAnswerIsApplied` is about
one configuration (`inline` without a worker); there `AInv` adds that no batch runs, that only
events before the head are answered, and that whatever is not applied waits for a held event
at or before it.

**LIVE_SIM.** The order status is written by runners from what they read earlier, by the
sweep and by the events. `Inv` has the shape of the rows and what connects them to the
broker: `EventsAreTrue` (a failure, or a fill with nothing left, means that nothing is open at
the broker), `CommandsFirst` (nothing open before its command was taken, no cancel before its
order), `RunnersHold` and `RunnersApart` (what a runner has read still holds of the row it will
write, and no two runners write one row). With these `LiveOrdersCounted` is inductive, and
`ActiveLimitHolds` follows because the count inside the queue transaction covers every BUY that
may be filled.

`BooksMatchBroker` is about a state in which every execution has been handled; on the way the
two sides differ by what is still in the feed. `Conserved` is the balance at every step:

    PositionQuantity + Total(ToAdd) = held + Total(ToTake)

`ToAdd` are the BUY fills Core has not booked, `ToTake` the SELL fills it has not booked or could
only record as errors. `Keyed` says that an execution is known by its order and number, so a
repeated report is the same element of these sets and is booked once, and that a BUY has its row
before the broker can fill it, so only SELL fills find no order. Kiwoom's feed is excluded: it
books an acceptance as a fill (`doc_phantom_fill`).

`NeverSellsMoreThanHeld` needs to know where the shares are. `Reserved` are the positions with an
exit command, and

    Covered == Owing + Total(ToTake) <= SharesOf(pos, Reserved)

says that they hold what these commands may still sell and what is sold but not booked. With
`Conserved` this bounds what may be sold by what is held. It is kept because a SELL fill is
taken from a reserved position, a BUY fill only ever goes to the last one, and whatever has an exit command is
CLOSING or CLOSED (`InLine`). The invariant is

    Safe == RunnersAhead /\ (NoShortFill /\ OneExitEach => Covered /\ InLine)

for any number of runners: `RunnersAhead` says that a runner's exit is of the position it has
in hand. A second exit command of one position, or a SELL fill that does not fit, ends the
argument as it ends the property, for good (`TwiceStays`, `ShortStays`). The sums are over
functions on finite sets; their laws are proved by induction on subsets, with a set of subsets in the place of a predicate and its least member (`LeastNat`),
since the library's induction theorems on predicates are out of reach.

**Evaluation queue.** `NoTickForgotten` is not inductive: a dead letter may stop blocking its
candidate by a disposition. `ForgottenIsOpen` is the stronger form: the newest dead letter of an
active candidate with an unread tick and no row is OPEN. An OPEN dead letter of an active
candidate leaves that state only by a RESET_CANARY, which queues the candidate, and older ones
do not matter. The unconditional DELETE takes the row of whatever tick has come since the refresh;
`ReadOrSlipped` says that a worker past its refresh has read the latest tick or that one has
slipped in, so that the evaluation leaves behind the one case the property names and no
other. With `OneRowEach` the DELETE leaves the rows of others alone.

Only model-checked: the liveness properties (`AcceptedOrderSurfaces`, `QueuedEventLeaves`,
`DeadOwnersRowGoes`, `InboxSettles`, `QueueDrains`), which are outside the prover's reach. Every
invariant and action property of a passing run is stated by a theorem.

## 5. Not modelled

See `components` in `PROJECT.json`. Within the modelled parts: non-order commands; the
pending registry's matching by signature and the dead-man cancel; `CoreIoWorker`'s
single-event fallback, events that Core rejects as invalid, `stop()`; the other
projections, watermarks and retryable outbox errors; RESET_BATCH, the sweep of rows over
a lowered retry limit and the recovery lineage of dead letters; prices, fees, sessions
and daily limits of LIVE_SIM, and the normalisation of broker snapshots. Most of the
repository's lines are outside any protocol: configuration, tools and one-off operator
campaigns, scoring, dashboards, reports and AI texts. They have no state that two
actors, a crash or a late message could disturb, and a model of them would only repeat
their formulas.

## 6. Plan

Done: `OrderBoundary`, `GatewayOrders`, `CoreIoWorker`, `ProjectionOutbox`, `EvaluationRunGuard`
and `FencedLock`, `BoundaryResolution`, `LifecycleInbox`, `LiveSim`, `IncrementalEvaluation`.

Next modules: the pending order registry with the dead-man cancel, feeding `GatewayOrders`;
the candidate state machine; dry-run OMS and exits; realtime subscription slots;
watermarks and reconcile; the automatic canary's budgets.

Theorems: an abstract order life cycle (unsent, maybe at the broker, known) and the proof that
`GatewayOrders` implements it.
