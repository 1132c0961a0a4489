# Ledgerlens-data: TLA+ verification project

Ledgerlens reads trades of the Stellar network, computes per-wallet features,
scores wallets for wash-trading risk and raises alerts.  The statistics are in
floating point and trained models; what can go wrong around the statistics is
delivery: a trade that is passed over or never scored, an alert that is never
sent or sent twice, a key or a cursor that says "done" for work that is not, a
client that silently misses updates, a pause that is not noticed.  These modules
model that part of the code, check it with TLC on small instances and prove its
main guarantees with TLAPS for every instance.

Paths below are relative to the repository root (`src/` in `PROJECT.json`).

## 1. Inventory

| Component | State | Operations | Hard behaviour | What makes it correct |
|---|---|---|---|---|
| Horizon streamer `ingestion/horizon_streamer.py` | locals of the generator, node verdicts | `stream_trades`, `_backfill_pruned_range`, reconnects, health loop | a crash between a trade and its commit, pruned history, failover, a verdict that is late | no saved position ahead of the work, order, nothing passed over that could be known |
| Cursor store `streaming/cursor_store.py` | cursor in memory and on disk | `get_cursor`, `save_cursor`, `delete_cursor` | failed writes, restart | as above |
| Watermark tracker `ingestion/watermark_tracker.py` | watermark, update counter, lock | `advance`, `flush`, `reset`, `summary` | periodic writes, disagreement with the cursor, its own lock | as above |
| Kafka worker `streaming/kafka_worker.py` | poll position, `_in_flight`, pause set, retry counts, shutdown flag | `run`, `process_message`, `check_and_apply`, `record_failure`, `request_shutdown`, drain timeout, `close` | crash between its two commits, rebalance under a working member, exceptions that the loop survives, back-pressure | no committed offset covers an unprocessed trade; `COMMITTED` means done; offsets never go back; a pause ends |
| Exactly-once store `pipeline/exactly_once.py` | one entry per key (Redis value or SQL row) | `check_and_stage`, `commit`, `mark_failed`, `get` on two backends | several commands per operation, conflicting inserts, retries of writes that were kept, expiry | each operation is atomic; one caller is told NEW; COMMITTED only after a commit |
| Trade dedup `ingestion/trade_deduplicator.py` | window of canonical keys (cross-source) | `is_duplicate`, `cache_trade`, `clear_cache`, `accept` | two callers on one event, window against source lag | one caller told new (see O1), none re-admitted in the window |
| Alert dispatcher `streaming/alert_dispatcher.py` | `_cooldowns` (memory) | `dispatch`, `_deliver_*`, `reconcile_on_startup` | crash or exception around the external call, several processes | every qualifying score accounted for, write-ahead intent, cooldown spacing, no silent suppression, open intents owned |
| Alert ledger `streaming/alert_ledger.py` | rows of outcomes | `record`, `is_delivered`, `in_flight` | check and insert are separate transactions | as above |
| WebSocket server, router `streaming/ws_server.py`, `pubsub_router.py` | registered clients, subscriptions, per-client queues, replay buffers, one lock | connect, subscribe, publish, send, disconnect, cleanup | two connections of one client id, full queues, a lock held across an await | nothing vanishes between publish and send, no leak, losses can be replayed, the loop never stops |
| Soroban listeners `integrations/soroban_event_listener.py` | ledger cursor, watermark row, stored events, pause flag | poll, confirm, save, dispatch, store, stale alert | reorganised ledgers, cut-off pages, raising handlers, two listeners on one database | acts on final events only, the cursor hides nothing, the pause flag follows the chain |
| In-process pipeline `streaming/pipeline.py`, `streaming_scorer.py`, `account_metadata_stream.py` | queues, temporal join buffer | producer and consumer threads, stop | shutdown with items queued, late metadata | each trade scored once, join timeout honoured |
| Exactly-once audit `pipeline/exactly_once_audit.py` | none | probes of both stores | - | - |
| Checkpoints, recovery `pipeline/idempotency.py`, `pipeline/recovery.py` | checkpoint rows per run, pair and stage; run registry | `is_done`, `mark_done`, stage wrapper, `resume` | interruption inside a stage, re-run of a part | a stage marked done has run to its end |
| Feature buffer `streaming/feature_buffer.py` | LRU order of wallets, per wallet a lock, a window (deque), an index of trade ids and Benford sketches | `update`, `get_feature_row`, `_ensure_wallet`, `_evict_lru` | a lock that is looked up under one lock and taken under another, eviction in between, window and index at their limit | an update takes effect once and as a whole; bounded memory; only the LRU wallet goes |
| Feature store `streaming/feature_store*.py` | snapshots in Redis | publish, read | reader between two writes | a reader sees one version |
| Circuit breaker `utils/circuit_breaker.py` | state, failure count, opened-at | `call`, state transitions | probes racing in HALF_OPEN | bounded probes, recovers |
| Job ledger `utils/idempotency.py`, `utils/checkpoint*.py` | lease rows | claim, heartbeat, complete, take over | a late finisher after its lease was taken | one effective completion |
| WebSocket authentication, abuse detection `streaming/ws_auth.py`, `ws_abuse_detector.py` | reputation | verify, record, block | decay, blocking while connected | blocked clients are closed |
| Alert routing `alerts/router.py`, `alerts/deduplicator.py`, `alerts/consensus_escalator.py` | dedup windows, votes | route, deduplicate, escalate | concurrent identical alerts | one delivery per window |
| Rate limiter, executor `ingestion/rate_limiter.py`, `parallel_executor.py`, `batch_processor.py` | tokens, worker pool | acquire, submit, collect | bucket at its limit | never above the rate, no starvation |
| Federated learning `detection/federated/*` | round, submissions, masks | open, submit, aggregate, drop out | dropout between mask exchange and upload | aggregate over the survivors only |
| Active learning `detection/active_learning/*` | annotation queue | enqueue, claim, label | two annotators | one claim per item |
| Model governance `detection/model_governance.py` | stage of each model version | propose, canary, promote, roll back | roll-back racing promotion | one live model |
| Contract client, bridge `integrations/contract_client.py` and others | pending transactions | submit, retry | resubmission of a landed transaction | submitted once |
| Incident response, watchdog `monitoring/*` | incidents, triggers | open, step, close | concurrent triggers | one response per incident |
| Migrations, retention `migrations/runner.py`, `data/retention.py` | applied set, lock | apply, purge | failure half-way | re-run is safe |
| Detection, features, scoring `detection/*` | trained models | numeric | - | out of reach (floating point) |
| Precision, importers, API, CLI, reporting | none or I/O | conversions, I/O | - | out of reach or stateless |

How they interact.  There are two ways in.  In one process, `StreamingPipeline`
runs a thread per pair over `stream_trades`, which resumes from the cursor store or
the watermark tracker, hands a trade to the loop and commits the two positions when
the loop comes back for the next one.  At scale, Kafka (external) delivers trade
messages to `KafkaWorker`, which stages the trade's key in the Redis backend of the
exactly-once store, folds the trade into the feature buffer, scores both wallets,
calls `AlertDispatcher.dispatch` for each, commits the key and then the offset.
`AlertDispatcher` records intents and outcomes in `AlertDeliveryLedger`, whose rows
are keys of the SQL backend of the same store.  An exception in dispatch travels
back through the worker: the message is left uncommitted.  Scores go out through
the WebSocket server to subscribed clients; what contracts on the chain do with
them comes back through the Soroban listeners, which set the pause flag, run
handlers and dispatch stale-score alerts.

The hazards, each with its line and the properties that cover it, are listed in
`PROJECT.json`; a note says which part of a hazard no property covers, and why.

## 2. Modules

| Module | Models |
|---|---|
| `HorizonStream` | one pair's consumer loop, `stream_trades`, the endpoint pool, the cursor stores and the watermark tracker, with Horizon nodes as environment |
| `SequentialConsumer` | abstract: what the consumer group promises of the log, without workers, owners, positions and crashes |
| `KafkaWorker` | the consumer group of `streaming/kafka_worker.py` with the broker, the dedup keys and the container as environment, and the mapping to `SequentialConsumer` |
| `WalletWindows` | abstract: what the feature buffer promises its callers, without threads and locks |
| `FeatureBuffer` | `FeatureBuffer` with several threads, and the mapping to `WalletWindows` |
| `DedupRegister` | abstract: what a dedup backend promises for one key, each operation in one step |
| `DedupCallers` | the entry, the callers and what they do with an answer; shared by the two backends |
| `RedisDedup` | `RedisExactlyOnceBackend`, command by command |
| `SqlDedup` | `SqlExactlyOnceBackend`, statement by statement |
| `ExactlyOnceStore` | the facade: one of the two backends behind one set of callers, and the refinement mapping to `DedupRegister` |
| `AlertDispatcher` | `AlertDispatcher` and `AlertDeliveryLedger` with several calls and processes |
| `WsServer` | the WebSocket server's registry, queues, replay buffers and lock, with the router |
| `SorobanListeners` | the governance and the score-oracle listener over a chain that grows and reorganises |
| `HorizonStreamProofs`, `KafkaWorkerProofs`, `KafkaConsumerProofs`, `FeatureBufferProofs`, `ExactlyOnceStoreProofs`, `AlertDispatcherProofs`, `WsServerProofs`, `SorobanListenersProofs` | their theorems |
| `MCHorizonStream`, `MCKafkaWorker`, `MCFeatureBuffer`, `MCExactlyOnceStore`, `MCAlertDispatcher`, `MCWsServer`, `MCSorobanListeners` | instances for TLC |

Definitions called "faulty variant" are deliberate bugs used to check that a
property can fail; nothing in the specifications uses them.

### HorizonStream

Trades are numbered in ledger order and the number is the paging token.  `pc` is
where the consumer thread is: between calls of the generator (`idle`), inside the
backfill, opening a stream, waiting on it, in the body of the loop with a trade
(`yielded`), or between the two writes of a commit (`save`, `advance`).

| Code | Model |
|---|---|
| process start, `FileCursorStore._load`, loading the watermarks | `Start` |
| start of `stream_trades`: cursor or watermark, oldest trade of the node | `Begin`, `BeginTracked` |
| `_backfill_pruned_range` | `BackfillNext`, `BackfillDone`, `BackfillFails` |
| opening a stream, a record, a malformed record, a lost connection | `Connect`, `Yield`, `RejectRecord`, `Disconnect` (gives up after `MaxAttempts`) |
| body of `_stream_pair` | `Process`, `ProcessRaises` |
| `_commit`: cursor store, then watermark | `SaveCursor`, `SaveCursorFails` (logged), `SaveCursorRaises` (taken for a lost connection); `Advance`, `AdvanceFails` |
| health loop: the answer of a probe, and what is made of it later | `ProbeStart`, `ProbeEnd` |
| `flush`, `reset`, `summary`, `delete_cursor` | `Flush`, `ResetWatermark`, `Summarise`, `DeleteCursor` |
| Horizon nodes and the ledger, the operating system (external) | `Publish`, `Prune`, `Die`, `Crash` |

`fate[t]` records whether a trade was processed or passed over by a stream that was
opened beyond it; `probed` records which nodes were known to reach back far enough.

### KafkaWorker

One message takes the steps another process can see between: poll and decode,
`SET NX`, `GET` if the key was taken, the base wallet, the counter wallet, `SET
COMMITTED`, offset commit.  `pc[w]` is the next of these.

| Code | Model |
|---|---|
| `run` poll, dead-letter topic, decode failure, valid trade | `PollDeadLetter`, `PollPoison`, `PollTrade`; `PollNothing` for an empty poll |
| `check_and_stage` | `Stage`, `Get` |
| `FeatureBuffer` fold, scoring and dispatch of one wallet | `ProcessLeg` (the trade enters `buffer`; `handled` records the wallet) |
| key commit, offset commit | `CommitKey`; `AckTrade`, `AckSkipped` (poison, duplicate), `AckDeadLetter` |
| exceptions: Redis outage, dispatch, key commit, offset commit, fenced commit | `StageFails`, `LegRaises`, `CommitKeyFails`, `AckRaises`, `AckFenced` - the loop polls on |
| `_in_flight`, `check_and_apply`, `record_failure` | `inFlight`, `CheckAndApply`, `RecordFailure`, called where the code calls them |
| SIGTERM, `stop`, drain timeout, `close` | `RequestShutdown`, `DrainTimeout`, `Close` |
| group coordinator, process and container, key TTL (external) | `Assign`, `Revoke`, `PollIntervalExceeded`, `Crash`, `Restart`, `ExpireKey` |

The consumer's position `pos` moves on poll, and only `Assign` sets it back to
the committed offset; this is what an exception in `process_message` runs into.
`faults[k]` counts the faults of each kind, both to bound them and so that a
guarantee can name the faults it does not survive.  Scores, prices, tracing,
metrics and the lag gauge are left out.

`SequentialConsumer` is the group seen from outside: the offsets, the wallets that
were processed and the trades known to be done.  `Mode` says how much of the order
survives.  A run is `ordered` until a message is skipped (`dispatch`, `dedup`), an
offset commit fails or a member is fenced (`offset`, `rebalance`): crashes, drain
timeouts, shutdowns and key expiry do not disturb it, and then each partition is read
like one sequential reader would.  `Progress(p)` is how far the owner of `p` is with
the first unacknowledged message.  A `lossless` run may work on any trade, but
acknowledges only what is settled; after a skipped message the run is `lossy`.

### FeatureBuffer

The lock, window, index and sketches of a wallet are made together and dropped
together: an entry.  Window and sketches are always looked up in the registry, but a
thread keeps the lock and the index it was given, so entries have identities
(`Entries`, reused once nobody refers to them), and each lookup is a step of its own.

| Code | Model |
|---|---|
| `update(trade)`: the wallets of both accounts, `get_feature_row(wallet)` | `Update`, `GetFeatureRow`; `NextWallet` goes on, `Raise` is a `KeyError` |
| `_ensure_wallet`, under `_registry_lock` | `EnsureTracked` (`move_to_end`), `EnsureNew`, `EnsureByEviction` (with `_evict_lru`) |
| `with lock:` | `Acquire` |
| `_seen_trade_ids.get(wallet)` and the test for the trade | `CheckSkips` (evicted or seen), `CheckNew` |
| `buf[0]` dropped from the index, `append`, the id added | `AppendTrade` (`AppendRecord`) |
| the wallet's and the pair's Benford sketches | `Count`; a trade stands for its digit |
| `_buffers[wallet]`, `_benford_sketches[wallet]` of an evicted wallet | `KeyError` |
| reading the row | `ReadRow` |

`torn` is a history variable: the wallets that were evicted while a thread had their
lock or waited for it.  The code gives up on these (`continue`, `None`, or a
`KeyError`), and nothing is promised of them until they are evicted again.  What
`_ensure_wallet` does is one step although `update` looks into the dictionaries
without the registry lock: the only threads that can see them half-changed are those
at work on the wallet that is evicted or has come back, which is torn.
`wallet_trade_count`, `all_wallets`, `stats` and `buffer_stats.py` only read.

`WalletWindows` has no threads: an update appends to the window and counts in the
sketches at once, and only if the window does not hold the trade; a new wallet drives
out the least recently used one with all its state.  In the mapping a trade that is
appended and about to be counted (`Counting`) is counted already.

### Exactly-once store

`entry` is the stored value of one key: absent, staged, committed, committed
past its TTL (`stale`, SQL only) or failed (SQL only; Redis deletes the key).
`seen[c]` is what caller `c`'s session read: SQLAlchemy writes only the columns
that differ from it, which `OverwriteRow` and `FailRow` depend on.  A command that
raised may have been executed (`StageLost`, `RetryStaged`, `RetrySaved`,
`RetryFailed`).  `_with_retry` may repeat an operation without bound in the model
(five times in the code): the fifth failure is `Crash`, which may come at any time,
so the model has more behaviours, never fewer.  Callers follow the protocol of
the `ExactlyOnceStore` docstring, and may call `commit` without a check, as
the alert ledger and `cache_trade` do.  Whether they use `mark_failed` and which
backend is used is chosen in `Init`.

The refinement: a failed or absent entry is a free register, a commit of any
age a committed one.  The register is exclusive (only a free key is claimed)
except on SQL with `mark_failed`.

### AlertDispatcher

A request is one call of `dispatch`.  Under the lock it is suppressed (with its
ledger row) or starts the cooldown; outside the lock follow the ledger check, the
intent row, the external call and the outcome row, each a step.  The webhook
channel retries on 5xx and network errors and dead-letters at the end; stdout
and websocket do not retry.  A failed call may have reached the receiver.

Any call of the ledger may raise, on every channel: `_with_retry` re-raises the fifth
`OperationalError` (`exactly_once.py:371-377`) and nothing in `dispatch` catches it
(`LedgerRaises`, `SuppressRaises`; `ReconcileRaises` at startup, which ends the
process).  So may `ws_client.send` or `print` (`SendRaises`).  The row or the send may
have taken effect, and the cooldown of line 98 goes on.  `raises` is a history variable:
the alerts whose call left `dispatch` that way.  The deployment - which processes share the
ledger (`Deployments`), the channel, `RISK_SCORE_FLAG_THRESHOLD` (`Thresholds`) and
whether the entry points call `reconcile_on_startup` - is chosen in `Init`.  A call
cut short by a crash is made again (`Crash` itself), as the worker does with the
message it did not commit; one that raised may be (`Redeliver`), since the worker's
loop may also pass it over (F1).  The score stands for the whole risk-score
record and the asset pair is fixed.

### WsServer

One event loop runs every coroutine, so a step is what one coroutine does between
two awaits that may suspend it.  `_clients_lock` is a `threading.Lock`: `Locked(step)`
is the step if nobody holds the lock, and else the end of the loop (`frozen`).

| Code | Model |
|---|---|
| `_handler`: registration, refusal at capacity, the close awaited under the lock | `Connect`, `RefusalCloses` |
| anything that closes a socket: the peer, heartbeat, expired token, abuse block, slow-consumer close | `SocketCloses` |
| the `finally` block: `PubSubRouter.disconnect`, then the entry in `_clients` | `Cleanup` (`Unsubscribed`, `Forget`); `Ended` says when a task of the connection ends |
| `_process_inbound`: subscribe, unsubscribe | `Subscribe`, `Unsubscribe` |
| `_process_outbound` with its token bucket | `Send`, `RateLimited` |
| `publish_score_update`, `_enqueue_for_client`, `_disconnect_slow_consumer` | `Publish`: `Offered` (channel by channel, `Offer` with both policies), `Deliver`, `Stored` |

All events are for one wallet and one pair, so there are three channels and an
event is its sequence number.  `due[c]` records what connection `c` was to get and
has not got, `lost[c]` what was evicted from its queue or replaced by a
`rate_limit` error.  A replay request only reads.

### SorobanListeners

An event is `<<ledger, index, kind>>`.  The chain grows at any time, also between
the two calls of a poll (page of events, then tip), and its last `ReorgDepth`
ledgers may be replaced.  The deployment chosen in `Init` is a governance listener,
with or without a `db_url`, or oracle listeners sharing a database.

| Code | Model |
|---|---|
| `__init__`, `_load_start_ledger` | `Start` |
| `_fetch_events` / `_fetch_raw_events`: `getEvents` with its page limit | `Fetch` |
| tip unknown, nothing confirmed | `TipUnknown`, `NothingReady` |
| governance: the cursor is saved, then the batch dispatched | `SaveStart`, `SaveStartFails`; `Dispatch`, `Dispatched`, `HandlerRaises`, `DispatchRaises` (a malformed event) |
| oracle: store, stale check, watermark | `TakeBatch`, `Persist`, `Alert`, `BatchFails`, `ParseRaises` (a malformed event), `Handled`, `Advance` |
| Stellar, the RPC server, the operating system (external) | `Close`, `Reorg`, `From`, `Page`, `CutOff`, `Crash` |

A `malformed` event is one whose topics or values the code reads without a check: on
the governance side it raises before the flag is set (lines 948, 959), on the oracle side
in the parser (461-472).  A malformed pause is such an event, not a pause.  The ledger
number, which `split_confirmed` reads, is taken to be well formed.
The RPC server is taken to accept any `startLedger` and to keep every event.
`ListenerAssumption` says that `ReorgDepth + Drift <= Depth`: a reorganisation and
the ledgers that close between the two calls of a poll stay within the
confirmation depth.  The tip is read after the page, so the weaker assumption
`ReorgDepth <= Depth` is not enough.

## 3. Runs

| Run | Instance | Shows |
|---|---|---|
| `horizon` | 2 nodes, 3 trades, each cursor store, with and without a tracker that writes every second update, the second record valid or malformed, 2 connection attempts, 2 faults; 725 thousand states | `TypeOK`; `PositionsCoverProcessed`; `PassedOverOnlyIfUnsaved`; `DeliveredInOrder`; `CatchesUp` under fairness |
| `kafka_safety` | 2 workers; p1 = t1, poison, t1 again; p2 the dead-letter topic; HWM 2, LWM 1, 1 retry; any 2 faults of all 7 kinds; 236 thousand states | `TypeOK`; `NoLossWithoutSkipping`; `CommittedMeansHandled`; `OffsetNeverMovesBack`; `DeadLetterNeedsRebalances`; `NoDispatchAfterCommit` (no rebalance); `DepthIsExact` (no dispatch or offset failure, no fencing); `ReadsLikeOneConsumer` (refinement of `SequentialConsumer`); `EverythingCommitted` under fairness |
| `kafka_silent_loss` | 1 worker, 3 trades, 1 dispatch failure | violation of `NoSilentLoss` (F1) |
| `kafka_stuck_pause` | 1 worker, 3 trades, HWM 3, 2 dispatch failures | violation of `PausedPartitionResumes` (F2) |
| `store` | 3 callers, both backends, with and without `mark_failed`; 570 thousand states | `TypeOK`; `DuplicateMeansCommitted`; `CommittedIsFinal`; `OneClaimantUnlessRacy`; `ImplementsRegister` |
| `store_reclaim` | 2 callers | violation of `OneClaimant` (F3) |
| `alert_safety` | 1 or 2 processes, 2 calls for one alert, the threshold at their score or above it, three channels, reconciling or not, cooldown 2, time 0..2, 1 retry, 3 faults; 1.5 million states up to symmetry | `TypeOK`; `AccountedFor`; `SentImpliesIntent`; `AtMostOncePerKey`; `CooldownSpacing`; `NoSilentSuppression`; `OpenIntentsOwned` |
| `alert_suppressed` | 1 process, three channels, 1 call, 1 fault | violation of `SuppressedBehindAnAlert` (F4) |
| `ws` | 2 client ids, one with two connections; room for both, queue and replay depth 1, at most 1 drop, both policies, 2 events, 2 requests; 98 thousand states | `TypeOK`; `NothingVanishes`; `StaysRegistered`; `NothingLeaks`; `LossesCanBeReplayed`; `EverybodyIsServed` under fairness |
| `ws_frozen` | 2 clients and room for one | violation of `ProducersNeverBlocked` (F5) |
| `soroban` | governance with and without a database, or two oracle listeners on one; 4 ledgers of up to 2 events, page limit 2, depth 2, reorganisations and drift of 1, malformed events, 2 faults; 834 thousand states | `TypeOK`; `ActsOnFinalEventsOnly`; `WatermarkHidesNothing`; `PausedFollowsChain`; `EventuallyHandled` under fairness |
| `feature_buffer` | 2 threads, 2 wallets, room for one or all; a trade between the two and two of one wallet with itself, windows of 2, 3 entries; 330 thousand states | `TypeOK` (the memory bound); `LockedWalletIsWhole`; `UpdatesTakeEffectAtOnce` (refinement of `WalletWindows`) |

Bounds.  Three trades let a stream lose, skip and resume in one history, with one
trade before and one after the point of a fault; two nodes are a failing one and
its successor; the tracker that writes every second time makes disk and memory
differ.  The log of `kafka_safety` has the three kinds of message, a duplicate
behind a poison pill (so that a skipped message is passed by a later commit) and a
second partition; two faults let a crash meet a rebalance, or an expiry, in one
behaviour, and two workers are enough for a zombie and its successor.  Depth 2 is
reached by one leaked message and the next one, so pausing happens.  Three callers
let a third one come between the two that race.  The alert clock reaches a second
cooldown window, so a key changes within a cooldown; three faults let a ledger
call raise in one process, a crash follow, and the reconciliation of the next start
fail too.  A queue of one is full after one event, and an event with two routes overflows it alone; the second connection of
one client id is what makes registry and connections differ.  Four ledgers are a
confirmed one, one at the boundary and two that may still move; a page of two cuts
a ledger off, also in its middle.  Two threads and room for one wallet are what it
takes to evict a wallet under a thread's hands, and three trades fill a window of two
so that the index must drop an id.  Three entries are the registered one and the dropped
ones that two threads still refer to; where a thread refers to two, an eviction waits
until it lets one go.  With four entries TLC reports the same (1.9 million states), and
the theorems hold for every set of entries.  Callers of the store, dispatchers and
requests of the alert run, and threads and entries of the buffer are interchangeable,
which the symmetry of those three runs uses; the other passing runs check liveness and
use none.

Deadlock is checked in every run but those of `WsServer` and `SorobanListeners`:
there a bounded model really stops, when every connection has been made and is over
or the loop is frozen, or when the chain has reached its bound and no process of the
deployment is running one.  Elsewhere `PollNothing`, `Idle` and the
consumer's own loop are the steps of a system that has nothing to do.

Fairness.  In `horizon` the consumer thread loops until it is stopped (`Thread`), a
stopped process is started again and the health loop visits every node in turn
(strong fairness of `ProbeStart(e)`, since the loop always comes round to a node).
`kafka_safety` assumes weak fairness of each worker's loop, of leaving it when
fenced or stopped, of the restart of a container that ended (`docker-compose.yml`:
`restart: unless-stopped`) and of the coordinator handing out free partitions.  The
alert dispatcher has no liveness property and assumes no fairness.  In `ws` the loop runs every coroutine that is ready, and a
close handshake ends or times out.  In `soroban` a listener polls for ever and a dead
process is started again.  The outside world - the ledger, clients, producers - and
all faults are never fair.

Three of the liveness properties name the states the code really cannot leave, and each
of these was met as a counterexample: `CatchesUp` excepts a monitor stuck in
`summary()` and malformed records; `EverythingCommitted` excepts a message whose
processing raised (F1) and a stranded partition (F2); `EventuallyHandled` excepts an
oracle listener behind a full page or a malformed event.

## 4. Findings

- **F1** (`kafka_worker.py:381`).  After an exception the loop polls the next
  message without seeking back; its offset commit covers the failed one.  The
  docstring and `docs/streaming_architecture.md:753` promise redelivery.
- **F2** (`kafka_worker.py:550`).  Each such exception leaks one `_in_flight`.  At
  the high-water mark the partition is paused, and only a message of that
  partition could resume it.
- **F3** (`exactly_once.py:425`).  A FAILED row is re-claimed by SELECT and an
  unconditional UPDATE, so two callers can be told NEW; the docstring says
  staging is not a check-then-act race.
- **F4** (`alert_dispatcher.py:98`).  The cooldown starts before anything is recorded
  or sent.  A ledger call that raises afterwards, on any channel, or a websocket send
  that does leaves it running; the redelivered call is recorded as
  `suppressed_cooldown` although no alert was delivered.
- **F5** (`ws_server.py:360`).  A client refused at capacity is closed with an
  `await` inside `with _clients_lock`, a threading lock.  While the handshake is
  pending, the next coroutine that takes the lock stops the event loop, and the
  handshake with it.  The docstring of `_enqueue_for_client` (`ws_server.py:886`)
  says producers are never blocked.

Observations that no run states.  Deduplication and alerts:

- **O1**.  `SeenEventCache.is_duplicate` stages and commits in two commands and
  treats STAGED as its own earlier attempt, so two callers racing on one event
  are both told it is new, while its docstring calls the two atomic for the caller.
- **O2**.  The cooldown is process memory and the key changes with the window, so
  a message redone after a crash may alert again within the cooldown.
  `CooldownSpacing` therefore speaks of one process lifetime, whereas
  `docs/adr/0001-unified-idempotency-finality.md:109` bounds duplicates by the
  cooldown.
- **O3**.  A poison pill practically never reaches the dead-letter topic: its offset
  is committed at the first failure, so only rebalances bring it back to be counted
  (`DeadLetterNeedsRebalances`).
- **O18**.  No entry point calls `reconcile_on_startup` (`scripts/stream.py:141` and
  `scripts/kafka_workers.py:54` construct the dispatcher and go on), so an intent left
  by a crash stays open once its cooldown window has passed.
  Where it is called, an outcome row that cannot be written still leaves an intent open
  in a running process, and the redelivered call is suppressed or takes another key:
  only the next start resolves it.  `OpenIntentsOwned` states what does hold.

Streaming from Horizon:

- **O4**.  `config` has no `CURSOR_STORE_TYPE`, `CURSOR_STORE_PATH` or
  `CURSOR_STORE_FLUSH_INTERVAL`, so the default `get_cursor_store()` raises
  `AttributeError`, and `_stream_pair` passes no store.  The model takes a store that
  is passed explicitly.
- **O5**.  "No events are missed or duplicated" (`horizon_streamer.py:326-328`) does
  not hold before a first cursor is saved (a restart begins at "now"), nor when all
  of a node's history between cursor and stream is pruned unseen; a trade whose
  commit failed is yielded again by the next call.  `PassedOverOnlyIfUnsaved` and
  `DeliveredInOrder` state what does hold.
- **O6**.  A malformed record ends the generator before its token is saved, so it is
  fetched again for ever.
- **O7**.  `WatermarkTracker.summary` calls `lag_seconds`, which takes the same lock
  again: the monitor, and then the consumer, wait for ever.
- **O8**.  A node whose oldest token could not be read is not marked unhealthy, and a
  probe that was under way may overwrite `mark_unhealthy`.
- **O9**.  `_stream_amm_pool` uses `self._watermark` (`pipeline.py:642`), which is
  never assigned.

WebSocket server:

- **O10**.  The notice that updates were dropped is offered to a queue that is full
  again and never queued; an update taken from the queue while the token bucket is
  empty is replaced by an error.
- **O11**.  A subscriber of the pair and of "all" gets an event twice although the
  comment says "Don't send twice"; an event without a subscriber on its wallet
  channel is not kept for replay.
- **O12**.  Registry and router are keyed by the token's `sub`: a second connection
  replaces the first one's entry, and the first one's cleanup removes the second's.

Soroban listeners:

- **O13**.  The governance cursor is saved before the batch is dispatched: a handler
  that raises, a crash or a failed write loses the rest of the batch, a pause among
  it.  `_paused` starts as False after every restart, although lines 834-838 say
  that a `db_url` prevents missed pauses.
- **O14**.  A page that ends inside a ledger makes the governance listener skip the
  rest of the ledger, and the oracle listener, whose cursor is inclusive, read the
  same page for ever.  Re-reading repeats stale-score alerts.
- **O22**.  A malformed event raises out of `_dispatch` before the flag is set (lines
  948, 959), with the cursor already beyond it: the event and the rest of its batch are
  never dispatched.  In `process_batch` it raises in the parser before the watermark is
  set, on every poll: the oracle listener never gets past it.

Feature buffer:

- **O19**.  A thread may hold the lock of an evicted wallet while another holds the
  lock of its new entry: both are in the critical section, the first one writes to
  the new window with the old index, or raises `KeyError` out of `update`.  `torn`
  keeps this apart.
- **O20**.  Idempotence ends with the window: a trade redelivered after `max_trades`
  later ones, or after its wallet was evicted, is applied again, although the comment
  at lines 85-87 says it must never be.
- **O21**.  `get_feature_row` copies the dictionary of the pair sketches but not the
  sketches, and reads these after the lock is released, so the cross-pair features of a
  row may count trades that its window does not show.

Code that is not modelled:

- **O15**.  `RecoveryOrchestrator.stage` (`pipeline/recovery.py:430`) catches
  `Exception` only, so an interrupt leaves the block with no error recorded and the
  stage is marked done; a result of None keeps the previous result; a run is
  registered by SELECT and then INSERT.
- **O16**.  `_submit_with_retry` (`integrations/contract_client.py`) submits again
  after a timeout without asking whether the first submission landed; it asks only
  after a success, and `_is_already_submitted` answers False on HTTP errors that its
  docstring says are re-raised.
- **O17**.  The job ledger (`utils/idempotency.py`) lets two callers reclaim one
  expired lease and a late failure overwrite SUCCESS; the circuit breaker does not
  limit probes and counts results of calls made before it opened.

## 5. Proofs

All proofs are for every value of the constants that satisfies the named
assumption of the module (types, and what the text below names).  Each module
shows that an invariant is inductive and derives the properties from it.

`HorizonStreamProofs` (`StreamAssumption`):

- `TypeCorrect`: `TypeOK` with `Shape`, what the generator's locals are at each place.
- `PositionsCover`: `PositionsCoverProcessed` is not inductive, for a position is
  saved long after the trade was dealt with.  `Reached` says how far the generator
  has dealt with the ledger at each place; `AccountedStays` that this is never undone.
- `InOrder`: `Ordered`, the last trade is not beyond the cursor nor beyond the place
  the stream is read from.
- `PassesOverOnlyIfUnsaved`: `Bridged`, the nodes asked at the start reach back to the
  trades dealt with, and `FromNow`, a stream at "now" is opened only while nothing
  is saved.

`KafkaWorkerProofs` (`LogAssumption`; `KeyedAssumption`: every copy of a trade is in one
partition, since `produce_trade`, `ingestion/kafka_producer.py:237-239`, takes the topic
from the pair and the partition key from the base account; `ControlAssumption`: bounds
are numbers, nobody is not a worker):

- `TypeCorrect`: `TypeOK`, strengthened by `Shape` - what a worker holds at each
  `pc` - since the offset commit is within the log only if `cur` is a message.
- `KeyCommittedMeansHandled`: `CommittedMeansHandled` is not inductive; `KeyInv`
  adds that a worker that is about to commit the key has handled both
  wallets and one between wallets the first.
- `OffsetMonotone`: from `PosInv`, by which the owner of a partition is at or past
  the committed offset and works on the last message it was given.  A zombie is
  fenced, so only an owner commits.  `StepKinds` sorts all actions into four
  kinds of movement, so that the argument is made once for each kind.
- `NoMessageLost`: `NoLossWithoutSkipping`.  `LossInv` says that an owner has
  settled everything it was given except the message at hand; it needs that
  neither dispatch nor the dedup backend ever raised, and `SkippingIsRemembered`
  carries that hypothesis backwards along a behaviour.
- `DepthExact`: `DepthInv` adds that a busy worker still owns its partition, so that
  its offset commit is not fenced.
- `DeadLettersNeedRebalances`: `RetryInv`, one process counts a message at most once
  per rebalance and once more, and then its consumer is past the message.
- `SingleMemberPerTrade`: while no partition is taken from a live member, at most one
  member is at work on a trade.  It joins `OwnInv` (a busy member owns its partition),
  `ForwardInv` (no dead letter gets past the poll) and `KeyedAssumption`.
- `NoRedispatch`: `NoDispatchAfterCommit` is a property of steps.  `LegsInv` says that
  the key of a trade whose wallets are being processed is not committed; it is
  inductive only because another member cannot commit that key.

`KafkaConsumerProofs` (the same assumptions) proves `GroupReadsLikeOneConsumer`, that
the group implements `SequentialConsumer`.  `ConsumerInv` collects the invariants above,
each under the faults it withstands, with `OrderInv` - an undisturbed owner has been
given what is committed and the message in hand, nothing else - and `LegInv`.
`ModeStep` shows that a run only gets worse.  In an ordered run each step maps to
`Work`, `Finish`, `Acknowledge` or `Abandon` of the first unacknowledged message, to
`Forget` for an expiry, or to a stutter; in any other run `DataKinds` sorts the steps by
what they do to wallets, keys and offsets, and `LossInv` gives that what a lossless run
acknowledges is settled.

`FeatureBufferProofs` (`BufferAssumption`).  Lemmas about sequences say what appending,
dropping the head and moving to the end do to length, members and repetitions, and
`Kinds` sorts the actions into seven kinds, so that each part of the invariant is
argued once for each kind.

- `TypeCorrect`, with the memory bound: `TypeOK` needs `Shape` (what a thread holds at
  each place) and `Registered` (the LRU order has no repetitions and the wallets of the
  registry, and no two wallets share an entry).
- `LockedWalletWhole`: `Whole` says it of every wallet that is not torn.  It is inductive
  with `OwnEntry` (the lock or index a thread has is never that of another wallet),
  `UpToDate` (it is that of the registry unless the wallet is torn), `Exclusive` (a lock
  has one holder) and `StillNew` (what the index said is true when the trade is
  appended).
- `UpdatesAtomic`, the refinement: a lookup is a `Touch`, a `Track` or a `Replace`, the
  append is an `Apply` unless the wallet is torn, and every other step, the counting
  among them, changes nothing that is promised (`PromisesKept`).

`ExactlyOnceStoreProofs`, for any set of callers, with no assumption: `Inv` joins the
types, the tie between a caller's answer and its place (`AnswerMatchesPc`), the
separation of the backends (`BackendShape`), that a written entry was committed
(`WrittenMeansCommitted`), that no row is failed where `mark_failed` is not used
(`NeverFailed`), that an absent key has no claimants and others have at most one
(`ClaimInv`), and `CommittedIsFinal`.  From it follow `StoreTypeCorrect`,
`StoreDuplicateMeansCommitted`, `StoreOneClaimant`, `StoreCommittedIsFinal` and the
refinement `StoreImplementsRegister`, where each step is mapped to one operation of
the register or to a stutter.

`AlertDispatcherProofs` (`DispatcherAssumption`):

- `TypeCorrect` and `EveryCallAccounted` need `Located`: a running call is in a process
  that is up, has a key, and passed the cooldown there.
- `WriteAhead`: `Intents`, a call that sends and an intent being resolved has its row.
- `Spacing`: `Spaced`, the calls a process accepted for a wallet are a cooldown apart
  and the wallet cools down since the last.
- `SuppressedBehind` (`NoSilentSuppression`): `Behind`, a wallet cools down or is
  suppressed only behind a call that is running or waiting to be made, an alert that was
  closed, or one whose call raised.
- `IntentsOwned`: `OpenIntentsOwned` with what a raising call leaves behind, an `accepts`
  entry of its process that only a crash of that process removes, after which the process
  is down and its next start lists the intent.
- `AtMostOnce`: `Once`, for a single process: no two calls have one key, a call that
  will send is the first to, and open intents were opened since the process started
  or are about to be closed.

`WsServerProofs` (`ServerAssumption`): lemmas say what one offer (`OfferFits`,
`OfferExact`), one event (`OfferedFacts`) and the replay buffer (`LastKeeps`) do, so
that the invariant's proof never looks into a queue.  `IInv` joins the types,
`RegisteredOpen` (an entry of `_clients` is an open connection of that id), `Fresh`,
`Numbered`, `InOrder` (the queue is in strict order of sequence number and channel, and
disjoint from what was lost), `DueIsQueued`, `ReplayInOrder` and `Kept` (what waits or
was lost is replayable).  `QuietKinds` sorts the actions other than `Publish` into seven
kinds.  From it follow `TypeCorrect`, `NoLeak`, `NoUpdateVanishes`,
`ReadersStayRegistered` and `ReplayCoversLosses`.

`SorobanListenersProofs` (`ListenerAssumption`, and in it `ReorgDepth + Drift <= Depth`):

- `TypeCorrect`: with `ChainOK` (finitely many events, one to a place) and `Places`.
- `FinalOnly`: `Settled`, whatever is acted on, stored, dropped or in hand lies where no
  ledger can be replaced, and no cursor is beyond that; a page just read is `Fresh`.
- `NothingHidden`: `OracleCovered` and `GovernanceCovered`, by which every event is
  done, in hand, or behind what a process has in hand.
- `PausedCorrect`: `AllFollow`, the flag is the last pause event seen at every place of
  the poll, not only between polls.

Only model-checked: the liveness properties `EverythingCommitted`, `CatchesUp`,
`EverybodyIsServed` and `EventuallyHandled`, since fairness and ENABLED are beyond the
proof system.  Every other property of a passing run is a theorem.

## 6. Plan

What comes next, in this order:

1. `PipelineRecovery`: `pipeline/idempotency.py` and `pipeline/recovery.py` over
   `DedupRegister`; an interruption inside a stage (O15), resume, partial re-run.
   Abstract specification: each stage of a run takes effect in order.
2. `JobLedger` (leases with late finishers) and `CircuitBreaker` (O17).
3. `FeatureBuffer` composed with `KafkaWorker`, which keeps the trades of its buffer as a
   set; the pair sketches that a row reads without the lock (O21).
4. `ContractClient`: submission with retries against a chain that may have the
   transaction (O16).
5. `CrossSourceDedup`: the window and its cap, and `HorizonStream` with `SeenEventCache`
   behind it, so that a trade yielded twice is counted once.
6. Rate limiter, alert routing, governance, federated rounds, annotation queue.

## 7. Not modelled

Most of the repository's lines are out of a model checker's reach: feature
engineering, model training and inference, graph encoders, quantisation, Benford
tests, currency normalisation and the arithmetic of federated aggregation are
numeric, in floating point or decimals, and keep no protocol state; scripts, API,
CLI, reporting, importers and codecs do I/O or keep no state between calls.

Of the components that do keep state, these are not modelled yet: checkpoints and
recovery, the job ledger, the circuit breaker, the contract client
(all with observations above), alert routing, rate limiting and the parallel
executor, governance of models, the annotation queue, incident response, migrations.
Checkpoints, recovery, `ReorgAwareEventProcessor` and the retry helper are only used
by tests.  The exactly-once audit probes the stores with the operations modelled
here.  Token checks keep no state, and the only effect of abuse detection on the
server is a closed socket, which `WsServer` allows at any time.

Within the modelled components: one pair, one wallet or one key stands for many
where the code treats them independently; metrics, logging, tracing and message
formats are left out; the historical loader is modelled as the backfill uses it; the
AMM thread (O9), the metadata join and the degraded dispatch of the in-process
pipeline are not modelled.  `PROJECT.json` gives the status of each component.
