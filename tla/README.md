# Verification of ai4binance

TLA+ models, TLC runs and TLAPS proofs for the stateful core of `src/ai4binance`:
the event journal and its durable consumers, the way of a live order to the
exchange, the local order books, the candle history and the shared budget of
public requests, the virtual market daemon with its wallet, single-use
capabilities, and the publishing of reviewed drafts. Paths below are relative to
`src/ai4binance/`.

Contents: 1 the system · 2 the modules · 3 the runs · 4 the proofs · 5 where code
and documentation disagree · 6 what is not modelled.

## 1. The system

ai4binance is a research and trading assistant that keeps evidence in files and
lets an order reach the exchange only behind an explicit human approval. Most of
its lines are deterministic computations over immutable snapshots (strategies,
validation, reports, registries). The parts with state that several actors share,
or that must survive a crash, are these.

| part | state | operations | who else touches it |
| --- | --- | --- | --- |
| event journal (`events/journal.py`) | JSON-lines file, checkpoint file, cached tail per instance | append, load, recover, write_checkpoint | every process with the same path |
| event runtime and delivery (`events/journal.py`, `bus.py`, `delivery.py`) | bus per process, checkpoint file and lock per consumer | open, publish, subscribe_durable, deliver_next, deliver_pending | the journal; other processes |
| live order lifecycle (`execution/live_order_lifecycle.py`) | one reduced record per order | apply, replay, build_place_events | the placement, which journals its chain |
| live placement (`execution/manual_approval.py`, `authorization.py`, `live_spot.py`, `live_spot_adapter.py`, `cli/live.py`) | approval queue file, SQLite ledger of used authorizations | enqueue, resolve, consume, place, journal | the owner; other commands; the exchange |
| order book (`exchange/order_book.py`) | levels, last update id, state | apply_snapshot, apply_delta | collector and reader |
| depth collector (`data/market_depth.py`) | books, bootstrap queue and buffer, record batch, SQLite journal | start, _supervise, _connection, close, append, read_local_depth | stream, REST snapshots, readers in other processes |
| public request budget (`exchange/rate_limit.py`, `data/market_history_continuous.py`) | weight windows, three cooldowns | get_json, acquire, reserve, observe_headers, configure, apply_retry_after | all worker threads, the exchange |
| candle archive and history (`data/archive.py`, `data/market_history_continuous.py`) | Parquet file, manifest and progress file per dataset | update, append_verified_tail, truncate_from, _candles | the market gateway, its readers, the exchange |
| market gateway (`cli/market_gateway.py`, `data/market_data_gateway.py`) | cycle or live, stream connection | run_gateway, _run_live_cycle, append | the archive, the lease |
| single-instance lease (`ops/runtime.py`) | lock file | acquire, release, stale removal | other processes |
| virtual market daemon and wallet (`cli/runtime.py`, `virtual_wallet_journal.py`, `application/virtual_runtime_engine.py`, `domain/research/paper_lifecycle.py`) | ledger file, report file, place in the scan | acquire, scan, manage_positions, record_cycle | the lease, the market |
| capability leases (`governance/capability_store.py`, `governance/enforcement/receipt.py`) | SQLite rows, receipts | issue, consume, verify_consumed | other threads and processes |
| content queue and publishing (`content/queue.py`, `publishing.py`, `publishing_audit.py`) | queue file, audit file | enqueue, approve, reject, expire, publish, begin, complete | reviewers, other gateways, an external service |

`PROJECT.json` lists all parts, the stateless ones too, with the reason where one
is left out.

**Hard behaviours.** They are listed with their lines as `hazards` in
`PROJECT.json`. In short: values read before a lock, a transaction or an append and
used after it (cached tails, histories, approvals, lease rows, queue states, stale
lock files); writes that are cut short, and pairs of files of which one is replaced
(journal and checkpoint, Parquet file and manifest, dataset and progress file,
ledger and report); answers and messages that are lost, late, repeated or out of
order (orders, deltas, snapshots, headers, candles); deaths between an external
effect and its record; budgets and windows at their limits; and things that must
happen in the end although calls fail (delivery, the exits of a position, the tail
of a dataset, a daemon that runs again).

**What correctness means here.** The journal is one hash chain whatever is
interleaved or interrupted. Consumers see its events in order, each at least once
and only one in doubt. No order reaches the exchange twice under one approval, or
under an approval that was withdrawn before it was claimed. A book that is called
live is a book the exchange had, in memory and when rebuilt from the file. A dataset
holds closed candles only, its manifest tells the truth, and its tail catches up.
A host's request budget is respected by all workers together. The wallet's ledger
adds up and applies every closed candle once. A capability is used once; a draft is
posted at most once, and only with the text that was approved.

## 2. The modules

Each component has a module with its state, one action per operation (or per part
of an operation between two locks or two durable writes), the properties and,
where something is proved, the inductive invariant. An `MC…` module has the small
instance, a `…Proofs` module the theorems. An operator whose comment begins with
`Mutant:` is a faulty variant of the definition below it; no specification uses it.
It shows, put in that definition's place, that the property it is kept for notices
the fault.

```
EventJournal   <-- EventRuntime --(implements)--> DurableTopic
LiveOrder      <-- LivePlacement (INSTANCE: the chain a placement journals)
OrderBook      <-- MarketDepth (books, journal and reader)
CandleArchive  <-- MarketHistory (progress, gateway and stream)      PublicRequests
PaperPosition  <-- VirtualWallet <-- VirtualMarketDaemon --> InstanceLease
CapabilityStore        Publishing
```

### EventJournal

`disk` is the sequence of complete records and `torn` says that the file ends in a
partial one; `tail[w]` is `_append_state` of instance `w`, `checkpoint` the
checkpoint file. Public operations hold an in-process and a file lock, so each is
one step: `AppendEvent`, `RefuseEvent` (validation raises), `InterruptAppend` (the
write, flush or fsync raises or the process dies: the record is absent, torn or
complete, and the caller cannot tell), `LoadJournal`, `LoadTorn`,
`WriteCheckpoint`, `Reopen`. A digest is represented by the contents it commits to,
that is, hashes do not collide. The file's change signature is its size; on a file
that is only appended to, inode and times add nothing.

### EventRuntime and DurableTopic

Extends EventJournal with processes. A call is a sequence of steps because the
journal's lock is released before a consumer's is taken: `Publish` (append and
bus), `LoadHistory`, `DeliverNext` or `DeliverPending` (the test under the
consumer's lock), `Handle` or `HandleFails` once per event. `Crash` may come
between any two. `handled[c]` records what the handler ran on; `blamed` the
consumers whose checkpoint was reported corrupt. Handlers do not call back into the
runtime (one that publishes to its own consumer would wait for the lock its own
delivery holds; no handler of the repository does).

`DurableTopic` is the promise without files, locks and processes: a log that grows
one event at a time and, per consumer, an acknowledged position; what is handed to
a consumer is always the event behind that position.

### LiveOrder

The record of one order and `apply`. `evidence` is the set of the timestamps that
are present, `ValidRecord` the checks of `__post_init__`, `LegalStages` the calls
of `_require_stage`, `After` the new record. Any event may be offered; an illegal
one raises and changes nothing. `PlaceChain` is `build_place_events`. `Replay`
folds a chain.

### LivePlacement

A command goes through `Begin`, `Check`, `Claim`, `Revalidate`, `OrderTest`,
`OrderPlace`, `Verify`, `JournalEvent`; every step may fail or be the last before
the process dies, and commands are run again. The owner adds decisions to the queue
at any time (`Decide`), proposals arrive (`Enqueue`), the clock ticks. An envelope
stands for its own SHA-256. The live gate and its evidence registries are an
environment that allows or refuses; as `cli/live.py` composes the executor today,
without registries, the gate always refuses, so the model covers what happens once
they are wired in.

### OrderBook and MarketDepth

`OrderBook` has the two operations of `ReadOnlyOrderBook` as functions of book and
message; a level maps to a quantity and 0 stands for "not in the dictionary". The
field `known` is no field of the code: it keeps apart the levels the exchange
emptied and those a limited snapshot never showed.

`MarketDepth` is one socket group. `PickPending`, `TakeSnapshot`, `DrainBuffer`,
`Receive` and `Flush` are the parts of a pass of `_connection`'s loop; `Connect`,
`EndSession`, `Unwind`, `WriteGaps`, `Start`, `Close` and `Die` are the supervisor
and its process. The exchange (external) keeps the true history of every book,
publishes deltas over any number of updates and answers snapshot requests with any
book so far. `DisturbStream` loses, repeats or garbles a delta; a garbled delta
lists a price twice, which makes `apply_delta` raise after the bids were applied.
`read_local_depth` is the function `ReadLocalDepth` of the journal: SQLite gives it
a read transaction. Rows before the newest snapshot, checkpoint or gap are dropped
from the model because no reader goes behind them. Event times and the reader's bounds on
the age of the head and on the number and size of rows are left out, so the model's reader
accepts more than the code's.

### PublicRequests

Each worker's `get_json` is split where the code takes or drops a lock: `Begin`
(the budget's cooldown), `Acquire`, `ReserveRaises`, `ReserveWaits`, `WakeUp`,
`ReserveGrants` (the governor), `Pace`, `PaceAgain` (the transport's lock, held
during a short wait), `Observe`, `Configure`, `TransportFails`, `RateLimited`,
`ReportToBudget`, `ApplyRetryAfter`. The exchange (external) serves, refuses or
loses a request. `time.time` and `time.monotonic` are one clock of ticks in which
any number of steps happen. `granted`, `allowances`, `banned_until` and
`refused_until` are history variables for the properties.

### CandleArchive and MarketHistory

A candle is its open time, counted in intervals; a dataset is a set of candles.
`CandleArchive` has the two files of `ParquetOHLCVArchive`, the manifests its
operations compute (`ManifestOf` from all rows, `AppendedManifest` from the old
manifest and the new rows only) and the two checks of a read. The checksum in a
manifest stands for the content it was taken of.

`MarketHistory` is one candle stream of the gateway. `task` is the call or append
under way, with what it read and has not written. Every durable write is a step of
its own: `Put` replaces the Parquet file, `WriteManifest` the manifest, and the
progress file is saved by the action after it, so that `CrashGateway` may fall
between any two. The call goes `Collect` (progress), `Seed`, `Open`,
`RepairUnclosed`, `RepairBoundary`, `RefreshTail` or `RefreshPart`, `FindMissing`, the
archives (`ReadArchive`, `MissArchive`, `SavePending`, `PassMonth`, `DropArchive`,
`WriteArchives`, `EndArchives`), the REST pages (`ReadPage`, `EndPages`, `FlushPages`,
`SavePages`) and `Decide`; `FailRequest` ends it at any request. What the exchange gives
may be less than what it has (KLINE_GAP in the code): an archive may be missing, begin
late (`MissArchive`), end early (`ReadArchive`) or have a hole (`DropArchive`), the tail
may be cut (`RefreshPart`) and a page refused (`ReadPage`). Only the first page of a
listed symbol (`Seed`) is taken to hold its newest closed candles. `AfterCycle` is what `run_gateway` makes of the results of
all streams, the other streams' being arbitrary. In live mode `AppendCandle` is
`DirectTimeframeWriter.append`; `Reconnect` loses candles; `EndLive` is the planned
rollover. The local clock may be one interval behind the exchange and never ahead
of it, and a stream message may be stamped just before its candle's end (`early`).
One process writes the datasets: that is the lease's promise. The timeframes are
those whose running month is read over REST; today's midnight is taken to be no
month's end.

### InstanceLease, PaperPosition, VirtualWallet, VirtualMarketDaemon

`InstanceLease` is `SingleInstanceLease` system call by system call. A start is
numbered and the number stands for pid and process marker. With `MarkerTells` a process
that got the pid of a dead owner is told from it by its marker; without it (every platform
but Windows, and a process whose marker cannot be read) the dead owner may look alive.
Safety is proved for both; `RunsAgain` is checked with `MarkerTells`, because an owner that
looks alive keeps every later start out for as long as that process lives.

`PaperPosition` is arithmetic: fill, candle, exit and accounting of a long Spot
position in whole numbers (exit prices in 1/`Den` of a tick, money in 1/`Den`²), so
nothing is rounded that the code does not round. `VirtualWallet` is the ledger of
movements, what recovery accepts (`Readable`), and a research cycle in steps. Each call of
`initialize` is `Recover` (one read of the ledger), `Genesis` for each wallet it did not
find, and `WriteOutputs`, which reads the ledger again for the count and the open symbols
and writes them with the balances of the first read; `job` carries them from one to the
other. Between the calls lie `LoadPosition`, `ManageCandle` once per candle and
`ManageEnds`; a decision goes through `RecordCycle` (read and compare) and `RecordMovement`
(append) to its own `WriteOutputs`. Time runs in half candles, so that a cycle may start on
a boundary or inside a candle. `VirtualMarketDaemon` composes lease and wallet: who
holds the lease scans one symbol per cycle and keeps its place in a state file. Every
`ScanEvery`-th cycle is the priority lane's. Its own cursor over held and ranked symbols,
which alternates between Spot and Futures, is abstracted to any symbol or none; all other
cycles go round the list (`Serves`).

### CapabilityStore and Publishing

`consume` is three steps, because Python's sqlite3 opens a transaction before a
statement that writes and never before a SELECT: the clock is read (`Consume`), the
row checked (`Check`), and the UPDATE made (`Update`), whose WHERE clause and unique
column decide. `Enforce` is a receipt of an ALLOW decision.

`Publishing` has the lines of the queue and the audit file, reviewers that replay
and then append, and threads that publish through gateways with a lock each:
`Publish`, `Preflight`, `Begin`, `AppendIntent`, `VerifyIntent`, `Send`, `Complete`,
`AppendOutcome`. Appends may be cut short, processes die anywhere. No command of the
repository wires the gateway today; the model covers what it promises when one does.

## 3. The runs

| run | instance | distinct states | properties |
| --- | --- | --- | --- |
| event_runtime | 2 processes, 1 consumer, 3 events | 40 905 | BusIsJournaled, HandledInOrder, OneInDoubt, IsDurableTopic, CallsReturn, PendingDelivered |
| live_placement | 2 commands, 3 envelopes, 2 approvals, 2 queue records, clock 0..1 | 1 124 667 | SingleUse, SentWasApproved |
| market_depth | 2 symbols, 3 levels, 3 updates, 2 deltas in flight, 1 fault | 1 061 588 | BooksTrue, LocalDepthTrue, LiveJournalReplays, ReaderNeverGoesBack |
| market_history | candles: 7 candles, months of 2, 2 crashes; requests: 2 workers, 3 calls, windows of 2 and 3 ticks, clock 0..3 | 781 184 | HistoryTypeOK, ManifestTrue, OnlyClosedStored, LiveDatasetWhole, ProgressCovered, AllowancePerWindow, ClearOfBans, CutsNewestOnly, CorruptNeverReset, TailCatchesUp |
| virtual_market | 2 daemons, 2 symbols, started one at a time | 185 511 | DaemonTypeOK, SingleInstance, LedgerReadable, CandlesOnce, WalletAddsUp, ReportTrue, HaltIsFinal, ExitsApplied, RunsAgain |
| stores | journal: 2 instances; order: 3 lots; leases: 2 with 2 consumers; publishing: 2 gateways, 3 threads, 2 reviewers, 2 drafts | 689 624 | ChainIntact, AppendOnly, ApprovedBeforeSubmission, FillsKept, LeaseUsedOnce, AtMostOnePost, ApprovedContentSent, OneOutcomePerPost, GatewayKeepsInterval |
| event_runtime_stale_history | 2 processes, 2 events | (violated) | NoFalseCorruption |
| event_runtime_reopen | bus capacity 1, journal capacity 2 | (violated) | Reopenable |
| live_placement_recorded | 2 commands, 2 approvals side by side | (violated) | SubmissionsRecorded |
| live_placement_replays | the same | (violated) | JournalReplays |
| public_requests_bans | the requests of market_history | (violated) | BansFailClosed |
| single_instance | 3 daemons that may start at the same time | (violated) | SingleInstance |

What the passing runs show:

- **event_runtime** – `BusIsJournaled`: no bus shows what the file does not hold.
  `HandledInOrder`, `OneInDoubt`: consumers advance along the file, and only the
  single event behind a checkpoint may be handled again. `IsDurableTopic`: the whole
  implements `DurableTopic`. `CallsReturn`: no call waits for ever for a lock.
  `PendingDelivered`: failed deliveries are made up for by later subscriptions.
- **live_placement** – `SingleUse` also covers a second authorization that reuses
  the nonce of the first. `SentWasApproved`: a revocation recorded before the claim
  wins; one recorded after the second look of `place` cannot.
- **market_depth** – `BooksTrue`: a live book is the exchange's book at its update
  id. `LocalDepthTrue`, `LiveJournalReplays`, `ReaderNeverGoesBack`: the same for
  what a reader rebuilds, every live head can be replayed, and no reader is given
  an older book than one before it.
- **market_history** – `ManifestTrue`: a manifest that matches its file lists
  exactly the file's holes and bounds, also when it was computed from the old
  manifest and the new rows only. `OnlyClosedStored`: a candle that has not closed is
  never stored, although the clock may be behind and stream messages early.
  `LiveDatasetWhole`: the gateway goes live only on a dataset without holes.
  `ProgressCovered`: the saved cursor moves only over candles that are stored or that
  the symbol never had, so no crash makes a later call skip an interval.
  `CutsNewestOnly`: a repair removes nothing but the newest candles.
  `CorruptNeverReset`: a dataset that fails its checks is left for a person.
  `TailCatchesUp`: the tail reaches the last closed candle again and again.
  `AllowancePerWindow`: what is let through in one window stays below the throttle
  band, once per window and once more for each `exchangeInfo` answer that replaces
  it. `ClearOfBans`: the governor lets nothing through during a cooldown it was told of.
- **virtual_market** – `SingleInstance`: daemons started one after another exclude
  each other across crashes and stale locks. `LedgerReadable`: no interleaving or
  crash other than a torn line makes the ledger unreadable. `CandlesOnce`: each line
  of an open position applies the one candle that follows the line before, a candle that
  had closed; none is skipped or applied twice. `WalletAddsUp`: cash, stock at
  cost and fees not yet charged are the initial cash plus the result.
  `ReportTrue`: the state file describes one moment of the ledger, although its
  balances come from one read and its count and open symbols from a later one, with
  appends, failures, crashes and takeovers between them. `HaltIsFinal`:
  after `MaxLosses` losses in a row (0 means no limit) nothing is traded any more. `ExitsApplied`,
  `RunsAgain`: closed candles reach an open position in the end, and a daemon runs
  again after each crash, unless something needs a person.
- **stores** – four stores without common state. `ChainIntact`, `AppendOnly`: the
  complete records are one chain, nothing changes and nothing is written behind a
  partial record, whatever other instances wrote in between and however often an
  append whose outcome is unknown is retried. `ApprovedBeforeSubmission`, `FillsKept`:
  no sequence of events leads an order to the venue around the approval, although a
  promotion request is legal in every stage (line 305), and fills only grow.
  `LeaseUsedOnce`: two consumers that both find a lease unused cannot both consume it.
  `AtMostOnePost`, `ApprovedContentSent`, `OneOutcomePerPost`: a draft is posted at
  most once, with the text a reviewer approved, and each recorded outcome belongs to
  one post. `GatewayKeepsInterval`: the posts of one gateway keep the minimum interval.

**Why the bounds are enough.** Two processes are what a race needs, and the third
event lets a consumer lag by more than one. Two queue records are a decision and
its reversal, or two approvals; three envelopes are an authorization, its
replacement with the same nonce, and an unrelated one. Three updates of a book give
a delta before, across and behind a snapshot; the second, quiet symbol lets a
bootstrap wait while another book is live; a snapshot may miss the outermost level,
and an update may empty a side or reach that level. One fault (a loss, a repetition,
a failed write, a death) may happen at every point; the proof of `BooksTrue` has no
such bound.

Five candles are closed when the gateway is first started and two more close, with
months of two candles and pages of one: a month before the listing, a whole month, a
month cut by the window, the running month and two new candles all occur, and a
symbol may be listed inside a month of the window or at its end. A second crash falls
into the recovery from the first. Four ticks hold an end of either window and the ends
of both cooldowns; two pages of weight 8 stay below the throttle band of the longer window (limit 20),
reach it exactly with an `exchangeInfo`, and exceed that of the shorter one (limit 18).

The wallet's instance has a candle that raises the stop, one that reaches the target
(and that, after the first, opens below the raised stop and touches the target all the
same), starts on and between candle boundaries, a fee and a slippage, a position that
outlives a restart, and a second symbol that keeps the scan busy elsewhere. In
`stores`, three threads are two on one gateway and one on the other; a second draft
was reviewed before, so that two posts compete for the interval.

**Reductions.** `part` (market_history, stores) selects which of several stores without
common state a behaviour explores, so that their states add instead of multiply.
Reviewers and users (stores) are symmetric; no run with a liveness property uses
symmetry. `FirstOff`, `AcquiresFirst` and `CyclesFirst` (virtual_market), `ReviewsFirst`
(stores) and `IdsInOrder` (event_runtime) fix one order of steps that commute or of names
that are interchangeable; `Hopeful` leaves out publish calls that cannot have an effect,
and `SavesForStarts` (virtual_market) writes of the state file alone that no start is left
to read; `LateRefusal` makes a last start that will be refused after everything it commutes
with.
`OneReceipt` and `OwnDrafts` are bounds: one receipt, and one draft per thread. The
comments in the MC modules say why nothing is lost. In `virtual_market` starts are serial
(`single_instance` shows why) and the last start permitted does not crash. Deadlock is
checked in event_runtime and market_depth; in the other runs the bounded model ends (a
final stage, a used-up queue, the last tick or candle).

**Fairness.** Safety needs none. What the liveness properties assume:

- `CallFairness` (strong fairness of a call's next step): a running thread is
  scheduled, handlers return, and a waiter gets a file lock that is released again
  and again. `exclusive_file_lock` blocks in `flock`, which promises no order among
  waiters, hence strong and not weak. (On Windows it polls and raises `TimeoutError`
  at last; the models follow the POSIX branch.)
- `RestartFairness`: a process that is down is started again, its application
  subscribes its consumers, and a handler that is run again and again on one event
  succeeds at last. `PendingDelivered` is stated under the condition that the file is
  never torn (a torn file stops every load until it is repaired by hand) and that
  processes are restarted again and again, because a failed delivery is retried only by
  the next publish or subscription.
- `Fairness` of the virtual market: some entry is started again when none runs (the
  supervisor), a running daemon takes its steps, and a symbol that the round through the
  list offers again and again gets its snapshot at some time. The priority lane, whose
  choice is left open, is assumed to serve nobody.
- `HistoryFairness`: the gateway is started again and its steps are taken (weak
  fairness; a request may fail each time for that), and the seed and the tail request,
  tried again and again, succeed some time, the tail as a whole (strong fairness). No
  other request is assumed to succeed, and no archive or page to be whole.

## 4. The proofs

Every theorem holds for all values of the constants that satisfy the named
assumptions of the modules (`JournalAssumption`, `RuntimeAssumption`,
`LiveOrderAssumption`, `PlacementAssumption`, `BookAssumption`, `DepthAssumption`,
`RequestAssumption`, `HistoryAssumption`, `LeaseAssumption`, `RatioAssumption`,
`WalletAssumption`, `DaemonAssumption`, `CapabilityAssumption`, `PublishingAssumption`).
They give the constants their types, say that capacities, windows, months, pages and
limits are positive, order the bands of the request budget, keep fee and slippage below
the whole price, and say that the exchange has finitely many request windows and that a
socket group lists no symbol twice (`cli/market_data.py` takes it from the keys of a
dictionary). TLC evaluates each of them on the instance of a run.

| module | theorem | property |
| --- | --- | --- |
| EventRuntimeProofs | JournalChain, JournalTailSound, JournalCheckpointSound, JournalAppendOnly, JournalTyped | ChainIntact, TailCoherent, CheckpointOnChain, AppendOnly, JournalTypeOK |
| EventRuntimeProofs | RuntimePersistsFirst, RuntimeCursorOnJournal, RuntimeHandlesInOrder, RuntimeOneInDoubt, RuntimeCursorMonotone, RuntimeIsDurableTopic, RuntimeTyped | BusIsJournaled, CursorOnJournal, HandledInOrder, OneInDoubt, CursorMonotone, IsDurableTopic, RuntimeTypeOK |
| StoreProofs | OrdersApprovedFirst, OrdersKeepAuthorization, OrdersKeepFills, LifecycleTyped | ApprovedBeforeSubmission, AuthorizationFixed, FillsKept, LifecycleTypeOK |
| LivePlacementProofs | AuthorizationsAreSingleUse, OrdersAreApproved, JournalHoldsOneChain, PlacementTyped | SingleUse, SentWasApproved, JournalIsOneChain, PlacementTypeOK |
| MarketDepthProofs | CollectorBooksTrue | BooksTrue |
| DepthJournalProofs | DepthJournalInv, LocalDepthIsTrue, LiveJournalsReplay, ReadersNeverGoBack | ReaderInv, LocalDepthTrue, LiveJournalReplays, ReaderNeverGoesBack |
| PublicRequestsProofs | GrantsStayBelowThrottle, GrantsRespectBans, RequestsTyped | AllowancePerWindow, ClearOfBans, RequestTypeOK |
| StoreProofs | LeasesUsedOnce, ReceiptsAreBacked | LeaseUsedOnce, ReceiptsBacked |
| StoreProofs | PostsAtMostOnce, PostsApprovedText, OutcomesOfPosts, IntervalKept | AtMostOnePost and IntentBeforePost, ApprovedContentSent, OneOutcomePerPost, GatewayKeepsInterval |
| MarketHistoryProofs | HistoryInvariant, HistoryTyped, StoredAreClosed, ManifestsAreTrue, LiveIsWhole, ProgressFollowsCandles, RepairsCutNewestOnly, CorruptStays | HistoryInv, HistoryTypeOK, OnlyClosedStored, ManifestTrue, LiveDatasetWhole, ProgressCovered, CutsNewestOnly, CorruptNeverReset |
| VirtualMarketProofs | LeaseExcludes, DaemonsExclude | SingleInstance |
| VirtualMarketProofs | DaemonInvariant, DaemonTypes, LedgerIsReadable, CandlesApplyOnce, WalletBalances, ReportIsTrue, HaltStands | DaemonInv, DaemonTypeOK, LedgerReadable, CandlesOnce, WalletAddsUp, ReportTrue, HaltIsFinal |

`TailCoherent` says that a cached tail that passes the signature test is exactly the
file, `CheckpointOnChain` and `CursorOnJournal` that checkpoints name events of the
file, `JournalIsOneChain` that commands that journal at the same time do not mix their
chains. They, and most type invariants, are proved and need no run of their own.
The theorems about the wallet are about `Spec` of VirtualMarketDaemon, in which starts do
not overlap.

The arguments:

- **Journal.** `JournalInv` strengthens the chain by `TailIsPrefix`: every cached
  tail, reusable or not, is a beginning of the file whose signature is the size of
  that beginning. Two beginnings of one file with the same size are equal, so a
  reusable tail is the whole file (`TailPrefixCoherent`), and validation against it
  is validation against the file. `ChainExtends` is the step of the chain. The
  checkpoint is covered because the file only grows.
- **Runtime.** A step of the runtime is a step of the journal or leaves it alone
  (`RuntimeStepsJournal`), so `JournalInv` carries over and the file only grows
  (`JournalGrows`, `GrowthKeeps`). `CallsConsistent` says that the event of a call
  is on disk at its place and that the event in hand is the one behind the
  consumer's cursor; `LockExclusive` keeps a second process from moving that cursor
  meanwhile. From these, `InHandIsNext` and `HandlerRuns` give order and the single
  event in doubt. `StepOfTopic` maps each step to a step of `DurableTopic` or to
  none, with the file, the cursors and the lengths of `handled` as its variables.
- **Order.** `LifecycleInv` adds that each record passed the constructor; the
  action properties follow from it and one step of `apply`.
- **Placement.** `HoldsClaim` is the heart: a command between claim and request
  owns a ledger row that it shares with no other such command and no order sent.
  `Revalidated` and `RowsDated` tie the decision to the time of the claim: a longer
  queue has the same beginning (`ApprovedSinceKept`). `ChainLeft` is what one event
  per step needs.
- **Books.** `DepthInv` follows the data from the exchange to the book: what the
  exchange has not touched is unchanged (`VenueOK`), so every delta in flight or
  buffered tells all that changed since the delta before it (`WireTrue`,
  `BuffersTrue`), an answer is a true book (`AnswerTrue`), and a delta that
  continues a true book makes it the true book of its last id (`DeltaShows`,
  `AppliedCovers`). Repetition and loss keep this, because each delta is true on its
  own and the sequence test refuses those that do not continue the book.
- **The depth journal.** `ReaderInv` speaks of `Ahead`, the journal once the batch that
  waits is written. `BuiltTrue`: replaying `Ahead` restores every book that has its
  snapshot, exactly, and the head of no other symbol is live; so whichever write comes
  next, what it leaves on disk replays to a book that was true when it was recorded. The
  step behind it is that a row the collector accepted is accepted by the reader
  (`ReplayDelta`), and that a checkpoint restores the book it was taken of
  (`CheckpointRestores`). A batch lost in a crash leaves the journal as it was, and the gap
  the next start writes closes it (`GapsWritten`). `ReaderNeverGoesBack` needs the order of
  the stream: the ids in flight, in the buffer and in the books whose head is live are at
  least what any reader was shown (`WireOrdered`, `BuffersOrdered`, `BooksPassed`,
  `ShownPassed`). A snapshot may be older than that, which is why its head is not live: the
  first delta behind it brings the book past everything shown. The replay and the write
  loop are recursive functions over the rows; that one more row means one more step
  (`ReplayMore`, `WrittenMore`) follows from a least counterexample (`Least`), so no
  induction over data is needed. TLC checked `ReaderInv` on the instance of market_depth
  before it was proved.
- **Requests.** `AllowanceKept` is the strengthening: what was granted in a window and
  does not count as used was granted before the window was last replaced, and each
  replacement may forget one throttle band at most. `used` only grows inside a window,
  headers included, so the sum stays below the band times the number of openings
  (`OneMoreBand`). That `now` is still in the window that is counted needs a fact about
  remainders (`SameWindow`). For bans, the governor's cooldown is the largest end it was
  told of (`banned_until = cooldown_until`), whichever answer comes last. The types need
  that no window starts in the future and that there is a longest one: then the time a
  worker sleeps to, the maximum over the crowded windows, exists (`WaitsForNat`).
- **Leases of capabilities.** `CapabilityInv`: the table remembers every use it granted
  and no execution has two rows. The check before the UPDATE is not needed: the WHERE
  clause alone decides, which is why a consumer may die or sleep between them.
- **Publishing.** `CallPlaced` ties a call to the line it appended: from the read-back
  on, the intent of the call is the only one of its request, so no second call passes
  its read-back (`PlacesDiffer`, `VerifyingCall`). `CallCleared` carries what was checked
  in the preflight across the steps under the gateway's lock: the approval cannot be
  withdrawn in the file, and the last success of the gateway stays an interval away.
- **Candle history.** `HistoryInv` has four parts. `FilesInv`: a manifest tells the
  truth about the content it was taken of, and if the two files do not match then the
  manifest is about to be written or no call gets past its first look. `CallInv` fixes
  where a call stands: its end is not after the last closed candle, and its cursor is the
  saved one until the walk starts. `WalkInv` is the heart: what the call has fetched and
  what the dataset holds cover every listed candle from the saved cursor to the call's
  own, so that saving the cursor after the candles skips none. `LiveInv`: the stream
  follows a whole dataset. One lemma per action shows the step (`HistoryStepInv` puts
  them together); under them lie lemmas on minima, maxima and holes of sets, the most
  telling of which is that the manifest computed from the old manifest and the new rows is
  the manifest of the whole file. Minima and maxima come from a well-founded order on the
  naturals (`Least`), and need no induction over data.
- **Single instance.** `LeaseExcludes` is about starts that do not overlap
  (`SerialSpec`): then a name found stale stays stale until it is unlinked (`StaleStays`)
  and the creator of the file is the one that writes its name (`CreatorWrites`), so a
  holder's name is in the file (`HolderNamed`) and names differ. `DaemonsExclude` carries
  this over to the composed daemon, whose steps are steps of the lease or leave it
  alone (`DaemonStepOfLease`). Without the restriction the property is false (section 5).
- **Wallet.** `DaemonInv` adds to the lease what the ledger's lines say (`LedgerInv`) and
  what a running cycle remembers of them (`JobsInv`). Because only the holder of the lease
  runs a cycle (`OthersIdle`), what a cycle has read stays the last line until it appends
  itself; so the balances on their way to the state file are still the last line's when
  the count is read, and a crash, a failure or a takeover in between throws them away
  (`JobTrue` of an "output" step, from which `ReportIsTrue` follows). Three facts carry the
  rest. The close of a candle that is due is later than
  every cursor in the file, so the id of its movement is new and recovery accepts the
  line; and the earliest candle that is due, if no gap is reported, is the one that follows
  the cursor (`FirstDue`, `CandleFollows`). A purchase, a candle and a sale, in part or
  whole, keep the sum of cash, stock at cost and fees not yet charged (`FillTrue`,
  `UpdateTrue`; `SaleIdentity` is the polynomial identity behind them, for all prices,
  quantities, fees and slippages). And a wallet that holds a position has lost fewer than
  `MaxLosses` times in a row, while `Blocked` keeps one that has not from buying, so that a
  halted wallet gets no movement at all (`HaltedStays`).

Two statements had to be made precise before they could be proved. The dataset does not
always hold what the progress file speaks of: a crash after a repair has cut the newest
candle and before the cursor is taken back leaves a saved cursor beyond the end of the
dataset, which the next tail refresh catches up ("collection progress exceeds the verified
dataset" until then). What holds is that no step moves the cursor over a candle that is
missing (`ProgressCovered`). And a loss limit of 0 means no limit, so a wallet counts as
halted only under a positive one (`Halted`).

Only model-checked: liveness (`CallsReturn`, `PendingDelivered`, `ExitsApplied`,
`RunsAgain`, `TailCatchesUp`), since TLAPS has no ENABLED, and the refutations of section 5.
Every invariant and every action property of a passing run has a theorem.

## 5. Where code and documentation disagree

Six runs state a sentence of the repository and are violated. `PROJECT.json` quotes
the lines.

1. `NoFalseCorruption` – the journal is loaded before the consumer's lock is taken;
   when another process delivers a newer event in between, an intact checkpoint is
   reported as corrupt (`events/delivery.py:311`).
2. `Reopenable` – an event that the bus refuses for lack of room stays in the
   journal, and `open` then cannot replay an intact journal (`events/journal.py:422`).
3. `SubmissionsRecorded` – all placements append chains that start at sequence 1 to
   one file that takes one chain, so the second order at the exchange is not
   recorded (`execution/live_order_lifecycle.py:559`).
4. `JournalReplays` – the chain of an order reported as CANCELED cannot be replayed
   (`execution/live_order_lifecycle.py:726`).
5. `BansFailClosed` – a transport error that comes in after a ban shortens the
   transport's cooldown to its own, and a request already let through leaves during
   the ban (`data/market_history_continuous.py:458`).
6. `SingleInstance` – two daemons that start at the same time on a stale lock both find
   it stale; the slower one unlinks the lock the faster one has just taken, and both run
   (`ops/runtime.py:428`).

Observations without a run of their own, met while the models were written:

- *Event runtime.* A handler that published to its own consumer would wait for the lock
  its own delivery holds.
- *Placement.* The expiry of an authorization is checked when the attempt begins, not
  when the order is sent. Two processes can enqueue the same proposal. The price of a
  MARKET order, "0.00000000", is refused by the parser of the answer (`Unpriced`).
- *Depth.* `market_depth.py:384` says "A failed public shard never retains LIVE
  authority."; if the gap rows cannot be written, the heads stay LIVE and only the
  reader's age bound ends it. The book shown is still true (`LocalDepthTrue`). The gap
  rows of a closed session (`market_depth.py:405`) are written outside the handler that
  keeps the thread alive; if that write fails the thread ends.
- *Requests.* `market_history_continuous.py:307` says "The collector never exceeds the
  observed exchange limit."; every `exchangeInfo` answer opens a new allowance within the
  running window. `AllowancePerWindow` states what holds. The header of an answer of the
  previous window, applied in the next one, makes the governor stricter for one window,
  never laxer.
- *Archive.* `archive.py:162` says "Atomically merge closed candles and return a verified
  manifest."; a crash between the two replacements (191 and 209, 101 and 116, 288 and 306)
  leaves a manifest that never matches its file again. The stream is then blocked, and the
  gateway exits at every start, until a person repairs it (`CorruptNeverReset`). Readers
  in other processes can see the same mismatch for a moment.
- *History.* A symbol listed in the middle of a month inside the window stays
  UNAVAILABLE, so that the gateway does not go live; its tail is refreshed all the same.
- *Virtual market.* The halt after a streak of losses is permanent
  (`virtual_runtime_evidence.py:179`). A held symbol that leaves the universe is never
  managed again (`cli/runtime.py:843`). After a downtime longer than the candle window the
  position reports a candle gap for ever, and a death between creating and writing the
  lock file leaves a lock only a person removes (`NeedsReview`).
- *Publishing.* Two gateways can append an intent for one request each; then at most one
  posts, and its outcome cannot be recorded. The rate limit is checked before the append
  without a lock across gateways (`publishing.py:169`), hence `GatewayKeepsInterval` and
  no interval for all of them. A torn line, or an audit file at its limit, stops every
  later publish. Two reviewers can make a queue that no longer replays.
- *Capabilities.* `consume` reads the clock before its transaction commits, so a lease can
  be consumed just after its expiry.

## 6. What is not modelled

The map covers the stateful core, a small share of the repository's lines. Most of the
rest is code in which nothing is interleaved, interrupted or remembered: strategy and
indicator arithmetic over floats and decimals, validation of immutable records, report and
dashboard text, registries and contracts as data, and the parsing of commands. A state
machine of it would either repeat the code line by line or leave out what it computes.
`PROJECT.json` lists these parts as `not_modelled`.

Inside or beside the modelled parts, left out are:

- formatting, JSON, hashing, signing and parsing, abstracted to what they tell apart;
- files altered from outside: detecting that is what the hashes are for, and the models
  assume that hashes do not collide;
- prices of fills of live orders, except that an unusable price ends the placement, and
  cancelling a live order, which no command reaches;
- `retain_streams`, the batch size of compaction, event times and the age bound of the
  depth reader; the table of request weights;
- candles whose values conflict, daily archives, scoped profiles, screening, refresh
  requests, funding rates and open interest in the history collector;
- Futures positions, the drawdown limit, staged targets and break-even moves of the
  virtual wallet; its manual refresh lane; the supervisor's backoff between restarts;
- paper orders and their recovery (`execution/order_state.py`, `recovery.py`), the
  reconnecting user streams (`exchange/stream_state.py`, `continuity.py`), the run state
  of the research workflow, and the HTTP transport;
- ephemeral bus subscribers, which leave no state behind.
