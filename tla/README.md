# Verification of the order flow toxicity pipeline

TLA+ models, TLC runs and TLAPS proofs for the repository's market data
pipeline. Paths below are relative to the repository; `M` stands for
`ingestion/cmd/ingestor/main.go`, `B` for
`ingestion/internal/producer/batcher.go`, `S` for `scoring/service.py`.

## 1. The system

```
exchange feed / CSV / synthetic
   -> ingestor (Go)      trades.raw, trades.dlq            Kafka or RabbitMQ
   -> processor (Go)     trades.normalized                 Kafka
   -> scorer (Python)    trades.alerts, scorer_checkpoints Kafka, PostgreSQL
   -> dashboard (Python) alerts, audit_logs, WebSockets    PostgreSQL, browser
```

| Component | State it keeps | Operations | Hard behaviour | What makes it correct |
|---|---|---|---|---|
| Producer of the ingestor (`B`) | bounded channel, two batches, retry counter, counters, closed flag and its lock | `Publish`, `DeadLetter`, `Close`; the flusher goroutine `loop`, `deliver` | publishers, closer and flusher interleave; a sink call that accepts part of a batch; cancellation and a 30 s timeout at any moment | no send on a closed channel; nothing accepted is lost or counted twice; order per key; bounded memory; everything blocked returns |
| Pipeline of the ingestor (`M`) | `rawCh`, worker channels, statistics | feed, dispatcher, worker pool, `handle`, shutdown | channels closed one after the other while goroutines run | order per symbol, conservation of records, shutdown order, `Run` returns |
| Duplicate filter (`internal/normalize/dedup.go`) | sharded maps with expiry and a budget | `Seen`, sweep | expiry and eviction forget keys, stale clock readings | one copy of a trade within the window, bounded memory |
| Normalizer of the ingestor (`internal/normalize/normalize.go`) | sequence number | `Normalize` | NaN and infinities, zero and missing fields | what is published can be encoded and is accepted downstream |
| Broker sinks (`internal/producer/{kafka,rabbitmq,stdout}.go`) | connection, channel, confirms | `Send`, `SendDeadLetter`, `Close` | stale confirms, reconnects | `nil` means accepted |
| Feeds (`internal/feed`) | session and attempts; position in a file; schedule and bursts | `Run` of three feeds | reconnects, a blocked channel, a disk that fails, a clock | no holes within a session, a replay that is the file, bursts that show, `Run` returns |
| Processor (`processing/`) | consumer position | N workers over one reader | offsets committed in the background | at-least-once, order |
| Scorer (`S`, `checkpoint.py`, `registry.py`) | state per symbol, counters, position, last message | poll, process, checkpoint, commit, restart | crash between any two steps, failing saves and commits | no committed trade missing from a checkpoint |
| Scorer arithmetic (`scoring/scorer.py`) | EWMA, variance, count | `process_trade` | the first trade, no variance, floating point | the mean and variance of a symbol's own trades |
| Dashboard (`dashboard/app`) | WebSocket set, Kafka position, tables | alert stream, broadcast, configuration, audit | await points, several writers | alert stored, audited and shown |
| Audit log (`infra/init.sql`) | hash chain | insert trigger | concurrent inserts | one unforked chain |
| Front end, notification agent, tools, configuration, logging, metrics | - | - | - | not modelled, see section 7 |

Interaction. Inside the ingestor the goroutines share Go channels and one
read-write lock; the components exchange messages through broker topics; the
scorer and the dashboard also write to PostgreSQL. The hazards this leads to are
listed, with their lines, in `PROJECT.json`.

## 2. Modules

| Module | Models | Role |
|---|---|---|
| `AsyncProducer` | `B`, `internal/producer/producer.go` | publishers, closers, flusher, external sink |
| `DeliveryContract` | the guarantees of `B:57-63` | abstract specification `AsyncProducer` implements |
| `Pipeline` | `M`, `internal/feed/feed.go`, `Seen` | goroutines around the producer; instantiates `AsyncProducer` with the workers as publishers and `Run` as the closer |
| `RabbitSink` | `internal/producer/rabbitmq.go` | confirms, reconnects and `Close` of one of the sinks |
| `ScoringService` | `S`, `checkpoint.py`, `registry.py` | consumer loop, checkpoints, restarts |
| `Processor` | `processing/cmd/processor/main.go`, its consumer and forwarder | workers over one reader, background commits |
| `Dashboard` | `dashboard/app/core/{alert_stream,websocket,database}.py`, `api/routes.py`, `infra/init.sql` | alert stream, broadcasts, configuration, audit chain |
| `Dedup` | `internal/normalize/dedup.go` | the duplicate filter: shards, expiry, budget |
| `Feed` | `internal/feed/feed.go` | what the feeds share: context, channel, `send`, `sleepCtx` |
| `BinanceFeed` | `internal/feed/binance.go` | backfill, sessions, keep-alive, reconnects; external exchange |
| `CSVFeed` | `internal/feed/csv.go` | passes, layouts, limits; external disk |
| `SyntheticFeed` | `internal/feed/synthetic.go` | schedule and bursts on the clock of `Dedup` |
| `Feeds` | `feed.New`, the head of `handle` | composes the three with the filter |
| `TradeFlow` | both normalizers, `internal/model/trade.go`, `scoring/scorer.py`, `process_message` | what becomes of one trade's data from feed to alert |
| `AsyncProducerProofs`, `PipelineProofs`, `FeedsProofs`, `TradeFlowProofs`, `RabbitSinkProofs`, `ScoringServiceProofs`, `ProcessorProofs`, `DashboardProofs` | | inductive invariants and the theorems of section 6; `PipelineProofs` instantiates `AsyncProducerProofs` as `Pipeline` does `AsyncProducer` |
| `MCAsyncProducer`, `MCDashboard`, `MCFeeds`, `MCPipeline`, `MCProcessor`, `MCRabbitSink`, `MCScoringService`, `MCTradeFlow` | | small instances for TLC |

### AsyncProducer

* `in` is the channel `p.in`, `quit` the closed state of `p.quit`, `closed` is
  `p.closed`. The read lock of `enqueue` is not a variable: a publisher with
  `pub[p] # Idle` is between the test of `p.closed` and the end of its `select`,
  and so holds it; `CloseLock` needs all of them to be `Idle`.
* `EnqueueSend`, `EnqueueQuit` and `EnqueueCtxDone` are the three cases of the
  `select` in `enqueue`. `CloseQuit`, `CloseLock`, `CloseFlushed` and
  `CloseTimedOut` are the steps of `Close`.
* The flusher is at `select` (the main loop), `drain` (the loop after
  `ctx.Done()`), `send`, `sleep`, `deadletter` (inside `deliver`) or `done`. `plan`
  holds the batches the current round of `flushMain`/`flushDLQ` still has to
  deliver, `exiting` whether the flusher returns after it.
* The sink is external. A call returns `nil` after accepting the batch, or an
  error after accepting part of it. With `SinkInOrder` that part is, for each
  key, a prefix of the messages of that key: a Kafka write appends to the
  partition of the key in order. RabbitMQ may reject a message and accept a later one,
  and then no order of a market is claimed. That `nil` means accepted is what the
  interface asks of a sink; `RabbitSink` checks one against it. The dead
  letter destination is kept as a set, because nothing depends on its order.
* `outcome` and `accepted` are history variables. Durations are abstracted: a
  ticker, a timer or the close timeout may fire at any step.

### Pipeline

A record is its position in the feed; `Symbol`, `Hash`, `TradeKey` and `Invalid`
give its shard, its deduplication key and the verdict of the normalizer.
Taking a record, `Seen` and entering `enqueue` are one step (`HandleRecord`): keys of
one symbol are only looked up by one worker, so no other goroutine can tell.
`Forget` is the expiry or eviction of any key. `CloseRaw` happens when the feed
has returned, or after a signal when the grace period is over; `FeedPanic` is the
send on the closed channel that the second case allows.

### RabbitSink

The caller is the flusher: a call of `Send` or `SendDeadLetter` with a new batch, or with
the batch that just failed. `channel` is `UseChannel`, `Connect` or `ConnectError`;
each `PublishWithContext` is a step, and so is each receive of `awaitConfirms`. `ch`
says whether `s.ch` is set; `link` is the state of the last connection, which `ch`
need not agree with: a broken connection is only noticed through `s.closeErr`, and
a channel the broker closed only through `ErrClosed`. `wire` and `confirms` are
the two directions of the AMQP channel. The broker and the library are external:
messages are taken in order, each is acked or nacked, and when the channel or the
connection goes, some of what was on the wire has been accepted without a confirm.
Only one session matters at a time, because `s.ch` is only cleared when the session it
belongs to is broken or closed.

### ScoringService

A scorer state is a function of the trades folded into it, so it is modelled as the
sequence of their offsets: "missing", "twice" and "out of order" can then be said.
`store` is the table `scorer_checkpoints`, `committed` the group's offset. Every
external call may succeed, or raise with or without its effect (`SaveError`,
`CommitError`, `FinalFlushError`, `FinalCommitError`). `StartBlank` is
`restore_all` swallowing an error, `StartNull` the fallback to
`NullCheckpointStore`. `Terminate` (SIGTERM, for which no handler is installed) and
`Crash` may happen between any two steps. `lapses` is a history of the unusual
events: a property that does not survive one of them says so in its hypothesis.

### Processor

Each worker is at `select`, in `Poll`, in one of the two `Forward` calls, or has returned;
`hand` is the message it holds. `position` is what the shared reader has handed out,
`marked` what the commit loop of the client library will commit, `committed` the
group's offset. `ReadMessage` marks the offset as it returns the message, so
nothing relates a commit to the forward of the message. A write may fail with or
without its effect; `answered` and `failed` are the history of what became of each offset.
`Normalize` is abstracted to its verdict.

### Dashboard

All tasks run in one event loop, so a step goes from one `await` to the next. `cons`
is where `_consume` awaits, `active` the live set `broadcast` iterates over, `members`
its contents when the loop began: a set iterator of Python compares sizes only, so
that one removal with one addition goes unnoticed and the loop may then miss a
connection. Each insert in `audit_logs` runs on a connection of its own in three steps:
the id is drawn from the sequence, the trigger reads the last committed row, the row
is committed. A hash is abstracted to the id of its row. `disturbed`, `overlapped` and
`lost` are histories that properties name in their hypotheses.

### Dedup, Feed, BinanceFeed, CSVFeed, SyntheticFeed, Feeds

A behaviour of `Feeds` runs the feed its configuration `cfg` names; `at` is where its
goroutine waits and `out` the channel. `Feed` has the ways a step can end: `Goto`,
`Send`, `Return` and `GiveUp`, which is what `send` and `sleepCtx` do with a cancelled
context. The workers behind the channel are one action, `Take`, which asks the filter.

* `BinanceFeed`. `made` is what the exchange has matched, `wire` what is on the open
  websocket. `BackfillRequest` and `SendRow` are `backfill`; `Dial`, `ReadFrame`,
  `SendFrame` and the ways they fail are `consume`; `PingFails` is `keepAlive`, which sets
  `deaf`: no further read of this session succeeds. Dials, requests and pings can fail at
  any step. A record remembers whether it is the `first` of its session, where a hole or a
  repetition may be. `attempt` is cut at `MaxAttempts`, from where the delay no longer
  changes.
* `CSVFeed`. A file is a header or not, its columns by their meaning, and for each row
  whether it parses; a parsed row says which columns its time and aggressor were taken
  from; `Wanted` is the set of lines a pass sends. `line` is the position of the reader, `lineNo` the counter of `runPass`, which
  differ once reading fails (`broken`). Waits of `pace` are of any length.
* `SyntheticFeed`. Ticks stand for the wall clock; one iteration of the loop reads it once.
  `delayed` are the symbols whose burst ran while the feed was held up, by a full channel
  or by the machine: of those no property speaks.
* `Dedup`. `entries` are the maps of all shards. `Seen` uses a clock reading that may be
  `Lag` old, for the time between `d.now()` and the lock.

### TradeFlow

The services take one step at a time and the topics are perfect, since the other modules
treat delivery; what varies is the data. A float is an integer, `NaN`, `Inf`, `Bad` (text that
is no number) or `Missing`, and `Huge` is the largest float, so that a product can overflow.
A symbol is a market and a spelling. `Ingest` is `handle` with `Normalize`, `Validate` and the
JSON encoding, and numbers the messages it writes (`nth`, a history); `Write` is any other program that writes to `trades.raw`; `Process` is `Normalize` of the
processing service; `Score` is `process_message` with `process_trade`. The statistics are kept
as exact fractions, `ewma` over `unit` and `var` over its square, for any rational
`alpha = Alpha / K`, so that nothing is cut off after any number of trades; the threshold test is
squared, with `variance_epsilon = 1 / Epsilon`. (The code's 1e-12 is out of TLC's integers: the run's
1e-5 decides alike, because a variance of whole volumes is 0 or far above both.) What floats
round or overflow is not modelled.

## 3. Runs and bounds

Each passing run is complete: TLC explores all the states of its instance.

| Run | Instance | Shows |
|---|---|---|
| `producer_safety` | 2 publishers, 1 closer, 3 trades (2 of one market), 1 reject, queue 1, batches 2 and 1, 1 retry | the safety of the producer |
| `producer_liveness` | 2 publishers, 1 closer, 2 trades, 1 reject, queue 1, batches 2 and 2, 1 retry | the producer implements `DeliveryContract`; progress |
| `pipeline` | 2 workers, 4 records of 2 symbols (one a repetition, one invalid), all channels 1, batches 2 and 1, no retry, at most 1 forgotten key | order, deduplication, conservation, nothing abandoned by the shutdown, which completes |
| `scoring` | 2 symbols, 6 messages (4 trades, an undecodable one and a poison), interval 2, 3 starts | recovery of the scorer |
| `rabbit` | 3 messages, batches of at most 2, 3 calls, at most 2 channel exceptions, any number of lost connections | what a `nil` means, what a broken channel costs, calls return |
| `processor` | 2 workers, 5 messages of every verdict, 2 starts | what the background commits can lose; a signal ends the service |
| `dashboard` | 2 browsers, 2 configuration requests, 3 messages of which 2 are toxicity alerts | what is shown is recorded, undisturbed broadcasts, the audit chain |
| `feeds` | channel 1; live: 5 frames of 2 symbols (one without a trade, one with an event time), backfill of 1 row or none, no limit or 2 reconnects; replay: 144 dumps of 3 rows (header or not, detected or told, two layouts, 3 starts, 3 limits, looped 3 times or not) and three odd ones; simulator: 2 symbols, bursts of 2 ticks, with and without a duration; filter: 1 key for each of 2 shards, TTL 2, lag 1 | continuity of sessions, the replay is the file, bursts show, the window of the filter, feeds return and reconnect |
| `trade_flow` | 2 markets, 198 records, 10 foreign messages, 2 settings, 4 messages written, alpha 1/3, warm-up 2 | no accepted trade is lost or refused later, nothing forwarded stops the scorer, scores and alerts are the definition's |
| `pipeline_run_returns`, `scoring_never_ahead`, `feeds_frames` | the same instances, or the pipeline with 3 records | claims of the documentation that fail, section 5 |

Why the bounds are enough. A queue of one is full as soon as a publisher is
ahead of the flusher, so two publishers give a blocked one, a successful one
and a race between them. A main batch of two can be half accepted and can be
left half full when the ticker fires. One retry separates the first attempt,
the last one, and a cancelled back-off; `MaxRetries = 0` in the pipeline is a legal
setting and goes straight to dead lettering. Three trades of two markets give
order within a market and independence across markets. In the pipeline the
repeated trade travels behind another symbol's trade, and its own symbol has a later
trade to be overtaken by. `MaxForgotten` bounds how often the filter forgets.
In the scorer an interval of two with two symbols lets one symbol be due while
the other has an unsaved trade, and three starts (`MaxStarts`) allow a crash during
the recovery from a crash. In
the processor five messages are more than the four that two runs of two workers can lose, so that
a loss without a bound would show. In the dashboard two browsers give a send that fails
before one that must succeed, and a browser that comes while another goes; two requests
and the stream give three writers of the audit log. Three calls of the RabbitMQ sink (`MaxCalls`) are a call that fails, its retry and the
batch after it. In `feeds` a channel of one is full after one record, so every feed blocks in `send`;
`MaxPasses` of 3 lets a limit of 3 sent rows fall into a second pass over two good rows; a
budget of one key makes every second key of a shard overflow it; the clock (`MaxTime`, and
`until` of a configuration) reaches twice the TTL, the end of a first burst and the begin of a
second. Four messages in `trade_flow` (`MaxTrades`) are two above the warm-up, for two markets. Symmetry (trades of one market and publishers
in `producer_safety`, browsers and requests in `dashboard`) is used only where no liveness is checked.

`CHECK_DEADLOCK FALSE`: the producer, the ingestor and its feeds, the sink, the processor, the dashboard and the scorer stop by design (`Close`
has returned, `Run` has returned or panicked, all calls or starts are used up).
"Nothing is stuck" is stated by the liveness properties instead.

Each property of a passing run comes with a mutant, an operator `Bug...` next to
the definition it replaces: an edit of the code a programmer could make, under
which TLC finds the property violated.

## 4. Properties

Producer:

* `NoSendOnClosedChannel`: `Close` never closes the channel under a publisher.
* `Accounting`: a message is in exactly one place until it is accounted for
  (`Conservation`); the four counters add up to what was accepted (`CountersReconcile`).
* `CountedIsDurable`: a partly accepted batch is never taken for a success.
* `FirstCopiesInQueueOrder`: order of a market, whatever is retried, partly accepted or given up.
* `BacklogBounded`, `FlusherStopsDrained`: memory during an outage; when the flusher
  may return.
* `AcceptedIsSettled`, `CallsReturn` (publishers and `Close`): progress.
* `ContractHolds`: the refinement of `DeliveryContract` (a message a caller is still
  offering is new to the contract, and `open` is `~closed`).

Pipeline: `SymbolOrderEndToEnd`, `OnePerTradeKey`, `RecordsConserved`, `NothingAbandoned` (what is
true of every record when `Run` returns; "read to its end" is said of a feed that does not fail, see `Feeds`
for those that do), `RunReturnsAfterFeed`.

Feeds: `SessionHasNoHoles` (within a session, or the backfilled rows of a symbol, no trade is
left out or repeated, also when the channel blocks or a ping fails), `ReplayIsTheFile` (what is sent is the rows of the file from
`StartRow` on in the order of the file, the first after the last when a pass follows, up to `MaxRows` over all passes, each with its own time and
aggressor), `BurstShows` (a burst longer than the longest gap has a toxic print unless the feed is held up),
`DuplicateWindow` (what the filter lets through and what it does not, by time), `FeedReturns`,
`LiveFeedReconnects`.

Trade data: `PublishedIsScored` (every accepted record is in `trades.raw`, in `trades.normalized` or
scored, once, in the order of acceptance and with its symbol and sign), `NoPoison`, `ScoresAreTheDefinition` (state and alerts of a symbol
are those of the weighted mean and variance of its own trades, defined by their weights and not
by recursion).

RabbitMQ sink: `FreshNilMeansAccepted` (on a channel without leftover confirms `nil`
means accepted, also after a reconnect), `BrokenChannelCostsOneCall`,
`SendReturns` (what
`WF(Flusher)` below relies on).

Scorer: `CheckpointBeforeCommit`, `AppliedExactlyOnce`,
`ReplayBoundedPerSymbol`, `ScoringGoesOn`.

Processor: `LossBoundedByWorkers` (without an answer and without a logged error below the
committed offset: at most one message for each worker and run), `ShutdownCompletes`.

Dashboard: `BroadcastIsRecorded`, `QuietBroadcastReachesAll`, `AuditIsTheHistory` (one line of
rows as long as no two inserts overlap, and the last recorded change is the
configuration in force).

Fairness and why the code justifies it:

* `WF(Flusher)`: a goroutine the Go runtime schedules, whose `select` always has the
  linger ticker and whose sink calls have write timeouts. The sink need not
  succeed.
* `WF(EnqueueSend \/ EnqueueQuit)`: a `select` with a case that stays ready takes it.
  Nothing is assumed of the caller's context.
* `WF` of `Close` after its first step only: nobody has to call it.
* In the pipeline, every goroutine; the feed is a finite one; `Signal`, `Forget` and
  `FeedPanic` are never forced.
* In the RabbitMQ sink, `WF` of the caller, whose waits all have a timeout; nothing of
  the broker.
* In the processor, `WF` of each worker except for a read that returns a message or an error:
  writes and a cancelled read return. Nothing is assumed of commits, of a signal or of a crash.
* In the feeds, `WF` of the feed's goroutine, whose dials, reads, requests and sleeps all
  have a timeout, `WF` of the clock, and `SF(Dial)`: a dial that is tried again and again succeeds
  once. Nothing is assumed of the exchange, the disk, the signal or the workers that empty the
  channel.
* In the scorer, `WF` of the loop; the saves and commits may fail for ever.

## 5. What the code does not keep

Three runs check a sentence of the documentation and expect a violation.

* `pipeline_run_returns`. "drains the dispatcher and workers, flushes queued
  batches, and only then closes" (`ingestion/README.md:346`). The flusher runs
  under the signal's context and `handle` publishes with `context.Background()`.
  After a signal the flusher may be gone while a worker blocks on the full
  queue; `a.wg.Wait()` waits for the worker, and `Close`, which would wake it, comes
  after the wait.
* `scoring_never_ahead`. "Kafka offsets are NEVER committed ahead of a PostgreSQL
  checkpoint" (`S:26`). The `finally` block commits although its save failed.
* `feeds_frames`. "decodeStreamMessage converts a combined-stream frame into a RawTrade"
  (`binance.go:273`). The probe for the name of the event (`binance.go:285`) declares only
  `json:"e"`. Go's `encoding/json` falls back to names that differ in case, so the number
  in `"E"`, which the two stream types expect beside it, is decoded into that string, `Unmarshal`
  returns an error and the frame is dropped: of frames with an event time the live feed sends none.

Seen while modelling, present in the models as steps, without a run of their own:

* The flusher stops at the cancellation of its context, not at `Close`; what is enqueued
  between the two stays in the channel, uncounted, against "Close stops accepting work,
  drains what is queued and releases the sink" (`B:183`).
* A call of the RabbitMQ sink that fails after publishing leaves its confirms on the channel; the
  next call counts them for its own batch and returns before the broker has it, against
  "Send only returns nil once the broker has accepted the batch" (`rabbitmq.go:24`; `leftover` in
  `FreshNilMeansAccepted`).
* SIGTERM ends the scorer without its `finally` block, against "On SIGINT / SIGTERM flush
  checkpoints then commit" (`S:22`; `Terminate`).
* Passes of a looped replay (`CSV_LOOP`) that follow each other within the TTL are duplicates to
  the filter: only the first is published.
* A file that can no longer be read keeps `runPass` in its loop for ever, whatever the context
  (`ReadFails`; `feed.go:61` says "MUST return as soon as ctx is cancelled"; `FeedReturns` excludes it).
* `aggTradeREST` and the stream types declare `json:"m"`, and the messages of the exchange also
  have an `"M"`: by the same rule it overwrites the aggressor.
* A headerless dump is read as a trades dump whatever `CSV_FORMAT` says: an aggregate dump of
  eight columns gets the last trade id as its time (excluded by `Described` in `ReplayIsTheFile`); and
  times in seconds are converted in files with a header only.
* With `BINANCE_STREAM=trade` the ids of the stream and of the backfill, which are those of
  aggregates, are unrelated, so the filter cannot join them.
* The reconnect counter counts over the life of the process, also across long healthy sessions, so
  `MaxReconnects` limits their total and delays stay long.
* `parseFloat` of the normalizer says it rejects NaN and infinities and does not; `Validate` does,
  later, under another reason. Records it rejects have used up a sequence number.
* Quantities from about 1e154 make the variance of a symbol infinite for good, and its scorer
  silent; `MAX_QUANTITY` is off by default.
* `Close` closes the sink after 30 s under a flusher that is still delivering
  (`CloseTimedOut`; `producer.go:56` says "after the final flush").
* A `Send` of the RabbitMQ sink after `Close` connects again, and nobody closes that
  connection; a channel exception leaks the connection it happened on.
* The trigger of `init.sql` takes no lock: two overlapping inserts link to the same row and the
  chain forks (`overlapped` in `ChainIsLine`, a part of `AuditIsTheHistory`).
* A connection that comes or goes during a broadcast ends it with a `RuntimeError`
  (`LoopError`): the remaining browsers do not get the alert, which was audited before.
* A configuration change is in force before its audit record is attempted, and stays
  when that fails (`UpdateAudit`), or when the reply to the upsert is lost (`UpdateError`).
* The processor commits offsets before it forwards their messages, and gives up a message
  whose forward fails (`WriteError`).
* After a signal the dispatcher discards records whose worker channel is full
  (`DispatchDiscard`), uncounted.
* When the grace period ends before the feed returns, `rawCh` is closed under it
  (`CloseRaw`, then `FeedPanic`; the comment at `M:262` says the feed has returned).
* SIGINT between `poll()` and `process_message()` commits the offset of a message
  that was not processed; a failed restore starts from blank states that are then
  saved over the old ones (both excluded by name in `CheckpointBeforeCommit`, and
  both make `NeverAhead` fail).
* The checkpoint interval counts trades per symbol, so the messages a crash
  replays are not bounded by `checkpoint_every` alone (`S:19`), but by it for each
  symbol, which is what `ReplayBoundedPerSymbol` says.

## 6. Proofs

Each theorem holds for every value of the constants that the named assumption of its component
allows; TLC evaluates the assumptions on the instances. The assumptions ask for
finite sets where the program has finitely many workers or records, for positive sizes where a
configuration of 0 is replaced or refused, and for the shape of inputs (a file is a sequence of good
and bad rows, a frame is a number). The bounds of the runs (`MaxStarts`, `MaxCalls`, `MaxTime`,
`MaxTrades` and the like) are parameters: nothing is proved of a particular value.

Few of the properties are inductive. Each module states the invariant that is, as a conjunction
of named parts, proves one step for each action and one below it for each part the action can disturb,
and combines them in the theorem. TLC has found every one of these invariants to hold on the instance of its
component's run, except `Wholesome` of `TradeFlowProofs`, whose sets are infinite
(its `ScoresInv` was checked over the symbols of the instance).

| Module | Theorem | Statement |
|---|---|---|
| `AsyncProducerProofs` | `Invariance`, `QueueOrder` | `[]IInv`, `[]QInv` |
| | `TypeCorrect` | `[]TypeOK` |
| | `PublishNeverPanics` | `[]NoSendOnClosedChannel` |
| | `BacklogStaysBounded` | `[]BacklogBounded` |
| | `CountersNeverLie` | `[]CountedIsDurable` |
| | `NothingLeftBehind` | `[]FlusherStopsDrained` |
| | `EverythingAccountedFor` | `[]Accounting` |
| | `QueueOrderSurvives` | `[]FirstCopiesInQueueOrder` |
| | `ContractImplemented` | `ContractHolds`: the producer implements `DeliveryContract` |
| `PipelineProofs` | `PipelineUsesProducer` | the pipeline implements `AsyncProducer`'s specification |
| | `TypeCorrect` | `[]TypeOK` |
| | `OneCopyIsPublished` | `[]OnePerTradeKey` |
| | `OrderSurvivesEndToEnd` | `[]SymbolOrderEndToEnd` |
| | `NoRecordIsLost` | `[]RecordsConserved` |
| | `ShutdownAbandonsNothing` | `[]NothingAbandoned` |
| `FeedsProofs` | `FilterIsImplemented` | the feeds call the filter as `DedupSpec` allows |
| | `FilterStaysBounded` | `DedupSpec => []DedupTypeOK`, with the budget of every shard |
| | `WindowHolds` | `[]DuplicateWindow` |
| | `TypesHold` | `[]TypeOK` |
| | `SessionOrder` | `SessionHasNoHoles` |
| | `ReplayHolds` | `[]ReplayIsTheFile` |
| | `BurstsShow` | `[]BurstShows` |
| `TradeFlowProofs` | `ScorerNeverPoisoned` | `[]NoPoison` |
| | `AcceptedIsScored` | `[]PublishedIsScored` |
| | `ScoresAreDefined` | `[]ScoresAreTheDefinition` |
| `RabbitSinkProofs` | `TypeCorrect` | `[]TypeOK` |
| | `OneCallPerBrokenChannel` | `[]BrokenChannelCostsOneCall` |
| | `NilMeansAccepted` | `[]FreshNilMeansAccepted` |
| `ScoringServiceProofs` | `TypeCorrect` | `[]TypeOK` |
| | `CommittedIsCheckpointed` | `[]CheckpointBeforeCommit` |
| | `ExactlyOnce` | `[]AppliedExactlyOnce` |
| | `ReplayIsBounded` | `[]ReplayBoundedPerSymbol` |
| `ProcessorProofs` | `LossIsBounded` | `[]LossBoundedByWorkers` |
| `DashboardProofs` | `TypeCorrect` | `[]TypeOK` |
| | `ReceivedIsRecorded` | `[]BroadcastIsRecorded` |
| | `AuditTellsTheHistory` | `[]AuditIsTheHistory` |
| | `QuietBroadcast` | `QuietBroadcastReachesAll` |

**Producer** (`ProducerAssumption`: positive sizes, finite disjoint sets of trades and rejects).
`BacklogBounded` says that a batch is within its limit, but a batch at its limit could then grow: it
needs `RoomInBatches`, that a batch which is not in `plan` has room for one more, and that
needs `FlusherWork`, that the flusher never selects with a plan left over.
`FlusherStopsDrained` needs `LastRound`, that once the flusher is on its way out the
channel is closed and empty and only the batches of its plan are filled, and
`QueuedInBacklog`, that an unaccounted message is in the channel or in a batch.
These are `IInv`. `QInv` adds the order: `Offers` (two publishers never offer one message), `Entered` (a message
enters the channel once, and is queued or accounted for from then on) and `Lined` (the
channel and the batches hold queued messages in the order of the queue, and the batches older ones),
from which it follows where every message is (`BacklogConserved`). `CountersReconcile` is a part because
each counter moves with the messages whose outcome changes; `TopicOrder` says that the topic
does not hold the later of two trades of a key before the earlier one is in it or given up.

In the refinement a message that is still offered is new to the contract (`Visible`); each action is
shown to be one of the contract's or a stutter, under `QInv`, which tells the contract's `Pending` from the rest.
A second call of `Close` is covered by the proof, which is for any set of closers, rather than by TLC.

**Pipeline** (`PipelineAssumption`: workers and records are numbered, sizes are positive). The producer inside the pipeline is
a behaviour of `AsyncProducer`, by a simulation proof with the publishers in place of the workers, so
the theorems above hold along it and are not proved again. `FeedOrder` says that every place a record can be in
(feed, `rawCh`, dispatcher, worker channel, worker, offered) is increasing and behind the next one, shard by shard;
with `FirstCopiesInQueueOrder` of the producer the topic is in order of the symbol. `Places` says that an
emitted record is in transit, a duplicate, discarded or produced, and in one of them only. `Keys` is about the filter alone.
`NothingAbandoned` puts the parts together: `ClosingOrder` says that a channel is closed only behind what
feeds it, and without a signal only once that has come to its end; `CloseOrder` that `Close` is called behind
the workers and returns when the flusher has, or after its timeout, and `ReturnedStays` that no step brings a
returned worker back to life; `Offering` that what is on offer is in a worker's hands. With `Places` no
record is on its way any more, and with the producer's `FlusherStopsDrained` none is queued.

**Feeds** (`DedupAssumption`, `FeedAssumption`, `BinanceAssumption`, `CSVAssumption`, `SyntheticAssumption`,
`FeedsAssumption`). `SystemInv` has five parts:

* `WindowInv`: `DuplicateWindow` speaks of the last answer only. `Timely` bounds an expiry by the time its
  key was let through, on both sides because a reading may be old; `Forgotten` says of a key without an entry that
  it has expired or its shard was dropped. `RecordEffect` and `RecordKeepsBudget` say what a sweep and a drop leave.
* `FeedInv`: what is held, sent and in the channel are records of the feed that runs, so that the filter is only
  asked for keys it knows.
* `LiveInv`: the websocket holds the newest frames (`OnTheWire`), the remaining rows of a backfill leave no trade
  of their symbol out (`Rows`), and what was read since the last frame sent could not be decoded (`Streamed`).
* `CSVInv`: the rows sent are counted and within the limit (`Counted`), the last one sent is the last wanted one before the
  line reached (`InOrder`), and so `Ordered` and `Complete`, which are what `ReplayIsTheFile` says.
* `SynInv`: no print is due later than the longest gap from now, and the first one due is the one waited for (`Due`); a burst
  that has not shown has its symbol's next print before its end (`ToCome`).

**Trade data** (`TradeFlowAssumption`). `Wholesome` says that the topics only hold what their writers can write, in terms of
the sets `RawMessages`, `NormalizedMessages` and `ScoredTrades`. `AcceptedIsSound` is the
lemma that what `Accepts` leaves can be encoded, `OwnPass` that the second normalizer passes it on unaltered, and
`NormalizedIsHarmless` that nothing it passes on raises. `PublishedIsScored` is then inductive with `Wholesome`: `Ahead`
says that what has come further was accepted earlier, so that each service adds the next number behind the others.

`ScoresAreTheDefinition` compares a state that is updated trade by trade with sums of any length, which takes induction over
them. The library's induction theorems have an operator as parameter, which the provers cannot instantiate;
`Induction` states the same of a set `P` of numbers and is proved from the library's theorem that a non-empty
set has a least element under a well-founded relation. It gives existence and uniqueness of the recursive functions behind `Sum`, `Power` and
`Volumes`, and so the lemmas that say what one more term does (`SumStep`, `PowerStep`, `VolumesStep`). From them come
`ShareStep`, `MeanStep`, `SpreadStep` and `VarianceStep`: with one more volume every weight is multiplied by `1 - alpha` and the
new one has weight `alpha`. `StatisticsStep` concludes that what `process_trade` makes of the statistics of `n`
volumes is the statistics of `n + 1`. `ScoresInv` adds that a symbol has a scorer exactly when a trade of it was
scored, which `Score` needs to begin a `Blank` state; `ScoreCounts` is its step. The volumes are
numbers because the second normalizer lets nothing else through (`ScoredAreSigned`).

**RabbitMQ sink** (`RabbitAssumption`). `CallShape` says how far a call is; `OneStrike` that a call which ran
into a broken channel has not published yet or has made the sink forget the channel. `LinedUp` is behind
`FreshNilMeansAccepted`: in a call that started without leftovers the confirms received, those waiting, and the messages
still on the wire are the batch, in its order.

**Scorer** (`ScoringAssumption`). `Progress` orders offsets. Each theorem has its own part, with the lapses it excludes:
`NothingMissing` (the registry holds every trade handled; between save and commit the checkpoints hold every trade
about to be committed), `NothingTwice` (a state is the trades handled, once each, ascending; the checkpoints are
the states wherever a restart would not replay) and `CountersHold` (a counter is the number of trades of its symbol above the
committed offset, and a symbol that is due is saved before the next poll).

**Processor** (`ProcessorAssumption`). `Budget` counts: messages handed out without an answer or a logged error, and one for each
worker, are at most one for each worker and start, and one for each worker that is `Spent`. A worker can take a
message only if it was not spent, and is spent until it answers; a restart buys one for each worker.

**Dashboard** (`DashboardAssumption`). `Numbering` (ids are drawn once) and `Turns` (while writers take turns, the
one at work comes after every row and links to the last) carry `ChainIsLine`; `Current` and `Waiting` relate the
configuration to the request whose insert is under way; `Recorded` says that an alert is stored before it is audited and
audited before it is sent; `Quiet` what an undisturbed loop has served.

Only model-checked:

* Liveness (`AcceptedIsSettled`, `CallsReturn`, `RunReturnsAfterFeed`, `FeedReturns`, `LiveFeedReconnects`,
  `SendReturns`, `ScoringGoesOn`, `ShutdownCompletes`): progress under fairness is outside what the prover handles.
* The three violated properties of section 5: a counterexample is what they are for.

Only proved: the type correctness of `RabbitSink`, which no run lists.

## 7. Not modelled

The text of fields (parsing of numbers and times, formatting), prices and sizes of the simulator,
rounding and overflow of the scorer's floats, the reading of configurations, metrics,
logging and HTTP endpoints, the Kafka and stdout sinks beyond the `Sink` interface, the front end, the
notification agent and the sample generators. Lag, partitions and rebalancing of the broker are not
modelled: a topic is one log with one consumer. Time is abstracted to "may happen at any step", but for
the filter and the simulator, which compare clock readings. `Pipeline` takes a finite feed and
`Feeds` a consumer that may stop: the two are not composed, because a feed and the pipeline only
share the channel, the context and the grace period, and each module leaves the other side of these free.

## 8. Plan

1. Done: the models of sections 2 and 3, and proofs of every safety and action property the passing
   runs check, with the refinement of `DeliveryContract`.
2. A proof that the feeds and the pipeline fit together at the channel they share.
3. A restart of the dashboard, and the resolution of the configuration with its limits.
