------------------------------ MODULE Pipeline ------------------------------
(***************************************************************************)
(* The ingestor process: feed, dispatcher, worker pool, producer and their *)
(* shutdown (ingestion/cmd/ingestor/main.go: Run, runPipeline, runWorker,  *)
(* handle, deadLetter), composed with the producer of AsyncProducer, whose *)
(* publishers are the workers and whose one closer is Run.                 *)
(*                                                                         *)
(*   feed -> rawCh -> dispatcher -> workerCh[w] -> worker w -> producer    *)
(*                                                                         *)
(* The context of SIGINT/SIGTERM stops the feed and the producer's         *)
(* flusher; Run closes the channels one after the other behind the feed.   *)
(*                                                                         *)
(* Abstracted: a record is its position in the feed, with a shard, a       *)
(* deduplication key and the verdict of the normalizer; a key remembered   *)
(* by the duplicate filter may have expired or been evicted.               *)
(***************************************************************************)
EXTENDS Naturals, Sequences, FiniteSets, Functions

CONSTANTS
  Workers,        \* indices of the worker goroutines, 0..n-1
  Records,        \* records of the feed, 1..n, in feed order
  Symbol,         \* the normalised symbol of a record
  Hash,           \* fnv hash of a symbol
  TradeKey,       \* (exchange, symbol, trade id) of a record
  Invalid,        \* records the normalizer rejects
  FeedQueueSize,  \* capacity of rawCh
  ChannelSize,    \* capacity of a worker channel
  MaxForgotten,   \* bound: keys the duplicate filter forgets
  QueueSize, BatchSize, DLQBatchSize, MaxRetries, SinkInOrder  \* see AsyncProducer

None == 0     \* no record
Main == "Run" \* the goroutine that calls Close

(* At least one worker (the configuration's validation), a hash of 32 bits *)
(* taken as a natural number, and the sizes that NewAsync makes positive.  *)
ASSUME PipelineAssumption ==
  /\ IsFiniteSet(Workers) /\ Workers # {}
  /\ Workers = 0..(Cardinality(Workers) - 1)
  /\ IsFiniteSet(Records) /\ Records = 1..Cardinality(Records)
  /\ Invalid \subseteq Records
  /\ Records \subseteq DOMAIN TradeKey
  /\ \A r \in Records : Hash[Symbol[r]] \in Nat
  /\ FeedQueueSize \in Nat \ {0}
  /\ ChannelSize \in Nat \ {0}
  /\ MaxForgotten \in Nat
  /\ QueueSize \in Nat \ {0}
  /\ BatchSize \in Nat \ {0}
  /\ DLQBatchSize \in Nat \ {0}
  /\ MaxRetries \in Nat
  /\ SinkInOrder \in BOOLEAN

VARIABLES
  feed,        \* "running" or "returned"
  next,        \* next record the feed emits
  rawCh,       \* contents of the channel rawCh
  rawClosed,   \* rawCh is closed
  held,        \* record the dispatcher wants to pass on, or None
  workerCh,    \* contents of the worker channels
  chClosed,    \* the dispatcher has closed the worker channels and returned
  seen,        \* keys recorded by the duplicate filter
  forgotten,   \* history: keys that expired or were evicted
  main,        \* where runPipeline is
  duplicates,  \* history: records filtered out as duplicates
  discarded,   \* history: records the dispatcher gave up on
  \* variables of the producer
  pub, in, quit, closed, closer, timedOut, sinkClosed, cancelled, flusher,
  batch, plan, exiting, attempt, tally, topic, dlqTopic, accepted, outcome

filterVars == <<seen, forgotten>>
pipelineVars == <<feed, next, rawCh, rawClosed, held, workerCh, chClosed, filterVars,
                  main, duplicates, discarded>>
producerVars == <<pub, in, quit, closed, closer, timedOut, sinkClosed,
                  cancelled, flusher, batch, plan, exiting, attempt, tally,
                  topic, dlqTopic, accepted, outcome>>
vars == <<pipelineVars, producerVars>>

Producer == INSTANCE AsyncProducer WITH
  Publishers <- Workers,
  Closers <- {Main},
  Trades <- Records \ Invalid,
  Rejects <- Invalid,
  KeyOf <- Symbol,
  Idle <- None

TypeOK ==
  /\ Producer!TypeOK
  /\ feed \in {"running", "returned"}
  /\ next \in 1..(Cardinality(Records) + 1)
  /\ rawCh \in Seq(Records) /\ Len(rawCh) <= FeedQueueSize
  /\ rawClosed \in BOOLEAN /\ chClosed \in BOOLEAN
  /\ held \in Records \cup {None}
  /\ workerCh \in [Workers -> Seq(Records)]
  /\ \A w \in Workers : Len(workerCh[w]) <= ChannelSize
  /\ seen \subseteq Range(TradeKey) /\ forgotten \subseteq Range(TradeKey)
  /\ main \in {"running", "waiting", "closing", "panicked"}
  /\ duplicates \subseteq Records /\ discarded \subseteq Records

Init ==
  /\ Producer!Init
  /\ feed = "running" /\ next = 1
  /\ rawCh = <<>> /\ rawClosed = FALSE
  /\ held = None
  /\ workerCh = [w \in Workers |-> <<>>] /\ chClosed = FALSE
  /\ seen = {} /\ forgotten = {}
  /\ main = "running"
  /\ duplicates = {} /\ discarded = {}

Alive == main # "panicked"

-----------------------------------------------------------------------------
(* The feed goroutine.                                                     *)

More == feed = "running" /\ next \in Records

(* send: the record enters rawCh. *)
FeedSend ==
  /\ More
  /\ ~rawClosed
  /\ Len(rawCh) < FeedQueueSize
  /\ rawCh' = Append(rawCh, next)
  /\ next' = next + 1
  /\ UNCHANGED <<feed, rawClosed, held, workerCh, chClosed, filterVars, main,
                 duplicates, discarded, producerVars>>

(* send on the closed rawCh: the process panics. *)
FeedPanic ==
  /\ More
  /\ rawClosed
  /\ main' = "panicked"
  /\ UNCHANGED <<feed, next, rawCh, rawClosed, held, workerCh, chClosed, filterVars,
                 duplicates, discarded, producerVars>>

(* The feed is exhausted, or notices that the context is done. *)
FeedReturn ==
  /\ feed = "running"
  /\ next \notin Records \/ cancelled
  /\ feed' = "returned"
  /\ UNCHANGED <<next, rawCh, rawClosed, held, workerCh, chClosed, filterVars, main,
                 duplicates, discarded, producerVars>>

-----------------------------------------------------------------------------
(* The dispatcher goroutine.                                               *)

(* Mutant: records are spread over the workers regardless of the symbol. *)
BugShardIndex(r) == r % Cardinality(Workers)

ShardIndex(r) == Hash[Symbol[r]] % Cardinality(Workers)

DispatchTake ==
  /\ held = None
  /\ rawCh # <<>>
  /\ held' = Head(rawCh)
  /\ rawCh' = Tail(rawCh)
  /\ UNCHANGED <<feed, next, rawClosed, workerCh, chClosed, filterVars, main,
                 duplicates, discarded, producerVars>>

(* Mutant: off by one. *)
BugHasRoom(w) == Len(workerCh[w]) <= ChannelSize

HasRoom(w) == Len(workerCh[w]) < ChannelSize

DispatchSend ==
  /\ held # None
  /\ HasRoom(ShardIndex(held))
  /\ workerCh' = [workerCh EXCEPT ![ShardIndex(held)] = Append(@, held)]
  /\ held' = None
  /\ UNCHANGED <<feed, next, rawCh, rawClosed, chClosed, filterVars, main,
                 duplicates, discarded, producerVars>>

(* The context is done and the worker's channel is full: the record is     *)
(* discarded without a trace.                                              *)
DispatchDiscard ==
  /\ held # None
  /\ cancelled
  /\ ~HasRoom(ShardIndex(held))
  /\ discarded' = discarded \cup {held}
  /\ held' = None
  /\ UNCHANGED <<feed, next, rawCh, rawClosed, workerCh, chClosed, filterVars, main,
                 duplicates, producerVars>>

(* Mutant: the dispatcher returns without closing the worker channels. *)
BugDispatchReturn == FALSE /\ UNCHANGED vars

(* rawCh is closed and drained: the worker channels are closed. *)
DispatchReturn ==
  /\ held = None
  /\ rawCh = <<>> /\ rawClosed /\ ~chClosed
  /\ chClosed' = TRUE
  /\ UNCHANGED <<feed, next, rawCh, rawClosed, held, workerCh, filterVars, main,
                 duplicates, discarded, producerVars>>

Dispatcher == DispatchTake \/ DispatchSend \/ DispatchDiscard \/ DispatchReturn

-----------------------------------------------------------------------------
(* Worker w: handle, for one record.  Nothing another goroutine does can   *)
(* be seen between taking the record and entering enqueue: the keys of one *)
(* symbol are only looked up by one worker.                                *)

WorkerTake(w) ==
  /\ pub[w] = None
  /\ workerCh[w] # <<>>
  /\ workerCh' = [workerCh EXCEPT ![w] = Tail(@)]

(* Mutant: a duplicate is counted, and published all the same. *)
BugHandleDuplicate(w) ==
  /\ WorkerTake(w)
  /\ LET r == Head(workerCh[w])
     IN  /\ TradeKey[r] \in seen
         /\ duplicates' = duplicates \cup {r}
         /\ Producer!EnqueueStart(w, r)
  /\ UNCHANGED <<feed, next, rawCh, rawClosed, held, chClosed, filterVars, main,
                 discarded>>

(* dedup.Seen: the key was recorded before. *)
HandleDuplicate(w) ==
  /\ WorkerTake(w)
  /\ LET r == Head(workerCh[w])
     IN  /\ TradeKey[r] \in seen
         /\ duplicates' = duplicates \cup {r}
  /\ UNCHANGED <<feed, next, rawCh, rawClosed, held, chClosed, filterVars, main,
                 discarded, producerVars>>

(* Mutant: the key is not recorded. *)
BugRecordKey(r) == UNCHANGED <<seen, forgotten>>

(* dedup.Seen records the key as a side effect. *)
RecordKey(r) == seen' = seen \cup {TradeKey[r]} /\ UNCHANGED forgotten

(* A key not recorded, or no longer; the record goes to Publish if the     *)
(* normalizer accepts it, to DeadLetter otherwise.                         *)
HandleRecord(w) ==
  /\ WorkerTake(w)
  /\ TradeKey[Head(workerCh[w])] \notin seen
  /\ RecordKey(Head(workerCh[w]))
  /\ Producer!EnqueueStart(w, Head(workerCh[w]))
  /\ UNCHANGED <<feed, next, rawCh, rawClosed, held, chClosed, main,
                 duplicates, discarded>>

(* A key expires, or its shard of the filter is over budget and dropped. *)
Forget ==
  /\ Cardinality(forgotten) < MaxForgotten
  /\ \E k \in seen : seen' = seen \ {k} /\ forgotten' = forgotten \cup {k}
  /\ UNCHANGED <<feed, next, rawCh, rawClosed, held, workerCh, chClosed, main,
                 duplicates, discarded, producerVars>>

(* The worker is blocked in enqueue; only deadLetter sets a timeout. *)
InEnqueue(w) ==
  /\ \/ Producer!EnqueueSend(w)
     \/ pub[w] \in Invalid /\ Producer!EnqueueCtxDone(w)
  /\ UNCHANGED pipelineVars

Worker(w) == HandleDuplicate(w) \/ HandleRecord(w) \/ InEnqueue(w)

WorkerReturned(w) == chClosed /\ workerCh[w] = <<>> /\ pub[w] = None

-----------------------------------------------------------------------------
(* runPipeline and Run.                                                    *)

(* Either the feed has returned, or the signal has arrived and the grace   *)
(* period is over: rawCh is closed.                                        *)
CloseRaw ==
  /\ main = "running"
  /\ feed = "returned" \/ cancelled
  /\ rawClosed' = TRUE
  /\ main' = "waiting"
  /\ UNCHANGED <<feed, next, rawCh, held, workerCh, chClosed, filterVars, duplicates,
                 discarded, producerVars>>

(* Mutant: the dispatcher is waited for, the workers are not. *)
BugPipelineDone == chClosed

(* <-dispatchDone; a.wg.Wait() *)
PipelineDone == \A w \in Workers : WorkerReturned(w)

(* runPipeline returns and Run calls the producer's Close. *)
CloseProducer ==
  /\ main = "waiting"
  /\ PipelineDone
  /\ main' = "closing"
  /\ Producer!CloseQuit(Main)
  /\ UNCHANGED <<feed, next, rawCh, rawClosed, held, workerCh, chClosed, filterVars,
                 duplicates, discarded>>

ClosingProducer ==
  /\ \/ Producer!CloseLock(Main)
     \/ Producer!CloseFlushed(Main)
     \/ Producer!CloseTimedOut(Main)
  /\ UNCHANGED pipelineVars

(* Run has returned. *)
Stopped == closer[Main] = "returned"

Run == CloseRaw \/ CloseProducer \/ ClosingProducer

(* SIGINT or SIGTERM. *)
Signal == ~Stopped /\ Producer!Cancel /\ UNCHANGED pipelineVars

Flusher == Producer!Flusher /\ UNCHANGED pipelineVars

-----------------------------------------------------------------------------
(* After a panic the process is gone. *)
Next ==
  \/ Alive /\ (FeedSend \/ FeedReturn)
  \/ Alive /\ FeedPanic
  \/ Alive /\ Dispatcher
  \/ \E w \in Workers : Alive /\ Worker(w)
  \/ Alive /\ Forget
  \/ Alive /\ Run
  \/ Alive /\ Signal
  \/ Alive /\ Flusher

Spec == Init /\ [][Next]_vars

(* Every goroutine is scheduled again and again; the feed is a finite one  *)
(* (a CSV file); the sink's calls return.  A signal need not come.         *)
FairSpec ==
  /\ Spec
  /\ WF_vars(Alive /\ (FeedSend \/ FeedReturn))
  /\ WF_vars(Alive /\ Dispatcher)
  /\ \A w \in Workers : WF_vars(Alive /\ Worker(w))
  /\ WF_vars(Alive /\ Run)
  /\ WF_vars(Alive /\ Flusher)

-----------------------------------------------------------------------------
(* Safety.                                                                 *)

SameSymbol(r, s) == Symbol[r] = Symbol[s]

(* "The dispatcher shards by symbol, so per-symbol order survives end to   *)
(* end" (README.md:170): with several workers racing for the producer's    *)
(* queue, and with batches retried or given up, the trades of a symbol     *)
(* first appear in the topic in feed order (over a sink that skips none).  *)
SymbolOrderEndToEnd ==
  SinkInOrder =>
  \A r, s \in Range(topic) :
    r < s /\ SameSymbol(r, s) =>
      Producer!FirstCopy(r) < Producer!FirstCopy(s)

(* Of a trade the exchange delivers twice, one copy reaches the producer,  *)
(* as long as its key is remembered.                                       *)
OnePerTradeKey ==
  \A i, j \in DOMAIN accepted :
    i # j /\ TradeKey[accepted[i]] \notin forgotten
      => TradeKey[accepted[i]] # TradeKey[accepted[j]]

InFlight(r) ==
  Cardinality({i \in DOMAIN rawCh : rawCh[i] = r})
    + (IF held = r THEN 1 ELSE 0)
    + Cardinality({s \in Workers \X (1..ChannelSize) :
                     s[2] <= Len(workerCh[s[1]]) /\ workerCh[s[1]][s[2]] = r})

(* Conservation along the whole pipeline: a record the feed emitted is in  *)
(* exactly one channel or goroutine, or has become exactly one of: a       *)
(* duplicate, discarded by the dispatcher, in the producer's hands.        *)
RecordsConserved ==
  \A r \in Records :
    InFlight(r)
      + (IF r \in duplicates THEN 1 ELSE 0)
      + (IF r \in discarded THEN 1 ELSE 0)
      + (IF outcome[r] # "new" THEN 1 ELSE 0)
    = IF r < next THEN 1 ELSE 0

(* What graceful shutdown is worth: when Run returns, no record the feed   *)
(* emitted is left in a channel, in a worker's hands or half published.    *)
(* It was filtered out, discarded by the dispatcher, accounted for by the  *)
(* flusher, or given up after deadLetter's timeout (a malformed one); it   *)
(* is still queued only if the signal stopped the flusher or Close did not *)
(* wait for it.  Without a signal the feed was read to its end, and the    *)
(* dispatcher discarded nothing.                                           *)
NothingAbandoned ==
  Stopped =>
    /\ \A r \in Records : r < next =>
         \/ r \in duplicates \cup discarded
         \/ outcome[r] \in Producer!Settled
         \/ outcome[r] = "refused" /\ r \in Invalid
         \/ outcome[r] = "queued" /\ (cancelled \/ timedOut)
    /\ ~cancelled => next \notin Records /\ discarded = {}

(* Liveness: without a signal, Run returns once the feed is exhausted,     *)
(* whatever the sink does.                                                 *)
RunReturnsAfterFeed == []~cancelled => <>Stopped

-----------------------------------------------------------------------------
(* A claim of the documentation that the code does not keep.               *)

(* "SIGTERM/SIGINT stops the feed, drains the dispatcher and workers,      *)
(* flushes queued batches, and only then closes the broker connection"     *)
(* (README.md:346): Run returns at all.                                    *)
RunReturns == (cancelled /\ Alive) ~> (Stopped \/ ~Alive)
=============================================================================
