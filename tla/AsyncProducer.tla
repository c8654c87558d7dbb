--------------------------- MODULE AsyncProducer ---------------------------
(***************************************************************************)
(* The ingestor's batching, retrying producer                              *)
(* (ingestion/internal/producer/batcher.go, producer.go).                  *)
(*                                                                         *)
(* Worker goroutines call Publish and DeadLetter, which block on a bounded *)
(* channel `in`.  One flusher goroutine (loop) moves messages from the     *)
(* channel into a main batch and a dead letter batch and writes each batch *)
(* to the sink, retrying, then dead lettering, then dropping.  Close may   *)
(* run at any time, and the context given to Start may be cancelled at any *)
(* time.  The sink (Kafka, RabbitMQ, stdout) is external: a call of it     *)
(* accepts some of the batch and reports success or an error.              *)
(*                                                                         *)
(* Abstracted: payloads (a message is a model value), durations (a linger  *)
(* tick, a back-off timer and the 30 s close timeout may fire at any       *)
(* moment), and the gauges, logs and byte/batch/retry tallies.             *)
(***************************************************************************)
EXTENDS Naturals, Sequences, FiniteSets, Functions

CONSTANTS
  Publishers,    \* goroutines that call Publish or DeadLetter
  Closers,       \* goroutines that call Close
  Trades,        \* messages given to Publish
  Rejects,       \* messages given to DeadLetter
  KeyOf,         \* the partition key "exchange:symbol" of each message
  QueueSize,     \* AsyncOptions.QueueSize, the capacity of the channel
  BatchSize,     \* AsyncOptions.BatchSize
  DLQBatchSize,  \* AsyncOptions.DLQBatchSize
  MaxRetries,    \* AsyncOptions.MaxRetries, attempts after the first
  SinkInOrder,   \* the sink never skips a message of a key (see KeyPrefixes)
  Idle           \* a publisher that is outside enqueue

Msgs == Trades \cup Rejects

(* NewAsync replaces a size that is not positive by a default; nothing     *)
(* forbids MaxRetries = 0.                                                 *)
ASSUME ProducerAssumption ==
  /\ QueueSize \in Nat \ {0}
  /\ BatchSize \in Nat \ {0}
  /\ DLQBatchSize \in Nat \ {0}
  /\ MaxRetries \in Nat
  /\ SinkInOrder \in BOOLEAN
  /\ IsFiniteSet(Trades) /\ IsFiniteSet(Rejects)
  /\ Trades \cap Rejects = {}
  /\ Idle \notin Msgs

VARIABLES
  pub,        \* the message each publisher holds inside enqueue, or Idle
  in,         \* contents of the channel p.in
  quit,       \* close(p.quit) has happened
  closed,     \* p.closed; the channel p.in is closed in the same step
  closer,     \* where each caller of Close is
  timedOut,   \* Close gave up waiting for the flusher
  sinkClosed, \* sink.Close() has been called
  cancelled,  \* the context given to Start is done
  flusher,    \* where the flusher goroutine is
  batch,      \* mainBatch and dlqBatch
  plan,       \* batches still to be delivered in this round of flushes
  exiting,    \* the flusher returns after this round
  attempt,    \* retry counter of deliver
  tally,      \* the counters published, failed, deadLettered, dropped
  topic,      \* messages the sink accepted for the main destination
  dlqTopic,   \* messages the sink accepted for the dead letter destination
  accepted,   \* history: messages in the order they entered the channel
  outcome     \* history: what became of each message

publisherVars == <<pub, in, accepted>>
closeVars     == <<quit, closed, closer, timedOut, sinkClosed>>
flusherVars   == <<flusher, batch, plan, exiting, attempt, tally>>
sinkVars      == <<topic, dlqTopic>>
vars == <<publisherVars, closeVars, cancelled, flusherVars, sinkVars, outcome>>

Kinds == {"main", "dlq"}
KindOf(m) == IF m \in Rejects THEN "dlq" ELSE "main"
Limit == [main |-> BatchSize, dlq |-> DLQBatchSize]

Settled == {"published", "deadLettered", "dropped"}

TypeOK ==
  /\ pub \in [Publishers -> Msgs \cup {Idle}]
  /\ in \in Seq(Msgs)
  /\ quit \in BOOLEAN /\ closed \in BOOLEAN
  /\ closer \in [Closers -> {"idle", "lock", "await", "returned"}]
  /\ timedOut \in BOOLEAN /\ sinkClosed \in BOOLEAN
  /\ cancelled \in BOOLEAN
  /\ flusher \in {"select", "drain", "send", "sleep", "deadletter", "done"}
  /\ batch \in [main : Seq(Trades), dlq : Seq(Rejects)]
  /\ plan \in SUBSET Kinds
  /\ exiting \in BOOLEAN
  /\ attempt \in 0..MaxRetries
  /\ tally \in [published : Nat, failed : Nat, deadLettered : Nat, dropped : Nat]
  /\ topic \in Seq(Trades)
  /\ dlqTopic \in SUBSET Msgs
  /\ accepted \in Seq(Msgs)
  /\ outcome \in [Msgs -> {"new", "offered", "queued", "refused"} \cup Settled]

(* NewAsync followed by Start: the flusher is running, nothing is queued.  *)
Init ==
  /\ pub = [p \in Publishers |-> Idle]
  /\ in = <<>>
  /\ quit = FALSE /\ closed = FALSE
  /\ closer = [c \in Closers |-> "idle"]
  /\ timedOut = FALSE /\ sinkClosed = FALSE
  /\ cancelled = FALSE
  /\ flusher = "select"
  /\ batch = [main |-> <<>>, dlq |-> <<>>]
  /\ plan = {}
  /\ exiting = FALSE
  /\ attempt = 0
  /\ tally = [published |-> 0, failed |-> 0, deadLettered |-> 0, dropped |-> 0]
  /\ topic = <<>> /\ dlqTopic = {}
  /\ accepted = <<>>
  /\ outcome = [m \in Msgs |-> "new"]

-----------------------------------------------------------------------------
(* Publish and DeadLetter: enqueue holds the read lock from the test of    *)
(* p.closed to the end of its select, so a publisher with pub[p] # Idle is *)
(* a holder of the read lock.                                              *)

(* enqueue finds the producer closed and returns ErrClosed. *)
EnqueueRefused(p, m) ==
  /\ pub[p] = Idle /\ outcome[m] = "new"
  /\ closed
  /\ outcome' = [outcome EXCEPT ![m] = "refused"]
  /\ UNCHANGED <<publisherVars, closeVars, cancelled, flusherVars, sinkVars>>

(* enqueue takes the read lock and reaches its select. *)
EnqueueStart(p, m) ==
  /\ pub[p] = Idle /\ outcome[m] = "new"
  /\ ~closed
  /\ pub' = [pub EXCEPT ![p] = m]
  /\ outcome' = [outcome EXCEPT ![m] = "offered"]
  /\ UNCHANGED <<in, accepted, closeVars, cancelled, flusherVars, sinkVars>>

(* case p.in <- e: there is room in the channel. *)
EnqueueSend(p) ==
  /\ pub[p] # Idle
  /\ Len(in) < QueueSize
  /\ in' = Append(in, pub[p])
  /\ accepted' = Append(accepted, pub[p])
  /\ outcome' = [outcome EXCEPT ![pub[p]] = "queued"]
  /\ pub' = [pub EXCEPT ![p] = Idle]
  /\ UNCHANGED <<closeVars, cancelled, flusherVars, sinkVars>>

LeaveEnqueue(p) ==
  /\ pub[p] # Idle
  /\ outcome' = [outcome EXCEPT ![pub[p]] = "refused"]
  /\ pub' = [pub EXCEPT ![p] = Idle]
  /\ UNCHANGED <<in, accepted, closeVars, cancelled, flusherVars, sinkVars>>

(* Mutant: a blocked publisher does not listen to quit. *)
BugEnqueueQuit(p) == FALSE /\ LeaveEnqueue(p)

(* case <-p.quit *)
EnqueueQuit(p) == quit /\ LeaveEnqueue(p)

(* case <-ctx.Done(): the caller's own context, e.g. the two second        *)
(* timeout of the ingestor's deadLetter.                                   *)
EnqueueCtxDone(p) == LeaveEnqueue(p)

-----------------------------------------------------------------------------
(* Close.                                                                  *)

(* closeOnce: close(p.quit) wakes the publishers blocked on a full queue. *)
CloseQuit(c) ==
  /\ closer[c] = "idle"
  /\ quit' = TRUE
  /\ closer' = [closer EXCEPT ![c] = "lock"]
  /\ UNCHANGED <<publisherVars, closed, timedOut, sinkClosed, cancelled,
                 flusherVars, sinkVars, outcome>>

(* Mutant: Close does not wait for the readers. *)
BugWriteLockFree == TRUE

(* The write lock is granted once no publisher is inside enqueue. *)
WriteLockFree == \A p \in Publishers : pub[p] = Idle

(* The first caller closes the channel; a later one returns at once. *)
CloseLock(c) ==
  /\ closer[c] = "lock"
  /\ WriteLockFree
  /\ closed' = TRUE
  /\ closer' = [closer EXCEPT ![c] = IF closed THEN "returned" ELSE "await"]
  /\ UNCHANGED <<publisherVars, quit, timedOut, sinkClosed, cancelled,
                 flusherVars, sinkVars, outcome>>

CloseSink(c) ==
  /\ closer[c] = "await"
  /\ sinkClosed' = TRUE
  /\ closer' = [closer EXCEPT ![c] = "returned"]
  /\ UNCHANGED <<publisherVars, quit, closed, cancelled, flusherVars,
                 sinkVars, outcome>>

(* case <-waitDone: the flusher has returned. *)
CloseFlushed(c) ==
  /\ flusher = "done"
  /\ CloseSink(c)
  /\ UNCHANGED timedOut

(* case <-time.After(30 * time.Second) *)
CloseTimedOut(c) ==
  /\ CloseSink(c)
  /\ timedOut' = TRUE

(* The context given to Start is cancelled (SIGINT, SIGTERM). *)
Cancel ==
  /\ ~cancelled
  /\ cancelled' = TRUE
  /\ UNCHANGED <<publisherVars, closeVars, flusherVars, sinkVars, outcome>>

-----------------------------------------------------------------------------
(* The flusher goroutine: loop.                                            *)

(* flushMain() runs before flushDLQ(). *)
Current == IF "main" \in plan THEN "main" ELSE "dlq"

(* Deliver the batches named in `todo`, then return or select again. *)
Proceed(todo, exit) ==
  /\ plan' = todo
  /\ exiting' = exit
  /\ attempt' = 0
  /\ flusher' = IF todo # {} THEN "send" ELSE IF exit THEN "done" ELSE "select"

NonEmpty(b) == {k \in Kinds : b[k] # <<>>}

(* Mutant: a batch is filled from the front. *)
BugTakeFromChannel ==
  /\ in # <<>>
  /\ in' = Tail(in)
  /\ batch' = [batch EXCEPT ![KindOf(Head(in))] = <<Head(in)>> \o @]

(* The message at the head of the channel joins the batch of its kind. *)
TakeFromChannel ==
  /\ in # <<>>
  /\ in' = Tail(in)
  /\ batch' = [batch EXCEPT ![KindOf(Head(in))] = Append(@, Head(in))]

(* Mutant: the size test is off by one. *)
BugBatchFull(k) == Len(batch[k]) >= Limit[k]

(* With one more message the batch has reached its size. *)
BatchFull(k) == Len(batch[k]) + 1 >= Limit[k]

(* case e, ok := <-p.in: a batch that reaches its size is flushed. *)
Receive ==
  /\ flusher = "select"
  /\ TakeFromChannel
  /\ Proceed({k \in {KindOf(Head(in))} : BatchFull(k)}, FALSE)
  /\ UNCHANGED <<pub, accepted, closeVars, cancelled, tally, sinkVars, outcome>>

(* Mutant: the final flush forgets the main batch. *)
BugReceiveClosed ==
  /\ flusher = "select"
  /\ in = <<>> /\ closed
  /\ Proceed(NonEmpty(batch) \ {"main"}, TRUE)
  /\ UNCHANGED <<publisherVars, closeVars, cancelled, batch, tally, sinkVars,
                 outcome>>

(* The channel is closed and empty: final flush, then return. *)
ReceiveClosed ==
  /\ flusher = "select"
  /\ in = <<>> /\ closed
  /\ Proceed(NonEmpty(batch), TRUE)
  /\ UNCHANGED <<publisherVars, closeVars, cancelled, batch, tally, sinkVars,
                 outcome>>

(* Mutant: the linger ticker only flushes the main batch. *)
BugLingerTick ==
  /\ flusher = "select"
  /\ batch["main"] # <<>>
  /\ Proceed({"main"}, FALSE)
  /\ UNCHANGED <<publisherVars, closeVars, cancelled, batch, tally, sinkVars,
                 outcome>>

(* case <-linger.C *)
LingerTick ==
  /\ flusher = "select"
  /\ NonEmpty(batch) # {}
  /\ Proceed(NonEmpty(batch), FALSE)
  /\ UNCHANGED <<publisherVars, closeVars, cancelled, batch, tally, sinkVars,
                 outcome>>

(* case <-ctx.Done(): start taking whatever is queued. *)
CtxDone ==
  /\ flusher = "select"
  /\ cancelled
  /\ flusher' = "drain"
  /\ UNCHANGED <<publisherVars, closeVars, cancelled, batch, plan, exiting,
                 attempt, tally, sinkVars, outcome>>

(* The drain ignores the batch sizes. *)
DrainReceive ==
  /\ flusher = "drain"
  /\ TakeFromChannel
  /\ UNCHANGED <<pub, accepted, closeVars, cancelled, flusher, plan, exiting,
                 attempt, tally, sinkVars, outcome>>

(* Nothing is ready: flush what was taken, then return. *)
DrainEnd ==
  /\ flusher = "drain"
  /\ in = <<>>
  /\ Proceed(NonEmpty(batch), TRUE)
  /\ UNCHANGED <<publisherVars, closeVars, cancelled, batch, tally, sinkVars,
                 outcome>>

-----------------------------------------------------------------------------
(* deliver: one batch, up to 1 + MaxRetries attempts.                      *)

Contents == Range(batch[Current])
Count(fields) ==
  tally' = [f \in DOMAIN tally |->
              tally[f] + IF f \in fields THEN Len(batch[Current]) ELSE 0]

(* Mutant: the batch is not emptied after it was delivered. *)
BugSettle(result) ==
  /\ outcome' = [m \in Msgs |-> IF m \in Contents THEN result ELSE outcome[m]]
  /\ UNCHANGED batch
  /\ Proceed(plan \ {Current}, exiting)

(* deliver returns: the batch is emptied and its messages are accounted    *)
(* for as `result`.                                                        *)
Settle(result) ==
  /\ outcome' = [m \in Msgs |-> IF m \in Contents THEN result ELSE outcome[m]]
  /\ batch' = [batch EXCEPT ![Current] = <<>>]
  /\ Proceed(plan \ {Current}, exiting)

Increasing(n, m) ==
  {f \in [1..n -> 1..m] : \A i, j \in 1..n : i < j => f[i] < f[j]}

Subsequences(b) ==
  UNION {{[i \in 1..n |-> b[f[i]]] : f \in Increasing(n, Len(b))}
           : n \in 0..Len(b)}

(* What a sink call that fails part-way may have accepted.  Kafka writes   *)
(* one key in order and so accepts, for every key, a prefix of that key's  *)
(* messages; RabbitMQ may reject a message and accept a later one.         *)
KeyPrefixes(b) ==
  {w \in Subsequences(b) :
     SinkInOrder => \A j \in DOMAIN b : b[j] \in Range(w) =>
       \A i \in 1..j : KeyOf[b[i]] = KeyOf[b[j]] => b[i] \in Range(w)}

WriteMain(w) ==
  /\ topic' = topic \o w
  /\ UNCHANGED dlqTopic

WriteDLQ(w) ==
  /\ dlqTopic' = dlqTopic \cup Range(w)
  /\ UNCHANGED topic

Write(w) == IF Current = "dlq" THEN WriteDLQ(w) ELSE WriteMain(w)

(* Send or sendDeadLetter returns nil. *)
SendOK ==
  /\ flusher = "send"
  /\ Write(batch[Current])
  /\ Count({IF Current = "dlq" THEN "deadLettered" ELSE "published"})
  /\ Settle(IF Current = "dlq" THEN "deadLettered" ELSE "published")
  /\ UNCHANGED <<publisherVars, closeVars, cancelled>>

(* The write failed for good: a main batch goes to the dead letter         *)
(* destination, a dead letter batch is dropped.                            *)
GiveUp ==
  \/ /\ Current = "dlq"
     /\ Count({"failed", "dropped"})
     /\ Settle("dropped")
  \/ /\ Current = "main"
     /\ Count({"failed"})
     /\ flusher' = "deadletter"
     /\ UNCHANGED <<batch, plan, exiting, attempt, outcome>>

(* Mutant: one attempt too many. *)
BugLastAttempt == attempt > MaxRetries \/ cancelled

LastAttempt == attempt >= MaxRetries \/ cancelled

(* Send or sendDeadLetter returns an error after accepting w. *)
SendError ==
  /\ flusher = "send"
  /\ \E w \in KeyPrefixes(batch[Current]) : Write(w)
  /\ \/ LastAttempt /\ GiveUp
     \/ /\ ~LastAttempt
        /\ flusher' = "sleep"
        /\ UNCHANGED <<batch, plan, exiting, attempt, tally, outcome>>
  /\ UNCHANGED <<publisherVars, closeVars, cancelled>>

(* sleep: the back-off timer fires and deliver tries again. *)
SleepDone ==
  /\ flusher = "sleep"
  /\ flusher' = "send"
  /\ attempt' = attempt + 1
  /\ UNCHANGED <<publisherVars, closeVars, cancelled, batch, plan, exiting,
                 tally, sinkVars, outcome>>

(* Mutant: the error of the last attempt is forgotten. *)
BugSleepCancelled ==
  /\ flusher = "sleep"
  /\ cancelled
  /\ Count({"published"})
  /\ Settle("published")
  /\ UNCHANGED <<publisherVars, closeVars, cancelled, sinkVars>>

(* sleep returns ctx.Err(): no further attempt. *)
SleepCancelled ==
  /\ flusher = "sleep"
  /\ cancelled
  /\ GiveUp
  /\ UNCHANGED <<publisherVars, closeVars, cancelled, sinkVars>>

(* The one attempt to dead letter a failed main batch. *)
DeadLetterOK ==
  /\ flusher = "deadletter"
  /\ WriteDLQ(batch[Current])
  /\ Count({"deadLettered"})
  /\ Settle("deadLettered")
  /\ UNCHANGED <<publisherVars, closeVars, cancelled>>

DeadLetterError ==
  /\ flusher = "deadletter"
  /\ \E w \in KeyPrefixes(batch[Current]) : WriteDLQ(w)
  /\ Count({"dropped"})
  /\ Settle("dropped")
  /\ UNCHANGED <<publisherVars, closeVars, cancelled>>

-----------------------------------------------------------------------------
Enqueue(p) ==
  \/ \E m \in Msgs : EnqueueStart(p, m) \/ EnqueueRefused(p, m)
  \/ EnqueueSend(p) \/ EnqueueQuit(p) \/ EnqueueCtxDone(p)

Close(c) ==
  CloseQuit(c) \/ CloseLock(c) \/ CloseFlushed(c) \/ CloseTimedOut(c)

Flusher ==
  \/ Receive \/ ReceiveClosed \/ LingerTick
  \/ CtxDone \/ DrainReceive \/ DrainEnd
  \/ SendOK \/ SendError \/ SleepDone \/ SleepCancelled
  \/ DeadLetterOK \/ DeadLetterError

Next ==
  \/ \E p \in Publishers : Enqueue(p)
  \/ \E c \in Closers : Close(c)
  \/ Cancel
  \/ Flusher

Spec == Init /\ [][Next]_vars

(* The flusher is always scheduled again and its sink calls return (they   *)
(* have write timeouts); a full batch waits at most for the linger ticker. *)
(* A publisher inside enqueue takes a case of its select that stays ready. *)
(* Once called, Close runs on; nobody has to call it, and nothing obliges  *)
(* the sink to succeed or a context to be cancelled.                       *)
Fairness ==
  /\ WF_vars(Flusher)
  /\ \A p \in Publishers : WF_vars(EnqueueSend(p) \/ EnqueueQuit(p))
  /\ \A c \in Closers :
       WF_vars(CloseLock(c) \/ CloseFlushed(c) \/ CloseTimedOut(c))

FairSpec == Spec /\ Fairness

-----------------------------------------------------------------------------
(* Safety.                                                                 *)

(* Close closes the channel only when no publisher can be sending on it:   *)
(* a send on a closed channel would panic the process (the comment above   *)
(* enqueue, batcher.go:161).                                               *)
NoSendOnClosedChannel == closed => \A p \in Publishers : pub[p] = Idle

Occurrences(s, m) == Cardinality({i \in DOMAIN s : s[i] = m})

(* Conservation: every message the channel took in is in exactly one place *)
(* (the channel or one batch) until deliver accounts for it, and never     *)
(* again after that: nothing is lost on the way, nor flushed twice because *)
(* a batch was not emptied.                                                *)
Conservation ==
  \A m \in Msgs :
    Occurrences(in \o batch["main"] \o batch["dlq"], m)
      = IF outcome[m] = "queued" THEN 1 ELSE 0

(* The counters reported at shutdown add up: what entered the channel is   *)
(* still pending, or is in exactly one of published, dead lettered and     *)
(* dropped; and a message counted as failed is counted once more as        *)
(* dropped or as a dead lettered trade.                                    *)
CountersReconcile ==
  /\ Len(accepted) = Len(in) + Len(batch["main"]) + Len(batch["dlq"])
       + tally.published + tally.deadLettered + tally.dropped
  /\ tally.failed = tally.dropped
       + Cardinality({m \in Trades : outcome[m] = "deadLettered"})
       + IF flusher = "deadletter" THEN Len(batch["main"]) ELSE 0

Accounting == Conservation /\ CountersReconcile

(* A trade counted as published was accepted by the broker, and a message  *)
(* counted as dead lettered is in the dead letter destination: a failed    *)
(* call that accepted part of the batch is never taken for success.        *)
CountedIsDurable ==
  /\ \A m \in Msgs : outcome[m] = "published" => m \in Range(topic)
  /\ \A m \in Msgs : outcome[m] = "deadLettered" => m \in dlqTopic

(* First copy of m in the topic. *)
FirstCopy(m) == CHOOSE i \in DOMAIN topic :
                  /\ topic[i] = m
                  /\ \A j \in 1..(i - 1) : topic[j] # m

(* "Ordering. One flusher goroutine preserves the order in which messages  *)
(* were queued" (batcher.go:61): over a sink that does not skip messages,  *)
(* a consumer that ignores event ids it has already seen reads the trades  *)
(* of one key in the order they were queued, whatever was retried, partly  *)
(* accepted or given up in between.                                        *)
FirstCopiesInQueueOrder ==
  SinkInOrder =>
  \A i, j \in DOMAIN accepted :
    LET a == accepted[i]
        b == accepted[j]
    IN  /\ i < j
        /\ KeyOf[a] = KeyOf[b]
        /\ {a, b} \subseteq Range(topic)
        => FirstCopy(a) < FirstCopy(b)

(* Memory stays bounded while the broker is down: the channel never holds  *)
(* more than QueueSize, and until the context is cancelled a batch is      *)
(* never larger than its limit.                                            *)
BacklogBounded ==
  /\ Len(in) <= QueueSize
  /\ ~cancelled => \A k \in Kinds : Len(batch[k]) <= Limit[k]

(* Unless its context is cancelled, the flusher returns only when the      *)
(* producer is closed and every accepted message is accounted for.         *)
FlusherStopsDrained ==
  flusher = "done" /\ ~cancelled =>
    closed /\ \A m \in Msgs : outcome[m] # "queued"

-----------------------------------------------------------------------------
(* The inductive invariant behind NoSendOnClosedChannel, CountedIsDurable, *)
(* BacklogBounded and FlusherStopsDrained.                                 *)

(* What the flusher is doing and what it still has to deliver. *)
FlusherWork ==
  /\ flusher \in {"select", "drain", "done"} => plan = {}
  /\ flusher \in {"send", "sleep", "deadletter"} => plan # {}
  /\ flusher = "deadletter" => "main" \in plan
  /\ flusher = "sleep" => attempt < MaxRetries
  /\ flusher = "drain" => cancelled
  /\ flusher = "done" => exiting

(* A batch that is not about to be delivered has room for a message. *)
RoomInBatches ==
  /\ Len(in) <= QueueSize
  /\ ~cancelled => \A k \in Kinds :
       /\ Len(batch[k]) <= Limit[k]
       /\ k \notin plan => Len(batch[k]) < Limit[k]

(* In its last round of flushes the flusher has nothing left but its plan. *)
LastRound ==
  exiting /\ ~cancelled =>
    /\ closed
    /\ in = <<>>
    /\ \A k \in Kinds : k \notin plan => batch[k] = <<>>

(* A message that is not accounted for is in the channel or in a batch. *)
QueuedInBacklog ==
  \A m \in Msgs : outcome[m] = "queued" =>
    m \in Range(in) \cup Range(batch["main"]) \cup Range(batch["dlq"])

IInv ==
  /\ TypeOK
  /\ NoSendOnClosedChannel
  /\ CountedIsDurable
  /\ FlusherWork
  /\ RoomInBatches
  /\ LastRound
  /\ QueuedInBacklog

-----------------------------------------------------------------------------
(* The producer implements its contract; a message a caller is still       *)
(* offering is new to the contract.                                        *)
Contract == INSTANCE DeliveryContract WITH
  open <- ~closed,
  outcome <- [m \in Msgs |->
                IF outcome[m] = "offered" THEN "new" ELSE outcome[m]]

(* Whatever the interleaving, the producer only does what its contract     *)
(* allows: it accepts nothing once closed, accounts for every message once *)
(* and in order, and writes only messages that are still pending.          *)
ContractHolds == Contract!Spec

-----------------------------------------------------------------------------
(* Liveness, while the context given to Start stays alive.                 *)

(* Every accepted message is published, dead lettered or dropped in the    *)
(* end, also when no further message arrives to fill its batch.            *)
AcceptedIsSettled ==
  []~cancelled =>
    \A m \in Msgs : outcome[m] = "queued" ~> outcome[m] \in Settled

(* Backpressure is not a deadlock: a publisher blocked on a full queue     *)
(* returns in the end.                                                     *)
PublisherReturns ==
  []~cancelled => \A p \in Publishers : pub[p] # Idle ~> pub[p] = Idle

(* Close returns, whatever the flusher, the publishers and the context do. *)
CloseReturns ==
  \A c \in Closers : closer[c] = "lock" ~> closer[c] = "returned"

(* No caller is blocked for ever: the queue and the lock of Close, which   *)
(* waits for the publishers, are no deadlock together.                     *)
CallsReturn == PublisherReturns /\ CloseReturns

=============================================================================
