--------------------------- MODULE PipelineProofs ---------------------------
(***************************************************************************)
(* Proofs about Pipeline, for any number of workers and records, any       *)
(* channel sizes and any assignment of symbols, hashes and trade keys.     *)
(*                                                                         *)
(* The ingestor's use of its producer is a behaviour of AsyncProducer, so  *)
(* the theorems of AsyncProducerProofs hold along the pipeline; the rest   *)
(* is the order in which records move from the feed to the producer.       *)
(***************************************************************************)
EXTENDS Pipeline, SequenceTheorems, FiniteSetTheorems, TLAPS

PP == INSTANCE AsyncProducerProofs WITH
  Publishers <- Workers,
  Closers <- {Main},
  Trades <- Records \ Invalid,
  Rejects <- Invalid,
  KeyOf <- Symbol,
  Idle <- None

-----------------------------------------------------------------------------
(* The producer inside the pipeline.                                       *)

(* The constants of the pipeline are legal constants of the producer. *)
LEMMA ProducerConstants == PP!ProducerAssumption
<1>1. IsFiniteSet(Records \ Invalid) /\ IsFiniteSet(Invalid)
  BY PipelineAssumption, FS_Subset DEF PipelineAssumption
<1>2. PP!Msgs = Records
  BY PipelineAssumption DEF PP!Msgs, PipelineAssumption
<1>3. None \notin Records
  <2>1. Cardinality(Records) \in Nat /\ Records = 1..Cardinality(Records)
    BY PipelineAssumption, FS_CardinalityType DEF PipelineAssumption
  <2> QED  BY <2>1 DEF None
<1>4. None \notin PP!Msgs /\ (Records \ Invalid) \cap Invalid = {}
  BY <1>2, <1>3
<1>5. /\ QueueSize \in Nat \ {0} /\ BatchSize \in Nat \ {0} /\ DLQBatchSize \in Nat \ {0}
      /\ MaxRetries \in Nat /\ SinkInOrder \in BOOLEAN
  BY PipelineAssumption DEF PipelineAssumption
<1> QED  BY <1>1, <1>4, <1>5 DEF PP!ProducerAssumption, PP!IsFiniteSet, IsFiniteSet

(* The messages of the producer are the records of the feed. *)
LEMMA MsgsAreRecords == PP!Msgs = Records
BY PipelineAssumption DEF PP!Msgs, PipelineAssumption

(* A step that does not concern the producer. *)
LEMMA ProducerIdle ==
  ASSUME UNCHANGED producerVars
  PROVE  UNCHANGED PP!vars
BY DEF producerVars, PP!vars, PP!publisherVars, PP!closeVars, PP!flusherVars, PP!sinkVars

(* The pipeline starts with the producer in its initial state. *)
LEMMA InitProducer == Init => PP!Init
BY DEF Init, Producer!Init, PP!Init, Producer!Msgs, PP!Msgs

(* Pipeline and PP name the same operators of the producer twice. *)
LEMMA SameOperators ==
  /\ Producer!Current = PP!Current /\ Producer!Contents = PP!Contents
  /\ \A todo, exit : Producer!Proceed(todo, exit) <=> PP!Proceed(todo, exit)
  /\ \A fields : Producer!Count(fields) <=> PP!Count(fields)
  /\ \A b : Producer!KeyPrefixes(b) = PP!KeyPrefixes(b)
  /\ \A w : Producer!WriteDLQ(w) <=> PP!WriteDLQ(w)
  /\ \A w : Producer!Write(w) <=> PP!Write(w)
  /\ Producer!LastAttempt <=> PP!LastAttempt
<1>1. Producer!Current = PP!Current /\ Producer!Contents = PP!Contents
  BY DEF Producer!Current, PP!Current, Producer!Contents, PP!Contents,
       Producer!Range, PP!Range
<1>2. \A todo, exit : Producer!Proceed(todo, exit) <=> PP!Proceed(todo, exit)
  BY DEF Producer!Proceed, PP!Proceed
<1>3. \A fields : Producer!Count(fields) <=> PP!Count(fields)
  BY <1>1 DEF Producer!Count, PP!Count
<1>4. \A b : Producer!Subsequences(b) = PP!Subsequences(b)
  BY DEF Producer!Subsequences, PP!Subsequences, Producer!Increasing, PP!Increasing
<1>5. \A b : Producer!KeyPrefixes(b) = PP!KeyPrefixes(b)
  BY <1>4 DEF Producer!KeyPrefixes, PP!KeyPrefixes, Producer!Range, PP!Range
<1>6. \A w : Producer!WriteDLQ(w) <=> PP!WriteDLQ(w)
  BY DEF Producer!WriteDLQ, PP!WriteDLQ, Producer!Range, PP!Range
<1>7. \A w : Producer!Write(w) <=> PP!Write(w)
  BY <1>1, <1>6 DEF Producer!Write, PP!Write, Producer!WriteMain, PP!WriteMain
<1>8. Producer!LastAttempt <=> PP!LastAttempt
  BY DEF Producer!LastAttempt, PP!LastAttempt
<1> QED  BY <1>1, <1>2, <1>3, <1>5, <1>6, <1>7, <1>8

(* The steps of the producer's flusher are those of the pipeline's. *)
LEMMA FlusherIsProducer == Producer!Flusher => PP!Flusher
<1> USE DEF Producer!publisherVars, PP!publisherVars, Producer!closeVars, PP!closeVars,
       Producer!flusherVars, PP!flusherVars, Producer!sinkVars, PP!sinkVars
<1>0. \A result : Producer!Settle(result) <=> PP!Settle(result)
  BY SameOperators DEF Producer!Settle, PP!Settle, Producer!Msgs, PP!Msgs
<1>1. Producer!TakeFromChannel <=> PP!TakeFromChannel
  BY DEF Producer!TakeFromChannel, PP!TakeFromChannel, Producer!KindOf, PP!KindOf
<1>2. Producer!GiveUp <=> PP!GiveUp
  BY <1>0, SameOperators DEF Producer!GiveUp, PP!GiveUp
<1>3. Producer!Receive => PP!Receive
  BY <1>1, SameOperators DEF Producer!Receive, PP!Receive, Producer!KindOf, PP!KindOf,
       Producer!BatchFull, PP!BatchFull, Producer!Limit, PP!Limit
<1>4. Producer!ReceiveClosed \/ Producer!LingerTick \/ Producer!CtxDone \/ Producer!DrainEnd
        => PP!ReceiveClosed \/ PP!LingerTick \/ PP!CtxDone \/ PP!DrainEnd
  BY SameOperators
     DEF Producer!ReceiveClosed, PP!ReceiveClosed, Producer!LingerTick,
       PP!LingerTick, Producer!CtxDone, PP!CtxDone, Producer!DrainEnd,
       PP!DrainEnd, Producer!NonEmpty, PP!NonEmpty, Producer!Kinds, PP!Kinds
<1>5. Producer!DrainReceive => PP!DrainReceive
  BY <1>1 DEF Producer!DrainReceive, PP!DrainReceive
<1>6. Producer!SendOK => PP!SendOK
  BY <1>0, SameOperators DEF Producer!SendOK, PP!SendOK
<1>7. Producer!SendError => PP!SendError
  BY <1>2, SameOperators DEF Producer!SendError, PP!SendError
<1>8. Producer!SleepDone \/ Producer!SleepCancelled => PP!SleepDone \/ PP!SleepCancelled
  BY <1>2 DEF Producer!SleepDone, PP!SleepDone, Producer!SleepCancelled, PP!SleepCancelled
<1>9. Producer!DeadLetterOK \/ Producer!DeadLetterError => PP!DeadLetterOK \/ PP!DeadLetterError
  BY <1>0, SameOperators DEF Producer!DeadLetterOK, PP!DeadLetterOK, Producer!DeadLetterError,
       PP!DeadLetterError
<1> QED
  BY <1>3, <1>4, <1>5, <1>6, <1>7, <1>8, <1>9 DEF Producer!Flusher, PP!Flusher

-----------------------------------------------------------------------------
(* Types.                                                                  *)

(* The part of TypeOK that is about the pipeline's own variables. *)
Types ==
  /\ feed \in {"running", "returned"}
  /\ next \in 1..(Cardinality(Records) + 1)
  /\ rawCh \in Seq(Records) /\ Len(rawCh) <= FeedQueueSize
  /\ rawClosed \in BOOLEAN /\ chClosed \in BOOLEAN
  /\ held \in Records \cup {None}
  /\ workerCh \in [Workers -> Seq(Records)]
  /\ \A w \in Workers : Len(workerCh[w]) <= ChannelSize
  /\ seen \subseteq Range(TradeKey) /\ forgotten \subseteq Range(TradeKey)
  /\ main \in {"running", "waiting", "closing", "panicked"}
  /\ duplicates \subseteq Records /\ discarded \subseteq Records

(* Records are the numbers from 1 to some n, and every record has a worker. *)
LEMMA ConstantTypes ==
  /\ Cardinality(Records) \in Nat /\ Records = 1..Cardinality(Records)
  /\ FeedQueueSize \in Nat \ {0} /\ ChannelSize \in Nat \ {0}
  /\ \A r \in Records : ShardIndex(r) \in Workers /\ TradeKey[r] \in Range(TradeKey)
<1>1. Cardinality(Records) \in Nat /\ Records = 1..Cardinality(Records)
  BY PipelineAssumption, FS_CardinalityType DEF PipelineAssumption
<1>2. PICK n \in Nat \ {0} : n = Cardinality(Workers)
  BY PipelineAssumption, FS_CardinalityType, FS_EmptySet DEF PipelineAssumption
<1>3. Workers = 0..(n - 1)
  BY <1>2, PipelineAssumption DEF PipelineAssumption
<1>4. \A r \in Records : Hash[Symbol[r]] \in Nat
  BY PipelineAssumption DEF PipelineAssumption
<1>5. \A h \in Nat : h % n \in 0..(n - 1)
  BY <1>2
<1>6. \A r \in Records : ShardIndex(r) \in Workers
  BY <1>2, <1>3, <1>4, <1>5 DEF ShardIndex
<1>7. \A r \in Records : TradeKey[r] \in Range(TradeKey)
  BY PipelineAssumption DEF PipelineAssumption, Range
<1> QED  BY <1>1, <1>6, <1>7, PipelineAssumption DEF PipelineAssumption

(* The pipeline starts with empty channels. *)
LEMMA TypesInit == Init => Types
<1> SUFFICES ASSUME Init PROVE Types
  OBVIOUS
<1>1. <<>> \in Seq(Records) /\ Len(<<>>) = 0
  BY EmptySeq
<1>2. rawCh \in Seq(Records) /\ Len(rawCh) <= FeedQueueSize
  BY <1>1, ConstantTypes DEF Init
<1>3. workerCh \in [Workers -> Seq(Records)] /\ \A w \in Workers : Len(workerCh[w]) <= ChannelSize
  BY <1>1, ConstantTypes DEF Init
<1>4. next \in 1..(Cardinality(Records) + 1)
  BY ConstantTypes DEF Init
<1> QED  BY <1>2, <1>3, <1>4 DEF Init, Types

(* Taking the head of its channel leaves a worker a shorter channel. *)
LEMMA WorkerTakeEffect ==
  ASSUME Types, NEW w \in Workers, WorkerTake(w)
  PROVE  /\ pub[w] = None /\ workerCh[w] # <<>> /\ workerCh[w] \in Seq(Records)
         /\ Head(workerCh[w]) \in Records
         /\ workerCh' = [workerCh EXCEPT ![w] = Tail(workerCh[w])]
         /\ workerCh' \in [Workers -> Seq(Records)]
         /\ \A v \in Workers : Len(workerCh'[v]) <= ChannelSize
<1>1. /\ workerCh[w] \in Seq(Records) /\ workerCh[w] # <<>> /\ pub[w] = None
      /\ workerCh' = [workerCh EXCEPT ![w] = Tail(workerCh[w])]
      /\ workerCh \in [Workers -> Seq(Records)]
  BY DEF Types, WorkerTake
<1>2. /\ Head(workerCh[w]) \in Records /\ Tail(workerCh[w]) \in Seq(Records)
      /\ Len(Tail(workerCh[w])) = Len(workerCh[w]) - 1 /\ Len(workerCh[w]) \in Nat
  BY <1>1, HeadTailProperties, LenProperties
<1>3. workerCh' \in [Workers -> Seq(Records)]
  BY <1>1, <1>2
<1>4. Len(Tail(workerCh[w])) <= ChannelSize
  BY <1>2, ConstantTypes DEF Types
<1>5. \A v \in Workers : Len(workerCh'[v]) <= ChannelSize
  BY <1>1, <1>4 DEF Types
<1> QED  BY <1>1, <1>2, <1>3, <1>5

(* Every step keeps the types. *)
LEMMA TypesStep == Types /\ [Next]_vars => Types'
<1> SUFFICES ASSUME Types, [Next]_vars PROVE Types'
  OBVIOUS
<1> USE DEF filterVars, pipelineVars
<1>1. CASE FeedSend
  <2>1. next \in Records /\ next + 1 \in 1..(Cardinality(Records) + 1)
    BY <1>1, ConstantTypes DEF FeedSend, More
  <2>2. rawCh' \in Seq(Records) /\ Len(rawCh') = Len(rawCh) + 1 /\ Len(rawCh) \in Nat
    BY <1>1, <2>1, AppendProperties, LenProperties DEF FeedSend, Types
  <2>3. Len(rawCh') <= FeedQueueSize
    BY <1>1, <2>2, ConstantTypes DEF FeedSend
  <2> QED  BY <1>1, <2>1, <2>2, <2>3 DEF FeedSend, Types
<1>2. CASE FeedPanic \/ FeedReturn \/ DispatchReturn \/ CloseRaw \/ CloseProducer
  BY <1>2 DEF FeedPanic, FeedReturn, DispatchReturn, CloseRaw, CloseProducer, Types
<1>3. CASE DispatchTake
  <2>1. /\ held' = Head(rawCh) /\ rawCh' = Tail(rawCh) /\ Head(rawCh) \in Records
        /\ rawCh' \in Seq(Records) /\ Len(rawCh') = Len(rawCh) - 1 /\ Len(rawCh) \in Nat
    BY <1>3, HeadTailProperties, LenProperties DEF DispatchTake, Types
  <2>2. Len(rawCh') <= FeedQueueSize
    BY <2>1, ConstantTypes DEF Types
  <2> QED  BY <1>3, <2>1, <2>2 DEF DispatchTake, Types
<1>4. CASE DispatchSend
  <2> DEFINE v == ShardIndex(held)
  <2>1. held \in Records /\ v \in Workers /\ workerCh \in [Workers -> Seq(Records)]
    BY <1>4, ConstantTypes DEF DispatchSend, Types
  <2>2. workerCh' = [workerCh EXCEPT ![v] = Append(workerCh[v], held)]
        /\ Len(workerCh[v]) < ChannelSize
    BY <1>4 DEF DispatchSend, HasRoom
  <2> HIDE DEF v
  <2>3. Append(workerCh[v], held) \in Seq(Records)
        /\ Len(Append(workerCh[v], held)) = Len(workerCh[v]) + 1 /\ Len(workerCh[v]) \in Nat
    BY <2>1, AppendProperties, LenProperties
  <2>4. workerCh' \in [Workers -> Seq(Records)]
    BY <2>1, <2>2, <2>3
  <2>5. Len(Append(workerCh[v], held)) <= ChannelSize
    BY <2>2, <2>3, ConstantTypes
  <2>6. \A u \in Workers : Len(workerCh'[u]) <= ChannelSize
    BY <2>1, <2>2, <2>5 DEF Types
  <2> QED  BY <1>4, <2>4, <2>6 DEF DispatchSend, Types
<1>5. CASE DispatchDiscard
  BY <1>5 DEF DispatchDiscard, Types
<1>6. ASSUME NEW w \in Workers, HandleDuplicate(w)
      PROVE  Types'
  BY <1>6, WorkerTakeEffect DEF HandleDuplicate, Types
<1>7. ASSUME NEW w \in Workers, HandleRecord(w)
      PROVE  Types'
  BY <1>7, WorkerTakeEffect, ConstantTypes DEF HandleRecord, RecordKey, Types
<1>8. CASE Forget
  BY <1>8 DEF Forget, Types
<1>9. CASE UNCHANGED pipelineVars
  BY <1>9 DEF Types
<1> QED
  BY <1>1, <1>2, <1>3, <1>4, <1>5, <1>6, <1>7, <1>8, <1>9
     DEF Next, Dispatcher, Worker, InEnqueue, Run, ClosingProducer, Signal, Flusher, vars

-----------------------------------------------------------------------------
(* The pipeline drives its producer as AsyncProducer allows.               *)

(* The steps of the workers, of Run and of the signal handler are steps of *)
(* publishers, of a caller of Close and of the context.                    *)
LEMMA CallersAreProducer ==
  /\ \A w, m : Producer!EnqueueStart(w, m) <=> PP!EnqueueStart(w, m)
  /\ \A w : Producer!EnqueueSend(w) <=> PP!EnqueueSend(w)
  /\ \A w : Producer!EnqueueCtxDone(w) <=> PP!EnqueueCtxDone(w)
  /\ Producer!CloseQuit(Main) <=> PP!CloseQuit(Main)
  /\ Producer!CloseLock(Main) <=> PP!CloseLock(Main)
  /\ Producer!CloseFlushed(Main) <=> PP!CloseFlushed(Main)
  /\ Producer!CloseTimedOut(Main) <=> PP!CloseTimedOut(Main)
  /\ Producer!Cancel <=> PP!Cancel
BY DEF Producer!EnqueueStart, PP!EnqueueStart, Producer!EnqueueSend, PP!EnqueueSend,
   Producer!EnqueueCtxDone, PP!EnqueueCtxDone, Producer!LeaveEnqueue, PP!LeaveEnqueue,
   Producer!CloseQuit, PP!CloseQuit, Producer!CloseLock, PP!CloseLock,
   Producer!WriteLockFree, PP!WriteLockFree, Producer!CloseFlushed, PP!CloseFlushed,
   Producer!CloseTimedOut, PP!CloseTimedOut, Producer!CloseSink, PP!CloseSink,
   Producer!Cancel, PP!Cancel, Producer!publisherVars, PP!publisherVars,
   Producer!closeVars, PP!closeVars, Producer!flusherVars, PP!flusherVars,
   Producer!sinkVars, PP!sinkVars

(* What the steps of the pipeline are to the producer. *)
LEMMA PipelineMoves ==
  ASSUME Types, [Next]_vars
  PROVE  \/ UNCHANGED producerVars
         \/ \E w \in Workers : HandleRecord(w)
         \/ \E w \in Workers : InEnqueue(w)
         \/ CloseProducer
         \/ UNCHANGED pipelineVars /\ (ClosingProducer \/ Signal \/ Flusher)
<1>1. CASE UNCHANGED vars
  BY <1>1 DEF vars
<1>2. CASE FeedSend \/ FeedReturn \/ FeedPanic \/ Dispatcher \/ Forget \/ CloseRaw
  BY <1>2 DEF FeedSend, FeedReturn, FeedPanic, Dispatcher, DispatchTake, DispatchSend,
     DispatchDiscard, DispatchReturn, Forget, CloseRaw
<1>3. ASSUME NEW w \in Workers, HandleDuplicate(w)
      PROVE  UNCHANGED producerVars
  BY <1>3 DEF HandleDuplicate
<1>4. CASE ClosingProducer \/ Signal \/ Flusher
  BY <1>4 DEF ClosingProducer, Signal, Flusher
<1> QED  BY <1>1, <1>2, <1>3, <1>4 DEF Next, Worker, Run

(* A worker starts to publish the record at the head of its channel. *)
LEMMA HandleStarts ==
  ASSUME Types, NEW w \in Workers, HandleRecord(w)
  PROVE  \E r \in Records :
           r = Head(workerCh[w]) /\ PP!EnqueueStart(w, r) /\ TradeKey[r] \notin seen /\ RecordKey(r)
<1>1. Head(workerCh[w]) \in Records
  BY WorkerTakeEffect DEF HandleRecord
<1>2. PICK r \in Records : r = Head(workerCh[w])
  BY <1>1
<1>3. TradeKey[r] \notin seen /\ RecordKey(r)
  BY <1>2 DEF HandleRecord, RecordKey
<1>4. PP!EnqueueStart(w, r)
  <2>1. Producer!EnqueueStart(w, Head(workerCh[w]))
    BY DEF HandleRecord
  <2> QED
    BY <1>2, <2>1 DEF Producer!EnqueueStart, PP!EnqueueStart, Producer!closeVars, PP!closeVars,
       Producer!flusherVars, PP!flusherVars, Producer!sinkVars, PP!sinkVars
<1> QED  BY <1>2, <1>3, <1>4

(* Every step of the pipeline is a step of the producer or leaves it alone. *)
LEMMA NextProducer == Types /\ [Next]_vars => [PP!Next]_(PP!vars)
<1> SUFFICES ASSUME Types, [Next]_vars PROVE [PP!Next]_(PP!vars)
  OBVIOUS
<1>1. CASE UNCHANGED producerVars
  BY <1>1, ProducerIdle
<1>2. ASSUME NEW w \in Workers, PP!Enqueue(w)
      PROVE  PP!Next
  BY <1>2 DEF PP!Next
<1>3. ASSUME NEW w \in Workers, HandleRecord(w)
      PROVE  PP!Next
  <2>1. PICK r \in Records : PP!EnqueueStart(w, r)
    BY <1>3, HandleStarts
  <2>2. PP!Enqueue(w)
    BY <2>1, MsgsAreRecords DEF PP!Enqueue
  <2> QED  BY <1>2, <2>2
<1>4. ASSUME NEW w \in Workers, InEnqueue(w)
      PROVE  PP!Next
  <2>1. PP!Enqueue(w)
    BY <1>4, CallersAreProducer DEF InEnqueue, PP!Enqueue
  <2> QED  BY <1>2, <2>1
<1>5. CASE CloseProducer \/ ClosingProducer
  <2>1. PP!Close(Main)
    BY <1>5, CallersAreProducer DEF CloseProducer, ClosingProducer, PP!Close
  <2> QED  BY <2>1 DEF PP!Next
<1>6. CASE Signal
  BY <1>6, CallersAreProducer DEF Signal, PP!Next
<1>7. CASE Flusher
  BY <1>7, FlusherIsProducer DEF Flusher, PP!Next
<1> QED  BY <1>1, <1>3, <1>4, <1>5, <1>6, <1>7, PipelineMoves

(* The types hold in every reachable state. *)
LEMMA TypesHold == Spec => []Types
BY TypesInit, TypesStep, PTL DEF Spec

(* The pipeline is a legal use of the producer: its workers, Run and the   *)
(* signal only do what publishers, a caller of Close and the context may,  *)
(* so what is proved of the producer holds inside the ingestor.            *)
THEOREM PipelineUsesProducer == Spec => PP!Spec
BY InitProducer, NextProducer, TypesHold, PTL DEF Spec, PP!Spec

(* The invariant of the producer holds along the pipeline. *)
LEMMA ProducerInvariant == Spec => []PP!QInv
BY PipelineUsesProducer, PP!QueueOrder, ProducerConstants, PTL

(* Every variable of the pipeline and of its producer keeps its type: no   *)
(* channel holds more than its capacity, and only records travel on them.  *)
THEOREM TypeCorrect == Spec => []TypeOK
<1>1. Types /\ PP!QInv => TypeOK
  <2> SUFFICES ASSUME Types, PP!QInv PROVE TypeOK
    OBVIOUS
  <2>1. PP!TypeOK
    BY DEF PP!QInv, PP!IInv
  <2>2. Producer!TypeOK
    BY <2>1 DEF Producer!TypeOK, PP!TypeOK, Producer!Msgs, PP!Msgs, Producer!Kinds, PP!Kinds,
       Producer!Settled, PP!Settled
  <2> QED  BY <2>2 DEF TypeOK, Types
<1> QED  BY <1>1, TypesHold, ProducerInvariant, PTL

-----------------------------------------------------------------------------
(* The moves of a record.  Each step of the pipeline is one of these.      *)

(* The records a step leaves unpublished are those that were. *)
SameNews == \A r \in Records : outcome'[r] = "new" <=> outcome[r] = "new"

(* A step that moves no record. *)
Quiet ==
  /\ UNCHANGED <<next, rawCh, held, workerCh, duplicates, discarded, filterVars, pub, accepted>>
  /\ SameNews

(* Worker w takes record r from its channel. *)
Takes(w, r) ==
  /\ pub[w] = None /\ workerCh[w] # <<>> /\ r = Head(workerCh[w])
  /\ workerCh' = [workerCh EXCEPT ![w] = Tail(workerCh[w])]
  /\ UNCHANGED <<next, rawCh, held, discarded, accepted>>

(* ... and filters it out as a duplicate. *)
Skips(w, r) ==
  /\ Takes(w, r)
  /\ duplicates' = duplicates \cup {r}
  /\ UNCHANGED <<filterVars, pub, outcome>>

(* ... or starts to publish it. *)
Starts(w, r) ==
  /\ Takes(w, r)
  /\ TradeKey[r] \notin seen /\ seen' = seen \cup {TradeKey[r]}
  /\ outcome[r] = "new" /\ outcome' = [outcome EXCEPT ![r] = "offered"]
  /\ pub' = [pub EXCEPT ![w] = r]
  /\ UNCHANGED <<forgotten, duplicates>>

(* Worker w leaves enqueue with its record r queued or refused. *)
Leaves(w, r) ==
  /\ pub[w] = r /\ pub' = [pub EXCEPT ![w] = None]
  /\ accepted' \in {accepted, Append(accepted, r)}
  /\ SameNews
  /\ UNCHANGED pipelineVars

(* The producer's flusher leaves unpublished records as they are. *)
LEMMA FlusherNews ==
  ASSUME PP!QInv, PP!Flusher
  PROVE  SameNews /\ UNCHANGED <<pub, accepted>>
<1>1. /\ UNCHANGED <<pub, accepted>>
      /\ outcome' = outcome \/ \E result \in PP!Settled : PP!Settle(result)
  BY PP!FlusherMoves, ProducerConstants
<1>2. ASSUME NEW result \in PP!Settled, PP!Settle(result)
      PROVE  SameNews
  <2>1. \A m \in Records : outcome'[m] = IF m \in PP!Contents THEN result ELSE outcome[m]
    BY <1>2, MsgsAreRecords DEF PP!Settle
  <2>2. \A m \in PP!Contents : outcome[m] = "queued"
    <3>1. PP!Current \in PP!Kinds
      BY DEF PP!Current, PP!Kinds
    <3> QED  BY <3>1 DEF PP!Contents, PP!QInv, PP!Queueing, PP!Lined
  <2>3. result # "new"
    BY <1>2 DEF PP!Settled
  <2> QED  BY <2>1, <2>2, <2>3 DEF SameNews
<1> QED  BY <1>1, <1>2 DEF SameNews

(* A worker that holds a record leaves enqueue with it. *)
LEMMA EnqueueLeaves ==
  ASSUME PP!QInv, NEW w \in Workers, InEnqueue(w)
  PROVE  \E r \in Records : Leaves(w, r)
<1>1. /\ pub[w] # None /\ UNCHANGED pipelineVars /\ pub' = [pub EXCEPT ![w] = None]
      /\ \/ /\ accepted' = Append(accepted, pub[w])
            /\ outcome' = [outcome EXCEPT ![pub[w]] = "queued"]
         \/ accepted' = accepted /\ outcome' = [outcome EXCEPT ![pub[w]] = "refused"]
  BY DEF InEnqueue, Producer!EnqueueSend, Producer!EnqueueCtxDone, Producer!LeaveEnqueue
<1>2. /\ pub[w] \in Records /\ outcome[pub[w]] = "offered" /\ DOMAIN outcome = Records
  BY <1>1, MsgsAreRecords DEF PP!QInv, PP!IInv, PP!TypeOK, PP!Queueing, PP!Offers
<1>3. PICK r \in Records : r = pub[w]
  BY <1>2
<1>4. SameNews
  BY <1>1, <1>2 DEF SameNews
<1> QED  BY <1>1, <1>3, <1>4 DEF Leaves

(* Every step is one of the moves. *)
LEMMA Moves ==
  ASSUME Types, PP!QInv, [Next]_vars
  PROVE  \/ Quiet \/ Forget
         \/ FeedSend \/ DispatchTake \/ DispatchSend \/ DispatchDiscard
         \/ \E w \in Workers, r \in Records : Skips(w, r) \/ Starts(w, r) \/ Leaves(w, r)
<1>1. ASSUME UNCHANGED <<next, rawCh, held, workerCh, duplicates, discarded, filterVars>>,
             UNCHANGED <<pub, accepted, outcome>>
      PROVE  Quiet
  BY <1>1 DEF Quiet, SameNews
<1>2. CASE FeedReturn \/ FeedPanic \/ DispatchReturn \/ CloseRaw
  BY <1>1, <1>2 DEF FeedReturn, FeedPanic, DispatchReturn, CloseRaw, producerVars
<1>3. CASE CloseProducer
  <2>1. UNCHANGED <<pub, accepted, outcome>>
    BY <1>3 DEF CloseProducer, Producer!CloseQuit, Producer!publisherVars
  <2> QED  BY <1>1, <1>3, <2>1 DEF CloseProducer
<1>4. CASE ClosingProducer \/ Signal
  <2>1. UNCHANGED <<pub, accepted, outcome>>
    BY <1>4 DEF ClosingProducer, Signal, Producer!CloseLock, Producer!CloseFlushed,
       Producer!CloseTimedOut, Producer!CloseSink, Producer!Cancel, Producer!publisherVars
  <2> QED  BY <1>1, <1>4, <2>1 DEF ClosingProducer, Signal, pipelineVars
<1>5. CASE Flusher
  <2>1. SameNews /\ UNCHANGED <<pub, accepted>>
    BY <1>5, FlusherIsProducer, FlusherNews DEF Flusher
  <2> QED  BY <1>5, <2>1 DEF Flusher, Quiet, pipelineVars
<1>6. CASE UNCHANGED vars
  BY <1>1, <1>6 DEF vars, pipelineVars, producerVars
<1>7. ASSUME NEW w \in Workers, HandleDuplicate(w)
      PROVE  \E r \in Records : Skips(w, r)
  <2>1. PICK r \in Records : r = Head(workerCh[w])
    BY <1>7, WorkerTakeEffect DEF HandleDuplicate
  <2> QED
    BY <1>7, <2>1 DEF HandleDuplicate, WorkerTake, Skips, Takes, producerVars
<1>8. ASSUME NEW w \in Workers, HandleRecord(w)
      PROVE  \E r \in Records : Starts(w, r)
  <2>1. PICK r \in Records :
          r = Head(workerCh[w]) /\ PP!EnqueueStart(w, r) /\ TradeKey[r] \notin seen /\ RecordKey(r)
    BY <1>8, HandleStarts
  <2>2. Takes(w, r)
    BY <1>8, <2>1 DEF HandleRecord, WorkerTake, Takes, PP!EnqueueStart
  <2> QED  BY <1>8, <2>1, <2>2 DEF Starts, PP!EnqueueStart, RecordKey, HandleRecord
<1>9. ASSUME NEW w \in Workers, InEnqueue(w)
      PROVE  \E r \in Records : Leaves(w, r)
  BY <1>9, EnqueueLeaves
<1> QED
  BY <1>2, <1>3, <1>4, <1>5, <1>6, <1>7, <1>8, <1>9 DEF Next, Dispatcher, Worker, Run

-----------------------------------------------------------------------------
(* The duplicate filter.                                                   *)

(* What went to the producer has a recorded key, and of two records with   *)
(* one key only one did, unless the key was forgotten in between.          *)
Keys ==
  /\ \A r \in Records : outcome[r] # "new" => TradeKey[r] \in seen \cup forgotten
  /\ \A r, s \in Records :
       r # s /\ outcome[r] # "new" /\ outcome[s] # "new" /\ TradeKey[r] = TradeKey[s]
         => TradeKey[r] \in forgotten

(* Every step keeps at most one record of a key in the producer's hands. *)
LEMMA KeysStep ==
  ASSUME Types, PP!QInv, Keys, [Next]_vars
  PROVE  Keys'
<1>1. ASSUME SameNews, UNCHANGED filterVars
      PROVE  Keys'
  BY <1>1 DEF SameNews, filterVars, Keys
<1>2. CASE Quiet
  BY <1>1, <1>2 DEF Quiet
<1>3. CASE FeedSend \/ DispatchTake \/ DispatchSend \/ DispatchDiscard
  BY <1>1, <1>3 DEF FeedSend, DispatchTake, DispatchSend, DispatchDiscard, producerVars, SameNews
<1>4. CASE Forget
  BY <1>4 DEF Forget, Keys, producerVars
<1>5. ASSUME NEW w \in Workers, NEW r \in Records, Skips(w, r) \/ Leaves(w, r)
      PROVE  Keys'
  BY <1>1, <1>5 DEF Skips, Leaves, SameNews, pipelineVars
<1>6. ASSUME NEW w \in Workers, NEW r \in Records, Starts(w, r)
      PROVE  Keys'
  <2>1. \A x \in Records : outcome'[x] # "new" <=> x = r \/ outcome[x] # "new"
    BY <1>6, MsgsAreRecords DEF Starts, PP!QInv, PP!IInv, PP!TypeOK
  <2>2. /\ TradeKey[r] \notin seen /\ outcome[r] = "new"
        /\ seen' = seen \cup {TradeKey[r]} /\ forgotten' = forgotten
    BY <1>6 DEF Starts
  <2> QED  BY <2>1, <2>2 DEF Keys
<1> QED  BY <1>2, <1>3, <1>4, <1>5, <1>6, Moves

(* Only records of the feed are in the producer's queue. *)
LEMMA AcceptedAreRecords ==
  PP!QInv => accepted \in Seq(Records) /\ \A i \in DOMAIN accepted : accepted[i] \in Records
BY MsgsAreRecords, ElementOfSeq, LenProperties DEF PP!QInv, PP!IInv, PP!TypeOK

(* Of two records with the same trade key one reaches the producer, unless *)
(* the duplicate filter forgot the key in between.                         *)
THEOREM OneCopyIsPublished == Spec => []OnePerTradeKey
<1>1. Init => Keys
  BY MsgsAreRecords DEF Init, Producer!Init, Producer!Msgs, PP!Msgs, Keys
<1>2. Spec => []Keys
  BY <1>1, KeysStep, TypesHold, ProducerInvariant, PTL DEF Spec
<1>3. PP!QInv /\ Keys => OnePerTradeKey
  <2> SUFFICES ASSUME PP!QInv, Keys, NEW i \in DOMAIN accepted, NEW j \in DOMAIN accepted, i # j,
                      TradeKey[accepted[i]] \notin forgotten
               PROVE  TradeKey[accepted[i]] # TradeKey[accepted[j]]
    BY DEF OnePerTradeKey
  <2>1. accepted[i] # accepted[j]
    BY DEF PP!QInv, PP!Queueing, PP!Entered, PP!IsInjective
  <2>2. \A m \in PP!Range(accepted) : m \in Records /\ outcome[m] # "new"
    BY MsgsAreRecords, AcceptedAreRecords
       DEF PP!QInv, PP!Queueing, PP!Entered, PP!Settled, PP!Range
  <2>3. accepted[i] \in PP!Range(accepted) /\ accepted[j] \in PP!Range(accepted)
    BY DEF PP!Range
  <2> QED  BY <2>1, <2>2, <2>3 DEF Keys
<1> QED  BY <1>2, <1>3, ProducerInvariant, PTL

-----------------------------------------------------------------------------
(* The order of the records on their way.                                  *)

Below(A, B) == \A a \in A, b \in B : a < b

Climbs(s) == \A i, j \in DOMAIN s : i < j => s[i] < s[j]

(* Where a record can be, and what follows it there. *)
Raw == Range(rawCh)
Kept == {held} \ {None}
Queue(w) == Range(workerCh[w])
Hand(w) == {pub[w]} \ {None}
Offered(w) == {r \in Range(accepted) : ShardIndex(r) = w}

AfterQueue == Kept \cup Raw \cup {next}
AfterHand(w) == Queue(w) \cup AfterQueue
AfterOffer(w) == Hand(w) \cup AfterHand(w)

(* Records leave the feed and the dispatcher in feed order, ...            *)
SourceOrder ==
  /\ Climbs(rawCh)
  /\ Below(Raw, {next})
  /\ Below(Kept, Raw \cup {next})

(* ... and those of a worker reach the producer's queue in that order.     *)
LaneOrder(w) ==
  /\ Climbs(workerCh[w])
  /\ Below(Queue(w), AfterQueue)
  /\ Below(Hand(w), AfterHand(w))
  /\ Below(Offered(w), AfterOffer(w))
  /\ \A r \in Queue(w) \cup Hand(w) : ShardIndex(r) = w

EntryOrder ==
  \A i, j \in DOMAIN accepted :
    i < j /\ ShardIndex(accepted[i]) = ShardIndex(accepted[j]) => accepted[i] < accepted[j]

FeedOrder ==
  /\ SourceOrder
  /\ \A w \in Workers : LaneOrder(w)
  /\ EntryOrder

(* The records on their way, and those handed to the producer.             *)
InTransit == Raw \cup Kept \cup UNION {Queue(w) : w \in Workers}
Produced == {r \in Records : outcome[r] # "new"}

(* An emitted record is in one place.                                      *)
Places ==
  /\ \A r \in Records : r < next <=> r \in InTransit \cup duplicates \cup discarded \cup Produced
  /\ InTransit \cap (duplicates \cup discarded \cup Produced) = {}
  /\ duplicates \cap discarded = {}
  /\ (duplicates \cup discarded) \cap Produced = {}

-----------------------------------------------------------------------------
(* Increasing channels.                                                    *)

(* A larger number at its end leaves a sequence increasing. *)
LEMMA AppendClimbs ==
  ASSUME NEW S, NEW s \in Seq(S), NEW e \in S, Climbs(s), Below(Range(s), {e})
  PROVE  Climbs(Append(s, e)) /\ Range(Append(s, e)) = Range(s) \cup {e}
<1> DEFINE t == Append(s, e)
<1>1. PICK n \in Nat : n = Len(s)
  BY LenProperties
<1>2. DOMAIN s = 1..n /\ DOMAIN t = 1..(n + 1) /\ (\A i \in 1..n : t[i] = s[i]) /\ t[n + 1] = e
  BY <1>1, AppendProperties, LenProperties
<1> HIDE DEF t
<1>3. ASSUME NEW i \in 1..(n + 1), NEW j \in 1..(n + 1), i < j
      PROVE  t[i] < t[j]
  <2>1. i \in 1..n /\ t[i] = s[i] /\ s[i] \in Range(s)
    BY <1>1, <1>2, <1>3 DEF Range
  <2>2. CASE j \in 1..n
    BY <1>2, <1>3, <2>1, <2>2 DEF Climbs
  <2>3. CASE j = n + 1
    BY <1>2, <2>1, <2>3 DEF Below
  <2> QED  BY <1>1, <2>2, <2>3
<1>4. \A x : x \in Range(t) <=> x \in Range(s) \cup {e}
  <2>1. 1..(n + 1) = (1..n) \cup {n + 1}
    BY <1>1
  <2> QED  BY <1>2, <2>1 DEF Range
<1> QED  BY <1>2, <1>3, <1>4 DEF Climbs, t

(* The head of an increasing sequence is smaller than what follows it.     *)
LEMMA TailClimbs ==
  ASSUME NEW S, NEW s \in Seq(S), s # <<>>, Climbs(s)
  PROVE  /\ Climbs(Tail(s)) /\ Below({Head(s)}, Range(Tail(s)))
         /\ Range(s) = {Head(s)} \cup Range(Tail(s))
<1> DEFINE t == Tail(s)
           h == Head(s)
<1>1. PICK n \in Nat : n + 1 = Len(s)
  <2>1. Len(s) \in Nat \ {0}
    BY LenProperties, EmptySeq
  <2> QED  BY <2>1
<1>2. /\ DOMAIN s = 1..(n + 1) /\ DOMAIN t = 1..n /\ h = s[1]
      /\ \A i \in 1..n : t[i] = s[i + 1]
  <2>1. t \in Seq(S) /\ Len(t) = Len(s) - 1 /\ h = s[1] /\ \A i \in 1..Len(t) : t[i] = s[i + 1]
    BY HeadTailProperties
  <2>2. Len(t) = n /\ DOMAIN t = 1..Len(t) /\ DOMAIN s = 1..Len(s)
    BY <1>1, <2>1, LenProperties
  <2> QED  BY <1>1, <2>1, <2>2
<1> HIDE DEF t, h
<1>3. Climbs(t)
  BY <1>2 DEF Climbs
<1>4. Below({h}, Range(t))
  BY <1>2 DEF Below, Climbs, Range
<1>5. ASSUME NEW x \in Range(s)
      PROVE  x = h \/ x \in Range(t)
  <2>1. PICK i \in 1..(n + 1) : x = s[i]
    BY <1>2, <1>5 DEF Range
  <2>2. CASE i = 1
    BY <1>2, <2>1, <2>2
  <2>3. CASE i # 1
    <3>1. i - 1 \in 1..n /\ (i - 1) + 1 = i
      BY <1>1, <2>3
    <3>2. t[i - 1] = x
      BY <1>2, <2>1, <3>1
    <3> QED  BY <1>2, <3>1, <3>2 DEF Range
  <2> QED  BY <2>2, <2>3
<1>6. h \in Range(s) /\ Range(t) \subseteq Range(s)
  <2>1. 1 \in 1..(n + 1) /\ \A i \in 1..n : i + 1 \in 1..(n + 1)
    BY <1>1
  <2> QED  BY <1>2, <2>1 DEF Range
<1> QED  BY <1>3, <1>4, <1>5, <1>6 DEF t, h

(* What is on its way is a record, and records are numbers.                *)
LEMMA Travellers ==
  ASSUME Types, PP!QInv
  PROVE  /\ Records \subseteq Nat /\ next \in Nat /\ None \notin Records
         /\ Raw \subseteq Records /\ Kept \subseteq Records /\ AfterQueue \subseteq Nat
         /\ \A w \in Workers : /\ Queue(w) \subseteq Records /\ Hand(w) \subseteq Records
                               /\ Offered(w) \subseteq Records
<1>1. Records \subseteq Nat /\ next \in Nat /\ None \notin Records
  <2>1. PICK n \in Nat : n = Cardinality(Records) /\ Records = 1..n
    BY ConstantTypes
  <2> QED  BY <2>1 DEF Types, None
<1>2. ASSUME NEW s \in Seq(Records)
      PROVE  Range(s) \subseteq Records
  BY <1>2, ElementOfSeq, LenProperties DEF Range
<1>3. Raw \subseteq Records /\ Kept \subseteq Records
  BY <1>2 DEF Raw, Kept, Types
<1>4. ASSUME NEW w \in Workers
      PROVE  Queue(w) \subseteq Records /\ Hand(w) \subseteq Records /\ Offered(w) \subseteq Records
  <2>1. workerCh[w] \in Seq(Records) /\ accepted \in Seq(Records)
    BY AcceptedAreRecords DEF Types
  <2>2. pub[w] \in Records \cup {None}
    BY MsgsAreRecords DEF PP!QInv, PP!IInv, PP!TypeOK
  <2> QED  BY <1>2, <2>1, <2>2 DEF Queue, Hand, Offered
<1>5. AfterQueue \subseteq Nat
  BY <1>1, <1>3 DEF AfterQueue
<1> QED  BY <1>1, <1>3, <1>4, <1>5

(* A lane that keeps its records stays in order while what follows moves on. *)
LEMMA LaneStays ==
  ASSUME Types, PP!QInv, AfterQueue' \subseteq Nat, NEW w \in Workers, LaneOrder(w),
         workerCh'[w] = workerCh[w], pub'[w] = pub[w], Offered(w)' = Offered(w),
         \A x \in AfterQueue' : \E y \in AfterQueue : y <= x
  PROVE  LaneOrder(w)'
<1>1. Queue(w)' = Queue(w) /\ Hand(w)' = Hand(w)
  BY DEF Queue, Hand
<1>2. /\ Records \subseteq Nat /\ AfterQueue \subseteq Nat /\ AfterQueue' \subseteq Nat
      /\ Queue(w) \subseteq Nat /\ Hand(w) \subseteq Nat /\ Offered(w) \subseteq Nat
  BY Travellers
<1>3. ASSUME NEW A, A \subseteq Nat, Below(A, AfterQueue)
      PROVE  Below(A, AfterQueue')
  <2> SUFFICES ASSUME NEW a \in A, NEW x \in AfterQueue' PROVE a < x
    BY DEF Below
  <2>1. PICK y \in AfterQueue : y <= x
    OBVIOUS
  <2>2. a < y /\ a \in Nat /\ y \in Nat /\ x \in Nat
    BY <1>2, <1>3 DEF Below
  <2> QED  BY <2>1, <2>2
<1>4. Below(Queue(w)', AfterQueue')
  BY <1>1, <1>2, <1>3 DEF LaneOrder
<1>5. Below(Hand(w)', AfterHand(w)')
  <2>1. Below(Hand(w), AfterQueue)
    BY DEF LaneOrder, AfterHand, Below
  <2>2. Below(Hand(w), AfterQueue')
    BY <1>2, <1>3, <2>1
  <2> QED  BY <1>1, <2>2 DEF LaneOrder, AfterHand, Below
<1>6. Below(Offered(w)', AfterOffer(w)')
  <2>1. Below(Offered(w), AfterQueue)
    BY DEF LaneOrder, AfterOffer, AfterHand, Below
  <2>2. Below(Offered(w), AfterQueue')
    BY <1>2, <1>3, <2>1
  <2> QED  BY <1>1, <2>2 DEF LaneOrder, AfterOffer, AfterHand, Below
<1> QED  BY <1>1, <1>4, <1>5, <1>6 DEF LaneOrder, ShardIndex

(* Nothing is on its way at the start. *)
LEMMA FeedOrderInit == Init => FeedOrder
<1> SUFFICES ASSUME Init PROVE FeedOrder
  OBVIOUS
<1>1. rawCh = <<>> /\ held = None /\ accepted = <<>>
  BY DEF Init, Producer!Init
<1>2. \A w \in Workers : workerCh[w] = <<>> /\ pub[w] = None
  BY DEF Init, Producer!Init
<1>3. \A s : s = <<>> => Range(s) = {} /\ Climbs(s)
  BY DEF Range, Climbs
<1>4. Raw = {} /\ Kept = {}
  BY <1>1, <1>3 DEF Raw, Kept
<1>5. \A w \in Workers : Queue(w) = {} /\ Hand(w) = {} /\ Offered(w) = {}
  BY <1>1, <1>2, <1>3 DEF Queue, Hand, Offered
<1>6. SourceOrder
  BY <1>1, <1>3, <1>4 DEF SourceOrder, Below
<1>7. \A w \in Workers : LaneOrder(w)
  BY <1>2, <1>3, <1>5 DEF LaneOrder, Below
<1>8. EntryOrder
  BY <1>1 DEF EntryOrder
<1> QED  BY <1>6, <1>7, <1>8 DEF FeedOrder

(* The feed emits records in their order. *)
LEMMA FeedSendOrder ==
  ASSUME Types, PP!QInv, FeedOrder, FeedSend
  PROVE  FeedOrder'
<1>1. /\ next \in Records /\ rawCh' = Append(rawCh, next) /\ next' = next + 1
      /\ UNCHANGED <<held, workerCh, pub, accepted>>
  BY DEF FeedSend, More, producerVars
<1>2. Records \subseteq Nat /\ Raw \subseteq Nat /\ Kept \subseteq Nat /\ AfterQueue \subseteq Nat
  BY Travellers
<1>3. Climbs(rawCh') /\ Raw' = Raw \cup {next}
  BY <1>1, AppendClimbs DEF FeedOrder, SourceOrder, Raw, Types
<1>4. Kept' = Kept /\ AfterQueue' = AfterQueue \cup {next + 1}
  <2>1. Kept' = Kept
    BY <1>1 DEF Kept
  <2> QED  BY <1>1, <1>3, <2>1 DEF AfterQueue
<1>5. SourceOrder'
  <2>1. \A r \in Raw \cup {next} : r < next + 1
    BY <1>1, <1>2 DEF FeedOrder, SourceOrder, Below
  <2>2. \A r \in Kept : \A s \in Raw \cup {next, next + 1} : r < s
    BY <1>1, <1>2 DEF FeedOrder, SourceOrder, Below
  <2> QED  BY <1>1, <1>3, <1>4, <2>1, <2>2 DEF SourceOrder, Below
<1>6. ASSUME NEW w \in Workers
      PROVE  LaneOrder(w)'
  <2>1. workerCh'[w] = workerCh[w] /\ pub'[w] = pub[w] /\ Offered(w)' = Offered(w)
    BY <1>1 DEF Offered, ShardIndex
  <2>2. next \in AfterQueue /\ next \in Nat
    BY <1>1, <1>2 DEF AfterQueue
  <2>3. next <= next + 1 /\ next + 1 \in Nat /\ \A x \in AfterQueue : x <= x
    BY <1>2, <2>2
  <2>4. AfterQueue' \subseteq Nat /\ \A x \in AfterQueue' : \E y \in AfterQueue : y <= x
    BY <1>2, <1>4, <2>2, <2>3
  <2> QED  BY <2>1, <2>4, LaneStays DEF FeedOrder
<1>7. EntryOrder'
  BY <1>1 DEF FeedOrder, EntryOrder, ShardIndex
<1> QED  BY <1>5, <1>6, <1>7 DEF FeedOrder

(* The dispatcher takes the oldest record of rawCh. *)
LEMMA DispatchTakeOrder ==
  ASSUME Types, PP!QInv, FeedOrder, DispatchTake
  PROVE  FeedOrder'
<1>1. /\ held = None /\ rawCh # <<>> /\ held' = Head(rawCh) /\ rawCh' = Tail(rawCh)
      /\ UNCHANGED <<next, workerCh, pub, accepted>>
  BY DEF DispatchTake, producerVars
<1>2. Records \subseteq Nat /\ Raw \subseteq Records /\ AfterQueue \subseteq Nat /\ None \notin Records
  BY Travellers
<1>3. Climbs(rawCh') /\ Below({held'}, Raw') /\ Raw = {held'} \cup Raw'
  BY <1>1, TailClimbs DEF FeedOrder, SourceOrder, Raw, Types
<1>4. Kept' = {held'} /\ Kept = {}
  BY <1>1, <1>2, <1>3 DEF Kept
<1>5. AfterQueue' = AfterQueue
  BY <1>1, <1>3, <1>4 DEF AfterQueue
<1>6. SourceOrder'
  BY <1>1, <1>3, <1>4 DEF FeedOrder, SourceOrder, Below
<1>7. ASSUME NEW w \in Workers
      PROVE  LaneOrder(w)'
  <2>1. workerCh'[w] = workerCh[w] /\ pub'[w] = pub[w] /\ Offered(w)' = Offered(w)
    BY <1>1 DEF Offered, ShardIndex
  <2>2. \A x \in AfterQueue' : \E y \in AfterQueue : y <= x
    BY <1>2, <1>5
  <2> QED  BY <1>2, <1>5, <2>1, <2>2, LaneStays DEF FeedOrder
<1>8. EntryOrder'
  BY <1>1 DEF FeedOrder, EntryOrder, ShardIndex
<1> QED  BY <1>6, <1>7, <1>8 DEF FeedOrder

(* The dispatcher lets go of the record it held. *)
LEMMA HeldGone ==
  ASSUME Types, PP!QInv, SourceOrder, held # None, held' = None, UNCHANGED <<next, rawCh>>
  PROVE  /\ SourceOrder' /\ Raw' = Raw /\ Kept = {held} /\ Kept' = {}
         /\ AfterQueue' = Raw \cup {next} /\ AfterQueue = {held} \cup AfterQueue'
         /\ \A x \in AfterQueue' : \E y \in AfterQueue : y <= x
<1>1. Kept' = {} /\ Kept = {held} /\ Raw' = Raw
  BY DEF Kept, Raw
<1>2. AfterQueue' = Raw \cup {next} /\ AfterQueue = {held} \cup AfterQueue'
  BY <1>1 DEF AfterQueue
<1>3. SourceOrder'
  BY <1>1 DEF SourceOrder, Below
<1>4. AfterQueue \subseteq Nat
  BY Travellers
<1>5. \A x \in AfterQueue' : x \in AfterQueue /\ x <= x
  BY <1>2, <1>4
<1> QED  BY <1>1, <1>2, <1>3, <1>5

(* The dispatcher discards the record it held. *)
LEMMA DispatchDiscardOrder ==
  ASSUME Types, PP!QInv, FeedOrder, DispatchDiscard
  PROVE  FeedOrder'
<1>1. held # None /\ held' = None /\ UNCHANGED <<next, rawCh, workerCh, pub, accepted>>
  BY DEF DispatchDiscard, producerVars
<1>2. /\ SourceOrder' /\ AfterQueue = {held} \cup AfterQueue'
      /\ \A x \in AfterQueue' : \E y \in AfterQueue : y <= x
  BY <1>1, HeldGone DEF FeedOrder
<1>3. AfterQueue' \subseteq Nat
  BY <1>2, Travellers
<1>4. ASSUME NEW w \in Workers
      PROVE  LaneOrder(w)'
  <2>1. workerCh'[w] = workerCh[w] /\ pub'[w] = pub[w] /\ Offered(w)' = Offered(w)
    BY <1>1 DEF Offered, ShardIndex
  <2> QED  BY <1>2, <1>3, <2>1, LaneStays DEF FeedOrder
<1>5. EntryOrder'
  BY <1>1 DEF FeedOrder, EntryOrder, ShardIndex
<1> QED  BY <1>2, <1>4, <1>5 DEF FeedOrder

(* The dispatcher sends the record it held to the worker of its symbol. *)
LEMMA DispatchSendOrder ==
  ASSUME Types, PP!QInv, FeedOrder, DispatchSend
  PROVE  FeedOrder'
<1>1. /\ held # None /\ held' = None /\ UNCHANGED <<next, rawCh, pub, accepted>>
      /\ workerCh' = [workerCh EXCEPT ![ShardIndex(held)] = Append(workerCh[ShardIndex(held)], held)]
  BY DEF DispatchSend, producerVars
<1>2. held \in Records
  BY <1>1 DEF Types
<1>3. PICK v \in Workers : v = ShardIndex(held)
  BY <1>2, ConstantTypes
<1>4. /\ workerCh'[v] = Append(workerCh[v], held) /\ workerCh[v] \in Seq(Records)
      /\ \A w \in Workers : w # v => workerCh'[w] = workerCh[w]
  BY <1>1, <1>3 DEF Types
<1>5. /\ SourceOrder' /\ Kept = {held} /\ AfterQueue = {held} \cup AfterQueue'
      /\ AfterQueue' = Raw \cup {next}
      /\ \A x \in AfterQueue' : \E y \in AfterQueue : y <= x
  BY <1>1, HeldGone DEF FeedOrder
<1>6. AfterQueue' \subseteq Nat
  BY <1>5, Travellers
<1>7. \A w \in Workers : pub'[w] = pub[w] /\ Offered(w)' = Offered(w) /\ Hand(w)' = Hand(w)
  BY <1>1 DEF Offered, ShardIndex, Hand
<1>8. LaneOrder(v)'
  <2>0. LaneOrder(v) /\ Below(Queue(v), {held})
    BY <1>5 DEF FeedOrder, LaneOrder, Below
  <2>1. Climbs(workerCh'[v]) /\ Queue(v)' = Queue(v) \cup {held}
    BY <1>2, <1>4, <2>0, AppendClimbs DEF LaneOrder, Queue
  <2>2. AfterHand(v)' = AfterHand(v) /\ AfterOffer(v)' = AfterOffer(v)
    <3>1. AfterHand(v)' = AfterHand(v)
      BY <1>5, <2>1 DEF AfterHand
    <3> QED  BY <1>7, <3>1 DEF AfterOffer
  <2>3. Below(Queue(v)', AfterQueue')
    <3>1. Below({held}, AfterQueue')
      BY <1>5 DEF FeedOrder, SourceOrder, Below
    <3> QED  BY <1>5, <2>0, <2>1, <3>1 DEF LaneOrder, Below
  <2>4. \A r \in Queue(v)' \cup Hand(v)' : ShardIndex(r) = v
    BY <1>3, <1>7, <2>0, <2>1 DEF LaneOrder
  <2>5. Below(Hand(v)', AfterHand(v)') /\ Below(Offered(v)', AfterOffer(v)')
    BY <1>7, <2>0, <2>2 DEF LaneOrder
  <2> QED  BY <2>1, <2>3, <2>4, <2>5 DEF LaneOrder, ShardIndex
<1>9. ASSUME NEW w \in Workers
      PROVE  LaneOrder(w)'
  <2>1. CASE w = v
    BY <1>8, <2>1
  <2>2. CASE w # v
    BY <1>4, <1>5, <1>6, <1>7, <2>2, LaneStays DEF FeedOrder
  <2> QED  BY <2>1, <2>2
<1>10. EntryOrder'
  BY <1>1 DEF FeedOrder, EntryOrder, ShardIndex
<1> QED  BY <1>5, <1>9, <1>10 DEF FeedOrder

(* A step that moves no record before the workers. *)
LEMMA SourceStays ==
  ASSUME Types, PP!QInv, SourceOrder, UNCHANGED <<next, rawCh, held>>
  PROVE  /\ SourceOrder' /\ Raw' = Raw /\ Kept' = Kept /\ AfterQueue' = AfterQueue
         /\ AfterQueue' \subseteq Nat /\ \A x \in AfterQueue' : \E y \in AfterQueue : y <= x
<1>1. Raw' = Raw /\ Kept' = Kept
  BY DEF Raw, Kept
<1>2. AfterQueue' = AfterQueue
  BY <1>1 DEF AfterQueue
<1>3. AfterQueue \subseteq Nat
  BY Travellers
<1>4. \A x \in AfterQueue : x <= x
  BY <1>3
<1>5. \A x \in AfterQueue' : \E y \in AfterQueue : y <= x
  BY <1>2, <1>4
<1> QED  BY <1>1, <1>2, <1>3, <1>5 DEF SourceOrder

(* A step that moves no record. *)
LEMMA QuietOrder ==
  ASSUME Types, PP!QInv, FeedOrder, UNCHANGED <<next, rawCh, held, workerCh, pub, accepted>>
  PROVE  FeedOrder'
<1>1. /\ SourceOrder' /\ AfterQueue' \subseteq Nat
      /\ \A x \in AfterQueue' : \E y \in AfterQueue : y <= x
  BY SourceStays DEF FeedOrder
<1>2. ASSUME NEW w \in Workers
      PROVE  LaneOrder(w)'
  <2>1. Offered(w)' = Offered(w)
    BY DEF Offered, ShardIndex
  <2> QED  BY <1>1, <2>1, LaneStays DEF FeedOrder
<1>3. EntryOrder'
  BY DEF FeedOrder, EntryOrder, ShardIndex
<1> QED  BY <1>1, <1>2, <1>3 DEF FeedOrder

(* What taking the head of its channel does to a worker's lane. *)
LEMMA TakesLane ==
  ASSUME Types, PP!QInv, FeedOrder, NEW w \in Workers, NEW r \in Records, Takes(w, r)
  PROVE  /\ Hand(w) = {} /\ Queue(w) = {r} \cup Queue(w)' /\ r \in Queue(w)
         /\ Climbs(workerCh'[w]) /\ Below({r}, Queue(w)')
         /\ \A v \in Workers : /\ v # w => workerCh'[v] = workerCh[v]
                               /\ Offered(v)' = Offered(v)
<1>1. /\ pub[w] = None /\ workerCh[w] # <<>> /\ r = Head(workerCh[w]) /\ accepted' = accepted
      /\ workerCh' = [workerCh EXCEPT ![w] = Tail(workerCh[w])]
      /\ workerCh \in [Workers -> Seq(Records)] /\ Climbs(workerCh[w])
  BY DEF Takes, Types, FeedOrder, LaneOrder
<1>2. workerCh'[w] = Tail(workerCh[w]) /\ \A v \in Workers : v # w => workerCh'[v] = workerCh[v]
  BY <1>1
<1>3. /\ Climbs(workerCh'[w]) /\ Below({r}, Queue(w)') /\ Queue(w) = {r} \cup Queue(w)'
  BY <1>1, <1>2, TailClimbs DEF Queue
<1>4. Hand(w) = {}
  BY <1>1 DEF Hand
<1>5. \A v : Offered(v)' = Offered(v)
  BY <1>1 DEF Offered, ShardIndex
<1> QED  BY <1>2, <1>3, <1>4, <1>5

(* A worker takes a record and filters it out, or starts to publish it. *)
LEMMA TakesOrder ==
  ASSUME Types, PP!QInv, FeedOrder, NEW w \in Workers, NEW r \in Records,
         Skips(w, r) \/ Starts(w, r)
  PROVE  FeedOrder'
<1>1. Takes(w, r) /\ UNCHANGED <<next, rawCh, held, accepted>>
  BY DEF Skips, Starts, Takes
<1>2. /\ SourceOrder' /\ AfterQueue' = AfterQueue /\ AfterQueue' \subseteq Nat
      /\ \A x \in AfterQueue' : \E y \in AfterQueue : y <= x
  BY <1>1, SourceStays DEF FeedOrder
<1>3. /\ Hand(w) = {} /\ Queue(w) = {r} \cup Queue(w)'
      /\ Climbs(workerCh'[w]) /\ Below({r}, Queue(w)')
      /\ \A v \in Workers : /\ v # w => workerCh'[v] = workerCh[v]
                            /\ Offered(v)' = Offered(v)
  BY <1>1, TakesLane
<1>4. /\ Hand(w)' \subseteq {r}
      /\ \A v \in Workers : v # w => pub'[v] = pub[v]
  <2>1. pub \in [Workers -> PP!Msgs \cup {None}] /\ pub[w] = None
    BY <1>1 DEF PP!QInv, PP!IInv, PP!TypeOK, Takes
  <2>2. pub' = pub \/ pub' = [pub EXCEPT ![w] = r]
    BY DEF Skips, Starts
  <2>3. pub'[w] \in {r, None}
    BY <2>1, <2>2
  <2> QED  BY <2>1, <2>2, <2>3 DEF Hand
<1>5. LaneOrder(w)'
  <2>0. LaneOrder(w)
    BY DEF FeedOrder
  <2>1. Below(Queue(w)', AfterQueue')
    BY <1>2, <1>3, <2>0 DEF LaneOrder, Below
  <2>2. Below({r}, AfterHand(w)')
    BY <1>2, <1>3, <2>0 DEF LaneOrder, AfterHand, Below
  <2>3. Below(Hand(w)', AfterHand(w)')
    BY <1>4, <2>2 DEF Below
  <2>4. AfterOffer(w)' \subseteq AfterOffer(w)
    <3>1. AfterHand(w) = {r} \cup AfterHand(w)'
      BY <1>2, <1>3 DEF AfterHand
    <3> QED  BY <1>3, <1>4, <3>1 DEF AfterOffer
  <2>5. Below(Offered(w)', AfterOffer(w)')
    BY <1>3, <2>0, <2>4 DEF LaneOrder, Below
  <2>6. \A x \in Queue(w)' \cup Hand(w)' : ShardIndex(x) = w
    BY <1>3, <1>4, <2>0 DEF LaneOrder
  <2> QED  BY <1>3, <2>1, <2>3, <2>5, <2>6 DEF LaneOrder, ShardIndex
<1>6. ASSUME NEW v \in Workers
      PROVE  LaneOrder(v)'
  <2>1. CASE v = w
    BY <1>5, <2>1
  <2>2. CASE v # w
    BY <1>2, <1>3, <1>4, <2>2, LaneStays DEF FeedOrder
  <2> QED  BY <2>1, <2>2
<1>7. EntryOrder'
  BY <1>1 DEF FeedOrder, EntryOrder, ShardIndex
<1> QED  BY <1>2, <1>6, <1>7 DEF FeedOrder

(* A record enters the producer's queue after those of its worker. *)
LEMMA EntryAppend ==
  ASSUME Types, PP!QInv, FeedOrder, NEW w \in Workers, NEW r \in Records,
         accepted' = Append(accepted, r), r \in Hand(w)
  PROVE  /\ EntryOrder' /\ Offered(w)' = Offered(w) \cup {r}
         /\ \A v \in Workers : v # w => Offered(v)' = Offered(v)
<1>1. accepted \in Seq(Records) /\ ShardIndex(r) = w /\ Below(Offered(w), {r})
  BY AcceptedAreRecords DEF FeedOrder, LaneOrder, AfterOffer, Below
<1>2. PICK n \in Nat : n = Len(accepted)
  BY <1>1, LenProperties
<1>3. /\ DOMAIN accepted = 1..n /\ DOMAIN accepted' = 1..(n + 1)
      /\ (\A i \in 1..n : accepted'[i] = accepted[i]) /\ accepted'[n + 1] = r
  BY <1>1, <1>2, AppendProperties, LenProperties
<1>4. Range(accepted') = Range(accepted) \cup {r}
  <2>1. 1..(n + 1) = (1..n) \cup {n + 1}
    BY <1>2
  <2>2. \A x : x \in Range(accepted') <=> x \in Range(accepted) \cup {r}
    BY <1>3, <2>1 DEF Range
  <2> QED  BY <2>2
<1>5. \A v \in Workers : Offered(v)' = {x \in Range(accepted) \cup {r} : ShardIndex(x) = v}
  BY <1>4 DEF Offered, ShardIndex
<1>6. Offered(w)' = Offered(w) \cup {r} /\ \A v \in Workers : v # w => Offered(v)' = Offered(v)
  BY <1>1, <1>5 DEF Offered
<1>7. EntryOrder'
  <2> SUFFICES ASSUME NEW i \in 1..(n + 1), NEW j \in 1..(n + 1), i < j,
                      ShardIndex(accepted'[i]) = ShardIndex(accepted'[j])
               PROVE  accepted'[i] < accepted'[j]
    BY <1>3 DEF EntryOrder, ShardIndex
  <2>1. i \in 1..n /\ accepted'[i] = accepted[i]
    BY <1>2, <1>3
  <2>2. CASE j \in 1..n
    BY <1>3, <2>1, <2>2 DEF FeedOrder, EntryOrder
  <2>3. CASE j = n + 1
    <3>1. accepted[i] \in Offered(w)
      BY <1>1, <1>3, <2>1, <2>3 DEF Offered, Range
    <3> QED  BY <1>1, <1>3, <2>1, <2>3, <3>1 DEF Below
  <2> QED  BY <1>2, <2>2, <2>3
<1> QED  BY <1>6, <1>7

(* A worker's record enters the producer's queue, or is refused. *)
LEMMA LeavesOrder ==
  ASSUME Types, PP!QInv, FeedOrder, NEW w \in Workers, NEW r \in Records, Leaves(w, r)
  PROVE  FeedOrder'
<1>1. /\ pub[w] = r /\ pub' = [pub EXCEPT ![w] = None]
      /\ accepted' \in {accepted, Append(accepted, r)}
      /\ UNCHANGED <<next, rawCh, held, workerCh>>
  BY DEF Leaves, pipelineVars
<1>2. /\ SourceOrder' /\ AfterQueue' = AfterQueue /\ AfterQueue' \subseteq Nat
      /\ \A x \in AfterQueue' : \E y \in AfterQueue : y <= x
  BY <1>1, SourceStays DEF FeedOrder
<1>3. Hand(w) = {r} /\ Hand(w)' = {} /\ \A v \in Workers : v # w => pub'[v] = pub[v]
  <2>1. pub \in [Workers -> PP!Msgs \cup {None}] /\ r # None
    BY Travellers DEF PP!QInv, PP!IInv, PP!TypeOK
  <2> QED  BY <1>1, <2>1 DEF Hand
<1>4. /\ EntryOrder' /\ Offered(w)' \subseteq Offered(w) \cup {r}
      /\ \A v \in Workers : v # w => Offered(v)' = Offered(v)
  <2>1. CASE accepted' = accepted
    BY <2>1 DEF FeedOrder, EntryOrder, Offered, ShardIndex
  <2>2. CASE accepted' = Append(accepted, r)
    BY <1>3, <2>2, EntryAppend
  <2> QED  BY <1>1, <2>1, <2>2
<1>5. LaneOrder(w)'
  <2>0. LaneOrder(w)
    BY DEF FeedOrder
  <2>1. Queue(w)' = Queue(w) /\ workerCh'[w] = workerCh[w]
    BY <1>1 DEF Queue
  <2>2. AfterHand(w)' = AfterHand(w) /\ AfterOffer(w)' = AfterHand(w)
    <3>1. AfterHand(w)' = AfterHand(w)
      BY <1>2, <2>1 DEF AfterHand
    <3> QED  BY <1>3, <3>1 DEF AfterOffer
  <2>3. Below(Offered(w)', AfterOffer(w)')
    <3>1. Below(Offered(w), AfterHand(w)) /\ Below({r}, AfterHand(w))
      BY <1>3, <2>0 DEF LaneOrder, AfterOffer, Below
    <3> QED  BY <1>4, <2>2, <3>1 DEF Below
  <2>4. Below(Hand(w)', AfterHand(w)')
    BY <1>3 DEF Below
  <2>5. Climbs(workerCh'[w]) /\ Below(Queue(w)', AfterQueue')
        /\ \A x \in Queue(w)' \cup Hand(w)' : ShardIndex(x) = w
    BY <1>2, <1>3, <2>0, <2>1 DEF LaneOrder
  <2> QED  BY <2>3, <2>4, <2>5 DEF LaneOrder, ShardIndex
<1>6. ASSUME NEW v \in Workers
      PROVE  LaneOrder(v)'
  <2>1. CASE v = w
    BY <1>5, <2>1
  <2>2. CASE v # w
    BY <1>1, <1>2, <1>3, <1>4, <2>2, LaneStays DEF FeedOrder
  <2> QED  BY <2>1, <2>2
<1> QED  BY <1>2, <1>4, <1>6 DEF FeedOrder

(* Every step keeps the records in feed order. *)
LEMMA FeedOrderStep ==
  ASSUME Types, PP!QInv, FeedOrder, [Next]_vars
  PROVE  FeedOrder'
<1>1. CASE Quiet \/ Forget
  BY <1>1, QuietOrder DEF Quiet, Forget, producerVars
<1>2. CASE FeedSend \/ DispatchTake \/ DispatchSend \/ DispatchDiscard
  BY <1>2, FeedSendOrder, DispatchTakeOrder, DispatchSendOrder, DispatchDiscardOrder
<1>3. ASSUME NEW w \in Workers, NEW r \in Records, Skips(w, r) \/ Starts(w, r) \/ Leaves(w, r)
      PROVE  FeedOrder'
  BY <1>3, TakesOrder, LeavesOrder
<1> QED  BY <1>1, <1>2, <1>3, Moves

(* Records move through the pipeline in feed order. *)
LEMMA OrderHolds == Spec => []FeedOrder
BY FeedOrderInit, FeedOrderStep, TypesHold, ProducerInvariant, PTL DEF Spec

(* The trades of a symbol first appear in the topic in feed order, however *)
(* the workers interleave: the records of a symbol pass one worker, which  *)
(* queues them in feed order, and the producer keeps the order of a key.   *)
THEOREM OrderSurvivesEndToEnd == Spec => []SymbolOrderEndToEnd
<1>1. PP!QInv /\ FeedOrder /\ PP!FirstCopiesInQueueOrder => SymbolOrderEndToEnd
  <2> SUFFICES ASSUME PP!QInv, FeedOrder, PP!FirstCopiesInQueueOrder, SinkInOrder,
                      NEW r \in Range(topic), NEW s \in Range(topic), r < s, SameSymbol(r, s)
               PROVE  Producer!FirstCopy(r) < Producer!FirstCopy(s)
    BY DEF SymbolOrderEndToEnd
  <2>1. r \in PP!Range(topic) /\ s \in PP!Range(topic)
    BY DEF Range, PP!Range
  <2>2. PICK i \in DOMAIN accepted : accepted[i] = r
    BY <2>1 DEF PP!QInv, PP!TopicFromQueue, PP!Range
  <2>3. PICK j \in DOMAIN accepted : accepted[j] = s
    BY <2>1 DEF PP!QInv, PP!TopicFromQueue, PP!Range
  <2>4. ShardIndex(r) = ShardIndex(s)
    BY DEF ShardIndex, SameSymbol
  <2>5. i < j
    <3>1. r \in Nat /\ s \in Nat /\ i \in Nat /\ j \in Nat
      <4>1. accepted \in Seq(Records) /\ r \in Records /\ s \in Records
        BY <2>2, <2>3, AcceptedAreRecords
      <4>2. i \in Nat /\ j \in Nat
        BY <4>1, LenProperties
      <4>3. Records \subseteq Nat
        <5>1. PICK n \in Nat : Records = 1..n
          BY ConstantTypes
        <5> QED  BY <5>1
      <4> QED  BY <4>1, <4>2, <4>3
    <3>2. ~(j < i)
      <4>1. j < i => s < r
        BY <2>2, <2>3, <2>4 DEF FeedOrder, EntryOrder
      <4> QED  BY <3>1, <4>1
    <3>3. i # j
      BY <2>2, <2>3, <3>1
    <3> QED  BY <3>1, <3>2, <3>3
  <2>6. PP!FirstCopy(r) < PP!FirstCopy(s)
    BY <2>1, <2>2, <2>3, <2>5 DEF PP!FirstCopiesInQueueOrder, SameSymbol
  <2> QED  BY <2>6 DEF Producer!FirstCopy, PP!FirstCopy
<1>2. Spec => []PP!FirstCopiesInQueueOrder
  BY PipelineUsesProducer, PP!QueueOrderSurvives, ProducerConstants, PTL
<1> QED  BY <1>1, <1>2, OrderHolds, ProducerInvariant, PTL

-----------------------------------------------------------------------------
(* Every emitted record is somewhere, once.                                *)

(* A step that moves no record leaves each in its place. *)
LEMMA PlacesStay ==
  ASSUME Places, SameNews, UNCHANGED <<next, duplicates, discarded>>, InTransit' = InTransit
  PROVE  Places'
<1>1. Produced' = Produced
  BY DEF SameNews, Produced
<1> QED  BY <1>1 DEF Places

(* The record the feed emits enters its channel. *)
LEMMA FeedSendPlaces ==
  ASSUME Types, PP!QInv, FeedOrder, Places, FeedSend
  PROVE  Places'
<1>1. /\ next \in Records /\ rawCh' = Append(rawCh, next) /\ next' = next + 1
      /\ UNCHANGED <<held, workerCh, duplicates, discarded, outcome>>
  BY DEF FeedSend, More, producerVars
<1>2. Raw' = Raw \cup {next}
  BY <1>1, AppendClimbs DEF FeedOrder, SourceOrder, Raw, Types
<1>3. InTransit' = InTransit \cup {next} /\ Produced' = Produced
  BY <1>1, <1>2 DEF InTransit, Kept, Queue, Produced
<1>4. next \notin InTransit \cup duplicates \cup discarded \cup Produced
  <2>1. ~(next < next)
    BY Travellers
  <2> QED  BY <1>1, <2>1 DEF Places
<1>5. \A r \in Records : r < next' <=> r < next \/ r = next
  <2>1. Records \subseteq Nat /\ next \in Nat
    BY Travellers
  <2> QED  BY <1>1, <2>1
<1>6. ASSUME NEW r \in Records
      PROVE  r < next' <=> r \in InTransit' \cup duplicates' \cup discarded' \cup Produced'
  BY <1>1, <1>3, <1>5 DEF Places
<1>7. InTransit' \cap (duplicates' \cup discarded' \cup Produced') = {}
  BY <1>1, <1>3, <1>4 DEF Places
<1> QED  BY <1>1, <1>3, <1>6, <1>7 DEF Places

(* The record that the dispatcher takes or sends stays on its way. *)
LEMMA DispatchPlaces ==
  ASSUME Types, PP!QInv, FeedOrder, Places, DispatchTake \/ DispatchSend
  PROVE  Places'
<1>1. SameNews /\ UNCHANGED <<next, duplicates, discarded>>
  BY DEF DispatchTake, DispatchSend, producerVars, SameNews
<1>2. CASE DispatchTake
  <2>1. /\ held = None /\ rawCh # <<>> /\ held' = Head(rawCh) /\ rawCh' = Tail(rawCh)
        /\ workerCh' = workerCh
    BY <1>2 DEF DispatchTake
  <2>2. Raw = {held'} \cup Raw'
    BY <2>1, TailClimbs DEF FeedOrder, SourceOrder, Raw, Types
  <2>3. None \notin Records /\ Raw \subseteq Records
    BY Travellers
  <2>4. InTransit' = InTransit
    BY <2>1, <2>2, <2>3 DEF InTransit, Kept, Queue
  <2> QED  BY <1>1, <2>4, PlacesStay
<1>3. CASE DispatchSend
  <2>1. /\ held # None /\ held' = None /\ UNCHANGED <<next, rawCh, pub, accepted>>
        /\ workerCh' = [workerCh EXCEPT ![ShardIndex(held)] = Append(workerCh[ShardIndex(held)], held)]
    BY <1>3 DEF DispatchSend, producerVars
  <2>2. held \in Records
    BY <2>1 DEF Types
  <2>3. PICK v \in Workers : v = ShardIndex(held)
    BY <2>2, ConstantTypes
  <2>4. /\ workerCh'[v] = Append(workerCh[v], held) /\ workerCh[v] \in Seq(Records)
        /\ \A w \in Workers : w # v => workerCh'[w] = workerCh[w]
    BY <2>1, <2>3 DEF Types
  <2>5. Climbs(workerCh[v]) /\ Below(Range(workerCh[v]), {held})
    BY <2>1 DEF FeedOrder, LaneOrder, Queue, AfterQueue, Kept, Below
  <2>6. /\ Queue(v)' = Queue(v) \cup {held}
        /\ \A w \in Workers : w # v => Queue(w)' = Queue(w)
    BY <2>2, <2>4, <2>5, AppendClimbs DEF Queue
  <2>7. Kept = {held} /\ Kept' = {} /\ Raw' = Raw
    BY <2>1 DEF Kept, Raw
  <2>8. InTransit' = InTransit
    BY <2>6, <2>7 DEF InTransit
  <2> QED  BY <1>1, <2>8, PlacesStay
<1> QED  BY <1>2, <1>3

(* A record that leaves the channels, and is in one other place.           *)
LEMMA PlacesMove ==
  ASSUME Places, NEW r \in Records, next' = next,
         InTransit = {r} \cup InTransit', r \notin InTransit',
         \/ duplicates' = duplicates \cup {r} /\ discarded' = discarded /\ Produced' = Produced
         \/ duplicates' = duplicates /\ discarded' = discarded \cup {r} /\ Produced' = Produced
         \/ duplicates' = duplicates /\ discarded' = discarded /\ Produced' = Produced \cup {r}
  PROVE  Places'
<1>1. r \notin duplicates \cup discarded \cup Produced
  BY DEF Places
<1>2. ASSUME NEW x \in Records
      PROVE  x < next' <=> x \in InTransit' \cup duplicates' \cup discarded' \cup Produced'
  <2>1. x < next' <=> x \in InTransit \cup duplicates \cup discarded \cup Produced
    BY DEF Places
  <2> QED  BY <2>1
<1>3. InTransit' \cap (duplicates' \cup discarded' \cup Produced') = {}
  BY DEF Places
<1>4. duplicates' \cap discarded' = {} /\ (duplicates' \cup discarded') \cap Produced' = {}
  BY <1>1 DEF Places
<1> QED  BY <1>2, <1>3, <1>4 DEF Places

(* The dispatcher discards the record it held. *)
LEMMA DiscardPlaces ==
  ASSUME Types, PP!QInv, FeedOrder, Places, DispatchDiscard
  PROVE  Places'
<1>1. /\ held # None /\ held' = None /\ UNCHANGED <<next, rawCh, workerCh, duplicates, outcome>>
      /\ discarded' = discarded \cup {held}
  BY DEF DispatchDiscard, producerVars
<1>2. held \in Records
  BY <1>1 DEF Types
<1>3. Kept = {held} /\ Kept' = {} /\ Raw' = Raw /\ \A w \in Workers : Queue(w)' = Queue(w)
  BY <1>1 DEF Kept, Raw, Queue
<1>4. InTransit = {held} \cup InTransit'
  BY <1>3 DEF InTransit
<1>5. held \notin InTransit'
  <2>1. ~(held < held)
    BY <1>2, Travellers
  <2>2. held \notin Raw
    BY <1>3, <2>1 DEF FeedOrder, SourceOrder, Below
  <2>3. \A w \in Workers : held \notin Queue(w)
    BY <1>3, <2>1 DEF FeedOrder, LaneOrder, AfterQueue, Below
  <2> QED  BY <1>3, <2>2, <2>3 DEF InTransit
<1>6. Produced' = Produced
  BY <1>1 DEF Produced
<1>7. PICK r \in Records : r = held
  BY <1>2
<1> QED  BY <1>1, <1>4, <1>5, <1>6, <1>7, PlacesMove

(* A worker filters its record out, or starts to publish it. *)
LEMMA TakesPlaces ==
  ASSUME Types, PP!QInv, FeedOrder, Places, NEW w \in Workers, NEW r \in Records,
         Skips(w, r) \/ Starts(w, r)
  PROVE  Places'
<1>1. Takes(w, r) /\ UNCHANGED <<next, rawCh, held, discarded>>
  BY DEF Skips, Starts, Takes
<1>2. /\ Queue(w) = {r} \cup Queue(w)' /\ Below({r}, Queue(w)')
      /\ \A v \in Workers : v # w => Queue(v)' = Queue(v)
  BY <1>1, TakesLane DEF Queue
<1>3. Raw' = Raw /\ Kept' = Kept
  BY <1>1 DEF Raw, Kept
<1>4. InTransit = {r} \cup InTransit'
  BY <1>2, <1>3 DEF InTransit
<1>5. r \notin InTransit'
  <2>1. ~(r < r)
    BY Travellers
  <2>2. r \notin Raw \cup Kept
    BY <1>2, <2>1 DEF FeedOrder, LaneOrder, AfterQueue, Below
  <2>3. r \notin Queue(w)'
    BY <1>2, <2>1 DEF Below
  <2>4. \A v \in Workers : v # w => r \notin Queue(v)
    BY <1>2 DEF FeedOrder, LaneOrder
  <2> QED  BY <1>2, <1>3, <2>2, <2>3, <2>4 DEF InTransit
<1>6. CASE Skips(w, r)
  <2>1. duplicates' = duplicates \cup {r} /\ Produced' = Produced
    BY <1>6 DEF Skips, Produced
  <2> QED  BY <1>1, <1>4, <1>5, <2>1, PlacesMove
<1>7. CASE Starts(w, r)
  <2>1. DOMAIN outcome = Records
    BY MsgsAreRecords DEF PP!QInv, PP!IInv, PP!TypeOK
  <2>2. duplicates' = duplicates /\ Produced' = Produced \cup {r}
    BY <1>7, <2>1 DEF Starts, Produced
  <2> QED  BY <1>1, <1>4, <1>5, <2>2, PlacesMove
<1> QED  BY <1>6, <1>7

(* Nothing has been emitted at the start. *)
LEMMA PlacesInit == Init => Places
<1> SUFFICES ASSUME Init PROVE Places
  OBVIOUS
<1>1. rawCh = <<>> /\ held = None /\ next = 1 /\ duplicates = {} /\ discarded = {}
  BY DEF Init
<1>2. \A w \in Workers : workerCh[w] = <<>>
  BY DEF Init
<1>3. InTransit = {}
  <2>1. \A s : s = <<>> => Range(s) = {}
    BY DEF Range
  <2> QED  BY <1>1, <1>2, <2>1 DEF InTransit, Raw, Kept, Queue
<1>4. Produced = {}
  BY MsgsAreRecords DEF Init, Producer!Init, Producer!Msgs, PP!Msgs, Produced
<1>5. \A r \in Records : ~(r < 1)
  <2>1. PICK n \in Nat : Records = 1..n
    BY ConstantTypes
  <2> QED  BY <2>1
<1> QED  BY <1>1, <1>3, <1>4, <1>5 DEF Places

(* Every step keeps each emitted record in one place. *)
LEMMA PlacesStep ==
  ASSUME Types, PP!QInv, FeedOrder, Places, [Next]_vars
  PROVE  Places'
<1>1. ASSUME UNCHANGED <<rawCh, held, workerCh>>
      PROVE  InTransit' = InTransit
  BY <1>1 DEF InTransit, Raw, Kept, Queue
<1>2. CASE Quiet
  BY <1>1, <1>2, PlacesStay DEF Quiet
<1>3. CASE Forget
  BY <1>1, <1>3, PlacesStay DEF Forget, producerVars, SameNews
<1>4. CASE FeedSend \/ DispatchTake \/ DispatchSend \/ DispatchDiscard
  BY <1>4, FeedSendPlaces, DispatchPlaces, DiscardPlaces
<1>5. ASSUME NEW w \in Workers, NEW r \in Records, Skips(w, r) \/ Starts(w, r)
      PROVE  Places'
  BY <1>5, TakesPlaces
<1>6. ASSUME NEW w \in Workers, NEW r \in Records, Leaves(w, r)
      PROVE  Places'
  BY <1>1, <1>6, PlacesStay DEF Leaves, pipelineVars
<1> QED  BY <1>2, <1>3, <1>4, <1>5, <1>6, Moves

(* An increasing channel holds a record once or not at all. *)
LEMMA RawOnce ==
  ASSUME Types, FeedOrder, NEW r \in Records
  PROVE  Cardinality({i \in DOMAIN rawCh : rawCh[i] = r}) = IF r \in Raw THEN 1 ELSE 0
<1>1. rawCh \in Seq(Records) /\ Climbs(rawCh)
  BY DEF Types, FeedOrder, SourceOrder
<1>2. PICK n \in Nat : DOMAIN rawCh = 1..n
  BY <1>1, LenProperties
<1> DEFINE P == {i \in DOMAIN rawCh : rawCh[i] = r}
<1>3. CASE r \in Raw
  <2>1. PICK i \in DOMAIN rawCh : rawCh[i] = r
    BY <1>3 DEF Raw, Range
  <2>2. ~(r < r)
    <3>1. PICK k \in Nat : Records = 1..k
      BY ConstantTypes
    <3> QED  BY <3>1
  <2>3. ASSUME NEW j \in DOMAIN rawCh, rawCh[j] = r
        PROVE  j = i
    <3>1. ~(i < j) /\ ~(j < i)
      BY <1>1, <2>1, <2>2, <2>3 DEF Climbs
    <3> QED  BY <1>2, <2>1, <2>3, <3>1
  <2>4. P = {i}
    BY <2>1, <2>3
  <2> QED  BY <1>3, <2>4, FS_Singleton
<1>4. CASE r \notin Raw
  <2>1. P = {}
    BY <1>4 DEF Raw, Range
  <2> QED  BY <1>4, <2>1, FS_EmptySet
<1> QED  BY <1>3, <1>4

(* The worker channels together hold a record once or not at all. *)
LEMMA QueuedOnce ==
  ASSUME Types, FeedOrder, NEW r \in Records
  PROVE  Cardinality({s \in Workers \X (1..ChannelSize) :
                        s[2] <= Len(workerCh[s[1]]) /\ workerCh[s[1]][s[2]] = r})
           = IF \E w \in Workers : r \in Queue(w) THEN 1 ELSE 0
<1> DEFINE P == {s \in Workers \X (1..ChannelSize) :
                   s[2] <= Len(workerCh[s[1]]) /\ workerCh[s[1]][s[2]] = r}
<1>1. ASSUME NEW w \in Workers
      PROVE  /\ Climbs(workerCh[w]) /\ Len(workerCh[w]) \in Nat /\ Len(workerCh[w]) <= ChannelSize
             /\ DOMAIN workerCh[w] = 1..Len(workerCh[w])
             /\ \A x \in Queue(w) : ShardIndex(x) = w
  <2>1. workerCh[w] \in Seq(Records)
    BY DEF Types
  <2> QED  BY <2>1, LenProperties DEF Types, FeedOrder, LaneOrder
<1>2. ChannelSize \in Nat
  BY ConstantTypes
<1>3. ASSUME NEW w \in Workers, NEW i \in 1..ChannelSize,
             i <= Len(workerCh[w]), workerCh[w][i] = r
      PROVE  i \in DOMAIN workerCh[w] /\ r \in Queue(w)
  <2>1. i \in DOMAIN workerCh[w]
    BY <1>1, <1>2, <1>3
  <2> QED  BY <1>3, <2>1 DEF Queue, Range
<1>4. CASE \E w \in Workers : r \in Queue(w)
  <2>1. PICK w \in Workers : r \in Queue(w)
    BY <1>4
  <2>2. PICK i \in DOMAIN workerCh[w] : workerCh[w][i] = r
    BY <2>1 DEF Queue, Range
  <2>3. i \in 1..ChannelSize /\ i <= Len(workerCh[w])
    BY <1>1, <1>2, <2>2
  <2>4. ~(r < r)
    <3>1. PICK k \in Nat : Records = 1..k
      BY ConstantTypes
    <3> QED  BY <3>1
  <2>5. ASSUME NEW v \in Workers, NEW j \in 1..ChannelSize,
               j <= Len(workerCh[v]), workerCh[v][j] = r
        PROVE  v = w /\ j = i
    <3>1. j \in DOMAIN workerCh[v] /\ r \in Queue(v)
      BY <1>3, <2>5
    <3>2. v = w
      BY <1>1, <2>1, <3>1
    <3>3. ~(i < j) /\ ~(j < i)
      BY <1>1, <2>2, <2>4, <2>5, <3>1, <3>2 DEF Climbs
    <3>4. i \in Nat /\ j \in Nat
      BY <1>1, <2>2, <2>5
    <3> QED  BY <3>2, <3>3, <3>4
  <2>6. <<w, i>> \in P
    BY <2>2, <2>3
  <2>7. \A s \in P : s = <<w, i>>
    BY <2>5
  <2>8. P = {<<w, i>>}
    BY <2>6, <2>7
  <2>9. Cardinality(P) = 1
    BY <2>8, FS_Singleton
  <2> QED  BY <1>4, <2>9
<1>5. CASE ~ \E w \in Workers : r \in Queue(w)
  <2>1. P = {}
    BY <1>3, <1>5
  <2>2. Cardinality(P) = 0
    BY <2>1, FS_EmptySet
  <2> QED  BY <1>5, <2>2
<1> QED  BY <1>4, <1>5

(* No record is lost or doubled between the feed and the producer: each is *)
(* in one channel or goroutine, or was a duplicate, or was discarded by    *)
(* the dispatcher, or is with the producer.                                *)
THEOREM NoRecordIsLost == Spec => []RecordsConserved
<1>1. Spec => []Places
  BY PlacesInit, PlacesStep, TypesHold, ProducerInvariant, OrderHolds, PTL DEF Spec
<1>2. Types /\ PP!QInv /\ FeedOrder /\ Places => RecordsConserved
  <2> SUFFICES ASSUME Types, PP!QInv, FeedOrder, Places, NEW r \in Records
               PROVE  InFlight(r)
                        + (IF r \in duplicates THEN 1 ELSE 0)
                        + (IF r \in discarded THEN 1 ELSE 0)
                        + (IF outcome[r] # "new" THEN 1 ELSE 0)
                      = IF r < next THEN 1 ELSE 0
    BY DEF RecordsConserved
  <2> DEFINE inRaw == r \in Raw
             inHand == held = r
             inQueue == \E w \in Workers : r \in Queue(w)
             inTransit == r \in InTransit
  <2>1. InFlight(r) = (IF inRaw THEN 1 ELSE 0) + (IF inHand THEN 1 ELSE 0) + (IF inQueue THEN 1 ELSE 0)
    BY RawOnce, QueuedOnce DEF InFlight
  <2>2. r # None /\ ~(r < r)
    BY Travellers
  <2>3. inHand <=> r \in Kept
    BY <2>2 DEF Kept
  <2>4. inTransit <=> inRaw \/ inHand \/ inQueue
    BY <2>3 DEF InTransit
  <2>5. ~(inRaw /\ inHand)
    BY <2>2, <2>3 DEF FeedOrder, SourceOrder, Below
  <2>6. ~(inQueue /\ (inRaw \/ inHand))
    BY <2>2, <2>3 DEF FeedOrder, LaneOrder, AfterQueue, Below
  <2>7. /\ r < next <=> inTransit \/ r \in duplicates \/ r \in discarded \/ outcome[r] # "new"
        /\ ~(inTransit /\ (r \in duplicates \/ r \in discarded \/ outcome[r] # "new"))
        /\ ~(r \in duplicates /\ r \in discarded)
        /\ ~((r \in duplicates \/ r \in discarded) /\ outcome[r] # "new")
    BY DEF Places, Produced
  <2>8. InFlight(r) = IF inTransit THEN 1 ELSE 0
    <3> HIDE DEF inRaw, inHand, inQueue, inTransit
    <3> QED  BY <2>1, <2>4, <2>5, <2>6
  <2> HIDE DEF inTransit
  <2> QED  BY <2>7, <2>8
<1> QED  BY <1>1, <1>2, TypesHold, ProducerInvariant, OrderHolds, PTL

-----------------------------------------------------------------------------
(* Shutdown.                                                               *)

(* The channels are closed one behind the other, and without a signal only *)
(* once what is ahead of them has come to its end.                         *)
ClosingOrder ==
  /\ rawClosed <=> main # "running"
  /\ chClosed => rawClosed /\ rawCh = <<>> /\ held = None
  /\ ~cancelled =>
       /\ feed = "returned" => next \notin Records
       /\ rawClosed => feed = "returned"
       /\ main # "panicked" /\ discarded = {}

(* Close is called behind the workers and waits for the flusher, at most   *)
(* for its timeout.                                                        *)
CloseOrder ==
  /\ closer[Main] # "idle" => \A w \in Workers : WorkerReturned(w)
  /\ closed => closer[Main] \in {"await", "returned"}
  /\ Stopped => timedOut \/ flusher = "done"

(* A record on offer is in a worker's hands, and a worker gives up none    *)
(* but malformed ones.                                                     *)
Offering ==
  /\ \A r \in Records : outcome[r] = "offered" => \E w \in Workers : pub[w] = r
  /\ \A r \in Records : outcome[r] = "refused" => r \in Invalid

(* The flusher touches neither Close nor the context, it does nothing once *)
(* it has returned, and no message becomes offered or refused by it.       *)
LEMMA FlusherLeaves ==
  ASSUME PP!Flusher
  PROVE  /\ UNCHANGED <<quit, closed, closer, timedOut, cancelled>>
         /\ flusher # "done"
         /\ \A r \in Records :
              outcome'[r] \in {"offered", "refused"} => outcome'[r] = outcome[r]
<1>1. UNCHANGED <<quit, closed, closer, timedOut, cancelled>> /\ flusher # "done"
  BY DEF PP!Flusher, PP!Receive, PP!ReceiveClosed, PP!LingerTick, PP!CtxDone, PP!DrainReceive,
     PP!DrainEnd, PP!SendOK, PP!SendError, PP!SleepDone, PP!SleepCancelled, PP!DeadLetterOK,
     PP!DeadLetterError, PP!closeVars
<1>2. ASSUME NEW result \in PP!Settled, PP!Settle(result), NEW r \in Records
      PROVE  outcome'[r] \in {"offered", "refused"} => outcome'[r] = outcome[r]
  BY <1>2, MsgsAreRecords DEF PP!Settle, PP!Settled
<1> QED  BY <1>1, <1>2, PP!FlusherMoves, ProducerConstants

(* The signal is never taken back. *)
LEMMA SignalStays ==
  ASSUME Types, [Next]_vars, cancelled
  PROVE  cancelled'
<1>1. CASE UNCHANGED producerVars
  BY <1>1 DEF producerVars
<1>2. ASSUME NEW w \in Workers, HandleRecord(w)
      PROVE  cancelled'
  BY <1>2 DEF HandleRecord, Producer!EnqueueStart
<1>3. ASSUME NEW w \in Workers, InEnqueue(w)
      PROVE  cancelled'
  BY <1>3 DEF InEnqueue, Producer!EnqueueSend, Producer!EnqueueCtxDone, Producer!LeaveEnqueue
<1>4. CASE CloseProducer \/ ClosingProducer \/ Signal
  BY <1>4 DEF CloseProducer, ClosingProducer, Signal, Producer!CloseQuit, Producer!CloseLock,
     Producer!CloseFlushed, Producer!CloseTimedOut, Producer!CloseSink, Producer!Cancel
<1>5. CASE Flusher
  BY <1>5, FlusherIsProducer, FlusherLeaves DEF Flusher
<1> QED  BY <1>1, <1>2, <1>3, <1>4, <1>5, PipelineMoves

(* Every step closes the channels in their order. *)
LEMMA ClosingStep ==
  ASSUME Types, ClosingOrder, [Next]_vars
  PROVE  ClosingOrder'
<1> USE SignalStays
<1>1. CASE FeedSend
  BY <1>1 DEF FeedSend, More, ClosingOrder
<1>2. CASE Alive /\ FeedPanic
  BY <1>2 DEF Alive, FeedPanic, More, ClosingOrder
<1>3. CASE FeedReturn
  BY <1>3 DEF FeedReturn, ClosingOrder
<1>4. CASE DispatchTake \/ DispatchSend \/ DispatchReturn
  BY <1>4 DEF DispatchTake, DispatchSend, DispatchReturn, ClosingOrder
<1>5. CASE DispatchDiscard
  BY <1>5 DEF DispatchDiscard, ClosingOrder
<1>6. ASSUME NEW w \in Workers, HandleDuplicate(w) \/ HandleRecord(w)
      PROVE  ClosingOrder'
  BY <1>6 DEF HandleDuplicate, HandleRecord, ClosingOrder
<1>7. CASE Forget
  BY <1>7 DEF Forget, ClosingOrder
<1>8. CASE CloseRaw \/ CloseProducer
  BY <1>8 DEF CloseRaw, CloseProducer, ClosingOrder
<1>9. CASE UNCHANGED pipelineVars
  BY <1>9 DEF pipelineVars, ClosingOrder
<1> QED
  BY <1>1, <1>2, <1>3, <1>4, <1>5, <1>6, <1>7, <1>8, <1>9
     DEF Next, Dispatcher, Worker, InEnqueue, Run, ClosingProducer, Signal, Flusher, vars

(* Nothing comes to life behind a worker that has returned. *)
LEMMA ReturnedStays ==
  ASSUME Types, PP!QInv, ClosingOrder, [Next]_vars, NEW w \in Workers, WorkerReturned(w)
  PROVE  WorkerReturned(w)'
<1>1. /\ chClosed /\ workerCh[w] = <<>> /\ pub[w] = None
      /\ rawClosed /\ rawCh = <<>> /\ held = None
  BY DEF WorkerReturned, ClosingOrder
<1>2. CASE UNCHANGED <<workerCh, chClosed, pub>>
  BY <1>1, <1>2 DEF WorkerReturned
<1>3. CASE FeedSend \/ DispatchTake \/ DispatchSend \/ DispatchDiscard \/ DispatchReturn
  <2>1. CASE FeedSend \/ DispatchTake \/ DispatchSend \/ DispatchReturn
    BY <1>1, <2>1 DEF FeedSend, DispatchTake, DispatchSend, DispatchReturn
  <2>2. CASE DispatchDiscard
    BY <1>1, <2>2 DEF DispatchDiscard
  <2> QED  BY <1>3, <2>1, <2>2
<1>4. ASSUME NEW v \in Workers, HandleDuplicate(v) \/ HandleRecord(v)
      PROVE  WorkerReturned(w)'
  <2>1. v # w /\ workerCh' = [workerCh EXCEPT ![v] = Tail(workerCh[v])] /\ chClosed' = chClosed
    BY <1>1, <1>4 DEF HandleDuplicate, HandleRecord, WorkerTake
  <2>2. pub' = pub \/ \E r : pub' = [pub EXCEPT ![v] = r]
    BY <1>4 DEF HandleDuplicate, HandleRecord, producerVars, Producer!EnqueueStart
  <2>3. pub'[w] = pub[w]
    BY <2>1, <2>2 DEF PP!QInv, PP!IInv, PP!TypeOK
  <2> QED  BY <1>1, <2>1, <2>3 DEF WorkerReturned, Types
<1>5. ASSUME NEW v \in Workers, InEnqueue(v)
      PROVE  WorkerReturned(w)'
  <2>1. /\ pub[v] # None /\ pub' = [pub EXCEPT ![v] = None]
        /\ UNCHANGED <<workerCh, chClosed>>
    BY <1>5 DEF InEnqueue, Producer!EnqueueSend, Producer!EnqueueCtxDone, Producer!LeaveEnqueue,
       pipelineVars
  <2>2. v # w
    BY <1>1, <2>1
  <2>3. pub'[w] = pub[w]
    BY <2>1, <2>2 DEF PP!QInv, PP!IInv, PP!TypeOK
  <2> QED  BY <1>1, <2>1, <2>3 DEF WorkerReturned
<1>6. CASE FeedReturn \/ FeedPanic \/ Forget \/ CloseRaw
  BY <1>2, <1>6 DEF FeedReturn, FeedPanic, Forget, CloseRaw, producerVars
<1>7. CASE CloseProducer \/ ClosingProducer \/ Signal
  BY <1>2, <1>7
     DEF CloseProducer, ClosingProducer, Signal, pipelineVars, Producer!CloseQuit, Producer!CloseLock,
       Producer!CloseFlushed, Producer!CloseTimedOut, Producer!CloseSink, Producer!Cancel,
       Producer!publisherVars
<1>8. CASE Flusher
  BY <1>2, <1>8, FlusherIsProducer, FlusherNews DEF Flusher, pipelineVars
<1>9. CASE UNCHANGED vars
  BY <1>2, <1>9 DEF vars, pipelineVars, producerVars
<1> QED
  BY <1>3, <1>4, <1>5, <1>6, <1>7, <1>8, <1>9 DEF Next, Dispatcher, Worker, Run

(* Every step calls Close behind the workers, and lets it wait. *)
LEMMA CloseStep ==
  ASSUME Types, PP!QInv, ClosingOrder, CloseOrder, [Next]_vars
  PROVE  CloseOrder'
<1>1. DOMAIN closer = {Main}
  BY DEF PP!QInv, PP!IInv, PP!TypeOK
<1>2. ASSUME UNCHANGED <<closed, closer, timedOut>>, flusher = "done" => flusher' = "done"
      PROVE  CloseOrder'
  BY <1>2, ReturnedStays DEF CloseOrder, Stopped
<1>3. CASE UNCHANGED producerVars
  BY <1>2, <1>3 DEF producerVars
<1>4. ASSUME NEW w \in Workers, HandleRecord(w) \/ InEnqueue(w)
      PROVE  CloseOrder'
  BY <1>2, <1>4
     DEF HandleRecord, InEnqueue, Producer!EnqueueStart, Producer!EnqueueSend,
       Producer!EnqueueCtxDone, Producer!LeaveEnqueue, Producer!closeVars, Producer!flusherVars
<1>5. CASE CloseProducer
  <2>1. /\ \A w \in Workers : WorkerReturned(w)
        /\ closer[Main] = "idle" /\ closer' = [closer EXCEPT ![Main] = "lock"]
        /\ UNCHANGED <<closed, timedOut, flusher>>
    BY <1>5 DEF CloseProducer, PipelineDone, Producer!CloseQuit, Producer!flusherVars
  <2>2. closer'[Main] = "lock" /\ ~closed'
    BY <1>1, <2>1 DEF CloseOrder
  <2> QED  BY <2>1, <2>2, ReturnedStays DEF CloseOrder, Stopped
<1>6. CASE ClosingProducer
  <2>1. flusher' = flusher /\ closer[Main] # "idle"
    BY <1>6 DEF ClosingProducer, Producer!CloseLock, Producer!CloseFlushed, Producer!CloseTimedOut,
       Producer!CloseSink, Producer!flusherVars
  <2>2. CASE Producer!CloseLock(Main)
    <3>1. /\ closer[Main] = "lock"
          /\ closer' = [closer EXCEPT ![Main] = IF closed THEN "returned" ELSE "await"]
      BY <2>2 DEF Producer!CloseLock
    <3>2. closer'[Main] = "await"
      BY <1>1, <3>1 DEF CloseOrder
    <3> QED  BY <2>1, <3>2, ReturnedStays DEF CloseOrder, Stopped
  <2>3. CASE Producer!CloseFlushed(Main) \/ Producer!CloseTimedOut(Main)
    <3>1. /\ closer' = [closer EXCEPT ![Main] = "returned"]
          /\ flusher = "done" \/ timedOut'
      BY <2>3 DEF Producer!CloseFlushed, Producer!CloseTimedOut, Producer!CloseSink
    <3>2. closer'[Main] = "returned"
      BY <1>1, <3>1
    <3> QED  BY <2>1, <3>1, <3>2, ReturnedStays DEF CloseOrder
  <2> QED  BY <1>6, <2>2, <2>3 DEF ClosingProducer
<1>7. CASE Signal
  BY <1>2, <1>7 DEF Signal, Producer!Cancel, Producer!closeVars, Producer!flusherVars
<1>8. CASE Flusher
  BY <1>2, <1>8, FlusherIsProducer, FlusherLeaves DEF Flusher
<1> QED  BY <1>3, <1>4, <1>5, <1>6, <1>7, <1>8, PipelineMoves

(* Every step leaves what is on offer to its worker. *)
LEMMA OfferingStep ==
  ASSUME Types, PP!QInv, Offering, [Next]_vars
  PROVE  Offering'
<1>1. DOMAIN pub = Workers /\ DOMAIN outcome = Records
  BY MsgsAreRecords DEF PP!QInv, PP!IInv, PP!TypeOK
<1>2. ASSUME pub' = pub,
             \A r \in Records : outcome'[r] \in {"offered", "refused"} => outcome'[r] = outcome[r]
      PROVE  Offering'
  BY <1>2 DEF Offering
<1>3. CASE UNCHANGED producerVars
  BY <1>2, <1>3 DEF producerVars
<1>4. ASSUME NEW w \in Workers, HandleRecord(w)
      PROVE  Offering'
  <2>1. PICK r \in Records : PP!EnqueueStart(w, r)
    BY <1>4, HandleStarts
  <2>2. /\ pub[w] = None /\ pub' = [pub EXCEPT ![w] = r]
        /\ outcome' = [outcome EXCEPT ![r] = "offered"]
    BY <2>1 DEF PP!EnqueueStart
  <2>3. None \notin Records
    BY Travellers
  <2> QED  BY <1>1, <2>2, <2>3 DEF Offering
<1>5. ASSUME NEW w \in Workers, InEnqueue(w)
      PROVE  Offering'
  <2>1. /\ pub[w] # None /\ pub' = [pub EXCEPT ![w] = None]
        /\ \/ outcome' = [outcome EXCEPT ![pub[w]] = "queued"]
           \/ outcome' = [outcome EXCEPT ![pub[w]] = "refused"] /\ pub[w] \in Invalid
    BY <1>5 DEF InEnqueue, Producer!EnqueueSend, Producer!EnqueueCtxDone, Producer!LeaveEnqueue
  <2>2. pub[w] \in Records
    BY <2>1, MsgsAreRecords DEF PP!QInv, PP!IInv, PP!TypeOK
  <2>3. ASSUME NEW r \in Records, outcome'[r] = "offered"
        PROVE  \E v \in Workers : pub'[v] = r
    <3>1. r # pub[w] /\ outcome[r] = "offered"
      BY <1>1, <2>1, <2>2, <2>3
    <3> QED  BY <1>1, <2>1, <3>1 DEF Offering
  <2>4. ASSUME NEW r \in Records, outcome'[r] = "refused"
        PROVE  r \in Invalid
    BY <1>1, <2>1, <2>2, <2>4 DEF Offering
  <2> QED  BY <2>3, <2>4 DEF Offering
<1>6. CASE CloseProducer \/ ClosingProducer \/ Signal
  BY <1>2, <1>6
     DEF CloseProducer, ClosingProducer, Signal, Producer!CloseQuit, Producer!CloseLock,
       Producer!CloseFlushed, Producer!CloseTimedOut, Producer!CloseSink, Producer!Cancel,
       Producer!publisherVars
<1>7. CASE Flusher
  BY <1>2, <1>7, FlusherIsProducer, FlusherLeaves, FlusherNews DEF Flusher
<1> QED  BY <1>3, <1>4, <1>5, <1>6, <1>7, PipelineMoves

(* When Run returns, every record the feed emitted was filtered out,       *)
(* discarded by the dispatcher, accounted for by the flusher or given up   *)
(* as malformed; it is still queued only if the signal stopped the flusher *)
(* or Close did not wait for it, and without a signal the feed was read to *)
(* its end and nothing discarded.                                          *)
THEOREM ShutdownAbandonsNothing == Spec => []NothingAbandoned
<1>1. Init => ClosingOrder
  BY DEF Init, Producer!Init, ClosingOrder
<1>2. Spec => []ClosingOrder
  BY <1>1, ClosingStep, TypesHold, PTL DEF Spec
<1>3. Init => CloseOrder /\ Offering
  BY MsgsAreRecords DEF Init, Producer!Init, Producer!Msgs, PP!Msgs, CloseOrder, Stopped, Offering
<1>4. Spec => []CloseOrder /\ []Offering
  BY <1>2, <1>3, CloseStep, OfferingStep, TypesHold, ProducerInvariant, PTL DEF Spec
<1>5. Spec => []Places
  BY PlacesInit, PlacesStep, TypesHold, ProducerInvariant, OrderHolds, PTL DEF Spec
<1>6. Spec => []PP!FlusherStopsDrained
  BY PipelineUsesProducer, PP!NothingLeftBehind, ProducerConstants, PTL
<1>7. Types /\ PP!QInv /\ PP!FlusherStopsDrained /\ Places /\ ClosingOrder /\ CloseOrder /\ Offering
        => NothingAbandoned
  <2> SUFFICES ASSUME Types, PP!QInv, PP!FlusherStopsDrained, Places,
                      ClosingOrder, CloseOrder, Offering, Stopped
               PROVE  NothingAbandoned
    BY DEF NothingAbandoned
  <2>1. /\ \A w \in Workers : workerCh[w] = <<>> /\ pub[w] = None
        /\ rawClosed /\ rawCh = <<>> /\ held = None
    BY PipelineAssumption DEF CloseOrder, Stopped, WorkerReturned, ClosingOrder, PipelineAssumption
  <2>2. InTransit = {}
    <3>1. \A s : s = <<>> => Range(s) = {}
      BY DEF Range
    <3>2. Raw = {} /\ Kept = {} /\ \A w \in Workers : Queue(w) = {}
      BY <2>1, <3>1 DEF Raw, Kept, Queue
    <3> QED  BY <3>2 DEF InTransit
  <2>3. ASSUME NEW r \in Records, r < next
        PROVE  \/ r \in duplicates \cup discarded
               \/ outcome[r] \in Producer!Settled
               \/ outcome[r] = "refused" /\ r \in Invalid
               \/ outcome[r] = "queued" /\ (cancelled \/ timedOut)
    <3>1. r \in duplicates \cup discarded \/ outcome[r] # "new"
      BY <2>2, <2>3 DEF Places, Produced
    <3>2. outcome[r] \in {"new", "offered", "queued", "refused"} \cup Producer!Settled
      BY MsgsAreRecords DEF PP!QInv, PP!IInv, PP!TypeOK, PP!Settled, Producer!Settled
    <3>3. outcome[r] # "offered"
      <4>1. r # None
        BY Travellers
      <4> QED  BY <2>1, <4>1 DEF Offering
    <3>4. outcome[r] = "refused" => r \in Invalid
      BY DEF Offering
    <3>5. outcome[r] = "queued" => cancelled \/ timedOut
      BY MsgsAreRecords DEF CloseOrder, PP!FlusherStopsDrained
    <3> QED  BY <3>1, <3>2, <3>3, <3>4, <3>5
  <2>4. ~cancelled => next \notin Records /\ discarded = {}
    BY <2>1 DEF ClosingOrder
  <2> QED  BY <2>3, <2>4 DEF NothingAbandoned
<1> QED  BY <1>2, <1>4, <1>5, <1>6, <1>7, TypesHold, ProducerInvariant, PTL
=============================================================================
