------------------------ MODULE AsyncProducerProofs ------------------------
(***************************************************************************)
(* Proofs about AsyncProducer, for any number of publishers, closers and   *)
(* messages, any queue and batch sizes and any number of retries: type     *)
(* correctness, the safety properties that follow from the inductive       *)
(* invariant IInv, and, from the stronger QInv (what is in the channel and *)
(* the batches is in the order of the queue, what the counters add up to,  *)
(* and the order of the topic), the accounting, the order of a key and the *)
(* refinement of DeliveryContract.                                         *)
(*                                                                         *)
(* The proof that an action preserves IInv goes through lemmas about the   *)
(* operators the flusher's actions are made of: TakeFromChannel, Proceed,  *)
(* Count, Write and Settle.                                                *)
(***************************************************************************)
EXTENDS AsyncProducer, SequenceTheorems, FiniteSetTheorems, WellFoundedInduction, TLAPS

-----------------------------------------------------------------------------
(* Lemmas about the data.                                                  *)

(* A member of KeyPrefixes(b) is a sequence of elements of b. *)
LEMMA KeyPrefixType ==
  ASSUME NEW S, NEW b \in Seq(S), NEW w \in KeyPrefixes(b)
  PROVE  w \in Seq(S)
<1>1. PICK n \in 0..Len(b) :
        \E f \in Increasing(n, Len(b)) : w = [i \in 1..n |-> b[f[i]]]
  BY DEF KeyPrefixes, Subsequences
<1>f. PICK f \in Increasing(n, Len(b)) : w = [i \in 1..n |-> b[f[i]]]
  BY <1>1
<1>2. Len(b) \in Nat /\ n \in Nat /\ f \in [1..n -> 1..Len(b)]
  BY <1>f, LenProperties DEF Increasing
<1>3. \A i \in 1..n : b[f[i]] \in S
  BY <1>2, ElementOfSeq
<1>4. w \in [1..n -> S]
  BY <1>f, <1>3
<1> QED  BY <1>2, <1>4, SeqDef

(* A member of KeyPrefixes(b) holds elements of b only. *)
LEMMA KeyPrefixRange ==
  ASSUME NEW S, NEW b \in Seq(S), NEW w \in KeyPrefixes(b)
  PROVE  Range(w) \subseteq Range(b)
<1>1. PICK n \in 0..Len(b) :
        \E f \in Increasing(n, Len(b)) : w = [i \in 1..n |-> b[f[i]]]
  BY DEF KeyPrefixes, Subsequences
<1>2. PICK f \in Increasing(n, Len(b)) : w = [i \in 1..n |-> b[f[i]]]
  BY <1>1
<1>3. f \in [1..n -> 1..Len(b)] /\ DOMAIN b = 1..Len(b)
  BY <1>2, LenProperties DEF Increasing
<1> QED  BY <1>2, <1>3 DEF Range

(* Appending adds one element to the range of a sequence. *)
LEMMA RangeAppend ==
  ASSUME NEW S, NEW s \in Seq(S), NEW e \in S
  PROVE  Range(Append(s, e)) = Range(s) \cup {e}
<1> DEFINE t == Append(s, e)
<1>1. t \in Seq(S) /\ Len(t) = Len(s) + 1 /\ Len(s) \in Nat
      /\ (\A i \in 1..Len(s) : t[i] = s[i]) /\ t[Len(s) + 1] = e
  BY AppendProperties, LenProperties
<1>2. Range(t) = {t[i] : i \in 1..Len(t)} /\ Range(s) = {s[i] : i \in 1..Len(s)}
  BY <1>1, RangeEquality
<1>3. 1..Len(t) = (1..Len(s)) \cup {Len(s) + 1}
  BY <1>1
<1> HIDE DEF t
<1>4. \A x : x \in Range(t) <=> x \in Range(s) \cup {e}
  BY <1>1, <1>2, <1>3
<1> QED  BY <1>4 DEF t

(* A sequence that is not empty holds its head and what its tail holds. *)
LEMMA RangeHeadTail ==
  ASSUME NEW S, NEW s \in Seq(S), s # <<>>
  PROVE  Range(s) = {Head(s)} \cup Range(Tail(s))
<1> DEFINE t == Tail(s)
<1>1. t \in Seq(S) /\ Len(t) = Len(s) - 1 /\ Len(s) \in Nat \ {0}
      /\ (\A i \in 1..Len(t) : t[i] = s[i + 1]) /\ Head(s) = s[1]
  BY HeadTailProperties, EmptySeq
<1>2. Range(t) = {t[i] : i \in 1..Len(t)} /\ Range(s) = {s[i] : i \in 1..Len(s)}
  BY <1>1, RangeEquality
<1> HIDE DEF t
<1>3. ASSUME NEW x \in Range(s)
      PROVE  x \in {Head(s)} \cup Range(t)
  <2>1. PICK i \in 1..Len(s) : x = s[i]
    BY <1>2, <1>3
  <2>2. i = 1 \/ (i - 1 \in 1..Len(t) /\ t[i - 1] = s[i])
    BY <1>1
  <2> QED  BY <1>1, <1>2, <2>1, <2>2
<1>4. ASSUME NEW x \in {Head(s)} \cup Range(t)
      PROVE  x \in Range(s)
  <2>1. CASE x = Head(s)
    BY <1>1, <1>2, <2>1
  <2>2. CASE x # Head(s)
    <3>1. PICK i \in 1..Len(t) : x = t[i]
      BY <1>2, <1>4, <2>2
    <3>2. i + 1 \in 1..Len(s) /\ x = s[i + 1]
      BY <1>1, <3>1
    <3> QED  BY <1>2, <3>2
  <2> QED  BY <2>1, <2>2
<1> QED  BY <1>3, <1>4 DEF t

(* Each batch is a sequence of messages of its kind. *)
LEMMA BatchTypes ==
  ASSUME TypeOK
  PROVE  /\ batch["main"] \in Seq(Trades) /\ batch["dlq"] \in Seq(Rejects)
         /\ \A k \in Kinds : batch[k] \in Seq(Msgs) /\ Len(batch[k]) \in Nat
         /\ Current \in Kinds /\ Contents \subseteq Msgs
<1>1. batch["main"] \in Seq(Trades) /\ batch["dlq"] \in Seq(Rejects)
  BY DEF TypeOK
<1>2. \A k \in Kinds : batch[k] \in Seq(Msgs)
  BY <1>1, SeqMonotonic DEF Kinds, Msgs
<1>3. Current \in Kinds
  BY DEF Current, Kinds
<1>4. Contents \subseteq Msgs
  BY <1>2, <1>3, RangeOfSeq DEF Contents
<1> QED  BY <1>1, <1>2, <1>3, <1>4, LenProperties

(* What TakeFromChannel does to the channel and to each batch. *)
LEMMA TakeEffect ==
  ASSUME TypeOK, TakeFromChannel
  PROVE  /\ in # <<>> /\ Head(in) \in Msgs /\ KindOf(Head(in)) \in Kinds
         /\ in' = Tail(in) /\ in' \in Seq(Msgs) /\ Len(in') = Len(in) - 1
         /\ batch' \in [main : Seq(Trades), dlq : Seq(Rejects)]
         /\ \A k \in Kinds :
              batch'[k] = IF k = KindOf(Head(in)) THEN Append(batch[k], Head(in))
                                                  ELSE batch[k]
<1> DEFINE h == Head(in)
<1>1. in # <<>> /\ in \in Seq(Msgs) /\ in' = Tail(in)
      /\ batch' = [batch EXCEPT ![KindOf(h)] = Append(@, h)]
  BY DEF TakeFromChannel, TypeOK
<1>2. h \in Msgs /\ in' \in Seq(Msgs) /\ Len(in') = Len(in) - 1
  BY <1>1, HeadTailProperties
<1>3. KindOf(h) \in Kinds /\ (KindOf(h) = "dlq" => h \in Rejects)
      /\ (KindOf(h) = "main" => h \in Trades)
  BY <1>2 DEF KindOf, Kinds, Msgs
<1>4. batch \in [main : Seq(Trades), dlq : Seq(Rejects)]
  BY DEF TypeOK
<1>5. \A k \in Kinds :
        batch'[k] = IF k = KindOf(h) THEN Append(batch[k], h) ELSE batch[k]
  BY <1>1, <1>4 DEF Kinds
<1>6. batch' \in [main : Seq(Trades), dlq : Seq(Rejects)]
  <2>1. CASE KindOf(h) = "main"
    <3>1. Append(batch["main"], h) \in Seq(Trades)
      BY <1>3, <1>4, <2>1, AppendProperties
    <3> QED  BY <1>1, <1>4, <2>1, <3>1
  <2>2. CASE KindOf(h) = "dlq"
    <3>1. Append(batch["dlq"], h) \in Seq(Rejects)
      BY <1>3, <1>4, <2>2, AppendProperties
    <3> QED  BY <1>1, <1>4, <2>2, <3>1
  <2> QED  BY <1>3, <2>1, <2>2 DEF Kinds
<1> QED  BY <1>1, <1>2, <1>3, <1>5, <1>6

(* Proceed leaves the flusher in a legal position. *)
LEMMA ProceedEffect ==
  ASSUME NEW todo \in SUBSET Kinds, NEW exit \in BOOLEAN, Proceed(todo, exit),
         ProducerAssumption
  PROVE  /\ plan' = todo /\ exiting' = exit /\ attempt' = 0
         /\ plan' \in SUBSET Kinds /\ exiting' \in BOOLEAN
         /\ attempt' \in 0..MaxRetries
         /\ flusher' \in {"send", "done", "select"}
         /\ flusher' = "send" <=> todo # {}
         /\ flusher' = "done" => exit
         /\ flusher' = "select" => ~exit
BY DEF Proceed, ProducerAssumption

(* Counting keeps the tallies natural numbers. *)
LEMMA CountType ==
  ASSUME TypeOK, NEW fields, Count(fields)
  PROVE  tally' \in [published : Nat, failed : Nat, deadLettered : Nat,
                     dropped : Nat]
<1>1. Len(batch[Current]) \in Nat
  BY BatchTypes
<1>2. DOMAIN tally = {"published", "failed", "deadLettered", "dropped"}
      /\ \A f \in DOMAIN tally : tally[f] \in Nat
  BY DEF TypeOK
<1>3. \A f \in DOMAIN tally :
        tally[f] + (IF f \in fields THEN Len(batch[Current]) ELSE 0) \in Nat
  BY <1>1, <1>2
<1> QED  BY <1>2, <1>3 DEF Count

(* A write only adds to the destinations, and adds what it wrote. *)
LEMMA WriteEffect ==
  ASSUME TypeOK, NEW w, Write(w), w \in Seq(Msgs),
         Current = "main" => w \in Seq(Trades)
  PROVE  /\ topic' \in Seq(Trades) /\ dlqTopic' \in SUBSET Msgs
         /\ Range(topic) \subseteq Range(topic') /\ dlqTopic \subseteq dlqTopic'
         /\ Current = "main" => Range(w) \subseteq Range(topic')
         /\ Current = "dlq" => Range(w) \subseteq dlqTopic'
<1>1. topic \in Seq(Trades) /\ dlqTopic \in SUBSET Msgs /\ Range(w) \subseteq Msgs
  BY RangeOfSeq DEF TypeOK
<1>2. CASE Current = "dlq"
  BY <1>1, <1>2 DEF Write, WriteDLQ
<1>3. CASE Current # "dlq"
  <2>1. topic' = topic \o w /\ dlqTopic' = dlqTopic /\ w \in Seq(Trades)
    BY <1>3 DEF Write, WriteMain, Current
  <2>2. topic' \in Seq(Trades) /\ Range(topic') = Range(topic) \cup Range(w)
    BY <1>1, <2>1, ConcatProperties, RangeConcatenation
  <2> QED  BY <1>1, <1>3, <2>1, <2>2
<1> QED  BY <1>2, <1>3

(* Settle empties the current batch and accounts for its messages only. *)
LEMMA SettleEffect ==
  ASSUME TypeOK, NEW result \in Settled, Settle(result), ProducerAssumption
  PROVE  /\ batch' \in [main : Seq(Trades), dlq : Seq(Rejects)]
         /\ batch'[Current] = <<>>
         /\ \A k \in Kinds : k # Current => batch'[k] = batch[k]
         /\ outcome' \in [Msgs -> {"new", "offered", "queued", "refused"}
                                    \cup Settled]
         /\ \A m \in Msgs :
              outcome'[m] = IF m \in Contents THEN result ELSE outcome[m]
         /\ Proceed(plan \ {Current}, exiting)
<1>1. batch \in [main : Seq(Trades), dlq : Seq(Rejects)] /\ Current \in Kinds
  BY BatchTypes DEF TypeOK
<1>2. batch' = [batch EXCEPT ![Current] = <<>>]
      /\ outcome' = [m \in Msgs |-> IF m \in Contents THEN result ELSE outcome[m]]
      /\ Proceed(plan \ {Current}, exiting)
  BY DEF Settle
<1>3. <<>> \in Seq(Trades) /\ <<>> \in Seq(Rejects)
  BY EmptySeq
<1>4. batch' \in [main : Seq(Trades), dlq : Seq(Rejects)]
  BY <1>1, <1>2, <1>3 DEF Kinds
<1>5. outcome' \in [Msgs -> {"new", "offered", "queued", "refused"} \cup Settled]
  BY <1>2 DEF TypeOK
<1> QED  BY <1>1, <1>2, <1>4, <1>5 DEF Kinds

-----------------------------------------------------------------------------
(* The initial state, and the steps of the publishers, of Close and of the *)
(* context.                                                                *)

(* NewAsync and Start establish the inductive invariant. *)
LEMMA InitInv == Init => IInv
<1> SUFFICES ASSUME Init PROVE IInv
  OBVIOUS
<1> USE ProducerAssumption DEF Init
<1>0. <<>> \in Seq(Msgs) /\ <<>> \in Seq(Trades) /\ <<>> \in Seq(Rejects)
  BY EmptySeq
<1>1. TypeOK
  <2>1. 0 \in 0..MaxRetries
    BY DEF ProducerAssumption
  <2>2. pub \in [Publishers -> Msgs \cup {Idle}]
        /\ closer \in [Closers -> {"idle", "lock", "await", "returned"}]
        /\ outcome \in [Msgs -> {"new", "offered", "queued", "refused"} \cup Settled]
    OBVIOUS
  <2>3. batch \in [main : Seq(Trades), dlq : Seq(Rejects)]
        /\ tally \in [published : Nat, failed : Nat, deadLettered : Nat,
                      dropped : Nat]
    BY <1>0
  <2> QED  BY <1>0, <2>1, <2>2, <2>3 DEF TypeOK
<1>2. NoSendOnClosedChannel /\ CountedIsDurable /\ QueuedInBacklog
  BY DEF NoSendOnClosedChannel, CountedIsDurable, QueuedInBacklog
<1>3. FlusherWork /\ LastRound
  BY DEF FlusherWork, LastRound
<1>4. RoomInBatches
  BY <1>0, EmptySeq DEF RoomInBatches, Kinds, Limit, ProducerAssumption
<1> QED  BY <1>1, <1>2, <1>3, <1>4 DEF IInv

(* A publisher's step keeps the invariant: it finds room in the channel or *)
(* leaves the backlog alone, and it cannot be inside enqueue once closed.  *)
LEMMA PublisherStep ==
  ASSUME IInv, NEW p \in Publishers, Enqueue(p)
  PROVE  IInv'
<1> USE ProducerAssumption DEF IInv
<1>0. Idle \notin Msgs /\ pub \in [Publishers -> Msgs \cup {Idle}]
      /\ outcome \in [Msgs -> {"new", "offered", "queued", "refused"} \cup Settled]
  BY DEF TypeOK
<1>1. ASSUME NEW m \in Msgs, EnqueueRefused(p, m)
      PROVE  IInv'
  <2> USE <1>1 DEF EnqueueRefused, publisherVars, closeVars, flusherVars, sinkVars
  <2>1. TypeOK'  BY DEF TypeOK
  <2>2. NoSendOnClosedChannel'  BY DEF NoSendOnClosedChannel
  <2>3. CountedIsDurable'  BY <1>0 DEF CountedIsDurable
  <2>4. FlusherWork' /\ RoomInBatches' /\ LastRound'
    BY DEF FlusherWork, RoomInBatches, LastRound
  <2>5. QueuedInBacklog'  BY <1>0 DEF QueuedInBacklog
  <2> QED  BY <2>1, <2>2, <2>3, <2>4, <2>5
<1>2. ASSUME NEW m \in Msgs, EnqueueStart(p, m)
      PROVE  IInv'
  <2> USE <1>2 DEF EnqueueStart, closeVars, flusherVars, sinkVars
  <2>1. TypeOK'  BY DEF TypeOK
  <2>2. NoSendOnClosedChannel'  BY DEF NoSendOnClosedChannel
  <2>3. CountedIsDurable'  BY <1>0 DEF CountedIsDurable
  <2>4. FlusherWork' /\ RoomInBatches' /\ LastRound'
    BY DEF FlusherWork, RoomInBatches, LastRound
  <2>5. QueuedInBacklog'  BY <1>0 DEF QueuedInBacklog
  <2> QED  BY <2>1, <2>2, <2>3, <2>4, <2>5
<1>3. CASE EnqueueSend(p)
  <2> USE <1>3 DEF EnqueueSend, closeVars, flusherVars, sinkVars
  <2>0. in \in Seq(Msgs) /\ accepted \in Seq(Msgs) /\ pub[p] \in Msgs
    BY <1>0 DEF TypeOK
  <2>1. in' \in Seq(Msgs) /\ accepted' \in Seq(Msgs) /\ Len(in') = Len(in) + 1
    BY <2>0, AppendProperties
  <2>2. Range(in') = Range(in) \cup {pub[p]}
    BY <2>0, RangeAppend
  <2>3. TypeOK'  BY <1>0, <2>1 DEF TypeOK
  <2>4. NoSendOnClosedChannel'  BY <1>0 DEF NoSendOnClosedChannel
  <2>5. CountedIsDurable'  BY <1>0 DEF CountedIsDurable
  <2>6. FlusherWork'  BY DEF FlusherWork
  <2>7. RoomInBatches'
    BY <2>0, <2>1, LenProperties DEF RoomInBatches
  <2>8. LastRound'  BY <2>0 DEF LastRound, NoSendOnClosedChannel
  <2>9. QueuedInBacklog'  BY <1>0, <2>2 DEF QueuedInBacklog
  <2> QED  BY <2>3, <2>4, <2>5, <2>6, <2>7, <2>8, <2>9
<1>4. ASSUME LeaveEnqueue(p)
      PROVE  IInv'
  <2> USE <1>4 DEF LeaveEnqueue, closeVars, flusherVars, sinkVars
  <2>1. TypeOK'  BY DEF TypeOK
  <2>2. NoSendOnClosedChannel'  BY <1>0 DEF NoSendOnClosedChannel
  <2>3. CountedIsDurable'  BY <1>0 DEF CountedIsDurable
  <2>4. FlusherWork' /\ RoomInBatches' /\ LastRound'
    BY DEF FlusherWork, RoomInBatches, LastRound
  <2>5. QueuedInBacklog'  BY <1>0 DEF QueuedInBacklog
  <2> QED  BY <2>1, <2>2, <2>3, <2>4, <2>5
<1> QED  BY <1>1, <1>2, <1>3, <1>4 DEF Enqueue, EnqueueQuit, EnqueueCtxDone

(* Close keeps the invariant: it closes the channel only when no publisher *)
(* holds the read lock.                                                    *)
LEMMA CloseStep ==
  ASSUME IInv, NEW c \in Closers, Close(c)
  PROVE  IInv'
<1> USE DEF IInv
<1>1. UNCHANGED <<pub, in, accepted, cancelled, flusherVars, sinkVars, outcome>>
  BY DEF Close, CloseQuit, CloseLock, CloseFlushed, CloseTimedOut, CloseSink,
         publisherVars
<1> USE <1>1 DEF flusherVars, sinkVars
<1>2. TypeOK'
  BY DEF TypeOK, Close, CloseQuit, CloseLock, CloseFlushed, CloseTimedOut,
         CloseSink
<1>3. closed' => closed \/ WriteLockFree
  BY DEF Close, CloseQuit, CloseLock, CloseFlushed, CloseTimedOut, CloseSink
<1>4. closed => closed'
  BY DEF Close, CloseQuit, CloseLock, CloseFlushed, CloseTimedOut, CloseSink
<1>5. NoSendOnClosedChannel'
  BY <1>3 DEF NoSendOnClosedChannel, WriteLockFree
<1>6. LastRound'  BY <1>4 DEF LastRound
<1>7. CountedIsDurable' /\ FlusherWork' /\ RoomInBatches' /\ QueuedInBacklog'
  BY DEF CountedIsDurable, FlusherWork, RoomInBatches, QueuedInBacklog
<1> QED  BY <1>2, <1>5, <1>6, <1>7

(* Cancelling the context weakens what is required of the batches. *)
LEMMA CancelStep == IInv /\ Cancel => IInv'
<1> SUFFICES ASSUME IInv, Cancel PROVE IInv'
  OBVIOUS
<1> USE DEF IInv, Cancel, publisherVars, closeVars, flusherVars, sinkVars
<1>1. TypeOK'  BY DEF TypeOK
<1>2. NoSendOnClosedChannel' /\ CountedIsDurable' /\ QueuedInBacklog'
  BY DEF NoSendOnClosedChannel, CountedIsDurable, QueuedInBacklog
<1>3. FlusherWork' /\ RoomInBatches' /\ LastRound'
  BY DEF FlusherWork, RoomInBatches, LastRound
<1> QED  BY <1>1, <1>2, <1>3

-----------------------------------------------------------------------------
(* The steps of the flusher.                                               *)

(* A step that receives from the channel moves one message to its batch,   *)
(* and keeps every message that is not accounted for in the backlog.       *)
LEMMA TakeKeepsBacklog ==
  ASSUME TypeOK, QueuedInBacklog, TakeFromChannel, UNCHANGED outcome
  PROVE  QueuedInBacklog'
<1> DEFINE h == Head(in)
           k == KindOf(h)
<1>1. in # <<>> /\ in \in Seq(Msgs) /\ in' = Tail(in) /\ h \in Msgs
      /\ k \in Kinds
      /\ \A j \in Kinds : batch'[j] = IF j = k THEN Append(batch[j], h) ELSE batch[j]
  BY TakeEffect DEF TypeOK
<1>2. Range(in) = {h} \cup Range(in')
  BY <1>1, RangeHeadTail
<1>3. Range(batch'[k]) = Range(batch[k]) \cup {h}
  BY <1>1, BatchTypes, RangeAppend
<1>4. {"main", "dlq"} = Kinds
  BY DEF Kinds
<1> HIDE DEF h, k
<1>5. Range(in) \cup Range(batch["main"]) \cup Range(batch["dlq"])
      \subseteq Range(in') \cup Range(batch'["main"]) \cup Range(batch'["dlq"])
  BY <1>1, <1>2, <1>3, <1>4
<1> QED  BY <1>5 DEF QueuedInBacklog

(* case e, ok := <-p.in *)
LEMMA ReceiveStep == IInv /\ Receive => IInv'
<1> SUFFICES ASSUME IInv, Receive PROVE IInv'
  OBVIOUS
<1> USE ProducerAssumption DEF IInv
<1> DEFINE todo == {k \in {KindOf(Head(in))} : BatchFull(k)}
<1>1. TakeFromChannel /\ Proceed(todo, FALSE) /\ flusher = "select"
      /\ UNCHANGED <<pub, accepted, closeVars, cancelled, tally, sinkVars, outcome>>
  BY DEF Receive
<1>2. /\ in # <<>> /\ Head(in) \in Msgs /\ KindOf(Head(in)) \in Kinds
      /\ in' \in Seq(Msgs) /\ Len(in') = Len(in) - 1
      /\ batch' \in [main : Seq(Trades), dlq : Seq(Rejects)]
      /\ \A k \in Kinds :
           batch'[k] = IF k = KindOf(Head(in)) THEN Append(batch[k], Head(in))
                                               ELSE batch[k]
  BY <1>1, TakeEffect
<1>3. todo \in SUBSET Kinds
  BY <1>2
<1>4. /\ plan' = todo /\ exiting' = FALSE
      /\ plan' \in SUBSET Kinds /\ exiting' \in BOOLEAN
      /\ attempt' \in 0..MaxRetries
      /\ flusher' \in {"send", "done", "select"}
      /\ flusher' = "send" <=> todo # {}
      /\ ~(flusher' = "done")
  BY <1>1, <1>3, ProceedEffect
<1>5. TypeOK'
  BY <1>1, <1>2, <1>4 DEF TypeOK, closeVars, sinkVars
<1>6. NoSendOnClosedChannel' /\ CountedIsDurable'
  BY <1>1 DEF NoSendOnClosedChannel, CountedIsDurable, closeVars, sinkVars
<1>7. FlusherWork' /\ LastRound'
  BY <1>4 DEF FlusherWork, LastRound
<1>8. RoomInBatches'
  <2>1. Len(in') <= QueueSize
    BY <1>2, LenProperties DEF RoomInBatches, ProducerAssumption, TypeOK
  <2>2. ASSUME ~cancelled', NEW k \in Kinds
        PROVE  /\ Len(batch'[k]) <= Limit[k]
               /\ k \notin plan' => Len(batch'[k]) < Limit[k]
    <3>1. Len(batch[k]) \in Nat /\ Len(batch[k]) < Limit[k] /\ Limit[k] \in Nat
      BY <1>1, <2>2, BatchTypes
      DEF RoomInBatches, FlusherWork, Limit, Kinds, ProducerAssumption
    <3>2. CASE k = KindOf(Head(in))
      <4>0. batch[k] \in Seq(Msgs) /\ batch'[k] = Append(batch[k], Head(in))
        BY <1>2, <2>2, <3>2, BatchTypes
      <4>1. Len(batch'[k]) = Len(batch[k]) + 1
        BY <1>2, <4>0, AppendProperties
      <4>2. k \in plan' <=> BatchFull(k)
        BY <1>4, <3>2
      <4> QED  BY <3>1, <4>1, <4>2 DEF BatchFull
    <3>3. CASE k # KindOf(Head(in))
      BY <1>2, <3>1, <3>3
    <3> QED  BY <3>2, <3>3
  <2> QED  BY <2>1, <2>2 DEF RoomInBatches
<1>9. QueuedInBacklog'
  BY <1>1, TakeKeepsBacklog
<1> QED  BY <1>5, <1>6, <1>7, <1>8, <1>9

(* ReceiveClosed, LingerTick and DrainEnd start a round of flushes. *)
LEMMA FlushRoundStep == IInv /\ (ReceiveClosed \/ LingerTick \/ DrainEnd) => IInv'
<1> SUFFICES ASSUME IInv, ReceiveClosed \/ LingerTick \/ DrainEnd PROVE IInv'
  OBVIOUS
<1> USE ProducerAssumption DEF IInv
<1>1. UNCHANGED <<publisherVars, closeVars, cancelled, batch, tally, sinkVars,
                  outcome>>
  BY DEF ReceiveClosed, LingerTick, DrainEnd
<1>2. PICK exit \in BOOLEAN : Proceed(NonEmpty(batch), exit)
                             /\ (exit /\ ~cancelled => closed /\ in = <<>>)
  BY DEF ReceiveClosed, LingerTick, DrainEnd, FlusherWork
<1>3. NonEmpty(batch) \in SUBSET Kinds
  BY DEF NonEmpty
<1>4. /\ plan' = NonEmpty(batch) /\ exiting' = exit
      /\ plan' \in SUBSET Kinds /\ exiting' \in BOOLEAN
      /\ attempt' \in 0..MaxRetries
      /\ flusher' \in {"send", "done", "select"}
      /\ flusher' = "send" <=> NonEmpty(batch) # {}
      /\ flusher' = "done" => exit
  BY <1>2, <1>3, ProceedEffect
<1> USE <1>1 DEF publisherVars, closeVars, sinkVars
<1>5. TypeOK'  BY <1>4 DEF TypeOK
<1>6. NoSendOnClosedChannel' /\ CountedIsDurable' /\ QueuedInBacklog'
  BY DEF NoSendOnClosedChannel, CountedIsDurable, QueuedInBacklog
<1>7. FlusherWork'  BY <1>4 DEF FlusherWork
<1>8. LastRound'  BY <1>2, <1>4 DEF LastRound, NonEmpty
<1>9. RoomInBatches'
  <2>1. \A k \in Kinds : k \notin plan' => batch[k] = <<>>
    BY <1>4 DEF NonEmpty
  <2>2. \A k \in Kinds : Limit[k] \in Nat \ {0}
    BY DEF Limit, Kinds, ProducerAssumption
  <2> QED  BY <2>1, <2>2, EmptySeq DEF RoomInBatches
<1> QED  BY <1>5, <1>6, <1>7, <1>8, <1>9

(* case <-ctx.Done(), and the receives of the drain. *)
LEMMA DrainStep == IInv /\ (CtxDone \/ DrainReceive) => IInv'
<1> SUFFICES ASSUME IInv, CtxDone \/ DrainReceive PROVE IInv'
  OBVIOUS
<1> USE ProducerAssumption DEF IInv
<1>1. CASE CtxDone
  <2> USE <1>1 DEF CtxDone, publisherVars, closeVars, sinkVars
  <2>1. TypeOK'  BY DEF TypeOK
  <2>2. NoSendOnClosedChannel' /\ CountedIsDurable' /\ QueuedInBacklog'
    BY DEF NoSendOnClosedChannel, CountedIsDurable, QueuedInBacklog
  <2>3. FlusherWork' /\ RoomInBatches' /\ LastRound'
    BY DEF FlusherWork, RoomInBatches, LastRound
  <2> QED  BY <2>1, <2>2, <2>3
<1>2. CASE DrainReceive
  <2>1. TakeFromChannel /\ flusher = "drain"
        /\ UNCHANGED <<pub, accepted, closeVars, cancelled, flusher, plan,
                       exiting, attempt, tally, sinkVars, outcome>>
    BY <1>2 DEF DrainReceive
  <2>2. in' \in Seq(Msgs) /\ Len(in') = Len(in) - 1
        /\ batch' \in [main : Seq(Trades), dlq : Seq(Rejects)]
    BY <2>1, TakeEffect
  <2>3. cancelled
    BY <2>1 DEF FlusherWork
  <2>4. TypeOK'  BY <2>1, <2>2 DEF TypeOK, closeVars, sinkVars
  <2>5. NoSendOnClosedChannel' /\ CountedIsDurable'
    BY <2>1 DEF NoSendOnClosedChannel, CountedIsDurable, closeVars, sinkVars
  <2>6. FlusherWork'  BY <2>1 DEF FlusherWork
  <2>7. LastRound'  BY <2>1, <2>3 DEF LastRound
  <2>8. RoomInBatches'
    BY <2>1, <2>2, <2>3, LenProperties DEF RoomInBatches, ProducerAssumption, TypeOK
  <2>9. QueuedInBacklog'  BY <2>1, TakeKeepsBacklog
  <2> QED  BY <2>4, <2>5, <2>6, <2>7, <2>8, <2>9
<1> QED  BY <1>1, <1>2

-----------------------------------------------------------------------------
(* The steps of deliver.                                                   *)

(* A step in which deliver returns keeps the invariant, if the call of the *)
(* sink it reports on did what the result says.                            *)
LEMMA SettleStep ==
  ASSUME IInv, plan # {}, NEW result \in Settled, Settle(result),
         topic' \in Seq(Trades), dlqTopic' \in SUBSET Msgs,
         Range(topic) \subseteq Range(topic'), dlqTopic \subseteq dlqTopic',
         result = "published" => Contents \subseteq Range(topic'),
         result = "deadLettered" => Contents \subseteq dlqTopic',
         tally' \in [published : Nat, failed : Nat, deadLettered : Nat,
                    dropped : Nat],
         UNCHANGED <<publisherVars, closeVars, cancelled>>
  PROVE  IInv'
<1> USE ProducerAssumption DEF IInv, publisherVars, closeVars
<1>1. /\ batch' \in [main : Seq(Trades), dlq : Seq(Rejects)]
      /\ batch'[Current] = <<>>
      /\ \A k \in Kinds : k # Current => batch'[k] = batch[k]
      /\ outcome' \in [Msgs -> {"new", "offered", "queued", "refused"}
                                 \cup Settled]
      /\ \A m \in Msgs :
           outcome'[m] = IF m \in Contents THEN result ELSE outcome[m]
      /\ Proceed(plan \ {Current}, exiting)
  BY SettleEffect
<1>2. plan \ {Current} \in SUBSET Kinds /\ exiting \in BOOLEAN
      /\ Current \in Kinds
  BY BatchTypes DEF TypeOK
<1>3. /\ plan' = plan \ {Current} /\ exiting' = exiting
      /\ plan' \in SUBSET Kinds /\ exiting' \in BOOLEAN
      /\ attempt' \in 0..MaxRetries
      /\ flusher' \in {"send", "done", "select"}
      /\ flusher' = "send" <=> plan' # {}
      /\ flusher' = "done" => exiting'
  BY <1>1, <1>2 DEF Proceed, ProducerAssumption
<1>4. TypeOK'
  BY <1>1, <1>3 DEF TypeOK
<1>5. NoSendOnClosedChannel'
  BY DEF NoSendOnClosedChannel
<1>6. CountedIsDurable'
  BY <1>1 DEF CountedIsDurable
<1>7. FlusherWork'
  BY <1>3 DEF FlusherWork
<1>8. LastRound'
  BY <1>1, <1>3 DEF LastRound
<1>9. RoomInBatches'
  <2>1. \A k \in Kinds : Limit[k] \in Nat \ {0}
    BY DEF Limit, Kinds, ProducerAssumption
  <2>2. \A k \in Kinds : k # Current => (k \notin plan' => k \notin plan)
    BY <1>3
  <2> QED  BY <1>1, <2>1, <2>2, EmptySeq DEF RoomInBatches
<1>10. QueuedInBacklog'
  <2> SUFFICES ASSUME NEW m \in Msgs, outcome'[m] = "queued"
               PROVE  m \in Range(in') \cup Range(batch'["main"])
                                       \cup Range(batch'["dlq"])
    BY DEF QueuedInBacklog
  <2>1. m \notin Contents /\ outcome[m] = "queued"
    BY <1>1 DEF Settled
  <2>2. m \in Range(in) \cup Range(batch["main"]) \cup Range(batch["dlq"])
    BY <2>1 DEF QueuedInBacklog
  <2>3. \A k \in Kinds : m \in Range(batch[k]) => m \in Range(batch'[k])
    BY <1>1, <2>1 DEF Contents
  <2> QED  BY <2>2, <2>3 DEF Kinds
<1> QED  BY <1>4, <1>5, <1>6, <1>7, <1>8, <1>9, <1>10

(* A step of deliver that neither empties a batch nor returns keeps the    *)
(* invariant, whatever the sink accepted.                                  *)
LEMMA RetryStep ==
  ASSUME IInv, plan # {},
         topic' \in Seq(Trades), dlqTopic' \in SUBSET Msgs,
         Range(topic) \subseteq Range(topic'), dlqTopic \subseteq dlqTopic',
         tally' \in [published : Nat, failed : Nat, deadLettered : Nat,
                    dropped : Nat],
         attempt' \in 0..MaxRetries,
         flusher' \in {"send", "sleep", "deadletter"},
         flusher' = "sleep" => attempt' < MaxRetries,
         flusher' = "deadletter" => "main" \in plan,
         UNCHANGED <<publisherVars, closeVars, cancelled, batch, plan, exiting,
                     outcome>>
  PROVE  IInv'
<1> USE DEF IInv, publisherVars, closeVars
<1>1. TypeOK'  BY DEF TypeOK
<1>2. NoSendOnClosedChannel' /\ CountedIsDurable' /\ QueuedInBacklog'
  BY DEF NoSendOnClosedChannel, CountedIsDurable, QueuedInBacklog
<1>3. FlusherWork' /\ RoomInBatches' /\ LastRound'
  BY DEF FlusherWork, RoomInBatches, LastRound
<1> QED  BY <1>1, <1>2, <1>3

(* What a call of the sink that accepted part of a batch wrote. *)
LEMMA PartialWrite ==
  ASSUME TypeOK, NEW w \in KeyPrefixes(batch[Current])
  PROVE  w \in Seq(Msgs) /\ (Current = "main" => w \in Seq(Trades))
BY BatchTypes, KeyPrefixType

(* GiveUp after a write of whatever was accepted keeps the invariant. *)
LEMMA GiveUpStep ==
  ASSUME IInv, plan # {}, GiveUp,
         topic' \in Seq(Trades), dlqTopic' \in SUBSET Msgs,
         Range(topic) \subseteq Range(topic'), dlqTopic \subseteq dlqTopic',
         UNCHANGED <<publisherVars, closeVars, cancelled>>
  PROVE  IInv'
<1> USE DEF IInv
<1>1. TypeOK
  OBVIOUS
<1>2. CASE Count({"failed", "dropped"}) /\ Settle("dropped")
  <2>1. tally' \in [published : Nat, failed : Nat, deadLettered : Nat,
                   dropped : Nat]
    BY <1>1, <1>2, CountType
  <2>2. "dropped" \in Settled
    BY DEF Settled
  <2> QED  BY <1>2, <2>1, <2>2, SettleStep
<1>3. CASE Current = "main" /\ Count({"failed"}) /\ flusher' = "deadletter"
           /\ UNCHANGED <<batch, plan, exiting, attempt, outcome>>
  <2>1. tally' \in [published : Nat, failed : Nat, deadLettered : Nat,
                   dropped : Nat]
    BY <1>1, <1>3, CountType
  <2>2. attempt' \in 0..MaxRetries /\ "main" \in plan
    BY <1>3 DEF TypeOK, Current
  <2> QED  BY <1>3, <2>1, <2>2, RetryStep
<1> QED  BY <1>2, <1>3 DEF GiveUp

(* Send or sendDeadLetter returns nil. *)
LEMMA SendOKStep == IInv /\ SendOK => IInv'
<1> SUFFICES ASSUME IInv, SendOK PROVE IInv'
  OBVIOUS
<1> DEFINE result == IF Current = "dlq" THEN "deadLettered" ELSE "published"
<1>1. TypeOK /\ plan # {} /\ Current \in Kinds
  BY BatchTypes DEF IInv, SendOK, FlusherWork
<1>2. Write(batch[Current]) /\ Count({result}) /\ Settle(result)
      /\ UNCHANGED <<publisherVars, closeVars, cancelled>>
  BY DEF SendOK
<1>3. batch[Current] \in Seq(Msgs) /\ (Current = "main" => batch[Current] \in Seq(Trades))
  BY <1>1, BatchTypes
<1>4. /\ topic' \in Seq(Trades) /\ dlqTopic' \in SUBSET Msgs
      /\ Range(topic) \subseteq Range(topic') /\ dlqTopic \subseteq dlqTopic'
      /\ Current = "main" => Contents \subseteq Range(topic')
      /\ Current = "dlq" => Contents \subseteq dlqTopic'
  BY <1>1, <1>2, <1>3, WriteEffect DEF Contents
<1>5. tally' \in [published : Nat, failed : Nat, deadLettered : Nat, dropped : Nat]
  BY <1>1, <1>2, CountType
<1>6. result \in Settled
  BY DEF Settled
<1>7. result = "published" => Contents \subseteq Range(topic')
  BY <1>1, <1>4 DEF Kinds
<1>8. result = "deadLettered" => Contents \subseteq dlqTopic'
  BY <1>4
<1> HIDE DEF result
<1> QED  BY <1>1, <1>2, <1>4, <1>5, <1>6, <1>7, <1>8, SettleStep

(* Send or sendDeadLetter returns an error. *)
LEMMA SendErrorStep == IInv /\ SendError => IInv'
<1> SUFFICES ASSUME IInv, SendError PROVE IInv'
  OBVIOUS
<1>1. TypeOK /\ plan # {}
  BY DEF IInv, SendError, FlusherWork
<1>2. PICK w \in KeyPrefixes(batch[Current]) : Write(w)
  BY DEF SendError
<1>3. /\ topic' \in Seq(Trades) /\ dlqTopic' \in SUBSET Msgs
      /\ Range(topic) \subseteq Range(topic') /\ dlqTopic \subseteq dlqTopic'
  BY <1>1, <1>2, PartialWrite, WriteEffect
<1>4. UNCHANGED <<publisherVars, closeVars, cancelled>>
  BY DEF SendError
<1>5. CASE GiveUp
  BY <1>1, <1>3, <1>4, <1>5, GiveUpStep
<1>6. CASE ~LastAttempt /\ flusher' = "sleep"
           /\ UNCHANGED <<batch, plan, exiting, attempt, tally, outcome>>
  <2>1. attempt' \in 0..MaxRetries /\ attempt' < MaxRetries
        /\ tally' \in [published : Nat, failed : Nat, deadLettered : Nat,
                       dropped : Nat]
    BY <1>1, <1>6, ProducerAssumption DEF TypeOK, LastAttempt, ProducerAssumption
  <2> QED  BY <1>1, <1>3, <1>4, <1>6, <2>1, RetryStep
<1> QED  BY <1>5, <1>6 DEF SendError

(* The back-off ends, with another attempt or with a cancelled context. *)
LEMMA SleepStep == IInv /\ (SleepDone \/ SleepCancelled) => IInv'
<1> SUFFICES ASSUME IInv, SleepDone \/ SleepCancelled PROVE IInv'
  OBVIOUS
<1>1. TypeOK /\ plan # {} /\ attempt < MaxRetries
  BY DEF IInv, SleepDone, SleepCancelled, FlusherWork
<1>2. UNCHANGED <<publisherVars, closeVars, cancelled, sinkVars>>
  BY DEF SleepDone, SleepCancelled
<1>3. /\ topic' \in Seq(Trades) /\ dlqTopic' \in SUBSET Msgs
      /\ Range(topic) \subseteq Range(topic') /\ dlqTopic \subseteq dlqTopic'
  BY <1>1, <1>2 DEF TypeOK, sinkVars
<1>4. CASE SleepDone
  <2>1. attempt' \in 0..MaxRetries /\ flusher' = "send"
        /\ tally' \in [published : Nat, failed : Nat, deadLettered : Nat,
                       dropped : Nat]
    BY <1>1, <1>4, ProducerAssumption DEF TypeOK, SleepDone, ProducerAssumption
  <2> QED  BY <1>1, <1>3, <1>4, <2>1, RetryStep DEF SleepDone
<1>5. CASE SleepCancelled
  BY <1>1, <1>2, <1>3, <1>5, GiveUpStep DEF SleepCancelled
<1> QED  BY <1>4, <1>5

(* The dead letter attempt for a failed main batch. *)
LEMMA DeadLetterStep == IInv /\ (DeadLetterOK \/ DeadLetterError) => IInv'
<1> SUFFICES ASSUME IInv, DeadLetterOK \/ DeadLetterError PROVE IInv'
  OBVIOUS
<1>1. TypeOK /\ plan # {} /\ Current \in Kinds /\ batch[Current] \in Seq(Msgs)
  BY BatchTypes DEF IInv, DeadLetterOK, DeadLetterError, FlusherWork
<1>2. UNCHANGED <<publisherVars, closeVars, cancelled>>
  BY DEF DeadLetterOK, DeadLetterError
<1>3. PICK w \in Seq(Msgs) : WriteDLQ(w) /\ (DeadLetterOK => w = batch[Current])
  BY <1>1, PartialWrite DEF DeadLetterOK, DeadLetterError
<1>4. /\ topic' = topic /\ topic' \in Seq(Trades) /\ dlqTopic' \in SUBSET Msgs
      /\ dlqTopic \subseteq dlqTopic' /\ Range(w) \subseteq dlqTopic'
  BY <1>1, <1>3, RangeOfSeq DEF TypeOK, WriteDLQ
<1>5. PICK result \in {"deadLettered", "dropped"} :
        Count({result}) /\ Settle(result)
        /\ (result = "deadLettered" => Contents \subseteq dlqTopic')
  BY <1>3, <1>4 DEF DeadLetterOK, DeadLetterError, Contents
<1>6. tally' \in [published : Nat, failed : Nat, deadLettered : Nat, dropped : Nat]
  BY <1>1, <1>5, CountType
<1>7. result \in Settled /\ result # "published"
  BY <1>5 DEF Settled
<1>8. Range(topic) \subseteq Range(topic')
  BY <1>4
<1> QED  BY <1>1, <1>2, <1>4, <1>5, <1>6, <1>7, <1>8, SettleStep

-----------------------------------------------------------------------------
(* The theorems.                                                           *)

(* Every step, of whichever goroutine, keeps the inductive invariant. *)
LEMMA NextInv == IInv /\ [Next]_vars => IInv'
<1> SUFFICES ASSUME IInv, [Next]_vars PROVE IInv'
  OBVIOUS
<1>1. CASE \E p \in Publishers : Enqueue(p)
  BY <1>1, PublisherStep
<1>2. CASE \E c \in Closers : Close(c)
  BY <1>2, CloseStep
<1>3. CASE Cancel
  BY <1>3, CancelStep
<1>4. CASE Flusher
  BY <1>4, ReceiveStep, FlushRoundStep, DrainStep, SendOKStep, SendErrorStep,
     SleepStep, DeadLetterStep DEF Flusher
<1>5. CASE UNCHANGED vars
  <2> USE <1>5 DEF vars, publisherVars, closeVars, flusherVars, sinkVars, IInv
  <2>1. TypeOK'  BY DEF TypeOK
  <2>2. NoSendOnClosedChannel' /\ CountedIsDurable' /\ QueuedInBacklog'
    BY DEF NoSendOnClosedChannel, CountedIsDurable, QueuedInBacklog
  <2>3. FlusherWork' /\ RoomInBatches' /\ LastRound'
    BY DEF FlusherWork, RoomInBatches, LastRound
  <2> QED  BY <2>1, <2>2, <2>3
<1> QED  BY <1>1, <1>2, <1>3, <1>4, <1>5 DEF Next

(* The inductive invariant holds in every reachable state. *)
THEOREM Invariance == Spec => []IInv
BY InitInv, NextInv, PTL DEF Spec

(* Every variable keeps its type; in particular no more than 1 + MaxRetries *)
(* attempts are made and no sequence holds a message of the wrong kind.    *)
THEOREM TypeCorrect == Spec => []TypeOK
<1>1. IInv => TypeOK
  BY DEF IInv
<1> QED  BY <1>1, Invariance, PTL

(* Close never closes the channel under a publisher that is inside         *)
(* enqueue: publishing concurrently with a shutdown cannot panic.          *)
THEOREM PublishNeverPanics == Spec => []NoSendOnClosedChannel
<1>1. IInv => NoSendOnClosedChannel
  BY DEF IInv
<1> QED  BY <1>1, Invariance, PTL

(* The backlog held in memory is bounded by the configured sizes until the *)
(* context is cancelled, however slow the sink is.                         *)
THEOREM BacklogStaysBounded == Spec => []BacklogBounded
<1>1. IInv => BacklogBounded
  BY DEF IInv, RoomInBatches, BacklogBounded
<1> QED  BY <1>1, Invariance, PTL

(* No message is counted as published or as dead lettered before the sink  *)
(* accepted it, whatever was retried or partly accepted in between.        *)
THEOREM CountersNeverLie == Spec => []CountedIsDurable
<1>1. IInv => CountedIsDurable
  BY DEF IInv
<1> QED  BY <1>1, Invariance, PTL

(* Under a context that stays alive the flusher does not return before     *)
(* every message that entered the channel is accounted for.                *)
THEOREM NothingLeftBehind == Spec => []FlusherStopsDrained
<1>1. IInv => FlusherStopsDrained
  <2> SUFFICES ASSUME IInv, flusher = "done", ~cancelled
               PROVE  closed /\ \A m \in Msgs : outcome[m] # "queued"
    BY DEF FlusherStopsDrained
  <2>1. closed /\ in = <<>> /\ \A k \in Kinds : batch[k] = <<>>
    BY DEF IInv, FlusherWork, LastRound
  <2>2. \A m \in Msgs : m \notin Range(in) /\ \A k \in Kinds : m \notin Range(batch[k])
    BY <2>1 DEF Range
  <2> QED  BY <2>1, <2>2 DEF IInv, QueuedInBacklog, Kinds
<1> QED  BY <1>1, Invariance, PTL

-----------------------------------------------------------------------------
(* The queue order: what Accounting, FirstCopiesInQueueOrder and the       *)
(* contract rest on.                                                       *)

(* a comes before b in q. *)
Before(q, a, b) ==
  \E i, j \in DOMAIN q : i < j /\ q[i] = a /\ q[j] = b

(* s goes through elements of q, in their order. *)
Ordered(q, s) == \A i, j \in DOMAIN s : i < j => Before(q, s[i], s[j])

(* a is in t at a place where b has not come up. *)
FirstBefore(t, a, b) == \E i \in DOMAIN t : t[i] = a /\ \A j \in 1..i : t[j] # b

(* Each publisher offers a message of its own. *)
Offers ==
  \A p \in Publishers : pub[p] # Idle =>
    /\ outcome[pub[p]] = "offered"
    /\ \A q \in Publishers : pub[q] = pub[p] => q = p

(* A message enters the channel at most once, and is queued or accounted   *)
(* for from then on.                                                       *)
Entered ==
  /\ IsInjective(accepted)
  /\ \A m \in Msgs : m \in Range(accepted) <=> outcome[m] \in {"queued"} \cup Settled

(* The channel and the batches hold queued messages, each in the order     *)
(* they were queued, and the batches hold older ones than the channel.     *)
Lined ==
  /\ Ordered(accepted, in)
  /\ \A m \in Range(in) : outcome[m] = "queued"
  /\ \A k \in Kinds :
       /\ Ordered(accepted, batch[k])
       /\ \A b \in Range(batch[k]) :
            /\ outcome[b] = "queued"
            /\ \A m \in Range(in) : Before(accepted, b, m)

Queueing == Offers /\ Entered /\ Lined

(* Of two trades of one key, the later one is not in the topic before the  *)
(* earlier one is, or has been given up.                                   *)
TopicOrder ==
  SinkInOrder =>
  \A a, b \in Trades :
    Before(accepted, a, b) /\ KeyOf[a] = KeyOf[b] /\ b \in Range(topic) =>
      \/ FirstBefore(topic, a, b)
      \/ a \notin Range(topic) /\ outcome[a] \in Settled

(* The topic only holds messages that went through the channel. *)
TopicFromQueue == Range(topic) \subseteq Range(accepted)

(* The inductive invariant behind Accounting and FirstCopiesInQueueOrder. *)
QInv == IInv /\ Queueing /\ CountersReconcile /\ TopicFromQueue /\ TopicOrder

(* Only elements come before one another. *)
LEMMA BeforeRange ==
  ASSUME NEW q, NEW a, NEW b, Before(q, a, b)
  PROVE  a \in Range(q) /\ b \in Range(q)
BY DEF Before, Range

(* In a queue without repetitions the order is strict. *)
LEMMA BeforeStrict ==
  ASSUME NEW S, NEW q \in Seq(S), IsInjective(q), NEW a, NEW b, Before(q, a, b)
  PROVE  a # b /\ ~Before(q, b, a)
<1>1. DOMAIN q \subseteq Nat
  BY LenProperties
<1>2. PICK i, j \in DOMAIN q : i < j /\ q[i] = a /\ q[j] = b
  BY DEF Before
<1>3. a # b
  BY <1>1, <1>2 DEF IsInjective
<1>4. ASSUME NEW k \in DOMAIN q, NEW l \in DOMAIN q, k < l, q[k] = b, q[l] = a
      PROVE  FALSE
  <2>1. k = j /\ l = i
    BY <1>2, <1>4 DEF IsInjective
  <2> QED  BY <1>1, <1>2, <1>4, <2>1
<1> QED  BY <1>3, <1>4 DEF Before

(* One more element at the end comes after all the others. *)
LEMMA BeforeAppend ==
  ASSUME NEW S, NEW q \in Seq(S), NEW e \in S
  PROVE  /\ \A a, b : Before(q, a, b) => Before(Append(q, e), a, b)
         /\ \A a \in Range(q) : Before(Append(q, e), a, e)
         /\ \A a, b : Before(Append(q, e), a, b) => Before(q, a, b) \/ b = e
<1> DEFINE t == Append(q, e)
           n == Len(q)
<1>1. /\ n \in Nat /\ DOMAIN q = 1..n /\ DOMAIN t = 1..(n + 1)
      /\ \A i \in 1..n : t[i] = q[i]
      /\ t[n + 1] = e
  BY AppendProperties, LenProperties
<1> HIDE DEF t, n
<1>2. ASSUME NEW a, NEW b, Before(q, a, b)
      PROVE  Before(t, a, b)
  <2>1. PICK i, j \in 1..n : i < j /\ q[i] = a /\ q[j] = b
    BY <1>1, <1>2 DEF Before
  <2>2. i \in 1..(n + 1) /\ j \in 1..(n + 1) /\ t[i] = a /\ t[j] = b
    BY <1>1, <2>1
  <2> QED  BY <1>1, <2>1, <2>2 DEF Before
<1>3. ASSUME NEW a \in Range(q)
      PROVE  Before(t, a, e)
  <2>1. PICK i \in 1..n : q[i] = a
    BY <1>1, <1>3 DEF Range
  <2>2. i \in 1..(n + 1) /\ n + 1 \in 1..(n + 1) /\ i < n + 1 /\ t[i] = a
    BY <1>1, <2>1
  <2> QED  BY <1>1, <2>2 DEF Before
<1>4. ASSUME NEW a, NEW b, Before(t, a, b), b # e
      PROVE  Before(q, a, b)
  <2>1. PICK i, j \in 1..(n + 1) : i < j /\ t[i] = a /\ t[j] = b
    BY <1>1, <1>4 DEF Before
  <2>2. j # n + 1
    BY <1>1, <1>4, <2>1
  <2>3. i \in 1..n /\ j \in 1..n /\ q[i] = a /\ q[j] = b
    BY <1>1, <2>1, <2>2
  <2> QED  BY <1>1, <2>1, <2>3 DEF Before
<1> QED  BY <1>2, <1>3, <1>4 DEF t

(* A new element is no repetition. *)
LEMMA InjectiveAppend ==
  ASSUME NEW S, NEW q \in Seq(S), NEW e \in S, IsInjective(q), e \notin Range(q)
  PROVE  IsInjective(Append(q, e))
<1> DEFINE t == Append(q, e)
           n == Len(q)
<1>1. /\ n \in Nat /\ DOMAIN q = 1..n /\ DOMAIN t = 1..(n + 1)
      /\ \A i \in 1..n : t[i] = q[i]
      /\ t[n + 1] = e
  BY AppendProperties, LenProperties
<1>2. \A i \in 1..n : q[i] # e
  BY <1>1 DEF Range
<1> HIDE DEF t, n
<1>3. \A i \in 1..(n + 1) : i = n + 1 \/ i \in 1..n
  BY <1>1
<1>4. \A i, j \in 1..(n + 1) : t[i] = t[j] => i = j
  BY <1>1, <1>2, <1>3 DEF IsInjective
<1> QED  BY <1>1, <1>4 DEF IsInjective, t

(* What is in the order of a queue without repetitions has none either. *)
LEMMA OrderedInjective ==
  ASSUME NEW S, NEW q \in Seq(S), IsInjective(q), NEW T, NEW s \in Seq(T), Ordered(q, s)
  PROVE  IsInjective(s)
<1>1. \A i \in DOMAIN s : i \in Nat
  BY LenProperties
<1>2. ASSUME NEW i \in DOMAIN s, NEW j \in DOMAIN s, s[i] = s[j], i < j
      PROVE  FALSE
  <2>1. Before(q, s[i], s[j])
    BY <1>2 DEF Ordered
  <2> QED  BY <1>2, <2>1, BeforeStrict
<1>3. \A i, j \in DOMAIN s : i = j \/ i < j \/ j < i
  BY <1>1
<1> QED  BY <1>2, <1>3 DEF IsInjective

(* The order of a line is kept when an element that comes after all of it  *)
(* joins, when its first one leaves, and when the queue goes on.           *)
LEMMA OrderedAppend ==
  ASSUME NEW q, NEW S, NEW s \in Seq(S), NEW e \in S, Ordered(q, s),
         \A b \in Range(s) : Before(q, b, e)
  PROVE  Ordered(q, Append(s, e))
<1> DEFINE t == Append(s, e)
           n == Len(s)
<1>1. /\ n \in Nat /\ DOMAIN s = 1..n /\ DOMAIN t = 1..(n + 1)
      /\ \A i \in 1..n : t[i] = s[i]
      /\ t[n + 1] = e
  BY AppendProperties, LenProperties
<1>2. \A i \in 1..n : Before(q, s[i], e)
  BY <1>1 DEF Range
<1> HIDE DEF t, n
<1>3. ASSUME NEW i \in 1..(n + 1), NEW j \in 1..(n + 1), i < j
      PROVE  Before(q, t[i], t[j])
  <2>1. i \in 1..n /\ t[i] = s[i]
    BY <1>1, <1>3
  <2>2. CASE j = n + 1
    BY <1>1, <1>2, <2>1, <2>2
  <2>3. CASE j \in 1..n
    BY <1>1, <1>3, <2>1, <2>3 DEF Ordered
  <2> QED  BY <1>1, <2>2, <2>3
<1> QED  BY <1>1, <1>3 DEF Ordered, t

(* The head of a line comes before the rest of it. *)
LEMMA OrderedTail ==
  ASSUME NEW q, NEW S, NEW s \in Seq(S), s # <<>>, Ordered(q, s)
  PROVE  Ordered(q, Tail(s)) /\ \A m \in Range(Tail(s)) : Before(q, Head(s), m)
<1> DEFINE t == Tail(s)
           n == Len(s)
<1>1. /\ n \in Nat \ {0} /\ DOMAIN s = 1..n /\ DOMAIN t = 1..(n - 1)
      /\ \A i \in 1..(n - 1) : t[i] = s[i + 1]
      /\ Head(s) = s[1]
  <2>1. t \in Seq(S) /\ Len(t) = n - 1 /\ (\A i \in 1..Len(t) : t[i] = s[i + 1])
    BY HeadTailProperties
  <2>2. n \in Nat \ {0} /\ DOMAIN s = 1..n
    BY EmptySeq, LenProperties
  <2>3. DOMAIN t = 1..(n - 1)
    BY <2>1, LenProperties
  <2> QED  BY <2>1, <2>2, <2>3
<1> HIDE DEF t, n
<1>2. ASSUME NEW i \in 1..(n - 1), NEW j \in 1..(n - 1), i < j
      PROVE  Before(q, t[i], t[j])
  <2>1. i + 1 \in 1..n /\ j + 1 \in 1..n /\ i + 1 < j + 1
    BY <1>1, <1>2
  <2> QED  BY <1>1, <2>1 DEF Ordered
<1>3. ASSUME NEW m \in Range(t)
      PROVE  Before(q, Head(s), m)
  <2>1. PICK i \in 1..(n - 1) : t[i] = m
    BY <1>1, <1>3 DEF Range
  <2>2. 1 \in 1..n /\ i + 1 \in 1..n /\ 1 < i + 1
    BY <1>1
  <2> QED  BY <1>1, <2>1, <2>2 DEF Ordered
<1> QED  BY <1>1, <1>2, <1>3 DEF Ordered, t

-----------------------------------------------------------------------------
(* Queueing is kept by every step.                                         *)

(* Steps that move no message: only messages that are not in the channel   *)
(* change their outcome.                                                   *)
LEMMA NothingMoves ==
  ASSUME Queueing, UNCHANGED <<in, accepted, batch>>, Offers',
         \A m \in Msgs : outcome'[m] # outcome[m] =>
           outcome[m] \in {"new", "offered"} /\ outcome'[m] \in {"new", "offered", "refused"},
         TypeOK
  PROVE  Queueing'
<1> USE DEF Queueing
<1>1. IsInjective(accepted') /\ accepted' = accepted /\ in' = in /\ batch' = batch
  BY DEF Entered
<1>2. \A m \in Msgs :
        /\ outcome[m] = "queued" => outcome'[m] = "queued"
        /\ outcome[m] \in {"queued"} \cup Settled <=> outcome'[m] \in {"queued"} \cup Settled
  BY DEF Settled
<1>3. Entered'
  BY <1>1, <1>2 DEF Entered
<1>4. Range(in) \subseteq Msgs /\ \A k \in Kinds : Range(batch[k]) \subseteq Msgs
  BY BatchTypes, RangeOfSeq DEF TypeOK
<1>5. Lined'
  BY <1>1, <1>2, <1>4 DEF Lined
<1> QED  BY <1>3, <1>5

(* The steps of a publisher. *)
LEMMA EnqueueQueues ==
  ASSUME TypeOK, Queueing, NEW p \in Publishers, Enqueue(p)
  PROVE  Queueing'
<1>0. /\ Idle \notin Msgs /\ pub \in [Publishers -> Msgs \cup {Idle}]
      /\ outcome \in [Msgs -> {"new", "offered", "queued", "refused"} \cup Settled]
  BY ProducerAssumption DEF TypeOK, ProducerAssumption
<1>1. ASSUME NEW m \in Msgs, EnqueueRefused(p, m)
      PROVE  Queueing'
  <2> USE <1>1 DEF EnqueueRefused, publisherVars, flusherVars
  <2>1. Offers'
    BY <1>0 DEF Offers, Queueing
  <2>2. \A x \in Msgs : outcome'[x] # outcome[x] => outcome[x] = "new" /\ outcome'[x] = "refused"
    BY <1>0
  <2> QED  BY <2>1, <2>2, NothingMoves
<1>2. ASSUME NEW m \in Msgs, EnqueueStart(p, m)
      PROVE  Queueing'
  <2> USE <1>2 DEF EnqueueStart, flusherVars
  <2>1. Offers'
    BY <1>0 DEF Offers, Queueing
  <2>2. \A x \in Msgs : outcome'[x] # outcome[x] => outcome[x] = "new" /\ outcome'[x] = "offered"
    BY <1>0
  <2> QED  BY <2>1, <2>2, NothingMoves
<1>3. ASSUME LeaveEnqueue(p)
      PROVE  Queueing'
  <2> USE <1>3 DEF LeaveEnqueue, flusherVars
  <2>1. Offers'
    BY <1>0 DEF Offers, Queueing
  <2>2. \A x \in Msgs : outcome'[x] # outcome[x] => outcome[x] = "offered" /\ outcome'[x] = "refused"
    BY <1>0 DEF Offers, Queueing
  <2> QED  BY <2>1, <2>2, NothingMoves
<1>4. CASE EnqueueSend(p)
  <2> DEFINE m == pub[p]
  <2>1. /\ m \in Msgs /\ outcome[m] = "offered"
        /\ in \in Seq(Msgs) /\ accepted \in Seq(Msgs)
        /\ in' = Append(in, m) /\ accepted' = Append(accepted, m) /\ batch' = batch
        /\ outcome' = [outcome EXCEPT ![m] = "queued"]
        /\ pub' = [pub EXCEPT ![p] = Idle]
    BY <1>0, <1>4 DEF EnqueueSend, flusherVars, TypeOK, Queueing, Offers
  <2>2. /\ Range(in') = Range(in) \cup {m} /\ Range(accepted') = Range(accepted) \cup {m}
        /\ m \notin Range(accepted)
    <3>1. Range(in') = Range(in) \cup {m} /\ Range(accepted') = Range(accepted) \cup {m}
      BY <2>1, RangeAppend
    <3>2. m \notin Range(accepted)
      BY <2>1 DEF Queueing, Entered, Settled
    <3> QED  BY <3>1, <3>2
  <2>3. Offers'
    BY <1>0, <2>1 DEF Offers, Queueing
  <2> HIDE DEF m
  <2>4. Entered'
    <3>1. IsInjective(accepted')
      BY <2>1, <2>2, InjectiveAppend DEF Queueing, Entered
    <3>2. \A x \in Msgs : x \in Range(accepted') <=> outcome'[x] \in {"queued"} \cup Settled
      BY <1>0, <2>1, <2>2 DEF Queueing, Entered, Settled
    <3> QED  BY <3>1, <3>2 DEF Entered
  <2>5. \A a, b : Before(accepted, a, b) => Before(accepted', a, b)
    BY <2>1, BeforeAppend
  <2>6. \A a \in Range(accepted) : Before(accepted', a, m)
    BY <2>1, BeforeAppend
  <2>7. /\ \A x \in Range(in) : x \in Range(accepted) /\ outcome[x] = "queued" /\ x \in Msgs
        /\ \A k \in Kinds : \A x \in Range(batch[k]) :
             x \in Range(accepted) /\ outcome[x] = "queued" /\ x \in Msgs
    <3>1. Range(in) \subseteq Msgs /\ \A k \in Kinds : Range(batch[k]) \subseteq Msgs
      BY <2>1, BatchTypes, RangeOfSeq
    <3> QED  BY <3>1 DEF Queueing, Entered, Lined
  <2>8. Ordered(accepted', in')
    <3>1. Ordered(accepted', in)
      BY <2>5 DEF Ordered, Queueing, Lined
    <3>2. \A b \in Range(in) : Before(accepted', b, m)
      BY <2>6, <2>7
    <3> QED  BY <2>1, <3>1, <3>2, OrderedAppend
  <2>9. \A x \in Range(in') : outcome'[x] = "queued"
    BY <1>0, <2>1, <2>2, <2>7
  <2>10. ASSUME NEW k \in Kinds
         PROVE  /\ Ordered(accepted', batch'[k])
                /\ \A b \in Range(batch'[k]) :
                     /\ outcome'[b] = "queued"
                     /\ \A x \in Range(in') : Before(accepted', b, x)
    <3>1. Ordered(accepted', batch'[k])
      BY <2>1, <2>5 DEF Ordered, Queueing, Lined
    <3>2. ASSUME NEW b \in Range(batch[k])
          PROVE  /\ outcome'[b] = "queued"
                 /\ \A x \in Range(in') : Before(accepted', b, x)
      <4>1. outcome'[b] = "queued" /\ Before(accepted', b, m)
        BY <1>0, <2>1, <2>6, <2>7
      <4>2. \A x \in Range(in) : Before(accepted', b, x)
        BY <2>5 DEF Queueing, Lined
      <4> QED  BY <2>2, <4>1, <4>2
    <3> QED  BY <2>1, <3>1, <3>2
  <2> QED  BY <2>3, <2>4, <2>8, <2>9, <2>10 DEF Queueing, Lined
<1> QED  BY <1>1, <1>2, <1>3, <1>4 DEF Enqueue, EnqueueQuit, EnqueueCtxDone

(* The flusher moves the head of the channel to the end of its batch. *)
LEMMA TakeQueues ==
  ASSUME TypeOK, Queueing, TakeFromChannel, UNCHANGED <<pub, accepted, outcome>>
  PROVE  Queueing'
<1> DEFINE h == Head(in)
           kind == KindOf(h)
<1>1. /\ in # <<>> /\ in \in Seq(Msgs) /\ in' = Tail(in) /\ h \in Msgs
      /\ \A k \in Kinds : batch'[k] = IF k = kind THEN Append(batch[k], h) ELSE batch[k]
  BY TakeEffect DEF TypeOK
<1>2. Range(in) = {h} \cup Range(in')
  BY <1>1, RangeHeadTail
<1> HIDE DEF h, kind
<1>3. /\ Ordered(accepted, in) /\ \A m \in Range(in) : outcome[m] = "queued"
      /\ \A k \in Kinds :
           /\ Ordered(accepted, batch[k])
           /\ \A b \in Range(batch[k]) :
                outcome[b] = "queued" /\ \A m \in Range(in) : Before(accepted, b, m)
  BY DEF Queueing, Lined
<1>4. Ordered(accepted, in') /\ \A m \in Range(in') : Before(accepted, h, m)
  BY <1>1, <1>3, OrderedTail DEF h
<1>5. ASSUME NEW k \in Kinds
      PROVE  /\ Ordered(accepted, batch'[k])
             /\ \A b \in Range(batch'[k]) :
                  outcome[b] = "queued" /\ \A m \in Range(in') : Before(accepted, b, m)
  <2>1. CASE k = kind
    <3>1. batch[k] \in Seq(Msgs) /\ batch'[k] = Append(batch[k], h)
      BY <1>1, <2>1, BatchTypes
    <3>2. Ordered(accepted, batch'[k])
      BY <1>1, <1>2, <1>3, <3>1, OrderedAppend
    <3>3. Range(batch'[k]) = Range(batch[k]) \cup {h}
      BY <1>1, <3>1, RangeAppend
    <3> QED  BY <1>2, <1>3, <1>4, <3>2, <3>3
  <2>2. CASE k # kind
    BY <1>1, <1>2, <1>3, <2>2
  <2> QED  BY <2>1, <2>2
<1>6. Lined'
  BY <1>2, <1>3, <1>4, <1>5 DEF Lined
<1> QED  BY <1>6 DEF Queueing, Offers, Entered

(* deliver returns: the messages of the batch are accounted for. *)
LEMMA SettleQueues ==
  ASSUME TypeOK, Queueing, NEW result \in Settled, Settle(result),
         UNCHANGED <<pub, in, accepted>>
  PROVE  Queueing'
<1>1. /\ batch'[Current] = <<>> /\ Current \in Kinds
      /\ \A k \in Kinds : k # Current => batch'[k] = batch[k]
      /\ \A m \in Msgs : outcome'[m] = IF m \in Contents THEN result ELSE outcome[m]
      /\ Contents \subseteq Msgs
  BY SettleEffect, BatchTypes, ProducerAssumption
<1>2. /\ IsInjective(accepted) /\ accepted \in Seq(Msgs)
      /\ \A m \in Msgs : m \in Range(accepted) <=> outcome[m] \in {"queued"} \cup Settled
  BY DEF Queueing, Entered, TypeOK
<1>3. \A m \in Contents : outcome[m] = "queued"
  BY <1>1 DEF Contents, Queueing, Lined
<1>4. Offers'
  <2>1. Idle \notin Msgs /\ pub \in [Publishers -> Msgs \cup {Idle}]
    BY ProducerAssumption DEF ProducerAssumption, TypeOK
  <2> QED  BY <1>1, <1>3, <2>1 DEF Queueing, Offers
<1>5. Entered'
  BY <1>1, <1>2, <1>3 DEF Entered
<1>6. Lined'
  <2>1. ASSUME NEW m \in Range(in)
        PROVE  outcome'[m] = "queued"
    <3>1. m \in Msgs /\ outcome[m] = "queued"
      BY RangeOfSeq DEF TypeOK, Queueing, Lined
    <3>2. m \notin Contents
      BY <1>1, <1>2, BeforeStrict DEF Queueing, Lined, Contents
    <3> QED  BY <1>1, <3>1, <3>2
  <2>2. ASSUME NEW k \in Kinds
        PROVE  /\ Ordered(accepted, batch'[k])
               /\ \A b \in Range(batch'[k]) :
                    outcome'[b] = "queued" /\ \A m \in Range(in) : Before(accepted, b, m)
    <3>1. CASE k = Current
      <4>1. DOMAIN batch'[k] = {} /\ Range(batch'[k]) = {}
        BY <1>1, <3>1 DEF Range
      <4> QED  BY <4>1 DEF Ordered
    <3>2. CASE k # Current
      <4>1. batch'[k] = batch[k]
        BY <1>1, <3>2
      <4>2. ASSUME NEW b \in Range(batch[k])
            PROVE  outcome'[b] = "queued"
        <5>1. /\ batch["main"] \in Seq(Trades) /\ batch["dlq"] \in Seq(Rejects)
              /\ Trades \cap Rejects = {} /\ k \in {"main", "dlq"} /\ Current \in {"main", "dlq"}
          BY <1>1, BatchTypes, ProducerAssumption DEF ProducerAssumption, Kinds
        <5>2. Range(batch["main"]) \subseteq Trades /\ Range(batch["dlq"]) \subseteq Rejects
          BY <5>1, RangeOfSeq
        <5>3. b \notin Contents /\ b \in Msgs
          BY <3>2, <5>1, <5>2 DEF Contents, Msgs
        <5> QED  BY <1>1, <5>3 DEF Queueing, Lined
      <4> QED  BY <4>1, <4>2 DEF Queueing, Lined
    <3> QED  BY <3>1, <3>2
  <2>3. Ordered(accepted, in)
    BY DEF Queueing, Lined
  <2> QED  BY <2>1, <2>2, <2>3 DEF Lined
<1> QED  BY <1>4, <1>5, <1>6 DEF Queueing

(* The outcome of a message is one of four things that happen to it. *)
LEMMA FlusherMoves ==
  ASSUME Flusher
  PROVE  /\ UNCHANGED <<pub, accepted>>
         /\ \/ TakeFromChannel /\ UNCHANGED outcome
            \/ UNCHANGED <<in, batch, outcome>>
            \/ in' = in /\ \E result \in Settled : Settle(result)
BY DEF Flusher, Receive, ReceiveClosed, LingerTick, CtxDone, DrainReceive, DrainEnd, SendOK,
   SendError, SleepDone, SleepCancelled, DeadLetterOK, DeadLetterError, GiveUp, Settled,
   publisherVars

(* Every step keeps the queue order. *)
LEMMA QueueingStep ==
  ASSUME TypeOK, Queueing, [Next]_vars
  PROVE  Queueing'
<1>0. ASSUME UNCHANGED <<pub, in, accepted, batch, outcome>>
      PROVE  Queueing'
  BY <1>0 DEF Queueing, Offers, Entered, Lined
<1>1. ASSUME NEW p \in Publishers, Enqueue(p)
      PROVE  Queueing'
  BY <1>1, EnqueueQueues
<1>2. ASSUME NEW c \in Closers, Close(c)
      PROVE  Queueing'
  BY <1>0, <1>2 DEF Close, CloseQuit, CloseLock, CloseFlushed, CloseTimedOut, CloseSink,
     publisherVars, flusherVars
<1>3. CASE Cancel
  BY <1>0, <1>3 DEF Cancel, publisherVars, flusherVars
<1>4. CASE Flusher
  BY <1>0, <1>4, FlusherMoves, TakeQueues, SettleQueues
<1>5. CASE UNCHANGED vars
  BY <1>0, <1>5 DEF vars, publisherVars, flusherVars
<1> QED  BY <1>1, <1>2, <1>3, <1>4, <1>5 DEF Next

(* Nothing is queued when the producer starts. *)
LEMMA QueueingInit == Init => Queueing
<1> SUFFICES ASSUME Init PROVE Queueing
  OBVIOUS
<1>1. pub = [p \in Publishers |-> Idle] /\ outcome = [m \in Msgs |-> "new"]
  BY DEF Init
<1>2. in = <<>> /\ accepted = <<>> /\ \A k \in Kinds : batch[k] = <<>>
  BY DEF Init, Kinds
<1>3. DOMAIN accepted = {} /\ DOMAIN in = {} /\ \A k \in Kinds : DOMAIN batch[k] = {}
  BY <1>2
<1>4. Offers
  BY <1>1 DEF Offers
<1>5. Entered
  BY <1>1, <1>3 DEF Entered, IsInjective, Range, Settled
<1>6. Lined
  BY <1>3 DEF Lined, Ordered, Range
<1> QED  BY <1>4, <1>5, <1>6 DEF Queueing

-----------------------------------------------------------------------------
(* The counters.                                                           *)

(* A sequence without repetitions holds as many elements as it is long. *)
LEMMA InjectiveCardinality ==
  ASSUME NEW S, NEW s \in Seq(S), IsInjective(s)
  PROVE  IsFiniteSet(Range(s)) /\ Cardinality(Range(s)) = Len(s)
<1>1. Len(s) \in Nat /\ DOMAIN s = 1..Len(s) /\ s \in [1..Len(s) -> Range(s)]
  BY LenProperties DEF Range
<1>2. s \in Bijection(1..Len(s), Range(s))
  BY <1>1 DEF Bijection, Injection, Surjection, IsInjective, Range
<1>3. ExistsBijection(1..Len(s), Range(s))
  BY <1>2 DEF ExistsBijection
<1> QED  BY <1>1, <1>3, FS_CountingElements, FS_NatBijection

(* The trades in the dead letter destination. *)
DeadTrades == {m \in Trades : outcome[m] = "deadLettered"}

(* The messages the flusher is about to dead letter, already counted as    *)
(* failed.                                                                 *)
Failing == IF flusher = "deadletter" THEN Len(batch["main"]) ELSE 0

(* Reading of the two sums with these names. *)
LEMMA Sums ==
  CountersReconcile <=>
    /\ Len(accepted) = Len(in) + Len(batch["main"]) + Len(batch["dlq"])
         + tally.published + tally.deadLettered + tally.dropped
    /\ tally.failed = tally.dropped + Cardinality(DeadTrades) + Failing
BY DEF CountersReconcile, DeadTrades, Failing

(* Every term of the sums is a natural number. *)
LEMMA SumTypes ==
  ASSUME TypeOK
  PROVE  /\ Len(accepted) \in Nat /\ Len(in) \in Nat
         /\ Len(batch["main"]) \in Nat /\ Len(batch["dlq"]) \in Nat
         /\ tally.published \in Nat /\ tally.failed \in Nat
         /\ tally.deadLettered \in Nat /\ tally.dropped \in Nat
         /\ IsFiniteSet(DeadTrades) /\ Cardinality(DeadTrades) \in Nat
         /\ Failing \in Nat
<1>1. /\ Len(accepted) \in Nat /\ Len(in) \in Nat
      /\ Len(batch["main"]) \in Nat /\ Len(batch["dlq"]) \in Nat
  BY BatchTypes, LenProperties DEF TypeOK, Kinds
<1>2. /\ tally.published \in Nat /\ tally.failed \in Nat
      /\ tally.deadLettered \in Nat /\ tally.dropped \in Nat
  BY DEF TypeOK
<1>3. DeadTrades \subseteq Trades /\ IsFiniteSet(Trades)
  BY ProducerAssumption DEF DeadTrades, ProducerAssumption
<1>4. IsFiniteSet(DeadTrades) /\ Cardinality(DeadTrades) \in Nat
  BY <1>3, FS_Subset, FS_CardinalityType
<1> QED  BY <1>1, <1>2, <1>4 DEF Failing

(* What Count does to each counter. *)
LEMMA CountEffect ==
  ASSUME TypeOK, NEW fields, Count(fields)
  PROVE  LET n == Len(batch[Current])
         IN  /\ n \in Nat
             /\ tally'.published = tally.published + IF "published" \in fields THEN n ELSE 0
             /\ tally'.failed = tally.failed + IF "failed" \in fields THEN n ELSE 0
             /\ tally'.deadLettered = tally.deadLettered + IF "deadLettered" \in fields THEN n ELSE 0
             /\ tally'.dropped = tally.dropped + IF "dropped" \in fields THEN n ELSE 0
<1>1. Len(batch[Current]) \in Nat
  BY BatchTypes
<1>2. DOMAIN tally = {"published", "failed", "deadLettered", "dropped"}
  BY DEF TypeOK
<1> QED  BY <1>1, <1>2 DEF Count

(* When deliver returns, the trades it dead lettered are those of the      *)
(* batch, and they are new to the dead letter destination.                 *)
LEMMA SettledTrades ==
  ASSUME TypeOK, Queueing, NEW result \in Settled, Settle(result)
  PROVE  /\ Current = "main" /\ result = "deadLettered" =>
              Cardinality(DeadTrades') = Cardinality(DeadTrades) + Len(batch["main"])
         /\ Current # "main" \/ result # "deadLettered" =>
              Cardinality(DeadTrades') = Cardinality(DeadTrades)
<1>1. /\ \A m \in Msgs : outcome'[m] = IF m \in Contents THEN result ELSE outcome[m]
      /\ \A m \in Contents : outcome[m] = "queued"
      /\ Current \in Kinds /\ Trades \cap Rejects = {} /\ Trades \subseteq Msgs
      /\ batch["main"] \in Seq(Trades) /\ batch["dlq"] \in Seq(Rejects)
  BY SettleEffect, BatchTypes, ProducerAssumption
     DEF Contents, Queueing, Lined, ProducerAssumption, Msgs
<1>2. ASSUME Current = "main", result = "deadLettered"
      PROVE  Cardinality(DeadTrades') = Cardinality(DeadTrades) + Len(batch["main"])
  <2>1. Contents \subseteq Trades /\ Contents = Range(batch["main"])
    BY <1>1, <1>2, RangeOfSeq DEF Contents
  <2>2. DeadTrades' = DeadTrades \cup Contents /\ DeadTrades \cap Contents = {}
    BY <1>1, <1>2, <2>1 DEF DeadTrades
  <2>3. IsFiniteSet(Contents) /\ Cardinality(Contents) = Len(batch["main"])
    <3>1. IsInjective(batch["main"])
      BY <1>1, OrderedInjective DEF Queueing, Lined, Entered, TypeOK, Kinds
    <3> QED  BY <1>1, <2>1, <3>1, InjectiveCardinality
  <2>4. IsFiniteSet(DeadTrades) /\ Cardinality(DeadTrades) \in Nat /\ Len(batch["main"]) \in Nat
    BY SumTypes
  <2>5. Cardinality(DeadTrades \cup Contents)
          = Cardinality(DeadTrades) + Cardinality(Contents) - Cardinality(DeadTrades \cap Contents)
    BY <2>3, <2>4, FS_Union
  <2>6. Cardinality(DeadTrades \cap Contents) = 0
    BY <2>2, FS_EmptySet
  <2> QED  BY <2>2, <2>3, <2>4, <2>5, <2>6
<1>3. ASSUME Current # "main" \/ result # "deadLettered"
      PROVE  DeadTrades' = DeadTrades
  <2>1. CASE result # "deadLettered"
    BY <1>1, <2>1 DEF DeadTrades
  <2>2. CASE Current # "main"
    <3>1. Contents \subseteq Rejects
      BY <1>1, <2>2, RangeOfSeq DEF Contents, Kinds
    <3> QED  BY <1>1, <3>1 DEF DeadTrades
  <2> QED  BY <1>3, <2>1, <2>2
<1> QED  BY <1>2, <1>3

(* deliver returns having counted the batch: under one of published, dead  *)
(* lettered and dropped, as failed when a dead letter batch is dropped,    *)
(* and not as failed again when a main batch was given up before.          *)
LEMMA SettleCounts ==
  ASSUME TypeOK, Queueing, CountersReconcile, NEW result \in Settled, Settle(result),
         NEW fields, Count(fields), UNCHANGED <<in, accepted>>,
         \A f \in Settled : f \in fields <=> f = result,
         flusher = "deadletter" => Current = "main" /\ "failed" \notin fields
                                   /\ result # "published",
         flusher # "deadletter" => /\ "failed" \in fields <=> result = "dropped"
                                   /\ result # "published" => Current = "dlq"
  PROVE  CountersReconcile'
<1>0. PICK n \in Nat : n = Len(batch[Current])
  BY BatchTypes
<1>1. /\ batch'[Current] = <<>> /\ Current \in Kinds
      /\ \A k \in Kinds : k # Current => batch'[k] = batch[k]
      /\ Proceed(plan \ {Current}, exiting)
  BY SettleEffect, BatchTypes, ProducerAssumption
<1>2. flusher' # "deadletter"
  BY <1>1 DEF Proceed
<1>3. Failing' = 0
  BY <1>2 DEF Failing
<1>4. /\ Len(accepted) \in Nat /\ Len(in) \in Nat
      /\ Len(batch["main"]) \in Nat /\ Len(batch["dlq"]) \in Nat
      /\ tally.published \in Nat /\ tally.failed \in Nat
      /\ tally.deadLettered \in Nat /\ tally.dropped \in Nat
      /\ Cardinality(DeadTrades) \in Nat
  BY SumTypes
<1>5. \A f \in {"published", "failed", "deadLettered", "dropped"} :
        tally'[f] = IF f \in fields THEN tally[f] + n ELSE tally[f]
  BY <1>0, <1>4, CountEffect
<1>6. /\ Len(accepted) = Len(in) + Len(batch["main"]) + Len(batch["dlq"])
           + tally.published + tally.deadLettered + tally.dropped
      /\ tally.failed = tally.dropped + Cardinality(DeadTrades) + Failing
  BY Sums
<1>7. Len(batch'["main"]) \in Nat /\ Len(batch'["dlq"]) \in Nat
  BY <1>1, <1>4, EmptySeq DEF Kinds
<1>8. PICK a \in Nat, b \in Nat, c \in Nat, d \in Nat :
        /\ a = Len(batch["main"]) /\ b = Len(batch["dlq"])
        /\ c = Len(batch'["main"]) /\ d = Len(batch'["dlq"])
  BY <1>4, <1>7
<1>9. a + b = c + d + n
  <2>0. Len(batch'[Current]) = 0
    BY <1>1, EmptySeq
  <2>1. CASE Current = "main"
    <3>1. c = 0 /\ d = b /\ n = a
      BY <1>0, <1>1, <1>8, <2>0, <2>1 DEF Kinds
    <3> QED  BY <3>1
  <2>2. CASE Current = "dlq"
    <3>1. d = 0 /\ c = a /\ n = b
      BY <1>0, <1>1, <1>8, <2>0, <2>2 DEF Kinds
    <3> QED  BY <3>1
  <2> QED  BY <1>1, <2>1, <2>2 DEF Kinds
<1>10. Len(accepted') = Len(in') + Len(batch'["main"]) + Len(batch'["dlq"])
         + tally'.published + tally'.deadLettered + tally'.dropped
  <2>1. tally'.published + tally'.deadLettered + tally'.dropped
          = tally.published + tally.deadLettered + tally.dropped + n
    <3>1. CASE result = "published"
      <4>1. "published" \in fields /\ "deadLettered" \notin fields /\ "dropped" \notin fields
        BY <3>1 DEF Settled
      <4> QED  BY <1>0, <1>4, <1>5, <4>1
    <3>2. CASE result = "deadLettered"
      <4>1. "published" \notin fields /\ "deadLettered" \in fields /\ "dropped" \notin fields
        BY <3>2 DEF Settled
      <4> QED  BY <1>0, <1>4, <1>5, <4>1
    <3>3. CASE result = "dropped"
      <4>1. "published" \notin fields /\ "deadLettered" \notin fields /\ "dropped" \in fields
        BY <3>3 DEF Settled
      <4> QED  BY <1>0, <1>4, <1>5, <4>1
    <3> QED  BY <3>1, <3>2, <3>3 DEF Settled
  <2>2. \A f \in {"published", "failed", "deadLettered", "dropped"} : tally'[f] \in Nat
    <3>1. \A f \in {"published", "failed", "deadLettered", "dropped"} : tally[f] \in Nat
      BY <1>4
    <3> QED  BY <1>0, <1>5, <3>1
  <2>3. PICK x \in Nat, y \in Nat, z \in Nat, u \in Nat, v \in Nat, w \in Nat :
          /\ x = tally.published /\ y = tally.deadLettered /\ z = tally.dropped
          /\ u = tally'.published /\ v = tally'.deadLettered /\ w = tally'.dropped
    BY <1>4, <2>2
  <2>4. PICK i \in Nat : i = Len(in)
    BY <1>4
  <2>5. u + v + w = x + y + z + n
    BY <2>1, <2>3
  <2>6. Len(accepted) = i + a + b + x + y + z
    BY <1>6, <1>8, <2>3, <2>4
  <2>7. Len(accepted) = i + c + d + u + v + w
    BY <1>9, <2>5, <2>6
  <2> QED  BY <1>8, <2>3, <2>4, <2>7
<1>11. tally'.failed = tally'.dropped + Cardinality(DeadTrades') + Failing'
  <2>1. CASE flusher = "deadletter"
    <3>1. Failing = n /\ "failed" \notin fields /\ Current = "main" /\ result # "published"
      BY <1>0, <2>1 DEF Failing
    <3>2. CASE result = "deadLettered"
      <4>1. Cardinality(DeadTrades') = Cardinality(DeadTrades) + n
        BY <1>0, <3>1, <3>2, SettledTrades
      <4>2. "dropped" \notin fields
        BY <3>2 DEF Settled
      <4> QED  BY <1>3, <1>4, <1>0, <1>5, <1>6, <3>1, <4>1, <4>2
    <3>3. CASE result = "dropped"
      <4>1. Cardinality(DeadTrades') = Cardinality(DeadTrades)
        BY <3>3, SettledTrades
      <4>2. "dropped" \in fields
        BY <3>3 DEF Settled
      <4> QED  BY <1>3, <1>4, <1>0, <1>5, <1>6, <3>1, <4>1, <4>2
    <3> QED  BY <3>1, <3>2, <3>3 DEF Settled
  <2>2. CASE flusher # "deadletter"
    <3>1. Failing = 0
      BY <2>2 DEF Failing
    <3>2. Cardinality(DeadTrades') = Cardinality(DeadTrades)
      BY <2>2, SettledTrades
    <3>3. "failed" \in fields <=> "dropped" \in fields
      BY <2>2 DEF Settled
    <3> QED  BY <1>3, <1>4, <1>0, <1>5, <1>6, <3>1, <3>2, <3>3
  <2> QED  BY <2>1, <2>2
<1> QED  BY <1>10, <1>11, Sums DEF CountersReconcile, DeadTrades, Failing

(* A main batch is given up: its trades are counted as failed, and are the *)
(* ones about to be dead lettered.                                         *)
LEMMA GiveUpCounts ==
  ASSUME TypeOK, CountersReconcile, Current = "main", Count({"failed"}),
         flusher # "deadletter", flusher' = "deadletter",
         UNCHANGED <<in, accepted, batch, outcome>>
  PROVE  CountersReconcile'
<1>1. PICK n \in Nat : n = Len(batch["main"])
  BY SumTypes
<1>2. /\ tally'.published = tally.published /\ tally'.deadLettered = tally.deadLettered
      /\ tally'.dropped = tally.dropped /\ tally'.failed = tally.failed + n
  BY <1>1, CountEffect, SumTypes
<1>3. Failing = 0 /\ Failing' = n /\ DeadTrades' = DeadTrades
  BY <1>1 DEF Failing, DeadTrades
<1>4. tally.failed = tally.dropped + Cardinality(DeadTrades) + Failing
  BY Sums
<1>5. tally'.failed = tally'.dropped + Cardinality(DeadTrades') + Failing'
  BY <1>1, <1>2, <1>3, <1>4, SumTypes
<1> QED  BY <1>2, <1>5 DEF CountersReconcile, DeadTrades, Failing

(* The flusher takes a message: the channel has one less, a batch one more. *)
LEMMA TakeCounts ==
  ASSUME TypeOK, CountersReconcile, TakeFromChannel, UNCHANGED <<accepted, tally, outcome>>,
         flusher # "deadletter", flusher' # "deadletter"
  PROVE  CountersReconcile'
<1> DEFINE h == Head(in)
           kind == KindOf(h)
<1>1. /\ in' \in Seq(Msgs) /\ Len(in') = Len(in) - 1 /\ h \in Msgs /\ kind \in Kinds
      /\ \A k \in Kinds : batch'[k] = IF k = kind THEN Append(batch[k], h) ELSE batch[k]
  BY TakeEffect
<1> HIDE DEF h, kind
<1>2. \A k \in Kinds : batch[k] \in Seq(Msgs)
  BY BatchTypes
<1>3. \A k \in Kinds : Len(batch'[k]) = IF k = kind THEN Len(batch[k]) + 1 ELSE Len(batch[k])
  <2>1. ASSUME NEW k \in Kinds, k = kind
        PROVE  Len(batch'[k]) = Len(batch[k]) + 1
    <3>1. batch[k] \in Seq(Msgs) /\ batch'[k] = Append(batch[k], h)
      BY <1>1, <1>2, <2>1
    <3> QED  BY <1>1, <3>1, AppendProperties
  <2> QED  BY <1>1, <2>1
<1>4. PICK a \in Nat, b \in Nat, i \in Nat, j \in Nat :
        /\ a = Len(batch["main"]) /\ b = Len(batch["dlq"])
        /\ i = Len(in) /\ j = Len(in')
  BY <1>1, SumTypes, LenProperties
<1>5. PICK c \in Nat, d \in Nat : c = Len(batch'["main"]) /\ d = Len(batch'["dlq"])
  BY <1>3, SumTypes DEF Kinds
<1>6. c + d = a + b + 1
  <2>1. CASE kind = "main"
    <3>1. c = a + 1 /\ d = b
      BY <1>3, <1>4, <1>5, <2>1 DEF Kinds
    <3> QED  BY <3>1
  <2>2. CASE kind = "dlq"
    <3>1. c = a /\ d = b + 1
      BY <1>3, <1>4, <1>5, <2>2 DEF Kinds
    <3> QED  BY <3>1
  <2> QED  BY <1>1, <2>1, <2>2 DEF Kinds
<1>7. PICK x \in Nat, y \in Nat, z \in Nat :
        x = tally.published /\ y = tally.deadLettered /\ z = tally.dropped
  BY SumTypes
<1>8. c + d = a + b + 1 /\ j = i - 1
  BY <1>1, <1>4, <1>6
<1>9. Len(accepted) = i + a + b + x + y + z
  BY <1>4, <1>7, Sums
<1>10. Len(accepted) = j + c + d + x + y + z
  BY <1>8, <1>9
<1>11. Len(accepted') = Len(in') + Len(batch'["main"]) + Len(batch'["dlq"])
         + tally'.published + tally'.deadLettered + tally'.dropped
  BY <1>4, <1>5, <1>7, <1>10
<1>12. tally'.failed = tally'.dropped + Cardinality(DeadTrades') + Failing'
  <2>1. DeadTrades' = DeadTrades /\ Failing' = Failing
    BY DEF DeadTrades, Failing
  <2> QED  BY <2>1, Sums
<1> QED  BY <1>11, <1>12 DEF CountersReconcile, DeadTrades, Failing

(* A publisher queues a message: accepted and the channel have one more. *)
LEMMA EnqueueCounts ==
  ASSUME TypeOK, Queueing, CountersReconcile, NEW p \in Publishers, EnqueueSend(p)
  PROVE  CountersReconcile'
<1>1. /\ pub[p] \in Msgs /\ outcome[pub[p]] = "offered"
      /\ in' = Append(in, pub[p]) /\ accepted' = Append(accepted, pub[p])
      /\ outcome' = [outcome EXCEPT ![pub[p]] = "queued"]
      /\ UNCHANGED <<batch, tally, flusher>>
  BY DEF EnqueueSend, TypeOK, Queueing, Offers, flusherVars
<1>2. Len(in') = Len(in) + 1 /\ Len(accepted') = Len(accepted) + 1
  BY <1>1, AppendProperties DEF TypeOK
<1>3. DeadTrades' = DeadTrades /\ Failing' = Failing
  BY <1>1 DEF DeadTrades, Failing, TypeOK, Msgs
<1>4. PICK i \in Nat, t \in Nat, a \in Nat, b \in Nat, x \in Nat, y \in Nat, z \in Nat :
        /\ i = Len(in) /\ t = Len(accepted)
        /\ a = Len(batch["main"]) /\ b = Len(batch["dlq"])
        /\ x = tally.published /\ y = tally.deadLettered /\ z = tally.dropped
  BY SumTypes
<1>5. t = i + a + b + x + y + z
  BY <1>4, Sums
<1>6. t + 1 = (i + 1) + a + b + x + y + z
  BY <1>5
<1>7. Len(accepted') = Len(in') + Len(batch'["main"]) + Len(batch'["dlq"])
         + tally'.published + tally'.deadLettered + tally'.dropped
  BY <1>1, <1>2, <1>4, <1>6
<1>8. tally'.failed = tally'.dropped + Cardinality(DeadTrades') + Failing'
  BY <1>1, <1>3, Sums
<1> QED  BY <1>7, <1>8 DEF CountersReconcile, DeadTrades, Failing

(* Every step keeps the counters reconciled with the backlog. *)
LEMMA CountersStep ==
  ASSUME IInv, Queueing, CountersReconcile, [Next]_vars
  PROVE  CountersReconcile'
<1>0. TypeOK /\ (flusher = "deadletter" => Current = "main")
  BY DEF IInv, FlusherWork, Current
<1>1. ASSUME UNCHANGED <<in, accepted, batch, tally>>, DeadTrades' = DeadTrades,
             flusher' = "deadletter" <=> flusher = "deadletter"
      PROVE  CountersReconcile'
  <2>1. Failing' = Failing
    BY <1>1 DEF Failing
  <2>2. tally'.failed = tally'.dropped + Cardinality(DeadTrades') + Failing'
    BY <1>1, <2>1, Sums
  <2> QED  BY <1>1, <2>2, Sums DEF CountersReconcile, DeadTrades, Failing
<1>2. ASSUME UNCHANGED <<in, accepted, batch, tally, outcome>>,
             flusher' = "deadletter" <=> flusher = "deadletter"
      PROVE  CountersReconcile'
  BY <1>1, <1>2 DEF DeadTrades
<1>3. ASSUME NEW p \in Publishers, Enqueue(p)
      PROVE  CountersReconcile'
  <2>1. CASE EnqueueSend(p)
    BY <1>0, <2>1, EnqueueCounts
  <2>2. CASE ~EnqueueSend(p)
    <3>1. /\ UNCHANGED <<in, accepted, batch, tally, flusher>>
          /\ \A m \in Msgs : outcome'[m] # outcome[m] =>
               outcome[m] \in {"new", "offered"} /\ outcome'[m] \in {"offered", "refused"}
      BY <1>0, <1>3, <2>2 DEF Enqueue, EnqueueStart, EnqueueRefused, EnqueueQuit,
         EnqueueCtxDone, LeaveEnqueue, publisherVars, flusherVars, Queueing, Offers, TypeOK
    <3>2. DeadTrades' = DeadTrades
      BY <3>1 DEF DeadTrades, Msgs
    <3> QED  BY <1>1, <3>1, <3>2
  <2> QED  BY <2>1, <2>2
<1>4. ASSUME NEW c \in Closers, Close(c)
      PROVE  CountersReconcile'
  BY <1>2, <1>4 DEF Close, CloseQuit, CloseLock, CloseFlushed, CloseTimedOut, CloseSink,
     publisherVars, flusherVars
<1>5. CASE Cancel \/ UNCHANGED vars
  BY <1>2, <1>5 DEF Cancel, vars, publisherVars, flusherVars
<1>6. CASE Receive \/ DrainReceive
  BY <1>0, <1>6, TakeCounts DEF Receive, DrainReceive, Proceed
<1>7. CASE ReceiveClosed \/ LingerTick \/ CtxDone \/ DrainEnd \/ SleepDone
  BY <1>2, <1>7 DEF ReceiveClosed, LingerTick, CtxDone, DrainEnd, SleepDone, Proceed,
     publisherVars
<1>8. CASE SendOK
  <2>1. PICK result \in {"published", "deadLettered"} :
          /\ Count({result}) /\ Settle(result) /\ UNCHANGED <<in, accepted>>
          /\ flusher = "send" /\ (result # "published" => Current = "dlq")
    BY <1>8 DEF SendOK, publisherVars
  <2>2. result \in Settled /\ \A f \in Settled : f \in {result} <=> f = result
    BY <2>1 DEF Settled
  <2>3. "failed" \in {result} <=> result = "dropped"
    BY <2>1
  <2> QED  BY <1>0, <2>1, <2>2, <2>3, SettleCounts
<1>9. ASSUME GiveUp, flusher \in {"send", "sleep"}, UNCHANGED <<in, accepted>>
      PROVE  CountersReconcile'
  <2>1. CASE Current = "main" /\ Count({"failed"}) /\ flusher' = "deadletter"
             /\ UNCHANGED <<batch, outcome>>
    BY <1>0, <1>9, <2>1, GiveUpCounts
  <2>2. CASE Current = "dlq" /\ Count({"failed", "dropped"}) /\ Settle("dropped")
    <3>1. "dropped" \in Settled
          /\ \A f \in Settled : f \in {"failed", "dropped"} <=> f = "dropped"
      BY DEF Settled
    <3> QED  BY <1>0, <1>9, <2>2, <3>1, SettleCounts
  <2> QED  BY <1>9, <2>1, <2>2 DEF GiveUp
<1>10. CASE SendError
  <2>1. CASE GiveUp
    BY <1>9, <1>10, <2>1 DEF SendError, publisherVars
  <2>2. CASE flusher' = "sleep" /\ UNCHANGED <<batch, tally, outcome>>
    BY <1>2, <1>10, <2>2 DEF SendError, publisherVars
  <2> QED  BY <1>10, <2>1, <2>2 DEF SendError
<1>11. CASE SleepCancelled
  BY <1>9, <1>11 DEF SleepCancelled, publisherVars
<1>12. CASE DeadLetterOK \/ DeadLetterError
  <2>1. PICK result \in {"deadLettered", "dropped"} :
          /\ Count({result}) /\ Settle(result) /\ UNCHANGED <<in, accepted>>
          /\ flusher = "deadletter"
    BY <1>12 DEF DeadLetterOK, DeadLetterError, publisherVars
  <2>2. result \in Settled /\ \A f \in Settled : f \in {result} <=> f = result
    BY <2>1 DEF Settled
  <2>3. "failed" \notin {result} /\ result # "published"
    BY <2>1
  <2> QED  BY <1>0, <2>1, <2>2, <2>3, SettleCounts
<1> QED  BY <1>3, <1>4, <1>5, <1>6, <1>7, <1>8, <1>10, <1>11, <1>12 DEF Next, Flusher

(* Two sequences without repetitions that share nothing, one after the     *)
(* other, have no repetition.                                              *)
LEMMA InjectiveConcat ==
  ASSUME NEW S, NEW s \in Seq(S), NEW t \in Seq(S), IsInjective(s), IsInjective(t),
         Range(s) \cap Range(t) = {}
  PROVE  IsInjective(s \o t)
<1> DEFINE u == s \o t
<1>1. PICK n \in Nat, k \in Nat :
        /\ n = Len(s) /\ k = Len(t) /\ DOMAIN s = 1..n /\ DOMAIN t = 1..k
  BY LenProperties
<1>2. /\ DOMAIN u = 1..(n + k)
      /\ \A i \in 1..(n + k) : u[i] = IF i <= n THEN s[i] ELSE t[i - n]
  BY <1>1, ConcatProperties, LenProperties
<1> HIDE DEF u
<1>3. ASSUME NEW i \in 1..(n + k), NEW j \in 1..(n + k), u[i] = u[j], i < j
      PROVE  FALSE
  <2>1. CASE j <= n
    <3>1. i \in 1..n /\ j \in 1..n /\ u[i] = s[i] /\ u[j] = s[j] /\ i # j
      BY <1>1, <1>2, <1>3, <2>1
    <3> QED  BY <1>1, <1>3, <3>1 DEF IsInjective
  <2>2. CASE n < i
    <3>1. /\ i - n \in 1..k /\ j - n \in 1..k /\ i - n # j - n
          /\ u[i] = t[i - n] /\ u[j] = t[j - n]
      BY <1>1, <1>2, <1>3, <2>2
    <3> QED  BY <1>1, <1>3, <3>1 DEF IsInjective
  <2>3. CASE i <= n /\ n < j
    <3>1. i \in 1..n /\ j - n \in 1..k /\ u[i] = s[i] /\ u[j] = t[j - n]
      BY <1>1, <1>2, <1>3, <2>3
    <3> QED  BY <1>1, <1>3, <3>1 DEF Range
  <2> QED  BY <1>1, <2>1, <2>2, <2>3
<1>4. \A i, j \in 1..(n + k) : i = j \/ i < j \/ j < i
  BY <1>1
<1> QED  BY <1>2, <1>3, <1>4 DEF IsInjective, u

(* An element of a sequence without repetitions occurs once in it. *)
LEMMA OccursOnce ==
  ASSUME NEW s, IsInjective(s), NEW m
  PROVE  Occurrences(s, m) = IF m \in Range(s) THEN 1 ELSE 0
<1> DEFINE P == {i \in DOMAIN s : s[i] = m}
<1>1. CASE m \in Range(s)
  <2>1. PICK i \in DOMAIN s : s[i] = m
    BY <1>1 DEF Range
  <2>2. P = {i}
    BY <2>1 DEF IsInjective
  <2> QED  BY <1>1, <2>2, FS_Singleton DEF Occurrences
<1>2. CASE m \notin Range(s)
  <2>1. P = {}
    BY <1>2 DEF Range
  <2> QED  BY <1>2, <2>1, FS_EmptySet DEF Occurrences
<1> QED  BY <1>1, <1>2

(* The backlog holds each queued message once, and no other message. *)
LEMMA BacklogConserved ==
  ASSUME IInv, Queueing
  PROVE  Conservation
<1> DEFINE s == in \o batch["main"]
           t == s \o batch["dlq"]
<1>1. /\ in \in Seq(Msgs) /\ accepted \in Seq(Msgs)
      /\ \A k \in Kinds : batch[k] \in Seq(Msgs)
      /\ "main" \in Kinds /\ "dlq" \in Kinds
      /\ Range(batch["main"]) \subseteq Trades /\ Range(batch["dlq"]) \subseteq Rejects
      /\ Trades \cap Rejects = {} /\ Trades \subseteq Msgs /\ Rejects \subseteq Msgs
  BY BatchTypes, RangeOfSeq, ProducerAssumption DEF IInv, TypeOK, ProducerAssumption, Kinds, Msgs
<1>2. /\ IsInjective(accepted) /\ IsInjective(in)
      /\ \A k \in Kinds : IsInjective(batch[k])
  BY <1>1, OrderedInjective DEF Queueing, Entered, Lined
<1>3. \A k \in Kinds : Range(in) \cap Range(batch[k]) = {}
  BY <1>1, <1>2, BeforeStrict DEF Queueing, Lined
<1>4. /\ s \in Seq(Msgs) /\ IsInjective(s) /\ Range(s) = Range(in) \cup Range(batch["main"])
  BY <1>1, <1>2, <1>3, InjectiveConcat, ConcatProperties, RangeConcatenation
<1> HIDE DEF s
<1>5. Range(s) \cap Range(batch["dlq"]) = {}
  BY <1>1, <1>3, <1>4
<1>6. IsInjective(t) /\ Range(t) = Range(s) \cup Range(batch["dlq"])
  BY <1>1, <1>2, <1>4, <1>5, InjectiveConcat, RangeConcatenation
<1>7. \A m \in Msgs : m \in Range(t) <=> outcome[m] = "queued"
  <2>1. \A m \in Range(t) : outcome[m] = "queued"
    BY <1>1, <1>4, <1>6 DEF Queueing, Lined
  <2>2. \A m \in Msgs : outcome[m] = "queued" => m \in Range(t)
    BY <1>4, <1>6 DEF IInv, QueuedInBacklog
  <2> QED  BY <2>1, <2>2
<1> HIDE DEF t
<1>8. \A m \in Msgs : Occurrences(t, m) = IF outcome[m] = "queued" THEN 1 ELSE 0
  BY <1>6, <1>7, OccursOnce
<1> QED  BY <1>8 DEF Conservation, s, t

-----------------------------------------------------------------------------
(* The order of the topic.                                                 *)

(* w holds messages of the main batch, in their order, and over a sink     *)
(* that skips none every earlier message of a key with a later one.        *)
InKeyOrder(w) ==
  /\ Range(w) \subseteq Range(batch["main"])
  /\ Ordered(accepted, w)
  /\ SinkInOrder =>
       \A x \in Range(batch["main"]), y \in Range(w) :
         Before(accepted, x, y) /\ KeyOf[x] = KeyOf[y] => x \in Range(w)

(* A call of the sink that fails part-way writes in key order. *)
LEMMA PartInKeyOrder ==
  ASSUME TypeOK, Queueing, NEW w \in KeyPrefixes(batch["main"])
  PROVE  InKeyOrder(w) /\ w \in Seq(Trades)
<1> DEFINE b == batch["main"]
<1>1. b \in Seq(Trades) /\ Ordered(accepted, b) /\ IsInjective(accepted)
      /\ accepted \in Seq(Msgs)
  BY BatchTypes DEF Queueing, Lined, Entered, Kinds, TypeOK
<1>2. PICK k \in Nat : k = Len(b) /\ DOMAIN b = 1..k
  BY <1>1, LenProperties
<1> HIDE DEF b
<1>3. /\ \E n \in 0..k : \E f \in Increasing(n, k) : w = [i \in 1..n |-> b[f[i]]]
      /\ SinkInOrder => \A j \in 1..k : b[j] \in Range(w) =>
           \A i \in 1..j : KeyOf[b[i]] = KeyOf[b[j]] => b[i] \in Range(w)
  BY <1>2 DEF KeyPrefixes, Subsequences, b
<1>4. PICK n \in 0..k : \E f \in Increasing(n, k) : w = [i \in 1..n |-> b[f[i]]]
  BY <1>3
<1>5. PICK f \in Increasing(n, k) : w = [i \in 1..n |-> b[f[i]]]
  BY <1>4
<1>6. /\ n \in Nat /\ DOMAIN w = 1..n
      /\ \A i \in 1..n : f[i] \in 1..k /\ w[i] = b[f[i]]
      /\ \A i, j \in 1..n : i < j => f[i] < f[j]
  BY <1>5 DEF Increasing
<1>7. Range(w) \subseteq Range(b)
  BY <1>2, <1>6 DEF Range
<1>8. Ordered(accepted, w)
  BY <1>1, <1>2, <1>6 DEF Ordered
<1>9. ASSUME SinkInOrder, NEW x \in Range(b), NEW y \in Range(w),
             Before(accepted, x, y), KeyOf[x] = KeyOf[y]
      PROVE  x \in Range(w)
  <2>1. PICK i \in 1..k, j \in 1..k : x = b[i] /\ y = b[j]
    BY <1>2, <1>7, <1>9 DEF Range
  <2>2. i # j /\ ~(j < i)
    BY <1>1, <1>2, <1>9, <2>1, BeforeStrict DEF Ordered
  <2>3. i \in 1..j
    BY <2>2
  <2> QED  BY <1>3, <1>9, <2>1, <2>3
<1>10. w \in Seq(Trades)
  BY <1>1, KeyPrefixType DEF b
<1> QED  BY <1>7, <1>8, <1>9, <1>10 DEF InKeyOrder, b

(* A call of the sink that succeeds writes in key order. *)
LEMMA WholeInKeyOrder ==
  ASSUME TypeOK, Queueing
  PROVE  InKeyOrder(batch["main"])
BY DEF InKeyOrder, Queueing, Lined, Kinds

(* What is accounted for stays accounted for, and the channel only takes   *)
(* in messages that are new to it.                                         *)
LEMMA SettledStays ==
  ASSUME TypeOK, Queueing, [Next]_vars
  PROVE  /\ \A m \in Msgs : outcome[m] \in Settled => outcome'[m] \in Settled
         /\ \/ accepted' = accepted
            \/ \E m \in Msgs : outcome[m] = "offered" /\ accepted' = Append(accepted, m)
<1>1. ASSUME UNCHANGED <<accepted, outcome>>
      PROVE  /\ \A m \in Msgs : outcome[m] \in Settled => outcome'[m] \in Settled
             /\ accepted' = accepted
  BY <1>1
<1>2. ASSUME NEW p \in Publishers, Enqueue(p)
      PROVE  /\ \A m \in Msgs : outcome[m] \in Settled => outcome'[m] \in Settled
             /\ \/ accepted' = accepted
                \/ \E m \in Msgs : outcome[m] = "offered" /\ accepted' = Append(accepted, m)
  <2>1. CASE EnqueueSend(p)
    <3>1. /\ pub[p] \in Msgs /\ outcome[pub[p]] = "offered"
          /\ accepted' = Append(accepted, pub[p])
          /\ outcome' = [outcome EXCEPT ![pub[p]] = "queued"]
      BY <2>1 DEF EnqueueSend, TypeOK, Queueing, Offers
    <3>2. \A m \in Msgs : outcome[m] \in Settled => outcome'[m] \in Settled
      BY <3>1 DEF TypeOK, Settled
    <3> QED  BY <3>1, <3>2
  <2>2. CASE ~EnqueueSend(p)
    <3>1. /\ accepted' = accepted
          /\ \A m \in Msgs : outcome'[m] # outcome[m] => outcome[m] \in {"new", "offered"}
      BY <1>2, <2>2 DEF Enqueue, EnqueueStart, EnqueueRefused, EnqueueQuit,
         EnqueueCtxDone, LeaveEnqueue, publisherVars, Queueing, Offers, TypeOK
    <3> QED  BY <3>1 DEF Settled
  <2> QED  BY <2>1, <2>2
<1>3. ASSUME NEW c \in Closers, Close(c)
      PROVE  UNCHANGED <<accepted, outcome>>
  BY <1>3 DEF Close, CloseQuit, CloseLock, CloseFlushed, CloseTimedOut, CloseSink, publisherVars
<1>4. CASE Cancel \/ UNCHANGED vars
  BY <1>1, <1>4 DEF Cancel, vars, publisherVars
<1>5. CASE Flusher
  <2>1. accepted' = accepted /\ (outcome' = outcome \/ \E result \in Settled : Settle(result))
    BY <1>5, FlusherMoves
  <2> QED  BY <2>1 DEF Settle
<1> QED  BY <1>1, <1>2, <1>3, <1>4, <1>5 DEF Next

(* The topic only grows by what a call of the sink writes, in key order. *)
LEMMA TopicMoves ==
  ASSUME TypeOK, Queueing, [Next]_vars
  PROVE  \/ topic' = topic
         \/ /\ accepted' = accepted
            /\ \E w \in Seq(Trades) : InKeyOrder(w) /\ topic' = topic \o w
<1>1. ASSUME NEW p \in Publishers, Enqueue(p)
      PROVE  topic' = topic
  BY <1>1 DEF Enqueue, EnqueueStart, EnqueueRefused, EnqueueSend, EnqueueQuit,
     EnqueueCtxDone, LeaveEnqueue, sinkVars
<1>2. ASSUME NEW c \in Closers, Close(c)
      PROVE  topic' = topic
  BY <1>2 DEF Close, CloseQuit, CloseLock, CloseFlushed, CloseTimedOut, CloseSink, sinkVars
<1>3. CASE Cancel \/ UNCHANGED vars
  BY <1>3 DEF Cancel, vars, sinkVars
<1>4. CASE Flusher
  <2>1. CASE SendOK
    <3>1. accepted' = accepted /\ Write(batch[Current])
      BY <2>1 DEF SendOK, publisherVars
    <3>2. topic' = topic \/ topic' = topic \o batch["main"]
      BY <3>1 DEF Write, WriteDLQ, WriteMain, Current
    <3> QED  BY <3>1, <3>2, WholeInKeyOrder, BatchTypes
  <2>2. CASE SendError
    <3>1. PICK w \in KeyPrefixes(batch[Current]) : Write(w)
      BY <2>2 DEF SendError
    <3>2. topic' = topic \/ (w \in KeyPrefixes(batch["main"]) /\ topic' = topic \o w)
      BY <3>1 DEF Write, WriteDLQ, WriteMain, Current
    <3>3. accepted' = accepted
      BY <2>2 DEF SendError, publisherVars
    <3> QED  BY <3>2, <3>3, PartInKeyOrder
  <2>3. CASE ~SendOK /\ ~SendError
    BY <1>4, <2>3 DEF Flusher, Receive, ReceiveClosed, LingerTick, CtxDone, DrainReceive,
       DrainEnd, SleepDone, SleepCancelled, DeadLetterOK, DeadLetterError, WriteDLQ, sinkVars
  <2> QED  BY <2>1, <2>2, <2>3
<1> QED  BY <1>1, <1>2, <1>3, <1>4 DEF Next

(* The topic keeps to messages of the channel. *)
LEMMA TopicFromQueueStep ==
  ASSUME TypeOK, Queueing, TopicFromQueue, [Next]_vars
  PROVE  TopicFromQueue'
<1>1. Range(accepted) \subseteq Range(accepted')
  <2>1. accepted \in Seq(Msgs)
    BY DEF TypeOK
  <2>2. ASSUME NEW m \in Msgs, accepted' = Append(accepted, m)
        PROVE  Range(accepted) \subseteq Range(accepted')
    BY <2>1, <2>2, RangeAppend
  <2> QED  BY <2>2, SettledStays
<1>2. CASE topic' = topic
  BY <1>1, <1>2 DEF TopicFromQueue
<1>3. ASSUME NEW w \in Seq(Trades), InKeyOrder(w), topic' = topic \o w
      PROVE  TopicFromQueue'
  <2>1. Range(topic') = Range(topic) \cup Range(w)
    BY <1>3, RangeConcatenation DEF TypeOK
  <2>2. Range(w) \subseteq Range(accepted)
    <3>1. \A m \in Range(batch["main"]) : m \in Msgs /\ outcome[m] = "queued"
      BY BatchTypes, RangeOfSeq DEF Queueing, Lined, Kinds, Msgs
    <3> QED  BY <1>3, <3>1 DEF InKeyOrder, Queueing, Entered
  <2> QED  BY <1>1, <2>1, <2>2 DEF TopicFromQueue
<1> QED  BY <1>2, <1>3, TopicMoves

(* More at the end of the topic changes nothing about what came first. *)
LEMMA FirstBeforeGrows ==
  ASSUME NEW S, NEW t \in Seq(S), NEW w \in Seq(S), NEW a, NEW b,
         \/ FirstBefore(t, a, b)
         \/ a \in Range(t) /\ b \notin Range(t)
  PROVE  FirstBefore(t \o w, a, b)
<1>1. PICK n \in Nat, k \in Nat : n = Len(t) /\ k = Len(w) /\ DOMAIN t = 1..n
  BY LenProperties
<1>2. /\ DOMAIN (t \o w) = 1..(n + k)
      /\ \A i \in 1..n : (t \o w)[i] = t[i]
  BY <1>1, ConcatProperties, LenProperties
<1>3. PICK i \in 1..n : t[i] = a /\ \A j \in 1..i : t[j] # b
  BY <1>1 DEF FirstBefore, Range
<1>4. i \in 1..(n + k) /\ \A j \in 1..i : j \in 1..n
  BY <1>1, <1>3
<1> QED  BY <1>2, <1>3, <1>4 DEF FirstBefore

(* What is written in order comes first in order. *)
LEMMA FirstBeforeWritten ==
  ASSUME NEW S, NEW t \in Seq(S), NEW w \in Seq(S), NEW q \in Seq(S), IsInjective(q),
         Ordered(q, w), NEW a \in Range(w), NEW b \in Range(w), Before(q, a, b),
         b \notin Range(t)
  PROVE  FirstBefore(t \o w, a, b)
<1>1. PICK n \in Nat, k \in Nat :
        n = Len(t) /\ k = Len(w) /\ DOMAIN t = 1..n /\ DOMAIN w = 1..k
  BY LenProperties
<1>2. /\ DOMAIN (t \o w) = 1..(n + k)
      /\ \A i \in 1..(n + k) : (t \o w)[i] = IF i <= n THEN t[i] ELSE w[i - n]
  BY <1>1, ConcatProperties, LenProperties
<1>3. PICK x \in 1..k, y \in 1..k : w[x] = a /\ w[y] = b
  BY <1>1 DEF Range
<1>4. x < y
  <2>1. x # y /\ ~(y < x)
    BY <1>1, <1>3, BeforeStrict DEF Ordered
  <2> QED  BY <2>1
<1>5. IsInjective(w)
  BY OrderedInjective
<1>6. n + x \in 1..(n + k) /\ (t \o w)[n + x] = a
  BY <1>1, <1>2, <1>3
<1>7. ASSUME NEW j \in 1..(n + x)
      PROVE  (t \o w)[j] # b
  <2>1. j \in 1..(n + k)
    BY <1>1, <1>3
  <2>2. CASE j <= n
    <3>1. j \in 1..n /\ (t \o w)[j] = t[j]
      BY <1>2, <2>1, <2>2
    <3> QED  BY <1>1, <3>1 DEF Range
  <2>3. CASE n < j
    <3>1. j - n \in 1..k /\ j - n # y /\ (t \o w)[j] = w[j - n]
      BY <1>1, <1>2, <1>3, <1>4, <2>1, <2>3
    <3> QED  BY <1>1, <1>3, <1>5, <3>1 DEF IsInjective
  <2> QED  BY <1>1, <2>2, <2>3
<1> QED  BY <1>2, <1>6, <1>7 DEF FirstBefore

(* A write keeps the order of the topic: an earlier message of the key is  *)
(* in the topic already, is part of the same write, or was given up.       *)
LEMMA WriteKeepsOrder ==
  ASSUME IInv, Queueing, TopicOrder, SinkInOrder, NEW w \in Seq(Trades), InKeyOrder(w),
         NEW a \in Trades, NEW b \in Trades,
         Before(accepted, a, b), KeyOf[a] = KeyOf[b], b \in Range(topic \o w)
  PROVE  \/ FirstBefore(topic \o w, a, b)
         \/ a \notin Range(topic \o w) /\ outcome[a] \in Settled
<1>1. /\ topic \in Seq(Trades) /\ topic \in Seq(Msgs) /\ w \in Seq(Msgs)
      /\ accepted \in Seq(Msgs) /\ IsInjective(accepted)
      /\ Range(topic \o w) = Range(topic) \cup Range(w)
  BY RangeConcatenation, SeqMonotonic DEF IInv, TypeOK, Msgs, Queueing, Entered
<1>2. \A m \in Range(w) : outcome[m] = "queued"
  BY DEF InKeyOrder, Queueing, Lined, Kinds
<1>3. CASE b \in Range(topic)
  <2>1. CASE FirstBefore(topic, a, b)
    BY <1>1, <2>1, FirstBeforeGrows
  <2>2. CASE a \notin Range(topic) /\ outcome[a] \in Settled
    BY <1>1, <1>2, <2>2 DEF Settled
  <2> QED  BY <1>3, <2>1, <2>2 DEF TopicOrder
<1>4. CASE b \notin Range(topic) /\ a \in Range(topic)
  BY <1>1, <1>4, FirstBeforeGrows
<1>5. CASE b \notin Range(topic) /\ a \notin Range(topic)
  <2>1. b \in Range(w) /\ b \in Range(batch["main"])
    BY <1>1, <1>5 DEF InKeyOrder
  <2>2. outcome[a] \in {"queued"} \cup Settled /\ a \in Msgs
    BY BeforeRange DEF Queueing, Entered, Msgs
  <2>3. CASE outcome[a] = "queued"
    <3>1. a \notin Range(in)
      BY <1>1, <2>1, BeforeStrict DEF Queueing, Lined, Kinds
    <3>2. a \notin Range(batch["dlq"])
      BY BatchTypes, RangeOfSeq, ProducerAssumption DEF ProducerAssumption, IInv
    <3>3. a \in Range(batch["main"])
      BY <2>2, <2>3, <3>1, <3>2 DEF IInv, QueuedInBacklog
    <3>4. a \in Range(w)
      BY <2>1, <3>3 DEF InKeyOrder
    <3> QED  BY <1>1, <1>5, <2>1, <3>4, FirstBeforeWritten DEF InKeyOrder
  <2>4. CASE outcome[a] \in Settled
    BY <1>1, <1>2, <1>5, <2>4 DEF Settled
  <2> QED  BY <2>2, <2>3, <2>4
<1> QED  BY <1>3, <1>4, <1>5

(* Every step keeps the order of the topic. *)
LEMMA TopicOrderStep ==
  ASSUME IInv, Queueing, TopicFromQueue, TopicOrder, [Next]_vars
  PROVE  TopicOrder'
<1>0. TypeOK /\ accepted \in Seq(Msgs) /\ Trades \subseteq Msgs
  BY DEF IInv, TypeOK, Msgs
<1>1. \A m \in Msgs : outcome[m] \in Settled => outcome'[m] \in Settled
  BY <1>0, SettledStays
<1>2. CASE topic' = topic
  <2> SUFFICES ASSUME SinkInOrder, NEW a \in Trades, NEW b \in Trades,
                      Before(accepted', a, b), KeyOf[a] = KeyOf[b], b \in Range(topic)
               PROVE  \/ FirstBefore(topic, a, b)
                      \/ a \notin Range(topic) /\ outcome'[a] \in Settled
    BY <1>2 DEF TopicOrder
  <2>1. Before(accepted, a, b)
    <3>1. CASE accepted' = accepted
      BY <3>1
    <3>2. ASSUME NEW m \in Msgs, outcome[m] = "offered", accepted' = Append(accepted, m)
          PROVE  Before(accepted, a, b)
      <4>1. Before(accepted, a, b) \/ b = m
        BY <1>0, <3>2, BeforeAppend
      <4>2. m \notin Range(accepted)
        BY <3>2 DEF Queueing, Entered, Settled
      <4> QED  BY <4>1, <4>2 DEF TopicFromQueue
    <3> QED  BY <1>0, <3>1, <3>2, SettledStays
  <2> QED  BY <1>0, <1>1, <2>1 DEF TopicOrder
<1>3. ASSUME NEW w \in Seq(Trades), InKeyOrder(w), topic' = topic \o w, accepted' = accepted
      PROVE  TopicOrder'
  <2> SUFFICES ASSUME SinkInOrder, NEW a \in Trades, NEW b \in Trades,
                      Before(accepted, a, b), KeyOf[a] = KeyOf[b], b \in Range(topic \o w)
               PROVE  \/ FirstBefore(topic \o w, a, b)
                      \/ a \notin Range(topic \o w) /\ outcome'[a] \in Settled
    BY <1>3 DEF TopicOrder
  <2> QED  BY <1>0, <1>1, <1>3, WriteKeepsOrder
<1> QED  BY <1>0, <1>2, <1>3, TopicMoves

(* Nothing has happened yet when the producer starts. *)
LEMMA InitQInv == Init => QInv
<1> SUFFICES ASSUME Init PROVE QInv
  OBVIOUS
<1>1. IInv /\ Queueing
  BY InitInv, QueueingInit
<1>2. TopicFromQueue /\ TopicOrder
  BY DEF Init, TopicFromQueue, TopicOrder, Range, Before
<1>3. CountersReconcile
  <2>1. Len(accepted) = 0 /\ Len(in) = 0 /\ Len(batch["main"]) = 0 /\ Len(batch["dlq"]) = 0
    BY EmptySeq DEF Init
  <2>2. /\ tally.published = 0 /\ tally.failed = 0 /\ tally.deadLettered = 0
        /\ tally.dropped = 0
    BY DEF Init
  <2>3. Failing = 0 /\ Cardinality(DeadTrades) = 0
    <3>1. DeadTrades = {}
      BY DEF Init, DeadTrades, Msgs
    <3> QED  BY <3>1, FS_EmptySet DEF Init, Failing
  <2> QED  BY <2>1, <2>2, <2>3, Sums
<1> QED  BY <1>1, <1>2, <1>3 DEF QInv

(* Every step keeps the backlog, the counters and the topic in line. *)
LEMMA QInvStep == QInv /\ [Next]_vars => QInv'
<1> SUFFICES ASSUME QInv, [Next]_vars PROVE QInv'
  OBVIOUS
<1>1. IInv /\ TypeOK /\ Queueing /\ CountersReconcile /\ TopicFromQueue /\ TopicOrder
  BY DEF QInv, IInv
<1>2. IInv'
  BY <1>1, NextInv
<1>3. Queueing' /\ CountersReconcile'
  BY <1>1, QueueingStep, CountersStep
<1>4. TopicFromQueue' /\ TopicOrder'
  BY <1>1, TopicFromQueueStep, TopicOrderStep
<1> QED  BY <1>2, <1>3, <1>4 DEF QInv

(* The extended invariant holds in every reachable state. *)
THEOREM QueueOrder == Spec => []QInv
BY InitQInv, QInvStep, PTL DEF Spec

(* Nothing the channel took in is lost or kept twice, and the counters     *)
(* reported at shutdown add up, whatever the sink accepts, rejects or      *)
(* accepts in part and whenever the context is cancelled.                  *)
THEOREM EverythingAccountedFor == Spec => []Accounting
<1>1. QInv => Accounting
  BY BacklogConserved DEF QInv, Accounting
<1> QED  BY <1>1, QueueOrder, PTL

(* A non-empty set of natural numbers has a least element. *)
LEMMA LeastNumber ==
  ASSUME NEW T, T \subseteq Nat, T # {}
  PROVE  \E x \in T : \A y \in T : x <= y
<1> DEFINE R == {ss \in Nat \X Nat : ss[1] < ss[2]}
<1>1. IsWellFoundedOn(R, Nat)
  BY NatLessThanWellFounded DEF OpToRel
<1>2. \E x \in T : \A y \in T : ~(<<y, x>> \in R)
  <2> HIDE DEF R
  <2> QED  BY <1>1, WFMin
<1>3. PICK x \in T : \A y \in T : ~(<<y, x>> \in R)
  BY <1>2
<1>4. \A y \in T : ~(y < x)
  BY <1>3
<1> QED  BY <1>3, <1>4

(* FirstCopy is what it says of every message of the topic. *)
LEMMA FirstCopyExists ==
  ASSUME NEW S, topic \in Seq(S), NEW m \in Range(topic)
  PROVE  /\ FirstCopy(m) \in DOMAIN topic /\ topic[FirstCopy(m)] = m
         /\ \A j \in 1..(FirstCopy(m) - 1) : topic[j] # m
<1> DEFINE T == {i \in DOMAIN topic : topic[i] = m}
<1>1. PICK n \in Nat : DOMAIN topic = 1..n
  BY LenProperties
<1>2. T \subseteq Nat /\ T # {}
  BY <1>1 DEF Range
<1>3. PICK x \in T : \A y \in T : x <= y
  BY <1>2, LeastNumber
<1>4. /\ x \in DOMAIN topic /\ topic[x] = m
      /\ \A j \in 1..(x - 1) : topic[j] # m
  BY <1>1, <1>3
<1> QED  BY <1>4 DEF FirstCopy

(* Over a sink that skips no message the trades of a key come up in the    *)
(* topic in the order in which they were queued, for all interleavings of  *)
(* publishers, retries, partial writes, give-ups and shutdown.             *)
THEOREM QueueOrderSurvives == Spec => []FirstCopiesInQueueOrder
<1>1. QInv => FirstCopiesInQueueOrder
  <2> SUFFICES ASSUME QInv, SinkInOrder, NEW i \in DOMAIN accepted, NEW j \in DOMAIN accepted,
                      i < j, KeyOf[accepted[i]] = KeyOf[accepted[j]],
                      accepted[i] \in Range(topic), accepted[j] \in Range(topic)
               PROVE  FirstCopy(accepted[i]) < FirstCopy(accepted[j])
    BY DEF FirstCopiesInQueueOrder
  <2> DEFINE a == accepted[i]
             b == accepted[j]
  <2>1. topic \in Seq(Trades) /\ Range(topic) \subseteq Trades
    BY RangeOfSeq DEF QInv, IInv, TypeOK
  <2>2. a \in Trades /\ b \in Trades /\ Before(accepted, a, b)
    BY <2>1 DEF Before
  <2>3. FirstBefore(topic, a, b)
    BY <2>2 DEF QInv, TopicOrder
  <2> HIDE DEF a, b
  <2>4. PICK n \in Nat : DOMAIN topic = 1..n
    BY <2>1, LenProperties
  <2>5. PICK k \in 1..n : topic[k] = a /\ \A l \in 1..k : topic[l] # b
    BY <2>3, <2>4 DEF FirstBefore
  <2>6. /\ FirstCopy(a) \in 1..n /\ \A l \in 1..(FirstCopy(a) - 1) : topic[l] # a
        /\ FirstCopy(b) \in 1..n /\ topic[FirstCopy(b)] = b
    BY <2>1, <2>4, FirstCopyExists DEF a, b
  <2>7. FirstCopy(a) <= k
    BY <2>4, <2>5, <2>6
  <2>8. k < FirstCopy(b)
    BY <2>4, <2>5, <2>6
  <2>9. FirstCopy(a) < FirstCopy(b)
    BY <2>4, <2>6, <2>7, <2>8
  <2> QED  BY <2>9 DEF a, b
<1> QED  BY <1>1, QueueOrder, PTL

-----------------------------------------------------------------------------
(* The producer implements its contract.                                   *)

(* The outcome of a message as the contract sees it. *)
Visible == [m \in Msgs |-> IF outcome[m] = "offered" THEN "new" ELSE outcome[m]]

(* The messages the contract takes for pending are the queued ones. *)
LEMMA PendingIsQueued ==
  /\ Contract!Msgs = Msgs
  /\ Contract!Pending = {m \in Msgs : outcome[m] = "queued"}
BY DEF Contract!Pending, Contract!Msgs, Msgs

(* The contract starts when the producer does. *)
LEMMA InitContract == Init => Contract!Init
BY DEF Init, Contract!Init, Contract!Msgs, Msgs

(* A step that changes nothing the contract sees. *)
LEMMA Stutters ==
  ASSUME UNCHANGED <<closed, accepted, topic, dlqTopic>>, Visible' = Visible
  PROVE  UNCHANGED Contract!vars
BY DEF Contract!vars, Visible

(* A publisher's step is an acceptance, a refusal or nothing. *)
LEMMA EnqueueContract ==
  ASSUME IInv, Queueing, NEW p \in Publishers, Enqueue(p)
  PROVE  [Contract!Next]_(Contract!vars)
<1>0. outcome \in [Msgs -> {"new", "offered", "queued", "refused"} \cup Settled]
  BY DEF IInv, TypeOK
<1>1. ASSUME NEW m \in Msgs, outcome[m] \in {"new", "offered"},
             outcome' = [outcome EXCEPT ![m] = "refused"],
             UNCHANGED <<closed, accepted, topic, dlqTopic>>
      PROVE  Contract!Refuse(m)
  <2>1. Visible[m] = "new" /\ Visible' = [Visible EXCEPT ![m] = "refused"]
    BY <1>0, <1>1 DEF Visible
  <2> QED  BY <1>1, <2>1 DEF Contract!Refuse, Visible
<1>2. ASSUME NEW m \in Msgs, EnqueueRefused(p, m)
      PROVE  Contract!Refuse(m)
  BY <1>1, <1>2 DEF EnqueueRefused, publisherVars, closeVars, sinkVars
<1>3. ASSUME NEW m \in Msgs, EnqueueStart(p, m)
      PROVE  UNCHANGED Contract!vars
  <2>1. Visible' = Visible
    BY <1>0, <1>3 DEF EnqueueStart, Visible
  <2> QED  BY <1>3, <2>1, Stutters DEF EnqueueStart, closeVars, sinkVars
<1>4. ASSUME pub[p] # Idle
      PROVE  pub[p] \in Msgs /\ outcome[pub[p]] = "offered" /\ ~closed
  BY <1>4 DEF IInv, TypeOK, NoSendOnClosedChannel, Queueing, Offers
<1>5. CASE LeaveEnqueue(p)
  <2>0. PICK m \in Msgs : m = pub[p]
    BY <1>4, <1>5 DEF LeaveEnqueue
  <2>1. /\ outcome[m] = "offered"
        /\ outcome' = [outcome EXCEPT ![m] = "refused"]
        /\ UNCHANGED <<closed, accepted, topic, dlqTopic>>
    BY <1>4, <1>5, <2>0 DEF LeaveEnqueue, closeVars, sinkVars
  <2>2. Contract!Refuse(m) /\ m \in Contract!Msgs
    BY <1>1, <2>1, PendingIsQueued
  <2>3. Contract!Next
    BY <2>2 DEF Contract!Next
  <2> QED  BY <2>3
<1>6. CASE EnqueueSend(p)
  <2>0. PICK m \in Msgs : m = pub[p]
    BY <1>4, <1>6 DEF EnqueueSend
  <2>1. /\ outcome[m] = "offered" /\ ~closed
        /\ accepted' = Append(accepted, m)
        /\ outcome' = [outcome EXCEPT ![m] = "queued"]
        /\ UNCHANGED <<closed, topic, dlqTopic>>
    BY <1>4, <1>6, <2>0 DEF EnqueueSend, closeVars, sinkVars
  <2>2. Visible[m] = "new" /\ Visible' = [Visible EXCEPT ![m] = "queued"]
    BY <1>0, <2>1 DEF Visible
  <2>3. Contract!Accept(m) /\ m \in Contract!Msgs
    BY <2>1, <2>2, PendingIsQueued DEF Contract!Accept, Visible
  <2>4. Contract!Next
    BY <2>3 DEF Contract!Next
  <2> QED  BY <2>4
<1> QED
  BY <1>2, <1>3, <1>5, <1>6, PendingIsQueued
     DEF Enqueue, EnqueueQuit, EnqueueCtxDone, Contract!Next

(* Close shuts the contract once, when it closes the channel. *)
LEMMA CloseContract ==
  ASSUME NEW c \in Closers, Close(c)
  PROVE  [Contract!Next]_(Contract!vars)
<1>1. outcome' = outcome /\ UNCHANGED <<accepted, topic, dlqTopic>>
  BY DEF Close, CloseQuit, CloseLock, CloseFlushed, CloseTimedOut, CloseSink,
     publisherVars, sinkVars
<1>2. Visible' = Visible
  BY <1>1 DEF Visible
<1>3. CASE closed' = closed
  BY <1>1, <1>2, <1>3, Stutters
<1>4. CASE CloseLock(c)
  <2>1. Contract!Shut
    BY <1>1, <1>2, <1>4 DEF Contract!Shut, CloseLock, Visible
  <2> QED  BY <2>1 DEF Contract!Next
<1> QED
  BY <1>3, <1>4 DEF Close, CloseQuit, CloseFlushed, CloseTimedOut, CloseSink

(* What a call of the sink writes is pending. *)
LEMMA WriteReceived ==
  ASSUME TypeOK, NEW w \in Seq(Trades), \A m \in Range(w) : outcome[m] = "queued",
         WriteMain(w)
  PROVE  Contract!Received
<1>1. PICK n \in Nat, k \in Nat : n = Len(topic) /\ k = Len(w) /\ DOMAIN w = 1..k
  BY LenProperties DEF TypeOK
<1>2. /\ topic \in Seq(Trades) /\ topic' = topic \o w /\ dlqTopic' = dlqTopic
      /\ topic' \in Seq(Trades) /\ Len(topic') = n + k
      /\ \A i \in 1..(n + k) : topic'[i] = IF i <= n THEN topic[i] ELSE w[i - n]
  BY <1>1, ConcatProperties DEF TypeOK, WriteMain
<1>3. SubSeq(topic', 1, Len(topic)) = topic
  <2>1. n \in 0..Len(topic') /\ 1..n \subseteq 1..(n + k)
    BY <1>1, <1>2
  <2>2. /\ SubSeq(topic', 1, n) \in Seq(Trades) /\ Len(SubSeq(topic', 1, n)) = n
        /\ \A i \in 1..n : SubSeq(topic', 1, n)[i] = topic[i]
    BY <1>1, <1>2, <2>1, SubSeqProperties
  <2> QED  BY <1>1, <1>2, <2>2, SeqEqual
<1>4. \A i \in (n + 1)..(n + k) : topic'[i] \in Contract!Pending \cap Trades
  <2> SUFFICES ASSUME NEW i \in (n + 1)..(n + k)
               PROVE  topic'[i] \in Contract!Pending \cap Trades
    OBVIOUS
  <2>1. i - n \in 1..k /\ topic'[i] = w[i - n]
    BY <1>1, <1>2
  <2>2. w[i - n] \in Range(w) /\ w[i - n] \in Trades
    BY <1>1, <2>1, ElementOfSeq DEF Range
  <2> QED  BY <2>1, <2>2, PendingIsQueued DEF Msgs
<1>5. n + k >= n
  BY <1>1
<1> QED  BY <1>1, <1>2, <1>3, <1>4, <1>5 DEF Contract!Received

(* The dead letter destination only receives pending messages. *)
LEMMA DeadLetterReceived ==
  ASSUME TypeOK, NEW w, \A m \in Range(w) : m \in Msgs /\ outcome[m] = "queued",
         WriteDLQ(w)
  PROVE  Contract!Received
<1>1. topic' = topic /\ dlqTopic' = dlqTopic \cup Range(w) /\ topic \in Seq(Trades)
  BY DEF TypeOK, WriteDLQ
<1>2. PICK n \in Nat : n = Len(topic)
  BY <1>1, LenProperties
<1>3. SubSeq(topic', 1, Len(topic)) = topic
  BY <1>1, SubSeqFull
<1>4. Len(topic') >= Len(topic) /\ (Len(topic) + 1)..Len(topic') = {}
  BY <1>1, <1>2
<1>5. dlqTopic \subseteq dlqTopic' /\ dlqTopic' \ dlqTopic \subseteq Contract!Pending
  BY <1>1, PendingIsQueued
<1> QED  BY <1>3, <1>4, <1>5 DEF Contract!Received

(* Whatever a call of the sink accepts of the batch it is given is pending. *)
LEMMA CallReceived ==
  ASSUME TypeOK, Queueing,
         \E w \in KeyPrefixes(batch[Current]) \cup {batch[Current]} :
           \/ Write(w)
           \/ WriteDLQ(w)
  PROVE  Contract!Received
<1>1. PICK w \in KeyPrefixes(batch[Current]) \cup {batch[Current]} : Write(w) \/ WriteDLQ(w)
  OBVIOUS
<1>2. /\ Current \in Kinds /\ batch[Current] \in Seq(Msgs)
      /\ Range(batch[Current]) \subseteq Msgs
      /\ \A m \in Range(batch[Current]) : outcome[m] = "queued"
      /\ Current = "main" => batch[Current] \in Seq(Trades)
  BY BatchTypes DEF Queueing, Lined, Contents
<1>3. Range(w) \subseteq Range(batch[Current])
  BY <1>1, <1>2, KeyPrefixRange
<1>4. Current = "main" => w \in Seq(Trades)
  BY <1>1, <1>2, KeyPrefixType
<1>5. CASE WriteDLQ(w)
  BY <1>2, <1>3, <1>5, DeadLetterReceived
<1>6. CASE ~WriteDLQ(w)
  <2>1. WriteMain(w) /\ Current = "main"
    BY <1>1, <1>2, <1>6 DEF Write, Kinds
  <2> QED  BY <1>2, <1>3, <1>4, <2>1, WriteReceived
<1> QED  BY <1>5, <1>6

(* A call of the sink after which nothing is accounted for. *)
LEMMA RetryContract ==
  ASSUME Contract!Received, UNCHANGED <<closed, accepted, outcome>>
  PROVE  Contract!Work
<1>1. Contract!AccountFor({}, "dropped")
  BY DEF Contract!AccountFor, Contract!Msgs, Msgs
<1>2. Contract!Oldest({}, Contract!Pending \cap Trades)
  BY DEF Contract!Oldest
<1>3. {} \in SUBSET (Contract!Pending \cap Trades)
  OBVIOUS
<1> QED  BY <1>1, <1>2, <1>3 DEF Contract!Work

(* A batch is an initial part of what is pending of its kind. *)
LEMMA BatchIsOldest ==
  ASSUME IInv, Queueing
  PROVE  LET kind == IF Current = "main" THEN Trades ELSE Rejects
         IN  /\ Contents \subseteq Contract!Pending \cap kind
             /\ Contract!Oldest(Contents, Contract!Pending \cap kind)
<1> DEFINE kind == IF Current = "main" THEN Trades ELSE Rejects
           other == IF Current = "main" THEN "dlq" ELSE "main"
<1>1. /\ Current \in Kinds /\ other \in Kinds /\ accepted \in Seq(Msgs)
      /\ IsInjective(accepted) /\ Contents = Range(batch[Current]) /\ kind \subseteq Msgs
      /\ Range(batch["main"]) \cup Range(batch["dlq"]) = Contents \cup Range(batch[other])
  BY BatchTypes DEF Kinds, IInv, TypeOK, Queueing, Entered, Contents, Msgs
<1>2. Contents \subseteq kind /\ Range(batch[other]) \cap kind = {}
  <2>1. Range(batch["main"]) \subseteq Trades /\ Range(batch["dlq"]) \subseteq Rejects
    BY BatchTypes, RangeOfSeq DEF IInv
  <2>2. Trades \cap Rejects = {}
    BY ProducerAssumption DEF ProducerAssumption
  <2>3. CASE Current = "main"
    BY <1>1, <2>1, <2>2, <2>3
  <2>4. CASE Current = "dlq"
    BY <1>1, <2>1, <2>2, <2>4
  <2> QED  BY <1>1, <2>3, <2>4 DEF Kinds
<1> HIDE DEF kind, other
<1>3. Contents \subseteq Contract!Pending \cap kind
  BY <1>1, <1>2, PendingIsQueued DEF Queueing, Lined
<1>4. ASSUME NEW i \in DOMAIN accepted, NEW j \in DOMAIN accepted, i < j,
             accepted[i] \in Contract!Pending \cap kind, accepted[j] \in Contents
      PROVE  accepted[i] \in Contents
  <2> DEFINE x == accepted[i]
  <2>1. x \in Msgs /\ outcome[x] = "queued" /\ x \in kind
    BY <1>4, PendingIsQueued
  <2>2. x \notin Range(in)
    <3>1. Before(accepted, x, accepted[j])
      BY <1>4 DEF Before
    <3>2. ~Before(accepted, accepted[j], x)
      BY <1>1, <3>1, BeforeStrict
    <3> QED  BY <1>1, <1>4, <3>2 DEF Queueing, Lined
  <2>3. x \in Range(in) \cup Contents \cup Range(batch[other])
    BY <1>1, <2>1 DEF IInv, QueuedInBacklog
  <2> QED  BY <1>2, <2>1, <2>2, <2>3
<1>5. Contract!Oldest(Contents, Contract!Pending \cap kind)
  BY <1>4 DEF Contract!Oldest
<1> QED  BY <1>3, <1>5 DEF kind

(* deliver returns: the batch, the oldest of what is pending of its kind,  *)
(* is accounted for, as delivered only if it was.                          *)
LEMMA SettleContract ==
  ASSUME IInv, Queueing, NEW result \in Settled, Settle(result), Contract!Received,
         result = "published" => Current = "main" /\ Contents \subseteq Range(topic'),
         result = "deadLettered" => Contents \subseteq dlqTopic',
         UNCHANGED <<closed, accepted>>
  PROVE  Contract!Work
<1> DEFINE kind == IF Current = "main" THEN Trades ELSE Rejects
<1>1. kind \in {Trades, Rejects} /\ (Current = "main" => kind = Trades)
  OBVIOUS
<1>2. /\ Contents \in SUBSET (Contract!Pending \cap kind)
      /\ Contract!Oldest(Contents, Contract!Pending \cap kind)
  BY BatchIsOldest
<1> HIDE DEF kind
<1>3. PICK S \in SUBSET (Contract!Pending \cap kind) : S = Contents
  BY <1>2
<1>4. /\ \A m \in Msgs : outcome'[m] = IF m \in S THEN result ELSE outcome[m]
      /\ \A m \in S : outcome[m] = "queued"
  BY <1>3, SettleEffect, ProducerAssumption, PendingIsQueued DEF IInv
<1>5. Visible' = [m \in Msgs |-> IF m \in S THEN result ELSE Visible[m]]
  BY <1>4 DEF Visible, Settled
<1>6. result = "published" => S \subseteq Trades /\ \A m \in S : \E i \in DOMAIN topic' : topic'[i] = m
  BY <1>1, <1>3 DEF Range
<1>7. Contract!AccountFor(S, result)
  BY <1>3, <1>5, <1>6 DEF Contract!AccountFor, Contract!Msgs, Msgs, Visible
<1>8. Contract!Oldest(S, Contract!Pending \cap kind)
  BY <1>2, <1>3
<1>9. /\ result \in {"published", "deadLettered", "dropped"}
      /\ UNCHANGED <<~closed, accepted>>
  BY DEF Settled
<1> QED  BY <1>1, <1>3, <1>7, <1>8, <1>9 DEF Contract!Work

(* A step of the flusher is some work of the contract, or nothing. *)
LEMMA FlusherContract ==
  ASSUME IInv, Queueing, Flusher
  PROVE  [Contract!Next]_(Contract!vars)
<1>0. TypeOK /\ UNCHANGED <<closed, accepted>> /\ Current \in Kinds
  BY BatchTypes DEF IInv, Flusher, Receive, ReceiveClosed, LingerTick, CtxDone, DrainReceive,
     DrainEnd, SendOK, SendError, SleepDone, SleepCancelled, DeadLetterOK, DeadLetterError,
     publisherVars, closeVars
<1>1. Contract!Work => [Contract!Next]_(Contract!vars)
  BY DEF Contract!Next
<1>2. CASE UNCHANGED <<outcome, topic, dlqTopic>>
  <2>1. Visible' = Visible
    BY <1>2 DEF Visible
  <2> QED  BY <1>0, <1>2, <2>1, Stutters
<1>3. CASE Receive \/ ReceiveClosed \/ LingerTick \/ CtxDone \/ DrainReceive \/ DrainEnd
           \/ SleepDone
  BY <1>2, <1>3 DEF Receive, ReceiveClosed, LingerTick, CtxDone, DrainReceive, DrainEnd,
     SleepDone, sinkVars
<1>4. CASE SendOK
  <2>1. Write(batch[Current])
    BY <1>4 DEF SendOK
  <2>2. Contract!Received
    BY <1>0, <2>1, CallReceived
  <2>3. PICK result \in {"published", "deadLettered"} :
          Settle(result) /\ result = IF Current = "dlq" THEN "deadLettered" ELSE "published"
    BY <1>4 DEF SendOK
  <2>4. /\ Current = "main" => Contents \subseteq Range(topic')
        /\ Current = "dlq" => Contents \subseteq dlqTopic'
    BY <1>0, <2>1, BatchTypes, WriteEffect DEF Contents
  <2>5. /\ result \in Settled
        /\ result = "published" => Current = "main"
        /\ result = "deadLettered" => Current = "dlq"
    BY <1>0, <2>3 DEF Settled, Kinds
  <2>6. Contract!Work
    BY <1>0, <2>2, <2>3, <2>4, <2>5, SettleContract
  <2> QED  BY <1>1, <2>6
<1>5. ASSUME GiveUp, Contract!Received
      PROVE  Contract!Work
  <2>1. CASE Settle("dropped")
    <3>1. "dropped" \in Settled
      BY DEF Settled
    <3> QED  BY <1>0, <1>5, <2>1, <3>1, SettleContract
  <2>2. CASE outcome' = outcome
    BY <1>0, <1>5, <2>2, RetryContract
  <2> QED  BY <1>5, <2>1, <2>2 DEF GiveUp
<1>6. CASE SendError
  <2>1. Contract!Received
    BY <1>0, <1>6, CallReceived DEF SendError
  <2>2. GiveUp \/ outcome' = outcome
    BY <1>6 DEF SendError
  <2>3. Contract!Work
    BY <1>0, <1>5, <2>1, <2>2, RetryContract
  <2> QED  BY <1>1, <2>3
<1>7. CASE SleepCancelled
  <2>1. UNCHANGED <<topic, dlqTopic>>
    BY <1>7 DEF SleepCancelled, sinkVars
  <2>2. Contract!Received
    <3>1. PICK n \in Nat : n = Len(topic)
      BY <1>0, LenProperties DEF TypeOK
    <3>2. SubSeq(topic', 1, Len(topic)) = topic
      BY <1>0, <2>1, SubSeqFull DEF TypeOK
    <3>3. Len(topic') >= Len(topic) /\ (Len(topic) + 1)..Len(topic') = {}
      BY <2>1, <3>1
    <3> QED  BY <2>1, <3>2, <3>3 DEF Contract!Received
  <2>3. Contract!Work
    BY <1>5, <1>7, <2>2 DEF SleepCancelled
  <2> QED  BY <1>1, <2>3
<1>8. CASE DeadLetterOK \/ DeadLetterError
  <2>1. PICK w \in KeyPrefixes(batch[Current]) \cup {batch[Current]} :
          WriteDLQ(w) /\ (DeadLetterOK => w = batch[Current])
    BY <1>8 DEF DeadLetterOK, DeadLetterError
  <2>2. Contract!Received
    BY <1>0, <2>1, CallReceived
  <2>3. PICK result \in {"deadLettered", "dropped"} :
          /\ Settle(result)
          /\ result = "deadLettered" => Contents \subseteq dlqTopic'
    BY <1>8, <2>1 DEF DeadLetterOK, DeadLetterError, WriteDLQ, Contents
  <2>4. result \in Settled /\ result # "published"
    BY <2>3 DEF Settled
  <2>5. Contract!Work
    BY <1>0, <2>2, <2>3, <2>4, SettleContract
  <2> QED  BY <1>1, <2>5
<1> QED  BY <1>3, <1>4, <1>6, <1>7, <1>8 DEF Flusher

(* Every step of the producer is a step of its contract, or leaves what    *)
(* the contract sees as it is.                                             *)
LEMMA NextContract ==
  ASSUME IInv, Queueing, [Next]_vars
  PROVE  [Contract!Next]_(Contract!vars)
<1>1. CASE Cancel \/ UNCHANGED vars
  <2>1. UNCHANGED <<closed, accepted, topic, dlqTopic>> /\ outcome' = outcome
    BY <1>1 DEF Cancel, vars, publisherVars, closeVars, sinkVars
  <2>2. Visible' = Visible
    BY <2>1 DEF Visible
  <2> QED  BY <2>1, <2>2, Stutters
<1> QED  BY <1>1, EnqueueContract, CloseContract, FlusherContract DEF Next

(* The producer implements its contract: the batches, the retries and the  *)
(* shutdown sequence stay inside what callers and consumers were promised. *)
THEOREM ContractImplemented == Spec => ContractHolds
<1>1. QInv /\ [Next]_vars => [Contract!Next]_(Contract!vars)
  BY NextContract DEF QInv
<1> QED  BY <1>1, InitContract, QueueOrder, PTL DEF Spec, ContractHolds, Contract!Spec
=============================================================================
