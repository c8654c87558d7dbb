----------------------------- MODULE RabbitSink -----------------------------
(***************************************************************************)
(* The RabbitMQ sink of the ingestor (internal/producer/rabbitmq.go): Send *)
(* and SendDeadLetter publish a batch on one AMQP channel and wait for as  *)
(* many publisher confirms (enabled, the default); a channel found broken  *)
(* is replaced by a new connection.  Close may come at any time, from      *)
(* AsyncProducer.Close.                                                    *)
(*                                                                         *)
(* The caller is the flusher of AsyncProducer: after an error it may send  *)
(* the same batch again, dead letter it, or give up on it.  The broker and *)
(* the AMQP library are external: the broker takes the messages of a       *)
(* channel in order and confirms each (ack or nack), it may close the      *)
(* channel (an exception), and the connection may break.                   *)
(*                                                                         *)
(* Abstracted: the routing key, the headers, and the 4096 places of the    *)
(* channel of confirms, which a batch does not fill.                       *)
(***************************************************************************)
EXTENDS Naturals, Sequences

CONSTANTS
  NumMessages,    \* messages are numbered 1..NumMessages
  BatchSize,      \* largest batch
  MaxCalls,       \* bound: calls of Send and SendDeadLetter
  MaxExceptions   \* bound: channel exceptions

ASSUME RabbitAssumption ==
  /\ NumMessages \in Nat /\ BatchSize \in Nat \ {0}
  /\ MaxCalls \in Nat /\ MaxExceptions \in Nat

VARIABLES
  pc,         \* where the caller is in Send or SendDeadLetter, or "idle"
  batch,      \* the batch of the current or last call
  dest,       \* its exchange: "main" (Send) or "dlx" (SendDeadLetter)
  sent,       \* messages of the batch published so far
  got,        \* confirms received so far
  result,     \* what the last call returned
  next,       \* first message never given to the sink
  calls,      \* calls so far
  ch,         \* s.ch is not nil
  link,       \* the last connection made: its state
  wire,       \* published on it, not yet taken by the broker
  confirms,   \* contents of s.confirms: TRUE is an ack
  closed,     \* Close was called
  durable,    \* copies the broker has accepted
  leftover,   \* history: confirms of an earlier call were due at the start
  told,       \* history: copies whose call returned nil, without leftovers
  strikes,    \* history: calls that started on this channel after it broke
  exceptions  \* history: channel exceptions

callVars == <<pc, batch, dest, sent, got, result, next, calls>>
linkVars == <<ch, link, wire, confirms, closed>>
historyVars == <<leftover, told, strikes, exceptions>>
vars == <<callVars, linkVars, durable, historyVars>>

Messages == 1..NumMessages
Copies == [msg : Messages, dest : {"main", "dlx"}]
InBatch == {batch[i] : i \in DOMAIN batch}
CopiesOfBatch == {[msg |-> m, dest |-> dest] : m \in InBatch}

TypeOK ==
  /\ pc \in {"idle", "channel", "publish", "await"}
  /\ batch \in Seq(Messages) /\ Len(batch) <= BatchSize
  /\ dest \in {"main", "dlx"}
  /\ sent \in 0..Len(batch) /\ got \in 0..Len(batch)
  /\ result \in {"none", "nil", "error"}
  /\ next \in 1..(NumMessages + 1)
  /\ calls \in 0..MaxCalls
  /\ ch \in BOOLEAN
  /\ link \in {"open", "channelClosed", "dead", "closed"}
  /\ wire \in Seq(Copies)
  /\ confirms \in Seq(BOOLEAN)
  /\ closed \in BOOLEAN
  /\ durable \subseteq Copies
  /\ leftover \in BOOLEAN
  /\ told \subseteq Copies
  /\ strikes \in Nat
  /\ exceptions \in 0..MaxExceptions

(* NewRabbitSink has connected. *)
Init ==
  /\ pc = "idle" /\ batch = <<>> /\ dest = "main" /\ sent = 0 /\ got = 0
  /\ result = "none" /\ next = 1 /\ calls = 0
  /\ ch = TRUE /\ link = "open" /\ wire = <<>> /\ confirms = <<>>
  /\ closed = FALSE
  /\ durable = {}
  /\ leftover = FALSE /\ told = {}
  /\ strikes = 0 /\ exceptions = 0

-----------------------------------------------------------------------------
(* The caller.                                                             *)

Begin(b, d) ==
  /\ pc = "idle"
  /\ calls < MaxCalls
  /\ pc' = "channel" /\ calls' = calls + 1
  /\ batch' = b /\ dest' = d /\ sent' = 0 /\ got' = 0
  /\ UNCHANGED <<result, linkVars, durable, historyVars>>

(* A new batch: trades, or records the normalizer rejected. *)
CallNew ==
  \E n \in 1..BatchSize, d \in {"main", "dlx"} :
    /\ next + n - 1 <= NumMessages
    /\ Begin([i \in 1..n |-> next + i - 1], d)
    /\ next' = next + n

(* The batch failed: it is tried again, or dead lettered. *)
CallAgain ==
  /\ result = "error"
  /\ \E d \in {dest, "dlx"} : Begin(batch, d)
  /\ UNCHANGED next

Return(r) == pc' = "idle" /\ result' = r

-----------------------------------------------------------------------------
(* channel, connectLocked, invalidate.                                     *)

(* s.ch is nil, or the connection has notified s.closeErr. *)
NeedsConnection == ~ch \/ link = "dead"

(* channel returns s.ch: only the connection is watched, not the channel. *)
UseChannel ==
  /\ pc = "channel"
  /\ ~NeedsConnection
  /\ pc' = "publish"
  /\ leftover' = (wire # <<>> \/ confirms # <<>>)
  /\ strikes' = IF link = "open" THEN strikes ELSE strikes + 1
  /\ UNCHANGED <<batch, dest, sent, got, result, next, calls, linkVars,
                 durable, told, exceptions>>

(* Mutant: the channel of confirms is kept. *)
BugConnect ==
  /\ pc = "channel"
  /\ NeedsConnection
  /\ pc' = "publish"
  /\ ch' = TRUE /\ link' = "open" /\ wire' = <<>>
  /\ leftover' = FALSE /\ strikes' = 0
  /\ UNCHANGED <<batch, dest, sent, got, result, next, calls, confirms,
                 closed, durable, told, exceptions>>

(* connectLocked: a new connection, channel and channel of confirms; the   *)
(* old s.conn is overwritten, not closed.                                  *)
Connect ==
  /\ pc = "channel"
  /\ NeedsConnection
  /\ pc' = "publish"
  /\ ch' = TRUE /\ link' = "open" /\ wire' = <<>> /\ confirms' = <<>>
  /\ leftover' = FALSE /\ strikes' = 0
  /\ UNCHANGED <<batch, dest, sent, got, result, next, calls, closed,
                 durable, told, exceptions>>

(* Dialling or declaring the topology fails. *)
ConnectError ==
  /\ pc = "channel"
  /\ NeedsConnection
  /\ ch' = FALSE
  /\ Return("error")
  /\ UNCHANGED <<batch, dest, sent, got, next, calls, link, wire, confirms,
                 closed, durable, historyVars>>

(* Mutant: the channel is kept. *)
BugInvalidate == UNCHANGED ch

(* invalidate(amqp.ErrClosed) *)
Invalidate == ch' = FALSE

-----------------------------------------------------------------------------
(* Send, SendDeadLetter and awaitConfirms.                                 *)

Publish ==
  /\ pc = "publish"
  /\ link = "open"
  /\ wire' = Append(wire, [msg |-> batch[sent + 1], dest |-> dest])
  /\ sent' = sent + 1
  /\ pc' = IF sent + 1 = Len(batch) THEN "await" ELSE "publish"
  /\ UNCHANGED <<batch, dest, got, result, next, calls, ch, link, confirms,
                 closed, durable, historyVars>>

(* PublishWithContext returns ErrClosed. *)
PublishClosed ==
  /\ pc = "publish"
  /\ link # "open"
  /\ Invalidate
  /\ Return("error")
  /\ UNCHANGED <<batch, dest, sent, got, next, calls, link, wire, confirms,
                 closed, durable, historyVars>>

(* It returns another error: invalidate does nothing. *)
PublishError ==
  /\ pc = "publish"
  /\ link = "open"
  /\ Return("error")
  /\ UNCHANGED <<batch, dest, sent, got, next, calls, linkVars, durable,
                 historyVars>>

(* An ack; Send returns nil with the last one. *)
AwaitAck ==
  /\ pc = "await"
  /\ confirms # <<>> /\ Head(confirms)
  /\ confirms' = Tail(confirms)
  /\ got' = got + 1
  /\ \/ /\ got + 1 # Len(batch)
        /\ UNCHANGED <<pc, result, told>>
     \/ /\ got + 1 = Len(batch)
        /\ Return("nil")
        /\ told' = IF leftover THEN told ELSE told \cup CopiesOfBatch
  /\ UNCHANGED <<batch, dest, sent, next, calls, ch, link, wire, closed, durable,
                 leftover, strikes, exceptions>>

(* A nack: Send returns, the other confirms of the batch stay due. *)
AwaitNack ==
  /\ pc = "await"
  /\ confirms # <<>> /\ ~Head(confirms)
  /\ confirms' = Tail(confirms)
  /\ Return("error")
  /\ UNCHANGED <<batch, dest, sent, got, next, calls, ch, link, wire, closed,
                 durable, historyVars>>

(* The library has closed the channel of confirms. *)
AwaitClosed ==
  /\ pc = "await"
  /\ confirms = <<>> /\ link # "open"
  /\ Invalidate
  /\ Return("error")
  /\ UNCHANGED <<batch, dest, sent, got, next, calls, link, wire, confirms,
                 closed, durable, historyVars>>

(* Mutant: no timeout. *)
BugAwaitGivesUp == FALSE /\ UNCHANGED vars

(* case <-timer.C, case <-ctx.Done() *)
AwaitGivesUp ==
  /\ pc = "await"
  /\ Return("error")
  /\ UNCHANGED <<batch, dest, sent, got, next, calls, linkVars, durable,
                 historyVars>>

-----------------------------------------------------------------------------
(* Close, and the broker.                                                  *)

(* What is on the wire is lost, except for a part the broker has accepted  *)
(* without being able to confirm it.                                       *)
DropWire ==
  /\ wire' = <<>>
  /\ \E n \in 0..Len(wire) : durable' = durable \cup {wire[i] : i \in 1..n}

(* Close closes the channel and s.conn and forgets them; it does not keep  *)
(* a caller that is still running from connecting again.                   *)
Close ==
  /\ ~closed
  /\ closed' = TRUE
  /\ ch' = FALSE /\ link' = "closed"
  /\ DropWire
  /\ UNCHANGED <<callVars, confirms, historyVars>>

(* The broker takes the oldest message and accepts it or rejects it. *)
BrokerConfirms ==
  /\ link = "open"
  /\ wire # <<>>
  /\ wire' = Tail(wire)
  /\ \E ack \in BOOLEAN :
       /\ confirms' = Append(confirms, ack)
       /\ durable' = durable \cup {c \in {Head(wire)} : ack}
  /\ UNCHANGED <<callVars, ch, link, closed, historyVars>>

ConnectionLost ==
  /\ link \in {"open", "channelClosed"}
  /\ link' = "dead"
  /\ DropWire
  /\ UNCHANGED <<callVars, ch, confirms, closed, historyVars>>

(* The broker closes the channel; the connection stays. *)
ChannelException ==
  /\ link = "open"
  /\ exceptions < MaxExceptions
  /\ exceptions' = exceptions + 1
  /\ link' = "channelClosed"
  /\ DropWire
  /\ UNCHANGED <<callVars, ch, confirms, closed, leftover, told, strikes>>

-----------------------------------------------------------------------------
Channel == UseChannel \/ Connect \/ ConnectError
Await == AwaitAck \/ AwaitNack \/ AwaitClosed \/ AwaitGivesUp
Send == Channel \/ Publish \/ PublishClosed \/ PublishError \/ Await

Next ==
  \/ CallNew \/ CallAgain
  \/ Send
  \/ Close
  \/ BrokerConfirms \/ ConnectionLost \/ ChannelException

Spec == Init /\ [][Next]_vars

(* The calling goroutine runs, dialling and publishing end, the timer of   *)
(* awaitConfirms fires.  Nothing is asked of the broker.                   *)
FairSpec == Spec /\ WF_vars(Send)

-----------------------------------------------------------------------------
(* Properties.                                                             *)

(* A call that starts on a channel on which no confirm of an earlier call  *)
(* is due returns nil only when the broker has accepted the whole batch:   *)
(* no confirm of a lost connection is ever counted.                        *)
FreshNilMeansAccepted == told \subseteq durable

(* A broken channel costs at most one call: the next one has a new         *)
(* connection, although a channel exception is not notified to closeErr.   *)
BrokenChannelCostsOneCall == strikes <= 1

(* Send and SendDeadLetter return, also when the broker stays silent.      *)
SendReturns == pc # "idle" ~> pc = "idle"

=============================================================================
