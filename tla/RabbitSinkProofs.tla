-------------------------- MODULE RabbitSinkProofs --------------------------
(***************************************************************************)
(* What the RabbitMQ sink can be relied on for, proved for any number of   *)
(* messages, any batch size, any number of calls and of channel            *)
(* exceptions: what nil means, and what a broken channel costs.            *)
(***************************************************************************)
EXTENDS RabbitSink, SequenceTheorems, TLAPS

(* The message a place of the batch stands for at the broker. *)
Copy(i) == [msg |-> batch[i], dest |-> dest]

(* How far the call is: it publishes the whole batch before it waits, and  *)
(* it waits only while a confirm is missing.                               *)
CallShape ==
  /\ pc # "idle" \/ result # "none" => Len(batch) > 0
  /\ pc = "channel" => sent = 0 /\ got = 0
  /\ pc = "publish" => sent < Len(batch) /\ got = 0
  /\ pc = "await" => sent = Len(batch) /\ got < Len(batch)

(* The call that ran into a broken channel has not published yet, or has   *)
(* made the sink forget the channel.                                       *)
OneStrike ==
  \/ strikes = 0
  \/ strikes = 1 /\ (~ch \/ (pc = "publish" /\ link # "open"))

(* A call that started without leftovers reads its own confirms, in the    *)
(* order of the batch: those received, then s.confirms, then, while the    *)
(* channel is open, those of the messages still on the wire.               *)
LinedUp ==
  ~leftover /\ pc \in {"publish", "await"} =>
    /\ \A i \in 1..got : Copy(i) \in durable
    /\ got + Len(confirms) <= sent
    /\ \A j \in 1..Len(confirms) : confirms[j] => Copy(got + j) \in durable
    /\ link = "open" =>
         /\ got + Len(confirms) + Len(wire) = sent
         /\ \A k \in 1..Len(wire) : wire[k] = Copy(got + Len(confirms) + k)

Inv == TypeOK /\ CallShape /\ OneStrike

-----------------------------------------------------------------------------
(* Types, the shape of a call, and strikes.                                *)

(* The head and the tail of a sequence in terms of its elements. *)
LEMMA HeadTail ==
  ASSUME NEW S, NEW s \in Seq(S), s # <<>>
  PROVE  /\ Len(s) \in Nat \ {0} /\ Len(Tail(s)) = Len(s) - 1
         /\ Head(s) = s[1]
         /\ \A i \in 1..Len(Tail(s)) : Tail(s)[i] = s[i + 1]
BY HeadTailProperties, EmptySeq

(* Before the first call nothing is on the wire. *)
LEMMA InitHolds == Init => Inv /\ LinedUp /\ FreshNilMeansAccepted
<1> SUFFICES ASSUME Init PROVE Inv /\ LinedUp /\ FreshNilMeansAccepted
  OBVIOUS
<1>1. <<>> \in Seq(Messages) /\ <<>> \in Seq(Copies) /\ <<>> \in Seq(BOOLEAN)
      /\ Len(<<>>) = 0
  BY EmptySeq
<1>2. TypeOK
  <2>1. 1 \in 1..(NumMessages + 1) /\ 0 \in 0..MaxCalls /\ 0 \in 0..MaxExceptions
        /\ 0 <= BatchSize
    BY RabbitAssumption
  <2>2. batch \in Seq(Messages) /\ Len(batch) = 0
    BY <1>1 DEF Init
  <2>3. wire \in Seq(Copies) /\ confirms \in Seq(BOOLEAN)
    BY <1>1 DEF Init
  <2>4. /\ pc = "idle" /\ dest = "main" /\ sent = 0 /\ got = 0 /\ result = "none"
        /\ next = 1 /\ calls = 0 /\ ch = TRUE /\ link = "open" /\ closed = FALSE
        /\ durable = {} /\ leftover = FALSE /\ told = {} /\ strikes = 0
        /\ exceptions = 0
    BY DEF Init
  <2>5. sent \in 0..Len(batch) /\ got \in 0..Len(batch) /\ strikes \in Nat
    BY <2>2, <2>4
  <2> QED  BY <2>1, <2>2, <2>3, <2>4, <2>5 DEF TypeOK
<1>3. CallShape /\ OneStrike /\ LinedUp /\ FreshNilMeansAccepted
  BY DEF Init, CallShape, OneStrike, LinedUp, FreshNilMeansAccepted
<1> QED  BY <1>2, <1>3 DEF Inv

(* What the wire carries, and what the broker may accept of it. *)
LEMMA DropWireType ==
  ASSUME TypeOK, DropWire
  PROVE  wire' = <<>> /\ wire' \in Seq(Copies) /\ durable' \subseteq Copies
         /\ durable \subseteq durable'
<1>1. PICK n \in 0..Len(wire) : durable' = durable \cup {wire[i] : i \in 1..n}
  BY DEF DropWire
<1>2. Len(wire) \in Nat /\ \A i \in 1..Len(wire) : wire[i] \in Copies
  BY LenProperties, ElementOfSeq DEF TypeOK
<1>3. \A i \in 1..n : wire[i] \in Copies
  BY <1>2
<1> QED  BY <1>1, <1>3, EmptySeq DEF DropWire, TypeOK

(* Every step keeps the shape of a call. *)
LEMMA InvStep == Inv /\ [Next]_vars => Inv'
<1> SUFFICES ASSUME Inv, [Next]_vars PROVE Inv'
  OBVIOUS
<1> USE RabbitAssumption DEF Inv
<1>0. /\ Len(batch) \in Nat /\ sent \in Nat /\ got \in Nat /\ strikes \in Nat
      /\ next \in Nat /\ calls \in Nat /\ exceptions \in Nat
      /\ NumMessages \in Nat /\ BatchSize \in Nat /\ MaxCalls \in Nat
      /\ MaxExceptions \in Nat
  BY LenProperties DEF TypeOK
(* Where a step begins a call. *)
<1>b. ASSUME NEW b \in Seq(Messages), NEW d \in {"main", "dlx"}, Begin(b, d),
             Len(b) \in 1..BatchSize, next' \in 1..(NumMessages + 1)
      PROVE  Inv'
  <2> USE <1>b DEF Begin, linkVars, historyVars
  <2>1. TypeOK'  BY <1>0 DEF TypeOK
  <2>2. CallShape'  BY <1>0 DEF CallShape
  <2>3. OneStrike'  BY DEF OneStrike
  <2> QED  BY <2>1, <2>2, <2>3
<1>1. CASE CallNew
  <2>1. PICK n \in 1..BatchSize, d \in {"main", "dlx"} :
          /\ next + n - 1 <= NumMessages
          /\ Begin([i \in 1..n |-> next + i - 1], d)
          /\ next' = next + n
    BY <1>1 DEF CallNew
  <2> DEFINE b == [i \in 1..n |-> next + i - 1]
  <2>2. next >= 1 /\ n \in Nat /\ n >= 1
    BY <1>0 DEF TypeOK
  <2>3. \A i \in 1..n : next + i - 1 \in Messages
    BY <1>0, <2>1, <2>2 DEF Messages
  <2>4. b \in [1..n -> Messages]
    BY <2>3
  <2>5. b \in Seq(Messages) /\ Len(b) = n
    BY <2>2, <2>4, SeqDef, LenProperties
  <2>6. next' \in 1..(NumMessages + 1)
    BY <1>0, <2>1, <2>2
  <2> HIDE DEF b
  <2> QED  BY <1>b, <2>1, <2>2, <2>5, <2>6 DEF b
<1>2. CASE CallAgain
  <2>1. PICK d \in {dest, "dlx"} : Begin(batch, d)
    BY <1>2 DEF CallAgain
  <2>2. /\ batch \in Seq(Messages) /\ d \in {"main", "dlx"} /\ Len(batch) \in 1..BatchSize
        /\ next' \in 1..(NumMessages + 1)
    BY <1>0, <1>2, <2>1 DEF CallAgain, CallShape, TypeOK
  <2> QED  BY <1>b, <2>1, <2>2
<1>3. CASE UseChannel
  <2> USE <1>3 DEF UseChannel, linkVars
  <2>1. TypeOK'  BY <1>0 DEF TypeOK
  <2>2. CallShape'  BY DEF CallShape
  <2>3. OneStrike'  BY <1>0 DEF OneStrike, NeedsConnection
  <2> QED  BY <2>1, <2>2, <2>3
<1>4. CASE Connect
  <2> USE <1>4 DEF Connect
  <2>1. TypeOK'
    <3>1. <<>> \in Seq(Copies) /\ <<>> \in Seq(BOOLEAN)
      BY EmptySeq
    <3> QED  BY <3>1 DEF TypeOK
  <2>2. CallShape'  BY DEF CallShape
  <2>3. OneStrike'  BY DEF OneStrike
  <2> QED  BY <2>1, <2>2, <2>3
<1>5. CASE ConnectError
  <2> USE <1>5 DEF ConnectError, Return, historyVars
  <2>1. TypeOK'  BY DEF TypeOK
  <2>2. CallShape'  BY DEF CallShape
  <2>3. OneStrike'  BY DEF OneStrike
  <2> QED  BY <2>1, <2>2, <2>3
<1>6. CASE Publish
  <2> USE <1>6 DEF Publish, historyVars
  <2>1. sent + 1 \in 1..Len(batch)
    BY <1>0 DEF CallShape
  <2>2. [msg |-> batch[sent + 1], dest |-> dest] \in Copies
    BY <2>1, ElementOfSeq DEF TypeOK, Copies
  <2>3. wire' \in Seq(Copies)
    BY <2>2, AppendProperties DEF TypeOK
  <2>4. TypeOK'  BY <1>0, <2>1, <2>3 DEF TypeOK
  <2>5. CallShape'  BY <1>0, <2>1 DEF CallShape
  <2>6. OneStrike'  BY DEF OneStrike
  <2> QED  BY <2>4, <2>5, <2>6
<1>7. CASE PublishClosed \/ AwaitClosed
  <2> USE <1>7 DEF PublishClosed, AwaitClosed, Invalidate, Return, historyVars
  <2>1. TypeOK'  BY DEF TypeOK
  <2>2. CallShape'  BY DEF CallShape
  <2>3. OneStrike'  BY DEF OneStrike
  <2> QED  BY <2>1, <2>2, <2>3
<1>8. CASE PublishError \/ AwaitGivesUp
  <2> USE <1>8 DEF PublishError, AwaitGivesUp, Return, linkVars, historyVars
  <2>1. TypeOK'  BY DEF TypeOK
  <2>2. CallShape'  BY DEF CallShape
  <2>3. OneStrike'  BY DEF OneStrike
  <2> QED  BY <2>1, <2>2, <2>3
<1>9. CASE AwaitAck \/ AwaitNack
  <2>1. /\ pc = "await" /\ confirms # <<>> /\ confirms' = Tail(confirms)
        /\ got' \in {got, got + 1} /\ pc' \in {"idle", "await"}
        /\ (pc' = "await" => got' # Len(batch))
        /\ result' \in {result, "nil", "error"}
        /\ told' \in {told, told \cup CopiesOfBatch}
        /\ UNCHANGED <<batch, dest, sent, next, calls, ch, link, wire, closed,
                       durable, leftover, strikes, exceptions>>
    BY <1>9 DEF AwaitAck, AwaitNack, Return, historyVars
  <2>2. confirms' \in Seq(BOOLEAN)
    BY <2>1, HeadTailProperties DEF TypeOK
  <2>3. \A i \in DOMAIN batch : batch[i] \in Messages
    BY ElementOfSeq, LenProperties DEF TypeOK
  <2>4. CopiesOfBatch \subseteq Copies
    BY <2>3 DEF CopiesOfBatch, InBatch, Copies, TypeOK
  <2>5. got' \in 0..Len(batch)
    BY <1>0, <2>1 DEF CallShape
  <2>6. TypeOK'
    BY <2>1, <2>2, <2>4, <2>5 DEF TypeOK
  <2>7. CallShape'
    BY <1>0, <2>1, <2>5 DEF CallShape
  <2>8. OneStrike'
    BY <2>1 DEF OneStrike
  <2> QED  BY <2>6, <2>7, <2>8
<1>10. CASE Close \/ ConnectionLost \/ ChannelException
  <2>1. /\ DropWire /\ UNCHANGED <<callVars, confirms, leftover, told, strikes>>
        /\ exceptions' \in 0..MaxExceptions /\ closed' \in BOOLEAN
        /\ ch' \in BOOLEAN /\ (ch' => ch) /\ link' \in {"channelClosed", "dead", "closed"}
    <3>1. CASE Close
      BY <3>1 DEF Close, historyVars, TypeOK
    <3>2. CASE ConnectionLost
      BY <3>2 DEF ConnectionLost, historyVars, TypeOK
    <3>3. CASE ChannelException
      BY <1>0, <3>3 DEF ChannelException, TypeOK
    <3> QED  BY <1>10, <3>1, <3>2, <3>3
  <2>2. wire' \in Seq(Copies) /\ durable' \subseteq Copies
    BY <2>1, DropWireType
  <2>3. TypeOK'  BY <2>1, <2>2 DEF TypeOK, callVars
  <2>4. CallShape'  BY <2>1 DEF CallShape, callVars
  <2>5. OneStrike'  BY <2>1 DEF OneStrike, callVars
  <2> QED  BY <2>3, <2>4, <2>5
<1>11. CASE BrokerConfirms
  <2>1. PICK ack \in BOOLEAN : /\ confirms' = Append(confirms, ack)
                               /\ durable' = durable \cup {c \in {Head(wire)} : ack}
    BY <1>11 DEF BrokerConfirms
  <2>2. /\ wire # <<>> /\ wire' = Tail(wire)
        /\ UNCHANGED <<callVars, ch, link, closed, historyVars>>
    BY <1>11 DEF BrokerConfirms
  <2>3. wire' \in Seq(Copies) /\ Head(wire) \in Copies
    BY <2>2, HeadTailProperties DEF TypeOK
  <2>4. confirms' \in Seq(BOOLEAN)
    BY <2>1, AppendProperties DEF TypeOK
  <2>5. TypeOK'  BY <2>1, <2>2, <2>3, <2>4 DEF TypeOK, callVars, historyVars
  <2>6. CallShape'  BY <2>2 DEF CallShape, callVars
  <2>7. OneStrike'  BY <2>2 DEF OneStrike, callVars, historyVars
  <2> QED  BY <2>5, <2>6, <2>7
<1>12. CASE UNCHANGED vars
  <2> USE <1>12 DEF vars, callVars, linkVars, historyVars
  <2>1. TypeOK'  BY DEF TypeOK
  <2>2. CallShape' /\ OneStrike'  BY DEF CallShape, OneStrike
  <2> QED  BY <2>1, <2>2
<1> QED
  BY <1>1, <1>2, <1>3, <1>4, <1>5, <1>6, <1>7, <1>8, <1>9, <1>10, <1>11, <1>12
  DEF Next, Send, Channel, Await

(* Type correctness: a call never counts more confirms than it published   *)
(* messages, nor reads past its batch.                                     *)
THEOREM TypeCorrect == Spec => []TypeOK
<1>1. Spec => []Inv
  BY InitHolds, InvStep, PTL DEF Spec
<1>2. Inv => TypeOK
  BY DEF Inv
<1> QED  BY <1>1, <1>2, PTL

(* A channel the broker has closed costs at most one call, although only   *)
(* the connection is watched: the call that finds out forgets the channel. *)
THEOREM OneCallPerBrokenChannel == Spec => []BrokenChannelCostsOneCall
<1>1. Spec => []Inv
  BY InitHolds, InvStep, PTL DEF Spec
<1>2. Inv => BrokenChannelCostsOneCall
  BY DEF Inv, OneStrike, BrokenChannelCostsOneCall
<1> QED  BY <1>1, <1>2, PTL

-----------------------------------------------------------------------------
(* What nil means.                                                         *)

(* The broker's answers stay lined up with the batch. *)
LEMMA LinedUpStep ==
  ASSUME Inv, LinedUp, [Next]_vars
  PROVE  LinedUp'
<1> USE DEF Inv
<1> SUFFICES ASSUME ~leftover', pc' \in {"publish", "await"}
             PROVE  /\ \A i \in 1..got' : Copy(i)' \in durable'
                    /\ got' + Len(confirms') <= sent'
                    /\ \A j \in 1..Len(confirms') :
                         confirms'[j] => Copy(got + j)' \in durable'
                    /\ link' = "open" =>
                         /\ got' + Len(confirms') + Len(wire') = sent'
                         /\ \A k \in 1..Len(wire') :
                              wire'[k] = Copy(got + Len(confirms) + k)'
  BY DEF LinedUp
<1>0. sent \in Nat /\ got \in Nat /\ Len(wire) \in Nat /\ Len(confirms) \in Nat
  BY LenProperties DEF TypeOK
<1>t. wire \in Seq(Copies) /\ confirms \in Seq(BOOLEAN)
  BY DEF TypeOK
<1> USE DEF Copy
(* What LinedUp says once a call is publishing or waiting. *)
<1>l. ASSUME ~leftover, pc \in {"publish", "await"}
      PROVE  /\ \A i \in 1..got : Copy(i) \in durable
             /\ got + Len(confirms) <= sent
             /\ \A j \in 1..Len(confirms) : confirms[j] => Copy(got + j) \in durable
             /\ link = "open" =>
                  /\ got + Len(confirms) + Len(wire) = sent
                  /\ \A k \in 1..Len(wire) : wire[k] = Copy(got + Len(confirms) + k)
  BY <1>l DEF LinedUp
<1>1. CASE UseChannel
  <2>1. wire' = <<>> /\ confirms' = <<>> /\ got' = 0 /\ sent' = 0
    BY <1>1 DEF UseChannel, CallShape, linkVars
  <2> QED  BY <2>1
<1>2. CASE Connect
  <2>1. wire' = <<>> /\ confirms' = <<>> /\ got' = 0 /\ sent' = 0
    BY <1>2 DEF Connect, CallShape
  <2> QED  BY <2>1
<1>3. CASE Publish
  <2> DEFINE c == [msg |-> batch[sent + 1], dest |-> dest]
  <2>1. /\ pc = "publish" /\ link = "open" /\ wire' = Append(wire, c) /\ sent' = sent + 1
        /\ UNCHANGED <<batch, dest, got, link, confirms, durable, leftover>>
    BY <1>3 DEF Publish, historyVars
  <2>2. sent + 1 \in 1..Len(batch)
    BY <1>0, <2>1, LenProperties DEF CallShape, TypeOK
  <2>3. c \in Copies
    BY <2>2, ElementOfSeq DEF TypeOK, Copies
  <2>4. Len(wire') = Len(wire) + 1 /\ wire'[Len(wire) + 1] = c
        /\ \A k \in 1..Len(wire) : wire'[k] = wire[k]
    BY <1>t, <2>1, <2>3, AppendProperties
  <2>5. got + Len(confirms) + Len(wire) = sent
        /\ \A k \in 1..Len(wire) : wire[k] = Copy(got + Len(confirms) + k)
    BY <1>l, <2>1
  <2>6. \A k \in 1..Len(wire') : wire'[k] = Copy(got + Len(confirms) + k)
    <3> SUFFICES ASSUME NEW k \in 1..Len(wire')
                 PROVE  wire'[k] = Copy(got + Len(confirms) + k)
      OBVIOUS
    <3>1. CASE k = Len(wire) + 1
      <4>1. got + Len(confirms) + k = sent + 1
        BY <1>0, <2>5, <3>1
      <4> QED  BY <2>4, <3>1, <4>1
    <3>2. CASE k # Len(wire) + 1
      <4>1. k \in 1..Len(wire)
        BY <1>0, <2>4, <3>2
      <4> QED  BY <2>4, <2>5, <4>1
    <3> QED  BY <3>1, <3>2
  <2>7. got + Len(confirms) + Len(wire') = sent' /\ got + Len(confirms) <= sent'
    <3>1. Len(wire') = Len(wire) + 1 /\ sent' = sent + 1
          /\ got + Len(confirms) + Len(wire) = sent
      BY <2>1, <2>4, <2>5
    <3> QED  BY <1>0, <3>1
  <2> QED  BY <1>l, <2>1, <2>6, <2>7
<1>4. CASE AwaitAck
  <2>1. /\ pc = "await" /\ confirms # <<>> /\ Head(confirms) /\ confirms' = Tail(confirms)
        /\ got' = got + 1
        /\ UNCHANGED <<batch, dest, sent, link, wire, durable, leftover>>
    BY <1>4 DEF AwaitAck
  <2>2. /\ Len(confirms) \in Nat \ {0} /\ Len(confirms') = Len(confirms) - 1
        /\ Head(confirms) = confirms[1]
        /\ \A j \in 1..Len(confirms') : confirms'[j] = confirms[j + 1]
    BY <1>t, <2>1, HeadTail
  <2>3. Copy(got + 1) \in durable
    <3>1. confirms[1]
      BY <2>1, <2>2, Zenon
    <3>2. 1 \in 1..Len(confirms)
      BY <2>2
    <3> QED  BY <1>l, <2>1, <3>1, <3>2
  <2>4. \A i \in 1..got' : Copy(i) \in durable
    <3>1. \A i \in 1..got' : i \in 1..got \/ i = got + 1
      <4>1. got' = got + 1
        BY <2>1
      <4> QED  BY <1>0, <4>1
    <3> QED  BY <1>l, <2>1, <2>3, <3>1
  <2>5. \A j \in 1..Len(confirms') : confirms'[j] => Copy(got' + j) \in durable
    <3> SUFFICES ASSUME NEW j \in 1..Len(confirms'), confirms'[j]
                 PROVE  Copy(got' + j) \in durable
      OBVIOUS
    <3>1. j + 1 \in 1..Len(confirms)
      BY <1>0, <2>2
    <3>c. confirms[j + 1]
      BY <2>2, Zenon
    <3>2. Copy(got + (j + 1)) \in durable
      BY <1>l, <2>1, <3>1, <3>c
    <3>3. got + (j + 1) = got' + j
      <4>1. got' = got + 1
        BY <2>1
      <4>2. j \in Int
        OBVIOUS
      <4> QED  BY <1>0, <4>1, <4>2
    <3> QED  BY <3>2, <3>3
  <2>6. link = "open" => \A k \in 1..Len(wire) : wire[k] = Copy(got' + Len(confirms') + k)
    <3>1. got' + Len(confirms') = got + Len(confirms)
      <4>1. got' = got + 1 /\ Len(confirms') = Len(confirms) - 1
        BY <2>1, <2>2
      <4> QED  BY <1>0, <4>1
    <3> QED  BY <1>l, <2>1, <3>1
  <2>7. got' + Len(confirms') <= sent
        /\ (link = "open" => got' + Len(confirms') + Len(wire) = sent)
    <3>1. got' = got + 1 /\ Len(confirms') = Len(confirms) - 1
      BY <2>1, <2>2
    <3>2. got' + Len(confirms') = got + Len(confirms)
      BY <1>0, <3>1
    <3> QED  BY <1>l, <2>1, <3>2
  <2> QED  BY <2>1, <2>4, <2>5, <2>6, <2>7
<1>5. CASE BrokerConfirms
  <2>1. PICK ack \in BOOLEAN : /\ confirms' = Append(confirms, ack)
                               /\ durable' = durable \cup {c \in {Head(wire)} : ack}
    BY <1>5 DEF BrokerConfirms
  <2>2. /\ link = "open" /\ wire # <<>> /\ wire' = Tail(wire)
        /\ UNCHANGED <<pc, batch, dest, sent, got, link, leftover>>
    BY <1>5 DEF BrokerConfirms, callVars, historyVars
  <2>3. /\ got + Len(confirms) + Len(wire) = sent
        /\ \A k \in 1..Len(wire) : wire[k] = Copy(got + Len(confirms) + k)
    BY <1>l, <2>2
  <2>4. /\ Len(wire) > 0 /\ Len(wire') = Len(wire) - 1 /\ Head(wire) = wire[1]
        /\ \A k \in 1..Len(wire') : wire'[k] = wire[k + 1]
    BY <1>0, <1>t, <2>2, HeadTail
  <2>5. /\ Len(confirms') = Len(confirms) + 1 /\ confirms'[Len(confirms) + 1] = ack
        /\ \A j \in 1..Len(confirms) : confirms'[j] = confirms[j]
    BY <1>t, <2>1, AppendProperties
  <2>6. ack => Copy(got + Len(confirms) + 1) \in durable'
    BY <2>1, <2>3, <2>4
  <2>7. \A j \in 1..Len(confirms') : confirms'[j] => Copy(got + j) \in durable'
    <3> SUFFICES ASSUME NEW j \in 1..Len(confirms'), confirms'[j]
                 PROVE  Copy(got + j) \in durable'
      OBVIOUS
    <3>1. CASE j = Len(confirms) + 1
      <4>1. got + j = got + Len(confirms) + 1
        BY <1>0, <3>1
      <4> QED  BY <2>5, <2>6, <3>1, <4>1
    <3>2. CASE j # Len(confirms) + 1
      <4>1. j \in 1..Len(confirms) /\ confirms[j]
        BY <1>0, <2>5, <3>2
      <4> QED  BY <1>l, <2>1, <2>2, <4>1
    <3> QED  BY <3>1, <3>2
  <2>8. \A k \in 1..Len(wire') : wire'[k] = Copy(got + Len(confirms') + k)
    <3> SUFFICES ASSUME NEW k \in 1..Len(wire')
                 PROVE  wire'[k] = Copy(got + Len(confirms') + k)
      OBVIOUS
    <3>1. k + 1 \in 1..Len(wire) /\ wire'[k] = wire[k + 1]
      BY <1>0, <2>4
    <3>2. got + Len(confirms) + (k + 1) = got + Len(confirms') + k
      BY <1>0, <2>5, <2>4
    <3> QED  BY <2>3, <3>1, <3>2
  <2>9. \A i \in 1..got : Copy(i) \in durable'
    BY <1>l, <2>1, <2>2
  <2>10. got + Len(confirms') <= sent /\ got + Len(confirms') + Len(wire') = sent
    <3>1. Len(wire') = Len(wire) - 1 /\ Len(confirms') = Len(confirms) + 1
      BY <2>4, <2>5
    <3>2. got + Len(confirms) + Len(wire) = sent /\ Len(wire) > 0
      BY <2>3, <2>4
    <3> QED  BY <1>0, <3>1, <3>2
  <2> QED  BY <2>2, <2>7, <2>8, <2>9, <2>10
<1>6. CASE Close \/ ConnectionLost \/ ChannelException
  <2>1. /\ DropWire /\ UNCHANGED <<callVars, confirms, leftover>> /\ link' # "open"
    BY <1>6 DEF Close, ConnectionLost, ChannelException, historyVars
  <2>2. durable \subseteq durable'
    BY <2>1, DropWireType
  <2> QED  BY <1>l, <2>1, <2>2 DEF callVars
<1>7. CASE UNCHANGED vars
  BY <1>l, <1>7 DEF vars, callVars, linkVars, historyVars
(* The other steps leave the call outside publish and await. *)
<1>8. CASE CallNew \/ CallAgain
  BY <1>8 DEF CallNew, CallAgain, Begin
<1>9. CASE \/ ConnectError \/ PublishClosed \/ PublishError \/ AwaitNack
           \/ AwaitClosed \/ AwaitGivesUp
  BY <1>9 DEF ConnectError, PublishClosed, PublishError, AwaitNack, AwaitClosed,
     AwaitGivesUp, Return
<1> QED
  BY <1>1, <1>2, <1>3, <1>4, <1>5, <1>6, <1>7, <1>8, <1>9
  DEF Next, Send, Channel, Await

(* Nothing the broker has accepted is forgotten, and a call that returns   *)
(* nil without leftovers has had all its messages accepted.                *)
LEMMA FreshNilStep ==
  ASSUME Inv, LinedUp, FreshNilMeansAccepted, [Next]_vars
  PROVE  FreshNilMeansAccepted'
<1> USE DEF FreshNilMeansAccepted, Inv
<1>1. CASE AwaitAck
  <2>1. CASE told' = told
    BY <1>1, <2>1 DEF AwaitAck
  <2>2. CASE told' # told
    <3>1. /\ ~leftover /\ got + 1 = Len(batch) /\ told' = told \cup CopiesOfBatch
          /\ pc = "await" /\ confirms # <<>> /\ Head(confirms) /\ durable' = durable
      BY <1>1, <2>2 DEF AwaitAck
    <3>2. got \in Nat /\ DOMAIN batch = 1..Len(batch)
      BY LenProperties DEF TypeOK
    <3>a. Len(confirms) \in Nat \ {0} /\ Head(confirms) = confirms[1]
      BY <3>1, HeadTail DEF TypeOK
    <3>b. confirms[1]
      BY <3>1, <3>a, Zenon
    <3>3. 1 \in 1..Len(confirms) /\ confirms[1]
      BY <3>a, <3>b
    <3>4. \A i \in 1..got : Copy(i) \in durable
      BY <3>1 DEF LinedUp
    <3>5. Copy(got + 1) \in durable
      BY <3>1, <3>3 DEF LinedUp
    <3>6. \A i \in DOMAIN batch : Copy(i) \in durable
      <4>1. DOMAIN batch = 1..(got + 1)
        BY <3>1, <3>2
      <4>2. \A i \in 1..(got + 1) : i \in 1..got \/ i = got + 1
        BY <3>2
      <4> QED  BY <3>4, <3>5, <4>1, <4>2
    <3>7. CopiesOfBatch \subseteq durable
      BY <3>6 DEF CopiesOfBatch, InBatch, Copy
    <3> QED  BY <3>1, <3>7
  <2> QED  BY <2>1, <2>2
<1>2. CASE Close \/ ConnectionLost \/ ChannelException
  <2>1. DropWire /\ told' = told
    BY <1>2 DEF Close, ConnectionLost, ChannelException, historyVars
  <2> QED  BY <2>1, DropWireType
<1>3. CASE BrokerConfirms
  BY <1>3 DEF BrokerConfirms, historyVars
<1>4. CASE CallNew \/ CallAgain
  BY <1>4 DEF CallNew, CallAgain, Begin, historyVars
<1>5. CASE UNCHANGED vars
  BY <1>5 DEF vars, historyVars
<1>6. CASE \/ UseChannel \/ Connect \/ ConnectError
           \/ Publish \/ PublishClosed \/ PublishError
           \/ AwaitNack \/ AwaitClosed \/ AwaitGivesUp
  BY <1>6 DEF UseChannel, Connect, ConnectError, Publish, PublishClosed, PublishError,
     AwaitNack, AwaitClosed, AwaitGivesUp, historyVars
<1> QED
  BY <1>1, <1>2, <1>3, <1>4, <1>5, <1>6 DEF Next, Send, Channel, Await

(* A call that starts on a channel without confirms of an earlier call and *)
(* returns nil has had every message of its batch accepted by the broker,  *)
(* whatever the broker, the connection and Close do in between.            *)
THEOREM NilMeansAccepted == Spec => []FreshNilMeansAccepted
<1>1. Spec => [](Inv /\ LinedUp /\ FreshNilMeansAccepted)
  BY InitHolds, InvStep, LinedUpStep, FreshNilStep, PTL DEF Spec
<1> QED  BY <1>1, PTL
=============================================================================
