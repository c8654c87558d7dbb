-------------------------- MODULE TradeFlowProofs ---------------------------
(***************************************************************************)
(* Proofs about TradeFlow, for any records, messages of other programs and *)
(* settings: no message that reaches the scorer makes process_message      *)
(* raise, every record that is accepted is scored, once and in order, and  *)
(* what the scorers hold is the statistics of the trades of their symbols. *)
(***************************************************************************)
EXTENDS TradeFlow, SequenceTheorems, WellFoundedInduction, TLAPS

(* What Accepts leaves of the records, whatever the configuration.         *)
Sound(raw) ==
  /\ raw.symbol.market # ""
  /\ FinitePositive(raw.price) /\ FinitePositive(raw.quantity)
  /\ TradeTime(raw) > 0

(* What the topics can hold: messages of the ingestor and of others, what  *)
(* the processing service makes of those it forwards, what the scorer      *)
(* makes of these, and the flows of the records that are accepted.         *)
OwnMessages == {Encoded(p[1], p[2]) : p \in {raw \in Raws : Sound(raw)} \X (Nat \ {0})}

RawMessages == Foreign \cup OwnMessages

NormalizedMessages ==
  UNION {{Normalized(msg, time) : time \in {t \in Int64(msg.time) : Forwards(msg, t)}} :
           msg \in RawMessages}

ScoredTrades ==
  {[flow |-> Flow(Upper(msg.symbol), Signed(msg)), nth |-> msg.nth] : msg \in NormalizedMessages}

AcceptedFlows ==
  UNION {{Flow(Canonical(raw.symbol), raw.quantity), Flow(Canonical(raw.symbol), -raw.quantity)} :
           raw \in Raws}

Wholesome ==
  /\ rawTopic \in Seq(RawMessages)
  /\ normTopic \in Seq(NormalizedMessages)
  /\ scored \in Seq(ScoredTrades)
  /\ accepted \in Seq(AcceptedFlows)
  /\ ~raised

-----------------------------------------------------------------------------
(* The messages.                                                           *)

(* Every message of trades.raw is a record with the fields of a trade, and *)
(* one of the ingestor if it has a number.                                 *)
LEMMA MessageFields ==
  ASSUME NEW msg \in RawMessages
  PROVE  /\ msg = [json |-> msg.json, nth |-> msg.nth, symbol |-> msg.symbol, side |-> msg.side,
                   price |-> msg.price, quantity |-> msg.quantity, time |-> msg.time]
         /\ msg.nth \in Nat
         /\ msg.nth # 0 =>
              \E raw \in Raws, n \in Nat \ {0} : Sound(raw) /\ msg = Encoded(raw, n)
<1>1. CASE msg \in Foreign
  <2>1. msg = [json |-> msg.json, nth |-> 0, symbol |-> msg.symbol, side |-> msg.side,
               price |-> msg.price, quantity |-> msg.quantity, time |-> msg.time]
    BY <1>1, TradeFlowAssumption DEF TradeFlowAssumption
  <2>2. msg.nth = 0
    BY <2>1
  <2> QED
    BY <2>1, <2>2
<1>2. CASE msg \in OwnMessages
  <2>1. PICK raw \in Raws, n \in Nat \ {0} : Sound(raw) /\ msg = Encoded(raw, n)
    BY <1>2 DEF OwnMessages
  <2> QED
    BY <2>1 DEF Encoded
<1> QED
  BY <1>1, <1>2 DEF RawMessages

(* Normalize of the processing service forwards only objects whose price,  *)
(* quantity and time are numbers: process_message does not raise on them.  *)
(* They keep their numbers.                                                *)
LEMMA NormalizedIsHarmless ==
  ASSUME NEW n \in NormalizedMessages
  PROVE  /\ ~Raises(n) /\ ~Skips(n)
         /\ n.nth \in Nat
<1>1. PICK msg \in RawMessages :
        \E time \in Int64(msg.time) : Forwards(msg, time) /\ n = Normalized(msg, time)
  BY DEF NormalizedMessages
<1>2. PICK time \in Int64(msg.time) : Forwards(msg, time) /\ n = Normalized(msg, time)
  BY <1>1
<1>3. /\ n.json = msg.json /\ n.nth = msg.nth
      /\ n.price = msg.price /\ n.quantity = msg.quantity
      /\ n.time = time /\ n.symbol = Upper(msg.symbol)
  BY <1>2, MessageFields DEF Normalized
<1>4. /\ msg.json = "object" /\ msg.symbol.market # ""
      /\ msg.price # Bad /\ msg.quantity # Bad /\ time # Bad
  BY <1>2 DEF Forwards, PositiveNumber
<1>5. n.symbol.market = msg.symbol.market
  BY <1>3 DEF Upper
<1> QED
  BY <1>3, <1>4, <1>5, MessageFields DEF Raises, Skips

(* A trade of the ingestor passes the processing service, and unaltered:   *)
(* its numbers are positive, its time is an int64 and its symbol and side  *)
(* are spelled the way they would be there.                                *)
LEMMA OwnPass ==
  ASSUME NEW msg \in RawMessages, msg.nth # 0, NEW time \in Int64(msg.time)
  PROVE  /\ Forwards(msg, time) /\ Normalized(msg, time) = msg
         /\ Upper(msg.symbol) = msg.symbol
<1>1. PICK raw \in Raws, n \in Nat \ {0} : Sound(raw) /\ msg = Encoded(raw, n)
  BY MessageFields
<1>2. /\ msg.json = "object" /\ msg.symbol = Canonical(raw.symbol)
      /\ msg.side = SideFromBuyerMaker(raw.maker) /\ msg.price = 1
      /\ msg.quantity = raw.quantity /\ msg.time = TradeTime(raw)
  BY <1>1 DEF Encoded
<1>3. /\ {NaN, Inf, Bad, Missing} \cap Int = {}
      /\ {raw.time, raw.event} \subseteq Int \ {Huge}
  BY TradeFlowAssumption DEF TradeFlowAssumption
<1>4. TradeTime(raw) \in Int /\ TradeTime(raw) # Huge /\ TradeTime(raw) > 0
  BY <1>1, <1>3 DEF TradeTime, Sound
<1>5. time = msg.time
  BY <1>2, <1>4 DEF Int64
<1>6. msg.side \in {"BUY", "SELL"} /\ UpperSide(msg.side) = msg.side
  BY <1>2 DEF SideFromBuyerMaker, UpperSide
<1>7. msg.symbol.market # "" /\ Upper(msg.symbol) = msg.symbol
  <2>1. PICK m : m = raw.symbol.market /\ m # ""
    BY <1>1 DEF Sound
  <2>2. PICK f : f = FALSE
    OBVIOUS
  <2>3. msg.symbol = [market |-> m, lower |-> f, dashed |-> f]
    BY <1>2, <2>1, <2>2 DEF Canonical
  <2>4. [msg.symbol EXCEPT !.lower = f] = msg.symbol
    BY <2>3
  <2>5. Upper(msg.symbol) = [msg.symbol EXCEPT !.lower = f]
    BY <2>2 DEF Upper
  <2>6. msg.symbol.market # ""
    <3>1. msg.symbol.market = m
      BY <2>3
    <3> QED
      BY <3>1, <2>1
  <2> QED
    BY <2>4, <2>5, <2>6
<1>8. PositiveNumber(msg.price)
  BY <1>2, <1>3 DEF PositiveNumber
<1>9. PositiveNumber(msg.quantity)
  BY <1>1, <1>2 DEF Sound, FinitePositive, Finite, PositiveNumber
<1>10. PositiveNumber(time)
  BY <1>2, <1>3, <1>4, <1>5 DEF PositiveNumber
<1>11. Forwards(msg, time)
  BY <1>2, <1>6, <1>7, <1>8, <1>9, <1>10 DEF Forwards
<1>12. Normalized(msg, time) = msg
  <2>1. Normalized(msg, time) =
          [msg EXCEPT !.symbol = msg.symbol, !.side = msg.side, !.time = msg.time]
    BY <1>5, <1>6, <1>7 DEF Normalized
  <2>2. PICK a, b, c, d, e, f, g :
          msg = [json |-> a, nth |-> b, symbol |-> c, side |-> d,
                 price |-> e, quantity |-> f, time |-> g]
    BY MessageFields
  <2> QED
    BY <2>1, <2>2
<1> QED
  BY <1>7, <1>11, <1>12

(* So a message of trades.normalized that has a number has its symbol in   *)
(* upper case.                                                             *)
LEMMA OwnAreUpper ==
  ASSUME NEW n \in NormalizedMessages, n.nth # 0
  PROVE  Upper(n.symbol) = n.symbol
<1>1. PICK msg \in RawMessages :
        \E time \in Int64(msg.time) : Forwards(msg, time) /\ n = Normalized(msg, time)
  BY DEF NormalizedMessages
<1>2. PICK time \in Int64(msg.time) : n = Normalized(msg, time)
  BY <1>1
<1>3. n.nth = msg.nth
  BY <1>2, MessageFields DEF Normalized
<1> QED
  BY <1>2, <1>3, OwnPass

(* A record that is accepted is sound, can be encoded, and is encoded with *)
(* its flow.                                                               *)
LEMMA AcceptedIsSound ==
  ASSUME NEW raw \in Raws, Accepts(raw), NEW n \in Nat \ {0}
  PROVE  /\ Encodable(raw) /\ Encoded(raw, n) \in RawMessages
         /\ Flow(Encoded(raw, n).symbol, Signed(Encoded(raw, n))) =
              Flow(Canonical(raw.symbol), IF raw.maker THEN -raw.quantity ELSE raw.quantity)
<1>1. Sound(raw)
  BY DEF Accepts, Valid, Sound
<1>2. Encodable(raw)
  BY DEF Accepts, Valid, Encodable, FinitePositive
<1>3. Encoded(raw, n) \in OwnMessages
  <2>1. <<raw, n>> \in {r \in Raws : Sound(r)} \X (Nat \ {0})
    BY <1>1
  <2> QED
    BY <2>1 DEF OwnMessages
<1>4. Signed(Encoded(raw, n)) = IF raw.maker THEN -raw.quantity ELSE raw.quantity
  BY DEF Encoded, Signed, UpperSide, SideFromBuyerMaker
<1>5. Encoded(raw, n).symbol = Canonical(raw.symbol)
  BY DEF Encoded
<1> QED
  BY <1>2, <1>3, <1>4, <1>5 DEF RawMessages

-----------------------------------------------------------------------------
(* The topics.                                                             *)

(* What a topic holds after a message was written to it.                   *)
LEMMA Written ==
  ASSUME NEW S, \A x \in S : x.nth \in Nat, NEW t \in Seq(S), NEW m \in S
  PROVE  /\ Append(t, m) \in Seq(S)
         /\ Range(Append(t, m)) = Range(t) \cup {m}
         /\ Numbers(Append(t, m)) = Numbers(t) \cup ({m.nth} \ {0})
         /\ InOrder(t) /\ (m.nth # 0 => \A k \in Numbers(t) : k < m.nth) => InOrder(Append(t, m))
<1>1. PICK n \in Nat : n = Len(t)
  OBVIOUS
<1> DEFINE u == Append(t, m)
<1>2. /\ u \in Seq(S) /\ DOMAIN u = 1..(n + 1) /\ DOMAIN t = 1..n
      /\ u[n + 1] = m /\ \A i \in 1..n : u[i] = t[i]
  BY <1>1, AppendProperties
<1> HIDE DEF u
<1>3. Range(u) = Range(t) \cup {m}
  <2>1. \A x \in Range(u) : x \in Range(t) \cup {m}
    BY <1>1, <1>2 DEF Range
  <2>2. \A x \in Range(t) \cup {m} : x \in Range(u)
    BY <1>1, <1>2 DEF Range
  <2> QED
    BY <2>1, <2>2
<1>4. Numbers(u) = Numbers(t) \cup ({m.nth} \ {0})
  <2>1. \A x \in Numbers(u) : x \in Numbers(t) \cup ({m.nth} \ {0})
    BY <1>1, <1>2 DEF Numbers
  <2>2. \A x \in Numbers(t) \cup ({m.nth} \ {0}) : x \in Numbers(u)
    BY <1>1, <1>2 DEF Numbers
  <2> QED
    BY <2>1, <2>2
<1>5. ASSUME InOrder(t), m.nth # 0 => \A k \in Numbers(t) : k < m.nth
      PROVE  InOrder(u)
  <2> SUFFICES ASSUME NEW i \in 1..(n + 1), NEW j \in 1..(n + 1), i < j,
                      u[i].nth # 0, u[j].nth # 0
               PROVE  u[i].nth < u[j].nth
    BY <1>2 DEF InOrder
  <2>0. i \in 1..n /\ u[i] = t[i]
    BY <1>1, <1>2
  <2>1. i \in 1..n /\ u[i] = t[i] /\ t[i].nth \in Numbers(t)
    BY <2>0, <1>2 DEF Numbers
  <2>2. CASE j \in 1..n
    BY <2>1, <2>2, <1>2, <1>5 DEF InOrder
  <2>3. CASE j = n + 1
    BY <2>1, <2>3, <1>2, <1>5
  <2> QED
    BY <2>2, <2>3, <1>1
<1> QED
  BY <1>2, <1>3, <1>4, <1>5 DEF u

(* What a topic holds after its next message was taken.                    *)
LEMMA Taken ==
  ASSUME NEW S, \A x \in S : x.nth \in Nat, NEW t \in Seq(S), t # <<>>
  PROVE  /\ Tail(t) \in Seq(S) /\ Head(t) \in S
         /\ Range(t) = Range(Tail(t)) \cup {Head(t)}
         /\ Numbers(t) = Numbers(Tail(t)) \cup ({Head(t).nth} \ {0})
         /\ InOrder(t) => /\ InOrder(Tail(t))
                          /\ Head(t).nth # 0 => \A k \in Numbers(Tail(t)) : Head(t).nth < k
<1>1. PICK n \in Nat \ {0} : n = Len(t)
  OBVIOUS
<1> DEFINE u == Tail(t)
<1>2. /\ u \in Seq(S) /\ DOMAIN u = 1..(n - 1) /\ DOMAIN t = 1..n
      /\ Head(t) = t[1] /\ Head(t) \in S /\ \A i \in 1..(n - 1) : u[i] = t[i + 1]
  BY <1>1, HeadTailProperties
<1>3. /\ \A i \in 1..n : i = 1 \/ (i - 1 \in 1..(n - 1) /\ t[i] = u[i - 1])
      /\ \A i \in 1..(n - 1) : i + 1 \in 1..n /\ u[i] = t[i + 1]
      /\ 1 \in 1..n
  <2>1. \A i \in 1..n : i = 1 \/ (i - 1 \in 1..(n - 1) /\ (i - 1) + 1 = i)
    BY <1>1
  <2> QED
    BY <2>1, <1>1, <1>2
<1> DEFINE h == Head(t)
<1> HIDE DEF u, h
<1>3a. h = t[1]
  BY <1>2 DEF h
<1>4. Range(t) = Range(u) \cup {h}
  <2>1. ASSUME NEW x \in Range(t) PROVE x \in Range(u) \cup {h}
    <3>1. PICK i \in 1..n : x = t[i]
      BY <1>2 DEF Range
    <3> QED
      BY <3>1, <1>2, <1>3, <1>3a DEF Range
  <2>2. ASSUME NEW x \in Range(u) \cup {h} PROVE x \in Range(t)
    <3>1. CASE x = h
      BY <3>1, <1>2, <1>3, <1>3a DEF Range
    <3>2. CASE x \in Range(u)
      <4>1. PICK i \in 1..(n - 1) : x = u[i]
        BY <3>2, <1>2 DEF Range
      <4> QED
        BY <4>1, <1>2, <1>3 DEF Range
    <3> QED
      BY <2>2, <3>1, <3>2
  <2> QED
    BY <2>1, <2>2
<1>5. Numbers(t) = Numbers(u) \cup ({h.nth} \ {0})
  <2>1. \A x : x \in Numbers(t) <=> x # 0 /\ \E y \in Range(t) : x = y.nth
    BY DEF Numbers, Range
  <2>2. \A x : x \in Numbers(u) <=> x # 0 /\ \E y \in Range(u) : x = y.nth
    BY DEF Numbers, Range
  <2> QED
    BY <2>1, <2>2, <1>4
<1>6. ASSUME InOrder(t) PROVE InOrder(u)
  <2> SUFFICES ASSUME NEW i \in 1..(n - 1), NEW j \in 1..(n - 1), i < j,
                      u[i].nth # 0, u[j].nth # 0
               PROVE  u[i].nth < u[j].nth
    BY <1>2 DEF InOrder
  <2>1. i + 1 \in 1..n /\ j + 1 \in 1..n /\ i + 1 < j + 1
    BY <1>3
  <2>2. u[i] = t[i + 1] /\ u[j] = t[j + 1]
    BY <1>3
  <2> QED
    BY <2>1, <2>2, <1>2, <1>6 DEF InOrder
<1>7. ASSUME InOrder(t), h.nth # 0
      PROVE  \A k \in Numbers(u) : h.nth < k
  <2> SUFFICES ASSUME NEW k \in Numbers(u) PROVE h.nth < k
    OBVIOUS
  <2>1. PICK i \in 1..(n - 1) : k = u[i].nth /\ k # 0
    BY <1>2 DEF Numbers
  <2>2. 1 \in 1..n /\ i + 1 \in 1..n /\ 1 < i + 1 /\ k = t[i + 1].nth
    BY <1>1, <1>3, <2>1
  <2> QED
    BY <1>2, <1>3a, <1>7, <2>1, <2>2 DEF InOrder
<1> QED
  BY <1>2, <1>4, <1>5, <1>6, <1>7 DEF u, h

(* The messages of every topic have numbers.                               *)
LEMMA Numbered ==
  /\ \A x \in RawMessages : x.nth \in Nat
  /\ \A x \in NormalizedMessages : x.nth \in Nat
  /\ \A x \in ScoredTrades : x.nth \in Nat
<1>1. \A x \in RawMessages : x.nth \in Nat
  BY MessageFields
<1>2. \A x \in NormalizedMessages : x.nth \in Nat
  BY NormalizedIsHarmless
<1> QED
  BY <1>1, <1>2 DEF ScoredTrades

-----------------------------------------------------------------------------
(* The steps of the services.                                              *)

FlowInv == Wholesome /\ PublishedIsScored

(* The ingestor writes the next accepted trade behind all the others.      *)
LEMMA IngestKeeps ==
  ASSUME FlowInv, NEW raw \in Raws, Ingest(raw)
  PROVE  FlowInv'
<1>1. CASE Accepts(raw)
  <2> DEFINE flow == Flow(Canonical(raw.symbol), IF raw.maker THEN -raw.quantity ELSE raw.quantity)
  <2>1. flow \in AcceptedFlows /\ accepted \in Seq(AcceptedFlows)
    BY DEF AcceptedFlows, FlowInv, Wholesome
  <2>2. accepted' = Append(accepted, flow)
    BY <1>1 DEF Ingest
  <2> HIDE DEF flow
  <2>3. PICK n \in Nat : n = Len(accepted)
    BY <2>1
  <2>4. /\ accepted' \in Seq(AcceptedFlows) /\ Len(accepted') = n + 1
        /\ DOMAIN accepted = 1..n /\ DOMAIN accepted' = 1..(n + 1)
        /\ accepted'[n + 1] = flow
        /\ \A k \in 1..n : accepted'[k] = accepted[k]
    BY <2>1, <2>2, <2>3, AppendProperties
  <2> DEFINE msg == Encoded(raw, n + 1)
  <2>5. /\ Encodable(raw) /\ msg \in RawMessages
        /\ Flow(msg.symbol, Signed(msg)) = flow
    <3>1. n + 1 \in Nat \ {0}
      BY <2>3
    <3> QED
      BY <1>1, <3>1, AcceptedIsSound DEF flow
  <2>6. msg.nth = n + 1
    BY DEF Encoded
  <2>7. /\ rawTopic' = Append(rawTopic, msg)
        /\ UNCHANGED <<normTopic, scored, raised>>
    BY <1>1, <2>4, <2>5 DEF Ingest
  <2> HIDE DEF msg
  <2>8. /\ rawTopic' \in Seq(RawMessages)
        /\ Range(rawTopic') = Range(rawTopic) \cup {msg}
        /\ Numbers(rawTopic') = Numbers(rawTopic) \cup {n + 1}
        /\ InOrder(rawTopic) /\ (\A k \in Numbers(rawTopic) : k < n + 1) => InOrder(rawTopic')
    <3>1. {msg.nth} \ {0} = {n + 1}
      BY <2>3, <2>6
    <3>2. rawTopic \in Seq(RawMessages) /\ \A x \in RawMessages : x.nth \in Nat
      BY Numbered DEF FlowInv, Wholesome
    <3>3. /\ Append(rawTopic, msg) \in Seq(RawMessages)
          /\ Range(Append(rawTopic, msg)) = Range(rawTopic) \cup {msg}
          /\ Numbers(Append(rawTopic, msg)) = Numbers(rawTopic) \cup ({msg.nth} \ {0})
          /\ InOrder(rawTopic) /\ (msg.nth # 0 => \A k \in Numbers(rawTopic) : k < msg.nth)
               => InOrder(Append(rawTopic, msg))
      BY <2>5, <3>2, Written
    <3> QED
      BY <2>6, <2>7, <3>1, <3>3
  <2>9. Numbers(scored) \cup Numbers(normTopic) \cup Numbers(rawTopic) = 1..n
    BY <2>4 DEF FlowInv, PublishedIsScored
  <2>10. Wholesome'
    BY <2>4, <2>7, <2>8 DEF FlowInv, Wholesome
  <2>11. /\ InOrder(scored)' /\ InOrder(normTopic)' /\ InOrder(rawTopic)'
    <3>1. \A k \in Numbers(rawTopic) : k < n + 1
      BY <2>3, <2>9
    <3> QED
      BY <2>7, <2>8, <3>1 DEF FlowInv, PublishedIsScored, InOrder
  <2>12. /\ Ahead(scored, normTopic)' /\ Ahead(scored, rawTopic)' /\ Ahead(normTopic, rawTopic)'
    <3>1. \A k \in Numbers(scored) \cup Numbers(normTopic) : k < n + 1
      BY <2>3, <2>9
    <3>2. Numbers(scored)' = Numbers(scored) /\ Numbers(normTopic)' = Numbers(normTopic)
      BY <2>7 DEF Numbers
    <3>3. Numbers(rawTopic)' = Numbers(rawTopic) \cup {n + 1}
      BY <2>8
    <3> QED
      BY <3>1, <3>2, <3>3 DEF FlowInv, PublishedIsScored, Ahead
  <2>13. (Numbers(scored) \cup Numbers(normTopic) \cup Numbers(rawTopic))' = DOMAIN accepted'
    <3>1. Numbers(scored)' = Numbers(scored) /\ Numbers(normTopic)' = Numbers(normTopic)
      BY <2>7 DEF Numbers
    <3>2. Numbers(rawTopic)' = Numbers(rawTopic) \cup {n + 1}
      BY <2>8
    <3>3. 1..(n + 1) = 1..n \cup {n + 1}
      BY <2>3
    <3> QED
      BY <2>4, <2>9, <3>1, <3>2, <3>3
  <2>14. \A trade \in Range(scored)' : trade.nth # 0 => trade.flow = accepted'[trade.nth]
    <3>1. Range(scored)' = Range(scored)
      BY <2>7 DEF Range
    <3>2. \A trade \in Range(scored) : trade.nth # 0 => trade.nth \in 1..n
      BY <2>9 DEF Numbers, Range
    <3> QED
      BY <2>4, <3>1, <3>2 DEF FlowInv, PublishedIsScored
  <2>15. \A m \in (Range(normTopic) \cup Range(rawTopic))' :
           m.nth # 0 => Flow(m.symbol, Signed(m)) = accepted'[m.nth]
    <3>1. (Range(normTopic) \cup Range(rawTopic))' = (Range(normTopic) \cup Range(rawTopic)) \cup {msg}
      <4>1. Range(normTopic)' = Range(normTopic)
        BY <2>7 DEF Range
      <4> QED
        BY <4>1, <2>8
    <3>2. \A m \in Range(normTopic) \cup Range(rawTopic) : m.nth # 0 => m.nth \in 1..n
      BY <2>9 DEF Numbers, Range
    <3>3. \A m \in Range(normTopic) \cup Range(rawTopic) :
            m.nth # 0 => Flow(m.symbol, Signed(m)) = accepted[m.nth]
      BY DEF FlowInv, PublishedIsScored
    <3> QED
      BY <2>4, <2>5, <2>6, <3>1, <3>2, <3>3
  <2> QED
    BY <2>10, <2>11, <2>12, <2>13, <2>14, <2>15 DEF FlowInv, PublishedIsScored
<1>2. CASE ~Accepts(raw)
  <2>1. UNCHANGED <<rawTopic, normTopic, scored, accepted, raised>>
    BY <1>2 DEF Ingest
  <2> QED
    BY <2>1 DEF FlowInv, Wholesome, PublishedIsScored, InOrder, Ahead, Numbers, Range
<1> QED
  BY <1>1, <1>2

(* Messages of other programs have no number.                              *)
LEMMA WriteKeeps ==
  ASSUME FlowInv, NEW msg \in Foreign, Write(msg)
  PROVE  FlowInv'
<1>1. msg \in RawMessages /\ msg.nth = 0
  <2>1. msg = [json |-> msg.json, nth |-> 0, symbol |-> msg.symbol, side |-> msg.side,
               price |-> msg.price, quantity |-> msg.quantity, time |-> msg.time]
    BY TradeFlowAssumption DEF TradeFlowAssumption
  <2> QED
    BY <2>1 DEF RawMessages
<1>2. /\ rawTopic' = Append(rawTopic, msg)
      /\ UNCHANGED <<normTopic, scored, accepted, raised>>
  BY DEF Write
<1>3. /\ rawTopic' \in Seq(RawMessages)
      /\ Range(rawTopic') = Range(rawTopic) \cup {msg}
      /\ Numbers(rawTopic') = Numbers(rawTopic)
      /\ InOrder(rawTopic) => InOrder(rawTopic')
  <2>1. rawTopic \in Seq(RawMessages) /\ \A x \in RawMessages : x.nth \in Nat
    BY Numbered DEF FlowInv, Wholesome
  <2>2. /\ Append(rawTopic, msg) \in Seq(RawMessages)
        /\ Range(Append(rawTopic, msg)) = Range(rawTopic) \cup {msg}
        /\ Numbers(Append(rawTopic, msg)) = Numbers(rawTopic) \cup ({msg.nth} \ {0})
        /\ InOrder(rawTopic) /\ (msg.nth # 0 => \A k \in Numbers(rawTopic) : k < msg.nth)
             => InOrder(Append(rawTopic, msg))
    BY <1>1, <2>1, Written
  <2> QED
    BY <1>1, <1>2, <2>2
<1>4. Wholesome'
  BY <1>2, <1>3 DEF FlowInv, Wholesome
<1>5. /\ Numbers(scored)' = Numbers(scored) /\ Numbers(normTopic)' = Numbers(normTopic)
      /\ Range(scored)' = Range(scored) /\ Range(normTopic)' = Range(normTopic)
      /\ InOrder(scored)' = InOrder(scored) /\ InOrder(normTopic)' = InOrder(normTopic)
  BY <1>2 DEF Numbers, Range, InOrder
<1>6. PublishedIsScored'
  BY <1>1, <1>2, <1>3, <1>5 DEF FlowInv, PublishedIsScored, Ahead
<1> QED
  BY <1>4, <1>6 DEF FlowInv

(* The processing service passes every numbered message on unaltered, and  *)
(* behind all it passed before.                                            *)
LEMMA ProcessKeeps ==
  ASSUME FlowInv, Process
  PROVE  FlowInv'
<1> DEFINE msg == Head(rawTopic)
<1>1. /\ rawTopic \in Seq(RawMessages) /\ rawTopic # <<>>
      /\ normTopic \in Seq(NormalizedMessages)
      /\ rawTopic' = Tail(rawTopic)
      /\ UNCHANGED <<scored, accepted, raised>>
  BY DEF FlowInv, Wholesome, Process
<1>2. PICK time \in Int64(msg.time) :
        normTopic' = IF Forwards(msg, time) THEN Append(normTopic, Normalized(msg, time))
                     ELSE normTopic
  BY DEF Process
<1>3. /\ rawTopic' \in Seq(RawMessages) /\ msg \in RawMessages
      /\ Range(rawTopic) = Range(rawTopic') \cup {msg}
      /\ Numbers(rawTopic) = Numbers(rawTopic') \cup ({msg.nth} \ {0})
      /\ InOrder(rawTopic) => /\ InOrder(rawTopic')
                              /\ msg.nth # 0 => \A k \in Numbers(rawTopic') : msg.nth < k
  BY <1>1, Numbered, Taken
<1> HIDE DEF msg
<1>4. PICK h \in Nat : h = msg.nth
  BY <1>3, Numbered
<1>5. /\ h # 0 => Forwards(msg, time) /\ Normalized(msg, time) = msg
      /\ Normalized(msg, time).nth = h
  <2>1. h # 0 => Forwards(msg, time) /\ Normalized(msg, time) = msg
    BY <1>2, <1>3, <1>4, OwnPass
  <2>2. Normalized(msg, time).nth = h
    BY <1>3, <1>4, MessageFields DEF Normalized
  <2> QED
    BY <2>1, <2>2
<1>6. /\ normTopic' \in Seq(NormalizedMessages)
      /\ Numbers(normTopic') = Numbers(normTopic) \cup ({h} \ {0})
      /\ \A m \in Range(normTopic') : m \in Range(normTopic) \/ m.nth = 0 \/ m = msg
      /\ InOrder(normTopic) /\ (h # 0 => \A k \in Numbers(normTopic) : k < h) => InOrder(normTopic')
  <2>1. CASE Forwards(msg, time)
    <3> DEFINE n == Normalized(msg, time)
    <3>1. n \in NormalizedMessages
      BY <1>2, <1>3, <2>1 DEF NormalizedMessages
    <3>2. n.nth = h /\ (n.nth = 0 \/ n = msg)
      BY <1>5
    <3>3. normTopic' = Append(normTopic, n)
      BY <1>2, <2>1
    <3> HIDE DEF n
    <3>4. /\ Append(normTopic, n) \in Seq(NormalizedMessages)
          /\ Range(Append(normTopic, n)) = Range(normTopic) \cup {n}
          /\ Numbers(Append(normTopic, n)) = Numbers(normTopic) \cup ({n.nth} \ {0})
          /\ InOrder(normTopic) /\ (n.nth # 0 => \A k \in Numbers(normTopic) : k < n.nth)
               => InOrder(Append(normTopic, n))
      BY <1>1, <3>1, Numbered, Written
    <3> QED
      BY <3>2, <3>3, <3>4
  <2>2. CASE ~Forwards(msg, time)
    <3>1. h = 0 /\ normTopic' = normTopic
      BY <1>2, <1>5, <2>2
    <3> QED
      BY <1>1, <3>1
  <2> QED
    BY <2>1, <2>2
<1>7. /\ InOrder(scored) /\ InOrder(normTopic) /\ InOrder(rawTopic)
      /\ Ahead(scored, normTopic) /\ Ahead(scored, rawTopic) /\ Ahead(normTopic, rawTopic)
      /\ Numbers(scored) \cup Numbers(normTopic) \cup Numbers(rawTopic) = DOMAIN accepted
      /\ \A trade \in Range(scored) : trade.nth # 0 => trade.flow = accepted[trade.nth]
      /\ \A m \in Range(normTopic) \cup Range(rawTopic) :
           m.nth # 0 => Flow(m.symbol, Signed(m)) = accepted[m.nth]
  BY DEF FlowInv, PublishedIsScored
<1>8. h # 0 => h \in Numbers(rawTopic) /\ msg \in Range(rawTopic)
  BY <1>3, <1>4
<1>9. InOrder(rawTopic') /\ InOrder(normTopic')
  <2>1. h # 0 => \A k \in Numbers(normTopic) : k < h
    BY <1>7, <1>8 DEF Ahead
  <2> QED
    BY <1>3, <1>6, <1>7, <2>1
<1>10. Ahead(scored, normTopic') /\ Ahead(scored, rawTopic') /\ Ahead(normTopic', rawTopic')
  <2>1. h # 0 => \A k \in Numbers(rawTopic') : h < k
    BY <1>3, <1>4, <1>7
  <2>2. h # 0 => \A k \in Numbers(scored) : k < h
    BY <1>7, <1>8 DEF Ahead
  <2>3. Numbers(rawTopic') \subseteq Numbers(rawTopic)
    BY <1>3
  <2>4. \A k \in Numbers(normTopic') : k \in Numbers(normTopic) \/ (k = h /\ h # 0)
    BY <1>6
  <2> QED
    BY <1>7, <2>1, <2>2, <2>3, <2>4 DEF Ahead
<1>11. Numbers(scored) \cup Numbers(normTopic') \cup Numbers(rawTopic') = DOMAIN accepted
  BY <1>3, <1>4, <1>6, <1>7
<1>12. \A m \in Range(normTopic') \cup Range(rawTopic') :
         m.nth # 0 => Flow(m.symbol, Signed(m)) = accepted[m.nth]
  BY <1>3, <1>6, <1>7
<1>13. /\ InOrder(scored)' /\ InOrder(normTopic)' /\ InOrder(rawTopic)'
       /\ Ahead(scored, normTopic)' /\ Ahead(scored, rawTopic)' /\ Ahead(normTopic, rawTopic)'
       /\ (Numbers(scored) \cup Numbers(normTopic) \cup Numbers(rawTopic))' = DOMAIN accepted'
  BY <1>1, <1>7, <1>9, <1>10, <1>11
<1>14. PublishedIsScored'
  BY <1>1, <1>7, <1>12, <1>13 DEF PublishedIsScored
<1>15. Wholesome'
  BY <1>1, <1>3, <1>6 DEF FlowInv, Wholesome
<1> QED
  BY <1>14, <1>15 DEF FlowInv

(* The scorer neither raises on a message nor skips it, and counts it      *)
(* under its symbol behind all it counted before.                          *)
LEMMA ScoreKeeps ==
  ASSUME FlowInv, Score
  PROVE  FlowInv'
<1> DEFINE msg == Head(normTopic)
           trade == [flow |-> Flow(Upper(msg.symbol), Signed(msg)), nth |-> msg.nth]
<1>1. /\ normTopic \in Seq(NormalizedMessages) /\ normTopic # <<>>
      /\ scored \in Seq(ScoredTrades)
      /\ normTopic' = Tail(normTopic)
      /\ UNCHANGED <<rawTopic, accepted>>
  BY DEF FlowInv, Wholesome, Score
<1>2. /\ normTopic' \in Seq(NormalizedMessages) /\ msg \in NormalizedMessages
      /\ Range(normTopic) = Range(normTopic') \cup {msg}
      /\ Numbers(normTopic) = Numbers(normTopic') \cup ({msg.nth} \ {0})
      /\ InOrder(normTopic) => /\ InOrder(normTopic')
                               /\ msg.nth # 0 => \A k \in Numbers(normTopic') : msg.nth < k
  BY <1>1, Numbered, Taken
<1>3. ~Raises(msg) /\ ~Skips(msg)
  BY <1>2, NormalizedIsHarmless
<1>4. raised' = raised /\ scored' = Append(scored, trade)
  BY <1>3 DEF Score
<1>5. trade \in ScoredTrades /\ trade.nth = msg.nth
  BY <1>2 DEF ScoredTrades
<1>6. msg.nth # 0 => trade.flow = Flow(msg.symbol, Signed(msg))
  BY <1>2, OwnAreUpper
<1> HIDE DEF msg, trade
<1>7. PICK h \in Nat : h = msg.nth
  BY <1>2, Numbered
<1>8. /\ scored' \in Seq(ScoredTrades)
      /\ Range(scored') = Range(scored) \cup {trade}
      /\ Numbers(scored') = Numbers(scored) \cup ({h} \ {0})
      /\ InOrder(scored) /\ (h # 0 => \A k \in Numbers(scored) : k < h) => InOrder(scored')
  <2>1. /\ Append(scored, trade) \in Seq(ScoredTrades)
        /\ Range(Append(scored, trade)) = Range(scored) \cup {trade}
        /\ Numbers(Append(scored, trade)) = Numbers(scored) \cup ({trade.nth} \ {0})
        /\ InOrder(scored) /\ (trade.nth # 0 => \A k \in Numbers(scored) : k < trade.nth)
             => InOrder(Append(scored, trade))
    BY <1>1, <1>5, Numbered, Written
  <2> QED
    BY <1>4, <1>5, <1>7, <2>1
<1>9. /\ InOrder(scored) /\ InOrder(normTopic) /\ InOrder(rawTopic)
      /\ Ahead(scored, normTopic) /\ Ahead(scored, rawTopic) /\ Ahead(normTopic, rawTopic)
      /\ Numbers(scored) \cup Numbers(normTopic) \cup Numbers(rawTopic) = DOMAIN accepted
      /\ \A t \in Range(scored) : t.nth # 0 => t.flow = accepted[t.nth]
      /\ \A m \in Range(normTopic) \cup Range(rawTopic) :
           m.nth # 0 => Flow(m.symbol, Signed(m)) = accepted[m.nth]
  BY DEF FlowInv, PublishedIsScored
<1>10. h # 0 => h \in Numbers(normTopic) /\ msg \in Range(normTopic)
  BY <1>2, <1>7
<1>11. InOrder(normTopic') /\ InOrder(scored')
  <2>1. h # 0 => \A k \in Numbers(scored) : k < h
    BY <1>9, <1>10 DEF Ahead
  <2> QED
    BY <1>2, <1>8, <1>9, <2>1
<1>12. Ahead(scored', normTopic') /\ Ahead(scored', rawTopic) /\ Ahead(normTopic', rawTopic)
  <2>1. h # 0 => \A k \in Numbers(normTopic') : h < k
    BY <1>2, <1>7, <1>9
  <2>2. h # 0 => \A k \in Numbers(rawTopic) : h < k
    BY <1>9, <1>10 DEF Ahead
  <2>3. Numbers(normTopic') \subseteq Numbers(normTopic)
    BY <1>2
  <2>4. \A k \in Numbers(scored') : k \in Numbers(scored) \/ (k = h /\ h # 0)
    BY <1>8
  <2> QED
    BY <1>9, <2>1, <2>2, <2>3, <2>4 DEF Ahead
<1>13. Numbers(scored') \cup Numbers(normTopic') \cup Numbers(rawTopic) = DOMAIN accepted
  BY <1>2, <1>7, <1>8, <1>9
<1>14. \A t \in Range(scored') : t.nth # 0 => t.flow = accepted[t.nth]
  <2>1. msg.nth # 0 => Flow(msg.symbol, Signed(msg)) = accepted[msg.nth]
    BY <1>7, <1>9, <1>10
  <2> QED
    BY <1>5, <1>6, <1>8, <1>9, <2>1
<1>15. \A m \in Range(normTopic') \cup Range(rawTopic) :
         m.nth # 0 => Flow(m.symbol, Signed(m)) = accepted[m.nth]
  BY <1>2, <1>9
<1>16. /\ InOrder(scored)' /\ InOrder(normTopic)' /\ InOrder(rawTopic)'
       /\ Ahead(scored, normTopic)' /\ Ahead(scored, rawTopic)' /\ Ahead(normTopic, rawTopic)'
       /\ (Numbers(scored) \cup Numbers(normTopic) \cup Numbers(rawTopic))' = DOMAIN accepted'
  BY <1>1, <1>9, <1>11, <1>12, <1>13
<1>17. PublishedIsScored'
  BY <1>1, <1>14, <1>15, <1>16 DEF PublishedIsScored
<1>18. Wholesome'
  BY <1>1, <1>2, <1>4, <1>8 DEF FlowInv, Wholesome
<1> QED
  BY <1>17, <1>18 DEF FlowInv

(* The invariant holds along every behaviour.                              *)
LEMMA FlowInvariance == Spec => []FlowInv
<1>1. Init => FlowInv
  <2> SUFFICES ASSUME Init PROVE FlowInv
    OBVIOUS
  <2>1. rawTopic = <<>> /\ normTopic = <<>> /\ scored = <<>> /\ accepted = <<>> /\ ~raised
    BY DEF Init
  <2>2. Wholesome
    BY <2>1 DEF Wholesome
  <2>3. Numbers(<<>>) = {} /\ Range(<<>>) = {} /\ InOrder(<<>>)
    BY DEF Numbers, Range, InOrder
  <2> QED
    BY <2>1, <2>2, <2>3 DEF FlowInv, PublishedIsScored, Ahead
<1>2. FlowInv /\ [Next]_vars => FlowInv'
  <2> SUFFICES ASSUME FlowInv, [Next]_vars
               PROVE  FlowInv'
    OBVIOUS
  <2>1. CASE \E raw \in Raws : Ingest(raw)
    BY <2>1, IngestKeeps
  <2>2. CASE \E msg \in Foreign : Write(msg)
    BY <2>2, WriteKeeps
  <2>3. CASE Process
    BY <2>3, ProcessKeeps
  <2>4. CASE Score
    BY <2>4, ScoreKeeps
  <2>5. CASE UNCHANGED vars
    BY <2>5 DEF vars, FlowInv, Wholesome, PublishedIsScored, InOrder, Ahead, Numbers, Range
  <2> QED
    BY <2>1, <2>2, <2>3, <2>4, <2>5 DEF Next
<1> QED
  BY <1>1, <1>2, PTL DEF Spec

(* The scorer never meets a message that would end it, and that it would   *)
(* meet again at every start: the second normalizer keeps them out.        *)
THEOREM ScorerNeverPoisoned == Spec => []NoPoison
<1>1. FlowInv => NoPoison
  BY DEF FlowInv, Wholesome, NoPoison
<1> QED
  BY <1>1, FlowInvariance, PTL

(* Every record the ingestor accepts is scored once, in order, with its    *)
(* symbol and sign: it is neither lost for a float nor refused later.      *)
THEOREM AcceptedIsScored == Spec => []PublishedIsScored
<1>1. FlowInv => PublishedIsScored
  BY DEF FlowInv
<1> QED
  BY <1>1, FlowInvariance, PTL

-----------------------------------------------------------------------------
(* The sums and the powers the statistics are made of.                     *)

(* Induction up to n, for the set of the numbers a formula holds of.       *)
LEMMA Induction ==
  ASSUME NEW n \in Nat, NEW P, 0 \in P, \A i \in 1..n : i - 1 \in P => i \in P
  PROVE  \A i \in 0..n : i \in P
<1> DEFINE R == {p \in Nat \X Nat : p[1] < p[2]}
           Failing == {i \in 0..n : i \notin P}
<1>1. IsWellFoundedOn(R, Nat)
  BY NatLessThanWellFounded DEF OpToRel
<1>2. SUFFICES ASSUME Failing # {} PROVE FALSE
  OBVIOUS
<1>3. PICK i \in Failing : \A j \in Failing : <<j, i>> \notin R
  <2>1. Failing \subseteq Nat
    OBVIOUS
  <2> HIDE DEF R, Failing
  <2> QED
    BY <1>1, <1>2, <2>1, WFMin
<1>4. i \in 1..n /\ i \notin P
  OBVIOUS
<1>5. i - 1 \in P
  <2>1. i - 1 \in 0..n /\ <<i - 1, i>> \in R
    BY <1>4
  <2> QED
    BY <1>3, <2>1
<1> QED
  BY <1>4, <1>5

(* The partial sums of f[1] ... f[n].                                      *)
Partial(s, f, n) ==
  s \in [0..n -> Int] /\ s[0] = 0 /\ \A i \in 1..n : s[i] = s[i - 1] + f[i]

(* They end with the sum, ...                                              *)
LEMMA SumIs ==
  ASSUME NEW n \in Nat, NEW f, NEW s, Partial(s, f, n)
  PROVE  Sum(f, n) = s[n]
<1>1. s = [i \in 0..n |-> IF i = 0 THEN 0 ELSE s[i - 1] + f[i]]
  BY DEF Partial
<1>2. PICK g : /\ g = [i \in 0..n |-> IF i = 0 THEN 0 ELSE g[i - 1] + f[i]]
               /\ Sum(f, n) = g[n]
  BY <1>1, Zenon DEF Sum
<1>3. g[0] = s[0] /\ \A i \in 1..n : g[i - 1] = s[i - 1] => g[i] = s[i]
  BY <1>2 DEF Partial
<1> DEFINE P == {i \in 0..n : g[i] = s[i]}
<1>4. 0 \in P /\ \A i \in 1..n : i - 1 \in P => i \in P
  BY <1>3
<1> HIDE DEF P
<1>5. \A i \in 0..n : i \in P
  BY <1>4, Induction, Zenon
<1> QED
  BY <1>2, <1>5 DEF P

(* ... and there are some.                                                 *)
LEMMA PartialSums ==
  ASSUME NEW n \in Nat, NEW f, \A i \in 1..n : f[i] \in Int
  PROVE  /\ \E s : Partial(s, f, n)
         /\ Sum(f, n) \in Int
<1> DEFINE P == {m \in 0..n : \E s : Partial(s, f, m)}
<1>1. 0 \in P
  <2> DEFINE s == [i \in 0..0 |-> 0]
  <2>1. Partial(s, f, 0)
    BY DEF Partial
  <2> QED
    BY <2>1
<1>2. ASSUME NEW m \in 1..n, m - 1 \in P PROVE m \in P
  <2>1. PICK s : Partial(s, f, m - 1)
    BY <1>2
  <2>2. /\ s \in [0..(m - 1) -> Int] /\ s[0] = 0 /\ s[m - 1] \in Int
        /\ \A i \in 1..(m - 1) : s[i] = s[i - 1] + f[i]
    BY <2>1 DEF Partial
  <2> DEFINE t == [i \in 0..m |-> IF i = m THEN s[m - 1] + f[m] ELSE s[i]]
  <2>3. t \in [0..m -> Int] /\ t[0] = 0
    BY <2>2
  <2>4. ASSUME NEW i \in 1..m PROVE t[i] = t[i - 1] + f[i]
    BY <2>2
  <2> HIDE DEF t
  <2>5. Partial(t, f, m)
    BY <2>3, <2>4 DEF Partial
  <2> QED
    BY <2>5
<1> HIDE DEF P
<1>3. \A i \in 0..n : i \in P
  BY <1>1, <1>2, Induction, Zenon
<1>4. PICK s : Partial(s, f, n)
  BY <1>3 DEF P
<1>5. s[n] \in Int
  BY <1>4 DEF Partial
<1>6. Sum(f, n) = s[n]
  BY <1>4, SumIs
<1> QED
  BY <1>4, <1>5, <1>6

(* One more term, after the terms have been multiplied by c.               *)
LEMMA SumStep ==
  ASSUME NEW n \in Nat, NEW f, NEW g, NEW c \in Int,
         \A i \in 1..n : f[i] \in Int /\ g[i] = c * f[i],
         g[n + 1] \in Int
  PROVE  Sum(g, n + 1) = c * Sum(f, n) + g[n + 1]
<1>1. PICK s : Partial(s, f, n)
  BY PartialSums
<1>2. s \in [0..n -> Int] /\ s[0] = 0 /\ \A i \in 1..n : s[i] = s[i - 1] + f[i]
  BY <1>1 DEF Partial
<1> DEFINE t == [i \in 0..(n + 1) |-> IF i = n + 1 THEN c * s[n] + g[n + 1] ELSE c * s[i]]
<1>3. t \in [0..(n + 1) -> Int] /\ t[0] = 0 /\ t[n + 1] = c * s[n] + g[n + 1]
  BY <1>2
<1>4. ASSUME NEW i \in 1..(n + 1)
      PROVE  t[i] = t[i - 1] + g[i]
  <2>1. CASE i = n + 1
    BY <1>2, <2>1
  <2>2. CASE i \in 1..n
    <3>1. t[i] = c * s[i] /\ t[i - 1] = c * s[i - 1]
      BY <2>2
    <3> HIDE DEF t
    <3>2. s[i] = s[i - 1] + f[i] /\ s[i - 1] \in Int /\ f[i] \in Int /\ g[i] = c * f[i]
      BY <1>2, <2>2
    <3>3. PICK a \in Int, b \in Int : a = s[i - 1] /\ b = f[i]
      BY <3>2
    <3>4. c * (a + b) = c * a + c * b
      OBVIOUS
    <3> QED
      BY <3>1, <3>2, <3>3, <3>4
  <2> QED
    BY <2>1, <2>2
<1> HIDE DEF t
<1>5. Partial(t, g, n + 1)
  BY <1>3, <1>4 DEF Partial
<1>6. Sum(g, n + 1) = t[n + 1] /\ Sum(f, n) = s[n]
  BY <1>1, <1>5, SumIs
<1> QED
  BY <1>3, <1>6

(* A sum of no terms, and of one.                                          *)
LEMMA SumOfOne ==
  ASSUME NEW f, f[1] \in Int
  PROVE  Sum(f, 0) = 0 /\ Sum(f, 1) = f[1]
<1> DEFINE s == [i \in 0..0 |-> 0]
           t == [i \in 0..1 |-> IF i = 0 THEN 0 ELSE f[1]]
<1>1. Partial(s, f, 0) /\ s[0] = 0 /\ Partial(t, f, 1) /\ t[1] = f[1]
  BY DEF Partial
<1> HIDE DEF s, t
<1> QED
  BY <1>1, SumIs

(* The powers of b.                                                        *)
Powers(p, b, n) ==
  p \in [0..n -> Int] /\ p[0] = 1 /\ \A i \in 1..n : p[i] = b * p[i - 1]

(* They end with the power, ...                                            *)
LEMMA PowerIs ==
  ASSUME NEW n \in Nat, NEW b, NEW p, Powers(p, b, n)
  PROVE  Power(b, n) = p[n]
<1>1. p = [i \in 0..n |-> IF i = 0 THEN 1 ELSE b * p[i - 1]]
  BY DEF Powers
<1>2. PICK g : /\ g = [i \in 0..n |-> IF i = 0 THEN 1 ELSE b * g[i - 1]]
               /\ Power(b, n) = g[n]
  BY <1>1, Zenon DEF Power
<1>3. g[0] = p[0] /\ \A i \in 1..n : g[i - 1] = p[i - 1] => g[i] = p[i]
  BY <1>2 DEF Powers
<1> DEFINE P == {i \in 0..n : g[i] = p[i]}
<1>4. 0 \in P /\ \A i \in 1..n : i - 1 \in P => i \in P
  BY <1>3
<1> HIDE DEF P
<1>5. \A i \in 0..n : i \in P
  BY <1>4, Induction, Zenon
<1> QED
  BY <1>2, <1>5 DEF P

(* ... and there are some.                                                 *)
LEMMA PowersOf ==
  ASSUME NEW b \in Int, NEW n \in Nat
  PROVE  \E p : Powers(p, b, n)
<1> DEFINE P == {m \in 0..n : \E p : Powers(p, b, m)}
<1>1. 0 \in P
  <2> DEFINE p == [i \in 0..0 |-> 1]
  <2>1. Powers(p, b, 0)
    BY DEF Powers
  <2> QED
    BY <2>1
<1>2. ASSUME NEW m \in 1..n, m - 1 \in P PROVE m \in P
  <2>1. PICK p : Powers(p, b, m - 1)
    BY <1>2
  <2>2. /\ p \in [0..(m - 1) -> Int] /\ p[0] = 1
        /\ \A i \in 1..(m - 1) : p[i] = b * p[i - 1]
    BY <2>1 DEF Powers
  <2>3. PICK next \in Int : next = b * p[m - 1]
    BY <2>2
  <2> DEFINE q == [i \in 0..m |-> IF i = m THEN next ELSE p[i]]
  <2>4. q \in [0..m -> Int] /\ q[0] = 1
    BY <2>2
  <2>5. ASSUME NEW i \in 1..m PROVE q[i] = b * q[i - 1]
    <3>1. CASE i = m
      <4>1. q[i] = next /\ q[i - 1] = p[m - 1]
        BY <3>1
      <4> HIDE DEF q
      <4> QED
        BY <2>3, <4>1
    <3>2. CASE i # m
      <4>1. q[i] = p[i] /\ q[i - 1] = p[i - 1] /\ i \in 1..(m - 1)
        BY <3>2
      <4> HIDE DEF q
      <4> QED
        BY <2>2, <4>1
    <3> QED
      BY <3>1, <3>2
  <2> HIDE DEF q
  <2>6. Powers(q, b, m)
    BY <2>4, <2>5 DEF Powers
  <2> QED
    BY <2>6
<1> HIDE DEF P
<1>3. \A i \in 0..n : i \in P
  BY <1>1, <1>2, Induction, Zenon
<1> QED
  BY <1>3 DEF P

(* A power is an integer, and how it follows from the one before.          *)
LEMMA PowerStep ==
  ASSUME NEW b \in Int, NEW n \in Nat
  PROVE  /\ Power(b, n) \in Int /\ Power(b, 0) = 1
         /\ Power(b, n + 1) = b * Power(b, n)
<1>1. PICK p : Powers(p, b, n + 1)
  BY PowersOf
<1> DEFINE q == [i \in 0..n |-> p[i]]
           one == [i \in 0..0 |-> 1]
<1>2. Powers(q, b, n) /\ q[n] = p[n]
  BY <1>1 DEF Powers
<1>3. Powers(one, b, 0) /\ one[0] = 1
  BY DEF Powers
<1> HIDE DEF q, one
<1>4. Power(b, n + 1) = p[n + 1] /\ Power(b, n) = p[n] /\ Power(b, 0) = 1
  BY <1>1, <1>2, <1>3, PowerIs
<1>5. p[n] \in Int /\ p[n + 1] = b * p[n]
  BY <1>1 DEF Powers
<1> QED
  BY <1>4, <1>5

-----------------------------------------------------------------------------
(* The constants of the averages.                                          *)
LEMMA Averages == K \in Int /\ Alpha \in Int /\ K - Alpha \in Int
BY TradeFlowAssumption DEF TradeFlowAssumption

(* How the weights of the mean go on.                                      *)
LEMMA ShareStep ==
  /\ Share(1, 1) = 1
  /\ \A n \in Nat \ {0} :
       /\ \A i \in 1..n : Share(n, i) \in Int /\ Share(n + 1, i) = (K - Alpha) * Share(n, i)
       /\ Share(n + 1, n + 1) = Alpha * Power(K, n - 1)
<1> USE Averages
<1>1. Share(1, 1) = 1
  BY PowerStep DEF Share
<1>2. ASSUME NEW n \in Nat \ {0}, NEW i \in 1..n
      PROVE  Share(n, i) \in Int /\ Share(n + 1, i) = (K - Alpha) * Share(n, i)
  <2>1. PICK b \in Int : b = K - Alpha
    OBVIOUS
  <2>2. CASE i = 1
    <3>1. /\ Power(b, n - 1) \in Int /\ n - 1 \in Nat
          /\ Power(b, (n - 1) + 1) = b * Power(b, n - 1) /\ (n - 1) + 1 = (n + 1) - 1
      BY PowerStep
    <3> QED
      BY <2>1, <2>2, <3>1 DEF Share
  <2>3. CASE i # 1
    <3>1. /\ Power(b, n - i) \in Int /\ Power(K, i - 2) \in Int
          /\ Power(b, (n - i) + 1) = b * Power(b, n - i)
      BY <2>3, PowerStep
    <3>2. (n - i) + 1 = (n + 1) - i
      OBVIOUS
    <3>3. PICK p \in Int, q \in Int : p = Power(b, n - i) /\ q = Power(K, i - 2)
      BY <3>1
    <3>4. Share(n, i) = Alpha * p * q /\ Share(n + 1, i) = Alpha * (b * p) * q
      BY <2>1, <2>3, <3>1, <3>2, <3>3 DEF Share
    <3>5. Alpha * (b * p) * q = b * (Alpha * p * q) /\ Alpha * p * q \in Int
      OBVIOUS
    <3> QED
      BY <2>1, <3>4, <3>5
  <2> QED
    BY <2>2, <2>3
<1>3. ASSUME NEW n \in Nat \ {0}
      PROVE  Share(n + 1, n + 1) = Alpha * Power(K, n - 1)
  <2>1. (n + 1) - (n + 1) = 0 /\ (n + 1) - 2 = n - 1 /\ n + 1 # 1
    OBVIOUS
  <2>2. Power(K - Alpha, 0) = 1 /\ Power(K, n - 1) \in Int
    BY PowerStep
  <2>3. Share(n + 1, n + 1) = Alpha * 1 * Power(K, n - 1)
    BY <2>1, <2>2 DEF Share
  <2> QED
    BY <2>2, <2>3
<1> QED
  BY <1>1, <1>2, <1>3

(* The mean of one more volume.                                            *)
LEMMA MeanStep ==
  ASSUME NEW xs \in Seq(Int), NEW n \in Nat, n + 1 <= Len(xs)
  PROVE  /\ Mean(xs, n) \in Int
         /\ n = 0 => Mean(xs, 1) = xs[1]
         /\ n > 0 => Mean(xs, n + 1) =
                       Alpha * xs[n + 1] * Power(K, n - 1) + (K - Alpha) * Mean(xs, n)
<1> USE Averages
<1>0. \A i \in 1..(n + 1) : xs[i] \in Int
  OBVIOUS
<1> DEFINE f == [i \in 1..n |-> xs[i] * Share(n, i)]
           g == [i \in 1..(n + 1) |-> xs[i] * Share(n + 1, i)]
<1>1. Mean(xs, n) = Sum(f, n) /\ Mean(xs, n + 1) = Sum(g, n + 1)
  BY DEF Mean
<1>2. \A i \in 1..n : f[i] \in Int /\ g[i] = (K - Alpha) * f[i]
  <2> SUFFICES ASSUME NEW i \in 1..n
               PROVE  f[i] \in Int /\ g[i] = (K - Alpha) * f[i]
    OBVIOUS
  <2>1. /\ f[i] = xs[i] * Share(n, i) /\ g[i] = xs[i] * Share(n + 1, i)
        /\ n \in Nat \ {0}
    OBVIOUS
  <2>2. Share(n, i) \in Int /\ Share(n + 1, i) = (K - Alpha) * Share(n, i)
    BY <2>1, ShareStep
  <2>3. PICK x \in Int, s \in Int, b \in Int : x = xs[i] /\ s = Share(n, i) /\ b = K - Alpha
    BY <1>0, <2>2
  <2>4. x * (b * s) = b * (x * s) /\ x * s \in Int
    OBVIOUS
  <2> HIDE DEF f, g
  <2> QED
    BY <2>1, <2>2, <2>3, <2>4
<1>3. CASE n = 0
  <2>1. g[1] = xs[1] * 1
    BY <1>3, ShareStep
  <2>2. g[1] = xs[1] /\ g[1] \in Int
    BY <1>0, <1>3, <2>1
  <2> HIDE DEF f, g
  <2>3. Sum(f, 0) \in Int
    BY <1>2, <1>3, PartialSums
  <2> QED
    BY <1>1, <1>3, <2>2, <2>3, SumOfOne
<1>4. CASE n # 0
  <2>1. /\ g[n + 1] = xs[n + 1] * Share(n + 1, n + 1) /\ xs[n + 1] \in Int
        /\ Share(n + 1, n + 1) = Alpha * Power(K, n - 1) /\ Power(K, n - 1) \in Int
    BY <1>0, <1>4, ShareStep, PowerStep
  <2> HIDE DEF f, g
  <2>2. PICK x \in Int, p \in Int : x = xs[n + 1] /\ p = Power(K, n - 1)
    BY <2>1
  <2>3. x * (Alpha * p) = Alpha * x * p /\ Alpha * x * p \in Int
    OBVIOUS
  <2>4. g[n + 1] = Alpha * x * p /\ g[n + 1] \in Int
    BY <2>1, <2>2, <2>3
  <2>5. PICK b \in Int : b = K - Alpha
    OBVIOUS
  <2>6. Sum(g, n + 1) = b * Sum(f, n) + g[n + 1] /\ Sum(f, n) \in Int
    BY <1>2, <2>4, <2>5, SumStep, PartialSums
  <2> QED
    BY <1>1, <1>4, <2>2, <2>4, <2>5, <2>6
<1> QED
  BY <1>3, <1>4

(* A volume's deviation from the mean before it.                           *)
LEMMA Deviations ==
  ASSUME NEW xs \in Seq(Int), NEW i \in 1..Len(xs)
  PROVE  Deviation(xs, i) \in Int
<1> USE Averages
<1>1. CASE i = 1
  BY <1>1 DEF Deviation
<1>2. CASE i # 1
  <2>1. i - 1 \in Nat /\ (i - 1) + 1 <= Len(xs) /\ i - 2 \in Nat /\ xs[i] \in Int
    BY <1>2
  <2>2. Mean(xs, i - 1) \in Int /\ Power(K, i - 2) \in Int
    BY <2>1, MeanStep, PowerStep
  <2>3. PICK x \in Int, p \in Int, m \in Int :
          x = xs[i] /\ p = Power(K, i - 2) /\ m = Mean(xs, i - 1)
    BY <2>1, <2>2
  <2>4. Deviation(xs, i) = x * p - m
    BY <1>2, <2>3 DEF Deviation
  <2> QED
    BY <2>4
<1> QED
  BY <1>1, <1>2

(* How its share of the variance goes on.                                  *)
LEMMA SpreadStep ==
  ASSUME NEW xs \in Seq(Int), NEW n \in Nat, n + 1 <= Len(xs)
  PROVE  /\ \A i \in 1..n : /\ Spread(xs, n, i) \in Int
                            /\ Spread(xs, n + 1, i) = (K * (K - Alpha)) * Spread(xs, n, i)
         /\ Spread(xs, n + 1, n + 1) =
              Alpha * K * (Deviation(xs, n + 1) * Deviation(xs, n + 1))
<1> USE Averages
<1>1. PICK b \in Int : b = K - Alpha
  OBVIOUS
<1>2. ASSUME NEW i \in 1..n
      PROVE  /\ Spread(xs, n, i) \in Int
             /\ Spread(xs, n + 1, i) = (K * (K - Alpha)) * Spread(xs, n, i)
  <2>1. /\ n - i \in Nat /\ (n - i) + 1 \in Nat
        /\ (n + 1) - i = (n - i) + 1 /\ n - i + 1 = (n - i) + 1
        /\ (n + 1) - i + 1 = ((n - i) + 1) + 1
    OBVIOUS
  <2>2. /\ Power(b, n - i) \in Int /\ Power(b, (n - i) + 1) = b * Power(b, n - i)
        /\ Power(K, (n - i) + 1) \in Int
        /\ Power(K, ((n - i) + 1) + 1) = K * Power(K, (n - i) + 1)
        /\ Deviation(xs, i) \in Int
    <3>1. i \in 1..Len(xs)
      OBVIOUS
    <3> QED
      BY <2>1, <3>1, PowerStep, Deviations, Zenon
  <2>3. PICK p \in Int, q \in Int, d \in Int :
          p = Power(b, n - i) /\ q = Power(K, (n - i) + 1) /\ d = Deviation(xs, i)
    BY <2>2
  <2>4. Spread(xs, n, i) = Alpha * p * q * d * d
    BY <1>1, <2>1, <2>3, Zenon DEF Spread
  <2>5. Spread(xs, n + 1, i) = Alpha * (b * p) * (K * q) * d * d
    BY <1>1, <2>1, <2>2, <2>3, Zenon DEF Spread
  <2>6. PICK k \in Int, a \in Int : k = K /\ a = Alpha
    OBVIOUS
  <2>7. /\ a * p * q * d * d \in Int
        /\ a * (b * p) * (k * q) * d * d = (k * b) * (a * p * q * d * d)
    OBVIOUS
  <2> QED
    BY <1>1, <2>4, <2>5, <2>6, <2>7, Zenon
<1>3. Spread(xs, n + 1, n + 1) = Alpha * K * (Deviation(xs, n + 1) * Deviation(xs, n + 1))
  <2>1. (n + 1) - (n + 1) = 0 /\ (n + 1) - (n + 1) + 1 = 0 + 1
    OBVIOUS
  <2>2. Power(b, 0) = 1 /\ Power(K, 0 + 1) = K * 1
    <3>1. 0 \in Nat
      OBVIOUS
    <3> QED
      BY <3>1, PowerStep, Zenon
  <2>3. PICK d \in Int : d = Deviation(xs, n + 1)
    BY Deviations
  <2>4. Spread(xs, n + 1, n + 1) = Alpha * 1 * (K * 1) * d * d
    BY <1>1, <2>1, <2>2, <2>3, Zenon DEF Spread
  <2>5. PICK k \in Int, a \in Int : k = K /\ a = Alpha
    OBVIOUS
  <2>6. a * 1 * (k * 1) * d * d = a * k * (d * d)
    OBVIOUS
  <2> QED
    BY <2>3, <2>4, <2>5, <2>6, Zenon
<1> QED
  BY <1>2, <1>3

(* The variance with one more volume.                                      *)
LEMMA VarianceStep ==
  ASSUME NEW xs \in Seq(Int), NEW n \in Nat, n + 1 <= Len(xs)
  PROVE  /\ Variance(xs, n) \in Int
         /\ n = 0 => Variance(xs, 1) = 0
         /\ n > 0 => Variance(xs, n + 1) =
              K * (Alpha * Deviation(xs, n + 1) * Deviation(xs, n + 1)
                     + (K - Alpha) * Variance(xs, n))
<1> USE Averages
<1> DEFINE f == [i \in 1..n |-> Spread(xs, n, i)]
           g == [i \in 1..(n + 1) |-> Spread(xs, n + 1, i)]
<1>1. Variance(xs, n) = Sum(f, n) /\ Variance(xs, n + 1) = Sum(g, n + 1)
  BY DEF Variance
<1>2. PICK d \in Int : d = Deviation(xs, n + 1)
  BY Deviations
<1>3. PICK k \in Int, a \in Int, b \in Int, c \in Int :
        k = K /\ a = Alpha /\ b = K - Alpha /\ c = K * (K - Alpha)
  OBVIOUS
<1>4. \A i \in 1..n : f[i] \in Int /\ g[i] = c * f[i]
  BY <1>3, SpreadStep
<1>5. g[n + 1] = a * k * (d * d) /\ a * k * (d * d) \in Int
  <2>1. g[n + 1] = Spread(xs, n + 1, n + 1)
    OBVIOUS
  <2> HIDE DEF g
  <2>2. Spread(xs, n + 1, n + 1) = a * k * (d * d)
    BY <1>2, <1>3, SpreadStep, Zenon
  <2>3. a * k * (d * d) \in Int
    OBVIOUS
  <2> QED
    BY <2>1, <2>2, <2>3, Zenon
<1> HIDE DEF f, g
<1>6. Sum(f, n) \in Int
  BY <1>4, PartialSums
<1>7. CASE n = 0
  <2>1. d = 0
    BY <1>2, <1>7 DEF Deviation
  <2>2. g[1] = 0
    BY <1>5, <1>7, <2>1
  <2> QED
    BY <1>1, <1>6, <1>7, <2>2, SumOfOne
<1>8. CASE n # 0
  <2>1. Sum(g, n + 1) = c * Sum(f, n) + g[n + 1]
    BY <1>4, <1>5, SumStep
  <2>2. PICK v \in Int : v = Sum(f, n)
    BY <1>6
  <2>3. (k * b) * v + a * k * (d * d) = k * (a * d * d + b * v)
    OBVIOUS
  <2>4. c = k * b
    BY <1>3
  <2>5. Variance(xs, n + 1) = k * (a * d * d + b * v)
    BY <1>1, <1>5, <2>1, <2>2, <2>3, <2>4
  <2> QED
    BY <1>1, <1>2, <1>3, <1>6, <1>8, <2>2, <2>5
<1> QED
  BY <1>7, <1>8

(* What a scorer holds after each volume is what Updated makes of it.      *)
LEMMA StatisticsStep ==
  ASSUME NEW xs \in Seq(Int), NEW n \in Nat, n + 1 <= Len(xs)
  PROVE  Statistics(xs, n + 1) =
           Updated(IF n = 0 THEN Blank ELSE Statistics(xs, n), xs[n + 1])
<1> USE Averages
<1>1. CASE n = 0
  <2>1. Mean(xs, 1) = xs[1] /\ Variance(xs, 1) = 0 /\ Power(K, 0) = 1
    BY <1>1, MeanStep, VarianceStep, PowerStep
  <2>2. Statistics(xs, 1) = [ewma |-> xs[1], var |-> 0, unit |-> 1, count |-> 1]
    BY <2>1 DEF Statistics
  <2>3. Blank.count = 0
    BY DEF Blank
  <2> QED
    BY <1>1, <2>2, <2>3 DEF Updated
<1>2. CASE n # 0
  <2>1. PICK x \in Int, m \in Int, v \in Int, u \in Int :
          x = xs[n + 1] /\ m = Mean(xs, n) /\ v = Variance(xs, n) /\ u = Power(K, n - 1)
    <3>1. n - 1 \in Nat /\ xs[n + 1] \in Int
      BY <1>2
    <3>2. Mean(xs, n) \in Int /\ Variance(xs, n) \in Int
      BY MeanStep, VarianceStep, Zenon
    <3>3. Power(K, n - 1) \in Int
      BY <3>1, PowerStep, Zenon
    <3> QED
      BY <3>1, <3>2, <3>3
  <2>2. Deviation(xs, n + 1) = x * u - m
    <3>1. n + 1 # 1 /\ (n + 1) - 2 = n - 1 /\ (n + 1) - 1 = n
      BY <1>2
    <3> QED
      BY <2>1, <3>1, Zenon DEF Deviation
  <2>3. /\ Mean(xs, n + 1) = Alpha * x * u + (K - Alpha) * m
        /\ Variance(xs, n + 1) = K * (Alpha * (x * u - m) * (x * u - m) + (K - Alpha) * v)
    BY <1>2, <2>1, <2>2, MeanStep, VarianceStep
  <2>4. Power(K, n) = K * u
    <3>1. n - 1 \in Nat /\ (n - 1) + 1 = n
      BY <1>2
    <3> QED
      BY <2>1, <3>1, PowerStep
  <2>5. Statistics(xs, n + 1) =
          [ewma |-> Alpha * x * u + (K - Alpha) * m,
           var |-> K * (Alpha * (x * u - m) * (x * u - m) + (K - Alpha) * v),
           unit |-> K * u, count |-> n + 1]
    <3>1. (n + 1) - 1 = n
      OBVIOUS
    <3> QED
      BY <2>3, <2>4, <3>1, Zenon DEF Statistics
  <2>6. Statistics(xs, n) = [ewma |-> m, var |-> v, unit |-> u, count |-> n]
    BY <2>1, Zenon DEF Statistics
  <2>7. Statistics(xs, n).count # 0
    BY <1>2, <2>6
  <2>8. Updated(Statistics(xs, n), x) = Averaged(Statistics(xs, n), x)
    BY <2>7, Zenon DEF Updated
  <2>9. Averaged(Statistics(xs, n), x) = Statistics(xs, n + 1)
    BY <2>5, <2>6 DEF Averaged
  <2> QED
    BY <1>2, <2>1, <2>8, <2>9
<1> QED
  BY <1>1, <1>2

(* A prefix determines the statistics.                                     *)
LEMMA StatisticsOfPrefix ==
  ASSUME NEW xs, NEW ys, NEW n \in Nat, \A i \in 1..n : xs[i] = ys[i]
  PROVE  Statistics(xs, n) = Statistics(ys, n)
<1>1. ASSUME NEW m \in 0..n PROVE Mean(xs, m) = Mean(ys, m)
  <2>1. [i \in 1..m |-> xs[i] * Share(m, i)] = [i \in 1..m |-> ys[i] * Share(m, i)]
    OBVIOUS
  <2> QED
    BY <2>1, Zenon DEF Mean
<1>2. ASSUME NEW i \in 1..n PROVE Spread(xs, n, i) = Spread(ys, n, i)
  <2>1. xs[i] = ys[i] /\ i - 1 \in 0..n
    OBVIOUS
  <2>2. Deviation(xs, i) = Deviation(ys, i)
    BY <1>1, <2>1, Zenon DEF Deviation
  <2> QED
    BY <2>2, Zenon DEF Spread
<1>3. [i \in 1..n |-> Spread(xs, n, i)] = [i \in 1..n |-> Spread(ys, n, i)]
  BY <1>2
<1>4. Variance(xs, n) = Variance(ys, n) /\ Mean(xs, n) = Mean(ys, n)
  <2>1. n \in 0..n
    OBVIOUS
  <2> QED
    BY <1>1, <1>3, <2>1, Zenon DEF Variance
<1> QED
  BY <1>4, Zenon DEF Statistics

(* The volumes of one symbol among the first trades, one by one.           *)
Selected(own, trades, symbol, n) ==
  /\ own \in [0..n -> Seq(Int)] /\ own[0] = <<>>
  /\ \A i \in 1..n : own[i] = IF trades[i].flow.symbol = symbol
                              THEN Append(own[i - 1], trades[i].flow.signed) ELSE own[i - 1]

(* They end with Volumes, ...                                              *)
LEMMA VolumesIs ==
  ASSUME NEW trades, NEW symbol, Len(trades) \in Nat,
         NEW own, Selected(own, trades, symbol, Len(trades))
  PROVE  Volumes(trades, symbol) = own[Len(trades)]
<1>1. PICK n \in Nat : n = Len(trades)
  OBVIOUS
<1> DEFINE Step(p, i) == IF trades[i].flow.symbol = symbol
                          THEN Append(p, trades[i].flow.signed) ELSE p
<1>2. /\ own \in [0..n -> Seq(Int)] /\ own[0] = <<>>
       /\ \A i \in 1..n : own[i] = Step(own[i - 1], i)
  BY <1>1, Zenon DEF Selected
<1>3. own = [i \in 0..n |->
               IF i = 0 THEN <<>>
               ELSE IF trades[i].flow.symbol = symbol THEN Append(own[i - 1], trades[i].flow.signed)
               ELSE own[i - 1]]
  <2>1. \A i \in 0..n : i = 0 \/ i \in 1..n
    OBVIOUS
  <2>2. ASSUME NEW i \in 0..n
        PROVE  own[i] = IF i = 0 THEN <<>> ELSE Step(own[i - 1], i)
    <3> HIDE DEF Step
    <3> QED
      BY <1>2, <2>1
  <2>3. own = [i \in 0..n |-> own[i]]
    <3> HIDE DEF Step
    <3> QED
      BY <1>2
  <2> QED
    BY <2>2, <2>3, Zenon
<1>4. PICK g : /\ g = [i \in 0..n |->
                        IF i = 0 THEN <<>>
                        ELSE IF trades[i].flow.symbol = symbol
                             THEN Append(g[i - 1], trades[i].flow.signed)
                        ELSE g[i - 1]]
               /\ Volumes(trades, symbol) = g[n]
  BY <1>1, <1>3, Zenon DEF Volumes
<1>5. g[0] = own[0] /\ \A i \in 1..n : g[i - 1] = own[i - 1] => g[i] = own[i]
  <2>1. g = [i \in 0..n |-> IF i = 0 THEN <<>> ELSE Step(g[i - 1], i)]
    BY <1>4, Zenon
  <2> HIDE DEF Step
  <2>2. g[0] = <<>> /\ \A i \in 1..n : g[i] = Step(g[i - 1], i)
    BY <2>1
  <2> QED
    BY <1>2, <2>2, Zenon
<1> HIDE DEF Step
<1> DEFINE P == {i \in 0..n : g[i] = own[i]}
<1>6. 0 \in P /\ \A i \in 1..n : i - 1 \in P => i \in P
  BY <1>5
<1> HIDE DEF P
<1>7. \A i \in 0..n : i \in P
  BY <1>6, Induction, Zenon
<1> QED
  BY <1>1, <1>4, <1>7 DEF P

(* ... and there are some.                                                 *)
LEMMA SelectedExist ==
  ASSUME NEW trades, NEW symbol, NEW n \in Nat,
         \A i \in 1..n : trades[i].flow.signed \in Int
  PROVE  \E own : Selected(own, trades, symbol, n)
<1> DEFINE P == {m \in 0..n : \E own : Selected(own, trades, symbol, m)}
<1>1. 0 \in P
  <2> DEFINE own == [i \in 0..0 |-> <<>>]
  <2>1. Selected(own, trades, symbol, 0)
    BY DEF Selected
  <2> QED
    BY <2>1
<1>2. ASSUME NEW m \in 1..n, m - 1 \in P PROVE m \in P
  <2>1. PICK own : Selected(own, trades, symbol, m - 1)
    BY <1>2
  <2>2. /\ own \in [0..(m - 1) -> Seq(Int)] /\ own[0] = <<>> /\ own[m - 1] \in Seq(Int)
        /\ \A i \in 1..(m - 1) :
             own[i] = IF trades[i].flow.symbol = symbol
                      THEN Append(own[i - 1], trades[i].flow.signed) ELSE own[i - 1]
    BY <2>1 DEF Selected
  <2>3. PICK xs \in Seq(Int) :
          xs = IF trades[m].flow.symbol = symbol
               THEN Append(own[m - 1], trades[m].flow.signed) ELSE own[m - 1]
    <3>1. PICK p \in Seq(Int), x \in Int : p = own[m - 1] /\ x = trades[m].flow.signed
      BY <2>2
    <3>2. Append(p, x) \in Seq(Int)
      OBVIOUS
    <3> QED
      BY <3>1, <3>2
  <2> DEFINE all == [i \in 0..m |-> IF i = m THEN xs ELSE own[i]]
  <2>4. all \in [0..m -> Seq(Int)] /\ all[0] = <<>>
    BY <2>2
  <2>5. ASSUME NEW i \in 1..m
        PROVE  all[i] = IF trades[i].flow.symbol = symbol
                        THEN Append(all[i - 1], trades[i].flow.signed) ELSE all[i - 1]
    <3>1. CASE i = m
      <4>1. all[i] = xs /\ all[i - 1] = own[m - 1]
        BY <3>1
      <4> HIDE DEF all
      <4> QED
        BY <2>3, <3>1, <4>1
    <3>2. CASE i # m
      <4>1. all[i] = own[i] /\ all[i - 1] = own[i - 1] /\ i \in 1..(m - 1)
        BY <3>2
      <4> HIDE DEF all
      <4> QED
        BY <2>2, <4>1
    <3> QED
      BY <3>1, <3>2
  <2> HIDE DEF all
  <2>6. Selected(all, trades, symbol, m)
    BY <2>4, <2>5 DEF Selected
  <2> QED
    BY <2>6
<1> HIDE DEF P
<1>3. \A i \in 0..n : i \in P
  BY <1>1, <1>2, Induction, Zenon
<1> QED
  BY <1>3 DEF P

(* The volumes of a symbol, and what one more trade makes of them.         *)
LEMMA VolumesStep ==
  ASSUME NEW S, \A x \in S : x.flow.signed \in Int, NEW symbol,
         NEW trades \in Seq(S), NEW trade \in S
  PROVE  /\ Volumes(<<>>, symbol) = <<>>
         /\ Volumes(trades, symbol) \in Seq(Int)
         /\ Volumes(Append(trades, trade), symbol) =
              IF trade.flow.symbol = symbol
              THEN Append(Volumes(trades, symbol), trade.flow.signed)
              ELSE Volumes(trades, symbol)
<1>1. PICK n \in Nat : n = Len(trades)
  OBVIOUS
<1> DEFINE more == Append(trades, trade)
<1>2. /\ Len(more) = n + 1 /\ more[n + 1] = trade
      /\ \A i \in 1..n : more[i] = trades[i] /\ trades[i] \in S
  BY <1>1
<1> HIDE DEF more
<1>3. PICK own : Selected(own, more, symbol, n + 1)
  <2>1. \A i \in 1..(n + 1) : more[i].flow.signed \in Int
    BY <1>2
  <2>2. n + 1 \in Nat
    OBVIOUS
  <2> QED
    BY <2>1, <2>2, SelectedExist, Zenon
<1>4. /\ own \in [0..(n + 1) -> Seq(Int)] /\ own[0] = <<>>
      /\ \A i \in 1..(n + 1) : own[i] = IF more[i].flow.symbol = symbol
                                THEN Append(own[i - 1], more[i].flow.signed) ELSE own[i - 1]
  BY <1>3 DEF Selected
<1> DEFINE less == [i \in 0..n |-> own[i]]
           none == [i \in 0..0 |-> <<>>]
<1>5. /\ less \in [0..n -> Seq(Int)] /\ less[0] = <<>> /\ less[n] = own[n]
      /\ \A i \in 1..n : less[i] = own[i] /\ less[i - 1] = own[i - 1]
  BY <1>4
<1>6. Selected(none, <<>>, symbol, 0) /\ none[0] = <<>>
  BY DEF Selected
<1> HIDE DEF less, none
<1>7. Selected(less, trades, symbol, n)
  <2>1. \A i \in 1..n : less[i] = IF trades[i].flow.symbol = symbol
                                  THEN Append(less[i - 1], trades[i].flow.signed) ELSE less[i - 1]
    <3> SUFFICES ASSUME NEW i \in 1..n
                 PROVE  less[i] = IF trades[i].flow.symbol = symbol
                                  THEN Append(less[i - 1], trades[i].flow.signed)
                                  ELSE less[i - 1]
      OBVIOUS
    <3>1. i \in 1..(n + 1)
      OBVIOUS
    <3>2. more[i] = trades[i] /\ less[i] = own[i] /\ less[i - 1] = own[i - 1]
      BY <1>2, <1>5, Zenon
    <3> QED
      BY <1>4, <3>1, <3>2, Zenon
  <2> QED
    BY <1>5, <2>1 DEF Selected
<1>8. Volumes(more, symbol) = own[n + 1]
  BY <1>2, <1>3, VolumesIs
<1>9. Volumes(trades, symbol) = own[n] /\ own[n] \in Seq(Int)
  BY <1>1, <1>4, <1>5, <1>7, VolumesIs
<1>10. Volumes(<<>>, symbol) = <<>>
  <2>1. Len(<<>>) = 0
    OBVIOUS
  <2> QED
    BY <1>6, <2>1, VolumesIs
<1>11. own[n + 1] = IF trade.flow.symbol = symbol
                    THEN Append(own[n], trade.flow.signed) ELSE own[n]
  BY <1>2, <1>4
<1> QED
  BY <1>8, <1>9, <1>10, <1>11 DEF more

-----------------------------------------------------------------------------
(* The scorers.                                                            *)

(* What the second normalizer forwards has a quantity that is a number.    *)
LEMMA ScoredAreSigned ==
  ASSUME NEW trade \in ScoredTrades
  PROVE  trade.flow.signed \in Int
<1>1. PICK n \in NormalizedMessages :
        trade = [flow |-> Flow(Upper(n.symbol), Signed(n)), nth |-> n.nth]
  BY DEF ScoredTrades
<1>2. PICK msg \in RawMessages :
        \E time \in Int64(msg.time) : Forwards(msg, time) /\ n = Normalized(msg, time)
  BY DEF NormalizedMessages
<1>3. PICK time \in Int64(msg.time) : Forwards(msg, time) /\ n = Normalized(msg, time)
  BY <1>2
<1>4. n.quantity = msg.quantity /\ n.side = UpperSide(msg.side)
  BY <1>3, MessageFields DEF Normalized
<1>5. msg.quantity \notin {Bad, Missing} /\ UpperSide(msg.side) \in {"BUY", "SELL"}
  BY <1>3 DEF Forwards, PositiveNumber
<1>6. msg.quantity \in Int
  <2>1. CASE msg \in Foreign
    BY <1>5, <2>1, TradeFlowAssumption DEF TradeFlowAssumption
  <2>2. CASE msg \in OwnMessages
    <3>1. PICK raw \in Raws, k \in Nat \ {0} : Sound(raw) /\ msg = Encoded(raw, k)
      BY <2>2 DEF OwnMessages
    <3>2. raw.quantity \notin {NaN, Inf, Bad, Missing} /\ msg.quantity = raw.quantity
      BY <3>1 DEF Sound, FinitePositive, Finite, Encoded
    <3>3. raw.quantity \in Int \cup {NaN, Inf, Bad}
      BY TradeFlowAssumption DEF TradeFlowAssumption
    <3> QED
      BY <3>2, <3>3
  <2> QED
    BY <2>1, <2>2 DEF RawMessages
<1>7. UpperSide(n.side) = n.side /\ n.side \in {"BUY", "SELL"}
  BY <1>4, <1>5 DEF UpperSide
<1>8. Signed(n) \in Int
  BY <1>4, <1>6, <1>7 DEF Signed
<1> QED
  BY <1>1, <1>8 DEF Flow

ScoredSymbols == {trade.flow.symbol : trade \in ScoredTrades}

(* A symbol has a scorer from its first trade on.                          *)
ScoresInv ==
  /\ alerts \in Seq(ScoredSymbols \X Nat)
  /\ \A symbol \in ScoredSymbols : symbol \in DOMAIN scorers <=> Volumes(scored, symbol) # <<>>
  /\ ScoresAreTheDefinition

(* One more volume leaves the statistics of those before it alone.         *)
LEMMA StatisticsBefore ==
  ASSUME NEW xs \in Seq(Int), NEW x \in Int, NEW m \in 1..Len(xs)
  PROVE  Statistics(Append(xs, x), m) = Statistics(xs, m)
<1>1. m \in Nat /\ \A i \in 1..m : Append(xs, x)[i] = xs[i]
  OBVIOUS
<1> QED
  BY <1>1, StatisticsOfPrefix, Zenon

(* What the scorer does to one symbol: its state is the definition's for   *)
(* one more trade.                                                         *)
LEMMA OneMore ==
  ASSUME NEW xs \in Seq(Int), NEW x \in Int, NEW ys, ys = Append(xs, x)
  PROVE  /\ ys \in Seq(Int) /\ Len(ys) = Len(xs) + 1 /\ ys # <<>>
         /\ Updated(IF xs = <<>> THEN Blank ELSE Statistics(xs, Len(xs)), x) =
              Statistics(ys, Len(ys))
         /\ Statistics(ys, Len(ys)).count = Len(ys)
<1>1. PICK n \in Nat : n = Len(xs)
  OBVIOUS
<1>2. /\ ys \in Seq(Int) /\ Len(ys) = n + 1 /\ ys # <<>> /\ ys[n + 1] = x
      /\ \A i \in 1..n : ys[i] = xs[i]
  BY <1>1
<1>3. xs = <<>> <=> n = 0
  BY <1>1
<1>4. n # 0 => Statistics(xs, n) = Statistics(ys, n)
  <2>1. n # 0 => n \in 1..Len(xs)
    BY <1>1
  <2> QED
    BY <2>1, StatisticsBefore, Zenon
<1>5. Statistics(ys, n + 1) = Updated(IF n = 0 THEN Blank ELSE Statistics(ys, n), ys[n + 1])
  <2>1. n + 1 <= Len(ys)
    BY <1>2
  <2> QED
    BY <1>2, <2>1, StatisticsStep
<1>6. Updated(IF xs = <<>> THEN Blank ELSE Statistics(xs, n), x) = Statistics(ys, n + 1)
  BY <1>2, <1>3, <1>4, <1>5, Zenon
<1>7. Statistics(ys, n + 1).count = n + 1
  BY DEF Statistics
<1> QED
  BY <1>1, <1>2, <1>6, <1>7

(* The scorer counts a trade for its symbol, and for no other.             *)
LEMMA ScoreCounts ==
  ASSUME FlowInv, ScoresInv, Score
  PROVE  ScoresInv'
<1> DEFINE msg == Head(normTopic)
           symbol == Upper(msg.symbol)
           x == Signed(msg)
           before == IF symbol \in DOMAIN scorers THEN scorers[symbol] ELSE Blank
           state == Updated(before, x)
           trade == [flow |-> Flow(symbol, x), nth |-> msg.nth]
<1>1. /\ normTopic \in Seq(NormalizedMessages) /\ normTopic # <<>>
      /\ scored \in Seq(ScoredTrades)
  BY DEF FlowInv, Wholesome, Score
<1>2. msg \in NormalizedMessages
  BY <1>1, Numbered, Taken
<1>3. ~Raises(msg) /\ ~Skips(msg)
  BY <1>2, NormalizedIsHarmless
<1>4. /\ scored' = Append(scored, trade)
      /\ scorers' = [s \in DOMAIN scorers \cup {symbol} |->
                      IF s = symbol THEN state ELSE scorers[s]]
      /\ alerts' = IF Toxic(symbol, state) THEN Append(alerts, <<symbol, state.count>>) ELSE alerts
  BY <1>3 DEF Score
<1>5. trade \in ScoredTrades /\ trade.flow.symbol = symbol /\ trade.flow.signed = x
  BY <1>2 DEF ScoredTrades, Flow
<1> HIDE DEF msg, symbol, x, trade
<1>6. x \in Int /\ symbol \in ScoredSymbols
  BY <1>5, ScoredAreSigned DEF ScoredSymbols
<1>7. \A s : /\ Volumes(scored, s) \in Seq(Int)
             /\ Volumes(scored', s) = IF s = symbol THEN Append(Volumes(scored, s), x)
                                      ELSE Volumes(scored, s)
  BY <1>1, <1>4, <1>5, ScoredAreSigned, VolumesStep
<1>8. PICK xs \in Seq(Int), ys \in Seq(Int) :
        xs = Volumes(scored, symbol) /\ ys = Append(xs, x)
  <2>1. PICK v \in Int : v = x
    BY <1>6
  <2>2. \A seq \in Seq(Int) : Append(seq, v) \in Seq(Int)
    OBVIOUS
  <2> QED
    BY <1>7, <2>1, <2>2
<1>9. Volumes(scored', symbol) = ys
  BY <1>7, <1>8
<1>10. PICK n \in Nat : n = Len(xs)
  BY <1>8
<1>11. /\ DOMAIN scorers = {t.flow.symbol : t \in Range(scored)}
       /\ \A s \in DOMAIN scorers :
            /\ scorers[s] = Statistics(Volumes(scored, s), Len(Volumes(scored, s)))
            /\ {alert \in Range(alerts) : alert[1] = s} =
                 {<<s, k>> : k \in {m \in 1..Len(Volumes(scored, s)) :
                                      Toxic(s, Statistics(Volumes(scored, s), m))}}
       /\ \A alert \in Range(alerts) : alert[1] \in DOMAIN scorers
       /\ \A i, j \in DOMAIN alerts :
            i < j /\ alerts[i][1] = alerts[j][1] => alerts[i][2] < alerts[j][2]
  BY DEF ScoresInv, ScoresAreTheDefinition
<1>12. alerts \in Seq(ScoredSymbols \X Nat)
       /\ \A s \in ScoredSymbols : s \in DOMAIN scorers <=> Volumes(scored, s) # <<>>
  BY DEF ScoresInv
<1>13. before = IF xs = <<>> THEN Blank ELSE Statistics(xs, n)
  BY <1>6, <1>8, <1>10, <1>11, <1>12
<1> HIDE DEF before
<1>14. /\ Len(ys) = n + 1 /\ ys # <<>> /\ state = Statistics(ys, n + 1) /\ state.count = n + 1
       /\ \A m \in 1..n : Statistics(ys, m) = Statistics(xs, m)
  <2>1. state = Updated(IF xs = <<>> THEN Blank ELSE Statistics(xs, n), x)
    BY <1>13, Zenon
  <2> HIDE DEF state
  <2>2. PICK v \in Int : v = x /\ ys = Append(xs, v)
    BY <1>6, <1>8
  <2>3. /\ Len(ys) = Len(xs) + 1 /\ ys # <<>>
        /\ Updated(IF xs = <<>> THEN Blank ELSE Statistics(xs, Len(xs)), v) =
             Statistics(ys, Len(ys))
        /\ Statistics(ys, Len(ys)).count = Len(ys)
    BY <2>2, OneMore
  <2>4. ASSUME NEW m \in 1..Len(xs) PROVE Statistics(ys, m) = Statistics(xs, m)
    BY <2>2, <2>4, StatisticsBefore, Zenon
  <2>5. Updated(IF xs = <<>> THEN Blank ELSE Statistics(xs, n), x) = Statistics(ys, n + 1)
    BY <1>10, <2>2, <2>3
  <2> QED
    BY <1>10, <2>1, <2>3, <2>4, <2>5
<1> HIDE DEF state
<1> DEFINE Own == {alert \in Range(alerts) : alert[1] = symbol}
<1>15. Own = {<<symbol, k>> : k \in {m \in 1..n : Toxic(symbol, Statistics(xs, m))}}
  <2>1. CASE symbol \in DOMAIN scorers
    BY <1>8, <1>10, <1>11, <2>1
  <2>2. CASE symbol \notin DOMAIN scorers
    <3>1. n = 0
      BY <1>6, <1>8, <1>10, <1>12, <2>2
    <3>2. Own = {}
      BY <1>11, <2>2
    <3> QED
      BY <3>1, <3>2
  <2> QED
    BY <2>1, <2>2
<1>16. /\ alerts' \in Seq(ScoredSymbols \X Nat)
       /\ Range(alerts') = Range(alerts) \cup
            (IF Toxic(symbol, state) THEN {<<symbol, n + 1>>} ELSE {})
       /\ \A i, j \in DOMAIN alerts' :
            i < j /\ alerts'[i][1] = alerts'[j][1] => alerts'[i][2] < alerts'[j][2]
  <2>1. CASE ~Toxic(symbol, state)
    BY <1>4, <1>11, <1>12, <2>1
  <2>2. CASE Toxic(symbol, state)
    <3> DEFINE new == <<symbol, n + 1>>
    <3>1. alerts' = Append(alerts, new) /\ new \in ScoredSymbols \X Nat
      BY <1>4, <1>6, <1>14, <2>2
    <3>2. new[1] = symbol /\ new[2] = n + 1
      OBVIOUS
    <3> HIDE DEF new
    <3>3. PICK l \in Nat : l = Len(alerts)
      BY <1>12
    <3>4. /\ alerts' \in Seq(ScoredSymbols \X Nat)
          /\ DOMAIN alerts = 1..l /\ DOMAIN alerts' = 1..(l + 1)
          /\ alerts'[l + 1] = new /\ \A i \in 1..l : alerts'[i] = alerts[i]
      BY <1>12, <3>1, <3>3, AppendProperties
    <3>5. \A i \in 1..(l + 1) : i \in 1..l \/ i = l + 1
      OBVIOUS
    <3>6. Range(alerts') = Range(alerts) \cup {new}
      <4>1. Range(alerts') = {alerts'[i] : i \in 1..(l + 1)}
        BY <3>4 DEF Range
      <4>2. Range(alerts) = {alerts[i] : i \in 1..l}
        BY <3>4 DEF Range
      <4>3. \A i \in 1..l : i \in 1..(l + 1)
        OBVIOUS
      <4>4. l + 1 \in 1..(l + 1)
        OBVIOUS
      <4> QED
        BY <3>4, <3>5, <4>1, <4>2, <4>3, <4>4
    <3>7. ASSUME NEW i \in 1..(l + 1), NEW j \in 1..(l + 1), i < j,
                 alerts'[i][1] = alerts'[j][1]
          PROVE  alerts'[i][2] < alerts'[j][2]
      <4>1. i \in 1..l /\ alerts'[i] = alerts[i]
        BY <3>4, <3>7
      <4>2. CASE j \in 1..l
        BY <1>11, <3>4, <3>7, <4>1, <4>2
      <4>3. CASE j = l + 1
        <5>1. alerts[i][1] = symbol /\ alerts[i] \in Range(alerts)
          BY <3>2, <3>4, <3>7, <4>1, <4>3 DEF Range
        <5>2. PICK k \in 1..n : alerts[i] = <<symbol, k>>
          BY <1>15, <5>1
        <5> QED
          BY <3>2, <3>4, <4>1, <4>3, <5>2
      <4> QED
        BY <3>5, <4>2, <4>3
    <3> QED
      BY <2>2, <3>4, <3>6, <3>7 DEF new
  <2> QED
    BY <2>1, <2>2
<1>17. Range(scored') = Range(scored) \cup {trade}
  <2>1. Range(Append(scored, trade)) = Range(scored) \cup {trade}
    BY <1>1, <1>5, Numbered, Written
  <2> QED
    BY <1>4, <2>1
<1>18. /\ DOMAIN scorers' = DOMAIN scorers \cup {symbol}
       /\ scorers'[symbol] = state
       /\ \A s \in DOMAIN scorers : s # symbol => scorers'[s] = scorers[s]
  BY <1>4
<1>19. DOMAIN scorers' = {t.flow.symbol : t \in Range(scored')}
  BY <1>5, <1>11, <1>17, <1>18
<1>20. \A s \in ScoredSymbols : s \in DOMAIN scorers' <=> Volumes(scored', s) # <<>>
  BY <1>7, <1>9, <1>12, <1>14, <1>18
<1>21. \A alert \in Range(alerts') : alert[1] \in DOMAIN scorers'
  <2>1. <<symbol, n + 1>>[1] = symbol
    OBVIOUS
  <2> QED
    BY <1>11, <1>16, <1>18, <2>1
<1>22. ASSUME NEW s \in DOMAIN scorers'
       PROVE  /\ scorers'[s] = Statistics(Volumes(scored', s), Len(Volumes(scored', s)))
              /\ {alert \in Range(alerts') : alert[1] = s} =
                   {<<s, k>> : k \in {m \in 1..Len(Volumes(scored', s)) :
                                        Toxic(s, Statistics(Volumes(scored', s), m))}}
  <2>1. CASE s # symbol
    <3>1. /\ s \in DOMAIN scorers /\ scorers'[s] = scorers[s]
          /\ Volumes(scored', s) = Volumes(scored, s)
      BY <1>7, <1>18, <2>1
    <3>2. {alert \in Range(alerts') : alert[1] = s} = {alert \in Range(alerts) : alert[1] = s}
      <4>1. <<symbol, n + 1>>[1] = symbol
        OBVIOUS
      <4> QED
        BY <1>16, <2>1, <4>1
    <3> QED
      BY <1>11, <3>1, <3>2
  <2>2. CASE s = symbol
    <3>1. scorers'[s] = Statistics(ys, Len(ys))
      BY <1>14, <1>18, <2>2
    <3> DEFINE Due == {m \in 1..n : Toxic(symbol, Statistics(xs, m))}
               DueNow == {m \in 1..(n + 1) : Toxic(symbol, Statistics(ys, m))}
    <3>2. DueNow = Due \cup (IF Toxic(symbol, state) THEN {n + 1} ELSE {})
      <4>1. \A m : m \in 1..(n + 1) <=> m \in 1..n \/ m = n + 1
        OBVIOUS
      <4> QED
        BY <1>14, <4>1
    <3>3. {alert \in Range(alerts') : alert[1] = symbol} =
            Own \cup (IF Toxic(symbol, state) THEN {<<symbol, n + 1>>} ELSE {})
      <4>1. <<symbol, n + 1>>[1] = symbol
        OBVIOUS
      <4> QED
        BY <1>16, <4>1
    <3> HIDE DEF Own, Due, DueNow
    <3>4. Own = {<<symbol, k>> : k \in Due}
      BY <1>15 DEF Due
    <3>5. {alert \in Range(alerts') : alert[1] = symbol} = {<<symbol, k>> : k \in DueNow}
      BY <3>2, <3>3, <3>4
    <3> QED
      BY <1>9, <1>14, <2>2, <3>1, <3>5 DEF DueNow
  <2> QED
    BY <2>1, <2>2
<1>23. ScoresAreTheDefinition'
  BY <1>16, <1>19, <1>21, <1>22 DEF ScoresAreTheDefinition
<1> QED
  BY <1>16, <1>20, <1>23 DEF ScoresInv

(* The invariant holds along every behaviour.                              *)
LEMMA ScoresInvariance == Spec => []ScoresInv
<1>1. Init => ScoresInv
  <2> SUFFICES ASSUME Init PROVE ScoresInv
    OBVIOUS
  <2>1. scorers = <<>> /\ alerts = <<>> /\ scored = <<>>
    BY DEF Init
  <2>2. DOMAIN scorers = {} /\ DOMAIN alerts = {} /\ Range(scored) = {} /\ Range(alerts) = {}
    BY <2>1 DEF Range
  <2>3. \A symbol \in ScoredSymbols : Volumes(scored, symbol) = <<>>
    <3> SUFFICES ASSUME NEW symbol \in ScoredSymbols PROVE Volumes(<<>>, symbol) = <<>>
      BY <2>1
    <3>1. PICK trade \in ScoredTrades : symbol = trade.flow.symbol
      BY DEF ScoredSymbols
    <3>2. <<>> \in Seq(ScoredTrades)
      OBVIOUS
    <3> QED
      BY <3>1, <3>2, ScoredAreSigned, VolumesStep, Zenon
  <2> QED
    BY <2>1, <2>2, <2>3 DEF ScoresInv, ScoresAreTheDefinition
<1>2. FlowInv /\ ScoresInv /\ [Next]_vars => ScoresInv'
  <2> SUFFICES ASSUME FlowInv, ScoresInv, [Next]_vars
               PROVE  ScoresInv'
    OBVIOUS
  <2>1. CASE Score
    BY <2>1, ScoreCounts
  <2>2. CASE UNCHANGED <<scorers, alerts, scored>>
    BY <2>2 DEF ScoresInv, ScoresAreTheDefinition
  <2> QED
    BY <2>1, <2>2 DEF Next, Ingest, Write, Process, vars
<1> QED
  BY <1>1, <1>2, FlowInvariance, PTL DEF Spec

(* The state of every scorer, and every alert, is what the exponentially   *)
(* weighted mean and variance of the volumes of its symbol define.         *)
THEOREM ScoresAreDefined == Spec => []ScoresAreTheDefinition
<1>1. ScoresInv => ScoresAreTheDefinition
  BY DEF ScoresInv
<1> QED
  BY <1>1, ScoresInvariance, PTL
=============================================================================
