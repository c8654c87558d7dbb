----------------------------- MODULE TradeFlow ------------------------------
(***************************************************************************)
(* What becomes of a trade on its way to an alert: the normalizer of the   *)
(* ingestor (ingestion/internal/normalize, internal/model), the topic      *)
(* trades.raw, the normalizer of the processing service, the topic         *)
(* trades.normalized, and the scorers of the symbols (scoring/scorer.py).  *)
(*                                                                         *)
(* The services run one step at a time and the topics neither lose nor     *)
(* repeat anything: how they are delivered is modelled elsewhere.  A float *)
(* is an integer, NaN or Inf; Bad is no number, Missing not there at all.  *)
(***************************************************************************)
EXTENDS Integers, Sequences, SequencesExt

CONSTANTS
  Raws,        \* records the feeds deliver
  Foreign,     \* messages other programs write to trades.raw
  Settings,    \* configurations of the ingestor's normalizer
  Now,         \* the clock, when a record is normalized
  Huge,        \* the largest float; as a time, one that is no int64
  NaN, Inf, Bad, Missing,
  Alpha, K,    \* alpha = Alpha / K
  Epsilon,     \* 1 / variance_epsilon
  ThresholdOf, \* configured threshold of a market
  MinTrades,
  MaxTrades    \* bound: messages written to trades.raw

ASSUME TradeFlowAssumption ==
  /\ K \in Nat \ {0} /\ Alpha \in 1..K /\ Epsilon \in Nat \ {0}
  /\ MinTrades \in Nat /\ MaxTrades \in Nat \ {0}
  /\ Huge \in Nat \ {0} /\ Now \in 1..Huge
  /\ \A s \in DOMAIN ThresholdOf : ThresholdOf[s] \in Nat \ {0}
  /\ {NaN, Inf, Bad, Missing} \cap Int = {}
  /\ \A raw \in Raws : /\ {raw.time, raw.event} \subseteq Int \ {Huge}
                        /\ raw.quantity \in Int \cup {NaN, Inf, Bad}
  /\ \A msg \in Foreign :
       /\ msg.quantity \in Int \cup {Bad, Missing}
       /\ msg = [json |-> msg.json, nth |-> 0, symbol |-> msg.symbol, side |-> msg.side,
                 price |-> msg.price, quantity |-> msg.quantity, time |-> msg.time]

VARIABLES
  cfg,       \* the normalizer's configuration
  rawTopic,  \* trades.raw, from the processor's offset
  normTopic, \* trades.normalized, from the scorer's offset
  scorers,   \* symbol -> its ScorerState
  alerts,    \* alerts published: symbol and trade count
  raised,    \* process_message has raised
  written,   \* messages written to trades.raw
  accepted,  \* history: flow of the records the ingestor accepted
  scored     \* history: flow of the messages that were scored

vars == <<cfg, rawTopic, normTopic, scorers, alerts, raised, written,
          accepted, scored>>

Init ==
  /\ cfg \in Settings
  /\ rawTopic = <<>> /\ normTopic = <<>>
  /\ scorers = <<>> /\ alerts = <<>> /\ raised = FALSE
  /\ written = 0 /\ accepted = <<>> /\ scored = <<>>

-----------------------------------------------------------------------------
(* Comparisons of floats: all of them are false for NaN.                   *)
Finite(x) == x \notin {NaN, Inf, Bad, Missing}
AtMost0(x) == Finite(x) /\ x <= 0
Exceeds(x, limit) == limit > 0 /\ (x = Inf \/ (Finite(x) /\ x > limit))
FinitePositive(x) == Finite(x) /\ x > 0

Times(x, y) == IF NaN \in {x, y} THEN NaN
               ELSE IF Inf \in {x, y} THEN Inf
               ELSE IF x * y > Huge THEN Inf ELSE x * y

(* NormalizeSymbol: case and separators of a spelling are dropped.         *)
Canonical(symbol) == [market |-> symbol.market, lower |-> FALSE, dashed |-> FALSE]

(* strings.ToUpper, str.upper: only the case is.                           *)
Upper(symbol) == [symbol EXCEPT !.lower = FALSE]
UpperSide(side) == IF side = "buy" THEN "BUY" ELSE side

SideFromBuyerMaker(isBuyerMaker) == IF isBuyerMaker THEN "SELL" ELSE "BUY"

Quoted(raw) == raw.quote \notin {Bad, Missing} /\ ~AtMost0(raw.quote) /\ raw.quote # NaN
Quote(raw) == IF Quoted(raw) THEN raw.quote ELSE Times(raw.price, raw.quantity)
TradeTime(raw) == IF raw.time > 0 THEN raw.time ELSE raw.event

(* Mutant: the quote quantity is only looked at when the feed gave it.     *)
BugValid(raw) ==
  /\ raw.id >= 0
  /\ FinitePositive(raw.price) /\ FinitePositive(raw.quantity)
  /\ Quoted(raw) => FinitePositive(raw.quote)

(* Validate: the ids and the floats; the rest is so by construction.       *)
Valid(raw) ==
  /\ raw.id >= 0
  /\ FinitePositive(raw.price) /\ FinitePositive(raw.quantity)
  /\ FinitePositive(Quote(raw))

(* Normalize of the ingestor: the record is not rejected.                  *)
Accepts(raw) ==
  /\ raw.symbol.market # ""
  /\ raw.price # Bad /\ ~AtMost0(raw.price)
  /\ raw.quantity # Bad /\ ~AtMost0(raw.quantity)
  /\ Quoted(raw) \/ raw.quote = Missing \/ cfg.computeQuoteQty
  /\ ~Exceeds(raw.price, cfg.maxPrice) /\ ~Exceeds(raw.quantity, cfg.maxQuantity)
  /\ TradeTime(raw) > 0
  /\ cfg.maxAge > 0 => Now - TradeTime(raw) <= cfg.maxAge
  /\ Valid(raw)

(* The trade as JSON, which has no NaN and no infinity.  As history, nth   *)
(* numbers the trades that were accepted; it is 0 for other messages.      *)
Encodable(raw) == Finite(raw.price) /\ Finite(raw.quantity) /\ Finite(Quote(raw))

Encoded(raw, n) ==
  [json |-> "object", nth |-> n, symbol |-> Canonical(raw.symbol),
   side |-> SideFromBuyerMaker(raw.maker), price |-> 1,
   quantity |-> raw.quantity, time |-> TradeTime(raw)]

Flow(symbol, signed) == [symbol |-> symbol, signed |-> signed]

(* handle: a record is published, or dead lettered when it is rejected. A  *)
(* trade that cannot be encoded is lost.                                   *)
Ingest(raw) ==
  /\ written < MaxTrades
  /\ IF Accepts(raw)
     THEN /\ accepted' = Append(accepted, Flow(Canonical(raw.symbol),
                IF raw.maker THEN -raw.quantity ELSE raw.quantity))
          /\ rawTopic' = IF Encodable(raw) THEN Append(rawTopic, Encoded(raw, Len(accepted'))) ELSE rawTopic
          /\ written' = written + 1
     ELSE UNCHANGED <<rawTopic, written, accepted>>
  /\ UNCHANGED <<cfg, normTopic, scorers, alerts, raised, scored>>

(* External: another program writes to trades.raw.                         *)
Write(msg) ==
  /\ written < MaxTrades
  /\ rawTopic' = Append(rawTopic, msg)
  /\ written' = written + 1
  /\ UNCHANGED <<cfg, normTopic, scorers, alerts, raised, accepted, scored>>

-----------------------------------------------------------------------------
(* Mutant: a field that is no number is let through when it is there.      *)
BugPositiveNumber(v) == v # Missing /\ ~AtMost0(v)

(* toFloat64, and the field is positive.                                   *)
PositiveNumber(v) == v \notin {Bad, Missing} /\ v > 0

(* toInt64: out of range, the machine decides.                             *)
Int64(v) == IF v = Huge THEN {-Huge, Huge} ELSE {v}

Forwards(msg, time) ==
  /\ msg.json = "object"
  /\ msg.symbol.market # ""
  /\ UpperSide(msg.side) \in {"BUY", "SELL"}
  /\ PositiveNumber(msg.price) /\ PositiveNumber(msg.quantity)
  /\ PositiveNumber(time)

Normalized(msg, time) ==
  [msg EXCEPT !.symbol = Upper(msg.symbol), !.side = UpperSide(msg.side), !.time = time]

(* Normalize of the processing service: the next message of trades.raw is  *)
(* forwarded, or dead lettered.                                            *)
Process ==
  /\ rawTopic # <<>>
  /\ LET msg == Head(rawTopic)
     IN  \E time \in Int64(msg.time) :
           normTopic' = IF Forwards(msg, time) THEN Append(normTopic, Normalized(msg, time))
                        ELSE normTopic
  /\ rawTopic' = Tail(rawTopic)
  /\ UNCHANGED <<cfg, scorers, alerts, raised, written, accepted, scored>>

-----------------------------------------------------------------------------
Signed(msg) == CASE UpperSide(msg.side) = "BUY" -> msg.quantity
                 [] UpperSide(msg.side) = "SELL" -> -msg.quantity
                 [] OTHER -> 0

(* The floats of a scorer as fractions, ewma over unit and ewma_var over    *)
(* its square.                                                             *)
Blank == [ewma |-> 0, var |-> 0, unit |-> 1, count |-> 0]

Averaged(state, x) ==
  LET deviation == x * state.unit - state.ewma
  IN  [ewma  |-> Alpha * x * state.unit + (K - Alpha) * state.ewma,
       var   |-> K * (Alpha * deviation * deviation + (K - Alpha) * state.var),
       unit  |-> K * state.unit,
       count |-> state.count + 1]

(* Mutant: the first trade is averaged with the zero of a blank state.     *)
BugUpdated(state, x) == Averaged(state, x)

(* process_trade: the state after a trade of signed volume x.              *)
Updated(state, x) ==
  IF state.count = 0 THEN [ewma |-> x, var |-> 0, unit |-> 1, count |-> 1]
  ELSE Averaged(state, x)

Threshold(symbol) == IF symbol.dashed THEN ThresholdOf[""] ELSE ThresholdOf[symbol.market]

(* abs(z_score) >= threshold, squared, with the variance or, when that is  *)
(* more, variance_epsilon; the first trade has z 0.                        *)
Toxic(symbol, state) ==
  LET limit == Threshold(symbol)
  IN  /\ state.count >= MinTrades /\ state.count > 1
      /\ state.ewma * state.ewma >= limit * limit * state.var
      /\ state.ewma * state.ewma * Epsilon >= limit * limit * state.unit * state.unit

(* process_message raises on JSON that is no object, and on a field that   *)
(* float() or int() refuses.                                               *)
Raises(msg) ==
  \/ msg.json = "other"
  \/ msg.json = "object" /\ msg.symbol.market # "" /\ Bad \in {msg.price, msg.quantity, msg.time}

Skips(msg) == msg.json = "junk" \/ (msg.json = "object" /\ msg.symbol.market = "")

(* process_message: the next message of trades.normalized.                 *)
Score ==
  /\ normTopic # <<>> /\ ~raised
  /\ normTopic' = Tail(normTopic)
  /\ LET msg == Head(normTopic)
         symbol == Upper(msg.symbol)
         before == IF symbol \in DOMAIN scorers THEN scorers[symbol] ELSE Blank
         state  == Updated(before, Signed(msg))
     IN  IF Raises(msg) THEN raised' = TRUE /\ UNCHANGED <<scorers, alerts, scored>>
         ELSE /\ UNCHANGED raised
              /\ IF Skips(msg) THEN UNCHANGED <<scorers, alerts, scored>>
                 ELSE /\ scorers' = [s \in DOMAIN scorers \cup {symbol} |->
                                      IF s = symbol THEN state ELSE scorers[s]]
                      /\ alerts' = IF Toxic(symbol, state)
                                   THEN Append(alerts, <<symbol, state.count>>) ELSE alerts
                      /\ scored' = Append(scored, [flow |-> Flow(symbol, Signed(msg)),
                                                   nth |-> msg.nth])
  /\ UNCHANGED <<cfg, rawTopic, written, accepted>>

Next ==
  \/ \E raw \in Raws : Ingest(raw)
  \/ \E msg \in Foreign : Write(msg)
  \/ Process \/ Score

Spec == Init /\ [][Next]_vars

-----------------------------------------------------------------------------
(* The accepted trades in a topic, or among those scored, by number.       *)
Numbers(topic) == {topic[i].nth : i \in DOMAIN topic} \ {0}

InOrder(topic) == \A i, j \in DOMAIN topic :
  i < j /\ topic[i].nth # 0 /\ topic[j].nth # 0 => topic[i].nth < topic[j].nth

Ahead(topic, later) == \A m \in Numbers(topic), n \in Numbers(later) : m < n

(* Every record the ingestor accepts, and no other, is scored once, in the *)
(* order it was accepted in, under the name of its market and with the     *)
(* sign of its aggressor: it is never lost for a float that JSON does not  *)
(* have, nor refused by the second normalizer.                             *)
PublishedIsScored ==
  /\ InOrder(scored) /\ InOrder(normTopic) /\ InOrder(rawTopic)
  /\ Ahead(scored, normTopic) /\ Ahead(scored, rawTopic) /\ Ahead(normTopic, rawTopic)
  /\ Numbers(scored) \cup Numbers(normTopic) \cup Numbers(rawTopic) = DOMAIN accepted
  /\ \A trade \in Range(scored) : trade.nth # 0 => trade.flow = accepted[trade.nth]
  /\ \A msg \in Range(normTopic) \cup Range(rawTopic) :
       msg.nth # 0 => Flow(msg.symbol, Signed(msg)) = accepted[msg.nth]

(* Nothing the processing service forwards makes the scorer raise, which   *)
(* would end it at every start, whatever is written to trades.raw.         *)
NoPoison == ~raised

(* f[1] + ... + f[n], and b multiplied n times.                            *)
Sum(f, n) == LET sum[i \in 0..n] == IF i = 0 THEN 0 ELSE sum[i - 1] + f[i] IN sum[n]

Power(b, n) == LET pow[i \in 0..n] == IF i = 0 THEN 1 ELSE b * pow[i - 1] IN pow[n]

(* The exponentially weighted mean and variance of the first n of the      *)
(* volumes xs by their weights, over K^(n-1) and K^(2n-2): a trade weighs  *)
(* alpha and its share is 1 - alpha of what it was with every later trade. *)
Share(n, i) == IF i = 1 THEN Power(K - Alpha, n - 1)
               ELSE Alpha * Power(K - Alpha, n - i) * Power(K, i - 2)

Mean(xs, n) == Sum([i \in 1..n |-> xs[i] * Share(n, i)], n)

Deviation(xs, i) == IF i = 1 THEN 0 ELSE xs[i] * Power(K, i - 2) - Mean(xs, i - 1)

Spread(xs, n, i) ==
  Alpha * Power(K - Alpha, n - i) * Power(K, n - i + 1) * Deviation(xs, i) * Deviation(xs, i)

Variance(xs, n) == Sum([i \in 1..n |-> Spread(xs, n, i)], n)

Statistics(xs, n) ==
  [ewma |-> Mean(xs, n), var |-> Variance(xs, n), unit |-> Power(K, n - 1), count |-> n]

(* The signed volumes of the trades of one symbol, in their order.         *)
Volumes(trades, symbol) ==
  LET own[i \in 0..Len(trades)] ==
        IF i = 0 THEN <<>>
        ELSE IF trades[i].flow.symbol = symbol THEN Append(own[i - 1], trades[i].flow.signed)
        ELSE own[i - 1]
  IN  own[Len(trades)]

(* The state of a symbol's scorer and its alerts are those of the trades   *)
(* of that symbol alone, each counted once, and in their order.            *)
ScoresAreTheDefinition ==
  /\ DOMAIN scorers = {trade.flow.symbol : trade \in Range(scored)}
  /\ \A symbol \in DOMAIN scorers :
       LET xs == Volumes(scored, symbol)
       IN  /\ scorers[symbol] = Statistics(xs, Len(xs))
           /\ {alert \in Range(alerts) : alert[1] = symbol} =
                {<<symbol, n>> : n \in {m \in 1..Len(xs) : Toxic(symbol, Statistics(xs, m))}}
  /\ \A alert \in Range(alerts) : alert[1] \in DOMAIN scorers
  /\ \A i, j \in DOMAIN alerts :
       i < j /\ alerts[i][1] = alerts[j][1] => alerts[i][2] < alerts[j][2]
=============================================================================
