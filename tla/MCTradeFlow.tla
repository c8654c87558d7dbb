---------------------------- MODULE MCTradeFlow -----------------------------
(* Instance of TradeFlow for TLC: two markets, records with every kind of  *)
(* number, spelling and time, and messages of other programs.              *)
EXTENDS TradeFlow

Symbol(market, lower, dashed) == [market |-> market, lower |-> lower, dashed |-> dashed]

Good == [id |-> 1, symbol |-> Symbol("BTC", FALSE, FALSE), price |-> 1, quantity |-> 1,
         quote |-> Missing, maker |-> FALSE, time |-> 10, event |-> 10]

MCRaws ==
  {[Good EXCEPT !.quantity = q, !.maker = m] : q \in {1, 2}, m \in BOOLEAN}
  \cup {[Good EXCEPT !.symbol = Symbol("ETH", l, d), !.maker = m] :
          l \in BOOLEAN, d \in BOOLEAN, m \in BOOLEAN}
  \cup {[Good EXCEPT !.price = p, !.quantity = q, !.quote = v] :
          p \in {0, 1, Huge, NaN, Inf, Bad}, q \in {0, 2, NaN, Inf, Bad},
          v \in {-1, 1, NaN, Inf, Bad, Missing}}
  \cup {[Good EXCEPT !.time = t, !.event = e, !.maker = TRUE] : t \in {0, 1, 10}, e \in {0, 10}}
  \cup {[Good EXCEPT !.symbol.market = ""], [Good EXCEPT !.id = -1]}

Message == [json |-> "object", nth |-> 0, symbol |-> Symbol("BTC", TRUE, FALSE),
            side |-> "buy", price |-> 1, quantity |-> 1, time |-> 10]

MCForeign ==
  {Message, [Message EXCEPT !.symbol.dashed = TRUE], [Message EXCEPT !.time = Huge],
   [Message EXCEPT !.json = "other"], [Message EXCEPT !.json = "junk"],
   [Message EXCEPT !.symbol.market = ""], [Message EXCEPT !.side = "HOLD"],
   [Message EXCEPT !.price = Bad], [Message EXCEPT !.quantity = Missing],
   [Message EXCEPT !.time = 0]}

MCSettings ==
  {[computeQuoteQty |-> TRUE, maxPrice |-> 0, maxQuantity |-> 0, maxAge |-> 0],
   [computeQuoteQty |-> FALSE, maxPrice |-> 5, maxQuantity |-> 1, maxAge |-> 5]}

MCThresholdOf == [m \in {"BTC", "ETH", ""} |-> IF m = "BTC" THEN 1 ELSE 2]
=============================================================================
