----------------------------- MODULE MCPipeline -----------------------------
(* Instances of Pipeline for TLC: two symbols on two workers; the exchange *)
(* delivers the first trade twice.                                         *)
EXTENDS Pipeline, TLC

MCWorkers == {0, 1}
MCOneWorker == {0}
MCRecords == 1..4
MCThreeRecords == 1..3
MCSymbol == 1 :> "BTC" @@ 2 :> "ETH" @@ 3 :> "BTC" @@ 4 :> "BTC"
MCHash == "BTC" :> 2 @@ "ETH" :> 5
MCTradeKey == 1 :> "b1" @@ 2 :> "e1" @@ 3 :> "b1" @@ 4 :> "b2"
MCInvalid == {}
MCInvalidOne == {2}
=============================================================================
