------------------------------ MODULE MCFeeds -------------------------------
(* Instances of Feeds for TLC: live feeds with and without backfill and a  *)
(* limit on the reconnects, dumps of every layout, and a simulator.        *)
EXTENDS Feeds

MCTape == 1..5
MCSymbolOf == <<"BTC", "ETH", "BTC", "BTC", "BTC">>
MCNoise == {2}
MCTimed == {5}

Live ==
  {[mode |-> "live", kind |-> "aggtrade", symbols |-> <<"BTC", "ETH">>,
    backfill |-> TRUE, maxReconnects |-> 0, until |-> 1],
   [mode |-> "live", kind |-> "trade", symbols |-> <<"BTC", "ETH">>,
    backfill |-> FALSE, maxReconnects |-> 2, until |-> 3]}

CSV(header, detect, columns, file, start, limit, loop) ==
  [mode |-> "csv", header |-> header, hasHeader |-> detect, columns |-> columns,
   rows |-> file, startRow |-> start, maxRows |-> limit, loop |-> loop, until |-> 1]

Dumps ==
  {CSV(h, d, c, r, s, m, l) :
     h \in BOOLEAN, d \in {"auto", "false"}, c \in {QuotedTrades, Aggregates},
     r \in {<<"ok", "bad", "ok">>}, s \in 0..2, m \in {0, 1, 3}, l \in BOOLEAN}
  \cup {CSV(FALSE, "auto", OldTrades, <<"ok", "ok">>, 0, 0, FALSE),
        CSV(FALSE, "true", QuotedTrades, <<"ok", "ok">>, 0, 0, FALSE),
        CSV(FALSE, "auto", <<"">>, <<>>, 0, 0, TRUE)}

Simulator ==
  {[mode |-> "synthetic", burstEvery |-> 1, burstDuration |-> 2, duration |-> d,
    until |-> 4] : d \in {0, 3}}

MCConfigs == Live \cup Dumps \cup Simulator

MCKeys == ({"aggtrade", "trade"} \X (MCTape \ MCNoise)) \cup ({"row"} \X (1..4))
MCShardOf == [k \in MCKeys |-> IF k[2] = 4 THEN 1 ELSE 0]
MCSimulated == <<"BTC", "ETH">>
=============================================================================
