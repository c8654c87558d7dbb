-------------------------- MODULE MCScoringService --------------------------
(* Instances of ScoringService for TLC: two symbols, so that the interval  *)
(* of one passes while the other has unsaved trades.                       *)
EXTENDS ScoringService

CONSTANTS btc, eth

M(k, s) == [kind |-> k, symbol |-> s]

MCSymbols == {btc, eth}
MCLog == <<M("trade", btc), M("trade", eth), M("skip", eth),
           M("trade", btc), M("trade", btc), M("poison", btc)>>
=============================================================================
