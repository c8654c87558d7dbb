-------------------------- MODULE MCAsyncProducer --------------------------
(* Instances of AsyncProducer for TLC: three trades, two of them of one    *)
(* market, and one rejected record.                                        *)
EXTENDS AsyncProducer, TLC

CONSTANTS t1, t2, t3, r1, btc, eth

MCTrades == {t1, t2, t3}
MCRejects == {r1}
MCKeyOf == t1 :> btc @@ t2 :> btc @@ t3 :> eth @@ r1 :> btc

MCTwoTrades == {t1, t2}

(* Trades of one market, and publishers, are interchangeable. *)
MCSymmetry == Permutations({t1, t2}) \cup Permutations(Publishers)
=============================================================================
