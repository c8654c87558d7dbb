---------------------------- MODULE MCProcessor ----------------------------
(* Instance of Processor for TLC: more messages than the workers of a run  *)
(* can lose, of every verdict.                                             *)
EXTENDS Processor

CONSTANTS w1, w2

MCWorkers == {w1, w2}
MCLog == <<"valid", "invalid", "invalid", "empty", "invalid">>
=============================================================================
