---------------------------- MODULE MCRabbitSink ----------------------------
(* Instances of RabbitSink for TLC: batches of up to two messages, enough  *)
(* calls for a failed batch, its retry and a batch after it.               *)
EXTENDS RabbitSink

MCNumMessages == 3
MCMaxCalls == 3
=============================================================================
