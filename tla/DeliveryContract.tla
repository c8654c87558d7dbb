-------------------------- MODULE DeliveryContract --------------------------
(***************************************************************************)
(* What the ingestor's producer promises its callers and its consumers     *)
(* (the comment above AsyncProducer, batcher.go:57-63): a message accepted *)
(* while the producer is open stays pending until it is accounted for,     *)
(* once and for all, as published, dead lettered or dropped; messages of   *)
(* one kind are accounted for in the order they were accepted; the         *)
(* destinations only receive pending messages, possibly more than once;    *)
(* and no message is accounted for as delivered before it was.             *)
(*                                                                         *)
(* There is no queue, batch, attempt or shutdown sequence here:            *)
(* AsyncProducer implements this specification.                            *)
(***************************************************************************)
EXTENDS Naturals, Sequences

CONSTANTS Trades, Rejects

VARIABLES
  open,      \* the producer accepts messages
  accepted,  \* messages in the order they were accepted
  outcome,   \* what became of each message
  topic,     \* what the main destination received
  dlqTopic   \* what the dead letter destination received

vars == <<open, accepted, outcome, topic, dlqTopic>>

Msgs == Trades \cup Rejects
Pending == {m \in Msgs : outcome[m] = "queued"}

Init ==
  /\ open = TRUE
  /\ accepted = <<>>
  /\ outcome = [m \in Msgs |-> "new"]
  /\ topic = <<>>
  /\ dlqTopic = {}

Accept(m) ==
  /\ open
  /\ outcome[m] = "new"
  /\ accepted' = Append(accepted, m)
  /\ outcome' = [outcome EXCEPT ![m] = "queued"]
  /\ UNCHANGED <<open, topic, dlqTopic>>

Refuse(m) ==
  /\ outcome[m] = "new"
  /\ outcome' = [outcome EXCEPT ![m] = "refused"]
  /\ UNCHANGED <<open, accepted, topic, dlqTopic>>

Shut == open' = FALSE /\ UNCHANGED <<accepted, outcome, topic, dlqTopic>>

(* Pending trades are appended to the topic, pending messages of any kind  *)
(* are added to the dead letter destination.                               *)
Received ==
  /\ Len(topic') >= Len(topic)
  /\ SubSeq(topic', 1, Len(topic)) = topic
  /\ \A i \in (Len(topic) + 1)..Len(topic') : topic'[i] \in Pending \cap Trades
  /\ dlqTopic \subseteq dlqTopic'
  /\ dlqTopic' \ dlqTopic \subseteq Pending

(* S is an initial part, in order of acceptance, of what is pending. *)
Oldest(S, pending) ==
  \A i, j \in DOMAIN accepted :
    /\ i < j
    /\ accepted[i] \in pending
    /\ accepted[j] \in S
    => accepted[i] \in S

AccountFor(S, result) ==
  /\ result = "published" =>
       S \subseteq Trades /\ \A m \in S : \E i \in DOMAIN topic' : topic'[i] = m
  /\ result = "deadLettered" => S \subseteq dlqTopic'
  /\ outcome' = [m \in Msgs |-> IF m \in S THEN result ELSE outcome[m]]

Work ==
  /\ Received
  /\ \E kind \in {Trades, Rejects} :
       \E S \in SUBSET (Pending \cap kind) :
         \E result \in {"published", "deadLettered", "dropped"} :
           Oldest(S, Pending \cap kind) /\ AccountFor(S, result)
  /\ UNCHANGED <<open, accepted>>

Next ==
  \/ \E m \in Msgs : Accept(m) \/ Refuse(m)
  \/ Shut
  \/ Work

Spec == Init /\ [][Next]_vars
=============================================================================
