----------------------------- MODULE Processor -----------------------------
(***************************************************************************)
(* The processing service (processing/cmd/processor/main.go and its        *)
(* consumer and forwarder): worker goroutines share one Kafka reader,      *)
(* validate each raw trade and forward it, or dead letter it.              *)
(*                                                                         *)
(* Reading a message marks its offset for a commit that a background loop  *)
(* of the client library makes every second and at Close, whatever becomes *)
(* of the message; nothing waits for the forward.                          *)
(*                                                                         *)
(* Abstracted: payloads (a message has the verdict of Normalize), keys and *)
(* partitions (the input is one log).  Kafka and its client library are    *)
(* external: a write may fail, with or without its effect.                 *)
(***************************************************************************)
EXTENDS Naturals, Sequences, FiniteSets

CONSTANTS
  Workers,    \* worker goroutines
  Log,        \* the messages of trades.raw; offset i is Log[i]
  MaxStarts   \* bound: times the service is started

(* Normalize accepts the trade, or returns ErrInvalidTrade; an empty       *)
(* message is not looked at.                                               *)
Verdicts == {"valid", "invalid", "empty"}

ASSUME ProcessorAssumption ==
  /\ IsFiniteSet(Workers)
  /\ Log \in Seq(Verdicts)
  /\ MaxStarts \in Nat

VARIABLES
  main,       \* "down", "running" or "closing"
  at,         \* where each worker is
  hand,       \* the offset each worker holds, or 0
  position,   \* offset up to which the reader has handed out messages
  marked,     \* offset up to which commits are requested
  committed,  \* offset committed for the consumer group
  cancelled,  \* SIGINT or SIGTERM was received
  starts,     \* times the service was started
  answered,   \* history: offsets forwarded, dead lettered or empty
  failed      \* history: offsets whose write returned an error (logged)

workerVars == <<at, hand>>
offsetVars == <<position, marked, committed>>
vars == <<main, workerVars, offsetVars, cancelled, starts, answered, failed>>

Offsets == 1..Len(Log)

Init ==
  /\ main = "down"
  /\ at = [w \in Workers |-> "returned"] /\ hand = [w \in Workers |-> 0]
  /\ position = 0 /\ marked = 0 /\ committed = 0
  /\ cancelled = FALSE /\ starts = 0
  /\ answered = {} /\ failed = {}

(* Consuming resumes at the committed offset (FirstOffset without one). *)
Start ==
  /\ main = "down"
  /\ starts < MaxStarts
  /\ starts' = starts + 1
  /\ main' = "running" /\ cancelled' = FALSE
  /\ at' = [w \in Workers |-> "select"]
  /\ position' = committed /\ marked' = committed
  /\ UNCHANGED <<hand, committed, answered, failed>>

-----------------------------------------------------------------------------
(* Worker w.                                                               *)

(* The worker goes on at `place`, with the message at `offset` or none. *)
Goto(w, place, offset) ==
  /\ at' = [at EXCEPT ![w] = place]
  /\ hand' = [hand EXCEPT ![w] = offset]

(* case <-ctx.Done() *)
SelectDone(w) ==
  /\ at[w] = "select" /\ cancelled
  /\ Goto(w, "returned", 0)
  /\ UNCHANGED <<main, offsetVars, cancelled, starts, answered, failed>>

(* default: *)
SelectPoll(w) ==
  /\ at[w] = "select" /\ ~cancelled
  /\ Goto(w, "poll", 0)
  /\ UNCHANGED <<main, offsetVars, cancelled, starts, answered, failed>>

(* Mutant: an invalid trade ends the handling without a dead letter. *)
BugAfter(verdict) == IF verdict = "valid" THEN "forward" ELSE "select"

(* Where a message of this verdict goes. *)
After(verdict) ==
  CASE verdict = "valid"   -> "forward"
    [] verdict = "invalid" -> "deadletter"
    [] verdict = "empty"   -> "select"

(* ReadMessage returns a message.  It has marked its offset; a higher one  *)
(* that another worker has marked stays.                                   *)
Poll(w) ==
  /\ at[w] = "poll"
  /\ position < Len(Log)
  /\ LET o == position + 1
     IN  /\ position' = o /\ marked' = o
         /\ Goto(w, After(Log[o]), IF After(Log[o]) = "select" THEN 0 ELSE o)
         /\ answered' = answered \cup {x \in {o} : Log[x] = "empty"}
  /\ UNCHANGED <<main, committed, cancelled, starts, failed>>

(* ReadMessage returns an error while the context is alive. *)
PollError(w) ==
  /\ at[w] = "poll"
  /\ Goto(w, "select", 0)
  /\ UNCHANGED <<main, offsetVars, cancelled, starts, answered, failed>>

(* Mutant: the end of the context does not end a read. *)
BugPollCancelled(w) == FALSE /\ UNCHANGED vars

(* ReadMessage returns because of the context: it has no message, or one   *)
(* it has taken and not marked.                                            *)
PollCancelled(w) ==
  /\ at[w] = "poll" /\ cancelled
  /\ Goto(w, "returned", 0)
  /\ position' \in {position} \cup {o \in Offsets : o = position + 1}
  /\ UNCHANGED <<main, marked, committed, cancelled, starts, answered, failed>>

(* Forward to trades.normalized or to the dead letter topic. *)
Write(w) ==
  /\ at[w] \in {"forward", "deadletter"}
  /\ answered' = answered \cup {hand[w]}
  /\ Goto(w, "select", 0)
  /\ UNCHANGED <<main, offsetVars, cancelled, starts, failed>>

(* The write fails for good, or its context is done: the error is logged.  *)
WriteError(w) ==
  /\ at[w] \in {"forward", "deadletter"}
  /\ answered' \in {answered, answered \cup {hand[w]}}
  /\ failed' = failed \cup {hand[w]}
  /\ Goto(w, "select", 0)
  /\ UNCHANGED <<main, offsetVars, cancelled, starts>>

-----------------------------------------------------------------------------
(* The commit loop, the shutdown and a crash.                              *)

Commit ==
  /\ main # "down"
  /\ committed' = marked
  /\ UNCHANGED <<main, workerVars, position, marked, cancelled, starts,
                 answered, failed>>

Signal ==
  /\ main = "running" /\ ~cancelled
  /\ cancelled' = TRUE
  /\ UNCHANGED <<main, workerVars, offsetVars, starts, answered, failed>>

(* <-ctx.Done(); wg.Wait() *)
WorkersDone ==
  /\ main = "running" /\ cancelled
  /\ \A w \in Workers : at[w] = "returned"
  /\ main' = "closing"
  /\ UNCHANGED <<workerVars, offsetVars, cancelled, starts, answered, failed>>

(* The deferred Close calls: the reader commits what is marked, if it can. *)
Close ==
  /\ main = "closing"
  /\ main' = "down"
  /\ committed' \in {committed, marked}
  /\ UNCHANGED <<workerVars, position, marked, cancelled, starts, answered, failed>>

Crash ==
  /\ main # "down"
  /\ main' = "down"
  /\ at' = [w \in Workers |-> "returned"] /\ hand' = [w \in Workers |-> 0]
  /\ UNCHANGED <<offsetVars, cancelled, starts, answered, failed>>

-----------------------------------------------------------------------------
Worker(w) ==
  \/ SelectDone(w) \/ SelectPoll(w)
  \/ Poll(w) \/ PollError(w) \/ PollCancelled(w)
  \/ Write(w) \/ WriteError(w)

Next ==
  \/ Start
  \/ \E w \in Workers : Worker(w)
  \/ Commit \/ Signal \/ WorkersDone \/ Close \/ Crash

Spec == Init /\ [][Next]_vars

(* The goroutines are scheduled, a write returns, and a read returns when  *)
(* there is a message or the context is done.  A read may go on returning  *)
(* errors, and nothing makes a signal or a crash happen.                   *)
FairSpec ==
  /\ Spec
  /\ WF_vars(WorkersDone \/ Close)
  /\ \A w \in Workers :
       WF_vars(SelectDone(w) \/ SelectPoll(w) \/ PollCancelled(w)
                 \/ Write(w) \/ WriteError(w))

-----------------------------------------------------------------------------
(* Properties.                                                             *)

(* Offsets are committed before their messages are answered, but never     *)
(* more than a handful: of the messages below the committed offset, each   *)
(* run of the service leaves at most one per worker without an answer or a *)
(* logged error, whenever it crashes or is stopped.                        *)
LossBoundedByWorkers ==
  Cardinality({o \in 1..committed : o \notin answered \cup failed})
    <= starts * Cardinality(Workers)

(* After a signal the service comes to its end, wherever its workers are,  *)
(* whatever the writes and the commits do.                                 *)
ShutdownCompletes == (main = "running" /\ cancelled) ~> main = "down"
=============================================================================
