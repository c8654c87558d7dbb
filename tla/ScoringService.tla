--------------------------- MODULE ScoringService ---------------------------
(***************************************************************************)
(* The scorer: its Kafka consumer loop, its checkpoints in PostgreSQL and  *)
(* its restarts (scoring/service.py, checkpoint.py, registry.py).          *)
(*                                                                         *)
(* The service reads `trades.normalized` in offset order, folds each trade *)
(* into the state of its symbol, checkpoints all the states once a symbol  *)
(* has seen CheckpointEvery trades, and commits its Kafka position after   *)
(* that.  It may be interrupted (SIGINT), or stop without running any more *)
(* code: SIGTERM, for which no handler is installed, or a crash.           *)
(*                                                                         *)
(* Abstracted: a scorer state (EWMA, variance, count) is a function of the *)
(* trades applied to it, so it is modelled as the sequence of their        *)
(* offsets; whether a trade is toxic is a choice.  The topic is one        *)
(* partition, and the service is the only member of its consumer group.    *)
(* PostgreSQL, the broker and the Kafka client library are external: a     *)
(* call of them may fail, with or without its effect.                      *)
(***************************************************************************)
EXTENDS Integers, Sequences, FiniteSets, Functions

CONSTANTS
  Symbols,          \* symbols, upper-cased
  Log,              \* the messages of the input topic; offset i is Log[i]
  CheckpointEvery,  \* ScoringConfig.checkpoint_every
  MaxStarts         \* bound: times the service is started

(* "skip" is a message process_message ignores (undecodable, no symbol);   *)
(* "poison" is one it raises on (a JSON value that is not an object, a     *)
(* quantity that is not a number).                                         *)
Messages == [kind : {"trade", "skip", "poison"}, symbol : Symbols]

(* SCORER_CHECKPOINT_EVERY is any integer. *)
ASSUME ScoringAssumption ==
  /\ Log \in Seq(Messages)
  /\ CheckpointEvery \in Int
  /\ MaxStarts \in Nat

VARIABLES
  pc,         \* where run() is, or "down"
  registry,   \* the scorer state of each symbol, in memory
  known,      \* symbols the registry has a scorer for
  store,      \* the scorer_checkpoints table
  since,      \* _trades_since_checkpoint
  position,   \* offset up to which the client has handed out messages
  committed,  \* offset committed for the consumer group
  lastMsg,    \* last_msg is not None
  nullStore,  \* main() fell back to NullCheckpointStore
  buffer,     \* number of alerts in the queue of the Kafka producer
  starts,     \* times the service was started
  exit,       \* how the last run ended
  lapses      \* history: unusual events so far

processVars == <<pc, registry, known, since, position, lastMsg, nullStore, buffer>>
durableVars == <<store, committed>>
vars == <<processVars, durableVars, starts, exit, lapses>>

Offsets == 1..Len(Log)
IsTrade(o) == Log[o].kind = "trade"
Lapses == {"nullStore", "restoreFailed", "saveFailed", "commitFailed",
           "finalFlushFailed", "interruptedAfterPoll", "rewound"}

TypeOK ==
  /\ pc \in {"down", "polling", "polled", "save", "commit", "finalFlush",
             "finalCommit", "closing"}
  /\ registry \in [Symbols -> Seq(Offsets)] /\ known \in SUBSET Symbols
  /\ store \in [Symbols -> Seq(Offsets)]
  /\ since \in [Symbols -> Nat]
  /\ position \in 0..Len(Log) /\ committed \in 0..Len(Log)
  /\ lastMsg \in BOOLEAN /\ nullStore \in BOOLEAN
  /\ buffer \in 0..Len(Log)
  /\ starts \in 0..MaxStarts
  /\ exit \in {"none", "finally", "SIGTERM", "crash"}
  /\ lapses \in SUBSET Lapses

Blank == [s \in Symbols |-> <<>>]

Init ==
  /\ pc = "down"
  /\ registry = Blank /\ known = {} /\ store = Blank
  /\ since = [s \in Symbols |-> 0]
  /\ position = 0 /\ committed = 0
  /\ lastMsg = FALSE /\ nullStore = FALSE
  /\ buffer = 0
  /\ starts = 0 /\ exit = "none" /\ lapses = {}

-----------------------------------------------------------------------------
(* Startup: main() and restore_checkpoints().                              *)

(* Consuming resumes at the committed offset ("earliest" without one). A   *)
(* run that resumes below what an earlier run has read replays messages.   *)
StartWith(states, null, lapse) ==
  /\ pc = "down"
  /\ starts < MaxStarts
  /\ starts' = starts + 1
  /\ pc' = "polling"
  /\ registry' = states
  /\ known' = {s \in Symbols : states[s] # <<>>}
  /\ since' = [s \in Symbols |-> 0]
  /\ position' = committed
  /\ lastMsg' = FALSE
  /\ nullStore' = null
  /\ buffer' = 0
  /\ lapses' = lapses \cup lapse
                 \cup {l \in {"rewound"} : committed < position}
  /\ UNCHANGED <<durableVars, exit>>

(* Mutant: the checkpointed states are not restored. *)
BugStart == StartWith(Blank, FALSE, {})

(* restore_all returns the checkpointed states. *)
Start == StartWith(store, FALSE, {})

(* restore_all swallows an error and returns no state. *)
StartBlank == StartWith(Blank, FALSE, {"restoreFailed"})

(* PostgreSQL is unavailable: main() uses a store that keeps nothing. *)
StartNull == StartWith(Blank, TRUE, {"nullStore"})

-----------------------------------------------------------------------------
(* The main loop.                                                          *)

(* poll() hands out a message; the client library stores its offset as the *)
(* one a later commit() will commit.                                       *)
Poll ==
  /\ pc = "polling"
  /\ position < Len(Log)
  /\ position' = position + 1
  /\ pc' = "polled"
  /\ UNCHANGED <<registry, known, since, lastMsg, nullStore, buffer, durableVars,
                 starts, exit, lapses>>

(* Mutant: the interval is exceeded by one. *)
BugDue(counts) == \E s \in Symbols : counts[s] > 0 /\ counts[s] > CheckpointEvery

(* _maybe_checkpoint_and_commit: some symbol has reached the interval (a   *)
(* symbol without trades has no entry in the dictionary).                  *)
Due(counts) == \E s \in Symbols : counts[s] > 0 /\ counts[s] >= CheckpointEvery

AfterMessage(counts) ==
  /\ lastMsg' = TRUE
  /\ pc' = IF Due(counts) THEN "save" ELSE "polling"

(* Mutant: an undecodable message is read again. *)
BugProcessSkip ==
  /\ pc = "polled"
  /\ Log[position].kind = "skip"
  /\ AfterMessage(since)
  /\ position' = position - 1
  /\ UNCHANGED <<registry, known, since, nullStore, buffer, durableVars, starts, exit,
                 lapses>>

(* process_message returns None. *)
ProcessSkip ==
  /\ pc = "polled"
  /\ Log[position].kind = "skip"
  /\ AfterMessage(since)
  /\ UNCHANGED <<registry, known, since, position, nullStore, buffer, durableVars,
                 starts, exit, lapses>>

(* process_message applies the trade; a toxic one is handed to the         *)
(* producer, which may refuse it (the error is logged).                    *)
ProcessTrade ==
  /\ pc = "polled"
  /\ IsTrade(position)
  /\ LET s == Log[position].symbol
         counts == [since EXCEPT ![s] = @ + 1]
     IN  /\ registry' = [registry EXCEPT ![s] = Append(@, position)]
         /\ known' = known \cup {s}
         /\ since' = counts
         /\ AfterMessage(counts)
  /\ buffer' \in {buffer, buffer + 1}
  /\ UNCHANGED <<position, nullStore, durableVars, starts, exit, lapses>>

(* process_message raises, before or after get_or_create has made a scorer  *)
(* for the symbol; the loop is left through its finally block.             *)
ProcessPoison ==
  /\ pc = "polled"
  /\ Log[position].kind = "poison"
  /\ known' \in {known, known \cup {Log[position].symbol}}
  /\ pc' = "finalFlush"
  /\ UNCHANGED <<registry, since, position, lastMsg, nullStore, buffer,
                 durableVars, starts, exit, lapses>>

(* The states save_all writes: one row for each scorer of the registry,    *)
(* in one transaction; the rows of other symbols stay.                     *)
SavedStates == [s \in Symbols |-> IF s \in known THEN registry[s] ELSE store[s]]

(* Mutant: only the symbols that are due are saved. *)
BugSaveAll ==
  store' = IF nullStore THEN store
           ELSE [s \in Symbols |->
                   IF since[s] >= CheckpointEvery THEN registry[s] ELSE store[s]]

(* save_all(all_states()); the null store keeps nothing. *)
SaveAll == store' = IF nullStore THEN store ELSE SavedStates

Save ==
  /\ pc = "save"
  /\ SaveAll
  /\ pc' = "commit"
  /\ UNCHANGED <<registry, known, since, position, lastMsg, nullStore, buffer,
                 committed, starts, exit, lapses>>

(* save_all raises; the transaction may have been committed all the same.  *)
(* The counters keep their values: the next message tries again.           *)
SaveError ==
  /\ pc = "save"
  /\ ~nullStore
  /\ store' \in {store, SavedStates}
  /\ pc' = "polling"
  /\ lapses' = lapses \cup {"saveFailed"}
  /\ UNCHANGED <<registry, known, since, position, lastMsg, nullStore, buffer,
                 committed, starts, exit>>

(* _trades_since_checkpoint.clear() *)
ClearCounters == since' = [s \in Symbols |-> 0]

(* consumer.commit(asynchronous=False) commits the stored position. *)
Commit ==
  /\ pc = "commit"
  /\ committed' = position
  /\ ClearCounters
  /\ pc' = "polling"
  /\ UNCHANGED <<registry, known, position, lastMsg, nullStore, buffer, store,
                 starts, exit, lapses>>

(* The commit raises, with or without effect; the loop goes on. *)
CommitError ==
  /\ pc = "commit"
  /\ committed' \in {committed, position}
  /\ ClearCounters
  /\ pc' = "polling"
  /\ lapses' = lapses \cup {"commitFailed"}
  /\ UNCHANGED <<registry, known, position, lastMsg, nullStore, buffer, store,
                 starts, exit>>

-----------------------------------------------------------------------------
(* The end of a run.                                                       *)

(* SIGINT raises KeyboardInterrupt between two steps of the loop. *)
Interrupt ==
  /\ pc \in {"polling", "polled", "save", "commit"}
  /\ pc' = "finalFlush"
  /\ lapses' = lapses \cup {l \in {"interruptedAfterPoll"} : pc = "polled"}
  /\ UNCHANGED <<registry, known, since, position, lastMsg, nullStore, buffer,
                 durableVars, starts, exit>>

(* finally: flush_checkpoints() *)
FinalFlush ==
  /\ pc = "finalFlush"
  /\ SaveAll
  /\ pc' = "finalCommit"
  /\ UNCHANGED <<registry, known, since, position, lastMsg, nullStore, buffer,
                 committed, starts, exit, lapses>>

(* flush_checkpoints() swallows the error of save_all. *)
FinalFlushError ==
  /\ pc = "finalFlush"
  /\ ~nullStore
  /\ store' \in {store, SavedStates}
  /\ pc' = "finalCommit"
  /\ lapses' = lapses \cup {"finalFlushFailed"}
  /\ UNCHANGED <<registry, known, since, position, lastMsg, nullStore, buffer,
                 committed, starts, exit>>

(* Mutant: the committed offset is one too high. *)
BugFinalCommit ==
  /\ pc = "finalCommit"
  /\ committed' = IF lastMsg THEN position + 1 ELSE committed
  /\ pc' = "closing"
  /\ UNCHANGED <<registry, known, since, position, lastMsg, nullStore, buffer, store,
                 starts, exit, lapses>>

(* finally: commit, unless no message was processed in this run. *)
FinalCommit ==
  /\ pc = "finalCommit"
  /\ committed' = IF lastMsg THEN position ELSE committed
  /\ pc' = "closing"
  /\ UNCHANGED <<registry, known, since, position, lastMsg, nullStore, buffer, store,
                 starts, exit, lapses>>

FinalCommitError ==
  /\ pc = "finalCommit"
  /\ lastMsg
  /\ committed' \in {committed, position}
  /\ pc' = "closing"
  /\ lapses' = lapses \cup {"commitFailed"}
  /\ UNCHANGED <<registry, known, since, position, lastMsg, nullStore, buffer, store,
                 starts, exit>>

(* finally: consumer.close() and producer.flush(), which returns once the  *)
(* producer's queue is empty.                                              *)
CloseClients ==
  /\ pc = "closing"
  /\ buffer = 0
  /\ pc' = "down"
  /\ exit' = "finally"
  /\ UNCHANGED <<registry, known, since, position, lastMsg, nullStore, buffer,
                 durableVars, starts, lapses>>

(* The process is gone: what is not durable is lost (it is kept in the     *)
(* variables until the next start, which overwrites it).                   *)
Die(how) ==
  /\ pc # "down"
  /\ pc' = "down"
  /\ exit' = how
  /\ UNCHANGED <<registry, known, since, position, lastMsg, nullStore, buffer,
                 durableVars, starts, lapses>>

(* SIGTERM: no handler is installed. *)
Terminate == Die("SIGTERM")
Crash == Die("crash")

(* The producer's background thread delivers an alert or gives up on it. *)
DeliverAlert ==
  /\ pc # "down"
  /\ buffer > 0
  /\ buffer' = buffer - 1
  /\ UNCHANGED <<pc, registry, known, since, position, lastMsg, nullStore, store,
                 committed, starts, exit, lapses>>

-----------------------------------------------------------------------------
Loop == Poll \/ ProcessSkip \/ ProcessTrade \/ ProcessPoison
          \/ Save \/ SaveError \/ Commit \/ CommitError

Finally == FinalFlush \/ FinalFlushError \/ FinalCommit \/ FinalCommitError
             \/ CloseClients

Next ==
  \/ Start \/ StartBlank \/ StartNull
  \/ Loop \/ Interrupt \/ Finally
  \/ Terminate \/ Crash
  \/ DeliverAlert

Spec == Init /\ [][Next]_vars

(* A running service goes on, its calls return and the producer's thread   *)
(* runs.  The container is restarted, but nothing makes a call succeed.    *)
FairSpec ==
  /\ Spec
  /\ WF_vars(Loop) /\ WF_vars(Finally) /\ WF_vars(DeliverAlert)
  /\ WF_vars(Start \/ StartBlank \/ StartNull)

-----------------------------------------------------------------------------
(* Safety.  `Without(L)` names the events a property does not survive.     *)

Without(L) == lapses \cap L = {}

Checkpointed(o) == o \in Range(store[Log[o].symbol])
CommittedTradesCheckpointed ==
  \A o \in 1..committed : IsTrade(o) => Checkpointed(o)

(* The checkpoint-before-commit invariant (service.py:24-32): whatever     *)
(* crashes, interrupts, failed saves and failed commits happen, a trade    *)
(* below the committed offset is part of a checkpointed state.             *)
CheckpointBeforeCommit ==
  Without({"nullStore", "restoreFailed", "finalFlushFailed",
           "interruptedAfterPoll"})
    => CommittedTradesCheckpointed

(* The trades of s above offset m, up to offset n. *)
TradesOf(s, m, n) == {o \in (m + 1)..n : IsTrade(o) /\ Log[o].symbol = s}

Ascending(q) == \A i, j \in DOMAIN q : i < j => q[i] < q[j]

(* Unless messages had to be replayed, each trade was applied exactly once *)
(* and in order, also across clean stops and restarts.                     *)
AppliedExactlyOnce ==
  pc \in {"polling", "save", "commit"} /\ lapses \subseteq {"saveFailed", "commitFailed"}
    => \A s \in Symbols : /\ Range(registry[s]) = TradesOf(s, 0, position)
                          /\ Ascending(registry[s])

(* While saves and commits succeed, a crash replays at most                *)
(* CheckpointEvery trades of each symbol (config.py:60: "every N trades    *)
(* (per symbol)").                                                         *)
ReplayBoundedPerSymbol ==
  Without({"saveFailed", "commitFailed"}) /\ pc # "down" =>
    \A s \in Symbols :
      Cardinality(TradesOf(s, committed, position))
        <= IF CheckpointEvery > 1 THEN CheckpointEvery ELSE 1

(* An outage of PostgreSQL or failing commits do not stop the scoring: a   *)
(* service that stays up reads all there is.                               *)
ScoringGoesOn == <>[](pc \in {"polling", "polled", "save", "commit"})
                   => <>(position = Len(Log))

-----------------------------------------------------------------------------
(* A claim of the code's comments that the code does not keep.               *)

(* "Kafka offsets are NEVER committed ahead of a PostgreSQL checkpoint"    *)
(* (service.py:26, and again :263), with a PostgreSQL that was there when  *)
(* the service started.                                                    *)
NeverAhead == Without({"nullStore"}) => CommittedTradesCheckpointed

=============================================================================
