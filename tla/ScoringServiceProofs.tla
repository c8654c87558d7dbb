------------------------ MODULE ScoringServiceProofs ------------------------
(***************************************************************************)
(* The guarantees of the scorer's checkpoints, proved for any symbols, any *)
(* input topic, any checkpoint interval and any number of starts: what is  *)
(* committed is checkpointed, every trade is applied exactly once unless   *)
(* it has to be replayed, and a crash replays a bounded number of trades.  *)
(***************************************************************************)
EXTENDS ScoringService, FiniteSetTheorems, SequenceTheorems, TLAPS

(* The messages below this offset have been dealt with in this run. *)
Handled == IF pc = "polled" THEN position - 1 ELSE position

(* A message is in hand only above the committed offset; an alert is       *)
(* queued only for a message that was handled; what has state is known.    *)
Progress ==
  /\ committed <= position /\ buffer <= position
  /\ pc = "polled" => committed < position /\ buffer < position
  /\ \A s \in Symbols : registry[s] # <<>> => s \in known
  /\ nullStore => "nullStore" \in lapses

(* While running the registry holds every trade handled, and between a     *)
(* save and its commit the checkpoints hold every trade about to be        *)
(* committed.                                                              *)
NothingMissing ==
  Without({"nullStore", "restoreFailed", "finalFlushFailed",
           "interruptedAfterPoll"}) =>
    /\ CommittedTradesCheckpointed
    /\ pc # "down" => \A o \in 1..Handled :
         IsTrade(o) => o \in Range(registry[Log[o].symbol])
    /\ pc \in {"commit", "finalCommit"} =>
         \A o \in 1..position : IsTrade(o) => Checkpointed(o)

(* A state is the trades handled, once each and in order; and the          *)
(* checkpoints are the states wherever a restart would not replay.         *)
NothingTwice ==
  lapses \subseteq {"saveFailed", "commitFailed"} =>
    /\ pc # "down" \/ committed = position =>
         \A s \in Symbols : /\ Range(registry[s]) = TradesOf(s, 0, Handled)
                            /\ Ascending(registry[s])
    /\ \A s \in Symbols \ known : store[s] = <<>>
    /\ pc \in {"commit", "finalCommit"} \/ committed = position =>
         store = registry

(* The counters count the trades above the committed offset, and a symbol  *)
(* that has reached the interval is saved before the next message is read. *)
CountersHold ==
  Without({"saveFailed", "commitFailed"}) /\ pc # "down" =>
    /\ pc \in {"polling", "polled"} => ~Due(since)
    /\ pc \in {"polling", "polled", "save", "commit"} =>
         \A s \in Symbols : since[s] = Cardinality(TradesOf(s, committed, Handled))
    /\ ReplayBoundedPerSymbol

Inv == TypeOK /\ Progress

-----------------------------------------------------------------------------
(* Lemmas about the data.                                                  *)

(* Appending adds one element to the range of a sequence. *)
LEMMA RangeAppend ==
  ASSUME NEW S, NEW s \in Seq(S), NEW e \in S
  PROVE  Range(Append(s, e)) = Range(s) \cup {e}
<1> DEFINE t == Append(s, e)
<1>1. t \in Seq(S) /\ Len(t) = Len(s) + 1 /\ Len(s) \in Nat
      /\ (\A i \in 1..Len(s) : t[i] = s[i]) /\ t[Len(s) + 1] = e
  BY AppendProperties, LenProperties
<1>2. Range(t) = {t[i] : i \in 1..Len(t)} /\ Range(s) = {s[i] : i \in 1..Len(s)}
  BY <1>1, RangeEquality
<1>3. 1..Len(t) = (1..Len(s)) \cup {Len(s) + 1}
  BY <1>1
<1> HIDE DEF t
<1>4. \A x : x \in Range(t) <=> x \in Range(s) \cup {e}
  BY <1>1, <1>2, <1>3
<1> QED  BY <1>4 DEF t

(* An ascending sequence stays ascending when a greater offset is added. *)
LEMMA AscendingAppend ==
  ASSUME NEW s \in Seq(Nat), Ascending(s), NEW e \in Nat,
         \A x \in Range(s) : x < e
  PROVE  Ascending(Append(s, e))
<1> DEFINE t == Append(s, e)
<1>1. t \in Seq(Nat) /\ Len(t) = Len(s) + 1 /\ Len(s) \in Nat
      /\ (\A i \in 1..Len(s) : t[i] = s[i]) /\ t[Len(s) + 1] = e
  BY AppendProperties, LenProperties
<1>2. DOMAIN s = 1..Len(s) /\ DOMAIN t = 1..Len(t)
  BY <1>1, LenProperties
<1>3. \A i \in 1..Len(s) : s[i] < e
  BY <1>2 DEF Range
<1> HIDE DEF t
<1>4. Ascending(t)
  BY <1>1, <1>2, <1>3 DEF Ascending
<1> QED  BY <1>4 DEF t

(* The trades of a symbol: none in an empty range, one more per trade. *)
LEMMA TradesStep ==
  ASSUME NEW s \in Symbols, NEW m \in Nat, NEW n \in Nat
  PROVE  /\ TradesOf(s, m, m) = {}
         /\ m < n => TradesOf(s, m, n) =
              IF IsTrade(n) /\ Log[n].symbol = s
              THEN TradesOf(s, m, n - 1) \cup {n} ELSE TradesOf(s, m, n - 1)
<1>1. (m + 1)..m = {}
  OBVIOUS
<1>2. m < n => (m + 1)..n = ((m + 1)..(n - 1)) \cup {n}
  OBVIOUS
<1> QED  BY <1>1, <1>2 DEF TradesOf

(* Their number, in the same terms. *)
LEMMA TradesCount ==
  ASSUME NEW s \in Symbols, NEW m \in Nat, NEW n \in Nat
  PROVE  /\ Cardinality(TradesOf(s, m, n)) \in Nat
         /\ Cardinality(TradesOf(s, m, m)) = 0
         /\ m < n => Cardinality(TradesOf(s, m, n)) =
              Cardinality(TradesOf(s, m, n - 1)) +
                IF IsTrade(n) /\ Log[n].symbol = s THEN 1 ELSE 0
<1>1. ASSUME NEW k \in Int
      PROVE  IsFiniteSet(TradesOf(s, m, k)) /\ Cardinality(TradesOf(s, m, k)) \in Nat
  <2>1. IsFiniteSet((m + 1)..k)
    BY FS_Interval
  <2>2. TradesOf(s, m, k) \in SUBSET ((m + 1)..k)
    BY DEF TradesOf
  <2> QED  BY <2>1, <2>2, FS_Subset, FS_CardinalityType
<1>3. Cardinality(TradesOf(s, m, m)) = 0
  BY TradesStep, FS_EmptySet
<1>4. ASSUME m < n, IsTrade(n), Log[n].symbol = s
      PROVE  Cardinality(TradesOf(s, m, n)) = Cardinality(TradesOf(s, m, n - 1)) + 1
  <2>1. TradesOf(s, m, n) = TradesOf(s, m, n - 1) \cup {n}
    BY <1>4, TradesStep
  <2>2. n \notin TradesOf(s, m, n - 1)
    BY DEF TradesOf
  <2>3. IsFiniteSet(TradesOf(s, m, n - 1))
    BY <1>1
  <2> QED  BY <2>1, <2>2, <2>3, FS_AddElement
<1>5. ASSUME m < n, ~(IsTrade(n) /\ Log[n].symbol = s)
      PROVE  TradesOf(s, m, n) = TradesOf(s, m, n - 1)
  BY <1>5, TradesStep
<1>6. Cardinality(TradesOf(s, m, n - 1)) \in Nat
  BY <1>1
<1> QED  BY <1>1, <1>3, <1>4, <1>5, <1>6

-----------------------------------------------------------------------------
(* Types and progress.                                                     *)

(* The offset of the message in hand. *)
LEMMA InHand ==
  ASSUME Inv, pc = "polled"
  PROVE  /\ position \in Offsets /\ Handled = position - 1 /\ Handled \in Nat
         /\ Log[position] \in Messages
<1>1. position \in Nat /\ committed \in Nat /\ position <= Len(Log)
      /\ committed < position /\ Len(Log) \in Nat
  BY ScoringAssumption, LenProperties DEF Inv, TypeOK, Progress
<1>2. position \in Offsets
  BY <1>1 DEF Offsets
<1>3. Log[position] \in Messages
  BY <1>2, ScoringAssumption, ElementOfSeq DEF Offsets
<1> QED  BY <1>1, <1>2, <1>3 DEF Handled

(* A service that was never started satisfies the invariants. *)
LEMMA InitHolds == Init => Inv /\ NothingMissing /\ NothingTwice /\ CountersHold
<1> SUFFICES ASSUME Init PROVE Inv /\ NothingMissing /\ NothingTwice /\ CountersHold
  OBVIOUS
<1> USE DEF Init
<1>0. Len(Log) \in Nat /\ <<>> \in Seq(Offsets) /\ MaxStarts \in Nat
  BY ScoringAssumption, LenProperties, EmptySeq
<1>1. TypeOK
  <2>1. registry \in [Symbols -> Seq(Offsets)] /\ store \in [Symbols -> Seq(Offsets)]
    BY <1>0 DEF Blank
  <2>2. since \in [Symbols -> Nat]
    OBVIOUS
  <2>3. /\ pc = "down" /\ known = {} /\ position = 0 /\ committed = 0 /\ buffer = 0
        /\ lastMsg = FALSE /\ nullStore = FALSE
        /\ starts = 0 /\ exit = "none" /\ lapses = {}
    OBVIOUS
  <2>4. 0 \in 0..Len(Log) /\ 0 \in 0..MaxStarts
    BY <1>0
  <2> HIDE DEF Init
  <2> QED  BY <2>1, <2>2, <2>3, <2>4 DEF TypeOK
<1>2. Progress
  BY DEF Progress, Blank
<1>3. NothingMissing
  BY DEF NothingMissing, CommittedTradesCheckpointed
<1>4. NothingTwice
  <2>1. \A s \in Symbols : TradesOf(s, 0, 0) = {} /\ Blank[s] = <<>>
    BY TradesStep DEF Blank
  <2>2. Range(<<>>) = {} /\ Ascending(<<>>)
    BY DEF Range, Ascending
  <2> QED  BY <2>1, <2>2 DEF NothingTwice, Handled, Blank
<1>5. CountersHold
  BY DEF CountersHold
<1> QED  BY <1>1, <1>2, <1>3, <1>4, <1>5 DEF Inv

(* Every step keeps the types: in particular an alert is queued at most    *)
(* once per message, and no offset runs past the topic.                    *)
LEMMA InvStep == Inv /\ [Next]_vars => Inv'
<1> SUFFICES ASSUME Inv, [Next]_vars PROVE Inv'
  OBVIOUS
<1> USE DEF Inv, TypeOK, Progress
<1>0. Len(Log) \in Nat /\ <<>> \in Seq(Offsets) /\ MaxStarts \in Nat
  BY ScoringAssumption, LenProperties, EmptySeq
<1>s. SavedStates \in [Symbols -> Seq(Offsets)]
  BY DEF SavedStates
<1>1. CASE Start \/ StartBlank \/ StartNull
  <2>1. Blank \in [Symbols -> Seq(Offsets)]
    BY <1>0 DEF Blank
  <2>2. PICK states \in [Symbols -> Seq(Offsets)] :
          \E null \in BOOLEAN, lapse \in SUBSET {"restoreFailed", "nullStore"} :
            StartWith(states, null, lapse) /\ (null => lapse = {"nullStore"})
    BY <1>1, <2>1 DEF Start, StartBlank, StartNull
  <2>3. PICK null \in BOOLEAN, lapse \in SUBSET {"restoreFailed", "nullStore"} :
          StartWith(states, null, lapse) /\ (null => lapse = {"nullStore"})
    BY <2>2
  <2>4. registry' \in [Symbols -> Seq(Offsets)] /\ known' \in SUBSET Symbols
        /\ (\A s \in Symbols : registry'[s] # <<>> => s \in known')
    BY <2>3 DEF StartWith
  <2>5. since' \in [Symbols -> Nat] /\ starts' \in 0..MaxStarts
    BY <1>0, <2>3 DEF StartWith
  <2>6. lapses' \in SUBSET Lapses /\ (nullStore' => "nullStore" \in lapses')
    BY <2>3 DEF StartWith, Lapses
  <2>7. pc' = "polling" /\ position' = committed /\ buffer' = 0 /\ lastMsg' = FALSE
        /\ nullStore' \in BOOLEAN /\ UNCHANGED <<store, committed, exit>>
    BY <2>3 DEF StartWith, durableVars
  <2>8. TypeOK'
    <3>1. 0 \in 0..Len(Log)
      BY <1>0
    <3> QED  BY <2>4, <2>5, <2>6, <2>7, <3>1
  <2>9. Progress'
    BY <1>0, <2>4, <2>6, <2>7
  <2> QED  BY <2>8, <2>9
<1>2. CASE Poll
  BY <1>0, <1>2 DEF Poll, durableVars
<1>3. CASE ProcessSkip
  BY <1>0, <1>3 DEF ProcessSkip, AfterMessage, durableVars
<1>4. CASE ProcessTrade
  <2> DEFINE s == Log[position].symbol
             counts == [since EXCEPT ![s] = @ + 1]
  <2>1. pc = "polled" /\ registry' = [registry EXCEPT ![s] = Append(@, position)]
        /\ known' = known \cup {s} /\ since' = counts /\ AfterMessage(counts)
        /\ buffer' \in {buffer, buffer + 1}
        /\ UNCHANGED <<position, nullStore, durableVars, starts, exit, lapses>>
    BY <1>4 DEF ProcessTrade
  <2>2. s \in Symbols /\ position \in Offsets
    BY <2>1, InHand DEF Messages
  <2>3. Append(registry[s], position) \in Seq(Offsets)
    BY <2>2, AppendProperties
  <2>4. registry' \in [Symbols -> Seq(Offsets)] /\ since' \in [Symbols -> Nat]
        /\ known' \in SUBSET Symbols
    BY <2>1, <2>2, <2>3
  <2>5. pc' \in {"save", "polling"} /\ lastMsg' \in BOOLEAN
    BY <2>1 DEF AfterMessage
  <2>6. buffer' \in 0..Len(Log) /\ buffer' <= position
    BY <2>1, <1>0
  <2>7. \A t \in Symbols : registry'[t] # <<>> => t \in known'
    BY <2>1, <2>2
  <2> QED  BY <1>0, <2>1, <2>4, <2>5, <2>6, <2>7 DEF durableVars
<1>5. CASE ProcessPoison
  <2>1. Log[position].symbol \in Symbols
    BY <1>5, InHand DEF ProcessPoison, Messages
  <2> QED  BY <1>0, <1>5, <2>1 DEF ProcessPoison, durableVars
<1>6. CASE Save \/ SaveError \/ FinalFlush \/ FinalFlushError
  <2>1. store' \in [Symbols -> Seq(Offsets)]
    BY <1>6, <1>s DEF Save, SaveError, FinalFlush, FinalFlushError, SaveAll
  <2>2. lapses' \in SUBSET Lapses /\ lapses \subseteq lapses'
    BY <1>6 DEF Save, SaveError, FinalFlush, FinalFlushError, Lapses
  <2>3. pc' \in {"commit", "polling", "finalCommit"}
        /\ UNCHANGED <<registry, known, since, position, lastMsg, nullStore, buffer,
                       committed, starts, exit>>
    BY <1>6 DEF Save, SaveError, FinalFlush, FinalFlushError
  <2> QED  BY <2>1, <2>2, <2>3
<1>7. CASE Commit \/ CommitError \/ FinalCommit \/ FinalCommitError
  <2>1. committed' \in {committed, position}
        /\ since' \in [Symbols -> Nat]
        /\ pc' \in {"polling", "closing"}
        /\ UNCHANGED <<registry, known, position, lastMsg, nullStore, buffer, store,
                       starts, exit>>
    BY <1>7
    DEF Commit, CommitError, FinalCommit, FinalCommitError, ClearCounters
  <2>2. lapses' \in SUBSET Lapses /\ lapses \subseteq lapses'
    BY <1>7 DEF Commit, CommitError, FinalCommit, FinalCommitError, Lapses
  <2> QED  BY <1>0, <2>1, <2>2
<1>8. CASE Interrupt
  BY <1>0, <1>8 DEF Interrupt, Lapses, durableVars
<1>9. CASE CloseClients \/ Terminate \/ Crash
  BY <1>0, <1>9 DEF CloseClients, Terminate, Crash, Die, durableVars
<1>10. CASE DeliverAlert
  BY <1>0, <1>10 DEF DeliverAlert
<1>11. CASE UNCHANGED vars
  BY <1>11 DEF vars, processVars, durableVars
<1> QED
  BY <1>1, <1>2, <1>3, <1>4, <1>5, <1>6, <1>7, <1>8, <1>9, <1>10, <1>11
  DEF Next, Loop, Finally

(* Type correctness of the scoring service: offsets stay within the topic, *)
(* the states and the checkpoints hold only offsets of messages, and the   *)
(* queue of alerts is never longer than the topic.                         *)
THEOREM TypeCorrect == Spec => []TypeOK
<1>1. Spec => []Inv
  BY InitHolds, InvStep, PTL DEF Spec
<1>2. Inv => TypeOK
  BY DEF Inv
<1> QED  BY <1>1, <1>2, PTL

(* A lapse is never forgotten, so a step that ends without lapses of some  *)
(* kinds started without them.                                             *)
LEMMA LapsesGrow == [Next]_vars => lapses \subseteq lapses'
BY DEF Next, Loop, Finally, vars, processVars, durableVars, Start, StartBlank,
  StartNull, StartWith, Poll, ProcessSkip, ProcessTrade, ProcessPoison, Save,
  SaveError, Commit, CommitError, Interrupt, FinalFlush, FinalFlushError,
  FinalCommit, FinalCommitError, CloseClients, Terminate, Crash, Die, DeliverAlert

-----------------------------------------------------------------------------
(* Checkpoint before commit.                                               *)

(* The symbol of a trade of the topic is a symbol. *)
LEMMA SymbolOfTrade ==
  ASSUME Inv, NEW o \in 1..position
  PROVE  o \in Offsets /\ Log[o].symbol \in Symbols
<1>1. o \in 1..Len(Log)
  BY ScoringAssumption, LenProperties DEF Inv, TypeOK
<1>2. Log[o] \in Messages
  BY <1>1, ScoringAssumption, ElementOfSeq
<1> QED  BY <1>1, <1>2 DEF Messages, Offsets

(* What save_all writes holds every trade handled. *)
LEMMA SaveCovers ==
  ASSUME Inv, NothingMissing, pc \in {"save", "finalFlush"},
         Without({"nullStore", "restoreFailed", "finalFlushFailed",
                  "interruptedAfterPoll"}),
         NEW o \in 1..position, IsTrade(o)
  PROVE  o \in Range(SavedStates[Log[o].symbol])
<1> DEFINE s == Log[o].symbol
<1>1. s \in Symbols
  BY SymbolOfTrade
<1>2. o \in Range(registry[s])
  BY DEF NothingMissing, Handled
<1>3. s \in known
  <2>1. registry[s] # <<>>
    BY <1>2 DEF Range
  <2> QED  BY <1>1, <2>1 DEF Inv, Progress
<1> QED  BY <1>1, <1>2, <1>3 DEF SavedStates

(* No step commits a trade that is not checkpointed. *)
LEMMA MissingStep ==
  ASSUME Inv, NothingMissing, [Next]_vars
  PROVE  NothingMissing'
<1> DEFINE L == {"nullStore", "restoreFailed", "finalFlushFailed",
                 "interruptedAfterPoll"}
           Read == \A o \in 1..Handled :
                     IsTrade(o) => o \in Range(registry[Log[o].symbol])
           Saved == \A o \in 1..position : IsTrade(o) => Checkpointed(o)
<1> SUFFICES ASSUME Without(L)'
             PROVE  /\ CommittedTradesCheckpointed'
                    /\ pc' # "down" => Read'
                    /\ pc' \in {"commit", "finalCommit"} => Saved'
  BY DEF NothingMissing
<1>0. /\ Without(L) /\ CommittedTradesCheckpointed
      /\ pc # "down" => Read
      /\ pc \in {"commit", "finalCommit"} => Saved
  BY LapsesGrow DEF Without, NothingMissing
<1>t. committed \in Nat /\ position \in Nat /\ committed <= position
      /\ ~nullStore
      /\ (pc = "polled" => position > 0)
  BY <1>0, ScoringAssumption, LenProperties DEF Inv, TypeOK, Progress, Without
<1> USE DEF Checkpointed, CommittedTradesCheckpointed
<1>s. ASSUME pc \in {"save", "finalFlush"},
             store' \in {store, SavedStates}, committed' = committed
      PROVE  CommittedTradesCheckpointed'
  <2>1. \A o \in 1..position : IsTrade(o) => o \in Range(SavedStates[Log[o].symbol])
    BY <1>0, <1>s, SaveCovers
  <2> QED  BY <1>0, <1>t, <1>s, <2>1
<1>1. CASE Start
  BY <1>0, <1>t, <1>1 DEF Start, StartWith, durableVars, Handled
<1>2. CASE StartBlank \/ StartNull
  BY <1>2 DEF StartBlank, StartNull, StartWith, Without
<1>3. CASE Poll
  <2>1. Handled' = Handled
    BY <1>3, <1>t DEF Poll, Handled
  <2> QED  BY <1>0, <1>3, <2>1 DEF Poll, durableVars
<1>4. CASE ProcessSkip \/ ProcessPoison
  <2>1. /\ pc = "polled" /\ ~IsTrade(position) /\ pc' \in {"save", "polling", "finalFlush"}
        /\ UNCHANGED <<registry, position, store, committed>>
    BY <1>4 DEF ProcessSkip, ProcessPoison, AfterMessage, IsTrade, durableVars
  <2>2. Handled' = position /\ Handled = position - 1
    BY <2>1 DEF Handled
  <2> QED  BY <1>0, <1>t, <2>1, <2>2
<1>5. CASE ProcessTrade
  <2> DEFINE s == Log[position].symbol
  <2>1. /\ pc = "polled" /\ pc' \in {"save", "polling"}
        /\ registry' = [registry EXCEPT ![s] = Append(@, position)]
        /\ UNCHANGED <<position, store, committed>>
    BY <1>5 DEF ProcessTrade, AfterMessage, durableVars
  <2>2. Handled' = position /\ Handled = position - 1
    BY <2>1 DEF Handled
  <2>3. position \in Offsets /\ s \in Symbols
    BY <2>1, InHand DEF Messages
  <2>4. registry[s] \in Seq(Offsets) /\ registry \in [Symbols -> Seq(Offsets)]
    BY <2>3 DEF Inv, TypeOK
  <2>5. Range(registry'[s]) = Range(registry[s]) \cup {position}
    BY <2>1, <2>3, <2>4, RangeAppend
  <2>6. \A x : x # s => registry'[x] = registry[x]
    BY <2>1, <2>4
  <2>7. Read'
    <3> SUFFICES ASSUME NEW o \in 1..position, IsTrade(o)
                 PROVE  o \in Range(registry'[Log[o].symbol])
      BY <2>2
    <3>1. CASE o = position
      BY <2>5, <3>1
    <3>2. CASE o # position
      <4>1. o \in Range(registry[Log[o].symbol])
        BY <1>0, <1>t, <2>1, <2>2, <3>2
      <4> QED  BY <2>5, <2>6, <4>1
    <3> QED  BY <3>1, <3>2
  <2> QED  BY <1>0, <2>1, <2>7
<1>6. CASE Save \/ FinalFlush
  <2>1. /\ pc \in {"save", "finalFlush"} /\ store' = SavedStates
        /\ UNCHANGED <<registry, position, committed>>
        /\ pc' \in {"commit", "finalCommit"}
    BY <1>6, <1>t DEF Save, FinalFlush, SaveAll
  <2>2. Saved'
    BY <1>0, <2>1, SaveCovers
  <2> QED  BY <1>0, <1>s, <2>1, <2>2 DEF Handled
<1>7. CASE SaveError
  BY <1>0, <1>s, <1>7 DEF SaveError, Handled
<1>8. CASE FinalFlushError
  BY <1>8 DEF FinalFlushError, Without
<1>9. CASE Commit \/ CommitError \/ FinalCommit \/ FinalCommitError
  <2>1. /\ pc \in {"commit", "finalCommit"} /\ committed' \in {committed, position}
        /\ pc' \in {"polling", "closing"}
        /\ UNCHANGED <<registry, position, store>>
    BY <1>9 DEF Commit, CommitError, FinalCommit, FinalCommitError
  <2> QED  BY <1>0, <2>1 DEF Handled
<1>10. CASE Interrupt
  BY <1>0, <1>10 DEF Interrupt, Without, Handled, durableVars
<1>11. CASE CloseClients \/ Terminate \/ Crash
  BY <1>0, <1>11 DEF CloseClients, Terminate, Crash, Die, durableVars
<1>12. CASE DeliverAlert
  BY <1>0, <1>12 DEF DeliverAlert, Handled
<1>13. CASE UNCHANGED vars
  BY <1>0, <1>13 DEF vars, processVars, durableVars, Handled
<1> QED
  BY <1>1, <1>2, <1>3, <1>4, <1>5, <1>6, <1>7, <1>8, <1>9, <1>10, <1>11, <1>12,
     <1>13 DEF Next, Loop, Finally

(* The checkpoint-before-commit invariant of service.py:24-32: with        *)
(* crashes, signals, failed saves and failed commits anywhere, no trade    *)
(* below the committed offset is missing from the checkpoints.             *)
THEOREM CommittedIsCheckpointed == Spec => []CheckpointBeforeCommit
<1>1. Spec => [](Inv /\ NothingMissing)
  BY InitHolds, InvStep, MissingStep, PTL DEF Spec
<1>2. NothingMissing => CheckpointBeforeCommit
  BY DEF NothingMissing, CheckpointBeforeCommit
<1> QED  BY <1>1, <1>2, PTL

-----------------------------------------------------------------------------
(* Exactly once.                                                           *)

(* A message that is not a trade adds nothing; a trade adds its offset.    *)
LEMMA HandledStep ==
  ASSUME Inv, pc = "polled", NEW s \in Symbols
  PROVE  /\ TradesOf(s, 0, position) =
              IF IsTrade(position) /\ Log[position].symbol = s
              THEN TradesOf(s, 0, Handled) \cup {position} ELSE TradesOf(s, 0, Handled)
         /\ \A o \in TradesOf(s, 0, Handled) : o < position
<1>1. Handled \in Nat /\ Handled + 1 = position /\ 0 <= Handled
  BY InHand DEF Offsets
<1>2. \A o \in TradesOf(s, 0, Handled) : o < position
  BY <1>1 DEF TradesOf
<1>3. 0 < position /\ position \in Nat /\ position - 1 = Handled
  BY InHand DEF Offsets
<1> QED  BY <1>2, <1>3, TradesStep

(* No step applies a trade twice, leaves one out or swaps two.             *)
LEMMA TwiceStep ==
  ASSUME Inv, NothingTwice, [Next]_vars
  PROVE  NothingTwice'
<1> DEFINE L == {"saveFailed", "commitFailed"}
           Applied == \A s \in Symbols :
                        /\ Range(registry[s]) = TradesOf(s, 0, Handled)
                        /\ Ascending(registry[s])
           Unknown == \A s \in Symbols \ known : store[s] = <<>>
<1> SUFFICES ASSUME lapses' \subseteq L
             PROVE  /\ pc' # "down" \/ committed' = position' => Applied'
                    /\ Unknown'
                    /\ pc' \in {"commit", "finalCommit"} \/ committed' = position' =>
                         store' = registry'
  BY DEF NothingTwice
<1>0. /\ lapses \subseteq L
      /\ pc # "down" \/ committed = position => Applied
      /\ Unknown
      /\ pc \in {"commit", "finalCommit"} \/ committed = position => store = registry
  BY LapsesGrow DEF NothingTwice
<1>t. /\ committed \in Nat /\ position \in Nat /\ committed <= position
      /\ registry \in [Symbols -> Seq(Offsets)] /\ store \in [Symbols -> Seq(Offsets)]
      /\ ~nullStore
      /\ \A s \in Symbols : registry[s] # <<>> => s \in known
      /\ (pc = "polled" => committed < position)
  BY <1>0, ScoringAssumption, LenProperties DEF Inv, TypeOK, Progress
(* What save_all writes is the registry: a symbol it does not know has no  *)
(* checkpoint, nor a state.                                                *)
<1>s. SavedStates = registry
  <2>1. \A s \in Symbols : SavedStates[s] = registry[s]
    BY <1>0, <1>t DEF SavedStates
  <2>2. SavedStates = [s \in Symbols |-> SavedStates[s]]
    BY DEF SavedStates
  <2> QED  BY <1>t, <2>1, <2>2
<1>u. \A s \in Symbols \ known : registry[s] = <<>>
  BY <1>t
<1>1. CASE Start
  <2>1. /\ registry' = store /\ known' = {s \in Symbols : store[s] # <<>>}
        /\ pc' = "polling" /\ pc = "down" /\ position' = committed
        /\ committed' = committed /\ store' = store
        /\ lapses' = lapses \cup {} \cup {l \in {"rewound"} : committed < position}
    BY <1>1 DEF Start, StartWith, durableVars
  <2>2. ~(committed < position)
    BY <2>1
  <2>3. committed = position /\ store = registry /\ Applied
    BY <1>0, <1>t, <2>2
  <2>4. Handled' = Handled
    BY <2>1, <2>3 DEF Handled
  <2> QED  BY <1>0, <2>1, <2>3, <2>4
<1>2. CASE StartBlank \/ StartNull
  <2>1. "restoreFailed" \in lapses' \/ "nullStore" \in lapses'
    BY <1>2 DEF StartBlank, StartNull, StartWith
  <2> QED  BY <2>1
<1>3. CASE Poll
  <2>1. /\ pc = "polling" /\ pc' = "polled" /\ position' = position + 1
        /\ UNCHANGED <<registry, known, store, committed>>
    BY <1>3 DEF Poll, durableVars
  <2>2. Handled' = Handled /\ committed' # position'
    BY <1>t, <2>1 DEF Handled
  <2> QED  BY <1>0, <2>1, <2>2
<1>4. CASE ProcessSkip \/ ProcessPoison
  <2>1. /\ pc = "polled" /\ ~IsTrade(position) /\ pc' \in {"save", "polling", "finalFlush"}
        /\ known \subseteq known'
        /\ UNCHANGED <<registry, position, store, committed>>
    BY <1>4 DEF ProcessSkip, ProcessPoison, AfterMessage, IsTrade, durableVars
  <2>2. Handled' = position
    BY <2>1 DEF Handled
  <2>3. \A s \in Symbols : TradesOf(s, 0, position) = TradesOf(s, 0, Handled)
    BY <2>1, HandledStep
  <2>4. Applied'
    BY <1>0, <2>1, <2>2, <2>3
  <2> QED  BY <1>0, <1>t, <2>1, <2>4
<1>5. CASE ProcessTrade
  <2> DEFINE r == Log[position].symbol
  <2>1. /\ pc = "polled" /\ IsTrade(position) /\ pc' \in {"save", "polling"}
        /\ registry' = [registry EXCEPT ![r] = Append(@, position)]
        /\ known' = known \cup {r}
        /\ UNCHANGED <<position, store, committed>>
    BY <1>5 DEF ProcessTrade, AfterMessage, durableVars
  <2>2. Handled' = position
    BY <2>1 DEF Handled
  <2>3. r \in Symbols /\ position \in Offsets
    BY <2>1, InHand DEF Messages
  <2>4. ASSUME NEW s \in Symbols
        PROVE  Range(registry'[s]) = TradesOf(s, 0, position) /\ Ascending(registry'[s])
    <3>0. /\ Range(registry[s]) = TradesOf(s, 0, Handled) /\ Ascending(registry[s])
          /\ registry[s] \in Seq(Offsets)
      BY <1>0, <1>t, <2>1
    <3>1. CASE s = r
      <4>1. registry'[s] = Append(registry[s], position)
        BY <1>t, <2>1, <3>1
      <4>2. Range(registry'[s]) = Range(registry[s]) \cup {position}
        BY <2>3, <3>0, <4>1, RangeAppend
      <4>3. TradesOf(s, 0, position) = TradesOf(s, 0, Handled) \cup {position}
        BY <2>1, <3>1, HandledStep
      <4>4. registry[s] \in Seq(Nat)
        BY <3>0, SeqMonotonic DEF Offsets
      <4>5. \A o \in Range(registry[s]) : o < position
        BY <2>1, <3>0, HandledStep
      <4>6. Ascending(Append(registry[s], position))
        BY <1>t, <3>0, <4>4, <4>5, AscendingAppend
      <4> QED  BY <3>0, <4>1, <4>2, <4>3, <4>6
    <3>2. CASE s # r
      <4>1. registry'[s] = registry[s]
        BY <1>t, <2>1, <3>2
      <4>2. TradesOf(s, 0, position) = TradesOf(s, 0, Handled)
        BY <2>1, <3>2, HandledStep
      <4> QED  BY <3>0, <4>1, <4>2
    <3> QED  BY <3>1, <3>2
  <2>5. Applied'
    BY <2>1, <2>2, <2>4
  <2> QED  BY <1>0, <1>t, <2>1, <2>5
<1>6. CASE Save \/ FinalFlush
  <2>1. /\ pc \in {"save", "finalFlush"} /\ store' = registry
        /\ UNCHANGED <<registry, known, position, committed>>
        /\ pc' \in {"commit", "finalCommit"}
    BY <1>6, <1>s, <1>t DEF Save, FinalFlush, SaveAll
  <2>2. Handled' = Handled
    BY <2>1 DEF Handled
  <2> QED  BY <1>0, <1>u, <2>1, <2>2
<1>7. CASE SaveError
  <2>1. /\ pc = "save" /\ store' \in {store, registry}
        /\ UNCHANGED <<registry, known, position, committed>>
        /\ pc' = "polling"
    BY <1>7, <1>s DEF SaveError
  <2>2. Handled' = Handled
    BY <2>1 DEF Handled
  <2> QED  BY <1>0, <1>u, <2>1, <2>2
<1>8. CASE FinalFlushError
  BY <1>8 DEF FinalFlushError
<1>9. CASE Commit \/ CommitError \/ FinalCommit \/ FinalCommitError
  <2>1. /\ pc \in {"commit", "finalCommit"} /\ pc' \in {"polling", "closing"}
        /\ UNCHANGED <<registry, known, position, store>>
    BY <1>9 DEF Commit, CommitError, FinalCommit, FinalCommitError
  <2>2. Handled' = Handled
    BY <2>1 DEF Handled
  <2> QED  BY <1>0, <2>1, <2>2
<1>10. CASE Interrupt
  BY <1>0, <1>10 DEF Interrupt, Handled, durableVars
<1>11. CASE CloseClients \/ Terminate \/ Crash
  <2>1. /\ pc # "down" /\ pc' = "down"
        /\ UNCHANGED <<registry, known, position, store, committed>>
    BY <1>11 DEF CloseClients, Terminate, Crash, Die, durableVars
  <2>2. committed = position => Handled' = Handled
    BY <1>t, <2>1 DEF Handled
  <2> QED  BY <1>0, <2>1, <2>2
<1>12. CASE DeliverAlert
  BY <1>0, <1>12 DEF DeliverAlert, Handled
<1>13. CASE UNCHANGED vars
  BY <1>0, <1>13 DEF vars, processVars, durableVars, Handled
<1> QED
  BY <1>1, <1>2, <1>3, <1>4, <1>5, <1>6, <1>7, <1>8, <1>9, <1>10, <1>11, <1>12,
     <1>13 DEF Next, Loop, Finally

(* Unless messages had to be replayed, the state of a symbol is made of    *)
(* its trades up to the position, each once and in order, also across      *)
(* stops, crashes and restarts.                                            *)
THEOREM ExactlyOnce == Spec => []AppliedExactlyOnce
<1>1. Spec => [](Inv /\ NothingTwice)
  BY InitHolds, InvStep, TwiceStep, PTL DEF Spec
<1>2. NothingTwice => AppliedExactlyOnce
  BY DEF NothingTwice, AppliedExactlyOnce, Handled
<1> QED  BY <1>1, <1>2, PTL

-----------------------------------------------------------------------------
(* What a crash replays.                                                   *)

(* Handling one more message adds at most one trade to what a crash would  *)
(* replay, and reading one adds none to what was handled.                  *)
LEMMA CountStep ==
  ASSUME Inv, NEW s \in Symbols
  PROVE  /\ Cardinality(TradesOf(s, committed, position)) \in Nat
         /\ Cardinality(TradesOf(s, committed, Handled)) \in Nat
         /\ pc = "polled" =>
              Cardinality(TradesOf(s, committed, position)) =
                Cardinality(TradesOf(s, committed, Handled)) +
                  IF IsTrade(position) /\ Log[position].symbol = s THEN 1 ELSE 0
<1>1. committed \in Nat /\ position \in Nat
      /\ (pc = "polled" => committed < position)
  BY ScoringAssumption, LenProperties DEF Inv, TypeOK, Progress
<1>2. CASE pc = "polled"
  <2>1. Handled = position - 1 /\ Handled \in Nat
    BY <1>2, InHand
  <2>2. Cardinality(TradesOf(s, committed, Handled)) \in Nat
        /\ Cardinality(TradesOf(s, committed, position)) \in Nat
    BY <1>1, <2>1, TradesCount
  <2>3. Cardinality(TradesOf(s, committed, position)) =
          Cardinality(TradesOf(s, committed, position - 1)) +
            IF IsTrade(position) /\ Log[position].symbol = s THEN 1 ELSE 0
    BY <1>1, <1>2, TradesCount
  <2> QED  BY <2>1, <2>2, <2>3
<1>3. CASE pc # "polled"
  BY <1>1, <1>3, TradesCount DEF Handled
<1> QED  BY <1>2, <1>3

(* A counter that is not due is below the limit of the replay. *)
LEMMA NotDue ==
  ASSUME TypeOK, ~Due(since), NEW s \in Symbols
  PROVE  since[s] + 1 <= IF CheckpointEvery > 1 THEN CheckpointEvery ELSE 1
<1>1. since[s] \in Nat /\ CheckpointEvery \in Int
  BY ScoringAssumption DEF TypeOK
<1>2. since[s] = 0 \/ since[s] < CheckpointEvery
  BY <1>1 DEF Due
<1> QED  BY <1>1, <1>2

(* A step that leaves the counted trades alone. *)
LEMMA CountersUntouched ==
  ASSUME CountersHold, UNCHANGED <<position, committed>>,
         UNCHANGED <<pc, since>> \/ pc' \in {"finalFlush", "finalCommit", "closing", "down"},
         pc # "down", lapses \subseteq lapses'
  PROVE  CountersHold'
<1> SUFFICES ASSUME Without({"saveFailed", "commitFailed"})', pc' # "down"
             PROVE  /\ (pc \in {"polling", "polled"} => ~Due(since))'
                    /\ (pc \in {"polling", "polled", "save", "commit"} =>
                          \A s \in Symbols :
                            since[s] = Cardinality(TradesOf(s, committed, Handled)))'
                    /\ ReplayBoundedPerSymbol'
  BY DEF CountersHold
<1>1. Without({"saveFailed", "commitFailed"})
  BY DEF Without
<1>2. ReplayBoundedPerSymbol'
  BY <1>1 DEF CountersHold, ReplayBoundedPerSymbol
<1>3. CASE UNCHANGED <<pc, since>>
  BY <1>1, <1>2, <1>3 DEF CountersHold, Handled
<1>4. CASE pc' \in {"finalFlush", "finalCommit", "closing", "down"}
  BY <1>2, <1>4
<1> QED  BY <1>3, <1>4

(* Right after a commit or a start a crash replays nothing. *)
LEMMA CountersReset ==
  ASSUME Inv, position' = committed', committed' \in Nat, pc' # "polled",
         pc' \in {"polling", "polled", "save", "commit"} =>
           since' = [s \in Symbols |-> 0]
  PROVE  CountersHold'
<1>1. Handled' = committed'
  BY DEF Handled
<1>2. \A s \in Symbols : Cardinality(TradesOf(s, committed', committed')) = 0
  BY TradesCount
<1>3. ReplayBoundedPerSymbol'
  BY <1>2, ScoringAssumption DEF ReplayBoundedPerSymbol
<1>4. pc' \in {"polling", "polled", "save", "commit"} =>
        ~Due(since') /\ \A s \in Symbols : since'[s] = 0
  BY DEF Due
<1> QED  BY <1>1, <1>2, <1>3, <1>4 DEF CountersHold

(* No step lets more trades pile up above the committed offset.            *)
LEMMA CountersStep ==
  ASSUME Inv, CountersHold, [Next]_vars
  PROVE  CountersHold'
<1> DEFINE L == {"saveFailed", "commitFailed"}
           Limit == IF CheckpointEvery > 1 THEN CheckpointEvery ELSE 1
           Counted == \A s \in Symbols :
                        since[s] = Cardinality(TradesOf(s, committed, Handled))
           Bounded == \A s \in Symbols :
                        Cardinality(TradesOf(s, committed, position)) <= Limit
<1>g. lapses \subseteq lapses'
  BY LapsesGrow
<1>t. /\ committed \in Nat /\ position \in Nat
      /\ since \in [Symbols -> Nat] /\ CheckpointEvery \in Int
  BY ScoringAssumption, LenProperties DEF Inv, TypeOK
<1>h. ASSUME Without(L), pc # "down"
      PROVE  /\ pc \in {"polling", "polled"} => ~Due(since)
             /\ pc \in {"polling", "polled", "save", "commit"} => Counted
             /\ Bounded
  BY <1>h DEF CountersHold, ReplayBoundedPerSymbol
(* It is enough to show these three of the next state. *)
<1>p. ASSUME Without(L)' => /\ pc' \in {"polling", "polled"} => ~Due(since)'
                            /\ pc' \in {"polling", "polled", "save", "commit"} => Counted'
                            /\ Bounded'
      PROVE  CountersHold'
  BY <1>p DEF CountersHold, ReplayBoundedPerSymbol
<1>w. Without(L)' => Without(L)
  BY <1>g DEF Without
<1> HIDE DEF L, Limit, Counted, Bounded
<1>1. CASE Start \/ StartBlank \/ StartNull
  <2>1. position' = committed /\ committed' = committed /\ pc' = "polling"
        /\ since' = [s \in Symbols |-> 0]
    BY <1>1 DEF Start, StartBlank, StartNull, StartWith, durableVars
  <2> QED  BY <1>t, <2>1, CountersReset
<1>2. CASE Poll
  <2>1. /\ pc = "polling" /\ pc' = "polled" /\ position' = position + 1
        /\ UNCHANGED <<since, committed>>
    BY <1>2 DEF Poll, durableVars
  <2>2. Handled' = position /\ Handled = position
    BY <1>t, <2>1 DEF Handled
  <2>3. ASSUME Without(L)'
        PROVE  ~Due(since)' /\ Counted' /\ Bounded'
    <3>1. ~Due(since) /\ Counted
      BY <1>h, <1>w, <2>1, <2>3
    <3>2. Counted'
      BY <2>1, <2>2, <3>1 DEF Counted
    <3>3. ~Due(since)'
      BY <2>1, <3>1
    <3>4. Bounded'
      <4> SUFFICES ASSUME NEW s \in Symbols
                   PROVE  Cardinality(TradesOf(s, committed, position')) <= Limit
        BY <2>1 DEF Bounded, Limit
      <4>1. Cardinality(TradesOf(s, committed, position)) = since[s]
        BY <2>2, <3>1 DEF Counted
      <4>2. since[s] + 1 <= Limit
        BY <3>1, NotDue DEF Inv, Limit
      <4>3. Cardinality(TradesOf(s, committed, position')) \in Nat
            /\ Cardinality(TradesOf(s, committed, position'))
                 <= Cardinality(TradesOf(s, committed, position)) + 1
        <5>1. position' \in Nat /\ committed < position' /\ position' - 1 = position
          BY <1>t, <2>1 DEF Inv, Progress
        <5>2. Cardinality(TradesOf(s, committed, position')) =
                Cardinality(TradesOf(s, committed, position' - 1)) +
                  IF IsTrade(position') /\ Log[position'].symbol = s THEN 1 ELSE 0
          BY <1>t, <5>1, TradesCount
        <5>3. Cardinality(TradesOf(s, committed, position)) \in Nat
          BY CountStep
        <5> QED  BY <5>1, <5>2, <5>3
      <4> QED  BY <1>t, <4>1, <4>2, <4>3 DEF Limit
    <3> QED  BY <3>2, <3>3, <3>4
  <2> QED  BY <1>p, <2>3
<1>3. CASE ProcessSkip
  <2>1. /\ pc = "polled" /\ ~IsTrade(position)
        /\ pc' = IF Due(since) THEN "save" ELSE "polling"
        /\ UNCHANGED <<since, position, committed>>
    BY <1>3 DEF ProcessSkip, AfterMessage, IsTrade, durableVars
  <2>2. Handled' = position
    BY <2>1 DEF Handled
  <2>3. ASSUME Without(L)'
        PROVE  ~Due(since)' /\ Counted' /\ Bounded'
    <3>1. ~Due(since) /\ Counted /\ Bounded
      BY <1>h, <1>w, <2>1, <2>3
    <3>2. \A s \in Symbols : Cardinality(TradesOf(s, committed, position)) =
                              Cardinality(TradesOf(s, committed, Handled))
      BY <2>1, CountStep
    <3>3. Counted'
      BY <2>1, <2>2, <3>1, <3>2 DEF Counted
    <3> QED  BY <2>1, <3>1, <3>3 DEF Bounded, Limit
  <2> QED  BY <1>p, <2>3
<1>4. CASE ProcessTrade
  <2> DEFINE r == Log[position].symbol
             counts == [since EXCEPT ![r] = @ + 1]
  <2>1. /\ pc = "polled" /\ IsTrade(position) /\ since' = counts
        /\ pc' = IF Due(counts) THEN "save" ELSE "polling"
        /\ UNCHANGED <<position, committed>>
    BY <1>4 DEF ProcessTrade, AfterMessage, durableVars
  <2>2. Handled' = position /\ r \in Symbols
    BY <2>1, InHand DEF Handled, Messages
  <2>3. ASSUME Without(L)'
        PROVE  (pc' = "polling" => ~Due(since)') /\ Counted' /\ Bounded'
    <3>1. Counted /\ Bounded
      BY <1>h, <1>w, <2>1, <2>3
    <3>2. ASSUME NEW s \in Symbols
          PROVE  since'[s] = Cardinality(TradesOf(s, committed, position))
      <4>1. since'[s] = since[s] + IF r = s THEN 1 ELSE 0
        BY <1>t, <2>1, <2>2
      <4>2. Cardinality(TradesOf(s, committed, position)) =
              Cardinality(TradesOf(s, committed, Handled)) + IF r = s THEN 1 ELSE 0
        BY <2>1, CountStep
      <4> QED  BY <3>1, <4>1, <4>2 DEF Counted
    <3>3. Counted'
      BY <2>1, <2>2, <3>2 DEF Counted
    <3> QED  BY <2>1, <3>1, <3>3 DEF Bounded, Limit
  <2> QED  BY <1>p, <2>1, <2>3
<1>5. CASE ProcessPoison \/ Interrupt
  BY <1>5, <1>g, CountersUntouched DEF ProcessPoison, Interrupt, durableVars
<1>6. CASE Save
  <2>1. pc = "save" /\ pc' = "commit" /\ UNCHANGED <<since, position, committed>>
    BY <1>6 DEF Save
  <2>2. Handled' = Handled
    BY <2>1 DEF Handled
  <2>3. ASSUME Without(L)'
        PROVE  Counted' /\ Bounded'
    BY <1>h, <1>w, <2>1, <2>2, <2>3 DEF Counted, Bounded, Limit
  <2> QED  BY <1>p, <2>1, <2>3
<1>7. CASE SaveError \/ CommitError \/ FinalCommitError
  <2>1. "saveFailed" \in lapses' \/ "commitFailed" \in lapses'
    BY <1>7 DEF SaveError, CommitError, FinalCommitError
  <2>2. ~Without(L)'
    BY <2>1 DEF Without, L
  <2> QED  BY <1>p, <2>2
<1>8. CASE FinalFlush \/ FinalFlushError
  BY <1>8, <1>g, CountersUntouched DEF FinalFlush, FinalFlushError
<1>9. CASE Commit
  <2>1. /\ position' = committed' /\ committed' = position /\ pc' = "polling"
        /\ since' = [s \in Symbols |-> 0]
    BY <1>9 DEF Commit, ClearCounters
  <2> QED  BY <1>t, <2>1, CountersReset
<1>10. CASE FinalCommit
  <2>1. /\ pc = "finalCommit" /\ pc' = "closing" /\ position' = position
        /\ committed' \in {committed, position}
    BY <1>10 DEF FinalCommit
  <2>2. CASE committed' = position
    BY <1>t, <2>1, <2>2, CountersReset
  <2>3. CASE committed' = committed
    BY <1>g, <2>1, <2>3, CountersUntouched
  <2> QED  BY <2>1, <2>2, <2>3
<1>11. CASE CloseClients \/ Terminate \/ Crash
  BY <1>11, <1>g, CountersUntouched DEF CloseClients, Terminate, Crash, Die, durableVars
<1>12. CASE DeliverAlert
  BY <1>12, <1>g, CountersUntouched DEF DeliverAlert
<1>13. CASE UNCHANGED vars
  BY <1>13 DEF vars, processVars, durableVars, CountersHold, Due, Handled, Without,
     ReplayBoundedPerSymbol
<1> QED
  BY <1>1, <1>2, <1>3, <1>4, <1>5, <1>6, <1>7, <1>8, <1>9, <1>10, <1>11, <1>12,
     <1>13 DEF Next, Loop, Finally

(* While saves and commits succeed, a crash replays at most                *)
(* CheckpointEvery trades of a symbol (one, if the interval is not         *)
(* positive), wherever in the loop it comes.                               *)
THEOREM ReplayIsBounded == Spec => []ReplayBoundedPerSymbol
<1>1. Spec => [](Inv /\ CountersHold)
  BY InitHolds, InvStep, CountersStep, PTL DEF Spec
<1>2. CountersHold => ReplayBoundedPerSymbol
  BY DEF CountersHold, ReplayBoundedPerSymbol
<1> QED  BY <1>1, <1>2, PTL
=============================================================================
