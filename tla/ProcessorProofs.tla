-------------------------- MODULE ProcessorProofs ---------------------------
(***************************************************************************)
(* How much the processing service can lose by committing offsets before   *)
(* their messages are answered, proved for any number of workers, any      *)
(* input and any number of starts.                                         *)
(***************************************************************************)
EXTENDS Processor, FiniteSetTheorems, SequenceTheorems, TLAPS

Handled == answered \cup failed

(* Messages up to offset n without an answer or a logged error. *)
Unanswered(n) == {o \in 1..n : o \notin Handled}

(* The workers that have used up their share of this run's losses: they    *)
(* hold such a message, or have returned and may have taken one along.     *)
Spent == {w \in Workers : at[w] = "returned" \/ (hand[w] # 0 /\ hand[w] \notin Handled)}

Types ==
  /\ main \in {"down", "running", "closing"}
  /\ at \in [Workers -> {"select", "poll", "forward", "deadletter", "returned"}]
  /\ hand \in [Workers -> Nat]
  /\ position \in Nat /\ marked \in Nat /\ committed \in Nat
  /\ starts \in Nat

(* Offsets are marked once handed out and committed once marked; no two    *)
(* workers hold the same message; the workers have returned when main has. *)
Order ==
  /\ committed <= marked /\ marked <= position
  /\ \A w \in Workers :
       /\ hand[w] <= position
       /\ hand[w] # 0 <=> at[w] \in {"forward", "deadletter"}
       /\ main # "running" => at[w] = "returned"
  /\ \A v, w \in Workers : hand[v] # 0 /\ hand[v] = hand[w] => v = w

(* Each run loses at most one message per worker. *)
Budget ==
  Cardinality(Unanswered(position)) + Cardinality(Workers)
    <= starts * Cardinality(Workers) + Cardinality(Spent)

Inv == Types /\ Order /\ Budget

-----------------------------------------------------------------------------
(* Lemmas about the sets of the budget.                                    *)

(* The offsets a property counts are finitely many. *)
LEMMA SetsFinite ==
  ASSUME NEW n \in Nat
  PROVE  /\ IsFiniteSet(Unanswered(n)) /\ Cardinality(Unanswered(n)) \in Nat
         /\ IsFiniteSet(Spent) /\ Cardinality(Spent) \in Nat
         /\ IsFiniteSet(Workers) /\ Cardinality(Workers) \in Nat
         /\ Cardinality(Spent) <= Cardinality(Workers)
<1>1. IsFiniteSet(1..n)
  BY FS_Interval
<1>2. Unanswered(n) \in SUBSET (1..n) /\ Spent \in SUBSET Workers
  BY DEF Unanswered, Spent
<1>3. IsFiniteSet(Workers)
  BY ProcessorAssumption
<1> QED  BY <1>1, <1>2, <1>3, FS_Subset, FS_CardinalityType

(* One more element is at most one more. *)
LEMMA AddOne ==
  ASSUME NEW S, IsFiniteSet(S), NEW x
  PROVE  /\ IsFiniteSet(S \cup {x}) /\ Cardinality(S \cup {x}) \in Nat
         /\ Cardinality(S \cup {x}) <= Cardinality(S) + 1
<1>1. Cardinality(S) \in Nat
  BY FS_CardinalityType
<1>2. /\ IsFiniteSet(S \cup {x})
      /\ Cardinality(S \cup {x}) = Cardinality(S) \/ Cardinality(S \cup {x}) = Cardinality(S) + 1
  <2>1. CASE x \in S
    <3>1. S \cup {x} = S
      BY <2>1
    <3> QED  BY <3>1
  <2>2. CASE x \notin S
    BY <2>2, FS_AddElement
  <2> QED  BY <2>1, <2>2
<1> QED  BY <1>1, <1>2

(* A step of one worker that takes at most one more message without an     *)
(* answer, and is then spent, or that answers the message it held, keeps   *)
(* within the budget.                                                      *)
LEMMA WorkerKeepsBudget ==
  ASSUME Inv, NEW w \in Workers, starts' = starts, position' \in Nat,
         \/ /\ Unanswered(position)' \subseteq Unanswered(position)
            /\ Spent \subseteq Spent'
         \/ \E o : /\ Unanswered(position)' \subseteq Unanswered(position) \cup {o}
                   /\ w \notin Spent /\ Spent \cup {w} \subseteq Spent'
         \/ \E o \in Unanswered(position) :
              /\ Unanswered(position)' \subseteq Unanswered(position) \ {o}
              /\ Spent \subseteq Spent' \cup {w}
  PROVE  Budget'
<1> DEFINE U == Unanswered(position)
           V == Unanswered(position)'
           n == Cardinality(Workers)
<1>1. /\ IsFiniteSet(U) /\ Cardinality(U) \in Nat /\ IsFiniteSet(Spent)
      /\ Cardinality(Spent) \in Nat /\ n \in Nat /\ starts * n \in Nat
  BY SetsFinite DEF Inv, Types
<1>2. IsFiniteSet(V) /\ Cardinality(V) \in Nat
  <2>1. IsFiniteSet(1..position')
    BY FS_Interval
  <2>2. V \in SUBSET (1..position')
    BY DEF Unanswered
  <2> QED  BY <2>1, <2>2, FS_Subset, FS_CardinalityType
<1>3. IsFiniteSet(Spent') /\ Cardinality(Spent') \in Nat
  <2>1. Spent' \in SUBSET Workers
    BY DEF Spent
  <2> QED  BY <2>1, ProcessorAssumption, FS_Subset, FS_CardinalityType
<1>4. Cardinality(U) + n <= starts * n + Cardinality(Spent)
  BY DEF Inv, Budget
<1> HIDE DEF U, V, n
<1>5. ASSUME V \subseteq U, Spent \subseteq Spent'
      PROVE  Cardinality(V) + n <= starts * n + Cardinality(Spent')
  <2>1. Cardinality(V) <= Cardinality(U) /\ Cardinality(Spent) <= Cardinality(Spent')
    BY <1>1, <1>3, <1>5, FS_Subset
  <2> QED  BY <1>1, <1>2, <1>3, <1>4, <2>1
<1>6. ASSUME NEW o, V \subseteq U \cup {o}, w \notin Spent, Spent \cup {w} \subseteq Spent'
      PROVE  Cardinality(V) + n <= starts * n + Cardinality(Spent')
  <2>1. /\ IsFiniteSet(U \cup {o}) /\ Cardinality(U \cup {o}) <= Cardinality(U) + 1
        /\ Cardinality(U \cup {o}) \in Nat
    BY <1>1, AddOne
  <2>2. IsFiniteSet(Spent \cup {w}) /\ Cardinality(Spent \cup {w}) = Cardinality(Spent) + 1
    BY <1>1, <1>6, FS_AddElement
  <2>3. Cardinality(V) <= Cardinality(U \cup {o})
    BY <1>6, <2>1, FS_Subset
  <2>4. Cardinality(Spent \cup {w}) <= Cardinality(Spent')
    BY <1>3, <1>6, FS_Subset
  <2> QED  BY <1>1, <1>2, <1>3, <1>4, <2>1, <2>2, <2>3, <2>4
<1>7. ASSUME NEW o \in U, V \subseteq U \ {o}, Spent \subseteq Spent' \cup {w}
      PROVE  Cardinality(V) + n <= starts * n + Cardinality(Spent')
  <2>1. IsFiniteSet(U \ {o}) /\ Cardinality(U \ {o}) = Cardinality(U) - 1
    BY <1>1, FS_RemoveElement
  <2>2. /\ IsFiniteSet(Spent' \cup {w})
        /\ Cardinality(Spent' \cup {w}) <= Cardinality(Spent') + 1
        /\ Cardinality(Spent' \cup {w}) \in Nat
    BY <1>3, AddOne
  <2>3. Cardinality(V) <= Cardinality(U \ {o})
    BY <1>7, <2>1, FS_Subset
  <2>4. Cardinality(Spent) <= Cardinality(Spent' \cup {w})
    BY <1>7, <2>2, FS_Subset
  <2> QED  BY <1>1, <1>2, <1>3, <1>4, <2>1, <2>2, <2>3, <2>4
<1>8. Cardinality(V) + n <= starts * n + Cardinality(Spent')
  BY <1>5, <1>6, <1>7 DEF U, V
<1> QED  BY <1>8 DEF Budget, V, n

-----------------------------------------------------------------------------
(* The invariant.                                                          *)

(* At the first start nothing is marked and nothing is lost. *)
LEMMA InitInv == Init => Inv
<1> SUFFICES ASSUME Init PROVE Inv
  OBVIOUS
<1>1. Types /\ Order
  BY DEF Init, Types, Order
<1>2. Budget
  <2>1. Spent = Workers /\ Unanswered(position) = {}
    BY DEF Init, Spent, Unanswered
  <2>2. Cardinality({}) = 0 /\ Cardinality(Workers) \in Nat /\ starts = 0
    BY FS_EmptySet, SetsFinite DEF Init
  <2> QED  BY <2>1, <2>2 DEF Budget
<1> QED  BY <1>1, <1>2 DEF Inv

(* A new run gets a new budget. *)
LEMMA StartStep == Inv /\ Start => Inv'
<1> SUFFICES ASSUME Inv, Start PROVE Inv'
  OBVIOUS
<1> USE DEF Start, Inv
<1>1. Types'  BY DEF Types
<1>h. \A w \in Workers : hand[w] = 0 /\ hand'[w] = 0
  BY DEF Order, Types
<1>2. Order'  BY <1>h DEF Order, Types
<1>3. Budget'
  <2> DEFINE n == Cardinality(Workers)
  <2>1. Spent = Workers
    BY DEF Spent, Order
  <2>2. Spent' = {}
    BY <1>h DEF Spent
  <2>3. Unanswered(position)' = Unanswered(committed)
    BY DEF Unanswered, Handled
  <2>4. Unanswered(committed) \in SUBSET Unanswered(position)
    BY DEF Unanswered, Order, Types
  <2>5. Cardinality(Unanswered(committed)) <= Cardinality(Unanswered(position))
        /\ Cardinality(Unanswered(committed)) \in Nat
        /\ Cardinality(Unanswered(position)) \in Nat /\ n \in Nat
    BY <2>4, SetsFinite, FS_Subset DEF Types
  <2>6. Cardinality(Unanswered(position)) <= starts * n
    <3>1. Cardinality(Unanswered(position)) + n <= starts * n + n
      BY <2>1 DEF Budget
    <3>2. starts * n \in Nat
      BY <2>5 DEF Types
    <3> QED  BY <2>5, <3>1, <3>2
  <2>7. starts' * n = starts * n + n /\ starts * n \in Nat
    BY <2>5 DEF Types
  <2>8. Cardinality(Spent') = 0
    BY <2>2, FS_EmptySet
  <2>9. Cardinality(Unanswered(position)') + n <= starts' * n + Cardinality(Spent')
    BY <2>3, <2>5, <2>6, <2>7, <2>8
  <2> QED  BY <2>9 DEF Budget
<1> QED  BY <1>1, <1>2, <1>3

(* What a worker does outside ReadMessage and the writes. *)
LEMMA WorkerMoves ==
  ASSUME Inv, NEW w \in Workers, SelectDone(w) \/ SelectPoll(w) \/ PollError(w)
  PROVE  Inv'
<1> USE DEF Inv
<1>1. /\ at[w] \in {"select", "poll"} /\ hand' = [hand EXCEPT ![w] = 0]
      /\ \E p \in {"select", "poll", "returned"} : at' = [at EXCEPT ![w] = p]
      /\ UNCHANGED <<main, offsetVars, cancelled, starts, answered, failed>>
  BY DEF SelectDone, SelectPoll, PollError, Goto
<1>2. Types'  BY <1>1 DEF Types, offsetVars
<1>3. hand' = hand
  BY <1>1 DEF Order, Types
<1>4. main = "running"
  BY <1>1 DEF Order
<1>5. Order'  BY <1>1, <1>3, <1>4 DEF Order, Types, offsetVars
<1>6. Unanswered(position)' = Unanswered(position)
  BY <1>1 DEF Unanswered, Handled, offsetVars
<1>7. Spent \subseteq Spent'
  BY <1>1, <1>3 DEF Spent, Handled, Order, Types
<1>8. Budget'
  BY <1>1, <1>6, <1>7, WorkerKeepsBudget DEF offsetVars, Types
<1> QED  BY <1>2, <1>5, <1>8

(* A worker reads a message: it holds it now, or it was empty. *)
LEMMA PollStep ==
  ASSUME Inv, NEW w \in Workers, Poll(w)
  PROVE  Inv'
<1> USE DEF Inv
<1> DEFINE o == position + 1
           held == IF After(Log[o]) = "select" THEN 0 ELSE o
<1>1. /\ at[w] = "poll" /\ position' = o /\ marked' = o
      /\ at' = [at EXCEPT ![w] = After(Log[o])] /\ hand' = [hand EXCEPT ![w] = held]
      /\ answered' = answered \cup {x \in {o} : Log[x] = "empty"}
      /\ UNCHANGED <<main, committed, cancelled, starts, failed>>
      /\ position < Len(Log)
  BY DEF Poll, Goto
<1>2. Log[o] \in Verdicts
  <2>1. o \in 1..Len(Log)
    BY <1>1, ProcessorAssumption, LenProperties DEF Types
  <2> QED  BY <2>1, ProcessorAssumption, ElementOfSeq
<1>3. /\ After(Log[o]) \in {"forward", "deadletter", "select"}
      /\ After(Log[o]) = "select" <=> Log[o] = "empty"
  BY <1>2 DEF After, Verdicts
<1>t. position \in Nat /\ o \in Nat /\ o # 0 /\ held \in {0, o} /\ hand[w] = 0
      /\ main = "running"
  BY <1>1 DEF Types, Order
<1>4. Types'
  BY <1>1, <1>3, <1>t DEF Types
<1>a. /\ at'[w] = After(Log[o]) /\ hand'[w] = held
      /\ \A v \in Workers : v # w => at'[v] = at[v] /\ hand'[v] = hand[v]
  BY <1>1 DEF Types
<1>b. \A v \in Workers : hand[v] \in Nat /\ hand[v] # o
  BY <1>t DEF Types, Order
<1> HIDE DEF o, held
<1>h. held # 0 <=> at'[w] \in {"forward", "deadletter"}
  BY <1>3, <1>a, <1>t DEF held
<1>5. Order'
  <2>1. committed <= o /\ o <= o
    BY <1>t DEF Types, Order, o
  <2>2. ASSUME NEW v \in Workers
        PROVE  /\ hand'[v] <= o
               /\ hand'[v] # 0 <=> at'[v] \in {"forward", "deadletter"}
    <3>1. CASE v = w
      BY <1>a, <1>h, <1>t, <3>1
    <3>2. CASE v # w
      BY <1>a, <1>t, <3>2 DEF Types, Order, o
    <3> QED  BY <3>1, <3>2
  <2>3. ASSUME NEW u \in Workers, NEW v \in Workers, hand'[u] # 0, hand'[u] = hand'[v]
        PROVE  u = v
    BY <1>a, <1>b, <1>t, <2>3 DEF Order
  <2> QED  BY <1>1, <1>t, <2>1, <2>2, <2>3 DEF Order
<1>6. answered \subseteq answered'
  BY <1>1
<1>7. CASE o \in Handled'
  <2>1. Unanswered(position)' \subseteq Unanswered(position)
    BY <1>1, <1>6, <1>7, <1>t DEF Unanswered, Handled, o
  <2>2. ASSUME NEW v \in Spent
        PROVE  v \in Spent'
    <3>1. v # w
      BY <1>1, <1>t DEF Spent
    <3>2. at[v] = "returned" \/ (hand[v] # 0 /\ hand[v] \notin Handled)
      BY DEF Spent
    <3>3. Handled' \subseteq Handled \cup {o}
      BY <1>1 DEF Handled
    <3>4. v \in Workers
      BY DEF Spent
    <3>5. at'[v] = at[v] /\ hand'[v] = hand[v] /\ hand[v] # o
      BY <1>a, <1>b, <3>1, <3>4
    <3>6. at'[v] = "returned" \/ (hand'[v] # 0 /\ hand'[v] \notin Handled')
      BY <3>2, <3>3, <3>5
    <3> QED  BY <3>4, <3>6 DEF Spent
  <2>b. Budget'
    BY <1>1, <1>t, <2>1, <2>2, WorkerKeepsBudget
  <2> QED  BY <1>4, <1>5, <2>b
<1>8. CASE o \notin Handled'
  <2>1. Log[o] # "empty" /\ answered' = answered /\ held = o
    BY <1>1, <1>3, <1>8 DEF Handled, held
  <2>2. Handled' = Handled
    BY <1>1, <2>1 DEF Handled
  <2>3. Unanswered(position)' \subseteq Unanswered(position) \cup {o}
    BY <1>1, <1>t, <2>2 DEF Unanswered, o
  <2>4. w \notin Spent /\ Spent \cup {w} \subseteq Spent'
    <3>1. w \notin Spent
      BY <1>1, <1>t DEF Spent
    <3>2. w \in Spent'
      BY <1>8, <1>a, <1>t, <2>1 DEF Spent
    <3>3. ASSUME NEW v \in Spent
          PROVE  v \in Spent'
      <4>1. v \in Workers /\ v # w
        BY <3>1 DEF Spent
      <4>2. at'[v] = at[v] /\ hand'[v] = hand[v]
        BY <1>a, <4>1
      <4>3. at'[v] = "returned" \/ (hand'[v] # 0 /\ hand'[v] \notin Handled')
        BY <2>2, <4>2 DEF Spent
      <4> QED  BY <4>1, <4>3 DEF Spent
    <3> QED  BY <3>1, <3>2, <3>3
  <2>b. Budget'
    BY <1>1, <1>t, <2>3, <2>4, WorkerKeepsBudget
  <2> QED  BY <1>4, <1>5, <2>b
<1> QED  BY <1>4, <1>5, <1>7, <1>8

(* A worker leaves ReadMessage, and may take a message along. *)
LEMMA PollCancelledStep ==
  ASSUME Inv, NEW w \in Workers, PollCancelled(w)
  PROVE  Inv'
<1> USE DEF Inv
<1>1. /\ at[w] = "poll" /\ at' = [at EXCEPT ![w] = "returned"]
      /\ hand' = [hand EXCEPT ![w] = 0]
      /\ position' \in {position, position + 1}
      /\ UNCHANGED <<main, marked, committed, cancelled, starts, answered, failed>>
  BY DEF PollCancelled, Goto
<1>t. position \in Nat /\ position' \in Nat /\ hand[w] = 0 /\ main = "running"
  BY <1>1 DEF Types, Order
<1>2. hand' = hand
  BY <1>1, <1>t DEF Types
<1>3. Types'  BY <1>1, <1>2, <1>t DEF Types
<1>4. Order'
  <2>1. committed <= marked /\ marked <= position'
    BY <1>1, <1>t DEF Types, Order
  <2>2. ASSUME NEW v \in Workers
        PROVE  /\ hand[v] <= position'
               /\ hand[v] # 0 <=> at'[v] \in {"forward", "deadletter"}
    BY <1>1, <1>t DEF Types, Order
  <2> QED  BY <1>1, <1>2, <1>t, <2>1, <2>2 DEF Order
<1>5. Unanswered(position)' \subseteq Unanswered(position) \cup {position + 1}
  BY <1>1, <1>t DEF Unanswered, Handled
<1>6. w \notin Spent /\ Spent \cup {w} \subseteq Spent'
  BY <1>1, <1>2, <1>t DEF Spent, Handled, Types
<1>7. Budget'
  BY <1>1, <1>t, <1>5, <1>6, WorkerKeepsBudget
<1> QED  BY <1>3, <1>4, <1>7

(* A worker writes its message, or logs that it could not. *)
LEMMA WriteStep ==
  ASSUME Inv, NEW w \in Workers, Write(w) \/ WriteError(w)
  PROVE  Inv'
<1> USE DEF Inv
<1>1. /\ at[w] \in {"forward", "deadletter"} /\ at' = [at EXCEPT ![w] = "select"]
      /\ hand' = [hand EXCEPT ![w] = 0] /\ Handled' = Handled \cup {hand[w]}
      /\ UNCHANGED <<main, position, marked, committed, cancelled, starts>>
  BY DEF Write, WriteError, Goto, Handled, offsetVars
<1>t. position \in Nat /\ hand[w] # 0 /\ hand[w] \in 1..position /\ main = "running"
  BY <1>1 DEF Types, Order
<1>a. /\ at'[w] = "select" /\ hand'[w] = 0
      /\ \A v \in Workers : v # w => at'[v] = at[v] /\ hand'[v] = hand[v]
  BY <1>1 DEF Types
<1>2. Types'  BY <1>1 DEF Types
<1>3. Order'  BY <1>1, <1>a, <1>t DEF Types, Order
(* No other worker holds this message. *)
<1>4. ASSUME NEW v \in Spent, v # w
      PROVE  v \in Spent'
  BY <1>1, <1>4, <1>a DEF Spent, Order
<1>5. Unanswered(position)' = Unanswered(position) \ {hand[w]}
  BY <1>1 DEF Unanswered
<1>6. CASE hand[w] \in Handled
  <2>1. w \notin Spent
    BY <1>1, <1>6 DEF Spent
  <2>2. Unanswered(position)' \subseteq Unanswered(position) /\ Spent \subseteq Spent'
    BY <1>4, <1>5, <2>1
  <2>3. Budget'
    BY <1>1, <1>t, <2>2, WorkerKeepsBudget
  <2> QED  BY <1>2, <1>3, <2>3
<1>7. CASE hand[w] \notin Handled
  <2>1. hand[w] \in Unanswered(position)
    BY <1>7, <1>t DEF Unanswered
  <2>2. Spent \subseteq Spent' \cup {w}
    BY <1>4
  <2>3. Unanswered(position)' \subseteq Unanswered(position) \ {hand[w]}
    BY <1>5
  <2>4. Budget'
    BY <1>1, <1>t, <2>1, <2>2, <2>3, WorkerKeepsBudget
  <2> QED  BY <1>2, <1>3, <2>4
<1> QED  BY <1>6, <1>7

(* Commits, the signal, the shutdown and a crash take no message. *)
LEMMA MainStep ==
  ASSUME Inv, Commit \/ Signal \/ WorkersDone \/ Close \/ Crash
  PROVE  Inv'
<1> USE DEF Inv
<1>1. /\ position' = position /\ marked' = marked /\ committed' \in {committed, marked}
      /\ UNCHANGED <<starts, answered, failed>>
      /\ main' \in {"down", "running", "closing"}
  BY DEF Commit, Signal, WorkersDone, Close, Crash, offsetVars, Types
<1>2. CASE UNCHANGED workerVars
  <2>1. \A w \in Workers : main' # "running" => at[w] = "returned"
    <3>1. \A w \in Workers : main # "running" => at[w] = "returned"
      BY DEF Order
    <3>2. CASE main # "running" \/ main' = "running"
      BY <3>1, <3>2
    <3>3. CASE main = "running" /\ main' # "running"
      <4>1. WorkersDone \/ Crash
        BY <3>3 DEF Commit, Signal, Close
      <4>2. CASE WorkersDone
        BY <4>2 DEF WorkersDone
      <4>3. CASE Crash
        <5>1. at' = [w \in Workers |-> "returned"] /\ at' = at
          BY <1>2, <4>3 DEF Crash, workerVars
        <5> QED  BY <5>1
      <4> QED  BY <4>1, <4>2, <4>3
    <3> QED  BY <3>2, <3>3
  <2>2. Types'  BY <1>1, <1>2 DEF Types, workerVars
  <2>3. Order'  BY <1>1, <1>2, <2>1 DEF Order, Types, workerVars
  <2>4. Budget'  BY <1>1, <1>2 DEF Budget, Unanswered, Spent, Handled, workerVars
  <2> QED  BY <2>2, <2>3, <2>4
<1>3. CASE at' = [w \in Workers |-> "returned"] /\ hand' = [w \in Workers |-> 0]
  <2>1. Types'  BY <1>1, <1>3 DEF Types
  <2>2. Order'  BY <1>1, <1>3 DEF Order, Types
  <2>3. Spent' = Workers /\ Unanswered(position)' = Unanswered(position)
    BY <1>1, <1>3 DEF Spent, Unanswered, Handled
  <2>4. /\ Cardinality(Spent) \in Nat /\ Cardinality(Workers) \in Nat
        /\ Cardinality(Spent) <= Cardinality(Workers)
        /\ Cardinality(Unanswered(position)) \in Nat
    BY SetsFinite DEF Types
  <2>5. starts * Cardinality(Workers) \in Nat
    BY <2>4 DEF Types
  <2>6. Cardinality(Unanswered(position)) + Cardinality(Workers)
          <= starts * Cardinality(Workers) + Cardinality(Spent)
    BY DEF Budget
  <2>7. Cardinality(Unanswered(position)) + Cardinality(Workers)
          <= starts * Cardinality(Workers) + Cardinality(Workers)
    BY <2>4, <2>5, <2>6
  <2> QED  BY <1>1, <2>1, <2>2, <2>3, <2>7 DEF Budget
<1> QED
  BY <1>2, <1>3 DEF Commit, Signal, WorkersDone, Close, Crash

(* Every step keeps the invariant. *)
LEMMA InvStep == Inv /\ [Next]_vars => Inv'
<1> SUFFICES ASSUME Inv, [Next]_vars PROVE Inv'
  OBVIOUS
<1>1. CASE UNCHANGED vars
  BY <1>1 DEF vars, workerVars, offsetVars, Inv, Types, Order, Budget, Unanswered,
     Spent, Handled
<1>2. ASSUME NEW w \in Workers, Worker(w)
      PROVE  Inv'
  BY <1>2, WorkerMoves, PollStep, PollCancelledStep, WriteStep DEF Worker
<1> QED
  BY <1>1, <1>2, StartStep, MainStep DEF Next

(* Whatever crashes, signals and failed writes happen, of the messages     *)
(* below the committed offset each run of the service leaves at most one   *)
(* per worker without an answer or a logged error.                         *)
THEOREM LossIsBounded == Spec => []LossBoundedByWorkers
<1>1. Spec => []Inv
  BY InitInv, InvStep, PTL DEF Spec
<1>2. Inv => LossBoundedByWorkers
  <2> SUFFICES ASSUME Inv PROVE LossBoundedByWorkers
    OBVIOUS
  <2>1. /\ IsFiniteSet(Unanswered(position)) /\ Cardinality(Unanswered(position)) \in Nat
        /\ Cardinality(Spent) \in Nat /\ Cardinality(Workers) \in Nat
        /\ Cardinality(Spent) <= Cardinality(Workers)
        /\ Cardinality(Unanswered(committed)) \in Nat
    BY SetsFinite DEF Inv, Types
  <2>2. Unanswered(committed) \in SUBSET Unanswered(position)
    BY DEF Inv, Types, Order, Unanswered
  <2>3. Cardinality(Unanswered(committed)) <= Cardinality(Unanswered(position))
    BY <2>1, <2>2, FS_Subset
  <2>4. starts * Cardinality(Workers) \in Nat
    BY <2>1 DEF Inv, Types
  <2>5. Cardinality(Unanswered(committed)) <= starts * Cardinality(Workers)
    BY <2>1, <2>3, <2>4 DEF Inv, Budget
  <2> QED  BY <2>5 DEF LossBoundedByWorkers, Unanswered, Handled
<1> QED  BY <1>1, <1>2, PTL
=============================================================================
