-------------------------- MODULE DashboardProofs ---------------------------
(***************************************************************************)
(* The audit log and the broadcasts of the dashboard, proved for any       *)
(* alerts, clients and configuration requests: what a client has received  *)
(* is on record, the audit log is one line that ends with the              *)
(* configuration in force, and a quiet broadcast reaches everyone.         *)
(***************************************************************************)
EXTENDS Dashboard, FiniteSetTheorems, TLAPS

(* The audit log, and the inserts in progress. *)
AuditTypes ==
  /\ audit \in [Writers -> [step : {"out", "trigger", "commit"}, id : Nat, prev : Nat]]
  /\ rows \subseteq [id : Nat, prev : Nat, by : Writers]
  /\ IsFiniteSet(rows)
  /\ nextId \in Nat \ {0}
  /\ overlapped \in BOOLEAN

(* Ids are drawn once: below nextId, no two writers hold the same one, and *)
(* none that is in the table.                                              *)
Numbering ==
  /\ \A r \in rows : r.id \in 1..(nextId - 1) /\ r.prev < nextId
  /\ \A w \in Writers : audit[w].step # "out" =>
       /\ audit[w].id \in 1..(nextId - 1) /\ audit[w].prev < nextId
       /\ \A r \in rows : r.id # audit[w].id
  /\ \A v, w \in Writers :
       audit[v].step # "out" /\ audit[w].step # "out" /\ audit[v].id = audit[w].id
         => v = w
  /\ rows = {} \/ \E r \in rows : \A s \in rows : s.id <= r.id

(* While writers take turns, the one at work comes after every row, and    *)
(* links to the last one.                                                  *)
Turns ==
  ~overlapped =>
    /\ \A v, w \in Writers : audit[v].step # "out" /\ audit[w].step # "out" => v = w
    /\ \A w \in Writers : \A r \in rows :
         /\ audit[w].step # "out" => r.id < audit[w].id
         /\ audit[w].step = "commit" => r.id <= audit[w].prev
    /\ \A w \in Writers : audit[w].step = "commit" => audit[w].prev < audit[w].id

AuditInv == AuditTypes /\ Numbering /\ Turns /\ ChainIsLine

(* An insert is in progress exactly when its task waits for it. *)
Waiting ==
  /\ cons = "audit" <=> audit[Stream].step # "out"
  /\ \A r \in Requests : request[r] = "audit" <=> audit[r].step # "out"

(* The configuration is that of the request at work, or else of the last   *)
(* recorded change.                                                        *)
Current ==
  /\ ~overlapped /\ ~lost => \A r \in Requests : request[r] = "audit" => config = r
  /\ LastAuditIsCurrent

StreamRows == {r \in rows : r.by = Stream}

(* The alert at hand is stored before it is audited, and audited before it *)
(* is sent.                                                                *)
Recorded ==
  /\ stored \subseteq Positions
  /\ cons \in {"audit", "broadcast", "loop"} => position \in stored
  /\ \A c \in Clients :
       /\ received[c] \subseteq stored
       /\ Cardinality(received[c]) <= Cardinality(StreamRows)
       /\ cons \in {"broadcast", "loop"} =>
            Cardinality(received[c] \cup {position}) <= Cardinality(StreamRows)

(* An undisturbed loop goes over the members, and has served the clients   *)
(* it has come to, except the one it is sending to.                        *)
Quiet ==
  cons = "loop" /\ ~disturbed =>
    /\ active = members
    /\ \A c \in visited \ target : client[c] = "open" => position \in received[c]

(* What TypeOK says of the variables outside the audit log. *)
TaskTypes ==
  /\ cons \in {"read", "insert", "audit", "broadcast", "loop", "stopped"}
  /\ position \in 0..Len(Alerts)
  /\ cons \in {"insert", "audit", "broadcast", "loop"} => position # 0
  /\ client \in [Clients -> {"away", "open", "gone"}]
  /\ active \subseteq {c \in Clients : client[c] # "away"}
  /\ members \subseteq Clients /\ visited \subseteq Clients
  /\ broken \subseteq visited
  /\ target = {} \/ \E c \in visited : target = {c}
  /\ received \in [Clients -> SUBSET Positions]
  /\ request \in [Requests -> {"new", "audit", "answered"}]
  /\ config \in Requests \cup {Default}
  /\ disturbed \in BOOLEAN /\ lost \in BOOLEAN

Inv ==
  AuditInv /\ TaskTypes /\ Waiting /\ Current /\ Recorded /\ Quiet
-----------------------------------------------------------------------------
(* One more element is at most one more. *)
LEMMA AddOne ==
  ASSUME NEW S, IsFiniteSet(S), NEW x
  PROVE  /\ IsFiniteSet(S \cup {x}) /\ Cardinality(S \cup {x}) \in Nat
         /\ Cardinality(S \cup {x}) <= Cardinality(S) + 1
<1>1. Cardinality(S) \in Nat
  BY FS_CardinalityType
<1>2. /\ IsFiniteSet(S \cup {x})
      /\ Cardinality(S \cup {x}) = Cardinality(S) \/ Cardinality(S \cup {x}) = Cardinality(S) + 1
  <2>1. CASE x \in S
    <3>1. S \cup {x} = S
      BY <2>1
    <3> QED  BY <3>1
  <2>2. CASE x \notin S
    BY <2>2, FS_AddElement
  <2> QED  BY <2>1, <2>2
<1> QED  BY <1>1, <1>2

-----------------------------------------------------------------------------
(* The audit log on its own: what one move of one writer does to it.       *)

(* LIMIT 1 finds the row with the largest id, or nothing. *)
LEMMA LastIdIsLargest ==
  ASSUME AuditTypes, Numbering
  PROVE  /\ LastId \in Nat /\ LastId < nextId
         /\ \A r \in rows : r.id <= LastId
         /\ LastId = 0 \/ \E r \in rows : r.id = LastId
<1>1. nextId \in Nat \ {0}
  BY DEF AuditTypes
<1>2. CASE rows = {}
  BY <1>1, <1>2 DEF LastId
<1>3. CASE rows # {}
  <2>1. PICK m \in rows : \A s \in rows : s.id <= m.id
    BY <1>3 DEF Numbering
  <2>2. m.id \in Ids /\ \A j \in Ids : j <= m.id
    BY <2>1 DEF Ids
  <2>3. LastId \in Ids /\ \A j \in Ids : j <= LastId
    BY <1>3, <2>2 DEF LastId
  <2>4. PICK r \in rows : r.id = LastId
    BY <2>3 DEF Ids
  <2>5. r.id \in 1..(nextId - 1)
    BY <2>4 DEF Numbering
  <2>6. \A q \in rows : q.id <= LastId
    BY <2>3 DEF Ids
  <2> QED  BY <1>1, <2>4, <2>5, <2>6
<1> QED  BY <1>2, <1>3

(* Drawing an id keeps the log in order; if nobody was at work, the writer *)
(* has the log to itself.                                                  *)
LEMMA BeginKeepsAudit ==
  ASSUME AuditInv, NEW w \in Writers, AuditBegin(w)
  PROVE  AuditInv'
<1> DEFINE new == [step |-> "trigger", id |-> nextId, prev |-> 0]
<1>1. /\ audit' = [audit EXCEPT ![w] = new] /\ nextId' = nextId + 1 /\ rows' = rows
      /\ overlapped' = (overlapped \/ Busy)
  BY DEF AuditBegin
<1>2. AuditTypes /\ Numbering /\ Turns /\ ChainIsLine
  BY DEF AuditInv
<1>3. nextId \in Nat \ {0} /\ new \in [step : {"out", "trigger", "commit"}, id : Nat, prev : Nat]
  BY <1>2 DEF AuditTypes
<1>4. AuditTypes'
  <2>1. overlapped' \in BOOLEAN
    BY <1>1
  <2> QED  BY <1>1, <1>2, <1>3, <2>1 DEF AuditTypes
<1>5. /\ audit'[w] = new
      /\ \A v \in Writers : v # w => audit'[v] = audit[v]
  BY <1>1, <1>2 DEF AuditTypes
<1>6. Numbering'
  <2>1. \A r \in rows : r.id \in 1..(nextId - 1) /\ r.prev < nextId /\ r.prev \in Nat
    BY <1>2 DEF Numbering, AuditTypes
  <2>2. \A r \in rows' : r.id \in 1..(nextId' - 1) /\ r.prev < nextId' /\ r.id # nextId
    BY <1>1, <1>3, <2>1
  <2>3. ASSUME NEW v \in Writers, audit[v].step # "out"
        PROVE  /\ audit[v].id \in 1..(nextId - 1) /\ audit[v].prev < nextId
               /\ audit[v].prev \in Nat
               /\ \A r \in rows : r.id # audit[v].id
    BY <1>2, <2>3 DEF Numbering, AuditTypes
  <2>4. ASSUME NEW v \in Writers, audit'[v].step # "out"
        PROVE  /\ audit'[v].id \in 1..(nextId' - 1) /\ audit'[v].prev < nextId'
               /\ \A r \in rows' : r.id # audit'[v].id
               /\ v # w => audit'[v].id # nextId
    <3>1. CASE v = w
      BY <1>1, <1>3, <1>5, <2>2, <3>1
    <3>2. CASE v # w
      <4>1. audit'[v] = audit[v] /\ audit[v].step # "out"
        BY <1>5, <2>4, <3>2
      <4> QED  BY <1>1, <1>3, <2>3, <4>1
    <3> QED  BY <3>1, <3>2
  <2>5. ASSUME NEW u \in Writers, NEW v \in Writers, audit'[u].step # "out",
               audit'[v].step # "out", audit'[u].id = audit'[v].id
        PROVE  u = v
    <3>1. CASE u = w \/ v = w
      <4>1. audit'[w].id = nextId
        BY <1>5
      <4> QED  BY <2>4, <2>5, <3>1, <4>1
    <3>2. CASE u # w /\ v # w
      BY <1>2, <1>5, <2>5, <3>2 DEF Numbering
    <3> QED  BY <3>1, <3>2
  <2>6. rows' = {} \/ \E r \in rows' : \A s \in rows' : s.id <= r.id
    BY <1>1, <1>2 DEF Numbering
  <2> QED  BY <2>2, <2>4, <2>5, <2>6 DEF Numbering
<1>7. Turns'
  <2> SUFFICES ASSUME ~overlapped'
               PROVE  /\ \A u, v \in Writers :
                           audit'[u].step # "out" /\ audit'[v].step # "out" => u = v
                      /\ \A v \in Writers : \A r \in rows :
                           /\ audit'[v].step # "out" => r.id < audit'[v].id
                           /\ audit'[v].step = "commit" => r.id <= audit'[v].prev
                      /\ \A v \in Writers :
                           audit'[v].step = "commit" => audit'[v].prev < audit'[v].id
    BY <1>1 DEF Turns
  <2>1. \A v \in Writers : audit[v].step = "out"
    BY <1>1 DEF Busy
  <2>2. \A v \in Writers : v # w => audit'[v].step = "out"
    BY <1>5, <2>1
  <2>3. audit'[w].step = "trigger" /\ audit'[w].id = nextId
    BY <1>5
  <2>4. \A r \in rows : r.id < nextId
    BY <1>2, <1>3 DEF Numbering
  <2> QED  BY <2>2, <2>3, <2>4
<1>8. ChainIsLine'
  BY <1>1, <1>2 DEF ChainIsLine
<1> QED  BY <1>4, <1>6, <1>7, <1>8 DEF AuditInv

(* The trigger links the new row to the last one there is. *)
LEMMA TriggerKeepsAudit ==
  ASSUME AuditInv, NEW w \in Writers, AuditTrigger(w)
  PROVE  AuditInv'
<1> DEFINE new == [step |-> "commit", id |-> audit[w].id, prev |-> LastId]
<1>2. AuditTypes /\ Numbering /\ Turns /\ ChainIsLine
  BY DEF AuditInv
<1>3. /\ LastId \in Nat /\ LastId < nextId /\ \A r \in rows : r.id <= LastId
      /\ LastId = 0 \/ \E r \in rows : r.id = LastId
  BY <1>2, LastIdIsLargest
<1>4. /\ audit[w] \in [step : {"out", "trigger", "commit"}, id : Nat, prev : Nat]
      /\ nextId \in Nat \ {0}
  BY <1>2 DEF AuditTypes
<1>1. /\ audit' = [audit EXCEPT ![w] = new] /\ nextId' = nextId /\ rows' = rows
      /\ overlapped' = overlapped /\ audit[w].step = "trigger"
  BY DEF AuditTrigger
<1>5. AuditTypes'
  BY <1>1, <1>2, <1>3, <1>4 DEF AuditTypes
<1>6. /\ audit'[w] = new
      /\ \A v \in Writers : v # w => audit'[v] = audit[v]
  BY <1>1, <1>2 DEF AuditTypes
<1>7. /\ \A v \in Writers : audit'[v].id = audit[v].id
      /\ \A v \in Writers : audit'[v].step # "out" <=> audit[v].step # "out"
  BY <1>1, <1>6
<1>8. Numbering'
  <2>1. ASSUME NEW v \in Writers, audit'[v].step # "out"
        PROVE  /\ audit'[v].id \in 1..(nextId' - 1) /\ audit'[v].prev < nextId'
               /\ \A r \in rows' : r.id # audit'[v].id
    <3>1. audit'[v].prev < nextId'
      BY <1>1, <1>2, <1>3, <1>6, <1>7, <2>1 DEF Numbering
    <3> QED  BY <1>1, <1>2, <1>7, <2>1, <3>1 DEF Numbering
  <2>2. \A u, v \in Writers : audit'[u].step # "out" /\ audit'[v].step # "out"
                              /\ audit'[u].id = audit'[v].id => u = v
    BY <1>2, <1>7 DEF Numbering
  <2> QED  BY <1>1, <1>2, <2>1, <2>2 DEF Numbering
<1>9. Turns'
  <2> SUFFICES ASSUME ~overlapped
               PROVE  /\ \A u, v \in Writers :
                           audit'[u].step # "out" /\ audit'[v].step # "out" => u = v
                      /\ \A v \in Writers : \A r \in rows :
                           /\ audit'[v].step # "out" => r.id < audit'[v].id
                           /\ audit'[v].step = "commit" => r.id <= audit'[v].prev
                      /\ \A v \in Writers :
                           audit'[v].step = "commit" => audit'[v].prev < audit'[v].id
    BY <1>1 DEF Turns
  <2>1. \A u, v \in Writers : audit'[u].step # "out" /\ audit'[v].step # "out" => u = v
    BY <1>2, <1>7 DEF Turns
  <2>2. \A r \in rows : r.id < audit[w].id
    BY <1>1, <1>2 DEF Turns
  <2>3. LastId < audit[w].id
    <3>1. audit[w].id \in 1..(nextId - 1)
      BY <1>1, <1>2 DEF Numbering
    <3> QED  BY <1>3, <1>4, <2>2, <3>1
  <2>4. \A v \in Writers : v # w => audit'[v].step = "out"
    BY <1>6, <2>1
  <2>5. audit'[w].id = audit[w].id /\ audit'[w].prev = LastId
    BY <1>6
  <2> QED  BY <1>3, <2>1, <2>2, <2>3, <2>4, <2>5
<1>10. ChainIsLine'
  BY <1>1, <1>2 DEF ChainIsLine
<1> QED  BY <1>5, <1>8, <1>9, <1>10 DEF AuditInv

(* A writer is done: with its row in the table, or without. *)
Done(w) ==
  /\ audit' = [audit EXCEPT ![w] = Out]
  /\ \/ rows' = rows
     \/ audit[w].step = "commit" /\ rows' = rows \cup {NewRow(w)}
  /\ UNCHANGED <<nextId, overlapped>>

(* A writer that leaves appends its row to the line, or nothing. *)
LEMMA DoneKeepsAudit ==
  ASSUME AuditInv, NEW w \in Writers, Done(w)
  PROVE  AuditInv'
<1> DEFINE n == NewRow(w)
<1>1. /\ audit' = [audit EXCEPT ![w] = Out] /\ nextId' = nextId
      /\ overlapped' = overlapped
  BY DEF Done
<1>2. AuditTypes /\ Numbering /\ Turns /\ ChainIsLine
  BY DEF AuditInv
<1>3. rows \subseteq rows' /\ (\A r \in rows' : r \in rows \/ r = n)
  BY DEF Done
<1>4. ASSUME rows' # rows
      PROVE  audit[w].step = "commit" /\ rows' = rows \cup {n}
  BY <1>4 DEF Done
<1>5. /\ n.id = audit[w].id /\ n.prev = audit[w].prev /\ n.by = w
      /\ n \in [id : Nat, prev : Nat, by : Writers]
      /\ n.id \in Nat /\ n.prev \in Nat
  BY <1>2 DEF NewRow, AuditTypes
<1>6. /\ audit'[w].step = "out"
      /\ \A v \in Writers : v # w => audit'[v] = audit[v]
  BY <1>1, <1>2 DEF AuditTypes, Out
<1>r. nextId \in Nat \ {0} /\ \A r \in rows : r.id \in Nat /\ r.prev \in Nat
  BY <1>2 DEF AuditTypes
<1> HIDE DEF n
<1>7. AuditTypes'
  <2>1. IsFiniteSet(rows')
    BY <1>2, <1>4, FS_AddElement DEF AuditTypes
  <2>2. rows' \subseteq [id : Nat, prev : Nat, by : Writers]
    BY <1>2, <1>3, <1>5 DEF AuditTypes
  <2>3. audit' \in [Writers -> [step : {"out", "trigger", "commit"}, id : Nat, prev : Nat]]
    BY <1>1, <1>2 DEF AuditTypes, Out
  <2> QED  BY <1>1, <1>2, <2>1, <2>2, <2>3 DEF AuditTypes
<1>8. Numbering'
  <2>1. ASSUME NEW r \in rows'
        PROVE  r.id \in 1..(nextId' - 1) /\ r.prev < nextId'
    <3>1. CASE r \in rows
      BY <1>1, <1>2, <3>1 DEF Numbering
    <3>2. CASE r = n /\ rows' # rows
      BY <1>1, <1>2, <1>4, <1>5, <3>2 DEF Numbering
    <3> QED  BY <1>3, <3>1, <3>2
  <2>2. ASSUME NEW v \in Writers, audit'[v].step # "out"
        PROVE  /\ audit'[v].id \in 1..(nextId' - 1) /\ audit'[v].prev < nextId'
               /\ \A r \in rows' : r.id # audit'[v].id
    <3>1. v # w /\ audit'[v] = audit[v] /\ audit[v].step # "out"
      BY <1>6, <2>2
    <3>2. ASSUME rows' # rows
          PROVE  n.id # audit[v].id
      BY <1>2, <1>4, <1>5, <3>1, <3>2 DEF Numbering
    <3>3. /\ audit[v].id \in 1..(nextId - 1) /\ audit[v].prev < nextId
          /\ \A r \in rows : r.id # audit[v].id
      BY <1>2, <3>1 DEF Numbering
    <3> QED  BY <1>1, <1>3, <3>1, <3>2, <3>3
  <2>3. \A u, v \in Writers : audit'[u].step # "out" /\ audit'[v].step # "out"
                              /\ audit'[u].id = audit'[v].id => u = v
    BY <1>2, <1>6 DEF Numbering
  <2>4. rows' = {} \/ \E r \in rows' : \A s \in rows' : s.id <= r.id
    <3>1. CASE rows' = rows
      BY <1>2, <3>1 DEF Numbering
    <3>2. CASE rows' = rows \cup {n}
      <4>1. CASE rows = {}
        BY <1>5, <3>2, <4>1
      <4>2. ASSUME NEW m \in rows, \A s \in rows : s.id <= m.id
            PROVE  \E r \in rows' : \A s \in rows' : s.id <= r.id
        <5>1. CASE n.id <= m.id
          BY <3>2, <4>2, <5>1
        <5>2. CASE m.id <= n.id
          BY <1>5, <1>r, <3>2, <4>2, <5>2
        <5> QED  BY <1>5, <1>r, <5>1, <5>2
      <4> QED  BY <1>2, <4>1, <4>2 DEF Numbering
    <3> QED  BY <1>4, <3>1, <3>2
  <2> QED  BY <2>1, <2>2, <2>3, <2>4 DEF Numbering
<1>9. Turns' /\ ChainIsLine'
  <2>1. CASE overlapped
    BY <1>1, <2>1 DEF Turns, ChainIsLine
  <2>2. CASE ~overlapped
    <3>1. \A v \in Writers : audit[v].step # "out" /\ audit[w].step # "out" => v = w
      BY <1>2, <2>2 DEF Turns
    <3>2. \A u, v \in Writers : audit'[u].step # "out" /\ audit'[v].step # "out" => u = v
      BY <1>2, <1>6, <2>2 DEF Turns
    <3>3. ASSUME rows' # rows
          PROVE  /\ \A v \in Writers : audit'[v].step = "out"
                 /\ n.prev < n.id
                 /\ \A r \in rows : r.id < n.id /\ r.id <= n.prev
      <4>1. audit[w].step # "out" /\ audit[w].step = "commit"
        BY <1>4, <3>3
      <4>2. \A v \in Writers : audit'[v].step = "out"
        BY <1>6, <3>1, <4>1
      <4> QED  BY <1>2, <1>5, <2>2, <4>1, <4>2 DEF Turns
    <3>4. ASSUME NEW v \in Writers, NEW r \in rows'
          PROVE  /\ audit'[v].step # "out" => r.id < audit'[v].id
                 /\ audit'[v].step = "commit" => r.id <= audit'[v].prev
      <4>1. CASE rows' # rows
        BY <3>3, <4>1
      <4>2. CASE rows' = rows
        BY <1>2, <1>6, <2>2, <4>2 DEF Turns
      <4> QED  BY <4>1, <4>2
    <3>5. \A v \in Writers : audit'[v].step = "commit" => audit'[v].prev < audit'[v].id
      BY <1>2, <1>6, <2>2 DEF Turns
    <3>6. ASSUME NEW r \in rows', NEW s \in rows'
          PROVE  r.prev < r.id /\ (s.id < r.id => s.id <= r.prev)
      <4>1. CASE r \in rows /\ s \in rows
        BY <1>2, <2>2, <4>1 DEF ChainIsLine
      <4>2. CASE rows' # rows /\ r = n
        BY <1>3, <1>5, <3>3, <4>2
      <4>3. CASE rows' # rows /\ s = n /\ r \in rows
        <5>1. r.id < n.id /\ ~(n.id < r.id)
          BY <1>5, <1>r, <3>3, <4>3
        <5>2. r.prev < r.id
          BY <1>2, <2>2, <4>3 DEF ChainIsLine
        <5> QED  BY <4>3, <5>1, <5>2
      <4> QED  BY <1>3, <4>1, <4>2, <4>3
    <3> QED  BY <1>1, <2>2, <3>2, <3>4, <3>5, <3>6 DEF Turns, ChainIsLine
  <2> QED  BY <2>1, <2>2
<1> QED  BY <1>7, <1>8, <1>9 DEF AuditInv

Unwritten == UNCHANGED <<audit, rows, nextId, overlapped>>

(* What any step of the process does to the audit log. *)
LEMMA AuditMoves ==
  ASSUME AuditTypes, Waiting, Next
  PROVE  Unwritten \/ \E w \in Writers : AuditBegin(w) \/ AuditTrigger(w) \/ Done(w)
<1> USE DEF Unwritten, auditVars
<1>w. Stream \in Writers /\ Requests \subseteq Writers
  BY DEF Writers
<1>1. ASSUME NEW w \in Writers, AuditCommit(w) \/ AuditError(w)
      PROVE  Done(w)
  BY <1>1 DEF AuditCommit, AuditError, Done
<1>2. CASE Insert
  BY <1>2, <1>w DEF Insert
<1>3. CASE StreamAudit
  BY <1>1, <1>3, <1>w DEF StreamAudit
<1>4. CASE Stop
  <2>1. CASE AuditError(Stream)
    BY <1>1, <1>w, <2>1
  <2>2. CASE audit' = [audit EXCEPT ![Stream] = Out] /\ UNCHANGED <<rows, nextId, overlapped>>
    BY <1>w, <2>2 DEF Done
  <2> QED  BY <1>4, <2>1, <2>2 DEF Stop
<1>5. ASSUME NEW r \in Requests, Update(r) \/ UpdateError(r) \/ UpdateAudit(r)
      PROVE  Unwritten \/ \E w \in Writers : AuditBegin(w) \/ AuditTrigger(w) \/ Done(w)
  BY <1>1, <1>5, <1>w DEF Update, UpdateError, UpdateAudit
<1>6. CASE Read \/ InsertError \/ Broadcast \/ LoopError \/ LoopNext \/ LoopEnd \/ SendOK
           \/ SendError
  BY <1>6 DEF Read, InsertError, Broadcast, LoopError, LoopNext, LoopEnd, SendOK, SendError
<1>7. ASSUME NEW c \in Clients, Connect(c) \/ Leave(c) \/ Disconnect(c)
      PROVE  Unwritten
  BY <1>7 DEF Connect, Leave, Disconnect
<1> QED
  BY <1>2, <1>3, <1>4, <1>5, <1>6, <1>7 DEF Next, Consume

(* The audit log stays in order, and rows stay where they are. *)
LEMMA AuditStep ==
  ASSUME AuditInv, Waiting, [Next]_vars
  PROVE  AuditInv' /\ rows \subseteq rows'
<1>1. CASE Unwritten
  <2> USE <1>1 DEF Unwritten
  <2>1. AuditTypes' /\ Numbering'
    BY DEF AuditInv, AuditTypes, Numbering
  <2>2. Turns' /\ ChainIsLine'
    BY DEF AuditInv, Turns, ChainIsLine
  <2> QED  BY <2>1, <2>2 DEF AuditInv
<1>2. ASSUME NEW w \in Writers, AuditBegin(w) \/ AuditTrigger(w) \/ Done(w)
      PROVE  AuditInv' /\ rows \subseteq rows'
  <2>1. AuditInv'
    BY <1>2, BeginKeepsAudit, TriggerKeepsAudit, DoneKeepsAudit
  <2>2. rows \subseteq rows'
    BY <1>2 DEF AuditBegin, AuditTrigger, Done
  <2> QED  BY <2>1, <2>2
<1>3. CASE UNCHANGED vars
  BY <1>1, <1>3 DEF vars, auditVars, Unwritten
<1> QED  BY <1>1, <1>2, <1>3, AuditMoves DEF AuditInv

-----------------------------------------------------------------------------
(* The tasks.                                                              *)

(* Each task is where its insert says it is. *)
LEMMA WaitingStep ==
  ASSUME AuditTypes, TaskTypes, Waiting, [Next]_vars
  PROVE  Waiting'
<1> USE DEF Waiting, TaskTypes, AuditTypes, Writers
<1>s. Stream \notin Requests
  BY DashboardAssumption
<1>1. ASSUME UNCHANGED <<request, audit>>, cons' = cons \/ (cons # "audit" /\ cons' # "audit")
      PROVE  Waiting'
  BY <1>1
<1>2. CASE UNCHANGED vars
  BY <1>1, <1>2 DEF vars, streamVars, configVars, auditVars
<1>3. CASE Read \/ InsertError \/ Broadcast \/ LoopError \/ LoopNext \/ LoopEnd \/ SendOK
           \/ SendError
  BY <1>1, <1>3 DEF Read, InsertError, Broadcast, LoopError, LoopNext, LoopEnd, SendOK,
     SendError, InLoop, streamVars, configVars, auditVars
<1>4. CASE Insert
  BY <1>4, <1>s DEF Insert, AuditBegin, configVars
<1>5. CASE StreamAudit
  BY <1>5, <1>s DEF StreamAudit, AuditCommit, AuditError, configVars, Out
<1>6. CASE Stop
  <2>1. /\ cons' = "stopped" /\ request' = request
        /\ \/ audit' = audit /\ audit[Stream].step = "out"
           \/ audit' = [audit EXCEPT ![Stream] = Out]
    BY <1>6 DEF Stop, AuditError, configVars, auditVars
  <2> QED  BY <1>s, <2>1 DEF Out
<1>7. ASSUME NEW c \in Clients, Connect(c) \/ Leave(c) \/ Disconnect(c)
      PROVE  Waiting'
  BY <1>1, <1>7 DEF Connect, Leave, Disconnect, streamVars, configVars, auditVars
<1>8. ASSUME NEW r \in Requests, Update(r)
      PROVE  Waiting'
  BY <1>8, <1>s DEF Update, AuditBegin, streamVars
<1>9. ASSUME NEW r \in Requests, UpdateError(r)
      PROVE  Waiting'
  BY <1>9, <1>s DEF UpdateError, streamVars
<1>10. ASSUME NEW r \in Requests, UpdateAudit(r)
       PROVE  Waiting'
  <2>1. /\ cons' = cons /\ request' = [request EXCEPT ![r] = "answered"]
        /\ audit' = [audit EXCEPT ![r] = Out]
    BY <1>10 DEF UpdateAudit, AuditCommit, AuditError, streamVars
  <2> QED  BY <1>s, <2>1 DEF Out
<1>11. ASSUME NEW w \in Writers, AuditTrigger(w)
       PROVE  Waiting'
  <2>1. \A v \in Writers : audit'[v].step # "out" <=> audit[v].step # "out"
    BY <1>11 DEF AuditTrigger
  <2>2. cons' = cons /\ request' = request
    BY <1>11 DEF AuditTrigger, streamVars, configVars
  <2> QED  BY <2>1, <2>2
<1> QED
  BY <1>2, <1>3, <1>4, <1>5, <1>6, <1>7, <1>8, <1>9, <1>10, <1>11 DEF Next, Consume

(* The types outside the audit log. *)
LEMMA TypesStep ==
  ASSUME TaskTypes, [Next]_vars
  PROVE  TaskTypes'
<1> USE DEF TaskTypes
<1>n. Len(Alerts) \in Nat
  BY DashboardAssumption
<1>1. CASE UNCHANGED vars
  BY <1>1 DEF vars, streamVars, clientVars, loopVars, configVars, auditVars
<1>2. CASE Read
  <2>1. position + 1 \in 0..Len(Alerts) /\ position + 1 # 0
    BY <1>2, <1>n DEF Read
  <2> QED  BY <1>2, <2>1 DEF Read, clientVars, loopVars, configVars, auditVars
<1>3. CASE Insert \/ InsertError
  BY <1>3 DEF Insert, InsertError, AuditBegin, clientVars, loopVars, configVars, auditVars
<1>4. CASE StreamAudit
  BY <1>4 DEF StreamAudit, AuditCommit, AuditError, clientVars, loopVars, configVars
<1>5. CASE Broadcast
  BY <1>5 DEF Broadcast, clientVars, configVars, auditVars
<1>6. CASE LoopError \/ LoopEnd
  BY <1>6 DEF LoopError, LoopEnd, InLoop, clientVars, loopVars, configVars, auditVars
<1>7. CASE LoopNext
  <2>1. PICK c \in active : target' = {c} /\ visited' = visited \cup {c}
    BY <1>7 DEF LoopNext
  <2>2. c \in Clients
    BY <2>1
  <2> QED  BY <1>7, <2>1, <2>2 DEF LoopNext, streamVars, clientVars, configVars, auditVars
<1>8. CASE SendOK
  <2>1. PICK c \in target : received' = [received EXCEPT ![c] = @ \cup {position}]
    BY <1>8 DEF SendOK
  <2>2. position \in Positions
    BY <1>8, <1>n DEF SendOK, Positions
  <2> QED  BY <1>8, <2>1, <2>2 DEF SendOK, streamVars, configVars, auditVars
<1>9. CASE SendError
  <2>1. PICK c \in target : broken' = broken \cup {c}
    BY <1>9 DEF SendError
  <2>2. c \in visited
    BY <2>1
  <2> QED  BY <1>9, <2>1, <2>2 DEF SendError, streamVars, clientVars, configVars, auditVars
<1>10. CASE Stop
  <2>1. lost' \in BOOLEAN
    BY <1>10 DEF Stop, AuditError, auditVars
  <2> QED  BY <1>10, <2>1 DEF Stop, clientVars, configVars
<1>11. ASSUME NEW c \in Clients, Connect(c) \/ Disconnect(c)
       PROVE  TaskTypes'
  <2>1. disturbed' \in BOOLEAN
    BY <1>11 DEF Connect, Disconnect
  <2> QED  BY <1>11, <2>1 DEF Connect, Disconnect, streamVars, configVars, auditVars
<1>12. ASSUME NEW c \in Clients, Leave(c)
       PROVE  TaskTypes'
  BY <1>12 DEF Leave, streamVars, loopVars, configVars, auditVars
<1>13. ASSUME NEW r \in Requests, Update(r) \/ UpdateError(r) \/ UpdateAudit(r)
       PROVE  TaskTypes'
  <2>1. config' \in Requests \cup {Default} /\ lost' \in BOOLEAN
    BY <1>13 DEF Update, UpdateError, UpdateAudit, Upsert, AuditBegin, AuditCommit, AuditError
  <2> QED  BY <1>13, <2>1 DEF Update, UpdateError, UpdateAudit, streamVars, clientVars, loopVars
<1>14. ASSUME NEW w \in Writers, AuditTrigger(w)
       PROVE  TaskTypes'
  BY <1>14 DEF AuditTrigger, streamVars, clientVars, loopVars, configVars
<1> QED
  BY <1>1, <1>2, <1>3, <1>4, <1>5, <1>6, <1>7, <1>8, <1>9, <1>10, <1>11, <1>12, <1>13, <1>14
     DEF Next, Consume

(* The configuration in force is the last one recorded. *)
LEMMA CurrentStep ==
  ASSUME AuditInv, TaskTypes, Waiting, Current, [Next]_vars
  PROVE  Current'
<1> DEFINE changes == {r \in rows : r.by \in Requests}
           Recent == \/ changes = {} /\ config = Default
                     \/ \E r \in changes : /\ \A s \in changes : s.id <= r.id
                                           /\ r.by = config
           Idle == \A r \in Requests : request[r] # "audit"
<1>s. Stream \notin Requests /\ Stream \in Writers /\ Requests \subseteq Writers
  BY DashboardAssumption DEF Writers
<1>a. AuditTypes /\ Numbering /\ Turns
  BY DEF AuditInv
(* Nobody may have overlapped or lost anything, before or after the step. *)
<1>b. overlapped => overlapped'
  BY AuditMoves, <1>a DEF Unwritten, AuditBegin, AuditTrigger, Done, vars, auditVars
<1>c. lost => lost'
  BY DEF Next, Consume, vars, auditVars, Read, Insert, InsertError, StreamAudit, Broadcast,
     LoopError, LoopNext, LoopEnd, SendOK, SendError, Stop, Connect, Leave, Disconnect,
     Update, UpdateError, UpdateAudit, AuditTrigger, AuditBegin, AuditCommit, AuditError
<1>1. CASE overlapped' \/ lost'
  BY <1>1 DEF Current, LastAuditIsCurrent
<1>2. CASE ~overlapped' /\ ~lost'
  <2>1. ~overlapped /\ ~lost
    BY <1>2, <1>b, <1>c
  <2>2. (\A r \in Requests : request[r] = "audit" => config = r) /\ (Idle => Recent)
    BY <2>1 DEF Current, LastAuditIsCurrent
  <2>3. SUFFICES (\A r \in Requests : request'[r] = "audit" => config' = r)
                 /\ (Idle' => Recent')
    BY DEF Current, LastAuditIsCurrent
  <2>4. ASSUME request' = request, config' = config, changes' = changes
        PROVE  (\A r \in Requests : request'[r] = "audit" => config' = r)
               /\ (Idle' => Recent')
    BY <2>2, <2>4
  <2>5. CASE UNCHANGED <<request, config, rows>>
    BY <2>4, <2>5
  <2>6. CASE StreamAudit
    <3>1. changes' = changes
      BY <1>s, <2>6, <1>2 DEF StreamAudit, AuditCommit, AuditError, NewRow
    <3> QED  BY <2>4, <2>6, <3>1 DEF StreamAudit, configVars
  <2>7. CASE Stop
    BY <1>2, <2>5, <2>7 DEF Stop, AuditError, configVars, auditVars
  <2>8. ASSUME NEW r \in Requests, Update(r)
        PROVE  (\A q \in Requests : request'[q] = "audit" => config' = q)
               /\ (Idle' => Recent')
    <3>1. ~Busy
      BY <1>2, <2>8 DEF Update, AuditBegin
    <3>2. \A q \in Requests : request[q] # "audit"
      BY <1>s, <3>1 DEF Busy, Waiting
    <3>3. /\ request' = [request EXCEPT ![r] = "audit"] /\ config' = r
          /\ request \in [Requests -> {"new", "audit", "answered"}]
      BY <2>8 DEF Update, Upsert, TaskTypes
    <3> QED  BY <3>2, <3>3
  <2>9. ASSUME NEW r \in Requests, UpdateAudit(r)
        PROVE  (\A q \in Requests : request'[q] = "audit" => config' = q)
               /\ (Idle' => Recent')
    <3> DEFINE n == NewRow(r)
    <3>1. /\ request' = [request EXCEPT ![r] = "answered"] /\ config' = config
          /\ rows' = rows \cup {n} /\ request[r] = "audit" /\ audit[r].step = "commit"
          /\ request \in [Requests -> {"new", "audit", "answered"}]
      BY <1>2, <2>9 DEF UpdateAudit, AuditCommit, AuditError, TaskTypes
    <3>2. \A q \in Requests : request'[q] = "audit" => config' = q
      BY <2>2, <3>1
    <3>3. config = r
      BY <2>2, <3>1
    <3>4. n.by = r /\ n.id = audit[r].id /\ n.id \in Nat
      BY <1>a, <1>s DEF NewRow, AuditTypes
    <3>5. \A s \in rows : s.id < n.id /\ s.id \in Nat
      BY <1>a, <1>s, <2>1, <3>1, <3>4 DEF Turns, AuditTypes
    <3> HIDE DEF n
    <3>6. n \in changes' /\ \A s \in changes' : s.id <= n.id
      BY <3>1, <3>4, <3>5
    <3>7. Recent'
      BY <3>1, <3>3, <3>4, <3>6
    <3> QED  BY <3>2, <3>7
  <2>10. ASSUME NEW r \in Requests, UpdateError(r)
         PROVE  FALSE
    BY <1>2, <2>10 DEF UpdateError
  <2>11. CASE Insert \/ Read \/ InsertError \/ Broadcast \/ LoopError \/ LoopNext \/ LoopEnd
              \/ SendOK \/ SendError \/ UNCHANGED vars
    BY <2>5, <2>11 DEF Insert, AuditBegin, Read, InsertError, Broadcast, LoopError, LoopNext,
       LoopEnd, SendOK, SendError, vars, configVars, auditVars
  <2>12. ASSUME NEW c \in Clients, Connect(c) \/ Leave(c) \/ Disconnect(c)
         PROVE  UNCHANGED <<request, config, rows>>
    BY <2>12 DEF Connect, Leave, Disconnect, configVars, auditVars
  <2>13. ASSUME NEW w \in Writers, AuditTrigger(w)
         PROVE  UNCHANGED <<request, config, rows>>
    BY <2>13 DEF AuditTrigger, configVars
  <2> QED
    BY <2>5, <2>6, <2>7, <2>8, <2>9, <2>10, <2>11, <2>12, <2>13 DEF Next, Consume
<1> QED  BY <1>1, <1>2

(* Rows of the stream are never fewer. *)
LEMMA StreamRowsGrow ==
  ASSUME AuditTypes, AuditTypes', rows \subseteq rows'
  PROVE  /\ IsFiniteSet(StreamRows) /\ Cardinality(StreamRows) \in Nat
         /\ Cardinality(StreamRows)' \in Nat
         /\ Cardinality(StreamRows) <= Cardinality(StreamRows)'
<1>1. StreamRows \in SUBSET rows /\ StreamRows' \in SUBSET rows'
      /\ StreamRows \in SUBSET StreamRows'
  BY DEF StreamRows
<1>2. IsFiniteSet(StreamRows) /\ IsFiniteSet(StreamRows')
  BY <1>1, FS_Subset DEF AuditTypes
<1> QED  BY <1>1, <1>2, FS_Subset, FS_CardinalityType

(* What a client has received is on record. *)
LEMMA RecordedStep ==
  ASSUME AuditInv, AuditInv', TaskTypes, Waiting, Recorded, rows \subseteq rows', [Next]_vars
  PROVE  Recorded'
<1>a. AuditTypes /\ Numbering /\ AuditTypes'
  BY DEF AuditInv
<1>g. /\ IsFiniteSet(StreamRows) /\ Cardinality(StreamRows) \in Nat
      /\ Cardinality(StreamRows)' \in Nat
      /\ Cardinality(StreamRows) <= Cardinality(StreamRows)'
  BY <1>a, StreamRowsGrow
<1>n. Len(Alerts) \in Nat
  BY DashboardAssumption
<1>f. ASSUME NEW c \in Clients
      PROVE  /\ IsFiniteSet(received[c]) /\ Cardinality(received[c]) \in Nat
             /\ IsFiniteSet(received[c] \cup {position})
             /\ Cardinality(received[c] \cup {position}) \in Nat
             /\ Cardinality(received[c] \cup {position}) <= Cardinality(received[c]) + 1
  <2>1. received[c] \in SUBSET (1..Len(Alerts)) /\ IsFiniteSet(1..Len(Alerts))
    BY <1>n, FS_Interval DEF TaskTypes, Positions
  <2>2. IsFiniteSet(received[c]) /\ Cardinality(received[c]) \in Nat
    BY <2>1, FS_Subset, FS_CardinalityType
  <2> QED  BY <2>2, AddOne
(* A step that sends nothing. *)
<1>1. ASSUME received' = received, stored \subseteq stored', stored' \subseteq Positions,
             cons' \in {"audit", "broadcast", "loop"} => position' \in stored',
             cons' \in {"broadcast", "loop"} =>
               position' = position /\ cons \in {"broadcast", "loop"}
      PROVE  Recorded'
  <2>1. ASSUME NEW c \in Clients
        PROVE  /\ received'[c] \subseteq stored'
               /\ Cardinality(received'[c]) <= Cardinality(StreamRows)'
               /\ cons' \in {"broadcast", "loop"} =>
                    Cardinality(received'[c] \cup {position'}) <= Cardinality(StreamRows)'
    <3>1. received'[c] = received[c] /\ received[c] \subseteq stored'
      BY <1>1 DEF Recorded
    <3>2. Cardinality(received[c]) <= Cardinality(StreamRows)'
      <4>1. Cardinality(received[c]) <= Cardinality(StreamRows)
        BY DEF Recorded
      <4>2. Cardinality(received[c]) \in Nat
        BY <1>f
      <4> QED  BY <1>g, <4>1, <4>2
    <3>3. ASSUME cons' \in {"broadcast", "loop"}
          PROVE  Cardinality(received[c] \cup {position'}) <= Cardinality(StreamRows)'
      <4>1. position' = position /\ cons \in {"broadcast", "loop"}
        BY <1>1, <3>3
      <4>2. Cardinality(received[c] \cup {position}) <= Cardinality(StreamRows)
        BY <4>1 DEF Recorded
      <4> QED  BY <1>f, <1>g, <4>1, <4>2
    <3> QED  BY <3>1, <3>2, <3>3
  <2> QED  BY <1>1, <2>1 DEF Recorded, Positions
<1>s. /\ stored \subseteq Positions
      /\ cons \in {"audit", "broadcast", "loop"} => position \in stored
  BY DEF Recorded
<1>2. CASE /\ UNCHANGED <<received, stored, position>>
           /\ \/ cons' = cons \/ cons' \in {"read", "insert", "stopped"}
              \/ cons = "broadcast" /\ cons' = "loop"
  BY <1>1, <1>2, <1>s
<1>3. CASE Read
  BY <1>1, <1>3, <1>s DEF Read, clientVars
<1>4. CASE Insert \/ InsertError
  <2>1. position \in Positions
    BY <1>4, <1>n DEF Insert, InsertError, TaskTypes, Positions
  <2>2. /\ stored \subseteq stored' /\ stored' \subseteq Positions
        /\ cons' \in {"audit", "broadcast", "loop"} => position \in stored'
    BY <1>4, <1>s, <2>1 DEF Insert, InsertError
  <2> QED  BY <1>1, <1>4, <2>2 DEF Insert, InsertError, clientVars
<1>5. CASE StreamAudit
  <2>1. CASE cons' = "read"
    BY <1>2, <1>5, <2>1 DEF StreamAudit, clientVars
  <2>2. CASE AuditCommit(Stream) /\ cons' = "broadcast"
    <3> DEFINE n == NewRow(Stream)
    <3>1. /\ UNCHANGED <<received, stored, position>> /\ cons = "audit"
          /\ rows' = rows \cup {n}
      BY <1>5, <2>2 DEF StreamAudit, AuditCommit, clientVars
    <3>2. n \notin rows /\ n.by = Stream
      BY <1>a, <2>2 DEF AuditCommit, NewRow, Numbering, Writers
    <3>3. StreamRows' = StreamRows \cup {n} /\ n \notin StreamRows
      BY <3>1, <3>2 DEF StreamRows
    <3>4. Cardinality(StreamRows)' = Cardinality(StreamRows) + 1
      BY <1>g, <3>3, FS_AddElement
    <3>5. ASSUME NEW c \in Clients
          PROVE  /\ received'[c] \subseteq stored'
                 /\ Cardinality(received'[c]) <= Cardinality(StreamRows)'
                 /\ Cardinality(received'[c] \cup {position'}) <= Cardinality(StreamRows)'
      <4>1. /\ received'[c] = received[c] /\ received[c] \subseteq stored'
            /\ received'[c] \cup {position'} = received[c] \cup {position}
        BY <3>1 DEF Recorded
      <4>2. Cardinality(received[c]) <= Cardinality(StreamRows)
        BY DEF Recorded
      <4>3. /\ Cardinality(received[c]) <= Cardinality(StreamRows)'
            /\ Cardinality(received[c] \cup {position}) <= Cardinality(StreamRows)'
        BY <1>f, <1>g, <3>4, <4>2
      <4> QED  BY <4>1, <4>3
    <3>6. position' \in stored' /\ stored' \subseteq Positions
      BY <1>s, <3>1
    <3> QED  BY <3>5, <3>6 DEF Recorded, Positions
  <2> QED  BY <1>5, <2>1, <2>2 DEF StreamAudit
<1>6. CASE SendOK
  <2>1. PICK c \in target : received' = [received EXCEPT ![c] = @ \cup {position}]
    BY <1>6 DEF SendOK
  <2>2. UNCHANGED <<cons, stored, position>> /\ cons = "loop" /\ position \in stored
    BY <1>6, <1>s DEF SendOK, streamVars
  <2>3. ASSUME NEW d \in Clients
        PROVE  /\ received'[d] \subseteq stored
               /\ Cardinality(received'[d]) <= Cardinality(StreamRows)'
               /\ Cardinality(received'[d] \cup {position}) <= Cardinality(StreamRows)'
    <3>1. received'[d] \in {received[d], received[d] \cup {position}}
      BY <2>1 DEF TaskTypes
    <3>2. received'[d] \cup {position} = received[d] \cup {position}
      BY <3>1
    <3>3. /\ Cardinality(received[d]) <= Cardinality(StreamRows)
          /\ Cardinality(received[d] \cup {position}) <= Cardinality(StreamRows)
          /\ received[d] \subseteq stored
      BY <2>2 DEF Recorded
    <3>4. /\ Cardinality(received[d]) <= Cardinality(StreamRows)'
          /\ Cardinality(received[d] \cup {position}) <= Cardinality(StreamRows)'
      BY <1>f, <1>g, <3>3
    <3>5. Cardinality(received'[d]) <= Cardinality(StreamRows)'
      BY <3>1, <3>4
    <3> QED  BY <2>2, <3>1, <3>2, <3>3, <3>4, <3>5
  <2> QED  BY <1>s, <2>2, <2>3 DEF Recorded, Positions
<1>7. CASE Stop
  <2>1. ASSUME cons = "insert"
        PROVE  position \in Positions
    BY <1>n, <2>1 DEF TaskTypes, Positions
  <2>2. stored \subseteq stored' /\ stored' \subseteq Positions
    BY <1>7, <1>s, <2>1 DEF Stop
  <2> QED  BY <1>1, <1>7, <2>2 DEF Stop, clientVars
<1>8. CASE Broadcast \/ LoopError \/ LoopNext \/ LoopEnd \/ SendError \/ UNCHANGED vars
  BY <1>2, <1>8 DEF Broadcast, LoopError, LoopNext, LoopEnd, SendError, vars, streamVars,
     clientVars
<1>9. ASSUME NEW c \in Clients, Connect(c) \/ Leave(c) \/ Disconnect(c)
      PROVE  Recorded'
  BY <1>2, <1>9 DEF Connect, Leave, Disconnect, streamVars
<1>10. ASSUME NEW r \in Requests, Update(r) \/ UpdateError(r) \/ UpdateAudit(r)
       PROVE  Recorded'
  BY <1>2, <1>10 DEF Update, UpdateError, UpdateAudit, streamVars, clientVars
<1>11. ASSUME NEW w \in Writers, AuditTrigger(w)
       PROVE  Recorded'
  BY <1>2, <1>11 DEF AuditTrigger, streamVars, clientVars
<1> QED
  BY <1>3, <1>4, <1>5, <1>6, <1>7, <1>8, <1>9, <1>10, <1>11 DEF Next, Consume

(* What an undisturbed loop has done. *)
LEMMA QuietStep ==
  ASSUME TaskTypes, Quiet, [Next]_vars
  PROVE  Quiet'
<1>1. CASE UNCHANGED <<cons, disturbed, active, members, visited, target, client, received, position>>
  BY <1>1 DEF Quiet
<1>2. CASE cons' # "loop"
  BY <1>2 DEF Quiet
<1>3. CASE Broadcast
  BY <1>3 DEF Broadcast, Quiet, clientVars
<1>4. CASE LoopNext
  BY <1>4 DEF LoopNext, InLoop, Quiet, streamVars, clientVars
<1>5. CASE SendOK
  <2>1. PICK c \in target : /\ client[c] = "open"
                            /\ received' = [received EXCEPT ![c] = @ \cup {position}]
    BY <1>5 DEF SendOK
  <2>2. target = {c} /\ target' = {} /\ c \in Clients
    BY <1>5, <2>1 DEF SendOK, TaskTypes
  <2>3. UNCHANGED <<cons, disturbed, active, members, visited, client, position>>
    BY <1>5 DEF SendOK, streamVars
  <2>4. ASSUME NEW d \in visited, cons = "loop", ~disturbed, client[d] = "open"
        PROVE  position \in received'[d]
    <3>1. CASE d = c
      BY <2>1, <2>2, <3>1 DEF TaskTypes
    <3>2. CASE d # c
      BY <2>1, <2>2, <2>4, <3>2 DEF TaskTypes, Quiet
    <3> QED  BY <3>1, <3>2
  <2> QED  BY <2>2, <2>3, <2>4 DEF Quiet
<1>6. CASE SendError
  <2>1. PICK c \in target : client[c] = "gone"
    BY <1>6 DEF SendError
  <2>2. target = {c} /\ target' = {}
    BY <1>6, <2>1 DEF SendError, TaskTypes
  <2> QED  BY <1>6, <2>1, <2>2 DEF SendError, Quiet, streamVars, clientVars
<1>7. ASSUME NEW c \in Clients, Connect(c) \/ Disconnect(c)
      PROVE  Quiet'
  <2>1. cons' = cons /\ (cons = "loop" => disturbed')
    BY <1>7 DEF Connect, Disconnect, Looping, streamVars
  <2> QED  BY <2>1 DEF Quiet
<1>8. ASSUME NEW c \in Clients, Leave(c)
      PROVE  Quiet'
  <2>1. \A d \in Clients : client'[d] = "open" => client[d] = "open"
    BY <1>8 DEF Leave, TaskTypes
  <2>2. UNCHANGED <<cons, disturbed, active, members, visited, target, received, position>>
    BY <1>8 DEF Leave, streamVars, loopVars
  <2> QED  BY <2>1, <2>2 DEF Quiet, TaskTypes
<1>9. ASSUME NEW r \in Requests, Update(r) \/ UpdateError(r) \/ UpdateAudit(r)
      PROVE  Quiet'
  BY <1>1, <1>9 DEF Update, UpdateError, UpdateAudit, streamVars, clientVars, loopVars
<1>10. ASSUME NEW w \in Writers, AuditTrigger(w)
       PROVE  Quiet'
  BY <1>1, <1>10 DEF AuditTrigger, streamVars, clientVars, loopVars
<1>11. CASE Read \/ Insert \/ InsertError \/ StreamAudit \/ LoopError \/ LoopEnd \/ Stop
  BY <1>2, <1>11 DEF Read, Insert, InsertError, StreamAudit, LoopError, LoopEnd, Stop
<1>12. CASE UNCHANGED vars
  BY <1>1, <1>12 DEF vars, streamVars, clientVars, loopVars
<1> QED
  BY <1>3, <1>4, <1>5, <1>6, <1>7, <1>8, <1>9, <1>10, <1>11, <1>12 DEF Next, Consume

-----------------------------------------------------------------------------
(* The invariant, and what it says.                                        *)

(* The process starts with nothing read, nothing stored and nobody there. *)
LEMMA InitInv == Init => Inv
<1> SUFFICES ASSUME Init PROVE Inv
  OBVIOUS
<1> USE DEF Init
<1>1. AuditTypes
  <2>1. audit \in [Writers -> [step : {"out", "trigger", "commit"}, id : Nat, prev : Nat]]
    BY DEF Out
  <2>2. rows \subseteq [id : Nat, prev : Nat, by : Writers] /\ IsFiniteSet(rows)
    BY FS_EmptySet
  <2>3. nextId \in Nat \ {0}
    OBVIOUS
  <2>4. overlapped \in BOOLEAN
    <3>1. overlapped = FALSE
      OBVIOUS
    <3> QED  BY <3>1
  <2> HIDE DEF Init
  <2> QED  BY <2>1, <2>2, <2>3, <2>4 DEF AuditTypes
<1>2. Numbering /\ Turns /\ ChainIsLine
  BY DEF Numbering, Turns, ChainIsLine, Out
<1>3. TaskTypes
  <2>1. position \in 0..Len(Alerts)
    <3>1. Len(Alerts) \in Nat
      BY DashboardAssumption
    <3> QED  BY <3>1
  <2>2. lost \in BOOLEAN /\ disturbed \in BOOLEAN
    OBVIOUS
  <2>3. received \in [Clients -> SUBSET Positions]
    OBVIOUS
  <2> QED  BY <2>1, <2>2, <2>3 DEF TaskTypes
<1>4. Waiting
  BY DEF Waiting, Writers, Out
<1>5. Current
  BY DEF Current, LastAuditIsCurrent
<1>6. Recorded
  <2>1. StreamRows = {} /\ Cardinality({}) = 0
    BY FS_EmptySet DEF StreamRows
  <2> QED  BY <2>1 DEF Recorded
<1>7. Quiet
  BY DEF Quiet
<1> QED  BY <1>1, <1>2, <1>3, <1>4, <1>5, <1>6, <1>7 DEF Inv, AuditInv

(* No step of any task breaks it. *)
LEMMA InvStep == Inv /\ [Next]_vars => Inv'
<1> SUFFICES ASSUME Inv, [Next]_vars PROVE Inv'
  OBVIOUS
<1> USE DEF Inv
<1>1. AuditTypes
  BY DEF AuditInv
<1>2. AuditInv' /\ rows \subseteq rows'
  BY AuditStep
<1>3. TaskTypes' /\ Waiting'
  BY <1>1, TypesStep, WaitingStep
<1>4. Current' /\ Recorded' /\ Quiet'
  BY <1>2, CurrentStep, RecordedStep, QuietStep
<1> QED  BY <1>2, <1>3, <1>4

(* The invariant holds whenever the dashboard has been running. *)
LEMMA InvHolds == Spec => []Inv
  BY InitInv, InvStep, PTL DEF Spec

(* Every variable keeps its type: in particular the loop of broadcast      *)
(* sends to at most one client at a time, and rows link to ids drawn.      *)
THEOREM TypeCorrect == Spec => []TypeOK
<1>1. Inv => TypeOK
  <2> SUFFICES ASSUME Inv PROVE TypeOK
    OBVIOUS
  <2>1. target \subseteq visited /\ Cardinality(target) <= 1
    <3>1. CASE target = {}
      <4>1. Cardinality({}) = 0
        BY FS_EmptySet
      <4> QED  BY <3>1, <4>1
    <3>2. ASSUME NEW c \in visited, target = {c}
          PROVE  target \subseteq visited /\ Cardinality(target) <= 1
      <4>1. Cardinality({c}) = 1
        BY FS_Singleton
      <4> QED  BY <3>2, <4>1
    <3> QED  BY <3>1, <3>2 DEF Inv, TaskTypes
  <2>2. rows \subseteq [id : 1..nextId, prev : 0..nextId, by : Writers]
    <3>1. ASSUME NEW r \in rows
          PROVE  r \in [id : 1..nextId, prev : 0..nextId, by : Writers]
      <4>1. /\ r \in [id : Nat, prev : Nat, by : Writers] /\ nextId \in Nat
            /\ r.id \in 1..(nextId - 1) /\ r.prev < nextId
        BY DEF Inv, AuditInv, AuditTypes, Numbering
      <4>2. r.id \in 1..nextId /\ r.prev \in 0..nextId
        BY <4>1
      <4> QED  BY <4>1, <4>2
    <3> QED  BY <3>1
  <2>3. stored \subseteq Positions
    BY DEF Inv, Recorded
  <2>4. {disturbed, overlapped, lost} \subseteq BOOLEAN
    BY DEF Inv, AuditInv, AuditTypes, TaskTypes
  <2> QED  BY <2>1, <2>2, <2>3, <2>4 DEF TypeOK, Inv, AuditInv, AuditTypes, TaskTypes
<1> QED  BY <1>1, InvHolds, PTL

(* Whatever statements fail and whenever the task is stopped, an alert a   *)
(* client has received is stored, and audited once for each.               *)
THEOREM ReceivedIsRecorded == Spec => []BroadcastIsRecorded
<1>1. Inv => BroadcastIsRecorded
  BY DEF Inv, Recorded, StreamRows, BroadcastIsRecorded
<1> QED  BY <1>1, InvHolds, PTL

(* The rows of the audit log form one line that ends with the              *)
(* configuration in force, as long as no two inserts are in progress at a  *)
(* time and none fails.                                                    *)
THEOREM AuditTellsTheHistory == Spec => []AuditIsTheHistory
<1>1. Inv => AuditIsTheHistory
  BY DEF Inv, AuditInv, Current, AuditIsTheHistory
<1> QED  BY <1>1, InvHolds, PTL

(* A loop that ends undisturbed has reached every member that is still     *)
(* there, however many sends to others have failed.                        *)
THEOREM QuietBroadcast == Spec => QuietBroadcastReachesAll
<1>1. ASSUME Inv, [Next]_vars, cons = "loop", cons' = "read", ~disturbed
      PROVE  \A c \in members : client[c] = "open" => position \in received[c]
  <2>1. /\ active = members
        /\ \A c \in visited \ target : client[c] = "open" => position \in received[c]
    BY <1>1 DEF Inv, Quiet
  <2>2. CASE LoopError
    BY <2>1, <2>2 DEF LoopError, SizeChanged
  <2>3. CASE LoopEnd
    BY <1>1, <2>1, <2>3 DEF LoopEnd, InLoop
  <2>4. LoopError \/ LoopEnd
    BY <1>1 DEF Next, Consume, vars, streamVars, Read, Insert, InsertError, StreamAudit,
       Broadcast, LoopNext, SendOK, SendError, Stop, Connect, Leave, Disconnect, Update,
       UpdateError, UpdateAudit, AuditTrigger
  <2> QED  BY <2>2, <2>3, <2>4
<1>2. Inv /\ [Next]_vars
        => [cons = "loop" /\ cons' = "read" /\ ~disturbed =>
              \A c \in members : client[c] = "open" => position \in received[c]]_vars
  BY <1>1
<1> QED  BY <1>2, InvHolds, PTL DEF Spec, QuietBroadcastReachesAll
=============================================================================
