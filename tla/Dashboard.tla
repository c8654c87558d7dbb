----------------------------- MODULE Dashboard -----------------------------
(***************************************************************************)
(* The dashboard process (dashboard/app): the task that reads              *)
(* trades.alerts, stores, audits and broadcasts each alert; the WebSocket  *)
(* clients that come and go; the requests that change the configuration;   *)
(* and the audit log in PostgreSQL, whose insert trigger chains the rows   *)
(* (infra/init.sql).                                                       *)
(*                                                                         *)
(* The tasks of one event loop interleave wherever they await.  Every      *)
(* insert runs on a connection of its own: two may be in progress.         *)
(*                                                                         *)
(* Abstracted: the hash of a row is its id, so that previous_hash is the   *)
(* id of another row, or 0; the configuration is that of one symbol.       *)
(* PostgreSQL and the clients are external: a statement may fail, with or  *)
(* without its effect, and sending to a client that has gone raises.       *)
(***************************************************************************)
EXTENDS Naturals, Sequences, FiniteSets

CONSTANTS
  Clients,    \* browsers; each opens at most one WebSocket
  Requests,   \* POST /config, each with a configuration of its own
  Alerts,     \* the messages of trades.alerts: "toxicity" or "other"
  Stream,     \* the alert stream, as a writer of the audit log
  Default     \* the configuration init.sql inserts

Writers == Requests \cup {Stream}

ASSUME DashboardAssumption ==
  /\ Alerts \in Seq({"toxicity", "other"})
  /\ Stream \notin Requests /\ Default \notin Requests

VARIABLES
  cons,        \* where the task _consume is
  position,    \* messages taken from trades.alerts
  stored,      \* alerts inserted in the table alerts
  client,      \* "away", "open" or "gone"
  active,      \* manager.active_connections
  members,     \* the connections when the loop of broadcast began
  visited,     \* connections the loop has come to
  target,      \* connections the loop is sending to, at most one
  broken,      \* `disconnected`
  received,    \* alerts each client has got
  request,     \* where each configuration request is
  config,      \* the configuration of the symbol
  audit,       \* where the insert of each writer is
  rows,        \* committed rows of audit_logs
  nextId,      \* sequence of audit_logs.id
  disturbed,   \* history: a client came or was removed during the loop
  overlapped,  \* history: two writers were at work at the same time
  lost         \* history: a change or an audit insert failed

streamVars == <<cons, position, stored>>
clientVars == <<client, active, received>>
loopVars == <<members, visited, target, broken, disturbed>>
configVars == <<request, config>>
auditVars == <<audit, rows, nextId, overlapped, lost>>
vars == <<streamVars, clientVars, loopVars, configVars, auditVars>>

Positions == 1..Len(Alerts)
Out == [step |-> "out", id |-> 0, prev |-> 0]  \* not in write_audit_log

TypeOK ==
  /\ cons \in {"read", "insert", "audit", "broadcast", "loop", "stopped"}
  /\ position \in 0..Len(Alerts) /\ stored \subseteq Positions
  /\ client \in [Clients -> {"away", "open", "gone"}]
  /\ active \subseteq {c \in Clients : client[c] # "away"}
  /\ members \subseteq Clients /\ visited \subseteq Clients
  /\ broken \subseteq visited
  /\ target \subseteq visited /\ Cardinality(target) <= 1
  /\ received \in [Clients -> SUBSET Positions]
  /\ request \in [Requests -> {"new", "audit", "answered"}]
  /\ config \in Requests \cup {Default}
  /\ audit \in [Writers -> [step : {"out", "trigger", "commit"}, id : Nat, prev : Nat]]
  /\ rows \subseteq [id : 1..nextId, prev : 0..nextId, by : Writers]
  /\ nextId \in Nat \ {0}
  /\ {disturbed, overlapped, lost} \subseteq BOOLEAN

Init ==
  /\ cons = "read" /\ position = 0 /\ stored = {}
  /\ client = [c \in Clients |-> "away"] /\ active = {}
  /\ received = [c \in Clients |-> {}]
  /\ members = {} /\ visited = {} /\ target = {} /\ broken = {}
  /\ request = [r \in Requests |-> "new"] /\ config = Default
  /\ audit = [w \in Writers |-> Out] /\ rows = {} /\ nextId = 1
  /\ disturbed = FALSE /\ overlapped = FALSE /\ lost = FALSE

-----------------------------------------------------------------------------
(* write_audit_log and the trigger audit_log_hash_chain, for writer w.     *)

Busy == \E w \in Writers : audit[w].step # "out"

(* The INSERT begins: the default of the id is drawn. *)
AuditBegin(w) ==
  /\ audit' = [audit EXCEPT ![w] = [step |-> "trigger", id |-> nextId, prev |-> 0]]
  /\ nextId' = nextId + 1
  /\ overlapped' = (overlapped \/ Busy)
  /\ UNCHANGED <<rows, lost>>

Ids == {r.id : r \in rows}

(* Mutant: ORDER BY id ASC. *)
BugLastId == IF rows = {} THEN 0 ELSE CHOOSE i \in Ids : \A j \in Ids : i <= j

(* SELECT entry_hash ... ORDER BY id DESC LIMIT 1: of the committed rows.  *)
LastId == IF rows = {} THEN 0 ELSE CHOOSE i \in Ids : \A j \in Ids : j <= i

(* The trigger reads the last row and links the new one to it. *)
AuditTrigger(w) ==
  /\ audit[w].step = "trigger"
  /\ audit' = [audit EXCEPT ![w] = [step |-> "commit", id |-> @.id, prev |-> LastId]]
  /\ UNCHANGED <<rows, nextId, overlapped, lost, streamVars, clientVars,
                 loopVars, configVars>>

NewRow(w) == [id |-> audit[w].id, prev |-> audit[w].prev, by |-> w]

AuditCommit(w) ==
  /\ audit[w].step = "commit"
  /\ rows' = rows \cup {NewRow(w)}
  /\ audit' = [audit EXCEPT ![w] = Out]
  /\ UNCHANGED <<nextId, overlapped, lost>>

(* The insert raises; the row may be there all the same. *)
AuditError(w) ==
  /\ audit[w].step = "commit"
  /\ rows' \in {rows, rows \cup {NewRow(w)}}
  /\ audit' = [audit EXCEPT ![w] = Out]
  /\ lost' = TRUE
  /\ UNCHANGED <<nextId, overlapped>>

-----------------------------------------------------------------------------
(* The alert stream: _consume.                                             *)

(* async for msg: only toxicity alerts are handled. *)
Read ==
  /\ cons = "read"
  /\ position < Len(Alerts)
  /\ position' = position + 1
  /\ cons' = IF Alerts[position + 1] = "toxicity" THEN "insert" ELSE "read"
  /\ UNCHANGED <<stored, clientVars, loopVars, configVars, auditVars>>

Insert ==
  /\ cons = "insert"
  /\ stored' = stored \cup {position}
  /\ cons' = "audit"
  /\ AuditBegin(Stream)
  /\ UNCHANGED <<position, clientVars, loopVars, configVars>>

(* Mutant: a failed insert does not end the handling of the alert. *)
BugInsertError ==
  /\ cons = "insert"
  /\ stored' \in {stored, stored \cup {position}}
  /\ cons' = "audit"
  /\ AuditBegin(Stream)
  /\ UNCHANGED <<position, clientVars, loopVars, configVars>>

(* except Exception: the alert is given up. *)
InsertError ==
  /\ cons = "insert"
  /\ stored' \in {stored, stored \cup {position}}
  /\ cons' = "read"
  /\ UNCHANGED <<position, clientVars, loopVars, configVars, auditVars>>

StreamAudit ==
  /\ cons = "audit"
  /\ \/ AuditCommit(Stream) /\ cons' = "broadcast"
     \/ AuditError(Stream) /\ cons' = "read"
  /\ UNCHANGED <<position, stored, clientVars, loopVars, configVars>>

(* broadcast: the loop over the live set of connections begins. *)
Broadcast ==
  /\ cons = "broadcast"
  /\ cons' = "loop"
  /\ members' = active /\ visited' = {} /\ target' = {} /\ broken' = {}
  /\ disturbed' = FALSE
  /\ UNCHANGED <<position, stored, clientVars, configVars, auditVars>>

InLoop == cons = "loop" /\ target = {}

(* The iterator of a set only compares sizes. *)
SizeChanged == Cardinality(active) # Cardinality(members)

(* RuntimeError: set changed size during iteration.  The alert is given    *)
(* up, and the connections found broken stay in the set.                   *)
LoopError ==
  /\ InLoop /\ SizeChanged
  /\ cons' = "read"
  /\ UNCHANGED <<position, stored, clientVars, loopVars, configVars, auditVars>>

(* The next connection; await send_json.  A set that has changed may have  *)
(* been laid out anew: connections may come up again.                      *)
LoopNext ==
  /\ InLoop /\ ~SizeChanged
  /\ \E c \in active \ (IF disturbed THEN {} ELSE visited) :
       target' = {c} /\ visited' = visited \cup {c}
  /\ UNCHANGED <<streamVars, clientVars, members, broken, disturbed, configVars,
                 auditVars>>

(* The loop ends; once the set has changed (back to the same size) it may  *)
(* miss some.  The broken connections are removed.                         *)
LoopEnd ==
  /\ InLoop /\ ~SizeChanged
  /\ disturbed \/ active \subseteq visited
  /\ active' = active \ broken
  /\ cons' = "read"
  /\ UNCHANGED <<position, stored, client, received, loopVars, configVars, auditVars>>

SendOK ==
  /\ cons = "loop"
  /\ \E c \in target : /\ client[c] = "open"
                       /\ received' = [received EXCEPT ![c] = @ \cup {position}]
  /\ target' = {}
  /\ UNCHANGED <<streamVars, client, active, members, visited, broken, disturbed,
                 configVars, auditVars>>

(* Mutant: a failed send ends the loop. *)
BugSendError ==
  /\ cons = "loop"
  /\ \E c \in target : client[c] = "gone" /\ active' = active \ {c}
  /\ target' = {}
  /\ cons' = "read"
  /\ UNCHANGED <<position, stored, client, received, members, visited, broken,
                 disturbed, configVars, auditVars>>

SendError ==
  /\ cons = "loop"
  /\ \E c \in target : client[c] = "gone" /\ broken' = broken \cup {c}
  /\ target' = {}
  /\ UNCHANGED <<streamVars, clientVars, members, visited, disturbed, configVars,
                 auditVars>>

(* stop() cancels the task where it awaits; an insert may still commit.    *)
Stop ==
  /\ cons # "stopped"
  /\ cons' = "stopped"
  /\ target' = {}
  /\ \/ audit[Stream].step = "out" /\ UNCHANGED auditVars
     \/ AuditError(Stream)
     \/ /\ audit[Stream].step = "trigger"
        /\ audit' = [audit EXCEPT ![Stream] = Out]
        /\ UNCHANGED <<rows, nextId, overlapped, lost>>
  /\ \/ UNCHANGED stored
     \/ cons = "insert" /\ stored' = stored \cup {position}
  /\ UNCHANGED <<position, clientVars, members, visited, broken, disturbed,
                 configVars>>

-----------------------------------------------------------------------------
(* The WebSocket endpoint, for client c.                                   *)

Looping == cons = "loop"

(* Mutant: the connection is added before it is accepted. *)
BugConnect(c) ==
  /\ client[c] = "away"
  /\ active' = active \cup {c}
  /\ disturbed' = (disturbed \/ Looping)
  /\ UNCHANGED <<streamVars, client, received, members, visited, target, broken,
                 configVars, auditVars>>

(* manager.connect: accept, then add. *)
Connect(c) ==
  /\ client[c] = "away"
  /\ client' = [client EXCEPT ![c] = "open"]
  /\ active' = active \cup {c}
  /\ disturbed' = (disturbed \/ Looping)
  /\ UNCHANGED <<streamVars, received, members, visited, target, broken,
                 configVars, auditVars>>

(* The browser goes away. *)
Leave(c) ==
  /\ client[c] = "open"
  /\ client' = [client EXCEPT ![c] = "gone"]
  /\ UNCHANGED <<streamVars, active, received, loopVars, configVars, auditVars>>

(* WebSocketDisconnect: manager.disconnect discards the connection. *)
Disconnect(c) ==
  /\ client[c] = "gone" /\ c \in active
  /\ active' = active \ {c}
  /\ disturbed' = (disturbed \/ Looping)
  /\ UNCHANGED <<streamVars, client, received, members, visited, target, broken,
                 configVars, auditVars>>

-----------------------------------------------------------------------------
(* update_configuration, for request r.                                    *)

Upsert(r) == config' = r

(* The upsert is committed; then write_audit_log is called. *)
Update(r) ==
  /\ request[r] = "new"
  /\ Upsert(r)
  /\ request' = [request EXCEPT ![r] = "audit"]
  /\ AuditBegin(r)
  /\ UNCHANGED <<streamVars, clientVars, loopVars>>

(* The upsert raises; the change may be there all the same. *)
UpdateError(r) ==
  /\ request[r] = "new"
  /\ config' = config \/ Upsert(r)
  /\ request' = [request EXCEPT ![r] = "answered"]
  /\ lost' = TRUE
  /\ UNCHANGED <<streamVars, clientVars, loopVars, audit, rows, nextId, overlapped>>

UpdateAudit(r) ==
  /\ request[r] = "audit"
  /\ AuditCommit(r) \/ AuditError(r)
  /\ request' = [request EXCEPT ![r] = "answered"]
  /\ UNCHANGED <<streamVars, clientVars, loopVars, config>>

-----------------------------------------------------------------------------
Consume ==
  \/ Read \/ Insert \/ InsertError \/ StreamAudit
  \/ Broadcast \/ LoopError \/ LoopNext \/ LoopEnd \/ SendOK \/ SendError

Next ==
  \/ Consume \/ Stop
  \/ \E c \in Clients : Connect(c) \/ Leave(c) \/ Disconnect(c)
  \/ \E r \in Requests : Update(r) \/ UpdateError(r) \/ UpdateAudit(r)
  \/ \E w \in Writers : AuditTrigger(w)

Spec == Init /\ [][Next]_vars

-----------------------------------------------------------------------------
(* Properties.                                                             *)

(* What a browser shows is on record: an alert a client has received is in *)
(* the table alerts, and a row for it is in the audit log.                 *)
BroadcastIsRecorded ==
  \A c \in Clients :
    /\ received[c] \subseteq stored
    /\ Cardinality(received[c]) <= Cardinality({r \in rows : r.by = Stream})

(* A broadcast during which no client came and none was removed reaches    *)
(* every client that is still there, also when sending to another fails.   *)
QuietBroadcastReachesAll ==
  [][cons = "loop" /\ cons' = "read" /\ ~disturbed =>
       \A c \in members : client[c] = "open" => position \in received[c]]_vars

(* "Hash chaining" (README.md:69): the rows form one line, each linked to  *)
(* the one before it, as long as no two inserts were in progress at a time *)
(* (the trigger takes no lock: when two are, both link to the same row).   *)
ChainIsLine ==
  ~overlapped =>
    \A r \in rows :
      /\ r.prev < r.id
      /\ \A s \in rows : s.id < r.id => s.id <= r.prev

(* "record the change in the audit log" (routes.py:237): the last recorded *)
(* change is the configuration in force, once no request is in progress,   *)
(* unless writers overlapped or a change or an audit insert failed.        *)
LastAuditIsCurrent ==
  LET changes == {r \in rows : r.by \in Requests}
  IN  ~overlapped /\ ~lost /\ (\A r \in Requests : request[r] # "audit") =>
        \/ changes = {} /\ config = Default
        \/ \E r \in changes : /\ \A s \in changes : s.id <= r.id
                              /\ r.by = config

(* The audit log tells the history: its rows are one line, which ends with *)
(* the configuration in force.                                             *)
AuditIsTheHistory == ChainIsLine /\ LastAuditIsCurrent
=============================================================================
