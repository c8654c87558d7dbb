-------------------------------- MODULE Feed --------------------------------
(***************************************************************************)
(* What the feeds of the ingestor share (ingestion/internal/feed/feed.go): *)
(* the context, the channel they write to and the helpers New, send and    *)
(* sleepCtx.  A feed is one goroutine, in Run; `at' is where it waits.     *)
(***************************************************************************)
EXTENDS Integers, Sequences

CONSTANTS
  Configs, \* the configurations that are started, each with its feed mode
  OutSize  \* capacity of the channel out

ASSUME FeedAssumption ==
  /\ \A c \in Configs : c.mode \in {"live", "csv", "synthetic"}
  /\ OutSize \in Nat \ {0}

VARIABLES
  cfg,       \* the configuration
  cancelled, \* the context is done
  at,        \* where Run waits
  ret,       \* what Run returned, or "running"
  hold,      \* the record Run is about to send
  out,       \* contents of the channel
  last       \* history: the last record sent

feedVars == <<cfg, cancelled, at, ret, hold, out, last>>

Nothing == [key |-> "none"]

(* New: each mode has its feed, with a first step of its own.              *)
FirstStep == CASE cfg.mode = "live" -> "backfill"
               [] cfg.mode = "csv" -> "pass"
               [] cfg.mode = "synthetic" -> "pick"

FeedInit ==
  /\ cfg \in Configs
  /\ cancelled = FALSE
  /\ at = FirstStep /\ ret = "running"
  /\ hold = Nothing
  /\ out = <<>> /\ last = Nothing

(* Run of this mode waits at l.                                            *)
At(m, l) == cfg.mode = m /\ ret = "running" /\ at = l

(* Run goes on at l, or returns r, without touching the channel.           *)
Goto(l) == at' = l /\ UNCHANGED <<cfg, cancelled, ret, out, last>>
Return(r) == ret' = r /\ UNCHANGED <<cfg, cancelled, at, out, last>>

(* The context is cancelled, by a signal.                                  *)
Cancel ==
  /\ ~cancelled
  /\ cancelled' = TRUE
  /\ UNCHANGED <<cfg, at, ret, hold, out, last>>

(* Mutant: a record that finds the channel full is skipped.                *)
BugSend(l, next) ==
  /\ IF Len(out) < OutSize
     THEN out' = Append(out, hold) /\ last' = hold
     ELSE UNCHANGED <<out, last>>
  /\ at' = l /\ hold' = next
  /\ UNCHANGED <<cfg, cancelled, ret>>

(* send: the record enters the channel, which blocks while it is full; Run *)
(* goes on at l, with the record it sends next if it has one already.      *)
Send(l, next) ==
  /\ Len(out) < OutSize
  /\ out' = Append(out, hold) /\ last' = hold
  /\ at' = l /\ hold' = next
  /\ UNCHANGED <<cfg, cancelled, ret>>

(* Mutant: a send that waits for room does not look at the context.        *)
BugGiveUp == cancelled /\ Len(out) < OutSize /\ Return("cancelled") /\ UNCHANGED hold

(* send and sleepCtx give up once the context is cancelled.                *)
GiveUp == cancelled /\ Return("cancelled") /\ UNCHANGED hold
=============================================================================
