------------------------------- MODULE Feeds --------------------------------
(***************************************************************************)
(* A feed of the ingestor, whichever FEED_MODE selects, with the duplicate *)
(* filter behind its channel.                                              *)
(***************************************************************************)
EXTENDS BinanceFeed, CSVFeed, SyntheticFeed

(* The duplicate filter knows the keys of the trades the feeds deliver. *)
ASSUME FeedsAssumption ==
  /\ {"aggtrade", "trade"} \X Trades \subseteq Keys
  /\ \A c \in Configs :
       /\ c.mode = "live" => c.kind \in {"aggtrade", "trade"}
       /\ c.mode = "csv" => \A i \in 1..(Len(c.rows) + 1) : <<"row", i>> \in Keys

vars == <<feedVars, liveVars, csvVars, synVars, dedupVars>>

Init == FeedInit /\ LiveInit /\ CSVInit /\ SynInit /\ DedupInit

(* handle: the next record is taken from the channel and asked for in the  *)
(* filter.  The trade ids of the simulator never repeat: not in the filter.*)
Take ==
  /\ out # <<>>
  /\ out' = Tail(out)
  /\ IF cfg.mode = "synthetic" THEN UNCHANGED dedupVars ELSE Seen(Head(out).key)
  /\ UNCHANGED <<cfg, cancelled, at, ret, hold, last, liveVars, csvVars, synVars>>

(* Time passes, up to the bound of the configuration.                      *)
Clock ==
  /\ now < cfg.until
  /\ Tick
  /\ IF cfg.mode = "synthetic" THEN SynTick ELSE UNCHANGED synVars
  /\ UNCHANGED <<feedVars, liveVars, csvVars>>

LiveOnly == UNCHANGED <<csvVars, synVars, dedupVars>>
CSVOnly == UNCHANGED <<liveVars, synVars, dedupVars>>
SynOnly == UNCHANGED <<liveVars, csvVars, dedupVars>>

FeedStep ==
  \/ LiveStep /\ LiveOnly
  \/ CSVStep /\ CSVOnly
  \/ SynStep /\ SynOnly

External ==
  \/ (Exchange \/ PingFails) /\ LiveOnly
  \/ DiskFails /\ CSVOnly
  \/ Cancel /\ UNCHANGED <<liveVars, csvVars, synVars, dedupVars>>

Next == FeedStep \/ External \/ Take \/ Clock

Spec == Init /\ [][Next]_vars

(* The goroutine of the feed is scheduled, each of its calls ends (dials,  *)
(* reads, requests and sleeps all have a timeout), time goes on, and a     *)
(* dial that is tried again and again succeeds.  Nothing is assumed of the *)
(* exchange, the disk, the signal, and of the workers behind the channel.  *)
Fairness ==
  /\ WF_vars(FeedStep) /\ WF_vars(Clock)
  /\ SF_vars(Dial /\ LiveOnly)

FairSpec == Spec /\ Fairness

TypeOK ==
  /\ DedupTypeOK
  /\ cfg \in Configs /\ cancelled \in BOOLEAN
  /\ at \in {"backfill", "row", "dial", "read", "send", "sleep",
             "pass", "emit", "pause", "pick", "wait", "print"}
  /\ ret \in {"running", "nil", "error", "cancelled"}
  /\ Len(out) <= OutSize
  /\ made \in 0..Cardinality(Tape) /\ attempt \in 0..MaxAttempts
  /\ \A i \in DOMAIN wire : wire[i] \in 1..made
  /\ rows # <<>> => at = "row" /\ rows[1] = hold.id
  /\ wire # <<>> => Connected
  /\ \A s \in Symbols : nextAt[s] <= now + MaxGap

(* Feed.Run: "It MUST return as soon as ctx is cancelled".  Every feed     *)
(* does, wherever it waits, also with a full channel that nobody reads,    *)
(* unless it replays a file that can no longer be read.                    *)
FeedReturns == cancelled /\ ~broken ~> ret # "running" \/ broken
=============================================================================
