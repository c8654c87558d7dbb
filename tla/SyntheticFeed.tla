--------------------------- MODULE SyntheticFeed ----------------------------
(***************************************************************************)
(* The market simulator (ingestion/internal/feed/synthetic.go): prints of  *)
(* several symbols on the wall clock, with bursts of one-sided flow.       *)
(*                                                                         *)
(* The clock is that of Dedup, in ticks; the readings of one iteration of  *)
(* the loop are taken for one.  Prices, sizes and sides are left out, a    *)
(* print only says whether it is part of a burst; the random gap between   *)
(* two prints is any up to the one second it is cut to.                    *)
(***************************************************************************)
EXTENDS Feed, Dedup

CONSTANTS
  Simulated, \* the symbols, in configuration order
  MaxGap,    \* a second: the longest gap between prints of a symbol
  MaxBehind  \* two seconds: how far a symbol may be behind the clock

ASSUME SyntheticAssumption ==
  /\ Simulated \in Seq(Range(Simulated)) /\ Simulated # <<>>
  /\ MaxGap \in Nat \ {0} /\ MaxBehind \in Nat /\ MaxBehind >= MaxGap
  /\ \A c \in Configs : c.mode = "synthetic" =>
       c.burstEvery \in Nat /\ c.burstDuration \in Nat /\ c.duration \in Nat

VARIABLES
  nextAt,    \* when the next print of a symbol is due
  burstEnd,  \* end of the burst of a symbol, 0 when there is none
  nextBurst, \* when the next burst of a symbol may begin
  chosen,    \* the symbol whose print Run waits for
  shown,     \* history: symbols whose burst has had a toxic print
  delayed,   \* history: symbols in whose burst the feed was held up
  unseen     \* history: a burst without delay was over without a toxic print

burstVars == <<burstEnd, nextBurst, shown, delayed, unseen>>
synVars == <<nextAt, chosen, burstVars>>

Symbols == Range(Simulated)

SynInit ==
  /\ nextAt = [s \in Symbols |-> 0]
  /\ burstEnd = [s \in Symbols |-> 0]
  /\ nextBurst = [s \in Symbols |-> IF cfg.mode = "synthetic" THEN cfg.burstEvery ELSE 0]
  /\ chosen = Simulated[1]
  /\ shown = {} /\ delayed = {} /\ unseen = FALSE

Soonest(i) == \A j \in DOMAIN Simulated :
  IF j < i THEN nextAt[Simulated[i]] < nextAt[Simulated[j]]
  ELSE nextAt[Simulated[i]] <= nextAt[Simulated[j]]

(* The top of the loop: the context, the deadline of MaxDuration, then the *)
(* first of the symbols whose print is due soonest.                        *)
Pick ==
  /\ At("synthetic", "pick")
  /\ IF cancelled THEN Return("cancelled") /\ UNCHANGED chosen
     ELSE IF cfg.duration > 0 /\ now > cfg.duration THEN Return("nil") /\ UNCHANGED chosen
     ELSE /\ \E i \in DOMAIN Simulated :
               /\ Soonest(i)
               /\ chosen' = Simulated[i]
          /\ Goto("wait")
  /\ UNCHANGED <<hold, nextAt, burstVars>>

Bursts == cfg.burstDuration > 0 /\ cfg.burstEvery > 0

Bursting(s) == Bursts /\ burstEnd[s] # 0 /\ now < burstEnd[s]

(* updateBurst: a print begins the burst that is due, or ends the one that *)
(* is over; neither is part of it.                                         *)
UpdateBurst(s) ==
  LET begins == Bursts /\ burstEnd[s] = 0 /\ now >= nextBurst[s]
      ends   == Bursts /\ burstEnd[s] # 0 /\ now >= burstEnd[s]
  IN  /\ burstEnd' = IF begins THEN [burstEnd EXCEPT ![s] = now + cfg.burstDuration]
                     ELSE IF ends THEN [burstEnd EXCEPT ![s] = 0] ELSE burstEnd
      /\ nextBurst' = IF ends THEN [nextBurst EXCEPT ![s] = now + cfg.burstEvery]
                      ELSE nextBurst
      /\ shown' = IF begins THEN shown \ {s}
                  ELSE IF Bursting(s) THEN shown \cup {s} ELSE shown
      /\ delayed' = IF begins THEN delayed \ {s} ELSE delayed
      /\ unseen' = (unseen \/ (ends /\ s \notin shown \cup delayed))

(* Mutant: the gap is not cut to one second.                               *)
BugGaps == 0..(3 * MaxGap)

Gaps == 0..MaxGap

(* The due print is made, and the next one of its symbol is scheduled,     *)
(* without piling up a backlog.                                            *)
MakePrint ==
  /\ At("synthetic", "wait")
  /\ now >= nextAt[chosen]
  /\ UpdateBurst(chosen)
  /\ hold' = [key |-> "unique", symbol |-> chosen, toxic |-> Bursting(chosen)]
  /\ \E gap \in Gaps :
       LET due == nextAt[chosen] + gap
       IN  nextAt' = [nextAt EXCEPT ![chosen] = IF due < now - MaxBehind THEN now ELSE due]
  /\ Goto("print")
  /\ UNCHANGED chosen

WaitCancelled ==
  /\ At("synthetic", "wait") /\ now < nextAt[chosen]
  /\ GiveUp
  /\ UNCHANGED synVars

SendPrint == At("synthetic", "print") /\ Send("pick", Nothing) /\ UNCHANGED synVars

PrintCancelled == At("synthetic", "print") /\ GiveUp /\ UNCHANGED synVars

SynStep == Pick \/ MakePrint \/ WaitCancelled \/ SendPrint \/ PrintCancelled

(* The clock moves while Run only waits for the next print to be due, or   *)
(* while it is held up: by a full channel, or by the machine.              *)
HeldUp == ~(At("synthetic", "wait") /\ now < nextAt[chosen])

SynTick ==
  /\ delayed' = IF HeldUp THEN Symbols ELSE delayed
  /\ UNCHANGED <<nextAt, chosen, burstEnd, nextBurst, shown, unseen>>

-----------------------------------------------------------------------------
(* A burst that lasts longer than the longest gap between two prints has a *)
(* toxic print, unless the feed is held up while it lasts: this is what    *)
(* "if the scorer does not raise an alert during a burst, the pipeline is  *)
(* broken" relies on.                                                      *)
BurstShows ==
  cfg.mode = "synthetic" /\ cfg.burstDuration > MaxGap => ~unseen
=============================================================================
