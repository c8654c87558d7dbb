---------------------------- MODULE BinanceFeed -----------------------------
(***************************************************************************)
(* The live feed (ingestion/internal/feed/binance.go): the backfill over   *)
(* REST at the start, then one websocket session after the other.          *)
(*                                                                         *)
(* The exchange is external: it matches the trades of a tape, answers a    *)
(* REST request with the newest ones of a symbol, streams what it matches  *)
(* while a session is open and may repeat the last frame in a new one.     *)
(* Calls may fail at any time, and end with the context; how long anything *)
(* takes is left out.                                                      *)
(***************************************************************************)
EXTENDS Feed, FiniteSets, FiniteSetsExt, Functions

CONSTANTS
  Tape,         \* frames of the exchange, 1..n, in the order it sends them
  SymbolOf,     \* the symbol of the trade in a frame
  Noise,        \* frames that hold no trade
  Timed,        \* frames that carry the time of the event, "E"
  Limit,        \* BackfillLimit
  ReconnectMin, ReconnectMax, \* bounds of the delay between sessions
  MaxAttempts   \* bound: attempts that are counted

(* backoffDelay.                                                           *)
Delay(attempt) == Min({ReconnectMax, ReconnectMin * 2^attempt})

(* MaxAttempts is enough: more attempts give the same delay, and none of   *)
(* the configurations counts as far.                                       *)
ASSUME BinanceAssumption ==
  /\ IsFiniteSet(Tape) /\ Tape = 1..Cardinality(Tape)
  /\ Noise \subseteq Tape /\ Timed \subseteq Tape
  /\ Limit \in 1..1000
  /\ MaxAttempts \in Nat /\ Delay(MaxAttempts) = ReconnectMax
  /\ \A c \in Configs : c.mode = "live" => c.maxReconnects \in 0..MaxAttempts

VARIABLES
  made,    \* frames the exchange has sent so far
  todo,    \* index of the symbol the backfill is at
  rows,    \* rows of the REST answer still to be sent
  wire,    \* frames on the websocket
  fresh,   \* no frame of this session has been sent on
  deaf,    \* keepAlive has cancelled the reads of this session
  attempt  \* reconnect attempts so far

sessionVars == <<wire, fresh, deaf>>
liveVars == <<made, todo, rows, sessionVars, attempt>>

Trades == Tape \ Noise

LiveInit ==
  /\ made = 0 /\ todo = 1 /\ rows = <<>>
  /\ wire = <<>> /\ fresh = FALSE /\ deaf = FALSE
  /\ attempt = 0

Connected == cfg.mode = "live" /\ ret = "running" /\ at \in {"read", "send"}

(* External: a trade is matched, and streamed when a session is open.      *)
Exchange ==
  /\ cfg.mode = "live" /\ made + 1 \in Tape
  /\ made' = made + 1
  /\ wire' = IF Connected THEN Append(wire, made') ELSE wire
  /\ UNCHANGED <<todo, rows, fresh, deaf, attempt,
                 cfg, cancelled, at, ret, hold, out, last>>

(* External: a REST answer, the newest Limit trades of symbol s or all of  *)
(* them, in ascending order.                                               *)
IsNewest(ids, s) ==
  LET matched == {t \in Trades : t <= made /\ SymbolOf[t] = s}
  IN  /\ Range(ids) \subseteq matched
      /\ \A i, j \in DOMAIN ids : i < j => ids[i] < ids[j]
      /\ \A t \in matched \ Range(ids) :
           Len(ids) = Limit /\ \A i \in DOMAIN ids : t < ids[i]

(* decodeStreamMessage: the probe for the name of the event, "e", is also  *)
(* given the number in "E", since JSON names match without regard to case: *)
(* a frame that has one is refused, like a frame that holds no trade.      *)
Decodes(t) == t \in Trades \ Timed

RawTrade(kind, id, first) ==
  [key |-> <<kind, id>>, id |-> id, first |-> first]

(* The backfill is off or through all the symbols.                         *)
BackfillDone ==
  /\ At("live", "backfill")
  /\ ~cfg.backfill \/ todo > Len(cfg.symbols)
  /\ Goto("dial")
  /\ UNCHANGED <<hold, liveVars>>

(* backfill: the answer for the next symbol; its rows are sent in turn.    *)
BackfillRequest ==
  /\ At("live", "backfill")
  /\ cfg.backfill /\ todo <= Len(cfg.symbols)
  /\ ~cancelled
  /\ \E n \in 0..Limit : \E ids \in [1..n -> Trades] :
       IsNewest(ids, cfg.symbols[todo]) /\ rows' = ids
  /\ todo' = todo + 1
  /\ IF rows' = <<>> THEN Goto("backfill") /\ UNCHANGED hold
     ELSE Goto("row") /\ hold' = RawTrade("aggtrade", Head(rows'), TRUE)
  /\ UNCHANGED <<made, sessionVars, attempt>>

(* The request fails, or send on a cancelled context: the backfill is over *)
(* and the stream is tried all the same.                                   *)
BackfillError ==
  /\ \/ At("live", "backfill") /\ cfg.backfill /\ todo <= Len(cfg.symbols)
     \/ At("live", "row") /\ cancelled
  /\ hold' = Nothing /\ rows' = <<>>
  /\ Goto("dial")
  /\ UNCHANGED <<made, todo, sessionVars, attempt>>

SendRow ==
  /\ At("live", "row")
  /\ rows' = Tail(rows)
  /\ IF rows' = <<>> THEN Send("backfill", Nothing)
     ELSE Send("row", RawTrade("aggtrade", Head(rows'), FALSE))
  /\ UNCHANGED <<made, todo, sessionVars, attempt>>

(* Mutant: MaxReconnects = 0 is taken for "none" instead of "no limit".    *)
BugExhausted == attempt >= cfg.maxReconnects

Exhausted == cfg.maxReconnects > 0 /\ attempt >= cfg.maxReconnects

LiveGivesUp ==
  /\ At("live", "dial") /\ Exhausted
  /\ Return("error")
  /\ UNCHANGED <<hold, liveVars>>

(* The session opens; the exchange may repeat the last trade.              *)
Dial ==
  /\ At("live", "dial") /\ ~Exhausted
  /\ ~cancelled
  /\ wire' \in {<<>>} \cup {<<t>> : t \in {made} \cap Trades}
  /\ fresh' = TRUE /\ deaf' = FALSE
  /\ Goto("read")
  /\ UNCHANGED <<hold, made, todo, rows, attempt>>

Close == wire' = <<>> /\ fresh' = FALSE /\ deaf' = FALSE

(* consume returns an error: Run sleeps before the next attempt, unless    *)
(* the context is done.                                                    *)
Disconnect ==
  /\ Close
  /\ IF cancelled THEN Return("cancelled") ELSE Goto("sleep")
  /\ UNCHANGED <<hold, made, todo, rows, attempt>>

DialError == At("live", "dial") /\ ~Exhausted /\ Disconnect

(* The peer closes, the read times out, keepAlive or the context ends it.  *)
ReadError == At("live", "read") /\ Disconnect

ReadFrame ==
  /\ At("live", "read")
  /\ wire # <<>> /\ ~deaf /\ ~cancelled
  /\ wire' = Tail(wire)
  /\ IF Decodes(Head(wire))
     THEN Goto("send") /\ hold' = RawTrade(cfg.kind, Head(wire), fresh)
     ELSE Goto("read") /\ UNCHANGED hold
  /\ UNCHANGED <<made, todo, rows, fresh, deaf, attempt>>

SendFrame ==
  /\ At("live", "send")
  /\ Send("read", Nothing)
  /\ fresh' = FALSE
  /\ UNCHANGED <<made, todo, rows, wire, deaf, attempt>>

SendCancelled ==
  /\ At("live", "send")
  /\ GiveUp /\ Close
  /\ UNCHANGED <<made, todo, rows, attempt>>

(* keepAlive: no pong in time.  The library handles a pong only inside a   *)
(* Read, so this also hits a feed that is blocked in send.                 *)
PingFails ==
  /\ Connected /\ ~deaf
  /\ deaf' = TRUE
  /\ UNCHANGED <<made, todo, rows, wire, fresh, attempt,
                 cfg, cancelled, at, ret, hold, out, last>>

Wake ==
  /\ At("live", "sleep")
  /\ attempt' = Min({attempt + 1, MaxAttempts})
  /\ Goto("dial")
  /\ UNCHANGED <<hold, made, todo, rows, sessionVars>>

SleepCancelled == At("live", "sleep") /\ GiveUp /\ UNCHANGED liveVars

LiveStep ==
  \/ BackfillDone \/ BackfillRequest \/ BackfillError \/ SendRow
  \/ LiveGivesUp \/ Dial \/ DialError \/ ReadError \/ ReadFrame
  \/ SendFrame \/ SendCancelled \/ Wake \/ SleepCancelled

-----------------------------------------------------------------------------
(* Within one session, and within the rows of one backfilled symbol, the   *)
(* feed sends the trades on in order and leaves none out that it can       *)
(* decode: other holes, and repetitions, only come with a (re)connect.     *)
SessionHasNoHoles ==
  [][cfg.mode = "live" /\ last' # Nothing /\ ~last'.first =>
       /\ last.id < last'.id
       /\ \A t \in (last.id + 1)..(last'.id - 1) :
            IF at = "row" THEN t \in Trades => SymbolOf[t] # SymbolOf[last.id]
            ELSE ~Decodes(t)]_last

(* The live feed drops no trade it reads: its doc comment makes it the     *)
(* feed that "connects, streams", and decoding "converts a combined-stream *)
(* frame into a RawTrade".                                                 *)
FramesBecomeTrades ==
  [][At("live", "read") /\ at' = "read" /\ ret' = "running" /\ wire # <<>> /\ wire' = Tail(wire) =>
       Head(wire) \in Noise]_wire

(* Without a limit on the attempts the feed is connected again and again,  *)
(* whatever has failed before, until it is cancelled or nobody takes its   *)
(* trades.                                                                 *)
LiveFeedReconnects ==
  cfg.mode = "live" /\ cfg.maxReconnects = 0 ~>
    at = "read" \/ cancelled \/ Len(out) = OutSize
=============================================================================
