---------------------------- MODULE FeedsProofs -----------------------------
(***************************************************************************)
(* Proofs about the feeds and the duplicate filter behind them, for any    *)
(* configurations, tapes, files and symbols, and any keys, shards, sizes   *)
(* and ages of the filter's clock readings.                                *)
(*                                                                         *)
(* First the filter on its own, then the invariant all feeds share, by     *)
(* which they only ask the filter for keys it knows, then each feed.       *)
(***************************************************************************)
EXTENDS Feeds, SequenceTheorems, FiniteSetTheorems, TLAPS

-----------------------------------------------------------------------------
(* The duplicate filter.                                                   *)

(* An entry expires TTL after its key was let through, up to the age of    *)
(* the reading then.                                                       *)
Timely ==
  \A k \in DOMAIN entries :
    /\ passedAt[k] # Never
    /\ entries[k] \in Int
    /\ passedAt[k] + TTL - Lag <= entries[k] /\ entries[k] <= passedAt[k] + TTL

(* A key that was let through and has no entry has expired, or its shard   *)
(* was dropped.                                                            *)
Forgotten ==
  \A k \in Keys \ DOMAIN entries :
    passedAt[k] # Never => k \in dropped \/ passedAt[k] + TTL - Lag <= now

Budget == \A k \in Keys : Cardinality(Shard(entries, k)) <= PerShard

FilterTypes ==
  /\ now \in 0..MaxTime
  /\ passedAt \in [Keys -> Int]
  /\ DOMAIN entries \subseteq Keys
  /\ \A k \in DOMAIN entries : entries[k] \in 0..(MaxTime + TTL)
  /\ dropped \subseteq Keys

WindowInv == FilterTypes /\ Timely /\ Forgotten /\ Budget /\ DuplicateWindow

(* The maps after k was recorded hold k, with its new expiry, and what was *)
(* not expired; or the shard of k was dropped.                             *)
LEMMA RecordEffect ==
  ASSUME WindowInv, NEW k \in Keys, NEW t \in Int
  PROVE  LET m == Record(k, t)
         IN  /\ DOMAIN m \subseteq DOMAIN entries \cup {k}
             /\ \A x \in DOMAIN m : m[x] = IF x = k THEN t + TTL ELSE entries[x]
             /\ k \in DOMAIN m =>
                  \A x \in DOMAIN entries \ DOMAIN m : entries[x] <= t
<1> DEFINE filled == Filled(k, t)
           swept  == Sweep(filled, k, t)
<1> USE DedupAssumption DEF DedupAssumption
<1>1. /\ DOMAIN filled = DOMAIN entries \cup {k}
      /\ \A x \in DOMAIN filled : filled[x] = IF x = k THEN t + TTL ELSE entries[x]
  BY DEF Filled
<1>2. /\ DOMAIN swept = {x \in DOMAIN filled : ~(ShardOf[x] = ShardOf[k] /\ filled[x] <= t)}
      /\ \A x \in DOMAIN swept : swept[x] = filled[x]
  BY DEF Sweep, Shard, Without, Restrict
<1> DEFINE gone == Without(swept, Shard(swept, k))
<1>3. /\ DOMAIN gone = {x \in DOMAIN swept : ShardOf[x] # ShardOf[k]}
      /\ \A x \in DOMAIN gone : gone[x] = swept[x]
  BY DEF Shard, Without, Restrict
<1>4. Record(k, t) \in {filled, swept, gone}
  BY DEF Record
<1>5. \A x \in DOMAIN entries \ DOMAIN swept : x # k => entries[x] <= t
  BY <1>1, <1>2
<1> HIDE DEF filled, swept, gone
<1>6. CASE Record(k, t) = filled
  BY <1>1, <1>6
<1>7. CASE Record(k, t) = swept
  BY <1>1, <1>2, <1>5, <1>7
<1>8. CASE Record(k, t) = gone
  BY <1>1, <1>2, <1>3, <1>8
<1> QED
  BY <1>4, <1>6, <1>7, <1>8

(* No shard outgrows its budget, whichever key is recorded.                *)
LEMMA RecordKeepsBudget ==
  ASSUME WindowInv, NEW k \in Keys, NEW t \in Int, NEW x \in Keys
  PROVE  Cardinality(Shard(Record(k, t), x)) <= PerShard
<1> DEFINE filled == Filled(k, t)
           swept  == Sweep(filled, k, t)
           gone   == Without(swept, Shard(swept, k))
           m      == Record(k, t)
<1> USE DedupAssumption DEF DedupAssumption
<1>1. DOMAIN filled = DOMAIN entries \cup {k}
  BY DEF Filled
<1>2. DOMAIN swept \subseteq DOMAIN filled
  BY DEF Sweep, Without, Restrict
<1>3. DOMAIN gone = {y \in DOMAIN swept : ShardOf[y] # ShardOf[k]}
  BY DEF Shard, Without, Restrict
<1>4. m = IF Cardinality(Shard(filled, k)) <= PerShard THEN filled
          ELSE IF Cardinality(Shard(swept, k)) <= PerShard THEN swept ELSE gone
  BY DEF Record
<1> HIDE DEF filled, swept, gone, m
<1>5. CASE ShardOf[x] # ShardOf[k]
  <2>1. Shard(m, x) \in SUBSET Shard(entries, x)
    BY <1>1, <1>2, <1>3, <1>4, <1>5 DEF Shard
  <2>2. IsFiniteSet(Shard(entries, x))
    BY FS_Subset DEF Shard, WindowInv, FilterTypes
  <2>3. Cardinality(Shard(m, x)) <= Cardinality(Shard(entries, x))
    BY <2>1, <2>2, FS_Subset
  <2>4. Cardinality(Shard(entries, x)) <= PerShard
    BY DEF WindowInv, Budget
  <2>5. IsFiniteSet(Shard(m, x))
    BY <2>1, <2>2, FS_Subset
  <2>6. Cardinality(Shard(m, x)) \in Nat /\ Cardinality(Shard(entries, x)) \in Nat
    BY <2>2, <2>5, FS_CardinalityType
  <2> QED
    BY <2>3, <2>4, <2>6 DEF m
<1>6. CASE ShardOf[x] = ShardOf[k]
  <2>1. Shard(m, x) = Shard(m, k)
    BY <1>6 DEF Shard
  <2>2. Cardinality(Shard(m, k)) <= PerShard
    <3>1. CASE m = gone
      <4>1. Shard(m, k) = {}
        BY <1>3, <3>1 DEF Shard
      <4> QED
        BY <4>1, FS_EmptySet
    <3> QED
      BY <1>4, <3>1
  <2> QED
    BY <2>1, <2>2 DEF m
<1> QED
  BY <1>5, <1>6

(* An answer of the filter keeps the invariant. *)
LEMMA SeenKeeps ==
  ASSUME WindowInv, NEW k \in Keys, Seen(k)
  PROVE  WindowInv'
<1> USE DedupAssumption DEF DedupAssumption
<1>1. PICK t \in {x \in (now - Lag)..now : x >= 0} :
        LET filtered == Remembered(k, t)
            lost == (DOMAIN entries \cup {k}) \ DOMAIN entries'
        IN  /\ entries' = IF filtered THEN entries ELSE Record(k, t)
            /\ dropped' = IF filtered THEN dropped
                          ELSE IF k \in lost THEN dropped \cup lost ELSE dropped \ {k}
            /\ passedAt' = IF filtered THEN passedAt ELSE [passedAt EXCEPT ![k] = now]
            /\ verdict' = [filtered |-> filtered, at |-> now, previous |-> passedAt[k],
                           dropped |-> k \in dropped]
            /\ now' = now
  BY Zenon DEF Seen
<1>2. /\ now \in Nat /\ t \in Nat /\ now - Lag <= t /\ t <= now
      /\ now <= MaxTime
      /\ passedAt[k] \in Int
  BY DEF WindowInv, FilterTypes
<1>3. DuplicateWindow'
  <2>1. CASE Remembered(k, t)
    <3>1. /\ k \in DOMAIN entries /\ entries[k] > t /\ entries[k] \in Int
          /\ passedAt[k] # Never
          /\ entries[k] <= passedAt[k] + TTL
      BY <2>1 DEF Remembered, WindowInv, Timely
    <3>2. now - passedAt[k] < TTL + Lag
      BY <1>2, <3>1
    <3> QED
      BY <1>1, <2>1, <3>1, <3>2 DEF DuplicateWindow
  <2>2. CASE ~Remembered(k, t)
    <3>1. passedAt[k] # Never => now - passedAt[k] >= TTL - Lag \/ k \in dropped
      <4>1. CASE k \in DOMAIN entries
        BY <1>2, <2>2, <4>1 DEF Remembered, WindowInv, Timely
      <4>2. CASE k \notin DOMAIN entries
        BY <1>2, <4>2 DEF WindowInv, Forgotten
      <4> QED
        BY <4>1, <4>2
    <3> QED
      BY <1>1, <2>2, <3>1 DEF DuplicateWindow
  <2> QED
    BY <2>1, <2>2
<1>4. CASE Remembered(k, t)
  <2>1. UNCHANGED <<entries, dropped, passedAt, now>>
    BY <1>1, <1>4
  <2> QED
    BY <1>3, <2>1 DEF WindowInv, FilterTypes, Timely, Forgotten, Budget, Shard
<1>5. CASE ~Remembered(k, t)
  <2> DEFINE lost == (DOMAIN entries \cup {k}) \ DOMAIN entries'
  <2>1. /\ entries' = Record(k, t)
        /\ dropped' = IF k \in lost THEN dropped \cup lost ELSE dropped \ {k}
        /\ passedAt' = [passedAt EXCEPT ![k] = now]
        /\ now' = now
    BY <1>1, <1>5
  <2>2. /\ DOMAIN entries' \subseteq DOMAIN entries \cup {k}
        /\ \A x \in DOMAIN entries' : entries'[x] = IF x = k THEN t + TTL ELSE entries[x]
        /\ k \in DOMAIN entries' =>
             \A x \in DOMAIN entries \ DOMAIN entries' : entries[x] <= t
    BY <2>1, <1>2, RecordEffect
  <2>3. /\ passedAt' \in [Keys -> Int] /\ passedAt'[k] = now
        /\ \A x \in Keys : x # k => passedAt'[x] = passedAt[x]
    BY <1>2, <2>1 DEF WindowInv, FilterTypes
  <2>4. FilterTypes'
    BY <1>2, <2>1, <2>2, <2>3 DEF WindowInv, FilterTypes
  <2>5. Timely'
    BY <1>2, <2>2, <2>3 DEF WindowInv, FilterTypes, Timely, Never
  <2>6. Forgotten'
    <3> SUFFICES ASSUME NEW x \in Keys, x \notin DOMAIN entries', passedAt'[x] # Never
                 PROVE  x \in dropped' \/ passedAt'[x] + TTL - Lag <= now'
      BY DEF Forgotten
    <3>1. CASE x \in lost /\ k \in lost
      BY <2>1, <3>1
    <3>2. CASE x \in lost /\ k \notin lost
      <4>1. x # k /\ x \in DOMAIN entries /\ entries[x] <= t
        BY <2>2, <3>2
      <4>2. passedAt[x] + TTL - Lag <= entries[x] /\ entries[x] \in Int /\ passedAt[x] \in Int
        BY <4>1 DEF WindowInv, Timely, FilterTypes
      <4> QED
        BY <1>2, <2>1, <2>3, <4>1, <4>2
    <3>3. CASE x \notin lost
      <4>1. x # k /\ x \notin DOMAIN entries
        BY <3>3
      <4>2. x \in dropped \/ passedAt[x] + TTL - Lag <= now
        BY <2>3, <4>1 DEF WindowInv, Forgotten
      <4> QED
        BY <2>1, <2>3, <4>1, <4>2
    <3> QED
      BY <3>1, <3>2, <3>3
  <2>7. Budget'
    BY <2>1, <1>2, RecordKeepsBudget DEF Budget
  <2> QED
    BY <1>3, <2>4, <2>5, <2>6, <2>7 DEF WindowInv
<1> QED
  BY <1>4, <1>5

(* Time passing keeps the invariant. *)
LEMMA TickKeeps ==
  ASSUME WindowInv, Tick
  PROVE  WindowInv'
<1> USE DedupAssumption DEF DedupAssumption
<1>1. /\ now' = now + 1 /\ now' <= MaxTime
      /\ UNCHANGED <<entries, passedAt, dropped, verdict>>
  BY DEF Tick, WindowInv, FilterTypes
<1>2. Forgotten'
  BY <1>1 DEF WindowInv, Forgotten, FilterTypes
<1> QED
  BY <1>1, <1>2 DEF WindowInv, FilterTypes, Timely, Budget, Shard, DuplicateWindow

(* An empty filter satisfies the invariant. *)
LEMMA InitKeeps == DedupInit => WindowInv
<1> SUFFICES ASSUME DedupInit PROVE WindowInv
  OBVIOUS
<1> USE DedupAssumption DEF DedupAssumption
<1>1. DOMAIN entries = {}
  BY DEF DedupInit
<1>2. \A k \in Keys : Shard(entries, k) = {}
  BY <1>1 DEF Shard
<1>3. Budget
  BY <1>2, FS_EmptySet DEF Budget
<1> QED
  BY <1>1, <1>3 DEF DedupInit, WindowInv, FilterTypes, Timely, Forgotten, DuplicateWindow, Undecided, Never

(* The invariant holds whatever the filter is asked. *)
LEMMA WindowInvariance == DedupSpec => []WindowInv
<1>1. WindowInv /\ [(\E k \in Keys : Seen(k)) \/ Tick]_dedupVars => WindowInv'
  <2> SUFFICES ASSUME WindowInv, [(\E k \in Keys : Seen(k)) \/ Tick]_dedupVars
               PROVE  WindowInv'
    OBVIOUS
  <2>1. CASE \E k \in Keys : Seen(k)
    BY <2>1, SeenKeeps
  <2>2. CASE Tick
    BY <2>2, TickKeeps
  <2>3. CASE UNCHANGED dedupVars
    BY <2>3 DEF dedupVars, WindowInv, FilterTypes, Timely, Forgotten, Budget, Shard, DuplicateWindow
  <2> QED
    BY <2>1, <2>2, <2>3
<1> QED
  BY <1>1, InitKeeps, PTL DEF DedupSpec

(* The filter neither loses a trade nor passes one twice within the        *)
(* window, up to the age of a reading and to shards that are dropped.      *)
LEMMA FilterWindow == DedupSpec => []DuplicateWindow
<1>1. WindowInv => DuplicateWindow
  BY DEF WindowInv
<1> QED
  BY <1>1, WindowInvariance, PTL

(* The filter is well typed: in particular no shard outgrows its budget.   *)
THEOREM FilterStaysBounded == DedupSpec => []DedupTypeOK
<1>1. WindowInv => DedupTypeOK
  BY DEF WindowInv, FilterTypes, Budget, DedupTypeOK
<1> QED
  BY <1>1, WindowInvariance, PTL

-----------------------------------------------------------------------------
(* What all feeds share.                                                   *)

Places == {"backfill", "row", "dial", "read", "send", "sleep",
           "pass", "emit", "pause", "pick", "wait", "print"}

(* The records of each feed.                                               *)
LiveRecords == [key : {"aggtrade", "trade"} \X Trades, id : Trades, first : BOOLEAN]
CSVRecords == {Trade(i) : i \in 1..Len(Lines)}
SynRecords == [key : {"unique"}, symbol : Symbols, toxic : BOOLEAN]

Carried == CASE cfg.mode = "live" -> LiveRecords
             [] cfg.mode = "csv" -> CSVRecords
             [] cfg.mode = "synthetic" -> SynRecords

(* Run has a record to send.                                               *)
Sending == at \in {"send", "emit", "print"} \/ (cfg.mode = "live" /\ at = "row")

(* Only records of the feed are held, sent and in the channel, which is    *)
(* never more than full.                                                   *)
FeedInv ==
  /\ cfg \in Configs /\ cancelled \in BOOLEAN
  /\ at \in Places
  /\ ret \in {"running", "nil", "error", "cancelled"}
  /\ out \in Seq(Carried) /\ Len(out) <= OutSize
  /\ hold \in Carried \cup {Nothing} /\ last \in Carried \cup {Nothing}
  /\ Sending => hold \in Carried

(* Every configuration has one of the three modes.                         *)
LEMMA Modes ==
  ASSUME cfg \in Configs
  PROVE  /\ cfg.mode \in {"live", "csv", "synthetic"}
         /\ cfg.mode = "live" => Carried = LiveRecords
         /\ cfg.mode = "csv" => Carried = CSVRecords
         /\ cfg.mode = "synthetic" => Carried = SynRecords
<1>1. cfg.mode \in {"live", "csv", "synthetic"}
  BY FeedAssumption DEF FeedAssumption
<1> QED
  BY <1>1 DEF Carried

(* A feed starts with nothing to send.                                     *)
LEMMA FeedInitKeeps == FeedInit => FeedInv
<1> SUFFICES ASSUME FeedInit PROVE FeedInv
  OBVIOUS
<1>1. cfg \in Configs /\ cfg.mode \in {"live", "csv", "synthetic"}
  BY Modes DEF FeedInit
<1>2. at = FirstStep
  BY DEF FeedInit
<1>3. at \in Places /\ ~Sending
  BY <1>1, <1>2 DEF FirstStep, Places, Sending
<1>4. out \in Seq(Carried) /\ Len(out) <= OutSize
  BY FeedAssumption DEF FeedInit, FeedAssumption
<1> QED
  BY <1>1, <1>3, <1>4 DEF FeedInit, FeedInv

(* Going on somewhere else keeps the shared invariant.                     *)
LEMMA GotoKeeps ==
  ASSUME FeedInv, NEW l \in Places, Goto(l),
         hold' \in Carried \cup {Nothing},
         l \in {"send", "emit", "print"} \/ (cfg.mode = "live" /\ l = "row") => hold' \in Carried
  PROVE  FeedInv'
<1>1. Carried' = Carried
  BY DEF Goto, Carried, CSVRecords, Trade, Lines, HasHeader, ByName, Positional
<1> QED
  BY <1>1 DEF FeedInv, Goto, Sending

(* So does returning.                                                      *)
LEMMA ReturnKeeps ==
  ASSUME FeedInv, NEW r \in {"nil", "error", "cancelled"}, Return(r), hold' = hold
  PROVE  FeedInv'
<1>1. Carried' = Carried
  BY DEF Return, Carried, CSVRecords, Trade, Lines, HasHeader, ByName, Positional
<1> QED
  BY <1>1 DEF FeedInv, Return, Sending

(* So does sending the record at hand.                                     *)
LEMMA SendKeeps ==
  ASSUME FeedInv, Sending, NEW l \in Places, NEW next \in Carried \cup {Nothing},
         Send(l, next),
         l \in {"send", "emit", "print"} \/ (cfg.mode = "live" /\ l = "row") => next \in Carried
  PROVE  FeedInv' /\ last' = hold /\ hold \in Carried
<1>1. Carried' = Carried
  BY DEF Send, Carried, CSVRecords, Trade, Lines, HasHeader, ByName, Positional
<1>2. hold \in Carried
  BY DEF FeedInv
<1>3. out' \in Seq(Carried) /\ Len(out') <= OutSize
  BY <1>2, FeedAssumption DEF FeedInv, Send, FeedAssumption
<1> QED
  BY <1>1, <1>2, <1>3 DEF FeedInv, Send, Sending

(* So does whatever leaves the feed where it is, but for the context and   *)
(* for records that are taken from the channel.                            *)
LEMMA OthersKeep ==
  ASSUME FeedInv, UNCHANGED <<cfg, at, ret, hold, last>>, cancelled' \in BOOLEAN,
         out' = out \/ (out # <<>> /\ out' = Tail(out))
  PROVE  FeedInv'
<1>1. Carried' = Carried
  BY DEF Carried, CSVRecords, Trade, Lines, HasHeader, ByName, Positional
<1>2. out' \in Seq(Carried) /\ Len(out') <= OutSize
  BY FeedAssumption DEF FeedInv, FeedAssumption
<1> QED
  BY <1>1, <1>2 DEF FeedInv, Sending

-----------------------------------------------------------------------------
(* The live feed.                                                          *)

Last == made - Len(wire) \* the last frame that was read from the websocket

LiveTypes ==
  /\ made \in 0..Cardinality(Tape) /\ attempt \in 0..MaxAttempts
  /\ rows \in Seq(Trades)
  /\ wire \in Seq(Nat) /\ Len(wire) <= made
  /\ fresh \in BOOLEAN

(* The frames on the websocket are the newest ones of the exchange, and    *)
(* there are none without a session.                                       *)
OnTheWire ==
  /\ \A i \in 1..Len(wire) : wire[i] = Last + i
  /\ wire # <<>> => Connected

(* The rows that are left of an answer leave no trade of the symbol out,   *)
(* and the first one of them follows the last one sent.                    *)
Rows ==
  /\ rows # <<>> <=> At("live", "row")
  /\ rows # <<>> => hold.id = rows[1]
  /\ \A i, j \in 1..Len(rows) : i < j => rows[i] < rows[j]
  /\ \A i \in 1..(Len(rows) - 1) : \A t \in Trades :
       rows[i] < t /\ t < rows[i + 1] => SymbolOf[t] # SymbolOf[rows[i]]
  /\ rows # <<>> /\ ~hold.first =>
       /\ last \in LiveRecords /\ last.id < hold.id
       /\ \A t \in Trades : last.id < t /\ t < hold.id => SymbolOf[t] # SymbolOf[last.id]

(* What was read since the last frame was sent on could not be decoded.    *)
Streamed ==
  /\ At("live", "send") => hold.id = Last /\ hold.first = fresh
  /\ Connected /\ ~fresh =>
       /\ last \in LiveRecords
       /\ IF at = "send" THEN last.id < Last ELSE last.id <= Last
       /\ \A t \in (last.id + 1)..Last : Decodes(t) => at = "send" /\ t = Last

LiveInv == LiveTypes /\ OnTheWire /\ Rows /\ Streamed

(* The frames of the tape are numbers.                                     *)
LEMMA TapeFacts ==
  /\ Cardinality(Tape) \in Nat /\ Tape = 1..Cardinality(Tape)
  /\ Trades \subseteq Nat \ {0} /\ Trades \subseteq Tape
  /\ MaxAttempts \in Nat /\ Limit \in Nat
<1>1. Cardinality(Tape) \in Nat
  BY BinanceAssumption, FS_CardinalityType DEF BinanceAssumption
<1>2. Tape = 1..Cardinality(Tape)
  BY BinanceAssumption DEF BinanceAssumption
<1>3. Trades \subseteq Nat \ {0} /\ Trades \subseteq Tape
  BY <1>1, <1>2 DEF Trades
<1>4. MaxAttempts \in Nat /\ Limit \in Nat
  BY BinanceAssumption DEF BinanceAssumption
<1> QED
  BY <1>1, <1>2, <1>3, <1>4

(* The next attempt counts, up to the bound.                               *)
LEMMA AttemptsCount ==
  ASSUME NEW n \in 0..MaxAttempts
  PROVE  Min({n + 1, MaxAttempts}) \in 0..MaxAttempts
<1> DEFINE S == {n + 1, MaxAttempts}
<1>1. \E m \in S : \A x \in S : m <= x
  BY TapeFacts
<1>2. Min(S) \in S /\ \A x \in S : Min(S) <= x
  BY <1>1, TapeFacts DEF Min
<1> QED
  BY <1>2, TapeFacts

(* Nothing of a live feed changes in the other modes.                      *)
LEMMA LiveUntouched ==
  ASSUME FeedInv, LiveInv, cfg.mode # "live", UNCHANGED <<cfg, liveVars>>
  PROVE  LiveInv'
<1>1. wire = <<>> /\ rows = <<>> /\ ~Connected
  BY DEF LiveInv, OnTheWire, Connected, Rows, At
<1> QED
  BY <1>1 DEF LiveInv, LiveTypes, OnTheWire, Last, Connected, Rows, At, Streamed, liveVars, sessionVars

(* The answer to a request of the backfill leaves no trade out between two *)
(* of its rows.                                                            *)
LEMMA AnswerHasNoHoles ==
  ASSUME NEW n \in Nat, NEW ids \in [1..n -> Trades], NEW s, made \in Nat, IsNewest(ids, s)
  PROVE  /\ ids \in Seq(Trades) /\ Len(ids) = n
         /\ \A i, j \in 1..n : i < j => ids[i] < ids[j]
         /\ \A i \in 1..(n - 1) : \A t \in Trades :
              ids[i] < t /\ t < ids[i + 1] => SymbolOf[t] # SymbolOf[ids[i]]
<1>1. ids \in Seq(Trades) /\ Len(ids) = n /\ DOMAIN ids = 1..n
  OBVIOUS
<1> DEFINE matched == {t \in Trades : t <= made /\ SymbolOf[t] = s}
<1>2. /\ \A i \in 1..n : ids[i] \in matched
      /\ \A i, j \in 1..n : i < j => ids[i] < ids[j]
      /\ \A t \in matched \ Range(ids) : \A i \in 1..n : t < ids[i]
  BY <1>1 DEF IsNewest, Range
<1>3. ASSUME NEW i \in 1..(n - 1), NEW t \in Trades,
             ids[i] < t, t < ids[i + 1], SymbolOf[t] = SymbolOf[ids[i]]
      PROVE  FALSE
  <2>1. i \in 1..n /\ i + 1 \in 1..n
    OBVIOUS
  <2>2. /\ ids[i] \in Nat /\ ids[i + 1] \in Nat /\ t \in Nat
        /\ ids[i + 1] <= made /\ SymbolOf[ids[i]] = s
    BY <1>2, <2>1, TapeFacts
  <2>3. t \in matched
    BY <1>3, <2>2
  <2>4. CASE t \in Range(ids)
    <3>1. PICK k \in 1..n : t = ids[k]
      BY <2>4, <1>1 DEF Range
    <3>2. k <= i \/ i + 1 <= k
      OBVIOUS
    <3>3. ids[k] <= ids[i] \/ ids[i + 1] <= ids[k]
      BY <3>2, <1>2, <2>1, <2>2, <3>1
    <3> QED
      BY <3>1, <3>3, <2>2, <1>3
  <2>5. CASE t \notin Range(ids)
    BY <2>5, <2>3, <1>2, <2>1, <2>2, <1>3
  <2> QED
    BY <2>4, <2>5
<1> QED
  BY <1>1, <1>2, <1>3

(* A live feed keeps its invariant: without a session and without rows     *)
(* nothing needs to be said of the record at hand.                         *)
LEMMA IdleKeeps ==
  ASSUME LiveInv, cfg' = cfg, made' = made, rows' = <<>>, wire' = <<>>,
         attempt' \in 0..MaxAttempts, fresh' \in BOOLEAN,
         ~Connected', ~At("live", "row")'
  PROVE  LiveInv'
<1>1. LiveTypes'
  BY TapeFacts DEF LiveInv, LiveTypes
<1>2. OnTheWire' /\ Streamed'
  BY DEF OnTheWire, Streamed, Connected, At
<1>3. Rows'
  BY DEF Rows
<1> QED
  BY <1>1, <1>2, <1>3 DEF LiveInv

(* The exchange only adds to the wire.                                     *)
LEMMA ExchangeKeeps ==
  ASSUME FeedInv, LiveInv, Exchange
  PROVE  FeedInv' /\ LiveInv'
<1>1. FeedInv'
  BY OthersKeep DEF Exchange, FeedInv
<1>2. /\ cfg.mode = "live" /\ made' = made + 1 /\ made + 1 \in Tape
      /\ UNCHANGED <<todo, rows, fresh, deaf, attempt, cfg, cancelled, at, ret, hold, out, last>>
      /\ Connected' = Connected
  BY DEF Exchange, Connected
<1>3. made \in Nat /\ made' \in 0..Cardinality(Tape)
  BY <1>2, TapeFacts DEF LiveInv, LiveTypes
<1>3a. wire \in Seq(Nat) /\ Len(wire) <= made /\ \A i \in 1..Len(wire) : wire[i] = Last + i
  BY DEF LiveInv, LiveTypes, OnTheWire
<1>3b. PICK n \in Nat : n = Len(wire)
  BY <1>3a
<1>3c. Last = made - n
  BY <1>3b DEF Last
<1>3d. (Connected /\ wire' = Append(wire, made + 1)) \/ (~Connected /\ wire' = wire /\ wire = <<>>)
  BY <1>2 DEF Exchange, LiveInv, OnTheWire
<1>4. /\ wire' \in Seq(Nat) /\ Len(wire') <= made'
      /\ \A i \in 1..Len(wire') : wire'[i] = Last' + i
  <2>1. CASE wire' = Append(wire, made + 1)
    <3>1. wire' \in Seq(Nat) /\ Len(wire') = n + 1
      BY <2>1, <1>3, <1>3a, <1>3b
    <3>2. Last' = made - n
      BY <3>1, <1>2, <1>3 DEF Last
    <3>3. \A i \in 1..(n + 1) : wire'[i] = made - n + i
      BY <2>1, <1>3, <1>3a, <1>3b, <1>3c
    <3> QED
      BY <3>1, <3>2, <3>3, <1>2, <1>3, <1>3a, <1>3b, <1>3c
  <2>2. CASE wire' = wire /\ wire = <<>>
    BY <2>2, <1>2, <1>3
  <2> QED
    BY <2>1, <2>2, <1>3d
<1>4b. Connected => Last' = Last
  <2>1. CASE wire' = Append(wire, made + 1)
    <3>1. Len(wire') = n + 1
      BY <2>1, <1>3, <1>3a, <1>3b
    <3> QED
      BY <3>1, <1>2, <1>3, <1>3c DEF Last
  <2> QED
    BY <2>1, <1>3d
<1>4a. wire' # <<>> => Connected'
  BY <1>2 DEF Exchange, LiveInv, OnTheWire
<1>5. LiveTypes'
  BY <1>2, <1>3, <1>4 DEF LiveInv, LiveTypes
<1>6. OnTheWire'
  BY <1>4, <1>4a DEF OnTheWire
<1>7. Rows'
  BY <1>2 DEF LiveInv, Rows, At
<1>8. Streamed'
  <2>1. CASE Connected
    BY <2>1, <1>2, <1>4b DEF LiveInv, Streamed, At, Decodes
  <2>2. CASE ~Connected
    BY <2>2, <1>2 DEF LiveInv, Streamed, At, Decodes, Connected
  <2> QED
    BY <2>1, <2>2
<1> QED
  BY <1>1, <1>5, <1>6, <1>7, <1>8 DEF LiveInv

(* The backfill starts, goes on and ends.                                  *)
LEMMA BackfillKeeps ==
  ASSUME FeedInv, LiveInv, BackfillDone \/ BackfillError
  PROVE  FeedInv' /\ LiveInv'
<1>1. /\ cfg.mode = "live" /\ ret = "running" /\ at \in {"backfill", "row"}
      /\ Goto("dial") /\ made' = made /\ UNCHANGED <<sessionVars, attempt>>
      /\ hold' \in {hold, Nothing}
  BY DEF BackfillDone, BackfillError, At, liveVars
<1>2. FeedInv'
  BY <1>1, GotoKeeps DEF FeedInv, Places
<1>3. rows' = <<>>
  BY DEF BackfillDone, BackfillError, liveVars, LiveInv, Rows, At
<1>4. wire' = <<>> /\ fresh' \in BOOLEAN
  BY <1>1 DEF sessionVars, LiveInv, OnTheWire, LiveTypes, Connected
<1>5. cfg' = cfg /\ ~Connected' /\ ~At("live", "row")'
  BY <1>1 DEF Goto, Connected, At
<1>6. attempt' \in 0..MaxAttempts
  BY <1>1 DEF LiveInv, LiveTypes
<1> QED
  BY <1>1, <1>2, <1>3, <1>4, <1>5, <1>6, IdleKeeps

(* An answer of the backfill is about to be sent, row by row.              *)
LEMMA RequestKeeps ==
  ASSUME FeedInv, LiveInv, BackfillRequest
  PROVE  FeedInv' /\ LiveInv'
<1>1. /\ cfg.mode = "live" /\ ret = "running" /\ at = "backfill"
      /\ made' = made /\ attempt' = attempt /\ UNCHANGED <<wire, fresh, deaf>>
      /\ made \in Nat
  BY TapeFacts DEF BackfillRequest, At, sessionVars, LiveInv, LiveTypes
<1>2. wire = <<>> /\ wire' = <<>>
  BY <1>1 DEF LiveInv, OnTheWire, Connected
<1>3. PICK n \in 0..Limit : \E ids \in [1..n -> Trades] :
        IsNewest(ids, cfg.symbols[todo]) /\ rows' = ids
  BY DEF BackfillRequest
<1>4. PICK ids \in [1..n -> Trades] : IsNewest(ids, cfg.symbols[todo]) /\ rows' = ids
  BY <1>3
<1>4a. n \in Nat
  BY <1>3, TapeFacts
<1>5. /\ rows' \in Seq(Trades) /\ Len(rows') = n
      /\ \A i, j \in 1..n : i < j => rows'[i] < rows'[j]
      /\ \A i \in 1..(n - 1) : \A t \in Trades :
           rows'[i] < t /\ t < rows'[i + 1] => SymbolOf[t] # SymbolOf[rows'[i]]
  BY <1>1, <1>4, <1>4a, AnswerHasNoHoles
<1>6. CASE rows' = <<>>
  <2>1. Goto("backfill") /\ hold' = hold
    BY <1>6 DEF BackfillRequest
  <2>2. FeedInv'
    BY <2>1, GotoKeeps, <1>1 DEF FeedInv, Places
  <2>3. cfg' = cfg /\ ~Connected' /\ ~At("live", "row")'
    BY <2>1 DEF Goto, Connected, At
  <2>4. attempt' \in 0..MaxAttempts /\ fresh' \in BOOLEAN
    BY <1>1 DEF LiveInv, LiveTypes
  <2> QED
    BY <2>2, <2>3, <2>4, <1>1, <1>2, <1>6, IdleKeeps
<1>7. CASE rows' # <<>>
  <2>1. Goto("row") /\ hold' = RawTrade("aggtrade", Head(rows'), TRUE)
    BY <1>7 DEF BackfillRequest
  <2>2. rows'[1] \in Trades /\ Head(rows') = rows'[1]
    BY <1>7, <1>5
  <2>3. hold' \in LiveRecords /\ hold'.id = rows'[1] /\ hold'.first
    BY <2>1, <2>2 DEF RawTrade, LiveRecords
  <2>4. FeedInv'
    BY <2>1, <2>3, <1>1, Modes, GotoKeeps DEF FeedInv, Places
  <2>5. cfg' = cfg /\ ret' = "running" /\ at' = "row"
    BY <2>1, <1>1 DEF Goto
  <2>6. ~Connected' /\ ~At("live", "send")' /\ At("live", "row")'
    BY <2>5, <1>1 DEF Connected, At
  <2>7. LiveTypes' /\ OnTheWire' /\ Streamed'
    BY <2>6, <1>1, <1>2, <1>5 DEF LiveInv, LiveTypes, OnTheWire, Streamed
  <2>8. Rows'
    BY <2>6, <2>3, <1>5, <1>7 DEF Rows
  <2> QED
    BY <2>4, <2>7, <2>8 DEF LiveInv
<1> QED
  BY <1>6, <1>7

(* A row is sent; the next one follows it without a hole.                  *)
LEMMA SendRowKeeps ==
  ASSUME FeedInv, LiveInv, SendRow
  PROVE  FeedInv' /\ LiveInv' /\ last' = hold
<1>1. /\ cfg.mode = "live" /\ ret = "running" /\ at = "row"
      /\ rows' = Tail(rows)
      /\ UNCHANGED <<made, todo, wire, fresh, deaf, attempt>>
      /\ ~Connected /\ At("live", "row")
  BY DEF SendRow, At, sessionVars, Connected
<1>2. wire = <<>>
  BY <1>1 DEF LiveInv, OnTheWire
<1>3. rows \in Seq(Trades) /\ rows # <<>> /\ hold.id = rows[1]
  BY <1>1 DEF LiveInv, LiveTypes, Rows
<1>4. PICK n \in Nat \ {0} : n = Len(rows)
  BY <1>3
<1>5. rows' \in Seq(Trades) /\ Len(rows') = n - 1 /\ \A i \in 1..(n - 1) : rows'[i] = rows[i + 1]
  BY <1>1, <1>3, <1>4
<1>6. hold \in LiveRecords /\ Sending
  BY <1>1, Modes DEF FeedInv, Sending
<1>7. /\ \A i, j \in 1..n : i < j => rows[i] < rows[j]
      /\ \A i \in 1..(n - 1) : \A t \in Trades :
           rows[i] < t /\ t < rows[i + 1] => SymbolOf[t] # SymbolOf[rows[i]]
  BY <1>4 DEF LiveInv, Rows
<1>8. LiveTypes'
  BY <1>1, <1>5 DEF LiveInv, LiveTypes
<1>9. CASE rows' = <<>>
  <2>1. Send("backfill", Nothing)
    BY <1>9 DEF SendRow
  <2>2. FeedInv' /\ last' = hold
    BY <2>1, <1>6, SendKeeps DEF Places
  <2>3. cfg' = cfg /\ ~Connected' /\ ~At("live", "row")'
    BY <2>1 DEF Send, Connected, At
  <2>4. attempt' \in 0..MaxAttempts /\ fresh' \in BOOLEAN
    BY <1>1 DEF LiveInv, LiveTypes
  <2> QED
    BY <2>2, <2>3, <2>4, <1>1, <1>2, <1>9, IdleKeeps
<1>10. CASE rows' # <<>>
  <2> DEFINE next == RawTrade("aggtrade", Head(rows'), FALSE)
  <2>1. Send("row", next)
    BY <1>10 DEF SendRow
  <2>2. n > 1 /\ rows'[1] = rows[2] /\ Head(rows') = rows[2] /\ rows[2] \in Trades
    BY <1>10, <1>5, <1>4, <1>3
  <2>3. next \in LiveRecords /\ next.id = rows[2] /\ next.first = FALSE
    BY <2>2 DEF RawTrade, LiveRecords
  <2>4. next \in Carried
    BY <2>3, <1>1, Modes DEF FeedInv
  <2> HIDE DEF next
  <2>5. FeedInv' /\ last' = hold
    BY <2>1, <2>4, <1>6, SendKeeps DEF Places
  <2>6. cfg' = cfg /\ ret' = "running" /\ at' = "row" /\ hold' = next
    BY <2>1, <1>1 DEF Send
  <2>7. ~Connected' /\ ~At("live", "send")' /\ At("live", "row")'
    BY <2>6, <1>1 DEF Connected, At
  <2>8. OnTheWire' /\ Streamed'
    BY <2>7, <1>1, <1>2 DEF OnTheWire, Streamed
  <2>9. last'.id = rows[1] /\ last' \in LiveRecords
    BY <2>5, <1>3, <1>6
  <2>10. rows[1] < rows[2] /\ \A t \in Trades :
           rows[1] < t /\ t < rows[2] => SymbolOf[t] # SymbolOf[rows[1]]
    BY <1>7, <2>2
  <2>11. \A i, j \in 1..(n - 1) : i < j => rows'[i] < rows'[j]
    BY <1>5, <1>7
  <2>12. \A i \in 1..((n - 1) - 1) : \A t \in Trades :
           rows'[i] < t /\ t < rows'[i + 1] => SymbolOf[t] # SymbolOf[rows'[i]]
    <3> SUFFICES ASSUME NEW i \in 1..((n - 1) - 1)
                 PROVE  \A t \in Trades :
                   rows'[i] < t /\ t < rows'[i + 1] => SymbolOf[t] # SymbolOf[rows'[i]]
      OBVIOUS
    <3>1. rows'[i] = rows[i + 1] /\ rows'[i + 1] = rows[(i + 1) + 1] /\ i + 1 \in 1..(n - 1)
      BY <1>5
    <3> QED
      BY <3>1, <1>7
  <2>13. Rows'
    BY <2>2, <2>3, <2>6, <2>7, <2>9, <2>10, <2>11, <2>12, <1>5, <1>10 DEF Rows
  <2> QED
    BY <2>5, <2>8, <2>13, <1>8 DEF LiveInv
<1> QED
  BY <1>9, <1>10

(* A row that is not the first one follows the last one without a hole.    *)
LEMMA RowsHaveNoHoles ==
  ASSUME FeedInv, LiveInv, SendRow, ~last'.first
  PROVE  /\ last.id < last'.id
         /\ \A t \in (last.id + 1)..(last'.id - 1) :
              t \in Trades => SymbolOf[t] # SymbolOf[last.id]
<1>1. last' = hold /\ rows # <<>> /\ hold \in LiveRecords
  <2>1. At("live", "row") /\ Sending /\ cfg.mode = "live"
    BY DEF SendRow, At, Sending
  <2> QED
    BY <2>1, SendRowKeeps, Modes DEF LiveInv, Rows, FeedInv
<1>2. /\ last \in LiveRecords /\ last.id < hold.id
      /\ \A t \in Trades : last.id < t /\ t < hold.id => SymbolOf[t] # SymbolOf[last.id]
  BY <1>1 DEF LiveInv, Rows
<1>3. last.id \in Nat /\ hold.id \in Nat
  BY <1>1, <1>2, TapeFacts DEF LiveRecords
<1> QED
  BY <1>1, <1>2, <1>3

(* A session begins.                                                       *)
LEMMA DialKeeps ==
  ASSUME FeedInv, LiveInv, Dial
  PROVE  FeedInv' /\ LiveInv'
<1>1. /\ cfg.mode = "live" /\ ret = "running" /\ at = "dial"
      /\ fresh' = TRUE /\ Goto("read")
      /\ UNCHANGED <<hold, made, rows, attempt>>
  BY DEF Dial, At
<1>2. FeedInv'
  BY <1>1, GotoKeeps DEF FeedInv, Places
<1>3. /\ cfg' = cfg /\ ret' = "running" /\ at' = "read"
      /\ Connected' /\ ~At("live", "row")' /\ ~At("live", "send")'
  BY <1>1 DEF Goto, Connected, At
<1>4. rows = <<>> /\ rows' = <<>>
  BY <1>1 DEF LiveInv, Rows, At
<1>5. made \in Nat /\ (wire' = <<>> \/ (wire' = <<made>> /\ made \in Trades))
  BY TapeFacts DEF LiveInv, LiveTypes, Dial
<1>6. wire' \in Seq(Nat) /\ Len(wire') <= made /\ \A i \in 1..Len(wire') : wire'[i] = made - Len(wire') + i
  <2>1. CASE wire' = <<>>
    BY <2>1, <1>5
  <2>2. CASE wire' = <<made>> /\ made \in Trades
    <3>1. made >= 1 /\ made \in Nat
      BY <2>2, TapeFacts
    <3>2. wire' \in Seq(Nat) /\ Len(wire') = 1 /\ wire'[1] = made
      BY <2>2, <3>1
    <3> QED
      BY <3>1, <3>2
  <2> QED
    BY <1>5, <2>1, <2>2
<1>7. LiveTypes'
  BY <1>1, <1>4, <1>6 DEF LiveInv, LiveTypes
<1>8. OnTheWire'
  BY <1>1, <1>3, <1>6 DEF OnTheWire, Last
<1>9. Rows'
  BY <1>3, <1>4 DEF Rows
<1>10. Streamed'
  BY <1>1, <1>3 DEF Streamed
<1> QED
  BY <1>2, <1>7, <1>8, <1>9, <1>10 DEF LiveInv

(* A session ends, is not begun, or is over for good.                      *)
LEMMA DisconnectKeeps ==
  ASSUME FeedInv, LiveInv,
         DialError \/ ReadError \/ SendCancelled \/ Wake \/ SleepCancelled \/ LiveGivesUp
  PROVE  FeedInv' /\ LiveInv'
<1>1. /\ cfg.mode = "live" /\ ret = "running" /\ at \in {"dial", "read", "send", "sleep"}
      /\ UNCHANGED <<hold, made, rows>>
      /\ \/ Goto("sleep") \/ Goto("dial") \/ Return("cancelled") \/ Return("error")
  BY DEF DialError, ReadError, SendCancelled, Wake, SleepCancelled, LiveGivesUp, At, Disconnect, GiveUp, liveVars
<1>2. FeedInv'
  <2>1. CASE Goto("sleep")
    BY <2>1, <1>1, GotoKeeps DEF FeedInv, Places
  <2>2. CASE Goto("dial")
    BY <2>2, <1>1, GotoKeeps DEF FeedInv, Places
  <2>3. CASE Return("cancelled")
    BY <2>3, <1>1, ReturnKeeps
  <2>4. CASE Return("error")
    BY <2>4, <1>1, ReturnKeeps
  <2> QED
    BY <1>1, <2>1, <2>2, <2>3, <2>4
<1>3. cfg' = cfg /\ ~Connected' /\ ~At("live", "row")'
  BY <1>1 DEF Goto, Return, Connected, At
<1>4. rows' = <<>>
  BY <1>1 DEF LiveInv, Rows, At
<1>5. wire' = <<>> /\ fresh' \in BOOLEAN
  BY DEF DialError, ReadError, SendCancelled, Wake, SleepCancelled, LiveGivesUp, At,
         Disconnect, Close, liveVars, sessionVars, LiveInv, OnTheWire, LiveTypes, Connected
<1>6. attempt' \in 0..MaxAttempts
  BY AttemptsCount DEF DialError, ReadError, SendCancelled, Wake, SleepCancelled, LiveGivesUp,
         Disconnect, liveVars, LiveInv, LiveTypes
<1> QED
  BY <1>1, <1>2, <1>3, <1>4, <1>5, <1>6, IdleKeeps

(* A frame is read: it is sent on when it can be decoded.                  *)
LEMMA ReadFrameKeeps ==
  ASSUME FeedInv, LiveInv, ReadFrame
  PROVE  FeedInv' /\ LiveInv'
<1>1. /\ cfg.mode = "live" /\ ret = "running" /\ at = "read"
      /\ wire # <<>> /\ wire' = Tail(wire)
      /\ UNCHANGED <<made, todo, rows, fresh, deaf, attempt>>
      /\ Connected /\ ~At("live", "row")
  BY DEF ReadFrame, At, Connected
<1>2. rows = <<>> /\ rows' = <<>>
  BY <1>1 DEF LiveInv, Rows
<1>3. wire \in Seq(Nat) /\ Len(wire) <= made /\ made \in Nat
      /\ \A i \in 1..Len(wire) : wire[i] = Last + i
  BY TapeFacts DEF LiveInv, LiveTypes, OnTheWire
<1>4. PICK n \in Nat \ {0} : n = Len(wire)
  BY <1>1, <1>3
<1>5. wire' \in Seq(Nat) /\ Len(wire') = n - 1 /\ \A i \in 1..(n - 1) : wire'[i] = wire[i + 1]
  BY <1>1, <1>3, <1>4
<1>6. Last = made - n /\ Last' = made - (n - 1) /\ Last' = Last + 1 /\ Last \in Nat
  BY <1>1, <1>3, <1>4, <1>5 DEF Last
<1>7. Head(wire) = Last'
  BY <1>3, <1>4, <1>6
<1>8. LiveTypes'
  BY <1>1, <1>2, <1>3, <1>4, <1>5 DEF LiveInv, LiveTypes
<1>9. \A i \in 1..Len(wire') : wire'[i] = Last' + i
  BY <1>3, <1>4, <1>5, <1>6
<1>10. ~fresh => /\ last \in LiveRecords /\ last.id <= Last /\ last.id \in Nat
                 /\ \A t \in (last.id + 1)..Last : ~Decodes(t)
  BY <1>1, TapeFacts DEF LiveInv, Streamed, LiveRecords
<1>11. /\ cfg' = cfg /\ ret' = "running" /\ UNCHANGED <<out, last>>
       /\ at' \in {"read", "send"}
  BY <1>1 DEF ReadFrame, Goto
<1>12. Connected' /\ ~At("live", "row")'
  BY <1>1, <1>11 DEF Connected, At
<1>13. OnTheWire' /\ Rows'
  BY <1>2, <1>9, <1>12 DEF OnTheWire, Rows
<1>14. CASE Decodes(Head(wire))
  <2>1. Goto("send") /\ hold' = RawTrade(cfg.kind, Head(wire), fresh)
    BY <1>14 DEF ReadFrame
  <2>2. cfg.kind \in {"aggtrade", "trade"} /\ fresh \in BOOLEAN
    BY <1>1, FeedsAssumption DEF FeedsAssumption, FeedInv, LiveInv, LiveTypes
  <2>3. hold' \in LiveRecords /\ hold'.id = Last' /\ hold'.first = fresh
    BY <2>1, <2>2, <1>14, <1>7 DEF RawTrade, LiveRecords, Decodes
  <2>4. FeedInv'
    BY <2>1, <2>3, <1>1, Modes, GotoKeeps DEF FeedInv, Places
  <2>5. at' = "send"
    BY <2>1 DEF Goto
  <2>6. ~fresh' => last' \in LiveRecords /\ last'.id < Last'
    BY <1>1, <1>6, <1>10, <1>11
  <2>7. ~fresh' => \A t \in (last'.id + 1)..Last' : Decodes(t)' => t = Last'
    BY <1>1, <1>6, <1>10, <1>11 DEF Decodes
  <2>8. Streamed'
    BY <2>3, <2>5, <2>6, <2>7, <1>1 DEF Streamed, At
  <2> QED
    BY <2>4, <2>8, <1>8, <1>13 DEF LiveInv
<1>15. CASE ~Decodes(Head(wire))
  <2>1. Goto("read") /\ hold' = hold
    BY <1>15 DEF ReadFrame
  <2>2. FeedInv'
    BY <2>1, <1>1, GotoKeeps DEF FeedInv, Places
  <2>3. at' = "read"
    BY <2>1 DEF Goto
  <2>4. ~fresh' => last' \in LiveRecords /\ last'.id <= Last'
    BY <1>1, <1>6, <1>10, <1>11
  <2>5. ~fresh' => \A t \in (last'.id + 1)..Last' : ~Decodes(t)'
    BY <1>1, <1>6, <1>7, <1>10, <1>11, <1>15 DEF Decodes
  <2>6. Streamed'
    BY <2>3, <2>4, <2>5 DEF Streamed, At
  <2> QED
    BY <2>2, <2>6, <1>8, <1>13 DEF LiveInv
<1> QED
  BY <1>14, <1>15

(* A frame is sent on.                                                     *)
LEMMA SendFrameKeeps ==
  ASSUME FeedInv, LiveInv, SendFrame
  PROVE  FeedInv' /\ LiveInv' /\ last' = hold
<1>1. /\ cfg.mode = "live" /\ ret = "running" /\ at = "send"
      /\ fresh' = FALSE /\ Send("read", Nothing)
      /\ UNCHANGED <<made, todo, rows, wire, deaf, attempt>>
      /\ At("live", "send") /\ ~At("live", "row")
  BY DEF SendFrame, At
<1>2. FeedInv' /\ last' = hold
  BY <1>1, SendKeeps DEF Places, Sending
<1>3. hold \in LiveRecords /\ hold.id = Last
  BY <1>1, Modes DEF FeedInv, Sending, LiveInv, Streamed
<1>4. /\ cfg' = cfg /\ ret' = "running" /\ at' = "read"
      /\ Connected' /\ ~At("live", "row")' /\ ~At("live", "send")'
  BY <1>1 DEF Send, Connected, At
<1>5. LiveTypes'
  BY <1>1 DEF LiveInv, LiveTypes
<1>6. OnTheWire'
  BY <1>1, <1>4 DEF LiveInv, OnTheWire, Last
<1>7. Rows'
  BY <1>1, <1>4 DEF LiveInv, Rows
<1>8. Last' = Last /\ Last \in Nat
  BY <1>1, TapeFacts DEF Last, LiveInv, LiveTypes
<1>9. Streamed'
  BY <1>2, <1>3, <1>4, <1>8 DEF Streamed
<1> QED
  BY <1>2, <1>5, <1>6, <1>7, <1>9 DEF LiveInv

(* A frame that is not the first of its session follows the last one but   *)
(* for frames that could not be decoded.                                   *)
LEMMA FramesHaveNoHoles ==
  ASSUME FeedInv, LiveInv, SendFrame, ~last'.first
  PROVE  /\ last.id < last'.id
         /\ \A t \in (last.id + 1)..(last'.id - 1) : ~Decodes(t)
<1>1. At("live", "send") /\ Connected /\ at = "send"
  BY DEF SendFrame, At, Connected
<1>2. last' = hold /\ hold.id = Last /\ ~fresh
  BY <1>1, SendFrameKeeps DEF LiveInv, Streamed
<1>3. /\ last \in LiveRecords /\ last.id < Last
      /\ \A t \in (last.id + 1)..Last : Decodes(t) => t = Last
  BY <1>1, <1>2 DEF LiveInv, Streamed
<1>4. last.id \in Nat /\ Last \in Int
  <2>1. made \in Nat /\ wire \in Seq(Nat)
    BY TapeFacts DEF LiveInv, LiveTypes
  <2>2. Last \in Int
    BY <2>1 DEF Last
  <2>3. last.id \in Nat
    BY <1>3, TapeFacts DEF LiveRecords
  <2> QED
    BY <2>2, <2>3
<1> QED
  BY <1>2, <1>3, <1>4

(* The keepalive changes nothing of what was sent or is on its way.        *)
LEMMA PingKeeps ==
  ASSUME FeedInv, LiveInv, PingFails
  PROVE  FeedInv' /\ LiveInv'
<1>1. UNCHANGED <<made, todo, rows, wire, fresh, attempt, cfg, cancelled, at, ret, hold, out, last>>
  BY DEF PingFails
<1>2. FeedInv'
  BY <1>1, OthersKeep DEF FeedInv
<1> QED
  BY <1>1, <1>2 DEF LiveInv, LiveTypes, OnTheWire, Rows, Streamed, Connected, At, Last, Decodes

(* Every step of the live feed keeps the invariants.                       *)
LEMMA LiveStepKeeps ==
  ASSUME FeedInv, LiveInv, LiveStep
  PROVE  FeedInv' /\ LiveInv'
BY BackfillKeeps, RequestKeeps, SendRowKeeps, DialKeeps, DisconnectKeeps, ReadFrameKeeps, SendFrameKeeps
   DEF LiveStep

-----------------------------------------------------------------------------
(* The simulator.                                                          *)

SynTypes ==
  /\ nextAt \in [Symbols -> Nat] /\ burstEnd \in [Symbols -> Nat] /\ nextBurst \in [Symbols -> Nat]
  /\ chosen \in Symbols

(* No print is due later than the longest gap from now, and the one that   *)
(* Run waits for is the first.                                             *)
Due ==
  /\ \A s \in Symbols : nextAt[s] <= now + MaxGap
  /\ At("synthetic", "wait") => \A s \in Symbols : nextAt[chosen] <= nextAt[s]

(* A burst that has shown no toxic print and was not held up is not over,  *)
(* and the next print of its symbol comes before its end.                  *)
ToCome ==
  cfg.mode = "synthetic" /\ cfg.burstDuration > MaxGap =>
    /\ \A s \in Symbols \ (shown \cup delayed) :
         burstEnd[s] # 0 => Bursts /\ now < burstEnd[s] /\ nextAt[s] < burstEnd[s]
    /\ \A s \in Symbols : burstEnd[s] # 0 => Bursts
    /\ ~unseen

SynInv == SynTypes /\ Due /\ ToCome

(* The simulated symbols are those of the configuration.                   *)
LEMMA SymbolFacts ==
  /\ Simulated[1] \in Symbols
  /\ \A i \in DOMAIN Simulated : Simulated[i] \in Symbols
  /\ \A s \in Symbols : \E i \in DOMAIN Simulated : s = Simulated[i]
  /\ MaxGap \in Nat \ {0} /\ MaxBehind \in Nat
<1>1. /\ Simulated \in Seq(Range(Simulated)) /\ Simulated # <<>>
      /\ MaxGap \in Nat \ {0} /\ MaxBehind \in Nat
  BY SyntheticAssumption DEF SyntheticAssumption
<1>2. \A i \in DOMAIN Simulated : Simulated[i] \in Symbols
  BY DEF Symbols, Range
<1>3. \A s \in Symbols : \E i \in DOMAIN Simulated : s = Simulated[i]
  BY DEF Symbols, Range
<1>4. 1 \in DOMAIN Simulated
  BY <1>1
<1> QED
  BY <1>1, <1>2, <1>3, <1>4

(* The durations of a simulated configuration are numbers.                 *)
LEMMA Durations ==
  ASSUME cfg \in Configs, cfg.mode = "synthetic"
  PROVE  cfg.burstEvery \in Nat /\ cfg.burstDuration \in Nat /\ cfg.duration \in Nat
BY SyntheticAssumption DEF SyntheticAssumption

(* The simulator starts with every symbol due and no burst.                *)
LEMMA SynInitKeeps == FeedInit /\ SynInit /\ DedupInit => SynInv
<1> SUFFICES ASSUME FeedInit, SynInit, DedupInit PROVE SynInv
  OBVIOUS
<1>1. cfg \in Configs /\ now = 0
  BY DEF FeedInit, DedupInit
<1>2. nextBurst \in [Symbols -> Nat]
  BY <1>1, Durations DEF SynInit
<1>3. SynTypes
  BY <1>2, SymbolFacts DEF SynInit, SynTypes
<1>4. Due
  BY <1>1, <1>3, SymbolFacts DEF Due, SynInit, SynTypes
<1>5. ToCome
  BY DEF ToCome, SynInit
<1> QED
  BY <1>3, <1>4, <1>5 DEF SynInv

(* Steps of Run that make no print leave the schedule and the bursts be.   *)
LEMMA SynWaitKeeps ==
  ASSUME FeedInv, SynInv, now \in Nat,
         Pick \/ WaitCancelled \/ SendPrint \/ PrintCancelled, now' = now
  PROVE  FeedInv' /\ SynInv'
<1>1. /\ cfg.mode = "synthetic" /\ ret = "running" /\ cfg' = cfg
      /\ UNCHANGED <<nextAt, burstVars>>
  BY DEF Pick, WaitCancelled, SendPrint, PrintCancelled, At, Return, Goto, Send, GiveUp, synVars
<1>2. FeedInv'
  <2>1. CASE Pick
    <3>1. hold' = hold
      BY <2>1 DEF Pick
    <3>2. Return("cancelled") \/ Return("nil") \/ Goto("wait")
      BY <2>1 DEF Pick
    <3> QED
      BY <3>1, <3>2, <1>1, GotoKeeps, ReturnKeeps DEF FeedInv, Places
  <2>2. CASE WaitCancelled \/ PrintCancelled
    BY <2>2, ReturnKeeps DEF WaitCancelled, PrintCancelled, GiveUp
  <2>3. CASE SendPrint
    BY <2>3, SendKeeps DEF SendPrint, Sending, At, Places
  <2> QED
    BY <2>1, <2>2, <2>3
<1>3. SynTypes' /\ Due'
  <2>1. CASE Pick /\ Goto("wait")
    <3>1. PICK i \in DOMAIN Simulated : Soonest(i) /\ chosen' = Simulated[i]
      BY <2>1 DEF Pick, Goto, Return, At
    <3>2. SynTypes'
      BY <3>1, <1>1, SymbolFacts DEF SynInv, SynTypes, burstVars
    <3>3. \A s \in Symbols : nextAt[chosen'] <= nextAt[s]
      <4> SUFFICES ASSUME NEW s \in Symbols PROVE nextAt[chosen'] <= nextAt[s]
        OBVIOUS
      <4>1. PICK j \in DOMAIN Simulated : s = Simulated[j]
        BY SymbolFacts
      <4>2. nextAt[Simulated[i]] \in Nat /\ nextAt[Simulated[j]] \in Nat
        BY SymbolFacts DEF SynInv, SynTypes
      <4> QED
        BY <3>1, <4>1, <4>2 DEF Soonest
    <3> QED
      BY <3>2, <3>3, <1>1 DEF SynInv, Due
  <2>2. CASE chosen' = chosen /\ ~At("synthetic", "wait")'
    BY <2>2, <1>1 DEF SynInv, SynTypes, Due, burstVars
  <2>3. CASE Pick /\ ~Goto("wait")
    BY <2>3, <2>2 DEF Pick, Return, At
  <2>4. CASE WaitCancelled \/ PrintCancelled \/ SendPrint
    BY <2>4, <2>2 DEF WaitCancelled, PrintCancelled, SendPrint, GiveUp, Return, Send, At, synVars
  <2> QED
    BY <2>1, <2>3, <2>4
<1>4. ToCome'
  BY <1>1 DEF SynInv, ToCome, burstVars, Bursts
<1> QED
  BY <1>2, <1>3, <1>4 DEF SynInv

(* The next print of the symbol is due soon, whatever the gap.             *)
LEMMA NextIsSoon ==
  ASSUME SynInv, now \in Nat, now >= nextAt[chosen], NEW gap \in Gaps
  PROVE  LET due == nextAt[chosen] + gap
             next == IF due < now - MaxBehind THEN now ELSE due
         IN  next \in Nat /\ next <= now + MaxGap
<1>1. nextAt[chosen] \in Nat /\ gap \in Nat /\ gap <= MaxGap
  BY SymbolFacts DEF SynInv, SynTypes, Gaps
<1> QED
  BY <1>1, SymbolFacts

(* A print is made: a burst begins, shows, or is over.                     *)
LEMMA MakePrintKeeps ==
  ASSUME FeedInv, SynInv, now \in Nat, MakePrint, now' = now
  PROVE  FeedInv' /\ SynInv'
<1>1. /\ cfg.mode = "synthetic" /\ ret = "running" /\ at = "wait"
      /\ now >= nextAt[chosen] /\ UpdateBurst(chosen)
      /\ Goto("print") /\ chosen' = chosen /\ cfg' = cfg
  BY DEF MakePrint, At, Goto
<1>2. chosen \in Symbols
  BY DEF SynInv, SynTypes
<1>3. FeedInv'
  <2>1. hold' \in SynRecords
    BY <1>2 DEF MakePrint, SynRecords, Bursting, Bursts
  <2> QED
    BY <1>1, <2>1, Modes, GotoKeeps DEF FeedInv, Places
<1>4. PICK next \in Nat :
        /\ next <= now + MaxGap
        /\ nextAt' = [nextAt EXCEPT ![chosen] = next]
  <2>1. PICK gap \in Gaps :
          LET due == nextAt[chosen] + gap
          IN  nextAt' = [nextAt EXCEPT ![chosen] = IF due < now - MaxBehind THEN now ELSE due]
    BY DEF MakePrint
  <2> QED
    BY <1>1, <2>1, NextIsSoon
<1>5. nextAt' \in [Symbols -> Nat]
      /\ \A s \in Symbols : nextAt'[s] = IF s = chosen THEN next ELSE nextAt[s]
  BY <1>2, <1>4 DEF SynInv, SynTypes
<1>6. cfg.burstEvery \in Nat /\ cfg.burstDuration \in Nat
  BY Durations DEF FeedInv, MakePrint, At
<1> DEFINE begins == Bursts /\ burstEnd[chosen] = 0 /\ now >= nextBurst[chosen]
           ends   == Bursts /\ burstEnd[chosen] # 0 /\ now >= burstEnd[chosen]
<1>7. /\ burstEnd' = IF begins THEN [burstEnd EXCEPT ![chosen] = now + cfg.burstDuration]
                     ELSE IF ends THEN [burstEnd EXCEPT ![chosen] = 0] ELSE burstEnd
      /\ nextBurst' = IF ends THEN [nextBurst EXCEPT ![chosen] = now + cfg.burstEvery]
                      ELSE nextBurst
      /\ shown' = IF begins THEN shown \ {chosen}
                  ELSE IF Bursting(chosen) THEN shown \cup {chosen} ELSE shown
      /\ delayed' = IF begins THEN delayed \ {chosen} ELSE delayed
      /\ unseen' = (unseen \/ (ends /\ chosen \notin shown \cup delayed))
  BY <1>1 DEF UpdateBurst
<1> HIDE DEF begins, ends
<1>8. SynTypes'
  <2>1. burstEnd' \in [Symbols -> Nat] /\ nextBurst' \in [Symbols -> Nat]
    BY <1>2, <1>6, <1>7 DEF SynInv, SynTypes
  <2> QED
    BY <2>1, <1>1, <1>5 DEF SynInv, SynTypes
<1>9. Due'
  <2>1. \A s \in Symbols : nextAt'[s] <= now + MaxGap
    BY <1>4, <1>5 DEF SynInv, Due
  <2>2. ~At("synthetic", "wait")'
    BY <1>1 DEF Goto, At
  <2> QED
    BY <2>1, <2>2 DEF Due
<1>10. ASSUME cfg.burstDuration > MaxGap
       PROVE  /\ \A s \in Symbols \ (shown' \cup delayed') :
                   burstEnd'[s] # 0 => Bursts /\ now < burstEnd'[s] /\ nextAt'[s] < burstEnd'[s]
              /\ \A s \in Symbols : burstEnd'[s] # 0 => Bursts
              /\ ~unseen'
  <2>1. /\ \A s \in Symbols \ (shown \cup delayed) :
             burstEnd[s] # 0 => Bursts /\ now < burstEnd[s] /\ nextAt[s] < burstEnd[s]
        /\ \A s \in Symbols : burstEnd[s] # 0 => Bursts
        /\ ~unseen
    BY <1>1, <1>10 DEF SynInv, ToCome
  <2>2. burstEnd \in [Symbols -> Nat]
    BY DEF SynInv, SynTypes
  <2>3. ~(ends /\ chosen \notin shown \cup delayed)
    BY <1>2, <2>1, <2>2 DEF ends
  <2>4. ~unseen'
    BY <1>7, <2>1, <2>3
  <2>5. \A s \in Symbols \ {chosen} :
          /\ burstEnd'[s] = burstEnd[s] /\ nextAt'[s] = nextAt[s]
          /\ s \notin shown' \cup delayed' => s \notin shown \cup delayed
    BY <1>5, <1>7, <2>2
  <2>6. CASE begins
    <3>1. burstEnd'[chosen] = now + cfg.burstDuration /\ Bursts
      BY <2>6, <1>2, <1>7, <2>2 DEF begins
    <3>2. now < burstEnd'[chosen] /\ nextAt'[chosen] < burstEnd'[chosen]
      BY <3>1, <1>2, <1>4, <1>5, <1>6, <1>10, SymbolFacts
    <3> QED
      BY <3>1, <3>2, <2>1, <2>4, <2>5
  <2>7. CASE ends /\ ~begins
    <3>1. burstEnd'[chosen] = 0
      BY <2>7, <1>2, <1>7, <2>2
    <3> QED
      BY <3>1, <2>1, <2>4, <2>5
  <2>8. CASE ~ends /\ ~begins
    <3>1. burstEnd' = burstEnd
      BY <2>8, <1>7
    <3>2. burstEnd[chosen] # 0 => Bursting(chosen)
      BY <2>8, <2>1, <2>2, <1>2 DEF Bursting, ends
    <3>3. burstEnd[chosen] # 0 => chosen \in shown'
      BY <2>8, <3>2, <1>7
    <3> QED
      BY <3>1, <3>3, <2>1, <2>4, <2>5
  <2> QED
    BY <2>6, <2>7, <2>8
<1>11. ToCome'
  BY <1>1, <1>10 DEF ToCome, Bursts
<1> QED
  BY <1>3, <1>8, <1>9, <1>11 DEF SynInv

(* Every step of the simulator keeps the invariants.                       *)
LEMMA SynStepKeeps ==
  ASSUME FeedInv, SynInv, now \in Nat, SynStep, now' = now
  PROVE  FeedInv' /\ SynInv'
BY SynWaitKeeps, MakePrintKeeps DEF SynStep

(* Time passes: a feed that is not held up waits for a print that comes    *)
(* before the end of every burst still to be shown.                        *)
LEMMA SynTickKeeps ==
  ASSUME FeedInv, SynInv, now \in Nat, now' = now + 1, UNCHANGED feedVars,
         IF cfg.mode = "synthetic" THEN SynTick ELSE UNCHANGED synVars
  PROVE  SynInv'
<1>1. UNCHANGED <<cfg, at, ret, nextAt, chosen, burstEnd, nextBurst, shown, unseen>>
  BY DEF feedVars, SynTick, synVars, burstVars
<1>2. SynTypes'
  BY <1>1 DEF SynInv, SynTypes
<1>3. Due'
  BY <1>1, SymbolFacts DEF SynInv, SynTypes, Due, At
<1>4. ASSUME cfg.mode = "synthetic", cfg.burstDuration > MaxGap
      PROVE  /\ \A s \in Symbols \ (shown \cup delayed') :
                  burstEnd[s] # 0 => Bursts /\ now + 1 < burstEnd[s] /\ nextAt[s] < burstEnd[s]
             /\ \A s \in Symbols : burstEnd[s] # 0 => Bursts
             /\ ~unseen
  <2>1. /\ \A s \in Symbols \ (shown \cup delayed) :
             burstEnd[s] # 0 => Bursts /\ now < burstEnd[s] /\ nextAt[s] < burstEnd[s]
        /\ \A s \in Symbols : burstEnd[s] # 0 => Bursts
        /\ ~unseen
    BY <1>4 DEF SynInv, ToCome
  <2>2. delayed' = IF HeldUp THEN Symbols ELSE delayed
    BY <1>4 DEF SynTick
  <2>3. CASE HeldUp
    BY <2>1, <2>2, <2>3
  <2>4. CASE ~HeldUp
    <3>1. now < nextAt[chosen] /\ \A s \in Symbols : nextAt[chosen] <= nextAt[s]
      BY <2>4 DEF HeldUp, SynInv, Due
    <3>2. /\ nextAt[chosen] \in Nat /\ \A s \in Symbols : nextAt[s] \in Nat /\ burstEnd[s] \in Nat
      BY DEF SynInv, SynTypes
    <3>3. \A s \in Symbols : nextAt[s] < burstEnd[s] => now + 1 < burstEnd[s]
      BY <3>1, <3>2
    <3> QED
      BY <2>1, <2>2, <2>4, <3>3
  <2> QED
    BY <2>3, <2>4
<1>5. ToCome'
  BY <1>1, <1>4 DEF ToCome, Bursts
<1> QED
  BY <1>2, <1>3, <1>5 DEF SynInv

(* Nothing of a simulator changes in the other modes, nor by steps outside *)
(* of it.                                                                  *)
LEMMA SynUntouched ==
  ASSUME FeedInv, SynInv, UNCHANGED <<cfg, now, synVars>>,
         cfg.mode # "synthetic" \/ UNCHANGED <<at, ret>>
  PROVE  SynInv'
BY DEF SynInv, SynTypes, Due, ToCome, At, Bursts, synVars, burstVars

-----------------------------------------------------------------------------
(* The replay of a file.                                                   *)

CSVTypes ==
  /\ line \in Nat \ {0} /\ emitted \in Nat /\ total \in Nat
  /\ broken \in BOOLEAN /\ replayed \in Seq(Nat)
  /\ ~broken => lineNo = line - 1

(* The wanted rows before line l.                                          *)
Before(l) == {i \in Wanted : i < l}

(* The next line that is not yet sent.                                     *)
Reached == IF at = "emit" THEN line - 1 ELSE line

Replaying == At("csv", "row") \/ At("csv", "emit")
Between == At("csv", "pass") \/ At("csv", "pause")

(* What was sent is counted, and stays within MaxRows.                     *)
Counted ==
  /\ Replaying => /\ emitted = Cardinality(Before(Reached))
                  /\ Len(replayed) = total + emitted
  /\ Between => Len(replayed) = total
  /\ cfg.maxRows > 0 => /\ Len(replayed) <= cfg.maxRows
                        /\ At("csv", "emit") => Len(replayed) < cfg.maxRows
  /\ At("csv", "emit") => line - 1 \in Wanted /\ hold = Trade(line - 1)
  /\ ~cfg.loop => ~At("csv", "pause") /\ (Between \/ Replaying => total = 0)

(* The last row sent is the last wanted one before the line reached, or    *)
(* the last of all when the pass has sent none.                            *)
InOrder ==
  replayed # <<>> =>
    LET final == replayed[Len(replayed)]
    IN  /\ Replaying => \A k \in Wanted :
             IF Before(Reached) = {} THEN k <= final
             ELSE final < Reached /\ (k < Reached => k <= final)
        /\ Between /\ ~Exceeded => \A k \in Wanted : k <= final

(* The rows come in the order of the file, pass after pass.                *)
Ordered ==
  \A n \in 1..Len(replayed) :
    /\ replayed[n] \in Wanted
    /\ IF n = 1 THEN \A k \in Wanted : replayed[n] <= k
       ELSE Follows(replayed[n - 1], replayed[n])

(* A replay that is over has sent all it was to send.                      *)
Complete ==
  ret = "nil" => Len(replayed) =
    IF cfg.maxRows > 0 /\ (cfg.loop \/ cfg.maxRows < Cardinality(Wanted))
    THEN cfg.maxRows ELSE Cardinality(Wanted)

Replay == Counted /\ InOrder /\ Ordered /\ Complete

CSVInv ==
  /\ CSVTypes
  /\ cfg.mode = "csv" /\ Lines # <<>> /\ Described => Replay

(* The wanted rows are finitely many lines of the file.                    *)
LEMMA WantedFacts ==
  ASSUME cfg \in Configs, cfg.mode = "csv"
  PROVE  /\ Len(Lines) \in Nat
         /\ Wanted \subseteq 1..Len(Lines)
         /\ cfg.startRow \in Nat /\ cfg.maxRows \in Nat
         /\ cfg.loop \in BOOLEAN /\ cfg.header \in BOOLEAN
         /\ IsFiniteSet(Wanted) /\ Cardinality(Wanted) \in Nat
<1>1. /\ cfg.header \in BOOLEAN /\ cfg.loop \in BOOLEAN
      /\ cfg.rows \in Seq({"ok", "bad"})
      /\ cfg.startRow \in Nat /\ cfg.maxRows \in Nat
  BY CSVAssumption DEF CSVAssumption
<1>2. Len(cfg.rows) \in Nat
  BY <1>1
<1>3. Len(Lines) \in Nat
  <2>1. CASE cfg.header
    <3>1. Len(<<"header">> \o cfg.rows) = 1 + Len(cfg.rows)
      BY <1>1
    <3> QED
      BY <2>1, <3>1, <1>2 DEF Lines
  <2>2. CASE ~cfg.header
    <3>1. Len(<<>> \o cfg.rows) = Len(cfg.rows)
      BY <1>1
    <3> QED
      BY <2>2, <3>1, <1>2 DEF Lines
  <2> QED
    BY <2>1, <2>2
<1>4. Wanted \subseteq 1..Len(Lines)
  BY DEF Wanted
<1>5. IsFiniteSet(1..Len(Lines))
  BY <1>3, FS_Interval
<1>6. IsFiniteSet(Wanted) /\ Cardinality(Wanted) \in Nat
  BY <1>4, <1>5, FS_Subset, FS_CardinalityType
<1> QED
  BY <1>1, <1>3, <1>4, <1>6

(* Counting the wanted rows up to a line.                                  *)
LEMMA BeforeFacts ==
  ASSUME cfg \in Configs, cfg.mode = "csv", NEW l \in Nat
  PROVE  /\ IsFiniteSet(Before(l)) /\ Cardinality(Before(l)) \in Nat
         /\ Cardinality(Before(l)) <= Cardinality(Wanted)
         /\ Cardinality(Before(l)) = 0 => Before(l) = {}
         /\ l > Len(Lines) => Before(l) = Wanted
         /\ l \in Wanted => Cardinality(Before(l + 1)) = Cardinality(Before(l)) + 1
         /\ l \notin Wanted => Before(l + 1) = Before(l)
<1>1. /\ Wanted \subseteq 1..Len(Lines) /\ Len(Lines) \in Nat
      /\ IsFiniteSet(Wanted) /\ Cardinality(Wanted) \in Nat
  BY WantedFacts
<1>1a. \A k \in Wanted : k \in Nat /\ k <= Len(Lines)
  BY <1>1
<1>2. /\ Before(l) \subseteq Wanted /\ Before(l + 1) \subseteq Wanted
      /\ \A k \in Wanted : k \in Before(l) <=> k < l
      /\ \A k \in Wanted : k \in Before(l + 1) <=> k < l + 1
  BY DEF Before
<1>3. /\ IsFiniteSet(Before(l)) /\ Cardinality(Before(l)) <= Cardinality(Wanted)
      /\ Cardinality(Before(l)) \in Nat
  BY <1>1, <1>2, FS_Subset, FS_CardinalityType
<1>4. Cardinality(Before(l)) = 0 => Before(l) = {}
  BY <1>3, FS_EmptySet
<1>4a. \A k \in Wanted : k < l + 1 <=> (k < l \/ k = l)
  BY <1>1a
<1>5. ASSUME l > Len(Lines) PROVE Before(l) = Wanted
  <2>1. \A k \in Wanted : k < l
    BY <1>1, <1>1a, <1>5
  <2> QED
    BY <2>1, <1>2
<1>6. ASSUME l \in Wanted PROVE Cardinality(Before(l + 1)) = Cardinality(Before(l)) + 1
  <2>1. Before(l + 1) = Before(l) \cup {l}
    BY <1>2, <1>4a, <1>6
  <2>2. ~(l < l)
    OBVIOUS
  <2>3. l \notin Before(l)
    BY <2>2, <1>2, <1>6
  <2> QED
    BY <2>1, <2>3, <1>3, FS_AddElement
<1>7. ASSUME l \notin Wanted PROVE Before(l + 1) = Before(l)
  BY <1>2, <1>4a, <1>7
<1> QED
  BY <1>3, <1>4, <1>5, <1>6, <1>7

(* Of a file that is as described the rows that parse are the good ones,   *)
(* and a header that is skipped is not one of them.                        *)
LEMMA RowsParse ==
  ASSUME cfg \in Configs, cfg.mode = "csv", Lines # <<>>, Described
  PROVE  /\ \A i \in 1..Len(Lines) : Parses(i) <=> Lines[i] = "ok"
         /\ \A i \in 1..Len(Lines) : Trade(i).time = "time" /\ Trade(i).maker = "maker"
         /\ HasHeader => 1 \notin Wanted
<1>layouts. /\ Len(OldTrades) = 6 /\ OldTrades[4] = "time" /\ OldTrades[5] = "maker"
      /\ Len(QuotedTrades) = 7 /\ QuotedTrades[5] = "time" /\ QuotedTrades[6] = "maker"
  BY DEF OldTrades, QuotedTrades
<1>either. ~HasHeader => cfg.columns = OldTrades \/ cfg.columns = QuotedTrades
  BY DEF Described
<1>1. ~HasHeader => Len(cfg.columns) >= 6
  <2>1. CASE cfg.columns = OldTrades
    BY <2>1, <1>layouts
  <2>2. CASE cfg.columns = QuotedTrades
    BY <2>2, <1>layouts
  <2> QED
    BY <1>either, <2>1, <2>2
<1>2. \A i \in 1..Len(Lines) : Parses(i) <=> Lines[i] = "ok"
  BY <1>1 DEF Parses, Described
<1>3. ~HasHeader => Positional.time = "time" /\ Positional.maker = "maker"
  <2>1. CASE cfg.columns = OldTrades
    BY <2>1, <1>layouts DEF Positional
  <2>2. CASE cfg.columns = QuotedTrades
    BY <2>2, <1>layouts DEF Positional
  <2> QED
    BY <1>either, <2>1, <2>2
<1>4. \A i \in 1..Len(Lines) : Trade(i).time = "time" /\ Trade(i).maker = "maker"
  BY <1>3 DEF Trade, ByName
<1>5. HasHeader => 1 \notin Wanted
  <2>1. cfg.rows \in Seq({"ok", "bad"})
    BY CSVAssumption DEF CSVAssumption
  <2>2. cfg.header => Lines[1] = "header"
    BY <2>1 DEF Lines
  <2> QED
    BY <2>2 DEF Wanted, Described
<1> QED
  BY <1>2, <1>4, <1>5

(* What is wanted does not change.                                         *)
LEMMA FileStays ==
  ASSUME cfg' = cfg
  PROVE  /\ Lines' = Lines /\ Wanted' = Wanted /\ HasHeader' = HasHeader
         /\ Described' = Described /\ DataStartLine' = DataStartLine
         /\ \A l : Before(l)' = Before(l)
BY DEF Lines, Wanted, HasHeader, Described, DataStartLine, Before

(* A replay starts with nothing sent.                                      *)
LEMMA CSVInitKeeps == FeedInit /\ CSVInit => CSVInv
<1> SUFFICES ASSUME FeedInit, CSVInit PROVE CSVInv
  OBVIOUS
<1>start. line = 1 /\ lineNo = 0 /\ emitted = 0 /\ total = 0 /\ broken = FALSE /\ replayed = <<>>
  BY DEF CSVInit
<1>1. CSVTypes
  <2>1. ~broken => lineNo = line - 1
    BY <1>start
  <2>2. broken \in BOOLEAN
    BY <1>start
  <2> QED
    BY <1>start, <2>1, <2>2 DEF CSVTypes
<1>2. ASSUME cfg.mode = "csv" PROVE Replay
  <2>1. cfg \in Configs /\ cfg.maxRows \in Nat /\ replayed = <<>> /\ total = 0
    BY <1>2, WantedFacts DEF FeedInit, CSVInit
  <2>2. at = "pass" /\ ret = "running"
    BY <1>2 DEF FeedInit, FirstStep
  <2>3. Counted
    BY <2>1, <2>2 DEF Counted, Replaying, At
  <2> QED
    BY <2>1, <2>2, <2>3 DEF Replay, InOrder, Ordered, Complete
<1> QED
  BY <1>1, <1>2 DEF CSVInv

(* The steps of a replay keep what all feeds share, and count lines.       *)
LEMMA CSVFeedKeeps ==
  ASSUME FeedInv, CSVTypes, CSVStep \/ DiskFails
  PROVE  /\ FeedInv' /\ CSVTypes'
         /\ cfg' = cfg /\ cfg.mode = "csv" /\ cfg \in Configs /\ ret = "running"
<1>1. cfg' = cfg /\ cfg.mode = "csv" /\ cfg \in Configs /\ ret = "running"
  BY DEF CSVStep, DiskFails, PassEnds, OpenError, OpenPass, ReadRow, ReadFails, SendTrade,
         EmitCancelled, FinishPass, PauseOver, PauseCancelled,
         At, Goto, Return, Send, GiveUp, FeedInv
<1>2. Len(Lines) \in Nat
  BY <1>1, WantedFacts
<1>3. CASE PassEnds \/ OpenError \/ EmitCancelled \/ PauseCancelled
  <2>1. FeedInv'
    BY <1>3, ReturnKeeps DEF PassEnds, OpenError, EmitCancelled, PauseCancelled, GiveUp
  <2> QED
    BY <2>1, <1>1, <1>3 DEF PassEnds, OpenError, EmitCancelled, PauseCancelled, csvVars, CSVTypes
<1>4. CASE OpenPass
  <2>1. FeedInv'
    BY <1>1, <1>4, GotoKeeps DEF OpenPass, FeedInv, Places
  <2>2. /\ line' = 1 + DataStartLine /\ lineNo' = DataStartLine /\ emitted' = 0
        /\ total' = total /\ broken' = broken /\ replayed' = replayed
    BY <1>4 DEF OpenPass
  <2>3. DataStartLine \in Nat
    BY DEF DataStartLine
  <2> QED
    BY <2>1, <2>2, <2>3, <1>1 DEF CSVTypes
<1>5. CASE ReadRow
  <2>1. line \in 1..Len(Lines)
    BY <1>2, <1>5 DEF ReadRow, CSVTypes
  <2>2. Trade(line) \in CSVRecords
    BY <2>1 DEF CSVRecords
  <2>3. FeedInv'
    BY <1>1, <1>5, <2>2, Modes, GotoKeeps DEF ReadRow, FeedInv, Places
  <2>4. /\ line' = line + 1 /\ lineNo' = lineNo + 1 /\ ~broken
        /\ UNCHANGED <<emitted, total, broken, replayed>>
    BY <1>5 DEF ReadRow
  <2> QED
    BY <2>3, <2>4, <1>1 DEF CSVTypes
<1>6. CASE ReadFails \/ DiskFails
  <2>1. FeedInv'
    BY <1>6, OthersKeep DEF ReadFails, DiskFails, FeedInv
  <2>2. UNCHANGED <<line, emitted, total, replayed>> /\ broken' = TRUE
    BY <1>6 DEF ReadFails, DiskFails
  <2> QED
    BY <2>1, <2>2, <1>1 DEF CSVTypes
<1>7. CASE SendTrade
  <2>1. FeedInv' /\ hold \in Carried
    BY <1>7, SendKeeps DEF SendTrade, Sending, At, Places
  <2>2. PICK i \in 1..Len(Lines) : hold = Trade(i)
    BY <2>1, <1>1, Modes DEF CSVRecords
  <2>3. hold.line \in Nat
    BY <2>2, <1>2 DEF Trade
  <2>4. /\ emitted' = emitted + 1 /\ replayed' = Append(replayed, hold.line)
        /\ UNCHANGED <<line, lineNo, total, broken>>
    BY <1>7 DEF SendTrade
  <2> QED
    BY <2>1, <2>3, <2>4, <1>1 DEF CSVTypes
<1>8. CASE FinishPass
  <2>1. FeedInv'
    BY <1>1, <1>8, GotoKeeps, ReturnKeeps DEF FinishPass, FeedInv, Places
  <2>2. total' = total + emitted /\ UNCHANGED <<line, lineNo, emitted, broken, replayed>>
    BY <1>8 DEF FinishPass
  <2> QED
    BY <2>1, <2>2, <1>1 DEF CSVTypes
<1>9. CASE PauseOver
  <2>1. FeedInv'
    BY <1>1, <1>9, GotoKeeps DEF PauseOver, FeedInv, Places
  <2> QED
    BY <2>1, <1>1, <1>9 DEF PauseOver, csvVars, CSVTypes
<1> QED
  BY <1>3, <1>4, <1>5, <1>6, <1>7, <1>8, <1>9 DEF CSVStep

(* What was replayed is only judged where a pass begins, goes on or ends:  *)
(* a replay that stops early, waits or reads on keeps it.                  *)
LEMMA StoppedKeeps ==
  ASSUME Replay, cfg' = cfg, replayed' = replayed, total' = total,
         emitted' = emitted, line' = line, hold' = hold,
         \/ ret' # "running" /\ ret' # "nil"
         \/ at' = at /\ ret' = ret
         \/ At("csv", "pause") /\ at' = "pass" /\ ret' = ret
  PROVE  Replay'
<1>1. /\ Wanted' = Wanted /\ Exceeded' = Exceeded
      /\ \A l : Before(l)' = Before(l)
      /\ \A i : Trade(i)' = Trade(i)
  BY FileStays DEF Exceeded, Trade, ByName, Positional, HasHeader, Lines
<1>2. Ordered'
  BY <1>1 DEF Replay, Ordered, Follows
<1>3. Complete'
  BY <1>1 DEF Replay, Complete, At
<1>4. CASE ret' # "running"
  <2>1. ~Replaying' /\ ~Between' /\ ~At("csv", "emit")' /\ ~At("csv", "pause")'
    BY <1>4 DEF Replaying, Between, At
  <2> QED
    BY <2>1, <1>1, <1>2, <1>3 DEF Replay, Counted, InOrder, Replaying, Between, At, Reached
<1>5. CASE at' = at /\ ret' = ret
  BY <1>5, <1>1, <1>2, <1>3 DEF Replay, Counted, InOrder, Replaying, Between, At, Reached
<1>6. CASE At("csv", "pause") /\ at' = "pass" /\ ret' = ret
  <2>1. /\ Between /\ Between' /\ ~Replaying' /\ ~At("csv", "emit")' /\ ~At("csv", "pause")'
        /\ cfg.loop
    BY <1>6 DEF Replaying, Between, At, Replay, Counted
  <2> QED
    BY <2>1, <1>1, <1>2, <1>3 DEF Replay, Counted, InOrder
<1> QED
  BY <1>4, <1>5, <1>6

(* No more rows are allowed: all of them were sent.                        *)
LEMMA PassEndsKeeps ==
  ASSUME FeedInv, CSVTypes, Replay, Lines # <<>>, Described, PassEnds
  PROVE  Replay'
<1>1. /\ cfg' = cfg /\ cfg \in Configs /\ cfg.mode = "csv"
      /\ At("csv", "pass") /\ Exceeded
      /\ ret' = "nil" /\ UNCHANGED <<at, hold, csvVars>>
  BY DEF PassEnds, Return, FeedInv, At
<1>2. /\ Wanted' = Wanted /\ \A l : Before(l)' = Before(l)
  BY <1>1, FileStays
<1>3. /\ Between /\ ~Replaying' /\ ~Between' /\ ~At("csv", "emit")' /\ ~At("csv", "pause")'
  BY <1>1 DEF Between, Replaying, At
<1>4. Len(replayed) = total /\ total \in Nat /\ cfg.maxRows \in Nat
  BY <1>1, <1>3, WantedFacts DEF Replay, Counted, CSVTypes
<1>5. /\ cfg.maxRows > 0 /\ total >= cfg.maxRows /\ Len(replayed) <= cfg.maxRows
  BY <1>1 DEF Exceeded, Replay, Counted
<1>6. Len(replayed) = cfg.maxRows
  BY <1>4, <1>5
<1>7. cfg.loop
  <2>1. total # 0
    BY <1>4, <1>5
  <2> QED
    BY <1>3, <2>1 DEF Replay, Counted
<1>8. replayed' = replayed
  BY <1>1 DEF csvVars
<1>9. Complete'
  BY <1>1, <1>5, <1>6, <1>7, <1>8 DEF Complete
<1>10. Ordered'
  BY <1>1, <1>2, <1>8 DEF Replay, Ordered, Follows
<1>11. Counted' /\ InOrder'
  BY <1>1, <1>3, <1>5, <1>8 DEF Counted, InOrder
<1> QED
  BY <1>9, <1>10, <1>11 DEF Replay

(* A pass begins at its first line.                                        *)
LEMMA OpenPassKeeps ==
  ASSUME FeedInv, CSVTypes, Replay, Lines # <<>>, Described, OpenPass
  PROVE  Replay'
<1>1. /\ cfg' = cfg /\ cfg \in Configs /\ cfg.mode = "csv" /\ ret = "running"
      /\ At("csv", "pass") /\ ~Exceeded
      /\ at' = "row" /\ ret' = ret
      /\ line' = 1 + DataStartLine /\ emitted' = 0
      /\ UNCHANGED <<hold, total, broken, replayed>>
  BY DEF OpenPass, Goto, FeedInv, At
<1>2. /\ Wanted' = Wanted /\ \A l : Before(l)' = Before(l)
  BY <1>1, FileStays
<1>3. /\ Between /\ Replaying' /\ ~Between' /\ ~At("csv", "emit")' /\ ~At("csv", "pause")'
  BY <1>1 DEF Between, Replaying, At
<1>4. Before(line') = {} /\ line' \in Nat
  <2>1. \A k \in Wanted : k \in Nat /\ k >= 1
    BY <1>1, WantedFacts
  <2>2. CASE HasHeader
    <3>1. line' = 2 /\ 1 \notin Wanted
      BY <1>1, <2>2, RowsParse DEF DataStartLine
    <3> QED
      BY <2>1, <3>1 DEF Before
  <2>3. CASE ~HasHeader
    <3>1. line' = 1
      BY <1>1, <2>3 DEF DataStartLine
    <3> QED
      BY <2>1, <3>1 DEF Before
  <2> QED
    BY <2>2, <2>3
<1>5. Reached' = line' /\ Before(Reached)' = {}
  BY <1>1, <1>2, <1>4 DEF Reached, Before
<1>6. Len(replayed) = total /\ total \in Nat
  BY <1>3 DEF Replay, Counted, CSVTypes
<1>7. Cardinality(Before(Reached)') = 0
  BY <1>5, FS_EmptySet
<1>8. Counted'
  <2>1. emitted' = Cardinality(Before(Reached)') /\ Len(replayed') = total' + emitted'
    BY <1>1, <1>6, <1>7
  <2>2. cfg'.maxRows > 0 => Len(replayed') <= cfg'.maxRows
    BY <1>1 DEF Replay, Counted
  <2>3. ~cfg'.loop => total' = 0
    BY <1>1, <1>3 DEF Replay, Counted
  <2> QED
    BY <1>3, <2>1, <2>2, <2>3 DEF Counted
<1>9. InOrder'
  <2>1. replayed # <<>> => \A k \in Wanted : k <= replayed[Len(replayed)]
    BY <1>1, <1>3 DEF Replay, InOrder
  <2> QED
    BY <1>1, <1>2, <1>3, <1>5, <2>1 DEF InOrder
<1>10. Ordered' /\ Complete'
  BY <1>1, <1>2 DEF Replay, Ordered, Follows, Complete
<1> QED
  BY <1>8, <1>9, <1>10 DEF Replay

(* A row is read: it is skipped, or it is the next one to send.            *)
LEMMA ReadRowKeeps ==
  ASSUME FeedInv, CSVTypes, Replay, Lines # <<>>, Described, ReadRow
  PROVE  Replay'
<1>1. /\ cfg' = cfg /\ cfg \in Configs /\ cfg.mode = "csv" /\ ret = "running"
      /\ At("csv", "row") /\ ~broken /\ ~Enough /\ line <= Len(Lines)
      /\ line' = line + 1 /\ ret' = ret
      /\ UNCHANGED <<emitted, total, replayed>>
  BY DEF ReadRow, Goto, FeedInv, At
<1>2. /\ Wanted' = Wanted /\ \A l : Before(l)' = Before(l)
      /\ \A i : Trade(i)' = Trade(i)
  BY <1>1, FileStays DEF Trade, ByName, Positional, HasHeader, Lines
<1>3. /\ line \in Nat \ {0} /\ lineNo = line - 1
      /\ cfg.startRow \in Nat /\ cfg.maxRows \in Nat /\ total \in Nat /\ emitted \in Nat
      /\ Len(Lines) \in Nat
  BY <1>1, WantedFacts DEF CSVTypes
<1>4. line \in 1..Len(Lines)
  BY <1>1, <1>3
<1>5. lineNo < cfg.startRow \/ ~Parses(line) <=> line \notin Wanted
  <2>1. Parses(line) <=> Lines[line] = "ok"
    BY <1>1, <1>4, RowsParse
  <2>2. lineNo < cfg.startRow <=> ~(line > cfg.startRow)
    BY <1>3
  <2> QED
    BY <1>4, <2>1, <2>2 DEF Wanted
<1>6. Replaying /\ Reached = line
  BY <1>1 DEF Replaying, At, Reached
<1>7. /\ emitted = Cardinality(Before(line)) /\ Len(replayed) = total + emitted
      /\ ~cfg.loop => total = 0
      /\ cfg.maxRows > 0 => Len(replayed) <= cfg.maxRows
  BY <1>6 DEF Replay, Counted
<1>8. Ordered' /\ Complete'
  BY <1>1, <1>2 DEF Replay, Ordered, Follows, Complete
<1>9. CASE line \notin Wanted
  <2>1. at' = "row"
    BY <1>5, <1>9 DEF ReadRow, Goto
  <2>2. Before(line + 1) = Before(line)
    BY <1>1, <1>3, <1>9, BeforeFacts
  <2>3. /\ Replaying' /\ ~Between' /\ ~At("csv", "emit")' /\ ~At("csv", "pause")'
        /\ Reached' = line + 1
    BY <1>1, <2>1 DEF Replaying, Between, At, Reached
  <2>4. Before(Reached)' = Before(line)
    BY <1>1, <1>2, <2>2, <2>3 DEF Before
  <2>5. Counted'
    BY <1>1, <1>7, <2>3, <2>4 DEF Counted
  <2>6. InOrder'
    <3> SUFFICES ASSUME replayed # <<>>
                 PROVE  \A k \in Wanted :
                   IF Before(line) = {} THEN k <= replayed[Len(replayed)]
                   ELSE /\ replayed[Len(replayed)] < line + 1
                        /\ k < line + 1 => k <= replayed[Len(replayed)]
      BY <1>1, <1>2, <2>3, <2>4 DEF InOrder
    <3>1. \A k \in Wanted :
            IF Before(line) = {} THEN k <= replayed[Len(replayed)]
            ELSE /\ replayed[Len(replayed)] < line
                 /\ k < line => k <= replayed[Len(replayed)]
      BY <1>6 DEF Replay, InOrder
    <3>2. \A k \in Wanted : k \in Nat /\ k # line
      BY <1>1, <1>9, WantedFacts
    <3>3. replayed[Len(replayed)] \in Nat
      BY DEF CSVTypes
    <3> QED
      BY <1>3, <3>1, <3>2, <3>3
  <2> QED
    BY <1>8, <2>5, <2>6 DEF Replay
<1>10. CASE line \in Wanted
  <2>1. at' = "emit" /\ hold' = Trade(line)
    BY <1>5, <1>10 DEF ReadRow, Goto
  <2>2. /\ Replaying' /\ ~Between' /\ At("csv", "emit")' /\ ~At("csv", "pause")'
        /\ Reached' = line /\ line' - 1 = line
    BY <1>1, <1>3, <2>1 DEF Replaying, Between, At, Reached
  <2>3. Before(Reached)' = Before(line)
    BY <1>1, <1>2, <2>2 DEF Before
  <2>4. Counted'
    <3>1. cfg.maxRows > 0 => Len(replayed) < cfg.maxRows
      BY <1>1, <1>3, <1>7 DEF Enough
    <3> QED
      BY <1>1, <1>2, <1>7, <1>10, <2>1, <2>2, <2>3, <3>1 DEF Counted
  <2>5. InOrder'
    BY <1>1, <1>2, <1>6, <2>2, <2>3 DEF Replay, InOrder
  <2> QED
    BY <1>8, <2>4, <2>5 DEF Replay
<1> QED
  BY <1>9, <1>10

(* A row is sent: it is the next one of the replay.                        *)
LEMMA SendTradeKeeps ==
  ASSUME FeedInv, CSVTypes, Replay, Lines # <<>>, Described, SendTrade
  PROVE  Replay'
<1>1. /\ cfg' = cfg /\ cfg \in Configs /\ cfg.mode = "csv" /\ ret = "running"
      /\ At("csv", "emit") /\ at' = "row" /\ ret' = ret /\ hold' = Nothing
      /\ emitted' = emitted + 1 /\ replayed' = Append(replayed, hold.line)
      /\ UNCHANGED <<line, total>>
  BY DEF SendTrade, Send, FeedInv, At
<1>2. /\ Wanted' = Wanted /\ \A l : Before(l)' = Before(l)
  BY <1>1, FileStays
<1>3. PICK i : i = line - 1
  OBVIOUS
<1>4. i \in Wanted /\ hold = Trade(i) /\ hold.line = i
  BY <1>1, <1>3 DEF Replay, Counted, Trade
<1>5. /\ i \in Nat \ {0} /\ line = i + 1
      /\ cfg.maxRows \in Nat /\ total \in Nat /\ emitted \in Nat
      /\ replayed \in Seq(Nat) /\ \A k \in Wanted : k \in Nat
  BY <1>1, <1>3, <1>4, WantedFacts DEF CSVTypes
<1>6. PICK n \in Nat : n = Len(replayed)
  BY <1>5
<1>7. /\ Replaying /\ Reached = i
  BY <1>1, <1>3 DEF Replaying, At, Reached
<1>8. /\ emitted = Cardinality(Before(i)) /\ n = total + emitted
      /\ ~cfg.loop => total = 0
      /\ cfg.maxRows > 0 => n < cfg.maxRows
  BY <1>1, <1>6, <1>7 DEF Replay, Counted
<1>9. /\ Len(replayed') = n + 1 /\ replayed'[n + 1] = i
      /\ \A m \in 1..n : replayed'[m] = replayed[m]
  BY <1>1, <1>4, <1>5, <1>6
<1>10. /\ Cardinality(Before(i + 1)) = emitted + 1
       /\ Cardinality(Before(i)) = 0 => Before(i) = {}
  BY <1>1, <1>4, <1>5, <1>8, BeforeFacts
<1>11. /\ Replaying' /\ ~Between' /\ ~At("csv", "emit")' /\ ~At("csv", "pause")'
       /\ Reached' = i + 1
  BY <1>1, <1>5 DEF Replaying, Between, At, Reached
<1>12. Before(Reached)' = Before(i + 1)
  BY <1>1, <1>2, <1>11 DEF Before
<1>13. Counted'
  <2>1. cfg.maxRows > 0 => n + 1 <= cfg.maxRows
    BY <1>5, <1>6, <1>8
  <2>2. n + 1 = total + (emitted + 1)
    BY <1>5, <1>8
  <2> QED
    BY <1>1, <1>8, <1>9, <1>10, <1>11, <1>12, <2>1, <2>2 DEF Counted
<1>14. \A k \in Wanted : k <= i \/ i + 1 <= k
  BY <1>5
<1>15. InOrder'
  <2>1. i \in Before(i + 1)
    BY <1>4, <1>5 DEF Before
  <2>2. i < i + 1 /\ \A k \in Wanted : k < i + 1 => k <= i
    BY <1>5
  <2> QED
    BY <1>2, <1>9, <1>11, <1>12, <2>1, <2>2 DEF InOrder
<1>16. n > 0 => Follows(replayed[n], i)
  <2> SUFFICES ASSUME n > 0 PROVE Follows(replayed[n], i)
    OBVIOUS
  <2>1. \A k \in Wanted :
          IF Before(i) = {} THEN k <= replayed[n]
          ELSE replayed[n] < i /\ (k < i => k <= replayed[n])
    BY <1>5, <1>6, <1>7 DEF Replay, InOrder
  <2>2. CASE Before(i) = {}
    <3>1. \A k \in Wanted : ~(k < i)
      BY <2>2 DEF Before
    <3>2. \A k \in Wanted : i <= k
      BY <1>5, <3>1
    <3> QED
      BY <2>1, <2>2, <3>2 DEF Follows
  <2>3. CASE Before(i) # {}
    <3>1. replayed[n] < i /\ \A k \in Wanted : k < i => k <= replayed[n]
      BY <1>4, <2>1, <2>3
    <3>2. \A k \in Wanted : k <= replayed[n] \/ i <= k
      BY <1>5, <3>1
    <3> QED
      BY <3>1, <3>2 DEF Follows
  <2> QED
    BY <2>2, <2>3
<1>17. n = 0 => \A k \in Wanted : i <= k
  <2> SUFFICES ASSUME n = 0 PROVE \A k \in Wanted : i <= k
    OBVIOUS
  <2>1. Before(i) = {}
    BY <1>5, <1>8, <1>10
  <2>2. \A k \in Wanted : ~(k < i)
    BY <2>1 DEF Before
  <2> QED
    BY <1>5, <2>2
<1>18. Ordered'
  <2> SUFFICES ASSUME NEW m \in 1..(n + 1)
               PROVE  /\ replayed'[m] \in Wanted
                      /\ IF m = 1 THEN \A k \in Wanted : replayed'[m] <= k
                         ELSE Follows(replayed'[m - 1], replayed'[m])
    BY <1>2, <1>9 DEF Ordered, Follows
  <2>1. CASE m \in 1..n
    <3>1. m # 1 => m - 1 \in 1..n
      BY <2>1, <1>6
    <3>2. replayed'[m] = replayed[m] /\ (m # 1 => replayed'[m - 1] = replayed[m - 1])
      BY <2>1, <3>1, <1>9
    <3>3. /\ replayed[m] \in Wanted
          /\ IF m = 1 THEN \A k \in Wanted : replayed[m] <= k
             ELSE Follows(replayed[m - 1], replayed[m])
      BY <2>1, <1>6 DEF Replay, Ordered
    <3> QED
      BY <3>2, <3>3
  <2>2. CASE m = n + 1 /\ n = 0
    BY <2>2, <1>4, <1>9, <1>17
  <2>3. CASE m = n + 1 /\ n > 0
    <3>1. m # 1 /\ m - 1 = n /\ n \in 1..n
      BY <2>3, <1>6
    <3>2. replayed'[m] = i /\ replayed'[m - 1] = replayed[n]
      BY <2>3, <3>1, <1>9
    <3> QED
      BY <3>1, <3>2, <2>3, <1>4, <1>16
  <2> QED
    BY <1>6, <2>1, <2>2, <2>3
<1>19. Complete'
  BY <1>1 DEF Complete
<1> QED
  BY <1>13, <1>15, <1>18, <1>19 DEF Replay

(* A pass is complete: its rows are used up, or all of them were sent.     *)
LEMMA FinishPassKeeps ==
  ASSUME FeedInv, CSVTypes, Replay, Lines # <<>>, Described, FinishPass
  PROVE  Replay'
<1>1. /\ cfg' = cfg /\ cfg \in Configs /\ cfg.mode = "csv" /\ ret = "running"
      /\ At("csv", "row") /\ total' = total + emitted
      /\ UNCHANGED <<hold, line, lineNo, emitted, broken, replayed>>
      /\ IF cfg.loop THEN at' = "pause" /\ ret' = "running" ELSE at' = at /\ ret' = "nil"
      /\ Enough \/ line > Len(Lines)
  BY DEF FinishPass, Goto, Return, FeedInv, At
<1>2. /\ Wanted' = Wanted /\ \A l : Before(l)' = Before(l)
  BY <1>1, FileStays
<1>3. /\ line \in Nat /\ Len(Lines) \in Nat
      /\ cfg.maxRows \in Nat /\ total \in Nat /\ emitted \in Nat
      /\ replayed \in Seq(Nat) /\ Cardinality(Wanted) \in Nat
  BY <1>1, WantedFacts DEF CSVTypes
<1>4. PICK n \in Nat : n = Len(replayed)
  BY <1>3
<1>5. Replaying /\ Reached = line
  BY <1>1 DEF Replaying, At, Reached
<1>6. /\ emitted = Cardinality(Before(line)) /\ n = total + emitted
      /\ ~cfg.loop => total = 0
      /\ cfg.maxRows > 0 => n <= cfg.maxRows
  BY <1>4, <1>5 DEF Replay, Counted
<1>7. emitted <= Cardinality(Wanted)
  BY <1>1, <1>3, <1>6, BeforeFacts
<1>8. (cfg.maxRows > 0 /\ n = cfg.maxRows) \/ Before(line) = Wanted
  <2>1. CASE Enough
    BY <2>1, <1>3, <1>4, <1>6 DEF Enough
  <2>2. CASE line > Len(Lines)
    BY <2>2, <1>1, <1>3, BeforeFacts
  <2> QED
    BY <1>1, <2>1, <2>2
<1>9. Ordered'
  BY <1>1, <1>2 DEF Replay, Ordered, Follows
<1>10. CASE cfg.loop
  <2>1. /\ Between' /\ ~Replaying' /\ ~At("csv", "emit")' /\ ret' = "running"
    BY <1>1, <1>10 DEF Replaying, Between, At
  <2>2. Counted'
    BY <1>1, <1>4, <1>6, <1>10, <2>1 DEF Counted
  <2>3. InOrder'
    <3>1. ASSUME ~Exceeded', replayed # <<>>
          PROVE  \A k \in Wanted : k <= replayed[Len(replayed)]
      <4>1. ~(cfg.maxRows > 0 /\ total + emitted >= cfg.maxRows)
        BY <1>1, <3>1 DEF Exceeded
      <4>2. Before(line) = Wanted
        BY <1>3, <1>4, <1>6, <1>8, <4>1
      <4>3. \A k \in Wanted :
              IF Before(line) = {} THEN k <= replayed[Len(replayed)]
              ELSE k < line => k <= replayed[Len(replayed)]
        BY <1>5, <3>1 DEF Replay, InOrder
      <4>4. \A k \in Wanted : k < line
        BY <4>2 DEF Before
      <4> QED
        BY <4>3, <4>4
    <3> QED
      BY <1>1, <1>2, <2>1, <3>1 DEF InOrder
  <2>4. Complete'
    BY <2>1 DEF Complete
  <2> QED
    BY <1>9, <2>2, <2>3, <2>4 DEF Replay
<1>11. CASE ~cfg.loop
  <2>1. /\ ~Between' /\ ~Replaying' /\ ~At("csv", "emit")' /\ ~At("csv", "pause")'
    BY <1>1, <1>11 DEF Replaying, Between, At
  <2>2. Counted' /\ InOrder'
    BY <1>1, <1>4, <1>6, <2>1 DEF Counted, InOrder
  <2>3. n = emitted
    BY <1>3, <1>6, <1>11
  <2>4. n = IF cfg.maxRows > 0 /\ cfg.maxRows < Cardinality(Wanted)
            THEN cfg.maxRows ELSE Cardinality(Wanted)
    <3>1. CASE cfg.maxRows > 0 /\ n = cfg.maxRows
      BY <3>1, <1>3, <1>7, <2>3
    <3>2. CASE Before(line) = Wanted
      BY <3>2, <1>3, <1>6, <2>3
    <3> QED
      BY <1>8, <3>1, <3>2
  <2>5. Complete'
    BY <1>1, <1>2, <1>4, <1>11, <2>4 DEF Complete
  <2> QED
    BY <1>9, <2>2, <2>5 DEF Replay
<1> QED
  BY <1>1, <1>10, <1>11

(* Every step of the replay keeps the invariants.                          *)
LEMMA CSVStepKeeps ==
  ASSUME FeedInv, CSVInv, CSVStep \/ DiskFails
  PROVE  FeedInv' /\ CSVInv'
<1>1. /\ FeedInv' /\ CSVTypes'
      /\ cfg' = cfg /\ cfg.mode = "csv" /\ ret = "running"
  BY CSVFeedKeeps DEF CSVInv
<1>2. Lines' = Lines /\ Described' = Described
  BY <1>1, FileStays
<1>3. ASSUME Lines # <<>>, Described PROVE Replay'
  <2>1. CSVTypes /\ Replay
    BY <1>1, <1>3 DEF CSVInv
  <2>2. CASE OpenError \/ EmitCancelled \/ PauseCancelled
    <3>1. /\ UNCHANGED <<replayed, total, emitted, line, hold>>
          /\ ret' \in {"error", "cancelled"}
      BY <2>2 DEF OpenError, EmitCancelled, PauseCancelled, GiveUp, Return, csvVars
    <3> QED
      BY <3>1, <2>1, <1>1, StoppedKeeps
  <2>3. CASE ReadFails \/ DiskFails
    <3>1. UNCHANGED <<replayed, total, emitted, line, hold, at, ret>>
      BY <2>3 DEF ReadFails, DiskFails
    <3> QED
      BY <3>1, <2>1, <1>1, StoppedKeeps
  <2>4. CASE PauseOver
    <3>1. /\ UNCHANGED <<replayed, total, emitted, line, hold, ret>>
          /\ At("csv", "pause") /\ at' = "pass"
      BY <2>4 DEF PauseOver, Goto, csvVars
    <3> QED
      BY <3>1, <2>1, <1>1, StoppedKeeps
  <2> QED
    BY <2>1, <2>2, <2>3, <2>4, <1>3, PassEndsKeeps, OpenPassKeeps, ReadRowKeeps,
       SendTradeKeeps, FinishPassKeeps DEF CSVStep
<1> QED
  BY <1>1, <1>2, <1>3 DEF CSVInv

(* Nothing of a replay changes in the other modes, nor by steps outside of *)
(* it.                                                                     *)
LEMMA CSVUntouched ==
  ASSUME CSVInv, UNCHANGED <<cfg, csvVars>>,
         cfg.mode # "csv" \/ UNCHANGED <<at, ret, hold>>
  PROVE  CSVInv'
<1>1. CSVTypes' /\ UNCHANGED <<line, emitted, total, replayed>>
  BY DEF CSVInv, CSVTypes, csvVars
<1>2. Lines' = Lines /\ Described' = Described
  BY FileStays
<1>3. ASSUME cfg.mode = "csv", Lines # <<>>, Described PROVE Replay'
  BY <1>1, <1>3, StoppedKeeps DEF CSVInv
<1> QED
  BY <1>1, <1>2, <1>3 DEF CSVInv

-----------------------------------------------------------------------------
(* The feeds with the filter behind them.                                  *)

SystemInv == WindowInv /\ FeedInv /\ LiveInv /\ CSVInv /\ SynInv

(* The filter is only asked for keys it knows.                             *)
LEMMA KnownKeys ==
  ASSUME FeedInv, out # <<>>, cfg.mode # "synthetic"
  PROVE  Head(out).key \in Keys
<1>1. /\ cfg \in Configs /\ cfg.mode \in {"live", "csv"} /\ Head(out) \in Carried
  BY Modes DEF FeedInv
<1>2. CASE cfg.mode = "live"
  <2>1. PICK r \in LiveRecords : r = Head(out)
    BY <1>1, <1>2, Modes
  <2>2. r.key \in {"aggtrade", "trade"} \X Trades
    BY DEF LiveRecords
  <2> QED
    BY <2>1, <2>2, FeedsAssumption DEF FeedsAssumption
<1>3. CASE cfg.mode = "csv"
  <2>1. PICK i \in 1..Len(Lines) : Head(out) = Trade(i)
    BY <1>1, <1>3, Modes DEF CSVRecords
  <2>2. Head(out).key = <<"row", i>>
    BY <2>1 DEF Trade
  <2>3. cfg.rows \in Seq({"ok", "bad"})
    BY <1>1, <1>3, CSVAssumption DEF CSVAssumption
  <2>4. i \in 1..(Len(cfg.rows) + 1)
    <3>1. CASE cfg.header
      <4>1. Len(<<"header">> \o cfg.rows) = 1 + Len(cfg.rows) /\ Len(cfg.rows) \in Nat
        BY <2>3
      <4> QED
        BY <3>1, <4>1 DEF Lines
    <3>2. CASE ~cfg.header
      <4>1. Len(<<>> \o cfg.rows) = Len(cfg.rows) /\ Len(cfg.rows) \in Nat
        BY <2>3
      <4> QED
        BY <3>2, <4>1 DEF Lines
    <3> QED
      BY <3>1, <3>2
  <2> QED
    BY <1>1, <1>3, <2>2, <2>4, FeedsAssumption DEF FeedsAssumption
<1> QED
  BY <1>1, <1>2, <1>3

(* A step of the feeds is a step of the filter, or none of its concern.    *)
LEMMA StepOfFilter ==
  ASSUME FeedInv, [Next]_vars
  PROVE  [(\E k \in Keys : Seen(k)) \/ Tick]_dedupVars
<1>1. CASE Take
  <2>1. CASE cfg.mode = "synthetic"
    BY <1>1, <2>1 DEF Take
  <2>2. CASE cfg.mode # "synthetic"
    BY <1>1, <2>2, KnownKeys DEF Take
  <2> QED
    BY <2>1, <2>2
<1>2. CASE Clock
  BY <1>2 DEF Clock
<1>3. CASE FeedStep \/ External
  BY <1>3 DEF FeedStep, External, LiveOnly, CSVOnly, SynOnly
<1>4. CASE UNCHANGED vars
  BY <1>4 DEF vars
<1> QED
  BY <1>1, <1>2, <1>3, <1>4 DEF Next

(* All the invariants hold together, whichever feed runs.                  *)
LEMMA SystemInvariance == Spec => []SystemInv
<1>1. Init => SystemInv
  <2> SUFFICES ASSUME Init PROVE SystemInv
    OBVIOUS
  <2>1. WindowInv /\ FeedInv /\ CSVInv /\ SynInv
    BY InitKeeps, FeedInitKeeps, CSVInitKeeps, SynInitKeeps DEF Init
  <2>2. /\ made = 0 /\ attempt = 0 /\ rows = <<>> /\ wire = <<>> /\ fresh = FALSE
        /\ ~At("live", "row") /\ ~At("live", "send") /\ ~Connected
    BY DEF Init, LiveInit, FeedInit, FirstStep, At, Connected
  <2>3. LiveTypes
    <3>1. fresh \in BOOLEAN
      BY <2>2
    <3> QED
      BY <2>2, <3>1, TapeFacts DEF LiveTypes
  <2>4. LiveInv
    BY <2>2, <2>3 DEF LiveInv, OnTheWire, Rows, Streamed
  <2> QED
    BY <2>1, <2>4 DEF SystemInv
<1>2. SystemInv /\ [Next]_vars => SystemInv'
  <2> SUFFICES ASSUME SystemInv, [Next]_vars PROVE SystemInv'
    OBVIOUS
  <2>1. WindowInv /\ FeedInv /\ LiveInv /\ CSVInv /\ SynInv /\ now \in Nat
    BY DedupAssumption DEF SystemInv, WindowInv, FilterTypes, DedupAssumption
  <2>2. WindowInv'
    <3>1. CASE \E k \in Keys : Seen(k)
      BY <2>1, <3>1, SeenKeeps
    <3>2. CASE Tick
      BY <2>1, <3>2, TickKeeps
    <3>3. CASE UNCHANGED dedupVars
      BY <2>1, <3>3 DEF dedupVars, WindowInv, FilterTypes, Timely, Forgotten, Budget, Shard, DuplicateWindow
    <3> QED
      BY <2>1, <3>1, <3>2, <3>3, StepOfFilter
  <2>3. CASE LiveStep /\ LiveOnly
    <3>1. FeedInv' /\ LiveInv'
      BY <2>1, <2>3, LiveStepKeeps
    <3>2. cfg' = cfg /\ cfg.mode = "live" /\ now' = now /\ UNCHANGED <<csvVars, synVars>>
      BY <2>3 DEF LiveStep, LiveOnly, dedupVars, BackfillDone, BackfillRequest, BackfillError, SendRow,
             LiveGivesUp, Dial, DialError, ReadError, ReadFrame, SendFrame, SendCancelled,
             Wake, SleepCancelled, Disconnect, GiveUp, Goto, Return, Send, At
    <3> QED
      BY <2>1, <2>2, <3>1, <3>2, CSVUntouched, SynUntouched DEF SystemInv
  <2>4. CASE (Exchange \/ PingFails) /\ LiveOnly
    <3>1. FeedInv' /\ LiveInv'
      BY <2>1, <2>4, ExchangeKeeps, PingKeeps
    <3>2. UNCHANGED <<cfg, at, ret, hold, now, csvVars, synVars>>
      BY <2>4 DEF LiveOnly, dedupVars, Exchange, PingFails
    <3> QED
      BY <2>1, <2>2, <3>1, <3>2, CSVUntouched, SynUntouched DEF SystemInv
  <2>5. CASE (CSVStep \/ DiskFails) /\ CSVOnly
    <3>1. FeedInv' /\ CSVInv'
      BY <2>1, <2>5, CSVStepKeeps
    <3>2. cfg' = cfg /\ cfg.mode = "csv" /\ now' = now /\ UNCHANGED <<liveVars, synVars>>
      BY <2>1, <2>5, CSVFeedKeeps DEF CSVOnly, dedupVars, CSVInv
    <3> QED
      BY <2>1, <2>2, <3>1, <3>2, LiveUntouched, SynUntouched DEF SystemInv
  <2>6. CASE SynStep /\ SynOnly
    <3>1. cfg' = cfg /\ cfg.mode = "synthetic" /\ now' = now /\ UNCHANGED <<liveVars, csvVars>>
      BY <2>6 DEF SynOnly, dedupVars, SynStep, Pick, MakePrint, WaitCancelled, SendPrint,
             PrintCancelled, GiveUp, Goto, Return, Send, At
    <3>2. FeedInv' /\ SynInv'
      BY <2>1, <2>6, <3>1, SynStepKeeps
    <3> QED
      BY <2>1, <2>2, <3>1, <3>2, LiveUntouched, CSVUntouched DEF SystemInv
  <2>7. CASE Clock
    <3>1. /\ UNCHANGED <<feedVars, liveVars, csvVars>> /\ now' = now + 1
          /\ IF cfg.mode = "synthetic" THEN SynTick ELSE UNCHANGED synVars
      BY <2>7 DEF Clock, Tick
    <3>2. FeedInv'
      BY <2>1, <3>1, OthersKeep DEF feedVars, FeedInv
    <3>3. LiveInv'
      BY <2>1, <3>1 DEF feedVars, liveVars, sessionVars, LiveInv, LiveTypes, OnTheWire, Rows,
             Streamed, Connected, At, Last, Decodes
    <3>4. CSVInv'
      BY <2>1, <3>1, CSVUntouched DEF feedVars
    <3>5. SynInv'
      BY <2>1, <3>1, SynTickKeeps
    <3> QED
      BY <2>2, <3>2, <3>3, <3>4, <3>5 DEF SystemInv
  <2>8. CASE Take \/ (Cancel /\ UNCHANGED <<liveVars, csvVars, synVars, dedupVars>>) \/ UNCHANGED vars
    <3>1. UNCHANGED <<cfg, at, ret, hold, last, liveVars, csvVars, synVars, now>>
      BY <2>8 DEF Take, Cancel, Seen, dedupVars, vars, feedVars
    <3>2. cancelled' \in BOOLEAN /\ (out' = out \/ (out # <<>> /\ out' = Tail(out)))
      BY <2>1, <2>8 DEF Take, Cancel, vars, feedVars, FeedInv
    <3>3. FeedInv'
      BY <2>1, <3>1, <3>2, OthersKeep
    <3>4. LiveInv'
      BY <2>1, <3>1 DEF liveVars, sessionVars, LiveInv, LiveTypes, OnTheWire, Rows,
             Streamed, Connected, At, Last, Decodes
    <3>5. CSVInv' /\ SynInv'
      BY <2>1, <3>1, CSVUntouched, SynUntouched
    <3> QED
      BY <2>2, <3>3, <3>4, <3>5 DEF SystemInv
  <2> QED
    BY <2>3, <2>4, <2>5, <2>6, <2>7, <2>8 DEF Next, FeedStep, External
<1> QED
  BY <1>1, <1>2, PTL DEF Spec

(* What stands behind the feeds is the filter, asked for keys it knows     *)
(* only: a run of the feeds is a run of it.                                *)
THEOREM FilterIsImplemented == Spec => DedupSpec
<1>1. Init => DedupInit
  BY DEF Init
<1>2. SystemInv /\ [Next]_vars => [(\E k \in Keys : Seen(k)) \/ Tick]_dedupVars
  BY StepOfFilter DEF SystemInv
<1> QED
  BY <1>1, <1>2, SystemInvariance, PTL DEF Spec, DedupSpec

(* Behind the feeds the filter neither loses a trade nor passes one twice  *)
(* within the window, up to the age of a reading and to dropped shards.    *)
THEOREM WindowHolds == Spec => []DuplicateWindow
<1>1. SystemInv => DuplicateWindow
  BY DEF SystemInv, WindowInv
<1> QED
  BY <1>1, SystemInvariance, PTL

(* The feeds are well typed: the channel is never more than full, frames   *)
(* wait only in a session, rows only to be sent, and no print is due later *)
(* than the longest gap from now.                                          *)
THEOREM TypesHold == Spec => []TypeOK
<1>1. SystemInv => TypeOK
  <2> SUFFICES ASSUME SystemInv PROVE TypeOK
    OBVIOUS
  <2>1. DedupTypeOK
    BY DEF SystemInv, WindowInv, FilterTypes, Budget, DedupTypeOK
  <2>2. /\ cfg \in Configs /\ cancelled \in BOOLEAN /\ at \in Places
        /\ ret \in {"running", "nil", "error", "cancelled"} /\ Len(out) <= OutSize
    BY DEF SystemInv, FeedInv
  <2>3. made \in 0..Cardinality(Tape) /\ attempt \in 0..MaxAttempts
    BY DEF SystemInv, LiveInv, LiveTypes
  <2>4. \A i \in DOMAIN wire : wire[i] \in 1..made
    <3>1. /\ wire \in Seq(Nat) /\ made \in Nat /\ Len(wire) <= made
          /\ \A i \in 1..Len(wire) : wire[i] = made - Len(wire) + i
      BY TapeFacts DEF SystemInv, LiveInv, LiveTypes, OnTheWire, Last
    <3>2. PICK n \in Nat : n = Len(wire)
      BY <3>1
    <3> QED
      BY <3>1, <3>2
  <2>5. /\ rows # <<>> => at = "row" /\ rows[1] = hold.id
        /\ wire # <<>> => Connected
    BY DEF SystemInv, LiveInv, Rows, OnTheWire, At
  <2>6. \A s \in Symbols : nextAt[s] <= now + MaxGap
    BY DEF SystemInv, SynInv, Due
  <2> QED
    BY <2>1, <2>2, <2>3, <2>4, <2>5, <2>6 DEF TypeOK, Places
<1> QED
  BY <1>1, SystemInvariance, PTL

(* Within one session, and within the rows of one backfilled symbol, the   *)
(* live feed sends the trades on in order and leaves none out that it can  *)
(* decode.                                                                 *)
THEOREM SessionOrder == Spec => SessionHasNoHoles
<1> DEFINE NoHole ==
      cfg.mode = "live" /\ last' # Nothing /\ ~last'.first =>
        /\ last.id < last'.id
        /\ \A t \in (last.id + 1)..(last'.id - 1) :
             IF at = "row" THEN t \in Trades => SymbolOf[t] # SymbolOf[last.id]
             ELSE ~Decodes(t)
<1>1. SystemInv /\ [Next]_vars => [NoHole]_last
  <2> SUFFICES ASSUME SystemInv, [Next]_vars, cfg.mode = "live", last' # last, ~last'.first
               PROVE  NoHole
    OBVIOUS
  <2>1. FeedInv /\ LiveInv
    BY DEF SystemInv
  <2>2. SendRow \/ SendFrame
    <3>1. LiveStep
      BY DEF Next, FeedStep, External, Take, Clock, Cancel, Exchange, PingFails, DiskFails,
             vars, feedVars, CSVStep, PassEnds, OpenError, OpenPass, ReadRow, ReadFails, SendTrade,
             EmitCancelled, FinishPass, PauseOver, PauseCancelled,
             SynStep, Pick, MakePrint, WaitCancelled, SendPrint, PrintCancelled,
             GiveUp, Return, Goto, At
    <3> QED
      BY <3>1 DEF LiveStep, BackfillDone, BackfillRequest, BackfillError,
             LiveGivesUp, Dial, DialError, ReadError, ReadFrame, SendCancelled,
             Wake, SleepCancelled, Disconnect, GiveUp, Goto, Return
  <2>3. CASE SendRow
    <3>1. at = "row"
      BY <2>3 DEF SendRow, At
    <3> QED
      BY <2>1, <2>3, <3>1, RowsHaveNoHoles
  <2>4. CASE SendFrame
    <3>1. at # "row"
      BY <2>4 DEF SendFrame, At
    <3> QED
      BY <2>1, <2>4, <3>1, FramesHaveNoHoles
  <2> QED
    BY <2>2, <2>3, <2>4
<1> QED
  BY <1>1, SystemInvariance, PTL DEF Spec, SessionHasNoHoles

(* The replay is the wanted rows of the file in order, pass after pass,    *)
(* each with its own time and aggressor, and complete unless it fails.     *)
THEOREM ReplayHolds == Spec => []ReplayIsTheFile
<1>1. SystemInv => ReplayIsTheFile
  <2> SUFFICES ASSUME SystemInv, cfg.mode = "csv", Lines # <<>>, Described
               PROVE  /\ Ordered /\ Complete
                      /\ cfg.maxRows > 0 => Len(replayed) <= cfg.maxRows
                      /\ hold # Nothing => hold.time = "time" /\ hold.maker = "maker"
    BY DEF ReplayIsTheFile, Ordered, Complete
  <2>1. FeedInv /\ CSVInv /\ cfg \in Configs
    BY DEF SystemInv, FeedInv
  <2>2. Replay
    BY <2>1 DEF CSVInv
  <2>3. ASSUME hold # Nothing PROVE hold.time = "time" /\ hold.maker = "maker"
    <3>1. hold \in CSVRecords
      BY <2>1, <2>3, Modes DEF FeedInv
    <3>2. PICK i \in 1..Len(Lines) : hold = Trade(i)
      BY <3>1 DEF CSVRecords
    <3> QED
      BY <2>1, <3>2, RowsParse
  <2> QED
    BY <2>2, <2>3 DEF Replay, Counted
<1> QED
  BY <1>1, SystemInvariance, PTL

(* A burst that lasts longer than the longest gap between two prints shows *)
(* a toxic print, unless the feed is held up.                              *)
THEOREM BurstsShow == Spec => []BurstShows
<1>1. SystemInv => BurstShows
  BY DEF SystemInv, SynInv, ToCome, BurstShows
<1> QED
  BY <1>1, SystemInvariance, PTL
=============================================================================
