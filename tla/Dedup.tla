------------------------------- MODULE Dedup --------------------------------
(***************************************************************************)
(* The duplicate filter of the ingestor                                    *)
(* (ingestion/internal/normalize/dedup.go).                                *)
(*                                                                         *)
(* A key is the hash of (exchange, symbol, trade id); two trades with one  *)
(* hash are left out.  The maps of the shards are one function from the    *)
(* keys to their expiry, split by ShardOf.  Seen reads the clock before it *)
(* takes the lock of the shard, so the reading may be up to Lag old when   *)
(* it is used: another worker may have used a later one in between.        *)
(***************************************************************************)
EXTENDS Integers, FiniteSets, Functions

CONSTANTS
  Keys,      \* keys of the trades that are delivered
  ShardOf,   \* key % shardCount
  PerShard,  \* maxKeys / shardCount, at least 1
  TTL,       \* how long a key is remembered
  Lag,       \* bound: age of a clock reading when the lock is taken
  MaxTime    \* bound: the clock

ASSUME DedupAssumption ==
  /\ IsFiniteSet(Keys)
  /\ ShardOf \in [Keys -> Range(ShardOf)]
  /\ PerShard \in Nat \ {0}
  /\ TTL \in Nat \ {0}
  /\ Lag \in Nat /\ MaxTime \in Nat

VARIABLES
  entries,  \* key -> expiry, the maps of all the shards
  now,      \* the clock
  passedAt, \* history: when a key was last let through
  dropped,  \* history: keys whose shard was dropped since then
  verdict   \* history: the last answer of Seen

Never == -1
Undecided == [filtered |-> FALSE, at |-> 0, previous |-> Never, dropped |-> FALSE]

Shard(m, k) == {x \in DOMAIN m : ShardOf[x] = ShardOf[k]}
Without(m, S) == Restrict(m, DOMAIN m \ S)

DedupInit ==
  /\ entries = <<>> /\ now = 0
  /\ passedAt = [k \in Keys |-> Never] /\ dropped = {}
  /\ verdict = Undecided

(* Mutant: the expiry of an entry is not looked at.                        *)
BugRemembered(k, t) == k \in DOMAIN entries

Remembered(k, t) == k \in DOMAIN entries /\ entries[k] > t

(* sweepLocked: the expired keys of the shard are removed.                 *)
Sweep(m, k, t) == Without(m, {x \in Shard(m, k) : m[x] <= t})

Filled(k, t) ==
  [x \in DOMAIN entries \cup {k} |-> IF x = k THEN t + TTL ELSE entries[x]]

(* Mutant: a shard that is over its budget after the sweep is kept.        *)
BugRecord(k, t) ==
  LET filled == Filled(k, t)
  IN  IF Cardinality(Shard(filled, k)) <= PerShard THEN filled ELSE Sweep(filled, k, t)

(* The maps after k was recorded: a shard over its budget is swept, and    *)
(* dropped with the key just recorded when that is not enough.             *)
Record(k, t) ==
  LET filled == Filled(k, t)
      swept  == Sweep(filled, k, t)
  IN  IF Cardinality(Shard(filled, k)) <= PerShard THEN filled
      ELSE IF Cardinality(Shard(swept, k)) <= PerShard THEN swept
      ELSE Without(swept, Shard(swept, k))

(* Seen, with t the clock reading taken before the lock.                   *)
Seen(k) == \E t \in {x \in (now - Lag)..now : x >= 0} :
  LET filtered == Remembered(k, t)
  IN  /\ entries' = IF filtered THEN entries ELSE Record(k, t)
      /\ LET lost == (DOMAIN entries \cup {k}) \ DOMAIN entries'
             overflow == ~filtered /\ k \in lost
         IN  dropped' = IF filtered THEN dropped
                        ELSE IF overflow THEN dropped \cup lost
                        ELSE dropped \ {k}
      /\ passedAt' = IF filtered THEN passedAt ELSE [passedAt EXCEPT ![k] = now]
      /\ verdict' = [filtered |-> filtered, at |-> now, previous |-> passedAt[k],
                     dropped |-> k \in dropped]
      /\ UNCHANGED now

Tick ==
  /\ now < MaxTime
  /\ now' = now + 1
  /\ UNCHANGED <<entries, passedAt, dropped, verdict>>

dedupVars == <<entries, now, passedAt, dropped, verdict>>

DedupSpec == DedupInit /\ [][(\E k \in Keys : Seen(k)) \/ Tick]_dedupVars

DedupTypeOK ==
  /\ DOMAIN entries \subseteq Keys
  /\ \A k \in DOMAIN entries : entries[k] \in 0..(MaxTime + TTL)
  /\ \A k \in Keys : Cardinality(Shard(entries, k)) <= PerShard
  /\ now \in 0..MaxTime
  /\ dropped \subseteq Keys

(* A trade is filtered only when it was let through less than TTL ago, and *)
(* a repetition is let through only when that was TTL ago or when its      *)
(* shard was dropped since: the filter neither loses a trade nor counts    *)
(* one twice within the window, whatever the age of the clock reading.     *)
DuplicateWindow ==
  LET v == verdict
  IN  /\ v.filtered => v.previous # Never /\ v.at - v.previous < TTL + Lag
      /\ ~v.filtered /\ v.previous # Never =>
           v.at - v.previous >= TTL - Lag \/ v.dropped
=============================================================================
