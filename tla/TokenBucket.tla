----------------------------- MODULE TokenBucket -----------------------------
(***************************************************************************)
(* acquireRateLimitToken (packages/redis-state/src/client.ts): a token     *)
(* bucket in Redis that worker replicas share.  Its script runs as one     *)
(* step.                                                                   *)
(*                                                                         *)
(* Time is the Redis server's, in microseconds, which is what TIME gives.  *)
(* Levels are integers: a token is One units, and RatePerMinute units are  *)
(* refilled in a microsecond.                                              *)
(***************************************************************************)
EXTENDS Integers

CONSTANTS RatePerMinute, Burst

NoBucket == [exists |-> FALSE]    \* a key that is not set
NoRefusal == [followed |-> FALSE]
Second == 1000000
One == 60 * Second
Capacity == Burst * One

VARIABLES
  now,
  bucket,     \* the hash at the key: tokens, ts, and when the key expires
  taken,      \* history: tokens given out since an observer began to count
  since,      \* history: when that was
  refused     \* history: the refusal an observer follows, until a token is taken

vars == <<now, bucket, taken, since, refused>>

(* Keep the bucket alive a little past a full refill from empty. *)
TtlSeconds == (60 * Burst + RatePerMinute - 1) \div RatePerMinute + 10

MinOf(a, b) == IF a < b THEN a ELSE b
MaxOf(a, b) == IF a > b THEN a ELSE b

(* What the script has refilled at time t. *)
Level(t) ==
  IF bucket = NoBucket THEN Capacity
  ELSE MinOf(Capacity, bucket.tokens + MaxOf(0, t - bucket.ts) * RatePerMinute)

(* The delay a caller is told when the level is below a token. *)
RetryMs(level) == (One - level + 1000 * RatePerMinute - 1) \div (1000 * RatePerMinute)

Init == now \in Nat /\ bucket = NoBucket /\ taken = 0 /\ since = now /\ refused = NoRefusal

(* A rate or a burst that is too small throws before the script runs. *)
Acquire ==
  /\ RatePerMinute > 0 /\ Burst >= 1
  /\ LET allowed == Level(now) >= One IN
     /\ bucket' = [exists |-> TRUE, tokens |-> IF allowed THEN Level(now) - One ELSE Level(now),
                   ts |-> now, expires |-> now + TtlSeconds * Second]
     /\ taken' = IF allowed THEN taken + 1 ELSE taken
     /\ refused' \in IF allowed THEN {NoRefusal}
                    ELSE {refused, [followed |-> TRUE, at |-> now, level |-> Level(now)]}
  /\ UNCHANGED <<now, since>>

Expire ==
  /\ bucket # NoBucket /\ now >= bucket.expires
  /\ bucket' = NoBucket
  /\ UNCHANGED <<now, taken, since, refused>>

Tick == \E d \in Nat : now' = now + d /\ UNCHANGED <<bucket, taken, since, refused>>

(* An observer may begin to count at any time. *)
Observe == taken' = 0 /\ since' = now /\ UNCHANGED <<now, bucket, refused>>

Next == Acquire \/ Expire \/ Tick \/ Observe
Spec == Init /\ [][Next]_vars
-----------------------------------------------------------------------------
(* In any period the replicas together take no more tokens than the burst   *)
(* and what the period refills: neither the last token of a bucket nor its  *)
(* expiry gives one away twice.                                             *)
NoOverdraw == taken * One <= Capacity + RatePerMinute * (now - since)

(* When a refused caller was told to come back. *)
Due == refused.at + 1000 * RetryMs(refused.level)

(* As long as nobody takes the token a refused caller waits for, there is   *)
(* one when it was told to come back, and there was none up to a            *)
(* millisecond before, whatever other callers are refused meanwhile and     *)
(* whether or not the key expires.                                          *)
WaitTold ==
  refused # NoRefusal =>
    /\ now >= Due => Level(now) >= One
    /\ now <= Due - 1000 => Level(now) < One
-----------------------------------------------------------------------------
(* What was taken and what is left never exceed what there was to take, and *)
(* a key that expires was full.                                             *)
IInv ==
  /\ now \in Nat /\ taken \in Nat /\ since \in Nat /\ since <= now
  /\ \/ bucket = NoBucket
     \/ /\ bucket.exists = TRUE
        /\ bucket.tokens \in Int /\ bucket.tokens >= 0 /\ bucket.tokens <= Capacity
        /\ bucket.ts \in Nat /\ bucket.ts <= now
        /\ bucket.expires = bucket.ts + TtlSeconds * Second
        /\ RatePerMinute > 0
  /\ Level(now) \in Int
  /\ taken * One + Level(now) <= Capacity + RatePerMinute * (now - since)

(* Since a refusal that is followed the level has only been refilled; the   *)
(* key can have expired only after a refill from empty.                     *)
RefusalInv ==
  refused # NoRefusal =>
    /\ refused.at \in Nat /\ refused.at <= now
    /\ refused.level \in Int /\ refused.level >= 0 /\ refused.level < One
    /\ RatePerMinute > 0 /\ Burst >= 1
    /\ IF bucket = NoBucket
       THEN now - refused.at >= TtlSeconds * Second
       ELSE /\ refused.at <= bucket.ts /\ bucket.tokens < One
            /\ bucket.tokens = refused.level + RatePerMinute * (bucket.ts - refused.at)
=============================================================================
