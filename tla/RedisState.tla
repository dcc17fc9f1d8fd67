----------------------------- MODULE RedisState -----------------------------
(***************************************************************************)
(* Keys of packages/redis-state/src/client.ts.  A key is a record whose    *)
(* exp is the instant Redis drops it: it is present while t < exp, so a    *)
(* key that was never set, was deleted or has expired all read alike.      *)
(* Redis runs one command at a time, so a command is one atomic step of    *)
(* the modules that use these operators.                                   *)
(***************************************************************************)
EXTENDS Integers

CONSTANT NoToken      \* the value of a lock key that is not set

(* GET returns a value at instant t. *)
Present(key, t) == t < key.exp

(* A timestamp key that is not set, and SET key <now> EX ttl. *)
NoStamp == [at |-> 0, exp |-> 0]
\* Mutant: the TTL is cut short by one.
StampShort(t, ttl) == [at |-> t, exp |-> t + ttl - 1]

Stamp(t, ttl) == [at |-> t, exp |-> t + ttl]

\* Mutant: a window that includes its last minute.
IsWithinOrAt(key, t, window) == Present(key, t) /\ t - key.at <= window

(* isWithinMinutes of the timestamp read at t: strictly less than window. *)
IsWithin(key, t, window) == Present(key, t) /\ t - key.at < window

(* A lock key, SET key token EX ttl NX, and the compare-and-delete script. *)
NoLock == [token |-> NoToken, exp |-> 0]
\* Mutant: SET without NX.
CanAlways(key, t) == TRUE
\* Mutant: the lock's TTL is cut short by one.
LockedShort(token, t, ttl) == [token |-> token, exp |-> t + ttl - 1]
\* Mutant: a script that never matches.
ReleasedNever(key, token, t) == key

CanAcquire(key, t) == ~Present(key, t)
Locked(token, t, ttl) == [token |-> token, exp |-> t + ttl]
Released(key, token, t) ==
  IF Present(key, t) /\ key.token = token THEN NoLock ELSE key

(* What is left of a key at instant t: Redis forgets an expired one. *)
Swept(key, empty, t) == IF Present(key, t) THEN key ELSE empty
=============================================================================
