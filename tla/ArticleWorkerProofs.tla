------------------------- MODULE ArticleWorkerProofs -------------------------
(***************************************************************************)
(* Proofs about ArticleWorker, for every set of URLs, jobs and deliveries, *)
(* every window and TTL its assumptions allow, and every set of faults:    *)
(* types; the lock; stored hashes; what the deliveries do when Redis and   *)
(* the topic do not fail; the marker, the windows of jobs and the guard    *)
(* they implement.                                                         *)
(***************************************************************************)
EXTENDS ArticleWorker, SequenceTheorems, TLAPS

Pcs == {"unused"} \cup Active \cup Ended
Stamps == [at: Nat, exp: Nat]
Locks == [token: Deliveries \cup {NoToken}, exp: Nat]
Contents == [hash: Versions \cup {NoVersion}, exp: Nat]

USE UrlAssumption, WindowAssumption, TtlAssumption, JobAssumption,
    GapAssumption, NoneAssumption

-----------------------------------------------------------------------------
(* The key operators of RedisState return keys. *)
LEMMA StampType == \A t, ttl \in Nat : Stamp(t, ttl) \in Stamps
BY DEF Stamp, Stamps

LEMMA LockedType ==
  \A d \in Deliveries, t, ttl \in Nat : Locked(d, t, ttl) \in Locks
BY DEF Locked, Locks

LEMMA EmptyKeyTypes ==
  NoStamp \in Stamps /\ NoLock \in Locks /\ NoContent \in Contents
BY DEF NoStamp, NoLock, NoContent, Stamps, Locks, Contents

LEMMA SweptType ==
  ASSUME NEW S, NEW key \in S, NEW empty \in S, NEW t
  PROVE  Swept(key, empty, t) \in S
BY DEF Swept

LEMMA ReleasedType ==
  ASSUME NEW key \in Locks, NEW d, NEW t
  PROVE  Released(key, d, t) \in Locks
BY EmptyKeyTypes DEF Released

(* A delivery's URL and window, read off its job. *)
LEMMA UrlType ==
  ASSUME TypeOK, NEW d \in Deliveries
  PROVE  Url(d) \in Urls /\ Window(d) \in Nat \ {0}
BY DEF Deliveries, JobOf, Url, Window

-----------------------------------------------------------------------------
(* The labels every action goes to. *)
LEMMA Labels ==
  {"check", "lock", "recheck", "claim", "extract", "sync", "compare",
   "publish", "store", "confirm", "release", "failed"} \subseteq Pcs
BY DEF Pcs, Active, Holding, Extracting, Ended

(* Moving a delivery to a label keeps pc's type. *)
LEMMA GotoType ==
  ASSUME TypeOK, NEW d \in Deliveries, NEW l \in Pcs, Goto(d, l)
  PROVE  pc' \in [Deliveries -> Pcs]
BY DEF TypeOK, Goto, Pcs

LEMMA SettleType ==
  ASSUME TypeOK, NEW d \in Deliveries, NEW v, Settle(d, v)
  PROVE  /\ pc' \in [Deliveries -> Pcs]
         /\ jobState' \in [Jobs -> {"outstanding", "acked", "dead"}]
<1>1. pc' \in [Deliveries -> Pcs]
  BY DEF Settle, Goto, TypeOK, Pcs, Ended
<1>2. jobState' \in [Jobs -> {"outstanding", "acked", "dead"}]
  BY UrlType DEF Settle, TypeOK
<1> QED BY <1>1, <1>2

LEMMA ForgetType ==
  ASSUME TypeOK, NEW d \in Deliveries, Forget(d)
  PROVE  /\ event' \in [Deliveries -> Versions \cup {NoVersion}]
         /\ lockedAt' \in [Deliveries -> Nat]
         /\ verdict' \in [Deliveries -> {"ack", "nack"}]
BY DEF Forget, TypeOK

LEMMA StepType ==
  ASSUME TypeOK, NEW d \in Deliveries, NEW l \in Pcs,
         Continue(d, l) \/ Throw(d)
  PROVE  /\ pc' \in [Deliveries -> Pcs]
         /\ verdict' \in [Deliveries -> {"ack", "nack"}]
<1>1. CASE Continue(d, l)
  BY <1>1, GotoType DEF Continue, TypeOK
<1>2. CASE Throw(d)
  BY <1>2, GotoType, Labels DEF Throw, TypeOK
<1> QED BY <1>1, <1>2

-----------------------------------------------------------------------------
(* Each action keeps the types. *)
LEMMA RedisUnchanged ==
  ASSUME TypeOK, UNCHANGED redisVars
  PROVE  /\ marker' \in [Urls -> Stamps]
         /\ lock' \in [Urls -> Locks]
         /\ content' \in [Urls -> Contents]
BY DEF TypeOK, redisVars, Stamps, Locks, Contents

LEMMA DeliverType ==
  ASSUME TypeOK, NEW m \in Jobs, Deliver(m)
  PROVE  /\ TypeOK'
         /\ \E d \in Deliveries : Goto(d, "check")
<1>1. attempts[m] \in 0..MaxAttempts /\ attempts[m] < MaxAttempts
  BY DEF Deliver, TypeOK
<1>2. attempts[m] + 1 \in 1..MaxAttempts
  BY <1>1
<1>3. attempts' \in [Jobs -> 0..MaxAttempts]
  BY <1>2 DEF Deliver, TypeOK
<1>4. <<m, attempts[m] + 1>> \in Deliveries
  BY <1>2 DEF Deliveries
<1>5. pc' \in [Deliveries -> Pcs]
  BY <1>4, GotoType, Labels DEF Deliver
<1> QED BY <1>3, <1>4, <1>5
        DEF Deliver, TypeOK, redisVars, localVars, history, Pcs

LEMMA CheckMarkerType ==
  ASSUME TypeOK, NEW d \in Deliveries, CheckMarker(d)
  PROVE  TypeOK'
<1>1. /\ pc' \in [Deliveries -> Pcs]
      /\ jobState' \in [Jobs -> {"outstanding", "acked", "dead"}]
  BY SettleType, GotoType, Labels DEF CheckMarker, TypeOK
<1> QED BY <1>1 DEF CheckMarker, TypeOK, redisVars, localVars, history, Pcs

LEMMA AcquireLockType ==
  ASSUME TypeOK, NEW d \in Deliveries, AcquireLock(d)
  PROVE  TypeOK'
<1>1. /\ pc' \in [Deliveries -> Pcs]
      /\ jobState' \in [Jobs -> {"outstanding", "acked", "dead"}]
  BY SettleType, GotoType, Labels DEF AcquireLock, TypeOK
<1>a. Locked(d, now, LockTtl) \in Locks
  BY LockedType DEF TypeOK
<1>2. lock' \in [Urls -> Locks]
  BY <1>a DEF AcquireLock, TypeOK, Locks
<1>3. lockedAt' \in [Deliveries -> Nat]
  BY DEF AcquireLock, TypeOK
<1> QED BY <1>1, <1>2, <1>3 DEF AcquireLock, TypeOK, history, Pcs, Locks

LEMMA RecheckMarkerType ==
  ASSUME TypeOK, NEW d \in Deliveries, RecheckMarker(d)
  PROVE  TypeOK'
<1>1. /\ pc' \in [Deliveries -> Pcs]
      /\ verdict' \in [Deliveries -> {"ack", "nack"}]
  BY StepType, Labels DEF RecheckMarker, RedisThrows
<1> QED BY <1>1 DEF RecheckMarker, TypeOK, redisVars, queueVars, history, Pcs

LEMMA ClaimType ==
  ASSUME TypeOK, NEW d \in Deliveries, Claim(d)
  PROVE  TypeOK'
<1>1. /\ pc' \in [Deliveries -> Pcs]
      /\ verdict' \in [Deliveries -> {"ack", "nack"}]
  BY StepType, Labels DEF Claim, RedisThrows
<1>a. Stamp(now, AttemptTtl) \in Stamps
  BY StampType DEF TypeOK
<1>2. marker' \in [Urls -> Stamps]
  BY <1>a DEF Claim, TypeOK, Stamps
<1>3. started' \in [Urls -> Nat \cup {Never}]
  BY DEF Claim, TypeOK
<1>4. tried' \in [Urls -> Nat \cup {Never}]
  BY DEF Claim, TypeOK
<1> QED BY <1>1, <1>2, <1>3, <1>4 DEF Claim, TypeOK, queueVars, Pcs, Stamps

LEMMA ExtractType ==
  ASSUME TypeOK, NEW d \in Deliveries, Extract(d)
  PROVE  TypeOK'
<1>1. /\ pc' \in [Deliveries -> Pcs]
      /\ verdict' \in [Deliveries -> {"ack", "nack"}]
  BY StepType, Labels DEF Extract, AfterExtraction
<1>2. event' \in [Deliveries -> Versions \cup {NoVersion}]
  BY DEF Extract, TypeOK
<1> QED BY <1>1, <1>2 DEF Extract, TypeOK, redisVars, queueVars, history, Pcs

LEMMA SyncCorpusType ==
  ASSUME TypeOK, NEW d \in Deliveries, SyncCorpus(d)
  PROVE  TypeOK'
<1>1. /\ pc' \in [Deliveries -> Pcs]
      /\ verdict' \in [Deliveries -> {"ack", "nack"}]
  BY StepType, Labels DEF SyncCorpus, AfterExtraction
<1> QED BY <1>1 DEF SyncCorpus, TypeOK, redisVars, queueVars, history, Pcs

LEMMA CompareHashType ==
  ASSUME TypeOK, NEW d \in Deliveries, CompareHash(d)
  PROVE  TypeOK'
<1>1. /\ pc' \in [Deliveries -> Pcs]
      /\ verdict' \in [Deliveries -> {"ack", "nack"}]
  BY StepType, Labels DEF CompareHash, AfterCompare, RedisThrows
<1> QED BY <1>1 DEF CompareHash, TypeOK, redisVars, queueVars, history, Pcs

LEMMA PublishType ==
  ASSUME TypeOK, NEW d \in Deliveries, Publish(d), event[d] \in Versions
  PROVE  TypeOK'
<1>1. /\ pc' \in [Deliveries -> Pcs]
      /\ verdict' \in [Deliveries -> {"ack", "nack"}]
  BY StepType, Labels DEF Publish, PublishThrows
<1>a. topic \in [Urls -> Seq(Versions)] /\ Url(d) \in Urls
  BY UrlType DEF TypeOK
<1>b. Append(topic[Url(d)], event[d]) \in Seq(Versions)
  BY <1>a, AppendProperties
<1>2. topic' \in [Urls -> Seq(Versions)]
  BY <1>a, <1>b DEF Publish, PublishThrows
<1> QED BY <1>1, <1>2 DEF Publish, TypeOK, redisVars, queueVars, history, Pcs

LEMMA StoreHashType ==
  ASSUME TypeOK, NEW d \in Deliveries, StoreHash(d)
  PROVE  TypeOK'
<1>1. /\ pc' \in [Deliveries -> Pcs]
      /\ verdict' \in [Deliveries -> {"ack", "nack"}]
  BY StepType, Labels DEF StoreHash, RedisThrows
<1>a. [hash |-> event[d], exp |-> now + ContentTtl] \in Contents
  BY DEF TypeOK, Contents
<1>2. content' \in [Urls -> Contents]
  BY <1>a DEF StoreHash, TypeOK, Contents
<1> QED BY <1>1, <1>2 DEF StoreHash, TypeOK, queueVars, history, Pcs, Contents

LEMMA ConfirmType ==
  ASSUME TypeOK, NEW d \in Deliveries, Confirm(d)
  PROVE  TypeOK'
<1>1. /\ pc' \in [Deliveries -> Pcs]
      /\ verdict' \in [Deliveries -> {"ack", "nack"}]
  BY StepType, Labels DEF Confirm, RedisThrows
<1>a. /\ Stamp(now, Window(d)) \in Stamps
      /\ [at |-> now, window |-> Window(d), version |-> event[d]] \in [at: Nat, window: Nat, version: Versions \cup {NoVersion}]
  BY StampType, UrlType DEF TypeOK
<1>2. marker' \in [Urls -> Stamps]
  BY <1>a DEF Confirm, TypeOK, Stamps
<1>3. done' \in [Urls -> [at: Nat, window: Nat, version: Versions \cup {NoVersion}]]
  BY <1>a DEF Confirm, TypeOK
<1>4. tried' \in [Urls -> Nat \cup {Never}]
  BY DEF Confirm, TypeOK
<1> QED BY <1>1, <1>2, <1>3, <1>4 DEF Confirm, TypeOK, queueVars, Pcs, Stamps

LEMMA ReleaseType ==
  ASSUME TypeOK, NEW d \in Deliveries, Release(d)
  PROVE  TypeOK'
<1>1. /\ pc' \in [Deliveries -> Pcs]
      /\ jobState' \in [Jobs -> {"outstanding", "acked", "dead"}]
  BY SettleType DEF Release
<1>a. Released(lock[Url(d)], d, now) \in Locks
  BY ReleasedType, UrlType DEF TypeOK, Locks
<1>2. lock' \in [Urls -> Locks]
  BY <1>a DEF Release, TypeOK, Locks
<1>3. Forget(d)
  BY DEF Release
<1> QED BY <1>1, <1>2, <1>3, ForgetType DEF Release, TypeOK, history, Pcs, Locks

LEMMA CrashType ==
  ASSUME TypeOK, NEW d \in Deliveries, Crash(d)
  PROVE  TypeOK'
<1>1. pc' \in [Deliveries -> Pcs]
  BY GotoType, Labels DEF Crash
<1>2. Forget(d)
  BY DEF Crash
<1> QED BY <1>1, <1>2, ForgetType DEF Crash, TypeOK, redisVars, queueVars, history, Pcs

LEMMA DeadLetterType ==
  ASSUME TypeOK, NEW m \in Jobs, DeadLetter(m)
  PROVE  TypeOK'
BY DEF DeadLetter, TypeOK, redisVars, localVars, history

LEMMA TickType ==
  ASSUME TypeOK, Tick
  PROVE  TypeOK'
<1>1. now' \in Nat
  BY DEF Tick, TypeOK
<1>2. /\ marker' \in [Urls -> Stamps]
      /\ lock' \in [Urls -> Locks]
      /\ content' \in [Urls -> Contents]
  BY SweptType, EmptyKeyTypes DEF Tick, TypeOK, Stamps, Locks, Contents
<1> QED BY <1>1, <1>2
        DEF Tick, TypeOK, queueVars, localVars, history, Stamps, Locks, Contents

-----------------------------------------------------------------------------
(* A delivery about to compare, publish or store a hash has extracted one.  *)
HasEvent ==
  \A d \in Deliveries :
    pc[d] \in {"compare", "publish", "store"} => event[d] \in Versions

TypeInv == TypeOK /\ HasEvent

LEMMA TypeInit == Init => TypeInv
<1> SUFFICES ASSUME Init PROVE TypeInv OBVIOUS
<1>1. <<>> \in Seq(Versions)
  BY EmptySeq
<1>3. now \in Nat /\ topic \in [Urls -> Seq(Versions)]
  BY <1>1 DEF Init
<1>4. marker \in [Urls -> Stamps] /\ lock \in [Urls -> Locks]
      /\ content \in [Urls -> Contents]
  BY EmptyKeyTypes DEF Init
<1>6. done \in [Urls -> [at: Nat, window: Nat, version: Versions \cup {NoVersion}]]
  BY DEF Init, NeverDone
<1>7. TypeOK
  BY <1>3, <1>4, <1>6 DEF Init, TypeOK, Stamps, Locks, Contents
<1>8. HasEvent
  BY DEF Init, HasEvent
<1> QED BY <1>7, <1>8 DEF TypeInv

(* The steps of a handler keep HasEvent: only Extract reaches "compare",    *)
(* with an event, and the locals are kept until the lock is released.       *)
LEMMA HandleHasEvent ==
  ASSUME TypeInv, NEW d \in Deliveries, Handle(d)
  PROVE  HasEvent'
<1> USE DEF TypeInv, HasEvent, TypeOK, Goto, Continue, Throw
<1>1. CASE CheckMarker(d)
  BY <1>1 DEF CheckMarker, Settle, localVars
<1>2. CASE AcquireLock(d)
  BY <1>2 DEF AcquireLock, Settle
<1>3. CASE RecheckMarker(d)
  BY <1>3 DEF RecheckMarker, RedisThrows
<1>4. CASE Claim(d)
  BY <1>4 DEF Claim, RedisThrows
<1>5. CASE Extract(d)
  BY <1>5 DEF Extract, AfterExtraction
<1>6. CASE SyncCorpus(d)
  BY <1>6 DEF SyncCorpus, AfterExtraction
<1>7. CASE CompareHash(d)
  BY <1>7 DEF CompareHash, AfterCompare, RedisThrows
<1>8. CASE Publish(d)
  BY <1>8 DEF Publish, PublishThrows
<1>9. CASE StoreHash(d)
  BY <1>9 DEF StoreHash, RedisThrows
<1>10. CASE Confirm(d)
  BY <1>10 DEF Confirm, RedisThrows
<1>11. CASE Release(d)
  BY <1>11 DEF Release, Settle, Forget
<1> QED BY <1>1, <1>2, <1>3, <1>4, <1>5, <1>6, <1>7, <1>8, <1>9, <1>10, <1>11
        DEF Handle

LEMMA HandleType ==
  ASSUME TypeInv, NEW d \in Deliveries, Handle(d)
  PROVE  TypeOK'
<1>1. CASE Publish(d)
  <2>1. event[d] \in Versions
    BY <1>1 DEF TypeInv, HasEvent, Publish
  <2> QED BY <1>1, <2>1, PublishType DEF TypeInv
<1>2. CASE ~Publish(d)
  BY <1>2, CheckMarkerType, AcquireLockType, RecheckMarkerType, ClaimType,
     ExtractType, SyncCorpusType, CompareHashType, StoreHashType, ConfirmType,
     ReleaseType
     DEF TypeInv, Handle
<1> QED BY <1>1, <1>2

LEMMA TypeNext == TypeInv /\ [Next]_vars => TypeInv'
<1> SUFFICES ASSUME TypeInv, [Next]_vars PROVE TypeInv'
  OBVIOUS
<1>1. ASSUME NEW d \in Deliveries, Handle(d) PROVE TypeInv'
  BY <1>1, HandleType, HandleHasEvent DEF TypeInv
<1>2. ASSUME NEW d \in Deliveries, Crash(d) PROVE TypeInv'
  BY <1>2, CrashType
     DEF TypeInv, HasEvent, Crash, Forget, Goto, TypeOK
<1>3. ASSUME NEW m \in Jobs, Deliver(m) PROVE TypeInv'
  <2>1. PICK d \in Deliveries : Goto(d, "check")
    BY <1>3, DeliverType DEF TypeInv
  <2> QED BY <1>3, <2>1, DeliverType
          DEF TypeInv, HasEvent, Deliver, Goto, TypeOK, localVars
<1>4. ASSUME NEW m \in Jobs, DeadLetter(m) PROVE TypeInv'
  BY <1>4, DeadLetterType DEF TypeInv, HasEvent, DeadLetter, localVars
<1>5. CASE Tick
  BY <1>5, TickType DEF TypeInv, HasEvent, Tick, localVars
<1>6. CASE UNCHANGED vars
  BY <1>6 DEF TypeInv, TypeOK, HasEvent, vars, redisVars, queueVars, localVars,
              history
<1> QED BY <1>1, <1>2, <1>3, <1>4, <1>5, <1>6 DEF Next, Idle

(* Every reachable state has the declared types. *)
THEOREM TypeCorrect == Spec => []TypeOK
<1>1. TypeInv => TypeOK
  BY DEF TypeInv
<1> QED BY <1>1, TypeInit, TypeNext, PTL DEF Spec

-----------------------------------------------------------------------------
(* Two holders of one URL would both own its lock. *)
LEMMA LockedFields ==
  \A d, t, ttl : Locked(d, t, ttl).token = d /\ Locked(d, t, ttl).exp = t + ttl
BY DEF Locked

LEMMA OwnersExclude == HolderOwnsLock => MutualExclusion
<1> SUFFICES ASSUME HolderOwnsLock,
                    NEW d \in Deliveries, NEW e \in Deliveries,
                    Url(d) = Url(e), pc[d] \in Holding, pc[e] \in Holding
             PROVE  d = e
  BY DEF MutualExclusion
<1>1. Locked(d, lockedAt[d], LockTtl) = Locked(e, lockedAt[e], LockTtl)
  BY DEF HolderOwnsLock
<1> QED BY <1>1, LockedFields

LEMMA LockInit == Init => HolderOwnsLock
BY DEF Init, HolderOwnsLock, Holding, Extracting

(* Steps under the lock that leave the lock, the clock and the locals it    *)
(* depends on alone.                                                        *)
LEMMA LockKept ==
  ASSUME TypeOK, HolderOwnsLock, NEW d \in Deliveries, NEW l, Goto(d, l),
         pc[d] \in Holding \/ l \notin Holding,
         UNCHANGED <<lock, now, lockedAt>>
  PROVE  HolderOwnsLock'
BY DEF HolderOwnsLock, Goto, TypeOK, Url

LEMMA SectionKept ==
  ASSUME TypeOK, HolderOwnsLock, NEW d \in Deliveries, pc[d] \in Holding,
         NEW l, Continue(d, l) \/ Throw(d),
         UNCHANGED <<lock, now, lockedAt>>
  PROVE  HolderOwnsLock'
BY LockKept DEF Continue, Throw

(* A delivery that is not holding may lose its lockedAt and change its job. *)
LEMMA OthersKept ==
  ASSUME TypeOK, HolderOwnsLock, NEW d \in Deliveries,
         pc'[d] \notin Holding,
         \A e \in Deliveries \ {d} :
           /\ pc'[e] = pc[e] /\ lockedAt'[e] = lockedAt[e]
           /\ pc[e] \in Holding => lock'[Url(e)] = lock[Url(e)],
         now' = now
  PROVE  HolderOwnsLock'
<1> SUFFICES ASSUME NEW e \in Deliveries, pc'[e] \in Holding
             PROVE  /\ lock'[Url(e)'] = Locked(e, lockedAt'[e], LockTtl)
                    /\ now' < lockedAt'[e] + LockTtl
  BY DEF HolderOwnsLock
<1>1. e # d /\ pc[e] \in Holding
  OBVIOUS
<1>2. Url(e)' = Url(e)
  BY <1>1 DEF Url
<1>3. lock[Url(e)] = Locked(e, lockedAt[e], LockTtl) /\ now < lockedAt[e] + LockTtl
  BY <1>1 DEF HolderOwnsLock
<1> QED BY <1>1, <1>2, <1>3

LEMMA AcquireKeepsLock ==
  ASSUME TypeOK, HolderOwnsLock, NEW d \in Deliveries, AcquireLock(d)
  PROVE  HolderOwnsLock'
<1> USE UrlType
<1>1. CASE CanAcquire(lock[Url(d)], now) /\ lock' = [lock EXCEPT ![Url(d)] = Locked(d, now, LockTtl)]
  <2>1. \A e \in Deliveries : pc[e] \in Holding => Url(e) # Url(d)
    BY <1>1, LockedFields DEF HolderOwnsLock, CanAcquire, Present
  <2>2. \A e \in Deliveries \ {d} :
           /\ pc'[e] = pc[e] /\ lockedAt'[e] = lockedAt[e]
           /\ pc[e] \in Holding => lock'[Url(e)] = lock[Url(e)]
    BY <1>1, <2>1 DEF AcquireLock, Settle, Goto, TypeOK
  <2>3. CASE pc'[d] \notin Holding
    BY <2>2, <2>3, OthersKept DEF AcquireLock
  <2>4. CASE pc'[d] \in Holding
    <3>1. lockedAt'[d] = now
      <4>1. ASSUME NEW v \in {"ack", "nack"}, Settle(d, v)
            PROVE  FALSE
        <5>1. pc'[d] \in {"acked", "failed"}
          BY <4>1 DEF Settle, Goto, TypeOK
        <5> QED BY <2>4, <5>1 DEF Holding, Extracting
      <4>2. lockedAt' = [lockedAt EXCEPT ![d] = now]
        BY <4>1 DEF AcquireLock
      <4>3. lockedAt \in [Deliveries -> Nat]
        BY DEF TypeOK
      <4> QED BY <4>2, <4>3
    <3>2. lock'[Url(d)] = Locked(d, now, LockTtl)
      BY <1>1 DEF TypeOK
    <3>3. now' = now /\ now \in Nat
      BY DEF AcquireLock, TypeOK
    <3> QED BY <2>2, <3>1, <3>2, <3>3 DEF HolderOwnsLock, Url
  <2> QED BY <2>3, <2>4
<1>2. CASE lock' = lock /\ lockedAt' = lockedAt /\ \E v \in {"ack", "nack"} : Settle(d, v)
  BY <1>2, LockKept DEF AcquireLock, Settle, Holding, Extracting
<1> QED BY <1>1, <1>2 DEF AcquireLock

LEMMA ReleaseKeepsLock ==
  ASSUME TypeOK, HolderOwnsLock, NEW d \in Deliveries, Release(d)
  PROVE  HolderOwnsLock'
<1> USE UrlType
<1>1. pc[d] \in Holding
  BY DEF Release, Holding
<1>2. \A e \in Deliveries \ {d} : pc[e] \in Holding => Url(e) # Url(d)
  BY <1>1, OwnersExclude DEF MutualExclusion
<1>3. pc'[d] \notin Holding
  BY DEF Release, Settle, Goto, TypeOK, Holding, Extracting
<1>4. \A e \in Deliveries \ {d} :
         /\ pc'[e] = pc[e] /\ lockedAt'[e] = lockedAt[e]
         /\ pc[e] \in Holding => lock'[Url(e)] = lock[Url(e)]
  BY <1>2 DEF Release, Settle, Goto, Forget, TypeOK
<1> QED BY <1>3, <1>4, OthersKept DEF Release

LEMMA TickKeepsLock ==
  ASSUME JobFits, TypeOK, HolderOwnsLock, Tick
  PROVE  HolderOwnsLock'
<1> SUFFICES ASSUME NEW d \in Deliveries, pc[d] \in Holding
             PROVE  /\ lock'[Url(d)] = Locked(d, lockedAt[d], LockTtl)
                    /\ now' < lockedAt[d] + LockTtl
  BY DEF HolderOwnsLock, Tick, queueVars, localVars, Url
<1> USE UrlType
<1>1. lock[Url(d)] = Locked(d, lockedAt[d], LockTtl)
  BY DEF HolderOwnsLock
<1>a. /\ now \in Nat /\ lockedAt[d] \in Nat /\ now' = now + 1
      /\ now < lockedAt[d] + MaxJob
  BY DEF Tick, TypeOK
<1>2. now' < lockedAt[d] + LockTtl
  BY <1>a DEF JobFits
<1>3. lock'[Url(d)] = Swept(lock[Url(d)], NoLock, now')
  BY DEF Tick
<1> QED BY <1>1, <1>2, <1>3, LockedFields DEF Swept, Present

LEMMA HandleKeepsLock ==
  ASSUME TypeOK, HolderOwnsLock, NEW d \in Deliveries, Handle(d)
  PROVE  HolderOwnsLock'
<1> USE DEF redisVars, queueVars, localVars
<1>1. CASE CheckMarker(d)
  BY <1>1, LockKept DEF CheckMarker, Settle, Holding, Extracting
<1>2. CASE AcquireLock(d)
  BY <1>2, AcquireKeepsLock
<1>3. CASE RecheckMarker(d)
  BY <1>3, SectionKept DEF RecheckMarker, RedisThrows, Holding
<1>4. CASE Claim(d)
  BY <1>4, SectionKept DEF Claim, RedisThrows, Holding
<1>5. CASE Extract(d)
  BY <1>5, SectionKept DEF Extract, Holding, Extracting
<1>6. CASE SyncCorpus(d)
  BY <1>6, SectionKept DEF SyncCorpus, Holding, Extracting
<1>7. CASE CompareHash(d)
  BY <1>7, SectionKept DEF CompareHash, RedisThrows, Holding, Extracting
<1>8. CASE Publish(d)
  BY <1>8, SectionKept DEF Publish, PublishThrows, Holding, Extracting
<1>9. CASE StoreHash(d)
  BY <1>9, SectionKept DEF StoreHash, RedisThrows, Holding, Extracting
<1>10. CASE Confirm(d)
  BY <1>10, SectionKept DEF Confirm, RedisThrows, Holding, Extracting
<1>11. CASE Release(d)
  BY <1>11, ReleaseKeepsLock
<1> QED BY <1>1, <1>2, <1>3, <1>4, <1>5, <1>6, <1>7, <1>8, <1>9, <1>10, <1>11
        DEF Handle

LEMMA LockNext ==
  JobFits /\ TypeOK /\ HolderOwnsLock /\ [Next]_vars => HolderOwnsLock'
<1> SUFFICES ASSUME JobFits, TypeOK, HolderOwnsLock, [Next]_vars PROVE HolderOwnsLock'
  OBVIOUS
<1> USE DEF redisVars, queueVars, localVars
<1>1. ASSUME NEW d \in Deliveries, Handle(d) PROVE HolderOwnsLock'
  BY <1>1, HandleKeepsLock
<1>2. ASSUME NEW d \in Deliveries, Crash(d) PROVE HolderOwnsLock'
  <2>1. pc'[d] \notin Holding
    BY <1>2 DEF Crash, Goto, TypeOK, Holding, Extracting
  <2> QED BY <1>2, <2>1, OthersKept DEF Crash, Goto, Forget, TypeOK
<1>3. ASSUME NEW m \in Jobs, Deliver(m) PROVE HolderOwnsLock'
  <2>0. PICK d \in Deliveries : Goto(d, "check")
    BY <1>3, DeliverType
  <2>1. pc'[d] \notin Holding
    BY <2>0 DEF Goto, TypeOK, Holding, Extracting
  <2> QED BY <1>3, <2>0, <2>1, OthersKept DEF Deliver, Goto, TypeOK
<1>4. ASSUME NEW m \in Jobs, DeadLetter(m) PROVE HolderOwnsLock'
  BY <1>4 DEF DeadLetter, HolderOwnsLock, Url
<1>5. CASE Tick
  BY <1>5, TickKeepsLock
<1>6. CASE UNCHANGED vars
  BY <1>6 DEF vars, HolderOwnsLock, Url
<1> QED BY <1>1, <1>2, <1>3, <1>4, <1>5, <1>6 DEF Next, Idle

(* If a job fits in its lock, a running handler never loses the lock it     *)
(* acquired, ...                                                            *)
THEOREM LockSafe == JobFits => (Spec => []HolderOwnsLock)
<1> SUFFICES ASSUME JobFits PROVE Spec => []HolderOwnsLock
  OBVIOUS
<1>1. TypeOK /\ HolderOwnsLock /\ [Next]_vars => HolderOwnsLock'
  BY LockNext
<1> QED BY <1>1, TypeCorrect, LockInit, PTL DEF Spec

(* ... so a URL is extracted by one delivery at a time, under every fault.  *)
THEOREM ExtractedOnce == JobFits => (Spec => []MutualExclusion)
<1> SUFFICES ASSUME JobFits PROVE Spec => []MutualExclusion
  OBVIOUS
<1>1. Spec => []HolderOwnsLock
  BY LockSafe
<1> QED BY <1>1, OwnersExclude, PTL

-----------------------------------------------------------------------------
(* Of a handler's steps only its release takes a lock away, its own. *)
LEMMA OthersLockKept ==
  ASSUME TypeOK, NEW d \in Deliveries, Handle(d), NEW u \in Urls,
         Present(lock[u], now), lock'[u] # lock[u]
  PROVE  lock[u].token = d /\ pc[d] = "release" /\ pc'[d] # "release"
<1> USE UrlType DEF redisVars
<1>1. ~AcquireLock(d)
  BY DEF AcquireLock, CanAcquire, TypeOK
<1>2. Release(d)
  BY <1>1 DEF Handle, CheckMarker, RecheckMarker, Claim, Extract, SyncCorpus,
              CompareHash, Publish, StoreHash, Confirm
<1>3. u = Url(d) /\ lock[u].token = d
  BY <1>2 DEF Release, Released, TypeOK
<1>4. pc[d] = "release" /\ pc'[d] \in {"acked", "failed"}
  BY <1>2 DEF Release, Settle, Goto, TypeOK
<1> QED BY <1>3, <1>4

(* A delivery that outlived its lock cannot delete its successor's, also    *)
(* when jobs do not fit their lock.                                         *)
THEOREM ForeignLocksKept == Spec => LockReleasedByOwner
<1>1. ASSUME TypeOK, [Next]_vars, NEW u \in Urls,
             Present(lock[u], now), now' = now, lock'[u] # lock[u]
      PROVE  pc[lock[u].token] = "release" /\ pc'[lock[u].token] # "release"
  <2>1. lock' # lock /\ now' # now + 1
    BY <1>1 DEF TypeOK
  <2>2. ~(Idle \/ UNCHANGED vars) /\ ~Tick
    BY <2>1 DEF Idle, Tick, vars, redisVars
  <2>3. \A d \in Deliveries : ~Crash(d)
    BY <2>1 DEF Crash, redisVars
  <2>4. \A m \in Jobs : ~Deliver(m) /\ ~DeadLetter(m)
    BY <2>1 DEF Deliver, DeadLetter, redisVars
  <2>5. \E d \in Deliveries : Handle(d)
    BY <1>1, <2>2, <2>3, <2>4 DEF Next
  <2> QED BY <1>1, <2>5, OthersLockKept
<1>2. TypeOK /\ [Next]_vars =>
        [\A u \in Urls :
           Present(lock[u], now) /\ now' = now /\ lock'[u] # lock[u] =>
             pc[lock[u].token] = "release" /\ pc'[lock[u].token] # "release"]_vars
  BY <1>1
<1> QED BY <1>2, TypeCorrect, PTL DEF Spec, LockReleasedByOwner

-----------------------------------------------------------------------------
(* A stored hash is in the topic, and so is the one about to be stored; a   *)
(* key without a hash has expired.                                          *)
InTopic(v, u) == \E i \in 1..Len(topic[u]) : topic[u][i] = v

HashInv ==
  /\ \A u \in Urls : IF content[u].hash = NoVersion THEN content[u].exp = 0
                     ELSE InTopic(content[u].hash, u)
  /\ \A d \in Deliveries : pc[d] = "store" => InTopic(event[d], Url(d))

(* Publishing keeps what is in the topic, and adds the event. *)
LEMMA PublishAppends ==
  ASSUME TypeOK, NEW d \in Deliveries, event[d] \in Versions,
         topic' = [topic EXCEPT ![Url(d)] = Append(@, event[d])], event' = event
  PROVE  /\ \A v, u : u \in Urls /\ InTopic(v, u) => InTopic(v, u)'
         /\ InTopic(event[d], Url(d))'
<1>1. topic[Url(d)] \in Seq(Versions) /\ Url(d) \in Urls
  BY UrlType DEF TypeOK
<1>2. topic'[Url(d)] = Append(topic[Url(d)], event[d])
  BY <1>1 DEF TypeOK
<1>3. /\ Len(topic'[Url(d)]) = Len(topic[Url(d)]) + 1
      /\ Len(topic[Url(d)]) \in Nat
      /\ \A i \in 1..Len(topic[Url(d)]) : topic'[Url(d)][i] = topic[Url(d)][i]
      /\ topic'[Url(d)][Len(topic[Url(d)]) + 1] = event[d]
  BY <1>1, <1>2, AppendProperties
<1>4. \A u \in Urls : u # Url(d) => topic'[u] = topic[u]
  BY DEF TypeOK
<1>5. ASSUME NEW v, NEW u \in Urls, NEW i \in 1..Len(topic[u]), topic[u][i] = v
      PROVE  InTopic(v, u)'
  <2>1. CASE u = Url(d)
    <3>1. i \in 1..Len(topic'[u]) /\ topic'[u][i] = v
      BY <1>3, <1>5, <2>1
    <3> QED BY <3>1 DEF InTopic
  <2>2. CASE u # Url(d)
    BY <1>4, <1>5, <2>2 DEF InTopic
  <2> QED BY <2>1, <2>2
<1>6. InTopic(event[d], Url(d))'
  <2>1. Len(topic[Url(d)]) + 1 \in 1..Len(topic'[Url(d)])
    BY <1>3
  <2>2. event'[d] = event[d] /\ Url(d)' = Url(d)
    BY DEF Url
  <2> QED BY <2>1, <2>2, <1>3 DEF InTopic
<1> QED BY <1>5, <1>6 DEF InTopic

(* Whatever leaves the topic, the stored hashes and the events alone, or    *)
(* goes to a label other than "store".                                      *)
LEMMA HashKept ==
  ASSUME TypeOK, HashInv, topic' = topic, content' = content,
         \A d \in Deliveries : pc'[d] = "store" => event'[d] = event[d] /\
           (pc[d] = "store" \/ InTopic(event[d], Url(d)))
  PROVE  HashInv'
<1>1. \A v, u : InTopic(v, u) => InTopic(v, u)'
  BY DEF InTopic
<1> QED BY <1>1 DEF HashInv, Url

LEMMA PresentHash ==
  ASSUME TypeOK, HashInv, NEW u \in Urls, Present(content[u], now)
  PROVE  InTopic(content[u].hash, u)
<1>1. now \in Nat /\ now < content[u].exp
  BY DEF TypeOK, Present
<1>2. content[u].exp # 0
  BY <1>1
<1> QED BY <1>2 DEF HashInv

LEMMA HandleHash ==
  ASSUME TypeInv, HashInv, NEW d \in Deliveries, Handle(d)
  PROVE  HashInv'
<1>0. TypeOK
  BY DEF TypeInv
<1> USE UrlType DEF Goto, Continue, Throw
<1>1. CASE CheckMarker(d)
  BY <1>0, <1>1, HashKept DEF CheckMarker, Settle, TypeOK, redisVars, localVars
<1>2. CASE AcquireLock(d)
  BY <1>0, <1>2, HashKept DEF AcquireLock, Settle, TypeOK
<1>3. CASE RecheckMarker(d)
  BY <1>0, <1>3, HashKept DEF RecheckMarker, RedisThrows, TypeOK, redisVars
<1>4. CASE Claim(d)
  BY <1>0, <1>4, HashKept DEF Claim, RedisThrows, TypeOK
<1>5. CASE Extract(d)
  BY <1>0, <1>5, HashKept DEF Extract, AfterExtraction, TypeOK, redisVars
<1>6. CASE SyncCorpus(d)
  BY <1>0, <1>6, HashKept DEF SyncCorpus, AfterExtraction, TypeOK, redisVars
<1>7. CASE CompareHash(d)
  <2>1. Unchanged(d) => InTopic(event[d], Url(d))
    BY <1>0, PresentHash DEF Unchanged
  <2> QED BY <1>0, <1>7, <2>1, HashKept DEF CompareHash, AfterCompare, RedisThrows, TypeOK, redisVars
<1>8. CASE Publish(d)
  <2>1. CASE PublishThrows(d) /\ UNCHANGED topic
    <3>1. content' = content /\ event' = event
      BY <1>8 DEF Publish, redisVars
    <3>2. pc' = [pc EXCEPT ![d] = "release"]
      BY <2>1 DEF PublishThrows
    <3>3. \A e \in Deliveries : pc'[e] = "store" => pc[e] = "store"
      BY <1>0, <3>2 DEF TypeOK
    <3> QED BY <1>0, <2>1, <3>1, <3>3, HashKept
  <2>2. CASE topic' = [topic EXCEPT ![Url(d)] = Append(@, event[d])]
    <3>1. event[d] \in Versions /\ event' = event /\ content' = content
      BY <1>8 DEF TypeInv, HasEvent, Publish, redisVars
    <3>2. /\ \A v, u : u \in Urls /\ InTopic(v, u) => InTopic(v, u)'
          /\ InTopic(event[d], Url(d))'
      BY <1>0, <2>2, <3>1, PublishAppends
    <3>3. \A e \in Deliveries \ {d} : pc'[e] = pc[e]
      BY <1>0, <1>8 DEF Publish, PublishThrows, TypeOK
    <3> QED BY <3>1, <3>2, <3>3, <1>0 DEF HashInv, Url
  <2> QED BY <1>8, <2>1, <2>2 DEF Publish
<1>9. CASE StoreHash(d)
  <2>1. CASE content' = content
    BY <1>0, <1>9, <2>1, HashKept DEF StoreHash, RedisThrows, TypeOK
  <2>2. CASE content' = [content EXCEPT ![Url(d)] = [hash |-> event[d], exp |-> now + ContentTtl]]
    <3>1. /\ topic' = topic /\ event' = event /\ event[d] \in Versions
          /\ InTopic(event[d], Url(d)) /\ \A e \in Deliveries : pc'[e] = "store" => pc[e] = "store"
      BY <1>0, <1>9 DEF StoreHash, RedisThrows, TypeInv, HasEvent, HashInv, TypeOK
    <3>2. \A v, u : InTopic(v, u) => InTopic(v, u)'
      BY <3>1 DEF InTopic
    <3>3. \A u \in Urls : content'[u] = IF u = Url(d) THEN [hash |-> event[d], exp |-> now + ContentTtl] ELSE content[u]
      BY <2>2, <1>0 DEF TypeOK
    <3> QED BY <3>1, <3>2, <3>3, NoneAssumption DEF HashInv, Url
  <2> QED BY <1>9, <2>1, <2>2 DEF StoreHash
<1>10. CASE Confirm(d)
  BY <1>0, <1>10, HashKept DEF Confirm, RedisThrows, TypeOK
<1>11. CASE Release(d)
  BY <1>0, <1>11, HashKept DEF Release, Settle, Forget, TypeOK
<1> QED BY <1>1, <1>2, <1>3, <1>4, <1>5, <1>6, <1>7, <1>8, <1>9, <1>10, <1>11
        DEF Handle

LEMMA HashNext == TypeInv /\ HashInv /\ [Next]_vars => HashInv'
<1> SUFFICES ASSUME TypeInv, HashInv, [Next]_vars PROVE HashInv'
  OBVIOUS
<1>0. TypeOK
  BY DEF TypeInv
<1>1. ASSUME NEW d \in Deliveries, Handle(d) PROVE HashInv'
  BY <1>1, HandleHash
<1>2. ASSUME NEW d \in Deliveries, Crash(d) PROVE HashInv'
  BY <1>0, <1>2, HashKept DEF Crash, Goto, Forget, TypeOK, redisVars
<1>3. ASSUME NEW m \in Jobs, Deliver(m) PROVE HashInv'
  <2>1. PICK d \in Deliveries : Goto(d, "check")
    BY <1>0, <1>3, DeliverType
  <2> QED BY <1>0, <1>3, <2>1, HashKept DEF Deliver, Goto, TypeOK, redisVars, localVars
<1>4. ASSUME NEW m \in Jobs, DeadLetter(m) PROVE HashInv'
  BY <1>0, <1>4, HashKept DEF DeadLetter, redisVars, localVars
<1>5. CASE Tick
  <2>1. /\ topic' = topic /\ pc' = pc /\ event' = event
        /\ \A u \in Urls : content'[u] = content[u] \/ content'[u] = NoContent
    BY <1>5 DEF Tick, Swept, localVars
  <2>2. \A v, u : InTopic(v, u) => InTopic(v, u)'
    BY <2>1 DEF InTopic
  <2> QED BY <2>1, <2>2 DEF HashInv, NoContent, Url
<1>6. CASE UNCHANGED vars
  BY <1>0, <1>6, HashKept DEF vars, redisVars, localVars
<1> QED BY <1>1, <1>2, <1>3, <1>4, <1>5, <1>6 DEF Next, Idle

(* No failure between publishing an event and storing its hash leaves a     *)
(* hash whose event was never published, whatever else runs.                *)
THEOREM HashesPublished == Spec => []StoredHashWasPublished
<1>1. Init => HashInv
  BY DEF Init, HashInv, NoContent
<1>2. TypeOK /\ HashInv => StoredHashWasPublished
  BY PresentHash DEF StoredHashWasPublished, InTopic
<1>3. TypeInv => TypeOK
  BY DEF TypeInv
<1> QED BY <1>1, <1>2, <1>3, TypeInit, TypeNext, HashNext, PTL DEF Spec

-----------------------------------------------------------------------------
(* What the deliveries do when Redis answers and no process dies.           *)
RedisHolds == Faults \cap {"redis", "crash"} = {}

(* A handler's step changes the pc and the locals of its delivery only, and *)
(* under the lock it stays there until it releases it.                      *)
LEMMA HandleLocal ==
  ASSUME TypeOK, NEW d \in Deliveries, Handle(d)
  PROVE  /\ now' = now
         /\ \A e \in Deliveries \ {d} :
              pc'[e] = pc[e] /\ event'[e] = event[e] /\ lockedAt'[e] = lockedAt[e]
<1> USE DEF TypeOK, Goto, Continue, Throw, RedisThrows, Settle, localVars
<1>1. CASE CheckMarker(d)
  BY <1>1 DEF CheckMarker
<1>2. CASE AcquireLock(d)
  BY <1>2 DEF AcquireLock
<1>3. CASE RecheckMarker(d)
  BY <1>3 DEF RecheckMarker
<1>4. CASE Claim(d)
  BY <1>4 DEF Claim
<1>5. CASE Extract(d)
  BY <1>5 DEF Extract
<1>6. CASE SyncCorpus(d)
  BY <1>6 DEF SyncCorpus
<1>7. CASE CompareHash(d)
  BY <1>7 DEF CompareHash
<1>8. CASE Publish(d)
  BY <1>8 DEF Publish, PublishThrows
<1>9. CASE StoreHash(d)
  BY <1>9 DEF StoreHash
<1>10. CASE Confirm(d)
  BY <1>10 DEF Confirm
<1>11. CASE Release(d)
  BY <1>11 DEF Release, Forget
<1> QED BY <1>1, <1>2, <1>3, <1>4, <1>5, <1>6, <1>7, <1>8, <1>9, <1>10, <1>11
        DEF Handle

(* Under the lock a delivery goes on holding it, until it releases it. *)
LEMMA HandleHolds ==
  ASSUME TypeOK, NEW d \in Deliveries, Handle(d), pc[d] \in Holding, ~Release(d)
  PROVE  pc'[d] \in Holding /\ lock' = lock
<1> USE DEF TypeOK, Goto, Continue, Throw, RedisThrows, Holding, Extracting, redisVars
<1>1. ~CheckMarker(d) /\ ~AcquireLock(d)
  BY DEF CheckMarker, AcquireLock
<1>3. CASE RecheckMarker(d)
  BY <1>3 DEF RecheckMarker
<1>4. CASE Claim(d)
  BY <1>4 DEF Claim
<1>5. CASE Extract(d)
  BY <1>5 DEF Extract, AfterExtraction
<1>6. CASE SyncCorpus(d)
  BY <1>6 DEF SyncCorpus, AfterExtraction
<1>7. CASE CompareHash(d)
  BY <1>7 DEF CompareHash, AfterCompare
<1>8. CASE Publish(d)
  BY <1>8 DEF Publish, PublishThrows
<1>9. CASE StoreHash(d)
  BY <1>9 DEF StoreHash
<1>10. CASE Confirm(d)
  BY <1>10 DEF Confirm
<1> QED BY <1>1, <1>3, <1>4, <1>5, <1>6, <1>7, <1>8, <1>9, <1>10 DEF Handle

(* A delivery that Pub/Sub has not made yet is unused. *)
FreshDeliveries ==
  \A m \in Jobs, n \in 1..MaxAttempts : n > attempts[m] => pc[<<m, n>>] = "unused"

LEMMA FreshNext == TypeOK /\ FreshDeliveries /\ [Next]_vars => FreshDeliveries'
<1> SUFFICES ASSUME TypeOK, FreshDeliveries, [Next]_vars PROVE FreshDeliveries'
  OBVIOUS
<1>1. ASSUME NEW d \in Deliveries, Handle(d) \/ Crash(d) PROVE FreshDeliveries'
  <2>1. pc[d] # "unused" /\ attempts' = attempts
    BY <1>1 DEF Handle, CheckMarker, AcquireLock, RecheckMarker, Claim, Extract,
                SyncCorpus, CompareHash, Publish, StoreHash, Confirm, Release,
                Crash, Active, Holding, Extracting, queueVars
  <2>2. \A e \in Deliveries \ {d} : pc'[e] = pc[e]
    BY <1>1, HandleLocal DEF Crash, Goto, TypeOK
  <2> QED BY <2>1, <2>2 DEF FreshDeliveries, Deliveries
<1>2. ASSUME NEW m \in Jobs, Deliver(m) PROVE FreshDeliveries'
  <2>1. /\ attempts[m] \in 0..MaxAttempts
        /\ attempts' = [attempts EXCEPT ![m] = attempts[m] + 1]
        /\ pc' = [pc EXCEPT ![<<m, attempts[m] + 1>>] = "check"]
    BY <1>2 DEF Deliver, Goto, TypeOK
  <2> SUFFICES ASSUME NEW k \in Jobs, NEW n \in 1..MaxAttempts, n > attempts'[k]
               PROVE  pc'[<<k, n>>] = "unused"
    BY DEF FreshDeliveries
  <2>2. n > attempts[k] /\ (k = m => n # attempts[m] + 1)
    <3>1. CASE k = m
      BY <2>1, <3>1 DEF TypeOK
    <3>2. CASE k # m
      BY <2>1, <3>2 DEF TypeOK
    <3> QED BY <3>1, <3>2
  <2>3. pc'[<<k, n>>] = pc[<<k, n>>]
    BY <2>1, <2>2 DEF TypeOK, Deliveries
  <2> QED BY <2>2, <2>3 DEF FreshDeliveries
<1>3. CASE UNCHANGED <<pc, attempts>>
  BY <1>3 DEF FreshDeliveries
<1> QED BY <1>1, <1>2, <1>3
        DEF Next, Idle, DeadLetter, Tick, vars, queueVars

(* So a delivery starts where none was. *)
LEMMA DeliverStarts ==
  ASSUME TypeOK, FreshDeliveries, NEW m \in Jobs, Deliver(m)
  PROVE  \E d \in Deliveries : Goto(d, "check") /\ pc[d] = "unused"
<1>1. attempts[m] \in 0..MaxAttempts /\ attempts[m] < MaxAttempts
  BY DEF Deliver, TypeOK
<1>2. attempts[m] + 1 \in 1..MaxAttempts /\ attempts[m] + 1 > attempts[m]
  BY <1>1
<1> QED BY <1>2 DEF Deliver, FreshDeliveries, Deliveries

(* A lock that is present is held by a delivery that is at work. *)
LockOfHolder ==
  \A u \in Urls : Present(lock[u], now) =>
    /\ lock[u].token \in Deliveries /\ Url(lock[u].token) = u
    /\ pc[lock[u].token] \in Holding

(* The lock as it was, or a delivery that now holds it. *)
LEMMA HandleLockOfHolder ==
  ASSUME RedisHolds, TypeOK, HolderOwnsLock, LockOfHolder,
         NEW d \in Deliveries, Handle(d)
  PROVE  LockOfHolder'
<1> USE UrlType
<1>1. /\ now' = now
      /\ \A e \in Deliveries \ {d} : pc'[e] = pc[e]
      /\ \A e : Url(e)' = Url(e)
  BY HandleLocal DEF Url
<1>2. CASE Release(d)
  <2>1. lock[Url(d)] = Locked(d, lockedAt[d], LockTtl) /\ now < lockedAt[d] + LockTtl
    BY <1>2 DEF HolderOwnsLock, Release, Holding
  <2>2. lock' = [lock EXCEPT ![Url(d)] = NoLock]
    BY <1>2, <2>1, LockedFields DEF Release, RedisFails, RedisHolds, Released, Present, TypeOK
  <2>3. \A u \in Urls : Present(lock'[u], now) => lock'[u] = lock[u] /\ u # Url(d)
    BY <2>2 DEF TypeOK, NoLock, Present
  <2> QED BY <1>1, <2>3 DEF LockOfHolder
<1>3. CASE AcquireLock(d) /\ CanAcquire(lock[Url(d)], now)
  <2>1. pc'[d] \in Holding
    BY <1>3 DEF AcquireLock, RedisFails, RedisHolds, Goto, TypeOK, Holding
  <2>2. \A u \in Urls : IF u = Url(d) THEN lock'[u].token = d
                                      ELSE lock'[u] = lock[u]
    <3>1. lock' = [lock EXCEPT ![Url(d)] = Locked(d, now, LockTtl)]
      BY <1>3 DEF AcquireLock, RedisFails, RedisHolds
    <3>2. Locked(d, now, LockTtl).token = d
      BY LockedFields
    <3> QED BY <3>1, <3>2 DEF TypeOK
  <2>3. ASSUME NEW u \in Urls, Present(lock'[u], now)
        PROVE  /\ lock'[u].token \in Deliveries /\ Url(lock'[u].token) = u
               /\ pc'[lock'[u].token] \in Holding
    <3>1. CASE u = Url(d)
      BY <2>1, <2>2, <3>1
    <3>2. CASE u # Url(d)
      <4>1. Present(lock[u], now) /\ lock'[u] = lock[u]
        BY <2>2, <2>3, <3>2
      <4>2. lock[u].token # d
        BY <3>2, <4>1 DEF LockOfHolder
      <4> QED BY <1>1, <4>1, <4>2 DEF LockOfHolder
    <3> QED BY <3>1, <3>2
  <2> QED BY <1>1, <2>3 DEF LockOfHolder, Url
<1>4. CASE ~Release(d) /\ pc[d] \in Holding
  BY <1>1, <1>4, HandleHolds DEF LockOfHolder
<1>5. CASE lock' = lock /\ pc[d] \notin Holding
  BY <1>1, <1>5 DEF LockOfHolder
<1>6. pc[d] \notin Holding => CheckMarker(d) \/ AcquireLock(d)
  BY DEF Handle, RecheckMarker, Claim, Extract, SyncCorpus, CompareHash,
         Publish, StoreHash, Confirm, Release, Holding, Extracting
<1>7. CASE CheckMarker(d) \/ (AcquireLock(d) /\ ~CanAcquire(lock[Url(d)], now))
  BY <1>5, <1>7 DEF CheckMarker, AcquireLock, redisVars, Holding, Extracting
<1> QED BY <1>2, <1>3, <1>4, <1>6, <1>7

LEMMA LockOfHolderNext ==
  RedisHolds /\ TypeOK /\ HolderOwnsLock /\ FreshDeliveries /\ LockOfHolder
    /\ [Next]_vars => LockOfHolder'
<1> SUFFICES ASSUME RedisHolds, TypeOK, HolderOwnsLock, FreshDeliveries, LockOfHolder,
                    [Next]_vars
             PROVE  LockOfHolder'
  OBVIOUS
<1>1. ASSUME NEW d \in Deliveries, Handle(d) PROVE LockOfHolder'
  BY <1>1, HandleLockOfHolder
<1>2. ASSUME NEW d \in Deliveries, Crash(d) PROVE LockOfHolder'
  BY <1>2 DEF Crash, RedisHolds
<1>3. ASSUME NEW m \in Jobs, Deliver(m) PROVE LockOfHolder'
  <2>1. PICK d \in Deliveries : Goto(d, "check") /\ pc[d] = "unused"
    BY <1>3, DeliverStarts
  <2>2. \A e \in Deliveries : pc[e] \in Holding => pc'[e] = pc[e]
    BY <2>1 DEF Goto, TypeOK, Holding, Extracting
  <2> QED BY <1>3, <2>2 DEF Deliver, LockOfHolder, redisVars, Url
<1>4. ASSUME NEW m \in Jobs, DeadLetter(m) PROVE LockOfHolder'
  BY <1>4 DEF DeadLetter, LockOfHolder, redisVars, Url
<1>5. CASE Tick
  <2>1. pc' = pc /\ now' = now + 1 /\ now \in Nat
    BY <1>5 DEF Tick, TypeOK
  <2>2. \A u \in Urls : Present(lock'[u], now') => lock'[u] = lock[u] /\ Present(lock[u], now)
    BY <1>5, <2>1 DEF Tick, Swept, Present, NoLock, TypeOK
  <2> QED BY <2>1, <2>2 DEF LockOfHolder, Url
<1>6. CASE UNCHANGED vars
  BY <1>6 DEF vars, redisVars, LockOfHolder, Url
<1> QED BY <1>1, <1>2, <1>3, <1>4, <1>5, <1>6 DEF Next, Idle

(* A job is given up for a taken lock only while another delivery of its    *)
(* URL is at work, as long as Redis answers and no process dies.            *)
THEOREM SkipsOnlyForWork ==
  JobFits /\ RedisHolds => (Spec => SkippedOnlyForWork)
<1> SUFFICES ASSUME JobFits, RedisHolds PROVE Spec => SkippedOnlyForWork
  OBVIOUS
<1> DEFINE Inv == FreshDeliveries /\ LockOfHolder
<1>1. Init => Inv
  BY DEF Init, FreshDeliveries, LockOfHolder, NoLock, Present, Deliveries
<1>2. TypeOK /\ HolderOwnsLock /\ Inv /\ [Next]_vars => Inv'
  BY FreshNext, LockOfHolderNext
<1>3. ASSUME TypeOK, LockOfHolder, [Next]_vars,
             NEW d \in Deliveries, pc[d] = "lock", pc'[d] = "acked"
      PROVE  \E e \in Deliveries \ {d} : Url(e) = Url(d) /\ pc[e] \in Holding
  <2>1. AcquireLock(d)
    <3>1. ASSUME NEW e \in Deliveries, Handle(e) PROVE e = d
      BY <1>3, <3>1, HandleLocal
    <3>2. \A e \in Deliveries : ~Crash(e)
      BY <1>3 DEF Crash, RedisHolds
    <3>3. \A m \in Jobs : ~Deliver(m)
      <4> SUFFICES ASSUME NEW m \in Jobs, Deliver(m) PROVE FALSE
        OBVIOUS
      <4>1. PICK e \in Deliveries : Goto(e, "check")
        BY <1>3, DeliverType
      <4> QED BY <1>3, <4>1 DEF Goto, TypeOK
    <3>4. pc' # pc
      BY <1>3
    <3>5. Handle(d)
      BY <1>3, <3>1, <3>2, <3>3, <3>4 DEF Next, Idle, DeadLetter, Tick, localVars, vars
    <3> QED BY <1>3, <3>5
            DEF Handle, CheckMarker, RecheckMarker, Claim, Extract, SyncCorpus,
                CompareHash, Publish, StoreHash, Confirm, Release
  <2>2. Present(lock[Url(d)], now)
    BY <1>3, <2>1 DEF AcquireLock, CanAcquire, RedisHolds, RedisFails, Goto, TypeOK
  <2>3. pc[d] \notin Holding
    BY <1>3 DEF Holding, Extracting
  <2> QED BY <2>2, <2>3, <1>3, UrlType DEF LockOfHolder
<1>4. TypeOK /\ LockOfHolder /\ [Next]_vars =>
        [\A d \in Deliveries : pc[d] = "lock" /\ pc'[d] = "acked" =>
           \E e \in Deliveries \ {d} : Url(e) = Url(d) /\ pc[e] \in Holding]_vars
  BY <1>3
<1>5. Spec => []HolderOwnsLock
  BY LockSafe
<1> QED BY <1>1, <1>2, <1>4, <1>5, TypeCorrect, PTL DEF Spec, SkippedOnlyForWork

-----------------------------------------------------------------------------
(* The event published last for a URL is the one whose hash is stored, or   *)
(* about to be, while writes to Redis and the topic do not fail.            *)
WritesHold == Faults \cap {"redis", "publish", "crash"} = {}

LastIs(u, v) == topic[u] # <<>> /\ topic[u][Len(topic[u])] = v
Confirming(d) == pc[d] = "confirm" /\ event[d] # NoVersion
NoneAt(u, l) == \A d \in Deliveries : Url(d) = u => pc[d] # l

LastInv ==
  /\ \A u \in Urls : Present(content[u], now) /\ NoneAt(u, "store") =>
       LastIs(u, content[u].hash)
  /\ \A d \in Deliveries : pc[d] = "store" \/ Confirming(d) => LastIs(Url(d), event[d])

LEMMA Alone ==
  ASSUME MutualExclusion, NEW d \in Deliveries, pc[d] \in Holding
  PROVE  \A e \in Deliveries \ {d} : pc[e] \in Holding => Url(e) # Url(d)
BY DEF MutualExclusion

(* Steps that publish and store nothing. *)
LEMMA LastKept ==
  ASSUME LastInv, topic' = topic,
         \A u \in Urls : Present(content'[u], now') =>
           content'[u] = content[u] /\ Present(content[u], now),
         \A d \in Deliveries :
           /\ pc[d] = "store" => pc'[d] = "store"
           /\ pc'[d] = "store" \/ Confirming(d)' =>
                event'[d] = event[d] /\ LastIs(Url(d), event[d])
  PROVE  LastInv'
<1>1. \A u, v : LastIs(u, v)' <=> LastIs(u, v)
  BY DEF LastIs
<1>2. \A d : Url(d)' = Url(d)
  BY DEF Url
<1>3. ASSUME NEW u \in Urls, Present(content'[u], now'), NoneAt(u, "store")'
      PROVE  LastIs(u, content[u].hash)'
  <2>1. NoneAt(u, "store")
    BY <1>2, <1>3 DEF NoneAt
  <2>2. content'[u] = content[u] /\ Present(content[u], now)
    BY <1>3
  <2> QED BY <2>1, <2>2 DEF LastInv, LastIs
<1>4. ASSUME NEW d \in Deliveries, pc'[d] = "store" \/ Confirming(d)'
      PROVE  LastIs(Url(d), event[d])'
  BY <1>4 DEF LastIs, Url
<1> QED BY <1>3, <1>4 DEF LastInv

LEMMA PublishKeepsLast ==
  ASSUME WritesHold, TypeInv, MutualExclusion, LastInv, NEW d \in Deliveries, Publish(d)
  PROVE  LastInv'
<1>1. /\ event[d] \in Versions /\ pc[d] = "publish" /\ pc[d] \in Holding
      /\ Url(d) \in Urls /\ topic[Url(d)] \in Seq(Versions)
  BY UrlType DEF TypeInv, HasEvent, TypeOK, Publish, Holding, Extracting
<1>2. /\ topic' = [topic EXCEPT ![Url(d)] = Append(@, event[d])]
      /\ pc' = [pc EXCEPT ![d] = "store"]
      /\ event' = event /\ content' = content /\ now' = now
  BY DEF Publish, PublishThrows, WritesHold, Continue, Goto, redisVars
<1>3. \A e \in Deliveries \ {d} : pc'[e] = pc[e] /\ (pc[e] \in Holding => Url(e) # Url(d))
  BY <1>1, <1>2, Alone DEF TypeInv, TypeOK
<1>4. \A e : Url(e)' = Url(e)
  BY DEF Url
<1>5. LastIs(Url(d), event[d])'
  <2>1. topic'[Url(d)] = Append(topic[Url(d)], event[d])
    BY <1>1, <1>2 DEF TypeInv, TypeOK
  <2>2. Len(topic'[Url(d)]) = Len(topic[Url(d)]) + 1 /\ Len(topic[Url(d)]) \in Nat
        /\ topic'[Url(d)][Len(topic[Url(d)]) + 1] = event[d]
    BY <1>1, <2>1, AppendProperties
  <2>3. topic'[Url(d)] # <<>>
    BY <2>2, EmptySeq
  <2> QED BY <1>2, <1>4, <2>2, <2>3 DEF LastIs
<1>6. pc'[d] = "store"
  BY <1>1, <1>2 DEF TypeInv, TypeOK
<1>7. \A u \in Urls \ {Url(d)} : topic'[u] = topic[u]
  BY <1>2 DEF TypeInv, TypeOK
<1>8. ASSUME NEW u \in Urls, Present(content'[u], now'), NoneAt(u, "store")'
      PROVE  LastIs(u, content[u].hash)'
  <2>1. u # Url(d) /\ NoneAt(u, "store")
    BY <1>8, <1>6, <1>3, <1>4 DEF NoneAt
  <2> QED BY <1>2, <1>7, <1>8, <2>1 DEF LastInv, LastIs
<1>9. ASSUME NEW e \in Deliveries, pc'[e] = "store" \/ Confirming(e)'
      PROVE  LastIs(Url(e), event[e])'
  <2>1. CASE e = d
    BY <2>1, <1>5
  <2>2. CASE e # d
    <3>1. pc[e] = "store" \/ Confirming(e)
      BY <1>9, <1>2, <1>3, <2>2 DEF Confirming
    <3>2. Url(e) # Url(d) /\ Url(e) \in Urls
      BY <1>3, <2>2, <3>1, UrlType DEF Confirming, Holding, Extracting, TypeInv
    <3> QED BY <3>1, <3>2, <1>2, <1>4, <1>7 DEF LastInv, LastIs
  <2> QED BY <2>1, <2>2
<1> QED BY <1>8, <1>9 DEF LastInv

LEMMA StoreKeepsLast ==
  ASSUME WritesHold, TypeInv, MutualExclusion, LastInv, NEW d \in Deliveries, StoreHash(d)
  PROVE  LastInv'
<1>1. pc[d] = "store" /\ Url(d) \in Urls
  BY UrlType DEF TypeInv, StoreHash
<1>2. /\ content' = [content EXCEPT ![Url(d)] =
                       [hash |-> event[d], exp |-> now + ContentTtl]]
      /\ pc' = [pc EXCEPT ![d] = "confirm"]
      /\ topic' = topic /\ event' = event /\ now' = now
  BY DEF StoreHash, RedisThrows, RedisFails, WritesHold, Continue, Goto
<1>3. LastIs(Url(d), event[d])
  BY <1>1 DEF LastInv
<1>4. \A u, v : LastIs(u, v)' <=> LastIs(u, v)
  BY <1>2 DEF LastIs
<1>5. ASSUME NEW u \in Urls, Present(content'[u], now'), NoneAt(u, "store")'
      PROVE  LastIs(u, content[u].hash)'
  <2>1. CASE u = Url(d)
    <3>1. content'[u].hash = event[d]
      BY <1>1, <1>2, <2>1 DEF TypeInv, TypeOK
    <3> QED BY <1>2, <1>3, <2>1, <3>1 DEF LastIs
  <2>2. CASE u # Url(d)
    <3>1. content'[u] = content[u] /\ NoneAt(u, "store")
      BY <1>2, <1>5, <2>2 DEF TypeInv, TypeOK, NoneAt, Url
    <3> QED BY <1>2, <1>5, <3>1 DEF LastInv, LastIs
  <2> QED BY <2>1, <2>2
<1>6. ASSUME NEW e \in Deliveries, pc'[e] = "store" \/ Confirming(e)'
      PROVE  LastIs(Url(e), event[e])'
  <2>1. e = d \/ pc[e] = "store" \/ Confirming(e)
    BY <1>2, <1>6 DEF Confirming, TypeInv, TypeOK
  <2> QED BY <1>2, <1>3, <2>1 DEF LastInv, LastIs, Url
<1> QED BY <1>5, <1>6 DEF LastInv

LEMMA HandleLast ==
  ASSUME WritesHold, TypeInv, MutualExclusion, LastInv, NEW d \in Deliveries, Handle(d)
  PROVE  LastInv'
<1>0. TypeOK
  BY DEF TypeInv
<1>a. \A e \in Deliveries : pc[e] = "store" \/ Confirming(e) => LastIs(Url(e), event[e])
  BY DEF LastInv
<1> USE DEF TypeOK, Goto, Continue, Throw, RedisThrows, RedisFails, WritesHold,
            redisVars, localVars, Confirming
<1>1. CASE CheckMarker(d)
  BY <1>0, <1>a, <1>1, LastKept DEF CheckMarker, Settle
<1>2. CASE AcquireLock(d)
  BY <1>0, <1>a, <1>2, LastKept DEF AcquireLock, Settle
<1>3. CASE RecheckMarker(d)
  BY <1>0, <1>a, <1>3, LastKept DEF RecheckMarker
<1>4. CASE Claim(d)
  BY <1>0, <1>a, <1>4, LastKept DEF Claim
<1>5. CASE Extract(d)
  BY <1>0, <1>a, <1>5, LastKept DEF Extract, AfterExtraction
<1>6. CASE SyncCorpus(d)
  BY <1>0, <1>a, <1>6, LastKept DEF SyncCorpus, AfterExtraction
<1>7. CASE CompareHash(d)
  <2>1. Unchanged(d) => LastIs(Url(d), event[d])
    <3> SUFFICES ASSUME Unchanged(d) PROVE LastIs(Url(d), event[d])
      OBVIOUS
    <3>1. pc[d] = "compare" /\ pc[d] \in Holding
      BY <1>7 DEF CompareHash, Holding, Extracting
    <3>2. NoneAt(Url(d), "store")
      BY <3>1, Alone DEF NoneAt, Holding, Extracting
    <3> QED BY <1>0, <3>2, UrlType DEF LastInv, Unchanged
  <2> QED BY <1>0, <1>a, <1>7, <2>1, LastKept DEF CompareHash, AfterCompare
<1>8. CASE Publish(d)
  BY <1>8, PublishKeepsLast
<1>9. CASE StoreHash(d)
  BY <1>9, StoreKeepsLast
<1>10. CASE Confirm(d)
  BY <1>0, <1>a, <1>10, LastKept DEF Confirm
<1>11. CASE Release(d)
  BY <1>0, <1>a, <1>11, LastKept DEF Release, Settle, Forget
<1> QED BY <1>1, <1>2, <1>3, <1>4, <1>5, <1>6, <1>7, <1>8, <1>9, <1>10, <1>11
        DEF Handle

LEMMA LastNext ==
  WritesHold /\ TypeInv /\ FreshDeliveries /\ MutualExclusion /\ LastInv /\ [Next]_vars
    => LastInv'
<1> SUFFICES ASSUME WritesHold, TypeInv, FreshDeliveries, MutualExclusion, LastInv,
                    [Next]_vars
             PROVE  LastInv'
  OBVIOUS
<1>0. TypeOK
  BY DEF TypeInv
<1>a. \A e \in Deliveries : pc[e] = "store" \/ Confirming(e) => LastIs(Url(e), event[e])
  BY DEF LastInv
<1>1. ASSUME NEW d \in Deliveries, Handle(d) PROVE LastInv'
  BY <1>1, HandleLast
<1>2. ASSUME NEW d \in Deliveries, Crash(d) PROVE LastInv'
  BY <1>2 DEF Crash, WritesHold
<1>3. ASSUME NEW m \in Jobs, Deliver(m) PROVE LastInv'
  <2>1. PICK d \in Deliveries : Goto(d, "check") /\ pc[d] = "unused"
    BY <1>0, <1>3, DeliverStarts
  <2> QED BY <1>0, <1>a, <1>3, <2>1, LastKept
          DEF Deliver, Goto, TypeOK, redisVars, localVars, Confirming
<1>4. CASE UNCHANGED <<now, content, topic, pc, event>>
  BY <1>a, <1>4, LastKept DEF Confirming
<1>5. CASE Tick
  <2>1. \A u \in Urls : Present(content'[u], now') =>
           content'[u] = content[u] /\ Present(content[u], now)
    BY <1>0, <1>5 DEF Tick, Swept, Present, NoContent, TypeOK
  <2> QED BY <1>a, <1>5, <2>1, LastKept DEF Tick, localVars, Confirming
<1> QED BY <1>1, <1>2, <1>3, <1>4, <1>5
        DEF Next, Idle, DeadLetter, vars, redisVars, localVars

(* No extraction is confirmed whose event is not the last one published.    *)
THEOREM ConfirmedIsPublished == JobFits /\ WritesHold => (Spec => NothingLost)
<1> SUFFICES ASSUME JobFits, WritesHold PROVE Spec => NothingLost
  OBVIOUS
<1> DEFINE Inv == FreshDeliveries /\ LastInv
<1>1. Init => Inv
  BY DEF Init, FreshDeliveries, LastInv, Confirming, NoContent, Present, Deliveries
<1>2. TypeInv /\ MutualExclusion /\ Inv /\ [Next]_vars => Inv'
  BY FreshNext, LastNext DEF TypeInv
<1>3. LastInv => [\A d \in Deliveries : Confirms(d) /\ event[d] # NoVersion =>
                    topic[Url(d)] # <<>> /\
                    topic[Url(d)][Len(topic[Url(d)])] = event[d]]_vars
  BY DEF LastInv, Confirms, Confirming, LastIs
<1>4. Spec => []MutualExclusion
  BY ExtractedOnce
<1> QED BY <1>1, <1>2, <1>3, <1>4, TypeInit, TypeNext, PTL DEF Spec, NothingLost

-----------------------------------------------------------------------------
(* A delivery has held its lock for at most MaxJob. *)
HoldInv ==
  \A d \in Deliveries : pc[d] \in Holding =>
    lockedAt[d] <= now /\ now <= lockedAt[d] + MaxJob

LEMMA HoldNext == TypeOK /\ FreshDeliveries /\ HoldInv /\ [Next]_vars => HoldInv'
<1> SUFFICES ASSUME TypeOK, FreshDeliveries, HoldInv, [Next]_vars PROVE HoldInv'
  OBVIOUS
<1>1. ASSUME NEW d \in Deliveries, Handle(d) PROVE HoldInv'
  <2>1. /\ now' = now /\ now \in Nat
        /\ \A e \in Deliveries \ {d} : pc'[e] = pc[e] /\ lockedAt'[e] = lockedAt[e]
    BY <1>1, HandleLocal DEF TypeOK
  <2>2. CASE AcquireLock(d)
    <3>1. pc'[d] \in Holding => lockedAt'[d] = now
      BY <2>2 DEF AcquireLock, Settle, Goto, TypeOK, Holding, Extracting
    <3> QED BY <2>1, <3>1 DEF HoldInv
  <2>3. CASE ~AcquireLock(d) /\ ~Release(d)
    <3>1. lockedAt' = lockedAt
      BY <1>1, <2>3 DEF Handle, CheckMarker, RecheckMarker, Claim, Extract, SyncCorpus,
                        CompareHash, Publish, StoreHash, Confirm, localVars
    <3>2. CASE CheckMarker(d)
      BY <2>1, <3>1, <3>2 DEF CheckMarker, Settle, Goto, HoldInv, TypeOK, Holding, Extracting
    <3>3. CASE ~CheckMarker(d)
      <4>1. pc[d] \in Holding
        BY <1>1, <2>3, <3>3
           DEF Handle, RecheckMarker, Claim, Extract, SyncCorpus, CompareHash, Publish,
               StoreHash, Confirm, Holding, Extracting
      <4> QED BY <2>1, <3>1, <4>1 DEF HoldInv
    <3> QED BY <3>2, <3>3
  <2>4. CASE Release(d)
    <3>1. pc'[d] \notin Holding
      BY <2>4 DEF Release, Settle, Goto, TypeOK, Holding, Extracting
    <3> QED BY <2>1, <3>1 DEF HoldInv
  <2> QED BY <2>2, <2>3, <2>4
<1>2. ASSUME NEW d \in Deliveries, Crash(d) PROVE HoldInv'
  <2>1. pc'[d] \notin Holding
    BY <1>2 DEF Crash, Goto, TypeOK, Holding, Extracting
  <2> QED BY <1>2, <2>1 DEF Crash, Goto, Forget, TypeOK, HoldInv
<1>3. ASSUME NEW m \in Jobs, Deliver(m) PROVE HoldInv'
  <2>1. PICK d \in Deliveries : Goto(d, "check")
    BY <1>3, DeliverType
  <2>2. pc'[d] \notin Holding
    BY <2>1 DEF Goto, TypeOK, Holding, Extracting
  <2> QED BY <1>3, <2>1, <2>2 DEF Deliver, Goto, TypeOK, HoldInv, localVars
<1>4. CASE UNCHANGED <<now, pc, lockedAt>>
  BY <1>4 DEF HoldInv
<1>5. CASE Tick
  <2>1. /\ now \in Nat /\ now' = now + 1 /\ pc' = pc /\ lockedAt' = lockedAt
        /\ \A d \in Deliveries : lockedAt[d] \in Nat
        /\ \A d \in Deliveries : pc[d] \in Holding => now < lockedAt[d] + MaxJob
    BY <1>5 DEF Tick, TypeOK, localVars
  <2> QED BY <2>1 DEF HoldInv
<1> QED BY <1>1, <1>2, <1>3, <1>4, <1>5 DEF Next, Idle, DeadLetter, vars, localVars

-----------------------------------------------------------------------------
(* The hash v of u, extracted no sooner than t, is stored until its TTL.    *)
Retains(u, v, t) ==
  now < t + ContentTtl =>
    content[u].hash = v /\ content[u].exp >= t + ContentTtl

RetainInv ==
  /\ \A d \in Deliveries : pc[d] = "publish" => ~Unchanged(d)
  /\ \A d \in Deliveries : Confirming(d) => Retains(Url(d), event[d], lockedAt[d])
  /\ \A u \in Urls :
       done[u].version # NoVersion
         /\ (\A d \in Deliveries : Url(d) = u => ~Confirming(d)) =>
       Retains(u, done[u].version, done[u].at - MaxJob)

LEMMA RetainState ==
  ASSUME TypeOK
  PROVE  /\ now \in Nat /\ content \in [Urls -> Contents]
         /\ \A u \in Urls : content[u].exp \in Nat /\ done[u].at \in Nat
         /\ \A d \in Deliveries : lockedAt[d] \in Nat /\ Url(d) \in Urls
BY UrlType DEF TypeOK, Contents

LEMMA RetainsSooner ==
  ASSUME TypeOK, NEW u \in Urls, NEW v, NEW t \in Int, NEW s \in Int, s <= t,
         Retains(u, v, t)
  PROVE  Retains(u, v, s)
BY RetainState DEF Retains

(* Steps that neither store nor confirm. *)
LEMMA RetainKept ==
  ASSUME RetainInv, UNCHANGED <<now, content, done>>,
         \A d \in Deliveries :
           /\ Confirming(d) <=> Confirming(d)'
           /\ Confirming(d) => event'[d] = event[d] /\ lockedAt'[d] = lockedAt[d]
           /\ pc'[d] = "publish" =>
                event'[d] = event[d] /\ (pc[d] = "publish" \/ ~Unchanged(d))
  PROVE  RetainInv'
<1>1. \A d : Url(d)' = Url(d)
  BY DEF Url
<1>3. ASSUME NEW d \in Deliveries, pc'[d] = "publish" PROVE ~Unchanged(d)'
  BY <1>1, <1>3 DEF RetainInv, Unchanged
<1>4. ASSUME NEW d \in Deliveries, Confirming(d)'
      PROVE  Retains(Url(d), event[d], lockedAt[d])'
  BY <1>1, <1>4 DEF RetainInv, Retains
<1>5. ASSUME NEW u \in Urls, done'[u].version # NoVersion,
             \A d \in Deliveries : Url(d)' = u => ~Confirming(d)'
      PROVE  Retains(u, done[u].version, done[u].at - MaxJob)'
  BY <1>1, <1>5 DEF RetainInv, Retains
<1> QED BY <1>3, <1>4, <1>5 DEF RetainInv

LEMMA StoreKeepsRetained ==
  ASSUME RedisHolds, TypeInv, MutualExclusion, HoldInv, RetainInv,
         NEW d \in Deliveries, StoreHash(d)
  PROVE  RetainInv'
<1>0. TypeOK /\ event[d] \in Versions
  BY DEF TypeInv, HasEvent, StoreHash
<1>1. /\ content' = [content EXCEPT ![Url(d)] =
                       [hash |-> event[d], exp |-> now + ContentTtl]]
      /\ pc' = [pc EXCEPT ![d] = "confirm"]
      /\ UNCHANGED <<now, done, event, lockedAt>>
  BY DEF StoreHash, RedisThrows, RedisFails, RedisHolds, Continue, Goto, history
<1>2. pc[d] \in Holding /\ lockedAt[d] <= now
  BY DEF StoreHash, Holding, Extracting, HoldInv
<1>3. \A e \in Deliveries \ {d} : pc'[e] = pc[e] /\ (pc[e] \in Holding => Url(e) # Url(d))
  BY <1>0, <1>1, <1>2, Alone DEF TypeOK
<1>4. \A u \in Urls \ {Url(d)} : content'[u] = content[u]
  BY <1>0, <1>1 DEF TypeOK
<1>5. \A e : Url(e)' = Url(e)
  BY DEF Url
<1>6. Confirming(d)'
  BY <1>0, <1>1 DEF Confirming, TypeOK
<1>7. ASSUME NEW e \in Deliveries, pc'[e] = "publish" PROVE ~Unchanged(e)'
  <2>1. pc[e] = "publish" /\ e # d
    BY <1>0, <1>1, <1>7 DEF TypeOK
  <2>2. Url(e) \in Urls \ {Url(d)}
    BY <1>0, <1>3, <2>1, UrlType DEF Holding, Extracting
  <2> QED BY <1>1, <1>4, <1>5, <2>1, <2>2 DEF RetainInv, Unchanged
<1>8. ASSUME NEW e \in Deliveries, Confirming(e)'
      PROVE  Retains(Url(e), event[e], lockedAt[e])'
  <2>1. CASE e = d
    <3>1. content'[Url(d)] = [hash |-> event[d], exp |-> now + ContentTtl]
      BY <1>0, <1>1, UrlType DEF TypeOK
    <3>2. content'[Url(d)].exp >= lockedAt[d] + ContentTtl
      BY <1>0, <1>2, <3>1, RetainState
    <3> QED BY <1>1, <1>5, <2>1, <3>1, <3>2 DEF Retains
  <2>2. CASE e # d
    <3>1. Confirming(e) /\ Url(e) \in Urls \ {Url(d)}
      BY <1>0, <1>1, <1>3, <1>8, <2>2, UrlType DEF Confirming, Holding, Extracting
    <3> QED BY <1>1, <1>4, <1>5, <3>1 DEF RetainInv, Retains
  <2> QED BY <2>1, <2>2
<1>9. ASSUME NEW u \in Urls, done'[u].version # NoVersion,
             \A e \in Deliveries : Url(e)' = u => ~Confirming(e)'
      PROVE  Retains(u, done[u].version, done[u].at - MaxJob)'
  <2>1. u # Url(d)
    BY <1>5, <1>6, <1>9
  <2>2. \A e \in Deliveries : Url(e) = u => ~Confirming(e)
    BY <1>1, <1>3, <1>5, <1>9, <2>1 DEF Confirming
  <2> QED BY <1>1, <1>4, <1>9, <2>1, <2>2 DEF RetainInv, Retains
<1> QED BY <1>7, <1>8, <1>9 DEF RetainInv

LEMMA ConfirmKeepsRetained ==
  ASSUME RedisHolds, TypeInv, MutualExclusion, HoldInv, RetainInv,
         NEW d \in Deliveries, Confirm(d)
  PROVE  RetainInv'
<1>0. TypeOK
  BY DEF TypeInv
<1>1. /\ done' = [done EXCEPT ![Url(d)] =
                    [at |-> now, window |-> Window(d), version |-> event[d]]]
      /\ pc' = [pc EXCEPT ![d] = "release"]
      /\ UNCHANGED <<now, content, event, lockedAt>>
  BY DEF Confirm, RedisThrows, RedisFails, RedisHolds, Continue, Goto
<1>2. pc[d] = "confirm" /\ pc[d] \in Holding /\ now <= lockedAt[d] + MaxJob
  BY DEF Confirm, Holding, Extracting, HoldInv
<1>3. \A e \in Deliveries \ {d} : pc'[e] = pc[e] /\ (pc[e] \in Holding => Url(e) # Url(d))
  BY <1>0, <1>1, <1>2, Alone DEF TypeOK
<1>4. \A e : Url(e)' = Url(e)
  BY DEF Url
<1>5. ~Confirming(d)' /\ pc'[d] # "publish"
  BY <1>0, <1>1 DEF Confirming, TypeOK
<1>6. ASSUME NEW e \in Deliveries, pc'[e] = "publish" PROVE ~Unchanged(e)'
  BY <1>1, <1>3, <1>4, <1>5, <1>6 DEF RetainInv, Unchanged
<1>7. ASSUME NEW e \in Deliveries, Confirming(e)'
      PROVE  Retains(Url(e), event[e], lockedAt[e])'
  <2>1. Confirming(e)
    BY <1>1, <1>3, <1>5, <1>7 DEF Confirming
  <2> QED BY <1>1, <1>4, <2>1 DEF RetainInv, Retains
<1>8. ASSUME NEW u \in Urls, done'[u].version # NoVersion,
             \A e \in Deliveries : Url(e)' = u => ~Confirming(e)'
      PROVE  Retains(u, done[u].version, done[u].at - MaxJob)'
  <2>1. CASE u = Url(d)
    <3>1. done'[u].at = now /\ done'[u].version = event[d]
      BY <1>0, <1>1, <2>1 DEF TypeOK
    <3>2. Confirming(d)
      BY <1>2, <1>8, <3>1 DEF Confirming
    <3>3. Retains(u, event[d], lockedAt[d])
      BY <2>1, <3>2 DEF RetainInv
    <3>4. lockedAt[d] \in Int /\ now - MaxJob \in Int /\ now - MaxJob <= lockedAt[d]
      BY <1>0, <1>2, RetainState
    <3>5. Retains(u, event[d], now - MaxJob)
      BY <1>0, <3>3, <3>4, RetainsSooner
    <3> QED BY <1>1, <3>1, <3>5 DEF Retains
  <2>2. CASE u # Url(d)
    <3>1. done'[u] = done[u]
      BY <1>0, <1>1, <2>2 DEF TypeOK
    <3>2. \A e \in Deliveries : Url(e) = u => ~Confirming(e)
      BY <1>1, <1>3, <1>4, <1>8, <2>2 DEF Confirming
    <3> QED BY <1>1, <1>8, <3>1, <3>2 DEF RetainInv, Retains
  <2> QED BY <2>1, <2>2
<1> QED BY <1>6, <1>7, <1>8 DEF RetainInv

LEMMA HandleRetained ==
  ASSUME RedisHolds, TypeInv, MutualExclusion, HoldInv, RetainInv,
         NEW d \in Deliveries, Handle(d)
  PROVE  RetainInv'
<1>0. TypeOK
  BY DEF TypeInv
<1> USE DEF TypeOK, Goto, Continue, Throw, RedisThrows, RedisFails, RedisHolds,
            redisVars, localVars, history, Confirming
<1>1. CASE CheckMarker(d)
  BY <1>0, <1>1, RetainKept DEF CheckMarker, Settle
<1>2. CASE AcquireLock(d)
  BY <1>0, <1>2, RetainKept DEF AcquireLock, Settle
<1>3. CASE RecheckMarker(d)
  BY <1>0, <1>3, RetainKept DEF RecheckMarker
<1>4. CASE Claim(d)
  BY <1>0, <1>4, RetainKept DEF Claim
<1>5. CASE Extract(d)
  BY <1>0, <1>5, RetainKept DEF Extract, AfterExtraction
<1>6. CASE SyncCorpus(d)
  BY <1>0, <1>6, RetainKept DEF SyncCorpus, AfterExtraction
<1>7. CASE CompareHash(d)
  BY <1>0, <1>7, RetainKept DEF CompareHash, AfterCompare
<1>8. CASE Publish(d)
  BY <1>0, <1>8, RetainKept DEF Publish, PublishThrows
<1>9. CASE StoreHash(d)
  BY <1>9, StoreKeepsRetained
<1>10. CASE Confirm(d)
  BY <1>10, ConfirmKeepsRetained
<1>11. CASE Release(d)
  BY <1>0, <1>11, RetainKept DEF Release, Settle, Forget
<1> QED BY <1>1, <1>2, <1>3, <1>4, <1>5, <1>6, <1>7, <1>8, <1>9, <1>10, <1>11
        DEF Handle

LEMMA TickKeepsRetained ==
  ASSUME TypeOK, RetainInv, Tick
  PROVE  RetainInv'
<1>1. /\ now' = now + 1 /\ now \in Nat
      /\ UNCHANGED <<pc, event, lockedAt, done>>
      /\ \A u \in Urls : content'[u] = Swept(content[u], NoContent, now')
  BY DEF Tick, TypeOK, localVars, history
<1>2. \A e : Url(e)' = Url(e)
  BY DEF Url
<1>3. \A u \in Urls : content[u].exp \in Nat
  BY RetainState
<1>4. \A u \in Urls : Present(content'[u], now') =>
         content'[u] = content[u] /\ Present(content[u], now)
  BY <1>1, <1>3 DEF Swept, Present, NoContent
<1>5. ASSUME NEW u \in Urls, NEW v, NEW t \in Int, Retains(u, v, t), now' < t + ContentTtl
      PROVE  content'[u].hash = v /\ content'[u].exp >= t + ContentTtl
  <2>1. content[u].hash = v /\ content[u].exp >= t + ContentTtl
    BY <1>1, <1>5 DEF Retains
  <2>2. Present(content[u], now')
    BY <1>1, <1>3, <1>5, <2>1 DEF Present
  <2> QED BY <1>1, <2>1, <2>2 DEF Swept
<1>6. ASSUME NEW d \in Deliveries, pc'[d] = "publish" PROVE ~Unchanged(d)'
  BY <1>1, <1>2, <1>4, <1>6, RetainState DEF RetainInv, Unchanged
<1>7. ASSUME NEW d \in Deliveries, Confirming(d)'
      PROVE  Retains(Url(d), event[d], lockedAt[d])'
  <2>1. Retains(Url(d), event[d], lockedAt[d])
    BY <1>1, <1>7 DEF RetainInv, Confirming
  <2>2. lockedAt[d] \in Int /\ Url(d) \in Urls
    BY RetainState
  <2> QED BY <1>1, <1>2, <1>5, <2>1, <2>2 DEF Retains
<1>8. ASSUME NEW u \in Urls, done'[u].version # NoVersion,
             \A d \in Deliveries : Url(d)' = u => ~Confirming(d)'
      PROVE  Retains(u, done[u].version, done[u].at - MaxJob)'
  <2>1. Retains(u, done[u].version, done[u].at - MaxJob)
    BY <1>1, <1>2, <1>8 DEF RetainInv, Confirming
  <2>2. done[u].at - MaxJob \in Int
    BY RetainState
  <2> QED BY <1>1, <1>5, <2>1, <2>2 DEF Retains
<1> QED BY <1>6, <1>7, <1>8 DEF RetainInv

LEMMA RetainNext ==
  RedisHolds /\ TypeInv /\ FreshDeliveries /\ MutualExclusion /\ HoldInv /\ RetainInv
    /\ [Next]_vars => RetainInv'
<1> SUFFICES ASSUME RedisHolds, TypeInv, FreshDeliveries, MutualExclusion, HoldInv,
                    RetainInv, [Next]_vars
             PROVE  RetainInv'
  OBVIOUS
<1>0. TypeOK
  BY DEF TypeInv
<1>1. ASSUME NEW d \in Deliveries, Handle(d) PROVE RetainInv'
  BY <1>1, HandleRetained
<1>2. ASSUME NEW d \in Deliveries, Crash(d) PROVE RetainInv'
  BY <1>2 DEF Crash, RedisHolds
<1>3. ASSUME NEW m \in Jobs, Deliver(m) PROVE RetainInv'
  <2>1. PICK d \in Deliveries : Goto(d, "check") /\ pc[d] = "unused"
    BY <1>0, <1>3, DeliverStarts
  <2> QED BY <1>0, <1>3, <2>1, RetainKept
          DEF Deliver, Goto, TypeOK, redisVars, localVars, history, Confirming
<1>4. CASE UNCHANGED <<now, content, done, pc, event, lockedAt>>
  BY <1>4, RetainKept DEF Confirming
<1>5. CASE Tick
  BY <1>0, <1>5, TickKeepsRetained
<1> QED BY <1>1, <1>2, <1>3, <1>4, <1>5
        DEF Next, Idle, DeadLetter, vars, redisVars, localVars, history

(* What was extracted last and has not changed is published again only once *)
(* its stored hash can have expired.                                        *)
THEOREM RepublishesLate ==
  JobFits /\ RedisHolds => (Spec => RepublishOnlyAfterRetention)
<1> SUFFICES ASSUME JobFits, RedisHolds PROVE Spec => RepublishOnlyAfterRetention
  OBVIOUS
<1> DEFINE Inv == FreshDeliveries /\ HoldInv /\ RetainInv
<1>1. Init => Inv
  BY DEF Init, FreshDeliveries, HoldInv, RetainInv, Confirming, NeverDone, Deliveries,
         Holding, Extracting
<1>2. TypeInv /\ MutualExclusion /\ Inv /\ [Next]_vars => Inv'
  BY FreshNext, HoldNext, RetainNext DEF TypeInv
<1>3. ASSUME TypeInv, MutualExclusion, RetainInv, NEW d \in Deliveries,
             Publishes(d), done[Url(d)].version = event[d]
      PROVE  now - done[Url(d)].at >= ContentTtl - MaxJob
  <2> SUFFICES ASSUME now - done[Url(d)].at < ContentTtl - MaxJob PROVE FALSE
    BY <1>3, RetainState DEF TypeInv
  <2>1. pc[d] = "publish" /\ event[d] \in Versions /\ ~Unchanged(d)
    BY <1>3 DEF Publishes, TypeInv, HasEvent, RetainInv
  <2>2. \A e \in Deliveries : Url(e) = Url(d) => ~Confirming(e)
    BY <1>3, <2>1, Alone DEF Confirming, Holding, Extracting
  <2>3. Retains(Url(d), event[d], done[Url(d)].at - MaxJob)
    BY <1>3, <2>1, <2>2, RetainState DEF RetainInv, TypeInv
  <2>4. now < (done[Url(d)].at - MaxJob) + ContentTtl
    BY <1>3, RetainState DEF TypeInv
  <2>5. /\ content[Url(d)].hash = event[d]
        /\ content[Url(d)].exp >= (done[Url(d)].at - MaxJob) + ContentTtl
    BY <2>3, <2>4 DEF Retains
  <2>6. now \in Nat /\ content[Url(d)].exp \in Nat /\ done[Url(d)].at \in Nat
    BY <1>3, RetainState DEF TypeInv
  <2>7. now < content[Url(d)].exp
    BY <2>4, <2>5, <2>6
  <2> QED BY <2>1, <2>5, <2>7 DEF Unchanged, Present
<1>4. TypeInv /\ MutualExclusion /\ RetainInv =>
        [\A d \in Deliveries : LET last == done[Url(d)] IN
           Publishes(d) /\ last.version = event[d] =>
             now - last.at >= ContentTtl - MaxJob]_vars
  BY <1>3
<1>5. Spec => []MutualExclusion
  BY ExtractedOnce
<1> QED BY <1>1, <1>2, <1>4, <1>5, TypeInit, TypeNext, PTL
        DEF Spec, RepublishOnlyAfterRetention

-----------------------------------------------------------------------------
(* The guard and the windows.  The lock gives "one at a time"; the spacing  *)
(* of extractions needs what the marker remembers: until MinGap has passed  *)
(* since an extraction started, the marker is present and was written no    *)
(* earlier than that start.                                                 *)
Spaced(u) == started[u] = Never \/ now - started[u] >= MinGap

Remembered(u) ==
  /\ Present(marker[u], now)
  /\ marker[u].at >= started[u]
  /\ marker[u].exp >= started[u] + MinGap

MarkerRemembers ==
  \A u \in Urls : started[u] <= now /\ (Spaced(u) \/ Remembered(u))

(* A delivery that passed the second check may start. *)
ClaimSpaced ==
  \A d \in Deliveries : pc[d] = "claim" => Spaced(Url(d))

GapInv == MarkerRemembers /\ ClaimSpaced

LEMMA StampFields ==
  \A t, ttl : Stamp(t, ttl).at = t /\ Stamp(t, ttl).exp = t + ttl
BY DEF Stamp

LEMMA UrlState ==
  ASSUME TypeOK, NEW u \in Urls
  PROVE  /\ now \in Nat /\ marker[u].at \in Nat /\ marker[u].exp \in Nat
         /\ started[u] \in Nat \cup {Never} /\ started[u] \in Int
<1>1. /\ now \in Nat /\ marker[u] \in [at: Nat, exp: Nat]
      /\ started[u] \in Nat \cup {Never}
  BY DEF TypeOK
<1>2. Never \in Int
  BY DEF Never
<1> QED BY <1>1, <1>2

LEMMA GapInit == Init => GapInv
<1> SUFFICES ASSUME Init PROVE GapInv
  OBVIOUS
<1>1. MarkerRemembers
  BY DEF Init, MarkerRemembers, Spaced, Never
<1>2. ClaimSpaced
  BY DEF Init, ClaimSpaced
<1> QED BY <1>1, <1>2 DEF GapInv

(* Steps that change neither what is remembered nor who is about to claim.  *)
LEMMA GapKept ==
  ASSUME TypeOK, GapInv, UNCHANGED <<now, marker, started>>,
         \A d \in Deliveries :
           pc'[d] = "claim" => pc[d] = "claim"
  PROVE  GapInv'
<1>1. MarkerRemembers'
  BY DEF GapInv, MarkerRemembers, Spaced, Remembered
<1>2. ClaimSpaced'
  BY DEF GapInv, ClaimSpaced, Spaced, Url
<1> QED BY <1>1, <1>2 DEF GapInv

LEMMA WindowBound == \A d \in Deliveries : MinGap <= Window(d)
<1> SUFFICES ASSUME NEW d \in Deliveries PROVE MinGap <= Window(d)
  OBVIOUS
<1>1. JobOf(d) \in Jobs
  BY DEF Deliveries, JobOf
<1> QED BY <1>1 DEF Window

(* A stale marker means that the job's window, hence MinGap, has passed.    *)
LEMMA StaleIsSpaced ==
  ASSUME TypeOK, GapInv, NEW d \in Deliveries, ~Fresh(d)
  PROVE  Spaced(Url(d))
<1> DEFINE u == Url(d)
<1>1. u \in Urls /\ Window(d) \in Nat /\ MinGap <= Window(d)
  BY UrlType, WindowBound
<1>2. /\ now \in Nat /\ marker[u].at \in Nat /\ marker[u].exp \in Nat
      /\ started[u] \in Int
  BY <1>1, UrlState
<1>3. Spaced(u) \/ Remembered(u)
  BY <1>1 DEF GapInv, MarkerRemembers
<1>4. ASSUME Remembered(u) PROVE Spaced(u)
  <2>1. now - marker[u].at >= Window(d) /\ marker[u].at >= started[u]
    BY <1>2, <1>1, <1>4 DEF Remembered, Fresh, IsWithin
  <2> QED BY <1>1, <1>2, <2>1 DEF Spaced
<1> QED BY <1>3, <1>4

(* Writing the marker of a URL now, for at least MinGap.                    *)
LEMMA StampRemembers ==
  ASSUME TypeOK, GapInv, NEW u \in Urls, NEW ttl \in Nat \ {0}, MinGap <= ttl,
         marker' = [marker EXCEPT ![u] = Stamp(now, ttl)],
         started' = started \/ started' = [started EXCEPT ![u] = now],
         now' = now
  PROVE  MarkerRemembers'
<1> SUFFICES ASSUME NEW v \in Urls
             PROVE  started'[v] <= now' /\ (Spaced(v)' \/ Remembered(v)')
  BY DEF MarkerRemembers
<1>1. started[v] <= now /\ (Spaced(v) \/ Remembered(v))
  BY DEF GapInv, MarkerRemembers
<1>2. now \in Nat /\ started[v] \in Int
  BY UrlState
<1>3. CASE v # u
  <2>1. marker'[v] = marker[v] /\ started'[v] = started[v]
    BY <1>3 DEF TypeOK
  <2> QED BY <1>1, <2>1 DEF Spaced, Remembered
<1>4. CASE v = u
  <2>1. marker'[v].at = now /\ marker'[v].exp = now + ttl
    <3>1. marker'[v] = Stamp(now, ttl)
      BY <1>4 DEF TypeOK
    <3> QED BY <3>1, StampFields
  <2>2. started'[v] <= now /\ started'[v] \in Int
    <3>1. started'[v] = started[v] \/ started'[v] = now
      BY <1>4 DEF TypeOK
    <3> QED BY <1>1, <1>2, <3>1
  <2>3. ttl \in Nat \ {0} /\ now' = now
    OBVIOUS
  <2> QED BY <1>2, <2>1, <2>2, <2>3 DEF Remembered, Present
<1> QED BY <1>3, <1>4

LEMMA RecheckKeepsGap ==
  ASSUME TypeOK, GapInv, NEW d \in Deliveries, RecheckMarker(d)
  PROVE  GapInv'
<1>1. MarkerRemembers'
  BY DEF RecheckMarker, redisVars, history, GapInv, MarkerRemembers, Spaced,
         Remembered
<1>2. ClaimSpaced'
  <2> SUFFICES ASSUME NEW e \in Deliveries, pc'[e] = "claim" PROVE Spaced(Url(e))'
    BY DEF ClaimSpaced
  <2>1. Spaced(Url(e))' <=> Spaced(Url(e))
    BY DEF RecheckMarker, queueVars, history, Spaced, Url
  <2>2. CASE e = d
    <3>1. ~Fresh(d)
      BY <2>2 DEF RecheckMarker, FreshUnderLock, Continue, RedisThrows, Throw, Goto, TypeOK
    <3> QED BY <2>1, <2>2, <3>1, StaleIsSpaced
  <2>3. CASE e # d
    <3>1. pc[e] = "claim"
      BY <2>3 DEF RecheckMarker, Continue, RedisThrows, Throw, Goto, TypeOK
    <3> QED BY <2>1, <3>1 DEF GapInv, ClaimSpaced
  <2> QED BY <2>2, <2>3
<1> QED BY <1>1, <1>2 DEF GapInv

(* Only the holder of the lock writes started and marker, so no other       *)
(* delivery of the URL is waiting to claim.                                 *)
LEMMA WriterKeepsClaims ==
  ASSUME TypeOK, MutualExclusion, GapInv, NEW d \in Deliveries,
         pc[d] \in Holding, pc'[d] # "claim",
         \A e \in Deliveries \ {d} : pc'[e] = pc[e],
         now' = now,
         started' = started \/ started' = [started EXCEPT ![Url(d)] = now]
  PROVE  ClaimSpaced'
<1> SUFFICES ASSUME NEW e \in Deliveries, pc'[e] = "claim" PROVE Spaced(Url(e))'
  BY DEF ClaimSpaced
<1>1. e # d /\ pc[e] = "claim"
  OBVIOUS
<1>2. Url(e) # Url(d)
  BY <1>1 DEF MutualExclusion, Holding
<1>3. Url(e)' = Url(e) /\ Url(e) \in Urls
  BY UrlType DEF Url
<1>4. started'[Url(e)] = started[Url(e)]
  BY <1>2, <1>3 DEF TypeOK
<1>5. Spaced(Url(e))
  BY <1>1 DEF GapInv, ClaimSpaced
<1> QED BY <1>3, <1>4, <1>5 DEF Spaced

LEMMA ClaimKeepsGap ==
  ASSUME TypeOK, MutualExclusion, GapInv, NEW d \in Deliveries, Claim(d)
  PROVE  GapInv'
<1>1. ClaimSpaced'
  <2>1. pc[d] \in Holding /\ pc'[d] # "claim"
    BY DEF Claim, Continue, RedisThrows, Throw, Goto, TypeOK, Holding
  <2>2. \A e \in Deliveries \ {d} : pc'[e] = pc[e]
    BY DEF Claim, Continue, RedisThrows, Throw, Goto, TypeOK
  <2> QED BY <2>1, <2>2, WriterKeepsClaims DEF Claim, queueVars
<1>2. CASE marker' = [marker EXCEPT ![Url(d)] = Stamp(now, AttemptTtl)]
  <2>1. MinGap <= AttemptTtl /\ AttemptTtl \in Nat \ {0} /\ Url(d) \in Urls
    BY UrlType
  <2>2. /\ started' = started \/ started' = [started EXCEPT ![Url(d)] = now]
        /\ now' = now
    BY DEF Claim
  <2>3. MarkerRemembers'
    BY <1>2, <2>1, <2>2, StampRemembers
  <2> QED BY <1>1, <2>3 DEF GapInv
<1>3. CASE UNCHANGED <<marker, started>>
  BY <1>1, <1>3 DEF Claim, GapInv, MarkerRemembers, Spaced, Remembered
<1> QED BY <1>2, <1>3 DEF Claim

LEMMA ConfirmKeepsGap ==
  ASSUME TypeOK, MutualExclusion, GapInv, NEW d \in Deliveries, Confirm(d)
  PROVE  GapInv'
<1>1. ClaimSpaced'
  <2>1. pc[d] \in Holding /\ pc'[d] # "claim"
    BY DEF Confirm, Continue, RedisThrows, Throw, Goto, TypeOK, Holding,
           Extracting
  <2>2. \A e \in Deliveries \ {d} : pc'[e] = pc[e]
    BY DEF Confirm, Continue, RedisThrows, Throw, Goto, TypeOK
  <2> QED BY <2>1, <2>2, WriterKeepsClaims DEF Confirm, queueVars
<1>2. CASE marker' = [marker EXCEPT ![Url(d)] = Stamp(now, Window(d))]
  <2>1. Window(d) \in Nat \ {0} /\ MinGap <= Window(d) /\ Url(d) \in Urls
    BY UrlType, WindowBound
  <2> QED BY <1>1, <1>2, <2>1, StampRemembers DEF Confirm, GapInv
<1>3. CASE UNCHANGED <<marker, done>>
  BY <1>1, <1>3 DEF Confirm, GapInv, MarkerRemembers, Spaced, Remembered
<1> QED BY <1>2, <1>3 DEF Confirm

LEMMA TickKeepsGap ==
  ASSUME TypeOK, GapInv, Tick
  PROVE  GapInv'
<1>1. now' = now + 1 /\ now \in Nat /\ started' = started
  BY DEF Tick, TypeOK, history
<1>2. ASSUME NEW u \in Urls, Spaced(u) PROVE Spaced(u)'
  BY <1>1, <1>2, UrlState DEF Spaced
<1>3. MarkerRemembers'
  <2> SUFFICES ASSUME NEW u \in Urls
               PROVE  started'[u] <= now' /\ (Spaced(u)' \/ Remembered(u)')
    BY DEF MarkerRemembers
  <2>1. started[u] <= now /\ (Spaced(u) \/ Remembered(u))
    BY DEF GapInv, MarkerRemembers
  <2>2. /\ started[u] \in Int /\ marker[u].at \in Nat /\ marker[u].exp \in Nat
    BY UrlState
  <2>3. ASSUME Remembered(u) PROVE Spaced(u)' \/ Remembered(u)'
    <3>1. marker'[u] = Swept(marker[u], NoStamp, now')
      BY DEF Tick
    <3>2. CASE Present(marker[u], now')
      BY <2>3, <3>1, <3>2, <1>1 DEF Swept, Remembered
    <3>3. CASE ~Present(marker[u], now')
      BY <2>3, <3>3, <1>1, <2>2 DEF Remembered, Present, Spaced
    <3> QED BY <3>2, <3>3
  <2> QED BY <1>1, <1>2, <2>1, <2>2, <2>3
<1>4. ClaimSpaced'
  BY <1>2, UrlType DEF Tick, queueVars, GapInv, ClaimSpaced, Url
<1> QED BY <1>3, <1>4 DEF GapInv

(* Every other action of a delivery leaves the marker and its history alone *)
(* and leads no delivery to "claim".                                        *)
LEMMA MarkerLeftAlone ==
  ASSUME TypeOK, NEW d \in Deliveries,
         \/ CheckMarker(d) \/ AcquireLock(d) \/ Extract(d) \/ SyncCorpus(d)
         \/ CompareHash(d) \/ Publish(d) \/ StoreHash(d) \/ Release(d) \/ Crash(d)
  PROVE  /\ UNCHANGED <<now, marker, started, done, tried>>
         /\ \A e \in Deliveries : pc'[e] = "claim" => pc[e] = "claim"
<1>1. UNCHANGED <<now, marker, started, done, tried>>
  BY DEF CheckMarker, AcquireLock, Extract, SyncCorpus, CompareHash, Publish,
         StoreHash, Release, Crash, redisVars, queueVars, history
<1>2. \A e \in Deliveries : pc'[e] = "claim" => pc[e] = "claim"
  <2> USE DEF Goto, TypeOK, Settle, Continue, Throw, RedisThrows
  <2>1. CASE CheckMarker(d) \/ AcquireLock(d)
    BY <2>1 DEF CheckMarker, AcquireLock
  <2>2. CASE Extract(d) \/ SyncCorpus(d)
    BY <2>2 DEF Extract, SyncCorpus, AfterExtraction
  <2>3. CASE CompareHash(d) \/ Publish(d) \/ StoreHash(d)
    BY <2>3 DEF CompareHash, AfterCompare, Publish, PublishThrows, StoreHash
  <2>4. CASE Release(d) \/ Crash(d)
    BY <2>4 DEF Release, Crash
  <2> QED BY <2>1, <2>2, <2>3, <2>4
<1> QED BY <1>1, <1>2

LEMMA DeliverLeavesMarker ==
  ASSUME TypeOK, NEW m \in Jobs, Deliver(m)
  PROVE  /\ UNCHANGED <<now, marker, started, done, tried>>
         /\ \A e \in Deliveries : pc'[e] = "claim" => pc[e] = "claim"
BY DeliverType DEF Deliver, Goto, TypeOK, redisVars, history

LEMMA GapNext ==
  TypeOK /\ MutualExclusion /\ GapInv /\ [Next]_vars => GapInv'
<1> SUFFICES ASSUME TypeOK, MutualExclusion, GapInv, [Next]_vars PROVE GapInv'
  OBVIOUS
<1>1. ASSUME NEW d \in Deliveries, Handle(d) PROVE GapInv'
  BY <1>1, MarkerLeftAlone, GapKept, RecheckKeepsGap, ClaimKeepsGap, ConfirmKeepsGap
     DEF Handle
<1>2. ASSUME NEW d \in Deliveries, Crash(d) PROVE GapInv'
  BY <1>2, MarkerLeftAlone, GapKept
<1>3. ASSUME NEW m \in Jobs, Deliver(m) PROVE GapInv'
  BY <1>3, DeliverLeavesMarker, GapKept
<1>4. ASSUME NEW m \in Jobs, DeadLetter(m) PROVE GapInv'
  BY <1>4, GapKept DEF DeadLetter, redisVars, history
<1>5. CASE Tick
  BY <1>5, TickKeepsGap
<1>6. CASE UNCHANGED vars
  BY <1>6, GapKept DEF vars, redisVars, queueVars, history
<1> QED BY <1>1, <1>2, <1>3, <1>4, <1>5, <1>6 DEF Next, Idle

(* The marker remembers each extraction until MinGap has passed.            *)
THEOREM MarkerSafe == JobFits => (Spec => []GapInv)
<1> SUFFICES ASSUME JobFits PROVE Spec => []GapInv
  OBVIOUS
<1>1. Spec => []MutualExclusion
  BY ExtractedOnce
<1> QED BY <1>1, TypeCorrect, GapInit, GapNext, PTL DEF Spec

-----------------------------------------------------------------------------
(* The windows of jobs.  The wait that the last confirmation or, after it,  *)
(* the last claim of a URL imposes is over, ...                             *)
WaitOver(u) ==
  \/ done[u] = NeverDone
  \/ now - done[u].at >= done[u].window
  \/ tried[u] # Never /\ now - tried[u] >= AttemptTtl

(* ... or the marker shows it: present until then, and no older.            *)
WaitShown(u) ==
  /\ Present(marker[u], now)
  /\ marker[u].at >= done[u].at
  /\ marker[u].exp >= IF tried[u] = Never THEN done[u].at + done[u].window
                                          ELSE tried[u] + AttemptTtl

MarkerShowsWaits ==
  \A u \in Urls : done[u].at <= now /\ (WaitOver(u) \/ WaitShown(u))

(* A delivery that passed the second check may start.                       *)
Allowed(d) == WaitOver(Url(d)) \/ now - done[Url(d)].at >= Window(d)
ClaimAllowed == \A d \in Deliveries : pc[d] = "claim" => Allowed(d)

WindowInv == MarkerShowsWaits /\ ClaimAllowed

LEMMA DoneState ==
  ASSUME TypeOK, NEW u \in Urls
  PROVE  /\ done[u].at \in Nat /\ done[u].window \in Nat
         /\ tried[u] \in Nat \cup {Never} /\ tried[u] \in Int
<1>1. /\ done[u] \in [at: Nat, window: Nat, version: Versions \cup {NoVersion}]
      /\ tried[u] \in Nat \cup {Never}
  BY DEF TypeOK
<1> QED BY <1>1 DEF Never

LEMMA WindowInit == Init => WindowInv
<1> SUFFICES ASSUME Init PROVE WindowInv
  OBVIOUS
<1>1. MarkerShowsWaits
  BY DEF Init, MarkerShowsWaits, WaitOver, NeverDone
<1>2. ClaimAllowed
  BY DEF Init, ClaimAllowed
<1> QED BY <1>1, <1>2 DEF WindowInv

LEMMA WindowKept ==
  ASSUME TypeOK, WindowInv, UNCHANGED <<now, marker, done, tried>>,
         \A d \in Deliveries : pc'[d] = "claim" => pc[d] = "claim"
  PROVE  WindowInv'
<1>1. MarkerShowsWaits'
  BY DEF WindowInv, MarkerShowsWaits, WaitOver, WaitShown
<1>2. ClaimAllowed'
  BY DEF WindowInv, ClaimAllowed, Allowed, WaitOver, Url, Window
<1> QED BY <1>1, <1>2 DEF WindowInv

(* A marker that is not fresh for a job lets it start. *)
LEMMA StaleIsAllowed ==
  ASSUME TypeOK, WindowInv, NEW d \in Deliveries, ~Fresh(d)
  PROVE  Allowed(d)
<1> DEFINE u == Url(d)
<1>1. u \in Urls /\ Window(d) \in Nat
  BY UrlType
<1>2. /\ now \in Nat /\ marker[u].at \in Nat /\ marker[u].exp \in Nat
      /\ done[u].at \in Nat
  BY <1>1, UrlState, DoneState
<1>3. WaitOver(u) \/ WaitShown(u)
  BY <1>1 DEF WindowInv, MarkerShowsWaits
<1>4. ASSUME WaitShown(u) PROVE now - done[u].at >= Window(d)
  BY <1>1, <1>2, <1>4 DEF WaitShown, Fresh, IsWithin
<1> QED BY <1>3, <1>4 DEF Allowed

LEMMA RecheckKeepsWindow ==
  ASSUME TypeOK, WindowInv, NEW d \in Deliveries, RecheckMarker(d)
  PROVE  WindowInv'
<1>1. MarkerShowsWaits'
  BY DEF RecheckMarker, redisVars, history, WindowInv, MarkerShowsWaits, WaitOver,
         WaitShown
<1>2. ClaimAllowed'
  <2> SUFFICES ASSUME NEW e \in Deliveries, pc'[e] = "claim" PROVE Allowed(e)'
    BY DEF ClaimAllowed
  <2>1. Allowed(e)' <=> Allowed(e)
    BY DEF RecheckMarker, queueVars, history, Allowed, WaitOver, Url, Window
  <2>2. CASE e = d
    <3>1. ~Fresh(d)
      BY <2>2 DEF RecheckMarker, FreshUnderLock, Continue, RedisThrows, Throw, Goto, TypeOK
    <3> QED BY <2>1, <2>2, <3>1, StaleIsAllowed
  <2>3. CASE e # d
    <3>1. pc[e] = "claim"
      BY <2>3 DEF RecheckMarker, Continue, RedisThrows, Throw, Goto, TypeOK
    <3> QED BY <2>1, <3>1 DEF WindowInv, ClaimAllowed
  <2> QED BY <2>2, <2>3
<1> QED BY <1>1, <1>2 DEF WindowInv

(* Only the holder of the lock writes the marker and the history of its     *)
(* URL, so no other delivery of the URL is waiting to claim.                *)
LEMMA WriterKeepsAllowed ==
  ASSUME TypeOK, MutualExclusion, WindowInv, NEW d \in Deliveries,
         pc[d] \in Holding, pc'[d] # "claim",
         \A e \in Deliveries \ {d} : pc'[e] = pc[e],
         now' = now,
         \A u \in Urls \ {Url(d)} : done'[u] = done[u] /\ tried'[u] = tried[u]
  PROVE  ClaimAllowed'
<1> SUFFICES ASSUME NEW e \in Deliveries, pc'[e] = "claim" PROVE Allowed(e)'
  BY DEF ClaimAllowed
<1>1. e # d /\ pc[e] = "claim"
  OBVIOUS
<1>2. Url(e) # Url(d) /\ Url(e) \in Urls
  BY <1>1, UrlType DEF MutualExclusion, Holding
<1>3. Allowed(e)
  BY <1>1 DEF WindowInv, ClaimAllowed
<1>4. Url(e)' = Url(e) /\ Window(e)' = Window(e)
  BY DEF Url, Window
<1> QED BY <1>2, <1>3, <1>4 DEF Allowed, WaitOver

(* A marker written now shows the wait that begins with it. *)
LEMMA StampShows ==
  ASSUME TypeOK, WindowInv, NEW u \in Urls, NEW ttl \in Nat \ {0},
         marker' = [marker EXCEPT ![u] = Stamp(now, ttl)], now' = now,
         \A v \in Urls \ {u} : done'[v] = done[v] /\ tried'[v] = tried[v],
         \/ done'[u] = done[u] /\ tried'[u] = now /\ ttl = AttemptTtl
         \/ done'[u].at = now /\ done'[u].window = ttl /\ tried'[u] = Never
  PROVE  MarkerShowsWaits'
<1> SUFFICES ASSUME NEW v \in Urls
             PROVE  done'[v].at <= now' /\ (WaitOver(v)' \/ WaitShown(v)')
  BY DEF MarkerShowsWaits
<1>1. done[v].at <= now /\ (WaitOver(v) \/ WaitShown(v))
  BY DEF WindowInv, MarkerShowsWaits
<1>2. now \in Nat /\ done[v].at \in Nat
  BY UrlState, DoneState
<1>3. CASE v # u
  <2>1. marker'[v] = marker[v] /\ done'[v] = done[v] /\ tried'[v] = tried[v]
    BY <1>3 DEF TypeOK
  <2> QED BY <1>1, <2>1 DEF WaitOver, WaitShown
<1>4. CASE v = u
  <2>1. marker'[v].at = now /\ marker'[v].exp = now + ttl
    <3>1. marker'[v] = Stamp(now, ttl)
      BY <1>4 DEF TypeOK
    <3> QED BY <3>1, StampFields
  <2>2. now # Never
    BY <1>2 DEF Never
  <2> QED BY <1>1, <1>2, <1>4, <2>1, <2>2 DEF WaitShown, Present
<1> QED BY <1>3, <1>4

LEMMA ClaimKeepsWindow ==
  ASSUME TypeOK, MutualExclusion, WindowInv, NEW d \in Deliveries, Claim(d)
  PROVE  WindowInv'
<1>0. Url(d) \in Urls
  BY UrlType
<1>1. CASE UNCHANGED <<marker, started, tried>>
  <2>1. \A e \in Deliveries : pc'[e] = "claim" => pc[e] = "claim"
    BY DEF Claim, Continue, RedisThrows, Throw, Goto, TypeOK
  <2> QED BY <1>1, <2>1, WindowKept DEF Claim
<1>2. CASE /\ marker' = [marker EXCEPT ![Url(d)] = Stamp(now, AttemptTtl)]
           /\ tried' = [tried EXCEPT ![Url(d)] = now]
  <2>1. /\ done' = done /\ now' = now /\ tried'[Url(d)] = now
        /\ \A v \in Urls \ {Url(d)} : tried'[v] = tried[v]
    BY <1>0, <1>2 DEF Claim, TypeOK
  <2>2. pc[d] \in Holding /\ pc'[d] # "claim" /\ \A e \in Deliveries \ {d} : pc'[e] = pc[e]
    BY DEF Claim, Continue, RedisThrows, Throw, Goto, TypeOK, Holding
  <2>3. ClaimAllowed'
    BY <2>1, <2>2, WriterKeepsAllowed
  <2>4. MarkerShowsWaits'
    BY <1>0, <1>2, <2>1, StampShows
  <2> QED BY <2>3, <2>4 DEF WindowInv
<1> QED BY <1>1, <1>2 DEF Claim

LEMMA ConfirmKeepsWindow ==
  ASSUME TypeOK, MutualExclusion, WindowInv, NEW d \in Deliveries, Confirm(d)
  PROVE  WindowInv'
<1>0. Url(d) \in Urls /\ Window(d) \in Nat \ {0}
  BY UrlType
<1>1. CASE UNCHANGED <<marker, done, tried>>
  <2>1. \A e \in Deliveries : pc'[e] = "claim" => pc[e] = "claim"
    BY DEF Confirm, Continue, RedisThrows, Throw, Goto, TypeOK
  <2> QED BY <1>1, <2>1, WindowKept DEF Confirm
<1>2. CASE /\ marker' = [marker EXCEPT ![Url(d)] = Stamp(now, Window(d))]
           /\ done' = [done EXCEPT ![Url(d)] =
                         [at |-> now, window |-> Window(d), version |-> event[d]]]
           /\ tried' = [tried EXCEPT ![Url(d)] = Never]
  <2>1. /\ done'[Url(d)].at = now /\ done'[Url(d)].window = Window(d)
        /\ tried'[Url(d)] = Never
        /\ \A v \in Urls \ {Url(d)} : done'[v] = done[v] /\ tried'[v] = tried[v]
    BY <1>0, <1>2 DEF TypeOK
  <2>2. now' = now /\ pc[d] \in Holding /\ pc'[d] # "claim"
        /\ \A e \in Deliveries \ {d} : pc'[e] = pc[e]
    BY DEF Confirm, Continue, RedisThrows, Throw, Goto, TypeOK, Holding, Extracting
  <2>3. ClaimAllowed'
    BY <2>1, <2>2, WriterKeepsAllowed
  <2>4. MarkerShowsWaits'
    BY <1>0, <1>2, <2>1, <2>2, StampShows
  <2> QED BY <2>3, <2>4 DEF WindowInv
<1> QED BY <1>1, <1>2 DEF Confirm

LEMMA TickKeepsWindow ==
  ASSUME TypeOK, WindowInv, Tick
  PROVE  WindowInv'
<1>1. now' = now + 1 /\ now \in Nat /\ done' = done /\ tried' = tried
  BY DEF Tick, TypeOK, history
<1>2. ASSUME NEW u \in Urls, WaitOver(u) PROVE WaitOver(u)'
  BY <1>1, <1>2, DoneState DEF WaitOver
<1>3. MarkerShowsWaits'
  <2> SUFFICES ASSUME NEW u \in Urls
               PROVE  done'[u].at <= now' /\ (WaitOver(u)' \/ WaitShown(u)')
    BY DEF MarkerShowsWaits
  <2>1. done[u].at <= now /\ (WaitOver(u) \/ WaitShown(u))
    BY DEF WindowInv, MarkerShowsWaits
  <2>2. /\ marker[u].at \in Nat /\ marker[u].exp \in Nat /\ tried[u] \in Int
        /\ done[u].at \in Nat /\ done[u].window \in Nat
    BY UrlState, DoneState
  <2>3. ASSUME WaitShown(u) PROVE WaitOver(u)' \/ WaitShown(u)'
    <3>1. marker'[u] = Swept(marker[u], NoStamp, now')
      BY DEF Tick
    <3>2. CASE Present(marker[u], now')
      BY <2>3, <3>1, <3>2, <1>1 DEF Swept, WaitShown
    <3>3. CASE ~Present(marker[u], now')
      BY <2>3, <3>3, <1>1, <2>2 DEF WaitShown, Present, WaitOver
    <3> QED BY <3>2, <3>3
  <2> QED BY <1>1, <1>2, <2>1, <2>2, <2>3
<1>4. ClaimAllowed'
  <2> SUFFICES ASSUME NEW d \in Deliveries, pc[d] = "claim" PROVE Allowed(d)'
    BY DEF Tick, ClaimAllowed
  <2>1. Allowed(d) /\ Url(d) \in Urls /\ Window(d) \in Nat
    BY UrlType DEF WindowInv, ClaimAllowed
  <2>2. Url(d)' = Url(d) /\ Window(d)' = Window(d) /\ done[Url(d)].at \in Nat
    BY <2>1, DoneState DEF Url, Window
  <2> QED BY <1>1, <1>2, <2>1, <2>2 DEF Allowed
<1> QED BY <1>3, <1>4 DEF WindowInv

LEMMA WindowNext ==
  TypeOK /\ MutualExclusion /\ WindowInv /\ [Next]_vars => WindowInv'
<1> SUFFICES ASSUME TypeOK, MutualExclusion, WindowInv, [Next]_vars PROVE WindowInv'
  OBVIOUS
<1>1. ASSUME NEW d \in Deliveries, Handle(d) PROVE WindowInv'
  BY <1>1, MarkerLeftAlone, WindowKept, RecheckKeepsWindow, ClaimKeepsWindow,
     ConfirmKeepsWindow DEF Handle
<1>2. ASSUME NEW d \in Deliveries, Crash(d) PROVE WindowInv'
  BY <1>2, MarkerLeftAlone, WindowKept
<1>3. ASSUME NEW m \in Jobs, Deliver(m) PROVE WindowInv'
  BY <1>3, DeliverLeavesMarker, WindowKept
<1>4. ASSUME NEW m \in Jobs, DeadLetter(m) PROVE WindowInv'
  BY <1>4, WindowKept DEF DeadLetter, redisVars, history
<1>5. CASE Tick
  BY <1>5, TickKeepsWindow
<1>6. CASE UNCHANGED vars
  BY <1>6, WindowKept DEF vars, redisVars, queueVars, history
<1> QED BY <1>1, <1>2, <1>3, <1>4, <1>5, <1>6 DEF Next, Idle

(* An extraction sooner than its own window and that of the last one comes  *)
(* only after a failed attempt, when the attempt TTL is over.               *)
THEOREM WindowsKept == JobFits => (Spec => WindowRespected)
<1> SUFFICES ASSUME JobFits PROVE Spec => WindowRespected
  OBVIOUS
<1>1. Spec => []MutualExclusion
  BY ExtractedOnce
<1>2. Spec => []WindowInv
  BY <1>1, TypeCorrect, WindowInit, WindowNext, PTL DEF Spec
<1>3. WindowInv => [\A d \in Deliveries : Starts(d) =>
        LET last == done[Url(d)] IN
        \/ last = NeverDone
        \/ now - last.at >= Window(d)
        \/ now - last.at >= last.window
        \/ tried[Url(d)] # Never /\ now - tried[Url(d)] >= AttemptTtl]_vars
  BY DEF WindowInv, ClaimAllowed, Allowed, WaitOver, Starts
<1> QED BY <1>2, <1>3, PTL DEF WindowRespected

-----------------------------------------------------------------------------
(* Refinement.  How a step of delivery d changes Running.                   *)
Others(d) ==
  \A e \in Deliveries \ {d} : pc'[e] = pc[e]

LEMMA RunningSame ==
  ASSUME TypeOK, NEW d \in Deliveries, Others(d),
         \/ pc[d] \notin Extracting /\ pc'[d] \notin Extracting
         \/ pc[d] \in Extracting /\ pc'[d] \in Extracting
  PROVE  Running' = Running
<1>1. \A e \in Deliveries : pc'[e] \in Extracting <=> pc[e] \in Extracting
  BY DEF Others
<1>2. \A e \in Deliveries : pc[e] \in Extracting => Url(e)' = Url(e)
  BY DEF Others, Url
<1> QED BY <1>1, <1>2 DEF Running

LEMMA RunningStarts ==
  ASSUME TypeOK, NEW d \in Deliveries, Others(d),
         pc'[d] \in Extracting, pc[d] \notin Extracting
  PROVE  Running' = Running \cup {Url(d)}
<1>1. \A e \in Deliveries : Url(e)' = Url(e)
  BY DEF Url
<1>2. \A e \in Deliveries : pc'[e] \in Extracting <=> pc[e] \in Extracting \/ e = d
  BY DEF Others
<1> QED BY <1>1, <1>2, UrlType DEF Running

LEMMA RunningStops ==
  ASSUME TypeOK, MutualExclusion, NEW d \in Deliveries, Others(d),
         pc[d] \in Extracting, pc'[d] \notin Extracting
  PROVE  Url(d) \in Running /\ Running' = Running \ {Url(d)}
<1>1. \A e \in Deliveries : Url(e)' = Url(e)
  BY DEF Url
<1>2. \A e \in Deliveries : pc'[e] \in Extracting <=> pc[e] \in Extracting /\ e # d
  BY DEF Others
<1>3. \A e \in Deliveries \ {d} : pc[e] \in Extracting => Url(e) # Url(d)
  BY DEF MutualExclusion, Holding
<1>4. Url(d) \in Running
  BY UrlType DEF Running
<1> QED BY <1>1, <1>2, <1>3, <1>4 DEF Running

LEMMA GuardInit == Init => Guard!Init
<1> SUFFICES ASSUME Init PROVE Guard!Init
  OBVIOUS
<1>1. Running = {}
  BY DEF Init, Running, Extracting
<1> QED BY <1>1 DEF Init, Guard!Init, Never, Guard!Never

(* A claim that succeeds is the abstract Start.                             *)
LEMMA ClaimIsStart ==
  ASSUME TypeOK, MutualExclusion, GapInv, NEW d \in Deliveries, Claim(d)
  PROVE  [Guard!Next]_(Guard!guardVars)
<1>0. Others(d) /\ pc[d] = "claim" /\ now' = now
  BY DEF Claim, Continue, RedisThrows, Throw, Goto, TypeOK, Others, queueVars
<1>1. CASE started' = [started EXCEPT ![Url(d)] = now] /\ pc'[d] = "extract"
  <2>1. pc'[d] \in Extracting /\ pc[d] \notin Extracting
    BY <1>0, <1>1 DEF Extracting
  <2>2. Running' = Running \cup {Url(d)}
    BY <1>0, <2>1, RunningStarts
  <2>3. Url(d) \notin Running
    BY <1>0, <2>1 DEF Running, MutualExclusion, Holding
  <2>4. Spaced(Url(d)) /\ Url(d) \in Urls
    BY <1>0, UrlType DEF GapInv, ClaimSpaced
  <2>5. Guard!Start(Url(d))
    BY <1>0, <1>1, <2>2, <2>3, <2>4 DEF Guard!Start, Spaced, Never, Guard!Never
  <2> QED BY <2>4, <2>5 DEF Guard!Next
<1>2. CASE started' = started /\ pc'[d] = "release"
  <2>1. pc'[d] \notin Extracting /\ pc[d] \notin Extracting
    BY <1>0, <1>2 DEF Extracting
  <2>2. Running' = Running
    BY <1>0, <2>1, RunningSame
  <2> QED BY <1>0, <1>2, <2>2 DEF Guard!guardVars
<1> QED BY <1>1, <1>2
        DEF Claim, Continue, RedisThrows, Throw, Goto, TypeOK

(* A step that leaves the clock and started alone and moves one delivery,   *)
(* but not into the extraction, stutters or is the abstract Stop.           *)
LEMMA OtherIsStop ==
  ASSUME TypeOK, MutualExclusion, NEW d \in Deliveries, Others(d),
         UNCHANGED <<now, started>>,
         pc'[d] \in Extracting => pc[d] \in Extracting
  PROVE  [Guard!Next]_(Guard!guardVars)
<1>1. CASE pc[d] \in Extracting /\ pc'[d] \notin Extracting
  <2>1. Url(d) \in Running /\ Running' = Running \ {Url(d)}
    BY <1>1, RunningStops
  <2>2. Guard!Stop(Url(d))
    BY <2>1 DEF Guard!Stop
  <2> QED BY <2>2, UrlType DEF Guard!Next
<1>2. CASE ~(pc[d] \in Extracting /\ pc'[d] \notin Extracting)
  <2>1. Running' = Running
    BY <1>2, RunningSame
  <2> QED BY <2>1 DEF Guard!guardVars
<1> QED BY <1>1, <1>2

LEMMA HandleIsGuard ==
  ASSUME TypeOK, MutualExclusion, GapInv, NEW d \in Deliveries, Handle(d)
  PROVE  [Guard!Next]_(Guard!guardVars)
<1>1. CASE Claim(d)
  BY <1>1, ClaimIsStart
<1>2. CASE ~Claim(d)
  <2>1. /\ UNCHANGED <<now, started>> /\ Others(d)
        /\ pc'[d] \in Extracting => pc[d] \in Extracting
    <3> USE DEF Goto, TypeOK, Settle, Continue, Throw, RedisThrows, redisVars,
                queueVars, history, Others, Extracting
    <3>1. CASE CheckMarker(d) \/ AcquireLock(d) \/ RecheckMarker(d)
      BY <3>1 DEF CheckMarker, AcquireLock, RecheckMarker
    <3>2. CASE Extract(d) \/ SyncCorpus(d)
      BY <3>2 DEF Extract, SyncCorpus, AfterExtraction
    <3>3. CASE CompareHash(d) \/ Publish(d) \/ StoreHash(d)
      BY <3>3 DEF CompareHash, AfterCompare, Publish, PublishThrows, StoreHash
    <3>4. CASE Confirm(d) \/ Release(d)
      BY <3>4 DEF Confirm, Release
    <3> QED BY <1>2, <3>1, <3>2, <3>3, <3>4 DEF Handle
  <2> QED BY <2>1, OtherIsStop
<1> QED BY <1>1, <1>2

LEMMA GuardStep ==
  TypeOK /\ MutualExclusion /\ GapInv /\ [Next]_vars
    => [Guard!Next]_(Guard!guardVars)
<1> SUFFICES ASSUME TypeOK, MutualExclusion, GapInv, [Next]_vars
             PROVE  [Guard!Next]_(Guard!guardVars)
  OBVIOUS
<1>1. ASSUME NEW d \in Deliveries, Handle(d)
      PROVE  [Guard!Next]_(Guard!guardVars)
  BY <1>1, HandleIsGuard
<1>2. ASSUME NEW d \in Deliveries, Crash(d)
      PROVE  [Guard!Next]_(Guard!guardVars)
  <2>1. Others(d) /\ pc'[d] \notin Extracting
    BY <1>2 DEF Crash, Goto, TypeOK, Others, queueVars, Extracting
  <2> QED BY <1>2, <2>1, OtherIsStop DEF Crash, queueVars, history
<1>3. ASSUME NEW m \in Jobs, Deliver(m)
      PROVE  [Guard!Next]_(Guard!guardVars)
  <2>0. PICK d \in Deliveries : Goto(d, "check")
    BY <1>3, DeliverType
  <2>1. Others(d) /\ pc'[d] \notin Extracting
    BY <2>0 DEF Goto, TypeOK, Others, Extracting
  <2> QED BY <1>3, <2>1, OtherIsStop DEF Deliver, history
<1>4. ASSUME NEW m \in Jobs, DeadLetter(m)
      PROVE  [Guard!Next]_(Guard!guardVars)
  BY <1>4 DEF DeadLetter, history, Running, Url, Guard!guardVars
<1>5. CASE Tick
  <2>1. Running' = Running
    BY <1>5 DEF Tick, queueVars, Running, Url
  <2>2. Guard!Tick
    BY <1>5, <2>1 DEF Tick, history, Guard!Tick
  <2> QED BY <2>2 DEF Guard!Next
<1>6. CASE UNCHANGED vars
  BY <1>6 DEF vars, queueVars, history, Running, Url, Guard!guardVars
<1> QED BY <1>1, <1>2, <1>3, <1>4, <1>5, <1>6 DEF Next, Idle

(* The worker implements the guard: one extraction of a URL at a time, and  *)
(* starts at least MinGap apart, under every fault.                         *)
THEOREM GuardImplemented == JobFits => (Spec => ImplementsGuard)
<1> SUFFICES ASSUME JobFits PROVE Spec => ImplementsGuard
  OBVIOUS
<1>1. (Spec => []MutualExclusion) /\ (Spec => []GapInv)
  BY ExtractedOnce, MarkerSafe
<1>2. Spec => Guard!Init /\ [][Guard!Next]_(Guard!guardVars)
  BY <1>1, TypeCorrect, GuardInit, GuardStep, PTL DEF Spec
<1> QED BY <1>2 DEF ImplementsGuard, Guard!Spec
=============================================================================
