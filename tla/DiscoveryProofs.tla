--------------------------- MODULE DiscoveryProofs ---------------------------
(***************************************************************************)
(* Proofs about DiscoveryWorker, for any pages, intervals, articles and    *)
(* contexts, every refresh window and TTL its assumption allows, and every *)
(* set of faults.                                                          *)
(***************************************************************************)
EXTENDS DiscoveryWorker, TLAPS

Pcs == {"unused", "acked", "failed"} \cup Active
JobStates == {"outstanding", "acked", "dead"}
Stamps == [at: Nat, exp: Nat]
Locks == [token: Deliveries \cup {NoToken}, exp: Nat]
Claims == [at: Nat \cup {Never}, round: Nat \cup {Never}]
Others(d) == \A e \in Deliveries \ {d} : pc'[e] = pc[e]

USE PageAssumption

-----------------------------------------------------------------------------
(* Facts about the operators. *)
LEMMA StampFields ==
  \A t, ttl : Stamp(t, ttl).at = t /\ Stamp(t, ttl).exp = t + ttl
BY DEF Stamp

LEMMA LockedFields ==
  \A d, t, ttl : Locked(d, t, ttl).token = d /\ Locked(d, t, ttl).exp = t + ttl
BY DEF Locked

LEMMA KeyTypes ==
  /\ \A t, ttl \in Nat : Stamp(t, ttl) \in Stamps
  /\ \A d \in Deliveries, t, ttl \in Nat : Locked(d, t, ttl) \in Locks
  /\ NoStamp \in Stamps /\ NoLock \in Locks
BY DEF Stamp, Locked, NoStamp, NoLock, Stamps, Locks

LEMMA SweptType ==
  ASSUME NEW S, NEW key \in S, NEW empty \in S, NEW t
  PROVE  Swept(key, empty, t) \in S
BY DEF Swept

LEMMA ReleasedType ==
  ASSUME NEW key \in Locks, NEW d, NEW t
  PROVE  Released(key, d, t) \in Locks
BY KeyTypes DEF Released

LEMMA PageType ==
  ASSUME NEW d \in Deliveries
  PROVE  /\ Page(d) \in Pages /\ JobOf(d) \in Jobs
         /\ JobOf(d)[2] \in 0..Rounds - 1
BY DEF Deliveries, Jobs, JobOf, Page

LEMMA MessagesType == \A urls \in SUBSET Articles : Messages(urls) \subseteq Messages(Articles)
BY DEF Messages, Events, ArticleJobs

LEMMA Labels ==
  {"check", "lock", "recheck", "claim", "crawl", "publish", "release", "failed"}
    \subseteq Pcs
BY DEF Pcs, Active, Holding, Crawling

(* TypeOK as named sets, the form the lemmas below use.                     *)
LEMMA Typed ==
  TypeOK <=>
    /\ now \in Nat /\ fetched \in [Pages -> Stamps] /\ lock \in [Pages -> Locks]
    /\ jobState \in [Jobs -> JobStates] /\ attempts \in [Jobs -> 0..MaxAttempts]
    /\ pc \in [Deliveries -> Pcs] /\ verdict \in [Deliveries -> {"ack", "nack"}]
    /\ lockedAt \in [Deliveries -> Nat]
    /\ found \in [Deliveries -> SUBSET Articles]
    /\ inFlight \in [Deliveries -> SUBSET Messages(Articles)]
    /\ landed \in [Deliveries -> SUBSET Messages(Articles)]
    /\ started \in [Pages -> Nat \cup {Never}]
    /\ claimed \in [Pages -> Claims]
BY DEF TypeOK, Stamps, Locks, JobStates, Pcs, Claims

-----------------------------------------------------------------------------
(* The moves every action is made of. *)
LEMMA GotoType ==
  ASSUME TypeOK, NEW d \in Deliveries, NEW l \in Pcs, Goto(d, l)
  PROVE  pc' \in [Deliveries -> Pcs] /\ pc'[d] = l /\ Others(d)
BY Typed DEF Goto, Others

LEMMA SettleType ==
  ASSUME TypeOK, NEW d \in Deliveries, NEW v, Settle(d, v)
  PROVE  /\ pc' \in [Deliveries -> Pcs] /\ Others(d)
         /\ pc'[d] = IF v = "ack" THEN "acked" ELSE "failed"
         /\ jobState' \in [Jobs -> JobStates]
<1>1. "acked" \in Pcs /\ "failed" \in Pcs
  BY DEF Pcs
<1>2. /\ pc' \in [Deliveries -> Pcs] /\ Others(d)
      /\ pc'[d] = IF v = "ack" THEN "acked" ELSE "failed"
  BY <1>1, GotoType DEF Settle
<1>3. jobState' \in [Jobs -> JobStates]
  BY Typed, PageType DEF Settle, JobStates
<1> QED BY <1>2, <1>3

LEMMA StepType ==
  ASSUME TypeOK, NEW d \in Deliveries, NEW l \in Pcs,
         Continue(d, l) \/ Throw(d)
  PROVE  /\ pc' \in [Deliveries -> Pcs] /\ Others(d)
         /\ pc'[d] \in {l, "release"}
         /\ verdict' \in [Deliveries -> {"ack", "nack"}]
<1>1. CASE Continue(d, l)
  BY <1>1, GotoType, Typed DEF Continue
<1>2. CASE Throw(d)
  BY <1>2, GotoType, Labels, Typed DEF Throw
<1> QED BY <1>1, <1>2

LEMMA ForgetType ==
  ASSUME TypeOK, NEW d \in Deliveries, Forget(d)
  PROVE  /\ verdict' \in [Deliveries -> {"ack", "nack"}]
         /\ lockedAt' \in [Deliveries -> Nat]
         /\ found' \in [Deliveries -> SUBSET Articles]
BY Typed DEF Forget

-----------------------------------------------------------------------------
(* Each action keeps the types.  Its last conjunct says where its delivery  *)
(* is afterwards.                                                           *)
LEMMA DeliverType ==
  ASSUME TypeOK, NEW m \in Jobs, Deliver(m)
  PROVE  /\ TypeOK'
         /\ \E d \in Deliveries : JobOf(d) = m /\ pc'[d] = "check" /\ Others(d)
<1>1. attempts[m] \in 0..MaxAttempts /\ attempts[m] < MaxAttempts
  BY Typed DEF Deliver
<1>2. attempts[m] + 1 \in 1..MaxAttempts
  BY <1>1
<1>3. attempts' \in [Jobs -> 0..MaxAttempts]
  BY <1>2, Typed DEF Deliver
<1>4. <<m, attempts[m] + 1>> \in Deliveries /\ JobOf(<<m, attempts[m] + 1>>) = m
  BY <1>2 DEF Deliveries, JobOf
<1>5. /\ pc' \in [Deliveries -> Pcs] /\ Others(<<m, attempts[m] + 1>>)
      /\ pc'[<<m, attempts[m] + 1>>] = "check"
  BY <1>4, GotoType, Labels DEF Deliver
<1>6. TypeOK'
  BY <1>3, <1>5, Typed
     DEF Deliver, TypeOK, Pcs, redisVars, localVars, sendVars, history
<1> QED BY <1>4, <1>5, <1>6

LEMMA CheckMarkerType ==
  ASSUME TypeOK, NEW d \in Deliveries, CheckMarker(d)
  PROVE  TypeOK' /\ Others(d) /\ pc'[d] \in {"lock", "acked", "failed"}
<1>1. /\ pc' \in [Deliveries -> Pcs] /\ Others(d)
      /\ pc'[d] \in {"lock", "acked", "failed"}
      /\ jobState' \in [Jobs -> JobStates]
  BY SettleType, GotoType, Labels, Typed DEF CheckMarker
<1>2. TypeOK'
  BY <1>1, Typed DEF CheckMarker, TypeOK, Pcs, JobStates, redisVars, localVars,
                     sendVars, history
<1> QED BY <1>1, <1>2

LEMMA AcquireLockType ==
  ASSUME TypeOK, NEW d \in Deliveries, AcquireLock(d)
  PROVE  TypeOK' /\ Others(d) /\ pc'[d] \in {"recheck", "acked", "failed"}
<1>1. /\ pc' \in [Deliveries -> Pcs] /\ Others(d)
      /\ pc'[d] \in {"recheck", "acked", "failed"}
      /\ jobState' \in [Jobs -> JobStates]
  BY SettleType, GotoType, Labels, Typed DEF AcquireLock
<1>2. Locked(d, now, LockTtl) \in Locks
  BY KeyTypes, Typed
<1>3. lock' \in [Pages -> Locks]
  BY <1>2, Typed DEF AcquireLock
<1>4. lockedAt' \in [Deliveries -> Nat]
  BY Typed DEF AcquireLock
<1>5. TypeOK'
  BY <1>1, <1>3, <1>4, Typed
     DEF AcquireLock, TypeOK, Pcs, Locks, JobStates, sendVars, history
<1> QED BY <1>1, <1>5

LEMMA RecheckMarkerType ==
  ASSUME TypeOK, NEW d \in Deliveries, RecheckMarker(d)
  PROVE  TypeOK' /\ Others(d) /\ pc'[d] \in {"claim", "release"}
<1>1. /\ pc' \in [Deliveries -> Pcs] /\ Others(d)
      /\ pc'[d] \in {"claim", "release"}
      /\ verdict' \in [Deliveries -> {"ack", "nack"}]
  BY StepType, Labels DEF RecheckMarker, RedisThrows
<1>2. TypeOK'
  BY <1>1, Typed DEF RecheckMarker, TypeOK, Pcs, redisVars, queueVars, sendVars,
                     history
<1> QED BY <1>1, <1>2

LEMMA ClaimType ==
  ASSUME TypeOK, NEW d \in Deliveries, Claim(d)
  PROVE  TypeOK' /\ Others(d) /\ pc'[d] \in {"crawl", "release"}
<1>1. /\ pc' \in [Deliveries -> Pcs] /\ Others(d)
      /\ pc'[d] \in {"crawl", "release"}
      /\ verdict' \in [Deliveries -> {"ack", "nack"}]
  BY StepType, Labels DEF Claim, RedisThrows
<1>2. Stamp(now, FetchTtl) \in Stamps
  BY KeyTypes, Typed
<1>3. fetched' \in [Pages -> Stamps]
  BY <1>2, Typed DEF Claim, history
<1>4. [at |-> now, round |-> JobOf(d)[2]] \in Claims
  BY PageType, Typed DEF Claims
<1>5. claimed' \in [Pages -> Claims] /\ started' \in [Pages -> Nat \cup {Never}]
  BY <1>4, Typed DEF Claim, history
<1>6. TypeOK'
  BY <1>1, <1>3, <1>5, Typed
     DEF Claim, TypeOK, Pcs, Stamps, Claims, queueVars, sendVars
<1> QED BY <1>1, <1>6

LEMMA CrawlType ==
  ASSUME TypeOK, NEW d \in Deliveries, Crawl(d)
  PROVE  TypeOK' /\ Others(d) /\ pc'[d] \in {"publish", "release"}
<1>1. /\ pc' \in [Deliveries -> Pcs] /\ Others(d)
      /\ pc'[d] \in {"publish", "release"}
      /\ verdict' \in [Deliveries -> {"ack", "nack"}]
  BY StepType, Labels DEF Crawl
<1>2. /\ found' \in [Deliveries -> SUBSET Articles]
      /\ inFlight' \in [Deliveries -> SUBSET Messages(Articles)]
  BY MessagesType, Typed DEF Crawl
<1>3. TypeOK'
  BY <1>1, <1>2, Typed DEF Crawl, TypeOK, Pcs, redisVars, queueVars, history
<1> QED BY <1>1, <1>3

LEMMA LandType ==
  ASSUME TypeOK, NEW d \in Deliveries, NEW msg, Land(d, msg)
  PROVE  TypeOK' /\ pc' = pc
<1>1. inFlight[d] \subseteq Messages(Articles) /\ landed[d] \subseteq Messages(Articles)
  BY Typed
<1>2. inFlight' \in [Deliveries -> SUBSET Messages(Articles)]
  BY <1>1, Typed DEF Land
<1>3. landed' \in [Deliveries -> SUBSET Messages(Articles)]
  BY <1>1, Typed DEF Land
<1> QED BY <1>2, <1>3 DEF Land, TypeOK, redisVars, queueVars, localVars, history

LEMMA RejectType ==
  ASSUME TypeOK, NEW d \in Deliveries, NEW msg, Reject(d, msg)
  PROVE  /\ TypeOK'
         /\ \/ pc[d] = "publish" /\ pc'[d] = "release" /\ Others(d)
            \/ pc' = pc
<1>1. inFlight' \in [Deliveries -> SUBSET Messages(Articles)]
  BY Typed DEF Reject
<1>2. CASE pc[d] = "publish"
  <2>1. Throw(d)
    BY <1>2 DEF Reject, RejectAll
  <2>2. /\ pc' \in [Deliveries -> Pcs] /\ Others(d) /\ pc'[d] = "release"
        /\ verdict' \in [Deliveries -> {"ack", "nack"}]
    BY <2>1, StepType, Labels
  <2>3. TypeOK'
    BY <1>1, <2>2, Typed DEF Reject, TypeOK, Pcs, redisVars, queueVars, history
  <2> QED BY <1>2, <2>2, <2>3
<1>3. CASE pc[d] # "publish"
  BY <1>1, <1>3 DEF Reject, RejectAll, TypeOK, redisVars, queueVars, history
<1> QED BY <1>2, <1>3

LEMMA AllPublishedType ==
  ASSUME TypeOK, NEW d \in Deliveries, AllPublished(d)
  PROVE  TypeOK' /\ Others(d) /\ pc'[d] = "release"
<1>1. /\ pc' \in [Deliveries -> Pcs] /\ Others(d) /\ pc'[d] = "release"
      /\ verdict' \in [Deliveries -> {"ack", "nack"}]
  BY StepType, Labels DEF AllPublished
<1>2. TypeOK'
  BY <1>1, Typed DEF AllPublished, TypeOK, Pcs, redisVars, queueVars, sendVars,
                     history
<1> QED BY <1>1, <1>2

LEMMA ReleaseType ==
  ASSUME TypeOK, NEW d \in Deliveries, Release(d)
  PROVE  TypeOK' /\ Others(d) /\ pc'[d] \in {"acked", "failed"}
<1>1. /\ pc' \in [Deliveries -> Pcs] /\ Others(d)
      /\ pc'[d] \in {"acked", "failed"} /\ jobState' \in [Jobs -> JobStates]
  BY SettleType DEF Release
<1>2. Released(lock[Page(d)], d, now) \in Locks
  BY ReleasedType, PageType, Typed
<1>3. lock' \in [Pages -> Locks]
  BY <1>2, Typed DEF Release
<1>4. Forget(d)
  BY DEF Release
<1>5. TypeOK'
  BY <1>1, <1>3, <1>4, ForgetType, Typed
     DEF Release, TypeOK, Pcs, Locks, JobStates, sendVars, history
<1> QED BY <1>1, <1>5

LEMMA CrashType ==
  ASSUME TypeOK, NEW d \in Deliveries, Crash(d)
  PROVE  TypeOK' /\ Others(d) /\ pc'[d] = "failed"
<1>1. pc' \in [Deliveries -> Pcs] /\ Others(d) /\ pc'[d] = "failed"
  BY GotoType, Labels DEF Crash
<1>2. Forget(d)
  BY DEF Crash
<1>3. inFlight' \in [Deliveries -> SUBSET Messages(Articles)]
  BY Typed DEF Crash
<1>4. TypeOK'
  BY <1>1, <1>2, <1>3, ForgetType, Typed
     DEF Crash, TypeOK, Pcs, redisVars, queueVars, history
<1> QED BY <1>1, <1>4

LEMMA DeadLetterType ==
  ASSUME TypeOK, NEW m \in Jobs, DeadLetter(m)
  PROVE  TypeOK'
BY DEF DeadLetter, TypeOK, redisVars, localVars, sendVars, history

LEMMA TickType ==
  ASSUME TypeOK, Tick
  PROVE  TypeOK'
<1>1. now' \in Nat
  BY DEF Tick, TypeOK
<1>2. fetched' \in [Pages -> Stamps] /\ lock' \in [Pages -> Locks]
  BY SweptType, KeyTypes, Typed DEF Tick
<1> QED BY <1>1, <1>2
        DEF Tick, TypeOK, queueVars, localVars, sendVars, history, Stamps, Locks

-----------------------------------------------------------------------------
LEMMA TypeInit == Init => TypeOK
<1> SUFFICES ASSUME Init PROVE TypeOK OBVIOUS
<1>1. fetched \in [Pages -> Stamps] /\ lock \in [Pages -> Locks]
  BY KeyTypes DEF Init
<1>2. claimed \in [Pages -> Claims]
  BY DEF Init, NeverClaimed, Claims
<1> QED BY <1>1, <1>2, Typed DEF Init, JobStates, Pcs

LEMMA HandleType ==
  ASSUME TypeOK, NEW d \in Deliveries, Handle(d)
  PROVE  TypeOK'
BY CheckMarkerType, AcquireLockType, RecheckMarkerType, ClaimType, CrawlType,
   AllPublishedType, ReleaseType, LandType, RejectType
   DEF Handle

LEMMA TypeNext == TypeOK /\ [Next]_vars => TypeOK'
<1> SUFFICES ASSUME TypeOK, [Next]_vars PROVE TypeOK'
  OBVIOUS
<1>1. CASE UNCHANGED vars
  BY <1>1 DEF TypeOK, vars, redisVars, queueVars, localVars, sendVars, history
<1>2. CASE Tick
  BY <1>2, TickType
<1>3. ASSUME NEW d \in Deliveries, Handle(d) \/ Crash(d) PROVE TypeOK'
  BY <1>3, HandleType, CrashType
<1>4. ASSUME NEW m \in Jobs, Deliver(m) \/ DeadLetter(m) PROVE TypeOK'
  BY <1>4, DeliverType, DeadLetterType
<1> QED BY <1>1, <1>2, <1>3, <1>4 DEF Next, Idle

(* Every reachable state of the discovery worker has the declared types.    *)
THEOREM TypeCorrect == Spec => []TypeOK
BY TypeInit, TypeNext, PTL DEF Spec

-----------------------------------------------------------------------------
(* A delivery under the lock owns it, until after the handler must end.     *)
LockOwned ==
  \A d \in Deliveries : pc[d] \in Holding =>
    /\ lock[Page(d)] = Locked(d, lockedAt[d], LockTtl)
    /\ now < lockedAt[d] + LockTtl

HoldersExclude ==
  \A d, e \in Deliveries :
    Page(d) = Page(e) /\ pc[d] \in Holding /\ pc[e] \in Holding => d = e

LEMMA OwnersExclude == LockOwned => HoldersExclude
BY LockedFields DEF LockOwned, HoldersExclude

(* A step of delivery d disturbs no other holder's lock.                    *)
LEMMA OwnedByOthers ==
  ASSUME LockOwned, NEW d \in Deliveries, Others(d), now' = now,
         \A e \in Deliveries \ {d} :
           /\ lockedAt'[e] = lockedAt[e]
           /\ pc[e] \in Holding => lock'[Page(e)] = lock[Page(e)],
         pc'[d] \in Holding =>
           /\ lock'[Page(d)] = Locked(d, lockedAt'[d], LockTtl)
           /\ now < lockedAt'[d] + LockTtl
  PROVE  LockOwned'
BY DEF LockOwned, Others, Page, JobOf

LEMMA OwnedKept ==
  ASSUME LockOwned, NEW d \in Deliveries, Others(d),
         pc'[d] \in Holding => pc[d] \in Holding,
         UNCHANGED <<now, lock, lockedAt>>
  PROVE  LockOwned'
BY DEF LockOwned, Others, Page, JobOf

LEMMA AcquireKeepsLock ==
  ASSUME TypeOK, LockOwned, NEW d \in Deliveries, AcquireLock(d)
  PROVE  LockOwned'
<1>0. Others(d) /\ pc[d] = "lock" /\ now' = now
  BY AcquireLockType DEF AcquireLock
<1>1. CASE CanAcquire(lock[Page(d)], now)
           /\ lock' = [lock EXCEPT ![Page(d)] = Locked(d, now, LockTtl)]
  <2>1. \A e \in Deliveries : pc[e] \in Holding => Page(e) # Page(d)
    BY <1>1, LockedFields DEF LockOwned, CanAcquire, Present
  <2>2. \A e \in Deliveries \ {d} :
          /\ lockedAt'[e] = lockedAt[e]
          /\ pc[e] \in Holding => lock'[Page(e)] = lock[Page(e)]
    BY <1>1, <2>1, Typed, PageType DEF AcquireLock
  <2>3. ASSUME pc'[d] \in Holding
        PROVE  /\ lock'[Page(d)] = Locked(d, lockedAt'[d], LockTtl)
               /\ now < lockedAt'[d] + LockTtl
    <3>1. lockedAt' = [lockedAt EXCEPT ![d] = now]
      BY <2>3, SettleType DEF AcquireLock, Holding, Crawling
    <3>2. lockedAt'[d] = now /\ now \in Nat
      BY <3>1, Typed
    <3>3. lock'[Page(d)] = Locked(d, now, LockTtl)
      BY <1>1, Typed, PageType
    <3> QED BY <3>2, <3>3
  <2> QED BY <1>0, <2>2, <2>3, OwnedByOthers
<1>2. CASE lock' = lock /\ lockedAt' = lockedAt /\ \E v \in {"ack", "nack"} : Settle(d, v)
  BY <1>0, <1>2, SettleType, OwnedKept DEF Holding, Crawling
<1> QED BY <1>1, <1>2 DEF AcquireLock

LEMMA ReleaseKeepsLock ==
  ASSUME TypeOK, LockOwned, NEW d \in Deliveries, Release(d)
  PROVE  LockOwned'
<1>1. pc[d] \in Holding /\ pc'[d] \notin Holding /\ Others(d) /\ now' = now
  BY ReleaseType DEF Release, Holding, Crawling
<1>2. \A e \in Deliveries \ {d} : pc[e] \in Holding => Page(e) # Page(d)
  BY <1>1, OwnersExclude DEF HoldersExclude
<1>3. \A e \in Deliveries \ {d} :
        /\ lockedAt'[e] = lockedAt[e]
        /\ pc[e] \in Holding => lock'[Page(e)] = lock[Page(e)]
  BY <1>2, Typed, PageType DEF Release, Forget
<1> QED BY <1>1, <1>3, OwnedByOthers

LEMMA TickKeepsLock ==
  ASSUME TypeOK, LockOwned, Tick
  PROVE  LockOwned'
<1> SUFFICES ASSUME NEW d \in Deliveries, pc[d] \in Holding
             PROVE  /\ lock'[Page(d)] = Locked(d, lockedAt[d], LockTtl)
                    /\ now' < lockedAt[d] + LockTtl
  BY DEF LockOwned, Tick, localVars, Page, JobOf
<1>1. lock[Page(d)] = Locked(d, lockedAt[d], LockTtl)
  BY DEF LockOwned
<1>2. /\ now \in Nat /\ lockedAt[d] \in Nat /\ now' = now + 1
      /\ now < lockedAt[d] + MaxJob
  BY Typed DEF Tick
<1>3. now' < lockedAt[d] + LockTtl
  BY <1>2
<1>4. lock'[Page(d)] = Swept(lock[Page(d)], NoLock, now')
  BY PageType DEF Tick
<1> QED BY <1>1, <1>3, <1>4, LockedFields DEF Swept, Present

LEMMA SectionKeepsLock ==
  ASSUME TypeOK, LockOwned, NEW d \in Deliveries,
         \/ CheckMarker(d) \/ RecheckMarker(d) \/ Claim(d) \/ Crawl(d)
         \/ AllPublished(d)
         \/ \E msg \in inFlight[d] : Land(d, msg) \/ Reject(d, msg)
  PROVE  LockOwned'
<1> USE DEF redisVars, localVars, Holding, Crawling
<1>1. CASE CheckMarker(d)
  BY <1>1, CheckMarkerType, OwnedKept DEF CheckMarker
<1>2. CASE RecheckMarker(d)
  BY <1>2, RecheckMarkerType, OwnedKept DEF RecheckMarker
<1>3. CASE Claim(d)
  BY <1>3, ClaimType, OwnedKept DEF Claim
<1>4. CASE Crawl(d)
  BY <1>4, CrawlType, OwnedKept DEF Crawl
<1>5. CASE AllPublished(d)
  BY <1>5, AllPublishedType, OwnedKept DEF AllPublished
<1>6. ASSUME NEW msg, Land(d, msg) PROVE LockOwned'
  BY <1>6, LandType, OwnedKept DEF Land, Others
<1>7. ASSUME NEW msg, Reject(d, msg) PROVE LockOwned'
  BY <1>7, RejectType, OwnedKept DEF Reject, Others
<1> QED BY <1>1, <1>2, <1>3, <1>4, <1>5, <1>6, <1>7

LEMMA LockInit == Init => LockOwned
BY DEF Init, LockOwned, Holding, Crawling

LEMMA LockNext == TypeOK /\ LockOwned /\ [Next]_vars => LockOwned'
<1> SUFFICES ASSUME TypeOK, LockOwned, [Next]_vars PROVE LockOwned'
  OBVIOUS
<1>1. ASSUME NEW d \in Deliveries, Handle(d) PROVE LockOwned'
  BY <1>1, SectionKeepsLock, AcquireKeepsLock, ReleaseKeepsLock DEF Handle
<1>2. ASSUME NEW d \in Deliveries, Crash(d) PROVE LockOwned'
  <2>1. pc'[d] \notin Holding /\ Others(d)
    BY <1>2, CrashType DEF Holding, Crawling
  <2>2. \A e \in Deliveries \ {d} : lockedAt'[e] = lockedAt[e]
    BY <1>2, Typed DEF Crash, Forget
  <2> QED BY <1>2, <2>1, <2>2, OwnedByOthers DEF Crash, redisVars
<1>3. ASSUME NEW m \in Jobs, Deliver(m) PROVE LockOwned'
  <2>1. PICK d \in Deliveries : pc'[d] = "check" /\ Others(d)
    BY <1>3, DeliverType
  <2> QED BY <1>3, <2>1, OwnedKept
          DEF Deliver, redisVars, localVars, Holding, Crawling
<1>4. ASSUME NEW m \in Jobs, DeadLetter(m) PROVE LockOwned'
  BY <1>4 DEF DeadLetter, redisVars, localVars, LockOwned, Page, JobOf
<1>5. CASE Tick
  BY <1>5, TickKeepsLock
<1>6. CASE UNCHANGED vars
  BY <1>6 DEF vars, redisVars, localVars, LockOwned, Page, JobOf
<1> QED BY <1>1, <1>2, <1>3, <1>4, <1>5, <1>6 DEF Next, Idle

(* Whatever fails or crashes, at most one delivery works on a page.         *)
THEOREM PagesExclusive == Spec => []HoldersExclude
BY TypeCorrect, LockInit, LockNext, OwnersExclude, PTL DEF Spec

-----------------------------------------------------------------------------
(* What a handler has sent.  A crawl's messages are in flight or landed     *)
(* until one is rejected; a handler that will ack has seen them all land;   *)
(* outside a crawl there is nothing to send.                                *)
Accounted(d) ==
  /\ pc[d] = "publish" => Messages(found[d]) \subseteq inFlight[d] \cup landed[d]
  /\ pc[d] = "release" /\ verdict[d] = "ack" => Messages(found[d]) \subseteq landed[d]
  /\ pc[d] \notin {"publish", "release"} => found[d] = {}

(* The deliveries Pub/Sub has not made yet have not run.                    *)
Undelivered ==
  \A m \in Jobs, n \in 1..MaxAttempts :
    n > attempts[m] => pc[<<m, n>>] = "unused"

SendInv == Undelivered /\ \A d \in Deliveries : Accounted(d)

LEMMA NothingToSend == Messages({}) = {}
BY DEF Messages, Events, ArticleJobs

LEMMA SendInit == Init => SendInv
BY DEF Init, SendInv, Undelivered, Accounted, Deliveries

(* Deliveries that neither move nor send keep their account.                *)
LEMMA AccountKept ==
  ASSUME NEW e \in Deliveries, Accounted(e), pc'[e] = pc[e],
         verdict'[e] = verdict[e], found'[e] = found[e],
         inFlight'[e] = inFlight[e], landed'[e] = landed[e]
  PROVE  Accounted(e)'
BY DEF Accounted

LEMMA SendKept ==
  ASSUME SendInv, NEW d \in Deliveries, Others(d), Accounted(d)',
         attempts' = attempts, pc[d] # "unused",
         \A e \in Deliveries \ {d} :
           /\ verdict'[e] = verdict[e] /\ found'[e] = found[e]
           /\ inFlight'[e] = inFlight[e] /\ landed'[e] = landed[e]
  PROVE  SendInv'
<1>1. \A e \in Deliveries : Accounted(e)'
  BY AccountKept DEF SendInv, Others
<1>2. Undelivered'
  BY DEF SendInv, Undelivered, Others, Deliveries
<1> QED BY <1>1, <1>2 DEF SendInv

LEMMA EarlySends ==
  ASSUME TypeOK, SendInv, NEW d \in Deliveries,
         CheckMarker(d) \/ AcquireLock(d) \/ RecheckMarker(d) \/ Claim(d)
  PROVE  SendInv'
<1> USE DEF sendVars, localVars, queueVars
<1>1. pc[d] \notin {"unused", "publish", "release"} /\ found[d] = {}
  BY DEF CheckMarker, AcquireLock, RecheckMarker, Claim, SendInv, Accounted
<1>2. UNCHANGED <<attempts, found, inFlight, landed>> /\ Others(d)
  BY CheckMarkerType, AcquireLockType, RecheckMarkerType, ClaimType
     DEF CheckMarker, AcquireLock, RecheckMarker, Claim
<1>3. pc'[d] # "publish"
  BY CheckMarkerType, AcquireLockType, RecheckMarkerType, ClaimType
<1>4. \A e \in Deliveries \ {d} : verdict'[e] = verdict[e]
  BY Typed DEF CheckMarker, AcquireLock, RecheckMarker, Claim, RedisThrows,
               Continue, Throw
<1>5. Accounted(d)'
  BY <1>1, <1>2, <1>3, NothingToSend DEF Accounted
<1> QED BY <1>1, <1>2, <1>4, <1>5, SendKept

LEMMA CrawlSends ==
  ASSUME TypeOK, SendInv, NEW d \in Deliveries, Crawl(d)
  PROVE  SendInv'
<1>1. pc[d] = "crawl" /\ found[d] = {} /\ Others(d) /\ attempts' = attempts
  BY CrawlType DEF Crawl, queueVars, SendInv, Accounted
<1>2. \A e \in Deliveries \ {d} :
        /\ verdict'[e] = verdict[e] /\ found'[e] = found[e]
        /\ inFlight'[e] = inFlight[e] /\ landed'[e] = landed[e]
  BY Typed DEF Crawl, Continue, Throw
<1>3. Accounted(d)'
  <2>1. ASSUME NEW urls \in SUBSET Articles,
               found' = [found EXCEPT ![d] = urls],
               inFlight' = [inFlight EXCEPT ![d] = Messages(urls)],
               Continue(d, "publish")
        PROVE  Accounted(d)'
    <3>1. found'[d] = urls /\ inFlight'[d] = Messages(urls) /\ pc'[d] = "publish"
      BY <2>1, Typed, GotoType, Labels DEF Continue
    <3> QED BY <3>1 DEF Accounted
  <2>2. ASSUME Throw(d), UNCHANGED <<found, inFlight>>
        PROVE  Accounted(d)'
    BY <1>1, <2>2, NothingToSend, Typed, GotoType, Labels DEF Throw, Accounted
  <2> QED BY <2>1, <2>2 DEF Crawl
<1> QED BY <1>1, <1>2, <1>3, SendKept

LEMMA LandSends ==
  ASSUME TypeOK, SendInv, NEW d \in Deliveries, NEW msg, Land(d, msg)
  PROVE  SendInv'
<1>1. /\ UNCHANGED <<pc, verdict, found, attempts>>
      /\ inFlight'[d] = inFlight[d] \ {msg} /\ landed'[d] = landed[d] \cup {msg}
      /\ \A e \in Deliveries \ {d} :
           inFlight'[e] = inFlight[e] /\ landed'[e] = landed[e]
  BY Typed DEF Land, queueVars, localVars
<1>2. Accounted(d)'
  BY <1>1 DEF SendInv, Accounted
<1>3. \A e \in Deliveries \ {d} : Accounted(e)'
  BY <1>1, AccountKept DEF SendInv
<1> QED BY <1>1, <1>2, <1>3 DEF SendInv, Undelivered

LEMMA RejectSends ==
  ASSUME TypeOK, SendInv, NEW d \in Deliveries, NEW msg, Reject(d, msg)
  PROVE  SendInv'
<1>1. /\ UNCHANGED <<found, landed, attempts>> /\ inFlight'[d] = inFlight[d] \ {msg}
      /\ \A e \in Deliveries \ {d} :
           inFlight'[e] = inFlight[e] /\ verdict'[e] = verdict[e] /\ pc'[e] = pc[e]
  BY Typed DEF Reject, RejectAll, Throw, Goto, queueVars
<1>2. CASE pc[d] = "publish"
  <2>1. pc'[d] = "release" /\ verdict'[d] = "nack"
    BY <1>2, Typed DEF Reject, RejectAll, Throw, Goto
  <2>2. Accounted(d)'
    BY <2>1 DEF Accounted
  <2> QED BY <1>1, <1>2, <2>2, SendKept DEF Others
<1>3. CASE pc[d] # "publish"
  <2>1. UNCHANGED <<pc, verdict>>
    BY <1>3 DEF Reject, RejectAll
  <2>2. Accounted(d)'
    BY <1>1, <1>3, <2>1 DEF SendInv, Accounted
  <2>3. \A e \in Deliveries \ {d} : Accounted(e)'
    BY <1>1, AccountKept DEF SendInv
  <2> QED BY <1>1, <2>1, <2>2, <2>3 DEF SendInv, Undelivered
<1> QED BY <1>2, <1>3

LEMMA LastSends ==
  ASSUME TypeOK, SendInv, NEW d \in Deliveries,
         AllPublished(d) \/ Release(d) \/ Crash(d)
  PROVE  SendInv'
<1> USE DEF sendVars, queueVars
<1>1. pc[d] # "unused" /\ attempts' = attempts /\ Others(d)
  BY AllPublishedType, ReleaseType, CrashType
     DEF AllPublished, Release, Crash, Active, Holding, Crawling
<1>2. \A e \in Deliveries \ {d} :
        /\ verdict'[e] = verdict[e] /\ found'[e] = found[e]
        /\ inFlight'[e] = inFlight[e] /\ landed'[e] = landed[e]
  BY Typed DEF AllPublished, Release, Crash, Continue, Forget
<1>3. CASE AllPublished(d)
  <2>1. pc'[d] = "release" /\ UNCHANGED <<found, landed>> /\ inFlight[d] = {}
        /\ pc[d] = "publish"
    BY <1>3, AllPublishedType DEF AllPublished
  <2>2. Accounted(d)'
    BY <2>1 DEF SendInv, Accounted
  <2> QED BY <1>1, <1>2, <2>2, SendKept
<1>4. CASE Release(d) \/ Crash(d)
  <2>1. pc'[d] \in {"acked", "failed"}
    BY <1>4, ReleaseType, CrashType
  <2>2. found'[d] = {}
    BY <1>4, Typed DEF Release, Crash, Forget
  <2>3. Accounted(d)'
    BY <2>1, <2>2 DEF Accounted
  <2> QED BY <1>1, <1>2, <2>3, SendKept
<1> QED BY <1>3, <1>4

LEMMA DeliverSends ==
  ASSUME TypeOK, SendInv, NEW m \in Jobs, Deliver(m)
  PROVE  SendInv'
<1>1. attempts[m] \in 0..MaxAttempts /\ attempts[m] < MaxAttempts
  BY Typed DEF Deliver
<1>2. attempts[m] + 1 \in 1..MaxAttempts
  BY <1>1
<1>0. PICK d \in Deliveries : d = <<m, attempts[m] + 1>>
  BY <1>2 DEF Deliveries
<1>3. pc[d] = "unused"
  BY <1>0, <1>1, <1>2 DEF SendInv, Undelivered
<1>4. pc'[d] = "check" /\ Others(d) /\ UNCHANGED <<verdict, found, inFlight, landed>>
  BY <1>0, GotoType, Labels DEF Deliver, localVars, sendVars
<1>5. Accounted(d)'
  BY <1>3, <1>4 DEF SendInv, Accounted
<1>6. \A e \in Deliveries \ {d} : Accounted(e)'
  BY <1>4, AccountKept DEF SendInv, Others
<1>7. Undelivered'
  <2> SUFFICES ASSUME NEW k \in Jobs, NEW n \in 1..MaxAttempts, n > attempts'[k]
               PROVE  pc'[<<k, n>>] = "unused"
    BY DEF Undelivered
  <2>1. attempts'[k] = IF k = m THEN attempts[m] + 1 ELSE attempts[k]
    BY Typed DEF Deliver
  <2>2. n > attempts[k] /\ <<k, n>> # d
    BY <1>0, <1>1, <2>1
  <2>3. pc[<<k, n>>] = "unused" /\ <<k, n>> \in Deliveries
    BY <2>2 DEF SendInv, Undelivered, Deliveries
  <2> QED BY <1>4, <2>2, <2>3 DEF Others
<1> QED BY <1>5, <1>6, <1>7 DEF SendInv

LEMMA SendNext == TypeOK /\ SendInv /\ [Next]_vars => SendInv'
<1> SUFFICES ASSUME TypeOK, SendInv, [Next]_vars PROVE SendInv'
  OBVIOUS
<1>1. ASSUME NEW d \in Deliveries, Handle(d) \/ Crash(d) PROVE SendInv'
  BY <1>1, EarlySends, CrawlSends, LandSends, RejectSends, LastSends DEF Handle
<1>2. ASSUME NEW m \in Jobs, Deliver(m) PROVE SendInv'
  BY <1>2, DeliverSends
<1>3. CASE UNCHANGED <<attempts, pc, localVars, sendVars>>
  BY <1>3 DEF SendInv, Undelivered, Accounted, localVars, sendVars
<1> QED BY <1>1, <1>2, <1>3
        DEF Next, Idle, DeadLetter, Tick, vars, queueVars, localVars, sendVars

LEMMA CompleteStep ==
  SendInv => \A d \in Deliveries : pc[d] = "release" /\ verdict[d] = "ack" =>
               Messages(found[d]) \subseteq landed[d]
BY DEF SendInv, Accounted

(* Only Release leads from "release" to "acked", and only with an ack.      *)
LEMMA AckedBefore ==
  ASSUME TypeOK, [Next]_vars, NEW d \in Deliveries,
         pc[d] = "release", pc'[d] = "acked"
  PROVE  verdict[d] = "ack"
<1>1. ASSUME NEW e \in Deliveries, Handle(e) \/ Crash(e) PROVE verdict[d] = "ack"
  <2>1. CASE Release(e)
    <3>1. e = d
      BY <2>1, ReleaseType DEF Others
    <3>2. Settle(d, verdict[d])
      BY <2>1, <3>1 DEF Release
    <3> QED BY <3>2, SettleType
  <2>2. CASE ~Release(e)
    <3>1. pc'[e] # "acked" \/ pc[e] # "release" \/ pc' = pc
      BY <1>1, <2>2, RecheckMarkerType, ClaimType, CrawlType, AllPublishedType,
         LandType, RejectType, CrashType
         DEF Handle, CheckMarker, AcquireLock
    <3>2. Others(e) \/ pc' = pc
      BY <1>1, <2>2, CheckMarkerType, AcquireLockType, RecheckMarkerType,
         ClaimType, CrawlType, AllPublishedType, LandType, RejectType, CrashType
         DEF Handle
    <3> QED BY <3>1, <3>2 DEF Others
  <2> QED BY <2>1, <2>2
<1>2. ASSUME NEW m \in Jobs, Deliver(m) PROVE FALSE
  BY <1>2, DeliverType DEF Others
<1>3. CASE UNCHANGED pc
  BY <1>3
<1> QED BY <1>1, <1>2, <1>3 DEF Next, Idle, DeadLetter, Tick, vars

(* An acked crawl is complete: every event and article job has landed.      *)
THEOREM AckMeansComplete == Spec => AckedCrawlComplete
<1>1. TypeOK /\ SendInv /\ [Next]_vars =>
        [\A d \in Deliveries : pc[d] = "release" /\ pc'[d] = "acked" =>
           Messages(found[d]) \subseteq landed[d]]_vars
  BY CompleteStep, AckedBefore
<1>2. Spec => [](TypeOK /\ SendInv)
  BY TypeCorrect, SendInit, SendNext, PTL DEF Spec
<1> QED BY <1>1, <1>2, PTL DEF Spec, AckedCrawlComplete

-----------------------------------------------------------------------------
(* A delivery runs only once its job is enqueued, and a marker that is      *)
(* present is the one the last claim wrote.                                 *)
Timely ==
  /\ \A d \in Deliveries : pc[d] # "unused" => now >= EnqueuedAt(JobOf(d))
  /\ \A p \in Pages : Present(fetched[p], now) => fetched[p].at = claimed[p].at

LEMMA TimelyInit == Init => Timely
BY DEF Init, Timely, Present, NoStamp

LEMMA TimelyKept ==
  ASSUME Timely, UNCHANGED <<now, fetched, claimed>>,
         \A d \in Deliveries : pc'[d] # "unused" =>
           pc[d] # "unused" \/ now >= EnqueuedAt(JobOf(d))
  PROVE  Timely'
BY DEF Timely, EnqueuedAt, JobOf

LEMMA EnqueuedType == \A m \in Jobs : EnqueuedAt(m) \in Int
<1> SUFFICES ASSUME NEW m \in Jobs PROVE EnqueuedAt(m) \in Int
  OBVIOUS
<1>1. m[2] \in Int /\ Interval \in Int
  BY DEF Jobs
<1> QED BY <1>1 DEF EnqueuedAt

LEMMA ClaimTimely ==
  ASSUME TypeOK, Timely, NEW d \in Deliveries, Claim(d)
  PROVE  Timely'
<1>1. pc[d] # "unused" /\ Others(d) /\ now' = now
  BY ClaimType DEF Claim
<1>2. \A e \in Deliveries : pc'[e] # "unused" => now' >= EnqueuedAt(JobOf(e))'
  BY <1>1 DEF Timely, Others, EnqueuedAt, JobOf
<1>3. \A p \in Pages : Present(fetched'[p], now) => fetched'[p].at = claimed'[p].at
  <2>1. CASE UNCHANGED <<fetched, history>>
    BY <2>1 DEF Timely, history
  <2>2. CASE /\ fetched' = [fetched EXCEPT ![Page(d)] = Stamp(now, FetchTtl)]
             /\ claimed' = [claimed EXCEPT ![Page(d)] =
                              [at |-> now, round |-> JobOf(d)[2]]]
    <3> SUFFICES ASSUME NEW p \in Pages, Present(fetched'[p], now)
                 PROVE  fetched'[p].at = claimed'[p].at
      OBVIOUS
    <3>1. CASE p = Page(d)
      BY <2>2, <3>1, StampFields, Typed
    <3>2. CASE p # Page(d)
      BY <2>2, <3>2, Typed DEF Timely
    <3> QED BY <3>1, <3>2
  <2> QED BY <2>1, <2>2 DEF Claim
<1> QED BY <1>1, <1>2, <1>3 DEF Timely

LEMMA OtherTimely ==
  ASSUME TypeOK, Timely, NEW d \in Deliveries,
         \/ Crash(d)
         \/ Handle(d) /\ ~Claim(d)
  PROVE  Timely'
<1> USE DEF redisVars, history
<1>1. UNCHANGED <<now, fetched, claimed>>
  BY DEF Crash, Handle, CheckMarker, AcquireLock, RecheckMarker, Crawl, Land,
         Reject, AllPublished, Release
<1>2. Others(d) \/ pc' = pc
  BY CheckMarkerType, AcquireLockType, RecheckMarkerType, CrawlType, CrashType,
     AllPublishedType, LandType, RejectType, ReleaseType
     DEF Handle
<1>3. pc[d] # "unused" \/ pc' = pc
  BY LandType, RejectType
     DEF Crash, Handle, CheckMarker, AcquireLock, RecheckMarker, Crawl,
         AllPublished, Release, Active, Holding, Crawling
<1> QED BY <1>1, <1>2, <1>3, TimelyKept DEF Others

LEMMA TickTimely ==
  ASSUME TypeOK, Timely, Tick
  PROVE  Timely'
<1>1. now' = now + 1 /\ now \in Nat /\ UNCHANGED <<pc, claimed>>
  BY Typed DEF Tick, history
<1>2. ASSUME NEW d \in Deliveries, pc'[d] # "unused"
      PROVE  now' >= EnqueuedAt(JobOf(d))'
  <2>1. now >= EnqueuedAt(JobOf(d)) /\ EnqueuedAt(JobOf(d)) \in Int
    BY <1>1, <1>2, PageType, EnqueuedType DEF Timely
  <2>2. EnqueuedAt(JobOf(d))' = EnqueuedAt(JobOf(d))
    BY DEF EnqueuedAt, JobOf
  <2> QED BY <1>1, <2>1, <2>2
<1>3. ASSUME NEW p \in Pages, Present(fetched'[p], now')
      PROVE  fetched'[p].at = claimed'[p].at
  <2>1. fetched'[p] = Swept(fetched[p], NoStamp, now') /\ fetched[p].exp \in Nat
    BY Typed DEF Tick, Stamps
  <2>2. Present(fetched[p], now') /\ fetched'[p] = fetched[p]
    BY <1>1, <1>3, <2>1 DEF Swept, Present, NoStamp
  <2>3. Present(fetched[p], now)
    BY <1>1, <2>1, <2>2 DEF Present
  <2> QED BY <1>1, <2>2, <2>3 DEF Timely
<1> QED BY <1>2, <1>3 DEF Timely

LEMMA TimelyNext == TypeOK /\ Timely /\ [Next]_vars => Timely'
<1> SUFFICES ASSUME TypeOK, Timely, [Next]_vars PROVE Timely'
  OBVIOUS
<1>1. ASSUME NEW d \in Deliveries, Handle(d) \/ Crash(d) PROVE Timely'
  BY <1>1, ClaimTimely, OtherTimely
<1>2. ASSUME NEW m \in Jobs, Deliver(m) PROVE Timely'
  <2>1. PICK d \in Deliveries : JobOf(d) = m /\ Others(d)
    BY <1>2, DeliverType
  <2>2. now >= EnqueuedAt(m) /\ UNCHANGED <<now, fetched, claimed>>
    BY <1>2 DEF Deliver, redisVars, history
  <2> QED BY <2>1, <2>2, TimelyKept DEF Others
<1>3. ASSUME NEW m \in Jobs, DeadLetter(m) PROVE Timely'
  BY <1>3, TimelyKept DEF DeadLetter, redisVars, history
<1>4. CASE Tick
  BY <1>4, TickTimely
<1>5. CASE UNCHANGED vars
  BY <1>5, TimelyKept DEF vars, redisVars, history
<1> QED BY <1>1, <1>2, <1>3, <1>4, <1>5 DEF Next, Idle

(* A delivery is skipped only while its page's marker is fresh.             *)
LEMMA SkippedWhileFresh ==
  ASSUME TypeOK, [Next]_vars, NEW d \in Deliveries, SkipsFresh(d)
  PROVE  Fresh(d) /\ pc[d] # "unused"
<1>0. pc[d] \in {"check", "recheck"} /\ pc'[d] # pc[d]
  BY DEF SkipsFresh
<1>1. ASSUME NEW e \in Deliveries, Handle(e) \/ Crash(e)
      PROVE  Fresh(d)
  <2>1. Others(e) \/ pc' = pc
    BY <1>1, CheckMarkerType, AcquireLockType, RecheckMarkerType, ClaimType,
       CrawlType, CrashType, AllPublishedType, LandType, RejectType, ReleaseType
       DEF Handle
  <2>2. e = d
    BY <1>0, <2>1 DEF Others
  <2>3. CheckMarker(d) \/ RecheckMarker(d)
    BY <1>0, <1>1, <2>2, LandType, RejectType, CrashType
       DEF Handle, AcquireLock, Claim, Crawl, AllPublished, Release, SkipsFresh
  <2>4. CASE CheckMarker(d)
    BY <1>0, <2>4, GotoType, SettleType, Labels
       DEF CheckMarker, SkipsFresh
  <2>5. CASE RecheckMarker(d)
    BY <2>5, GotoType, Labels, Typed
       DEF RecheckMarker, FreshUnderLock, Continue, RedisThrows, Throw, SkipsFresh
  <2> QED BY <2>3, <2>4, <2>5
<1>2. ASSUME NEW m \in Jobs, Deliver(m) PROVE FALSE
  BY <1>0, <1>2, DeliverType DEF Others, SkipsFresh
<1>3. CASE UNCHANGED pc
  BY <1>0, <1>3
<1> QED BY <1>0, <1>1, <1>2, <1>3 DEF Next, Idle, DeadLetter, Tick, vars

LEMMA TimesNext ==
  ASSUME NEW i \in Int, NEW j \in Int, i < j, NEW n \in Nat
  PROVE  (i + 1) * n <= j * n /\ (i + 1) * n = i * n + n
<1>1. PICK k \in Nat : j = i + 1 + k
  BY i + 1 <= j
<1>2. j * n = (i + 1) * n + k * n /\ (i + 1) * n = i * n + n
  BY <1>1
<1>3. k * n \in Nat
  OBVIOUS
<1> QED BY <1>2, <1>3

LEMMA OnTimeStep ==
  ASSUME TypeOK, Timely, [Next]_vars, NEW d \in Deliveries, SkipsFresh(d),
         claimed[Page(d)].round < JobOf(d)[2]
  PROVE  claimed[Page(d)].at - claimed[Page(d)].round * Interval
           > Interval - MinRefresh
<1> DEFINE last == claimed[Page(d)]
           k == JobOf(d)[2]
<1>1. Fresh(d) /\ now >= k * Interval
  BY SkippedWhileFresh DEF Timely, EnqueuedAt
<1>2. last.at > now - MinRefresh
  BY <1>1, PageType, Typed DEF Fresh, IsWithin, Timely, Stamps
<1>3. /\ last.round \in Int /\ last.at \in Int /\ k \in Int
      /\ now \in Int /\ Interval \in Nat /\ MinRefresh \in Int
  BY PageType, Typed DEF Claims, Never
<1>4. k * Interval >= last.round * Interval + Interval
  BY <1>3, TimesNext
<1>5. k * Interval \in Int /\ last.round * Interval \in Int
  BY <1>3
<1> HIDE DEF last, k
<1>6. last.at - last.round * Interval > Interval - MinRefresh
  BY <1>1, <1>2, <1>3, <1>4, <1>5
<1> QED BY <1>6 DEF last

(* An on-time job is never skipped because of a crawl that was at most      *)
(* Interval - MinRefresh late, for any interval and refresh window.         *)
THEOREM LatenessTolerated == Spec => OnTimePageCrawled
<1>1. TypeOK /\ Timely /\ [Next]_vars =>
        [\A d \in Deliveries : LET last == claimed[Page(d)] IN
           SkipsFresh(d) /\ last.round < JobOf(d)[2] =>
             last.at - last.round * Interval > Interval - MinRefresh]_vars
  BY OnTimeStep
<1>2. Spec => [](TypeOK /\ Timely)
  BY TypeCorrect, TimelyInit, TimelyNext, PTL DEF Spec
<1> QED BY <1>1, <1>2, PTL DEF Spec, OnTimePageCrawled

-----------------------------------------------------------------------------
(* The refinement.  Until MinRefresh has passed since a crawl of a page     *)
(* started, the page's marker is present and no older than that start, so   *)
(* a delivery that is about to claim may start.                             *)
Spaced(p) == started[p] = Never \/ now - started[p] >= MinRefresh

Remembered(p) ==
  /\ Present(fetched[p], now)
  /\ fetched[p].at >= started[p]
  /\ fetched[p].exp >= started[p] + MinRefresh

GapInv ==
  /\ \A p \in Pages : started[p] <= now /\ (Spaced(p) \/ Remembered(p))
  /\ \A d \in Deliveries : pc[d] = "claim" => Spaced(Page(d))

LEMMA PageState ==
  ASSUME TypeOK, NEW p \in Pages
  PROVE  /\ now \in Nat /\ fetched[p].at \in Nat /\ fetched[p].exp \in Nat
         /\ started[p] \in Int
BY Typed DEF Stamps, Never

LEMMA GapInit == Init => GapInv
BY DEF Init, GapInv, Spaced, Never

LEMMA GapKept ==
  ASSUME GapInv, UNCHANGED <<now, fetched, started>>,
         \A d \in Deliveries :
           pc'[d] = "claim" => pc[d] = "claim" \/ Spaced(Page(d))
  PROVE  GapInv'
BY DEF GapInv, Spaced, Remembered, Page, JobOf

LEMMA StaleIsSpaced ==
  ASSUME TypeOK, GapInv, NEW d \in Deliveries, ~Fresh(d)
  PROVE  Spaced(Page(d))
<1> DEFINE p == Page(d)
<1>1. p \in Pages /\ MinRefresh \in Nat
  BY PageType
<1>2. /\ now \in Nat /\ fetched[p].at \in Nat /\ started[p] \in Int
  BY <1>1, PageState
<1>3. Spaced(p) \/ Remembered(p)
  BY <1>1 DEF GapInv
<1>4. ASSUME Remembered(p) PROVE Spaced(p)
  <2>1. now - fetched[p].at >= MinRefresh /\ fetched[p].at >= started[p]
    BY <1>1, <1>2, <1>4 DEF Remembered, Fresh, IsWithin
  <2> QED BY <1>1, <1>2, <2>1 DEF Spaced
<1> QED BY <1>3, <1>4

LEMMA ClaimKeepsGap ==
  ASSUME TypeOK, HoldersExclude, GapInv, NEW d \in Deliveries, Claim(d)
  PROVE  GapInv'
<1>1. /\ pc[d] = "claim" /\ pc'[d] # "claim" /\ Others(d) /\ now' = now
      /\ now \in Nat /\ Page(d) \in Pages
  BY ClaimType, PageType, Typed DEF Claim
<1>2. CASE UNCHANGED <<fetched, history>>
  BY <1>1, <1>2, GapKept DEF history, Others
<1>3. CASE /\ fetched' = [fetched EXCEPT ![Page(d)] = Stamp(now, FetchTtl)]
           /\ started' = started \/ started' = [started EXCEPT ![Page(d)] = now]
  <2>1. /\ fetched'[Page(d)].at = now /\ fetched'[Page(d)].exp = now + FetchTtl
        /\ started'[Page(d)] \in {started[Page(d)], now}
    BY <1>1, <1>3, StampFields, Typed
  <2>2. \A p \in Pages \ {Page(d)} :
          fetched'[p] = fetched[p] /\ started'[p] = started[p]
    BY <1>3, Typed
  <2>3. started'[Page(d)] <= now' /\ Remembered(Page(d))'
    <3>1. Page(d)' = Page(d)
      BY DEF Page, JobOf
    <3>2. started[Page(d)] \in Int /\ started[Page(d)] <= now
      BY <1>1, PageState DEF GapInv
    <3>3. /\ started'[Page(d)] \in Int /\ started'[Page(d)] <= now
          /\ FetchTtl \in Nat /\ MinRefresh \in Nat \ {0} /\ MinRefresh <= FetchTtl
      BY <1>1, <2>1, <3>2
    <3> QED BY <1>1, <2>1, <3>1, <3>3 DEF Remembered, Present
  <2>4. ASSUME NEW p \in Pages
        PROVE  started'[p] <= now' /\ (Spaced(p)' \/ Remembered(p)')
    <3>1. CASE p = Page(d)
      BY <2>3, <3>1 DEF Remembered
    <3>2. CASE p # Page(d)
      BY <1>1, <2>2, <3>2 DEF GapInv, Spaced, Remembered
    <3> QED BY <3>1, <3>2
  <2>5. ASSUME NEW e \in Deliveries, pc'[e] = "claim" PROVE Spaced(Page(e))'
    <3>1. e # d /\ pc[e] = "claim"
      BY <1>1, <2>5 DEF Others
    <3>2. Page(e) # Page(d) /\ Page(e) \in Pages /\ Page(e)' = Page(e)
      BY <1>1, <3>1, PageType DEF HoldersExclude, Holding, Page, JobOf
    <3> QED BY <1>1, <2>2, <3>1, <3>2 DEF GapInv, Spaced
  <2> QED BY <2>4, <2>5 DEF GapInv
<1> QED BY <1>2, <1>3 DEF Claim

LEMMA TickKeepsGap ==
  ASSUME TypeOK, GapInv, Tick
  PROVE  GapInv'
<1>1. now' = now + 1 /\ now \in Nat /\ started' = started /\ pc' = pc
  BY Typed DEF Tick, history
<1>2. ASSUME NEW p \in Pages, Spaced(p) PROVE Spaced(p)'
  BY <1>1, <1>2, PageState DEF Spaced
<1>3. ASSUME NEW p \in Pages
      PROVE  started'[p] <= now' /\ (Spaced(p)' \/ Remembered(p)')
  <2>1. started[p] <= now /\ (Spaced(p) \/ Remembered(p))
    BY DEF GapInv
  <2>2. started[p] \in Int /\ fetched[p].at \in Nat /\ fetched[p].exp \in Nat
    BY PageState
  <2>3. ASSUME Remembered(p) PROVE Spaced(p)' \/ Remembered(p)'
    <3>1. fetched'[p] = Swept(fetched[p], NoStamp, now')
      BY DEF Tick
    <3>2. CASE Present(fetched[p], now')
      BY <2>3, <3>1, <3>2, <1>1 DEF Swept, Remembered
    <3>3. CASE ~Present(fetched[p], now')
      BY <2>3, <3>3, <1>1, <2>2 DEF Remembered, Present, Spaced
    <3> QED BY <3>2, <3>3
  <2> QED BY <1>1, <1>2, <2>1, <2>2, <2>3
<1>4. \A d \in Deliveries : pc'[d] = "claim" => Spaced(Page(d))'
  BY <1>1, <1>2, PageType DEF GapInv, Page, JobOf
<1> QED BY <1>3, <1>4 DEF GapInv

LEMMA OtherKeepsGap ==
  ASSUME TypeOK, GapInv, NEW d \in Deliveries, Crash(d) \/ (Handle(d) /\ ~Claim(d))
  PROVE  GapInv'
<1> USE DEF redisVars, history
<1>1. UNCHANGED <<now, fetched, started>>
  BY DEF Crash, Handle, CheckMarker, AcquireLock, RecheckMarker, Crawl, Land,
         Reject, AllPublished, Release
<1>2. Others(d) \/ pc' = pc
  BY CheckMarkerType, AcquireLockType, RecheckMarkerType, CrawlType, CrashType,
     AllPublishedType, LandType, RejectType, ReleaseType
     DEF Handle
<1>3. pc'[d] = "claim" => pc[d] = "claim" \/ Spaced(Page(d))
  <2>1. CASE RecheckMarker(d)
    BY <2>1, StaleIsSpaced, GotoType, Labels
       DEF RecheckMarker, FreshUnderLock, Continue, RedisThrows, Throw
  <2>2. CASE ~RecheckMarker(d)
    BY <2>2, CheckMarkerType, AcquireLockType, CrawlType, CrashType,
       AllPublishedType, LandType, RejectType, ReleaseType DEF Handle
  <2> QED BY <2>1, <2>2
<1> QED BY <1>1, <1>2, <1>3, GapKept DEF Others

LEMMA GapNext ==
  TypeOK /\ HoldersExclude /\ GapInv /\ [Next]_vars => GapInv'
<1> SUFFICES ASSUME TypeOK, HoldersExclude, GapInv, [Next]_vars PROVE GapInv'
  OBVIOUS
<1>1. ASSUME NEW d \in Deliveries, Handle(d) \/ Crash(d) PROVE GapInv'
  BY <1>1, ClaimKeepsGap, OtherKeepsGap
<1>2. ASSUME NEW m \in Jobs, Deliver(m) PROVE GapInv'
  <2>1. PICK d \in Deliveries : pc'[d] = "check" /\ Others(d)
    BY <1>2, DeliverType
  <2> QED BY <1>2, <2>1, GapKept DEF Deliver, redisVars, history, Others
<1>3. ASSUME NEW m \in Jobs, DeadLetter(m) PROVE GapInv'
  BY <1>3, GapKept DEF DeadLetter, redisVars, history
<1>4. CASE Tick
  BY <1>4, TickKeepsGap
<1>5. CASE UNCHANGED vars
  BY <1>5, GapKept DEF vars, redisVars, history
<1> QED BY <1>1, <1>2, <1>3, <1>4, <1>5 DEF Next, Idle

-----------------------------------------------------------------------------
(* How a step of one delivery changes the set of pages being crawled.       *)
LEMMA RunningSame ==
  ASSUME NEW d \in Deliveries, Others(d),
         pc[d] \in Crawling <=> pc'[d] \in Crawling
  PROVE  Running' = Running
<1>1. \A e \in Deliveries : pc'[e] \in Crawling <=> pc[e] \in Crawling
  BY DEF Others
<1> QED BY <1>1 DEF Running, Page, JobOf

LEMMA RunningStarts ==
  ASSUME NEW d \in Deliveries, Others(d),
         pc'[d] \in Crawling, pc[d] \notin Crawling
  PROVE  Running' = Running \cup {Page(d)}
<1>1. \A e \in Deliveries : pc'[e] \in Crawling <=> pc[e] \in Crawling \/ e = d
  BY DEF Others
<1>2. \A e \in Deliveries : Page(e)' = Page(e)
  BY DEF Page, JobOf
<1> QED BY <1>1, <1>2, PageType DEF Running

LEMMA RunningStops ==
  ASSUME HoldersExclude, NEW d \in Deliveries, Others(d),
         pc[d] \in Crawling, pc'[d] \notin Crawling
  PROVE  Page(d) \in Running /\ Running' = Running \ {Page(d)}
<1>1. \A e \in Deliveries : Page(e)' = Page(e)
  BY DEF Page, JobOf
<1>2. \A e \in Deliveries : pc'[e] \in Crawling <=> pc[e] \in Crawling /\ e # d
  BY DEF Others
<1>3. \A e \in Deliveries \ {d} : pc[e] \in Crawling => Page(e) # Page(d)
  BY DEF HoldersExclude, Holding
<1>4. Page(d) \in Running
  BY PageType DEF Running
<1> QED BY <1>1, <1>2, <1>3, <1>4 DEF Running

LEMMA GuardInit == Init => Guard!Init
<1> SUFFICES ASSUME Init PROVE Guard!Init
  OBVIOUS
<1>1. Running = {}
  BY DEF Init, Running, Crawling
<1> QED BY <1>1 DEF Init, Guard!Init, Never, Guard!Never

(* A claim that succeeds is the abstract Start.                             *)
LEMMA ClaimIsStart ==
  ASSUME TypeOK, HoldersExclude, GapInv, NEW d \in Deliveries, Claim(d)
  PROVE  [Guard!Next]_(Guard!guardVars)
<1>0. Others(d) /\ pc[d] = "claim" /\ now' = now /\ Page(d) \in Pages
  BY ClaimType, PageType DEF Claim
<1>1. CASE started' = [started EXCEPT ![Page(d)] = now] /\ pc'[d] = "crawl"
  <2>1. pc'[d] \in Crawling /\ pc[d] \notin Crawling
    BY <1>0, <1>1 DEF Crawling
  <2>2. Running' = Running \cup {Page(d)}
    BY <1>0, <2>1, RunningStarts
  <2>3. Page(d) \notin Running
    BY <1>0, <2>1 DEF Running, HoldersExclude, Holding
  <2>4. Guard!Start(Page(d))
    BY <1>0, <1>1, <2>2, <2>3 DEF GapInv, Guard!Start, Spaced, Never, Guard!Never
  <2> QED BY <1>0, <2>4 DEF Guard!Next
<1>2. CASE started' = started /\ pc'[d] = "release"
  <2>1. Running' = Running
    BY <1>0, <1>2, RunningSame DEF Crawling
  <2> QED BY <1>0, <1>2, <2>1 DEF Guard!guardVars
<1> QED BY <1>1, <1>2, GotoType, Labels
        DEF Claim, Continue, RedisThrows, Throw, history

(* A step that leaves the clock and started alone and leads no delivery     *)
(* into a crawl stutters or is the abstract Stop.                           *)
LEMMA OtherIsStop ==
  ASSUME HoldersExclude, NEW d \in Deliveries, Others(d),
         UNCHANGED <<now, started>>, pc'[d] \in Crawling => pc[d] \in Crawling
  PROVE  [Guard!Next]_(Guard!guardVars)
<1>1. CASE pc[d] \in Crawling /\ pc'[d] \notin Crawling
  <2>1. Guard!Stop(Page(d))
    BY <1>1, RunningStops DEF Guard!Stop
  <2> QED BY <2>1, PageType DEF Guard!Next
<1>2. CASE ~(pc[d] \in Crawling /\ pc'[d] \notin Crawling)
  <2>1. Running' = Running
    BY <1>2, RunningSame
  <2> QED BY <2>1 DEF Guard!guardVars
<1> QED BY <1>1, <1>2

LEMMA HandlerIsStop ==
  ASSUME TypeOK, HoldersExclude, NEW d \in Deliveries,
         Crash(d) \/ (Handle(d) /\ ~Claim(d))
  PROVE  [Guard!Next]_(Guard!guardVars)
<1>1. UNCHANGED <<now, started>>
  BY DEF Crash, Handle, CheckMarker, AcquireLock, RecheckMarker, Crawl, Land,
         Reject, AllPublished, Release, history
<1>2. CASE pc' = pc
  BY <1>1, <1>2 DEF Running, Page, JobOf, Guard!guardVars
<1>3. CASE pc' # pc
  <2>1. Others(d)
    BY <1>3, CheckMarkerType, AcquireLockType, RecheckMarkerType, CrawlType,
       CrashType, AllPublishedType, LandType, RejectType, ReleaseType
       DEF Handle
  <2>2. pc'[d] \in Crawling => Crawl(d)
    BY <1>3, CheckMarkerType, AcquireLockType, RecheckMarkerType, CrashType,
       AllPublishedType, LandType, RejectType, ReleaseType
       DEF Handle, Crawling
  <2>3. Crawl(d) => pc[d] \in Crawling
    BY DEF Crawl, Crawling
  <2> QED BY <1>1, <2>1, <2>2, <2>3, OtherIsStop
<1> QED BY <1>2, <1>3

LEMMA GuardStep ==
  TypeOK /\ HoldersExclude /\ GapInv /\ [Next]_vars
    => [Guard!Next]_(Guard!guardVars)
<1> SUFFICES ASSUME TypeOK, HoldersExclude, GapInv, [Next]_vars
             PROVE  [Guard!Next]_(Guard!guardVars)
  OBVIOUS
<1>1. ASSUME NEW d \in Deliveries, Handle(d) \/ Crash(d)
      PROVE  [Guard!Next]_(Guard!guardVars)
  BY <1>1, ClaimIsStart, HandlerIsStop
<1>2. ASSUME NEW m \in Jobs, Deliver(m)
      PROVE  [Guard!Next]_(Guard!guardVars)
  <2>1. PICK d \in Deliveries : pc'[d] = "check" /\ Others(d)
    BY <1>2, DeliverType
  <2> QED BY <1>2, <2>1, OtherIsStop DEF Deliver, history, Crawling
<1>3. ASSUME NEW m \in Jobs, DeadLetter(m)
      PROVE  [Guard!Next]_(Guard!guardVars)
  BY <1>3 DEF DeadLetter, history, Running, Page, JobOf, Guard!guardVars
<1>4. CASE Tick
  <2>1. Running' = Running
    BY <1>4 DEF Tick, Running, Page, JobOf
  <2> QED BY <1>4, <2>1 DEF Tick, history, Guard!Tick, Guard!Next
<1>5. CASE UNCHANGED vars
  BY <1>5 DEF vars, history, Running, Page, JobOf, Guard!guardVars
<1> QED BY <1>1, <1>2, <1>3, <1>4, <1>5 DEF Next, Idle

(* The discovery worker implements the guard: one crawl of a page at a      *)
(* time, and starts at least MinRefresh apart, under every fault.           *)
THEOREM GuardImplemented == Spec => ImplementsGuard
<1>1. Spec => [](TypeOK /\ HoldersExclude)
  BY TypeCorrect, PagesExclusive, PTL
<1>2. Spec => []GapInv
  BY <1>1, GapInit, GapNext, PTL DEF Spec
<1>3. Spec => Guard!Init /\ [][Guard!Next]_(Guard!guardVars)
  BY <1>1, <1>2, GuardInit, GuardStep, PTL DEF Spec
<1> QED BY <1>3 DEF ImplementsGuard, Guard!Spec
=============================================================================
