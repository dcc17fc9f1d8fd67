--------------------------- MODULE DiscoveryWorker ---------------------------
(***************************************************************************)
(* The discovery worker: handleMessage of                                  *)
(* services/crawl-worker/src/discovery-consumer.ts, fed by the page jobs   *)
(* the scheduler enqueues once per Interval.  <<p, k>> is the job of page  *)
(* p in interval k; <<m, n>> is the n-th delivery of job m.                *)
(*                                                                         *)
(* Promise.all starts every publish of a crawl at once and rejects with    *)
(* the first that fails.  The others are not cancelled: they land or fail  *)
(* while the handler releases the lock, and after it has ended.            *)
(***************************************************************************)
EXTENDS RedisState, FiniteSets

CONSTANTS
  Pages,
  Rounds,        \* the scheduler enqueues each page in intervals 0..Rounds-1
  Articles,      \* URLs a crawl can select
  Contexts,      \* the (surface, topic) pairs of a page
  Interval,      \* crawlConfig.pageRefreshMinutes
  MinRefresh,    \* MIN_PAGE_REFRESH_MINUTES
  FetchTtl,      \* DEFAULT_TTL_SECONDS of redis-state
  LockTtl,       \* config.lockTtlSeconds
  MaxJob,        \* bound on the time a running handler holds the lock
  MaxAttempts,   \* deliveries of a job before Pub/Sub dead-letters it
  MaxTime,       \* bound on the clock
  Faults         \* which of FaultKinds can happen

FaultKinds == {"redis", "zyte", "publish", "crash"}

ASSUME PageAssumption ==
  /\ Rounds \in Nat \ {0} /\ MaxAttempts \in Nat \ {0} /\ MaxTime \in Nat
  /\ MinRefresh \in Nat \ {0} /\ Interval \in Nat /\ MinRefresh <= Interval
  /\ LockTtl \in Nat \ {0} /\ MaxJob \in Nat /\ MaxJob < LockTtl
  /\ FetchTtl \in Nat /\ MinRefresh <= FetchTtl
  /\ Faults \subseteq FaultKinds

Jobs == Pages \X (0..Rounds - 1)
Deliveries == Jobs \X (1..MaxAttempts)
JobOf(d) == d[1]
Page(d) == JobOf(d)[1]
EnqueuedAt(m) == m[2] * Interval

VARIABLES
  now,
  fetched,    \* page:fetch, a timestamp key per page
  lock,       \* page:lock
  jobState,   \* a job in the crawl-article-discovery subscription
  attempts,   \* how often it has been delivered
  pc,         \* where each delivery is
  verdict,    \* what it will tell Pub/Sub once the lock is released
  lockedAt,   \* when it acquired the lock
  found,      \* the articles its crawl selected
  inFlight,   \* its publishes that have neither landed nor failed
  landed,     \* its publishes a topic accepted
  started,    \* history: when the last crawl of a page started
  claimed     \* history: when, and for which job, page:fetch was last written

redisVars == <<fetched, lock>>
queueVars == <<jobState, attempts>>
localVars == <<verdict, lockedAt, found>>
sendVars == <<inFlight, landed>>
history == <<started, claimed>>
vars == <<now, redisVars, queueVars, pc, localVars, sendVars, history>>

Crawling == {"crawl", "publish"}
Holding == {"recheck", "claim", "release"} \cup Crawling
Active == {"check", "lock"} \cup Holding

(* The messages of a crawl: an event per article and context on             *)
(* article-discoveries, and a job per article on crawl-article.             *)
Events(urls) == {"event"} \X urls \X Contexts
ArticleJobs(urls) == {"job"} \X urls
Messages(urls) == Events(urls) \cup ArticleJobs(urls)

Never == -1
NeverClaimed == [at |-> Never, round |-> Never]

TypeOK ==
  /\ now \in Nat
  /\ fetched \in [Pages -> [at: Nat, exp: Nat]]
  /\ lock \in [Pages -> [token: Deliveries \cup {NoToken}, exp: Nat]]
  /\ jobState \in [Jobs -> {"outstanding", "acked", "dead"}]
  /\ attempts \in [Jobs -> 0..MaxAttempts]
  /\ pc \in [Deliveries -> {"unused", "acked", "failed"} \cup Active]
  /\ verdict \in [Deliveries -> {"ack", "nack"}]
  /\ lockedAt \in [Deliveries -> Nat]
  /\ found \in [Deliveries -> SUBSET Articles]
  /\ inFlight \in [Deliveries -> SUBSET Messages(Articles)]
  /\ landed \in [Deliveries -> SUBSET Messages(Articles)]
  /\ started \in [Pages -> Nat \cup {Never}]
  /\ claimed \in [Pages -> [at: Nat \cup {Never}, round: Nat \cup {Never}]]

Init ==
  /\ now = 0
  /\ fetched = [p \in Pages |-> NoStamp]
  /\ lock = [p \in Pages |-> NoLock]
  /\ jobState = [m \in Jobs |-> "outstanding"]
  /\ attempts = [m \in Jobs |-> 0]
  /\ pc = [d \in Deliveries |-> "unused"]
  /\ verdict = [d \in Deliveries |-> "ack"]
  /\ lockedAt = [d \in Deliveries |-> 0]
  /\ found = [d \in Deliveries |-> {}]
  /\ inFlight = [d \in Deliveries |-> {}]
  /\ landed = [d \in Deliveries |-> {}]
  /\ started = [p \in Pages |-> Never]
  /\ claimed = [p \in Pages |-> NeverClaimed]
-----------------------------------------------------------------------------
Goto(d, l) == pc' = [pc EXCEPT ![d] = l]

(* processMessage acks what the handler resolves and nacks what it rejects. *)
Settle(d, v) ==
  /\ Goto(d, IF v = "ack" THEN "acked" ELSE "failed")
  /\ IF v = "ack" THEN jobState' = [jobState EXCEPT ![JobOf(d)] = "acked"]
     ELSE UNCHANGED jobState

Continue(d, l) == Goto(d, l) /\ UNCHANGED verdict
Throw(d) == Goto(d, "release") /\ verdict' = [verdict EXCEPT ![d] = "nack"]
RedisFails == "redis" \in Faults
RedisThrows(d) == RedisFails /\ Throw(d)

Forget(d) ==
  /\ verdict' = [verdict EXCEPT ![d] = "ack"]
  /\ lockedAt' = [lockedAt EXCEPT ![d] = 0]
  /\ found' = [found EXCEPT ![d] = {}]

Fresh(d) == IsWithin(fetched[Page(d)], now, MinRefresh)
-----------------------------------------------------------------------------
\* Mutant: the subscription has no limit on deliveries.
DeliverUnbounded(m) ==
  /\ jobState[m] = "outstanding" /\ attempts[m] <= MaxAttempts
  /\ now >= EnqueuedAt(m)
  /\ attempts' = [attempts EXCEPT ![m] = @ + 1]
  /\ Goto(<<m, attempts[m] + 1>>, "check")
  /\ UNCHANGED <<now, redisVars, jobState, localVars, sendVars, history>>

(* Pub/Sub delivers a job once it is enqueued, and again while it is not    *)
(* settled.                                                                 *)
Deliver(m) ==
  /\ jobState[m] = "outstanding" /\ attempts[m] < MaxAttempts
  /\ now >= EnqueuedAt(m)
  /\ attempts' = [attempts EXCEPT ![m] = @ + 1]
  /\ Goto(<<m, attempts[m] + 1>>, "check")
  /\ UNCHANGED <<now, redisVars, jobState, localVars, sendVars, history>>

(* Skip a page crawled within MIN_PAGE_REFRESH_MINUTES. *)
CheckMarker(d) ==
  /\ pc[d] = "check"
  /\ \/ Fresh(d) /\ Settle(d, "ack")
     \/ ~Fresh(d) /\ Goto(d, "lock") /\ UNCHANGED jobState
     \/ RedisFails /\ Settle(d, "nack")
  /\ UNCHANGED <<now, redisVars, attempts, localVars, sendVars, history>>

(* SET NX of the lock, which may set it without an answer (RedisFails) and, *)
(* when ioredis sends it again, find it taken by itself.                    *)
AcquireLock(d) ==
  /\ pc[d] = "lock"
  /\ \/ /\ CanAcquire(lock[Page(d)], now)
        /\ lock' = [lock EXCEPT ![Page(d)] = Locked(d, now, LockTtl)]
        /\ \/ /\ Goto(d, "recheck")
              /\ lockedAt' = [lockedAt EXCEPT ![d] = now]
              /\ UNCHANGED jobState
           \/ /\ RedisFails /\ \E v \in {"ack", "nack"} : Settle(d, v)
              /\ UNCHANGED lockedAt
     \/ /\ ~CanAcquire(lock[Page(d)], now)
        /\ Settle(d, "ack")
        /\ UNCHANGED <<lock, lockedAt>>
     \/ RedisFails /\ Settle(d, "nack") /\ UNCHANGED <<lock, lockedAt>>
  /\ UNCHANGED <<now, fetched, attempts, verdict, found, sendVars, history>>

\* Mutant: the second check is dropped.
NeverFresh(d) == FALSE

(* Under the lock, check the marker again. *)
FreshUnderLock(d) == Fresh(d)
RecheckMarker(d) ==
  /\ pc[d] = "recheck"
  /\ \/ FreshUnderLock(d) /\ Continue(d, "release")
     \/ ~FreshUnderLock(d) /\ Continue(d, "claim")
     \/ RedisThrows(d)
  /\ UNCHANGED <<now, redisVars, queueVars, lockedAt, found, sendVars, history>>

(* Write page:fetch before the Zyte call, for the default retention. *)
Claim(d) ==
  /\ pc[d] = "claim"
  /\ \/ /\ fetched' = [fetched EXCEPT ![Page(d)] = Stamp(now, FetchTtl)]
        /\ claimed' = [claimed EXCEPT ![Page(d)] =
                         [at |-> now, round |-> JobOf(d)[2]]]
        /\ \/ /\ Continue(d, "crawl")
              /\ started' = [started EXCEPT ![Page(d)] = now]
           \/ RedisThrows(d) /\ UNCHANGED started
     \/ RedisThrows(d) /\ UNCHANGED <<fetched, history>>
  /\ UNCHANGED <<now, lock, queueVars, lockedAt, found, sendVars>>

(* handleArticleDiscovery: Zyte lists articles, or throws.  Every publish   *)
(* of the result then starts.                                               *)
Crawl(d) ==
  /\ pc[d] = "crawl"
  /\ \/ \E urls \in SUBSET Articles :
          /\ found' = [found EXCEPT ![d] = urls]
          /\ inFlight' = [inFlight EXCEPT ![d] = Messages(urls)]
          /\ Continue(d, "publish")
     \/ "zyte" \in Faults /\ Throw(d) /\ UNCHANGED <<found, inFlight>>
  /\ UNCHANGED <<now, redisVars, queueVars, lockedAt, landed, history>>

(* One publish lands, whatever its handler does meanwhile. *)
Land(d, msg) ==
  /\ msg \in inFlight[d]
  /\ inFlight' = [inFlight EXCEPT ![d] = @ \ {msg}]
  /\ landed' = [landed EXCEPT ![d] = @ \cup {msg}]
  /\ UNCHANGED <<now, redisVars, queueVars, pc, localVars, history>>

\* Mutant: allSettled in place of all, so a failed publish goes unseen.
Unseen(d) == UNCHANGED <<pc, verdict>>

(* The first publish to fail rejects Promise.all; later ones are unseen. *)
RejectAll(d) ==
  IF pc[d] = "publish" THEN Throw(d) ELSE UNCHANGED <<pc, verdict>>

Reject(d, msg) ==
  /\ "publish" \in Faults /\ msg \in inFlight[d]
  /\ inFlight' = [inFlight EXCEPT ![d] = @ \ {msg}]
  /\ RejectAll(d)
  /\ UNCHANGED <<now, redisVars, queueVars, lockedAt, found, landed, history>>

(* Promise.all resolves: every publish landed. *)
AllPublished(d) ==
  /\ pc[d] = "publish" /\ inFlight[d] = {}
  /\ Continue(d, "release")
  /\ UNCHANGED <<now, redisVars, queueVars, lockedAt, found, sendVars, history>>

(* finally: release the lock; a failure to do so is only logged. *)
Release(d) ==
  /\ pc[d] = "release"
  /\ \/ lock' = [lock EXCEPT ![Page(d)] = Released(@, d, now)]
     \/ RedisFails /\ UNCHANGED lock
  /\ Settle(d, verdict[d])
  /\ Forget(d)
  /\ UNCHANGED <<now, fetched, attempts, sendVars, history>>

(* The process dies, and with it the publishes that have not landed. *)
Crash(d) ==
  /\ "crash" \in Faults /\ pc[d] \in Active
  /\ Goto(d, "failed")
  /\ Forget(d)
  /\ inFlight' = [inFlight EXCEPT ![d] = {}]
  /\ UNCHANGED <<now, redisVars, queueVars, landed, history>>

DeadLetter(m) ==
  /\ jobState[m] = "outstanding" /\ attempts[m] = MaxAttempts
  /\ \A n \in 1..MaxAttempts : pc[<<m, n>>] \notin Active
  /\ jobState' = [jobState EXCEPT ![m] = "dead"]
  /\ UNCHANGED <<now, redisVars, attempts, pc, localVars, sendVars, history>>

Tick ==
  /\ now < MaxTime
  /\ \A d \in Deliveries : pc[d] \in Holding => now < lockedAt[d] + MaxJob
  /\ now' = now + 1
  /\ fetched' = [p \in Pages |-> Swept(fetched[p], NoStamp, now')]
  /\ lock' = [p \in Pages |-> Swept(lock[p], NoLock, now')]
  /\ UNCHANGED <<queueVars, pc, localVars, sendVars, history>>

(* No job is left, and nothing runs or is in flight. *)
Idle ==
  /\ \A d \in Deliveries : pc[d] \notin Active /\ inFlight[d] = {}
  /\ \A m \in Jobs : jobState[m] # "outstanding"
  /\ UNCHANGED vars

Handle(d) ==
  \/ CheckMarker(d) \/ AcquireLock(d) \/ RecheckMarker(d) \/ Claim(d)
  \/ Crawl(d) \/ AllPublished(d) \/ Release(d)
  \/ \E msg \in inFlight[d] : Land(d, msg) \/ Reject(d, msg)

Next ==
  \/ \E d \in Deliveries : Handle(d) \/ Crash(d)
  \/ \E m \in Jobs : Deliver(m) \/ DeadLetter(m)
  \/ Tick
  \/ Idle

Spec == Init /\ [][Next]_vars
-----------------------------------------------------------------------------
(* Paid crawls of a page run one at a time and start MinRefresh apart, so a *)
(* partial failure or a crash redelivers into a skip and not into a second  *)
(* crawl.                                                                   *)
Running == {p \in Pages : \E d \in Deliveries : pc[d] \in Crawling /\ Page(d) = p}
Guard == INSTANCE ExtractionGuard
           WITH clock <- now, running <- Running, Urls <- Pages, MinGap <- MinRefresh
ImplementsGuard == Guard!Spec

(* A delivery that crawled acks its job only when every event and every     *)
(* article job of the crawl has landed.                                     *)
AckedCrawlComplete ==
  [][\A d \in Deliveries : pc[d] = "release" /\ pc'[d] = "acked" =>
       Messages(found[d]) \subseteq landed[d]]_vars

(* A page is skipped as fresh for a later interval's job only if the crawl  *)
(* before started more than Interval - MinRefresh late ("a crawl can start  *)
(* up to half an interval late without the next one being skipped").        *)
SkipsFresh(d) ==
  \/ pc[d] = "check" /\ pc'[d] = "acked"
  \/ pc[d] = "recheck" /\ pc'[d] = "release" /\ verdict'[d] = "ack"
OnTimePageCrawled ==
  [][\A d \in Deliveries : LET last == claimed[Page(d)] IN
       SkipsFresh(d) /\ last.round < JobOf(d)[2] =>
         last.at - last.round * Interval > Interval - MinRefresh]_vars
=============================================================================
