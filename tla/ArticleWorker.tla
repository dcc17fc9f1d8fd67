---------------------------- MODULE ArticleWorker ----------------------------
(***************************************************************************)
(* The article worker: handleMessage and publishIfChanged of               *)
(* services/crawl-worker/src/article-consumer.ts, with the calls they make *)
(* to Redis, Zyte, the Corpus API and the articles topic, and the Pub/Sub  *)
(* subscription that feeds them.                                           *)
(*                                                                         *)
(* A delivery is one invocation of handleMessage in some replica.  It      *)
(* suspends at every await, so each await is an action and deliveries      *)
(* interleave there.  <<m, n>> is the n-th delivery of job m.  It draws at *)
(* most one lock token from randomUUID, represented by the delivery itself *)
(*                                                                         *)
(* Time is discrete.  MaxJob is the longest a delivery stays between       *)
(* acquiring the lock and releasing it (MAX_JOB_SECONDS); Tick waits for   *)
(* it.  MaxTime is a bound on the model's clock.                           *)
(***************************************************************************)
EXTENDS RedisState, Sequences, FiniteSets

CONSTANTS
  Urls,          \* article URLs
  Versions,      \* content hashes an extraction can yield
  Jobs,          \* crawl-article messages
  JobUrl,        \* [Jobs -> Urls]
  JobWindow,     \* [Jobs -> Nat], article_refresh_minutes
  LiveJobs,      \* the jobs that carry a corpus_item
  LockTtl,       \* config.lockTtlSeconds
  AttemptTtl,    \* config.articleAttemptTtlMinutes
  ContentTtl,    \* redis-state's DEFAULT_TTL_SECONDS
  MaxJob,        \* bound on the time a lock is held by a running handler
  MaxAttempts,   \* deliveries of a job before Pub/Sub dead-letters it
  MaxTime,       \* bound on the clock
  Faults,        \* which of FaultKinds can happen
  NoVersion,     \* no event: the article is not eligible
  MinGap         \* the shortest of the windows in use and the attempt TTL

FaultKinds == {"redis", "zyte", "corpus", "publish", "ack", "crash"}

ASSUME UrlAssumption ==
  JobUrl \in [Jobs -> Urls] /\ LiveJobs \subseteq Jobs
ASSUME WindowAssumption == JobWindow \in [Jobs -> Nat \ {0}]
ASSUME TtlAssumption ==
  /\ LockTtl \in Nat \ {0} /\ AttemptTtl \in Nat \ {0}
  /\ ContentTtl \in Nat \ {0}
  /\ MaxAttempts \in Nat \ {0} /\ MaxTime \in Nat
  /\ Faults \subseteq FaultKinds
ASSUME JobAssumption == MaxJob \in Nat
ASSUME GapAssumption ==
  MinGap \in Nat /\ MinGap <= AttemptTtl /\ \A m \in Jobs : MinGap <= JobWindow[m]
ASSUME NoneAssumption ==
  NoToken \notin Jobs \X (1..MaxAttempts) /\ NoVersion \notin Versions

Deliveries == Jobs \X (1..MaxAttempts)

(* config.ts: "the lock must not expire sooner" than the job finishes.      *)
JobFits == MaxJob < LockTtl

VARIABLES
  now,        \* the clock
  marker,     \* article:extracted, a timestamp key per URL
  lock,       \* article:lock
  content,    \* article:content, the hash stored last
  topic,      \* per URL, the contents of the events in the articles topic
  jobState,   \* a job in the crawl-article subscription
  attempts,   \* how often a job has been delivered
  pc,         \* where each delivery is
  event,      \* the content hash it extracted
  lockedAt,   \* when it acquired the lock
  verdict,    \* what it will tell Pub/Sub once the lock is released
  started,    \* history: when the last extraction of a URL started
  done,       \* history: the last confirmed extraction of a URL
  tried       \* history: the last claim of a URL, until one is confirmed

redisVars == <<marker, lock, content>>
queueVars == <<jobState, attempts>>
localVars == <<event, lockedAt, verdict>>
history == <<started, done, tried>>
vars == <<now, redisVars, topic, queueVars, pc, localVars, history>>

JobOf(d) == d[1]
Url(d) == JobUrl[JobOf(d)]
Window(d) == JobWindow[JobOf(d)]

NoContent == [hash |-> NoVersion, exp |-> 0]
Never == -1
NeverDone == [at |-> 0, window |-> 0, version |-> NoVersion]

(* The lines of handleMessage that run under the lock. *)
Extracting == {"extract", "sync", "compare", "publish", "store", "confirm"}
Holding == {"recheck", "claim", "release"} \cup Extracting
Active == {"check", "lock"} \cup Holding
Ended == {"acked", "failed"}

TypeOK ==
  /\ now \in Nat
  /\ marker \in [Urls -> [at: Nat, exp: Nat]]
  /\ lock \in [Urls -> [token: Deliveries \cup {NoToken}, exp: Nat]]
  /\ content \in [Urls -> [hash: Versions \cup {NoVersion}, exp: Nat]]
  /\ topic \in [Urls -> Seq(Versions)]
  /\ jobState \in [Jobs -> {"outstanding", "acked", "dead"}]
  /\ attempts \in [Jobs -> 0..MaxAttempts]
  /\ pc \in [Deliveries -> {"unused"} \cup Active \cup Ended]
  /\ event \in [Deliveries -> Versions \cup {NoVersion}]
  /\ lockedAt \in [Deliveries -> Nat]
  /\ verdict \in [Deliveries -> {"ack", "nack"}]
  /\ started \in [Urls -> Nat \cup {Never}]
  /\ done \in [Urls -> [at: Nat, window: Nat,
                      version: Versions \cup {NoVersion}]]
  /\ tried \in [Urls -> Nat \cup {Never}]

Init ==
  /\ now = 0
  /\ marker = [u \in Urls |-> NoStamp]
  /\ lock = [u \in Urls |-> NoLock]
  /\ content = [u \in Urls |-> NoContent]
  /\ topic = [u \in Urls |-> <<>>]
  /\ jobState = [m \in Jobs |-> "outstanding"]
  /\ attempts = [m \in Jobs |-> 0]
  /\ pc = [d \in Deliveries |-> "unused"]
  /\ event = [d \in Deliveries |-> NoVersion]
  /\ lockedAt = [d \in Deliveries |-> 0]
  /\ verdict = [d \in Deliveries |-> "ack"]
  /\ started = [u \in Urls |-> Never]
  /\ done = [u \in Urls |-> NeverDone]
  /\ tried = [u \in Urls |-> Never]

-----------------------------------------------------------------------------
(* Control flow of a delivery. *)
Goto(d, l) == pc' = [pc EXCEPT ![d] = l]

(* The handler resolves and processMessage acks, or it rejects and          *)
(* processMessage nacks.  A nacked job, or one whose ack is lost, stays     *)
(* outstanding and is delivered again.                                      *)
Settle(d, v) ==
  /\ Goto(d, IF v = "ack" THEN "acked" ELSE "failed")
  /\ \/ v = "ack" /\ jobState' = [jobState EXCEPT ![JobOf(d)] = "acked"]
     \/ (v = "nack" \/ "ack" \in Faults) /\ UNCHANGED jobState

(* The next statement of the try block, or its finally block. *)
Continue(d, l) == Goto(d, l) /\ UNCHANGED verdict
Throw(d) == Goto(d, "release") /\ verdict' = [verdict EXCEPT ![d] = "nack"]

(* Its locals are gone once the invocation ends. *)
Forget(d) ==
  /\ event' = [event EXCEPT ![d] = NoVersion]
  /\ lockedAt' = [lockedAt EXCEPT ![d] = 0]
  /\ verdict' = [verdict EXCEPT ![d] = "ack"]

(* A Redis command rejects: it timed out or the connection was lost.  It    *)
(* may or may not have been executed, so a write appears both ways below.   *)
RedisFails == "redis" \in Faults
RedisThrows(d) == RedisFails /\ Throw(d)

Fresh(d) == IsWithin(marker[Url(d)], now, Window(d))
-----------------------------------------------------------------------------
(* Pub/Sub delivers an outstanding job, at least once: also while an        *)
(* earlier delivery of it is still running.                                 *)
Deliver(m) ==
  /\ jobState[m] = "outstanding" /\ attempts[m] < MaxAttempts
  /\ attempts' = [attempts EXCEPT ![m] = @ + 1]
  /\ Goto(<<m, attempts[m] + 1>>, "check")
  /\ UNCHANGED <<now, redisVars, topic, jobState, localVars, history>>

(* Skip a URL extracted within the job's window. *)
CheckMarker(d) ==
  /\ pc[d] = "check"
  /\ \/ Fresh(d) /\ Settle(d, "ack")
     \/ ~Fresh(d) /\ Goto(d, "lock") /\ UNCHANGED jobState
     \/ RedisFails /\ Settle(d, "nack")
  /\ UNCHANGED <<now, redisVars, topic, attempts, localVars, history>>

(* SET NX of the lock; a delivery that does not get it acks the job.  One   *)
(* that has set it without an answer fails, or acks too: ioredis sends the  *)
(* command again after a reconnect, and it finds the lock taken.            *)
AcquireLock(d) ==
  /\ pc[d] = "lock"
  /\ \/ /\ CanAcquire(lock[Url(d)], now)
        /\ lock' = [lock EXCEPT ![Url(d)] = Locked(d, now, LockTtl)]
        /\ \/ /\ Goto(d, "recheck")
              /\ lockedAt' = [lockedAt EXCEPT ![d] = now]
              /\ UNCHANGED jobState
           \/ /\ RedisFails /\ \E v \in {"ack", "nack"} : Settle(d, v)
              /\ UNCHANGED lockedAt
     \/ /\ ~CanAcquire(lock[Url(d)], now)
        /\ Settle(d, "ack")
        /\ UNCHANGED <<lock, lockedAt>>
     \/ RedisFails /\ Settle(d, "nack") /\ UNCHANGED <<lock, lockedAt>>
  /\ UNCHANGED <<now, marker, content, topic, attempts, event, verdict,
                 history>>

\* Mutant: the second check is dropped.
NeverFresh(d) == FALSE

(* Under the lock, check the marker again. *)
FreshUnderLock(d) == Fresh(d)
RecheckMarker(d) ==
  /\ pc[d] = "recheck"
  /\ \/ FreshUnderLock(d) /\ Continue(d, "release")
     \/ ~FreshUnderLock(d) /\ Continue(d, "claim")
     \/ RedisThrows(d)
  /\ UNCHANGED <<now, redisVars, topic, queueVars, event, lockedAt, history>>

(* Claim the URL for the attempt TTL before calling Zyte. *)
Claim(d) ==
  /\ pc[d] = "claim"
  /\ \/ /\ marker' = [marker EXCEPT ![Url(d)] = Stamp(now, AttemptTtl)]
        /\ tried' = [tried EXCEPT ![Url(d)] = now]
        /\ \/ /\ Continue(d, "extract")
              /\ started' = [started EXCEPT ![Url(d)] = now]
           \/ RedisThrows(d) /\ UNCHANGED started
     \/ RedisThrows(d) /\ UNCHANGED <<marker, started, tried>>
  /\ UNCHANGED <<now, lock, content, topic, queueVars, event, lockedAt, done>>

\* Mutant: an ineligible article is published like any other.
AlwaysCompare(v) == "compare"

(* Only an eligible article is compared and published. *)
AfterExtraction(v) == IF v = NoVersion THEN "confirm" ELSE "compare"

(* handleArticleExtraction up to its Corpus API call: Zyte returns an       *)
(* eligible article, one that is not (no event), or throws.                 *)
Extract(d) ==
  /\ pc[d] = "extract"
  /\ \/ \E v \in Versions \cup {NoVersion} :
          /\ event' = [event EXCEPT ![d] = v]
          /\ Continue(d, IF JobOf(d) \in LiveJobs THEN "sync"
                         ELSE AfterExtraction(v))
     \/ "zyte" \in Faults /\ Throw(d) /\ UNCHANGED event
  /\ UNCHANGED <<now, redisVars, topic, queueVars, lockedAt, history>>

(* detectAndSyncChanges, for a live article, eligible or not. *)
SyncCorpus(d) ==
  /\ pc[d] = "sync"
  /\ \/ Continue(d, AfterExtraction(event[d]))
     \/ "corpus" \in Faults /\ Throw(d)
  /\ UNCHANGED <<now, redisVars, topic, queueVars, event, lockedAt, history>>

\* Mutant: any stored hash counts as unchanged.
AnyHash(d) == Present(content[Url(d)], now)

Unchanged(d) ==
  Present(content[Url(d)], now) /\ content[Url(d)].hash = event[d]

\* Mutant: the hash is stored only when the event is published.
StoreOnlyNew(d) == IF Unchanged(d) THEN "confirm" ELSE "publish"

AfterCompare(d) == IF Unchanged(d) THEN "store" ELSE "publish"

(* publishIfChanged: compare with the stored hash, ... *)
CompareHash(d) ==
  /\ pc[d] = "compare"
  /\ Continue(d, AfterCompare(d)) \/ RedisThrows(d)
  /\ UNCHANGED <<now, redisVars, topic, queueVars, event, lockedAt, history>>

\* Mutant: the publish is not awaited, so its failure goes unseen.
PublishUnseen(d) == "publish" \in Faults /\ Continue(d, "store")

PublishThrows(d) == "publish" \in Faults /\ Throw(d)

(* ... publish the event, ... *)
Publish(d) ==
  /\ pc[d] = "publish"
  /\ \/ /\ topic' = [topic EXCEPT ![Url(d)] = Append(@, event[d])]
        /\ Continue(d, "store") \/ PublishThrows(d)
     \/ PublishThrows(d) /\ UNCHANGED topic
  /\ UNCHANGED <<now, redisVars, queueVars, event, lockedAt, history>>

(* ... and store the hash, published or not. *)
StoreHash(d) ==
  /\ pc[d] = "store"
  /\ \/ /\ content' = [content EXCEPT ![Url(d)] =
                         [hash |-> event[d], exp |-> now + ContentTtl]]
        /\ Continue(d, "confirm") \/ RedisThrows(d)
     \/ RedisThrows(d) /\ UNCHANGED content
  /\ UNCHANGED <<now, marker, lock, topic, queueVars, event, lockedAt, history>>

(* Rewrite the marker for the full window. *)
Confirm(d) ==
  /\ pc[d] = "confirm"
  /\ \/ /\ marker' = [marker EXCEPT ![Url(d)] = Stamp(now, Window(d))]
        /\ done' = [done EXCEPT ![Url(d)] =
                      [at |-> now, window |-> Window(d), version |-> event[d]]]
        /\ tried' = [tried EXCEPT ![Url(d)] = Never]
        /\ Continue(d, "release") \/ RedisThrows(d)
     \/ RedisThrows(d) /\ UNCHANGED <<marker, done, tried>>
  /\ UNCHANGED <<now, lock, content, topic, queueVars, event, lockedAt,
                 started>>

(* finally: release the lock; a failure to do so is only logged. *)
Release(d) ==
  /\ pc[d] = "release"
  /\ \/ lock' = [lock EXCEPT ![Url(d)] = Released(@, d, now)]
     \/ RedisFails /\ UNCHANGED lock
  /\ Settle(d, verdict[d])
  /\ Forget(d)
  /\ UNCHANGED <<now, marker, content, topic, attempts, history>>

(* The process running the delivery dies; its lease then expires. *)
Crash(d) ==
  /\ "crash" \in Faults /\ pc[d] \in Active
  /\ Goto(d, "failed")
  /\ Forget(d)
  /\ UNCHANGED <<now, redisVars, topic, queueVars, history>>

(* A job that used up its deliveries goes to the dead-letter topic. *)
DeadLetter(m) ==
  /\ jobState[m] = "outstanding" /\ attempts[m] = MaxAttempts
  /\ \A n \in 1..MaxAttempts : pc[<<m, n>>] \notin Active
  /\ jobState' = [jobState EXCEPT ![m] = "dead"]
  /\ UNCHANGED <<now, redisVars, topic, attempts, pc, localVars, history>>

(* Time passes, and Redis drops the keys that expire. *)
Tick ==
  /\ now < MaxTime
  /\ \A d \in Deliveries : pc[d] \in Holding => now < lockedAt[d] + MaxJob
  /\ now' = now + 1
  /\ marker' = [u \in Urls |-> Swept(marker[u], NoStamp, now')]
  /\ lock' = [u \in Urls |-> Swept(lock[u], NoLock, now')]
  /\ content' = [u \in Urls |-> Swept(content[u], NoContent, now')]
  /\ UNCHANGED <<topic, queueVars, pc, localVars, history>>

(* No job is left and nothing runs. *)
Idle ==
  /\ \A d \in Deliveries : pc[d] \notin Active
  /\ \A m \in Jobs : jobState[m] # "outstanding"
  /\ UNCHANGED vars

Handle(d) ==
  \/ CheckMarker(d) \/ AcquireLock(d) \/ RecheckMarker(d) \/ Claim(d)
  \/ Extract(d) \/ SyncCorpus(d) \/ CompareHash(d) \/ Publish(d)
  \/ StoreHash(d) \/ Confirm(d) \/ Release(d)

Next ==
  \/ \E d \in Deliveries : Handle(d) \/ Crash(d)
  \/ \E m \in Jobs : Deliver(m) \/ DeadLetter(m)
  \/ Tick
  \/ Idle

Spec == Init /\ [][Next]_vars
-----------------------------------------------------------------------------
(* One extraction of a URL at a time (DEDUPLICATION.md: duplicate jobs are  *)
(* extracted once): two deliveries of the same URL are never both between   *)
(* the claim and the release, whatever is lost, repeated or crashes.        *)
MutualExclusion ==
  \A d, e \in Deliveries :
    d # e /\ Url(d) = Url(e) => ~(pc[d] \in Holding /\ pc[e] \in Holding)

(* A running holder still owns the lock: it has not expired under it, and   *)
(* no other delivery has deleted or replaced it.                            *)
HolderOwnsLock ==
  \A d \in Deliveries : pc[d] \in Holding =>
    lock[Url(d)] = Locked(d, lockedAt[d], LockTtl) /\ now < lockedAt[d] + LockTtl

(* An extraction starts no sooner after the last confirmed one than its own *)
(* window and the window of that confirmation, whichever is shorter, unless *)
(* a later attempt failed: its claim replaced the marker, and then the      *)
(* attempt TTL has passed since ("how long a failed attempt blocks the next *)
(* one").                                                                   *)
Starts(d) == pc[d] = "claim" /\ pc'[d] = "extract"
WindowRespected ==
  [][\A d \in Deliveries : Starts(d) =>
       LET last == done[Url(d)] IN
       \/ last = NeverDone
       \/ now - last.at >= Window(d)
       \/ now - last.at >= last.window
       \/ tried[Url(d)] # Never /\ now - tried[Url(d)] >= AttemptTtl]_vars

(* What the worker promises of a URL, whatever its jobs: see the module.    *)
Running == {u \in Urls : \E d \in Deliveries : pc[d] \in Extracting /\ Url(d) = u}
Guard == INSTANCE ExtractionGuard WITH clock <- now, running <- Running
ImplementsGuard == Guard!Spec

(* A hash that is stored is the hash of an event that was published: a      *)
(* failure between the two repeats an event and never skips one.            *)
StoredHashWasPublished ==
  \A u \in Urls : Present(content[u], now) =>
    \E i \in 1..Len(topic[u]) : topic[u][i] = content[u].hash

(* Once an extraction that yielded an event is confirmed, the last event    *)
(* published for the URL has the content that was extracted.                *)
Confirms(d) == pc[d] = "confirm" /\ pc'[d] = "release" /\ verdict'[d] = "ack"
NothingLost ==
  [][\A d \in Deliveries : Confirms(d) /\ event[d] # NoVersion =>
       topic[Url(d)] # <<>> /\
       topic[Url(d)][Len(topic[Url(d)])] = event[d]]_vars

(* Content that was extracted and not changed since is published again only *)
(* after its hash can have expired: each extraction renews the hash.        *)
Publishes(d) == pc[d] = "publish" /\ topic'[Url(d)] # topic[Url(d)]
RepublishOnlyAfterRetention ==
  [][\A d \in Deliveries : LET last == done[Url(d)] IN
       Publishes(d) /\ last.version = event[d] =>
         now - last.at >= ContentTtl - MaxJob]_vars

(* A delivery that finds the lock taken drops its job because another       *)
(* delivery is running ("another worker has the lock").                     *)
SkippedOnlyForWork ==
  [][\A d \in Deliveries : pc[d] = "lock" /\ pc'[d] = "acked" =>
       \E e \in Deliveries \ {d} : Url(e) = Url(d) /\ pc[e] \in Holding]_vars

(* An unexpired lock goes away only when the delivery that set it releases  *)
(* it, even if that delivery outlived an earlier lock ("this never releases *)
(* another holder's lock").                                                 *)
LockReleasedByOwner ==
  [][\A u \in Urls :
       Present(lock[u], now) /\ now' = now /\ lock'[u] # lock[u] =>
         pc[lock[u].token] = "release" /\ pc'[lock[u].token] # "release"]_vars

(* The window a job asks for is the time since the last extraction          *)
(* (DEDUPLICATION.md: a discovered article is extracted once in 30 days).   *)
FullWindowRespected ==
  [][\A d \in Deliveries : Starts(d) =>
       done[Url(d)] = NeverDone \/ now - done[Url(d)].at >= Window(d)]_vars
=============================================================================
