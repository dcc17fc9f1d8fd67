# TLA+ models of the Firefox New Tab content crawler

This directory holds TLA+ models, TLC runs and TLAPS proofs of the crawler in
this repository: the scheduler and the two workers under `services/`, the client
packages they share, and the exporter of the publisher list under `scripts/`. Paths below are relative to the repository root.
`PROJECT.json` lists components, runs, mutants, findings, hazards and theorems,
and maps every definition to the source lines it models.

## 1. The system

The **scheduler** (one replica) enqueues publisher pages and live articles every
minute. The **discovery worker** crawls a page, publishes one event per article
and context, and enqueues a job per article. The **article worker** extracts an
article, publishes an event if its content changed, and for a live article
writes changed metadata back to the Corpus API. Jobs and events go through
Pub/Sub, which delivers at least once. Workers have many replicas and share only
Redis: markers, locks and content hashes, all with TTLs.

    spreadsheet --exporter--> publishers.json
        |
    scheduler --crawl-article-discovery--> discovery worker --article-discoveries--> BigQuery
        |                                        |
        +------------- crawl-article ------------+--> article worker --articles--> BigQuery
    Corpus API <----- snapshot (scheduler), update (article worker) -----+
    Redis: page:fetch, page:lock | article:extracted, article:lock, article:content

| Component | State it keeps | Operations | What makes it hard | What makes it correct |
|---|---|---|---|---|
| Article worker, `services/crawl-worker/src/article-consumer.ts`, `handlers/extract-article.ts` | Redis: `article:extracted`, `article:lock`, `article:content`; per delivery: lock token, event | `handleMessage`, `publishIfChanged`, `handleArticleExtraction`, `detectAndSyncChanges` | duplicate deliveries on other replicas, crashes and Redis failures between any two awaits, locks that expire | one extraction of a URL at a time and not too soon after the last; no event lost or repeated; every job settles |
| Discovery worker, `discovery-consumer.ts`, `handlers/extract-discovery.ts` | `page:fetch`, `page:lock`; publishes under way | `handleMessage`, `handleArticleDiscovery` | concurrent publishes that outlive the handler; the half-interval window | crawls exclusive and apart; an acked crawl published everything; an on-time page is not skipped |
| Scheduler, `services/crawl-scheduler/src` | loop state, `lastTickAt`, the abort signal | `tickPages`, `tickLiveArticles`, `runEveryMinute`, `shutdown`, `/healthz` | timers that fire early, slow ticks, hanging calls, shutdown during a tick | each page once per interval; minutes skipped only by an overrun; a hung page loop is noticed; the loops are independent |
| Pub/Sub client, `packages/pubsub/src/client.ts` | `pubsub`, `topicCache`, `subscriberControllers`, `shutdownPromise` | `initPubSubClient`, `startSubscriber`, `stop`, `publishMessage`, `processMessage`, `shutdownPubSub` | calls between the awaits of a shutdown; handlers that never settle | no orphaned client, subscriber or topic; the client dropped after the drain; the shutdown ends |
| Redis client, `packages/redis-state/src/client.ts` | keys with TTLs; a token bucket | timestamps, strings, lock acquire and release, rate limit token | commands that fail after taking effect; a bucket that refills while it expires | a lock is deleted only by its owner; a bucket is never over-drawn |
| Zyte and Corpus API clients, `packages/zyte/src/client.ts`, `packages/crawl-common/src/corpus-api/client.ts` | JWT cache (Corpus) | requests with timeouts and retries, scheduled sections, updates | the sum of all attempts and delays; what is retried; a JWT shared by all jobs of a process | all calls of a job fit its lock; short outages are ridden out; a JWT outlives its request |
| Live metadata sync, `extract-article.ts:146-219`, `packages/crawl-common/src/utils/normalize.ts` | the corpus item, its snapshot in each job | compare, update | stale snapshots, concurrent curators, late updates | the item converges to the page; style is not overwritten |
| Worker process, `services/crawl-worker/src/main.ts`, with the life cycles of all clients, metrics and Sentry | which clients are up; the steps of a shutdown | start-up, SIGTERM, `shutdown`, the forced exit | jobs that arrive during a shutdown; awaits that hang or reject; a death at any await; a subscription that has failed | no handler without its clients, except after a drain that did not wait; a signalled process ends; locks are left only by faults; jobs settle |
| Publisher list and event mapping, `scripts/sheets-exporter/src/sheets-app-script.js`, `handlers/extract-discovery.ts`, `handlers/event-fields.ts`, `zyte-extraction/extraction-mode.ts` | the spreadsheet | `buildPublishersJson_`, `buildPythonList_`, `selectArticles`, `mapToDiscoveryEvent` | repeated, reordered, half-filled and renamed rows and sheets; lists that repeat articles; redirects | the export is a function of the approved rows; both exports agree; one event per own article and approved context |
| Keys and types, data, schema | none | — | — | see section 8 |

## 2. Modules and how they correspond to the code

An action is the code from one `await` to the next: JavaScript runs that much
without interleaving. Every await that can reject has a branch in which it does,
and a write that rejects appears both applied and not applied. Redis commands
are atomic steps. Time is a counter; `Tick` also drops expired keys.

| Module | Models | Notes |
|---|---|---|
| `RedisState` | keys and commands of redis-state, `isWithinMinutes` | operators only; a key is a record with its expiry |
| `ExtractionGuard` | abstract: what marker and lock together promise | one extraction of a URL at a time, starts at least `MinGap` apart |
| `ArticleWorker` | `handleMessage` of the article consumer with all it calls | extends RedisState; a delivery `<<job, n>>` walks check, lock, recheck, claim, extract, sync, compare, publish, store, confirm, release |
| `MCArticleWorker` | instances of it for TLC | one URL, two jobs: a live one with a short window and a discovered one |
| `ArticleWorkerProofs` | proofs about it | section 6 |
| `DiscoveryWorker` | `handleMessage` of the discovery consumer | implements `ExtractionGuard` too; each publish of `Promise.all` lands or fails on its own, also after the lock was released |
| `Scheduler`, `MCScheduler` | both loops, health probe, shutdown | the clock has two units a minute, so a timer can fire early and a tick can overrun |
| `PubSubClient` | the module-level state of the Pub/Sub client | clients are numbered; a topic remembers the client it was made from |
| `ApiRequests`, `MCApiRequests` | p-retry around both APIs within one article job, and the Corpus client's JWT | in seconds, with the code's constants |
| `LiveSync`, `MCLiveSync` | the corpus item of one live article over many jobs | texts are short character sequences, and `normalizeText` is computed on them |
| `WorkerProcess` | the pods of one worker role, from start-up to exit | a job is only its lock and its settlement here; both roles, and each setting missing |
| `PublisherPages` | the two exporters as operators on a spreadsheet | no state; ids and the parts of a URL are numbers that stand for their alphabetical places |
| `CrawlFlow`, `MCCrawlFlow` | spreadsheet -> export -> page job -> crawl -> events | composes the exporters, the scheduler's message and the discovery handler |
| `TokenBucket` | `acquireRateLimitToken` and its Lua script | in exact fractions of a token; not run, its proofs are in `ApiRequestsProofs` |
| `DiscoveryProofs`, `SchedulerProofs`, `PubSubProofs`, `ApiRequestsProofs`, `LiveSyncProofs`, `WorkerProcessProofs`, `CrawlFlowProofs` | proofs about those modules | section 6 |

Correspondences worth spelling out for `ArticleWorker`:

- `CheckMarker` / `AcquireLock` / `RecheckMarker` / `Claim` / `Extract` /
  `SyncCorpus` / `CompareHash` / `Publish` / `StoreHash` / `Confirm` / `Release`
  are the awaits of `article-consumer.ts` 48, 57, 72, 82, 89 (Zyte, then the
  Corpus API), 114, 115, 121, 95 and 99, in program order. A rejection inside
  the `try` goes to `Release` with verdict "nack"; a rejection of the release is
  swallowed as `.catch` does.
- `Settle` is `processMessage`: ack after the handler resolves, nack after it
  rejects. A lost ack and a nack both leave the job outstanding. A job out of
  deliveries and with none running is dead-lettered.
- `Crash` ends a delivery at any await: the process died, or `main.ts` forced an
  exit 10 s after SIGTERM while the drain may take 25 s.
- `started`, `done` and `tried` are history variables; no guard reads them. `tried`
  is the time of the last claim of a URL until an extraction is confirmed: a claim
  replaces the marker of an earlier confirmation, so a failed attempt can end a
  longer window early.

Abstracted: an event is one content version (the SHA-256 of its content
columns), a lock token is the delivery that drew it, a publish is one step that
may fail with or without effect.

In `DiscoveryWorker`, the set of articles a crawl selects is arbitrary, since
which URLs of a page survive filtering does not affect control; `CrawlFlow`
computes it. In `Scheduler` the offset of a page is a constant: a hash of its URL
modulo the interval.

In `WorkerProcess` a handler is three awaits (lock, work, release), since what
happens under the lock is in the other two modules; those in turn have a `Crash`
at any await, which the deaths and forced exits of this one justify. Each await of
`shutdown` is a step of `ShutdownSteps`, and a client is gone once its step
*begins*, as `pubsub = undefined` and `client = undefined` are set before the
awaits that follow them. A drain waits for the handlers up to its timeout, unless
the subscription has failed (`SubscriptionFails`): `stop()` of one that a stream
error has closed returns at once, and so does one whose `close()` throws
(`packages/pubsub/src/client.ts:208-226`). `lost` names the pods of which that is so.
`TakeLock` and `Release` may fail at Redis with and without effect, and the failure
of a release is only logged. `left` is a history variable: the jobs whose lock a
death, a failed command or such a drain has left behind.

ioredis sends a command again after a reconnect. For SET NX that is a branch of its
own in all three modules with a lock (`AcquireLock`, `TakeLock`): the second one
finds the lock that the first one set, and the job is acked as if another worker
had it. The other commands have the same effect when they are sent twice. A command
that was given up on takes effect at or before its rejection; that Redis executes it
later still is left out.

In `ApiRequests` a JWT is represented by the instant it was signed. A job may find
one of any age, because other jobs of the process share the cache. jose rounds
`iat` to whole seconds, so the margin of 15 s that `TokenOutlivesTransit` speaks
of can be 14 s and a fraction.

In `PublisherPages` the topics sheet may name a topic twice; the last row with an
id wins, as in `loadTopicMap_`. It may lack each of its columns, which matters to
the exporter that reads the column.

## 3. Runs

| Run | Question | Result |
|---|---|---|
| `ArticleFaults` | A live and a discovered job of a URL, each delivered twice, with Redis and publish failures and crashes: is extraction exclusive (`MutualExclusion`), does a holder own its lock (`HolderOwnsLock`), are windows respected (`WindowRespected`), is the guard implemented (`ImplementsGuard`), is a stored hash always of a published event (`StoredHashWasPublished`)? | holds |
| `ArticleDedup` | Two contents that alternate, failing Zyte and Corpus calls and lost acks, no Redis failures: is an event lost (`NothingLost`), repeated too soon (`RepublishOnlyAfterRetention`), or a job dropped for no work (`SkippedOnlyForWork`)? | holds |
| `ArticleWindow`, `ArticleLost`, `LiveForeign` | What a comment or a document says, against the code | violated, section 7 |
| `Discovery` | A page's jobs of two intervals, late and redelivered: `ImplementsGuard`, `AckedCrawlComplete`, `OnTimePageCrawled` | holds |
| `Scheduler` | Early timers, overruns, hanging publishes and Corpus API, SIGTERM at any time: `EnqueuesSpaced`, `SkippedOnlyByOverrun`, `HungPagesUnhealthy`, `PagesKeepTicking` | holds |
| `PubSub` | Two clients in turn, two subscribers, two messages, a foreign caller, two topics: `OneClient`, `NoOrphanSubscriber`, `TopicsCurrent`, `DroppedAfterDrain`, `ShutdownEnds` | holds |
| `ApiRequests` | Outages of both APIs, at and around the limits, and a JWT of any age: `CallsFitLock`, `ShortOutageRidden`, `TokenOutlivesTransit` | holds |
| `WorkerProcess` | Two pods around a job, in both roles, with signals, a crash, hanging and rejecting shutdowns, failing subscriptions and Redis commands, lost acks and a missing setting: `ReadyWhileWorking`, `LockLeftOnlyByFault`, `ShutdownEnds`, `EveryJobSettles` | holds |
| `CrawlFlow` | Every spreadsheet of a sheet with up to two rows and one with up to one, and article lists of up to three items: `JsonMatchesRows`, `ExportsAgree`, `CrawlCoversContexts` | holds |
| `LiveSync` | Two jobs with stale snapshots, two edits, revisions or failures: `Converges`, `StyleKept` | holds |

Every property of a passing run has a mutant in `PROJECT.json`: a plausible bug
in one mapped definition, under which the run finds the property violated.

`DroppedAfterDrain` allows a handler to be running when a *caller's* own `stop()`
is already draining its subscription: `subscription.close()` resolves at once the
second time, so `shutdownPubSub` does not wait for it, whatever the comment
"Handlers have drained" (`client.ts:314`) says. No service calls `stop()` itself.

`ReadyWhileWorking` and `EveryJobSettles` make an exception for failed subscriptions
too. The first allows a handler to lack a client once its pod is past the drain
(`step > 1`) and the subscription had failed, since the drain then waited for
nothing. The second allows that in the end every pod is up and receives no more.

## 4. Bounds

- **Article runs.** Deliveries of different URLs share no key and no state, so
  one URL is enough. Two jobs with two deliveries each give four handlers: both
  kinds of job, each with a duplicate. `ArticleLost` uses three deliveries of
  one job: one stores A, one publishes B and loses its store, one finds A again.
  Durations keep the order of the code's values:
  `MaxJob` (1) < `LockTtl` (2, 10 min) <= live window (2, 15 min) < `AttemptTtl`
  (3, 60 min) < discovered window = `ContentTtl` (4, 30 days). `MaxTime` of 3 to
  5 reaches past every expiry that the run's properties speak of; one version
  suffices where content is irrelevant. In `ArticleFaults` the discovered window
  is 6, so that a live attempt can start within it, fail, and its claim expire
  (2 + 3) before the window is over.
- **Discovery.** Interval 4 and window 2 keep the fraction 0.5. Two rounds, each
  delivered twice, cover a late crawl followed by an on-time one.
- **Scheduler.** Two pages share an offset in an interval of two minutes, so a
  tick has two concurrent publishes and the next none. Seven units are three
  minutes: an early tick, an overrun and the minute after. The threshold of 3
  units lies within that horizon.
- **PubSub.** A second client needs a completed shutdown, so `MaxClients = 2`
  covers what survives one. `CHECK_DEADLOCK FALSE`, since callers may stop
  calling.
- **ApiRequests.** The numbers are the code's. Attempts last 0, 29, 30, 89 or
  90 s, the values around both timeouts. The cached JWT is 260, 284 or 290 s old:
  one that a retry outlives, one in its last second, one to be renewed. The jitter
  of p-retry is off by default.
- **WorkerProcess.** Two pods and one job, delivered twice: one pod can die or
  shut down under the job while the other takes it. Two signals, so that a second
  one finds the handlers removed; one crash. Times keep the order of the code's
  10 s forced exit and 25 s drain (1 < 2): a handler can take its steps before,
  between and after the two ticks of either. Failing subscriptions, Redis
  commands and acks need no bound of their own. `CHECK_DEADLOCK FALSE`, since a
  deployment without a required setting stays down.
- **CrawlFlow.** Rows with topics that share an id, differ in case, or have none;
  URLs that share a sort key, with and without scheme or `www.`; a note beside a
  URL, a bare host, a text; missing sheets and columns. Two rows of one sheet and
  one of another are the fewest in which order, repetition and two locales meet.
  `CHECK_DEADLOCK FALSE`, since a crawl is the last step.
- **LiveSync.** `CompareLength = 3` and texts of up to five characters: a text,
  the same in another style, a different one and a blank one; two jobs and two
  disturbances. The four characters are the two that `normalizeText` treats apart
  and two that it does not. The texts are closed under trimming, as
  `SyncAssumption` asks: what a sync writes is again a text.

## 5. Fairness

Safety runs use `Spec`, without fairness. The liveness properties assume:

- `WorkerProcess`: a handler's await ends (each has a timeout: 5 s for Redis, 90 s
  for Zyte, 30 s for the Corpus API, the SDK's deadline for a publish), Pub/Sub
  delivers an outstanding job to some pod that consumes, Kubernetes restarts a
  process that has exited, and timers fire. The awaits of a shutdown are not fair:
  a server that never closes, a drain or a quit that never ends are allowed.
  Crashes are not fair, and not excluded. A subscription may fail and then stays
  so until the process ends.
- `Scheduler`: time passes, timers fire, a tick whose publishes have landed
  returns, and the forced exit comes. Neither a publish nor the Corpus API is
  assumed to answer.
- `PubSubClient`: `close()` of a subscription is bounded by
  `SHUTDOWN_TIMEOUT_SECONDS`, and publishes and `client.close()` by deadlines. A
  handler may hang for ever.
- `LiveSync`: the live loop keeps enqueuing the article and updates land.
  `Extract` is strongly fair because the lock disables it now and then: a job
  that finds it taken is acked, and the next one tries again.

## 6. Theorems

TLAPS checks these for all values of the constants that satisfy the named
assumptions of their modules, which TLC evaluates on every run of these modules.
`TokenBucket` has no run, so the theorems about it, in `ApiRequestsProofs` through
an instance of it, state their assumptions themselves.

| Theorem | Statement |
|---|---|
| `ArticleWorkerProofs` | |
| `TypeCorrect` | `Spec => []TypeOK` |
| `LockSafe` | `JobFits => (Spec => []HolderOwnsLock)` |
| `ExtractedOnce` | `JobFits => (Spec => []MutualExclusion)` |
| `ForeignLocksKept` | `Spec => LockReleasedByOwner` |
| `HashesPublished` | `Spec => []StoredHashWasPublished` |
| `WindowsKept` | `JobFits => (Spec => WindowRespected)` |
| `SkipsOnlyForWork` | `JobFits /\ RedisHolds => (Spec => SkippedOnlyForWork)` |
| `ConfirmedIsPublished` | `JobFits /\ WritesHold => (Spec => NothingLost)` |
| `RepublishesLate` | `JobFits /\ RedisHolds => (Spec => RepublishOnlyAfterRetention)` |
| `MarkerSafe` | `JobFits => (Spec => []GapInv)` |
| `GuardImplemented` | `JobFits => (Spec => ImplementsGuard)` |
| `DiscoveryProofs` | |
| `TypeCorrect` | `Spec => []TypeOK` |
| `PagesExclusive` | `Spec => []HoldersExclude` |
| `AckMeansComplete` | `Spec => AckedCrawlComplete` |
| `LatenessTolerated` | `Spec => OnTimePageCrawled` |
| `GuardImplemented` | `Spec => ImplementsGuard` |
| `SchedulerProofs` | |
| `TypeCorrect` | `Spec => []TypeOK` |
| `EnqueuedOnce` | `Early <= 1 => (Spec => []EnqueuesSpaced)` |
| `SkipsOnlyOverruns` | `Spec => []SkippedOnlyByOverrun` |
| `HangNoticed` | `Spec => []HungPagesUnhealthy` |
| `PubSubProofs` | |
| `TypeCorrect` | `Spec => []TypeOK` |
| `OneClientOpen` | `Spec => []OneClient` |
| `NoneOrphaned` | `Spec => []NoOrphanSubscriber` |
| `CacheCurrent` | `Spec => []TopicsCurrent` |
| `DrainBeforeDrop` | `Spec => DroppedAfterDrain` |
| `ApiRequestsProofs` | |
| `TypeCorrect` | `Spec => []TypeOK` |
| `TokenSurvives` | `Spec => []TokenOutlivesTransit` |
| `OutagesRidden` | `Spec => []ShortOutageRidden` |
| `LockOutlivesCalls` | `CallsFit => (Spec => []CallsFitLock)` |
| `RefusedUntilTold` (token bucket) | `TB!Spec => []TB!WaitTold` |
| `NeverOverdrawn` (token bucket) | `TB!Spec => []TB!NoOverdraw` |
| `LiveSyncProofs` | |
| `TypeCorrect` | `Spec => []TypeOK` |
| `StyleIsKept` | `Spec => StyleKept` |
| `WorkerProcessProofs` | |
| `TypeCorrect` | `Spec => []TypeOK` |
| `HandlersEquipped` | `Spec => []ReadyWhileWorking` |
| `LocksOfFaults` | `Spec => []LockLeftOnlyByFault` |
| `CrawlFlowProofs` | |
| `FlowTyped` | `Spec => []TypeOK` |
| `JsonIsOfRows` | `Spec => []JsonMatchesRows` |
| `ExportersAgree` | `Spec => []ExportsAgree` |
| `CrawlCovers` | `Spec => []CrawlCoversContexts` |

`JobFits` is `MaxJob < LockTtl`: a running handler releases its lock before it
expires. This is what `config.ts:30-42` intends with `MAX_JOB_SECONDS`.
`LockOutlivesCalls` shows that the API calls of a job end in time if
`CallsFit`: the longest Zyte call and the longest Corpus call together fit the
lock. `MCApiRequests` evaluates both for the code's numbers, 374 s and 180 s, which
leaves 46 s of the 600 for a job's Redis commands and publishes; that the rest
fits is assumed. `ForeignLocksKept`, `HashesPublished` and the types do not need it:
a job that outlives its lock still cannot delete another's. In `DiscoveryWorker` it
is part of the module's assumption.

`RedisHolds` says that neither Redis commands fail nor processes crash, and
`WritesHold` that in addition no publish fails. They are not technical: without
them the properties are false. `ArticleLost` is a run in which one failed store
loses an event; a lock left by a crash is taken for work; and after a store that
applied but rejected, the stored hash is that of content no extraction confirmed,
so the content confirmed before is published again when it returns. The theorems say that nothing else does this: not duplicate
deliveries, lost acks, failing Zyte or Corpus calls, or contents that come and go.

*Type correctness* needs one strengthening (`TypeInv`): a delivery past
extraction that compares, publishes or stores has an event, so that what is
appended to the topic is a version and not the absence of one.

*Mutual exclusion* follows from `HolderOwnsLock`: every delivery under the lock
finds its own token, unexpired, in the key, and one key holds one token. That
invariant is inductive together with the types. `AcquireLock` needs that an
absent key contradicts any other holder; `Release` that the script deletes only
its own token; `Tick` that time does not pass beyond `lockedAt + MaxJob`.

*The guard* needs more, since starts must also be apart. `GapInv` says that until
`MinGap` has passed since an extraction started, the marker is present, was
written no earlier than that start and lives until the gap is over; and that a
delivery about to claim (past the second check, under the lock) finds the gap
over. The second conjunct is why the second check exists: without it a delivery
that passed the first check long ago could claim at once. `Claim` and `Confirm`
preserve `GapInv` because `MinGap` is at most the attempt TTL and every window.
Then `Claim` maps to `Start`, the last step under the lock to `Stop`, `Tick` to
`Tick`, and every other step to a stutter.

*Windows.* `WindowRespected` looks back to the last confirmation instead of the
last start. `WindowInv` says what the marker shows of it: either the wait that the
last confirmation imposes is over (its window, or the attempt TTL since a claim
that followed it), or the marker is present, was written no earlier than the
confirmation, and lives until the wait is over; and a delivery about to claim has
found the wait or its own window over. An earlier form of the
property, without the failed claim, was proved false by its own invariant: a live
attempt that fails inside a discovered article's window replaces the marker, and
when that claim expires the discovered job may start. The property now states it,
and the bounds of `ArticleFaults` reach it.

*Skipped jobs.* Without Redis failures and crashes the converse of `HolderOwnsLock`
holds (`LockOfHolder`): an unexpired lock belongs to a delivery that is working,
since every way out of the handler passes the release.

*Nothing lost, nothing repeated.* `LastInv` relates three places: a hash that is
stored is the hash of the *last* event, except between a publish and its store,
and a delivery that compared equal has the content of the last event. It is
inductive only under mutual exclusion, since otherwise another delivery could
publish in between. `RetainInv` adds time: the hash of a confirmed content stays
for `ContentTtl` from its store, which was at most a job before the confirmation.

*The Pub/Sub client* has one inductive invariant for all five theorems (`Inv` of
`PubSubProofs`). Its core is what `shutdownPromise` protects: while it is set the
client being closed is the only open one, no subscription is open, and, until
the client is dropped, the registered controllers are exactly those the shutdown
awaits. `HandlerInv` adds that a running handler's subscription was started, and
was given up on if it is closed; with it the drop of the client leaves no handler
behind that somebody still waits for.

*A stored hash is of a published event.* `HashInv` strengthens this to expired
hashes and adds that the event of a delivery about to store one is in the topic:
either it was just published, or it compared equal to a hash that was.

*The discovery worker* repeats the argument of the guard over pages. For
`AckMeansComplete`, `SendInv` says that a crawl's messages are in flight or landed
until one is rejected, so that a handler that will ack has seen all of them land.
For `LatenessTolerated`, `Timely` says that a delivery runs only once its job is
enqueued and that a `page:fetch` which is present is the one the last claim wrote:
a page found fresh was claimed less than `MinRefresh` before.

*The scheduler.* `EnqueuedOnce` rests on a tick being unable to end before its
minute begins: a timer that fires `Early` units too soon is followed by at least
one publish, or by none and then nothing was enqueued. With units of time in which
a publish takes at least one, `Early <= 1` is the condition that a publish takes
no less time than a timer is early by. Timers of Node are early by about a
millisecond. `HangNoticed` needs that only the page loop writes `lastTickAt`.

*The worker process.* `HandlersEquipped` is where `TimeoutAssumption`, the forced
exit before the end of the drain (10 s < 25 s), does its work: a drain ends with
handlers still running only after `DrainTimeout`, and by then the process is gone,
because the timer was set before the drain began. The one other way out of a drain
is a failed subscription, which the property excepts. `LocksOfFaults` follows from
it: a handler that ends finds Redis there to release its lock, unless the drain did
not wait; and the release deletes the lock unless Redis fails, which `left` records.

*The JWT* of an attempt is at most `Refresh` old when the attempt starts, whatever
attempt it is; so one that has expired on arrival was under way for `JwtTtl -
Refresh`.

*Backoff.* `Backoff` is a recursive function on the number of retries: each API's
next wait, doubled up to its cap, and the sum of the waits before. `CallTimed`
ties it to the state: the wait is the function's, and the time since the call
began is at least its total and at most the total and a timeout for each attempt.
Both theorems follow at the last attempt. That the recursion defines a function at
all is proved too (`RecursionExists`), by induction, which in turn is proved from
the pigeonhole principle (`SetInduction`): if n were the first number outside a
set that contains 0 and is closed under adding one, adding one would map the part
of the set below n into itself, injectively but not onto.

*Live sync.* The snapshot of a job is the item in every field not written since
(`SnapInv`), and an update's input is what some page text and that snapshot call
for (`InputInv`). So a field that the update changes, and that nobody wrote in
between, differs from the page by more than style. What is written is the page's
text *trimmed*, and the theorem needs that this reads the same: `NormalOfTrimmed`,
from `Trim(Trim(t)) = Trim(t)` for every sequence of characters.

*The token bucket.* Tokens taken since an observer began to count, plus the level,
never exceed the burst plus what was refilled since; a key that expires was full,
because `TtlSeconds` outlasts a refill from empty. The script computes in doubles,
the model in exact fractions, so a rounding of the last digit is left out, and so
is a Redis clock that steps back. `RefusedUntilTold` follows one refusal: as long as
nobody takes a token, the level is that of the refusal and what was refilled since
(`RefusalInv`), over any refusals that store it again; and a key can expire only
after a refill from empty, when its level is full. At the time the caller was told
the level has therefore reached a token, and a millisecond before it had not. It
does not say that this caller gets the token: another replica may come first, and
then the refusal is over.

*From rows to events.* The operators of `PublisherPages` and `CrawlFlow` say which
element stands at which place instead of recursing over a sequence: `Arranged` lists
a finite set by the keys of its elements, the k-th being the one with k - 1 before
it, and filtering, the insertion order of a Map and `Array.prototype.sort` are
readings of other sequences along such a list (`AtPlaces`, `Distinct`,
`StableSort`). Everything rests on `ArrangedIs`: for keys that are tuples of one
length and differ, the list is a bijection that is increasing in the keys. It is
proved by counting, the number of elements before each being a bijection onto
`0..n - 1`. Then

- `JsonIsOfRows`: the entries ingested are those of the approved rows
  (`IngestedIs`, `ApprovedIs`), the pages their URLs and the contexts of a page
  those of its entries, each once; without repetitions a sort by a key that tells
  all elements apart is strict (`SortedStrictly`), which fixes the list, wherever a
  row stands.
- `ExportersAgree`: both exporters list one set of URLs, though they file the rows
  under other names (`PythonEntries`). Two listings of one set in the order of a key
  have the same key at each place (`SameKeys`), even where ties are broken
  differently: were the one's smaller at place i, its first i elements would be
  among the i - 1 before place i of the other.
- `CrawlCovers`: each of the publisher's URLs is listed first at exactly one place
  (`FirstIs`), and events are read along the pairs of such a place and a context, so
  they are as many as the pairs. That an article cannot have one context twice is
  `PageContextsIs`.

The inductive invariant, `FlowInv`, says of each part of the state what it was made
from. Assumed is only the type of spreadsheets and article lists
(`FlowAssumption`); sheets, rows, topics and items may be any number.

Only model-checked: all liveness (`Converges`, `PagesKeepTicking`, both
`ShutdownEnds`, `EveryJobSettles`), which is beyond the prover. Every safety property
of a passing run is a theorem. Induction over numbers is available, in the form of
`SetInduction`, but not the library's induction theorems, which take an operator
as a parameter that no installed prover instantiates.

## 7. Where the code and its documentation disagree

1. **A live job shortens a discovered article's window** (`ArticleWindow`). The
   confirmation writes the shared marker with the TTL of the job that finished.
   After a live job it is gone in 15 minutes, so a discovered job extracts the
   URL again long before its 30 days are over (`docs/crawl/DEDUPLICATION.md:59,81`).
   What does hold is `WindowRespected`: the shorter of the two windows, or the
   attempt TTL after an attempt that failed.
2. **A failed store can lose an event** (`ArticleLost`). The comment at
   `article-consumer.ts:106` promises a duplicate instead. But if the article
   reverts to the content whose hash is still stored, nothing is published, and
   the last event keeps the content that is gone. Without Redis failures
   `NothingLost` holds.
3. **Metadata of a foreign page reaches the corpus item** (`LiveForeign`). After a
   redirect to another domain no event is published, as documented at
   `extract-article.ts:112`, but the sync at line 56 runs all the same.

Seen while modelling, without a run:

- A taken lock need not mean work. After a crash, or after a SET NX that timed out
  although applied, the key exists and nobody works, and redelivered jobs are
  acked, whatever the comment "A null token means another worker has the lock"
  (`article-consumer.ts:62`) says. `SkippedOnlyForWork` holds without crashes and
  Redis failures, which is how `ArticleDedup` checks it; `LockLeftOnlyByFault` names
  all that can leave such a key: a death, a SET NX or a release that failed, and a
  drain that did not wait.
- `toEventTimestamp` passes on whatever `Date.parse` accepts, for instance "5",
  which BigQuery's TIMESTAMP does not. `CrawlFlow` distinguishes ISO dates, blanks
  and texts that no parser accepts, and of these it shows that none but ISO dates
  come through.
- A subscription that meets an error the SDK does not retry stays closed, and
  `/healthz` of the worker goes on answering ok. When such a pod is shut down later,
  `stop()` returns at once, and Pub/Sub and Redis are dropped under handlers that are
  still running, before the 10 s are over: their jobs come again, but their locks
  stay until they expire. The same follows a `close()` that throws. The comment
  "Handlers have drained" (`packages/pubsub/src/client.ts:314`) does not hold then either.
- A rejected flush or quit ends `shutdown` before `shutdownMetrics` and
  `shutdownSentry`, so the report of that very rejection may be lost; the forced
  exit still comes.

- DEDUPLICATION.md:100-102 says that the discovery worker checks each article
  against `article:extracted` before it queues it. The code does not read that
  key: `discovery-consumer.ts` enqueues every unique URL, and the article worker
  turns it away.
- `normalizeText` does not treat all white space alike: "foo ." loses its
  period but keeps the blank before it, and an excerpt is cut before its inner
  blanks are collapsed, so two spellings of one text can differ.
- A Zyte answer whose body breaks off is not retried (`packages/zyte/src/client.ts`
  200-207), unlike one of the Corpus API.

## 8. Not modelled

- The fields of events other than authors and dates, request bodies, canonical
  URLs: conversions without state. `ArticleWorker` takes an event as one version.
- The de-duplication of sections in `getScheduledSectionItems`: the scheduler's
  live articles are a set.
- In the exporter, the text of the Python module (line lengths, quoting) and the
  HTML dialog; the list of domains in `no-js-domains.ts` is data.
- Counters, timings, tags and contexts of metrics and Sentry: nothing reads them.
- Redis eviction and failover, BigQuery, and Pub/Sub beyond at-least-once delivery
  and dead-lettering.
- A restart of the scheduler: it begins with the next minute and keeps no state, so
  it would be a second, independent instance of the model.
- Build files, data and DDL.

## 9. Plan

Done, in this order: the article worker with its abstract guard and the proofs
about it; the discovery worker; the scheduler; the Pub/Sub client with its proofs;
the API clients' retries; live sync; then the worker process, the JWT cache, the
token bucket, the publisher list up to its events; proofs about every stateful
module, and for all safety properties of the passing runs.

Left:

1. A composition of scheduler and workers over abstract queues, for what a changed
   page needs to reach BigQuery.

## 10. Running

    tlc -workers 2 -config ArticleFaults.cfg MCArticleWorker
    tlapm ArticleWorkerProofs.tla
    tlapm DiscoveryProofs.tla
    tlapm SchedulerProofs.tla
    tlapm PubSubProofs.tla
    tlapm ApiRequestsProofs.tla
    tlapm LiveSyncProofs.tla
    tlapm WorkerProcessProofs.tla
    tlapm CrawlFlowProofs.tla
