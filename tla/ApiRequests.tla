----------------------------- MODULE ApiRequests -----------------------------
(***************************************************************************)
(* The HTTP calls of an article job, made while it holds the lock: Zyte    *)
(* extracts the article (packages/zyte/src/client.ts), then the Corpus API *)
(* may take an update (packages/crawl-common/src/corpus-api/client.ts).    *)
(* Both wrap fetch in pRetry.  A discovery job makes the first call only.  *)
(*                                                                         *)
(* Each API may have one outage: an attempt started within it fails, and   *)
(* pRetry deems the failure retryable.  Times are seconds since the job    *)
(* took its lock.                                                          *)
(*                                                                         *)
(* Every attempt at the Corpus API carries the JWT that all jobs of the    *)
(* process share; the API refuses one that has expired on arrival.         *)
(***************************************************************************)
EXTENDS Integers

CONSTANTS
  Timeout,     \* of each API: of one attempt, by AbortSignal.timeout
  Retries,     \* attempts after the first
  MinDelay, MaxDelay,   \* bounds on the backoff
  LockTtl,     \* config.lockTtlSeconds
  JwtTtl,      \* JWT_TTL_SECONDS
  Refresh,     \* TOKEN_REFRESH_WINDOW_MS, in seconds
  JwtAges,     \* ages of the cached JWT when the Corpus calls begin
  Outages,     \* of each API: those considered, as [from, to) pairs
  Durations    \* of each API: how long an attempt can take

Apis == {"zyte", "corpus"}

ASSUME ApiAssumption ==
  /\ Timeout \in [Apis -> Nat \ {0}] /\ Retries \in [Apis -> Nat]
  /\ MinDelay \in [Apis -> Nat \ {0}] /\ MaxDelay \in [Apis -> Nat]
  /\ \A a \in Apis : MinDelay[a] <= MaxDelay[a]
  /\ JwtTtl \in Nat /\ Refresh \in 0..JwtTtl /\ JwtAges \subseteq Nat
  /\ LockTtl \in Nat
  /\ Outages \in [Apis -> SUBSET (Nat \X Nat)]
  /\ Durations \in [Apis -> SUBSET Nat]

VARIABLES
  outage,     \* of each API
  clock,
  api,        \* the API being called
  phase,      \* attempting, failed, waiting, done, rejected
  attempts,   \* made of this call
  delay,      \* pRetry's wait before the next one
  cause,      \* why the last one failed
  firstAt,    \* when the first one started
  sentAt,     \* when the last one started
  signedAt    \* when the cached JWT was signed; long ago if there is none

vars == <<outage, clock, api, phase, attempts, delay, cause, firstAt, sentAt, signedAt>>

(* Answers that fail an attempt.  brokenBody is a 200 whose body is not     *)
(* JSON; expired is the 401 for an expired JWT, rejected any other 4xx and  *)
(* a Corpus answer with GraphQL errors or without data.                     *)
Causes == {"timeout", "network", "429", "503", "502", "expired", "rejected", "brokenBody"}

TypeOK ==
  /\ outage \in [zyte: Outages["zyte"], corpus: Outages["corpus"]]
  /\ clock \in Nat /\ api \in Apis
  /\ phase \in {"attempt", "failed", "wait", "done", "rejected"}
  /\ attempts \in 1..Retries[api] + 1 /\ delay \in Nat
  /\ cause \in Causes \cup {"none", "noData"}
  /\ firstAt \in 0..clock /\ sentAt \in firstAt..clock
  /\ signedAt \in Int /\ signedAt <= clock

Init ==
  /\ outage \in [zyte: Outages["zyte"], corpus: Outages["corpus"]]
  /\ clock = 0 /\ api = "zyte" /\ phase = "attempt" /\ attempts = 1
  /\ delay = MinDelay["zyte"] /\ cause = "none" /\ firstAt = 0 /\ sentAt = 0 /\ signedAt = -JwtTtl

(* isRetryable of Zyte: timeouts, network errors and RETRYABLE_STATUS_CODES.*)
(* shouldRetry of the Corpus API: any 5xx, and whatever is no CorpusApiError.*)
Retryable ==
  [zyte |-> {"timeout", "network", "429", "503"},
   corpus |-> {"timeout", "network", "503", "502", "brokenBody"}]

(* pRetry doubles its wait, up to maxTimeout. *)
Double(a, wait) == IF 2 * wait > MaxDelay[a] THEN MaxDelay[a] ELSE 2 * wait

Down == outage[api][1] <= clock /\ clock < outage[api][2]

\* Mutant: a call fetches the JWT once, for all its attempts.
SignedOnce(cached, at) == IF phase = "wait" \/ at < cached + Refresh THEN cached ELSE at

(* getToken: the cached JWT within its refresh window, or a new one. *)
Token(cached, at) == IF at < cached + Refresh THEN cached ELSE at
-----------------------------------------------------------------------------
(* The requests that take d seconds and reach the API with a JWT in force,  *)
(* or with one that has expired on the way.                                 *)
InForce == api = "corpus" => sentAt < signedAt + JwtTtl
CanExpire(d) == api = "corpus" /\ sentAt + d >= signedAt + JwtTtl

(* An attempt is answered, ... *)
Answered(d) ==
  /\ phase = "attempt" /\ ~Down /\ d < Timeout[api] /\ InForce
  /\ clock' = clock + d
  /\ UNCHANGED <<outage, api, attempts, delay, firstAt, sentAt, signedAt>>

Answer(d) == Answered(d) /\ phase' = "done" /\ UNCHANGED cause

(* ... without an article, a list or an updated item, which throws outside  *)
(* pRetry, ...                                                              *)
AnswerNothing(d) == Answered(d) /\ phase' = "rejected" /\ cause' = "noData"

(* ... or fails: for as long as an outage lasts, or for good. *)
AttemptFails(d, why) ==
  /\ phase = "attempt"
  /\ Down <=> why \in Retryable[api]
  /\ IF why = "timeout" THEN d = Timeout[api] ELSE d < Timeout[api]
  /\ IF why = "expired" THEN CanExpire(d) ELSE Down \/ InForce
  /\ clock' = clock + d /\ cause' = why
  /\ phase' = "failed"
  /\ UNCHANGED <<outage, api, attempts, delay, firstAt, sentAt, signedAt>>

\* Mutants: one retry more, one less.
OneMore == attempts <= Retries[api] + 1
OneLess == attempts < Retries[api]

RetriesLeft == attempts <= Retries[api]

(* pRetry gives up, or waits before the next attempt. *)
AfterFailure ==
  /\ phase = "failed"
  /\ phase' = IF cause \in Retryable[api] /\ RetriesLeft THEN "wait" ELSE "rejected"
  /\ UNCHANGED <<outage, clock, api, attempts, delay, cause, firstAt, sentAt, signedAt>>

Retry ==
  /\ phase = "wait"
  /\ clock' = clock + delay /\ delay' = Double(api, delay)
  /\ attempts' = attempts + 1 /\ phase' = "attempt" /\ sentAt' = clock'
  /\ signedAt' = IF api = "corpus" THEN Token(signedAt, clock') ELSE signedAt
  /\ UNCHANGED <<outage, api, cause, firstAt>>

(* handleArticleExtraction: once extracted, detectAndSyncChanges of a live  *)
(* article that changed.  The process may have cached no JWT yet, or one of *)
(* some age.                                                                *)
SyncCorpus(cached) ==
  /\ phase = "done" /\ api = "zyte"
  /\ api' = "corpus" /\ attempts' = 1 /\ phase' = "attempt"
  /\ delay' = MinDelay["corpus"] /\ cause' = "none"
  /\ firstAt' = clock /\ sentAt' = clock
  /\ signedAt' = Token(cached, clock)
  /\ UNCHANGED <<outage, clock>>

Finished == phase \in {"done", "rejected"} /\ UNCHANGED vars

Next ==
  \/ \E d \in Durations[api] :
       Answer(d) \/ AnswerNothing(d) \/ \E why \in Causes : AttemptFails(d, why)
  \/ AfterFailure \/ Retry \/ Finished
  \/ \E age \in JwtAges : SyncCorpus(clock - age)

Spec == Init /\ [][Next]_vars
-----------------------------------------------------------------------------
(* Of each API, the wait after n retries and the sum of the waits before. *)
Backoff[n \in Nat] ==
  IF n = 0 THEN [a \in Apis |-> [wait |-> MinDelay[a], total |-> 0]]
  ELSE [a \in Apis |-> LET b == Backoff[n - 1][a] IN
          [wait |-> Double(a, b.wait), total |-> b.total + b.wait]]

BackoffTotal(a) == Backoff[Retries[a]][a].total

(* The longest that a call of an API can take: every attempt times out. *)
LongestCall(a) == (Retries[a] + 1) * Timeout[a] + BackoffTotal(a)

(* A job's calls end before its lock expires, however often they are        *)
(* retried (config.ts, MAX_JOB_SECONDS).                                    *)
CallsFitLock == clock < LockTtl

(* A call rides out an outage that ends within the backoff of its retries,  *)
(* so it fails only for good or in a longer outage: 14 s of Zyte, 30 s of   *)
(* the Corpus API.                                                          *)
ShortOutageRidden ==
  phase = "rejected" /\ cause \in Retryable[api] =>
    outage[api][2] - firstAt > BackoffTotal(api)

(* A request is refused for its JWT only if it was under way for longer     *)
(* than the margin of JWT_REFRESH_BUFFER, whatever attempts of its call and *)
(* whatever other jobs used the JWT before.                                 *)
TokenOutlivesTransit ==
  cause = "expired" => clock - sentAt >= JwtTtl - Refresh
=============================================================================
