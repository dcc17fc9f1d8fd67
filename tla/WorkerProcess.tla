---------------------------- MODULE WorkerProcess ----------------------------
(***************************************************************************)
(* The pods of one worker role (services/crawl-worker/src/main.ts): how a  *)
(* process comes up, consumes jobs with the clients of the packages, shuts *)
(* down on a signal, and is replaced by Kubernetes.  A job takes its Redis *)
(* lock, works and releases it, as both consumers do; what happens under   *)
(* the lock is in ArticleWorker and DiscoveryWorker.                       *)
(*                                                                         *)
(* The code up to an await is one step, and a Redis command that rejects   *)
(* may have been executed or not.  Jobs are of different URLs, and one     *)
(* delivery of a job runs at a time.                                       *)
(***************************************************************************)
EXTENDS Integers, FiniteSets, Sequences

CONSTANTS
  Pods, Jobs,
  ForceAfter,     \* SHUTDOWN_TIMEOUT_MS of main.ts
  DrainTimeout,   \* SHUTDOWN_TIMEOUT_SECONDS of the Pub/Sub client
  MaxMessages,    \* config.maxMessages
  MaxAttempts,    \* deliveries of a job before it is dead-lettered
  MaxSignals,     \* bound on signals
  MaxCrashes,     \* bound on other deaths
  NoPod

ASSUME TimeoutAssumption ==
  ForceAfter \in Nat /\ DrainTimeout \in Nat /\ ForceAfter < DrainTimeout
ASSUME ProcessAssumption ==
  /\ MaxMessages \in Nat /\ MaxAttempts \in Nat \ {0}
  /\ MaxSignals \in Nat /\ MaxCrashes \in Nat /\ NoPod \notin Pods

Clients == {"metrics", "sentry", "zyte", "pubsub", "redis", "corpus"}
Settings == {"environment", "workerRole", "metricsEndpoint", "zyteApiKey", "redisHost", "jwkJson"}

VARIABLES
  role,         \* config.workerRole of the deployment
  unset,        \* settings the deployment does not give
  state,        \* of each pod
  step,         \* of its shutdown: the one under way, of ShutdownSteps
  ready,        \* its clients that are initialised and not shut down
  timer,        \* time since its forced exit was set, or -1
  drain,        \* time since its subscription was closed, or -1
  lost,         \* pods whose subscription a stream error closed, or whose
                \* close() threw
  job,          \* of each job: queued, leased, acked or dead
  attempts,     \* deliveries of it
  work,         \* its handler: on which pod, and where
  lock,         \* the pod that holds the lock of its URL
  left,         \* history: jobs whose lock a fault has left behind
  signals, crashes

deployment == <<role, unset>>
process == <<state, step, ready, timer, drain, lost>>
jobs == <<job, attempts, work, lock, left>>
vars == <<deployment, process, jobs, signals, crashes>>

\* Mutant: Redis is closed first.
QuitFirst == <<"quit", "drain", "close", "flush">>

(* The awaits of shutdown: shutdownPubSub drains, then closes its client;   *)
(* shutdownRedis quits; then metrics and Sentry are flushed at once.  A     *)
(* step drops its client when it starts.                                    *)
ShutdownSteps == <<"drain", "close", "quit", "flush">>

Drops ==
  [drain |-> {}, close |-> {"pubsub"}, quit |-> {"redis"}, flush |-> {"metrics", "sentry"}]

TypeOK ==
  /\ role \in {"article", "discovery"} /\ unset \subseteq Settings
  /\ state \in [Pods -> {"off", "starting", "up", "closing", "stopping", "stuck"}]
  /\ step \in [Pods -> 0..Len(ShutdownSteps)]
  /\ ready \in [Pods -> SUBSET Clients]
  /\ timer \in [Pods -> -1..ForceAfter] /\ drain \in [Pods -> -1..ForceAfter]
  /\ lost \subseteq Pods
  /\ job \in [Jobs -> {"queued", "leased", "acked", "dead"}]
  /\ attempts \in [Jobs -> 0..MaxAttempts]
  /\ work \in [Jobs -> [pod: Pods \cup {NoPod}, at: {"none", "received", "locked", "done", "failed"}]]
  /\ lock \in [Jobs -> Pods \cup {NoPod}]
  /\ left \subseteq Jobs
  /\ signals \in 0..MaxSignals /\ crashes \in 0..MaxCrashes

NoWork == [pod |-> NoPod, at |-> "none"]

Init ==
  /\ role \in {"article", "discovery"}
  /\ unset \in {{}} \cup {{s} : s \in Settings}
  /\ state = [p \in Pods |-> "off"] /\ step = [p \in Pods |-> 0]
  /\ ready = [p \in Pods |-> {}]
  /\ timer = [p \in Pods |-> -1] /\ drain = [p \in Pods |-> -1] /\ lost = {}
  /\ job = [j \in Jobs |-> "queued"] /\ attempts = [j \in Jobs |-> 0]
  /\ work = [j \in Jobs |-> NoWork] /\ lock = [j \in Jobs |-> NoPod]
  /\ left = {} /\ signals = 0 /\ crashes = 0
-----------------------------------------------------------------------------
(* The clients a handler of the role calls or reports to. *)
Needed ==
  {"sentry", "zyte", "pubsub", "redis"}
    \cup (IF role = "article" THEN {"corpus"} ELSE {})
    \cup (IF "metricsEndpoint" \in unset THEN {} ELSE {"metrics"})

RunsOn(j, p) == work[j].pod = p
Handlers(p) == {j \in Jobs : RunsOn(j, p)}

(* The subscription is open from startArticleConsumer or                    *)
(* startDiscoveryConsumer until shutdownPubSub closes it, so while the      *)
(* server closes jobs still arrive, or until a stream error does.           *)
Consuming(p) ==
  /\ p \notin lost
  /\ \/ state[p] \in {"up", "closing"}
     \/ state[p] = "stopping" /\ \A k \in 1..step[p] : ShutdownSteps[k] # "drain"

Draining(p) == state[p] = "stopping" /\ ShutdownSteps[step[p]] = "drain"

\* Mutant: a job is never dead-lettered.
AlwaysQueued(j) == "queued"

(* Pub/Sub delivers a job again until its attempts are used up. *)
Returned(j) == IF attempts[j] = MaxAttempts THEN "dead" ELSE "queued"

(* The process is gone, with its handlers. *)
Dies(p) ==
  /\ state' = [state EXCEPT ![p] = "off"] /\ step' = [step EXCEPT ![p] = 0]
  /\ ready' = [ready EXCEPT ![p] = {}]
  /\ timer' = [timer EXCEPT ![p] = -1] /\ drain' = [drain EXCEPT ![p] = -1]
  /\ job' = [j \in Jobs |-> IF RunsOn(j, p) THEN Returned(j) ELSE job[j]]
  /\ work' = [j \in Jobs |-> IF RunsOn(j, p) THEN NoWork ELSE work[j]]
  /\ lost' = lost \ {p}
  /\ left' = left \cup {j \in Handlers(p) : work[j].at # "received"}
  /\ UNCHANGED <<deployment, attempts, lock>>
-----------------------------------------------------------------------------
(* Kubernetes starts the process: config.ts checks the environment and the  *)
(* role, and the clients check their own settings; a missing one throws at  *)
(* the top level and the process exits.  The discovery worker has no await  *)
(* on its way to the signal handlers.                                       *)
StartPod(p) ==
  /\ state[p] = "off"
  /\ unset \cap {"environment", "workerRole", "zyteApiKey", "redisHost"} = {}
  /\ state' = [state EXCEPT ![p] = IF role = "article" THEN "starting" ELSE "up"]
  /\ ready' = [ready EXCEPT ![p] = Needed \ {"corpus"}]
  /\ UNCHANGED <<deployment, step, timer, drain, lost, jobs, signals, crashes>>

(* initCorpusApiClient has imported the key; consumer and signal handlers   *)
(* follow at once.  Without a key it throws.                                *)
CorpusReady(p) ==
  /\ state[p] = "starting"
  /\ IF "jwkJson" \in unset
     THEN Dies(p)
     ELSE /\ state' = [state EXCEPT ![p] = "up"]
          /\ ready' = [ready EXCEPT ![p] = @ \cup {"corpus"}]
          /\ UNCHANGED <<deployment, step, timer, drain, lost, jobs>>
  /\ UNCHANGED <<signals, crashes>>
-----------------------------------------------------------------------------
(* The subscription fails: an error that the SDK does not retry closes it,  *)
(* or its close() throws.  No job arrives any more, and stop() does not     *)
(* wait: close() of a closed subscription returns at once, and what it      *)
(* throws is caught.                                                        *)
SubscriptionFails(p) ==
  /\ Consuming(p) \/ Draining(p)
  /\ lost' = lost \cup {p}
  /\ UNCHANGED <<deployment, state, step, ready, timer, drain, jobs, signals, crashes>>

Receive(p, j) ==
  /\ Consuming(p) /\ job[j] = "queued"
  /\ Cardinality(Handlers(p)) < MaxMessages
  /\ job' = [job EXCEPT ![j] = "leased"]
  /\ attempts' = [attempts EXCEPT ![j] = @ + 1]
  /\ work' = [work EXCEPT ![j] = [pod |-> p, at |-> "received"]]
  /\ UNCHANGED <<deployment, process, lock, left, signals, crashes>>

\* Mutant: a message whose handler rejects is not nacked.
AckOnly(j, verdict) == IF verdict = "ack" THEN {"acked", Returned(j)} ELSE {job[j]}

(* processMessage: ack when the handler resolves, nack when it rejects.  An *)
(* ack may be lost.                                                         *)
Settled(j, verdict) == (IF verdict = "ack" THEN {"acked"} ELSE {}) \cup {Returned(j)}

Ends(j, verdict) ==
  /\ \E s \in Settled(j, verdict) : job' = [job EXCEPT ![j] = s]
  /\ work' = [work EXCEPT ![j] = NoWork]

HasRedis(j) == "redis" \in ready[work[j].pod]

(* acquireRedisKeyLockToken.  A taken lock ends the handler; without a      *)
(* client the call throws.  A SET NX whose answer is late leaves a lock     *)
(* that nobody holds: it rejects, or ioredis sends it again after a         *)
(* reconnect and it finds the lock it has set.                              *)
TakeLock(j) ==
  /\ work[j].at = "received"
  /\ \/ /\ HasRedis(j) /\ lock[j] = NoPod
        /\ lock' = [lock EXCEPT ![j] = work[j].pod]
        /\ \/ work' = [work EXCEPT ![j].at = "locked"] /\ UNCHANGED <<job, left>>
           \/ left' = left \cup {j} /\ \E verdict \in {"ack", "nack"} : Ends(j, verdict)
     \/ /\ HasRedis(j) /\ lock[j] # NoPod
        /\ Ends(j, "ack") /\ UNCHANGED <<lock, left>>
     \/ Ends(j, "nack") /\ UNCHANGED <<lock, left>>
  /\ UNCHANGED <<deployment, process, attempts, signals, crashes>>

(* The work under the lock succeeds, or a call of it throws. *)
WorkEnds(j) ==
  /\ work[j].at = "locked"
  /\ \E at \in {"done", "failed"} : work' = [work EXCEPT ![j].at = at]
  /\ UNCHANGED <<deployment, process, job, attempts, lock, left, signals, crashes>>

\* Mutant: the lock is released after the work instead of in a finally.
ReleasesDone(j) ==
  IF work[j].at = "failed" THEN {"kept"}
  ELSE IF HasRedis(j) THEN {"deleted", "rejected"} ELSE {"noClient"}

(* What becomes of releaseRedisKeyLock.  Without a client it throws. *)
Releases(j) == IF HasRedis(j) THEN {"deleted", "rejected"} ELSE {"noClient"}

(* The finally block, which only logs that the release failed;              *)
(* withSentryHandler captures what the handler throws, and the message is   *)
(* settled.  That the client is gone is a fault only if the drain did not   *)
(* wait for the handler.                                                    *)
Release(j) ==
  /\ work[j].at \in {"done", "failed"}
  /\ \E outcome \in Releases(j) :
       /\ lock' = IF outcome = "deleted" THEN [lock EXCEPT ![j] = NoPod] ELSE lock
       /\ left' = IF outcome = "rejected" \/ (outcome = "noClient" /\ work[j].pod \in lost)
                  THEN left \cup {j} ELSE left
  /\ Ends(j, IF work[j].at = "done" THEN "ack" ELSE "nack")
  /\ UNCHANGED <<deployment, process, attempts, signals, crashes>>

(* A lock that nobody holds expires. *)
LockExpires(j) ==
  /\ lock[j] # NoPod /\ work[j].at \in {"none", "received"}
  /\ lock' = [lock EXCEPT ![j] = NoPod]
  /\ left' = left \ {j}
  /\ UNCHANGED <<deployment, process, job, attempts, work, signals, crashes>>
-----------------------------------------------------------------------------
\* Mutant: the forced exit is set once the server has closed.
SetWhenClosed(from) == from = "closed"

(* shutdown sets the timer of the forced exit before it returns. *)
SetsTimer(from) == from = "signal"

(* SIGTERM or SIGINT; shutdown has the server close.  Before the handlers   *)
(* are registered, and once shutdown has removed them, a signal kills.      *)
Signal(p) ==
  /\ state[p] # "off" /\ signals < MaxSignals
  /\ signals' = signals + 1
  /\ IF state[p] = "up"
     THEN /\ state' = [state EXCEPT ![p] = "closing"]
          /\ timer' = IF SetsTimer("signal") THEN [timer EXCEPT ![p] = 0] ELSE timer
          /\ UNCHANGED <<deployment, step, ready, drain, lost, jobs>>
     ELSE Dies(p)
  /\ UNCHANGED crashes

(* The n-th await of shutdown begins. *)
BeginStep(p, n) ==
  /\ step' = [step EXCEPT ![p] = n]
  /\ ready' = [ready EXCEPT ![p] = @ \ Drops[ShutdownSteps[n]]]
  /\ drain' = IF ShutdownSteps[n] = "drain" THEN [drain EXCEPT ![p] = 0] ELSE drain

(* The callback of server.close, which a lingering connection can hold up. *)
ServerClosed(p) ==
  /\ state[p] = "closing"
  /\ state' = [state EXCEPT ![p] = "stopping"]
  /\ timer' = IF SetsTimer("closed") THEN [timer EXCEPT ![p] = 0] ELSE timer
  /\ BeginStep(p, 1)
  /\ UNCHANGED <<deployment, lost, jobs, signals, crashes>>

(* A drain ends when the handlers have, at its timeout, or at any time once *)
(* the subscription has failed.                                             *)
CanEnd(p) ==
  Draining(p) => Handlers(p) = {} \/ drain[p] >= DrainTimeout \/ p \in lost

(* An await of shutdown resolves; after the last the process exits with 0. *)
StepEnds(p) ==
  /\ state[p] = "stopping" /\ CanEnd(p)
  /\ IF step[p] = Len(ShutdownSteps)
     THEN Dies(p)
     ELSE BeginStep(p, step[p] + 1) /\ UNCHANGED <<deployment, state, timer, lost, jobs>>
  /\ UNCHANGED <<signals, crashes>>

(* Flushing topics, closing the client or quitting Redis rejects: the rest  *)
(* of the callback is not run.  Sentry, given a DSN, only reports the       *)
(* rejection; without one Node exits.  Nothing else rejects.                *)
StepRejects(p) ==
  /\ state[p] = "stopping" /\ ShutdownSteps[step[p]] \in {"close", "quit"}
  /\ \/ /\ state' = [state EXCEPT ![p] = "stuck"]
        /\ UNCHANGED <<deployment, step, ready, timer, drain, lost, jobs>>
     \/ Dies(p)
  /\ UNCHANGED <<signals, crashes>>

ForceExit(p) == timer[p] = ForceAfter /\ Dies(p) /\ UNCHANGED <<signals, crashes>>

(* The node fails, or the process runs out of memory. *)
Crash(p) ==
  /\ state[p] # "off" /\ crashes < MaxCrashes
  /\ crashes' = crashes + 1
  /\ Dies(p) /\ UNCHANGED signals

(* Time passes where a timer runs; none is overdue. *)
Tick ==
  /\ \E p \in Pods : timer[p] # -1
  /\ \A p \in Pods : timer[p] < ForceAfter
  /\ timer' = [p \in Pods |-> IF timer[p] = -1 THEN -1 ELSE timer[p] + 1]
  /\ drain' = [p \in Pods |-> IF drain[p] = -1 THEN -1 ELSE drain[p] + 1]
  /\ UNCHANGED <<deployment, state, step, ready, lost, jobs, signals, crashes>>

Next ==
  \/ \E p \in Pods :
       \/ StartPod(p) \/ CorpusReady(p) \/ \E j \in Jobs : Receive(p, j)
       \/ Signal(p) \/ ServerClosed(p) \/ StepEnds(p) \/ StepRejects(p)
       \/ ForceExit(p) \/ Crash(p) \/ SubscriptionFails(p)
  \/ \E j \in Jobs : TakeLock(j) \/ WorkEnds(j) \/ Release(j) \/ LockExpires(j)
  \/ Tick

Spec == Init /\ [][Next]_vars

(* Kubernetes restarts what has exited, every call of a handler has a       *)
(* timeout, Pub/Sub delivers, and timers fire.  The server and the awaits   *)
(* of a shutdown may take for ever.                                         *)
FairSpec ==
  /\ Spec /\ WF_vars(Tick)
  /\ \A p \in Pods :
       /\ WF_vars(StartPod(p)) /\ WF_vars(CorpusReady(p)) /\ WF_vars(ForceExit(p))
  /\ \A j \in Jobs :
       /\ WF_vars(TakeLock(j)) /\ WF_vars(WorkEnds(j)) /\ WF_vars(Release(j))
       /\ WF_vars(\E p \in Pods : Receive(p, j))
-----------------------------------------------------------------------------
(* A handler runs without a client it calls or reports to only after a      *)
(* drain that did not wait for it because the subscription had failed: none *)
(* runs before the process is ready, and no other shutdown drops a client   *)
(* under a handler, since the forced exit comes before the drain gives up.  *)
ReadyWhileWorking ==
  \A j \in Jobs, p \in Pods :
    RunsOn(j, p) => Needed \subseteq ready[p] \/ (p \in lost /\ step[p] > 1)

(* A lock that nobody works under was left by a fault: a death under it, a  *)
(* SET NX or a release that failed, or a release after a drain that did not *)
(* wait.  Neither a failing handler nor an orderly shutdown leaves one.     *)
LockLeftOnlyByFault ==
  \A j \in Jobs : lock[j] # NoPod =>
    \/ j \in left
    \/ RunsOn(j, lock[j]) /\ work[j].at \notin {"none", "received"}

(* A signalled process ends, whatever hangs. *)
ShutdownEnds == \A p \in Pods : state[p] = "closing" ~> state[p] = "off"

(* Every job ends acked or dead-lettered, whatever restarts the pods,       *)
(* unless in the end every pod is up with a subscription that has failed,   *)
(* which nothing in the code notices.                                       *)
EveryJobSettles ==
  (unset \subseteq {"metricsEndpoint"}) =>
    \A j \in Jobs :
      \/ <>(job[j] \in {"acked", "dead"})
      \/ <>[](\A p \in Pods : state[p] = "up" /\ p \in lost)
=============================================================================
