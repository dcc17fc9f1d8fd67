------------------------ MODULE WorkerProcessProofs ------------------------
(***************************************************************************)
(* Proofs about WorkerProcess: type correctness, that handlers run without *)
(* their clients only after a drain of a failed subscription, and that     *)
(* locks are left only by faults.                                          *)
(***************************************************************************)
EXTENDS WorkerProcess, TLAPS

(* What the state of a pod says about its handlers, clients and timers: the *)
(* drain, which starts after the timer of the forced exit, never reaches    *)
(* its timeout, so that it outlives handlers unless the subscription        *)
(* failed.                                                                  *)
PodSane(p) ==
  /\ state[p] \in {"off", "starting"} =>
       step[p] = 0 /\ timer[p] = -1 /\ drain[p] = -1 /\ \A j \in Jobs : work[j].pod # p
  /\ state[p] \in {"up", "closing"} =>
       step[p] = 0 /\ drain[p] = -1 /\ Needed \subseteq ready[p]
  /\ state[p] = "starting" => Needed \ {"corpus"} \subseteq ready[p] /\ role = "article"
  /\ state[p] \in {"closing", "stopping", "stuck"} => timer[p] >= 0
  /\ state[p] \in {"stopping", "stuck"} =>
       /\ step[p] >= 1
       /\ step[p] = 1 => Needed \subseteq ready[p]
       /\ step[p] # 1 => p \in lost \/ \A j \in Jobs : work[j].pod # p
  /\ drain[p] <= timer[p]

Lifecycle == \A p \in Pods : PodSane(p)

(* A job that is queued has deliveries left; a lease has a handler, which   *)
(* holds its lock while it works; any other lock is left by a fault.        *)
JobSane(j) ==
  /\ job[j] = "queued" => attempts[j] < MaxAttempts
  /\ job[j] = "leased" <=> work[j] # NoWork
  /\ work[j].at = "none" <=> work[j].pod = NoPod
  /\ work[j].at \in {"locked", "done", "failed"} => lock[j] = work[j].pod
  /\ lock[j] # NoPod =>
       j \in left \/ (work[j].pod = lock[j] /\ work[j].at \notin {"none", "received"})

IInv == TypeOK /\ Lifecycle /\ \A j \in Jobs : JobSane(j)
-----------------------------------------------------------------------------
LEMMA Steps ==
  /\ Len(ShutdownSteps) = 4
  /\ ShutdownSteps[1] = "drain" /\ ShutdownSteps[2] = "close"
  /\ ShutdownSteps[3] = "quit" /\ ShutdownSteps[4] = "flush"
BY DEF ShutdownSteps

(* While the deployment stays, so do the clients its handlers need. *)
LEMMA NeededStays == UNCHANGED deployment => Needed' = Needed
BY DEF deployment, Needed

(* Everything but the deaths: a step that disturbs one pod or one job.      *)
LEMMA InitHolds == Init => IInv
<1> SUFFICES ASSUME Init PROVE IInv
  OBVIOUS
<1>1. TypeOK
  BY Steps, TimeoutAssumption, ProcessAssumption DEF Init, TypeOK, NoWork
<1>2. Lifecycle
  BY ProcessAssumption DEF Init, Lifecycle, PodSane, NoWork
<1>3. \A j \in Jobs : JobSane(j)
  BY ProcessAssumption DEF Init, JobSane, NoWork
<1> QED BY <1>1, <1>2, <1>3 DEF IInv

LEMMA DeathKeeps ==
  ASSUME NEW p \in Pods, IInv, Dies(p), signals' \in 0..MaxSignals, crashes' \in 0..MaxCrashes
  PROVE  IInv'
<1> USE DEF IInv
<1>1. Needed' = Needed /\ role' = role /\ unset' = unset /\ attempts' = attempts /\ lock' = lock
  BY NeededStays DEF Dies, deployment
<1>2. \A j \in Jobs : Returned(j) = IF attempts[j] = MaxAttempts THEN "dead" ELSE "queued"
  BY DEF Returned
<1>3. /\ work' = [j \in Jobs |-> IF RunsOn(j, p) THEN NoWork ELSE work[j]]
      /\ job' = [j \in Jobs |-> IF RunsOn(j, p) THEN Returned(j) ELSE job[j]]
      /\ left' = left \cup {j \in Handlers(p) : work[j].at # "received"}
  BY DEF Dies
<1>4. TypeOK'
  <2>1. state' \in [Pods -> {"off", "starting", "up", "closing", "stopping", "stuck"}]
    BY DEF Dies, TypeOK
  <2>2. step' \in [Pods -> 0..Len(ShutdownSteps)] /\ ready' \in [Pods -> SUBSET Clients]
    BY Steps DEF Dies, TypeOK
  <2>3. timer' \in [Pods -> -1..ForceAfter] /\ drain' \in [Pods -> -1..ForceAfter]
    BY TimeoutAssumption DEF Dies, TypeOK
  <2>4. job' \in [Jobs -> {"queued", "leased", "acked", "dead"}]
    BY <1>2, <1>3 DEF TypeOK
  <2>5. work' \in [Jobs -> [pod: Pods \cup {NoPod}, at: {"none", "received", "locked", "done", "failed"}]]
    BY <1>3 DEF TypeOK, NoWork
  <2>6. left' \subseteq Jobs /\ lost' \subseteq Pods
    BY <1>3 DEF Dies, TypeOK, Handlers
  <2> QED BY <1>1, <2>1, <2>2, <2>3, <2>4, <2>5, <2>6 DEF TypeOK
<1>5. Lifecycle'
  <2> SUFFICES ASSUME NEW q \in Pods PROVE PodSane(q)'
    BY DEF Lifecycle
  <2>1. PodSane(q)
    BY DEF Lifecycle
  <2>2. \A j \in Jobs : work'[j].pod # p /\ (work[j].pod # q => work'[j].pod # q)
    BY <1>3, ProcessAssumption DEF RunsOn, NoWork
  <2>3. CASE q = p
    BY <2>1, <2>2, <2>3 DEF Dies, PodSane, TypeOK
  <2>4. CASE q # p
    <3>1. /\ state'[q] = state[q] /\ step'[q] = step[q] /\ ready'[q] = ready[q]
          /\ timer'[q] = timer[q] /\ drain'[q] = drain[q] /\ (q \in lost => q \in lost')
      BY <2>1, <2>4 DEF Dies, TypeOK
    <3> QED BY <2>1, <2>2, <3>1, <1>1 DEF PodSane
  <2> QED BY <2>3, <2>4
<1>6. \A j \in Jobs : work'[j] = IF work[j].pod = p THEN NoWork ELSE work[j]
  BY <1>3 DEF RunsOn
<1>7. ASSUME NEW j \in Jobs PROVE JobSane(j)'
  <2>1. CASE work[j].pod = p
    <3>1. job'[j] = Returned(j) /\ work'[j] = NoWork
      BY <1>3, <1>6, <2>1 DEF RunsOn
    <3>2. attempts[j] \in Nat /\ attempts[j] <= MaxAttempts /\ MaxAttempts \in Nat
      BY ProcessAssumption DEF TypeOK
    <3>3. lock[j] # NoPod => j \in left'
      BY <1>3, <2>1 DEF JobSane, Handlers, RunsOn
    <3> QED BY <3>1, <3>2, <3>3, <1>1, <1>2 DEF JobSane, NoWork
  <2>2. CASE work[j].pod # p
    <3>1. job'[j] = job[j] /\ work'[j] = work[j] /\ (j \in left => j \in left')
      BY <1>3, <1>6, <2>2 DEF RunsOn
    <3> QED BY <3>1, <1>1 DEF JobSane
  <2> QED BY <2>1, <2>2
<1> QED BY <1>4, <1>5, <1>7

(* A step of the life of one pod, which keeps its handlers. *)
LEMMA PodStep ==
  ASSUME NEW p \in Pods, IInv, UNCHANGED <<deployment, jobs>>, TypeOK', PodSane(p)',
         \A q \in Pods \ {p} :
           /\ state'[q] = state[q] /\ step'[q] = step[q] /\ ready'[q] = ready[q]
           /\ timer'[q] = timer[q] /\ drain'[q] = drain[q] /\ (q \in lost => q \in lost')
  PROVE  IInv'
<1>1. Needed' = Needed /\ role' = role
  BY NeededStays DEF deployment
<1>2. work' = work /\ job' = job /\ attempts' = attempts /\ lock' = lock /\ left' = left
  BY DEF jobs
<1>3. ASSUME NEW q \in Pods PROVE PodSane(q)'
  BY <1>1, <1>2, <1>3 DEF IInv, Lifecycle, PodSane
<1>4. \A j \in Jobs : JobSane(j)'
  BY <1>2 DEF IInv, JobSane
<1> QED BY <1>3, <1>4 DEF IInv, Lifecycle

(* A step of one job, whose handler stays where it is, ends, or starts on a *)
(* pod that consumes.                                                       *)
LEMMA JobStep ==
  ASSUME NEW j \in Jobs, IInv, UNCHANGED <<deployment, process>>, TypeOK', JobSane(j)',
         \/ work'[j].pod \in {NoPod, work[j].pod}
         \/ work'[j].pod \in Pods /\ Consuming(work'[j].pod),
         \A i \in Jobs \ {j} :
           /\ job'[i] = job[i] /\ attempts'[i] = attempts[i] /\ work'[i] = work[i]
           /\ lock'[i] = lock[i] /\ (i \in left => i \in left')
  PROVE  IInv'
<1>1. Needed' = Needed /\ role' = role
  BY NeededStays DEF deployment
<1>2. /\ state' = state /\ step' = step /\ ready' = ready
      /\ timer' = timer /\ drain' = drain /\ lost' = lost
  BY DEF process
<1>3. ASSUME NEW q \in Pods PROVE PodSane(q)'
  <2>1. PodSane(q)
    BY DEF IInv, Lifecycle
  <2>2. CASE work'[j].pod = q /\ Consuming(q)
    <3>1. state[q] \in {"up", "closing", "stopping"}
      BY <2>2 DEF Consuming
    <3>2. state[q] = "stopping" => step[q] = 1
      <4>1. step[q] \in 0..4
        BY Steps DEF IInv, TypeOK
      <4> QED BY <2>1, <2>2, <4>1, Steps DEF Consuming, PodSane
    <3> QED BY <2>1, <3>1, <3>2, <1>1, <1>2 DEF PodSane
  <2>3. CASE ~(work'[j].pod = q /\ Consuming(q))
    <3>1. work'[j].pod = q => work[j].pod = q
      BY <2>3, ProcessAssumption
    <3>2. \A i \in Jobs : work'[i].pod = q => work[i].pod = q
      BY <3>1
    <3> QED BY <2>1, <3>2, <1>1, <1>2 DEF PodSane
  <2> QED BY <2>2, <2>3
<1>4. ASSUME NEW i \in Jobs PROVE JobSane(i)'
  BY <1>4 DEF IInv, JobSane
<1> QED BY <1>3, <1>4 DEF IInv, Lifecycle
-----------------------------------------------------------------------------
(* The steps of a pod. *)
LEMMA PodNext ==
  ASSUME NEW p \in Pods, IInv,
         StartPod(p) \/ CorpusReady(p) \/ Signal(p) \/ ServerClosed(p) \/ StepEnds(p)
           \/ StepRejects(p) \/ ForceExit(p) \/ Crash(p) \/ SubscriptionFails(p)
  PROVE  IInv'
<1>0. TypeOK /\ PodSane(p)
  BY DEF IInv, Lifecycle
<1>2. Needed \subseteq Clients /\ (role = "discovery" => "corpus" \notin Needed)
  BY <1>0 DEF Needed, Clients, TypeOK
<1>3. CASE StartPod(p)
  <2>1. TypeOK'
    BY <1>0, <1>2, <1>3 DEF StartPod, TypeOK, deployment, jobs
  <2>2. PodSane(p)'
    BY <1>0, <1>2, <1>3, NeededStays DEF StartPod, PodSane, TypeOK, deployment, jobs
  <2> QED BY <2>1, <2>2, <1>3, <1>0, PodStep DEF StartPod, TypeOK
<1>4. CASE CorpusReady(p)
  <2>1. CASE Dies(p)
    BY <2>1, <1>4, <1>0, DeathKeeps DEF CorpusReady, TypeOK
  <2>2. CASE ~Dies(p)
    <3>1. /\ state[p] = "starting" /\ UNCHANGED <<deployment, step, timer, drain, lost, jobs, signals, crashes>>
          /\ state' = [state EXCEPT ![p] = "up"] /\ ready' = [ready EXCEPT ![p] = @ \cup {"corpus"}]
      BY <2>2, <1>4 DEF CorpusReady
    <3>2. TypeOK'
      BY <1>0, <3>1 DEF TypeOK, deployment, jobs, Clients
    <3>3. PodSane(p)'
      BY <1>0, <3>1, NeededStays DEF PodSane, TypeOK, deployment, jobs
    <3> QED BY <3>1, <3>2, <3>3, <1>0, PodStep DEF TypeOK
  <2> QED BY <2>1, <2>2
<1>5. CASE Signal(p)
  <2>1. signals' \in 0..MaxSignals /\ crashes' \in 0..MaxCrashes
    BY <1>0, <1>5, ProcessAssumption DEF Signal, TypeOK
  <2>2. CASE state[p] # "up"
    BY <2>1, <2>2, <1>5, DeathKeeps DEF Signal
  <2>3. CASE state[p] = "up"
    <3>1. /\ state' = [state EXCEPT ![p] = "closing"] /\ timer' = [timer EXCEPT ![p] = 0]
          /\ UNCHANGED <<deployment, step, ready, drain, lost, jobs>>
      BY <2>3, <1>5 DEF Signal, SetsTimer
    <3>2. TypeOK'
      BY <1>0, <2>1, <3>1, TimeoutAssumption DEF TypeOK, deployment, jobs
    <3>3. PodSane(p)'
      BY <1>0, <2>3, <3>1, NeededStays DEF PodSane, TypeOK, deployment, jobs
    <3> QED BY <3>1, <3>2, <3>3, <1>0, PodStep DEF TypeOK
  <2> QED BY <2>2, <2>3
<1>6. CASE ServerClosed(p)
  <2>1. /\ state[p] = "closing" /\ state' = [state EXCEPT ![p] = "stopping"] /\ timer' = timer
        /\ step' = [step EXCEPT ![p] = 1] /\ ready' = [ready EXCEPT ![p] = @ \ {}]
        /\ drain' = [drain EXCEPT ![p] = 0]
        /\ UNCHANGED <<deployment, lost, jobs, signals, crashes>>
    BY <1>6, Steps DEF ServerClosed, BeginStep, SetsTimer, Drops
  <2>2. TypeOK'
    BY <1>0, <2>1, Steps, TimeoutAssumption DEF TypeOK, deployment, jobs
  <2>3. PodSane(p)'
    BY <1>0, <2>1, NeededStays DEF PodSane, TypeOK, deployment, jobs
  <2> QED BY <2>1, <2>2, <2>3, <1>0, PodStep DEF TypeOK
<1>7. CASE StepEnds(p)
  <2>1. state[p] = "stopping" /\ CanEnd(p) /\ signals' = signals /\ crashes' = crashes
    BY <1>7 DEF StepEnds
  <2>2. step[p] \in 1..4 /\ timer[p] <= ForceAfter /\ timer[p] \in Int /\ drain[p] \in Int
    BY <1>0, <2>1, Steps DEF TypeOK, PodSane
  <2>3. CASE step[p] = 4
    BY <2>1, <2>3, <1>7, <1>0, Steps, DeathKeeps DEF StepEnds, TypeOK
  <2>4. CASE step[p] # 4
    <3>1. /\ BeginStep(p, step[p] + 1)
          /\ UNCHANGED <<deployment, state, timer, lost, jobs, signals, crashes>>
      BY <2>4, <1>7, Steps DEF StepEnds
    <3>2. /\ step' = [step EXCEPT ![p] = step[p] + 1] /\ step[p] + 1 \in 2..4
          /\ ready' = [ready EXCEPT ![p] = @ \ Drops[ShutdownSteps[step[p] + 1]]]
          /\ drain' = drain
      BY <3>1, <2>2, <2>4, Steps DEF BeginStep
    <3>3. TypeOK'
      BY <1>0, <3>1, <3>2, Steps DEF TypeOK, deployment, jobs
    <3>4. p \in lost \/ \A j \in Jobs : work[j].pod # p
      <4>1. CASE step[p] = 1
        <5>1. drain[p] < DrainTimeout
          BY <1>0, <2>2, TimeoutAssumption DEF PodSane
        <5> QED BY <4>1, <5>1, <2>1, <2>2, Steps, TimeoutAssumption DEF CanEnd, Draining, Handlers, RunsOn
      <4>2. CASE step[p] # 1
        BY <4>2, <2>1, <1>0 DEF PodSane
      <4> QED BY <4>1, <4>2
    <3>5. PodSane(p)'
      BY <1>0, <2>1, <2>2, <3>1, <3>2, <3>4, NeededStays DEF PodSane, TypeOK, deployment, jobs
    <3> QED BY <3>1, <3>2, <3>3, <3>5, <1>0, PodStep DEF TypeOK
  <2> QED BY <2>3, <2>4
<1>8. CASE StepRejects(p)
  <2>1. CASE Dies(p)
    BY <2>1, <1>8, <1>0, DeathKeeps DEF StepRejects, TypeOK
  <2>2. CASE ~Dies(p)
    <3>1. /\ state[p] = "stopping" /\ state' = [state EXCEPT ![p] = "stuck"]
          /\ UNCHANGED <<deployment, step, ready, timer, drain, lost, jobs, signals, crashes>>
      BY <2>2, <1>8 DEF StepRejects
    <3>2. TypeOK'
      BY <1>0, <3>1 DEF TypeOK, deployment, jobs
    <3>3. PodSane(p)'
      BY <1>0, <3>1, NeededStays DEF PodSane, TypeOK, deployment, jobs
    <3> QED BY <3>1, <3>2, <3>3, <1>0, PodStep DEF TypeOK
  <2> QED BY <2>1, <2>2
<1>9. CASE ForceExit(p) \/ Crash(p)
  <2>1. Dies(p) /\ signals' \in 0..MaxSignals /\ crashes' \in 0..MaxCrashes
    BY <1>9, <1>0, ProcessAssumption DEF ForceExit, Crash, TypeOK
  <2> QED BY <2>1, DeathKeeps
<1>10. CASE SubscriptionFails(p)
  <2>1. lost' = lost \cup {p} /\ UNCHANGED <<deployment, state, step, ready, timer, drain, jobs, signals, crashes>>
    BY <1>10 DEF SubscriptionFails
  <2>2. TypeOK'
    BY <1>0, <2>1 DEF TypeOK, deployment, jobs
  <2>3. PodSane(p)'
    BY <1>0, <2>1, NeededStays DEF PodSane, deployment, jobs
  <2> QED BY <2>1, <2>2, <2>3, PodStep
<1> QED BY <1>3, <1>4, <1>5, <1>6, <1>7, <1>8, <1>9, <1>10

(* A handler runs with the clients it needs, or was given up on. *)
LEMMA Equipped == IInv => ReadyWhileWorking
<1> SUFFICES ASSUME IInv, NEW j \in Jobs, NEW p \in Pods, RunsOn(j, p)
             PROVE  Needed \subseteq ready[p] \/ (p \in lost /\ step[p] > 1)
  BY DEF ReadyWhileWorking
<1>0. step[p] \in 0..4
  BY Steps DEF IInv, TypeOK
<1>1. PodSane(p) /\ work[j].pod = p /\ state[p] \in {"off", "starting", "up", "closing", "stopping", "stuck"}
  BY DEF IInv, Lifecycle, RunsOn, TypeOK
<1> QED BY <1>0, <1>1 DEF PodSane

(* The steps of a job. *)
LEMMA JobNext ==
  ASSUME NEW j \in Jobs, IInv,
         TakeLock(j) \/ WorkEnds(j) \/ Release(j) \/ LockExpires(j) \/ \E p \in Pods : Receive(p, j)
  PROVE  IInv'
<1>0. TypeOK /\ JobSane(j)
  BY DEF IInv
<1>1. /\ work[j].pod \in Pods \cup {NoPod} /\ attempts[j] \in Nat /\ attempts[j] <= MaxAttempts
      /\ MaxAttempts \in Nat /\ NoPod \notin Pods
  BY <1>0, ProcessAssumption DEF TypeOK
<1>2. \A v \in {"ack", "nack"} : \A s \in Settled(j, v) :
        s \in {"queued", "acked", "dead"} /\ (s = "queued" => attempts[j] < MaxAttempts)
  BY <1>1 DEF Settled, Returned
<1>3. CASE \E p \in Pods : Receive(p, j)
  <2>1. PICK p \in Pods : Receive(p, j)
    BY <1>3
  <2>2. TypeOK'
    <3>1. job[j] = "queued" /\ attempts[j] + 1 \in 0..MaxAttempts
      BY <1>0, <1>1, <2>1 DEF Receive, JobSane
    <3>2. /\ attempts' \in [Jobs -> 0..MaxAttempts]
          /\ job' \in [Jobs -> {"queued", "leased", "acked", "dead"}]
          /\ work' \in [Jobs -> [pod: Pods \cup {NoPod}, at: {"none", "received", "locked", "done", "failed"}]]
      BY <3>1, <1>0, <2>1 DEF Receive, TypeOK
    <3> QED BY <3>2, <1>0, <2>1 DEF Receive, TypeOK, deployment, process
  <2>3. JobSane(j)'
    BY <1>0, <1>1, <2>1 DEF Receive, TypeOK, JobSane, NoWork
  <2> QED BY <2>1, <2>2, <2>3, <1>0, JobStep DEF Receive, TypeOK
<1>e. ASSUME NEW v \in {"ack", "nack"}, Ends(j, v)
      PROVE  \E s \in {"queued", "acked", "dead"} :
               /\ s = "queued" => attempts[j] < MaxAttempts
               /\ job' = [job EXCEPT ![j] = s] /\ work' = [work EXCEPT ![j] = NoWork]
  BY <1>e, <1>2 DEF Ends
<1>4. CASE TakeLock(j)
  <2>1. UNCHANGED <<deployment, process, attempts, signals, crashes>> /\ work[j].at = "received"
    BY <1>4 DEF TakeLock
  <2>0. work[j].pod \in Pods
    BY <1>0, <1>1, <2>1 DEF JobSane
  <2>2. CASE /\ \E v \in {"ack", "nack"} : Ends(j, v)
             /\ \/ lock' = lock /\ left' = left
                \/ lock' = [lock EXCEPT ![j] = work[j].pod] /\ left' = left \cup {j}
    <3>1. PICK s \in {"queued", "acked", "dead"} :
            /\ s = "queued" => attempts[j] < MaxAttempts
            /\ job' = [job EXCEPT ![j] = s] /\ work' = [work EXCEPT ![j] = NoWork]
      BY <2>2, <1>e
    <3>2. left' \subseteq Jobs /\ lock' \in [Jobs -> Pods \cup {NoPod}]
      BY <2>0, <2>2, <1>0 DEF TypeOK
    <3>3. TypeOK'
      BY <1>0, <2>1, <3>1, <3>2 DEF TypeOK, NoWork, deployment, process
    <3>4. JobSane(j)'
      BY <1>0, <1>1, <2>1, <2>2, <3>1 DEF TypeOK, JobSane, NoWork
    <3>5. work'[j].pod = NoPod
      BY <3>1, <1>0 DEF TypeOK, NoWork
    <3> QED BY <2>1, <2>2, <3>1, <3>3, <3>4, <3>5, <1>0, JobStep DEF TypeOK
  <2>3. CASE /\ lock' = [lock EXCEPT ![j] = work[j].pod]
             /\ work' = [work EXCEPT ![j].at = "locked"] /\ job' = job /\ left' = left
    <3>1. work'[j] = [pod |-> work[j].pod, at |-> "locked"]
      BY <2>3, <1>0 DEF TypeOK
    <3>2. TypeOK'
      BY <1>0, <1>1, <2>1, <2>3 DEF TypeOK, deployment, process
    <3>3. JobSane(j)'
      BY <1>0, <1>1, <2>1, <2>3, <3>1 DEF TypeOK, JobSane, NoWork
    <3>4. /\ work'[j].pod = work[j].pod
          /\ \A i \in Jobs \ {j} : work'[i] = work[i] /\ lock'[i] = lock[i]
      BY <3>1, <2>3, <1>0 DEF TypeOK
    <3> QED BY <2>1, <2>3, <3>2, <3>3, <3>4, JobStep
  <2> QED BY <2>2, <2>3, <1>4 DEF TakeLock
<1>5. CASE WorkEnds(j)
  <2>1. PICK at \in {"done", "failed"} : work' = [work EXCEPT ![j].at = at]
    BY <1>5 DEF WorkEnds
  <2>2. work'[j] = [pod |-> work[j].pod, at |-> at]
    BY <2>1, <1>0 DEF TypeOK
  <2>3. UNCHANGED <<deployment, process, job, attempts, lock, left, signals, crashes>> /\ work[j].at = "locked"
    BY <1>5 DEF WorkEnds
  <2>4. TypeOK'
    BY <1>0, <2>1, <2>3 DEF TypeOK, deployment, process
  <2>5. JobSane(j)'
    BY <1>0, <1>1, <2>2, <2>3 DEF JobSane, NoWork
  <2>6. work'[j].pod = work[j].pod /\ \A i \in Jobs \ {j} : work'[i] = work[i]
    BY <2>1, <2>2, <1>0 DEF TypeOK
  <2> QED BY <2>3, <2>4, <2>5, <2>6, JobStep
<1>6. CASE Release(j)
  <2>1. PICK v \in {"ack", "nack"} : Ends(j, v)
    BY <1>6 DEF Release
  <2>2. UNCHANGED <<deployment, process, attempts, signals, crashes>>
    BY <1>6 DEF Release
  <2>3. work[j].pod \in Pods
    BY <1>0, <1>1, <1>6 DEF Release, JobSane
  <2>4. HasRedis(j) \/ work[j].pod \in lost
    BY <2>3, Equipped DEF ReadyWhileWorking, RunsOn, Needed, HasRedis
  <2>5. \/ lock' = [lock EXCEPT ![j] = NoPod] /\ left' = left
        \/ lock' = lock /\ left' = left \cup {j}
    BY <1>6, <2>4 DEF Release, Releases
  <2>6. PICK s \in {"queued", "acked", "dead"} :
          /\ s = "queued" => attempts[j] < MaxAttempts
          /\ job' = [job EXCEPT ![j] = s] /\ work' = [work EXCEPT ![j] = NoWork]
    BY <2>1, <1>e
  <2>7. left' \subseteq Jobs /\ lock' \in [Jobs -> Pods \cup {NoPod}]
    BY <2>5, <1>0 DEF TypeOK
  <2>8. TypeOK'
    BY <1>0, <2>2, <2>6, <2>7 DEF TypeOK, NoWork, deployment, process
  <2>9. JobSane(j)'
    BY <1>0, <1>1, <2>2, <2>5, <2>6 DEF TypeOK, JobSane, NoWork
  <2>10. work'[j].pod = NoPod
    BY <2>6, <1>0 DEF TypeOK, NoWork
  <2> QED BY <2>2, <2>5, <2>6, <2>8, <2>9, <2>10, <1>0, JobStep DEF TypeOK
<1>7. CASE LockExpires(j)
  <2>1. TypeOK'
    BY <1>0, <1>7 DEF LockExpires, TypeOK, deployment, process
  <2>2. JobSane(j)'
    BY <1>0, <1>1, <1>7 DEF LockExpires, TypeOK, JobSane
  <2> QED BY <1>7, <2>1, <2>2, <1>0, JobStep DEF LockExpires, TypeOK
<1> QED BY <1>3, <1>4, <1>5, <1>6, <1>7

LEMMA TickKeeps == IInv /\ Tick => IInv'
<1> SUFFICES ASSUME IInv, Tick PROVE IInv'
  OBVIOUS
<1>1. TypeOK /\ UNCHANGED <<deployment, state, step, ready, lost, jobs, signals, crashes>>
  BY DEF IInv, Tick
<1>2. work' = work /\ job' = job /\ attempts' = attempts /\ lock' = lock /\ left' = left
  BY <1>1 DEF jobs
<1>3. ASSUME NEW p \in Pods
      PROVE  /\ PodSane(p)'
             /\ timer'[p] \in -1..ForceAfter /\ drain'[p] \in -1..ForceAfter
  <2>1. PodSane(p) /\ timer[p] \in -1..ForceAfter /\ drain[p] \in -1..ForceAfter /\ timer[p] < ForceAfter
    BY DEF IInv, Lifecycle, TypeOK, Tick
  <2>2. /\ timer'[p] = IF timer[p] = -1 THEN -1 ELSE timer[p] + 1
        /\ drain'[p] = IF drain[p] = -1 THEN -1 ELSE drain[p] + 1
    BY DEF Tick
  <2>3. drain'[p] <= timer'[p] /\ timer'[p] \in -1..ForceAfter /\ drain'[p] \in -1..ForceAfter
    BY <2>1, <2>2, TimeoutAssumption DEF PodSane
  <2> QED BY <2>1, <2>2, <2>3, <1>1, <1>2, NeededStays DEF PodSane, deployment
<1>4. timer' \in [Pods -> -1..ForceAfter] /\ drain' \in [Pods -> -1..ForceAfter]
  BY <1>3 DEF Tick
<1>5. TypeOK'
  BY <1>1, <1>4 DEF TypeOK, deployment, jobs
<1>6. \A j \in Jobs : JobSane(j)'
  BY <1>2 DEF IInv, JobSane
<1> QED BY <1>3, <1>5, <1>6 DEF IInv, Lifecycle

LEMMA Inductive == Spec => []IInv
<1>1. IInv /\ [Next]_vars => IInv'
  <2> SUFFICES ASSUME IInv, [Next]_vars PROVE IInv'
    OBVIOUS
  <2>1. CASE Next
    BY <2>1, PodNext, JobNext, TickKeeps DEF Next
  <2>2. CASE UNCHANGED vars
    <3>1. Needed' = Needed
      BY <2>2, NeededStays DEF vars
    <3>2. UNCHANGED <<role, unset, state, step, ready, timer, drain, lost, job, attempts, work, lock, left, signals, crashes>>
      BY <2>2 DEF vars, deployment, process, jobs
    <3> QED BY <3>1, <3>2 DEF IInv, TypeOK, Lifecycle, PodSane, JobSane
  <2> QED BY <2>1, <2>2
<1> QED BY InitHolds, <1>1, PTL DEF Spec

-----------------------------------------------------------------------------
(* Every reachable state of a role's pods is well typed: in particular no   *)
(* job is delivered more often than the dead-letter policy allows.          *)
THEOREM TypeCorrect == Spec => []TypeOK
<1>1. IInv => TypeOK
  BY DEF IInv
<1> QED BY <1>1, Inductive, PTL

(* A handler runs without a client it needs only after a drain that did not *)
(* wait because its subscription had failed, for any number of pods and     *)
(* jobs, as long as the forced exit comes before the drain's timeout.       *)
THEOREM HandlersEquipped == Spec => []ReadyWhileWorking
BY Inductive, Equipped, PTL

(* Only a death, a failed lock command or such a drain leaves a lock that   *)
(* nobody works under.                                                      *)
THEOREM LocksOfFaults == Spec => []LockLeftOnlyByFault
<1>1. IInv => LockLeftOnlyByFault
  BY DEF IInv, JobSane, LockLeftOnlyByFault, RunsOn
<1> QED BY <1>1, Inductive, PTL
=============================================================================
