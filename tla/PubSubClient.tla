----------------------------- MODULE PubSubClient -----------------------------
(***************************************************************************)
(* packages/pubsub/src/client.ts: the module-level state of the Pub/Sub    *)
(* client, and what its callers can interleave across the awaits of        *)
(* shutdownPubSub: initPubSubClient, startSubscriber, stop, publishMessage *)
(* and the messages that subscriptions deliver.                            *)
(*                                                                         *)
(* Clients are numbered as they are created; 0 stands for undefined.  A    *)
(* step runs to the next await, as JavaScript does.                        *)
(***************************************************************************)
EXTENDS Integers, FiniteSets

CONSTANTS
  Subscribers,   \* the controllers startSubscriber returns, one per call
  Messages,      \* messages delivered, each running a handler that publishes
  Callers,       \* publishMessage calls from outside a handler
  Topics,
  MaxClients     \* bound on the calls of initPubSubClient

ASSUME ClientAssumption == MaxClients \in Nat /\ Messages \cap Callers = {}

Clients == 1..MaxClients
Undefined == 0
Tasks == Messages \cup Callers

VARIABLES
  pubsub,          \* the client, or Undefined
  topicCache,      \* of each topic, the client it was made from
  registered,      \* subscriberControllers
  shutdown,        \* none, or how far the IIFE of shutdownPromise is
  closing,         \* the client it closes
  stopping,        \* the controllers whose stop() it awaits
  flushing,        \* the publishes flushTopics awaits
  created, closed, \* the clients constructed, and those closed
  subClient,       \* of each controller, the client it was started from
  subState,        \* unused, open, draining (close() called), closed
  gaveUp,          \* controllers whose close() ended with handlers running
  task,            \* where each handler or call is
  taskSub,         \* the controller that received each message
  via              \* the client whose topic a publish goes through

vars == <<pubsub, topicCache, registered, shutdown, closing, stopping, flushing,
          created, closed, subClient, subState, gaveUp, task, taskSub, via>>
moduleState == <<pubsub, topicCache, registered>>
shutdownState == <<shutdown, closing, stopping, flushing>>
clientState == <<created, closed>>
subState3 == <<subClient, subState, gaveUp>>
taskState == <<task, taskSub, via>>

NoSubscriber == "none"
Running == {m \in Messages : task[m] \in {"handling", "publishing"}}
HandlersOf(s) == {m \in Running : taskSub[m] = s}

TypeOK ==
  /\ pubsub \in Clients \cup {Undefined}
  /\ topicCache \in [Topics -> Clients \cup {Undefined}]
  /\ registered \subseteq Subscribers /\ gaveUp \subseteq Subscribers
  /\ shutdown \in {"none", "stopping", "flushing", "closing"}
  /\ closing \in Clients \cup {Undefined}
  /\ stopping \subseteq registered
  /\ flushing \subseteq Tasks
  /\ created \subseteq Clients /\ closed \subseteq created
  /\ subClient \in [Subscribers -> Clients \cup {Undefined}]
  /\ \A s \in Subscribers : subClient[s] = Undefined <=> subState[s] = "unused"
  /\ subState \in [Subscribers -> {"unused", "open", "draining", "closed"}]
  /\ task \in [Tasks -> {"idle", "handling", "publishing", "done", "failed"}]
  /\ taskSub \in [Messages -> Subscribers \cup {NoSubscriber}]
  /\ via \in [Tasks -> Clients \cup {Undefined}]

Uncached == [t \in Topics |-> Undefined]

Init ==
  /\ pubsub = Undefined /\ topicCache = Uncached /\ registered = {}
  /\ shutdown = "none" /\ closing = Undefined /\ stopping = {} /\ flushing = {}
  /\ created = {} /\ closed = {}
  /\ subClient = [s \in Subscribers |-> Undefined]
  /\ subState = [s \in Subscribers |-> "unused"]
  /\ gaveUp = {}
  /\ task = [k \in Tasks |-> "idle"]
  /\ taskSub = [m \in Messages |-> NoSubscriber]
  /\ via = [k \in Tasks |-> Undefined]
-----------------------------------------------------------------------------
\* Mutants: a call that does not look at shutdownPromise.
InitAnyway == pubsub = Undefined
StartAnyway == pubsub # Undefined
\* Mutant: startSubscriber without requireClient.
StartUninitialized == shutdown = "none"

(* What initPubSubClient and startSubscriber check before they throw. *)
InitAllowed == shutdown = "none" /\ pubsub = Undefined
StartAllowed == shutdown = "none" /\ pubsub # Undefined

InitPubSubClient ==
  /\ InitAllowed
  /\ \E c \in Clients \ created :
       /\ \A d \in Clients \ created : c <= d
       /\ pubsub' = c /\ created' = created \cup {c}
  /\ UNCHANGED <<topicCache, registered, shutdownState, closed, subState3, taskState>>

StartSubscriber(s) ==
  /\ subState[s] = "unused" /\ StartAllowed
  /\ subState' = [subState EXCEPT ![s] = "open"]
  /\ subClient' = [subClient EXCEPT ![s] = pubsub]
  /\ registered' = registered \cup {s}
  /\ UNCHANGED <<pubsub, topicCache, shutdownState, clientState, gaveUp, taskState>>

(* getTopic caches a topic of the current client, or throws without one;    *)
(* a cached topic is used whatever became of its client.                    *)
Publish(k, t) ==
  \/ /\ topicCache[t] # Undefined
     /\ via' = [via EXCEPT ![k] = topicCache[t]]
     /\ task' = [task EXCEPT ![k] = "publishing"]
     /\ UNCHANGED topicCache
  \/ /\ topicCache[t] = Undefined /\ pubsub # Undefined
     /\ topicCache' = [topicCache EXCEPT ![t] = pubsub]
     /\ via' = [via EXCEPT ![k] = pubsub]
     /\ task' = [task EXCEPT ![k] = "publishing"]
  \/ /\ topicCache[t] = Undefined /\ pubsub = Undefined
     /\ task' = [task EXCEPT ![k] = "failed"]
     /\ UNCHANGED <<topicCache, via>>

CallPublish(c, t) ==
  /\ task[c] = "idle" /\ Publish(c, t)
  /\ UNCHANGED <<pubsub, registered, shutdownState, clientState, subState3, taskSub>>

(* processMessage: a payload that does not parse or validate is nacked at   *)
(* once; any other goes to the handler.                                     *)
OnMessage(m, s) ==
  /\ task[m] = "idle" /\ subState[s] = "open"
  /\ \/ /\ task' = [task EXCEPT ![m] = "handling"]
        /\ taskSub' = [taskSub EXCEPT ![m] = s]
     \/ task' = [task EXCEPT ![m] = "failed"] /\ UNCHANGED taskSub
  /\ UNCHANGED <<moduleState, shutdownState, clientState, subState3, via>>

(* The handler publishes, or resolves or rejects without. *)
Handle(m) ==
  /\ task[m] = "handling"
  /\ \/ \E t \in Topics : Publish(m, t)
     \/ /\ \E end \in {"done", "failed"} : task' = [task EXCEPT ![m] = end]
        /\ UNCHANGED <<topicCache, via>>
  /\ UNCHANGED <<pubsub, registered, shutdownState, clientState, subState3, taskSub>>

(* A publish is confirmed, or fails, and a flush that awaits it rejects;    *)
(* one through a closed client fails.                                       *)
PublishEnds(k) ==
  /\ task[k] = "publishing"
  /\ \/ /\ via[k] \notin closed
        /\ task' = [task EXCEPT ![k] = "done"]
        /\ flushing' = flushing \ {k}
     \/ /\ task' = [task EXCEPT ![k] = "failed"]
        /\ flushing' = IF k \in flushing THEN {} ELSE flushing
  /\ UNCHANGED <<moduleState, shutdown, closing, stopping, clientState,
                 subState3, taskSub, via>>
-----------------------------------------------------------------------------
(* stop() awaits subscription.close(), which drains an open subscription    *)
(* and no-ops on any other.                                                 *)
Stop(s) ==
  /\ subState[s] = "open"
  /\ subState' = [subState EXCEPT ![s] = "draining"]
  /\ UNCHANGED <<moduleState, shutdownState, clientState, subClient, gaveUp, taskState>>

\* Mutant: close() waits for the handlers however long they take.
NeverGivesUp(s) == HandlersOf(s) = {}

(* close() ends when the handlers have, or at its timeout, or throws; stop  *)
(* then forgets the controller in any case.                                 *)
CloseEnds(s) == TRUE

Stopped(s) ==
  /\ subState[s] = "draining" /\ CloseEnds(s)
  /\ subState' = [subState EXCEPT ![s] = "closed"]
  /\ gaveUp' = IF HandlersOf(s) = {} THEN gaveUp ELSE gaveUp \cup {s}
  /\ registered' = registered \ {s}
  /\ stopping' = stopping \ {s}
  /\ UNCHANGED <<pubsub, topicCache, shutdown, closing, flushing, clientState,
                 subClient, taskState>>

(* shutdownPubSub, when none is under way and there is a client: stop every *)
(* registered controller; the stop() of one that drains resolves at once.   *)
ShutdownPubSub ==
  LET open == {s \in registered : subState[s] = "open"} IN
  /\ shutdown = "none" /\ pubsub # Undefined
  /\ shutdown' = "stopping" /\ closing' = pubsub
  /\ stopping' = open /\ registered' = open
  /\ subState' = [s \in Subscribers |->
                    IF s \in open THEN "draining" ELSE subState[s]]
  /\ UNCHANGED <<pubsub, topicCache, flushing, clientState, subClient, gaveUp, taskState>>

\* Mutant: the promises of stop() are not awaited.
NotAwaited == TRUE

AllStopped == stopping = {}

(* ... drop the client, and flush the cached topics; ...                    *)
DropClient ==
  /\ shutdown = "stopping" /\ AllStopped
  /\ pubsub' = Undefined
  /\ shutdown' = "flushing"
  /\ flushing' = {k \in Tasks : task[k] = "publishing"
                    /\ \E t \in Topics : topicCache[t] = via[k]}
  /\ UNCHANGED <<topicCache, registered, closing, stopping, clientState,
                 subState3, taskState>>

(* ... whether the flush resolves or rejects, close the client; ...         *)
CloseClient ==
  /\ shutdown = "flushing" /\ flushing = {}
  /\ shutdown' = "closing"
  /\ UNCHANGED <<moduleState, closing, stopping, flushing, clientState,
                 subState3, taskState>>

\* Mutant: the topics of the closed client stay cached.
KeepTopics == UNCHANGED topicCache

ClearTopics == topicCache' = Uncached

(* ... and resetModuleState once close() settled. *)
Closed ==
  /\ shutdown = "closing"
  /\ closed' = closed \cup {closing}
  /\ pubsub' = Undefined /\ ClearTopics /\ registered' = {} /\ stopping' = {}
  /\ shutdown' = "none" /\ closing' = Undefined
  /\ UNCHANGED <<flushing, created, subState3, taskState>>
-----------------------------------------------------------------------------
Next ==
  \/ InitPubSubClient \/ ShutdownPubSub \/ DropClient \/ CloseClient \/ Closed
  \/ \E s \in Subscribers : StartSubscriber(s) \/ Stop(s) \/ Stopped(s)
  \/ \E m \in Messages : Handle(m) \/ \E s \in Subscribers : OnMessage(m, s)
  \/ \E c \in Callers, t \in Topics : CallPublish(c, t)
  \/ \E k \in Tasks : PublishEnds(k)

Spec == Init /\ [][Next]_vars

(* The SDK bounds close() by SHUTDOWN_TIMEOUT_SECONDS, and a publish and    *)
(* client.close by deadlines; a handler may hang.                           *)
FairSpec ==
  /\ Spec
  /\ \A s \in Subscribers : WF_vars(Stopped(s))
  /\ \A k \in Tasks : WF_vars(PublishEnds(k))
  /\ WF_vars(DropClient) /\ WF_vars(CloseClient) /\ WF_vars(Closed)
-----------------------------------------------------------------------------
(* At most one client is open, and none is orphaned: an open client is the  *)
(* current one or the one a shutdown will close.                            *)
OneClient ==
  /\ Cardinality(created \ closed) <= 1
  /\ \A c \in created \ closed : c = pubsub \/ (shutdown # "none" /\ c = closing)

(* No subscription outlives its client: one that still receives messages    *)
(* belongs to the current client and will be stopped by its shutdown.       *)
NoOrphanSubscriber ==
  \A s \in Subscribers : subState[s] = "open" =>
    subClient[s] = pubsub /\ s \in registered

(* A publish never goes through a topic of a client that is gone: cached    *)
(* topics are of the current client, or of the one being shut down.         *)
TopicsCurrent ==
  \A t \in Topics : topicCache[t] # Undefined =>
    topicCache[t] = pubsub \/ (shutdown # "none" /\ topicCache[t] = closing)

(* "Handlers have drained" when shutdownPubSub drops the client: a handler  *)
(* still running is of a subscription whose close() gave up on it, or that  *)
(* a caller was already stopping.                                           *)
DroppedAfterDrain ==
  [][pubsub # Undefined /\ pubsub' = Undefined =>
       \A m \in Running : LET s == taskSub[m] IN
         s \in gaveUp \/ (subState[s] = "draining" /\ s \notin registered)]_vars

(* A shutdown ends, however long a handler hangs. *)
ShutdownEnds == shutdown # "none" ~> shutdown = "none"
=============================================================================
