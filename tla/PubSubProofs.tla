----------------------------- MODULE PubSubProofs -----------------------------
(***************************************************************************)
(* Proofs about PubSubClient, for any sets of subscribers, messages,       *)
(* callers and topics and any number of clients.                           *)
(*                                                                         *)
(* shutdownPromise is what protects a shutdown across its awaits: while it *)
(* is set no client is created and no subscriber starts, so whatever is    *)
(* open belongs to the client being closed.                                *)
(***************************************************************************)
EXTENDS PubSubClient, FiniteSetTheorems, TLAPS

USE ClientAssumption DEF Clients, Undefined

Open == created \ closed

(* The client that exists is open; a shutdown closes the one it found, and  *)
(* drops it after it stopped the subscribers.                               *)
ClientInv ==
  /\ pubsub # Undefined => pubsub \in Open
  /\ shutdown # "none" => closing \in Open
  /\ shutdown = "stopping" => pubsub = closing
  /\ shutdown \in {"flushing", "closing"} => pubsub = Undefined
  /\ \A c \in Open : c = pubsub \/ (shutdown # "none" /\ c = closing)

(* No subscription receives messages during a shutdown, which awaits every  *)
(* controller that is still registered.                                     *)
SubscriberInv ==
  /\ NoOrphanSubscriber
  /\ shutdown # "none" => \A s \in Subscribers : subState[s] # "open"
  /\ shutdown = "stopping" => registered = stopping

(* A running handler belongs to a subscription that was started, and one    *)
(* that outlived its subscription was given up on.                          *)
HandlerInv ==
  \A m \in Running : LET s == taskSub[m] IN
    /\ s \in Subscribers /\ subState[s] # "unused"
    /\ subState[s] = "closed" => s \in gaveUp

Inv == TypeOK /\ ClientInv /\ SubscriberInv /\ TopicsCurrent /\ HandlerInv
-----------------------------------------------------------------------------
LEMMA InvInit == Init => Inv
<1> SUFFICES ASSUME Init PROVE Inv
  OBVIOUS
<1> USE DEF Init
<1>1. TypeOK
  BY DEF TypeOK, Uncached
<1>2. ClientInv
  BY DEF ClientInv, Open
<1>3. SubscriberInv
  BY DEF SubscriberInv, NoOrphanSubscriber
<1>4. TopicsCurrent
  BY DEF TopicsCurrent, Uncached
<1>5. HandlerInv
  BY DEF HandlerInv, Running, Tasks
<1> QED BY <1>1, <1>2, <1>3, <1>4, <1>5 DEF Inv

(* A step that touches neither subscriptions nor clients, and starts no     *)
(* handler, keeps what is said about them.                                  *)
LEMMA TaskSteps ==
  ASSUME Inv, UNCHANGED <<pubsub, registered, shutdown, closing, stopping,
                          clientState, subState3, taskSub>>,
         TypeOK', TopicsCurrent', Running' \subseteq Running
  PROVE  Inv'
<1>1. ClientInv'
  BY DEF Inv, ClientInv, Open, clientState
<1>2. SubscriberInv'
  BY DEF Inv, SubscriberInv, NoOrphanSubscriber, subState3
<1>3. HandlerInv'
  BY DEF Inv, HandlerInv, subState3
<1> QED BY <1>1, <1>2, <1>3 DEF Inv

(* publishMessage: a new topic is of the current client.                    *)
LEMMA PublishTopics ==
  ASSUME TypeOK, TopicsCurrent, NEW k \in Tasks, NEW t \in Topics, Publish(k, t),
         UNCHANGED <<pubsub, shutdown, closing>>
  PROVE  /\ TopicsCurrent'
         /\ topicCache' \in [Topics -> Clients \cup {Undefined}]
         /\ via' \in [Tasks -> Clients \cup {Undefined}]
         /\ task' \in [Tasks -> {"idle", "handling", "publishing", "done", "failed"}]
         /\ task' = [task EXCEPT ![k] = "publishing"] \/ task' = [task EXCEPT ![k] = "failed"]
<1>1. TopicsCurrent'
  BY DEF Publish, TopicsCurrent, TypeOK
<1>2. topicCache' \in [Topics -> Clients \cup {Undefined}]
  BY DEF Publish, TypeOK
<1>3. via' \in [Tasks -> Clients \cup {Undefined}]
  BY DEF Publish, TypeOK
<1>4. \/ task' = [task EXCEPT ![k] = "publishing"]
      \/ task' = [task EXCEPT ![k] = "failed"]
  BY DEF Publish
<1> QED BY <1>1, <1>2, <1>3, <1>4 DEF TypeOK

-----------------------------------------------------------------------------
LEMMA InitPubSubClientInv == Inv /\ InitPubSubClient => Inv'
<1> SUFFICES ASSUME Inv, InitPubSubClient PROVE Inv'
  OBVIOUS
<1> USE DEF Inv, InitPubSubClient, InitAllowed, shutdownState, subState3, taskState
<1>1. PICK c \in Clients \ created :
        pubsub' = c /\ created' = created \cup {c} /\ pubsub = Undefined
        /\ shutdown = "none"
  OBVIOUS
<1>2. TypeOK'
  BY <1>1 DEF TypeOK
<1>3. ClientInv'
  BY <1>1, <1>2 DEF ClientInv, Open, TypeOK
<1>4. SubscriberInv'
  BY <1>1 DEF SubscriberInv, NoOrphanSubscriber, TypeOK
<1>5. TopicsCurrent'
  BY <1>1 DEF TopicsCurrent
<1>6. HandlerInv'
  BY DEF HandlerInv, Running
<1> QED BY <1>2, <1>3, <1>4, <1>5, <1>6

LEMMA StartSubscriberInv ==
  ASSUME Inv, NEW s \in Subscribers, StartSubscriber(s)
  PROVE  Inv'
<1> USE DEF Inv, StartSubscriber, StartAllowed, shutdownState, clientState, taskState
<1>1. TypeOK'
  BY DEF TypeOK
<1>2. ClientInv'
  BY DEF ClientInv, Open
<1>3. SubscriberInv'
  BY DEF SubscriberInv, NoOrphanSubscriber, TypeOK
<1>4. TopicsCurrent'
  BY DEF TopicsCurrent
<1>5. HandlerInv'
  BY DEF HandlerInv, Running, TypeOK
<1> QED BY <1>1, <1>2, <1>3, <1>4, <1>5

LEMMA CallPublishInv ==
  ASSUME Inv, NEW c \in Callers, NEW t \in Topics, CallPublish(c, t)
  PROVE  Inv'
<1> USE DEF CallPublish, shutdownState, clientState, subState3
<1>1. c \in Tasks /\ c \notin Messages
  BY DEF Tasks
<1>2. Publish(c, t) /\ TypeOK /\ TopicsCurrent
      /\ UNCHANGED <<pubsub, shutdown, closing>>
  BY DEF Inv
<1>3. TypeOK' /\ TopicsCurrent'
  BY <1>1, <1>2, PublishTopics DEF TypeOK
<1>4. \A m \in Messages : task'[m] = task[m]
  <2>1. \/ task' = [task EXCEPT ![c] = "publishing"]
        \/ task' = [task EXCEPT ![c] = "failed"]
    BY <1>1, <1>2, PublishTopics
  <2> QED BY <1>1, <1>2, <2>1 DEF TypeOK, Tasks
<1>5. Running' \subseteq Running
  BY <1>4 DEF Running
<1> QED BY <1>3, <1>5, TaskSteps

LEMMA OnMessageInv ==
  ASSUME Inv, NEW m \in Messages, NEW s \in Subscribers, OnMessage(m, s)
  PROVE  Inv'
<1> USE DEF Inv, OnMessage, moduleState, shutdownState, clientState, subState3
<1>1. TypeOK'
  BY DEF TypeOK, Tasks
<1>2. ClientInv'
  BY DEF ClientInv, Open
<1>3. SubscriberInv'
  BY DEF SubscriberInv, NoOrphanSubscriber
<1>4. TopicsCurrent'
  BY DEF TopicsCurrent
<1>5. HandlerInv'
  BY DEF HandlerInv, Running, TypeOK, Tasks
<1> QED BY <1>1, <1>2, <1>3, <1>4, <1>5

LEMMA HandleInv ==
  ASSUME Inv, NEW m \in Messages, Handle(m)
  PROVE  Inv'
<1> USE DEF Handle, shutdownState, clientState, subState3
<1>1. m \in Tasks /\ m \in Running
  BY DEF Tasks, Running
<1>2. CASE \E t \in Topics : Publish(m, t)
  <2>1. PICK t \in Topics : Publish(m, t)
    BY <1>2
  <2>2. TypeOK /\ TopicsCurrent /\ UNCHANGED <<pubsub, shutdown, closing>>
    BY DEF Inv
  <2>3. TypeOK' /\ TopicsCurrent'
    BY <1>1, <2>1, <2>2, PublishTopics DEF TypeOK
  <2>4. \/ task' = [task EXCEPT ![m] = "publishing"]
        \/ task' = [task EXCEPT ![m] = "failed"]
    BY <1>1, <2>1, <2>2, PublishTopics
  <2>5. \A k \in Messages : k = m \/ task'[k] = task[k]
    BY <2>2, <2>4 DEF TypeOK, Tasks
  <2>6. Running' \subseteq Running
    BY <1>1, <2>5 DEF Running
  <2> QED BY <2>3, <2>6, TaskSteps
<1>3. CASE /\ \E end \in {"done", "failed"} : task' = [task EXCEPT ![m] = end]
           /\ UNCHANGED <<topicCache, via>>
  <2>1. TypeOK'
    BY <1>1, <1>3 DEF Inv, TypeOK
  <2>2. TopicsCurrent'
    BY <1>3 DEF Inv, TopicsCurrent
  <2>3. Running' \subseteq Running
    BY <1>1, <1>3 DEF Inv, Running, TypeOK
  <2> QED BY <2>1, <2>2, <2>3, TaskSteps
<1> QED BY <1>2, <1>3

LEMMA PublishEndsInv ==
  ASSUME Inv, NEW k \in Tasks, PublishEnds(k)
  PROVE  Inv'
<1> USE DEF PublishEnds, moduleState, clientState, subState3
<1>1. TypeOK'
  BY DEF Inv, TypeOK
<1>2. TopicsCurrent'
  BY DEF Inv, TopicsCurrent
<1>3. \A m \in Messages : task'[m] \in {"handling", "publishing"} => task'[m] = task[m]
  BY DEF Inv, TypeOK, Tasks
<1>4. Running' \subseteq Running
  BY <1>3 DEF Running
<1> QED BY <1>1, <1>2, <1>4, TaskSteps
-----------------------------------------------------------------------------
LEMMA StopInv ==
  ASSUME Inv, NEW s \in Subscribers, Stop(s)
  PROVE  Inv'
<1> USE DEF Inv, Stop, moduleState, shutdownState, clientState, taskState
<1>1. TypeOK'
  BY DEF TypeOK
<1>2. ClientInv'
  BY DEF ClientInv, Open
<1>3. SubscriberInv'
  BY DEF SubscriberInv, NoOrphanSubscriber, TypeOK
<1>4. TopicsCurrent'
  BY DEF TopicsCurrent
<1>5. HandlerInv'
  BY DEF HandlerInv, Running, TypeOK
<1> QED BY <1>1, <1>2, <1>3, <1>4, <1>5

LEMMA StoppedInv ==
  ASSUME Inv, NEW s \in Subscribers, Stopped(s)
  PROVE  Inv'
<1> USE DEF Inv, Stopped, clientState, taskState
<1>1. TypeOK'
  BY DEF TypeOK
<1>2. ClientInv'
  BY DEF ClientInv, Open
<1>3. SubscriberInv'
  BY DEF SubscriberInv, NoOrphanSubscriber, TypeOK
<1>4. TopicsCurrent'
  BY DEF TopicsCurrent
<1>5. HandlerInv'
  BY DEF HandlerInv, HandlersOf, Running, TypeOK
<1> QED BY <1>1, <1>2, <1>3, <1>4, <1>5

LEMMA ShutdownPubSubInv == Inv /\ ShutdownPubSub => Inv'
<1> SUFFICES ASSUME Inv, ShutdownPubSub PROVE Inv'
  OBVIOUS
<1> USE DEF Inv, ShutdownPubSub, clientState, taskState
<1>1. TypeOK'
  BY DEF TypeOK
<1>2. ClientInv'
  BY DEF ClientInv, Open
<1>3. SubscriberInv'
  BY DEF SubscriberInv, NoOrphanSubscriber, TypeOK
<1>4. TopicsCurrent'
  BY DEF TopicsCurrent
<1>5. HandlerInv'
  BY DEF HandlerInv, Running, TypeOK
<1> QED BY <1>1, <1>2, <1>3, <1>4, <1>5

LEMMA DropClientInv == Inv /\ DropClient => Inv'
<1> SUFFICES ASSUME Inv, DropClient PROVE Inv'
  OBVIOUS
<1> USE DEF Inv, DropClient, clientState, subState3, taskState
<1>1. TypeOK'
  BY DEF TypeOK
<1>2. ClientInv'
  BY DEF ClientInv, Open
<1>3. SubscriberInv'
  BY DEF SubscriberInv, NoOrphanSubscriber
<1>4. TopicsCurrent'
  BY DEF TopicsCurrent, ClientInv
<1>5. HandlerInv'
  BY DEF HandlerInv, Running
<1> QED BY <1>1, <1>2, <1>3, <1>4, <1>5

LEMMA CloseClientInv == Inv /\ CloseClient => Inv'
<1> SUFFICES ASSUME Inv, CloseClient PROVE Inv'
  OBVIOUS
<1> USE DEF Inv, CloseClient, moduleState, clientState, subState3, taskState
<1>1. TypeOK'
  BY DEF TypeOK
<1>2. ClientInv'
  BY DEF ClientInv, Open
<1>3. SubscriberInv'
  BY DEF SubscriberInv, NoOrphanSubscriber
<1>4. TopicsCurrent'
  BY DEF TopicsCurrent
<1>5. HandlerInv'
  BY DEF HandlerInv, Running
<1> QED BY <1>1, <1>2, <1>3, <1>4, <1>5

LEMMA ClosedInv == Inv /\ Closed => Inv'
<1> SUFFICES ASSUME Inv, Closed PROVE Inv'
  OBVIOUS
<1> USE DEF Inv, Closed, ClearTopics, Uncached, subState3, taskState
<1>1. TypeOK'
  BY DEF TypeOK, ClientInv, Open
<1>2. ClientInv'
  BY DEF ClientInv, Open
<1>3. SubscriberInv'
  BY DEF SubscriberInv, NoOrphanSubscriber
<1>4. TopicsCurrent'
  BY DEF TopicsCurrent
<1>5. HandlerInv'
  BY DEF HandlerInv, Running
<1> QED BY <1>1, <1>2, <1>3, <1>4, <1>5

LEMMA StutterInv == Inv /\ UNCHANGED vars => Inv'
<1> SUFFICES ASSUME Inv, UNCHANGED vars PROVE Inv'
  OBVIOUS
<1>1. UNCHANGED <<pubsub, registered, shutdown, closing, stopping, clientState,
                  subState3, taskSub>>
  BY DEF vars, clientState, subState3
<1>2. TypeOK' /\ TopicsCurrent' /\ Running' \subseteq Running
  BY DEF Inv, vars, TypeOK, TopicsCurrent, Running
<1> QED BY <1>1, <1>2, TaskSteps

LEMMA InvNext == Inv /\ [Next]_vars => Inv'
BY InitPubSubClientInv, StartSubscriberInv, CallPublishInv, OnMessageInv,
   HandleInv, PublishEndsInv, StopInv, StoppedInv, ShutdownPubSubInv,
   DropClientInv, CloseClientInv, ClosedInv, StutterInv
   DEF Next

LEMMA InvAlways == Spec => []Inv
BY InvInit, InvNext, PTL DEF Spec
-----------------------------------------------------------------------------
(* The module state and the history of every client are well typed.         *)
THEOREM TypeCorrect == Spec => []TypeOK
<1>1. Inv => TypeOK
  BY DEF Inv
<1> QED BY <1>1, InvAlways, PTL

(* initPubSubClient never orphans a client: the open ones are the current   *)
(* one and the one a shutdown closes, and these are the same.               *)
THEOREM OneClientOpen == Spec => []OneClient
<1>1. ASSUME Inv PROVE OneClient
  <2>1. PICK x : created \ closed \subseteq {x}
    <3>1. \A c \in created \ closed : c = IF shutdown # "none" THEN closing ELSE pubsub
      BY <1>1 DEF Inv, ClientInv, Open, TypeOK
    <3> QED BY <3>1
  <2>2. Cardinality({x}) = 1 /\ IsFiniteSet({x})
    BY FS_Singleton
  <2>3. Cardinality(created \ closed) <= 1
    BY <2>1, <2>2, FS_Subset
  <2> QED BY <1>1, <2>3 DEF Inv, ClientInv, Open, OneClient
<1> QED BY <1>1, InvAlways, PTL

(* startSubscriber never leaves a subscription behind: whatever receives    *)
(* messages is registered with the current client.                          *)
THEOREM NoneOrphaned == Spec => []NoOrphanSubscriber
<1>1. Inv => NoOrphanSubscriber
  BY DEF Inv, SubscriberInv
<1> QED BY <1>1, InvAlways, PTL

(* publishMessage never finds the topic of a client that is gone.           *)
THEOREM CacheCurrent == Spec => []TopicsCurrent
<1>1. Inv => TopicsCurrent
  BY DEF Inv
<1> QED BY <1>1, InvAlways, PTL

(* shutdownPubSub drops the client only when the handlers it waits for have *)
(* ended or were given up on.                                               *)
THEOREM DrainBeforeDrop == Spec => DroppedAfterDrain
<1> DEFINE Drained == pubsub # Undefined /\ pubsub' = Undefined =>
             \A m \in Running : LET s == taskSub[m] IN
               s \in gaveUp \/ (subState[s] = "draining" /\ s \notin registered)
<1>1. ASSUME Inv, Next PROVE Drained
  <2> SUFFICES ASSUME pubsub # Undefined, pubsub' = Undefined, NEW m \in Running
               PROVE  \/ taskSub[m] \in gaveUp
                      \/ subState[taskSub[m]] = "draining" /\ taskSub[m] \notin registered
    OBVIOUS
  <2>1. DropClient
    <3>1. ~Closed
      BY <1>1 DEF Closed, Inv, ClientInv
    <3>2. ~InitPubSubClient
      BY DEF InitPubSubClient
    <3>3. pubsub' # pubsub
      OBVIOUS
    <3> QED BY <1>1, <3>1, <3>2, <3>3
            DEF Next, ShutdownPubSub, CloseClient, StartSubscriber, Stop, Stopped,
                Handle, OnMessage, CallPublish, PublishEnds, moduleState
  <2>2. registered = {} /\ \A s \in Subscribers : subState[s] # "open"
    BY <1>1, <2>1 DEF Inv, SubscriberInv, DropClient, AllStopped
  <2>3. /\ taskSub[m] \in Subscribers /\ subState[taskSub[m]] # "unused"
        /\ subState[taskSub[m]] = "closed" => taskSub[m] \in gaveUp
    BY <1>1 DEF Inv, HandlerInv
  <2> QED BY <1>1, <2>2, <2>3 DEF Inv, TypeOK
<1>2. ASSUME UNCHANGED vars PROVE Drained
  BY <1>2 DEF vars
<1>3. Inv /\ [Next]_vars => [Drained]_vars
  BY <1>1, <1>2
<1> QED BY <1>3, InvAlways, PTL DEF Spec, DroppedAfterDrain
=============================================================================
