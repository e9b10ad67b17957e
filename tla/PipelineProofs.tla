--------------------------- MODULE PipelineProofs ---------------------------
(***************************************************************************)
(* The safety properties of Pipeline, for every number of workers, every   *)
(* capacity, and any number of alerts a client triggers.                   *)
(***************************************************************************)
EXTENDS Pipeline, FiniteSetTheorems, TLAPS

USE PipelineAssumption

-----------------------------------------------------------------------------
(* The order of main's steps                                               *)

\* What main has still before it at certain points of its script.
AfterDestroyIngest == {"destroy_control", "destroy_pubsub", "exit"}
AfterJoinTransport == {"destroy_ingest"} \cup AfterDestroyIngest
AfterDestroyTelemetry == {"destroy_alerts", "join_transport"} \cup AfterJoinTransport
AfterJoinConsumer ==
    {"unsubscribe_telemetry", "unsubscribe_alerts", "destroy_telemetry"}
    \cup AfterDestroyTelemetry
AfterJoinWorkers == {"join_consumer"} \cup AfterJoinConsumer
AfterJoinProducer == {"join_workers"} \cup AfterJoinWorkers
AfterShutIngest == {"shut_telemetry", "shut_alerts", "join_producer"}
                   \cup AfterJoinProducer
AfterSigwait == {"shut_ingest"} \cup AfterShutIngest
Starting == {"start_workers", "start_transport", "subscribe_telemetry",
             "subscribe_alerts", "start_producer"}
Steps == Starting \cup {"start_consumer", "sigwait"} \cup AfterSigwait

\* The script has 22 steps.
LEMMA ScriptDomain == DOMAIN Script = 1 .. 22
BY DEF Script

\* They are these.
LEMMA ScriptSteps == {Script[i] : i \in DOMAIN Script} = Steps
BY DEF Script, Steps, Starting, AfterSigwait, AfterShutIngest, AfterJoinProducer,
   AfterJoinWorkers, AfterJoinConsumer, AfterDestroyTelemetry, AfterJoinTransport,
   AfterDestroyIngest

\* Where the startup goes.
LEMMA StartupOrder ==
    /\ Do("start_workers") => main = "start_workers" /\ main' = "start_transport"
    /\ Do("start_transport") => main = "start_transport" /\ main' = "subscribe_telemetry"
    /\ Do("subscribe_telemetry") =>
         main = "subscribe_telemetry" /\ main' = "subscribe_alerts"
    /\ Do("subscribe_alerts") => main = "subscribe_alerts" /\ main' = "start_producer"
    /\ Do("start_producer") => main = "start_producer" /\ main' = "start_consumer"
    /\ Do("start_consumer") => main = "start_consumer" /\ main' = "sigwait"
    /\ Do("sigwait") => main = "sigwait" /\ main' = "shut_ingest"
BY ScriptDomain DEF Do, Script

\* Where the shutdown and the joins go.
LEMMA JoinOrder ==
    /\ Do("shut_ingest") => main = "shut_ingest" /\ main' = "shut_telemetry"
    /\ Do("shut_telemetry") => main = "shut_telemetry" /\ main' = "shut_alerts"
    /\ Do("shut_alerts") => main = "shut_alerts" /\ main' = "join_producer"
    /\ Do("join_producer") => main = "join_producer" /\ main' = "join_workers"
    /\ Do("join_workers") => main = "join_workers" /\ main' = "join_consumer"
    /\ Do("join_consumer") => main = "join_consumer" /\ main' = "unsubscribe_telemetry"
    /\ Do("join_transport") => main = "join_transport" /\ main' = "destroy_ingest"
BY ScriptDomain DEF Do, Script

\* Where the rest of the teardown goes.
LEMMA DestroyOrder ==
    /\ Do("unsubscribe_telemetry") =>
         main = "unsubscribe_telemetry" /\ main' = "unsubscribe_alerts"
    /\ Do("unsubscribe_alerts") =>
         main = "unsubscribe_alerts" /\ main' = "destroy_telemetry"
    /\ Do("destroy_telemetry") => main = "destroy_telemetry" /\ main' = "destroy_alerts"
    /\ Do("destroy_alerts") => main = "destroy_alerts" /\ main' = "join_transport"
    /\ Do("destroy_ingest") => main = "destroy_ingest" /\ main' = "destroy_control"
    /\ Do("destroy_control") => main = "destroy_control" /\ main' = "destroy_pubsub"
    /\ Do("destroy_pubsub") => main = "destroy_pubsub" /\ main' = "exit"
BY ScriptDomain DEF Do, Script

\* Every step of main but the last.
Doing == {"start_workers", "start_transport", "subscribe_telemetry",
          "subscribe_alerts", "start_producer", "start_consumer", "sigwait",
          "shut_ingest", "shut_telemetry", "shut_alerts", "join_producer",
          "join_workers", "join_consumer", "unsubscribe_telemetry",
          "unsubscribe_alerts", "destroy_telemetry", "destroy_alerts",
          "join_transport", "destroy_ingest", "destroy_control", "destroy_pubsub"}

\* main stays inside its script and never begins again.
LEMMA DoType ==
    \A step \in Doing : Do(step) => main' \in Steps /\ main' # "start_workers"
BY StartupOrder, JoinOrder, DestroyOrder
DEF Doing, Steps, Starting, AfterSigwait, AfterShutIngest, AfterJoinProducer,
    AfterJoinWorkers, AfterJoinConsumer, AfterDestroyTelemetry, AfterJoinTransport,
    AfterDestroyIngest

-----------------------------------------------------------------------------
(* Types                                                                    *)

\* A worker holds an item exactly while it publishes, and there is none before
\* main starts them.
Holding == \A w \in Workers : worker[w] = "publish" <=> work[w] # NoWork
Idle == main = "start_workers" => \A w \in Workers : worker[w] = "off"

TInv == TypeOK /\ Holding /\ Idle

Ingested == ingest \in Seq(Items) /\ Len(ingest) <= IngestCapacity
Delivered ==
    /\ inbox \in [Types -> Seq(Items)]
    /\ \A t \in Types : Len(inbox[t]) <= SubscriberCapacity
Queues == Ingested /\ Delivered

Shuttable == {"ingest"} \cup Types
Objects == {"ingest", "control", "pubsub"} \cup Types

\* The flag and the sets, the threads that are not workers, and the workers.
Sets ==
    /\ main \in Steps \cup {"failed"}
    /\ stop \in BOOLEAN
    /\ down \subseteq Shuttable
    /\ subscribed \subseteq Types
    /\ destroyed \subseteq Objects
Singles ==
    /\ producer \in {"off", "top", "enqueue", "alert", "sleep", "done"}
    /\ counter \in 0 .. ALERT_PERIOD - 1
    /\ ended \in {"not", "stop", "out_of_memory", "refused", "alert_did_not_fit"}
    /\ consumer \in {"off", "dequeue", "alert", "done"}
    /\ transport \in {"off", "running", "done"}
    /\ commands \in 0 .. MaxCommands
Pool ==
    /\ worker \in [Workers -> {"off", "dequeue", "publish", "done"}]
    /\ work \in [Workers -> {NoWork} \cup {<<i>> : i \in Items}]
    /\ Holding

\* The type invariant in parts.
LEMMA Parts == TInv <=> Queues /\ Sets /\ Singles /\ Pool /\ Idle
BY ScriptSteps, Zenon
DEF TInv, TypeOK, Queues, Ingested, Delivered, Sets, Singles, Pool, Shuttable, Objects

\* The same of the next state.
LEMMA PartsNext == TInv' <=> Queues' /\ Sets' /\ Singles' /\ Pool' /\ Idle'
BY ScriptSteps, Zenon
DEF TInv, TypeOK, Queues, Ingested, Delivered, Sets, Singles, Pool, Shuttable, Objects

\* One item more, or one less.
LEMMA QueueType ==
    ASSUME NEW s \in Seq(Items), NEW x \in Items, NEW c \in Nat, Len(s) <= c
    PROVE  /\ Len(s) < c => Append(s, x) \in Seq(Items) /\ Len(Append(s, x)) <= c
           /\ s # <<>> => /\ Tail(s) \in Seq(Items) /\ Len(Tail(s)) <= c
                         /\ Head(s) \in Items
OBVIOUS

\* The producer and the client append to the ingest queue when there is room.
LEMMA IngestGrows ==
    ASSUME Ingested, NEW x \in Items,
           ingest' = ingest \/ (IngestHasRoom /\ ingest' = Append(ingest, x))
    PROVE  Ingested'
<1>1. CASE ingest' = ingest
  BY <1>1, Zenon DEF Ingested
<1>2. CASE IngestHasRoom /\ ingest' = Append(ingest, x)
  <2>1. Append(ingest, x) \in Seq(Items) /\ Len(Append(ingest, x)) <= IngestCapacity
    BY <1>2, QueueType DEF Ingested, IngestHasRoom
  <2> QED
    BY <1>2, <2>1, Zenon DEF Ingested
<1> QED
  BY <1>1, <1>2, Zenon

\* The producer's and the client's items have their type.
LEMMA ItemTypes ==
    \A t \in Types, f \in {"producer", "client"} : [type |-> t, from |-> f] \in Items
BY Zenon DEF Items

\* The producer keeps the types.
LEMMA ProducerType == ASSUME TInv, Producer PROVE TInv'
<1>0. Queues /\ Sets /\ Singles /\ Pool /\ Idle
  BY Parts, Zenon
<1>1. UNCHANGED <<main, stop, down, subscribed, destroyed, inbox, worker, work,
                  consumer, transport, commands>>
  BY DEF Producer, ProducerTop, ProducerEnqueue, ProducerAlert, ProducerSleep,
     queues, teardown, pool, client
<1>2. Ingested'
  <2>1. \/ ingest' = ingest
        \/ \E t \in Types : /\ IngestHasRoom
                            /\ ingest' = Append(ingest, [type |-> t, from |-> "producer"])
    BY Zenon DEF Producer, ProducerTop, ProducerEnqueue, ProducerAlert, ProducerSleep,
       queues, Types
  <2> QED
    BY <1>0, <2>1, IngestGrows, ItemTypes, Zenon DEF Queues, Ingested
<1>3. Singles'
  <2>1. (counter + 1) % ALERT_PERIOD \in 0 .. ALERT_PERIOD - 1
    BY <1>0 DEF Singles
  <2>2. counter' \in 0 .. ALERT_PERIOD - 1
    BY <1>0, <2>1, Zenon DEF Producer, ProducerTop, ProducerEnqueue, ProducerAlert,
       ProducerSleep, ProducerEnd, Singles
  <2>3. /\ producer' \in {"off", "top", "enqueue", "alert", "sleep", "done"}
        /\ ended' \in {"not", "stop", "out_of_memory", "refused", "alert_did_not_fit"}
    BY <1>0, Zenon DEF Producer, ProducerTop, ProducerEnqueue, ProducerAlert,
       ProducerSleep, ProducerEnd, Singles
  <2> QED
    BY <1>0, <1>1, <2>2, <2>3, Zenon DEF Singles
<1> QED
  BY <1>0, <1>1, <1>2, <1>3, PartsNext, Zenon
  DEF Queues, Delivered, Sets, Pool, Holding, Idle

\* A worker keeps the types.
LEMMA WorkerType == ASSUME TInv, NEW w \in Workers, Worker(w) PROVE TInv'
<1>0. Queues /\ Sets /\ Singles /\ Pool /\ Idle
  BY Parts, Zenon
<1>1. UNCHANGED <<main, stop, down, subscribed, destroyed, producer, counter,
                  ended, consumer, transport, commands>>
  BY DEF Worker, WorkerDequeue, WorkerPublish, WorkerEnd, teardown, prod, client
<1>2. Sets' /\ Singles' /\ Idle'
  <2>1. main' # "start_workers"
    BY <1>0, <1>1 DEF Idle, Worker, WorkerDequeue, WorkerPublish
  <2>2. Sets'
    BY <1>0, <1>1, Zenon DEF Sets
  <2>3. Singles'
    BY <1>0, <1>1, Zenon DEF Singles
  <2> QED
    BY <2>1, <2>2, <2>3, Zenon DEF Idle
<1>3. CASE WorkerDequeue(w) /\ ingest # <<>> /\ ingest' = Tail(ingest)
           /\ work' = [work EXCEPT ![w] = <<Head(ingest)>>]
           /\ worker' = [worker EXCEPT ![w] = "publish"] /\ inbox' = inbox
  <2>1. Ingested' /\ Head(ingest) \in Items
    BY <1>0, <1>3 DEF Queues, Ingested
  <2>2. Delivered'
    BY <1>0, <1>3, Zenon DEF Queues, Delivered
  <2>3. Pool'
    BY <1>0, <1>3, <2>1 DEF Pool, Holding, NoWork
  <2> QED
    BY <1>2, <2>1, <2>2, <2>3, PartsNext, Zenon DEF Queues
<1>4. CASE WorkerDequeue(w) /\ WorkerEnd(w)
  <2>1. Queues'
    BY <1>0, <1>4, Zenon DEF Queues, Ingested, Delivered, WorkerEnd, queues
  <2>2. Pool'
    BY <1>0, <1>4 DEF Pool, Holding, WorkerEnd, WorkerDequeue
  <2> QED
    BY <1>2, <2>1, <2>2, PartsNext, Zenon
<1>5. CASE WorkerPublish(w)
  <2>1. work[w][1] \in Items
    BY <1>0, <1>5 DEF WorkerPublish, Pool, Holding, NoWork
  <2>2. Ingested'
    BY <1>0, <1>5, Zenon DEF WorkerPublish, Queues, Ingested
  <2>3. Delivered'
    <3>1. CASE inbox' = inbox
      BY <1>0, <3>1, Zenon DEF Queues, Delivered
    <3>2. ASSUME NEW t \in Types, Len(inbox[t]) < SubscriberCapacity,
                 inbox' = [inbox EXCEPT ![t] = Append(@, work[w][1])]
          PROVE  Delivered'
      <4>1. inbox[t] \in Seq(Items) /\ Len(inbox[t]) <= SubscriberCapacity
        BY <1>0, Zenon DEF Queues, Delivered
      <4>2. /\ Append(inbox[t], work[w][1]) \in Seq(Items)
            /\ Len(Append(inbox[t], work[w][1])) <= SubscriberCapacity
        BY <2>1, <3>2, <4>1, QueueType
      <4> QED
        BY <1>0, <3>2, <4>2, Zenon DEF Queues, Delivered
    <3>3. work[w][1].type \in Types
      BY <2>1 DEF Items
    <3> QED
      BY <1>5, <3>1, <3>2, <3>3, Zenon DEF WorkerPublish
  <2>4. Pool'
    BY <1>0, <1>5 DEF Pool, Holding, WorkerPublish
  <2> QED
    BY <1>2, <2>2, <2>3, <2>4, PartsNext, Zenon DEF Queues
<1> QED
  BY <1>3, <1>4, <1>5, Zenon DEF Worker, WorkerDequeue

\* The consumer and the client's threads keep the types.
LEMMA OthersType ==
    ASSUME TInv, Consumer \/ ClientTriggersAlert \/ TransportEnd PROVE TInv'
<1>0. Queues /\ Sets /\ Singles /\ Pool /\ Idle
  BY Parts, Zenon
<1>1. UNCHANGED <<main, stop, down, subscribed, destroyed, producer, counter,
                  ended, worker, work>>
  BY DEF Consumer, ConsumerDequeue, ConsumerAlert, ClientTriggersAlert,
     TransportEnd, teardown, prod, pool
<1>2. Sets' /\ Pool' /\ Idle'
  BY <1>0, <1>1, Zenon DEF Sets, Pool, Holding, Idle
<1>3. CASE Consumer
  <2>1. Ingested'
    BY <1>0, <1>3, Zenon DEF Consumer, ConsumerDequeue, ConsumerAlert, Queues, Ingested
  <2>2. Delivered'
    <3>1. \/ inbox' = inbox
          \/ \E t \in Types : inbox[t] # <<>> /\ inbox' = [inbox EXCEPT ![t] = Tail(@)]
      BY <1>3, Zenon DEF Consumer, ConsumerDequeue, ConsumerAlert, Types
    <3>2. CASE inbox' = inbox
      BY <1>0, <3>2, Zenon DEF Queues, Delivered
    <3>3. ASSUME NEW t \in Types, inbox[t] # <<>>,
                 inbox' = [inbox EXCEPT ![t] = Tail(@)]
          PROVE  Delivered'
      <4>1. inbox[t] \in Seq(Items) /\ Len(inbox[t]) <= SubscriberCapacity
        BY <1>0, Zenon DEF Queues, Delivered
      <4>2. Tail(inbox[t]) \in Seq(Items) /\ Len(Tail(inbox[t])) <= SubscriberCapacity
        BY <3>3, <4>1
      <4> QED
        BY <1>0, <3>3, <4>2, Zenon DEF Queues, Delivered
    <3> QED
      BY <3>1, <3>2, <3>3, Zenon
  <2>3. Singles'
    BY <1>0, <1>3 DEF Consumer, ConsumerDequeue, ConsumerAlert, LeaveLoop, Singles,
       prod, client
  <2> QED
    BY <1>2, <2>1, <2>2, <2>3, PartsNext, Zenon DEF Queues
<1>4. CASE ClientTriggersAlert
  <2>1. Ingested'
    BY <1>0, <1>4, IngestGrows, ItemTypes, Zenon
    DEF ClientTriggersAlert, Queues, Types
  <2>2. Delivered'
    BY <1>0, <1>4, Zenon DEF ClientTriggersAlert, Queues, Delivered
  <2>3. Singles'
    BY <1>0, <1>4 DEF ClientTriggersAlert, Singles, prod
  <2> QED
    BY <1>2, <2>1, <2>2, <2>3, PartsNext, Zenon DEF Queues
<1>5. CASE TransportEnd
  <2>1. Queues' /\ Singles'
    BY <1>0, <1>5 DEF TransportEnd, Queues, Ingested, Delivered, Singles, queues, prod
  <2> QED
    BY <1>2, <2>1, PartsNext, Zenon
<1> QED
  BY <1>3, <1>4, <1>5, Zenon

MainStep == Startup \/ StartupFails \/ Sigint \/ Teardown

\* main keeps the types.
LEMMA MainType == ASSUME TInv, MainStep PROVE TInv'
<1>0. Queues /\ Sets /\ Singles /\ Pool /\ Idle
  BY Parts, Zenon
<1>1. UNCHANGED queues
  BY Zenon DEF MainStep, Startup, StartWorkers, StartTransport, Subscribe,
     StartProducer, StartConsumer, StartupFails, Sigint, Teardown, ShutQueues,
     Join, Unsubscribe, Destroy
<1>2. Queues'
  BY <1>0, <1>1, Zenon DEF Queues, Ingested, Delivered, queues
<1>3. main' \in Steps \cup {"failed"} /\ main' # "start_workers"
  <2>1. (\E step \in Doing : Do(step)) \/ main' = "failed"
    BY Zenon DEF MainStep, Startup, StartWorkers, StartTransport, Subscribe,
       StartProducer, StartConsumer, StartupFails, Sigint, Teardown, ShutQueues,
       Join, Unsubscribe, Destroy, Doing, Shut, Frees
  <2> QED
    BY <2>1, DoType, Zenon
<1>4. stop' \in BOOLEAN
  BY <1>0, Zenon DEF MainStep, Startup, StartWorkers, StartTransport, Subscribe,
     StartProducer, StartConsumer, StartupFails, Sigint, Teardown, ShutQueues,
     Join, Unsubscribe, Destroy, teardown, Sets
<1>5. down' \subseteq Shuttable
  <2>1. UNCHANGED down \/ \E step \in DOMAIN Shut : down' = down \cup {Shut[step]}
    BY Zenon DEF MainStep, Startup, StartWorkers, StartTransport, Subscribe,
       StartProducer, StartConsumer, StartupFails, Sigint, Teardown, ShutQueues,
       Join, Unsubscribe, Destroy, teardown
  <2>2. \A step \in DOMAIN Shut : Shut[step] \in Shuttable
    BY DEF Shut, Shuttable, Types
  <2>3. down \subseteq Shuttable
    BY <1>0, Zenon DEF Sets
  <2> QED
    BY <2>1, <2>2, <2>3
<1>6. subscribed' \subseteq Types
  BY <1>0, Zenon DEF MainStep, Startup, StartWorkers, StartTransport, Subscribe,
     StartProducer, StartConsumer, StartupFails, Sigint, Teardown, ShutQueues,
     Join, Unsubscribe, Destroy, teardown, Sets, Types
<1>7. destroyed' \subseteq Objects
  <2>1. \/ UNCHANGED destroyed
        \/ \E step \in DOMAIN Frees : destroyed' = destroyed \cup {Frees[step]}
    BY Zenon DEF MainStep, Startup, StartWorkers, StartTransport, Subscribe,
       StartProducer, StartConsumer, StartupFails, Sigint, Teardown, ShutQueues,
       Join, Unsubscribe, Destroy, teardown
  <2>2. \A step \in DOMAIN Frees : Frees[step] \in Objects
    BY DEF Frees, Objects, Types
  <2>3. destroyed \subseteq Objects
    BY <1>0, Zenon DEF Sets
  <2> QED
    BY <2>1, <2>2, <2>3
<1>8. Singles'
  BY <1>0 DEF MainStep, Startup, StartWorkers, StartTransport, Subscribe,
     StartProducer, StartConsumer, StartupFails, Sigint, Teardown, ShutQueues,
     Join, Unsubscribe, Destroy, Singles, prod, client
<1>9. Pool'
  <2>1. CASE StartWorkers
    <3>1. main = "start_workers"
      BY <2>1, StartupOrder, Zenon DEF StartWorkers
    <3>2. PICK started \in SUBSET Workers :
            worker' = [w \in Workers |-> IF w \in started THEN "dequeue" ELSE "done"]
      BY <2>1, Zenon DEF StartWorkers
    <3>3. \A w \in Workers : work[w] = NoWork
      BY <1>0, <2>1, <3>1 DEF StartWorkers, Pool, Holding, Idle
    <3>4. worker' \in [Workers -> {"off", "dequeue", "publish", "done"}]
      BY <3>2
    <3>5. \A w \in Workers : worker'[w] # "publish"
      BY <3>2
    <3>6. work' = work
      BY <2>1, Zenon DEF StartWorkers
    <3> QED
      BY <1>0, <3>3, <3>4, <3>5, <3>6, Zenon DEF Pool, Holding
  <2>2. CASE UNCHANGED pool
    BY <1>0, <2>2, Zenon DEF Pool, Holding, pool
  <2> QED
    BY <2>1, <2>2, Zenon DEF MainStep, Startup, StartTransport, Subscribe,
       StartProducer, StartConsumer, StartupFails, Sigint, Teardown, ShutQueues,
       Join, Unsubscribe, Destroy
<1> QED
  BY <1>2, <1>3, <1>4, <1>5, <1>6, <1>7, <1>8, <1>9, PartsNext, Zenon
  DEF Sets, Idle

\* Every step keeps the types.
LEMMA TypeNext == TInv /\ [Next]_vars => TInv'
<1> SUFFICES ASSUME TInv, [Next]_vars PROVE TInv'
  OBVIOUS
<1>1. CASE UNCHANGED vars
  <2>1. Queues' /\ Sets'
    BY <1>1, Parts, Zenon DEF vars, Queues, Ingested, Delivered, Sets
  <2>2. Singles'
    BY <1>1, Parts, Zenon DEF vars, Singles
  <2>3. Pool' /\ Idle'
    BY <1>1, Parts, Zenon DEF vars, Pool, Holding, Idle
  <2> QED
    BY <2>1, <2>2, <2>3, PartsNext, Zenon
<1> QED
  BY <1>1, ProducerType, WorkerType, OthersType, MainType, Zenon
  DEF Next, MainStep, Ended

\* A fresh process satisfies the type invariant.
LEMMA TypeInit == Init => TInv
<1> SUFFICES ASSUME Init PROVE TInv
  OBVIOUS
<1>1. Queues
  BY DEF Init, Queues, Ingested, Delivered
<1>2. Sets
  <2>1. main \in Steps
    BY DEF Init, Steps, Starting
  <2> QED
    BY <2>1, Zenon DEF Init, Sets
<1>3. Singles
  BY DEF Init, Singles
<1>4. Pool /\ Idle
  BY DEF Init, Pool, Holding, Idle
<1> QED
  BY <1>1, <1>2, <1>3, <1>4, Parts, Zenon

\* The variables keep their types, and no queue holds more than its capacity,
\* whatever the capacities and the number of workers.
THEOREM TypeCorrect == Spec => []TypeOK
<1>1. TInv => TypeOK
  BY DEF TInv
<1> QED
  BY <1>1, TypeInit, TypeNext, PTL DEF Spec

-----------------------------------------------------------------------------
(* The teardown: nothing is destroyed while it is in use                    *)

\* Which threads have ended, and what has been destroyed, at each step of main.
Order ==
    /\ main \in AfterJoinProducer => producer = "done"
    /\ main \in AfterJoinWorkers => \A w \in Workers : worker[w] = "done"
    /\ main \in AfterJoinConsumer => consumer = "done"
    /\ main \in AfterJoinTransport => transport = "done"
    /\ main \notin AfterDestroyTelemetry => destroyed = {}
    /\ main \notin AfterDestroyIngest => destroyed \subseteq Types

\* The points of the script follow each other.
LEMMA Nested ==
    /\ AfterDestroyIngest \subseteq AfterJoinTransport
    /\ AfterJoinTransport \subseteq AfterDestroyTelemetry
    /\ AfterDestroyTelemetry \subseteq AfterJoinConsumer
    /\ AfterJoinConsumer \subseteq AfterJoinWorkers
    /\ AfterJoinWorkers \subseteq AfterJoinProducer
    /\ AfterJoinProducer \subseteq AfterShutIngest
BY Zenon DEF AfterShutIngest, AfterJoinProducer, AfterJoinWorkers, AfterJoinConsumer,
   AfterDestroyTelemetry, AfterJoinTransport, AfterDestroyIngest

\* The order is what keeps the threads from a destroyed object.
LEMMA OrderIsEnough == Order /\ TInv => NoUseAfterDestroy
<1> SUFFICES ASSUME Order, TInv PROVE NoUseAfterDestroy
  OBVIOUS
<1>1. CASE main \in AfterDestroyIngest
  <2>1. /\ producer = "done" /\ consumer = "done" /\ transport = "done"
        /\ \A w \in Workers : worker[w] = "done"
    BY <1>1, Nested, Zenon DEF Order
  <2>2. InUse = {}
    BY <2>1 DEF InUse
  <2> QED
    BY <2>2, Zenon DEF NoUseAfterDestroy
<1>2. CASE main \in AfterDestroyTelemetry /\ main \notin AfterDestroyIngest
  <2>1. /\ producer = "done" /\ consumer = "done" /\ destroyed \subseteq Types
        /\ \A w \in Workers : worker[w] = "done"
    BY <1>2, Nested, Zenon DEF Order
  <2>2. InUse \subseteq {"ingest", "control", "pubsub"}
    BY <2>1 DEF InUse
  <2> QED
    BY <2>1, <2>2 DEF NoUseAfterDestroy, Types
<1>3. CASE main \notin AfterDestroyTelemetry
  BY <1>3, Zenon DEF Order, NoUseAfterDestroy
<1> QED
  BY <1>1, <1>2, <1>3, Zenon

\* A thread that has ended takes no step.
LEMMA ThreadsEnd ==
    ASSUME Producer \/ Consumer \/ (\E w \in Workers : Worker(w))
             \/ ClientTriggersAlert \/ TransportEnd
    PROVE  /\ UNCHANGED <<main, stop, down, subscribed, destroyed>>
           /\ producer' = producer \/ producer # "done"
           /\ consumer' = consumer \/ consumer # "done"
           /\ transport' = transport \/ transport' = "done"
           /\ worker' = worker \/ \E w \in Workers : worker[w] # "done"
<1>1. CASE Producer
  BY <1>1 DEF Producer, ProducerTop, ProducerEnqueue, ProducerAlert, ProducerSleep,
     teardown, pool, client
<1>2. CASE Consumer
  BY <1>2, Zenon DEF Consumer, ConsumerDequeue, ConsumerAlert, teardown, prod, pool,
     client
<1>3. CASE \E w \in Workers : Worker(w)
  BY <1>3, Zenon DEF Worker, WorkerDequeue, WorkerPublish, WorkerEnd, teardown, prod,
     client
<1>4. CASE ClientTriggersAlert \/ TransportEnd
  BY <1>4, Zenon DEF ClientTriggersAlert, TransportEnd, teardown, prod, pool
<1> QED
  BY <1>1, <1>2, <1>3, <1>4, Zenon

\* Every step keeps the order.
LEMMA OrderNext == Order /\ TInv /\ [Next]_vars => Order'
<1> SUFFICES ASSUME Order, TInv, [Next]_vars PROVE Order'
  OBVIOUS
<1>1. CASE Producer \/ Consumer \/ (\E w \in Workers : Worker(w))
             \/ ClientTriggersAlert \/ TransportEnd
  BY <1>1, ThreadsEnd, Zenon DEF Order
<1>2. CASE Startup \/ StartupFails \/ Sigint
  <2>1. main \notin AfterSigwait /\ (main' \notin AfterSigwait \/ main' = "shut_ingest")
        /\ UNCHANGED destroyed
    <3>1. CASE StartupFails
      BY <3>1, ScriptDomain DEF StartupFails, Script, AfterSigwait, AfterShutIngest,
         AfterJoinProducer, AfterJoinWorkers, AfterJoinConsumer,
         AfterDestroyTelemetry, AfterJoinTransport, AfterDestroyIngest, teardown
    <3>2. CASE Startup \/ Sigint
      BY <3>2, StartupOrder DEF Startup, StartWorkers, StartTransport, Subscribe,
         StartProducer, StartConsumer, Sigint, AfterSigwait, AfterShutIngest,
         AfterJoinProducer, AfterJoinWorkers, AfterJoinConsumer,
         AfterDestroyTelemetry, AfterJoinTransport, AfterDestroyIngest, teardown
    <3> QED
      BY <1>2, <3>1, <3>2, Zenon
  <2>2. main \notin AfterJoinProducer /\ main' \notin AfterJoinProducer
    BY <2>1 DEF AfterSigwait, AfterShutIngest,
       AfterJoinProducer, AfterJoinWorkers, AfterJoinConsumer,
       AfterDestroyTelemetry, AfterJoinTransport, AfterDestroyIngest
  <2> QED
    BY <2>1, <2>2, Nested, Zenon DEF Order
<1> USE DEF AfterJoinProducer, AfterJoinWorkers, AfterJoinConsumer,
            AfterDestroyTelemetry, AfterJoinTransport, AfterDestroyIngest
<1>3. CASE ShutQueues
  BY <1>3, JoinOrder DEF ShutQueues, Shut, Order, prod, pool, client
<1>4. CASE Join
  BY <1>4, JoinOrder, Zenon DEF Join, JoinReturns, Order, teardown, prod, pool, client
<1>5. CASE Unsubscribe
  BY <1>5, DestroyOrder, Zenon DEF Unsubscribe, Order, prod, pool, client
<1>6. CASE Destroy
  BY <1>6, DestroyOrder DEF Destroy, Frees, Types, Order, prod, pool, client
<1>7. CASE UNCHANGED vars
  BY <1>7, Zenon DEF vars, Order
<1> QED
  BY <1>1, <1>2, <1>3, <1>4, <1>5, <1>6, <1>7, Zenon DEF Next, Teardown, Ended

\* Nothing is destroyed while a thread may still use it (main.c:247-264), for
\* every number of workers and whenever the threads end.
THEOREM TeardownIsSafe == Spec => []NoUseAfterDestroy
<1>1. Init => Order
  BY DEF Init, Order, AfterJoinProducer, AfterJoinWorkers, AfterJoinConsumer,
     AfterDestroyTelemetry, AfterJoinTransport, AfterDestroyIngest
<1> QED
  BY <1>1, OrderIsEnough, OrderNext, TypeInit, TypeNext, PTL DEF Spec

-----------------------------------------------------------------------------
(* The ingest queue is drained up to the producer's last tick               *)

AllLeft == \A w \in Workers : worker[w] = "done"

None(type) == ItemsLeft(type) = {}
AtMostOne(type) == \A i, j \in ItemsLeft(type) : i = j

\* What the producer can have left behind, told to stop: at its enqueue nothing
\* yet, at its alert the telemetry, and after that both.
Tick ==
    /\ \A t \in Types : AtMostOne(t)
    /\ producer = "enqueue" => \A t \in Types : None(t)
    /\ producer = "alert" => None("alert")

Drain ==
    /\ main \in AfterSigwait => stop
    /\ "ingest" \in down => main \in AfterShutIngest
    /\ main \notin {"start_workers", "failed"} /\ AllLeft =>
         main \in AfterShutIngest /\ Tick

\* Nothing is left in an empty queue.
LEMMA EmptyTick == ingest = <<>> => Tick
BY DEF Tick, AtMostOne, None, ItemsLeft

Where(s, x) == {i \in DOMAIN s : s[i] = x}

\* Which positions of a longer queue hold the item x.
LEMMA Grown ==
    ASSUME NEW s \in Seq(Items), NEW y \in Items, NEW x
    PROVE  /\ y # x => Where(Append(s, y), x) = Where(s, x)
           /\ y = x => Where(Append(s, y), x) = Where(s, x) \cup {Len(s) + 1}
<1>1. /\ Len(s) \in Nat /\ DOMAIN s = 1 .. Len(s)
      /\ DOMAIN Append(s, y) = 1 .. Len(s) + 1
      /\ Append(s, y)[Len(s) + 1] = y
      /\ \A i \in 1 .. Len(s) : Append(s, y)[i] = s[i]
  OBVIOUS
<1>2. \A n \in Nat : \A i : i \in 1 .. n + 1 <=> i \in 1 .. n \/ i = n + 1
  OBVIOUS
<1>3. \A i : i \in DOMAIN Append(s, y) <=> i \in DOMAIN s \/ i = Len(s) + 1
  BY <1>1, <1>2, Zenon
<1> QED
  BY <1>1, <1>3, Zenon DEF Where

\* An item of the client's leaves the producer's where they are, and an item of
\* the producer's is one more of its type.
LEMMA LeftGrows ==
    ASSUME Ingested, NEW u \in Types, NEW f \in {"producer", "client"}, NEW t \in Types,
           ingest' = Append(ingest, [type |-> u, from |-> f])
    PROVE  /\ u # t \/ f = "client" => ItemsLeft(t)' = ItemsLeft(t)
           /\ u = t /\ f = "producer" =>
                ItemsLeft(t)' = ItemsLeft(t) \cup {Len(ingest) + 1}
<1> DEFINE y == [type |-> u, from |-> f]
           x == [type |-> t, from |-> "producer"]
<1>1. ingest \in Seq(Items) /\ y \in Items
  BY ItemTypes, Zenon DEF Ingested
<1>2. ItemsLeft(t)' = Where(Append(ingest, y), x) /\ ItemsLeft(t) = Where(ingest, x)
  BY Zenon DEF ItemsLeft, Where
<1>3. u # t \/ f = "client" => y # x
  OBVIOUS
<1>4. u = t /\ f = "producer" => y = x
  OBVIOUS
<1> HIDE DEF x, y
<1> QED
  BY <1>1, <1>2, <1>3, <1>4, Grown, ZenonT(30)

\* A tick under way stays within its bounds.
LEMMA TickNext ==
    ASSUME Tick, TInv, stop, AllLeft,
           Producer \/ ClientTriggersAlert \/ UNCHANGED <<ingest, producer>>
    PROVE  Tick'
<1>0. Ingested
  BY Parts, Zenon DEF Queues
<1>1. CASE ClientTriggersAlert
  <2>1. producer' = producer
    BY <1>1, Zenon DEF ClientTriggersAlert, prod
  <2>2. \A t \in Types : ItemsLeft(t)' = ItemsLeft(t)
    <3>1. CASE ingest' = ingest
      BY <3>1, Zenon DEF ItemsLeft
    <3>2. CASE ingest' = Append(ingest, [type |-> "alert", from |-> "client"])
      BY <1>0, <3>2, LeftGrows, Zenon DEF Types
    <3> QED
      BY <1>1, <3>1, <3>2, Zenon DEF ClientTriggersAlert
  <2> QED
    BY <2>1, <2>2, Zenon DEF Tick, AtMostOne, None, Types
<1>2. CASE UNCHANGED <<ingest, producer>>
  BY <1>2, Zenon DEF Tick, AtMostOne, None, ItemsLeft
<1>3. CASE ProducerTop \/ ProducerSleep
  <2>1. ingest' = ingest /\ producer' \in {"top", "done"}
    BY <1>3, Zenon DEF ProducerTop, ProducerSleep, ProducerEnd, queues, ShutdownRequested
  <2> QED
    BY <2>1, Zenon DEF Tick, AtMostOne, None, ItemsLeft
<1>4. CASE ProducerEnqueue
  <2>0. \A t \in Types : None(t)
    BY <1>4, Zenon DEF ProducerEnqueue, Tick
  <2>1. CASE ingest' = ingest /\ producer' = "done"
    BY <2>1, Zenon DEF Tick, AtMostOne, None, ItemsLeft
  <2>2. CASE /\ ingest' = Append(ingest, [type |-> "telemetry", from |-> "producer"])
             /\ producer' \in {"alert", "sleep"}
    <3>0. /\ "alert" \in Types /\ "telemetry" \in Types /\ "alert" # "telemetry"
          /\ "producer" \in {"producer", "client"}
      BY Zenon DEF Types
    <3>1. ItemsLeft("alert")' = ItemsLeft("alert")
      BY <1>0, <2>2, <3>0, LeftGrows, Zenon
    <3>2. ItemsLeft("telemetry")' = ItemsLeft("telemetry") \cup {Len(ingest) + 1}
      BY <1>0, <2>2, <3>0, LeftGrows, Zenon
    <3>3. ItemsLeft("alert") = {} /\ ItemsLeft("telemetry") = {}
      BY <2>0, <3>0, Zenon DEF None
    <3>4. ItemsLeft("alert")' = {} /\ \A i \in ItemsLeft("telemetry")' : i = Len(ingest) + 1
      BY <3>1, <3>2, <3>3, Zenon
    <3> QED
      BY <2>2, <3>4, Zenon DEF Tick, AtMostOne, None, Types
  <2> QED
    BY <1>4, <2>1, <2>2, Zenon DEF ProducerEnqueue, ProducerEnd
<1>5. CASE ProducerAlert
  <2>0. None("alert") /\ AtMostOne("telemetry")
    BY <1>5, Zenon DEF ProducerAlert, Tick, Types
  <2>1. CASE ingest' = ingest /\ producer' = "done"
    BY <2>1, Zenon DEF Tick, AtMostOne, None, ItemsLeft
  <2>2. CASE /\ ingest' = Append(ingest, [type |-> "alert", from |-> "producer"])
             /\ producer' = "sleep"
    <3>0. /\ "alert" \in Types /\ "telemetry" \in Types /\ "alert" # "telemetry"
          /\ "producer" \in {"producer", "client"}
      BY Zenon DEF Types
    <3>1. ItemsLeft("telemetry")' = ItemsLeft("telemetry")
      BY <1>0, <2>2, <3>0, LeftGrows, Zenon
    <3>2. ItemsLeft("alert")' = ItemsLeft("alert") \cup {Len(ingest) + 1}
      BY <1>0, <2>2, <3>0, LeftGrows, Zenon
    <3>3. ItemsLeft("alert") = {}
      BY <2>0, Zenon DEF None
    <3>4. \A i \in ItemsLeft("alert")' : i = Len(ingest) + 1
      BY <3>2, <3>3, Zenon
    <3> QED
      BY <2>0, <2>2, <3>1, <3>4, Zenon DEF Tick, AtMostOne, None, Types
  <2> QED
    BY <1>5, <2>1, <2>2, Zenon DEF ProducerAlert, ProducerEnd
<1> QED
  BY <1>1, <1>2, <1>3, <1>4, <1>5, Zenon DEF Producer

\* Every step keeps the bounds of what is left.
LEMMA DrainNext == Drain /\ TInv /\ Order /\ [Next]_vars => Drain'
<1> SUFFICES ASSUME Drain, TInv, Order, [Next]_vars PROVE Drain'
  OBVIOUS
<1>1. CASE Producer \/ ClientTriggersAlert
  <2>1. UNCHANGED <<main, stop, down, worker>>
    BY <1>1, Zenon DEF Producer, ProducerTop, ProducerEnqueue, ProducerAlert,
       ProducerSleep, ClientTriggersAlert, teardown, pool
  <2> QED
    BY <1>1, <2>1, TickNext, Zenon DEF Drain, AllLeft, AfterSigwait
<1>2. CASE Consumer \/ TransportEnd \/ UNCHANGED vars
  <2>1. UNCHANGED <<main, stop, down, worker, ingest, producer>>
    BY <1>2, Zenon DEF Consumer, ConsumerDequeue, ConsumerAlert, TransportEnd,
       teardown, pool, prod, queues, vars
  <2> QED
    BY <2>1, TickNext, Zenon DEF Drain, AllLeft, AfterSigwait
<1>3. ASSUME NEW w \in Workers, Worker(w) PROVE Drain'
  <2>1. UNCHANGED <<main, stop, down, producer>>
    BY <1>3, Zenon DEF Worker, WorkerDequeue, WorkerPublish, WorkerEnd, teardown, prod
  <2>2. CASE AllLeft'
    <3>1. worker'[w] = "done"
      BY <2>2, Zenon DEF AllLeft
    <3>2. worker \in [Workers -> {"off", "dequeue", "publish", "done"}]
      BY Parts, Zenon DEF Pool
    <3>3. ingest' = <<>> /\ "ingest" \in down
      BY <1>3, <3>1, <3>2 DEF Worker, WorkerDequeue, WorkerPublish, WorkerEnd,
         NoMoreWork, queues
    <3>4. Tick'
      BY <3>3 DEF Tick, AtMostOne, None, ItemsLeft
    <3>5. main \in AfterShutIngest
      BY <3>3, Zenon DEF Drain
    <3> QED
      BY <2>1, <3>4, <3>5, Zenon DEF Drain
  <2> QED
    BY <2>1, <2>2, Zenon DEF Drain
<1>4. ASSUME main \notin AfterShutIngest, main \notin {"start_workers", "failed"},
             worker' = worker,
             main' \in AfterSigwait => stop',
             "ingest" \in down' => main' \in AfterShutIngest
      PROVE  Drain'
  BY <1>4, Zenon DEF Drain, AllLeft
<1>5. ASSUME main \in AfterShutIngest, main' \in AfterShutIngest,
             UNCHANGED <<worker, ingest, producer, stop>>
      PROVE  Drain'
  <2>1. stop /\ main \notin {"start_workers", "failed"}
    BY <1>5, Zenon DEF Drain, AfterSigwait, AfterShutIngest, AfterJoinProducer,
       AfterJoinWorkers, AfterJoinConsumer, AfterDestroyTelemetry,
       AfterJoinTransport, AfterDestroyIngest
  <2> QED
    BY <1>5, <2>1, TickNext, Zenon DEF Drain, AllLeft
<1> USE DEF AfterShutIngest, AfterJoinProducer, AfterJoinWorkers, AfterJoinConsumer,
            AfterDestroyTelemetry, AfterJoinTransport, AfterDestroyIngest
<1>6. CASE StartWorkers
  <2>1. main = "start_workers" /\ main' = "start_transport" /\ UNCHANGED <<stop, down>>
    BY <1>6, StartupOrder, Zenon DEF StartWorkers, teardown
  <2>2. ~AllLeft'
    <3>1. PICK started \in (SUBSET Workers) \ {{}} :
             worker' = [w \in Workers |-> IF w \in started THEN "dequeue" ELSE "done"]
      BY <1>6, Zenon DEF StartWorkers
    <3>2. PICK w \in Workers : w \in started
      OBVIOUS
    <3>3. worker'[w] = "dequeue"
      BY <3>1, <3>2
    <3> QED
      BY <3>3, Zenon DEF AllLeft
  <2> QED
    BY <2>1, <2>2, Zenon DEF Drain, AfterSigwait
<1>7. CASE StartTransport \/ Subscribe \/ StartProducer \/ StartConsumer
  <2>1. /\ main \in {"start_transport", "subscribe_telemetry", "subscribe_alerts",
                     "start_producer", "start_consumer"}
        /\ main' \in {"subscribe_telemetry", "subscribe_alerts", "start_producer",
                      "start_consumer", "sigwait"}
        /\ worker' = worker /\ down' = down
    BY <1>7, StartupOrder, Zenon
    DEF StartTransport, Subscribe, StartProducer, StartConsumer, teardown, pool
  <2> QED
    BY <1>4, <2>1, Zenon DEF Drain, AfterSigwait
<1>8. CASE StartupFails
  <2>1. main' = "failed" /\ UNCHANGED <<stop, down>>
    BY <1>8, Zenon DEF StartupFails, teardown
  <2>2. main \notin AfterShutIngest
    BY <1>8 DEF StartupFails, Script
  <2> QED
    BY <2>1, <2>2, Zenon DEF Drain, AfterSigwait
<1>9. CASE Sigint
  <2>1. main = "sigwait" /\ main' = "shut_ingest" /\ UNCHANGED <<down, worker>> /\ stop'
    BY <1>9, StartupOrder, Zenon DEF Sigint, pool
  <2> QED
    BY <1>4, <2>1, Zenon DEF Drain
<1>10. CASE ShutQueues
  <2>1. UNCHANGED <<worker, ingest, producer, stop>>
    BY <1>10, Zenon DEF ShutQueues, queues, prod, pool
  <2>2. \/ main = "shut_ingest" /\ main' = "shut_telemetry"
        \/ main = "shut_telemetry" /\ main' = "shut_alerts"
        \/ main = "shut_alerts" /\ main' = "join_producer"
    BY <1>10, JoinOrder DEF ShutQueues, Shut
  <2>3. CASE main = "shut_ingest" /\ main' = "shut_telemetry"
    BY <1>4, <2>1, <2>3, Zenon DEF Drain, AfterSigwait
  <2> QED
    BY <1>5, <2>1, <2>2, <2>3, Zenon
<1>11. CASE Join \/ Unsubscribe \/ Destroy
  <2>1. UNCHANGED <<worker, ingest, producer, stop>>
    BY <1>11, Zenon DEF Join, Unsubscribe, Destroy, queues, prod, pool, teardown
  <2>2. CASE Join
    BY <1>5, <2>1, <2>2, JoinOrder, Zenon DEF Join
  <2>3. CASE Unsubscribe
    BY <1>5, <2>1, <2>3, DestroyOrder, Zenon DEF Unsubscribe
  <2>4. CASE Destroy
    <3>1. main \in AfterShutIngest /\ main' \in AfterShutIngest
      BY <2>4, DestroyOrder DEF Destroy, Frees
    <3> QED
      BY <1>5, <2>1, <3>1, Zenon
  <2> QED
    BY <1>11, <2>2, <2>3, <2>4, Zenon
<1> QED
  BY <1>1, <1>2, <1>3, <1>6, <1>7, <1>8, <1>9, <1>10, <1>11, Zenon
  DEF Next, Startup, Teardown, Ended

\* Once the workers are joined none of them holds an item, and at most the
\* producer's last tick is left on the ingest queue (worker_pool.c:39-41), for
\* every number of workers and every capacity.
THEOREM LastTickOnly == Spec => []AtMostOneTickLeft
<1>1. Init => Drain
  BY DEF Init, Drain, AfterSigwait, AfterShutIngest, AfterJoinProducer,
     AfterJoinWorkers, AfterJoinConsumer, AfterDestroyTelemetry,
     AfterJoinTransport, AfterDestroyIngest
<1>2. TInv /\ Order /\ Drain => AtMostOneTickLeft
  <2> SUFFICES ASSUME TInv, Order, Drain, Past("join_workers")
               PROVE  /\ \A t \in Types : AtMostOne(t)
                      /\ \A w \in Workers : work[w] = NoWork
    BY Zenon DEF AtMostOneTickLeft, AtMostOne
  <2>1. main \in AfterJoinWorkers
    BY ScriptDomain DEF Past, Script, AfterJoinWorkers, AfterJoinConsumer,
       AfterDestroyTelemetry, AfterJoinTransport, AfterDestroyIngest
  <2>2. main \notin {"start_workers", "failed"}
    BY <2>1, Zenon DEF AfterJoinWorkers, AfterJoinConsumer, AfterDestroyTelemetry,
       AfterJoinTransport, AfterDestroyIngest
  <2>3. AllLeft
    BY <2>1, Zenon DEF Order, AllLeft
  <2>4. \A w \in Workers : work[w] = NoWork
    BY <2>3, Zenon DEF AllLeft, TInv, Holding
  <2> QED
    BY <2>2, <2>3, <2>4, Zenon DEF Drain, Tick
<1>3. Init => Order
  BY DEF Init, Order, AfterJoinProducer, AfterJoinWorkers, AfterJoinConsumer,
     AfterDestroyTelemetry, AfterJoinTransport, AfterDestroyIngest
<1> QED
  BY <1>1, <1>2, <1>3, DrainNext, OrderNext, TypeInit, TypeNext, PTL DEF Spec

-----------------------------------------------------------------------------
(* Nobody waits in vain                                                     *)

\* The queues are shut down before the joins, threads run only once they have
\* been started, and the flag is raised by SIGINT alone.
Shutting ==
    /\ main \in AfterShutIngest => "ingest" \in down
    /\ main \in AfterShutIngest \ {"shut_telemetry"} => "telemetry" \in down
    /\ stop => main \in AfterSigwait
    /\ producer # "off" => main \notin Starting
    /\ main \notin {"start_workers", "failed"} => \A w \in Workers : worker[w] # "off"

\* Every step keeps this.
LEMMA ShuttingNext == Shutting /\ TInv /\ [Next]_vars => Shutting'
<1> SUFFICES ASSUME Shutting, TInv, [Next]_vars PROVE Shutting'
  OBVIOUS
<1>1. CASE Producer \/ Consumer \/ (\E w \in Workers : Worker(w))
             \/ ClientTriggersAlert \/ TransportEnd
  <2>1. UNCHANGED <<main, stop, down>>
    BY <1>1, ThreadsEnd, Zenon
  <2>2. producer' # "off" => producer # "off"
    BY <1>1 DEF Producer, ProducerTop, ProducerEnqueue, ProducerAlert, ProducerSleep,
       Consumer, ConsumerDequeue, ConsumerAlert, Worker, WorkerDequeue, WorkerEnd,
       WorkerPublish, ClientTriggersAlert, TransportEnd, prod
  <2>3. \A x \in Workers : worker[x] # "off" => worker'[x] # "off"
    <3>1. CASE worker' = worker
      BY <3>1
    <3>2. ASSUME NEW w \in Workers, Worker(w)
          PROVE  \A x \in Workers : worker[x] # "off" => worker'[x] # "off"
      <4>1. PICK pc \in {"dequeue", "publish", "done"} : worker' = [worker EXCEPT ![w] = pc]
        BY <3>2, Zenon DEF Worker, WorkerDequeue, WorkerEnd, WorkerPublish
      <4>2. worker \in [Workers -> {"off", "dequeue", "publish", "done"}]
        BY Parts, Zenon DEF Pool
      <4>3. pc # "off"
        BY <4>1
      <4> QED
        BY <4>1, <4>2, <4>3, Zenon
    <3> QED
      BY <1>1, <3>1, <3>2, Zenon
      DEF Producer, ProducerTop, ProducerEnqueue, ProducerAlert, ProducerSleep, pool,
          Consumer, ConsumerDequeue, ConsumerAlert, ClientTriggersAlert, TransportEnd
  <2> QED
    BY <2>1, <2>2, <2>3, Zenon DEF Shutting
<1> USE DEF AfterSigwait, AfterShutIngest, AfterJoinProducer, AfterJoinWorkers,
            AfterJoinConsumer, AfterDestroyTelemetry, AfterJoinTransport,
            AfterDestroyIngest, Starting
<1>2. CASE StartWorkers
  <2>1. /\ main = "start_workers" /\ main' = "start_transport"
        /\ UNCHANGED <<stop, producer>>
    BY <1>2, StartupOrder, Zenon DEF StartWorkers, teardown, prod
  <2>2. \A w \in Workers : worker'[w] # "off"
    BY <1>2 DEF StartWorkers
  <2> QED
    BY <2>1, <2>2, Zenon DEF Shutting
<1>3. CASE StartTransport \/ Subscribe
  <2>1. /\ main \in {"start_transport", "subscribe_telemetry", "subscribe_alerts"}
        /\ main' \in {"subscribe_telemetry", "subscribe_alerts", "start_producer"}
        /\ UNCHANGED <<stop, producer, worker>>
    BY <1>3, StartupOrder, Zenon DEF StartTransport, Subscribe, teardown, prod, pool
  <2> QED
    BY <2>1, Zenon DEF Shutting
<1>4. CASE StartProducer \/ StartConsumer \/ Sigint
  <2>1. UNCHANGED worker
    BY <1>4, Zenon DEF StartProducer, StartConsumer, Sigint, pool
  <2>2. \/ main = "start_producer" /\ main' = "start_consumer" /\ UNCHANGED stop
        \/ main = "start_consumer" /\ main' = "sigwait" /\ UNCHANGED stop
        \/ main = "sigwait" /\ main' = "shut_ingest"
    BY <1>4, StartupOrder, Zenon DEF StartProducer, StartConsumer, Sigint, teardown
  <2> QED
    BY <2>1, <2>2 DEF Shutting
<1>5. CASE StartupFails
  <2>1. main' = "failed" /\ UNCHANGED stop /\ main \notin AfterSigwait
    BY <1>5 DEF StartupFails, teardown, Script
  <2> QED
    BY <2>1, Zenon DEF Shutting
<1>6. CASE ShutQueues
  <2>1. UNCHANGED <<worker, producer, stop>>
    BY <1>6, Zenon DEF ShutQueues, prod, pool
  <2>2. \/ main = "shut_ingest" /\ main' = "shut_telemetry" /\ down' = down \cup {"ingest"}
        \/ main = "shut_telemetry" /\ main' = "shut_alerts" /\ down' = down \cup {"telemetry"}
        \/ main = "shut_alerts" /\ main' = "join_producer" /\ down' = down \cup {"alert"}
    BY <1>6, JoinOrder DEF ShutQueues, Shut
  <2> QED
    BY <2>1, <2>2 DEF Shutting
<1>7. CASE Join \/ Unsubscribe \/ Destroy
  <2>1. UNCHANGED <<worker, producer, stop, down>>
    BY <1>7, Zenon DEF Join, Unsubscribe, Destroy, prod, pool, teardown
  <2>2. /\ main \in AfterShutIngest \ {"shut_telemetry"}
        /\ main' \in AfterShutIngest \ {"shut_telemetry"}
    BY <1>7, JoinOrder, DestroyOrder DEF Join, Unsubscribe, Destroy, Frees
  <2> QED
    BY <2>1, <2>2 DEF Shutting
<1>8. CASE UNCHANGED vars
  BY <1>8, Zenon DEF vars, Shutting
<1> QED
  BY <1>1, <1>2, <1>3, <1>4, <1>5, <1>6, <1>7, <1>8, Zenon
  DEF Next, Startup, Teardown, Ended

LEMMA ShuttingInit == Init => Shutting
BY DEF Init, Shutting, AfterSigwait, AfterShutIngest, AfterJoinProducer,
   AfterJoinWorkers, AfterJoinConsumer, AfterDestroyTelemetry, AfterJoinTransport,
   AfterDestroyIngest

LEMMA DrainInit == Init => Order /\ Drain
BY DEF Init, Order, Drain, AfterSigwait, AfterShutIngest, AfterJoinProducer,
   AfterJoinWorkers, AfterJoinConsumer, AfterDestroyTelemetry,
   AfterJoinTransport, AfterDestroyIngest

\* A producer blocked on a full ring has a worker that can run, and no thread that
\* main joins is blocked (main.c:243-254), for every number of workers and every
\* capacity.
THEOREM WaitsAreServed == Spec => []NobodyWaitsInVain
<1>1. TInv /\ Drain /\ Shutting => NobodyWaitsInVain
  <2> SUFFICES ASSUME TInv, Drain, Shutting PROVE NobodyWaitsInVain
    OBVIOUS
  <2>1. ASSUME ProcessRuns, producer = "enqueue", ~EnqueueReturns
        PROVE  \E w \in Workers :
                  worker[w] = "publish" \/ (worker[w] = "dequeue" /\ DequeueReturns)
    <3>1. main \notin {"start_workers", "failed"} /\ main \notin AfterShutIngest
      BY <2>1, Zenon DEF Shutting, Starting, ProcessRuns, EnqueueReturns
    <3>2. PICK w \in Workers : worker[w] # "done"
      BY <3>1, Zenon DEF Drain, AllLeft
    <3>3. worker[w] = "publish" \/ worker[w] = "dequeue"
      <4>1. worker[w] \in {"off", "dequeue", "publish", "done"} /\ worker[w] # "off"
        BY <3>1, Parts DEF Pool, Shutting
      <4> QED
        BY <3>2, <4>1, Zenon
    <3>4. ingest # <<>>
      BY <2>1, Parts DEF EnqueueReturns, IngestHasRoom
    <3> QED
      BY <3>3, <3>4, Zenon DEF DequeueReturns
  <2>2. main \in {"join_producer", "join_workers", "join_consumer"} =>
           "ingest" \in down /\ "telemetry" \in down
    BY DEF Shutting, AfterShutIngest, AfterJoinProducer, AfterJoinWorkers
  <2> QED
    BY <2>1, <2>2, Zenon DEF NobodyWaitsInVain, EnqueueReturns, DequeueReturns
<1> QED
  BY <1>1, DrainInit, DrainNext, OrderNext, ShuttingInit, ShuttingNext, TypeInit,
     TypeNext, PTL DEF Spec

-----------------------------------------------------------------------------
(* Every step after SIGINT brings the end nearer                            *)

\* The parts of StepsLeft.
At(step) == CHOOSE i \in DOMAIN Script : Script[i] = step
Pass(pc) == [off |-> 0, done |-> 0, top |-> 1, sleep |-> 2, alert |-> 7,
             enqueue |-> 12][pc]
Turn(pc) == [off |-> 0, done |-> 0, dequeue |-> 1, alert |-> 2][pc]
Busy == {w \in Workers : worker[w] \in {"dequeue", "publish"}}
Publishing == {w \in Workers : worker[w] = "publish"}

MainAt == At(main)
InPass == Pass(producer)
InTurn == Turn(consumer)
NBusy == Cardinality(Busy)
NPublishing == Cardinality(Publishing)
NIngest == Len(ingest)
NInbox == Len(inbox["telemetry"])
NAsked == commands
Awaited == IF transport = "running" THEN 1 ELSE 0

Total == (22 - MainAt) + InPass + InTurn + NBusy + 3 * NPublishing
         + 4 * NIngest + 2 * NInbox + 5 * (MaxCommands - NAsked) + Awaited

\* SIGINT has been taken.
Leaving == main \in AfterSigwait

\* They are numbers.
Counts ==
    /\ MainAt \in Nat /\ InPass \in Nat /\ InTurn \in Nat /\ NBusy \in Nat
    /\ NPublishing \in Nat /\ NIngest \in Nat /\ NInbox \in Nat /\ NAsked \in Nat
    /\ Awaited \in Nat

\* main is at one place of its script.
LEMMA Places == Len(Script) = 22 /\ \A i \in 1 .. 22 : At(Script[i]) = i
<1>1. Len(Script) = 22 /\ DOMAIN Script = 1 .. 22
  BY DEF Script
<1>2. \A i, j \in 1 .. 22 : Script[i] = Script[j] => i = j
  BY DEF Script
<1> QED
  BY <1>1, <1>2, Zenon DEF At

LEMMA Sum == StepsLeft = Total /\ StepsLeft' = Total'
BY Places, Zenon DEF StepsLeft, Total, MainAt, InPass, InTurn, NBusy, NPublishing,
   NIngest, NInbox, NAsked, At, Pass, Turn, Busy, Publishing, Awaited

\* What a step of each thread costs.
LEMMA PassCosts ==
    /\ Pass("off") = 0 /\ Pass("done") = 0 /\ Pass("top") = 1
    /\ Pass("sleep") = 2 /\ Pass("alert") = 7 /\ Pass("enqueue") = 12
    /\ Turn("off") = 0 /\ Turn("done") = 0 /\ Turn("dequeue") = 1 /\ Turn("alert") = 2
BY DEF Pass, Turn

\* The workers are finitely many.
LEMMA FewWorkers == IsFiniteSet(Busy) /\ IsFiniteSet(Publishing)
<1>1. Busy \in SUBSET Workers /\ Publishing \in SUBSET Workers
  BY Zenon DEF Busy, Publishing
<1> QED
  BY <1>1, PoolAssumption, FS_Subset, Zenon

LEMMA Numbers == TInv /\ Leaving => Counts
<1> SUFFICES ASSUME TInv, Leaving PROVE Counts
  OBVIOUS
<1>1. Singles /\ Queues
  BY Parts, Zenon
<1>2. InPass \in Nat /\ InTurn \in Nat
  BY <1>1, PassCosts DEF Singles, InPass, InTurn
<1>3. Awaited \in Nat /\ NAsked \in Nat /\ NIngest \in Nat /\ NInbox \in Nat
  BY <1>1 DEF Singles, Awaited, Queues, Ingested, Delivered, Types, NAsked, NIngest, NInbox
<1>4. NBusy \in Nat /\ NPublishing \in Nat
  BY FewWorkers, FS_CardinalityType, Zenon DEF NBusy, NPublishing
<1>5. MainAt \in Nat
  <2>1. \E i \in 1 .. 22 : main = Script[i]
    BY ScriptDomain, ScriptSteps, Zenon DEF Steps, Leaving
  <2> QED
    BY <2>1, Places DEF MainAt
<1> QED
  BY <1>2, <1>3, <1>4, <1>5, Zenon DEF Counts

\* A worker that goes from one place to another.
LEMMA Counted ==
    ASSUME TInv, NEW w \in Workers, NEW pc, worker' = [worker EXCEPT ![w] = pc]
    PROVE  /\ worker[w] = "dequeue" /\ pc = "publish" =>
                NBusy' = NBusy /\ NPublishing' = NPublishing + 1
           /\ worker[w] = "publish" /\ pc = "dequeue" =>
                NBusy' = NBusy /\ NPublishing' = NPublishing - 1
           /\ worker[w] = "dequeue" /\ pc = "done" =>
                NBusy' = NBusy - 1 /\ NPublishing' = NPublishing
<1>1. worker \in [Workers -> {"off", "dequeue", "publish", "done"}]
  BY Parts, Zenon DEF Pool
<1>2. worker'[w] = pc /\ \A x \in Workers : x # w => worker'[x] = worker[x]
  BY <1>1, Zenon
<1>3. CASE worker[w] = "dequeue" /\ pc = "publish"
  <2>1. Busy' = Busy /\ Publishing' = Publishing \cup {w} /\ w \notin Publishing
    BY <1>2, <1>3 DEF Busy, Publishing
  <2> QED
    BY <1>3, <2>1, FewWorkers, FS_AddElement, Zenon DEF NBusy, NPublishing
<1>4. CASE worker[w] = "publish" /\ pc = "dequeue"
  <2>1. Busy' = Busy /\ Publishing' = Publishing \ {w} /\ w \in Publishing
    BY <1>2, <1>4 DEF Busy, Publishing
  <2> QED
    BY <1>4, <2>1, FewWorkers, FS_RemoveElement, Zenon DEF NBusy, NPublishing
<1>5. CASE worker[w] = "dequeue" /\ pc = "done"
  <2>1. Publishing' = Publishing /\ Busy' = Busy \ {w} /\ w \in Busy
    BY <1>2, <1>5 DEF Busy, Publishing
  <2> QED
    BY <1>5, <2>1, FewWorkers, FS_RemoveElement, Zenon DEF NBusy, NPublishing
<1> QED
  BY <1>3, <1>4, <1>5, Zenon

\* The parts that depend on what a step leaves alone.
LEMMA Untouched ==
    /\ main' = main => MainAt' = MainAt
    /\ producer' = producer => InPass' = InPass
    /\ consumer' = consumer => InTurn' = InTurn
    /\ worker' = worker => NBusy' = NBusy /\ NPublishing' = NPublishing
    /\ ingest' = ingest => NIngest' = NIngest
    /\ inbox' = inbox => NInbox' = NInbox
    /\ commands' = commands => NAsked' = NAsked
    /\ transport' = transport => Awaited' = Awaited
BY Zenon DEF MainAt, InPass, InTurn, NBusy, NPublishing, Busy, Publishing, NIngest,
   NInbox, NAsked, Awaited

\* The producer finishes its pass.
LEMMA ProducerAdvances ==
    ASSUME TInv, stop, Counts, Counts', Producer PROVE Total' < Total
<1>1. UNCHANGED <<main, inbox, worker, consumer, transport, commands>>
  BY Zenon DEF Producer, ProducerTop, ProducerEnqueue, ProducerAlert, ProducerSleep,
     queues, pool, client
<1>2. UNCHANGED <<MainAt, InTurn, NBusy, NPublishing, NInbox, NAsked, Awaited>>
  BY <1>1, Untouched, Zenon
<1>3. \A x : Len(Append(ingest, x)) = Len(ingest) + 1
  BY Parts DEF Queues, Ingested
<1>4. \/ producer = "top" /\ producer' = "done" /\ ingest' = ingest
      \/ /\ producer = "enqueue" /\ producer' \in {"alert", "sleep"}
         /\ Len(ingest') = Len(ingest) + 1
      \/ producer \in {"enqueue", "alert"} /\ producer' = "done" /\ ingest' = ingest
      \/ producer = "alert" /\ producer' = "sleep" /\ Len(ingest') = Len(ingest) + 1
      \/ producer = "sleep" /\ producer' = "top" /\ ingest' = ingest
  BY <1>3, Zenon DEF Producer, ProducerTop, ProducerEnqueue, ProducerAlert, ProducerSleep,
     ProducerEnd, ShutdownRequested, queues
<1>5. \/ InPass = 1 /\ InPass' = 0 /\ NIngest' = NIngest
      \/ InPass = 12 /\ InPass' \in {7, 2} /\ NIngest' = NIngest + 1
      \/ InPass \in {12, 7} /\ InPass' = 0 /\ NIngest' = NIngest
      \/ InPass = 7 /\ InPass' = 2 /\ NIngest' = NIngest + 1
      \/ InPass = 2 /\ InPass' = 1 /\ NIngest' = NIngest
  BY <1>4, PassCosts, Zenon DEF InPass, NIngest
<1> USE PipelineAssumption DEF Total, Counts
<1>6. CASE InPass = 1 /\ InPass' = 0 /\ NIngest' = NIngest
  BY <1>2, <1>6
<1>7. CASE InPass = 12 /\ InPass' = 7 /\ NIngest' = NIngest + 1
  BY <1>2, <1>7
<1>8. CASE InPass = 12 /\ InPass' = 2 /\ NIngest' = NIngest + 1
  BY <1>2, <1>8
<1>9. CASE InPass = 12 /\ InPass' = 0 /\ NIngest' = NIngest
  BY <1>2, <1>9
<1>10. CASE InPass = 7 /\ InPass' = 0 /\ NIngest' = NIngest
  BY <1>2, <1>10
<1>11. CASE InPass = 7 /\ InPass' = 2 /\ NIngest' = NIngest + 1
  BY <1>2, <1>11
<1>12. CASE InPass = 2 /\ InPass' = 1 /\ NIngest' = NIngest
  BY <1>2, <1>12
<1> HIDE DEF Total, Counts
<1> QED
  BY <1>5, <1>6, <1>7, <1>8, <1>9, <1>10, <1>11, <1>12, Zenon

\* A worker moves an item on, or ends.
LEMMA WorkerAdvances ==
    ASSUME TInv, Counts, Counts', NEW w \in Workers, Worker(w) PROVE Total' < Total
<1>1. UNCHANGED <<main, producer, consumer, transport, commands>>
  BY DEF Worker, WorkerDequeue, WorkerEnd, WorkerPublish, teardown, prod, client
<1>2. UNCHANGED <<MainAt, InPass, InTurn, NAsked, Awaited>>
  BY <1>1, Untouched, Zenon
<1>3. Queues
  BY Parts, Zenon
<1>4. CASE WorkerDequeue(w) /\ WorkerEnd(w)
  <2>1. UNCHANGED <<NIngest, NInbox>>
    BY <1>4, Untouched, Zenon DEF WorkerEnd, queues
  <2>2. worker[w] = "dequeue" /\ worker' = [worker EXCEPT ![w] = "done"]
    BY <1>4, Zenon DEF WorkerDequeue, WorkerEnd
  <2>3. NBusy' = NBusy - 1 /\ NPublishing' = NPublishing
    BY <2>2, Counted, Zenon
  <2> QED
    BY <1>2, <2>1, <2>3, PipelineAssumption DEF Total, Counts
<1>5. CASE WorkerDequeue(w) /\ ~WorkerEnd(w)
  <2>1. /\ worker[w] = "dequeue" /\ worker' = [worker EXCEPT ![w] = "publish"]
        /\ ingest # <<>> /\ ingest' = Tail(ingest) /\ UNCHANGED inbox
    BY <1>5, Zenon DEF WorkerDequeue
  <2>2. NIngest' = NIngest - 1
    BY <1>3, <2>1 DEF Queues, Ingested, NIngest
  <2>3. NBusy' = NBusy /\ NPublishing' = NPublishing + 1
    BY <2>1, Counted, Zenon
  <2>4. NInbox' = NInbox
    BY <2>1, Untouched, Zenon
  <2> QED
    BY <1>2, <2>2, <2>3, <2>4, PipelineAssumption DEF Total, Counts
<1>6. CASE WorkerPublish(w)
  <2>1. /\ worker[w] = "publish" /\ worker' = [worker EXCEPT ![w] = "dequeue"]
        /\ UNCHANGED ingest
    BY <1>6, Zenon DEF WorkerPublish
  <2>2. NInbox' \in {NInbox, NInbox + 1}
    <3>1. CASE UNCHANGED inbox
      BY <3>1, Untouched, Zenon
    <3>2. CASE \E t, x : inbox' = [inbox EXCEPT ![t] = Append(@, x)]
      BY <1>3, <3>2 DEF Queues, Delivered, Types, NInbox
    <3> QED
      BY <1>6, <3>1, <3>2, Zenon DEF WorkerPublish
  <2>3. NBusy' = NBusy /\ NPublishing' = NPublishing - 1
    BY <2>1, Counted, Zenon
  <2>4. NIngest' = NIngest
    BY <2>1, Untouched, Zenon
  <2>5. CASE NInbox' = NInbox
    BY <1>2, <2>3, <2>4, <2>5, PipelineAssumption DEF Total, Counts
  <2>6. CASE NInbox' = NInbox + 1
    BY <1>2, <2>3, <2>4, <2>6, PipelineAssumption DEF Total, Counts
  <2> QED
    BY <2>2, <2>5, <2>6, Zenon
<1> QED
  BY <1>4, <1>5, <1>6, Zenon DEF Worker

\* The consumer empties its queue, then ends.
LEMMA ConsumerAdvances ==
    ASSUME TInv, Counts, Counts', Consumer PROVE Total' < Total
<1>1. UNCHANGED <<main, ingest, producer, worker, transport, commands>>
  BY DEF Consumer, ConsumerDequeue, ConsumerAlert, teardown, prod, pool, client
<1>2. UNCHANGED <<MainAt, InPass, NBusy, NPublishing, NIngest, NAsked, Awaited>>
  BY <1>1, Untouched, Zenon
<1>3. Queues
  BY Parts, Zenon
<1>4. \/ consumer = "dequeue" /\ consumer' = "done" /\ UNCHANGED inbox
      \/ /\ consumer = "dequeue" /\ consumer' = "alert"
         /\ Len(inbox'["telemetry"]) = Len(inbox["telemetry"]) - 1
      \/ /\ consumer = "alert" /\ consumer' = "dequeue"
         /\ inbox'["telemetry"] = inbox["telemetry"]
  BY <1>3 DEF Consumer, ConsumerDequeue, ConsumerAlert, LeaveLoop, Queues, Delivered, Types
<1>5. \/ InTurn = 1 /\ InTurn' = 0 /\ NInbox' = NInbox
      \/ InTurn = 1 /\ InTurn' = 2 /\ NInbox' = NInbox - 1
      \/ InTurn = 2 /\ InTurn' = 1 /\ NInbox' = NInbox
  BY <1>4, PassCosts, Zenon DEF InTurn, NInbox
<1>6. CASE InTurn = 1 /\ InTurn' = 0 /\ NInbox' = NInbox
  BY <1>2, <1>6, PipelineAssumption DEF Total, Counts
<1>7. CASE InTurn = 1 /\ InTurn' = 2 /\ NInbox' = NInbox - 1
  BY <1>2, <1>7, PipelineAssumption DEF Total, Counts
<1>8. CASE InTurn = 2 /\ InTurn' = 1 /\ NInbox' = NInbox
  BY <1>2, <1>8, PipelineAssumption DEF Total, Counts
<1> QED
  BY <1>5, <1>6, <1>7, <1>8, Zenon

\* The clients run out of commands and the transport ends once.
LEMMA TransportAdvances ==
    ASSUME TInv, Counts, Counts', ClientTriggersAlert \/ TransportEnd PROVE Total' < Total
<1>1. UNCHANGED <<main, inbox, producer, worker, consumer>>
  BY DEF ClientTriggersAlert, TransportEnd, queues, teardown, prod, pool
<1>2. UNCHANGED <<MainAt, InPass, InTurn, NBusy, NPublishing, NInbox>>
  BY <1>1, Untouched, Zenon
<1>3. Queues
  BY Parts, Zenon
<1>4. CASE ClientTriggersAlert
  <2>1. NAsked' = NAsked + 1 /\ Awaited' = Awaited
    BY <1>4, Zenon DEF ClientTriggersAlert, NAsked, Awaited
  <2>2. NIngest' \in {NIngest, NIngest + 1}
    BY <1>3, <1>4 DEF ClientTriggersAlert, NIngest, Queues, Ingested
  <2>3. CASE NIngest' = NIngest
    BY <1>2, <2>1, <2>3, PipelineAssumption DEF Total, Counts
  <2>4. CASE NIngest' = NIngest + 1
    BY <1>2, <2>1, <2>4, PipelineAssumption DEF Total, Counts
  <2> QED
    BY <2>2, <2>3, <2>4, Zenon
<1>5. CASE TransportEnd
  <2>1. NAsked' = NAsked /\ NIngest' = NIngest
    BY <1>5, Untouched, Zenon DEF TransportEnd, queues
  <2>2. Awaited = 1 /\ Awaited' = 0
    BY <1>5 DEF TransportEnd, Awaited
  <2> QED
    BY <1>2, <2>1, <2>2, PipelineAssumption DEF Total, Counts
<1> QED
  BY <1>4, <1>5

\* main goes on to the next step of its script.
LEMMA MainAdvances ==
    ASSUME Counts, Counts', Teardown PROVE Total' < Total
<1>1. UNCHANGED <<ingest, inbox, producer, worker, consumer, transport, commands>>
  BY DEF Teardown, ShutQueues, Join, Unsubscribe, Destroy, queues, prod, pool, client
<1>2. UNCHANGED <<InPass, InTurn, NBusy, NPublishing, NIngest, NInbox, NAsked, Awaited>>
  BY <1>1, Untouched, Zenon
<1>3. PICK step : Do(step) /\ step # "exit"
  BY DEF Teardown, ShutQueues, Shut, Join, Unsubscribe, Destroy, Frees
<1>4. PICK i \in 1 .. 22 : main = Script[i] /\ main' = Script[i + 1] /\ i # 22
  <2>1. Script[22] = "exit"
    BY DEF Script
  <2> QED
    BY <1>3, <2>1, ScriptDomain, Zenon DEF Do
<1>5. MainAt = i /\ MainAt' = i + 1
  <2>1. i \in 1 .. 22 /\ i + 1 \in 1 .. 22
    BY <1>4
  <2> QED
    BY <1>4, <2>1, Places, Zenon DEF MainAt
<1> QED
  BY <1>2, <1>5, PipelineAssumption DEF Total, Counts

\* Once SIGINT has been taken every step of every thread (main.c:53-181, 242-276)
\* brings the process nearer to its end: nothing is done twice, and no thread can
\* keep the teardown from finishing by running.
THEOREM StepsRunOut == Spec => TeardownAdvances
<1>1. TInv /\ TInv' /\ Shutting /\ Shutting' /\ [Next]_vars
         => [stop => StepsLeft' < StepsLeft]_vars
  <2> SUFFICES ASSUME TInv, TInv', Shutting, Shutting', Next, stop, ~UNCHANGED vars
               PROVE  StepsLeft' < StepsLeft
    BY Zenon
  <2>1. Leaving
    BY Zenon DEF Shutting, Leaving
  <2>2. ~(Startup \/ StartupFails \/ Sigint)
    <3>1. main \notin {"start_workers", "start_transport", "subscribe_telemetry",
                       "subscribe_alerts", "start_producer", "start_consumer", "sigwait"}
      BY <2>1 DEF Leaving, AfterSigwait, AfterShutIngest, AfterJoinProducer, AfterJoinWorkers,
         AfterJoinConsumer, AfterDestroyTelemetry, AfterJoinTransport, AfterDestroyIngest
    <3>2. ~StartupFails
      BY <3>1 DEF StartupFails, Script
    <3> QED
      BY <3>1, <3>2, StartupOrder, Zenon
      DEF Startup, StartWorkers, StartTransport, Subscribe, StartProducer,
          StartConsumer, Sigint
  <2>3. Leaving'
    <3>1. stop'
      BY <2>2, ThreadsEnd, Zenon
      DEF Next, Ended, Teardown, ShutQueues, Join, Unsubscribe, Destroy, teardown
    <3> QED
      BY <3>1, Zenon DEF Shutting, Leaving
  <2>4. Counts /\ Counts'
    BY <2>1, <2>3, Numbers, PTL
  <2>5. Total' < Total
    BY <2>2, <2>4, ProducerAdvances, WorkerAdvances, ConsumerAdvances,
       TransportAdvances, MainAdvances, Zenon DEF Next, Ended
  <2> QED
    BY <2>5, Sum, Zenon
<1> QED
  BY <1>1, ShuttingInit, ShuttingNext, TypeInit, TypeNext, PTL
  DEF Spec, TeardownAdvances
=============================================================================
