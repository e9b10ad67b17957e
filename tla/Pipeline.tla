------------------------------ MODULE Pipeline ------------------------------
(***************************************************************************)
(* The process of c/src/main.c: the main thread's startup and teardown,    *)
(* the producer, the worker pool (c/src/worker_pool.c), the consumer, and  *)
(* as much of the transport as reaches into them: a thread that may put    *)
(* alerts on the ingest queue for a client (apply_trigger_alert,           *)
(* command.c:77-108) for as long as it runs.                               *)
(*                                                                         *)
(* A queue is the bounded FIFO that MsgQueue implements (BoundedQueue): a  *)
(* blocked call is an action that is not enabled.  An item is its type and *)
(* who made it; publishing reaches the consumer's two queues, the fan-out  *)
(* to client connections is the subject of PubSub.                         *)
(***************************************************************************)
EXTENDS Naturals, Sequences, FiniteSets

CONSTANTS
    Workers,
    IngestCapacity,         \* of ingest_queue
    SubscriberCapacity,     \* of the consumer's queues
    ALERT_PERIOD,           \* 5 in producer_routine
    MaxCommands             \* bound: alerts a client triggers in a behaviour

ASSUME PipelineAssumption ==
    /\ IngestCapacity \in Nat \ {0}
    /\ SubscriberCapacity \in Nat \ {0}
    /\ ALERT_PERIOD \in Nat \ {0}
    /\ MaxCommands \in Nat

\* worker_pool_create is given a number of threads.
ASSUME PoolAssumption == IsFiniteSet(Workers)

Types == {"telemetry", "alert"}
Items == [type : Types, from : {"producer", "client"}]

VARIABLES
    main,           \* what the main thread does next
    stop,           \* shutdown_requested()
    ingest,         \* contents of ingest_queue
    inbox,          \* contents of the consumer's queue for each type
    down,           \* queues that msg_queue_shutdown has been called on
    subscribed,     \* types whose consumer queue is subscribed
    destroyed,      \* objects main has destroyed
    producer, counter, ended,   \* pc, counter % ALERT_PERIOD, why it ended
    worker, work,   \* each worker's pc and the item it holds
    consumer,
    transport,      \* the transport thread and its command listener
    commands        \* alerts triggered so far

vars == <<main, stop, ingest, inbox, down, subscribed, destroyed, producer,
          counter, ended, worker, work, consumer, transport, commands>>

queues == <<ingest, inbox>>
prod == <<producer, counter, ended>>
pool == <<worker, work>>
client == <<transport, commands>>
teardown == <<stop, down, subscribed, destroyed>>

NoWork == <<>>

Init ==
    /\ main = "start_workers"
    /\ stop = FALSE
    /\ ingest = <<>>
    /\ inbox = [t \in Types |-> <<>>]
    /\ down = {} /\ subscribed = {} /\ destroyed = {}
    /\ producer = "off" /\ counter = 0 /\ ended = "not"
    /\ worker = [w \in Workers |-> "off"]
    /\ work = [w \in Workers |-> NoWork]
    /\ consumer = "off"
    /\ transport = "off" /\ commands = 0

\* When main returns, the process ends and takes every thread with it.
ProcessRuns == main \notin {"failed", "exit"}

-----------------------------------------------------------------------------
(* producer_routine                                                        *)

\* Mutant: off by one at the limit.
RoomForOneMore == Len(ingest) <= IngestCapacity

\* The test every enqueue makes of ingest_queue.
IngestHasRoom == Len(ingest) < IngestCapacity

ProducerEnd(why) == producer' = "done" /\ ended' = why /\ UNCHANGED counter

\* Mutant: the loop does not look.
NeverRequested == FALSE

ShutdownRequested == stop

ProducerTop ==
    /\ ProcessRuns /\ producer = "top"
    /\ \/ ShutdownRequested /\ ProducerEnd("stop")
       \/ ~ShutdownRequested /\ ProducerEnd("out_of_memory")
       \/ /\ ~ShutdownRequested
          /\ counter' = (counter + 1) % ALERT_PERIOD
          /\ producer' = "enqueue"
          /\ UNCHANGED ended
    /\ UNCHANGED <<main, queues, teardown, pool, consumer, client>>

\* msg_queue_enqueue blocks while the ring is full and open.
ProducerEnqueue ==
    /\ ProcessRuns /\ producer = "enqueue"
    /\ \/ /\ IngestHasRoom
          /\ ingest' = Append(ingest, [type |-> "telemetry", from |-> "producer"])
          /\ producer' = IF counter = 0 THEN "alert" ELSE "sleep"
          /\ UNCHANGED <<counter, ended>>
       \/ /\ ~IngestHasRoom /\ "ingest" \in down
          /\ ProducerEnd("refused")
          /\ UNCHANGED ingest
    /\ UNCHANGED <<main, inbox, teardown, pool, consumer, client>>

\* The alert of every fifth tick; when it does not fit the routine ends.
ProducerAlert ==
    /\ ProcessRuns /\ producer = "alert"
    /\ \/ ProducerEnd("out_of_memory") /\ UNCHANGED ingest
       \/ /\ IngestHasRoom
          /\ ingest' = Append(ingest, [type |-> "alert", from |-> "producer"])
          /\ producer' = "sleep"
          /\ UNCHANGED <<counter, ended>>
       \/ /\ ~IngestHasRoom
          /\ ProducerEnd("alert_did_not_fit")
          /\ UNCHANGED ingest
    /\ UNCHANGED <<main, inbox, teardown, pool, consumer, client>>

ProducerSleep ==
    /\ ProcessRuns /\ producer = "sleep"
    /\ producer' = "top"
    /\ UNCHANGED <<main, queues, teardown, counter, ended, pool, consumer, client>>

-----------------------------------------------------------------------------
(* worker_routine                                                          *)

WorkerEnd(w) ==
    /\ worker' = [worker EXCEPT ![w] = "done"]
    /\ UNCHANGED <<main, queues, teardown, prod, work, consumer, client>>

\* Mutant: a worker leaves as soon as the queue is shut down.
NoMoreWorkUndrained == "ingest" \in down

NoMoreWork == ingest = <<>> /\ "ingest" \in down

\* msg_queue_dequeue blocks while the ring is empty and open.
WorkerDequeue(w) ==
    /\ ProcessRuns /\ worker[w] = "dequeue"
    /\ \/ NoMoreWork /\ WorkerEnd(w)
       \/ /\ ingest # <<>>
          /\ work' = [work EXCEPT ![w] = <<Head(ingest)>>]
          /\ ingest' = Tail(ingest)
          /\ worker' = [worker EXCEPT ![w] = "publish"]
          /\ UNCHANGED <<main, inbox, teardown, prod, consumer, client>>

\* Mutant: the publisher waits for room in the subscriber's queue.
NotDropped(type) == type \notin subscribed

\* The consumer's queue is not subscribed, is full, or there is no memory.
MayBeDropped(type) == TRUE

\* pubsub_publish clones the message into the consumer's queue, unless
\* it drops the message, and the worker frees its own.
WorkerPublish(w) ==
    /\ ProcessRuns /\ worker[w] = "publish"
    /\ LET t == work[w][1].type
       IN  \/ /\ t \in subscribed /\ Len(inbox[t]) < SubscriberCapacity
              /\ inbox' = [inbox EXCEPT ![t] = Append(@, work[w][1])]
           \/ MayBeDropped(t) /\ UNCHANGED inbox
    /\ work' = [work EXCEPT ![w] = NoWork]
    /\ worker' = [worker EXCEPT ![w] = "dequeue"]
    /\ UNCHANGED <<main, ingest, teardown, prod, consumer, client>>

-----------------------------------------------------------------------------
(* consumer_routine: a blocking dequeue of telemetry, then at most one     *)
(* alert.                                                                  *)

\* Mutant: `continue` for `break`.
TryAgain == "dequeue"

\* Where a dequeue that returns false sends the consumer.
LeaveLoop == "done"

ConsumerDequeue ==
    /\ ProcessRuns /\ consumer = "dequeue"
    /\ \/ /\ inbox["telemetry"] = <<>> /\ "telemetry" \in down
          /\ consumer' = LeaveLoop
          /\ UNCHANGED inbox
       \/ /\ inbox["telemetry"] # <<>>
          /\ inbox' = [inbox EXCEPT !["telemetry"] = Tail(@)]
          /\ consumer' = "alert"
    /\ UNCHANGED <<main, ingest, teardown, prod, pool, client>>

ConsumerAlert ==
    /\ ProcessRuns /\ consumer = "alert"
    /\ inbox' = IF inbox["alert"] = <<>> THEN inbox
                ELSE [inbox EXCEPT !["alert"] = Tail(@)]
    /\ consumer' = "dequeue"
    /\ UNCHANGED <<main, ingest, teardown, prod, pool, client>>

-----------------------------------------------------------------------------
(* The transport thread and the command listener it joins before it ends.  *)

\* msg_queue_try_enqueue does not look at shutting_down; an alert that does
\* not fit is dropped.
ClientTriggersAlert ==
    /\ ProcessRuns /\ transport = "running"
    /\ commands < MaxCommands
    /\ commands' = commands + 1
    /\ ingest' = IF IngestHasRoom
                   THEN Append(ingest, [type |-> "alert", from |-> "client"])
                   ELSE ingest
    /\ UNCHANGED <<main, inbox, teardown, prod, pool, consumer, transport>>

\* Shutdown was noticed, or poll() failed.
TransportEnd ==
    /\ ProcessRuns /\ transport = "running"
    /\ transport' = "done"
    /\ UNCHANGED <<main, queues, teardown, prod, pool, consumer, commands>>

-----------------------------------------------------------------------------
(* main                                                                    *)

\* The steps of main in order.
Script == <<"start_workers", "start_transport", "subscribe_telemetry",
            "subscribe_alerts", "start_producer", "start_consumer", "sigwait",
            "shut_ingest", "shut_telemetry", "shut_alerts", "join_producer",
            "join_workers", "join_consumer", "unsubscribe_telemetry",
            "unsubscribe_alerts", "destroy_telemetry", "destroy_alerts",
            "join_transport", "destroy_ingest", "destroy_control",
            "destroy_pubsub", "exit">>

Do(step) ==
    /\ main = step
    /\ \E i \in DOMAIN Script : Script[i] = step /\ main' = Script[i + 1]

\* Every step of the startup can fail, and main then returns 1.
StartupFails ==
    /\ \E i \in 1 .. 6 : main = Script[i]
    /\ main' = "failed"
    /\ UNCHANGED <<queues, teardown, prod, pool, consumer, client>>

\* worker_pool_create makes do with the threads it got, if it got any.
StartWorkers ==
    /\ Do("start_workers")
    /\ \E started \in (SUBSET Workers) \ {{}} :
          worker' = [w \in Workers |-> IF w \in started THEN "dequeue" ELSE "done"]
    /\ UNCHANGED <<queues, teardown, prod, work, consumer, client>>

StartTransport ==
    /\ Do("start_transport")
    /\ transport' = "running"
    /\ UNCHANGED <<queues, teardown, prod, pool, consumer, commands>>

Subscribe ==
    /\ \/ Do("subscribe_telemetry") /\ subscribed' = subscribed \cup {"telemetry"}
       \/ Do("subscribe_alerts") /\ subscribed' = subscribed \cup {"alert"}
    /\ UNCHANGED <<queues, stop, down, destroyed, prod, pool, consumer, client>>

StartProducer ==
    /\ Do("start_producer")
    /\ producer' = "top"
    /\ UNCHANGED <<queues, teardown, counter, ended, pool, consumer, client>>

StartConsumer ==
    /\ Do("start_consumer")
    /\ consumer' = "dequeue"
    /\ UNCHANGED <<queues, teardown, prod, pool, client>>

\* SIGINT: sigwait returns, then shutdown_request().
Sigint ==
    /\ Do("sigwait")
    /\ stop' = TRUE
    /\ UNCHANGED <<queues, down, subscribed, destroyed, prod, pool, consumer, client>>

\* Mutant: the wrong queue.
ShutTwice == [shut_ingest |-> "telemetry", shut_telemetry |-> "telemetry",
              shut_alerts |-> "alert"]

\* The argument of each msg_queue_shutdown.
Shut == [shut_ingest |-> "ingest", shut_telemetry |-> "telemetry",
         shut_alerts |-> "alert"]

ShutQueues ==
    /\ \E step \in DOMAIN Shut : Do(step) /\ down' = down \cup {Shut[step]}
    /\ UNCHANGED <<queues, stop, subscribed, destroyed, prod, pool, consumer, client>>

\* Mutant: the transport is not waited for.
JoinReturnsEarly(step) ==
    \/ step = "join_producer" /\ producer = "done"
    \/ step = "join_workers" /\ \A w \in Workers : worker[w] = "done"
    \/ step = "join_consumer" /\ consumer = "done"
    \/ step = "join_transport"

JoinReturns(step) ==
    \/ step = "join_producer" /\ producer = "done"
    \/ step = "join_workers" /\ \A w \in Workers : worker[w] = "done"
    \/ step = "join_consumer" /\ consumer = "done"
    \/ step = "join_transport" /\ transport = "done"

Join ==
    /\ \E step \in {"join_producer", "join_workers", "join_consumer",
                    "join_transport"} : Do(step) /\ JoinReturns(step)
    /\ UNCHANGED <<queues, teardown, prod, pool, consumer, client>>

Unsubscribe ==
    /\ \/ Do("unsubscribe_telemetry") /\ subscribed' = subscribed \ {"telemetry"}
       \/ Do("unsubscribe_alerts") /\ subscribed' = subscribed \ {"alert"}
    /\ UNCHANGED <<queues, stop, down, destroyed, prod, pool, consumer, client>>

\* What each destroy frees.  Payloads left in a queue are not freed; the model
\* keeps the contents.
Frees == [destroy_telemetry |-> "telemetry", destroy_alerts |-> "alert",
          destroy_ingest |-> "ingest", destroy_control |-> "control",
          destroy_pubsub |-> "pubsub"]

Destroy ==
    /\ \E step \in DOMAIN Frees :
          Do(step) /\ destroyed' = destroyed \cup {Frees[step]}
    /\ UNCHANGED <<queues, stop, down, subscribed, prod, pool, consumer, client>>

\* The process is over.
Ended == ~ProcessRuns /\ UNCHANGED vars

-----------------------------------------------------------------------------
Producer == ProducerTop \/ ProducerEnqueue \/ ProducerAlert \/ ProducerSleep
Worker(w) == WorkerDequeue(w) \/ WorkerPublish(w)
Consumer == ConsumerDequeue \/ ConsumerAlert
Startup == StartWorkers \/ StartTransport \/ Subscribe \/ StartProducer
           \/ StartConsumer
Teardown == ShutQueues \/ Join \/ Unsubscribe \/ Destroy

Next ==
    \/ Producer \/ Consumer \/ \E w \in Workers : Worker(w)
    \/ ClientTriggersAlert \/ TransportEnd
    \/ Startup \/ StartupFails \/ Sigint \/ Teardown \/ Ended

Spec == Init /\ [][Next]_vars

\* Every thread that can run does; no signal and no client is owed, and the
\* transport thread is not assumed to end.
FairSpec ==
    /\ Spec
    /\ WF_vars(Teardown) /\ WF_vars(Producer) /\ WF_vars(Consumer)
    /\ \A w \in Workers : WF_vars(Worker(w))

-----------------------------------------------------------------------------
(* Properties                                                              *)

\* main has come past this step.
Past(step) ==
    \E i, j \in DOMAIN Script : i < j /\ Script[i] = step /\ Script[j] = main

\* Types; no queue holds more than its capacity.
TypeOK ==
    /\ main \in {Script[i] : i \in DOMAIN Script} \cup {"failed"}
    /\ stop \in BOOLEAN
    /\ ingest \in Seq(Items) /\ Len(ingest) <= IngestCapacity
    /\ inbox \in [Types -> Seq(Items)]
    /\ \A t \in Types : Len(inbox[t]) <= SubscriberCapacity
    /\ down \subseteq {"ingest"} \cup Types
    /\ subscribed \subseteq Types
    /\ destroyed \subseteq {"ingest", "control", "pubsub"} \cup Types
    /\ producer \in {"off", "top", "enqueue", "alert", "sleep", "done"}
    /\ counter \in 0 .. ALERT_PERIOD - 1
    /\ ended \in {"not", "stop", "out_of_memory", "refused", "alert_did_not_fit"}
    /\ worker \in [Workers -> {"off", "dequeue", "publish", "done"}]
    /\ work \in [Workers -> {NoWork} \cup {<<i>> : i \in Items}]
    /\ consumer \in {"off", "dequeue", "alert", "done"}
    /\ transport \in {"off", "running", "done"}
    /\ commands \in 0 .. MaxCommands

\* What the threads that have not ended may still touch: a worker reaches the
\* subscribed queues through the registry.
InUse ==
    LET started(pc) == pc \notin {"off", "done"}
    IN  (IF started(producer) THEN {"ingest", "control"} ELSE {})
        \cup (IF \E w \in Workers : started(worker[w])
                THEN {"ingest", "pubsub"} \cup subscribed ELSE {})
        \cup (IF started(consumer) THEN Types ELSE {})
        \cup (IF started(transport) THEN {"ingest", "control", "pubsub"} ELSE {})

\* Nothing is destroyed while a thread may still use it: the order of the joins,
\* unsubscribes and destroys of main.c:252-264 is the right one, whenever the
\* threads end.
NoUseAfterDestroy == destroyed \cap InUse = {}

ItemsLeft(type) ==
    {i \in DOMAIN ingest : ingest[i] = [type |-> type, from |-> "producer"]}

\* Once the workers are joined, no worker holds an item and at most the last tick
\* of the producer is still on the ingest queue: a shut-down queue is drained
\* before its workers leave (worker_pool.c:39-41), and all that can come after
\* is the one pass of the loop the producer was in when it was told to stop.
AtMostOneTickLeft ==
    Past("join_workers") =>
        /\ \A t \in Types : \A i, j \in ItemsLeft(t) : i = j
        /\ \A w \in Workers : work[w] = NoWork

\* A call on ingest does not block: the loop conditions of msg_queue.c:105 and 164.
EnqueueReturns == IngestHasRoom \/ "ingest" \in down
DequeueReturns == ingest # <<>> \/ "ingest" \in down

\* Nobody waits in vain.  A producer blocked on a full ring is waiting for a
\* worker that can run, and a thread that main joins is not itself blocked: the
\* queues are shut down before the joins (main.c:243-254), and as long as
\* ingest is open not all the workers have left.
NobodyWaitsInVain ==
    /\ ProcessRuns /\ producer = "enqueue" =>
          \/ EnqueueReturns
          \/ \E w \in Workers :
                worker[w] = "publish" \/ (worker[w] = "dequeue" /\ DequeueReturns)
    /\ main = "join_producer" /\ producer = "enqueue" => EnqueueReturns
    /\ main = "join_workers" /\ (\E w \in Workers : worker[w] = "dequeue") =>
          DequeueReturns
    /\ main = "join_consumer" /\ consumer = "dequeue" =>
          inbox["telemetry"] # <<>> \/ "telemetry" \in down

\* At most how many steps the process takes once it has been told to stop.  An item
\* on the ingest queue costs its worker two and the consumer two.
StepsLeft ==
    LET position == CHOOSE i \in DOMAIN Script : Script[i] = main
        pass == [off |-> 0, done |-> 0, top |-> 1, sleep |-> 2, alert |-> 7,
                 enqueue |-> 12]
        turn == [off |-> 0, done |-> 0, dequeue |-> 1, alert |-> 2]
    IN  (Len(Script) - position) + pass[producer] + turn[consumer]
        + Cardinality({w \in Workers : worker[w] \in {"dequeue", "publish"}})
        + 3 * Cardinality({w \in Workers : worker[w] = "publish"})
        + 4 * Len(ingest) + 2 * Len(inbox["telemetry"])
        + 5 * (MaxCommands - commands) + (IF transport = "running" THEN 1 ELSE 0)

\* After SIGINT every step of every thread brings the end nearer: the producer
\* finishes its pass, and nothing that the workers, the consumer and a client
\* still do makes more work than it does away with (main.c:66, 135-153,
\* worker_pool.c:34-57, command.c:77-108).  The clients have MaxCommands to give.
TeardownAdvances == [][stop => StepsLeft' < StepsLeft]_vars

\* main.c:64-65: the producer produces "until told to stop".  Running out of
\* memory is the other reason its code gives.
ProducerRunsUntilStopped ==
    producer = "done" => ended \in {"stop", "refused", "out_of_memory"}

\* README.md:118-119: on SIGINT "queues are drained, and everything is joined
\* before the process exits".
QueuesAreDrained ==
    main = "exit" => ingest = <<>> /\ \A t \in Types : inbox[t] = <<>>

\* After SIGINT main gets through the joins of the producer, the workers and the
\* consumer (main.c:252-254), whatever they were blocked in, and comes to
\* transport_destroy, provided the client triggers finitely many alerts.
ShutdownReachesTransport == stop ~> main \in {"join_transport", "exit"}

\* A producer blocked in msg_queue_enqueue gets on: the workers always come back
\* for the next item, since publishing never waits for the consumer, which
\* itself waits for telemetry only (main.c:136, pubsub.c:163).  Again clients
\* trigger finitely many alerts: one that never stops could take every place the
\* workers free.
BackPressureIsReleased ==
    producer = "enqueue" ~> producer # "enqueue" \/ ~ProcessRuns
=============================================================================
