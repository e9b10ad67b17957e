------------------------------- MODULE PubSub -------------------------------
(***************************************************************************)
(* c/src/pubsub.c with its callers: worker threads that publish, and       *)
(* sessions that own a pair of subscriber queues.  A session is one client *)
(* connection of transport_routine (transport.c:134-208), from             *)
(* msg_queue_create to msg_queue_destroy; its queue for a topic is         *)
(* <<session, topic>>.  The transport serves one client at a time; a       *)
(* second session stands for main's consumer, which makes the same calls   *)
(* in the same order (main.c:207-214, 256-259).                            *)
(*                                                                         *)
(* pubsub_publish holds ctx->mutex for the whole fan-out and takes each    *)
(* subscriber queue's own mutex inside it, so a publish is a sequence of   *)
(* steps between which queue owners run; subscribe and unsubscribe are one *)
(* step, taken when the mutex is free.  A queue is the bounded FIFO of     *)
(* BoundedQueue: only its try_ calls are used here.                        *)
(***************************************************************************)
EXTENDS Registry, FiniteSets

CONSTANTS
    Publishers,             \* worker threads
    Sessions,               \* client connections
    TOPIC_TELEMETRY, TOPIC_ALERTS,
    Capacity,               \* of every subscriber queue
    MaxMessages,            \* bound: messages drawn in a behaviour
    Modulus,                \* of next_seq, a uint32_t
    NoOne, Nothing          \* a mutex nobody holds; a hand that holds nothing

Topics == {TOPIC_TELEMETRY, TOPIC_ALERTS}
Queues == Sessions \X Topics
Messages == 1 .. MaxMessages
Clones == Messages \X Queues

ASSUME TopicsAssumption == Topics \subseteq Names \ LongNames

ASSUME BoundsAssumption ==
    /\ Capacity \in Nat /\ MaxMessages \in Nat /\ Modulus \in Nat \ {0, 1}
    /\ NoOne \notin Publishers /\ Nothing \notin Clones

\* worker_pool_create starts a given number of threads.
ASSUME PoolAssumption == IsFiniteSet(Publishers)

VARIABLES
    topics,         \* the registry
    next_seq,       \* of worker_pool.c
    seq,            \* history: the number drawn by each message; a message is its
                    \* place in the order of the draws, for numbers come round
    mutex,          \* ctx->mutex: the publisher inside pubsub_publish, or NoOne
    job,            \* each publisher's item, entry, loop index, and (history)
                    \* the queues it has offered the item to
    queue,          \* contents of each subscriber queue
    alive,          \* the queues created and not yet destroyed
    at,             \* where each session is
    subscribed,     \* topics each session holds subscribed_... for
    hand,           \* the payload a session has dequeued and not yet freed
    heap            \* payload clones malloc'ed and not yet freed or leaked

pub == <<next_seq, seq, mutex, job>>
sess == <<at, subscribed, hand>>
vars == <<topics, next_seq, seq, mutex, job, queue, alive, at, subscribed,
          hand, heap>>

\* The clone of message m made for queue q.
Clone(m, q) == <<m, q>>

\* The clones waiting in queue q.
Queued(q) == {Clone(queue[q][i], q) : i \in DOMAIN queue[q]}

NoJob == [item |-> 0, entry |-> 0, next |-> 0, offered |-> {}]

Init ==
    /\ topics = <<>>
    /\ next_seq = 1
    /\ seq = <<>>
    /\ mutex = NoOne
    /\ job = [p \in Publishers |-> NoJob]
    /\ queue = [q \in Queues |-> <<>>]
    /\ alive = {}
    /\ at = [s \in Sessions |-> "idle"]
    /\ subscribed = [s \in Sessions |-> {}]
    /\ hand = [s \in Sessions |-> Nothing]
    /\ heap = {}

-----------------------------------------------------------------------------
(* A worker draws the sequence number of its message, then publishes it.   *)

\* Mutant: seq_mutex is not taken, and another thread's increment is lost.
DrawUnlocked == next_seq' \in {next_seq, (next_seq + 1) % Modulus}

\* next_seq++ under seq_mutex.
Draw == next_seq' = (next_seq + 1) % Modulus

NextSequence(p) ==
    /\ job[p] = NoJob
    /\ Len(seq) < MaxMessages
    /\ seq' = Append(seq, next_seq)
    /\ Draw
    /\ job' = [job EXCEPT ![p].item = Len(seq) + 1]
    /\ UNCHANGED <<topics, mutex, queue, alive, sess, heap>>

\* p is inside pubsub_publish and holds the mutex.
Publishing(p) == job[p].entry # 0

\* Mutant: a caller forgets to lock.
NeverWaits == TRUE

\* pthread_mutex_lock(&ctx->mutex) goes through.
MutexFree == mutex = NoOne

\* A full registry turns the message away.
PublishBegin(p, name) ==
    LET e == FindOrCreateTopic(topics, name)
    IN  /\ job[p] # NoJob /\ ~Publishing(p) /\ MutexFree
        /\ topics' = WithTopic(topics, name)
        /\ IF e = 0 THEN /\ job' = [job EXCEPT ![p] = NoJob]
                        /\ UNCHANGED mutex
           ELSE /\ job' = [job EXCEPT ![p].entry = e, ![p].next = 1]
                /\ mutex' = p
        /\ UNCHANGED <<next_seq, seq, queue, alive, sess, heap>>

Audience(p) == topics[job[p].entry].subscribers

InFanOut(p) == Publishing(p) /\ job[p].next <= Len(Audience(p))

Target(p) == Audience(p)[job[p].next]

Advance(p) ==
    job' = [job EXCEPT ![p].next = @ + 1, ![p].offered = @ \cup {Target(p)}]

Deliver(p) ==
    /\ queue' = [queue EXCEPT ![Target(p)] = Append(@, job[p].item)]
    /\ heap' = heap \cup {Clone(job[p].item, Target(p))}

\* malloc fails: skip this subscriber.
PublishOutOfMemory(p) ==
    /\ InFanOut(p)
    /\ Advance(p)
    /\ UNCHANGED <<topics, next_seq, seq, mutex, queue, alive, sess, heap>>

\* Mutants: the clone is not freed; the call waits for room, as
\* msg_queue_enqueue would.
KeepClone(p) ==
    /\ heap' = heap \cup {Clone(job[p].item, Target(p))}
    /\ UNCHANGED queue

WaitForRoom(p) == FALSE

\* The queue is full: the clone is freed again.
DropClone(p) == UNCHANGED <<queue, heap>>

\* Clone, msg_queue_try_enqueue, and free the clone when the queue is full.
PublishOne(p) ==
    /\ InFanOut(p)
    /\ IF Len(queue[Target(p)]) < Capacity
         THEN Deliver(p)
         ELSE DropClone(p)
    /\ Advance(p)
    /\ UNCHANGED <<topics, next_seq, seq, mutex, alive, sess>>

PublishEnd(p) ==
    /\ Publishing(p)
    /\ job[p].next > Len(Audience(p))
    /\ mutex' = NoOne
    /\ job' = [job EXCEPT ![p] = NoJob]
    /\ UNCHANGED <<topics, next_seq, seq, queue, alive, sess, heap>>

-----------------------------------------------------------------------------
(* A session.  msg_queue_create may fail for either queue, and either      *)
(* pubsub_subscribe may fail.                                              *)

CreateQueues(s) ==
    /\ at[s] = "idle"
    /\ \E made \in SUBSET Topics : alive' = alive \cup ({s} \X made)
    /\ at' = [at EXCEPT ![s] = "subscribe_telemetry"]
    /\ UNCHANGED <<topics, pub, queue, subscribed, hand, heap>>

\* One of the two `conn.sub && pubsub_subscribe(...) == 0`, then on to `there`.
SubscribeTo(s, topic, there) ==
    /\ IF <<s, topic>> \in alive
         THEN /\ MutexFree
              /\ topics' = AfterSubscribe(topics, topic, <<s, topic>>)
              /\ subscribed' =
                    IF SubscribeOK(topics, topic, <<s, topic>>)
                      THEN [subscribed EXCEPT ![s] = @ \cup {topic}]
                      ELSE subscribed
         ELSE UNCHANGED <<topics, subscribed>>
    /\ at' = [at EXCEPT ![s] = there]
    /\ UNCHANGED <<pub, queue, alive, hand, heap>>

SubscribeTelemetry(s) ==
    /\ at[s] = "subscribe_telemetry"
    /\ SubscribeTo(s, TOPIC_TELEMETRY, "subscribe_alerts")

SubscribeAlerts(s) ==
    /\ at[s] = "subscribe_alerts"
    /\ SubscribeTo(s, TOPIC_ALERTS, "subscribed")

Take(s, q) ==
    /\ queue[q] # <<>>
    /\ hand' = [hand EXCEPT ![s] = Clone(Head(queue[q]), q)]
    /\ queue' = [queue EXCEPT ![q] = Tail(@)]

\* serve_client's loop: telemetry first, alerts when there was none; the payload
\* is written out and freed before the next pass.
ServeTelemetry(s) ==
    /\ at[s] = "subscribed" /\ subscribed[s] = Topics
    /\ hand[s] = Nothing
    /\ \/ Take(s, <<s, TOPIC_TELEMETRY>>) /\ UNCHANGED at
       \/ /\ queue[<<s, TOPIC_TELEMETRY>>] = <<>>
          /\ at' = [at EXCEPT ![s] = "try_alerts"]
          /\ UNCHANGED <<queue, hand>>
    /\ UNCHANGED <<topics, pub, alive, subscribed, heap>>

ServeAlerts(s) ==
    /\ at[s] = "try_alerts"
    /\ \/ Take(s, <<s, TOPIC_ALERTS>>)
       \/ queue[<<s, TOPIC_ALERTS>>] = <<>> /\ UNCHANGED <<queue, hand>>
    /\ at' = [at EXCEPT ![s] = "subscribed"]
    /\ UNCHANGED <<topics, pub, alive, subscribed, heap>>

ServeFree(s) ==
    /\ hand[s] # Nothing
    /\ heap' = heap \ {hand[s]}
    /\ hand' = [hand EXCEPT ![s] = Nothing]
    /\ UNCHANGED <<topics, pub, queue, alive, at, subscribed>>

\* The client is gone, the listener cleared peer_alive, shutdown was requested,
\* or one of the subscriptions failed.
StopServing(s) ==
    /\ at[s] = "subscribed" /\ hand[s] = Nothing
    /\ at' = [at EXCEPT ![s] = "unsubscribe_telemetry"]
    /\ UNCHANGED <<topics, pub, queue, alive, subscribed, hand, heap>>

\* Mutant: a subscription is undone only when both were made, the hazard
\* transport.c:149-152 describes.
MustUndoIfBoth(s, topic) == subscribed[s] = Topics

\* subscribed_telemetry, subscribed_alerts; a flag is dropped here once the
\* unsubscribe it guards is done.
MustUndo(s, topic) == topic \in subscribed[s]

UnsubscribeFrom(s, topic, there) ==
    /\ IF MustUndo(s, topic)
         THEN /\ MutexFree
              /\ topics' = AfterUnsubscribe(topics, topic, <<s, topic>>)
              /\ subscribed' = [subscribed EXCEPT ![s] = @ \ {topic}]
         ELSE UNCHANGED <<topics, subscribed>>
    /\ at' = [at EXCEPT ![s] = there]
    /\ UNCHANGED <<pub, queue, alive, hand, heap>>

UnsubscribeTelemetry(s) ==
    /\ at[s] = "unsubscribe_telemetry"
    /\ UnsubscribeFrom(s, TOPIC_TELEMETRY, "unsubscribe_alerts")

UnsubscribeAlerts(s) ==
    /\ at[s] = "unsubscribe_alerts"
    /\ UnsubscribeFrom(s, TOPIC_ALERTS, "destroy")

\* msg_queue_destroy frees the ring but none of the payloads in it: nobody can
\* free those any more, and they leave the heap of this model as leaked.
DestroyQueues(s) ==
    /\ at[s] = "destroy"
    /\ at' = [at EXCEPT ![s] = "idle"]
    /\ alive' = alive \ ({s} \X Topics)
    /\ heap' = heap \ UNION {Queued(<<s, t>>) : t \in Topics}
    /\ queue' = [q \in Queues |-> IF q[1] = s THEN <<>> ELSE queue[q]]
    /\ UNCHANGED <<topics, pub, subscribed, hand>>

-----------------------------------------------------------------------------
Publisher(p) ==
    \/ NextSequence(p) \/ \E name \in Names : PublishBegin(p, name)
    \/ PublishOutOfMemory(p) \/ PublishOne(p) \/ PublishEnd(p)

Session(s) ==
    \/ CreateQueues(s) \/ SubscribeTelemetry(s) \/ SubscribeAlerts(s)
    \/ ServeTelemetry(s) \/ ServeAlerts(s) \/ ServeFree(s) \/ StopServing(s)
    \/ UnsubscribeTelemetry(s) \/ UnsubscribeAlerts(s) \/ DestroyQueues(s)

Next ==
    \/ \E p \in Publishers : Publisher(p)
    \/ \E s \in Sessions : Session(s)

Spec == Init /\ [][Next]_vars

\* A thread inside pubsub_publish keeps running; malloc is not owed to fail.
\* Nothing is assumed of the sessions: a subscriber may stop reading for ever.
FairSpec ==
    Spec /\ \A p \in Publishers : WF_vars(PublishOne(p) \/ PublishEnd(p))

-----------------------------------------------------------------------------
(* Properties                                                              *)

\* Types, and the two array bounds of pubsub.c:8-18.
TypeOK ==
    /\ topics \in Seq([name : {Cut[n] : n \in Names}, subscribers : Seq(Queues)])
    /\ Len(topics) <= PUBSUB_MAX_TOPICS
    /\ \A i \in DOMAIN topics :
          Len(topics[i].subscribers) <= PUBSUB_MAX_SUBSCRIBERS_PER_TOPIC
    /\ mutex \in Publishers \cup {NoOne}
    /\ job \in [Publishers -> [item : 0 .. MaxMessages, entry : Nat, next : Nat,
                               offered : SUBSET Queues]]
    /\ next_seq \in 0 .. Modulus - 1
    /\ seq \in Seq(0 .. Modulus - 1) /\ Len(seq) <= MaxMessages
    /\ queue \in [Queues -> Seq(Messages)]
    /\ \A q \in Queues : Len(queue[q]) <= Capacity
    /\ alive \subseteq Queues
    /\ at \in [Sessions -> {"idle", "subscribe_telemetry", "subscribe_alerts",
                            "subscribed", "try_alerts", "unsubscribe_telemetry",
                            "unsubscribe_alerts", "destroy"}]
    /\ subscribed \in [Sessions -> SUBSET Topics]
    /\ hand \in [Sessions -> Clones \cup {Nothing}]
    /\ heap \subseteq Clones

\* The registry never holds a queue that does not exist: a fan-out, which
\* follows these pointers (pubsub.c:163), never touches a destroyed queue,
\* whatever create or subscribe failed on the way (transport.c:147-205).
NoDanglingSubscriber ==
    \A i \in DOMAIN topics :
        \A j \in DOMAIN topics[i].subscribers : topics[i].subscribers[j] \in alive

\* The registry is exactly what its callers were told: the entry found for a
\* topic lists each queue whose subscribe returned 0 and has not been undone,
\* once, and no entry that a lookup skips lists anybody (pubsub.c:21-29, 89-101,
\* 120-128), also when publishing over-long names has left duplicate entries.
RegistryExact ==
    /\ \A s \in Sessions, t \in Topics :
          t \in subscribed[s] <=>
             LET e == FindTopic(topics, t)
             IN  e # 0 /\ Subscribed(topics[e], <<s, t>>)
    /\ \A i \in DOMAIN topics :
          LET subs == topics[i].subscribers
          IN  /\ \A j, k \in DOMAIN subs : j # k => subs[j] # subs[k]
              /\ subs # <<>> => FindTopic(topics, topics[i].name) = i

\* Every clone has exactly one owner: it waits in one queue or is in the hands of
\* the session that dequeued it; none is lost by the fan-out (pubsub.c:163-168)
\* and none is freed twice.  Only destroying a queue leaves clones without one.
PayloadsAccounted ==
    LET waiting == UNION {Queued(q) : q \in Queues}
        held == {hand[s] : s \in Sessions} \ {Nothing}
    IN  heap = waiting \cup held /\ waiting \cap held = {}

\* Any two subscribers see the messages both get in the same order, whichever
\* workers publish at the same time: fan-outs never interleave (pubsub.c:139-172).
SameOrder ==
    \A q, r \in Queues : \A i, j \in DOMAIN queue[q], k, l \in DOMAIN queue[r] :
        i < j /\ queue[q][i] = queue[r][k] /\ queue[q][j] = queue[r][l] => k < l

\* next_seq came round to 0 between the draws of messages m and n.
CameRound(m, n) == \E k \in (m + 1 .. n) \cup (n + 1 .. m) : seq[k] = 0

\* A number is drawn before ctx->mutex is taken, so a subscriber may see messages
\* out of the order of the draws (worker_pool.c:19-23, 47-53), but only as far as
\* the workers in flight allow: no message comes twice, and a queue is never worse
\* than as many streams in order as there are workers, shuffled together.  The
\* numbers say in which order two messages were drawn, unless the uint32_t came
\* round in between (worker_pool.c:25, 29): then they may even be equal.
DisorderBounded ==
    \A q \in Queues :
        /\ \A i, j \in DOMAIN queue[q] :
              LET m == queue[q][i]
                  n == queue[q][j]
              IN  /\ i # j => m # n
                  /\ CameRound(m, n) \/ (m < n <=> seq[m] < seq[n])
        /\ \A I \in SUBSET DOMAIN queue[q] :
              (\A i, j \in I : i < j => queue[q][i] > queue[q][j])
                => Cardinality(I) <= Cardinality(Publishers)

\* When a fan-out ends, every queue then subscribed has been offered the message,
\* once: unsubscribing moves the last subscriber (pubsub.c:122-124) and must
\* not do so under a running loop.
EveryoneOffered ==
    \A p \in Publishers :
        Publishing(p) =>
            /\ mutex = p
            /\ job[p].offered =
                  {Audience(p)[i] : i \in 1 .. job[p].next - 1}
            /\ job[p].next <= Len(Audience(p)) + 1

\* The abstract state: who listens to a name, what is being published, and the
\* queues the loop has yet to come to.
Listeners(reg, name) ==
    LET e == FindTopic(reg, name)
    IN  {q \in Queues : e # 0 /\ Subscribed(reg[e], q)}

Heard == [n \in Names |-> Listeners(topics, n)]

InFlight == IF mutex = NoOne THEN 0 ELSE job[mutex].item

Remaining ==
    IF mutex = NoOne THEN {}
    ELSE {Audience(mutex)[i] : i \in job[mutex].next .. Len(Audience(mutex))}

B == INSTANCE Broadcast WITH
        listeners <- Heard, message <- InFlight, pending <- Remaining,
        box <- queue

\* The array of entries, the swap on unsubscribe and the loop under ctx->mutex
\* implement the broadcast that pubsub.h:18-39 describes: a message reaches each
\* queue subscribed when its publish begins at most once, and no other, a full
\* queue misses it, and no call takes effect in the middle of a fan-out.  That a
\* queue with room misses it is allowed, for malloc may fail on any clone.
ImplementsBroadcast == B!Spec

\* A publish returns although no subscriber ever reads: a full queue stalls
\* neither the publisher nor the others (pubsub.h:31-36, README.md:17-19).  This is
\* about the fan-out, not about how long a worker waits for ctx->mutex before it.
PublishReturns == \A p \in Publishers : Publishing(p) ~> ~Publishing(p)
=============================================================================
