------------------------------ MODULE MsgQueue ------------------------------
(***************************************************************************)
(* c/src/msg_queue.c: a ring buffer, one mutex and two condition           *)
(* variables.  Every access to the ring is inside the mutex, so an action  *)
(* is one critical section: from pthread_mutex_lock, or from the return of *)
(* pthread_cond_wait, to the next pthread_cond_wait or                     *)
(* pthread_mutex_unlock.                                                   *)
(*                                                                         *)
(* A thread in a blocking call is at one of                                *)
(*    "enqueue", "dequeue"                  before its first lock          *)
(*    "wait_not_full", "wait_not_empty"     asleep in pthread_cond_wait    *)
(*    "woken_not_full", "woken_not_empty"   woken, and about to have the   *)
(*                                          mutex back and test again      *)
(***************************************************************************)
EXTENDS Naturals, FiniteSets, Sequences

CONSTANTS
    Threads,                     \* the threads that share the queue
    Items,                       \* what msg_item_t values stand for
    NoItem,                      \* a slot or an out-parameter never written
    RequestedCapacity,           \* the argument of msg_queue_create
    MSG_QUEUE_DEFAULT_CAPACITY

ASSUME ThreadsAssumption == IsFiniteSet(Threads)

ASSUME ItemsAssumption == NoItem \notin Items

ASSUME CapacityAssumption ==
    /\ RequestedCapacity \in Nat
    /\ MSG_QUEUE_DEFAULT_CAPACITY \in Nat \ {0}

Capacity == IF RequestedCapacity = 0 THEN MSG_QUEUE_DEFAULT_CAPACITY
                                     ELSE RequestedCapacity

Slots == 0 .. Capacity - 1

VARIABLES
    items,          \* the array, indexed from 0
    head,           \* index of the oldest item
    tail,           \* index of the next free slot
    size,
    shutting_down,
    pc,             \* where each thread is (above), or "idle"
    arg,            \* the item a thread inside msg_queue_enqueue carries
    ret             \* the bool and the *item of each thread's last call

ring == <<items, head, tail, size>>
vars == <<items, head, tail, size, shutting_down, pc, arg, ret>>

Answer(ok, item) == [ok |-> ok, item |-> item]

Init ==
    /\ items = [i \in Slots |-> NoItem]
    /\ head = 0
    /\ tail = 0
    /\ size = 0
    /\ shutting_down = FALSE
    /\ pc = [t \in Threads |-> "idle"]
    /\ arg = [t \in Threads |-> NoItem]
    /\ ret = [t \in Threads |-> Answer(FALSE, NoItem)]

-----------------------------------------------------------------------------
(* The ring, and the condition variables (pthread_cond_t, external).       *)

\* Mutants: the index runs off the end of the array; the slot written is the
\* oldest one.
PushNoWrap(item) ==
    /\ items' = [items EXCEPT ![tail] = item]
    /\ tail' = tail + 1
    /\ size' = size + 1
    /\ head' = head

PushAtHead(item) ==
    /\ items' = [items EXCEPT ![head] = item]
    /\ tail' = (tail + 1) % Capacity
    /\ size' = size + 1
    /\ head' = head

Push(item) ==
    /\ items' = [items EXCEPT ![tail] = item]
    /\ tail' = (tail + 1) % Capacity
    /\ size' = size + 1
    /\ head' = head

Pop ==
    /\ head' = (head + 1) % Capacity
    /\ size' = size - 1
    /\ UNCHANGED <<items, tail>>

WaitingOn(cond) ==
    {t \in Threads : pc[t] = IF cond = "not_empty" THEN "wait_not_empty"
                                                   ELSE "wait_not_full"}

Woken(cond) == IF cond = "not_empty" THEN "woken_not_empty"
                                     ELSE "woken_not_full"

\* The caller t leaves its call with this answer while pthread_cond_signal
\* wakes one thread asleep on cond, if there is one.
SignalAndReturn(t, cond, ok, item) ==
    /\ \/ /\ WaitingOn(cond) = {}
          /\ pc' = [pc EXCEPT ![t] = "idle"]
       \/ \E u \in WaitingOn(cond) :
             pc' = [pc EXCEPT ![t] = "idle", ![u] = Woken(cond)]
    /\ arg' = [arg EXCEPT ![t] = NoItem]
    /\ ret' = [ret EXCEPT ![t] = Answer(ok, item)]

Return(t, ok, item) ==
    /\ pc' = [pc EXCEPT ![t] = "idle"]
    /\ arg' = [arg EXCEPT ![t] = NoItem]
    /\ ret' = [ret EXCEPT ![t] = Answer(ok, item)]

\* POSIX lets pthread_cond_wait return without a signal.
SpuriousWakeup(t) ==
    /\ \/ /\ t \in WaitingOn("not_empty")
          /\ pc' = [pc EXCEPT ![t] = "woken_not_empty"]
       \/ /\ t \in WaitingOn("not_full")
          /\ pc' = [pc EXCEPT ![t] = "woken_not_full"]
    /\ UNCHANGED <<ring, shutting_down, arg, ret>>

-----------------------------------------------------------------------------
(* msg_queue_enqueue                                                       *)

CallEnqueue(t, item) ==
    /\ pc[t] = "idle"
    /\ pc' = [pc EXCEPT ![t] = "enqueue"]
    /\ arg' = [arg EXCEPT ![t] = item]
    /\ ret' = [ret EXCEPT ![t] = Answer(FALSE, NoItem)]
    /\ UNCHANGED <<ring, shutting_down>>

Enqueueing(t) == pc[t] \in {"enqueue", "woken_not_full"}

EnqueueWait(t) ==
    /\ Enqueueing(t)
    /\ size >= Capacity /\ ~shutting_down
    /\ pc' = [pc EXCEPT ![t] = "wait_not_full"]
    /\ UNCHANGED <<ring, shutting_down, arg, ret>>

EnqueueRefused(t) ==
    /\ Enqueueing(t)
    /\ shutting_down /\ size >= Capacity
    /\ Return(t, FALSE, NoItem)
    /\ UNCHANGED <<ring, shutting_down>>

\* Mutant: the signal on not_empty is forgotten.
EnqueuePutNoSignal(t) ==
    /\ Enqueueing(t)
    /\ size < Capacity
    /\ Push(arg[t])
    /\ Return(t, TRUE, NoItem)
    /\ UNCHANGED shutting_down

EnqueuePut(t) ==
    /\ Enqueueing(t)
    /\ size < Capacity
    /\ Push(arg[t])
    /\ SignalAndReturn(t, "not_empty", TRUE, NoItem)
    /\ UNCHANGED shutting_down

TryEnqueue(t, item) ==
    /\ pc[t] = "idle"
    /\ \/ /\ size >= Capacity
          /\ Return(t, FALSE, NoItem)
          /\ UNCHANGED ring
       \/ /\ size < Capacity
          /\ Push(item)
          /\ SignalAndReturn(t, "not_empty", TRUE, NoItem)
    /\ UNCHANGED shutting_down

-----------------------------------------------------------------------------
(* msg_queue_dequeue                                                       *)

CallDequeue(t) ==
    /\ pc[t] = "idle"
    /\ pc' = [pc EXCEPT ![t] = "dequeue"]
    /\ ret' = [ret EXCEPT ![t] = Answer(FALSE, NoItem)]
    /\ UNCHANGED <<ring, shutting_down, arg>>

Dequeueing(t) == pc[t] \in {"dequeue", "woken_not_empty"}

DequeueWait(t) ==
    /\ Dequeueing(t)
    /\ size = 0 /\ ~shutting_down
    /\ pc' = [pc EXCEPT ![t] = "wait_not_empty"]
    /\ UNCHANGED <<ring, shutting_down, arg, ret>>

\* Mutant: give up as soon as the queue is shut down, queued items or not.
DequeueRefusedUndrained(t) ==
    /\ Dequeueing(t)
    /\ shutting_down
    /\ Return(t, FALSE, NoItem)
    /\ UNCHANGED <<ring, shutting_down>>

DequeueRefused(t) ==
    /\ Dequeueing(t)
    /\ shutting_down /\ size = 0
    /\ Return(t, FALSE, NoItem)
    /\ UNCHANGED <<ring, shutting_down>>

DequeueTake(t) ==
    /\ Dequeueing(t)
    /\ size > 0
    /\ Pop
    /\ SignalAndReturn(t, "not_full", TRUE, items[head])
    /\ UNCHANGED shutting_down

TryDequeue(t) ==
    /\ pc[t] = "idle"
    /\ \/ /\ size = 0
          /\ Return(t, FALSE, NoItem)
          /\ UNCHANGED ring
       \/ /\ size > 0
          /\ Pop
          /\ SignalAndReturn(t, "not_full", TRUE, items[head])
    /\ UNCHANGED shutting_down

-----------------------------------------------------------------------------
(* msg_queue_shutdown and msg_queue_clear are called by a thread that is   *)
(* not blocked in the queue; which one it is makes no difference.          *)

AfterBroadcast(conds) ==
    [t \in Threads |->
        IF "not_empty" \in conds /\ t \in WaitingOn("not_empty")
          THEN "woken_not_empty"
        ELSE IF "not_full" \in conds /\ t \in WaitingOn("not_full")
          THEN "woken_not_full"
        ELSE pc[t]]

\* Mutants: only the consumers are woken; one consumer is signalled instead of
\* all of them.
ShutdownOneSided ==
    /\ shutting_down' = TRUE
    /\ pc' = AfterBroadcast({"not_empty"})
    /\ UNCHANGED <<ring, arg, ret>>

ShutdownSignals ==
    /\ shutting_down' = TRUE
    /\ \/ WaitingOn("not_empty") = {} /\ pc' = AfterBroadcast({"not_full"})
       \/ \E u \in WaitingOn("not_empty") :
             pc' = [AfterBroadcast({"not_full"}) EXCEPT
                        ![u] = "woken_not_empty"]
    /\ UNCHANGED <<ring, arg, ret>>

Shutdown ==
    /\ shutting_down' = TRUE
    /\ pc' = AfterBroadcast({"not_empty", "not_full"})
    /\ UNCHANGED <<ring, arg, ret>>

Clear ==
    /\ head' = 0
    /\ tail' = 0
    /\ size' = 0
    /\ pc' = AfterBroadcast({"not_full"})
    /\ UNCHANGED <<items, shutting_down, arg, ret>>

-----------------------------------------------------------------------------
\* A thread that has the mutex, or is next to get it, runs its critical
\* section.
Step(t) ==
    \/ EnqueueWait(t) \/ EnqueueRefused(t) \/ EnqueuePut(t)
    \/ DequeueWait(t) \/ DequeueRefused(t) \/ DequeueTake(t)

Call(t) ==
    \/ CallDequeue(t) \/ TryDequeue(t)
    \/ \E item \in Items : CallEnqueue(t, item) \/ TryEnqueue(t, item)

Next ==
    \/ \E t \in Threads : Step(t) \/ Call(t) \/ SpuriousWakeup(t)
    \/ Shutdown
    \/ Clear

Spec == Init /\ [][Next]_vars

\* Critical sections are finite and the mutex is handed on: a thread that
\* wants it gets it.  Nothing obliges a thread to call, the environment to
\* shut the queue down, or a sleeping thread to wake up unsignalled.
FairSpec == Spec /\ \A t \in Threads : WF_vars(Step(t))

-----------------------------------------------------------------------------
(* Properties                                                              *)

PCs == {"idle", "enqueue", "wait_not_full", "woken_not_full",
        "dequeue", "wait_not_empty", "woken_not_empty"}

\* Every variable keeps its type: the indices stay inside the array of
\* msg_queue.c:19-25 and size never leaves 0..capacity.
TypeOK ==
    /\ items \in [Slots -> Items \cup {NoItem}]
    /\ head \in Slots
    /\ tail \in Slots
    /\ size \in 0 .. Capacity
    /\ shutting_down \in BOOLEAN
    /\ pc \in [Threads -> PCs]
    /\ arg \in [Threads -> Items \cup {NoItem}]
    /\ ret \in [Threads -> [ok : BOOLEAN, item : Items \cup {NoItem}]]

\* The occupied slots run from head, `size` of them, and tail is the slot
\* after the last: the wrap-around bookkeeping of msg_queue.c:114-118 and
\* 173-179 keeps head, tail and the separate size counter in agreement, also
\* where head = tail is ambiguous.  No occupied slot was left unwritten, and
\* an enqueuer keeps its item across pthread_cond_wait.
RingConsistent ==
    /\ tail = (head + size) % Capacity
    /\ \A k \in 0 .. size - 1 : items[(head + k) % Capacity] \in Items
    /\ \A t \in Threads :
          pc[t] \in {"enqueue", "wait_not_full", "woken_not_full"}
             => arg[t] \in Items

\* No wakeup is lost (msg_queue.c:121, 146, 182, 209, 259): while a consumer
\* sleeps on not_empty, every queued item has a consumer of its own that is
\* awake and on its way to the mutex; while a producer sleeps on not_full,
\* every free slot has such a producer.
NoLostWakeup ==
    /\ WaitingOn("not_empty") # {} =>
          size <= Cardinality({t \in Threads : Dequeueing(t)})
    /\ WaitingOn("not_full") # {} =>
          Capacity - size <= Cardinality({t \in Threads : Enqueueing(t)})

\* Once shutting_down is set nobody is asleep on either condition variable,
\* and nobody falls asleep again: both broadcasts of msg_queue.c:234-239 are
\* needed, and so is the test of the flag in both wait loops.
NobodySleepsAfterShutdown ==
    shutting_down => WaitingOn("not_empty") \cup WaitingOn("not_full") = {}

\* The abstract contents of the ring, oldest first.
Contents == [i \in 1 .. size |-> items[(head + (i - 1)) % Capacity]]

AbstractOp ==
    [t \in Threads |->
        CASE pc[t] = "idle" -> "idle"
          [] pc[t] \in {"enqueue", "wait_not_full", "woken_not_full"} -> "enqueue"
          [] OTHER -> "dequeue"]

BQ == INSTANCE BoundedQueue WITH q <- Contents, closed <- shutting_down,
                                 op <- AbstractOp

\* The ring with its two condition variables implements the bounded FIFO
\* that msg_queue.h:15-67 describes: calls take effect in one step, items come
\* out in the order they went in, once each, a blocking call returns false
\* only after shutdown and, for dequeue, only when drained.
ImplementsBoundedQueue == BQ!Spec

\* After msg_queue_shutdown no thread stays in a blocking call: this is what
\* main's pthread_join calls rely on (main.c:247-254).
ShutdownReleasesCallers ==
    \A t \in Threads : (shutting_down /\ pc[t] # "idle") ~> pc[t] = "idle"

\* A thread asleep on not_empty does not stay asleep beside queued items, nor
\* one asleep on not_full beside free slots: either it is woken or others
\* use the items or slots up.
SleepersAreServed ==
    \A t \in Threads :
        /\ (pc[t] = "wait_not_empty" /\ size > 0)
               ~> (pc[t] # "wait_not_empty" \/ size = 0)
        /\ (pc[t] = "wait_not_full" /\ size < Capacity)
               ~> (pc[t] # "wait_not_full" \/ size = Capacity)
=============================================================================
