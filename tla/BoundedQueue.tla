---------------------------- MODULE BoundedQueue ----------------------------
(***************************************************************************)
(* What msg_queue.h promises its callers: a bounded FIFO whose blocking    *)
(* calls wait for room or for an item, and give up only once the queue has *)
(* been shut down.  There is no ring, no mutex and no condition variable   *)
(* here: a blocked call is simply one whose action is not enabled.         *)
(* MsgQueue implements this specification.                                 *)
(***************************************************************************)
EXTENDS Naturals, Sequences

CONSTANTS
    Threads,    \* the threads that call the queue
    Items,      \* what msg_item_t values stand for
    NoItem,     \* an out-parameter nobody has written
    Capacity

VARIABLES
    q,          \* the queued items, oldest first
    closed,     \* msg_queue_shutdown has been called
    op,         \* the blocking call each thread is in, or "idle"
    arg,        \* the item a thread in msg_queue_enqueue wants to put
    ret         \* what the thread's last call returned: the bool and *item

vars == <<q, closed, op, arg, ret>>

Answer(ok, item) == [ok |-> ok, item |-> item]

Init ==
    /\ q = <<>>
    /\ closed = FALSE
    /\ op = [t \in Threads |-> "idle"]
    /\ arg = [t \in Threads |-> NoItem]
    /\ ret = [t \in Threads |-> Answer(FALSE, NoItem)]

Return(t, ok, item) ==
    /\ op' = [op EXCEPT ![t] = "idle"]
    /\ arg' = [arg EXCEPT ![t] = NoItem]
    /\ ret' = [ret EXCEPT ![t] = Answer(ok, item)]

CallEnqueue(t, item) ==
    /\ op[t] = "idle"
    /\ op' = [op EXCEPT ![t] = "enqueue"]
    /\ arg' = [arg EXCEPT ![t] = item]
    /\ ret' = [ret EXCEPT ![t] = Answer(FALSE, NoItem)]
    /\ UNCHANGED <<q, closed>>

CallDequeue(t) ==
    /\ op[t] = "idle"
    /\ op' = [op EXCEPT ![t] = "dequeue"]
    /\ ret' = [ret EXCEPT ![t] = Answer(FALSE, NoItem)]
    /\ UNCHANGED <<q, closed, arg>>

\* A blocking enqueue returns true by appending, and false only when it is
\* both too late and too full.
Put(t) ==
    /\ op[t] = "enqueue"
    /\ Len(q) < Capacity
    /\ q' = Append(q, arg[t])
    /\ Return(t, TRUE, NoItem)
    /\ UNCHANGED closed

PutRefused(t) ==
    /\ op[t] = "enqueue"
    /\ closed
    /\ Len(q) = Capacity
    /\ Return(t, FALSE, NoItem)
    /\ UNCHANGED <<q, closed>>

\* A blocking dequeue returns the oldest item, and false only when the queue
\* is shut down and drained.
Take(t) ==
    /\ op[t] = "dequeue"
    /\ q # <<>>
    /\ q' = Tail(q)
    /\ Return(t, TRUE, Head(q))
    /\ UNCHANGED closed

TakeRefused(t) ==
    /\ op[t] = "dequeue"
    /\ closed
    /\ q = <<>>
    /\ Return(t, FALSE, NoItem)
    /\ UNCHANGED <<q, closed>>

\* The try_ calls never wait, and do not look at closed.
TryPut(t, item) ==
    /\ op[t] = "idle"
    /\ \/ Len(q) < Capacity /\ q' = Append(q, item) /\ Return(t, TRUE, NoItem)
       \/ Len(q) = Capacity /\ q' = q /\ Return(t, FALSE, NoItem)
    /\ UNCHANGED closed

TryTake(t) ==
    /\ op[t] = "idle"
    /\ \/ q # <<>> /\ q' = Tail(q) /\ Return(t, TRUE, Head(q))
       \/ q = <<>> /\ q' = q /\ Return(t, FALSE, NoItem)
    /\ UNCHANGED closed

Clear ==
    /\ q' = <<>>
    /\ UNCHANGED <<closed, op, arg, ret>>

Close ==
    /\ closed' = TRUE
    /\ UNCHANGED <<q, op, arg, ret>>

Next ==
    \/ \E t \in Threads :
          \/ CallDequeue(t) \/ Put(t) \/ PutRefused(t)
          \/ Take(t) \/ TakeRefused(t) \/ TryTake(t)
          \/ \E item \in Items : CallEnqueue(t, item) \/ TryPut(t, item)
    \/ Clear
    \/ Close

Spec == Init /\ [][Next]_vars
=============================================================================
