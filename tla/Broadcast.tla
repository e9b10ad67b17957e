------------------------------ MODULE Broadcast ------------------------------
(***************************************************************************)
(* What pubsub.h promises, without registry, array or loop: every name has *)
(* a set of listening queues, a message published under it is offered once *)
(* to each queue that listens when the publish begins, in any order, and   *)
(* nobody joins or leaves meanwhile.  A full queue misses what it is       *)
(* offered; one with room may, since memory can run out at any time.       *)
(***************************************************************************)
EXTENDS Naturals, Sequences

CONSTANTS Names, Queues, Messages, Capacity

VARIABLES
    listeners,      \* the queues that listen to each name
    message,        \* the message being published, 0 when there is none
    pending,        \* the queues it has yet to be offered to
    box             \* what waits in each queue

vars == <<listeners, message, pending, box>>

Init ==
    /\ listeners = [n \in Names |-> {}]
    /\ message = 0
    /\ pending = {}
    /\ box = [q \in Queues |-> <<>>]

Publish(m, n) ==
    /\ message = 0
    /\ message' = m
    /\ pending' = listeners[n]
    /\ UNCHANGED <<listeners, box>>

Offer(q) ==
    /\ pending' = pending \ {q}
    /\ \/ /\ Len(box[q]) < Capacity
          /\ box' = [box EXCEPT ![q] = Append(@, message)]
       \/ UNCHANGED box
    /\ UNCHANGED <<listeners, message>>

Published ==
    /\ message # 0 /\ pending = {}
    /\ message' = 0
    /\ UNCHANGED <<listeners, pending, box>>

Join(q, n) ==
    /\ message = 0
    /\ UNCHANGED <<message, pending, box>>
    /\ listeners' = [listeners EXCEPT ![n] = @ \cup {q}]

Leave(q, n) ==
    /\ message = 0
    /\ UNCHANGED <<message, pending, box>>
    /\ listeners' = [listeners EXCEPT ![n] = @ \ {q}]

Receive(q) ==
    /\ box[q] # <<>>
    /\ box' = [box EXCEPT ![q] = Tail(@)]
    /\ UNCHANGED <<listeners, message, pending>>

\* The owner destroys queues, none of which listens any more.
Discard(Q) ==
    /\ box' = [q \in Queues |-> IF q \in Q THEN <<>> ELSE box[q]]
    /\ \A n \in Names : listeners[n] \cap Q = {}
    /\ pending \cap Q = {}
    /\ UNCHANGED <<listeners, message, pending>>

Next ==
    \/ \E m \in Messages, n \in Names : Publish(m, n)
    \/ \E q \in pending : Offer(q)
    \/ Published
    \/ \E q \in Queues, n \in Names : Join(q, n) \/ Leave(q, n)
    \/ \E q \in Queues : Receive(q)
    \/ \E Q \in SUBSET Queues : Discard(Q)

Spec == Init /\ [][Next]_vars
==============================================================================
