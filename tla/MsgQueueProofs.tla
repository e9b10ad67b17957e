--------------------------- MODULE MsgQueueProofs ---------------------------
(***************************************************************************)
(* Proofs about MsgQueue, for every set of threads and items and every     *)
(* capacity.                                                               *)
(***************************************************************************)
EXTENDS MsgQueue, FiniteSetTheorems, TLAPS

(* Arithmetic of the ring.                                                 *)

\* msg_queue_create never builds a ring of capacity 0 (msg_queue.c:36-38).
LEMMA CapacityPositive == Capacity \in Nat \ {0}
BY CapacityAssumption DEF Capacity

\* What `% capacity` does to an index at most one lap ahead: it is the slot
\* itself, or the slot one lap back.
LEMMA Wrap ==
    ASSUME NEW a \in Slots, NEW k \in 0 .. Capacity
    PROVE  /\ (a + k) % Capacity \in Slots
           /\ (a + k) % Capacity = IF a + k < Capacity THEN a + k
                                                       ELSE a + k - Capacity
<1> DEFINE c == Capacity
<1>1. c \in Nat \ {0}
  BY CapacityPositive
<1>2. a \in 0 .. c - 1 /\ k \in 0 .. c
  BY DEF Slots
<1> HIDE DEF c
<1>3. CASE a + k < c
  <2>1. (a + k) % c = a + k
    BY <1>1, <1>2, <1>3
  <2> QED
    BY <1>1, <1>2, <1>3, <2>1 DEF Slots, c
<1>4. CASE a + k >= c
  <2>1. (a + k) % c = a + k - c
    BY <1>1, <1>2, <1>4
  <2> QED
    BY <1>1, <1>2, <1>4, <2>1 DEF Slots, c
<1> QED
  BY <1>1, <1>2, <1>3, <1>4

\* Walking on by one slot, from the front or from the back of a stretch.
LEMMA Shift ==
    ASSUME NEW a \in Slots, NEW k \in 0 .. Capacity - 1
    PROVE  /\ (((a + 1) % Capacity) + k) % Capacity = (a + (k + 1)) % Capacity
           /\ (((a + k) % Capacity) + 1) % Capacity = (a + (k + 1)) % Capacity
<1> DEFINE c == Capacity
           front == (a + 1) % c
           back == (a + k) % c
<1>1. c \in Nat \ {0}
  BY CapacityPositive
<1>2. a \in 0 .. c - 1 /\ k \in 0 .. c - 1
  BY DEF Slots
<1>3. 1 \in 0 .. c /\ k \in 0 .. c /\ k + 1 \in 0 .. c
  BY <1>1, <1>2
<1>4. /\ front \in 0 .. c - 1
      /\ front = IF a + 1 < c THEN a + 1 ELSE a + 1 - c
  BY <1>3, Wrap DEF Slots
<1>5. /\ back \in 0 .. c - 1
      /\ back = IF a + k < c THEN a + k ELSE a + k - c
  BY <1>3, Wrap DEF Slots
<1>6. (front + k) % c = IF front + k < c THEN front + k ELSE front + k - c
  BY <1>3, <1>4, Wrap DEF Slots
<1>7. (back + 1) % c = IF back + 1 < c THEN back + 1 ELSE back + 1 - c
  BY <1>3, <1>5, Wrap DEF Slots
<1>8. (a + (k + 1)) % c = IF a + (k + 1) < c THEN a + (k + 1)
                                             ELSE a + (k + 1) - c
  BY <1>3, Wrap
<1> HIDE DEF c, front, back
<1>9. (front + k) % c = (a + (k + 1)) % c
  BY <1>1, <1>2, <1>4, <1>6, <1>8
<1>10. (back + 1) % c = (a + (k + 1)) % c
  BY <1>1, <1>2, <1>5, <1>7, <1>8
<1> QED
  BY <1>9, <1>10 DEF c, front, back

\* Within one lap no slot is met twice.
LEMMA Distinct ==
    ASSUME NEW a \in Slots, NEW j \in 0 .. Capacity - 1,
           NEW k \in 0 .. Capacity - 1, j # k
    PROVE  (a + j) % Capacity # (a + k) % Capacity
<1> DEFINE c == Capacity
<1>1. c \in Nat \ {0}
  BY CapacityPositive
<1>2. a \in 0 .. c - 1 /\ j \in 0 .. c - 1 /\ k \in 0 .. c - 1
  BY DEF Slots
<1>3. j \in 0 .. c /\ k \in 0 .. c
  BY <1>1, <1>2
<1>4. (a + j) % c = IF a + j < c THEN a + j ELSE a + j - c
  BY <1>3, Wrap
<1>5. (a + k) % c = IF a + k < c THEN a + k ELSE a + k - c
  BY <1>3, Wrap
<1> HIDE DEF c
<1>6. (a + j) % c # (a + k) % c
  BY <1>1, <1>2, <1>4, <1>5
<1> QED
  BY <1>6 DEF c

-----------------------------------------------------------------------------
(* Type correctness                                                        *)

\* What a call returns is a bool and the out-parameter.
LEMMA AnswerType ==
    ASSUME NEW ok \in BOOLEAN, NEW item \in Items \cup {NoItem}
    PROVE  Answer(ok, item) \in [ok : BOOLEAN, item : Items \cup {NoItem}]
BY DEF Answer

\* msg_queue_create builds a well-typed, empty ring.
LEMMA InitType == Init => TypeOK
<1> SUFFICES ASSUME Init PROVE TypeOK
  OBVIOUS
<1>1. Answer(FALSE, NoItem) \in [ok : BOOLEAN, item : Items \cup {NoItem}]
  BY AnswerType, Zenon
<1>2. /\ head \in Slots /\ tail \in Slots /\ size \in 0 .. Capacity
      /\ items \in [Slots -> Items \cup {NoItem}]
  BY CapacityPositive DEF Init, Slots
<1>3. /\ shutting_down \in BOOLEAN /\ pc \in [Threads -> PCs]
      /\ arg \in [Threads -> Items \cup {NoItem}]
  BY Zenon DEF Init, PCs
<1>4. ret \in [Threads -> [ok : BOOLEAN, item : Items \cup {NoItem}]]
  BY <1>1, Zenon DEF Init
<1> QED
  BY <1>2, <1>3, <1>4 DEF TypeOK

\* Writing at tail and wrapping stays inside the array (msg_queue.c:116-118).
LEMMA PushType ==
    ASSUME TypeOK, size < Capacity, NEW item \in Items \cup {NoItem}, Push(item)
    PROVE  /\ items' \in [Slots -> Items \cup {NoItem}]
           /\ head' \in Slots /\ tail' \in Slots
           /\ size' \in 0 .. Capacity
<1>1. 1 \in 0 .. Capacity
  BY CapacityPositive
<1>2. (tail + 1) % Capacity \in Slots
  BY <1>1, Wrap DEF TypeOK
<1> QED
  BY <1>2, CapacityPositive DEF TypeOK, Push

\* Taking at head and wrapping stays inside the array (msg_queue.c:177-179).
LEMMA PopType ==
    ASSUME TypeOK, size > 0, Pop
    PROVE  /\ items' \in [Slots -> Items \cup {NoItem}]
           /\ head' \in Slots /\ tail' \in Slots
           /\ size' \in 0 .. Capacity
<1>1. 1 \in 0 .. Capacity
  BY CapacityPositive
<1>2. (head + 1) % Capacity \in Slots
  BY <1>1, Wrap DEF TypeOK
<1> QED
  BY <1>2, CapacityPositive DEF TypeOK, Pop

\* A return, with the one signal it may send, leaves every thread at a legal
\* point.
LEMMA SignalType ==
    ASSUME TypeOK, NEW t \in Threads, NEW cond, NEW ok \in BOOLEAN,
           NEW item \in Items \cup {NoItem},
           SignalAndReturn(t, cond, ok, item) \/ Return(t, ok, item)
    PROVE  /\ pc' \in [Threads -> PCs]
           /\ arg' \in [Threads -> Items \cup {NoItem}]
           /\ ret' \in [Threads -> [ok : BOOLEAN, item : Items \cup {NoItem}]]
<1>1. pc' \in [Threads -> PCs]
  <2>1. CASE pc' = [pc EXCEPT ![t] = "idle"]
    BY <2>1 DEF TypeOK, PCs
  <2>2. ASSUME NEW u \in WaitingOn(cond),
               pc' = [pc EXCEPT ![t] = "idle", ![u] = Woken(cond)]
        PROVE  pc' \in [Threads -> PCs]
    <3>1. Woken(cond) \in PCs
      BY DEF Woken, PCs
    <3> QED
      BY <2>2, <3>1, Zenon DEF TypeOK, PCs
  <2> QED
    BY <2>1, <2>2 DEF SignalAndReturn, Return
<1>2. arg' \in [Threads -> Items \cup {NoItem}]
  BY DEF TypeOK, SignalAndReturn, Return
<1>3. ret' \in [Threads -> [ok : BOOLEAN, item : Items \cup {NoItem}]]
  BY AnswerType DEF TypeOK, SignalAndReturn, Return
<1> QED
  BY <1>1, <1>2, <1>3

\* A broadcast leaves every thread at a legal point (msg_queue.c:238-239, 259).
LEMMA BroadcastType ==
    ASSUME TypeOK, NEW conds
    PROVE  AfterBroadcast(conds) \in [Threads -> PCs]
BY DEF TypeOK, AfterBroadcast, PCs

\* Every critical section preserves the types.
LEMMA NextType == TypeOK /\ [Next]_vars => TypeOK'
<1> SUFFICES ASSUME TypeOK, [Next]_vars PROVE TypeOK'
  OBVIOUS
<1> USE DEF ring
<1>1. ASSUME NEW t \in Threads,
             EnqueueWait(t) \/ DequeueWait(t) \/ SpuriousWakeup(t)
      PROVE  TypeOK'
  <2>1. pc' \in [Threads -> PCs]
    BY <1>1 DEF TypeOK, EnqueueWait, DequeueWait, SpuriousWakeup, PCs
  <2>2. UNCHANGED <<ring, shutting_down, arg, ret>>
    BY <1>1 DEF EnqueueWait, DequeueWait, SpuriousWakeup
  <2> QED
    BY <2>1, <2>2 DEF TypeOK
<1>2. ASSUME NEW t \in Threads, EnqueueRefused(t) \/ DequeueRefused(t)
      PROVE  TypeOK'
  <2>1. Return(t, FALSE, NoItem) /\ UNCHANGED <<ring, shutting_down>>
    BY <1>2, Zenon DEF EnqueueRefused, DequeueRefused
  <2> QED
    BY <2>1, SignalType, Zenon DEF TypeOK
<1>3. ASSUME NEW t \in Threads, EnqueuePut(t)
      PROVE  TypeOK'
  <2>1. arg[t] \in Items \cup {NoItem}
    BY DEF TypeOK
  <2>2. /\ items' \in [Slots -> Items \cup {NoItem}]
        /\ head' \in Slots /\ tail' \in Slots /\ size' \in 0 .. Capacity
    BY <1>3, <2>1, PushType DEF EnqueuePut
  <2>3. /\ pc' \in [Threads -> PCs]
        /\ arg' \in [Threads -> Items \cup {NoItem}]
        /\ ret' \in [Threads -> [ok : BOOLEAN, item : Items \cup {NoItem}]]
    BY <1>3, SignalType, Zenon DEF EnqueuePut
  <2> QED
    BY <1>3, <2>2, <2>3 DEF TypeOK, EnqueuePut
<1>4. ASSUME NEW t \in Threads, NEW item \in Items, TryEnqueue(t, item)
      PROVE  TypeOK'
  <2>1. /\ pc' \in [Threads -> PCs]
        /\ arg' \in [Threads -> Items \cup {NoItem}]
        /\ ret' \in [Threads -> [ok : BOOLEAN, item : Items \cup {NoItem}]]
    BY <1>4, SignalType, Zenon DEF TryEnqueue
  <2>2. /\ items' \in [Slots -> Items \cup {NoItem}]
        /\ head' \in Slots /\ tail' \in Slots /\ size' \in 0 .. Capacity
    <3>1. CASE UNCHANGED ring
      BY <3>1 DEF TypeOK
    <3>2. CASE size < Capacity /\ Push(item)
      BY <3>2, PushType
    <3> QED
      BY <1>4, <3>1, <3>2, Zenon DEF TryEnqueue
  <2> QED
    BY <1>4, <2>1, <2>2 DEF TypeOK, TryEnqueue
<1>5. ASSUME NEW t \in Threads, DequeueTake(t)
      PROVE  TypeOK'
  <2>1. items[head] \in Items \cup {NoItem}
    BY DEF TypeOK
  <2>2. /\ items' \in [Slots -> Items \cup {NoItem}]
        /\ head' \in Slots /\ tail' \in Slots /\ size' \in 0 .. Capacity
    BY <1>5, PopType DEF DequeueTake
  <2>3. /\ pc' \in [Threads -> PCs]
        /\ arg' \in [Threads -> Items \cup {NoItem}]
        /\ ret' \in [Threads -> [ok : BOOLEAN, item : Items \cup {NoItem}]]
    BY <1>5, <2>1, SignalType, Zenon DEF DequeueTake
  <2> QED
    BY <1>5, <2>2, <2>3 DEF TypeOK, DequeueTake
<1>6. ASSUME NEW t \in Threads, TryDequeue(t)
      PROVE  TypeOK'
  <2>1. items[head] \in Items \cup {NoItem}
    BY DEF TypeOK
  <2>2. /\ pc' \in [Threads -> PCs]
        /\ arg' \in [Threads -> Items \cup {NoItem}]
        /\ ret' \in [Threads -> [ok : BOOLEAN, item : Items \cup {NoItem}]]
    BY <1>6, <2>1, SignalType, Zenon DEF TryDequeue
  <2>3. /\ items' \in [Slots -> Items \cup {NoItem}]
        /\ head' \in Slots /\ tail' \in Slots /\ size' \in 0 .. Capacity
    <3>1. CASE UNCHANGED ring
      BY <3>1 DEF TypeOK
    <3>2. CASE size > 0 /\ Pop
      BY <3>2, PopType
    <3> QED
      BY <1>6, <3>1, <3>2, Zenon DEF TryDequeue
  <2> QED
    BY <1>6, <2>2, <2>3 DEF TypeOK, TryDequeue
<1>7. ASSUME NEW t \in Threads, NEW item \in Items, CallEnqueue(t, item)
      PROVE  TypeOK'
  BY <1>7 DEF TypeOK, CallEnqueue, PCs, Answer
<1>8. ASSUME NEW t \in Threads, CallDequeue(t)
      PROVE  TypeOK'
  BY <1>8 DEF TypeOK, CallDequeue, PCs, Answer
<1>9. CASE Shutdown
  BY <1>9, BroadcastType DEF TypeOK, Shutdown
<1>10. CASE Clear
  BY <1>10, BroadcastType, CapacityPositive DEF TypeOK, Clear, Slots
<1>11. CASE UNCHANGED vars
  BY <1>11 DEF TypeOK, vars
<1> QED
  BY <1>1, <1>2, <1>3, <1>4, <1>5, <1>6, <1>7, <1>8, <1>9, <1>10, <1>11
     DEF Next, Step, Call

\* The indices and the counter of the ring never leave the array, whatever the
\* threads do (msg_queue.c:19-25).
THEOREM TypeCorrect == Spec => []TypeOK
BY InitType, NextType, PTL DEF Spec

-----------------------------------------------------------------------------
(* The ring                                                                *)

\* The part of RingConsistent that is about the array and its indices.
RingOK ==
    /\ tail = (head + size) % Capacity
    /\ \A k \in 0 .. size - 1 : items[(head + k) % Capacity] \in Items

\* The part that is about the callers.
EnqueuePCs == {"enqueue", "wait_not_full", "woken_not_full"}
Carrying == \A t \in Threads : pc[t] \in EnqueuePCs => arg[t] \in Items

\* The invariant in two halves: the ring, and what the enqueuers carry.
LEMMA RingParts == RingConsistent <=> RingOK /\ Carrying
BY DEF RingConsistent, RingOK, Carrying, EnqueuePCs

\* Enqueueing extends the occupied stretch by the slot at tail.
LEMMA PushRing ==
    ASSUME TypeOK, RingOK, size < Capacity, NEW item \in Items, Push(item)
    PROVE  RingOK'
<1>1. /\ head \in Slots /\ tail \in Slots /\ size \in 0 .. Capacity - 1
      /\ items \in [Slots -> Items \cup {NoItem}]
  BY CapacityPositive DEF TypeOK
<1>2. /\ head' = head /\ size' = size + 1 /\ tail' = (tail + 1) % Capacity
      /\ items' = [items EXCEPT ![tail] = item]
  BY DEF Push
<1>3. tail' = (head' + size') % Capacity
  BY <1>1, <1>2, Shift DEF RingOK
<1>4. ASSUME NEW k \in 0 .. size' - 1
      PROVE  items'[(head' + k) % Capacity] \in Items
  <2>1. k \in 0 .. size /\ k \in 0 .. Capacity - 1 /\ k \in 0 .. Capacity
    BY <1>1, <1>2, CapacityPositive
  <2>2. (head + k) % Capacity \in Slots
    BY <1>1, <2>1, Wrap
  <2>3. CASE k = size
    BY <1>1, <1>2, <2>2, <2>3 DEF RingOK
  <2>4. CASE k # size
    <3>1. (head + k) % Capacity # tail
      BY <1>1, <2>1, <2>4, Distinct DEF RingOK
    <3>2. k \in 0 .. size - 1
      BY <1>1, <2>1, <2>4
    <3>3. items[(head + k) % Capacity] \in Items
      BY <3>2 DEF RingOK
    <3> QED
      BY <1>1, <1>2, <2>2, <3>1, <3>3
  <2> QED
    BY <2>3, <2>4
<1> QED
  BY <1>3, <1>4 DEF RingOK

\* Dequeueing shortens the occupied stretch by the slot at head.
LEMMA PopRing ==
    ASSUME TypeOK, RingOK, size > 0, Pop
    PROVE  RingOK'
<1>1. head \in Slots /\ size \in 1 .. Capacity
  BY DEF TypeOK
<1>2. /\ head' = (head + 1) % Capacity /\ size' = size - 1
      /\ tail' = tail /\ items' = items
  BY DEF Pop
<1>3. tail' = (head' + size') % Capacity
  <2>1. size - 1 \in 0 .. Capacity - 1 /\ (size - 1) + 1 = size
    BY <1>1, CapacityPositive
  <2> QED
    BY <1>1, <1>2, <2>1, Shift DEF RingOK
<1>4. ASSUME NEW k \in 0 .. size' - 1
      PROVE  items'[(head' + k) % Capacity] \in Items
  <2>1. k \in 0 .. Capacity - 1 /\ k + 1 \in 0 .. size - 1
    BY <1>1, <1>2, CapacityPositive
  <2>2. (head' + k) % Capacity = (head + (k + 1)) % Capacity
    BY <1>1, <1>2, <2>1, Shift
  <2> QED
    BY <1>2, <2>1, <2>2 DEF RingOK
<1> QED
  BY <1>3, <1>4 DEF RingOK

\* A thread that returns from a call, waking at most one other, leaves every
\* enqueuer with its item.
LEMMA ReturnCarrying ==
    ASSUME TypeOK, Carrying, NEW t \in Threads, NEW ok, NEW item,
           NEW cond \in {"not_empty", "not_full"}, t \notin WaitingOn(cond),
           SignalAndReturn(t, cond, ok, item) \/ Return(t, ok, item)
    PROVE  Carrying'
<1> SUFFICES ASSUME NEW u \in Threads, pc'[u] \in EnqueuePCs
             PROVE  arg'[u] \in Items
  BY DEF Carrying
<1>1. arg' = [arg EXCEPT ![t] = NoItem]
  BY DEF SignalAndReturn, Return
<1>2. pc'[t] = "idle"
  BY DEF SignalAndReturn, Return, TypeOK
<1>3. u # t
  BY <1>2 DEF EnqueuePCs
<1>4. pc[u] \in EnqueuePCs
  <2>1. CASE pc' = [pc EXCEPT ![t] = "idle"]
    BY <1>3, <2>1 DEF TypeOK
  <2>2. ASSUME NEW w \in WaitingOn(cond),
               pc' = [pc EXCEPT ![t] = "idle", ![w] = Woken(cond)]
        PROVE  pc[u] \in EnqueuePCs
    BY <1>3, <2>2 DEF TypeOK, WaitingOn, Woken, EnqueuePCs
  <2> QED
    BY <2>1, <2>2 DEF SignalAndReturn, Return
<1> QED
  BY <1>1, <1>3, <1>4 DEF TypeOK, Carrying

\* An enqueuer keeps its item in every step of any thread
\* (msg_queue.c:105-107).
LEMMA CarryingStep ==
    ASSUME TypeOK, Carrying, [Next]_vars
    PROVE  Carrying'
<1>1. ASSUME NEW t \in Threads,
             EnqueueWait(t) \/ DequeueWait(t) \/ SpuriousWakeup(t)
      PROVE  Carrying'
  <2>1. arg' = arg
    BY <1>1 DEF EnqueueWait, DequeueWait, SpuriousWakeup
  <2>2. \A u \in Threads : pc'[u] \in EnqueuePCs => pc[u] \in EnqueuePCs
    BY <1>1 DEF EnqueueWait, DequeueWait, SpuriousWakeup, WaitingOn,
                Enqueueing, EnqueuePCs, TypeOK
  <2> QED
    BY <2>1, <2>2 DEF Carrying
<1>2. ASSUME NEW t \in Threads, EnqueueRefused(t) \/ EnqueuePut(t)
      PROVE  Carrying'
  BY <1>2, ReturnCarrying, Zenon
     DEF EnqueueRefused, EnqueuePut, Enqueueing, WaitingOn
<1>3. ASSUME NEW t \in Threads, DequeueRefused(t) \/ DequeueTake(t)
      PROVE  Carrying'
  BY <1>3, ReturnCarrying, Zenon
     DEF DequeueRefused, DequeueTake, Dequeueing, WaitingOn
<1>4. ASSUME NEW t \in Threads, NEW item \in Items, TryEnqueue(t, item)
      PROVE  Carrying'
  BY <1>4, ReturnCarrying, Zenon DEF TryEnqueue, WaitingOn
<1>5. ASSUME NEW t \in Threads, TryDequeue(t)
      PROVE  Carrying'
  BY <1>5, ReturnCarrying, Zenon DEF TryDequeue, WaitingOn
<1>6. ASSUME NEW t \in Threads, NEW item \in Items, CallEnqueue(t, item)
      PROVE  Carrying'
  BY <1>6 DEF CallEnqueue, Carrying, TypeOK, EnqueuePCs
<1>7. ASSUME NEW t \in Threads, CallDequeue(t)
      PROVE  Carrying'
  BY <1>7 DEF CallDequeue, Carrying, TypeOK, EnqueuePCs
<1>8. CASE Shutdown \/ Clear
  BY <1>8 DEF Shutdown, Clear, AfterBroadcast, WaitingOn, Carrying, TypeOK,
              EnqueuePCs
<1>9. CASE UNCHANGED vars
  BY <1>9 DEF vars, Carrying
<1> QED
  BY <1>1, <1>2, <1>3, <1>4, <1>5, <1>6, <1>7, <1>8, <1>9
     DEF Next, Step, Call

\* What a step does to the ring: nothing, one push into room, one pop of
\* something, or msg_queue_clear.
LEMMA RingSteps ==
    ASSUME TypeOK, Carrying, [Next]_vars
    PROVE  \/ UNCHANGED ring
           \/ size < Capacity /\ \E item \in Items : Push(item)
           \/ size > 0 /\ Pop
           \/ Clear
<1>1. ASSUME NEW t \in Threads, EnqueuePut(t)
      PROVE  size < Capacity /\ \E item \in Items : Push(item)
  BY <1>1 DEF EnqueuePut, Enqueueing, Carrying, EnqueuePCs
<1>2. ASSUME NEW t \in Threads, NEW item \in Items, TryEnqueue(t, item)
      PROVE  UNCHANGED ring \/ (size < Capacity /\ Push(item))
  BY <1>2, Zenon DEF TryEnqueue
<1>3. ASSUME NEW t \in Threads, DequeueTake(t) \/ TryDequeue(t)
      PROVE  UNCHANGED ring \/ (size > 0 /\ Pop)
  BY <1>3, Zenon DEF DequeueTake, TryDequeue
<1>4. ASSUME NEW t \in Threads,
             \/ EnqueueWait(t) \/ EnqueueRefused(t) \/ DequeueWait(t)
             \/ DequeueRefused(t) \/ CallDequeue(t) \/ SpuriousWakeup(t)
      PROVE  UNCHANGED ring
  BY <1>4, Zenon DEF ring, EnqueueWait, EnqueueRefused, DequeueWait, DequeueRefused,
     CallDequeue, SpuriousWakeup
<1>5. ASSUME NEW t \in Threads, NEW item \in Items, CallEnqueue(t, item)
      PROVE  UNCHANGED ring
  BY <1>5 DEF ring, CallEnqueue
<1>6. ASSUME Shutdown \/ UNCHANGED vars
      PROVE  UNCHANGED ring
  BY <1>6 DEF ring, vars, Shutdown
<1> QED
  BY <1>1, <1>2, <1>3, <1>4, <1>5, <1>6 DEF Next, Step, Call

\* The new ring is consistent.
LEMMA RingInit == Init => RingConsistent
BY CapacityPositive DEF Init, RingConsistent

\* Every critical section preserves the consistency of the ring.
LEMMA RingNext == TypeOK /\ RingConsistent /\ [Next]_vars => RingConsistent'
<1> SUFFICES ASSUME TypeOK, RingOK, Carrying, [Next]_vars
             PROVE  RingOK' /\ Carrying'
  BY RingParts DEF RingConsistent, RingOK, Carrying, EnqueuePCs
<1>1. ASSUME UNCHANGED ring PROVE RingOK'
  BY <1>1 DEF RingOK, ring
<1>2. ASSUME Clear PROVE RingOK'
  BY <1>2, CapacityPositive DEF RingOK, Clear
<1> QED
  BY <1>1, <1>2, RingSteps, PushRing, PopRing, CarryingStep

\* head, tail and the size counter always describe the same stretch of the
\* array, every slot of it written: msg_queue_dequeue never hands out a slot
\* nobody filled, across any number of laps (msg_queue.c:114-118, 173-179).
THEOREM RingCorrect == Spec => []RingConsistent
<1>1. Init => RingConsistent
  BY RingInit
<1>2. TypeOK /\ RingConsistent /\ [Next]_vars => RingConsistent'
  BY RingNext
<1> QED
  BY <1>1, <1>2, TypeCorrect, PTL DEF Spec

-----------------------------------------------------------------------------
(* Sleeping and waking                                                     *)

Asleep(t) == pc[t] \in {"wait_not_empty", "wait_not_full"}

\* The thread that returns goes idle, and the only other pc a signal changes
\* is that of one sleeper on cond.
LEMMA ReturnPC ==
    ASSUME TypeOK, NEW t \in Threads, ~Asleep(t), NEW ok, NEW item,
           NEW cond \in {"not_empty", "not_full"},
           SignalAndReturn(t, cond, ok, item)
    PROVE  /\ pc'[t] = "idle"
           /\ \/ /\ WaitingOn(cond) = {}
                 /\ \A v \in Threads \ {t} : pc'[v] = pc[v]
              \/ \E u \in WaitingOn(cond) :
                    /\ u # t
                    /\ pc'[u] = Woken(cond)
                    /\ \A v \in Threads \ {t, u} : pc'[v] = pc[v]
<1>1. CASE WaitingOn(cond) = {} /\ pc' = [pc EXCEPT ![t] = "idle"]
  BY <1>1 DEF TypeOK
<1>2. ASSUME NEW u \in WaitingOn(cond),
             pc' = [pc EXCEPT ![t] = "idle", ![u] = Woken(cond)]
      PROVE  /\ pc'[t] = "idle"
             /\ u # t
             /\ pc'[u] = Woken(cond)
             /\ \A v \in Threads \ {t, u} : pc'[v] = pc[v]
  <2>1. u # t /\ u \in Threads
    BY <1>2 DEF WaitingOn, Asleep
  <2> QED
    BY <1>2, <2>1 DEF TypeOK
<1> QED
  BY <1>1, <1>2 DEF SignalAndReturn

\* Only the two wait loops put a thread to sleep, and only while the queue is
\* open.
LEMMA FallingAsleep ==
    ASSUME TypeOK, [Next]_vars, NEW v \in Threads, Asleep(v)', ~Asleep(v)
    PROVE  ~shutting_down /\ ~shutting_down'
<1>1. ASSUME NEW t \in Threads, EnqueueWait(t) \/ DequeueWait(t)
      PROVE  ~shutting_down /\ ~shutting_down'
  BY <1>1 DEF EnqueueWait, DequeueWait
<1>2. ASSUME NEW t \in Threads, EnqueueRefused(t) \/ DequeueRefused(t)
      PROVE  FALSE
  BY <1>2, Zenon DEF EnqueueRefused, DequeueRefused, Return, TypeOK, Asleep
<1>3. ASSUME NEW t \in Threads, NEW ok, NEW item,
             NEW cond \in {"not_empty", "not_full"}, ~Asleep(t),
             SignalAndReturn(t, cond, ok, item) \/ Return(t, ok, item)
      PROVE  FALSE
  <2>1. CASE Return(t, ok, item)
    BY <2>1 DEF Return, TypeOK, Asleep
  <2>2. CASE SignalAndReturn(t, cond, ok, item)
    BY <1>3, <2>2, ReturnPC DEF Woken, Asleep
  <2> QED
    BY <1>3, <2>1, <2>2
<1>4. ASSUME NEW t \in Threads, NEW item \in Items, TryEnqueue(t, item)
      PROVE  FALSE
  BY <1>3, <1>4, Zenon DEF TryEnqueue, Asleep
<1>5. ASSUME NEW t \in Threads, TryDequeue(t) \/ DequeueTake(t) \/ EnqueuePut(t)
      PROVE  FALSE
  BY <1>3, <1>5, Zenon DEF EnqueuePut, DequeueTake, TryDequeue,
                    Enqueueing, Dequeueing, Asleep
<1>6. ASSUME NEW t \in Threads, CallDequeue(t) \/ SpuriousWakeup(t)
      PROVE  FALSE
  BY <1>6, Zenon DEF CallDequeue, SpuriousWakeup, TypeOK, Asleep
<1>7. ASSUME NEW t \in Threads, NEW item \in Items, CallEnqueue(t, item)
      PROVE  FALSE
  BY <1>7 DEF CallEnqueue, TypeOK, Asleep
<1>8. CASE Shutdown \/ Clear
  BY <1>8 DEF Shutdown, Clear, AfterBroadcast, WaitingOn, TypeOK, Asleep
<1>9. CASE UNCHANGED vars
  BY <1>9 DEF vars, Asleep
<1> QED
  BY <1>1, <1>2, <1>4, <1>5, <1>6, <1>7, <1>8, <1>9 DEF Next, Step, Call

\* Every critical section preserves that nobody sleeps after shutdown.
LEMMA SleepNext ==
    TypeOK /\ NobodySleepsAfterShutdown /\ [Next]_vars
       => NobodySleepsAfterShutdown'
<1> SUFFICES ASSUME TypeOK, NobodySleepsAfterShutdown, [Next]_vars,
                    shutting_down', NEW v \in Threads, Asleep(v)'
             PROVE  FALSE
  BY DEF NobodySleepsAfterShutdown, WaitingOn, Asleep
<1>1. Asleep(v) /\ ~shutting_down
  BY FallingAsleep DEF NobodySleepsAfterShutdown, WaitingOn, Asleep
<1>2. Shutdown
  BY <1>1, Zenon DEF Next, Step, Call, vars, EnqueueWait, EnqueueRefused, EnqueuePut,
     TryEnqueue, CallEnqueue, DequeueWait, DequeueRefused, DequeueTake,
     TryDequeue, CallDequeue, SpuriousWakeup, Clear
<1> QED
  BY <1>2 DEF Shutdown, AfterBroadcast, WaitingOn, Asleep

\* After msg_queue_shutdown no thread is asleep on either condition variable
\* and none falls asleep again (msg_queue.c:105-107, 164-166, 233-239).
THEOREM ShutdownWakesAll == Spec => []NobodySleepsAfterShutdown
<1>1. Init => NobodySleepsAfterShutdown
  BY DEF Init, NobodySleepsAfterShutdown
<1>2. TypeOK /\ NobodySleepsAfterShutdown /\ [Next]_vars
         => NobodySleepsAfterShutdown'
  BY SleepNext
<1> QED
  BY <1>1, <1>2, TypeCorrect, PTL DEF Spec

-----------------------------------------------------------------------------
(* No lost wakeups.  Each condition variable has a supply, what its        *)
(* sleepers wait for, and threads awake that will use the supply up.       *)

Conds == {"not_empty", "not_full"}
Awake(cond) ==
    {t \in Threads : IF cond = "not_empty" THEN Dequeueing(t) ELSE Enqueueing(t)}
Supply(cond) == IF cond = "not_empty" THEN size ELSE Capacity - size
Covered(cond) ==
    WaitingOn(cond) # {} => Supply(cond) <= Cardinality(Awake(cond))

\* The two halves of NoLostWakeup are one statement about a condition variable.
LEMMA CoveredBoth == NoLostWakeup <=> \A cond \in Conds : Covered(cond)
BY DEF NoLostWakeup, Covered, Conds, Supply, Awake, WaitingOn

\* The counting argument, once for all actions.
LEMMA Count ==
    ASSUME TypeOK, TypeOK', NEW cond \in Conds, Covered(cond),
           \/ WaitingOn(cond)' = {}
           \/ Supply(cond)' = 0
           \/ /\ WaitingOn(cond) # {}
              /\ \/ /\ Supply(cond)' <= Supply(cond)
                    /\ Awake(cond) \subseteq Awake(cond)'
                 \/ \E t \in Awake(cond) :
                       /\ Supply(cond)' = Supply(cond) - 1
                       /\ Awake(cond)' = Awake(cond) \ {t}
                 \/ \E u \in Threads \ Awake(cond) :
                       /\ Supply(cond)' = Supply(cond) + 1
                       /\ Awake(cond)' = Awake(cond) \cup {u}
    PROVE  Covered(cond)'
<1> DEFINE A == Awake(cond)
           B == Awake(cond)'
<1>1. A \in SUBSET Threads /\ B \in SUBSET Threads
  BY DEF Awake
<1>2. IsFiniteSet(A) /\ IsFiniteSet(B)
  BY <1>1, FS_Subset, ThreadsAssumption
<1>3. Cardinality(A) \in Nat /\ Cardinality(B) \in Nat
  BY <1>2, FS_CardinalityType
<1>4. Supply(cond) \in Int /\ Supply(cond)' \in Int
  BY CapacityPositive DEF TypeOK, Supply
<1>5. A \subseteq B => Cardinality(A) <= Cardinality(B)
  BY <1>2, FS_Subset
<1>6. \A t \in A : B = A \ {t} => Cardinality(B) = Cardinality(A) - 1
  BY <1>2, FS_RemoveElement
<1>7. \A u \in Threads \ A : B = A \cup {u} => Cardinality(B) = Cardinality(A) + 1
  BY <1>2, FS_AddElement
<1> HIDE DEF A, B
<1>8. CASE WaitingOn(cond) # {}
  <2>1. Supply(cond) <= Cardinality(A)
    BY <1>8 DEF Covered, A
  <2>2. WaitingOn(cond)' = {} \/ Supply(cond)' <= Cardinality(B)
    BY <1>3, <1>4, <1>5, <1>6, <1>7, <2>1 DEF A, B
  <2> QED
    BY <2>2 DEF Covered, B
<1>9. CASE WaitingOn(cond) = {}
  BY <1>3, <1>9 DEF Covered, B
<1> QED
  BY <1>8, <1>9

\* Putting and taking: a thread returns with one unit more of cond's supply
\* and one less of the other's, and signals cond.
LEMMA Transfer ==
    ASSUME TypeOK, TypeOK', NEW cond \in Conds, NEW other \in Conds, cond # other,
           Covered(cond), Covered(other),
           NEW t \in Threads, ~Asleep(t), t \notin Awake(cond), NEW ok, NEW item,
           SignalAndReturn(t, cond, ok, item),
           Supply(cond)' = Supply(cond) + 1, Supply(other)' = Supply(other) - 1
    PROVE  Covered(cond)' /\ Covered(other)'
<1>1. WaitingOn(other)' = WaitingOn(other)
  BY ReturnPC DEF Conds, WaitingOn, Woken, Asleep
<1>2. Awake(other)' = Awake(other) \ {t}
  <2>1. CASE cond = "not_empty" /\ other = "not_full"
    BY <2>1, ReturnPC DEF Awake, WaitingOn, Woken, Enqueueing
  <2>2. CASE cond = "not_full" /\ other = "not_empty"
    BY <2>2, ReturnPC DEF Awake, WaitingOn, Woken, Dequeueing
  <2> QED
    BY <2>1, <2>2 DEF Conds
<1>3. Supply(other) - 1 <= Supply(other)
  BY CapacityPositive DEF Supply, TypeOK
<1>4. Covered(other)'
  <2>1. CASE t \in Awake(other)
    BY <1>1, <1>2, <2>1, Count
  <2>2. CASE t \notin Awake(other)
    <3>1. Awake(other) \subseteq Awake(other)'
      BY <1>2, <2>2
    <3> QED
      BY <1>1, <1>3, <3>1, Count
  <2> QED
    BY <2>1, <2>2
<1>5. CASE WaitingOn(cond) = {}
  <2>1. WaitingOn(cond)' = {}
    BY <1>5, ReturnPC DEF Conds, WaitingOn, Woken, Asleep
  <2> QED
    BY <1>4, <2>1, Count
<1>6. CASE WaitingOn(cond) # {}
  <2>1. PICK u \in WaitingOn(cond) :
             /\ pc'[t] = "idle"
             /\ u # t
             /\ pc'[u] = Woken(cond)
             /\ \A v \in Threads \ {t, u} : pc'[v] = pc[v]
    BY <1>6, ReturnPC DEF Conds
  <2>2. u \in Threads \ Awake(cond)
    BY DEF WaitingOn, Awake, Conds, Enqueueing, Dequeueing
  <2>3. Awake(cond)' = Awake(cond) \cup {u}
    BY <2>1, <2>2 DEF Conds, Awake, WaitingOn, Woken, Enqueueing, Dequeueing
  <2> QED
    BY <1>4, <1>6, <2>2, <2>3, Count
<1> QED
  BY <1>5, <1>6

\* Every critical section preserves that no wakeup is lost.
LEMMA WakeupNext ==
    TypeOK /\ TypeOK' /\ NobodySleepsAfterShutdown /\ NoLostWakeup /\ [Next]_vars
       => NoLostWakeup'
<1> SUFFICES ASSUME TypeOK, TypeOK', NobodySleepsAfterShutdown, [Next]_vars,
                    \A cond \in Conds : Covered(cond)
             PROVE  \A cond \in Conds : Covered(cond)'
  BY CoveredBoth DEF NoLostWakeup, Covered, Conds, Supply, Awake, WaitingOn
<1> DEFINE Goal == \A cond \in Conds : Covered(cond)'
<1>1. ASSUME UNCHANGED size,
             \A cond \in Conds : /\ WaitingOn(cond)' \subseteq WaitingOn(cond)
                                 /\ Awake(cond) \subseteq Awake(cond)'
      PROVE  Goal
  <2> SUFFICES ASSUME NEW cond \in Conds PROVE Covered(cond)'
    OBVIOUS
  <2>1. Supply(cond)' <= Supply(cond)
    BY <1>1, CapacityPositive DEF Supply, TypeOK
  <2> QED
    BY <1>1, <2>1, Count
<1>2. ASSUME NEW t \in Threads, EnqueueWait(t) PROVE Goal
  <2>1. Covered("not_full")'
    <3>1. Supply("not_full")' = 0
      BY <1>2, CapacityPositive DEF EnqueueWait, ring, Supply, TypeOK
    <3> QED
      BY <3>1, Count DEF Conds
  <2>2. Covered("not_empty")'
    <3>1. /\ WaitingOn("not_empty")' = WaitingOn("not_empty")
          /\ Awake("not_empty")' = Awake("not_empty")
          /\ Supply("not_empty")' = Supply("not_empty")
      BY <1>2 DEF EnqueueWait, ring, Supply, TypeOK, WaitingOn, Awake,
                  Enqueueing, Dequeueing
    <3> QED
      BY <3>1 DEF Covered, Conds
  <2> QED
    BY <2>1, <2>2 DEF Conds
<1>3. ASSUME NEW t \in Threads, DequeueWait(t) PROVE Goal
  <2>1. Covered("not_empty")'
    <3>1. Supply("not_empty")' = 0
      BY <1>3 DEF DequeueWait, ring, Supply
    <3> QED
      BY <3>1, Count DEF Conds
  <2>2. Covered("not_full")'
    <3>1. /\ WaitingOn("not_full")' = WaitingOn("not_full")
          /\ Awake("not_full")' = Awake("not_full")
          /\ Supply("not_full")' = Supply("not_full")
      BY <1>3 DEF DequeueWait, ring, Supply, TypeOK, WaitingOn, Awake,
                  Enqueueing, Dequeueing
    <3> QED
      BY <3>1 DEF Covered, Conds
  <2> QED
    BY <2>1, <2>2 DEF Conds
<1>4. ASSUME NEW t \in Threads, EnqueueRefused(t) \/ DequeueRefused(t)
      PROVE  Goal
  <2>1. \A cond \in Conds : WaitingOn(cond)' = {}
    BY <1>4, Zenon DEF EnqueueRefused, DequeueRefused, Return, Conds, WaitingOn,
                NobodySleepsAfterShutdown, TypeOK
  <2> QED
    BY <2>1, Count
<1>5. ASSUME NEW t \in Threads, ~Asleep(t), NEW item, size < Capacity,
             Push(item), SignalAndReturn(t, "not_empty", TRUE, NoItem),
             t \notin Awake("not_empty")
      PROVE  Goal
  <2>1. /\ Supply("not_empty")' = Supply("not_empty") + 1
        /\ Supply("not_full")' = Supply("not_full") - 1
    BY <1>5, CapacityPositive DEF Push, Supply, TypeOK
  <2> QED
    BY <1>5, <2>1, Transfer, Zenon DEF Conds
<1>6. ASSUME NEW t \in Threads, ~Asleep(t), size > 0,
             Pop, SignalAndReturn(t, "not_full", TRUE, items[head]),
             t \notin Awake("not_full")
      PROVE  Goal
  <2>1. /\ Supply("not_full")' = Supply("not_full") + 1
        /\ Supply("not_empty")' = Supply("not_empty") - 1
    BY <1>6, CapacityPositive DEF Pop, Supply, TypeOK
  <2> QED
    BY <1>6, <2>1, Transfer, Zenon DEF Conds
<1>7. ASSUME NEW t \in Threads, pc[t] = "idle", Return(t, FALSE, NoItem),
             UNCHANGED ring
      PROVE  Goal
  BY <1>1, <1>7 DEF Return, ring, WaitingOn, Awake, Enqueueing, Dequeueing, TypeOK
<1>8. ASSUME NEW t \in Threads, CallDequeue(t) \/ SpuriousWakeup(t)
      PROVE  Goal
  BY <1>1, <1>8, Zenon DEF CallDequeue, SpuriousWakeup, ring, WaitingOn, Awake,
                    Enqueueing, Dequeueing, TypeOK, Conds
<1>9. ASSUME NEW t \in Threads, NEW item \in Items, CallEnqueue(t, item)
      PROVE  Goal
  BY <1>1, <1>9 DEF CallEnqueue, ring, WaitingOn, Awake, Enqueueing,
                    Dequeueing, TypeOK
<1>10. CASE Shutdown
  <2>1. \A cond \in Conds : WaitingOn(cond)' = {}
    BY <1>10 DEF Shutdown, AfterBroadcast, WaitingOn, Conds
  <2> QED
    BY <2>1, Count
<1>11. CASE Clear
  <2>1. Supply("not_empty")' = 0 /\ WaitingOn("not_full")' = {}
    BY <1>11 DEF Clear, AfterBroadcast, WaitingOn, Supply
  <2> QED
    BY <2>1, Count DEF Conds
<1>12. CASE UNCHANGED vars
  BY <1>1, <1>12 DEF vars, WaitingOn, Awake, Enqueueing, Dequeueing
<1>13. ASSUME NEW t \in Threads, EnqueuePut(t) PROVE Goal
  BY <1>5, <1>13, Zenon DEF EnqueuePut, Enqueueing, Dequeueing, Asleep, Awake
<1>14. ASSUME NEW t \in Threads, NEW item \in Items, TryEnqueue(t, item)
       PROVE  Goal
  BY <1>5, <1>7, <1>14, Zenon DEF TryEnqueue, Dequeueing, Asleep, Awake
<1>15. ASSUME NEW t \in Threads, DequeueTake(t) \/ TryDequeue(t) PROVE Goal
  BY <1>6, <1>7, <1>15, Zenon
     DEF DequeueTake, TryDequeue, Enqueueing, Dequeueing, Asleep, Awake
<1> QED
  BY <1>2, <1>3, <1>4, <1>8, <1>9, <1>10, <1>11, <1>12, <1>13, <1>14, <1>15,
     SMTT(30) DEF Next, Step, Call

\* While a thread sleeps on not_empty every queued item has an awake consumer
\* of its own, and while one sleeps on not_full every free slot has an awake
\* producer: pthread_cond_signal once per item and per slot is enough
\* (msg_queue.c:121, 146, 182, 209, 259), for any number of threads.
THEOREM WakeupsAreNotLost == Spec => []NoLostWakeup
<1>1. Init => NoLostWakeup
  BY DEF Init, NoLostWakeup, WaitingOn
<1>2. TypeOK /\ TypeOK' /\ NobodySleepsAfterShutdown /\ NoLostWakeup /\ [Next]_vars
         => NoLostWakeup'
  BY WakeupNext
<1> QED
  BY <1>1, <1>2, TypeCorrect, ShutdownWakesAll, PTL DEF Spec
=============================================================================
