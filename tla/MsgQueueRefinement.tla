------------------------- MODULE MsgQueueRefinement -------------------------
(***************************************************************************)
(* The ring of MsgQueue implements the bounded FIFO of BoundedQueue, for   *)
(* every set of threads and items and every capacity.                      *)
(***************************************************************************)
EXTENDS MsgQueueProofs, SequenceTheorems

(* The abstract queue                                                      *)

\* n slots of an array read off from slot h, all of them written, are a
\* sequence of items of length n.
LEMMA Reading ==
    ASSUME NEW array, NEW h, NEW n \in Nat,
           \A k \in 0 .. n - 1 : array[(h + k) % Capacity] \in Items,
           NEW c, c = [i \in 1 .. n |-> array[(h + (i - 1)) % Capacity]]
    PROVE  c \in Seq(Items) /\ Len(c) = n
<1>1. ASSUME NEW i \in 1 .. n
      PROVE  array[(h + (i - 1)) % Capacity] \in Items
  <2>1. i - 1 \in 0 .. n - 1
    OBVIOUS
  <2> QED
    BY <2>1
<1>2. c \in [1 .. n -> Items]
  BY <1>1
<1>3. c \in Seq(Items)
  BY <1>2, SeqDef
<1> QED
  BY <1>2, <1>3, LenProperties

\* Contents is a sequence of items, as long as size says, before and after a
\* step.
LEMMA ContentsSeq ==
    ASSUME TypeOK, RingConsistent
    PROVE  /\ Contents \in Seq(Items) /\ Len(Contents) = size /\ size \in Nat
           /\ \A i \in 1 .. size :
                 Contents[i] = items[(head + (i - 1)) % Capacity]
<1>1. size \in Nat
  BY CapacityPositive DEF TypeOK
<1>2. Contents \in Seq(Items) /\ Len(Contents) = size
  BY <1>1, Reading DEF RingConsistent, Contents
<1> QED
  BY <1>1, <1>2 DEF Contents

\* The same after a step.
LEMMA ContentsSeqPrimed ==
    ASSUME TypeOK', RingConsistent'
    PROVE  /\ Contents' \in Seq(Items) /\ Len(Contents') = size' /\ size' \in Nat
           /\ \A i \in 1 .. size' :
                 Contents'[i] = items'[(head' + (i - 1)) % Capacity]
<1>1. size' \in Nat
  BY CapacityPositive DEF TypeOK
<1>2. \A k \in 0 .. size' - 1 : items'[(head' + k) % Capacity] \in Items
  BY DEF RingConsistent
<1>3. Contents' = [i \in 1 .. size' |-> items'[(head' + (i - 1)) % Capacity]]
  BY DEF Contents
<1>4. Contents' \in Seq(Items) /\ Len(Contents') = size'
  <2> DEFINE array == items'
             h == head'
             n == size'
             c == Contents'
  <2>1. /\ n \in Nat
        /\ \A k \in 0 .. n - 1 : array[(h + k) % Capacity] \in Items
        /\ c = [i \in 1 .. n |-> array[(h + (i - 1)) % Capacity]]
    BY <1>1, <1>2, <1>3, Zenon
  <2> HIDE DEF array, h, n, c
  <2>2. c \in Seq(Items) /\ Len(c) = n
    BY <2>1, Reading
  <2> QED
    BY <2>2 DEF c, n
<1> QED
  BY <1>1, <1>3, <1>4

\* Writing at tail appends to the contents (msg_queue.c:116-118).
LEMMA PushAppends ==
    ASSUME TypeOK, RingConsistent, TypeOK', RingConsistent',
           size < Capacity, NEW item \in Items, Push(item)
    PROVE  Contents' = Append(Contents, item)
<1> DEFINE old == Contents
           new == Contents'
           app == Append(Contents, item)
<1>1. /\ old \in Seq(Items) /\ Len(old) = size /\ size \in Nat
      /\ \A i \in 1 .. size : old[i] = items[(head + (i - 1)) % Capacity]
  BY ContentsSeq
<1>2. /\ new \in Seq(Items) /\ Len(new) = size'
      /\ \A i \in 1 .. size' : new[i] = items'[(head' + (i - 1)) % Capacity]
  BY ContentsSeqPrimed
<1>3. /\ app \in Seq(Items) /\ Len(app) = size + 1
      /\ \A i \in 1 .. size : app[i] = old[i]
      /\ app[size + 1] = item
  BY <1>1, AppendProperties
<1>4. /\ head' = head /\ size' = size + 1
      /\ items' = [items EXCEPT ![tail] = item]
      /\ tail = (head + size) % Capacity
  BY DEF Push, RingConsistent
<1>5. /\ items \in [Slots -> Items \cup {NoItem}] /\ head \in Slots
      /\ tail \in Slots /\ size \in 0 .. Capacity - 1
  BY CapacityPositive DEF TypeOK
<1> HIDE DEF old, new, app
<1>6. ASSUME NEW i \in 1 .. size
      PROVE  new[i] = app[i]
  <2>1. i - 1 \in 0 .. Capacity - 1 /\ i - 1 \in 0 .. Capacity /\ i - 1 # size
    BY <1>1, <1>5, CapacityPositive
  <2>2. (head + (i - 1)) % Capacity \in Slots \ {tail}
    BY <1>4, <1>5, <2>1, Wrap, Distinct
  <2>3. items'[(head + (i - 1)) % Capacity] = items[(head + (i - 1)) % Capacity]
    BY <1>4, <1>5, <2>2
  <2>4. i \in 1 .. size'
    BY <1>1, <1>4
  <2> QED
    BY <1>1, <1>2, <1>3, <1>4, <2>3, <2>4
<1>7. new[size + 1] = app[size + 1]
  <2>1. size + 1 \in 1 .. size' /\ (size + 1) - 1 = size
    BY <1>1, <1>4
  <2>2. new[size + 1] = items'[(head + size) % Capacity]
    BY <1>2, <1>4, <2>1
  <2> QED
    BY <1>3, <1>4, <1>5, <2>2
<1>8. \A i \in 1 .. size + 1 : new[i] = app[i]
  BY <1>1, <1>6, <1>7
<1>9. new = app
  BY <1>2, <1>3, <1>4, <1>8, SeqEqual
<1> QED
  BY <1>9 DEF new, app

\* The slot at head is the first of the contents, and advancing head drops it
\* (msg_queue.c:177-179).
LEMMA PopTakesHead ==
    ASSUME TypeOK, RingConsistent, TypeOK', RingConsistent', size > 0, Pop
    PROVE  /\ Contents # <<>>
           /\ Head(Contents) = items[head]
           /\ Contents' = Tail(Contents)
<1> DEFINE old == Contents
           new == Contents'
<1>1. /\ old \in Seq(Items) /\ Len(old) = size /\ size \in Nat
      /\ \A i \in 1 .. size : old[i] = items[(head + (i - 1)) % Capacity]
  BY ContentsSeq
<1>2. /\ new \in Seq(Items) /\ Len(new) = size'
      /\ \A i \in 1 .. size' : new[i] = items'[(head' + (i - 1)) % Capacity]
  BY ContentsSeqPrimed
<1>3. /\ head' = (head + 1) % Capacity /\ size' = size - 1 /\ items' = items
  BY DEF Pop
<1>4. head \in Slots /\ size \in 1 .. Capacity
  BY DEF TypeOK
<1> HIDE DEF old, new
<1>5. old # <<>>
  BY <1>1, EmptySeq
<1>6. /\ Tail(old) \in Seq(Items) /\ Len(Tail(old)) = size - 1
      /\ \A i \in 1 .. size - 1 : Tail(old)[i] = old[i + 1]
  BY <1>1, <1>5, HeadTailProperties
<1>7. Head(old) = items[head]
  <2>1. Head(old) = old[1] /\ 1 \in 1 .. size
    BY <1>1, <1>5
  <2>2. old[1] = items[(head + (1 - 1)) % Capacity]
    BY <1>1, <2>1
  <2>3. (head + (1 - 1)) % Capacity = head
    <3>1. 0 \in 0 .. Capacity /\ 1 - 1 = 0
      BY CapacityPositive
    <3>2. head + 0 = head /\ head < Capacity
      BY <1>4, CapacityPositive DEF Slots
    <3>3. (head + 0) % Capacity = head
      BY <1>4, <3>1, <3>2, Wrap
    <3> QED
      BY <3>1, <3>3
  <2> QED
    BY <2>1, <2>2, <2>3
<1>8. ASSUME NEW i \in 1 .. size - 1
      PROVE  new[i] = Tail(old)[i]
  <2>1. /\ i - 1 \in 0 .. Capacity - 1 /\ (i - 1) + 1 = (i + 1) - 1
        /\ i + 1 \in 1 .. size
    BY <1>4, CapacityPositive
  <2>2. (head' + (i - 1)) % Capacity = (head + ((i + 1) - 1)) % Capacity
    BY <1>3, <1>4, <2>1, Shift
  <2> QED
    BY <1>1, <1>2, <1>3, <1>6, <2>1, <2>2, Zenon
<1>9. new = Tail(old)
  BY <1>2, <1>3, <1>6, <1>8, SeqEqual
<1> QED
  BY <1>5, <1>7, <1>9 DEF old, new

-----------------------------------------------------------------------------
(* The abstract call                                                       *)

\* Falling asleep and waking up are invisible: the thread stays in its call.
LEMMA SameOp ==
    ASSUME TypeOK, TypeOK',
           \A t \in Threads :
              \/ pc'[t] = pc[t]
              \/ pc[t] \in EnqueuePCs /\ pc'[t] \in EnqueuePCs
              \/ /\ pc[t] \in {"dequeue", "wait_not_empty", "woken_not_empty"}
                 /\ pc'[t] \in {"dequeue", "wait_not_empty", "woken_not_empty"}
    PROVE  AbstractOp' = AbstractOp
BY DEF AbstractOp, EnqueuePCs

\* A return, with or without a signal to another thread, is an abstract return.
LEMMA AbstractReturn ==
    ASSUME TypeOK, NEW t \in Threads, ~Asleep(t), NEW ok, NEW item,
           NEW cond \in Conds,
           SignalAndReturn(t, cond, ok, item) \/ Return(t, ok, item)
    PROVE  BQ!Return(t, ok, item)
<1>1. AbstractOp' = [AbstractOp EXCEPT ![t] = "idle"]
  <2>1. CASE Return(t, ok, item)
    BY <2>1, Zenon DEF Return, AbstractOp, TypeOK
  <2>2. CASE SignalAndReturn(t, cond, ok, item)
    <3>1. /\ pc'[t] = "idle"
          /\ \A v \in Threads \ {t} :
                \/ pc'[v] = pc[v]
                \/ pc[v] = "wait_not_empty" /\ pc'[v] = "woken_not_empty"
                \/ pc[v] = "wait_not_full" /\ pc'[v] = "woken_not_full"
      BY <2>2, ReturnPC DEF Conds, WaitingOn, Woken
    <3> QED
      BY <3>1, Zenon DEF AbstractOp
  <2> QED
    BY <2>1, <2>2
<1> QED
  BY <1>1 DEF SignalAndReturn, Return, BQ!Return, Answer, BQ!Answer

-----------------------------------------------------------------------------
(* Step simulation                                                         *)

\* The new ring is the empty queue.
LEMMA InitRefines == Init => BQ!Init
<1> SUFFICES ASSUME Init PROVE BQ!Init
  OBVIOUS
<1>1. TypeOK /\ RingConsistent
  BY InitType, RingInit
<1>2. Contents = <<>>
  BY <1>1, ContentsSeq, EmptySeq DEF Init
<1>3. AbstractOp = [t \in Threads |-> "idle"]
  BY DEF Init, AbstractOp
<1> QED
  BY <1>2, <1>3 DEF Init, BQ!Init, Answer, BQ!Answer

\* Steps that leave the ring alone leave the contents alone.
LEMMA SameContents == ASSUME UNCHANGED ring PROVE Contents' = Contents
BY DEF ring, Contents

\* Every critical section is a step of the bounded FIFO, or invisible.
LEMMA NextRefines ==
    TypeOK /\ TypeOK' /\ RingConsistent /\ RingConsistent' /\ [Next]_vars
       => [BQ!Next]_BQ!vars
<1> SUFFICES ASSUME TypeOK, TypeOK', RingConsistent, RingConsistent', [Next]_vars
             PROVE  BQ!Next \/ UNCHANGED BQ!vars
  OBVIOUS
<1>1. /\ Len(Contents) = size /\ size \in 0 .. Capacity
      /\ Contents = <<>> <=> size = 0
  BY ContentsSeq, EmptySeq DEF TypeOK
<1>2. ASSUME NEW t \in Threads,
             EnqueueWait(t) \/ DequeueWait(t) \/ SpuriousWakeup(t)
      PROVE  UNCHANGED BQ!vars
  <2>1. UNCHANGED <<ring, shutting_down, arg, ret>>
    BY <1>2 DEF EnqueueWait, DequeueWait, SpuriousWakeup
  <2>2. AbstractOp' = AbstractOp
    BY <1>2, SameOp DEF EnqueueWait, DequeueWait, SpuriousWakeup, Enqueueing,
       Dequeueing, EnqueuePCs, WaitingOn, TypeOK
  <2> QED
    BY <2>1, <2>2, SameContents DEF BQ!vars
<1>3. ASSUME NEW t \in Threads, EnqueueRefused(t) PROVE BQ!PutRefused(t)
  <2>1. AbstractOp[t] = "enqueue" /\ ~Asleep(t)
    BY <1>3 DEF EnqueueRefused, Enqueueing, AbstractOp, Asleep
  <2>2. BQ!Return(t, FALSE, NoItem)
    BY <1>3, <2>1, AbstractReturn, Zenon DEF EnqueueRefused, Conds
  <2>3. Len(Contents) = Capacity
    BY <1>1, <1>3, CapacityPositive DEF EnqueueRefused
  <2> QED
    BY <1>3, <2>1, <2>2, <2>3, SameContents, Zenon DEF EnqueueRefused, BQ!PutRefused
<1>4. ASSUME NEW t \in Threads, DequeueRefused(t) PROVE BQ!TakeRefused(t)
  <2>1. AbstractOp[t] = "dequeue" /\ ~Asleep(t)
    BY <1>4 DEF DequeueRefused, Dequeueing, AbstractOp, Asleep
  <2>2. BQ!Return(t, FALSE, NoItem)
    BY <1>4, <2>1, AbstractReturn, Zenon DEF DequeueRefused, Conds
  <2> QED
    BY <1>1, <1>4, <2>1, <2>2, SameContents, Zenon DEF DequeueRefused, BQ!TakeRefused
<1>5. ASSUME NEW t \in Threads, EnqueuePut(t) PROVE BQ!Put(t)
  <2>1. AbstractOp[t] = "enqueue" /\ ~Asleep(t) /\ arg[t] \in Items
    BY <1>5 DEF EnqueuePut, Enqueueing, AbstractOp, Asleep, RingConsistent
  <2>2. BQ!Return(t, TRUE, NoItem)
    BY <1>5, <2>1, AbstractReturn, Zenon DEF EnqueuePut, Conds
  <2>3. Contents' = Append(Contents, arg[t])
    BY <1>5, <2>1, PushAppends DEF EnqueuePut
  <2> QED
    BY <1>1, <1>5, <2>1, <2>2, <2>3, Zenon DEF EnqueuePut, BQ!Put
<1>6. ASSUME NEW t \in Threads, DequeueTake(t) PROVE BQ!Take(t)
  <2>1. AbstractOp[t] = "dequeue" /\ ~Asleep(t)
    BY <1>6 DEF DequeueTake, Dequeueing, AbstractOp, Asleep
  <2>2. BQ!Return(t, TRUE, items[head])
    BY <1>6, <2>1, AbstractReturn, Zenon DEF DequeueTake, Conds
  <2> QED
    BY <1>6, <2>1, <2>2, PopTakesHead, Zenon DEF DequeueTake, BQ!Take
<1>7. ASSUME NEW t \in Threads, NEW item \in Items, TryEnqueue(t, item)
      PROVE  BQ!TryPut(t, item)
  <2>1. AbstractOp[t] = "idle" /\ ~Asleep(t)
    BY <1>7 DEF TryEnqueue, AbstractOp, Asleep
  <2>2. CASE size >= Capacity /\ Return(t, FALSE, NoItem) /\ UNCHANGED ring
    <3>1. BQ!Return(t, FALSE, NoItem)
      BY <2>1, <2>2, AbstractReturn, Zenon DEF Conds
    <3>2. Len(Contents) = Capacity
      BY <1>1, <2>2, CapacityPositive
    <3> QED
      BY <1>7, <2>1, <2>2, <3>1, <3>2, SameContents, Zenon DEF TryEnqueue, BQ!TryPut
  <2>3. CASE /\ size < Capacity /\ Push(item)
             /\ SignalAndReturn(t, "not_empty", TRUE, NoItem)
    <3>1. BQ!Return(t, TRUE, NoItem)
      BY <2>1, <2>3, AbstractReturn, Zenon DEF Conds
    <3> QED
      BY <1>1, <1>7, <2>1, <2>3, <3>1, PushAppends, Zenon DEF TryEnqueue, BQ!TryPut
  <2> QED
    BY <1>7, <2>2, <2>3, Zenon DEF TryEnqueue
<1>8. ASSUME NEW t \in Threads, TryDequeue(t) PROVE BQ!TryTake(t)
  <2>1. AbstractOp[t] = "idle" /\ ~Asleep(t)
    BY <1>8 DEF TryDequeue, AbstractOp, Asleep
  <2>2. CASE size = 0 /\ Return(t, FALSE, NoItem) /\ UNCHANGED ring
    <3>1. BQ!Return(t, FALSE, NoItem)
      BY <2>1, <2>2, AbstractReturn, Zenon DEF Conds
    <3> QED
      BY <1>1, <1>8, <2>1, <2>2, <3>1, SameContents, Zenon DEF TryDequeue, BQ!TryTake
  <2>3. CASE /\ size > 0 /\ Pop
             /\ SignalAndReturn(t, "not_full", TRUE, items[head])
    <3>1. BQ!Return(t, TRUE, items[head])
      BY <2>1, <2>3, AbstractReturn, Zenon DEF Conds
    <3> QED
      BY <1>8, <2>1, <2>3, <3>1, PopTakesHead, Zenon DEF TryDequeue, BQ!TryTake
  <2> QED
    BY <1>8, <2>2, <2>3, Zenon DEF TryDequeue
<1>9. ASSUME NEW t \in Threads, NEW item \in Items, CallEnqueue(t, item)
      PROVE  BQ!CallEnqueue(t, item)
  <2>1. /\ AbstractOp[t] = "idle"
        /\ AbstractOp' = [AbstractOp EXCEPT ![t] = "enqueue"]
    BY <1>9, Zenon DEF CallEnqueue, AbstractOp, TypeOK
  <2> QED
    BY <1>9, <2>1, SameContents
       DEF CallEnqueue, BQ!CallEnqueue, Answer, BQ!Answer
<1>10. ASSUME NEW t \in Threads, CallDequeue(t) PROVE BQ!CallDequeue(t)
  <2>1. /\ AbstractOp[t] = "idle"
        /\ AbstractOp' = [AbstractOp EXCEPT ![t] = "dequeue"]
    BY <1>10, Zenon DEF CallDequeue, AbstractOp, TypeOK
  <2> QED
    BY <1>10, <2>1, SameContents
       DEF CallDequeue, BQ!CallDequeue, Answer, BQ!Answer
<1>11. ASSUME NEW conds, pc' = AfterBroadcast(conds)
       PROVE  AbstractOp' = AbstractOp
  BY <1>11, SameOp DEF AfterBroadcast, WaitingOn, EnqueuePCs, TypeOK
<1>12. CASE Shutdown
  BY <1>11, <1>12, SameContents DEF Shutdown, BQ!Next, BQ!Close
<1>13. CASE Clear
  <2>1. Contents' = <<>>
    BY <1>13, ContentsSeqPrimed, EmptySeq DEF Clear
  <2> QED
    BY <1>11, <1>13, <2>1 DEF Clear, BQ!Next, BQ!Clear
<1>14. CASE UNCHANGED vars
  BY <1>14, SameContents DEF vars, ring, AbstractOp, BQ!vars
<1> QED
  BY <1>2, <1>3, <1>4, <1>5, <1>6, <1>7, <1>8, <1>9, <1>10, <1>12, <1>13, <1>14,
     SMTT(30) DEF Next, Step, Call, BQ!Next

\* The ring with its mutex and condition variables implements the bounded FIFO
\* of msg_queue.h:15-67: every call takes effect at one instant, items come out
\* once each and in order, false is returned only for the reasons documented.
THEOREM MsgQueueRefinesFIFO == Spec => ImplementsBoundedQueue
<1>1. Init => BQ!Init
  BY InitRefines
<1>2. TypeOK /\ TypeOK' /\ RingConsistent /\ RingConsistent' /\ [Next]_vars
         => [BQ!Next]_BQ!vars
  BY NextRefines
<1> QED
  BY <1>1, <1>2, TypeCorrect, RingCorrect, PTL
     DEF Spec, BQ!Spec, ImplementsBoundedQueue
=============================================================================
