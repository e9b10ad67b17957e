-------------------------- MODULE PubSubFlowProofs --------------------------
(***************************************************************************)
(* Who owns a payload clone, and in which order messages reach the         *)
(* subscribers, for any number of workers, sessions and messages and every *)
(* capacity.                                                               *)
(***************************************************************************)
EXTENDS PubSubProofs, FiniteSetTheorems

USE LimitsAssumption, BoundsAssumption

-----------------------------------------------------------------------------
(* Every clone has one owner                                               *)

\* The clone of m for q waits in q, or a session has it in its hands.
In(q, m) == Holds(queue[q], m)
Held(q, m) == \E s \in Sessions : hand[s] = <<m, q>>

Accounted ==
    \A q \in Queues, m \in Messages :
        /\ <<m, q>> \in heap <=> In(q, m) \/ Held(q, m)
        /\ ~(In(q, m) /\ Held(q, m))

\* A session takes payloads from its own queues, and only in serve_client.
OwnHand(place, h, s) ==
    /\ place # "subscribed" => h = Nothing
    /\ \A m \in Messages, q \in Queues : h = <<m, q>> => q[1] = s
Hands == \A s \in Sessions : OwnHand(at[s], hand[s], s)

Apart == \A q \in Queues : Distinct(queue[q])

\* A number is drawn once, and a worker's message has reached only the queues
\* it was offered to.
Numbers ==
    /\ \A p \in Publishers : job[p].item < Coming
    /\ \A p, x \in Publishers : p # x /\ job[p].item # 0 => job[p].item # job[x].item
    /\ \A q \in Queues, m \in Messages : <<m, q>> \in heap =>
          /\ m < Coming
          /\ \A p \in Publishers : job[p].item = m =>
                job[p].entry # 0 /\ q \in job[p].offered

Flow == Accounted /\ Hands /\ Apart /\ Numbers
FInv == RInv /\ Flow

\* As long as nothing is enqueued, dequeued, or freed.
LEMMA FlowKept ==
    ASSUME Accounted, Apart, UNCHANGED <<queue, hand, heap>>
    PROVE  Accounted' /\ Apart'
<1>1. \A q, m : (In(q, m)' <=> In(q, m)) /\ (Held(q, m)' <=> Held(q, m))
  BY Zenon DEF In, Held
<1>2. Accounted'
  BY <1>1, Zenon DEF Accounted
<1>3. Apart'
  BY Zenon DEF Apart
<1> QED
  BY <1>2, <1>3

\* A new number is nobody's.
LEMMA DrawFlow ==
    ASSUME FInv, NEW p \in Publishers, NextSequence(p)
    PROVE  Flow'
<1>0. PubT
  BY Parts, Zenon DEF FInv, RInv, TInv
<1>1. /\ Coming' = Coming + 1 /\ job' = [job EXCEPT ![p].item = Coming]
      /\ UNCHANGED <<queue, at, hand, heap>>
  <2>1. /\ seq' = Append(seq, next_seq) /\ job' = [job EXCEPT ![p].item = Coming]
        /\ UNCHANGED <<queue, at, hand, heap>>
    BY Zenon DEF NextSequence, sess, Coming
  <2>2. Coming' = Coming + 1
    BY <1>0, <2>1 DEF PubT, Coming
  <2> QED
    BY <2>1, <2>2
<1>2. /\ Coming \in Nat /\ \A x \in Publishers : job[x].item \in Nat
      /\ job \in [Publishers -> Jobs]
  <2>1. Coming \in Nat
    BY <1>0, ComingType
  <2> QED
    BY <1>0, <2>1 DEF PubT, Jobs
<1>3. /\ job'[p].item = Coming
      /\ \A x \in Publishers : x # p => job'[x] = job[x]
  BY <1>1, <1>2 DEF Jobs
<1>4. Numbers'
  <2>1. /\ \A x \in Publishers : job[x].item < Coming
        /\ \A y, x \in Publishers : y # x /\ job[y].item # 0 => job[y].item # job[x].item
        /\ \A q \in Queues, m \in Messages : <<m, q>> \in heap =>
              /\ m < Coming
              /\ \A x \in Publishers : job[x].item = m =>
                    job[x].entry # 0 /\ q \in job[x].offered
    BY Zenon DEF FInv, Flow, Numbers
  <2>2. \A x \in Publishers : job'[x].item < Coming'
    BY <1>1, <1>2, <1>3, <2>1
  <2>3. ASSUME NEW y \in Publishers, NEW x \in Publishers, y # x, job'[y].item # 0
        PROVE  job'[y].item # job'[x].item
    BY <1>2, <1>3, <2>1, <2>3
  <2>4. ASSUME NEW q \in Queues, NEW m \in Messages, <<m, q>> \in heap'
        PROVE  m < Coming' /\ m # Coming
    <3>1. m < Coming /\ m \in Nat
      BY <1>1, <2>1, <2>4 DEF Messages
    <3> QED
      BY <1>1, <1>2, <3>1
  <2>5. ASSUME NEW q \in Queues, NEW m \in Messages, <<m, q>> \in heap',
               NEW x \in Publishers, job'[x].item = m
        PROVE  job'[x].entry # 0 /\ q \in job'[x].offered
    <3>1. x # p
      BY <1>3, <2>4, <2>5, Zenon
    <3> QED
      <4>1. job'[x] = job[x] /\ <<m, q>> \in heap
        BY <1>1, <1>3, <2>5, <3>1, Zenon
      <4> QED
        BY <2>1, <2>5, <4>1, Zenon
  <2> QED
    BY <2>2, <2>3, <2>4, <2>5, Zenon DEF Numbers
<1>5. Accounted' /\ Hands' /\ Apart'
  <2>1. Hands'
    BY <1>1, Zenon DEF FInv, Flow, Hands
  <2> QED
    BY <1>1, <2>1, FlowKept, Zenon DEF FInv, Flow
<1> QED
  BY <1>4, <1>5, Zenon DEF Flow

\* A step of p that puts no message on a queue.
LEMMA QuietFlow ==
    ASSUME FInv, NEW p \in Publishers, UNCHANGED <<next_seq, seq, queue, at, hand, heap>>,
           \A x \in Publishers : x # p => job'[x] = job[x],
           \/ job'[p].item = 0
           \/ job'[p].item = job[p].item /\ job[p].entry = 0
           \/ /\ job'[p].item = job[p].item /\ job'[p].entry = job[p].entry
              /\ job[p].offered \subseteq job'[p].offered
    PROVE  Flow'
<1>1. Accounted' /\ Hands' /\ Apart'
  <2>1. Hands'
    BY Zenon DEF FInv, Flow, Hands
  <2> QED
    BY <2>1, FlowKept, Zenon DEF FInv, Flow
<1>0. Coming' = Coming
  BY DEF Coming
<1>2. Coming > 0 /\ 0 \notin Messages
  <2>1. PubT
    BY Parts, Zenon DEF FInv, RInv, TInv
  <2>2. Coming \in Nat /\ Coming # 0
    BY <2>1, ComingType
  <2> QED
    BY <2>2 DEF Messages
<1>3. \A x \in Publishers : job'[x].item = 0 \/ job'[x].item = job[x].item
  BY Zenon
<1>4. \A x \in Publishers : job'[x].item < Coming'
  <2>1. 0 < Coming
    <3>1. PubT
      BY Parts, Zenon DEF FInv, RInv, TInv
    <3>2. Coming \in Nat
      BY <3>1, ComingType
    <3> QED
      BY <1>2, <3>2
  <2> QED
    BY <1>0, <1>3, <2>1, Zenon DEF FInv, Flow, Numbers
<1>5. ASSUME NEW y \in Publishers, NEW x \in Publishers, y # x, job'[y].item # 0
      PROVE  job'[y].item # job'[x].item
  <2>1. job'[y].item = job[y].item /\ job[y].item # job[x].item
    BY <1>3, <1>5, Zenon DEF FInv, Flow, Numbers
  <2> QED
    BY <1>3, <1>5, <2>1, Zenon
<1>6. ASSUME NEW q \in Queues, NEW m \in Messages, <<m, q>> \in heap'
      PROVE  /\ m < Coming'
             /\ \A x \in Publishers : job'[x].item = m =>
                   job'[x].entry # 0 /\ q \in job'[x].offered
  <2>1. /\ m < Coming
        /\ \A x \in Publishers : job[x].item = m => job[x].entry # 0 /\ q \in job[x].offered
    BY <1>6, Zenon DEF FInv, Flow, Numbers
  <2> QED
    BY <1>0, <1>2, <2>1, Zenon
<1>7. Numbers'
  BY <1>4, <1>5, <1>6, Zenon DEF Numbers
<1> QED
  BY <1>1, <1>7, Zenon DEF Flow

\* The subscriber the loop has come to has not been offered the message.
LEMMA NotOffered ==
    ASSUME TInv, NEW p \in Publishers, InFanOut(p)
    PROVE  Target(p) \notin job[p].offered
<1> DEFINE subs == Audience(p)
           n == job[p].next
<1>1. job[p].entry # 0 /\ job[p].entry \in DOMAIN topics /\ n \in DOMAIN subs
  BY Aimed, Zenon
<1>2. Distinct(subs) /\ Offered(job[p], subs)
  BY <1>1, Zenon DEF TInv, Exact, Fanning, JobOK, Audience
<1>3. subs \in Seq(Queues)
  BY <1>1, Parts, EntryType, Zenon DEF TInv, Audience
<1>4. Target(p) = subs[n] /\ job[p].offered = {subs[i] : i \in 1 .. n - 1}
  BY <1>2, Zenon DEF Target, Offered
<1> HIDE DEF subs, n
<1>5. \A i \in 1 .. n - 1 : i \in DOMAIN subs /\ i # n
  BY <1>1, <1>3
<1> QED
  BY <1>1, <1>2, <1>4, <1>5, Zenon DEF Distinct

\* A delivery: the clone is new on the heap and new to the queue.
LEMMA DeliverFlow ==
    ASSUME FInv, NEW p \in Publishers, InFanOut(p), Advance(p), Deliver(p),
           Len(queue[Target(p)]) < Capacity,
           UNCHANGED <<topics, mutex, next_seq, seq, at, hand>>
    PROVE  /\ Flow' /\ ~In(Target(p), job[p].item)
           /\ queue'[Target(p)] = Append(queue[Target(p)], job[p].item)
           /\ \A x \in Queues : x # Target(p) => queue'[x] = queue[x]
<1> DEFINE q0 == Target(p)
           m0 == job[p].item
<1>0. TInv /\ QueT /\ PubT
  BY Parts, Zenon DEF FInv, RInv, TInv
<1>1. q0 \in Queues /\ m0 \in Messages
  BY <1>0, Aimed, Zenon
<1>2. /\ job'[p].item = m0 /\ job'[p].entry = job[p].entry /\ job[p].entry # 0
      /\ job'[p].offered = job[p].offered \cup {q0}
      /\ \A x \in Publishers : x # p => job'[x] = job[x]
  BY <1>0, Aimed, Looped, Zenon
<1>3. q0 \notin job[p].offered
  BY <1>0, NotOffered, Zenon
<1>4. /\ queue' = [queue EXCEPT ![q0] = Append(queue[q0], m0)]
      /\ heap' = heap \cup {<<m0, q0>>}
  BY Zenon DEF Deliver, Clone
<1> HIDE DEF q0, m0
<1>5. <<m0, q0>> \notin heap
  BY <1>1, <1>3, Zenon DEF FInv, Flow, Numbers, m0
<1>6. ~In(q0, m0) /\ ~Held(q0, m0)
  BY <1>1, <1>5, Zenon DEF FInv, Flow, Accounted
<1>7. /\ queue'[q0] = Append(queue[q0], m0)
      /\ \A x \in Queues : x # q0 => queue'[x] = queue[x]
  BY <1>0, <1>1, <1>4, Zenon DEF QueT
<1>8. queue[q0] \in Seq(Messages) /\ Distinct(queue[q0]) /\ ~Holds(queue[q0], m0)
  BY <1>0, <1>1, <1>6, Zenon DEF QueT, In, FInv, Flow, Apart
<1>9. /\ Distinct(queue'[q0])
      /\ \A x : Holds(queue'[q0], x) <=> x = m0 \/ Holds(queue[q0], x)
  <2>1. /\ Distinct(Append(queue[q0], m0))
        /\ \A x : Holds(Append(queue[q0], m0), x) <=> x = m0 \/ Holds(queue[q0], x)
    BY <1>1, <1>8, Appended, Zenon
  <2> QED
    BY <1>7, <2>1, Zenon
<1>10. Apart'
  <2>1. \A x \in Queues : Distinct(queue[x])
    BY Zenon DEF FInv, Flow, Apart
  <2>2. \A x \in Queues : Distinct(queue'[x])
    BY <1>7, <1>9, <2>1, Zenon
  <2> QED
    BY <2>2, Zenon DEF Apart
<1>11. \A q \in Queues : \A m : In(q, m)' <=> In(q, m) \/ (q = q0 /\ m = m0)
  BY <1>7, <1>9, Zenon DEF In
<1>12. \A q, m : Held(q, m)' <=> Held(q, m)
  BY Zenon DEF Held
<1>13. \A q, m : <<m, q>> \in heap' <=> <<m, q>> \in heap \/ (q = q0 /\ m = m0)
  BY <1>4, Pair, Zenon
<1>14. Accounted'
  <2> SUFFICES ASSUME NEW q \in Queues, NEW m \in Messages
               PROVE  /\ <<m, q>> \in heap' <=> In(q, m)' \/ Held(q, m)'
                      /\ ~(In(q, m)' /\ Held(q, m)')
    BY Zenon DEF Accounted
  <2>1. In(q, m)' <=> In(q, m) \/ (q = q0 /\ m = m0)
    BY <1>11, Zenon
  <2>2. /\ <<m, q>> \in heap <=> In(q, m) \/ Held(q, m)
        /\ ~(In(q, m) /\ Held(q, m))
    BY Zenon DEF FInv, Flow, Accounted
  <2>3. q = q0 /\ m = m0 => ~In(q, m) /\ ~Held(q, m)
    BY <1>6, Zenon
  <2> QED
    BY <1>12, <1>13, <2>1, <2>2, <2>3, Zenon
<1>15. Hands'
  BY Zenon DEF FInv, Flow, Hands
<1>16. Numbers'
  <2>0. Coming' = Coming
    BY DEF Coming
  <2>1. /\ \A x \in Publishers : job[x].item < Coming
        /\ \A y, x \in Publishers : y # x /\ job[y].item # 0 => job[y].item # job[x].item
        /\ \A q \in Queues, m \in Messages : <<m, q>> \in heap =>
              /\ m < Coming
              /\ \A x \in Publishers : job[x].item = m =>
                    job[x].entry # 0 /\ q \in job[x].offered
    BY Zenon DEF FInv, Flow, Numbers
  <2>2. \A x \in Publishers : job'[x].item = job[x].item
    BY <1>2, Zenon DEF m0
  <2>3. m0 # 0 /\ m0 < Coming
    BY <1>1, <2>1 DEF Messages, m0
  <2>4. \A x \in Publishers : job[x].item = m0 => x = p
    BY <2>1, <2>3, Zenon DEF m0
  <2>5. ASSUME NEW q \in Queues, NEW m \in Messages, <<m, q>> \in heap'
        PROVE  /\ m < Coming'
               /\ \A x \in Publishers : job'[x].item = m =>
                     job'[x].entry # 0 /\ q \in job'[x].offered
    <3>1. CASE <<m, q>> \in heap
      <4>1. \A x \in Publishers :
               job'[x].entry = job[x].entry /\ job[x].offered \subseteq job'[x].offered
        BY <1>2, Zenon
      <4>2. /\ m < Coming
            /\ \A x \in Publishers : job[x].item = m =>
                  job[x].entry # 0 /\ q \in job[x].offered
        BY <2>1, <3>1, Zenon
      <4> QED
        BY <2>0, <2>2, <4>1, <4>2, Zenon
    <3>2. CASE q = q0 /\ m = m0
      BY <1>2, <2>0, <2>2, <2>3, <2>4, <3>2, Zenon
    <3> QED
      BY <1>13, <2>5, <3>1, <3>2, Zenon
  <2> QED
    BY <2>0, <2>1, <2>2, <2>5, Zenon DEF Numbers
<1> QED
  BY <1>6, <1>7, <1>10, <1>14, <1>15, <1>16, Zenon DEF Flow, q0, m0

\* An empty hand holds no clone.
LEMMA EmptyHand ==
    /\ \A m \in Messages, q \in Queues : <<m, q>> # Nothing
    /\ \A place, s : OwnHand(place, Nothing, s)
<1>1. \A m \in Messages, q \in Queues : <<m, q>> \in Clones
  BY DEF Clones
<1>2. \A m \in Messages, q \in Queues : <<m, q>> # Nothing
  BY <1>1, BoundsAssumption, Zenon
<1> QED
  BY <1>2, Zenon DEF OwnHand

\* Only its publisher's message is told apart from the others'.
LEMMA NumbersKept ==
    ASSUME Numbers, UNCHANGED <<next_seq, seq, job>>, heap' \subseteq heap PROVE Numbers'
BY Zenon DEF Numbers, Coming

\* The oldest message leaves a queue of different ones.
LEMMA Tailed ==
    ASSUME NEW S, NEW s \in Seq(S), s # <<>>, Distinct(s)
    PROVE  /\ Distinct(Tail(s)) /\ Holds(s, Head(s))
           /\ \A x : Holds(Tail(s), x) <=> Holds(s, x) /\ x # Head(s)
<1> DEFINE t == Tail(s)
           n == Len(s)
<1>1. /\ n \in Nat /\ n > 0 /\ DOMAIN s = 1 .. n /\ DOMAIN t = 1 .. n - 1
      /\ Head(s) = s[1] /\ \A i \in 1 .. n - 1 : t[i] = s[i + 1]
  OBVIOUS
<1> HIDE DEF t, n
<1>2. Distinct(t)
  BY <1>1 DEF Distinct
<1>3. Holds(s, Head(s))
  BY <1>1 DEF Holds
<1>4. ASSUME NEW x, Holds(t, x) PROVE Holds(s, x) /\ x # Head(s)
  <2>1. PICK i \in 1 .. n - 1 : t[i] = x
    BY <1>1, <1>4, Zenon DEF Holds
  <2>2. i + 1 \in DOMAIN s /\ i + 1 # 1 /\ 1 \in DOMAIN s /\ s[i + 1] = x
    BY <1>1, <2>1
  <2> QED
    BY <1>1, <2>2, Zenon DEF Holds, Distinct
<1>5. ASSUME NEW x, Holds(s, x), x # Head(s) PROVE Holds(t, x)
  <2>1. PICK i \in 1 .. n : s[i] = x
    BY <1>1, <1>5, Zenon DEF Holds
  <2>2. i - 1 \in 1 .. n - 1 /\ t[i - 1] = x
    BY <1>1, <1>5, <2>1
  <2> QED
    BY <1>1, <2>2, Zenon DEF Holds
<1> QED
  BY <1>2, <1>3, <1>4, <1>5, Zenon DEF t

\* A dequeue: the clone passes from the queue to the session.
LEMMA TakeFlow ==
    ASSUME FInv, NEW s \in Sessions, NEW q0 \in Queues, q0[1] = s, Take(s, q0),
           hand[s] = Nothing, UNCHANGED <<next_seq, seq, job, heap>>,
           at'[s] = "subscribed", \A x \in Sessions : x # s => at'[x] = at[x]
    PROVE  Flow'
<1> DEFINE m0 == Head(queue[q0])
<1>0. TInv /\ QueT
  BY Parts, Zenon DEF FInv, RInv, TInv
<1>1. /\ hand'[s] = <<m0, q0>> /\ queue'[q0] = Tail(queue[q0])
      /\ \A x \in Queues : x # q0 => queue'[x] = queue[x]
      /\ \A x \in Sessions : x # s => hand'[x] = hand[x]
  BY <1>0, TakeType, Zenon DEF Clone
<1>2. queue[q0] \in Seq(Messages) /\ queue[q0] # <<>> /\ Distinct(queue[q0])
  BY <1>0, Zenon DEF QueT, Take, FInv, Flow, Apart
<1>3. /\ Distinct(Tail(queue[q0])) /\ Holds(queue[q0], m0)
      /\ \A x : Holds(Tail(queue[q0]), x) <=> Holds(queue[q0], x) /\ x # m0
  BY <1>2, Tailed, Zenon
<1> HIDE DEF m0
<1>4. Apart'
  <2>1. \A x \in Queues : Distinct(queue[x])
    BY Zenon DEF FInv, Flow, Apart
  <2>2. \A x \in Queues : Distinct(queue'[x])
    BY <1>1, <1>3, <2>1, Zenon
  <2> QED
    BY <2>2, Zenon DEF Apart
<1>5. Hands'
  <2>1. \A x \in Sessions : OwnHand(at[x], hand[x], x)
    BY Zenon DEF FInv, Flow, Hands
  <2>2. OwnHand("subscribed", <<m0, q0>>, s)
    BY Pair, Zenon DEF OwnHand
  <2>3. OwnHand(at'[s], hand'[s], s)
    BY <1>1, <2>2, Zenon
  <2> QED
    BY <1>1, <2>1, <2>3, Zenon DEF Hands
<1>6. \A q \in Queues : \A m : In(q, m)' <=> In(q, m) /\ ~(q = q0 /\ m = m0)
  BY <1>1, <1>3, Zenon DEF In
<1>7. \A q \in Queues : \A m \in Messages :
         Held(q, m)' <=> Held(q, m) \/ (q = q0 /\ m = m0)
  <2>1. ASSUME NEW q \in Queues, NEW m \in Messages
        PROVE  (\E x \in Sessions : hand'[x] = <<m, q>>) <=>
                  (\E x \in Sessions : hand[x] = <<m, q>>) \/ (q = q0 /\ m = m0)
    <3>1. hand[s] # <<m, q>> /\ (hand'[s] = <<m, q>> <=> q = q0 /\ m = m0)
      <4>1. hand[s] # <<m, q>>
        BY EmptyHand, Zenon
      <4>2. hand'[s] = <<m0, q0>>
        BY <1>1, Zenon
      <4> QED
        BY <4>1, <4>2
    <3>2. \A x \in Sessions : hand[x] = <<m, q>> => hand'[x] = <<m, q>>
      BY <1>1, <3>1, Zenon
    <3>3. \A x \in Sessions :
             hand'[x] = <<m, q>> => hand[x] = <<m, q>> \/ (q = q0 /\ m = m0)
      BY <1>1, <3>1, Zenon
    <3> QED
      BY <3>1, <3>2, <3>3, Zenon
  <2> QED
    BY <2>1, Zenon DEF Held
<1>8. In(q0, m0)
  BY <1>3, Zenon DEF In
<1>9. Accounted'
  BY <1>6, <1>7, <1>8, Zenon DEF FInv, Flow, Accounted
<1>10. Numbers'
  BY NumbersKept, Zenon DEF FInv, Flow
<1> QED
  BY <1>4, <1>5, <1>9, <1>10, Zenon DEF Flow

\* A payload written out is freed; nobody else has it.
LEMMA FreeFlow ==
    ASSUME FInv, NEW s \in Sessions, ServeFree(s) PROVE Flow'
<1>0. HandT
  BY Parts, Zenon DEF FInv, RInv, TInv
<1>1. /\ hand[s] # Nothing /\ heap' = heap \ {hand[s]}
      /\ hand' = [hand EXCEPT ![s] = Nothing]
      /\ UNCHANGED <<next_seq, seq, job, queue, at>>
  BY Zenon DEF ServeFree, pub
<1>2. hand'[s] = Nothing /\ \A x \in Sessions : x # s => hand'[x] = hand[x]
  BY <1>0, <1>1, Zenon DEF HandT
<1>3. hand[s] \in Messages \X Queues
  BY <1>0, <1>1, Zenon DEF HandT, Clones
<1>4. PICK m0 \in Messages, q0 \in Queues : hand[s] = <<m0, q0>>
  BY <1>3
<1>5. Hands'
  <2>1. \A x \in Sessions : OwnHand(at[x], hand[x], x)
    BY Zenon DEF FInv, Flow, Hands
  <2>2. OwnHand(at'[s], hand'[s], s)
    BY <1>2, EmptyHand, Zenon
  <2> QED
    BY <1>1, <1>2, <2>1, <2>2, Zenon DEF Hands
<1>6. Apart'
  BY <1>1, Zenon DEF FInv, Flow, Apart
<1>7. \A q, m : In(q, m)' <=> In(q, m)
  BY <1>1, Zenon DEF In
<1>8. \A x \in Sessions : hand[x] = <<m0, q0>> => x = s
  <2>1. \A x \in Sessions : hand[x] = <<m0, q0>> => q0[1] = x
    BY <1>4, Zenon DEF FInv, Flow, Hands, OwnHand
  <2> QED
    BY <1>4, <2>1, Zenon
<1>9. \A q \in Queues : \A m \in Messages :
         Held(q, m)' <=> Held(q, m) /\ ~(q = q0 /\ m = m0)
  <2>1. ASSUME NEW q \in Queues, NEW m \in Messages
        PROVE  (\E x \in Sessions : hand'[x] = <<m, q>>) <=>
                  (\E x \in Sessions : hand[x] = <<m, q>>) /\ ~(q = q0 /\ m = m0)
    <3>1. hand'[s] # <<m, q>> /\ (hand[s] = <<m, q>> <=> q = q0 /\ m = m0)
      BY <1>2, <1>4, EmptyHand, Pair, Zenon
    <3> QED
      BY <1>2, <1>8, <3>1, Zenon
  <2> QED
    BY <2>1, Zenon DEF Held
<1>10. \A q, m : <<m, q>> \in heap' <=> <<m, q>> \in heap /\ ~(q = q0 /\ m = m0)
  BY <1>1, <1>4, Pair, Zenon
<1>11. Held(q0, m0)
  BY <1>4, Zenon DEF Held
<1>12. Accounted'
  BY <1>7, <1>9, <1>10, <1>11, Zenon DEF FInv, Flow, Accounted
<1>13. Numbers'
  BY <1>1, NumbersKept, Zenon DEF FInv, Flow
<1> QED
  BY <1>5, <1>6, <1>12, <1>13, Zenon DEF Flow

\* What waits in a queue, as clones.
LEMMA QueuedClones ==
    /\ \A q, m : <<m, q>> \in Queued(q) <=> In(q, m)
    /\ \A q, r, m : <<m, q>> \in Queued(r) => q = r
<1>1. \A q, m : <<m, q>> \in Queued(q) <=> In(q, m)
  BY Pair, Zenon DEF Queued, Clone, In, Holds
<1>2. \A q, r, m : <<m, q>> \in Queued(r) => q = r
  BY Pair, Zenon DEF Queued, Clone
<1> QED
  BY <1>1, <1>2

\* The clones of destroyed queues leave the heap together.
LEMMA DestroyFlow ==
    ASSUME FInv, NEW s \in Sessions, DestroyQueues(s) PROVE Flow'
<1>0. SesT /\ QueT
  BY Parts, Zenon DEF FInv, RInv, TInv
<1>1. /\ at[s] = "destroy" /\ at' = [at EXCEPT ![s] = "idle"]
      /\ heap' = heap \ UNION {Queued(<<s, t>>) : t \in Topics}
      /\ queue' = [q \in Queues |-> IF q[1] = s THEN <<>> ELSE queue[q]]
      /\ UNCHANGED <<next_seq, seq, job, hand>>
  BY Zenon DEF DestroyQueues, pub
<1>2. /\ \A x \in Sessions : x # s => at'[x] = at[x]
      /\ \A q \in Queues : q[1] = s => queue'[q] = <<>>
      /\ \A q \in Queues : q[1] # s => queue'[q] = queue[q]
  BY <1>0, <1>1, Zenon DEF SesT
<1>3. Distinct(<<>>) /\ \A x : ~Holds(<<>>, x)
  BY DEF Distinct, Holds
<1>4. Hands'
  <2>1. hand'[s] = Nothing
    BY <1>1, Zenon DEF FInv, Flow, Hands, OwnHand
  <2>2. OwnHand(at'[s], hand'[s], s)
    BY <2>1, EmptyHand, Zenon
  <2>3. \A x \in Sessions : OwnHand(at[x], hand[x], x)
    BY Zenon DEF FInv, Flow, Hands
  <2> QED
    BY <1>1, <1>2, <2>2, <2>3, Zenon DEF Hands
<1>5. Apart'
  <2>1. \A x \in Queues : Distinct(queue[x])
    BY Zenon DEF FInv, Flow, Apart
  <2>2. \A x \in Queues : Distinct(queue'[x])
    BY <1>2, <1>3, <2>1, Zenon
  <2> QED
    BY <2>2, Zenon DEF Apart
<1>6. \A q \in Queues : \A m : In(q, m)' <=> In(q, m) /\ q[1] # s
  BY <1>2, <1>3, Zenon DEF In
<1>7. \A q, m : Held(q, m)' <=> Held(q, m)
  BY <1>1, Zenon DEF Held
<1>8. \A q \in Queues : \A m :
         <<m, q>> \in heap' <=> <<m, q>> \in heap /\ ~(q[1] = s /\ In(q, m))
  <2>1. \A q \in Queues : q[1] = s <=> \E t \in Topics : q = <<s, t>>
    BY DEF Queues
  <2>2. ASSUME NEW q \in Queues, NEW m
        PROVE  <<m, q>> \in UNION {Queued(<<s, t>>) : t \in Topics} <=> q[1] = s /\ In(q, m)
    <3>1. <<m, q>> \in UNION {Queued(<<s, t>>) : t \in Topics} <=>
             \E t \in Topics : <<m, q>> \in Queued(<<s, t>>)
      BY Zenon
    <3>2. \A t \in Topics : <<m, q>> \in Queued(<<s, t>>) <=> q = <<s, t>> /\ In(q, m)
      BY QueuedClones, Zenon
    <3> QED
      BY <2>1, <3>1, <3>2, Zenon
  <2> QED
    BY <1>1, <2>2, Zenon
<1>9. Accounted'
  BY <1>6, <1>7, <1>8, Zenon DEF FInv, Flow, Accounted
<1>10. Numbers'
  BY <1>1, NumbersKept, Zenon DEF FInv, Flow
<1> QED
  BY <1>4, <1>5, <1>9, <1>10, Zenon DEF Flow

\* A step that only moves a session with empty hands.
LEMMA MoveFlow ==
    ASSUME FInv, NEW s \in Sessions, hand[s] = Nothing,
           UNCHANGED <<next_seq, seq, job, queue, hand, heap>>,
           \A x \in Sessions : x # s => at'[x] = at[x]
    PROVE  Flow'
<1>1. Accounted' /\ Apart'
  BY FlowKept, Zenon DEF FInv, Flow
<1>2. Hands'
  <2>1. OwnHand(at'[s], hand'[s], s)
    BY EmptyHand, Zenon
  <2>2. \A x \in Sessions : OwnHand(at[x], hand[x], x)
    BY Zenon DEF FInv, Flow, Hands
  <2> QED
    BY <2>1, <2>2, Zenon DEF Hands
<1>3. Numbers'
  BY NumbersKept, Zenon DEF FInv, Flow
<1> QED
  BY <1>1, <1>2, <1>3, Zenon DEF Flow

\* The steps of a session.
LEMMA SessionFlow ==
    ASSUME FInv, NEW s \in Sessions, Session(s) PROVE Flow'
<1>0. SesT
  BY Parts, Zenon DEF FInv, RInv, TInv
<1>1. /\ \A x \in Sessions : x # s => at'[x] = at[x]
      /\ UNCHANGED <<next_seq, seq, job>>
  BY <1>0, Zenon DEF SesT, Session, CreateQueues, SubscribeTelemetry, SubscribeAlerts,
     SubscribeTo, ServeTelemetry, ServeAlerts, ServeFree, StopServing,
     UnsubscribeTelemetry, UnsubscribeAlerts, UnsubscribeFrom, DestroyQueues, pub
<1>2. CASE \/ CreateQueues(s) \/ SubscribeTelemetry(s) \/ SubscribeAlerts(s)
           \/ StopServing(s) \/ UnsubscribeTelemetry(s) \/ UnsubscribeAlerts(s)
  <2>1. UNCHANGED <<queue, hand, heap>>
    BY <1>2, Zenon DEF CreateQueues, SubscribeTelemetry, SubscribeAlerts, SubscribeTo,
       StopServing, UnsubscribeTelemetry, UnsubscribeAlerts, UnsubscribeFrom
  <2>2. hand[s] = Nothing
    BY <1>2, Zenon DEF FInv, Flow, Hands, OwnHand, CreateQueues, SubscribeTelemetry,
       SubscribeAlerts, StopServing, UnsubscribeTelemetry, UnsubscribeAlerts
  <2> QED
    BY <1>1, <2>1, <2>2, MoveFlow, Zenon
<1>3. CASE ServeTelemetry(s) \/ ServeAlerts(s)
  <2>1. hand[s] = Nothing /\ heap' = heap
    BY <1>3, Zenon DEF FInv, Flow, Hands, OwnHand, ServeTelemetry, ServeAlerts
  <2>2. CASE UNCHANGED <<queue, hand>>
    BY <1>1, <2>1, <2>2, MoveFlow, Zenon
  <2>3. ASSUME NEW t \in Topics, Take(s, <<s, t>>), at'[s] = "subscribed" PROVE Flow'
    <3>1. <<s, t>> \in Queues /\ <<s, t>>[1] = s
      BY TopicNames, Zenon
    <3> QED
      BY <1>1, <2>1, <2>3, <3>1, TakeFlow, Zenon
  <2>4. TOPIC_TELEMETRY \in Topics /\ TOPIC_ALERTS \in Topics
    BY Zenon DEF Topics
  <2> QED
    BY <1>0, <1>3, <2>2, <2>3, <2>4, Zenon DEF ServeTelemetry, ServeAlerts, SesT
<1> QED
  BY <1>2, <1>3, FreeFlow, DestroyFlow, Zenon DEF Session

\* What a publisher's step does to its job, when it puts no message on a queue.
Quiet(p) ==
    \/ job'[p].item = 0 /\ job'[p].entry = 0
    \/ job'[p].item = job[p].item /\ job[p].entry = 0
    \/ /\ job'[p].item = job[p].item /\ job'[p].entry = job[p].entry
       /\ job[p].offered \subseteq job'[p].offered

Enqueues(p) ==
    /\ InFanOut(p) /\ Advance(p) /\ Deliver(p) /\ Len(queue[Target(p)]) < Capacity
    /\ UNCHANGED <<topics, mutex>>

LEMMA BeginQuiet ==
    ASSUME TInv, NEW p \in Publishers, NEW name \in Names, PublishBegin(p, name)
    PROVE  Quiet(p) /\ \A x \in Publishers : x # p => job'[x] = job[x]
<1> DEFINE e == FindOrCreateTopic(topics, name)
           r == [job[p] EXCEPT !.entry = e, !.next = 1]
<1>1. /\ job[p].entry = 0
      /\ job' = [job EXCEPT ![p] = NoJob] \/ job' = [job EXCEPT ![p] = r]
  BY Zenon DEF PublishBegin, Publishing
<1>2. job \in [Publishers -> Jobs] /\ job[p] \in Jobs
  BY Parts, Zenon DEF TInv, PubT
<1>3. r.item = job[p].item /\ NoJob.item = 0 /\ NoJob.entry = 0
  BY <1>2 DEF Jobs, NoJob
<1> HIDE DEF e, r
<1> QED
  BY <1>1, <1>2, <1>3, Zenon DEF Quiet

LEMMA WorkerStep ==
    ASSUME TInv, NEW p \in Publishers, Publisher(p), ~NextSequence(p)
    PROVE  /\ \A x \in Publishers : x # p => job'[x] = job[x]
           /\ UNCHANGED <<next_seq, seq, at, hand>>
           /\ (Quiet(p) /\ UNCHANGED <<queue, heap>>) \/ Enqueues(p)
<1>1. UNCHANGED <<next_seq, seq, at, hand>>
  BY Zenon DEF Publisher, PublishBegin, PublishOutOfMemory, PublishOne, PublishEnd, sess
<1>2. CASE \E name \in Names : PublishBegin(p, name)
  <2>1. UNCHANGED <<queue, heap>>
    BY <1>2, Zenon DEF PublishBegin
  <2> QED
    BY <1>1, <1>2, <2>1, BeginQuiet, Zenon
<1>3. CASE PublishOutOfMemory(p) \/ PublishOne(p)
  <2>1. InFanOut(p) /\ Advance(p) /\ UNCHANGED <<topics, mutex>>
    BY <1>3, Zenon DEF PublishOutOfMemory, PublishOne
  <2>2. /\ job'[p].item = job[p].item /\ job'[p].entry = job[p].entry
        /\ job[p].offered \subseteq job'[p].offered
        /\ \A x \in Publishers : x # p => job'[x] = job[x]
    BY <1>1, <2>1, Looped, Zenon
  <2>3. UNCHANGED <<queue, heap>> \/ Enqueues(p)
    BY <1>3, <2>1, Zenon DEF PublishOutOfMemory, PublishOne, DropClone, Enqueues
  <2> QED
    BY <1>1, <2>2, <2>3, Zenon DEF Quiet
<1>4. CASE PublishEnd(p)
  <2>1. job' = [job EXCEPT ![p] = NoJob] /\ UNCHANGED <<queue, heap>>
    BY <1>4, Zenon DEF PublishEnd
  <2>2. job \in [Publishers -> Jobs] /\ NoJob \in Jobs /\ NoJob.item = 0 /\ NoJob.entry = 0
    BY Parts DEF TInv, PubT, Jobs, NoJob
  <2> QED
    BY <1>1, <2>1, <2>2, JobSet, Zenon DEF Quiet
<1> QED
  BY <1>2, <1>3, <1>4, Zenon DEF Publisher

LEMMA FlowNext == FInv /\ [Next]_vars => FInv'
<1> SUFFICES ASSUME FInv, [Next]_vars PROVE Flow'
  BY RegisteredNext, Zenon DEF FInv
<1>0. TInv
  BY Zenon DEF FInv, RInv
<1>1. CASE UNCHANGED vars
  <2>1. UNCHANGED <<next_seq, seq, job, queue, at, hand, heap>>
    BY <1>1, Zenon DEF vars, pub, sess
  <2>2. Accounted' /\ Apart' /\ Numbers'
    BY <2>1, FlowKept, NumbersKept, Zenon DEF FInv, Flow
  <2>3. Hands'
    BY <2>1, Zenon DEF FInv, Flow, Hands
  <2> QED
    BY <2>2, <2>3, Zenon DEF Flow
<1>2. ASSUME NEW p \in Publishers, Publisher(p) PROVE Flow'
  <2>1. CASE NextSequence(p)
    BY <2>1, DrawFlow, Zenon
  <2>2. CASE ~NextSequence(p)
    <3>1. /\ \A x \in Publishers : x # p => job'[x] = job[x]
          /\ UNCHANGED <<next_seq, seq, at, hand>>
          /\ (Quiet(p) /\ UNCHANGED <<queue, heap>>) \/ Enqueues(p)
      BY <1>0, <1>2, <2>2, WorkerStep, Zenon
    <3>2. CASE Quiet(p) /\ UNCHANGED <<queue, heap>>
      BY <3>1, <3>2, QuietFlow, Zenon DEF Quiet
    <3>3. CASE Enqueues(p)
      BY <3>1, <3>3, DeliverFlow, Zenon DEF Enqueues
    <3> QED
      BY <3>1, <3>2, <3>3
  <2> QED
    BY <2>1, <2>2
<1> QED
  BY <1>1, <1>2, SessionFlow, Zenon DEF Next

LEMMA FlowInit == Init => FInv
<1> SUFFICES ASSUME Init PROVE Flow
  BY RegisteredInit, Zenon DEF FInv
<1>0. Coming = 1
  BY DEF Init, Coming
<1>1. /\ Coming = 1 /\ heap = {} /\ queue = [q \in Queues |-> <<>>]
      /\ hand = [s \in Sessions |-> Nothing] /\ job = [p \in Publishers |-> NoJob]
  BY <1>0, Zenon DEF Init
<1>2. Distinct(<<>>) /\ (\A x : ~Holds(<<>>, x)) /\ 0 < 1 /\ NoJob.item = 0
  BY DEF Distinct, Holds, NoJob
<1>3. Apart /\ Hands
  BY <1>1, <1>2, EmptyHand, Zenon DEF Apart, Hands
<1>4. \A q \in Queues, m \in Messages : ~In(q, m) /\ ~Held(q, m)
  BY <1>1, <1>2, EmptyHand, Zenon DEF In, Held
<1>5. Accounted
  BY <1>1, <1>4, Zenon DEF Accounted
<1>6. Numbers
  BY <1>1, <1>2, Zenon DEF Numbers
<1> QED
  BY <1>3, <1>5, <1>6, Zenon DEF Flow

\* Every clone malloc'ed and not yet freed or leaked has one owner
\* (pubsub.c:157-168, transport.c:163-205): a fan-out loses none, none is freed
\* twice, none is in two places.
THEOREM ClonesHaveOneOwner == Spec => []PayloadsAccounted
<1>1. FInv => PayloadsAccounted
  <2> SUFFICES ASSUME FInv PROVE PayloadsAccounted
    OBVIOUS
  <2> DEFINE waiting == UNION {Queued(q) : q \in Queues}
             held == {hand[s] : s \in Sessions} \ {Nothing}
  <2>0. QueT /\ HandT
    BY Parts, Zenon DEF FInv, RInv, TInv
  <2>1. \A q \in Queues : \A m : In(q, m) => m \in Messages
    BY <2>0 DEF QueT, In, Holds
  <2>2. ASSUME NEW q \in Queues, NEW m \in Messages
        PROVE  <<m, q>> \in waiting <=> In(q, m)
    <3>1. <<m, q>> \in waiting <=> \E r \in Queues : <<m, q>> \in Queued(r)
      BY Zenon
    <3> QED
      BY <3>1, QueuedClones, Zenon
  <2>3. ASSUME NEW c \in waiting PROVE c \in Clones
    <3>1. PICK q \in Queues : c \in Queued(q)
      BY <2>3, Zenon
    <3>2. PICK i \in DOMAIN queue[q] : c = <<queue[q][i], q>>
      BY <3>1, Zenon DEF Queued, Clone
    <3>3. queue[q][i] \in Messages
      BY <2>1, <3>2, Zenon DEF In, Holds
    <3> QED
      BY <3>2, <3>3 DEF Clones
  <2>4. held \subseteq Clones
    BY <2>0, Zenon DEF HandT
  <2>5. ASSUME NEW q \in Queues, NEW m \in Messages
        PROVE  <<m, q>> \in held <=> Held(q, m)
    BY EmptyHand, Zenon DEF Held
  <2>6. heap \subseteq Clones
    BY <2>0, Zenon DEF HandT
  <2>7. \A c \in Clones : \E m \in Messages, q \in Queues : c = <<m, q>>
    BY DEF Clones
  <2> HIDE DEF waiting, held
  <2>8. \A c \in Clones :
           /\ c \in heap <=> c \in waiting \/ c \in held
           /\ ~(c \in waiting /\ c \in held)
    <3>1. \A m \in Messages, q \in Queues :
             /\ <<m, q>> \in heap <=> <<m, q>> \in waiting \/ <<m, q>> \in held
             /\ ~(<<m, q>> \in waiting /\ <<m, q>> \in held)
      <4>1. \A q \in Queues, m \in Messages :
               /\ <<m, q>> \in heap <=> In(q, m) \/ Held(q, m)
               /\ ~(In(q, m) /\ Held(q, m))
        BY Zenon DEF FInv, Flow, Accounted
      <4> QED
        BY <2>2, <2>5, <4>1, SMT
    <3>2. ASSUME NEW c \in Clones
          PROVE  /\ c \in heap <=> c \in waiting \/ c \in held
                 /\ ~(c \in waiting /\ c \in held)
      <4>1. PICK m \in Messages, q \in Queues : c = <<m, q>>
        BY <2>7, Zenon
      <4>2. /\ <<m, q>> \in heap <=> <<m, q>> \in waiting \/ <<m, q>> \in held
            /\ ~(<<m, q>> \in waiting /\ <<m, q>> \in held)
        BY <3>1, Zenon
      <4> QED
        BY <4>1, <4>2
    <3> QED
      BY <3>2, Zenon
  <2>9. heap = waiting \cup held /\ waiting \cap held = {}
    BY <2>3, <2>4, <2>6, <2>8, Zenon
  <2> QED
    BY <2>9, Zenon DEF PayloadsAccounted, waiting, held
<1> QED
  BY <1>1, FlowInit, FlowNext, PTL DEF Spec

-----------------------------------------------------------------------------
(* Subscribers see the same order                                          *)

\* The message being published is the newest in every queue that has it.
Newest ==
    \A p \in Publishers : job[p].entry # 0 =>
        \A q \in Queues : \A i \in DOMAIN queue[q] :
            queue[q][i] = job[p].item => i = Len(queue[q])

\* What two queues both hold, they hold in the same order.
Agree(s, t) ==
    \A i, j \in DOMAIN s, k, l \in DOMAIN t : i < j /\ s[i] = t[k] /\ s[j] = t[l] => k < l

Order == (\A q, r \in Queues : Agree(queue[q], queue[r])) /\ Newest
OInv == FInv /\ Order

\* Each queue keeps a suffix of what it had.
Shortens ==
    \A q \in Queues : \E d \in Nat :
        /\ Len(queue[q]) = Len(queue'[q]) + d
        /\ \A i \in DOMAIN queue'[q] :
              i + d \in DOMAIN queue[q] /\ queue'[q][i] = queue[q][i + d]

LEMMA ShorterOrder ==
    ASSUME OInv, Shortens, QueT', UNCHANGED job PROVE Order'
<1>0. QueT
  BY Parts, Zenon DEF OInv, FInv, RInv, TInv
<1>1. \A q \in Queues : /\ Len(queue[q]) \in Nat /\ DOMAIN queue[q] = 1 .. Len(queue[q])
                        /\ Len(queue'[q]) \in Nat /\ DOMAIN queue'[q] = 1 .. Len(queue'[q])
  BY <1>0 DEF QueT
<1>2. ASSUME NEW q \in Queues, NEW r \in Queues
      PROVE  Agree(queue'[q], queue'[r])
  <2>0. SUFFICES ASSUME NEW i \in DOMAIN queue'[q], NEW j \in DOMAIN queue'[q],
                        NEW k \in DOMAIN queue'[r], NEW l \in DOMAIN queue'[r],
                        i < j, queue'[q][i] = queue'[r][k], queue'[q][j] = queue'[r][l]
                 PROVE  k < l
    BY Zenon DEF Agree
  <2>1. PICK d \in Nat : \A x \in DOMAIN queue'[q] :
           x + d \in DOMAIN queue[q] /\ queue'[q][x] = queue[q][x + d]
    BY Zenon DEF Shortens
  <2>2. PICK e \in Nat : \A x \in DOMAIN queue'[r] :
           x + e \in DOMAIN queue[r] /\ queue'[r][x] = queue[r][x + e]
    BY Zenon DEF Shortens
  <2>3. i \in Nat /\ j \in Nat /\ k \in Nat /\ l \in Nat
    BY <1>1, SMTT(20)
  <2>4. i + d < j + d
    BY <2>0, <2>3
  <2>5. /\ queue[q][i + d] = queue[r][k + e] /\ queue[q][j + d] = queue[r][l + e]
        /\ i + d \in DOMAIN queue[q] /\ j + d \in DOMAIN queue[q]
        /\ k + e \in DOMAIN queue[r] /\ l + e \in DOMAIN queue[r]
    BY <2>0, <2>1, <2>2, Zenon
  <2>6. k + e < l + e
    BY <2>4, <2>5, Zenon DEF OInv, Order, Agree
  <2> QED
    BY <2>3, <2>6
<1>3. ASSUME NEW p \in Publishers, job'[p].entry # 0, NEW q \in Queues,
             NEW i \in DOMAIN queue'[q], queue'[q][i] = job'[p].item
      PROVE  i = Len(queue'[q])
  <2>1. PICK d \in Nat : /\ Len(queue[q]) = Len(queue'[q]) + d
                         /\ i + d \in DOMAIN queue[q] /\ queue'[q][i] = queue[q][i + d]
    BY Zenon DEF Shortens
  <2>2. i + d = Len(queue[q])
    BY <1>3, <2>1, Zenon DEF OInv, Order, Newest
  <2> QED
    BY <1>1, <2>1, <2>2
<1>4. Newest'
  BY <1>3, Zenon DEF Newest
<1> QED
  BY <1>2, <1>4, Zenon DEF Order

\* A publisher that puts nothing on a queue: a message that is not yet being
\* published is in no queue.
LEMMA QuietOrder ==
    ASSUME OInv, NEW p \in Publishers, Quiet(p), UNCHANGED queue,
           \A x \in Publishers : x # p => job'[x] = job[x]
    PROVE  Order'
<1>1. \A q, r \in Queues : Agree(queue'[q], queue'[r])
  BY Zenon DEF OInv, Order
<1>2. ASSUME NEW x \in Publishers, job'[x].entry # 0, NEW q \in Queues,
             NEW i \in DOMAIN queue[q], queue[q][i] = job'[x].item
      PROVE  i = Len(queue[q])
  <2>1. job'[x].item = job[x].item
    BY <1>2, Zenon DEF Quiet
  <2>2. job[x].entry # 0
    <3>1. QueT
      BY Parts, Zenon DEF OInv, FInv, RInv, TInv
    <3>2. queue[q][i] \in Messages
      BY <3>1 DEF QueT
    <3>3. In(q, queue[q][i])
      BY Zenon DEF In, Holds
    <3>4. <<queue[q][i], q>> \in heap
      BY <3>2, <3>3, Zenon DEF OInv, FInv, Flow, Accounted
    <3> QED
      BY <1>2, <2>1, <3>2, <3>4, Zenon DEF OInv, FInv, Flow, Numbers
  <2> QED
    BY <1>2, <2>1, <2>2, Zenon DEF OInv, Order, Newest
<1>3. Newest'
  BY <1>2, Zenon DEF Newest
<1> QED
  BY <1>1, <1>3 DEF Order

\* A delivery puts the message last, and no queue that has it has a newer one.
LEMMA DeliverOrder ==
    ASSUME OInv, NEW p \in Publishers, Enqueues(p), UNCHANGED <<next_seq, seq, at, hand>>
    PROVE  Order'
<1> DEFINE q0 == Target(p)
           m0 == job[p].item
           n == Len(queue[q0])
<1>0. TInv /\ QueT /\ FInv
  BY Parts, Zenon DEF OInv, FInv, RInv, TInv
<1>1. /\ InFanOut(p) /\ Advance(p) /\ Deliver(p) /\ n < Capacity
      /\ UNCHANGED <<topics, mutex>>
  BY Zenon DEF Enqueues
<1>2. /\ Flow' /\ ~In(q0, m0) /\ queue'[q0] = Append(queue[q0], m0)
      /\ \A x \in Queues : x # q0 => queue'[x] = queue[x]
  BY <1>0, <1>1, DeliverFlow, Zenon
<1>3. /\ job[p].entry # 0 /\ q0 \in Queues /\ m0 \in Messages
      /\ job'[p].item = m0 /\ job'[p].entry = job[p].entry
      /\ \A x \in Publishers : x # p => job'[x] = job[x]
  BY <1>0, <1>1, Aimed, Looped, Zenon
<1>4. \A x \in Publishers : x # p => job[x].entry = 0
  BY <1>0, <1>3, OneInside, Zenon DEF Publishing
<1>5. queue[q0] \in Seq(Messages)
  BY <1>0, <1>3, Zenon DEF QueT
<1> HIDE DEF q0, m0
<1>6. /\ n \in Nat /\ DOMAIN queue[q0] = 1 .. n /\ DOMAIN queue'[q0] = 1 .. n + 1
      /\ Len(queue'[q0]) = n + 1 /\ queue'[q0][n + 1] = m0
      /\ \A i \in 1 .. n : queue'[q0][i] = queue[q0][i]
  BY <1>2, <1>3, <1>5
<1> HIDE DEF n
<1>7. \A q \in Queues : \A i \in DOMAIN queue[q] :
         /\ queue[q][i] = m0 => i = Len(queue[q])
         /\ q = q0 => queue[q][i] # m0
  BY <1>2, <1>3, Zenon DEF OInv, Order, Newest, m0, In, Holds
\* Everywhere m0 is the last.
<1>8. ASSUME NEW q \in Queues, NEW i \in DOMAIN queue'[q], queue'[q][i] = m0
      PROVE  i = Len(queue'[q])
  <2>1. CASE q = q0
    <3>1. i \in 1 .. n => queue[q0][i] = m0 /\ i \in DOMAIN queue[q0]
      BY <1>6, <1>8, <2>1
    <3>2. i \notin 1 .. n
      BY <1>3, <1>7, <3>1, Zenon
    <3> QED
      BY <1>6, <1>8, <2>1, <3>2
  <2>2. CASE q # q0
    BY <1>2, <1>7, <1>8, <2>2, Zenon
  <2> QED
    BY <2>1, <2>2
<1>9. Newest'
  <2>1. ASSUME NEW x \in Publishers, job'[x].entry # 0 PROVE job'[x].item = m0
    BY <1>3, <1>4, <2>1, Zenon
  <2> QED
    BY <1>8, <2>1, Zenon DEF Newest
\* Any other message is where it was.
<1>10. ASSUME NEW q \in Queues, NEW i \in DOMAIN queue'[q], queue'[q][i] # m0
       PROVE  i \in DOMAIN queue[q] /\ queue[q][i] = queue'[q][i]
  <2>1. CASE q = q0
    <3>1. i \in 1 .. n + 1 /\ i # n + 1
      BY <1>6, <1>10, <2>1, Zenon
    <3>2. i \in 1 .. n
      BY <1>6, <3>1
    <3> QED
      BY <1>6, <2>1, <3>2, Zenon
  <2>2. CASE q # q0
    BY <1>2, <1>10, <2>2, Zenon
  <2> QED
    BY <2>1, <2>2
<1>11. ASSUME NEW q \in Queues, NEW r \in Queues,
              NEW i \in DOMAIN queue'[q], NEW j \in DOMAIN queue'[q],
              NEW k \in DOMAIN queue'[r], NEW l \in DOMAIN queue'[r],
              i < j, queue'[q][i] = queue'[r][k], queue'[q][j] = queue'[r][l]
       PROVE  k < l
  <2>1. /\ i \in Nat /\ j \in Nat /\ k \in Nat /\ l \in Nat
        /\ Len(queue'[q]) \in Nat /\ j <= Len(queue'[q]) /\ k <= Len(queue'[r])
    <3>1. \A x \in Queues : Len(queue'[x]) \in Nat /\ DOMAIN queue'[x] = 1 .. Len(queue'[x])
      BY <1>0, <1>2, <1>6 DEF QueT
    <3> QED
      BY <1>11, <3>1
  <2>2. queue'[q][i] # m0
    <3>1. i # Len(queue'[q])
      BY <1>11, <2>1
    <3> QED
      BY <1>8, <3>1, Zenon
  <2>3. /\ i \in DOMAIN queue[q] /\ queue[q][i] = queue'[q][i]
        /\ k \in DOMAIN queue[r] /\ queue[r][k] = queue'[r][k]
    BY <1>10, <1>11, <2>2, Zenon
  <2>4. CASE queue'[q][j] = m0
    <3>1. l = Len(queue'[r]) /\ k # l
      BY <1>8, <1>11, <2>2, <2>4, Zenon
    <3> QED
      BY <2>1, <3>1
  <2>5. CASE queue'[q][j] # m0
    <3>1. /\ j \in DOMAIN queue[q] /\ queue[q][j] = queue'[q][j]
          /\ l \in DOMAIN queue[r] /\ queue[r][l] = queue'[r][l]
      BY <1>10, <1>11, <2>5, Zenon
    <3>2. queue[q][i] = queue[r][k] /\ queue[q][j] = queue[r][l]
      BY <1>11, <2>3, <3>1, Zenon
    <3> QED
      BY <1>11, <2>3, <3>1, <3>2, Zenon DEF OInv, Order, Agree
  <2> QED
    BY <2>4, <2>5
<1>12. \A q, r \in Queues : Agree(queue'[q], queue'[r])
  BY <1>11, ZenonT(40) DEF Agree
<1> QED
  BY <1>9, <1>12 DEF Order

\* A session only shortens queues.
LEMMA SessionShortens ==
    ASSUME TInv, NEW s \in Sessions, Session(s) PROVE Shortens
<1>0. QueT
  BY Parts, Zenon DEF TInv
<1>1. \A q \in Queues : Len(queue[q]) \in Nat /\ DOMAIN queue[q] = 1 .. Len(queue[q])
  BY <1>0 DEF QueT
<1>2. ASSUME NEW q \in Queues, queue'[q] = queue[q]
      PROVE  \E d \in Nat : /\ Len(queue[q]) = Len(queue'[q]) + d
                            /\ \A i \in DOMAIN queue'[q] :
                                  i + d \in DOMAIN queue[q] /\ queue'[q][i] = queue[q][i + d]
  <2> WITNESS 0 \in Nat
  <2> QED
    BY <1>1, <1>2
<1>3. ASSUME NEW q \in Queues, queue[q] # <<>>, queue'[q] = Tail(queue[q])
      PROVE  \E d \in Nat : /\ Len(queue[q]) = Len(queue'[q]) + d
                            /\ \A i \in DOMAIN queue'[q] :
                                  i + d \in DOMAIN queue[q] /\ queue'[q][i] = queue[q][i + d]
  <2> WITNESS 1 \in Nat
  <2>1. queue[q] \in Seq(Messages)
    BY <1>0, Zenon DEF QueT
  <2> QED
    BY <1>3, <2>1
<1>4. ASSUME NEW q \in Queues, queue'[q] = <<>>
      PROVE  \E d \in Nat : /\ Len(queue[q]) = Len(queue'[q]) + d
                            /\ \A i \in DOMAIN queue'[q] :
                                  i + d \in DOMAIN queue[q] /\ queue'[q][i] = queue[q][i + d]
  <2>1. Len(queue[q]) \in Nat
    BY <1>1
  <2> WITNESS Len(queue[q]) \in Nat
  <2>2. Len(queue'[q]) = 0 /\ DOMAIN queue'[q] = {}
    BY <1>4
  <2> QED
    BY <2>1, <2>2
<1>5. CASE queue' = queue
  BY <1>2, <1>5, Zenon DEF Shortens
<1>6. ASSUME NEW t \in Topics, Take(s, <<s, t>>) PROVE Shortens
  <2>1. <<s, t>> \in Queues
    BY TopicNames, Zenon
  <2>2. /\ queue[<<s, t>>] # <<>> /\ queue'[<<s, t>>] = Tail(queue[<<s, t>>])
        /\ \A q \in Queues : q # <<s, t>> => queue'[q] = queue[q]
    BY <1>6, <2>1, TakeType, Zenon DEF Take
  <2> QED
    BY <1>2, <1>3, <2>2, Zenon DEF Shortens
<1>7. CASE DestroyQueues(s)
  <2>1. \A q \in Queues : queue'[q] = <<>> \/ queue'[q] = queue[q]
    BY <1>7, Zenon DEF DestroyQueues
  <2> QED
    BY <1>2, <1>4, <2>1, Zenon DEF Shortens
<1>8. TOPIC_TELEMETRY \in Topics /\ TOPIC_ALERTS \in Topics
  BY Zenon DEF Topics
<1>9. CASE ServeTelemetry(s) \/ ServeAlerts(s)
  BY <1>5, <1>6, <1>8, <1>9, Zenon DEF ServeTelemetry, ServeAlerts
<1>10. CASE ~(ServeTelemetry(s) \/ ServeAlerts(s) \/ DestroyQueues(s))
  <2>1. queue' = queue
    BY <1>10, Zenon DEF Session, CreateQueues, SubscribeTelemetry, SubscribeAlerts,
       SubscribeTo, ServeFree, StopServing, UnsubscribeTelemetry, UnsubscribeAlerts,
       UnsubscribeFrom
  <2> QED
    BY <1>5, <2>1
<1> QED
  BY <1>7, <1>9, <1>10

LEMMA SessionKeepsJobs ==
    ASSUME NEW s \in Sessions, Session(s) PROVE UNCHANGED job
BY Zenon DEF Session, CreateQueues, SubscribeTelemetry, SubscribeAlerts,
   SubscribeTo, ServeTelemetry, ServeAlerts, ServeFree, StopServing,
   UnsubscribeTelemetry, UnsubscribeAlerts, UnsubscribeFrom, DestroyQueues, pub

LEMMA OrderNext == OInv /\ [Next]_vars => OInv'
<1> SUFFICES ASSUME OInv, [Next]_vars PROVE Order'
  BY FlowNext, Zenon DEF OInv
<1>0. TInv /\ FInv' /\ QueT'
  <2>1. TInv /\ FInv'
    BY FlowNext, Zenon DEF OInv, FInv, RInv
  <2> QED
    BY <2>1, PartsNext, Zenon DEF FInv, RInv, TInv
<1>1. CASE UNCHANGED vars
  <2>1. UNCHANGED <<job, queue>>
    BY <1>1, Zenon DEF vars, pub
  <2> QED
    BY <2>1, Zenon DEF OInv, Order, Newest
<1>2. ASSUME NEW p \in Publishers, Publisher(p) PROVE Order'
  <2>1. CASE NextSequence(p)
    <3>1. /\ job' = [job EXCEPT ![p] = [job[p] EXCEPT !.item = Coming]]
          /\ job[p] = NoJob /\ UNCHANGED queue
      BY <2>1, Zenon DEF NextSequence, Coming
    <3>2. job \in [Publishers -> Jobs] /\ job[p] \in Jobs
      BY <1>0, Parts, Zenon DEF TInv, PubT
    <3>3. [job[p] EXCEPT !.item = Coming].entry = 0
      BY <3>1 DEF NoJob
    <3>4. job'[p].entry = 0 /\ \A x \in Publishers : x # p => job'[x] = job[x]
      BY <3>1, <3>2, <3>3, Zenon
    <3>5. \A q, r \in Queues : Agree(queue'[q], queue'[r])
      BY <3>1, Zenon DEF OInv, Order
    <3>6. Newest'
      BY <3>1, <3>4, ZenonT(30) DEF OInv, Order, Newest
    <3> QED
      BY <3>5, <3>6 DEF Order
  <2>2. CASE ~NextSequence(p)
    <3>1. /\ \A x \in Publishers : x # p => job'[x] = job[x]
          /\ UNCHANGED <<next_seq, seq, at, hand>>
          /\ (Quiet(p) /\ UNCHANGED <<queue, heap>>) \/ Enqueues(p)
      BY <1>0, <1>2, <2>2, WorkerStep, Zenon
    <3> QED
      BY <3>1, QuietOrder, DeliverOrder, Zenon
  <2> QED
    BY <2>1, <2>2
<1>3. ASSUME NEW s \in Sessions, Session(s) PROVE Order'
  BY <1>0, <1>3, SessionKeepsJobs, SessionShortens, ShorterOrder, Zenon
<1> QED
  BY <1>1, <1>2, <1>3, Zenon DEF Next

LEMMA OrderInit == Init => OInv
<1> SUFFICES ASSUME Init PROVE Order
  BY FlowInit, Zenon DEF OInv
<1>1. \A q \in Queues : DOMAIN queue[q] = {}
  BY DEF Init
<1> QED
  BY <1>1, Zenon DEF Order, Agree, Newest

\* Any two subscribers see the messages both get in the same order, however many
\* workers publish and however often sessions come and go (pubsub.c:139-172).
THEOREM OneOrderForAll == Spec => []SameOrder
<1>1. OInv => SameOrder
  BY Zenon DEF OInv, Order, Agree, SameOrder
<1> QED
  BY <1>1, OrderInit, OrderNext, PTL DEF Spec

-----------------------------------------------------------------------------
(* How far out of order messages may be                                    *)

\* The messages that the one at place i of queue q has overtaken: those drawn
\* before it that came after it or may still come.
Overtaken(q, i) ==
    {m \in Messages :
        /\ m < queue[q][i]
        /\ \/ \E j \in DOMAIN queue[q] : i < j /\ queue[q][j] = m
           \/ \E p \in Publishers : job[p].item = m}

\* All of them were with other workers when it was put on the queue.
FewOvertaken ==
    \A q \in Queues : \A i \in DOMAIN queue[q] :
        Cardinality(Overtaken(q, i)) < Cardinality(Publishers)

DInv == OInv /\ FewOvertaken

LEMMA Countable ==
    /\ IsFiniteSet(Messages) /\ Cardinality(Publishers) \in Nat
    /\ \A q, i : IsFiniteSet(Overtaken(q, i)) /\ Cardinality(Overtaken(q, i)) \in Nat
    /\ \A q, i : IsFiniteSet(Overtaken(q, i)') /\ Cardinality(Overtaken(q, i)') \in Nat
<1>1. IsFiniteSet(Messages)
  BY FS_Interval DEF Messages
<1>2. Cardinality(Publishers) \in Nat
  BY PoolAssumption, FS_CardinalityType, Zenon
<1>3. \A q, i : Overtaken(q, i) \in SUBSET Messages /\ Overtaken(q, i)' \in SUBSET Messages
  BY Zenon DEF Overtaken
<1>4. ASSUME NEW S \in SUBSET Messages PROVE IsFiniteSet(S) /\ Cardinality(S) \in Nat
  BY <1>1, FS_Subset, FS_CardinalityType, Zenon
<1> QED
  BY <1>1, <1>2, <1>3, <1>4, Zenon

\* A message that has overtaken no other than one of the queue had.
LEMMA StillFew ==
    ASSUME FewOvertaken, NEW q \in Queues, NEW i, NEW k \in DOMAIN queue[q],
           Overtaken(q, i)' \subseteq Overtaken(q, k)
    PROVE  Cardinality(Overtaken(q, i)') < Cardinality(Publishers)
<1>1. Cardinality(Overtaken(q, i)') <= Cardinality(Overtaken(q, k))
  BY Countable, FS_Subset, Zenon
<1>2. Cardinality(Overtaken(q, k)) < Cardinality(Publishers)
  BY Zenon DEF FewOvertaken
<1>3. /\ Cardinality(Overtaken(q, i)') \in Nat /\ Cardinality(Overtaken(q, k)) \in Nat
      /\ Cardinality(Publishers) \in Nat
  BY Countable, Zenon
<1> QED
  BY <1>1, <1>2, <1>3

\* Every message on a queue has been drawn.
LEMMA QueuedDrawn ==
    ASSUME OInv, NEW q \in Queues, NEW i \in DOMAIN queue[q]
    PROVE  queue[q][i] \in Messages /\ queue[q][i] < Coming
<1>1. QueT
  BY Parts, Zenon DEF OInv, FInv, RInv, TInv
<1>2. queue[q][i] \in Messages
  BY <1>1 DEF QueT
<1>3. In(q, queue[q][i])
  BY Zenon DEF In, Holds
<1>4. <<queue[q][i], q>> \in heap
  BY <1>2, <1>3, Zenon DEF OInv, FInv, Flow, Accounted
<1> QED
  BY <1>2, <1>4, Zenon DEF OInv, FInv, Flow, Numbers

\* A worker that puts nothing on a queue: a number it draws is larger than all
\* that are on one.
LEMMA QuietFew ==
    ASSUME DInv, NEW p \in Publishers, UNCHANGED queue,
           \A x \in Publishers : x # p => job'[x] = job[x],
           job'[p].item = 0 \/ job'[p].item = job[p].item \/ job'[p].item = Coming
    PROVE  FewOvertaken'
<1> SUFFICES ASSUME NEW q \in Queues, NEW i \in DOMAIN queue[q]
             PROVE  Cardinality(Overtaken(q, i)') < Cardinality(Publishers)
  BY Zenon DEF FewOvertaken
<1>1. OInv /\ FewOvertaken
  BY Zenon DEF DInv
<1>2. queue[q][i] \in Messages /\ queue[q][i] < Coming
  BY <1>1, QueuedDrawn, Zenon
<1>3. Coming \in Nat /\ queue[q][i] \in Nat /\ 0 \notin Messages
  <2>1. PubT
    BY <1>1, Parts, Zenon DEF OInv, FInv, RInv, TInv
  <2>2. Coming \in Nat
    BY <2>1, ComingType
  <2> QED
    BY <1>2, <2>2 DEF Messages
<1>4. \A m \in Messages : m < queue[q][i] => m # Coming /\ m # 0
  BY <1>2, <1>3 DEF Messages
<1>5. ASSUME NEW m \in Overtaken(q, i)' PROVE m \in Overtaken(q, i)
  <2>1. /\ m \in Messages /\ m < queue[q][i]
        /\ \/ \E j \in DOMAIN queue[q] : i < j /\ queue[q][j] = m
           \/ \E x \in Publishers : job'[x].item = m
    BY <1>5, Zenon DEF Overtaken
  <2>2. \A x \in Publishers : job'[x].item = m => job[x].item = m
    BY <1>4, <2>1, Zenon
  <2> QED
    BY <2>1, <2>2, Zenon DEF Overtaken
<1> QED
  BY <1>1, <1>5, StillFew, Zenon

\* A queue that loses its oldest messages.
LEMMA ShorterFew ==
    ASSUME DInv, Shortens, QueT', UNCHANGED job PROVE FewOvertaken'
<1> SUFFICES ASSUME NEW q \in Queues, NEW i \in DOMAIN queue'[q]
             PROVE  Cardinality(Overtaken(q, i)') < Cardinality(Publishers)
  BY Zenon DEF FewOvertaken
<1>1. PICK d \in Nat : \A x \in DOMAIN queue'[q] :
         x + d \in DOMAIN queue[q] /\ queue'[q][x] = queue[q][x + d]
  BY Zenon DEF Shortens
<1>2. \A x \in DOMAIN queue'[q] : x \in Nat
  BY DEF QueT
<1>3. \A x \in DOMAIN queue'[q] : i < x => i + d < x + d
  BY <1>2
<1>4. ASSUME NEW m \in Overtaken(q, i)' PROVE m \in Overtaken(q, i + d)
  <2>1. /\ m \in Messages /\ m < queue'[q][i]
        /\ \/ \E j \in DOMAIN queue'[q] : i < j /\ queue'[q][j] = m
           \/ \E x \in Publishers : job[x].item = m
    BY <1>4, Zenon DEF Overtaken
  <2>2. m < queue[q][i + d]
    BY <1>1, <2>1, Zenon
  <2>3. ASSUME NEW j \in DOMAIN queue'[q], i < j, queue'[q][j] = m
        PROVE  \E k \in DOMAIN queue[q] : i + d < k /\ queue[q][k] = m
    BY <1>1, <1>3, <2>3, Zenon
  <2> QED
    BY <2>1, <2>2, <2>3, Zenon DEF Overtaken
<1> QED
  BY <1>1, <1>4, StillFew, Zenon DEF DInv

\* A delivery: what the message overtakes is with the other workers, and it is
\* itself no longer only with its worker.
LEMMA DeliverFew ==
    ASSUME DInv, NEW p \in Publishers, Enqueues(p), UNCHANGED <<next_seq, seq, at, hand>>
    PROVE  FewOvertaken'
<1> DEFINE q0 == Target(p)
           m0 == job[p].item
           n == Len(queue[q0])
<1>0. TInv /\ QueT /\ FInv
  BY Parts, Zenon DEF DInv, OInv, FInv, RInv, TInv
<1>1. /\ InFanOut(p) /\ Advance(p) /\ Deliver(p) /\ n < Capacity
      /\ UNCHANGED <<topics, mutex>>
  BY Zenon DEF Enqueues
<1>2. /\ queue'[q0] = Append(queue[q0], m0)
      /\ \A x \in Queues : x # q0 => queue'[x] = queue[x]
  BY <1>0, <1>1, DeliverFlow, Zenon
<1>3. /\ q0 \in Queues /\ m0 \in Messages
      /\ job'[p].item = m0
      /\ \A x \in Publishers : x # p => job'[x] = job[x]
  BY <1>0, <1>1, Aimed, Looped, Zenon
<1>4. queue[q0] \in Seq(Messages)
  BY <1>0, <1>3, Zenon DEF QueT
<1>5. \A x \in Publishers : job'[x].item = job[x].item
  BY <1>3, Zenon DEF m0
<1> HIDE DEF q0, m0
<1>6. /\ n \in Nat /\ DOMAIN queue[q0] = 1 .. n /\ DOMAIN queue'[q0] = 1 .. n + 1
      /\ queue'[q0][n + 1] = m0
      /\ \A i \in 1 .. n : queue'[q0][i] = queue[q0][i]
  BY <1>2, <1>3, <1>4
<1> HIDE DEF n
\* Behind the new message there is nothing yet.
<1>7. ASSUME NEW q \in Queues, NEW i, q = q0, i = n + 1
      PROVE  Cardinality(Overtaken(q, i)') < Cardinality(Publishers)
  <2> DEFINE S == Overtaken(q, i)'
             by == [m \in S |-> CHOOSE x \in Publishers : job[x].item = m]
  <2>1. ASSUME NEW m \in S PROVE m < m0 /\ \E x \in Publishers : job[x].item = m
    <3>1. /\ m < queue'[q][i]
          /\ \/ \E j \in DOMAIN queue'[q] : i < j /\ queue'[q][j] = m
             \/ \E x \in Publishers : job'[x].item = m
      BY <2>1, Zenon DEF Overtaken
    <3>2. ~\E j \in DOMAIN queue'[q] : i < j
      BY <1>6, <1>7
    <3> QED
      BY <1>5, <1>6, <1>7, <3>1, <3>2, Zenon
  <2>2. ASSUME NEW m \in S PROVE by[m] \in Publishers /\ job[by[m]].item = m
    BY <2>1, <2>2, Zenon
  <2>3. ASSUME NEW m \in S PROVE by[m] # p
    <3>1. m < m0 /\ m \in Messages
      BY <2>1, <2>3, Zenon DEF Overtaken
    <3>2. m # m0
      BY <1>3, <3>1 DEF Messages
    <3> QED
      BY <2>2, <3>2, Zenon DEF m0
  <2>4. by \in [S -> Publishers \ {p}] /\ \A a, b \in S : by[a] = by[b] => a = b
    BY <2>2, <2>3, Zenon
  <2> HIDE DEF S, by
  <2>5. by \in Injection(S, Publishers \ {p})
    BY <2>4, Zenon DEF Injection, IsInjective
  <2>6. /\ IsFiniteSet(Publishers \ {p})
        /\ Cardinality(Publishers \ {p}) = Cardinality(Publishers) - 1
    BY PoolAssumption, FS_RemoveElement, Zenon
  <2>7. Cardinality(S) <= Cardinality(Publishers \ {p})
    BY <2>5, <2>6, FS_Injection, Zenon
  <2>8. Cardinality(S) \in Nat /\ Cardinality(Publishers) \in Nat
    BY Countable, Zenon DEF S
  <2>9. Cardinality(S) < Cardinality(Publishers)
    BY <2>6, <2>7, <2>8, SMTT(30)
  <2> QED
    BY <2>9, Zenon DEF S
\* Every other message keeps its place, and m0 was already with p.
<1>8. ASSUME NEW q \in Queues, NEW i \in DOMAIN queue[q]
      PROVE  Overtaken(q, i)' \subseteq Overtaken(q, i)
  <2>1. /\ queue'[q][i] = queue[q][i]
        /\ \A j \in DOMAIN queue'[q] :
              \/ j \in DOMAIN queue[q] /\ queue'[q][j] = queue[q][j]
              \/ queue'[q][j] = m0
    <3>1. CASE q = q0
      <4>1. \A j \in 1 .. n + 1 : j \in 1 .. n \/ j = n + 1
        BY <1>6
      <4> QED
        BY <1>6, <1>8, <3>1, <4>1, Zenon
    <3>2. CASE q # q0
      BY <1>2, <1>8, <3>2, Zenon
    <3> QED
      BY <3>1, <3>2
  <2>2. ASSUME NEW m \in Overtaken(q, i)' PROVE m \in Overtaken(q, i)
    <3>1. /\ m \in Messages /\ m < queue'[q][i]
          /\ \/ \E j \in DOMAIN queue'[q] : i < j /\ queue'[q][j] = m
             \/ \E x \in Publishers : job'[x].item = m
      BY <2>2, Zenon DEF Overtaken
    <3>2. \/ \E j \in DOMAIN queue[q] : i < j /\ queue[q][j] = m
          \/ \E x \in Publishers : job[x].item = m
      BY <1>5, <2>1, <3>1, Zenon DEF m0
    <3> QED
      BY <2>1, <3>1, <3>2, Zenon DEF Overtaken
  <2> QED
    BY <2>2, Zenon
<1>9. ASSUME NEW q \in Queues, NEW i \in DOMAIN queue'[q]
      PROVE  (q = q0 /\ i = n + 1) \/ i \in DOMAIN queue[q]
  <2>1. CASE q = q0
    BY <1>6, <1>9, <2>1
  <2>2. CASE q # q0
    BY <1>2, <1>9, <2>2, Zenon
  <2> QED
    BY <2>1, <2>2
<1>10. ASSUME NEW q \in Queues, NEW i \in DOMAIN queue'[q]
       PROVE  Cardinality(Overtaken(q, i)') < Cardinality(Publishers)
  <2>1. CASE q = q0 /\ i = n + 1
    BY <1>7, <2>1, Zenon
  <2>2. CASE i \in DOMAIN queue[q]
    BY <1>8, <2>2, StillFew, Zenon DEF DInv
  <2> QED
    BY <1>9, <1>10, <2>1, <2>2, Zenon
<1> QED
  BY <1>10, Zenon DEF FewOvertaken

LEMMA FewNext == DInv /\ [Next]_vars => DInv'
<1> SUFFICES ASSUME DInv, [Next]_vars PROVE FewOvertaken'
  BY OrderNext, Zenon DEF DInv
<1>0. TInv /\ QueT'
  <2>1. TInv /\ OInv'
    BY OrderNext, Zenon DEF DInv, OInv, FInv, RInv
  <2> QED
    BY <2>1, PartsNext, Zenon DEF OInv, FInv, RInv, TInv
<1>1. CASE UNCHANGED vars
  <2>1. UNCHANGED <<job, queue>>
    BY <1>1, Zenon DEF vars, pub
  <2>2. \A q, i : Overtaken(q, i)' = Overtaken(q, i)
    BY <2>1, Zenon DEF Overtaken
  <2> QED
    BY <2>1, <2>2, Zenon DEF DInv, FewOvertaken
<1>2. ASSUME NEW p \in Publishers, Publisher(p) PROVE FewOvertaken'
  <2>1. CASE NextSequence(p)
    <3>1. /\ job' = [job EXCEPT ![p] = [job[p] EXCEPT !.item = Coming]]
          /\ UNCHANGED queue
      BY <2>1, Zenon DEF NextSequence, Coming
    <3>2. job \in [Publishers -> Jobs] /\ job[p] \in Jobs
      BY <1>0, Parts, Zenon DEF TInv, PubT
    <3>3. [job[p] EXCEPT !.item = Coming].item = Coming
      BY <3>2 DEF Jobs
    <3>4. job'[p].item = Coming /\ \A x \in Publishers : x # p => job'[x] = job[x]
      BY <3>1, <3>2, <3>3, Zenon
    <3> QED
      BY <3>1, <3>4, QuietFew, Zenon
  <2>2. CASE ~NextSequence(p)
    <3>1. /\ \A x \in Publishers : x # p => job'[x] = job[x]
          /\ UNCHANGED <<next_seq, seq, at, hand>>
          /\ (Quiet(p) /\ UNCHANGED <<queue, heap>>) \/ Enqueues(p)
      BY <1>0, <1>2, <2>2, WorkerStep, Zenon
    <3>2. CASE Quiet(p) /\ UNCHANGED <<queue, heap>>
      BY <3>1, <3>2, QuietFew, Zenon DEF Quiet
    <3> QED
      BY <3>1, <3>2, DeliverFew, Zenon
  <2> QED
    BY <2>1, <2>2
<1>3. ASSUME NEW s \in Sessions, Session(s) PROVE FewOvertaken'
  BY <1>0, <1>3, SessionKeepsJobs, SessionShortens, ShorterFew, Zenon
<1> QED
  BY <1>1, <1>2, <1>3, Zenon DEF Next

LEMMA FewInit == Init => DInv
<1> SUFFICES ASSUME Init PROVE FewOvertaken
  BY OrderInit, Zenon DEF DInv
<1>1. \A q \in Queues : DOMAIN queue[q] = {}
  BY DEF Init
<1> QED
  BY <1>1, Zenon DEF FewOvertaken

\* A descent: places of a queue with messages in the opposite order of the draws.
LEMMA DescentIsShort ==
    ASSUME DInv, NEW q \in Queues, NEW I \in SUBSET DOMAIN queue[q],
           \A i, j \in I : i < j => queue[q][i] > queue[q][j]
    PROVE  Cardinality(I) <= Cardinality(Publishers)
<1>0. /\ queue[q] \in Seq(Messages) /\ DOMAIN queue[q] = 1 .. Len(queue[q])
      /\ Len(queue[q]) \in Nat
  <2>1. QueT
    BY Parts, Zenon DEF DInv, OInv, FInv, RInv, TInv
  <2> QED
    BY <2>1 DEF QueT
<1>1. IsFiniteSet(I) /\ Cardinality(I) \in Nat /\ Cardinality(Publishers) \in Nat
  <2>1. \A k \in Nat : IsFiniteSet(1 .. k)
    BY FS_Interval
  <2>2. IsFiniteSet(DOMAIN queue[q])
    BY <1>0, <2>1, Zenon
  <2> QED
    BY <2>2, Countable, FS_Subset, FS_CardinalityType, Zenon
<1>2. CASE I = {}
  <2>1. Cardinality(I) = 0
    BY <1>2, FS_EmptySet, Zenon
  <2> QED
    BY <1>1, <2>1
<1>3. CASE I # {}
  <2>1. PICK a \in I : \A i \in I : a <= i
    <3>1. I \subseteq Nat
      BY <1>0
    <3> QED
      BY <1>3, <3>1, Least, Zenon
  <2> DEFINE R == I \ {a}
             S == Overtaken(q, a)
             f == [i \in R |-> queue[q][i]]
  <2>2. ASSUME NEW i \in R PROVE a < i /\ queue[q][i] \in S
    <3>1. i \in Nat /\ a \in Nat /\ i \in I /\ i # a /\ i \in DOMAIN queue[q]
      BY <1>0
    <3>2. a < i
      BY <2>1, <3>1
    <3>3. queue[q][a] > queue[q][i] /\ queue[q][i] \in Messages /\ queue[q][a] \in Messages
      BY <1>0, <3>1, <3>2
    <3>4. queue[q][i] < queue[q][a]
      BY <3>3 DEF Messages
    <3> QED
      BY <3>1, <3>2, <3>3, <3>4, Zenon DEF Overtaken
  <2>3. ASSUME NEW i \in R, NEW j \in R, queue[q][i] = queue[q][j] PROVE i = j
    BY <2>3, Zenon DEF DInv, OInv, FInv, Flow, Apart, Distinct
  <2>4. f \in [R -> S] /\ \A i, j \in R : f[i] = f[j] => i = j
    BY <2>2, <2>3, Zenon
  <2> HIDE DEF R, S, f
  <2>5. f \in Injection(R, S)
    BY <2>4, Zenon DEF Injection, IsInjective
  <2>6. Cardinality(R) <= Cardinality(S) /\ Cardinality(S) \in Nat
    BY <2>5, Countable, FS_Injection, Zenon DEF S
  <2>7. Cardinality(R) = Cardinality(I) - 1
    BY <1>1, FS_RemoveElement, Zenon DEF R
  <2>8. Cardinality(S) < Cardinality(Publishers)
    BY Zenon DEF DInv, FewOvertaken, S
  <2> QED
    BY <1>1, <2>6, <2>7, <2>8
<1> QED
  BY <1>2, <1>3

-----------------------------------------------------------------------------
(* What the numbers say of the order of the draws                          *)

\* Numbers that only grow, except for coming round to 0.
Rises(t) ==
    \A m, n \in DOMAIN t : m < n => t[m] < t[n] \/ \E k \in m + 1 .. n : t[k] = 0

\* next_seq follows the number drawn last.
Counting ==
    /\ Rises(seq)
    /\ seq # <<>> => next_seq = (seq[Len(seq)] + 1) % Modulus

\* One more draw.
LEMMA RisesOn ==
    ASSUME NEW s \in Seq(0 .. Modulus - 1), NEW c \in 0 .. Modulus - 1, Rises(s),
           s # <<>> => c = (s[Len(s)] + 1) % Modulus
    PROVE  Rises(Append(s, c))
<1> DEFINE t == Append(s, c)
           l == Len(s)
<1>1. /\ l \in Nat /\ DOMAIN s = 1 .. l /\ DOMAIN t = 1 .. l + 1 /\ t[l + 1] = c
      /\ \A i \in 1 .. l : t[i] = s[i] /\ s[i] \in 0 .. Modulus - 1
      /\ l > 0 => s # <<>>
  BY SMTT(15)
<1>2. l > 0 => c = 0 \/ c = s[l] + 1
  <2>1. \A n \in 0 .. Modulus - 1 : (n + 1) % Modulus = 0 \/ (n + 1) % Modulus = n + 1
    BY Increment
  <2>2. l > 0 => l \in 1 .. l
    BY <1>1
  <2> QED
    BY <1>1, <2>1, <2>2, Zenon
<1> HIDE DEF t, l
<1> SUFFICES ASSUME NEW m \in 1 .. l + 1, NEW n \in 1 .. l + 1, m < n
             PROVE  t[m] < t[n] \/ \E k \in m + 1 .. n : t[k] = 0
  BY <1>1, Zenon DEF Rises, t
<1>3. m \in 1 .. l /\ l \in 1 .. l /\ l > 0
  BY <1>1
<1>4. \A i, j \in 1 .. l : i < j => s[i] < s[j] \/ \E k \in i + 1 .. j : s[k] = 0
  BY <1>1, Zenon DEF Rises
<1>5. \A i, j \in 1 .. l : \A k \in i + 1 .. j : k \in 1 .. l
  BY <1>1
<1>6. CASE n \in 1 .. l
  <2>1. s[m] < s[n] \/ \E k \in m + 1 .. n : s[k] = 0
    BY <1>3, <1>4, <1>6, Zenon
  <2> QED
    BY <1>1, <1>3, <1>5, <1>6, <2>1, Zenon
<1>7. CASE n = l + 1 /\ c = 0
  <2>1. n \in m + 1 .. n
    BY <1>3, <1>7
  <2> QED
    BY <1>1, <1>7, <2>1, Zenon
<1>8. CASE n = l + 1 /\ c = s[l] + 1
  <2>1. CASE m = l
    BY <1>1, <1>3, <1>8, <2>1
  <2>2. CASE m < l /\ s[m] < s[l]
    BY <1>1, <1>3, <1>8, <2>2
  <2>3. ASSUME NEW k \in m + 1 .. l, s[k] = 0 PROVE \E x \in m + 1 .. n : t[x] = 0
    <3>1. k \in m + 1 .. n /\ k \in 1 .. l
      BY <1>1, <1>3, <1>8
    <3> QED
      BY <1>1, <2>3, <3>1, Zenon
  <2>4. m = l \/ m < l
    BY <1>1, <1>3
  <2> QED
    BY <1>3, <1>4, <2>1, <2>2, <2>3, <2>4, Zenon
<1>9. n \in 1 .. l \/ n = l + 1
  BY <1>1
<1> QED
  BY <1>2, <1>3, <1>6, <1>7, <1>8, <1>9, Zenon

LEMMA CountingNext == TInv /\ Counting /\ [Next]_vars => Counting'
<1> SUFFICES ASSUME TInv, Counting, [Next]_vars PROVE Counting'
  OBVIOUS
<1>1. CASE UNCHANGED <<next_seq, seq>>
  BY <1>1, Zenon DEF Counting
<1>2. ASSUME NEW p \in Publishers, NextSequence(p) PROVE Counting'
  <2>1. seq' = Append(seq, next_seq) /\ next_seq' = (next_seq + 1) % Modulus
    BY <1>2, Zenon DEF NextSequence, Draw
  <2>2. seq \in Seq(0 .. Modulus - 1) /\ next_seq \in 0 .. Modulus - 1
    BY Parts, Zenon DEF TInv, PubT
  <2>3. Rises(seq')
    BY <2>1, <2>2, RisesOn, Zenon DEF Counting
  <2>4. seq'[Len(seq')] = next_seq
    BY <2>1, <2>2
  <2> QED
    BY <2>1, <2>3, <2>4, Zenon DEF Counting
<1>3. ASSUME NEW p \in Publishers, Publisher(p), ~NextSequence(p)
      PROVE  UNCHANGED <<next_seq, seq>>
  BY <1>3, WorkerStep, Zenon
<1>4. ASSUME NEW s \in Sessions, Session(s) PROVE UNCHANGED <<next_seq, seq>>
  BY <1>4, Zenon DEF Session, CreateQueues, SubscribeTelemetry, SubscribeAlerts,
     SubscribeTo, ServeTelemetry, ServeAlerts, ServeFree, StopServing,
     UnsubscribeTelemetry, UnsubscribeAlerts, UnsubscribeFrom, DestroyQueues, pub
<1> QED
  BY <1>1, <1>2, <1>3, <1>4, Zenon DEF Next, vars

LEMMA CountingInit == Init => Counting
BY DEF Init, Counting, Rises

\* Two messages between whose draws next_seq did not come round: the numbers are
\* in the order of the draws.
LEMMA NumbersTell ==
    ASSUME Counting, seq \in Seq(0 .. Modulus - 1),
           NEW m \in DOMAIN seq, NEW n \in DOMAIN seq, ~CameRound(m, n)
    PROVE  m < n <=> seq[m] < seq[n]
<1>1. /\ m \in Nat /\ n \in Nat /\ seq[m] \in Nat /\ seq[n] \in Nat
  OBVIOUS
<1>2. ~\E k \in m + 1 .. n : seq[k] = 0
  BY Zenon DEF CameRound
<1>3. ~\E k \in n + 1 .. m : seq[k] = 0
  BY Zenon DEF CameRound
<1>4. (m < n => seq[m] < seq[n]) /\ (n < m => seq[n] < seq[m])
  BY <1>2, <1>3, Zenon DEF Counting, Rises
<1> QED
  BY <1>1, <1>4

\* A subscriber sees no message twice, and messages out of the order of the draws
\* only as far as there are workers to hold them back (worker_pool.c:19-23, 47-53):
\* however many workers and messages there are, no descent on a queue is longer
\* than the workers' number.  The numbers show that order up to the wrap of the
\* uint32_t (worker_pool.c:25, 29).
THEOREM DisorderIsBounded == Spec => []DisorderBounded
<1>1. DInv /\ Counting => DisorderBounded
  <2> SUFFICES ASSUME DInv, Counting PROVE DisorderBounded
    OBVIOUS
  <2>0. PubT
    BY Parts, Zenon DEF DInv, OInv, FInv, RInv, TInv
  <2>1. ASSUME NEW q \in Queues, NEW i \in DOMAIN queue[q], NEW j \in DOMAIN queue[q],
               i # j
        PROVE  queue[q][i] # queue[q][j]
    BY <2>1, Zenon DEF DInv, OInv, FInv, Flow, Apart, Distinct
  <2>2. ASSUME NEW q \in Queues, NEW i \in DOMAIN queue[q]
        PROVE  queue[q][i] \in DOMAIN seq
    <3>1. queue[q][i] \in Messages /\ queue[q][i] < Coming
      BY QueuedDrawn, Zenon DEF DInv
    <3> QED
      BY <2>0, <3>1 DEF PubT, Messages, Coming
  <2>3. ASSUME NEW q \in Queues, NEW i \in DOMAIN queue[q], NEW j \in DOMAIN queue[q]
        PROVE  \/ CameRound(queue[q][i], queue[q][j])
               \/ queue[q][i] < queue[q][j] <=> seq[queue[q][i]] < seq[queue[q][j]]
    BY <2>0, <2>2, NumbersTell, Zenon DEF PubT
  <2> QED
    BY <2>1, <2>3, DescentIsShort, Zenon DEF DisorderBounded
<1>2. DInv => TInv
  BY Zenon DEF DInv, OInv, FInv, RInv
<1> QED
  BY <1>1, <1>2, FewInit, FewNext, CountingInit, CountingNext, PTL DEF Spec
=============================================================================
