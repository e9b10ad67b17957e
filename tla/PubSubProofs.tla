---------------------------- MODULE PubSubProofs ----------------------------
(***************************************************************************)
(* The registry of PubSub and its fan-out, for any number of workers,      *)
(* sessions and messages, every capacity and all limits of the registry.   *)
(***************************************************************************)
EXTENDS PubSub, RegistryProofs

USE LimitsAssumption, BoundsAssumption

-----------------------------------------------------------------------------
(* Types, and the publisher's loop                                         *)

Jobs == [item : 0 .. MaxMessages, entry : Nat, next : Nat, offered : SUBSET Queues]
Places == {"idle", "subscribe_telemetry", "subscribe_alerts", "subscribed",
           "try_alerts", "unsubscribe_telemetry", "unsubscribe_alerts", "destroy"}

PubT ==
    /\ mutex \in Publishers \cup {NoOne}
    /\ job \in [Publishers -> Jobs]
    /\ next_seq \in 0 .. Modulus - 1
    /\ seq \in Seq(0 .. Modulus - 1) /\ Len(seq) <= MaxMessages
QueT == queue \in [Queues -> Seq(Messages)] /\ \A q \in Queues : Len(queue[q]) <= Capacity
SesT ==
    /\ alive \subseteq Queues
    /\ at \in [Sessions -> Places]
    /\ subscribed \in [Sessions -> SUBSET Topics]
HandT == hand \in [Sessions -> Clones \cup {Nothing}] /\ heap \subseteq Clones

\* The parts of the type invariant.
LEMMA Parts == TypeOK <=> Fits(topics, Queues) /\ PubT /\ QueT /\ SesT /\ HandT
BY Zenon DEF TypeOK, Fits, Entries, Stored, PubT, Jobs, QueT, SesT, HandT, Places

LEMMA PartsNext ==
    TypeOK' <=> Fits(topics', Queues) /\ PubT' /\ QueT' /\ SesT' /\ HandT'
BY Zenon DEF TypeOK, Fits, Entries, Stored, PubT, Jobs, QueT, SesT, HandT, Places

\* Who was offered the message so far.
Offered(j, subs) == j.offered = {subs[i] : i \in 1 .. j.next - 1}

\* A publisher without a message is idle; one outside pubsub_publish has offered
\* it to nobody; one inside it holds the mutex and has offered the message to
\* the subscribers before its loop index.
JobOK(p) ==
    /\ job[p].item = 0 => job[p] = NoJob
    /\ job[p].entry = 0 => job[p].offered = {}
    /\ job[p].entry # 0 =>
         /\ mutex = p
         /\ job[p].entry \in DOMAIN topics
         /\ job[p].next \in 1 .. Len(topics[job[p].entry].subscribers) + 1
         /\ Offered(job[p], topics[job[p].entry].subscribers)

Fanning == \A p \in Publishers : JobOK(p)

TInv == TypeOK /\ Fanning /\ Exact(topics)

\* Giving publisher p the job r.
LEMMA JobSet ==
    ASSUME job \in [Publishers -> Jobs], NEW p \in Publishers, NEW r \in Jobs,
           job' = [job EXCEPT ![p] = r]
    PROVE  /\ job' \in [Publishers -> Jobs]
           /\ job'[p] = r
           /\ \A x \in Publishers : x # p => job'[x] = job[x]
OBVIOUS

\* While the mutex is free nobody is inside pubsub_publish.
LEMMA NobodyInside ==
    ASSUME TInv, MutexFree PROVE \A p \in Publishers : job[p].entry = 0
BY Zenon DEF TInv, Fanning, JobOK, MutexFree

\* Whoever is inside it is alone.
LEMMA OneInside ==
    ASSUME TInv, NEW p \in Publishers, Publishing(p)
    PROVE  mutex = p /\ \A x \in Publishers : x # p => job[x].entry = 0
BY Zenon DEF TInv, Fanning, JobOK, Publishing

\* The message drawn next.
Coming == Len(seq) + 1

\* next_seq++, which may come round.
LEMMA Increment ==
    ASSUME NEW n \in 0 .. Modulus - 1
    PROVE  /\ (n + 1) % Modulus \in 0 .. Modulus - 1
           /\ (n + 1) % Modulus = IF n + 1 = Modulus THEN 0 ELSE n + 1
<1>1. CASE n + 1 = Modulus
  BY <1>1
<1>2. CASE n + 1 < Modulus
  BY <1>2
<1> QED
  BY <1>1, <1>2

LEMMA ComingType ==
    ASSUME PubT PROVE Coming \in Nat /\ Coming # 0 /\ Coming \in 1 .. MaxMessages + 1
BY DEF PubT, Coming

\* A draw.
LEMMA DrawType ==
    ASSUME TInv, NEW p \in Publishers, NextSequence(p)
    PROVE  TInv'
<1>1. /\ job[p] = NoJob /\ Len(seq) < MaxMessages
      /\ seq' = Append(seq, next_seq) /\ next_seq' = (next_seq + 1) % Modulus
      /\ job' = [job EXCEPT ![p] = [NoJob EXCEPT !.item = Coming]]
      /\ UNCHANGED <<topics, mutex, queue, alive, at, subscribed, hand, heap>>
  BY Zenon DEF NextSequence, Draw, sess, Coming
<1>2. PubT
  BY Parts, Zenon DEF TInv
<1> DEFINE r == [NoJob EXCEPT !.item = Coming]
<1>3. r \in Jobs /\ r.item # 0 /\ r.entry = 0 /\ r.offered = {}
  <2>1. Coming \in 0 .. MaxMessages /\ Coming # 0
    BY <1>1, <1>2 DEF PubT, Coming
  <2> QED
    BY <2>1 DEF NoJob, Jobs
<1> HIDE DEF r
<1>4. /\ job' \in [Publishers -> Jobs] /\ job'[p] = r
      /\ \A x \in Publishers : x # p => job'[x] = job[x]
  BY <1>1, <1>2, <1>3, JobSet, Zenon DEF PubT, r
<1>5. PubT'
  <2>1. next_seq' \in 0 .. Modulus - 1
    BY <1>1, <1>2, Increment, Zenon DEF PubT
  <2>2. seq' \in Seq(0 .. Modulus - 1) /\ Len(seq') <= MaxMessages
    BY <1>1, <1>2 DEF PubT
  <2> QED
    BY <1>1, <1>2, <1>4, <2>1, <2>2, Zenon DEF PubT
<1>6. Fanning'
  BY <1>1, <1>3, <1>4, Zenon DEF TInv, Fanning, JobOK
<1>7. Fits(topics', Queues) /\ Exact(topics') /\ QueT' /\ SesT' /\ HandT'
  BY <1>1, Parts, Zenon DEF TInv, QueT, SesT, HandT
<1> QED
  BY <1>5, <1>6, <1>7, PartsNext, Zenon DEF TInv

\* Entering the fan-out.
LEMMA BeginType ==
    ASSUME TInv, NEW p \in Publishers, NEW name \in Names, PublishBegin(p, name)
    PROVE  TInv'
<1> DEFINE e == FindOrCreateTopic(topics, name)
<1>1. /\ job[p] # NoJob /\ job[p].entry = 0 /\ MutexFree
      /\ topics' = WithTopic(topics, name)
      /\ e = 0 => job' = [job EXCEPT ![p] = NoJob] /\ mutex' = mutex
      /\ e # 0 => /\ job' = [job EXCEPT ![p] = [job[p] EXCEPT !.entry = e, !.next = 1]]
                  /\ mutex' = p
      /\ UNCHANGED <<next_seq, seq, queue, alive, at, subscribed, hand, heap>>
  BY Zenon DEF PublishBegin, Publishing, sess
<1>2. Fits(topics, Queues) /\ Exact(topics) /\ PubT /\ job[p] \in Jobs
  BY Parts, Zenon DEF TInv, PubT
<1>3. Fits(topics', Queues) /\ Exact(topics') /\ (e # 0 => e \in DOMAIN topics')
  BY <1>1, <1>2, Grows, GrowsExact, Returned, Zenon
<1> HIDE DEF e
<1>4. \A x \in Publishers : job[x].entry = 0
  BY <1>1, NobodyInside, Zenon
<1>5. PubT' /\ Fanning'
  <2>1. CASE e = 0
    <3>1. NoJob \in Jobs /\ NoJob.entry = 0 /\ NoJob.offered = {}
      BY DEF NoJob, Jobs
    <3>2. /\ job' \in [Publishers -> Jobs] /\ job'[p] = NoJob
          /\ \A x \in Publishers : x # p => job'[x] = job[x]
      BY <1>1, <1>2, <2>1, <3>1, JobSet, Zenon DEF PubT
    <3>3. PubT'
      BY <1>1, <1>2, <2>1, <3>2, Zenon DEF PubT
    <3>4. Fanning'
      BY <1>4, <3>1, <3>2, Zenon DEF TInv, Fanning, JobOK
    <3> QED
      BY <3>3, <3>4
  <2>2. CASE e # 0
    <3> DEFINE r == [job[p] EXCEPT !.entry = e, !.next = 1]
               subs == topics'[e].subscribers
    <3>1. e \in Nat /\ Len(subs) \in Nat
      BY <1>3, <2>2, EntryType, Zenon
    <3>2. /\ r \in Jobs /\ r.entry = e /\ r.next = 1
          /\ r.item = job[p].item /\ r.offered = job[p].offered
      BY <1>2, <3>1, Zenon DEF Jobs
    <3>3. job[p].item # 0 /\ job[p].offered = {}
      BY <1>1, Zenon DEF TInv, Fanning, JobOK
    <3> HIDE DEF r
    <3>4. /\ job' \in [Publishers -> Jobs] /\ job'[p] = r
          /\ \A x \in Publishers : x # p => job'[x] = job[x]
      BY <1>1, <1>2, <2>2, <3>2, JobSet, Zenon DEF PubT, r
    <3>5. PubT'
      BY <1>1, <1>2, <2>2, <3>4, Zenon DEF PubT
    <3>6. Offered(r, subs) /\ r.next \in 1 .. Len(subs) + 1
      <4> HIDE DEF subs
      <4> QED
        BY <3>1, <3>2, <3>3 DEF Offered
    <3>7. JobOK(p)'
      BY <1>1, <1>3, <2>2, <3>2, <3>3, <3>4, <3>6, Zenon DEF JobOK
    <3>8. \A x \in Publishers : x # p => JobOK(x)'
      BY <1>4, <3>4, Zenon DEF TInv, Fanning, JobOK
    <3> QED
      BY <3>5, <3>7, <3>8, Zenon DEF Fanning
  <2> QED
    BY <2>1, <2>2, Zenon
<1>6. QueT' /\ SesT' /\ HandT'
  BY <1>1, Parts, Zenon DEF TInv, QueT, SesT, HandT
<1> QED
  BY <1>3, <1>5, <1>6, PartsNext, Zenon DEF TInv

\* The subscriber the loop has come to.
LEMMA Aimed ==
    ASSUME TInv, NEW p \in Publishers, InFanOut(p)
    PROVE  /\ job[p].entry # 0 /\ job[p].entry \in DOMAIN topics
           /\ job[p].next \in DOMAIN Audience(p)
           /\ Target(p) \in Queues
           /\ job[p].item \in Messages
<1> DEFINE j == job[p]
           subs == topics[j.entry].subscribers
<1>1. j \in Jobs /\ Fits(topics, Queues)
  BY Parts, Zenon DEF TInv, PubT
<1>2. /\ j.entry # 0 /\ j.entry \in DOMAIN topics /\ j.next <= Len(subs)
      /\ j.next \in 1 .. Len(subs) + 1
  BY Zenon DEF TInv, Fanning, JobOK, InFanOut, Publishing, Audience
<1>3. subs \in Seq(Queues)
  BY <1>1, <1>2, EntryType, Zenon
<1>4. j.item # 0
  <2>1. NoJob.entry = 0
    BY DEF NoJob
  <2> QED
    BY <1>2, <2>1, Zenon DEF TInv, Fanning, JobOK
<1>5. j.item \in Messages /\ j.next \in Nat
  BY <1>1, <1>4 DEF Jobs, Messages
<1> HIDE DEF j
<1>6. j.next \in DOMAIN subs /\ subs[j.next] \in Queues
  <2> HIDE DEF subs
  <2> QED
    BY <1>2, <1>3, <1>5
<1> QED
  BY <1>2, <1>5, <1>6, Zenon DEF Target, Audience, j

\* The job after one more offer.
LEMMA JobNext ==
    ASSUME NEW j \in Jobs, NEW q \in Queues
    PROVE  LET r == [j EXCEPT !.next = @ + 1, !.offered = @ \cup {q}]
           IN  /\ r \in Jobs /\ r.item = j.item /\ r.entry = j.entry
               /\ r.next = j.next + 1 /\ r.offered = j.offered \cup {q}
<1>1. j.next \in Nat /\ j.offered \in SUBSET Queues
  BY Zenon DEF Jobs
<1>2. j.next + 1 \in Nat
  BY <1>1
<1>3. j.offered \cup {q} \in SUBSET Queues
  BY <1>1, Zenon
<1> QED
  BY <1>2, <1>3, Zenon DEF Jobs

\* One turn of the loop.
LEMMA Looped ==
    ASSUME TInv, NEW p \in Publishers, InFanOut(p), Advance(p),
           UNCHANGED <<topics, mutex, next_seq, seq>>
    PROVE  /\ PubT' /\ Fanning'
           /\ job'[p].item = job[p].item /\ job'[p].entry = job[p].entry
           /\ job'[p].offered = job[p].offered \cup {Target(p)}
           /\ \A x \in Publishers : x # p => job'[x] = job[x]
<1> DEFINE j == job[p]
           subs == Audience(p)
           r == [j EXCEPT !.next = @ + 1, !.offered = @ \cup {Target(p)}]
<1>1. PubT /\ j \in Jobs /\ j.next \in Nat /\ Fits(topics, Queues)
  <2>1. PubT /\ j \in Jobs /\ Fits(topics, Queues)
    BY Parts, Zenon DEF TInv, PubT
  <2> QED
    BY <2>1 DEF Jobs
<1>2. /\ j.entry # 0 /\ j.entry \in DOMAIN topics
      /\ j.next \in DOMAIN subs /\ Target(p) \in Queues /\ j.item \in Messages
  BY Aimed, Zenon
<1>3. subs \in Seq(Queues)
  BY <1>1, <1>2, EntryType, Zenon DEF Audience
<1>4. mutex = p /\ Offered(j, subs)
  BY <1>2, Zenon DEF TInv, Fanning, JobOK, Audience
<1>5. /\ r \in Jobs /\ r.item = j.item /\ r.entry = j.entry /\ r.next = j.next + 1
      /\ r.offered = j.offered \cup {Target(p)}
  BY <1>1, <1>2, JobNext, Zenon
<1>6. Target(p) = subs[j.next]
  BY Zenon DEF Target
<1>7. job' = [job EXCEPT ![p] = r]
  BY Zenon DEF Advance
<1> HIDE DEF r, subs, j
<1>8. Offered(r, subs) /\ r.next \in 1 .. Len(subs) + 1
  <2>1. r.next \in 1 .. Len(subs) + 1
    BY <1>1, <1>2, <1>3, <1>5
  <2>2. \A i : i \in 1 .. (j.next + 1) - 1 <=> i \in 1 .. j.next - 1 \/ i = j.next
    BY <1>1, <1>2, <1>3
  <2>3. {subs[i] : i \in 1 .. (j.next + 1) - 1}
          = {subs[i] : i \in 1 .. j.next - 1} \cup {subs[j.next]}
    BY <2>2, Zenon
  <2> QED
    BY <1>4, <1>5, <1>6, <2>1, <2>3, Zenon DEF Offered
<1>9. /\ job' \in [Publishers -> Jobs] /\ job'[p] = r
      /\ \A x \in Publishers : x # p => job'[x] = job[x]
  BY <1>1, <1>5, <1>7, JobSet, Zenon DEF PubT
<1>10. PubT'
  BY <1>1, <1>9, Zenon DEF PubT
<1>11. r.item # 0
  BY <1>2, <1>5 DEF Messages
<1>12. JobOK(p)'
  <2>1. /\ topics' = topics /\ mutex' = p /\ r.entry # 0 /\ r.entry \in DOMAIN topics
        /\ topics[r.entry].subscribers = subs
    BY <1>2, <1>4, <1>5, Zenon DEF subs, Audience, j
  <2> QED
    BY <1>8, <1>9, <1>11, <2>1, Zenon DEF JobOK
<1>13. \A x \in Publishers : x # p => JobOK(x)'
  BY <1>9, Zenon DEF TInv, Fanning, JobOK
<1> QED
  BY <1>5, <1>9, <1>10, <1>12, <1>13, Zenon DEF Fanning, j

\* Giving the queue q the contents s.
LEMMA QueueSet ==
    ASSUME QueT, NEW q \in Queues, NEW s \in Seq(Messages), Len(s) <= Capacity,
           queue' = [queue EXCEPT ![q] = s]
    PROVE  /\ QueT' /\ queue'[q] = s
           /\ \A x \in Queues : x # q => queue'[x] = queue[x]
BY Zenon DEF QueT

\* What Deliver and Take do to a sequence.
LEMMA EnqueueType ==
    ASSUME NEW s \in Seq(Messages), NEW m \in Messages, Len(s) < Capacity
    PROVE  Append(s, m) \in Seq(Messages) /\ Len(Append(s, m)) <= Capacity
OBVIOUS

LEMMA DequeueType ==
    ASSUME NEW s \in Seq(Messages), s # <<>>, Len(s) <= Capacity
    PROVE  /\ Head(s) \in Messages
           /\ Tail(s) \in Seq(Messages) /\ Len(Tail(s)) <= Capacity
OBVIOUS

\* The fan-out.
LEMMA FanOutType ==
    ASSUME TInv, NEW p \in Publishers,
           PublishOutOfMemory(p) \/ PublishOne(p) \/ PublishEnd(p)
    PROVE  TInv'
<1>0. Fits(topics, Queues) /\ PubT /\ QueT /\ SesT /\ HandT /\ Exact(topics)
  BY Parts, Zenon DEF TInv
<1>1. /\ UNCHANGED <<topics, next_seq, seq, alive, at, subscribed, hand>>
  BY Zenon DEF PublishOutOfMemory, PublishOne, PublishEnd, sess
<1>2. Fits(topics', Queues) /\ Exact(topics') /\ SesT'
  BY <1>0, <1>1, Zenon DEF SesT
<1>3. CASE PublishOutOfMemory(p)
  <2>1. InFanOut(p) /\ Advance(p) /\ UNCHANGED <<mutex, queue, heap>>
    BY <1>3, Zenon DEF PublishOutOfMemory
  <2>2. PubT' /\ Fanning'
    BY <1>1, <2>1, Looped, Zenon
  <2>3. QueT' /\ HandT'
    BY <1>0, <1>1, <2>1, Zenon DEF QueT, HandT
  <2> QED
    BY <1>2, <2>2, <2>3, PartsNext, Zenon DEF TInv
<1>4. CASE PublishOne(p)
  <2>1. InFanOut(p) /\ Advance(p) /\ UNCHANGED mutex
    BY <1>4, Zenon DEF PublishOne
  <2>2. PubT' /\ Fanning'
    BY <1>1, <2>1, Looped, Zenon
  <2>3. Target(p) \in Queues /\ job[p].item \in Messages
    BY <2>1, Aimed, Zenon
  <2>4. QueT' /\ HandT'
    <3>1. CASE UNCHANGED <<queue, heap>>
      BY <1>0, <1>1, <3>1, Zenon DEF QueT, HandT
    <3>2. CASE Len(queue[Target(p)]) < Capacity /\ Deliver(p)
      <4> DEFINE s == Append(queue[Target(p)], job[p].item)
      <4>1. queue[Target(p)] \in Seq(Messages)
        BY <1>0, <2>3, Zenon DEF QueT
      <4>2. s \in Seq(Messages) /\ Len(s) <= Capacity
        BY <2>3, <3>2, <4>1, EnqueueType, Zenon
      <4>3. queue' = [queue EXCEPT ![Target(p)] = s]
        BY <3>2, Zenon DEF Deliver
      <4> HIDE DEF s
      <4>4. QueT'
        BY <1>0, <2>3, <4>2, <4>3, QueueSet, Zenon
      <4>5. Clone(job[p].item, Target(p)) \in Clones
        BY <2>3, Zenon DEF Clone, Clones
      <4>6. HandT'
        BY <1>0, <1>1, <3>2, <4>5, Zenon DEF HandT, Deliver
      <4> QED
        BY <4>4, <4>6
    <3> QED
      BY <1>4, <3>1, <3>2, Zenon DEF PublishOne, DropClone
  <2> QED
    BY <1>2, <2>2, <2>4, PartsNext, Zenon DEF TInv
<1>5. CASE PublishEnd(p)
  <2>1. /\ Publishing(p) /\ mutex' = NoOne /\ job' = [job EXCEPT ![p] = NoJob]
        /\ UNCHANGED <<queue, heap>>
    BY <1>5, Zenon DEF PublishEnd
  <2>2. NoJob \in Jobs /\ NoJob.entry = 0 /\ NoJob.offered = {}
    BY DEF NoJob, Jobs
  <2>3. /\ job' \in [Publishers -> Jobs] /\ job'[p] = NoJob
        /\ \A x \in Publishers : x # p => job'[x] = job[x]
    BY <1>0, <2>1, <2>2, JobSet, Zenon DEF PubT
  <2>4. \A x \in Publishers : x # p => job[x].entry = 0
    BY <2>1, OneInside, Zenon
  <2>5. Fanning'
    BY <2>2, <2>3, <2>4, Zenon DEF TInv, Fanning, JobOK
  <2>6. PubT'
    BY <1>0, <1>1, <2>1, <2>3, Zenon DEF PubT
  <2>7. QueT' /\ HandT'
    BY <1>0, <1>1, <2>1, Zenon DEF QueT, HandT
  <2> QED
    BY <1>2, <2>5, <2>6, <2>7, PartsNext, Zenon DEF TInv
<1> QED
  BY <1>3, <1>4, <1>5, Zenon

\* A session's subscribe or unsubscribe: nobody is inside pubsub_publish when
\* the registry changes.
LEMMA RegistryType ==
    ASSUME TInv, Fits(topics', Queues), Exact(topics'), topics' = topics \/ MutexFree,
           UNCHANGED <<next_seq, seq, mutex, job, queue, alive, hand, heap>>,
           at' \in [Sessions -> Places], subscribed' \in [Sessions -> SUBSET Topics]
    PROVE  TInv'
<1>1. Fanning'
  <2>1. CASE topics' = topics
    BY <2>1, Zenon DEF TInv, Fanning, JobOK
  <2>2. CASE MutexFree
    BY <2>2, NobodyInside, Zenon DEF TInv, Fanning, JobOK
  <2> QED
    BY <2>1, <2>2, Zenon
<1>2. PubT' /\ QueT' /\ SesT' /\ HandT'
  BY Parts, Zenon DEF TInv, PubT, QueT, SesT, HandT
<1> QED
  BY <1>1, <1>2, PartsNext, Zenon DEF TInv

\* The two topics are names that are not cut short.
LEMMA TopicNames ==
    \A s \in Sessions, t \in Topics : t \in Names \ LongNames /\ <<s, t>> \in Queues
BY TopicsAssumption, Zenon DEF Queues

\* Subscribing and unsubscribing.
LEMMA SubscribeType ==
    ASSUME TInv, NEW s \in Sessions, NEW t \in Topics, NEW there \in Places,
           SubscribeTo(s, t, there) \/ UnsubscribeFrom(s, t, there)
    PROVE  TInv'
<1>0. Fits(topics, Queues) /\ Exact(topics) /\ SesT
  BY Parts, Zenon DEF TInv
<1>1. /\ UNCHANGED <<next_seq, seq, mutex, job, queue, alive, hand, heap>>
      /\ at' = [at EXCEPT ![s] = there]
  BY Zenon DEF SubscribeTo, UnsubscribeFrom, pub
<1>2. at' \in [Sessions -> Places]
  BY <1>0, <1>1, Zenon DEF SesT
<1>3. CASE UNCHANGED <<topics, subscribed>>
  BY <1>0, <1>1, <1>2, <1>3, RegistryType, Zenon DEF SesT
<1>4. CASE /\ MutexFree /\ topics' = AfterSubscribe(topics, t, <<s, t>>)
           /\ \/ subscribed' = subscribed
              \/ subscribed' = [subscribed EXCEPT ![s] = @ \cup {t}]
  <2>1. Fits(topics', Queues) /\ Exact(topics')
    BY <1>0, <1>4, SubscribeExact, TopicNames, Zenon
  <2>2. subscribed' \in [Sessions -> SUBSET Topics]
    BY <1>0, <1>4 DEF SesT
  <2> QED
    BY <1>1, <1>2, <1>4, <2>1, <2>2, RegistryType, Zenon
<1>5. CASE /\ MutexFree /\ topics' = AfterUnsubscribe(topics, t, <<s, t>>)
           /\ subscribed' = [subscribed EXCEPT ![s] = @ \ {t}]
  <2>1. Fits(topics', Queues) /\ Exact(topics')
    BY <1>0, <1>5, UnsubscribeExact, Zenon
  <2>2. subscribed' \in [Sessions -> SUBSET Topics]
    BY <1>0, <1>5 DEF SesT
  <2> QED
    BY <1>1, <1>2, <1>5, <2>1, <2>2, RegistryType, Zenon
<1> QED
  BY <1>3, <1>4, <1>5, Zenon DEF SubscribeTo, UnsubscribeFrom

\* What a session's other steps leave alone.
LEMMA PubKept ==
    ASSUME TInv, UNCHANGED <<topics, next_seq, seq, mutex, job>>
    PROVE  Fits(topics', Queues) /\ Exact(topics') /\ PubT' /\ Fanning'
BY Parts, Zenon DEF TInv, PubT, Fanning, JobOK

\* A dequeue.
LEMMA TakeType ==
    ASSUME TInv, NEW s \in Sessions, NEW q \in Queues, Take(s, q)
    PROVE  /\ QueT' /\ hand' \in [Sessions -> Clones \cup {Nothing}]
           /\ hand'[s] = Clone(Head(queue[q]), q) /\ queue'[q] = Tail(queue[q])
           /\ \A x \in Queues : x # q => queue'[x] = queue[x]
           /\ \A x \in Sessions : x # s => hand'[x] = hand[x]
<1>0. QueT /\ HandT
  BY Parts, Zenon DEF TInv
<1>1. /\ queue[q] # <<>> /\ queue' = [queue EXCEPT ![q] = Tail(queue[q])]
      /\ hand' = [hand EXCEPT ![s] = Clone(Head(queue[q]), q)]
  BY Zenon DEF Take
<1>2. queue[q] \in Seq(Messages) /\ Len(queue[q]) <= Capacity
  BY <1>0, Zenon DEF QueT
<1>3. /\ Head(queue[q]) \in Messages
      /\ Tail(queue[q]) \in Seq(Messages) /\ Len(Tail(queue[q])) <= Capacity
  BY <1>1, <1>2, DequeueType, Zenon
<1>4. Clone(Head(queue[q]), q) \in Clones
  BY <1>3, Zenon DEF Clone, Clones
<1>5. /\ QueT' /\ queue'[q] = Tail(queue[q])
      /\ \A x \in Queues : x # q => queue'[x] = queue[x]
  BY <1>0, <1>1, <1>3, QueueSet, Zenon
<1> QED
  BY <1>0, <1>1, <1>4, <1>5, Zenon DEF HandT

\* serve_client's loop.
LEMMA ServeType ==
    ASSUME TInv, NEW s \in Sessions,
           ServeTelemetry(s) \/ ServeAlerts(s) \/ ServeFree(s) \/ StopServing(s)
    PROVE  TInv'
<1>0. QueT /\ SesT /\ HandT
  BY Parts, Zenon DEF TInv
<1>1. UNCHANGED <<topics, next_seq, seq, mutex, job, alive, subscribed>>
  BY Zenon DEF ServeTelemetry, ServeAlerts, ServeFree, StopServing, pub
<1>2. Fits(topics', Queues) /\ Exact(topics') /\ PubT' /\ Fanning'
  BY <1>1, PubKept, Zenon
<1>3. SesT'
  <2>1. \/ at' = at \/ at' = [at EXCEPT ![s] = "try_alerts"]
        \/ at' = [at EXCEPT ![s] = "subscribed"]
        \/ at' = [at EXCEPT ![s] = "unsubscribe_telemetry"]
    BY Zenon DEF ServeTelemetry, ServeAlerts, ServeFree, StopServing
  <2>2. at' \in [Sessions -> Places]
    BY <1>0, <2>1 DEF SesT, Places
  <2> QED
    BY <1>0, <1>1, <2>2, Zenon DEF SesT
<1>4. QueT' /\ HandT'
  <2>1. CASE UNCHANGED <<queue, hand, heap>>
    BY <1>0, <2>1, Zenon DEF QueT, HandT
  <2>2. ASSUME NEW t \in Topics, Take(s, <<s, t>>), heap' = heap
        PROVE  QueT' /\ HandT'
    <3>1. <<s, t>> \in Queues
      BY TopicNames, Zenon
    <3> QED
      BY <1>0, <2>2, <3>1, TakeType, Zenon DEF HandT
  <2>3. CASE ServeFree(s)
    <3>1. /\ queue' = queue /\ heap' = heap \ {hand[s]}
          /\ hand' = [hand EXCEPT ![s] = Nothing]
      BY <2>3, Zenon DEF ServeFree
    <3>2. HandT'
      BY <1>0, <3>1, Zenon DEF HandT
    <3> QED
      BY <1>0, <3>1, <3>2, Zenon DEF QueT
  <2>4. TOPIC_TELEMETRY \in Topics /\ TOPIC_ALERTS \in Topics
    BY Zenon DEF Topics
  <2> QED
    BY <2>1, <2>2, <2>3, <2>4, Zenon DEF ServeTelemetry, ServeAlerts, StopServing
<1> QED
  BY <1>2, <1>3, <1>4, PartsNext, Zenon DEF TInv

\* The beginning and the end of a session.
LEMMA QueuesType ==
    ASSUME TInv, NEW s \in Sessions, CreateQueues(s) \/ DestroyQueues(s)
    PROVE  TInv'
<1>0. QueT /\ SesT /\ HandT
  BY Parts, Zenon DEF TInv
<1>1. UNCHANGED <<topics, next_seq, seq, mutex, job, subscribed, hand>>
  BY Zenon DEF CreateQueues, DestroyQueues, pub
<1>2. Fits(topics', Queues) /\ Exact(topics') /\ PubT' /\ Fanning'
  BY <1>1, PubKept, Zenon
<1>3. CASE CreateQueues(s)
  <2>1. PICK made \in SUBSET Topics : alive' = alive \cup ({s} \X made)
    BY <1>3, Zenon DEF CreateQueues
  <2>2. at' = [at EXCEPT ![s] = "subscribe_telemetry"] /\ UNCHANGED <<queue, heap>>
    BY <1>3, Zenon DEF CreateQueues
  <2>3. alive' \subseteq Queues
    BY <1>0, <2>1 DEF SesT, Queues
  <2>4. SesT'
    BY <1>0, <1>1, <2>2, <2>3, Zenon DEF SesT, Places
  <2>5. QueT' /\ HandT'
    BY <1>0, <1>1, <2>2, Zenon DEF QueT, HandT
  <2> QED
    BY <1>2, <2>4, <2>5, PartsNext, Zenon DEF TInv
<1>4. CASE DestroyQueues(s)
  <2>1. /\ at' = [at EXCEPT ![s] = "idle"] /\ alive' \subseteq alive /\ heap' \subseteq heap
        /\ queue' = [q \in Queues |-> IF q[1] = s THEN <<>> ELSE queue[q]]
    BY <1>4, Zenon DEF DestroyQueues
  <2>2. SesT'
    BY <1>0, <1>1, <2>1, Zenon DEF SesT, Places
  <2>3. HandT'
    BY <1>0, <1>1, <2>1, Zenon DEF HandT
  <2>4. <<>> \in Seq(Messages) /\ Len(<<>>) <= Capacity
    OBVIOUS
  <2>5. QueT'
    BY <1>0, <2>1, <2>4, Zenon DEF QueT
  <2> QED
    BY <1>2, <2>2, <2>3, <2>5, PartsNext, Zenon DEF TInv
<1> QED
  BY <1>3, <1>4, Zenon

\* Every step keeps the types.
LEMMA TypeNext == TInv /\ [Next]_vars => TInv'
<1> SUFFICES ASSUME TInv, [Next]_vars PROVE TInv'
  OBVIOUS
<1>1. CASE UNCHANGED vars
  <2>1. UNCHANGED <<topics, next_seq, seq, mutex, job, queue, alive, at, subscribed, hand, heap>>
    BY <1>1, Zenon DEF vars
  <2>2. QueT' /\ SesT' /\ HandT'
    BY <2>1, Parts, Zenon DEF TInv, QueT, SesT, HandT
  <2> QED
    BY <2>1, <2>2, PubKept, PartsNext, Zenon DEF TInv
<1>2. ASSUME NEW p \in Publishers, Publisher(p) PROVE TInv'
  BY <1>2, DrawType, BeginType, FanOutType, Zenon DEF Publisher
<1>3. ASSUME NEW s \in Sessions, Session(s) PROVE TInv'
  <2>1. /\ TOPIC_TELEMETRY \in Topics /\ TOPIC_ALERTS \in Topics
        /\ {"subscribe_alerts", "subscribed", "unsubscribe_alerts", "destroy"} \subseteq Places
    BY Zenon DEF Topics, Places
  <2>2. CASE SubscribeTelemetry(s) \/ SubscribeAlerts(s)
    BY <2>1, <2>2, SubscribeType, Zenon DEF SubscribeTelemetry, SubscribeAlerts
  <2>3. CASE UnsubscribeTelemetry(s) \/ UnsubscribeAlerts(s)
    BY <2>1, <2>3, SubscribeType, Zenon DEF UnsubscribeTelemetry, UnsubscribeAlerts
  <2> QED
    BY <1>3, <2>2, <2>3, ServeType, QueuesType, Zenon DEF Session
<1> QED
  BY <1>1, <1>2, <1>3, Zenon DEF Next

\* A fresh process.
LEMMA TypeInit == Init => TInv
<1> SUFFICES ASSUME Init PROVE TInv
  OBVIOUS
<1>1. Fits(topics, Queues) /\ Exact(topics)
  BY DEF Init, Fits, Exact
<1>2. PubT /\ Fanning
  <2>1. NoJob \in Jobs /\ NoJob.entry = 0 /\ NoJob.offered = {}
    BY DEF NoJob, Jobs
  <2>2. job = [p \in Publishers |-> NoJob] /\ mutex = NoOne
        /\ next_seq = 1 /\ seq = <<>>
    BY Zenon DEF Init
  <2>3. 1 \in 0 .. Modulus - 1 /\ <<>> \in Seq(0 .. Modulus - 1) /\ Len(<<>>) <= MaxMessages
    OBVIOUS
  <2>4. PubT
    BY <2>1, <2>2, <2>3, Zenon DEF PubT
  <2> QED
    BY <2>1, <2>2, <2>4, Zenon DEF Fanning, JobOK
<1>3. QueT
  BY DEF Init, QueT
<1>4. SesT /\ HandT
  BY Zenon DEF Init, SesT, HandT, Places
<1> QED
  BY <1>1, <1>2, <1>3, <1>4, Parts, Zenon DEF TInv

\* The variables keep their types, and the registry and the queues their bounds.
THEOREM TypeCorrect == Spec => []TypeOK
<1>1. TInv => TypeOK
  BY DEF TInv
<1> QED
  BY <1>1, TypeInit, TypeNext, PTL DEF Spec

\* A fan-out offers the message to every queue subscribed, once
\* (pubsub.c:139-172): the registry does not change under a running loop.
THEOREM FanOutIsComplete == Spec => []EveryoneOffered
<1>1. TInv => EveryoneOffered
  <2> SUFFICES ASSUME TInv, NEW p \in Publishers, Publishing(p)
               PROVE  /\ mutex = p
                      /\ job[p].offered = {Audience(p)[i] : i \in 1 .. job[p].next - 1}
                      /\ job[p].next <= Len(Audience(p)) + 1
    BY Zenon DEF EveryoneOffered
  <2>1. /\ mutex = p /\ job[p].entry \in DOMAIN topics
        /\ job[p].next \in 1 .. Len(Audience(p)) + 1 /\ Offered(job[p], Audience(p))
    BY Zenon DEF TInv, Fanning, JobOK, Publishing, Audience
  <2>2. Len(Audience(p)) \in Nat
    BY <2>1, Parts, EntryType, Zenon DEF TInv, Audience
  <2>3. job[p].next <= Len(Audience(p)) + 1
    BY <2>1, <2>2
  <2> QED
    BY <2>1, <2>3, Zenon DEF Offered
<1> QED
  BY <1>1, TypeInit, TypeNext, PTL DEF Spec

-----------------------------------------------------------------------------
(* The registry is what its callers were told                              *)

\* Queues of different sessions or topics are different.
LEMMA Pair == \A a, b, c, d : <<a, b>> = <<c, d>> => a = c /\ b = d
OBVIOUS

\* What a session may still hold at each point, and that it holds no
\* subscription for a queue it does not have.
Stage(s) ==
    /\ at[s] \in {"idle", "subscribe_telemetry", "destroy"} => subscribed[s] = {}
    /\ at[s] = "unsubscribe_alerts" => TOPIC_TELEMETRY \notin subscribed[s]
    /\ \A t \in subscribed[s] : <<s, t>> \in alive

\* q is the queue of a session that was told it is subscribed to t.
Owns(t, q) == \E s \in Sessions : t \in subscribed[s] /\ q = <<s, t>>

Registered ==
    /\ \A s \in Sessions : Stage(s)
    /\ \A t, q : Lists(topics, t, q) <=> Owns(t, q)

RInv == TInv /\ Registered

\* The publishers' steps.
LEMMA PublisherRegistered ==
    ASSUME RInv, NEW p \in Publishers, Publisher(p)
    PROVE  Registered'
<1>1. UNCHANGED <<alive, at, subscribed>>
  BY Zenon DEF Publisher, NextSequence, PublishBegin, PublishOutOfMemory, PublishOne,
     PublishEnd, sess
<1>2. \A t, q : Lists(topics', t, q) <=> Lists(topics, t, q)
  <2>1. CASE topics' = topics
    BY <2>1, Zenon
  <2>2. CASE \E name \in Names : PublishBegin(p, name)
    <3>1. PICK name \in Names : topics' = WithTopic(topics, name)
      BY <2>2, Zenon DEF PublishBegin
    <3>2. Fits(topics, Queues) /\ Exact(topics)
      BY Parts, Zenon DEF RInv, TInv
    <3> QED
      BY <3>1, <3>2, GrowsExact, Zenon
  <2> QED
    BY <2>1, <2>2, Zenon DEF Publisher, NextSequence, PublishOutOfMemory, PublishOne,
       PublishEnd
<1> QED
  BY <1>1, <1>2, Zenon DEF RInv, Registered, Stage, Owns

\* pubsub_subscribe as a session calls it.
LEMMA SubscribeRegistered ==
    ASSUME RInv, NEW s \in Sessions, NEW t \in Topics,
           NEW there \in {"subscribe_alerts", "subscribed"}, SubscribeTo(s, t, there)
    PROVE  Registered'
<1> DEFINE q == <<s, t>>
           ok == SubscribeOK(topics, t, q)
<1>0. Fits(topics, Queues) /\ Exact(topics) /\ SesT
  BY Parts, Zenon DEF RInv, TInv
<1>1. alive' = alive /\ at' = [at EXCEPT ![s] = there]
  BY Zenon DEF SubscribeTo
<1>2. at'[s] = there /\ \A x \in Sessions : x # s => at'[x] = at[x]
  BY <1>0, <1>1, Zenon DEF SesT
<1>3. CASE UNCHANGED <<topics, subscribed>>
  BY <1>1, <1>2, <1>3, Zenon DEF RInv, Registered, Stage, Owns
<1>4. CASE /\ q \in alive /\ topics' = AfterSubscribe(topics, t, q)
           /\ subscribed' = IF ok THEN [subscribed EXCEPT ![s] = @ \cup {t}]
                            ELSE subscribed
  <2>1. /\ \A n, x : n # t \/ x # q => (Lists(topics', n, x) <=> Lists(topics, n, x))
        /\ ok <=> Lists(topics', t, q)
        /\ Lists(topics, t, q) => ok
    BY <1>0, <1>4, SubscribeExact, TopicNames, Zenon
  <2>2. /\ \A x \in Sessions : x # s => subscribed'[x] = subscribed[x]
        /\ ok => subscribed'[s] = subscribed[s] \cup {t}
        /\ ~ok => subscribed'[s] = subscribed[s]
    BY <1>0, <1>4, Zenon DEF SesT
  <2> HIDE DEF ok
  <2>3. \A x \in Sessions : Stage(x)'
    BY <1>1, <1>2, <1>4, <2>2, Zenon DEF RInv, Registered, Stage
  <2>4. \A n, x : Owns(n, x)' <=> Owns(n, x) \/ (ok /\ n = t /\ x = q)
    BY <2>2, Zenon DEF Owns
  <2>5. \A n, x : Lists(topics, n, x) <=> Owns(n, x)
    BY Zenon DEF RInv, Registered
  <2> HIDE DEF q
  <2>6. \A n, x : Lists(topics', n, x) <=> Owns(n, x)'
    BY <2>1, <2>4, <2>5, Zenon
  <2> QED
    BY <2>3, <2>6, Zenon DEF Registered
<1> QED
  BY <1>3, <1>4, Zenon DEF SubscribeTo

\* pubsub_unsubscribe as a session calls it.
LEMMA UnsubscribeRegistered ==
    ASSUME RInv, NEW s \in Sessions, NEW t \in Topics, NEW there,
           UnsubscribeFrom(s, t, there),
           \/ at[s] = "unsubscribe_telemetry" /\ t = TOPIC_TELEMETRY
              /\ there = "unsubscribe_alerts"
           \/ at[s] = "unsubscribe_alerts" /\ t = TOPIC_ALERTS /\ there = "destroy"
    PROVE  Registered'
<1> DEFINE q == <<s, t>>
<1>0. Fits(topics, Queues) /\ Exact(topics) /\ SesT
  BY Parts, Zenon DEF RInv, TInv
<1>1. alive' = alive /\ at' = [at EXCEPT ![s] = there]
  BY Zenon DEF UnsubscribeFrom
<1>2. at'[s] = there /\ \A x \in Sessions : x # s => at'[x] = at[x]
  BY <1>0, <1>1, Zenon DEF SesT
<1>3. /\ t \notin subscribed'[s] /\ subscribed'[s] \subseteq subscribed[s]
      /\ \A n : n # t => (n \in subscribed'[s] <=> n \in subscribed[s])
      /\ \A x \in Sessions : x # s => subscribed'[x] = subscribed[x]
  BY <1>0, Zenon DEF UnsubscribeFrom, MustUndo, SesT
<1>4. \A n, x : Lists(topics', n, x) <=> Lists(topics, n, x) /\ (n # t \/ x # q)
  <2>1. CASE t \in subscribed[s]
    <3>1. topics' = AfterUnsubscribe(topics, t, q)
      BY <2>1, Zenon DEF UnsubscribeFrom, MustUndo
    <3> HIDE DEF q
    <3>2. \A n, x : Lists(AfterUnsubscribe(topics, t, q), n, x) <=>
                       Lists(topics, n, x) /\ (n # t \/ x # q)
      BY <1>0, UnsubscribeExact
    <3> QED
      BY <3>1, <3>2, Zenon
  <2>2. CASE t \notin subscribed[s]
    <3>1. topics' = topics
      BY <2>2, Zenon DEF UnsubscribeFrom, MustUndo
    <3>2. ~Lists(topics, t, q)
      BY <2>2, Pair, Zenon DEF RInv, Registered, Owns
    <3> QED
      BY <3>1, <3>2, Zenon
  <2> QED
    BY <2>1, <2>2, Zenon
<1>5. \A n, x : Owns(n, x)' <=> Owns(n, x) /\ (n # t \/ x # q)
  BY <1>3, Pair, Zenon DEF Owns
<1>6. Stage(s)'
  <2>1. there = "destroy" => subscribed'[s] = {}
    <3>1. subscribed[s] \subseteq Topics
      BY <1>0, Zenon DEF SesT
    <3> QED
      BY <1>3, <3>1, Zenon DEF RInv, Registered, Stage, Topics
  <2>2. there = "unsubscribe_alerts" => TOPIC_TELEMETRY \notin subscribed'[s]
    BY <1>3, Zenon
  <2>3. \A n \in subscribed'[s] : <<s, n>> \in alive'
    BY <1>1, <1>3, Zenon DEF RInv, Registered, Stage
  <2> QED
    BY <1>2, <2>1, <2>2, <2>3, Zenon DEF Stage
<1>7. \A x \in Sessions : Stage(x)'
  BY <1>1, <1>2, <1>3, <1>6, Zenon DEF RInv, Registered, Stage
<1>8. \A n, x : Lists(topics, n, x) <=> Owns(n, x)
  BY Zenon DEF RInv, Registered
<1> HIDE DEF q
<1> QED
  BY <1>4, <1>5, <1>7, <1>8, Zenon DEF Registered

\* The other steps of a session.
LEMMA OtherRegistered ==
    ASSUME RInv, NEW s \in Sessions,
           \/ CreateQueues(s) \/ ServeTelemetry(s) \/ ServeAlerts(s) \/ ServeFree(s)
           \/ StopServing(s) \/ DestroyQueues(s)
    PROVE  Registered'
<1>0. SesT
  BY Parts, Zenon DEF RInv, TInv
<1>1. UNCHANGED <<topics, subscribed>>
  BY Zenon DEF CreateQueues, ServeTelemetry, ServeAlerts, ServeFree, StopServing,
     DestroyQueues
<1>2. \A n, x : Lists(topics', n, x) <=> Owns(n, x)'
  BY <1>1, Zenon DEF RInv, Registered, Owns
<1>3. \A x \in Sessions : x # s => at'[x] = at[x]
  BY <1>0, Zenon DEF SesT, CreateQueues, ServeTelemetry, ServeAlerts, ServeFree,
     StopServing, DestroyQueues
<1>4. \A x, t : <<x, t>> \in alive /\ x # s => <<x, t>> \in alive'
  BY Pair DEF CreateQueues, ServeTelemetry, ServeAlerts, ServeFree, StopServing,
     DestroyQueues
<1>5. \A x \in Sessions : x # s => Stage(x)'
  BY <1>1, <1>3, <1>4, Zenon DEF RInv, Registered, Stage
<1>6. Stage(s)'
  <2>1. CASE CreateQueues(s) \/ DestroyQueues(s)
    <3>1. subscribed[s] = {}
      BY <2>1, Zenon DEF RInv, Registered, Stage, CreateQueues, DestroyQueues
    <3> QED
      BY <1>1, <3>1, Zenon DEF Stage
  <2>2. CASE ServeTelemetry(s) \/ ServeAlerts(s) \/ ServeFree(s) \/ StopServing(s)
    <3>1. alive' = alive
      BY <2>2, Zenon DEF ServeTelemetry, ServeAlerts, ServeFree, StopServing
    <3>2. at' = at \/ at'[s] \in {"try_alerts", "subscribed", "unsubscribe_telemetry"}
      BY <1>0, <2>2, Zenon DEF SesT, ServeTelemetry, ServeAlerts, ServeFree, StopServing
    <3> QED
      BY <1>1, <3>1, <3>2, Zenon DEF RInv, Registered, Stage
  <2> QED
    BY <2>1, <2>2, Zenon
<1> QED
  BY <1>2, <1>5, <1>6, Zenon DEF Registered

\* Every step keeps the registry exact.
LEMMA RegisteredNext == RInv /\ [Next]_vars => RInv'
<1> SUFFICES ASSUME RInv, [Next]_vars PROVE Registered'
  BY TypeNext, Zenon DEF RInv
<1>1. CASE UNCHANGED vars
  BY <1>1, Zenon DEF vars, RInv, Registered, Stage, Owns
<1>2. ASSUME NEW s \in Sessions, Session(s) PROVE Registered'
  <2>1. TOPIC_TELEMETRY \in Topics /\ TOPIC_ALERTS \in Topics
    BY Zenon DEF Topics
  <2>2. CASE SubscribeTelemetry(s) \/ SubscribeAlerts(s)
    BY <2>1, <2>2, SubscribeRegistered, Zenon DEF SubscribeTelemetry, SubscribeAlerts
  <2>3. CASE UnsubscribeTelemetry(s) \/ UnsubscribeAlerts(s)
    BY <2>1, <2>3, UnsubscribeRegistered, Zenon
    DEF UnsubscribeTelemetry, UnsubscribeAlerts
  <2> QED
    BY <1>2, <2>2, <2>3, OtherRegistered, Zenon DEF Session
<1> QED
  BY <1>1, <1>2, PublisherRegistered, Zenon DEF Next

LEMMA RegisteredInit == Init => RInv
<1> SUFFICES ASSUME Init PROVE Registered
  BY TypeInit, Zenon DEF RInv
<1>1. topics = <<>> /\ at = [s \in Sessions |-> "idle"]
      /\ subscribed = [s \in Sessions |-> {}]
  BY Zenon DEF Init
<1>2. DOMAIN topics = {}
  BY <1>1
<1>3. \A n : FindTopic(topics, n) = 0
  BY <1>2, Zenon DEF FindTopic, Matching
<1> QED
  BY <1>1, <1>3, Zenon DEF Registered, Stage, Owns, Lists

\* The registry is exactly what its callers were told (pubsub.c:21-29, 89-101,
\* 120-128), for all limits, any number of sessions and topics cut short.
THEOREM RegistryIsExact == Spec => []RegistryExact
<1>1. RInv => RegistryExact
  <2> SUFFICES ASSUME RInv PROVE RegistryExact
    OBVIOUS
  <2>1. \A s \in Sessions, t \in Topics : t \in subscribed[s] <=> Lists(topics, t, <<s, t>>)
    BY Pair, Zenon DEF RInv, Registered, Owns
  <2> QED
    BY <2>1, Zenon DEF RInv, TInv, Exact, Distinct, Lists, RegistryExact
<1> QED
  BY <1>1, RegisteredInit, RegisteredNext, PTL DEF Spec

\* No destroyed queue is ever listed (transport.c:147-205), whatever create or
\* subscribe failed.
THEOREM NothingDangles == Spec => []NoDanglingSubscriber
<1>1. RInv => NoDanglingSubscriber
  <2> SUFFICES ASSUME RInv, NEW i \in DOMAIN topics, NEW j \in DOMAIN topics[i].subscribers
               PROVE  topics[i].subscribers[j] \in alive
    BY Zenon DEF NoDanglingSubscriber
  <2>1. Fits(topics, Queues) /\ Exact(topics)
    BY Parts, Zenon DEF RInv, TInv
  <2>2. topics[i].subscribers # <<>> /\ i # 0
    BY <2>1 DEF Fits
  <2>3. FindTopic(topics, topics[i].name) = i
    BY <2>1, <2>2, Zenon DEF Exact
  <2>4. Lists(topics, topics[i].name, topics[i].subscribers[j])
    BY <2>2, <2>3, Zenon DEF Lists, Subscribed
  <2>5. \A s \in Sessions : \A t \in subscribed[s] : <<s, t>> \in alive
    BY Zenon DEF RInv, Registered, Stage
  <2>6. Owns(topics[i].name, topics[i].subscribers[j])
    BY <2>4, Zenon DEF RInv, Registered
  <2> QED
    BY <2>5, <2>6, Zenon DEF Owns
<1> QED
  BY <1>1, RegisteredInit, RegisteredNext, PTL DEF Spec

-----------------------------------------------------------------------------
(* The broadcast of pubsub.h                                               *)

\* Whoever holds the mutex is inside pubsub_publish.
Locked == mutex # NoOne => mutex \in Publishers /\ job[mutex].entry # 0

BInv == RInv /\ Locked

\* The lookup and the abstract set of listeners say the same.
LEMMA HeardBy ==
    ASSUME NEW reg, NEW n
    PROVE  \A q : q \in Listeners(reg, n) <=> q \in Queues /\ Lists(reg, n, q)
BY Zenon DEF Listeners, Lists

LEMMA HeardIs ==
    ASSUME NEW n \in Names
    PROVE  /\ Heard[n] = Listeners(topics, n)
           /\ \A q : q \in Heard[n] <=> q \in Queues /\ Lists(topics, n, q)
<1>1. Heard[n] = Listeners(topics, n)
  BY Zenon DEF Heard
<1>2. \A q : q \in Listeners(topics, n) <=> q \in Queues /\ Lists(topics, n, q)
  BY HeardBy, Zenon
<1> QED
  BY <1>1, <1>2, Zenon

\* A step that changes no subscription changes no listener.
LEMMA SameHeard ==
    ASSUME \A n, q : Lists(topics', n, q) <=> Lists(topics, n, q)
    PROVE  Heard' = Heard
<1>1. ASSUME NEW n PROVE Listeners(topics', n) = Listeners(topics, n)
  <2>1. /\ \A q : q \in Listeners(topics', n) <=> q \in Queues /\ Lists(topics', n, q)
        /\ \A q : q \in Listeners(topics, n) <=> q \in Queues /\ Lists(topics, n, q)
    BY HeardBy, Zenon
  <2> QED
    BY <2>1, Zenon
<1> QED
  BY <1>1, Zenon DEF Heard

\* A step that changes the subscriptions to t.
LEMMA ChangedHeard ==
    ASSUME NEW t \in Names, NEW S,
           \A n, q : n # t => (Lists(topics', n, q) <=> Lists(topics, n, q)),
           \A q : q \in S <=> q \in Queues /\ Lists(topics', t, q)
    PROVE  Heard' = [Heard EXCEPT ![t] = S]
<1>1. ASSUME NEW n, n # t PROVE Listeners(topics', n) = Listeners(topics, n)
  <2>1. /\ \A q : q \in Listeners(topics', n) <=> q \in Queues /\ Lists(topics', n, q)
        /\ \A q : q \in Listeners(topics, n) <=> q \in Queues /\ Lists(topics, n, q)
    BY HeardBy, Zenon
  <2> QED
    BY <1>1, <2>1, Zenon
<1>2. Listeners(topics', t) = S
  BY HeardBy, Zenon
<1> QED
  BY <1>1, <1>2, Zenon DEF Heard

\* The abstract state while the mutex is free, and while p holds it.
LEMMA AtRest == mutex = NoOne => InFlight = 0 /\ Remaining = {}
BY Zenon DEF InFlight, Remaining

LEMMA AtRestNext == mutex' = NoOne => InFlight' = 0 /\ Remaining' = {}
BY Zenon DEF InFlight, Remaining

\* What subs holds from place k on.
From(subs, k) == {subs[i] : i \in k .. Len(subs)}

LEMMA Busy ==
    ASSUME NEW p \in Publishers, mutex = p
    PROVE  InFlight = job[p].item /\ Remaining = From(Audience(p), job[p].next)
BY Zenon DEF InFlight, Remaining, From

LEMMA BusyNext ==
    ASSUME NEW p \in Publishers, mutex' = p
    PROVE  /\ InFlight' = job'[p].item
           /\ Remaining' = From(topics'[job'[p].entry].subscribers, job'[p].next)
BY Zenon DEF InFlight, Remaining, From, Audience

\* A step that leaves the registry and the holder's job alone is invisible, but
\* for the queues.
LEMMA SameFanOut ==
    ASSUME UNCHANGED <<topics, mutex>>, mutex # NoOne => job'[mutex] = job[mutex]
    PROVE  Heard' = Heard /\ InFlight' = InFlight /\ Remaining' = Remaining
<1>1. Heard' = Heard
  BY Zenon DEF Heard
<1>2. CASE mutex = NoOne
  BY <1>1, <1>2, AtRest, AtRestNext, Zenon
<1>3. CASE mutex # NoOne
  BY <1>1, <1>3, Zenon DEF InFlight, Remaining, Audience
<1> QED
  BY <1>2, <1>3

\* Drawing a number.
LEMMA DrawBroadcast ==
    ASSUME BInv, NEW p \in Publishers, NextSequence(p)
    PROVE  UNCHANGED B!vars
<1>1. /\ job[p] = NoJob /\ UNCHANGED <<topics, mutex, queue>>
      /\ \A x \in Publishers : x # p => job'[x] = job[x]
  <2>1. PubT
    BY Parts, Zenon DEF BInv, RInv, TInv
  <2>2. job' = [job EXCEPT ![p].item = Coming]
    BY Zenon DEF NextSequence, Coming
  <2>3. \A x \in Publishers : x # p => job'[x] = job[x]
    BY <2>1, <2>2, Zenon DEF PubT
  <2> QED
    BY <2>3, Zenon DEF NextSequence
<1>2. NoJob.entry = 0
  BY DEF NoJob
<1>3. mutex # NoOne => job'[mutex] = job[mutex]
  BY <1>1, <1>2, Zenon DEF BInv, Locked
<1> QED
  BY <1>1, <1>3, SameFanOut, Zenon DEF B!vars

\* Whom the entry returned lists: the listeners of the name.
LEMMA EntryHeard ==
    ASSUME NEW reg, Fits(reg, Queues), Exact(reg), NEW name \in Names,
           FindOrCreateTopic(reg, name) # 0
    PROVE  From(WithTopic(reg, name)[FindOrCreateTopic(reg, name)].subscribers, 1)
              = Listeners(reg, name)
<1> DEFINE e == FindOrCreateTopic(reg, name)
           new == WithTopic(reg, name)
<1>1. CASE FindTopic(reg, name) # 0
  <2>1. e = FindTopic(reg, name) /\ new = reg
    BY <1>1, Zenon DEF FindOrCreateTopic, WithTopic
  <2>2. DOMAIN reg \subseteq Nat
    BY DEF Fits
  <2>3. e \in DOMAIN reg
    BY <1>1, <2>1, <2>2, FirstMatch, Zenon
  <2> DEFINE subs == reg[e].subscribers
  <2>4. subs \in Seq(Queues)
    BY <2>3, EntryType, Zenon
  <2>5. DOMAIN subs = 1 .. Len(subs) /\ \A i \in DOMAIN subs : subs[i] \in Queues
    <3> HIDE DEF subs
    <3> QED
      BY <2>4
  <2>6. \A q : q \in Listeners(reg, name) <=> q \in Queues /\ Holds(subs, q)
    BY <1>1, <2>1, Zenon DEF Listeners, Subscribed, Holds
  <2> HIDE DEF subs
  <2>7. From(subs, 1) = Listeners(reg, name)
    BY <2>5, <2>6, Zenon DEF From, Holds
  <2> QED
    BY <2>1, <2>7, Zenon DEF subs
<1>2. CASE FindTopic(reg, name) = 0
  <2>1. Listeners(reg, name) = {}
    BY <1>2, Zenon DEF Listeners
  <2>2. e = Len(reg) + 1 /\ Len(reg) < PUBSUB_MAX_TOPICS
    BY <1>2 DEF FindOrCreateTopic
  <2>3. e \in DOMAIN new /\ Fits(new, Queues)
    BY Returned, Grows, Zenon
  <2>4. Len(reg) \in Nat /\ DOMAIN new = 1 .. Len(new)
    BY <2>3 DEF Fits
  <2>5. e > Len(reg) /\ e \in 1 .. Len(new)
    <3> HIDE DEF e, new
    <3> QED
      BY <2>2, <2>3, <2>4
  <2>6. new[e].subscribers = <<>>
    <3>1. \A i \in 1 .. Len(new) : i > Len(reg) => new[i].subscribers = <<>>
      BY Grows, SMTT(20)
    <3> QED
      BY <2>5, <3>1, Zenon
  <2>7. From(<<>>, 1) = {}
    BY DEF From
  <2> QED
    BY <2>1, <2>6, <2>7, Zenon
<1> QED
  BY <1>1, <1>2, Zenon

\* Entering the fan-out is the abstract publish; a full registry is invisible.
LEMMA BeginBroadcast ==
    ASSUME BInv, NEW p \in Publishers, NEW name \in Names, PublishBegin(p, name)
    PROVE  B!Next \/ UNCHANGED B!vars
<1> DEFINE e == FindOrCreateTopic(topics, name)
           r == [job[p] EXCEPT !.entry = e, !.next = 1]
<1>1. /\ job[p] # NoJob /\ mutex = NoOne /\ topics' = WithTopic(topics, name)
      /\ queue' = queue
      /\ e = 0 => mutex' = mutex
      /\ e # 0 => job' = [job EXCEPT ![p] = r] /\ mutex' = p
  BY Zenon DEF PublishBegin, MutexFree
<1>2. Fits(topics, Queues) /\ Exact(topics) /\ PubT /\ job[p] \in Jobs
  BY Parts, Zenon DEF BInv, RInv, TInv, PubT
<1>3. Heard' = Heard
  BY <1>1, <1>2, GrowsExact, SameHeard, Zenon
<1>4. InFlight = 0 /\ Remaining = {}
  BY <1>1, AtRest, Zenon
<1>5. CASE e = 0
  <2>1. InFlight' = 0 /\ Remaining' = {}
    BY <1>1, <1>5, AtRestNext, Zenon
  <2> QED
    BY <1>1, <1>3, <1>4, <2>1, Zenon DEF B!vars
<1>6. CASE e # 0
  <2>1. r.entry = e /\ r.next = 1 /\ r.item = job[p].item
    BY <1>2, Zenon DEF Jobs
  <2>2. job'[p] = r
    BY <1>1, <1>2, <1>6, Zenon DEF PubT
  <2>3. InFlight' = job[p].item /\ Remaining' = From(topics'[e].subscribers, 1)
    BY <1>1, <1>6, <2>1, <2>2, BusyNext, Zenon
  <2>4. Remaining' = Heard[name]
    BY <1>1, <1>2, <1>6, <2>3, EntryHeard, HeardIs, Zenon
  <2>5. job[p].item # 0
    BY <1>1, Zenon DEF BInv, RInv, TInv, Fanning, JobOK
  <2>6. job[p].item \in Messages
    BY <1>2, <2>5 DEF Jobs, Messages
  <2>7. B!Publish(job[p].item, name)
    BY <1>1, <1>3, <1>4, <2>3, <2>4, Zenon DEF B!Publish
  <2> QED
    BY <2>6, <2>7, Zenon DEF B!Next
<1> QED
  BY <1>5, <1>6, Zenon

\* One turn of the loop takes one queue off the rest.
LEMMA FromNext ==
    ASSUME NEW T, NEW s \in Seq(T), Distinct(s), NEW k \in DOMAIN s
    PROVE  s[k] \in From(s, k) /\ From(s, k + 1) = From(s, k) \ {s[k]}
<1>1. DOMAIN s = 1 .. Len(s) /\ Len(s) \in Nat /\ k \in 1 .. Len(s)
  OBVIOUS
<1>2. k \in k .. Len(s)
  BY <1>1
<1>3. \A i : i \in k + 1 .. Len(s) <=> i \in k .. Len(s) /\ i # k
  BY <1>1
<1>4. \A i \in k .. Len(s) : i \in DOMAIN s
  BY <1>1
<1>5. \A i \in k .. Len(s) : i # k => s[i] # s[k]
  BY <1>4, Zenon DEF Distinct
<1>6. ASSUME NEW x PROVE x \in From(s, k + 1) <=> x \in From(s, k) \ {s[k]}
  BY <1>2, <1>3, <1>5, Zenon DEF From
<1> QED
  BY <1>2, <1>6, Zenon DEF From

LEMMA TurnBroadcast ==
    ASSUME BInv, NEW p \in Publishers, PublishOutOfMemory(p) \/ PublishOne(p)
    PROVE  B!Next
<1> DEFINE subs == Audience(p)
           q == Target(p)
<1>1. InFanOut(p) /\ Advance(p) /\ UNCHANGED <<topics, mutex, next_seq, seq>>
  BY Zenon DEF PublishOutOfMemory, PublishOne
<1>2. TInv /\ Fits(topics, Queues) /\ Exact(topics) /\ PubT
  BY Parts, Zenon DEF BInv, RInv, TInv
<1>3. /\ job[p].entry \in DOMAIN topics /\ job[p].next \in DOMAIN subs
      /\ q \in Queues
  BY <1>1, <1>2, Aimed, Zenon
<1>4. subs \in Seq(Queues) /\ Distinct(subs)
  BY <1>2, <1>3, EntryType, Zenon DEF Audience, Exact
<1>5. mutex = p
  BY <1>1, <1>2, OneInside, Zenon DEF InFanOut
<1>6. /\ job'[p].item = job[p].item /\ job'[p].entry = job[p].entry
      /\ job'[p].next = job[p].next + 1
  <2>1. job'[p] = [job[p] EXCEPT !.next = @ + 1, !.offered = @ \cup {q}]
    BY <1>1, <1>2, Zenon DEF Advance, PubT
  <2>2. job[p] \in Jobs
    BY <1>2, Zenon DEF PubT
  <2> DEFINE r == [job[p] EXCEPT !.next = @ + 1, !.offered = @ \cup {q}]
  <2>3. r.item = job[p].item /\ r.entry = job[p].entry /\ r.next = job[p].next + 1
    BY <1>3, <2>2, JobNext, Zenon
  <2> HIDE DEF r
  <2>4. job'[p] = r
    BY <2>1, Zenon DEF r
  <2> QED
    BY <2>3, <2>4, Zenon
<1>7. /\ InFlight = job[p].item /\ Remaining = From(subs, job[p].next)
      /\ InFlight' = job[p].item /\ Remaining' = From(subs, job[p].next + 1)
  <2>1. InFlight = job[p].item /\ Remaining = From(subs, job[p].next)
    BY <1>5, Busy, Zenon
  <2>2. mutex' = p /\ topics' = topics
    BY <1>1, <1>5, Zenon
  <2>3. /\ InFlight' = job'[p].item
        /\ Remaining' = From(topics'[job'[p].entry].subscribers, job'[p].next)
    BY <2>2, BusyNext, Zenon
  <2> QED
    BY <1>6, <2>1, <2>2, <2>3, Zenon DEF Audience
<1>8. q = subs[job[p].next]
  BY Zenon DEF Target
<1> HIDE DEF subs, q
<1>9. q \in Remaining /\ Remaining' = Remaining \ {q}
  BY <1>3, <1>4, <1>7, <1>8, FromNext, Zenon
<1>10. Heard' = Heard
  BY <1>1, Zenon DEF Heard
<1>11. \/ queue' = queue
       \/ /\ Len(queue[q]) < Capacity
          /\ queue' = [queue EXCEPT ![q] = Append(queue[q], job[p].item)]
  BY Zenon DEF PublishOutOfMemory, PublishOne, Deliver, DropClone, q
<1>12. B!Offer(q)
  BY <1>7, <1>9, <1>10, <1>11, Zenon DEF B!Offer
<1> QED
  BY <1>9, <1>12, Zenon DEF B!Next

\* Leaving the fan-out.
LEMMA EndBroadcast ==
    ASSUME BInv, NEW p \in Publishers, PublishEnd(p)
    PROVE  B!Next
<1>1. /\ Publishing(p) /\ job[p].next > Len(Audience(p)) /\ mutex' = NoOne
      /\ UNCHANGED <<topics, queue>>
  BY Zenon DEF PublishEnd
<1>2. TInv /\ Fits(topics, Queues) /\ job[p] \in Jobs
  BY Parts, Zenon DEF BInv, RInv, TInv, PubT
<1>3. mutex = p /\ job[p].entry \in DOMAIN topics
  BY <1>1, <1>2, Zenon DEF TInv, Fanning, JobOK, Publishing
<1>4. Len(Audience(p)) \in Nat /\ job[p].next \in Nat
  BY <1>2, <1>3, EntryType, Zenon DEF Audience, Jobs
<1>5. From(Audience(p), job[p].next) = {}
  <2>1. job[p].next .. Len(Audience(p)) = {}
    BY <1>1, <1>4
  <2> QED
    BY <2>1, Zenon DEF From
<1>6. job[p].item # 0
  <2>1. NoJob.entry = 0
    BY DEF NoJob
  <2> QED
    BY <1>1, <1>2, <2>1, Zenon DEF TInv, Fanning, JobOK, Publishing
<1>7. InFlight # 0 /\ Remaining = {} /\ InFlight' = 0 /\ Remaining' = {}
  BY <1>1, <1>3, <1>5, <1>6, Busy, AtRestNext, Zenon
<1>8. Heard' = Heard
  BY <1>1, Zenon DEF Heard
<1> QED
  BY <1>1, <1>7, <1>8, Zenon DEF B!Next, B!Published

\* A subscribe that succeeds is a join, one that fails is invisible; an
\* unsubscribe is a leave.
LEMMA RegistryBroadcast ==
    ASSUME BInv, NEW s \in Sessions, NEW t \in Topics, NEW there,
           SubscribeTo(s, t, there) \/ UnsubscribeFrom(s, t, there)
    PROVE  B!Next \/ UNCHANGED B!vars
<1> DEFINE q == <<s, t>>
<1>0. Fits(topics, Queues) /\ Exact(topics)
  BY Parts, Zenon DEF BInv, RInv, TInv
<1>1. UNCHANGED <<mutex, job, queue>>
  BY Zenon DEF SubscribeTo, UnsubscribeFrom, pub
<1>2. t \in Names \ LongNames /\ q \in Queues
  BY TopicNames, Zenon
<1>3. CASE topics' = topics
  BY <1>1, <1>3, SameFanOut, Zenon DEF B!vars
<1>4. CASE mutex = NoOne /\ Heard' = Heard
  BY <1>1, <1>4, AtRest, AtRestNext, Zenon DEF B!vars
<1>5. CASE mutex = NoOne /\ topics' = AfterSubscribe(topics, t, q)
  <2>1. /\ \A n, x : n # t \/ x # q => (Lists(topics', n, x) <=> Lists(topics, n, x))
        /\ Lists(topics, t, q) => Lists(topics', t, q)
    BY <1>0, <1>2, <1>5, SubscribeExact, Zenon
  <2>2. CASE Lists(topics', t, q)
    <3> HIDE DEF q
    <3>1. \A x : x \in Heard[t] \cup {q} <=> x \in Queues /\ Lists(topics', t, x)
      <4>1. \A x : x \in Heard[t] <=> x \in Queues /\ Lists(topics, t, x)
        BY <1>2, HeardIs, Zenon
      <4>2. \A x : x # q => (Lists(topics', t, x) <=> Lists(topics, t, x))
        BY <2>1, Zenon
      <4> QED
        BY <1>2, <2>2, <4>1, <4>2, Zenon
    <3>2. Heard' = [Heard EXCEPT ![t] = Heard[t] \cup {q}]
      BY <1>2, <2>1, <3>1, ChangedHeard, Zenon
    <3>3. B!Join(q, t)
      BY <1>1, <1>5, <3>2, AtRest, AtRestNext, Zenon DEF B!Join
    <3> QED
      BY <1>2, <3>3, Zenon DEF B!Next
  <2>3. CASE ~Lists(topics', t, q)
    <3>1. \A n, x : Lists(topics', n, x) <=> Lists(topics, n, x)
      <4> HIDE DEF q
      <4> QED
        BY <2>1, <2>3, Zenon
    <3> QED
      BY <1>4, <1>5, <3>1, SameHeard, Zenon
  <2> QED
    BY <2>2, <2>3, Zenon
<1>6. CASE mutex = NoOne /\ topics' = AfterUnsubscribe(topics, t, q)
  <2> HIDE DEF q
  <2>1. \A n, x : Lists(topics', n, x) <=> Lists(topics, n, x) /\ (n # t \/ x # q)
    BY <1>0, <1>6, UnsubscribeExact, Zenon
  <2>2. \A x : x \in Heard[t] \ {q} <=> x \in Queues /\ Lists(topics', t, x)
    <3>1. \A x : x \in Heard[t] <=> x \in Queues /\ Lists(topics, t, x)
      BY <1>2, HeardIs, Zenon
    <3>2. \A x : Lists(topics', t, x) <=> Lists(topics, t, x) /\ x # q
      BY <2>1, Zenon
    <3> QED
      BY <3>1, <3>2, Zenon
  <2>3. Heard' = [Heard EXCEPT ![t] = Heard[t] \ {q}]
    BY <1>2, <2>1, <2>2, ChangedHeard, Zenon
  <2>4. B!Leave(q, t)
    BY <1>1, <1>6, <2>3, AtRest, AtRestNext, Zenon DEF B!Leave
  <2> QED
    BY <1>2, <2>4, Zenon DEF B!Next
<1> QED
  BY <1>3, <1>5, <1>6, Zenon DEF SubscribeTo, UnsubscribeFrom, MutexFree

\* serve_client's loop: a dequeue is a receive.
LEMMA ServeBroadcast ==
    ASSUME BInv, NEW s \in Sessions,
           \/ CreateQueues(s) \/ ServeTelemetry(s) \/ ServeAlerts(s) \/ ServeFree(s)
           \/ StopServing(s)
    PROVE  B!Next \/ UNCHANGED B!vars
<1>1. UNCHANGED <<topics, mutex, job>>
  BY Zenon DEF CreateQueues, ServeTelemetry, ServeAlerts, ServeFree, StopServing, pub
<1>2. Heard' = Heard /\ InFlight' = InFlight /\ Remaining' = Remaining
  BY <1>1, SameFanOut, Zenon
<1>3. ASSUME NEW t \in Topics, Take(s, <<s, t>>) PROVE B!Next
  <2>1. <<s, t>> \in Queues
    BY TopicNames, Zenon
  <2>2. B!Receive(<<s, t>>)
    BY <1>2, <1>3, Zenon DEF Take, B!Receive
  <2> QED
    BY <2>1, <2>2, Zenon DEF B!Next
<1>4. CASE queue' = queue
  BY <1>2, <1>4, Zenon DEF B!vars
<1>5. TOPIC_TELEMETRY \in Topics /\ TOPIC_ALERTS \in Topics
  BY Zenon DEF Topics
<1> QED
  BY <1>3, <1>4, <1>5, Zenon
  DEF CreateQueues, ServeTelemetry, ServeAlerts, ServeFree, StopServing

\* Every queue a fan-out has yet to come to listens to some stored name.
LEMMA RemainingListed ==
    ASSUME BInv, NEW q \in Remaining
    PROVE  \E n : Lists(topics, n, q)
<1> DEFINE p == mutex
           e == job[p].entry
<1>1. mutex # NoOne /\ p \in Publishers /\ e # 0
  BY Zenon DEF Remaining, BInv, Locked
<1>2. TInv /\ Fits(topics, Queues) /\ Exact(topics) /\ job[p] \in Jobs
  BY <1>1, Parts, Zenon DEF BInv, RInv, TInv, PubT
<1>3. e \in DOMAIN topics /\ job[p].next \in 1 .. Len(topics[e].subscribers) + 1
  BY <1>1, <1>2, Zenon DEF TInv, Fanning, JobOK
<1> DEFINE subs == topics[e].subscribers
<1>4. subs \in Seq(Queues)
  BY <1>2, <1>3, EntryType, Zenon
<1>5. PICK i \in job[p].next .. Len(subs) : q = subs[i]
  BY <1>1, Zenon DEF Remaining, Audience
<1>6. i \in DOMAIN subs /\ subs # <<>>
  <2>1. job[p].next \in 1 .. Len(subs) + 1
    BY <1>3
  <2> HIDE DEF subs, e, p
  <2> QED
    BY <1>4, <1>5, <2>1
<1>7. FindTopic(topics, topics[e].name) = e
  BY <1>2, <1>3, <1>6, Zenon DEF Exact
<1>8. Lists(topics, topics[e].name, q)
  BY <1>1, <1>5, <1>6, <1>7, Zenon DEF Lists, Subscribed
<1> QED
  BY <1>8, Zenon

\* Destroying a session's queues: nothing listens or waits there any more.
LEMMA DestroyBroadcast ==
    ASSUME BInv, NEW s \in Sessions, DestroyQueues(s)
    PROVE  B!Next
<1> DEFINE Q == {s} \X Topics
<1>1. /\ at[s] = "destroy" /\ UNCHANGED <<topics, mutex, job>>
      /\ queue' = [q \in Queues |-> IF q[1] = s THEN <<>> ELSE queue[q]]
  BY Zenon DEF DestroyQueues, pub
<1>2. Heard' = Heard /\ InFlight' = InFlight /\ Remaining' = Remaining
  BY <1>1, SameFanOut, Zenon
<1>3. subscribed[s] = {}
  BY <1>1, Zenon DEF BInv, RInv, Registered, Stage
<1>4. ASSUME NEW q \in Q, NEW n PROVE ~Lists(topics, n, q)
  <2>1. PICK t \in Topics : q = <<s, t>>
    OBVIOUS
  <2>2. ~Owns(n, q)
    BY <1>3, <2>1, Pair, Zenon DEF Owns
  <2> QED
    BY <2>2, Zenon DEF BInv, RInv, Registered
<1>5. Q \in SUBSET Queues /\ \A q \in Queues : q \in Q <=> q[1] = s
  BY DEF Queues
<1> HIDE DEF Q
<1>6. queue' = [q \in Queues |-> IF q \in Q THEN <<>> ELSE queue[q]]
  BY <1>1, <1>5, Zenon
<1>7. Remaining \cap Q = {}
  BY <1>4, RemainingListed, Zenon
<1>8. \A n \in Names : Heard[n] \cap Q = {}
  BY <1>4, HeardIs, Zenon
<1>9. B!Discard(Q)
  BY <1>2, <1>6, <1>7, <1>8, Zenon DEF B!Discard
<1> QED
  BY <1>5, <1>9, Zenon DEF B!Next

\* Every step of the program is a step of the broadcast, or invisible.
LEMMA NextBroadcast == BInv /\ [Next]_vars => [B!Next]_B!vars
<1> SUFFICES ASSUME BInv, [Next]_vars PROVE B!Next \/ UNCHANGED B!vars
  BY Zenon
<1>1. CASE UNCHANGED vars
  <2>1. UNCHANGED <<topics, mutex, job, queue>>
    BY <1>1, Zenon DEF vars
  <2> QED
    BY <2>1, SameFanOut, Zenon DEF B!vars
<1>2. ASSUME NEW p \in Publishers, Publisher(p) PROVE B!Next \/ UNCHANGED B!vars
  BY <1>2, DrawBroadcast, BeginBroadcast, TurnBroadcast, EndBroadcast, Zenon
  DEF Publisher
<1>3. ASSUME NEW s \in Sessions, Session(s) PROVE B!Next \/ UNCHANGED B!vars
  <2>1. TOPIC_TELEMETRY \in Topics /\ TOPIC_ALERTS \in Topics
    BY Zenon DEF Topics
  <2>2. CASE \/ SubscribeTelemetry(s) \/ SubscribeAlerts(s)
             \/ UnsubscribeTelemetry(s) \/ UnsubscribeAlerts(s)
    BY <2>1, <2>2, RegistryBroadcast, Zenon
    DEF SubscribeTelemetry, SubscribeAlerts, UnsubscribeTelemetry, UnsubscribeAlerts
  <2> QED
    BY <1>3, <2>2, ServeBroadcast, DestroyBroadcast, Zenon DEF Session
<1> QED
  BY <1>1, <1>2, <1>3, Zenon DEF Next

\* The holder of the mutex stays inside pubsub_publish until it unlocks.
LEMMA LockedNext == BInv /\ [Next]_vars => BInv'
<1> SUFFICES ASSUME BInv, [Next]_vars PROVE Locked'
  BY RegisteredNext, Zenon DEF BInv
<1>0. PubT /\ Fits(topics, Queues) /\ Exact(topics)
  BY Parts, Zenon DEF BInv, RInv, TInv
<1>1. CASE UNCHANGED <<mutex, job>>
  BY <1>1, Zenon DEF BInv, Locked
<1>2. ASSUME NEW p \in Publishers, Publisher(p) PROVE Locked'
  <2>1. CASE NextSequence(p)
    <3>1. job' = [job EXCEPT ![p] = [job[p] EXCEPT !.item = Coming]] /\ mutex' = mutex
      BY <2>1, Zenon DEF NextSequence, Coming
    <3>2. [job[p] EXCEPT !.item = Coming].entry = job[p].entry
      BY <1>0, Zenon DEF PubT, Jobs
    <3> QED
      BY <1>0, <3>1, <3>2, Zenon DEF PubT, BInv, Locked
  <2>2. ASSUME NEW name \in Names, PublishBegin(p, name) PROVE Locked'
    <3> DEFINE e == FindOrCreateTopic(topics, name)
               r == [job[p] EXCEPT !.entry = e, !.next = 1]
    <3>1. /\ mutex = NoOne
          /\ e = 0 => mutex' = mutex
          /\ e # 0 => job' = [job EXCEPT ![p] = r] /\ mutex' = p
      BY <2>2, Zenon DEF PublishBegin, MutexFree
    <3>2. r.entry = e
      BY <1>0, Zenon DEF PubT, Jobs
    <3> QED
      BY <1>0, <3>1, <3>2, Zenon DEF PubT, Locked
  <2>3. CASE PublishOutOfMemory(p) \/ PublishOne(p)
    <3>1. InFanOut(p) /\ Advance(p) /\ UNCHANGED <<topics, mutex, next_seq, seq>>
      BY <2>3, Zenon DEF PublishOutOfMemory, PublishOne
    <3>2. /\ job'[p].entry = job[p].entry
          /\ \A x \in Publishers : x # p => job'[x] = job[x]
      BY <3>1, Looped, Zenon DEF BInv, RInv
    <3> QED
      BY <3>1, <3>2, Zenon DEF BInv, Locked
  <2>4. CASE PublishEnd(p)
    BY <2>4, Zenon DEF PublishEnd, Locked
  <2> QED
    BY <1>2, <2>1, <2>2, <2>3, <2>4, Zenon DEF Publisher
<1>3. ASSUME NEW s \in Sessions, Session(s) PROVE UNCHANGED <<mutex, job>>
  BY <1>3, Zenon DEF Session, CreateQueues, SubscribeTelemetry, SubscribeAlerts,
     SubscribeTo, ServeTelemetry, ServeAlerts, ServeFree, StopServing,
     UnsubscribeTelemetry, UnsubscribeAlerts, UnsubscribeFrom, DestroyQueues, pub
<1> QED
  BY <1>1, <1>2, <1>3, Zenon DEF Next, vars

LEMMA InitBroadcast == Init => BInv /\ B!Init
<1> SUFFICES ASSUME Init PROVE Locked /\ B!Init
  BY RegisteredInit, Zenon DEF BInv
<1>1. topics = <<>> /\ mutex = NoOne /\ queue = [q \in Queues |-> <<>>]
  BY Zenon DEF Init
<1>2. DOMAIN topics = {}
  BY <1>1
<1>3. \A n : FindTopic(topics, n) = 0
  BY <1>2, Zenon DEF FindTopic, Matching
<1>4. Heard = [n \in Names |-> {}]
  BY <1>3, Zenon DEF Heard, Listeners
<1> QED
  BY <1>1, <1>4, AtRest, Zenon DEF Locked, B!Init

\* pubsub.c implements the broadcast that pubsub.h:18-39 describes, for every
\* number of workers, sessions, topics and subscribers.
THEOREM PubSubBroadcasts == Spec => ImplementsBroadcast
<1> QED
  BY InitBroadcast, LockedNext, NextBroadcast, PTL
  DEF Spec, B!Spec, ImplementsBroadcast
=============================================================================
