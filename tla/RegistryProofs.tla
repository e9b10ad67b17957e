--------------------------- MODULE RegistryProofs ---------------------------
(***************************************************************************)
(* What the operations of pubsub.c do to the topic registry, for every     *)
(* registry, any set S of queues and all limits.                           *)
(***************************************************************************)
EXTENDS Registry, WellFoundedInduction, TLAPS

USE LimitsAssumption

Stored == {Cut[n] : n \in Names}
Entries(S) == [name : Stored, subscribers : Seq(S)]

\* A registry within the array bounds of pubsub.c:8-18.
Fits(reg, S) ==
    /\ reg \in Seq(Entries(S))
    /\ Len(reg) <= PUBSUB_MAX_TOPICS
    /\ \A i \in DOMAIN reg :
          Len(reg[i].subscribers) <= PUBSUB_MAX_SUBSCRIBERS_PER_TOPIC

\* q is in the entry that a lookup of name finds.
Lists(reg, name, q) ==
    FindTopic(reg, name) # 0 /\ Subscribed(reg[FindTopic(reg, name)], q)

Holds(subs, q) == \E j \in DOMAIN subs : subs[j] = q
Distinct(subs) == \A j, k \in DOMAIN subs : j # k => subs[j] # subs[k]

\* No entry lists a queue twice, and none that a lookup skips lists any.
Exact(reg) ==
    \A i \in DOMAIN reg :
        /\ Distinct(reg[i].subscribers)
        /\ reg[i].subscribers # <<>> => FindTopic(reg, reg[i].name) = i

\* An entry of a registry.
LEMMA EntryType ==
    ASSUME NEW S, NEW reg, Fits(reg, S), NEW e \in DOMAIN reg
    PROVE  /\ e \in Nat /\ reg[e] \in Entries(S) /\ reg[e].subscribers \in Seq(S)
           /\ Len(reg[e].subscribers) \in Nat
<1>1. reg[e] \in Entries(S) /\ e \in Nat
  BY DEF Fits
<1>2. reg[e].subscribers \in Seq(S)
  BY <1>1 DEF Entries
<1> QED
  BY <1>1, <1>2

-----------------------------------------------------------------------------
(* Lookup                                                                  *)

\* A set of numbers that is not empty has a least element.
LEMMA Least ==
    ASSUME NEW T, T \subseteq Nat, T # {}
    PROVE  \E x \in T : \A y \in T : x <= y
<1> DEFINE R == OpToRel(<, Nat)
<1>1. IsWellFoundedOn(R, Nat)
  BY NatLessThanWellFounded, Zenon
<1>2. \A x, y \in Nat : <<y, x>> \notin R => x <= y
  BY DEF OpToRel
<1> HIDE DEF R
<1>3. \E x \in T : \A y \in T : ~ (<<y, x>> \in R)
  BY <1>1, WFMin, Zenon
<1> QED
  BY <1>2, <1>3, Zenon

\* find_topic (pubsub.c:21-29) returns the first entry stored under the name.
LEMMA FirstMatch ==
    ASSUME NEW reg, DOMAIN reg \subseteq Nat, NEW n
    PROVE  \/ /\ FindTopic(reg, n) = 0
              /\ \A i \in DOMAIN reg : reg[i].name # n
           \/ /\ FindTopic(reg, n) \in DOMAIN reg
              /\ reg[FindTopic(reg, n)].name = n
              /\ \A j \in DOMAIN reg : reg[j].name = n => FindTopic(reg, n) <= j
<1>1. CASE Matching(reg, n) = {}
  BY <1>1, Zenon DEF FindTopic, Matching
<1>2. CASE Matching(reg, n) # {}
  <2> DEFINE M == Matching(reg, n)
  <2>1. M \subseteq Nat
    BY Zenon DEF Matching
  <2>2. FindTopic(reg, n) = CHOOSE i \in M : \A j \in M : i <= j
    BY <1>2, Zenon DEF FindTopic
  <2> HIDE DEF M
  <2>3. \E i \in M : \A j \in M : i <= j
    BY <1>2, <2>1, Least, Zenon DEF M
  <2>4. FindTopic(reg, n) \in M /\ \A j \in M : FindTopic(reg, n) <= j
    BY <2>2, <2>3, Zenon
  <2> QED
    BY <2>4, Zenon DEF M, Matching
<1> QED
  BY <1>1, <1>2, Zenon

\* Two registries with the same names have the same lookups.
LEMMA SameNames ==
    ASSUME NEW reg, NEW new, NEW n, DOMAIN reg \subseteq Nat, DOMAIN new = DOMAIN reg,
           \A i \in DOMAIN reg : new[i].name = reg[i].name
    PROVE  FindTopic(new, n) = FindTopic(reg, n)
BY FirstMatch

-----------------------------------------------------------------------------
(* find_or_create_topic                                                    *)

\* Old entries stay where they are, and a new one lists nobody.
LEMMA Grows ==
    ASSUME NEW S, NEW reg, Fits(reg, S), NEW name \in Names
    PROVE  /\ Fits(WithTopic(reg, name), S)
           /\ Len(reg) <= Len(WithTopic(reg, name))
           /\ \A i \in 1 .. Len(reg) : WithTopic(reg, name)[i] = reg[i]
           /\ \A i \in 1 .. Len(WithTopic(reg, name)) : i > Len(reg) =>
                 /\ WithTopic(reg, name)[i].subscribers = <<>>
                 /\ WithTopic(reg, name)[i].name = Cut[name]
                 /\ FindTopic(reg, name) = 0
<1> DEFINE E == [name |-> Cut[name], subscribers |-> <<>>]
<1>1. E \in Entries(S)
  BY DEF Entries, Stored
<1>2. CASE WithTopic(reg, name) = reg
  BY <1>2 DEF Fits
<1>3. CASE /\ WithTopic(reg, name) = Append(reg, E) /\ Len(reg) < PUBSUB_MAX_TOPICS
           /\ FindTopic(reg, name) = 0
  <2>1. E.subscribers = <<>> /\ E.name = Cut[name]
    OBVIOUS
  <2> DEFINE new == Append(reg, E)
  <2> HIDE DEF E
  <2>2. reg \in Seq(Entries(S)) /\ Len(reg) \in Nat
    BY DEF Fits
  <2>3. /\ new \in Seq(Entries(S)) /\ Len(new) = Len(reg) + 1
        /\ \A i \in 1 .. Len(reg) : new[i] = reg[i]
        /\ new[Len(reg) + 1] = E
        /\ DOMAIN new = 1 .. Len(reg) + 1 /\ DOMAIN reg = 1 .. Len(reg)
    BY <1>1, <2>2
  <2> HIDE DEF new
  <2>4. Len(<<>>) = 0
    OBVIOUS
  <2>5. \A i \in 1 .. Len(reg) + 1 : i \in 1 .. Len(reg) \/ i = Len(reg) + 1
    BY <2>2
  <2>6. \A i \in DOMAIN new :
            Len(new[i].subscribers) <= PUBSUB_MAX_SUBSCRIBERS_PER_TOPIC
    BY <2>1, <2>3, <2>4, <2>5 DEF Fits
  <2>7. Fits(new, S)
    BY <1>3, <2>2, <2>3, <2>6 DEF Fits
  <2> QED
    BY <1>3, <2>1, <2>2, <2>3, <2>7 DEF new
<1> QED
  BY <1>2, <1>3, Zenon DEF WithTopic

\* The entry returned is the one a later lookup finds, for a name that is not
\* cut short.
LEMMA Returned ==
    ASSUME NEW S, NEW reg, Fits(reg, S), NEW name \in Names
    PROVE  /\ FindOrCreateTopic(reg, name) # 0 =>
                FindOrCreateTopic(reg, name) \in DOMAIN WithTopic(reg, name)
           /\ name \notin LongNames /\ FindOrCreateTopic(reg, name) # 0 =>
                FindOrCreateTopic(reg, name) = FindTopic(WithTopic(reg, name), name)
<1> DEFINE e == FindOrCreateTopic(reg, name)
           new == WithTopic(reg, name)
<1>1. /\ reg \in Seq(Entries(S)) /\ Len(reg) \in Nat /\ DOMAIN reg = 1 .. Len(reg)
  BY DEF Fits
<1>2. CASE FindTopic(reg, name) # 0
  BY <1>1, <1>2, FirstMatch DEF FindOrCreateTopic, WithTopic
<1>3. CASE FindTopic(reg, name) = 0 /\ Len(reg) < PUBSUB_MAX_TOPICS
  <2> DEFINE E == [name |-> Cut[name], subscribers |-> <<>>]
  <2>1. e = Len(reg) + 1 /\ new = Append(reg, E)
    BY <1>3 DEF FindOrCreateTopic, WithTopic
  <2>2. E \in Entries(S) /\ E.name = Cut[name]
    BY DEF Entries, Stored
  <2> HIDE DEF E
  <2>3. /\ DOMAIN new = 1 .. Len(reg) + 1 /\ new[Len(reg) + 1].name = Cut[name]
        /\ \A i \in 1 .. Len(reg) : new[i] = reg[i]
    BY <1>1, <2>1, <2>2
  <2> HIDE DEF new, e
  <2>4. \A i \in 1 .. Len(reg) : reg[i].name # name
    BY <1>1, <1>3, FirstMatch
  <2>5. name \notin LongNames => Cut[name] = name
    BY NamesAssumption
  <2>6. DOMAIN new \subseteq Nat
    BY <1>1, <2>3
  <2>7. name \notin LongNames => FindTopic(new, name) = Len(reg) + 1
    BY <1>1, <2>3, <2>4, <2>5, <2>6, FirstMatch
  <2> QED
    BY <1>1, <2>1, <2>3, <2>7 DEF e, new
<1>4. CASE FindTopic(reg, name) = 0 /\ ~(Len(reg) < PUBSUB_MAX_TOPICS)
  BY <1>4 DEF FindOrCreateTopic
<1> QED
  BY <1>2, <1>3, <1>4, Zenon

\* Creating a topic changes nobody's subscriptions.
LEMMA GrowsExact ==
    ASSUME NEW S, NEW reg, Fits(reg, S), Exact(reg), NEW name \in Names
    PROVE  /\ Exact(WithTopic(reg, name))
           /\ \A n, q : Lists(WithTopic(reg, name), n, q) <=> Lists(reg, n, q)
<1> DEFINE new == WithTopic(reg, name)
<1>1. /\ Len(reg) \in Nat /\ DOMAIN reg = 1 .. Len(reg) /\ DOMAIN reg \subseteq Nat
  BY DEF Fits
<1>2. /\ Fits(new, S) /\ Len(reg) <= Len(new)
      /\ \A i \in 1 .. Len(reg) : new[i] = reg[i]
      /\ \A i \in 1 .. Len(new) : i > Len(reg) => new[i].subscribers = <<>>
  BY Grows
<1> HIDE DEF new
<1>3. /\ Len(new) \in Nat /\ DOMAIN new = 1 .. Len(new) /\ DOMAIN new \subseteq Nat
  BY <1>2 DEF Fits
<1>4. \A n : FindTopic(reg, n) # 0 =>
         FindTopic(new, n) = FindTopic(reg, n) /\ FindTopic(reg, n) \in DOMAIN reg
  <2> TAKE n
  <2> HAVE FindTopic(reg, n) # 0
  <2>1. /\ FindTopic(reg, n) \in 1 .. Len(reg) /\ reg[FindTopic(reg, n)].name = n
        /\ \A j \in 1 .. Len(reg) : reg[j].name = n => FindTopic(reg, n) <= j
    BY <1>1, FirstMatch
  <2>2. new[FindTopic(reg, n)].name = n /\ FindTopic(reg, n) \in 1 .. Len(new)
    BY <1>1, <1>2, <1>3, <2>1
  <2>3. /\ FindTopic(new, n) \in 1 .. Len(new) /\ new[FindTopic(new, n)].name = n
        /\ FindTopic(new, n) <= FindTopic(reg, n)
    BY <1>3, <2>2, FirstMatch
  <2>4. FindTopic(new, n) \in 1 .. Len(reg)
    BY <1>1, <1>3, <2>1, <2>3
  <2> QED
    BY <1>1, <1>2, <2>1, <2>3, <2>4
<1>5. \A n : FindTopic(reg, n) = 0 /\ FindTopic(new, n) # 0 =>
         new[FindTopic(new, n)].subscribers = <<>>
  <2> TAKE n
  <2> HAVE FindTopic(reg, n) = 0 /\ FindTopic(new, n) # 0
  <2>1. \A i \in 1 .. Len(reg) : reg[i].name # n
    BY <1>1, FirstMatch
  <2>2. FindTopic(new, n) \in 1 .. Len(new) /\ new[FindTopic(new, n)].name = n
    BY <1>3, FirstMatch
  <2> QED
    BY <1>1, <1>2, <1>3, <2>1, <2>2
<1>6. \A i \in DOMAIN new :
         \/ i \in DOMAIN reg /\ new[i] = reg[i]
         \/ new[i].subscribers = <<>>
  BY <1>1, <1>2, <1>3
<1>7. DOMAIN <<>> = {}
  OBVIOUS
<1>8. Exact(new)
  <2> SUFFICES ASSUME NEW i \in DOMAIN new
               PROVE  /\ Distinct(new[i].subscribers)
                      /\ new[i].subscribers # <<>> => FindTopic(new, new[i].name) = i
    BY Zenon DEF Exact
  <2>1. CASE new[i].subscribers = <<>>
    BY <1>7, <2>1, Zenon DEF Distinct
  <2>2. CASE i \in DOMAIN reg /\ new[i] = reg[i]
    <3>1. 0 \notin DOMAIN reg
      BY <1>1
    <3> QED
      BY <1>4, <2>2, <3>1, Zenon DEF Exact
  <2> QED
    BY <1>6, <2>1, <2>2, Zenon
<1>9. \A n, q : Lists(new, n, q) <=> Lists(reg, n, q)
  <2> TAKE n, q
  <2>1. CASE FindTopic(reg, n) # 0
    <3>1. new[FindTopic(reg, n)] = reg[FindTopic(reg, n)]
      BY <1>1, <1>2, <1>4, <2>1, Zenon
    <3> QED
      BY <1>4, <2>1, <3>1, Zenon DEF Lists
  <2>2. CASE FindTopic(reg, n) = 0
    BY <1>5, <1>7, <2>2, Zenon DEF Lists, Subscribed
  <2> QED
    BY <2>1, <2>2, Zenon
<1> QED
  BY <1>8, <1>9, Zenon DEF new

-----------------------------------------------------------------------------
(* Subscribing and unsubscribing                                           *)

\* Replacing an element of a sequence.
LEMMA Replaced ==
    ASSUME NEW T, NEW s \in Seq(T), NEW i \in DOMAIN s, NEW x \in T
    PROVE  [s EXCEPT ![i] = x] \in Seq(T) /\ Len([s EXCEPT ![i] = x]) = Len(s)
OBVIOUS

\* The registry with the list subs for entry e, and what that changes.
WithList(reg, e, subs) == [reg EXCEPT ![e].subscribers = subs]
OnlyList(reg, new, e, subs) ==
    /\ DOMAIN new = DOMAIN reg
    /\ new[e].subscribers = subs
    /\ \A i \in DOMAIN reg : new[i].name = reg[i].name
    /\ \A i \in DOMAIN reg : i # e => new[i] = reg[i]

\* What giving entry e the list subs changes.
LEMMA Updated ==
    ASSUME NEW S, NEW reg, Fits(reg, S), NEW e \in DOMAIN reg, NEW subs \in Seq(S),
           Len(subs) <= PUBSUB_MAX_SUBSCRIBERS_PER_TOPIC
    PROVE  /\ Fits(WithList(reg, e, subs), S)
           /\ OnlyList(reg, WithList(reg, e, subs), e, subs)
<1> DEFINE r == [reg[e] EXCEPT !.subscribers = subs]
           new == [reg EXCEPT ![e] = r]
<1>0. reg \in Seq(Entries(S))
  BY Zenon DEF Fits
<1>1. reg[e] \in Entries(S)
  BY <1>0
<1>2. r \in Entries(S) /\ r.name = reg[e].name /\ r.subscribers = subs
  BY <1>1 DEF Entries
<1> HIDE DEF r
<1>3. new \in Seq(Entries(S)) /\ Len(new) = Len(reg)
  BY <1>0, <1>2, Replaced
<1>4. /\ DOMAIN new = DOMAIN reg /\ new[e] = r
      /\ \A i \in DOMAIN reg : i # e => new[i] = reg[i]
  BY Zenon
<1> HIDE DEF new
<1>5. \A i \in DOMAIN reg : new[i].name = reg[i].name
  BY <1>2, <1>4, Zenon
<1>6. Fits(new, S)
  BY <1>2, <1>3, <1>4, Zenon DEF Fits
<1>7. OnlyList(reg, new, e, subs)
  BY <1>2, <1>4, <1>5, Zenon DEF OnlyList
<1> QED
  BY <1>6, <1>7, Zenon DEF new, r, WithList

\* A new list of subscribers for the entry e that a lookup of name finds.
LEMMA Relisted ==
    ASSUME NEW reg, DOMAIN reg \subseteq Nat, Exact(reg), NEW name,
           NEW subs, Distinct(subs), NEW e, e = FindTopic(reg, name), e # 0,
           NEW new, OnlyList(reg, new, e, subs)
    PROVE  /\ Exact(new)
           /\ \A q : Lists(new, name, q) <=> Holds(subs, q)
           /\ \A n, q : n # name => (Lists(new, n, q) <=> Lists(reg, n, q))
<1>0. /\ DOMAIN new = DOMAIN reg /\ new[e].subscribers = subs
      /\ \A i \in DOMAIN reg : new[i].name = reg[i].name
      /\ \A i \in DOMAIN reg : i # e => new[i] = reg[i]
  BY Zenon DEF OnlyList
<1>1. e \in DOMAIN reg /\ reg[e].name = name
  BY FirstMatch, Zenon
<1>2. \A n : FindTopic(new, n) = FindTopic(reg, n)
  BY <1>0, SameNames, Zenon
<1>3. Exact(new)
  <2> SUFFICES ASSUME NEW i \in DOMAIN new
               PROVE  /\ Distinct(new[i].subscribers)
                      /\ new[i].subscribers # <<>> => FindTopic(new, new[i].name) = i
    BY Zenon DEF Exact
  <2>1. CASE i = e
    BY <1>0, <1>1, <1>2, <2>1, Zenon
  <2>2. CASE i # e
    <3>1. new[i] = reg[i] /\ i \in DOMAIN reg
      BY <1>0, <2>2, Zenon
    <3> QED
      BY <1>2, <3>1, Zenon DEF Exact
  <2> QED
    BY <2>1, <2>2, Zenon
<1>4. \A q : Lists(new, name, q) <=> Holds(subs, q)
  <2>1. FindTopic(new, name) = e
    BY <1>2, Zenon
  <2> QED
    BY <1>0, <2>1, Zenon DEF Lists, Subscribed, Holds
<1>5. ASSUME NEW n, NEW q, n # name
      PROVE  Lists(new, n, q) <=> Lists(reg, n, q)
  <2>1. FindTopic(reg, n) # 0 => FindTopic(reg, n) \in DOMAIN reg /\ FindTopic(reg, n) # e
    BY <1>1, <1>5, FirstMatch, Zenon
  <2>2. FindTopic(reg, n) # 0 => new[FindTopic(reg, n)] = reg[FindTopic(reg, n)]
    BY <1>0, <2>1, Zenon
  <2>3. FindTopic(new, n) = FindTopic(reg, n)
    BY <1>2, Zenon
  <2> QED
    BY <2>2, <2>3, Zenon DEF Lists
<1> QED
  BY <1>3, <1>4, <1>5, Zenon

\* Appending a queue that is not in the list.
LEMMA Appended ==
    ASSUME NEW S, NEW s \in Seq(S), Distinct(s), NEW q \in S, ~Holds(s, q)
    PROVE  /\ Append(s, q) \in Seq(S) /\ Len(Append(s, q)) = Len(s) + 1
           /\ Distinct(Append(s, q))
           /\ \A x : Holds(Append(s, q), x) <=> x = q \/ Holds(s, x)
<1> DEFINE new == Append(s, q)
<1>1. /\ Len(s) \in Nat /\ DOMAIN s = 1 .. Len(s)
      /\ DOMAIN new = 1 .. Len(s) + 1 /\ new[Len(s) + 1] = q
      /\ \A j \in 1 .. Len(s) : new[j] = s[j]
      /\ new \in Seq(S) /\ Len(new) = Len(s) + 1
  OBVIOUS
<1> HIDE DEF new
<1>0. \A n \in Nat : /\ \A j : j \in 1 .. n + 1 <=> j \in 1 .. n \/ j = n + 1
                     /\ n + 1 \notin 1 .. n
  OBVIOUS
<1>2. /\ \A j : j \in DOMAIN new <=> j \in DOMAIN s \/ j = Len(s) + 1
      /\ \A j \in DOMAIN s : new[j] = s[j]
      /\ new[Len(s) + 1] = q
  BY <1>0, <1>1, Zenon
<1>3. Distinct(new)
  BY <1>2, Zenon DEF Distinct, Holds
<1> QED
  BY <1>1, <1>2, <1>3, Zenon DEF new, Holds

\* pubsub.c:120-124: the last subscriber takes the place of the one removed, and
\* nobody else is lost or listed twice.
LEMMA SwappedOut ==
    ASSUME NEW S, NEW s \in Seq(S), Distinct(s), NEW i \in DOMAIN s
    PROVE  /\ SwapOut(s, i) \in Seq(S) /\ Len(SwapOut(s, i)) = Len(s) - 1
           /\ Distinct(SwapOut(s, i))
           /\ \A x : Holds(SwapOut(s, i), x) <=> x # s[i] /\ Holds(s, x)
<1> DEFINE new == SwapOut(s, i)
           k == Len(s)
<1>1. k \in Nat /\ DOMAIN s = 1 .. k /\ i \in 1 .. k /\ \A j \in 1 .. k : s[j] \in S
  OBVIOUS
<1>2. /\ DOMAIN new = 1 .. k - 1
      /\ \A j \in 1 .. k - 1 : new[j] = IF j = i THEN s[k] ELSE s[j]
      /\ new \in Seq(S) /\ Len(new) = k - 1
  BY <1>1 DEF SwapOut
<1> HIDE DEF new, k
<1>3. Distinct(new)
  BY <1>1, <1>2 DEF Distinct
<1>4. ASSUME NEW x
      PROVE  (\E j \in DOMAIN new : new[j] = x) <=> x # s[i] /\ \E j \in DOMAIN s : s[j] = x
  <2>1. ASSUME NEW j \in DOMAIN new, new[j] = x
        PROVE  x # s[i] /\ \E l \in DOMAIN s : s[l] = x
    BY <1>1, <1>2, <2>1 DEF Distinct
  <2>2. ASSUME NEW j \in DOMAIN s, s[j] = x, x # s[i]
        PROVE  \E l \in DOMAIN new : new[l] = x
    <3>1. CASE j = k
      <4>1. i \in DOMAIN new /\ new[i] = x
        BY <1>1, <1>2, <2>2, <3>1
      <4> QED
        BY <4>1, Zenon
    <3>2. CASE j # k
      <4>1. j \in DOMAIN new /\ new[j] = x
        BY <1>1, <1>2, <2>2, <3>2
      <4> QED
        BY <4>1, Zenon
    <3> QED
      BY <3>1, <3>2, Zenon
  <2> QED
    BY <2>1, <2>2, Zenon
<1> QED
  BY <1>2, <1>3, <1>4, Zenon DEF new, k, Holds

\* pubsub_subscribe (pubsub.c:68-105) returns 0 exactly when the queue is then
\* subscribed, and changes no other subscription.
LEMMA SubscribeExact ==
    ASSUME NEW S, NEW reg, Fits(reg, S), Exact(reg),
           NEW name \in Names \ LongNames, NEW q \in S
    PROVE  /\ Fits(AfterSubscribe(reg, name, q), S)
           /\ Exact(AfterSubscribe(reg, name, q))
           /\ \A n, x : n # name \/ x # q =>
                 (Lists(AfterSubscribe(reg, name, q), n, x) <=> Lists(reg, n, x))
           /\ SubscribeOK(reg, name, q) <=>
                 Lists(AfterSubscribe(reg, name, q), name, q)
           /\ Lists(reg, name, q) => SubscribeOK(reg, name, q)
<1> DEFINE mid == WithTopic(reg, name)
           e == FindOrCreateTopic(reg, name)
           new == AfterSubscribe(reg, name, q)
<1>1. /\ Fits(mid, S) /\ Exact(mid)
      /\ \A n, x : Lists(mid, n, x) <=> Lists(reg, n, x)
  BY Grows, GrowsExact, Zenon
<1>2. e # 0 => e \in DOMAIN mid /\ e = FindTopic(mid, name)
  BY Returned, Zenon
<1>3. /\ SubscribeOK(reg, name, q) <=>
            /\ e # 0
            /\ \/ Subscribed(mid[e], q)
               \/ Len(mid[e].subscribers) < PUBSUB_MAX_SUBSCRIBERS_PER_TOPIC
      /\ ~(SubscribeOK(reg, name, q) /\ ~Subscribed(mid[e], q)) => new = mid
      /\ SubscribeOK(reg, name, q) /\ ~Subscribed(mid[e], q) =>
            new = WithList(mid, e, Append(mid[e].subscribers, q))
  BY DEF SubscribeOK, AfterSubscribe, WithList
<1>4. e = 0 => FindTopic(mid, name) = 0
  BY DEF FindOrCreateTopic, WithTopic
<1> HIDE DEF mid, e, new
<1>5. CASE ~(SubscribeOK(reg, name, q) /\ ~Subscribed(mid[e], q))
  <2>1. new = mid
    BY <1>3, <1>5, Zenon
  <2>2. SubscribeOK(reg, name, q) <=> Lists(mid, name, q)
    BY <1>2, <1>3, <1>4, <1>5, Zenon DEF Lists
  <2> QED
    BY <1>1, <2>1, <2>2, Zenon DEF new
<1>6. CASE SubscribeOK(reg, name, q) /\ ~Subscribed(mid[e], q)
  <2> DEFINE old == mid[e].subscribers
             subs == Append(old, q)
  <2>1. /\ e # 0 /\ Len(old) < PUBSUB_MAX_SUBSCRIBERS_PER_TOPIC
        /\ new = WithList(mid, e, subs)
    BY <1>3, <1>6, Zenon
  <2>2. old \in Seq(S) /\ Distinct(old) /\ ~Holds(old, q)
    <3>1. mid[e] \in Entries(S)
      BY <1>1, <1>2, <2>1 DEF Fits
    <3> QED
      BY <1>1, <1>2, <1>6, <2>1, <3>1 DEF Entries, Exact, Subscribed, Holds
  <2> HIDE DEF old
  <2>3. /\ subs \in Seq(S) /\ Len(subs) = Len(old) + 1 /\ Distinct(subs)
        /\ \A x : Holds(subs, x) <=> x = q \/ Holds(old, x)
    BY <2>2, Appended, Zenon
  <2> HIDE DEF subs
  <2>4. Len(subs) <= PUBSUB_MAX_SUBSCRIBERS_PER_TOPIC
    BY <2>1, <2>2, <2>3
  <2>5. Fits(new, S) /\ OnlyList(mid, new, e, subs)
    BY <1>1, <1>2, <2>1, <2>3, <2>4, Updated, Zenon
  <2>6. DOMAIN mid \subseteq Nat
    BY <1>1 DEF Fits
  <2>7. /\ Exact(new)
        /\ \A x : Lists(new, name, x) <=> Holds(subs, x)
        /\ \A n, x : n # name => (Lists(new, n, x) <=> Lists(mid, n, x))
    BY <1>1, <1>2, <2>1, <2>3, <2>5, <2>6, Relisted, Zenon
  <2>8. \A x : Lists(mid, name, x) <=> Holds(old, x)
    BY <1>2, <2>1, Zenon DEF Lists, Subscribed, Holds, old
  <2>9. \A n, x : n # name \/ x # q => (Lists(new, n, x) <=> Lists(reg, n, x))
    BY <1>1, <2>3, <2>7, <2>8, Zenon
  <2> QED
    BY <1>6, <2>3, <2>5, <2>7, <2>9, Zenon DEF new
<1> QED
  BY <1>5, <1>6, Zenon

\* pubsub_unsubscribe (pubsub.c:107-133) undoes this subscription and no other.
LEMMA UnsubscribeExact ==
    ASSUME NEW S, NEW reg, Fits(reg, S), Exact(reg), NEW name, NEW q
    PROVE  /\ Fits(AfterUnsubscribe(reg, name, q), S)
           /\ Exact(AfterUnsubscribe(reg, name, q))
           /\ \A n, x : Lists(AfterUnsubscribe(reg, name, q), n, x) <=>
                           Lists(reg, n, x) /\ (n # name \/ x # q)
<1> DEFINE e == FindTopic(reg, name)
           old == reg[e].subscribers
           places == {i \in DOMAIN old : old[i] = q}
           i == CHOOSE i \in places : \A j \in places : i <= j
           new == AfterUnsubscribe(reg, name, q)
<1>1. CASE e = 0 \/ ~Subscribed(reg[e], q)
  <2>1. new = reg
    BY <1>1, Zenon DEF AfterUnsubscribe
  <2>2. ~Lists(reg, name, q)
    BY <1>1, Zenon DEF Lists
  <2> QED
    BY <2>1, <2>2, Zenon
<1>2. CASE e # 0 /\ Subscribed(reg[e], q)
  <2> DEFINE subs == SwapOut(old, i)
  <2>1. new = WithList(reg, e, subs)
    BY <1>2 DEF AfterUnsubscribe, WithList
  <2>2. DOMAIN reg \subseteq Nat
    BY DEF Fits
  <2>3. e \in DOMAIN reg
    BY <1>2, <2>2, FirstMatch, Zenon
  <2>4. /\ old \in Seq(S) /\ Distinct(old) /\ DOMAIN old \subseteq Nat
        /\ Len(old) \in Nat /\ Len(old) <= PUBSUB_MAX_SUBSCRIBERS_PER_TOPIC
    <3>1. reg[e] \in Entries(S)
      BY <2>3 DEF Fits
    <3>2. old \in Seq(S)
      BY <3>1 DEF Entries
    <3> HIDE DEF e
    <3> QED
      BY <2>3, <3>2 DEF Exact, Fits
  <2>5. places # {} /\ places \subseteq Nat
    BY <1>2, <2>4, Zenon DEF Subscribed
  <2>6. i \in DOMAIN old /\ old[i] = q
    <3> HIDE DEF places
    <3>1. \E l \in places : \A j \in places : l <= j
      BY <2>5, Least, Zenon
    <3>2. i \in places
      BY <3>1, Zenon
    <3> QED
      BY <3>2, Zenon DEF places
  <2> HIDE DEF new, i, places
  <2>7. /\ subs \in Seq(S) /\ Len(subs) = Len(old) - 1 /\ Distinct(subs)
        /\ \A x : Holds(subs, x) <=> x # q /\ Holds(old, x)
    BY <2>4, <2>6, SwappedOut, Zenon
  <2> HIDE DEF subs
  <2>8. Len(subs) <= PUBSUB_MAX_SUBSCRIBERS_PER_TOPIC
    <3> HIDE DEF old
    <3> QED
      BY <2>4, <2>7
  <2>9. \A x : Lists(reg, name, x) <=> Holds(old, x)
    BY <1>2, Zenon DEF Lists, Subscribed, Holds
  <2> HIDE DEF old
  <2>10. Fits(new, S) /\ OnlyList(reg, new, e, subs)
    <3> HIDE DEF e
    <3> QED
      BY <2>1, <2>3, <2>7, <2>8, Updated, Zenon
  <2>11. /\ Exact(new)
         /\ \A x : Lists(new, name, x) <=> Holds(subs, x)
         /\ \A n, x : n # name => (Lists(new, n, x) <=> Lists(reg, n, x))
    <3>1. e = FindTopic(reg, name)
      OBVIOUS
    <3> HIDE DEF e
    <3> QED
      BY <1>2, <2>2, <2>7, <2>10, <3>1, Relisted, Zenon
  <2>12. \A n, x : Lists(new, n, x) <=> Lists(reg, n, x) /\ (n # name \/ x # q)
    BY <2>7, <2>9, <2>11, Zenon
  <2> QED
    BY <2>10, <2>11, <2>12, Zenon DEF new
<1> QED
  BY <1>1, <1>2, Zenon
=============================================================================
