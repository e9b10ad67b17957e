------------------------------ MODULE Registry ------------------------------
(***************************************************************************)
(* The topic registry of c/src/pubsub.c as a value: a sequence of entries, *)
(* each a stored name and the sequence of queues subscribed to it.  The    *)
(* operators are what the functions of pubsub.c do to it while they hold   *)
(* ctx->mutex.                                                             *)
(***************************************************************************)
EXTENDS Naturals, Sequences

CONSTANTS
    Names,                              \* topic names callers may pass
    LongNames,                          \* those with strlen >= PUBSUB_TOPIC_NAME_MAX
    Cut,                                \* what strncpy stores for a name
    PUBSUB_MAX_TOPICS,
    PUBSUB_MAX_SUBSCRIBERS_PER_TOPIC

ASSUME NamesAssumption ==
    /\ LongNames \subseteq Names
    /\ \A n \in Names \ LongNames : Cut[n] = n
    /\ \A n \in LongNames : Cut[n] # n

ASSUME LimitsAssumption ==
    /\ PUBSUB_MAX_TOPICS \in Nat
    /\ PUBSUB_MAX_SUBSCRIBERS_PER_TOPIC \in Nat

\* Mutant: as many characters are compared as fit an entry (strncmp).
MatchingPrefix(reg, name) == {i \in DOMAIN reg : reg[i].name = Cut[name]}

Matching(reg, name) == {i \in DOMAIN reg : reg[i].name = name}

\* The index of the first entry stored under this name, 0 for NULL.
FindTopic(reg, name) ==
    IF Matching(reg, name) = {} THEN 0
    ELSE CHOOSE i \in Matching(reg, name) :
            \A j \in Matching(reg, name) : i <= j

\* Mutant: off by one at the limit.
WithTopicPastLimit(reg, name) ==
    IF FindTopic(reg, name) = 0 /\ Len(reg) <= PUBSUB_MAX_TOPICS
      THEN Append(reg, [name |-> Cut[name], subscribers |-> <<>>])
      ELSE reg

\* find_or_create_topic leaves this registry behind ...
WithTopic(reg, name) ==
    IF FindTopic(reg, name) = 0 /\ Len(reg) < PUBSUB_MAX_TOPICS
      THEN Append(reg, [name |-> Cut[name], subscribers |-> <<>>])
      ELSE reg

\* ... and returns this entry of it, 0 when the registry is full.
FindOrCreateTopic(reg, name) ==
    IF FindTopic(reg, name) # 0 THEN FindTopic(reg, name)
    ELSE IF Len(reg) < PUBSUB_MAX_TOPICS THEN Len(reg) + 1
    ELSE 0

Subscribed(entry, q) ==
    \E i \in DOMAIN entry.subscribers : entry.subscribers[i] = q

\* pubsub_subscribe: the return value and the registry left behind, given
\* the registry after find_or_create_topic.
SubscribeOK(reg, name, q) ==
    LET e == FindOrCreateTopic(reg, name)
        after == WithTopic(reg, name)
    IN  /\ name \notin LongNames
        /\ e # 0
        /\ \/ Subscribed(after[e], q)
           \/ Len(after[e].subscribers) < PUBSUB_MAX_SUBSCRIBERS_PER_TOPIC

AfterSubscribe(reg, name, q) ==
    LET e == FindOrCreateTopic(reg, name)
        after == WithTopic(reg, name)
    IN  IF name \in LongNames THEN reg
        ELSE IF SubscribeOK(reg, name, q) /\ ~Subscribed(after[e], q)
          THEN [after EXCEPT ![e].subscribers = Append(@, q)]
          ELSE after

\* Mutant: the slot found is not refilled, the last subscriber is dropped.
DropLast(subs, i) == SubSeq(subs, 1, Len(subs) - 1)

\* The last subscriber is swapped into the slot freed.
SwapOut(subs, i) ==
    [j \in 1 .. Len(subs) - 1 |-> IF j = i THEN subs[Len(subs)] ELSE subs[j]]

\* pubsub_unsubscribe removes the first occurrence, if there is one.
AfterUnsubscribe(reg, name, q) ==
    LET e == FindTopic(reg, name)
        places == {i \in DOMAIN reg[e].subscribers : reg[e].subscribers[i] = q}
    IN  IF e = 0 \/ ~Subscribed(reg[e], q) THEN reg
        ELSE [reg EXCEPT ![e].subscribers =
                SwapOut(@, CHOOSE i \in places : \A j \in places : i <= j)]
=============================================================================
