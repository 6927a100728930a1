------------------ MODULE SubscriptionManagerRefinementProofs ------------------
(***************************************************************************)
(* SubscriptionManager implements PacketBroadcast: every call of the       *)
(* manager is the step of the abstract specification that is named in its  *)
(* lemma, or leaves the abstract variables alone.                          *)
(***************************************************************************)
EXTENDS SubscriptionManagerProofs

\* One entry of either abstract variable.
Wants(c, s) == \/ c \in mPendingSubscribeToAllRequests
               \/ s \in mPendingSubscriptionRequests[c]
               \/ c \in DOMAIN mSubscribersMap[s]

Box(c, s) == IF c \in DOMAIN mSubscribersMap[s] THEN mSubscribersMap[s][c] ELSE <<>>

\* The abstract variables, entry by entry.
Views == /\ Interest = [c \in Contexts |-> {s \in Streams : Wants(c, s)}]
         /\ Outbox = [c \in Contexts |-> [s \in Streams |-> Box(c, s)]]

\* The views of the state that the abstract one is made of are what they say,
\* ...
LEMMA ViewsHold == TypeOK => Views
<1> SUFFICES ASSUME TypeOK PROVE Views OBVIOUS
<1>1. ASSUME NEW c \in Contexts
      PROVE  Interest[c] = {s \in Streams : Wants(c, s)}
  BY <1>1 DEF TypeOK, Interest, Wants, isSubscribed
<1>2. Interest = [c \in Contexts |-> Interest[c]] BY DEF Interest
<1> QED BY <1>1, <1>2 DEF Views, Outbox, Box, isSubscribed

\* ... after a step as well.
LEMMA ViewsHoldNext == TypeOK' => Views'
BY ViewsHold, PTL

\* What the steps may use.
Known == TypeOK /\ TypeOK' /\ Service /\ Views /\ Views'

\* Where nobody's entries change, the views do not.
LEMMA SameInterest ==
    ASSUME Known,
           \A c \in Contexts, s \in Streams : Wants(c, s)' <=> Wants(c, s)
    PROVE  Interest' = Interest
BY DEF Known, Views

\* The abstract outboxes depend on the queues alone.
LEMMA SameOutbox ==
    ASSUME Known, \A c \in Contexts, s \in Streams : Box(c, s)' = Box(c, s)
    PROVE  Outbox' = Outbox
BY DEF Known, Views

\* Each operation implements one of the abstract steps: a packet is published,
\* ...
LEMMA enqueuePacketPublishes ==
    ASSUME Known, NEW s \in Streams, enqueuePacket(s)
    PROVE  Broadcast!Publish(s)
<1> DEFINE n == mMostRecentPacket[s]
<1>1. /\ n < MaximumPackets /\ n \in Nat
      /\ mMostRecentPacket' = [mMostRecentPacket EXCEPT ![s] = n + 1]
      /\ mMostRecentPacket'[s] = n + 1
      /\ mPendingSubscribeToAllRequests' = mPendingSubscribeToAllRequests
  BY DEF Known, TypeOK, enqueuePacket
<1>2. /\ \A t \in Streams \ {s} : mSubscribersMap'[t] = mSubscribersMap[t]
      /\ \A c \in Contexts, t \in Streams \ {s} :
            t \in mPendingSubscriptionRequests'[c] <=>
              t \in mPendingSubscriptionRequests[c]
  BY DEF Known, TypeOK, enqueuePacket, EnqueueOnExistingStream,
         EnqueueOnNewStream
<1>3. ASSUME NEW c \in Contexts
      PROVE  /\ Wants(c, s)' <=> Wants(c, s)
             /\ Box(c, s)' = IF Wants(c, s)
                             THEN Broadcast!Deliver(Box(c, s), n + 1)
                             ELSE Box(c, s)
  <2>1. CASE EnqueueOnExistingStream(s)
    <3>1. /\ DOMAIN mSubscribersMap'[s] = DOMAIN mSubscribersMap[s]
          /\ c \in DOMAIN mSubscribersMap[s] =>
               mSubscribersMap'[s][c] = Push(mSubscribersMap[s][c], n + 1)
          /\ mPendingSubscriptionRequests' = mPendingSubscriptionRequests
          /\ s \in mStreamsMap
      BY <1>1, <2>1 DEF Known, TypeOK, EnqueueOnExistingStream, setNextPacket
    <3>2. Wants(c, s) <=> c \in DOMAIN mSubscribersMap[s]
      BY <3>1 DEF Known, Service, Wants, PendingOnlyForFutureStreams,
         SubscribedToAllMeansAll, isSubscribed
    <3> QED BY <1>1, <3>1, <3>2 DEF Wants, Box, Push, Broadcast!Deliver
  <2>2. CASE EnqueueOnNewStream(s)
    <3>1. /\ DOMAIN mSubscribersMap'[s] = Waiting(s)
          /\ c \in Waiting(s) => mSubscribersMap'[s][c] = <<n + 1>>
          /\ mPendingSubscriptionRequests'[c] =
               mPendingSubscriptionRequests[c] \ {s}
      BY <1>1, <2>2 DEF Known, TypeOK, EnqueueOnNewStream
    <3>2. c \notin DOMAIN mSubscribersMap[s]
      BY <2>2 DEF Known, Service, SubscribersArePolled, EnqueueOnNewStream
    <3>3. Wants(c, s) <=> c \in Waiting(s)
      BY <3>2 DEF Wants, Waiting
    <3>4. Broadcast!Deliver(<<>>, n + 1) = <<n + 1>>
      BY QueueSizeAssumption DEF Broadcast!Deliver
    <3>5. Wants(c, s)' <=> c \in Waiting(s)
      BY <1>1, <3>1 DEF Wants, Waiting
    <3> QED BY <3>1, <3>2, <3>3, <3>4, <3>5 DEF Box
  <2> QED BY <2>1, <2>2 DEF enqueuePacket
<1>4. ASSUME NEW c \in Contexts, NEW t \in Streams, t # s
      PROVE  (Wants(c, t)' <=> Wants(c, t)) /\ Box(c, t)' = Box(c, t)
  BY <1>1, <1>2, <1>4 DEF Wants, Box
<1>5. Interest' = Interest BY <1>3, <1>4, SameInterest
<1>6. Outbox' = [c \in Contexts |-> [t \in Streams |->
                   IF t = s /\ s \in Interest[c]
                     THEN Broadcast!Deliver(Outbox[c][t], n + 1)
                     ELSE Outbox[c][t]]]
  <2>1. ASSUME NEW c \in Contexts, NEW t \in Streams
        PROVE  Box(c, t)' = IF t = s /\ s \in Interest[c]
                              THEN Broadcast!Deliver(Outbox[c][t], n + 1)
                              ELSE Outbox[c][t]
    <3>1. (s \in Interest[c] <=> Wants(c, s)) /\ Outbox[c][t] = Box(c, t)
      BY DEF Known, Views
    <3> QED BY <1>3, <1>4, <3>1
  <2> QED BY <2>1 DEF Known, Views
<1> QED BY <1>1, <1>5, <1>6 DEF Broadcast!Publish

\* A context that joins changes no outbox, and who subscribes to what only for
\* itself.
LEMMA JoinLateWants ==
    ASSUME Known, NEW c \in Contexts, NEW S \in SUBSET Streams, JoinLate(c, S)
    PROVE  /\ Outbox' = Outbox
           /\ \A d \in Contexts, s \in Streams : d \in DOMAIN mSubscribersMap'[s]
                <=> d \in DOMAIN mSubscribersMap[s] \/ (d = c /\ s \in S)
<1>1. \A s \in Streams : DOMAIN mSubscribersMap'[s] =
        DOMAIN mSubscribersMap[s] \cup (IF s \in S THEN {c} ELSE {})
  BY JoinLateDomains DEF Known
<1>2. ASSUME NEW d \in Contexts, NEW s \in Streams
      PROVE  Box(d, s)' = Box(d, s)
  <2>1. CASE d \in DOMAIN mSubscribersMap[s]
    BY <1>1, <2>1 DEF Known, TypeOK, JoinLate, subscribe, Box
  <2>2. CASE d \notin DOMAIN mSubscribersMap[s]
    BY <1>1, <2>2 DEF Known, TypeOK, JoinLate, subscribe, isSubscribed, Box
  <2> QED BY <2>1, <2>2
<1>3. Outbox' = Outbox BY <1>2, SameOutbox
<1> QED BY <1>1, <1>3

\* To want more is to be interested in more.
LEMMA WantsMore ==
    ASSUME Known, Outbox' = Outbox, mMostRecentPacket' = mMostRecentPacket,
           NEW c \in Contexts, NEW S \in SUBSET Streams,
           \A d \in Contexts, s \in Streams :
             Wants(d, s)' <=> Wants(d, s) \/ (d = c /\ s \in S)
    PROVE  Broadcast!Want(c, S)
<1>1. ASSUME NEW d \in Contexts
      PROVE  Interest'[d] = IF d = c THEN Interest[d] \cup S ELSE Interest[d]
  <2>1. /\ Interest'[d] = {s \in Streams : Wants(d, s)'}
        /\ Interest[d] = {s \in Streams : Wants(d, s)}
    BY DEF Known, Views
  <2> QED BY <2>1
<1>2. Interest' = [Interest EXCEPT ![c] = @ \cup S]
  BY <1>1 DEF Known, Views
<1> QED BY <1>2 DEF Broadcast!Want

\* ... streams are wanted by name, ...
LEMMA subscribeToStreamsWants ==
    ASSUME Known, NEW c \in Contexts, NEW S \in SUBSET Streams,
           subscribeToStreams(c, S)
    PROVE  Broadcast!Want(c, S)
<1>1. /\ S \cap mStreamsMap \in SUBSET Streams
      /\ JoinLate(c, S \cap mStreamsMap)
      /\ mMostRecentPacket' = mMostRecentPacket
  BY DEF subscribeToStreams
<1>2. ASSUME NEW d \in Contexts, NEW s \in Streams
      PROVE  Wants(d, s)' <=> Wants(d, s) \/ (d = c /\ s \in S)
  <2>1. d \in DOMAIN mSubscribersMap'[s] <=>
          d \in DOMAIN mSubscribersMap[s] \/ (d = c /\ s \in S \cap mStreamsMap)
    BY <1>1, JoinLateWants
  <2>2. s \in mPendingSubscriptionRequests'[d] <=>
          \/ s \in mPendingSubscriptionRequests[d]
          \/ d = c /\ s \in S \ mStreamsMap
    BY DEF Known, TypeOK, subscribeToStreams
  <2> QED BY <2>1, <2>2 DEF Wants, subscribeToStreams
<1> QED BY <1>1, <1>2, JoinLateWants, WantsMore

\* ... or all, ...
LEMMA subscribeToAllWants ==
    ASSUME Known, NEW c \in Contexts, subscribeToAll(c)
    PROVE  Broadcast!Want(c, Streams)
<1>1. /\ mStreamsMap \in SUBSET Streams
      /\ JoinLate(c, mStreamsMap)
      /\ mMostRecentPacket' = mMostRecentPacket
  BY DEF Known, TypeOK, subscribeToAll
<1>2. ASSUME NEW d \in Contexts, NEW s \in Streams
      PROVE  Wants(d, s)' <=> Wants(d, s) \/ (d = c /\ s \in Streams)
  <2>1. d \in DOMAIN mSubscribersMap'[s] <=>
          d \in DOMAIN mSubscribersMap[s] \/ (d = c /\ s \in mStreamsMap)
    BY <1>1, JoinLateWants
  <2> QED BY <2>1 DEF Wants, subscribeToAll
<1>3. Streams \in SUBSET Streams OBVIOUS
<1> QED BY <1>1, <1>2, <1>3, JoinLateWants, WantsMore

\* ... an outbox is fetched, ...
LEMMA getPacketsFetches ==
    ASSUME Known, QueueHoldsNewest, NEW c \in Contexts, getPackets(c)
    PROVE  Broadcast!Fetch(c)
<1> DEFINE taken == [s \in Streams |-> Returned(c, s)]
<1>1. ASSUME NEW s \in Streams, NEW d \in Contexts
      PROVE  /\ d \in DOMAIN mSubscribersMap'[s] <=> d \in DOMAIN mSubscribersMap[s]
             /\ d \in DOMAIN mSubscribersMap[s] => mSubscribersMap'[s][d] =
                  IF d # c THEN mSubscribersMap[s][d]
                  ELSE SubSeq(mSubscribersMap[s][d], Returned(c, s) + 1,
                              Len(mSubscribersMap[s][d]))
  BY DEF getPackets, getNextPackets, Returned
<1>2. Interest' = Interest
  <2>1. ASSUME NEW d \in Contexts, NEW s \in Streams
        PROVE  Wants(d, s)' <=> Wants(d, s)
    BY <1>1 DEF Wants, getPackets
  <2> QED BY <2>1, SameInterest
<1>3. ASSUME NEW s \in Streams
      PROVE  /\ Returned(c, s) \in 0..MaximumQueueSize
             /\ Returned(c, s) <= Len(Box(c, s))
             /\ Box(c, s) # <<>> => Returned(c, s) > 0
  <2>1. CASE c \notin DOMAIN mSubscribersMap[s]
    BY <2>1, QueueSizeAssumption DEF Box, Returned, NumberReturned, isSubscribed
  <2>2. CASE c \in DOMAIN mSubscribersMap[s]
    <3>1. IsQueueMap(mSubscribersMap[s]) BY DEF Known, TypeOK
    <3>2. /\ Returned(c, s) \in Nat /\ Returned(c, s) <= Len(mSubscribersMap[s][c])
          /\ Turns(s) > 0 /\ mSubscribersMap[s][c] # <<>> => Returned(c, s) > 0
      BY <2>2, <3>1, TurnsType, NumberReturnedType DEF Returned
    <3>3. Len(mSubscribersMap[s][c]) <= MaximumQueueSize
          /\ Len(mSubscribersMap[s][c]) \in Nat
      BY <2>2, QueueTypes DEF Known, QueueHoldsNewest
    <3>4. Turns(s) > 0
      <4> DEFINE Active == {d \in Contexts : s \in mActiveSubscriptionsMap[d]}
      <4>1. c \in Active
        BY <2>2 DEF Known, Service, SubscribersArePolled
      <4>2. IsFiniteSet(Active) BY ContextsAssumption, FS_Subset
      <4>3. Cardinality(Active) # 0 BY <4>1, <4>2, FS_EmptySet
      <4> QED BY <4>3, TurnsType DEF Turns
    <3> QED BY <2>2, <3>2, <3>3, <3>4, QueueSizeAssumption DEF Box
  <2> QED BY <2>1, <2>2
<1>4. taken \in [Streams -> 0..MaximumQueueSize] BY <1>3
<1>5. ASSUME NEW d \in Contexts, NEW s \in Streams
      PROVE  Box(d, s)' = IF d = c THEN SubSeq(Box(c, s), Returned(c, s) + 1,
                                               Len(Box(c, s)))
                          ELSE Box(d, s)
  <2>1. CASE d \in DOMAIN mSubscribersMap[s] BY <1>1, <2>1 DEF Box
  <2>2. CASE d \notin DOMAIN mSubscribersMap[s]
    <3>1. Box(d, s)' = <<>> /\ Box(d, s) = <<>> BY <1>1, <2>2 DEF Box
    <3>2. d = c => Returned(c, s) = 0
      BY <2>2 DEF Returned, NumberReturned, isSubscribed
    <3>3. SubSeq(<<>>, 0 + 1, Len(<<>>)) = <<>> OBVIOUS
    <3> QED BY <3>1, <3>2, <3>3
  <2> QED BY <2>1, <2>2
<1>6. /\ \A s \in Streams : /\ taken[s] <= Len(Outbox[c][s])
                            /\ Outbox[c][s] # <<>> => taken[s] > 0
      /\ Outbox' = [Outbox EXCEPT ![c] =
           [s \in Streams |-> SubSeq(@[s], taken[s] + 1, Len(@[s]))]]
  <2>1. \A d \in Contexts, s \in Streams : Outbox[d][s] = Box(d, s)
    BY DEF Known, Views
  <2>2. \A s \in Streams : /\ taken[s] <= Len(Outbox[c][s])
                           /\ Outbox[c][s] # <<>> => taken[s] > 0
    BY <1>3, <2>1
  <2>3. [s \in Streams |-> Box(c, s)'] =
          [s \in Streams |-> SubSeq(Outbox[c][s], taken[s] + 1, Len(Outbox[c][s]))]
    BY <1>5, <2>1
  <2>4. \A d \in Contexts \ {c} : Outbox'[d] = Outbox[d]
    BY <1>5 DEF Known, Views
  <2>5. Outbox'[c] = [s \in Streams |-> Box(c, s)'] BY DEF Known, Views
  <2> QED BY <2>2, <2>3, <2>4, <2>5 DEF Known, Views
<1>7. mMostRecentPacket' = mMostRecentPacket BY DEF getPackets
<1> QED BY <1>2, <1>4, <1>6, <1>7 DEF Broadcast!Fetch

\* To leave is to want nothing and to have nothing to fetch.
LEMMA Leaves ==
    ASSUME Known, mMostRecentPacket' = mMostRecentPacket,
           NEW C \in SUBSET Contexts,
           \A d \in Contexts, s \in Streams :
             /\ d \in C => ~Wants(d, s)' /\ Box(d, s)' = <<>>
             /\ d \notin C =>
                  (Wants(d, s)' <=> Wants(d, s)) /\ Box(d, s)' = Box(d, s)
    PROVE  Broadcast!Leave(C)
<1>1. ASSUME NEW d \in Contexts
      PROVE  /\ Interest'[d] = IF d \in C THEN {} ELSE Interest[d]
             /\ Outbox'[d] = IF d \in C THEN Broadcast!EmptyOutbox ELSE Outbox[d]
  BY DEF Known, Views, Broadcast!EmptyOutbox
<1>2. /\ Interest' = [d \in Contexts |-> IF d \in C THEN {} ELSE Interest[d]]
      /\ Outbox' = [d \in Contexts |->
                      IF d \in C THEN Broadcast!EmptyOutbox ELSE Outbox[d]]
  BY <1>1 DEF Known, Views
<1> QED BY <1>2 DEF Broadcast!Leave

\* ... and one context leaves, ...
LEMMA unsubscribeFromAllLeaves ==
    ASSUME Known, NEW c \in Contexts, unsubscribeFromAll(c)
    PROVE  Broadcast!Leave({c})
<1>1. ASSUME NEW s \in Streams
      PROVE  /\ DOMAIN mSubscribersMap'[s] = DOMAIN mSubscribersMap[s] \ {c}
             /\ \A d \in DOMAIN mSubscribersMap[s] \ {c} :
                  mSubscribersMap'[s][d] = mSubscribersMap[s][d]
  BY DEF Known, Service, SubscribersArePolled, unsubscribeFromAll,
         PurgeFromStreams, unsubscribe
<1>2. ASSUME NEW d \in Contexts, NEW s \in Streams
      PROVE  /\ d \in {c} => ~Wants(d, s)' /\ Box(d, s)' = <<>>
             /\ d \notin {c} =>
                  (Wants(d, s)' <=> Wants(d, s)) /\ Box(d, s)' = Box(d, s)
  BY <1>1 DEF Known, TypeOK, unsubscribeFromAll, Wants, Box
<1> QED BY <1>2, Leaves DEF unsubscribeFromAll

\* ... or all.
LEMMA unsubscribeAllLeaves ==
    ASSUME Known, unsubscribeAll
    PROVE  Broadcast!Leave(Contexts)
<1>1. ASSUME NEW d \in Contexts, NEW s \in Streams
      PROVE  /\ d \in Contexts => ~Wants(d, s)' /\ Box(d, s)' = <<>>
             /\ d \notin Contexts =>
                  (Wants(d, s)' <=> Wants(d, s)) /\ Box(d, s)' = Box(d, s)
  BY DEF unsubscribeAll, NoSubscribers, Wants, Box
<1> QED BY <1>1, Leaves DEF unsubscribeAll

\* Every step of the manager is a step its callers were promised, or none.
LEMMA NextImplements ==
    ASSUME Known, QueueHoldsNewest, [Next]_vars
    PROVE  [Broadcast!Next]_(Broadcast!vars)
<1>1. ASSUME NEW s \in Streams, enqueuePacket(s) PROVE Broadcast!Next
  BY <1>1, enqueuePacketPublishes DEF Broadcast!Next
<1>2. ASSUME NEW c \in Contexts, NEW S \in SUBSET Streams,
             subscribeToStreams(c, S)
      PROVE  Broadcast!Next
  BY <1>2, subscribeToStreamsWants DEF Broadcast!Next
<1>3. ASSUME NEW c \in Contexts, subscribeToAll(c) PROVE Broadcast!Next
  BY <1>3, subscribeToAllWants DEF Broadcast!Next
<1>4. ASSUME NEW c \in Contexts, getPackets(c) PROVE Broadcast!Next
  BY <1>4, getPacketsFetches DEF Broadcast!Next
<1>5. ASSUME NEW c \in Contexts, unsubscribeFromAll(c) PROVE Broadcast!Next
  BY <1>5, unsubscribeFromAllLeaves DEF Broadcast!Next
<1>6. CASE unsubscribeAll
  BY <1>6, unsubscribeAllLeaves DEF Broadcast!Next
<1>7. CASE getNumberOfSubscribers \/ UNCHANGED vars
  <2>1. UNCHANGED <<mMostRecentPacket, mSubscribersMap,
          mPendingSubscriptionRequests, mPendingSubscribeToAllRequests>>
    BY <1>7 DEF getNumberOfSubscribers, vars
  <2> QED BY <2>1 DEF Broadcast!vars, Interest, Outbox
<1> QED BY <1>1, <1>2, <1>3, <1>4, <1>5, <1>6, <1>7 DEF Next

\* Initial states implement initial states.
LEMMA InitImplements == Init => Broadcast!Init
BY DEF Init, Broadcast!Init, Broadcast!EmptyOutbox, Interest, Outbox,
       isSubscribed, NoSubscribers

\* The manager implements the broadcast: for all that its callers can tell, a
\* packet published goes to the queues of those interested in its stream, and
\* it is lost only by being the oldest of a full one.
THEOREM ManagerBroadcasts == Spec => ImplementsBroadcast
<1>1. Init => Broadcast!Init BY InitImplements
<1>2. TypeOK /\ TypeOK' /\ Service /\ QueueHoldsNewest /\ [Next]_vars
        => [Broadcast!Next]_(Broadcast!vars)
  BY ViewsHold, ViewsHoldNext, NextImplements DEF Known
<1> QED BY <1>1, <1>2, TypeCorrect, ServiceInvariant, NewestAreQueued, PTL
        DEF Spec, ImplementsBroadcast, Broadcast!Spec
================================================================================
