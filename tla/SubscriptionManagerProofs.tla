--------------------- MODULE SubscriptionManagerProofs ----------------------
(***************************************************************************)
(* Theorems about SubscriptionManager, for every set of contexts and       *)
(* streams and every queue size.                                           *)
(***************************************************************************)
EXTENDS SubscriptionManager, StreamProofs, FiniteSetTheorems, TLAPS

-----------------------------------------------------------------------------
(***************************************************************************)
(* The actions keep the types.                                             *)
(***************************************************************************)

\* A number of contexts is a number.
LEMMA CountType == \A S \in SUBSET Contexts : Cardinality(S) \in Nat
BY ContextsAssumption, FS_Subset, FS_CardinalityType

\* So is that of the turns a stream has.
LEMMA TurnsType == \A s : Turns(s) \in Nat
BY CountType DEF Turns

\* The types hold at first.
LEMMA InitType == Init => TypeOK
BY NoSubscribersType DEF Init, TypeOK

\* Each operation keeps the types: a packet comes, ...
LEMMA enqueuePacketType ==
    ASSUME TypeOK, NEW s \in Streams, enqueuePacket(s)
    PROVE  TypeOK'
<1>1. mMostRecentPacket' \in [Streams -> Nat]
  BY DEF TypeOK, enqueuePacket
<1>2. CASE EnqueueOnExistingStream(s)
  <2>1. IsQueueMap(setNextPacket(mSubscribersMap[s], mMostRecentPacket'[s]))
    BY <1>1, setNextPacketType DEF TypeOK
  <2> QED BY <1>1, <1>2, <2>1 DEF TypeOK, enqueuePacket, EnqueueOnExistingStream
<1>3. CASE EnqueueOnNewStream(s)
  <2>1. IsQueueMap([c \in Waiting(s) |-> <<mMostRecentPacket'[s]>>])
    BY <1>1 DEF TypeOK, IsQueueMap, Waiting
  <2> QED BY <1>1, <1>3, <2>1 DEF TypeOK, enqueuePacket, EnqueueOnNewStream
<1> QED BY <1>2, <1>3 DEF enqueuePacket

\* ... a context is added to streams, ...
LEMMA JoinLateType ==
    ASSUME TypeOK, NEW c \in Contexts, NEW S \in SUBSET Streams, JoinLate(c, S)
    PROVE  /\ mSubscribersMap' = [s \in Streams |-> mSubscribersMap'[s]]
           /\ \A s \in Streams : IsQueueMap(mSubscribersMap'[s])
           /\ mActiveSubscriptionsMap' \in [Contexts -> SUBSET Streams]
           /\ delivered' \in [Contexts -> [Streams -> Nat]]
<1>1. \A s \in Streams : IsQueueMap(subscribe(mSubscribersMap[s], c, <<>>))
  <2>1. <<>> \in Seq(Nat)
    OBVIOUS
  <2> QED BY <2>1, subscribeType DEF TypeOK
<1>2. \A s \in Streams : IsQueueMap(mSubscribersMap'[s])
  BY <1>1 DEF TypeOK, JoinLate
<1> QED BY <1>2 DEF TypeOK, JoinLate

\* ... polls, ...
LEMMA getPacketsType ==
    ASSUME TypeOK, NEW c \in Contexts, getPackets(c)
    PROVE  TypeOK'
<1>1. \A s \in Streams : IsQueueMap(mSubscribersMap'[s])
  BY getNextPacketsType, TurnsType DEF TypeOK, getPackets
<1>2. ASSUME NEW s \in Streams, Returned(c, s) # 0
      PROVE  mSubscribersMap[s][c][Returned(c, s)] \in Nat
  <2>1. c \in DOMAIN mSubscribersMap[s] /\ mSubscribersMap[s][c] \in Seq(Nat)
    BY <1>2 DEF TypeOK, IsQueueMap, Returned, NumberReturned, isSubscribed
  <2>2. Returned(c, s) \in 1..Len(mSubscribersMap[s][c])
    BY <1>2, <2>1, TurnsType, NumberReturnedType DEF TypeOK, Returned
  <2> QED BY <2>1, <2>2
<1>3. delivered' \in [Contexts -> [Streams -> Nat]]
  BY <1>2 DEF TypeOK, getPackets
<1> QED BY <1>1, <1>3 DEF TypeOK, getPackets

\* ... leaves, ...
LEMMA unsubscribeFromAllType ==
    ASSUME TypeOK, NEW c \in Contexts, unsubscribeFromAll(c)
    PROVE  TypeOK'
<1>1. \A s \in Streams : IsQueueMap(mSubscribersMap'[s])
  BY unsubscribeType DEF TypeOK, unsubscribeFromAll, PurgeFromStreams
<1> QED BY <1>1 DEF TypeOK, unsubscribeFromAll, PurgeFromStreams

\* ... or all have to.
LEMMA unsubscribeAllType ==
    ASSUME TypeOK, unsubscribeAll
    PROVE  TypeOK'
<1>1. AllSubscribers' \in SUBSET Contexts
  BY DEF TypeOK, unsubscribeAll, AllSubscribers
<1>2. mNumberOfSubscribers' \in Nat
  BY <1>1, CountType DEF unsubscribeAll
<1> QED BY <1>2, NoSubscribersType DEF TypeOK, unsubscribeAll

\* Each step keeps the types.
LEMMA NextType == TypeOK /\ [Next]_vars => TypeOK'
<1> SUFFICES ASSUME TypeOK, [Next]_vars PROVE TypeOK'
  OBVIOUS
<1>1. ASSUME NEW s \in Streams, enqueuePacket(s) PROVE TypeOK'
  BY <1>1, enqueuePacketType
<1>2. ASSUME NEW c \in Contexts, NEW S \in SUBSET Streams, subscribeToStreams(c, S)
      PROVE  TypeOK'
  <2>1. JoinLate(c, S \cap mStreamsMap)
    BY <1>2 DEF subscribeToStreams
  <2> QED BY <1>2, <2>1, JoinLateType DEF TypeOK, subscribeToStreams
<1>3. ASSUME NEW c \in Contexts, subscribeToAll(c) PROVE TypeOK'
  <2>1. JoinLate(c, mStreamsMap)
    BY <1>3 DEF subscribeToAll
  <2> QED BY <1>3, <2>1, JoinLateType DEF TypeOK, subscribeToAll
<1>4. ASSUME NEW c \in Contexts, getPackets(c) PROVE TypeOK'
  BY <1>4, getPacketsType
<1>5. ASSUME NEW c \in Contexts, unsubscribeFromAll(c) PROVE TypeOK'
  BY <1>5, unsubscribeFromAllType
<1>6. CASE getNumberOfSubscribers
  <2>1. AllSubscribers \in SUBSET Contexts
    BY DEF TypeOK, AllSubscribers
  <2> QED BY <1>6, <2>1, CountType DEF TypeOK, getNumberOfSubscribers
<1>7. CASE unsubscribeAll
  BY <1>7, unsubscribeAllType
<1>8. CASE UNCHANGED vars
  BY <1>8 DEF vars, TypeOK
<1> QED BY <1>1, <1>2, <1>3, <1>4, <1>5, <1>6, <1>7, <1>8 DEF Next

\* The maps keep their types in every behaviour of the manager: queues are
\* sequences of packets of subscribed contexts, and the cached count is a count
\* or -1.
THEOREM TypeCorrect == Spec => []TypeOK
<1>1. Init => TypeOK
  BY InitType
<1>2. TypeOK /\ [Next]_vars => TypeOK'
  BY NextType
<1> QED BY <1>1, <1>2, PTL DEF Spec

-----------------------------------------------------------------------------
(***************************************************************************)
(* Nobody is left waiting for a stream that exists, and whoever is on a    *)
(* stream is polled.  The three invariants are inductive together.         *)
(***************************************************************************)
Service == /\ PendingOnlyForFutureStreams
           /\ SubscribedToAllMeansAll
           /\ SubscribersArePolled

\* A packet that is enqueued serves all who wait for its stream.
LEMMA enqueuePacketService ==
    ASSUME TypeOK, Service, NEW s \in Streams, enqueuePacket(s)
    PROVE  Service'
<1> USE DEF Service, TypeOK, PendingOnlyForFutureStreams, SubscribedToAllMeansAll,
            SubscribersArePolled, isSubscribed
<1>1. CASE EnqueueOnExistingStream(s)
  <2>1. \A t \in Streams : DOMAIN mSubscribersMap'[t] = DOMAIN mSubscribersMap[t]
    BY <1>1 DEF EnqueueOnExistingStream, setNextPacket
  <2> QED BY <1>1, <2>1 DEF enqueuePacket, EnqueueOnExistingStream
<1>2. CASE EnqueueOnNewStream(s)
  <2>1. DOMAIN mSubscribersMap'[s] = Waiting(s)
    BY <1>2 DEF EnqueueOnNewStream
  <2>2. \A t \in Streams \ {s} : mSubscribersMap'[t] = mSubscribersMap[t]
    BY <1>2 DEF EnqueueOnNewStream
  <2>3. PendingOnlyForFutureStreams'
    BY <1>2 DEF EnqueueOnNewStream
  <2>4. SubscribedToAllMeansAll'
    BY <1>2, <2>1, <2>2 DEF enqueuePacket, EnqueueOnNewStream, Waiting
  <2>5. SubscribersArePolled'
    <3>1. \A d \in Contexts :
            /\ mActiveSubscriptionsMap[d] \subseteq mActiveSubscriptionsMap'[d]
            /\ d \in Waiting(s) => s \in mActiveSubscriptionsMap'[d]
      BY <1>2 DEF EnqueueOnNewStream
    <3>2. Waiting(s) \subseteq Contexts
      BY DEF Waiting
    <3>3. \A t \in Streams : DOMAIN mSubscribersMap[t] \in SUBSET Contexts
      BY DEF IsQueueMap
    <3>4. mStreamsMap' = mStreamsMap \cup {s}
      BY <1>2 DEF EnqueueOnNewStream
    <3>5. \A t \in Streams : \A d \in DOMAIN mSubscribersMap[t] :
            t \in mStreamsMap /\ t \in mActiveSubscriptionsMap[d]
      OBVIOUS
    <3> HIDE DEF Service, TypeOK
    <3>6. ASSUME NEW t \in Streams, t # s, NEW d \in DOMAIN mSubscribersMap'[t]
          PROVE  t \in mStreamsMap' /\ t \in mActiveSubscriptionsMap'[d]
      <4>1. d \in DOMAIN mSubscribersMap[t]
        BY <2>2, <3>6
      <4>2. d \in Contexts
        BY <3>3, <4>1
      <4> QED BY <3>1, <3>4, <3>5, <4>1, <4>2
    <3>7. ASSUME NEW d \in DOMAIN mSubscribersMap'[s]
          PROVE  s \in mStreamsMap' /\ s \in mActiveSubscriptionsMap'[d]
      <4>1. d \in Waiting(s)
        BY <2>1
      <4> QED BY <3>1, <3>2, <3>4, <4>1
    <3> QED BY <3>6, <3>7
  <2> QED BY <2>3, <2>4, <2>5
<1> QED BY <1>1, <1>2 DEF enqueuePacket

\* Joining late adds c to the streams it joins and to nothing else.
LEMMA JoinLateDomains ==
    ASSUME TypeOK, NEW c \in Contexts, NEW S \in SUBSET Streams, JoinLate(c, S)
    PROVE  \A s \in Streams : DOMAIN mSubscribersMap'[s] =
             DOMAIN mSubscribersMap[s] \cup (IF s \in S THEN {c} ELSE {})
BY DEF TypeOK, IsQueueMap, JoinLate, subscribe, isSubscribed

\* A context that joins streams polls those it joined.
LEMMA JoinLatePolled ==
    ASSUME TypeOK, SubscribersArePolled, mStreamsMap' = mStreamsMap,
           NEW c \in Contexts, NEW S \in SUBSET mStreamsMap, JoinLate(c, S)
    PROVE  SubscribersArePolled'
<1>1. S \in SUBSET Streams
  BY DEF TypeOK
<1>2. ASSUME NEW s \in Streams, NEW d \in DOMAIN mSubscribersMap'[s]
      PROVE  s \in mStreamsMap' /\ s \in mActiveSubscriptionsMap'[d]
  <2>1. d \in Contexts
    BY <1>1, JoinLateType DEF IsQueueMap
  <2>2. CASE d \in DOMAIN mSubscribersMap[s]
    BY <2>1, <2>2 DEF TypeOK, SubscribersArePolled, JoinLate
  <2>3. CASE d \notin DOMAIN mSubscribersMap[s]
    <3>1. d = c /\ s \in S
      BY <1>1, <2>3, JoinLateDomains
    <3> QED BY <2>3, <3>1 DEF TypeOK, JoinLate, isSubscribed
  <2> QED BY <2>2, <2>3
<1> QED BY <1>2 DEF SubscribersArePolled

\* A context that leaves is in none of the three maps they are about.
LEMMA unsubscribeFromAllService ==
    ASSUME TypeOK, Service, NEW c \in Contexts, unsubscribeFromAll(c)
    PROVE  Service'
<1> USE DEF Service, TypeOK, SubscribersArePolled, isSubscribed
<1>1. \A s \in Streams : DOMAIN mSubscribersMap'[s] = DOMAIN mSubscribersMap[s] \ {c}
  BY DEF unsubscribeFromAll, PurgeFromStreams, unsubscribe
<1>2. PendingOnlyForFutureStreams'
  BY DEF PendingOnlyForFutureStreams, unsubscribeFromAll
<1>3. SubscribedToAllMeansAll'
  BY <1>1 DEF SubscribedToAllMeansAll, unsubscribeFromAll
<1>4. SubscribersArePolled'
  <2>1. \A d \in Contexts \ {c} : mActiveSubscriptionsMap'[d] = mActiveSubscriptionsMap[d]
    BY DEF unsubscribeFromAll
  <2>2. \A s \in Streams : DOMAIN mSubscribersMap[s] \in SUBSET Contexts
    BY DEF IsQueueMap
  <2> QED BY <1>1, <2>1, <2>2 DEF unsubscribeFromAll
<1> QED BY <1>2, <1>3, <1>4

\* Each step keeps the service invariant.
LEMMA NextService == TypeOK /\ Service /\ [Next]_vars => Service'
<1> SUFFICES ASSUME TypeOK, Service, [Next]_vars PROVE Service'
  OBVIOUS
<1>1. ASSUME NEW s \in Streams, enqueuePacket(s) PROVE Service'
  BY <1>1, enqueuePacketService
<1>2. ASSUME NEW c \in Contexts, NEW S \in SUBSET Streams, subscribeToStreams(c, S)
      PROVE  Service'
  <2>1. JoinLate(c, S \cap mStreamsMap) /\ mStreamsMap' = mStreamsMap
    BY <1>2 DEF subscribeToStreams
  <2>2. SubscribersArePolled'
    BY <2>1, JoinLatePolled DEF Service
  <2>3. PendingOnlyForFutureStreams'
    BY <1>2 DEF TypeOK, Service, PendingOnlyForFutureStreams, subscribeToStreams
  <2>4. SubscribedToAllMeansAll'
    <3>1. S \cap mStreamsMap \in SUBSET Streams
      BY DEF TypeOK
    <3>2. \A s \in Streams : DOMAIN mSubscribersMap'[s] =
            DOMAIN mSubscribersMap[s] \cup (IF s \in S \cap mStreamsMap THEN {c} ELSE {})
      BY <2>1, <3>1, JoinLateDomains
    <3> QED BY <1>2, <2>1, <3>1, <3>2
            DEF TypeOK, Service, SubscribedToAllMeansAll, subscribeToStreams, isSubscribed
  <2> QED BY <2>2, <2>3, <2>4 DEF Service
<1>3. ASSUME NEW c \in Contexts, subscribeToAll(c) PROVE Service'
  <2>1. JoinLate(c, mStreamsMap) /\ mStreamsMap' = mStreamsMap
    BY <1>3 DEF subscribeToAll
  <2>2. SubscribersArePolled'
    BY <2>1, JoinLatePolled DEF Service
  <2>3. PendingOnlyForFutureStreams'
    BY <1>3 DEF TypeOK, Service, PendingOnlyForFutureStreams, subscribeToAll
  <2>4. SubscribedToAllMeansAll'
    <3>1. mStreamsMap \in SUBSET Streams
      BY DEF TypeOK
    <3>2. \A s \in Streams : DOMAIN mSubscribersMap'[s] =
            DOMAIN mSubscribersMap[s] \cup (IF s \in mStreamsMap THEN {c} ELSE {})
      BY <2>1, <3>1, JoinLateDomains
    <3> QED BY <1>3, <2>1, <3>1, <3>2
            DEF TypeOK, Service, SubscribedToAllMeansAll, subscribeToAll, isSubscribed
  <2> QED BY <2>2, <2>3, <2>4 DEF Service
<1>4. ASSUME NEW c \in Contexts, getPackets(c) PROVE Service'
  <2>1. \A s \in Streams : DOMAIN mSubscribersMap'[s] = DOMAIN mSubscribersMap[s]
    BY <1>4 DEF getPackets, getNextPackets
  <2> QED BY <1>4, <2>1 DEF TypeOK, Service, PendingOnlyForFutureStreams,
             SubscribedToAllMeansAll, SubscribersArePolled, isSubscribed, getPackets
<1>5. ASSUME NEW c \in Contexts, unsubscribeFromAll(c) PROVE Service'
  BY <1>5, unsubscribeFromAllService
<1>6. CASE getNumberOfSubscribers
  BY <1>6 DEF Service, PendingOnlyForFutureStreams, SubscribedToAllMeansAll,
              SubscribersArePolled, getNumberOfSubscribers
<1>7. CASE unsubscribeAll
  BY <1>7 DEF TypeOK, Service, PendingOnlyForFutureStreams, SubscribedToAllMeansAll,
              SubscribersArePolled, unsubscribeAll, NoSubscribers
<1>8. CASE UNCHANGED vars
  BY <1>8 DEF vars, Service, PendingOnlyForFutureStreams, SubscribedToAllMeansAll,
              SubscribersArePolled
<1> QED BY <1>1, <1>2, <1>3, <1>4, <1>5, <1>6, <1>7, <1>8 DEF Next

\* The three invariants hold at first, ...
LEMMA InitService == Init => Service
BY DEF Init, Service, PendingOnlyForFutureStreams, SubscribedToAllMeansAll,
       SubscribersArePolled, NoSubscribers

\* ... and in every state.
LEMMA ServiceInvariant == Spec => []Service
<1>1. Init => Service
  BY InitService
<1>2. TypeOK /\ Service /\ [Next]_vars => Service'
  BY NextService
<1> QED BY <1>1, <1>2, TypeCorrect, PTL DEF Spec

\* No context waits for a stream that exists: its requests for a stream are
\* filled when the stream is created.
THEOREM PendingIsForTheFuture == Spec => []PendingOnlyForFutureStreams
<1>1. Service => PendingOnlyForFutureStreams
  BY DEF Service
<1> QED BY <1>1, ServiceInvariant, PTL

\* A context that subscribed to all is on every stream, however many appeared
\* after it.
THEOREM AllMeansAll == Spec => []SubscribedToAllMeansAll
<1>1. Service => SubscribedToAllMeansAll
  BY DEF Service
<1> QED BY <1>1, ServiceInvariant, PTL

\* getPackets visits every queue there is: whoever is on a stream is noted as
\* active on it.
THEOREM EveryQueueIsPolled == Spec => []SubscribersArePolled
<1>1. Service => SubscribersArePolled
  BY DEF Service
<1> QED BY <1>1, ServiceInvariant, PTL

-----------------------------------------------------------------------------
(***************************************************************************)
(* One queue, of a stream whose newest packet is n and of a context that   *)
(* has no claim on packet d and those before it.                           *)
(***************************************************************************)
Accounted(queue, n, d) ==
    /\ Len(queue) <= MaximumQueueSize
    /\ Len(queue) <= n
    /\ \A i \in 1..Len(queue) : queue[i] = n - Len(queue) + i
    /\ \/ d + Len(queue) = n
       \/ d + Len(queue) < n /\ Len(queue) = MaximumQueueSize

\* A push keeps a queue accounted for: a full one loses its oldest packet.
LEMMA PushAccounted ==
    ASSUME NEW queue \in Seq(Nat), NEW n \in Nat, NEW d \in Nat,
           Accounted(queue, n, d)
    PROVE  Accounted(Push(queue, n + 1), n + 1, d)
<1> DEFINE q == Push(queue, n + 1)
<1>1. /\ q \in Seq(Nat)
      /\ Len(q) = IF Len(queue) = MaximumQueueSize THEN Len(queue)
                  ELSE Len(queue) + 1
      /\ q[Len(q)] = n + 1
      /\ \A i \in 1..Len(q) - 1 : q[i] = queue[i + Len(queue) + 1 - Len(q)]
  BY PushProperties DEF Accounted
<1> HIDE DEF q
<1>2. Len(queue) \in Nat /\ Len(q) \in Nat /\ MaximumQueueSize \in Nat \ {0}
  BY <1>1, QueueSizeAssumption
<1>3. Len(q) <= MaximumQueueSize /\ Len(q) <= n + 1
  BY <1>1, <1>2 DEF Accounted
<1>4. ASSUME NEW i \in 1..Len(q) PROVE q[i] = n + 1 - Len(q) + i
  <2>1. CASE i = Len(q) BY <1>1, <1>2, <2>1
  <2>2. CASE i # Len(q)
    <3> DEFINE j == i + Len(queue) + 1 - Len(q)
    <3>1. j \in 1..Len(queue) /\ i \in 1..Len(q) - 1 BY <1>1, <1>2, <2>2
    <3>2. q[i] = queue[j] BY <1>1, <3>1
    <3>3. queue[j] = n - Len(queue) + j BY <3>1 DEF Accounted
    <3> QED BY <1>2, <3>2, <3>3
  <2> QED BY <2>1, <2>2
<1>5. \/ d + Len(q) = n + 1
      \/ d + Len(q) < n + 1 /\ Len(q) = MaximumQueueSize
  <2>1. \/ d + Len(queue) = n
        \/ d + Len(queue) < n /\ Len(queue) = MaximumQueueSize
    BY DEF Accounted
  <2>2. CASE Len(queue) = MaximumQueueSize
    <3>1. Len(q) = MaximumQueueSize BY <1>1, <2>2
    <3>2. d + MaximumQueueSize <= n BY <1>2, <2>1, <2>2
    <3> QED BY <1>2, <3>1, <3>2
  <2>3. CASE Len(queue) # MaximumQueueSize
    <3>1. Len(q) = Len(queue) + 1 BY <1>1, <2>3
    <3> QED BY <1>2, <2>1, <2>3, <3>1
  <2> QED BY <2>2, <2>3
<1>6. Accounted(q, n + 1, d) BY <1>3, <1>4, <1>5 DEF Accounted
<1> QED BY <1>6 DEF q

\* The queue of a context that waited for the stream holds its first packet.
LEMMA FirstAccounted == Accounted(<<1>>, 1, 0)
BY QueueSizeAssumption DEF Accounted

\* The queue of a context that joins late is empty.
LEMMA LateAccounted == ASSUME NEW n \in Nat PROVE Accounted(<<>>, n, n)
BY QueueSizeAssumption DEF Accounted

\* To take the first k packets of a queue leaves it accounted for.
LEMMA FetchAccounted ==
    ASSUME NEW queue \in Seq(Nat), NEW n \in Nat, NEW d \in Nat,
           Accounted(queue, n, d), NEW k \in 1..Len(queue)
    PROVE  Accounted(SubSeq(queue, k + 1, Len(queue)), n, queue[k])
<1> DEFINE q == SubSeq(queue, k + 1, Len(queue))
<1>1. Len(queue) \in Nat /\ MaximumQueueSize \in Nat
  BY QueueSizeAssumption
<1>2. /\ Len(q) = Len(queue) - k
      /\ \A i \in 1..Len(q) : q[i] = queue[i + k]
  BY <1>1
<1> HIDE DEF q
<1>3. ASSUME NEW i \in 1..Len(q) PROVE q[i] = n - Len(q) + i
  <2>1. i + k \in 1..Len(queue) BY <1>1, <1>2
  <2>2. queue[i + k] = n - Len(queue) + (i + k) BY <2>1 DEF Accounted
  <2>3. q[i] = queue[i + k] BY <1>2
  <2> QED BY <1>1, <1>2, <2>2, <2>3
<1>4. queue[k] = n - Len(queue) + k BY DEF Accounted
<1>5. /\ Len(q) <= MaximumQueueSize /\ Len(q) <= n
      /\ queue[k] + Len(q) = n
  BY <1>1, <1>2, <1>4 DEF Accounted
<1>6. Accounted(q, n, queue[k]) BY <1>3, <1>5 DEF Accounted
<1> QED BY <1>6 DEF q

-----------------------------------------------------------------------------
(***************************************************************************)
(* All the queues.                                                         *)
(***************************************************************************)
Queues ==
    \A s \in Streams : \A c \in DOMAIN mSubscribersMap[s] :
        Accounted(mSubscribersMap[s][c], mMostRecentPacket[s], delivered[c][s])

\* A stream that does not exist has published and delivered nothing.
FutureStreamsAreEmpty ==
    \A s \in Streams \ mStreamsMap :
        mMostRecentPacket[s] = 0 /\ \A c \in Contexts : delivered[c][s] = 0

\* What the types say of one queue.
LEMMA QueueTypes ==
    ASSUME TypeOK, NEW s \in Streams, NEW c \in DOMAIN mSubscribersMap[s]
    PROVE  /\ c \in Contexts /\ mSubscribersMap[s][c] \in Seq(Nat)
           /\ mMostRecentPacket[s] \in Nat /\ delivered[c][s] \in Nat
BY DEF TypeOK, IsQueueMap

\* An enqueued packet extends each queue's run by one, or shifts it.
LEMMA enqueuePacketQueues ==
    ASSUME TypeOK, Queues, FutureStreamsAreEmpty,
           NEW s \in Streams, enqueuePacket(s)
    PROVE  Queues' /\ FutureStreamsAreEmpty'
<1> DEFINE n == mMostRecentPacket[s]
<1>1. /\ mMostRecentPacket'[s] = n + 1 /\ n \in Nat
      /\ \A t \in Streams \ {s} : mMostRecentPacket'[t] = mMostRecentPacket[t]
      /\ delivered' = delivered
  BY DEF TypeOK, enqueuePacket, EnqueueOnExistingStream, EnqueueOnNewStream
<1>2. s \in mStreamsMap' /\ mStreamsMap \subseteq mStreamsMap'
  BY DEF enqueuePacket, EnqueueOnExistingStream, EnqueueOnNewStream
<1>3. \A t \in Streams \ {s} : mSubscribersMap'[t] = mSubscribersMap[t]
  BY DEF TypeOK, enqueuePacket, EnqueueOnExistingStream, EnqueueOnNewStream
<1>4. FutureStreamsAreEmpty' BY <1>1, <1>2 DEF FutureStreamsAreEmpty
<1>5. ASSUME NEW c \in DOMAIN mSubscribersMap'[s]
      PROVE  Accounted(mSubscribersMap'[s][c], n + 1, delivered[c][s])
  <2>1. CASE EnqueueOnExistingStream(s)
    <3>1. /\ c \in DOMAIN mSubscribersMap[s]
          /\ mSubscribersMap'[s][c] = Push(mSubscribersMap[s][c], n + 1)
      BY <1>1, <1>5, <2>1 DEF TypeOK, EnqueueOnExistingStream, setNextPacket
    <3>2. Accounted(mSubscribersMap[s][c], n, delivered[c][s])
      BY <3>1 DEF Queues
    <3> QED BY <1>1, <3>1, <3>2, QueueTypes, PushAccounted
  <2>2. CASE EnqueueOnNewStream(s)
    <3>1. c \in Waiting(s) /\ mSubscribersMap'[s][c] = <<n + 1>>
      BY <1>1, <1>5, <2>2 DEF TypeOK, EnqueueOnNewStream
    <3>2. c \in Contexts BY <3>1 DEF TypeOK, Waiting
    <3>3. n = 0 /\ delivered[c][s] = 0
      BY <2>2, <3>2 DEF FutureStreamsAreEmpty, EnqueueOnNewStream
    <3> QED BY <3>1, <3>3, FirstAccounted
  <2> QED BY <2>1, <2>2 DEF enqueuePacket
<1>6. ASSUME NEW t \in Streams, NEW c \in DOMAIN mSubscribersMap'[t]
      PROVE  Accounted(mSubscribersMap'[t][c], mMostRecentPacket'[t],
                       delivered'[c][t])
  BY <1>1, <1>3, <1>5, <1>6 DEF Queues
<1>7. Queues' BY <1>6 DEF Queues
<1> QED BY <1>4, <1>7

\* A context that joins late starts with the newest packet.
LEMMA JoinLateQueues ==
    ASSUME TypeOK, Queues, FutureStreamsAreEmpty,
           mStreamsMap' = mStreamsMap, mMostRecentPacket' = mMostRecentPacket,
           NEW c \in Contexts, NEW S \in SUBSET mStreamsMap, JoinLate(c, S)
    PROVE  Queues' /\ FutureStreamsAreEmpty'
<1> DEFINE joined == {s \in S : ~isSubscribed(mSubscribersMap[s], c)}
<1>1. /\ joined \subseteq mStreamsMap /\ mStreamsMap \subseteq Streams
      /\ \A s \in joined : c \notin DOMAIN mSubscribersMap[s]
  BY DEF TypeOK, isSubscribed
<1>2. /\ mSubscribersMap' = [s \in Streams |->
             IF s \in joined THEN subscribe(mSubscribersMap[s], c, <<>>)
                             ELSE mSubscribersMap[s]]
      /\ delivered' = [delivered EXCEPT ![c] = [s \in Streams |->
             IF s \in joined THEN mMostRecentPacket[s] ELSE @[s]]]
  BY DEF JoinLate
<1> HIDE DEF joined
<1>3. \A d \in Contexts, s \in Streams : delivered'[d][s] =
         IF d = c /\ s \in joined THEN mMostRecentPacket[s] ELSE delivered[d][s]
  BY <1>2 DEF TypeOK
<1>4. FutureStreamsAreEmpty' BY <1>1, <1>3 DEF FutureStreamsAreEmpty
<1>5. ASSUME NEW s \in Streams, NEW d \in DOMAIN mSubscribersMap'[s]
      PROVE  Accounted(mSubscribersMap'[s][d], mMostRecentPacket[s],
                       delivered'[d][s])
  <2>1. CASE d \in DOMAIN mSubscribersMap[s]
    <3>1. mSubscribersMap'[s][d] = mSubscribersMap[s][d]
      BY <1>2, <2>1 DEF subscribe
    <3>2. delivered'[d][s] = delivered[d][s]
      BY <1>1, <1>3, <2>1, QueueTypes
    <3> QED BY <2>1, <3>1, <3>2 DEF Queues
  <2>2. CASE d \notin DOMAIN mSubscribersMap[s]
    <3>1. s \in joined /\ d = c /\ mSubscribersMap'[s][d] = <<>>
      BY <1>2, <1>5, <2>2 DEF subscribe
    <3>2. delivered'[d][s] = mMostRecentPacket[s] BY <1>3, <3>1
    <3>3. mMostRecentPacket[s] \in Nat BY DEF TypeOK
    <3> QED BY <3>1, <3>2, <3>3, LateAccounted
  <2> QED BY <2>1, <2>2
<1>6. Queues' BY <1>5 DEF Queues
<1> QED BY <1>4, <1>6

\* What a poll takes is a run that continues what was delivered before.
LEMMA getPacketsQueues ==
    ASSUME TypeOK, Service, Queues, FutureStreamsAreEmpty,
           NEW c \in Contexts, getPackets(c)
    PROVE  Queues' /\ FutureStreamsAreEmpty'
<1>1. UNCHANGED <<mStreamsMap, mMostRecentPacket>> BY DEF getPackets
<1>2. \A d \in Contexts, s \in Streams : delivered'[d][s] =
         IF d = c /\ Returned(c, s) # 0 THEN mSubscribersMap[s][c][Returned(c, s)]
                                        ELSE delivered[d][s]
  BY DEF TypeOK, getPackets
<1>3. FutureStreamsAreEmpty'
  <2>1. ASSUME NEW s \in Streams \ mStreamsMap PROVE Returned(c, s) = 0
    BY <2>1 DEF Service, SubscribersArePolled, Returned, NumberReturned,
       isSubscribed
  <2> QED BY <1>1, <1>2, <2>1 DEF FutureStreamsAreEmpty
<1>4. ASSUME NEW s \in Streams, NEW d \in DOMAIN mSubscribersMap'[s]
      PROVE  Accounted(mSubscribersMap'[s][d], mMostRecentPacket[s],
                       delivered'[d][s])
  <2> DEFINE queue == mSubscribersMap[s][d]
             k == Returned(c, s)
  <2>1. /\ d \in DOMAIN mSubscribersMap[s]
        /\ mSubscribersMap'[s][d] =
             IF d # c THEN queue ELSE SubSeq(queue, k + 1, Len(queue))
    BY <1>4 DEF getPackets, getNextPackets, Returned
  <2>2. /\ d \in Contexts /\ queue \in Seq(Nat)
        /\ mMostRecentPacket[s] \in Nat /\ delivered[d][s] \in Nat
    BY <2>1, QueueTypes
  <2>3. Accounted(queue, mMostRecentPacket[s], delivered[d][s])
    BY <2>1 DEF Queues
  <2>4. CASE d # c \/ k = 0
    <3>1. mSubscribersMap'[s][d] = queue
      <4>1. SubSeq(queue, 1, Len(queue)) = queue BY <2>2
      <4>2. k = 0 => k + 1 = 1 OBVIOUS
      <4> QED BY <2>1, <2>4, <4>1, <4>2
    <3>2. delivered'[d][s] = delivered[d][s] BY <1>2, <2>2, <2>4
    <3> QED BY <2>3, <3>1, <3>2
  <2>5. CASE d = c /\ k # 0
    <3>1. k \in 1..Len(queue)
      BY <2>1, <2>5, TurnsType, NumberReturnedType DEF TypeOK, Returned
    <3>2. delivered'[d][s] = queue[k] BY <1>2, <2>2, <2>5
    <3>3. Accounted(SubSeq(queue, k + 1, Len(queue)), mMostRecentPacket[s],
                    queue[k])
      BY <2>2, <2>3, <3>1, FetchAccounted
    <3> QED BY <2>1, <2>5, <3>2, <3>3
  <2> QED BY <2>4, <2>5
<1>5. Queues' BY <1>1, <1>4 DEF Queues
<1> QED BY <1>3, <1>5

\* Every step keeps the queues accounted for.
LEMMA NextQueues ==
    ASSUME TypeOK, Service, Queues, FutureStreamsAreEmpty, [Next]_vars
    PROVE  Queues' /\ FutureStreamsAreEmpty'
<1>1. ASSUME NEW s \in Streams, enqueuePacket(s)
      PROVE  Queues' /\ FutureStreamsAreEmpty'
  BY <1>1, enqueuePacketQueues
<1>2. ASSUME NEW c \in Contexts, NEW S \in SUBSET Streams,
             subscribeToStreams(c, S)
      PROVE  Queues' /\ FutureStreamsAreEmpty'
  <2>1. /\ JoinLate(c, S \cap mStreamsMap) /\ mStreamsMap' = mStreamsMap
        /\ mMostRecentPacket' = mMostRecentPacket
    BY <1>2 DEF subscribeToStreams
  <2> QED BY <2>1, JoinLateQueues
<1>3. ASSUME NEW c \in Contexts, subscribeToAll(c)
      PROVE  Queues' /\ FutureStreamsAreEmpty'
  <2>1. /\ JoinLate(c, mStreamsMap) /\ mStreamsMap' = mStreamsMap
        /\ mMostRecentPacket' = mMostRecentPacket
    BY <1>3 DEF subscribeToAll
  <2> QED BY <2>1, JoinLateQueues
<1>4. ASSUME NEW c \in Contexts, getPackets(c)
      PROVE  Queues' /\ FutureStreamsAreEmpty'
  BY <1>4, getPacketsQueues
<1>5. ASSUME NEW c \in Contexts, unsubscribeFromAll(c)
      PROVE  Queues' /\ FutureStreamsAreEmpty'
  <2>1. UNCHANGED <<mStreamsMap, mMostRecentPacket, delivered>>
    BY <1>5 DEF unsubscribeFromAll
  <2>2. \A s \in Streams : \A d \in DOMAIN mSubscribersMap'[s] :
            /\ d \in DOMAIN mSubscribersMap[s]
            /\ mSubscribersMap'[s][d] = mSubscribersMap[s][d]
    BY <1>5 DEF unsubscribeFromAll, PurgeFromStreams, unsubscribe
  <2> QED BY <2>1, <2>2 DEF Queues, FutureStreamsAreEmpty
<1>6. CASE unsubscribeAll
  <2>1. \A s \in Streams : DOMAIN mSubscribersMap'[s] = {}
    BY <1>6 DEF unsubscribeAll, NoSubscribers
  <2> QED BY <1>6, <2>1 DEF unsubscribeAll, Queues, FutureStreamsAreEmpty
<1>7. CASE getNumberOfSubscribers \/ UNCHANGED vars
  BY <1>7 DEF getNumberOfSubscribers, vars, Queues, FutureStreamsAreEmpty
<1> QED BY <1>1, <1>2, <1>3, <1>4, <1>5, <1>6, <1>7 DEF Next

\* Queues hold what their contexts have yet to get, in every state.
LEMMA QueuesInvariant == Spec => [](Queues /\ FutureStreamsAreEmpty)
<1>1. Init => Queues /\ FutureStreamsAreEmpty
  BY DEF Init, Queues, FutureStreamsAreEmpty, NoSubscribers
<1>2. TypeOK /\ Service /\ (Queues /\ FutureStreamsAreEmpty) /\ [Next]_vars
        => (Queues /\ FutureStreamsAreEmpty)'
  BY NextQueues
<1> QED BY <1>1, <1>2, TypeCorrect, ServiceInvariant, PTL DEF Spec

\* Whatever its size, a queue holds an unbroken run of packets up to the newest.
THEOREM NewestAreQueued == Spec => []QueueHoldsNewest
<1>1. Queues => QueueHoldsNewest BY DEF Queues, QueueHoldsNewest, Accounted
<1> QED BY <1>1, QueuesInvariant, PTL

\* A subscriber misses a packet only when its queue is full.
THEOREM OnlyOverflowLoses == Spec => []LossOnlyByOverflow
<1>1. TypeOK /\ Queues => LossOnlyByOverflow
  BY DEF Queues, LossOnlyByOverflow, Accounted
<1> QED BY <1>1, QueuesInvariant, TypeCorrect, PTL

-----------------------------------------------------------------------------
(***************************************************************************)
(* Who is counted.                                                         *)
(***************************************************************************)

\* A new stream turns requests into subscriptions of the same contexts.
LEMMA enqueuePacketCount ==
    ASSUME TypeOK, NEW s \in Streams, enqueuePacket(s)
    PROVE  AllSubscribers' = AllSubscribers
<1>1. CASE EnqueueOnExistingStream(s)
  BY <1>1 DEF enqueuePacket, EnqueueOnExistingStream, AllSubscribers
<1>2. CASE EnqueueOnNewStream(s)
  <2>1. ASSUME NEW c \in Contexts
        PROVE  c \in AllSubscribers' <=> c \in AllSubscribers
    <3>1. /\ mActiveSubscriptionsMap'[c] = IF c \in Waiting(s)
                THEN mActiveSubscriptionsMap[c] \cup {s}
                ELSE mActiveSubscriptionsMap[c]
          /\ mPendingSubscriptionRequests'[c] =
                mPendingSubscriptionRequests[c] \ {s}
          /\ mPendingSubscribeToAllRequests' = mPendingSubscribeToAllRequests
      BY <1>2 DEF TypeOK, enqueuePacket, EnqueueOnNewStream
    <3>2. c \in Waiting(s) <=> \/ c \in mPendingSubscribeToAllRequests
                               \/ s \in mPendingSubscriptionRequests[c]
      BY DEF Waiting
    <3>3. CASE s \in mPendingSubscriptionRequests[c]
      <4>1. c \in AllSubscribers BY <3>3 DEF AllSubscribers
      <4>2. mActiveSubscriptionsMap'[c] # {} BY <3>1, <3>2, <3>3
      <4> QED BY <4>1, <4>2 DEF AllSubscribers
    <3>4. CASE s \notin mPendingSubscriptionRequests[c]
      <4>1. mPendingSubscriptionRequests'[c] = mPendingSubscriptionRequests[c]
        BY <3>1, <3>4
      <4>2. \/ mActiveSubscriptionsMap'[c] = mActiveSubscriptionsMap[c]
            \/ c \in mPendingSubscribeToAllRequests
        BY <3>1, <3>2, <3>4
      <4> QED BY <3>1, <4>1, <4>2 DEF AllSubscribers
    <3> QED BY <3>3, <3>4
  <2>2. AllSubscribers' \subseteq Contexts /\ AllSubscribers \subseteq Contexts
    BY DEF TypeOK, enqueuePacket, AllSubscribers
  <2> QED BY <2>1, <2>2
<1> QED BY <1>1, <1>2 DEF enqueuePacket

\* The count that admits clients is never stale: whatever is done without
\* marking it leaves the same contexts to be counted.
THEOREM CountIsFresh == Spec => []CachedCountIsFresh
<1>1. Init => CachedCountIsFresh BY DEF Init, CachedCountIsFresh
<1>2. ASSUME TypeOK, CachedCountIsFresh, [Next]_vars
      PROVE  CachedCountIsFresh'
  <2> USE <1>2 DEF CachedCountIsFresh
  <2>1. ASSUME NEW s \in Streams, enqueuePacket(s) PROVE CachedCountIsFresh'
    BY <2>1, enqueuePacketCount DEF enqueuePacket
  <2>2. ASSUME NEW c \in Contexts, NEW S \in SUBSET Streams,
               subscribeToStreams(c, S)
        PROVE  CachedCountIsFresh'
    BY <2>2 DEF subscribeToStreams
  <2>3. ASSUME NEW c \in Contexts, subscribeToAll(c) PROVE CachedCountIsFresh'
    BY <2>3 DEF subscribeToAll
  <2>4. ASSUME NEW c \in Contexts, getPackets(c) PROVE CachedCountIsFresh'
    BY <2>4 DEF getPackets, AllSubscribers
  <2>5. ASSUME NEW c \in Contexts, unsubscribeFromAll(c)
        PROVE  CachedCountIsFresh'
    BY <2>5 DEF unsubscribeFromAll
  <2>6. CASE getNumberOfSubscribers
    BY <2>6 DEF getNumberOfSubscribers, AllSubscribers, TypeOK
  <2>7. CASE unsubscribeAll BY <2>7 DEF unsubscribeAll
  <2>8. CASE UNCHANGED vars BY <2>8 DEF vars, AllSubscribers
  <2> QED BY <2>1, <2>2, <2>3, <2>4, <2>5, <2>6, <2>7, <2>8 DEF Next
<1> QED BY <1>1, <1>2, TypeCorrect, PTL DEF Spec

-----------------------------------------------------------------------------
(***************************************************************************)
(* Who has left.                                                           *)
(***************************************************************************)

\* The streams a context polls exist.
PolledExist == \A c \in Contexts : mActiveSubscriptionsMap[c] \subseteq mStreamsMap

\* Only streams that exist are polled, in every state.
LEMMA PolledExistInvariant == Spec => []PolledExist
<1>1. Init => PolledExist BY DEF Init, PolledExist
<1>2. ASSUME TypeOK, PolledExist, [Next]_vars PROVE PolledExist'
  <2> USE <1>2 DEF TypeOK, PolledExist
  <2>1. ASSUME NEW s \in Streams, enqueuePacket(s) PROVE PolledExist'
    <3>1. CASE EnqueueOnExistingStream(s) BY <3>1 DEF EnqueueOnExistingStream
    <3>2. CASE EnqueueOnNewStream(s)
      <4>1. mStreamsMap' = mStreamsMap \cup {s} BY <3>2 DEF EnqueueOnNewStream
      <4>2. \A c \in Contexts : mActiveSubscriptionsMap'[c] \subseteq
                                  mActiveSubscriptionsMap[c] \cup {s}
        BY <3>2 DEF EnqueueOnNewStream
      <4> QED BY <4>1, <4>2
    <3> QED BY <2>1, <3>1, <3>2 DEF enqueuePacket
  <2>2. ASSUME NEW c \in Contexts, NEW S \in SUBSET Streams,
               subscribeToStreams(c, S)
        PROVE  PolledExist'
    BY <2>2 DEF subscribeToStreams, JoinLate
  <2>3. ASSUME NEW c \in Contexts, subscribeToAll(c) PROVE PolledExist'
    BY <2>3 DEF subscribeToAll, JoinLate
  <2>4. ASSUME NEW c \in Contexts, getPackets(c) PROVE PolledExist'
    BY <2>4 DEF getPackets
  <2>5. ASSUME NEW c \in Contexts, unsubscribeFromAll(c) PROVE PolledExist'
    BY <2>5 DEF unsubscribeFromAll
  <2>6. CASE getNumberOfSubscribers \/ unsubscribeAll \/ UNCHANGED vars
    BY <2>6 DEF getNumberOfSubscribers, unsubscribeAll, vars
  <2> QED BY <2>1, <2>2, <2>3, <2>4, <2>5, <2>6 DEF Next
<1> QED BY <1>1, <1>2, TypeCorrect, PTL DEF Spec

\* Nothing is left of a context that unsubscribes from all.
THEOREM LeaversAreForgotten == Spec => UnsubscribedIsForgotten
<1> DEFINE Forgotten(c) ==
             unsubscribeFromAll(c) =>
               /\ c \notin AllSubscribers'
               /\ \A s \in Streams : c \notin DOMAIN mSubscribersMap'[s]
<1>1. ASSUME TypeOK, Service, PolledExist, NEW c \in Contexts,
             unsubscribeFromAll(c)
      PROVE  /\ c \notin AllSubscribers'
             /\ \A s \in Streams : c \notin DOMAIN mSubscribersMap'[s]
  <2>1. /\ mPendingSubscriptionRequests'[c] = {}
        /\ c \notin mPendingSubscribeToAllRequests'
    BY <1>1 DEF TypeOK, unsubscribeFromAll
  <2>2. mActiveSubscriptionsMap'[c] = {}
    <3>1. CASE mActiveSubscriptionsMap[c] = {}
      BY <1>1, <3>1 DEF TypeOK, unsubscribeFromAll
    <3>2. CASE mActiveSubscriptionsMap[c] # {}
      <4>1. mStreamsMap # {} BY <1>1, <3>2 DEF PolledExist
      <4> QED BY <1>1, <3>2, <4>1 DEF TypeOK, unsubscribeFromAll
    <3> QED BY <3>1, <3>2
  <2>3. \A s \in Streams : c \notin DOMAIN mSubscribersMap'[s]
    BY <1>1 DEF Service, SubscribersArePolled, unsubscribeFromAll,
       PurgeFromStreams, unsubscribe
  <2> QED BY <2>1, <2>2, <2>3 DEF AllSubscribers
<1>2. TypeOK /\ Service /\ PolledExist /\ [Next]_vars =>
        [\A c \in Contexts : Forgotten(c)]_vars
  BY <1>1
<1> QED BY <1>2, TypeCorrect, ServiceInvariant, PolledExistInvariant, PTL
        DEF Spec, UnsubscribedIsForgotten
================================================================================
