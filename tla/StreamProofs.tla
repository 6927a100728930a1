----------------------------- MODULE StreamProofs -----------------------------
(***************************************************************************)
(* What the operators of Stream return, for any contexts and queue size.   *)
(***************************************************************************)
EXTENDS Stream, TLAPS

\* A push keeps the newer packets and appends the new one; it lengthens the
\* queue unless the queue is full.
LEMMA PushProperties ==
    ASSUME NEW queue \in Seq(Nat), NEW packet \in Nat,
           Len(queue) <= MaximumQueueSize
    PROVE  /\ Push(queue, packet) \in Seq(Nat)
           /\ Len(Push(queue, packet)) = IF Len(queue) = MaximumQueueSize
                                           THEN Len(queue) ELSE Len(queue) + 1
           /\ Push(queue, packet)[Len(Push(queue, packet))] = packet
           /\ \A i \in 1..Len(Push(queue, packet)) - 1 :
                Push(queue, packet)[i] =
                  queue[i + Len(queue) + 1 - Len(Push(queue, packet))]
<1>1. CASE Len(queue) >= MaximumQueueSize
  <2>1. queue # <<>> /\ Tail(queue) \in Seq(Nat) /\ Len(Tail(queue)) = Len(queue) - 1
    BY <1>1, QueueSizeAssumption
  <2>2. \A i \in 1..Len(queue) - 1 : Tail(queue)[i] = queue[i + 1]
    BY <2>1
  <2>3. Len(queue) = MaximumQueueSize
    BY <1>1, QueueSizeAssumption
  <2>4. Push(queue, packet) = Append(Tail(queue), packet)
    BY <1>1 DEF Push
  <2>5. Len(Push(queue, packet)) = Len(queue)
    BY <2>1, <2>4
  <2> HIDE DEF Push
  <2>6. \A i \in 1..Len(queue) - 1 : Push(queue, packet)[i] = Tail(queue)[i]
    BY <2>1, <2>4
  <2>7. Push(queue, packet)[Len(queue)] = packet
    BY <2>1, <2>4
  <2>8. Push(queue, packet) \in Seq(Nat)
    BY <2>1, <2>4
  <2> QED BY <2>2, <2>3, <2>5, <2>6, <2>7, <2>8
<1>2. CASE ~(Len(queue) >= MaximumQueueSize)
  BY <1>2, QueueSizeAssumption DEF Push
<1> QED BY <1>1, <1>2

\* A queue that is pushed to is a queue.
LEMMA PushType ==
    ASSUME NEW queue \in Seq(Nat), NEW packet \in Nat
    PROVE  Push(queue, packet) \in Seq(Nat)
<1>1. CASE Len(queue) >= MaximumQueueSize
  <2>1. Tail(queue) \in Seq(Nat)
    BY <1>1, QueueSizeAssumption
  <2> QED BY <1>1, <2>1 DEF Push
<1> QED BY <1>1 DEF Push

\* A packet for every subscriber leaves every queue one.
LEMMA setNextPacketType ==
    ASSUME NEW m, IsQueueMap(m), NEW packet \in Nat
    PROVE  IsQueueMap(setNextPacket(m, packet))
BY PushType DEF IsQueueMap, setNextPacket

\* So does a new subscriber, ...
LEMMA subscribeType ==
    ASSUME NEW m, IsQueueMap(m), NEW c \in Contexts, NEW first \in Seq(Nat)
    PROVE  IsQueueMap(subscribe(m, c, first))
BY DEF IsQueueMap, subscribe

\* ... one less, ...
LEMMA unsubscribeType ==
    ASSUME NEW m, IsQueueMap(m), NEW c
    PROVE  IsQueueMap(unsubscribe(m, c))
BY DEF IsQueueMap, unsubscribe

\* Fetching n packets returns as many of them as there are.
LEMMA NumberReturnedType ==
    ASSUME NEW m, IsQueueMap(m), NEW c, NEW n \in Nat
    PROVE  /\ NumberReturned(m, c, n) \in Nat
           /\ c \in DOMAIN m => NumberReturned(m, c, n) <= Len(m[c])
           /\ c \in DOMAIN m /\ n > 0 /\ m[c] # <<>> => NumberReturned(m, c, n) > 0
BY DEF IsQueueMap, NumberReturned, isSubscribed

\* ... a poll, ...
LEMMA getNextPacketsType ==
    ASSUME NEW m, IsQueueMap(m), NEW c, NEW n \in Nat
    PROVE  IsQueueMap(getNextPackets(m, c, n))
<1>1. ASSUME c \in DOMAIN m
      PROVE  SubSeq(m[c], NumberReturned(m, c, n) + 1, Len(m[c])) \in Seq(Nat)
  <2>1. m[c] \in Seq(Nat)
    BY <1>1 DEF IsQueueMap
  <2> QED BY <2>1, <1>1, NumberReturnedType
<1> QED BY <1>1 DEF IsQueueMap, getNextPackets

\* ... and a stream starts so.
LEMMA NoSubscribersType == IsQueueMap(NoSubscribers)
BY DEF IsQueueMap, NoSubscribers
===============================================================================
