------------------------------- MODULE Stream -------------------------------
(***************************************************************************)
(* One data stream, src/src/stream.cpp.                                    *)
(*                                                                         *)
(* A Stream keeps the most recent packet of one channel and, for each      *)
(* subscribed context (the address of an RPC), a bounded FIFO queue of the *)
(* packets that the context has not fetched yet.  The map from contexts to *)
(* queues is a function whose domain is the set of subscribed contexts; a  *)
(* packet is its serial number in its stream.                              *)
(*                                                                         *)
(* The operators below are what one undisturbed call does to that map.     *)
(* SubscriptionManager composes them into whole operations;                *)
(* SubscriptionManagerThreads takes them apart again where the code takes  *)
(* no lock.                                                                *)
(***************************************************************************)
EXTENDS Integers, Sequences, FiniteSets

CONSTANTS Contexts,          \* addresses of the RPCs that may subscribe
          MaximumQueueSize   \* StreamOptions::mMaximumQueueSize

\* StreamOptions::setMaximumQueueSize throws unless the size is positive.
ASSUME QueueSizeAssumption == MaximumQueueSize \in Nat \ {0}

\* What mSubscribersMap can hold.
IsQueueMap(subscribers) ==
    /\ DOMAIN subscribers \in SUBSET Contexts
    /\ subscribers \in [DOMAIN subscribers -> Seq(Nat)]

NoSubscribers == [c \in {} |-> <<>>]

\* Fault: a full queue turns the newest packet away.
Push_KeepsOldest(queue, packet) ==
    IF Len(queue) >= MaximumQueueSize THEN queue ELSE Append(queue, packet)

\* The oldest packet makes room for the newest one.
Push(queue, packet) ==
    Append(IF Len(queue) >= MaximumQueueSize THEN Tail(queue) ELSE queue, packet)

setNextPacket(subscribers, packet) ==
    [c \in DOMAIN subscribers |-> Push(subscribers[c], packet)]

\* A context that is already subscribed keeps its queue.
subscribe(subscribers, c, firstPackets) ==
    [d \in DOMAIN subscribers \cup {c} |->
        IF d \in DOMAIN subscribers THEN subscribers[d] ELSE firstPackets]

unsubscribe(subscribers, c) ==
    [d \in DOMAIN subscribers \ {c} |-> subscribers[d]]

isSubscribed(subscribers, c) == c \in DOMAIN subscribers

\* How many packets n successive calls of getNextPacket return to c.
NumberReturned(subscribers, c, n) ==
    IF ~isSubscribed(subscribers, c) THEN 0
    ELSE IF n <= Len(subscribers[c]) THEN n ELSE Len(subscribers[c])

\* The map after n successive calls of getNextPacket by c.
getNextPackets(subscribers, c, n) ==
    [d \in DOMAIN subscribers |->
        IF d # c THEN subscribers[d]
        ELSE SubSeq(subscribers[c],
                    NumberReturned(subscribers, c, n) + 1,
                    Len(subscribers[c]))]
=============================================================================
