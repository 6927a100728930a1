------------------------ MODULE SubscriptionManager -------------------------
(***************************************************************************)
(* The subscription manager, src/src/subscriptionManager.cpp: it matches   *)
(* the packets the import thread enqueues with the RPCs that want them.    *)
(*                                                                         *)
(* Each action is one whole call of a public operation, undisturbed by any *)
(* other: the contract a caller and the unit tests rely on.  Interleaved   *)
(* calls are the subject of SubscriptionManagerThreads.                    *)
(***************************************************************************)
EXTENDS Stream

CONSTANTS Streams,         \* the names streams can have
          MaximumPackets   \* bound: packets ever published on one stream

ASSUME ContextsAssumption == IsFiniteSet(Contexts)
ASSUME PacketsAssumption == MaximumPackets \in Nat

VARIABLES mStreamsMap,                    \* the streams that exist
          mMostRecentPacket,              \* per stream, 0 before it exists
          mSubscribersMap,                \* per stream, context -> queue
          mActiveSubscriptionsMap,        \* context -> streams to poll
          mPendingSubscriptionRequests,   \* context -> streams yet to appear
          mPendingSubscribeToAllRequests, \* contexts that want every stream
          mNumberOfSubscribers,           \* cached count, -1 when stale
          delivered                       \* history: see below

(***************************************************************************)
(* delivered[c][s] is the last packet of s that c has no claim on any      *)
(* more: the one getPackets returned to it last or, before that, the one   *)
(* that was already there when c joined.                                   *)
(***************************************************************************)

vars == <<mStreamsMap, mMostRecentPacket, mSubscribersMap,
          mActiveSubscriptionsMap, mPendingSubscriptionRequests,
          mPendingSubscribeToAllRequests, mNumberOfSubscribers, delivered>>

TypeOK ==
    /\ mStreamsMap \in SUBSET Streams
    /\ mMostRecentPacket \in [Streams -> Nat]
    /\ mSubscribersMap = [s \in Streams |-> mSubscribersMap[s]]
    /\ \A s \in Streams : IsQueueMap(mSubscribersMap[s])
    /\ mActiveSubscriptionsMap \in [Contexts -> SUBSET Streams]
    /\ mPendingSubscriptionRequests \in [Contexts -> SUBSET Streams]
    /\ mPendingSubscribeToAllRequests \in SUBSET Contexts
    /\ mNumberOfSubscribers \in Nat \cup {-1}
    /\ delivered \in [Contexts -> [Streams -> Nat]]

Init ==
    /\ mStreamsMap = {}
    /\ mMostRecentPacket = [s \in Streams |-> 0]
    /\ mSubscribersMap = [s \in Streams |-> NoSubscribers]
    /\ mActiveSubscriptionsMap = [c \in Contexts |-> {}]
    /\ mPendingSubscriptionRequests = [c \in Contexts |-> {}]
    /\ mPendingSubscribeToAllRequests = {}
    /\ mNumberOfSubscribers = -1
    /\ delivered = [c \in Contexts |-> [s \in Streams |-> 0]]

\* Fault: whoever subscribed to all is not told of a new stream.
Waiting_RequestsOnly(s) == {c \in Contexts : s \in mPendingSubscriptionRequests[c]}

-----------------------------------------------------------------------------
\* The contexts waiting for stream s when it appears.
Waiting(s) ==
    mPendingSubscribeToAllRequests
        \cup {c \in Contexts : s \in mPendingSubscriptionRequests[c]}

\* Stream s exists: its subscribers get the packet.
EnqueueOnExistingStream(s) ==
    /\ s \in mStreamsMap
    /\ mSubscribersMap' =
         [mSubscribersMap EXCEPT ![s] = setNextPacket(@, mMostRecentPacket'[s])]
    /\ UNCHANGED <<mStreamsMap, mActiveSubscriptionsMap,
                   mPendingSubscriptionRequests, delivered>>

\* Fault: a filled request stays pending.
EnqueueOnNewStream_KeepsRequests(s) ==
    /\ s \notin mStreamsMap
    /\ mStreamsMap' = mStreamsMap \cup {s}
    /\ mSubscribersMap' = [mSubscribersMap EXCEPT ![s] =
                             [c \in Waiting(s) |-> <<mMostRecentPacket'[s]>>]]
    /\ mActiveSubscriptionsMap' =
         [c \in Contexts |-> IF c \in Waiting(s)
                               THEN mActiveSubscriptionsMap[c] \cup {s}
                               ELSE mActiveSubscriptionsMap[c]]
    /\ UNCHANGED <<mPendingSubscriptionRequests, delivered>>

\* Fault: those waiting for the stream join it without its first packet.
EnqueueOnNewStream_WithoutPacket(s) ==
    /\ s \notin mStreamsMap
    /\ mStreamsMap' = mStreamsMap \cup {s}
    /\ mSubscribersMap' =
         [mSubscribersMap EXCEPT ![s] = [c \in Waiting(s) |-> <<>>]]
    /\ mActiveSubscriptionsMap' =
         [c \in Contexts |-> IF c \in Waiting(s)
                               THEN mActiveSubscriptionsMap[c] \cup {s}
                               ELSE mActiveSubscriptionsMap[c]]
    /\ mPendingSubscriptionRequests' =
         [c \in Contexts |-> mPendingSubscriptionRequests[c] \ {s}]
    /\ UNCHANGED delivered

(***************************************************************************)
(* The first packet of s creates the stream; whoever waits for it is       *)
(* subscribed and finds that packet in the queue.                          *)
(***************************************************************************)
EnqueueOnNewStream(s) ==
    /\ s \notin mStreamsMap
    /\ mStreamsMap' = mStreamsMap \cup {s}
    /\ mSubscribersMap' = [mSubscribersMap EXCEPT ![s] =
                             [c \in Waiting(s) |-> <<mMostRecentPacket'[s]>>]]
    /\ mActiveSubscriptionsMap' =
         [c \in Contexts |-> IF c \in Waiting(s)
                               THEN mActiveSubscriptionsMap[c] \cup {s}
                               ELSE mActiveSubscriptionsMap[c]]
    /\ mPendingSubscriptionRequests' =
         [c \in Contexts |-> mPendingSubscriptionRequests[c] \ {s}]
    /\ UNCHANGED delivered

enqueuePacket(s) ==
    /\ mMostRecentPacket[s] < MaximumPackets
    /\ mMostRecentPacket' = [mMostRecentPacket EXCEPT ![s] = @ + 1]
    /\ EnqueueOnExistingStream(s) \/ EnqueueOnNewStream(s)
    /\ UNCHANGED <<mPendingSubscribeToAllRequests, mNumberOfSubscribers>>

\* Fault: the streams joined now replace the ones already noted as active.
JoinLate_OverwritesActive(c, S) ==
    LET joined == {s \in S : ~isSubscribed(mSubscribersMap[s], c)}
    IN  /\ mSubscribersMap' =
             [s \in Streams |-> IF s \in joined
                                  THEN subscribe(mSubscribersMap[s], c, <<>>)
                                  ELSE mSubscribersMap[s]]
        /\ mActiveSubscriptionsMap' =
             [mActiveSubscriptionsMap EXCEPT ![c] = joined]
        /\ delivered' = [delivered EXCEPT ![c] =
             [s \in Streams |-> IF s \in joined THEN mMostRecentPacket[s] ELSE @[s]]]

(***************************************************************************)
(* Context c joins the streams of S that exist, late: their queues start   *)
(* empty.  A stream it was subscribed to already is left alone.            *)
(***************************************************************************)
JoinLate(c, S) ==
    LET joined == {s \in S : ~isSubscribed(mSubscribersMap[s], c)}
    IN  /\ mSubscribersMap' =
             [s \in Streams |-> IF s \in joined
                                  THEN subscribe(mSubscribersMap[s], c, <<>>)
                                  ELSE mSubscribersMap[s]]
        /\ mActiveSubscriptionsMap' =
             [mActiveSubscriptionsMap EXCEPT ![c] = @ \cup joined]
        /\ delivered' = [delivered EXCEPT ![c] =
             [s \in Streams |-> IF s \in joined THEN mMostRecentPacket[s] ELSE @[s]]]

\* Fault: the count is not marked stale.
subscribeToAll_KeepsCount(c) ==
    /\ c \notin mPendingSubscribeToAllRequests
    /\ JoinLate(c, mStreamsMap)
    /\ mPendingSubscribeToAllRequests' = mPendingSubscribeToAllRequests \cup {c}
    /\ UNCHANGED <<mStreamsMap, mMostRecentPacket, mPendingSubscriptionRequests,
                   mNumberOfSubscribers>>

\* subscribe(contextAddress, streamIdentifiers), identifiers made unique.
subscribeToStreams(c, S) ==
    /\ S # {}
    /\ JoinLate(c, S \cap mStreamsMap)
    /\ mPendingSubscriptionRequests' =
         [mPendingSubscriptionRequests EXCEPT ![c] = @ \cup (S \ mStreamsMap)]
    /\ mNumberOfSubscribers' = -1
    /\ UNCHANGED <<mStreamsMap, mMostRecentPacket, mPendingSubscribeToAllRequests>>

subscribeToAll(c) ==
    /\ c \notin mPendingSubscribeToAllRequests
    /\ JoinLate(c, mStreamsMap)
    /\ mPendingSubscribeToAllRequests' = mPendingSubscribeToAllRequests \cup {c}
    /\ mNumberOfSubscribers' = -1
    /\ UNCHANGED <<mStreamsMap, mMostRecentPacket, mPendingSubscriptionRequests>>

(***************************************************************************)
(* getPackets walks the active subscriptions of every context, not only    *)
(* those of c, and asks each stream it meets for the next packet of c: c   *)
(* takes as many packets from s as there are contexts active on s.         *)
(***************************************************************************)
Turns(s) == Cardinality({d \in Contexts : s \in mActiveSubscriptionsMap[d]})

Returned(c, s) == NumberReturned(mSubscribersMap[s], c, Turns(s))

getPackets(c) ==
    /\ mSubscribersMap' =
         [s \in Streams |-> getNextPackets(mSubscribersMap[s], c, Turns(s))]
    /\ delivered' = [delivered EXCEPT ![c] =
         [s \in Streams |-> IF Returned(c, s) = 0 THEN @[s]
                            ELSE mSubscribersMap[s][c][Returned(c, s)]]]
    /\ UNCHANGED <<mStreamsMap, mMostRecentPacket, mActiveSubscriptionsMap,
                   mPendingSubscriptionRequests, mPendingSubscribeToAllRequests,
                   mNumberOfSubscribers>>

PurgeFromStreams(c) ==
    mSubscribersMap' =
      [s \in Streams |-> IF s \in mStreamsMap
                           THEN unsubscribe(mSubscribersMap[s], c)
                           ELSE mSubscribersMap[s]]

\* Fault: the count is kept up by hand.
unsubscribeFromAll_CountsDown(c) ==
    /\ mPendingSubscriptionRequests' =
         [mPendingSubscriptionRequests EXCEPT ![c] = {}]
    /\ mPendingSubscribeToAllRequests' = mPendingSubscribeToAllRequests \ {c}
    /\ PurgeFromStreams(c)
    /\ mActiveSubscriptionsMap' = [mActiveSubscriptionsMap EXCEPT ![c] = {}]
    /\ mNumberOfSubscribers' = mNumberOfSubscribers - 1
    /\ UNCHANGED <<mStreamsMap, mMostRecentPacket, delivered>>

\* Fault: the request for all streams survives.
unsubscribeFromAll_KeepsAllRequest(c) ==
    /\ mPendingSubscriptionRequests' =
         [mPendingSubscriptionRequests EXCEPT ![c] = {}]
    /\ PurgeFromStreams(c)
    /\ mActiveSubscriptionsMap' = [mActiveSubscriptionsMap EXCEPT ![c] = {}]
    /\ mNumberOfSubscribers' = -1
    /\ UNCHANGED <<mStreamsMap, mMostRecentPacket,
                   mPendingSubscribeToAllRequests, delivered>>

\* Fault: a context noted as active but on no stream stays active.
unsubscribeFromAll_OnlyIfSubscribed(c) ==
    /\ mPendingSubscriptionRequests' =
         [mPendingSubscriptionRequests EXCEPT ![c] = {}]
    /\ mPendingSubscribeToAllRequests' = mPendingSubscribeToAllRequests \ {c}
    /\ PurgeFromStreams(c)
    /\ mActiveSubscriptionsMap' =
         IF \E s \in mStreamsMap : isSubscribed(mSubscribersMap[s], c)
           THEN [mActiveSubscriptionsMap EXCEPT ![c] = {}]
           ELSE mActiveSubscriptionsMap
    /\ mNumberOfSubscribers' = -1
    /\ UNCHANGED <<mStreamsMap, mMostRecentPacket, delivered>>

(***************************************************************************)
(* The active subscriptions of c are purged when some stream reports it    *)
(* Unsubscribed, or reports it NeverSubscribed while c is noted as active. *)
(***************************************************************************)
unsubscribeFromAll(c) ==
    /\ mPendingSubscriptionRequests' =
         [mPendingSubscriptionRequests EXCEPT ![c] = {}]
    /\ mPendingSubscribeToAllRequests' = mPendingSubscribeToAllRequests \ {c}
    /\ PurgeFromStreams(c)
    /\ mActiveSubscriptionsMap' =
         IF \E s \in mStreamsMap : \/ isSubscribed(mSubscribersMap[s], c)
                                   \/ mActiveSubscriptionsMap[c] # {}
           THEN [mActiveSubscriptionsMap EXCEPT ![c] = {}]
           ELSE mActiveSubscriptionsMap
    /\ mNumberOfSubscribers' = -1
    /\ UNCHANGED <<mStreamsMap, mMostRecentPacket, delivered>>

\* Everyone the manager knows of, subscribed or waiting.
AllSubscribers ==
    {c \in Contexts : mActiveSubscriptionsMap[c] # {}}
        \cup {c \in Contexts : mPendingSubscriptionRequests[c] # {}}
        \cup mPendingSubscribeToAllRequests

getNumberOfSubscribers ==
    /\ mNumberOfSubscribers' = IF mNumberOfSubscribers >= 0
                                 THEN mNumberOfSubscribers
                                 ELSE Cardinality(AllSubscribers)
    /\ UNCHANGED <<mStreamsMap, mMostRecentPacket, mSubscribersMap,
                   mActiveSubscriptionsMap, mPendingSubscriptionRequests,
                   mPendingSubscribeToAllRequests, delivered>>

(***************************************************************************)
(* unsubscribeAll clears the pending requests and every stream, not the    *)
(* map of active subscriptions, and ends by counting who is left.          *)
(***************************************************************************)
unsubscribeAll ==
    /\ mPendingSubscriptionRequests' = [c \in Contexts |-> {}]
    /\ mPendingSubscribeToAllRequests' = {}
    /\ mSubscribersMap' = [s \in Streams |-> NoSubscribers]
    /\ UNCHANGED <<mStreamsMap, mMostRecentPacket, mActiveSubscriptionsMap, delivered>>
    /\ mNumberOfSubscribers' = Cardinality(AllSubscribers')

Next ==
    \/ \E s \in Streams : enqueuePacket(s)
    \/ \E c \in Contexts, S \in SUBSET Streams : subscribeToStreams(c, S)
    \/ \E c \in Contexts : subscribeToAll(c)
    \/ \E c \in Contexts : getPackets(c)
    \/ \E c \in Contexts : unsubscribeFromAll(c)
    \/ getNumberOfSubscribers
    \/ unsubscribeAll

Spec == Init /\ [][Next]_vars

-----------------------------------------------------------------------------
(***************************************************************************)
(* Properties.                                                             *)
(***************************************************************************)

\* A request is pending only for a stream that does not exist: enqueuePacket
\* fills every request for a stream as it creates it, and subscribe files a
\* request only when it does not find the stream.
PendingOnlyForFutureStreams ==
    \A c \in Contexts : mPendingSubscriptionRequests[c] \cap mStreamsMap = {}

\* A context that subscribed to all is on every stream there is, those that
\* appeared after it subscribed included.
SubscribedToAllMeansAll ==
    \A c \in mPendingSubscribeToAllRequests, s \in mStreamsMap :
        isSubscribed(mSubscribersMap[s], c)

\* Whoever has a queue at a stream is noted as active on it: getPackets visits
\* only the streams of the active map, so a queue missing from it would fill
\* and never be read.
SubscribersArePolled ==
    \A s \in Streams : \A c \in DOMAIN mSubscribersMap[s] :
        s \in mStreamsMap /\ s \in mActiveSubscriptionsMap[c]

\* A queue holds an unbroken run of packets that ends with the most recent one
\* (unless it has all been fetched), and never more than its maximum size.
QueueHoldsNewest ==
    \A s \in Streams : \A c \in DOMAIN mSubscribersMap[s] :
        LET queue == mSubscribersMap[s][c]
        IN  /\ Len(queue) <= MaximumQueueSize
            /\ Len(queue) <= mMostRecentPacket[s]
            /\ \A i \in 1..Len(queue) :
                 queue[i] = mMostRecentPacket[s] - Len(queue) + i

\* A subscriber misses a packet only when its queue overflowed: what it was
\* returned last and what it still has queued are the whole stream since it
\* joined, unless the queue is full.  With QueueHoldsNewest: packets come in
\* order, none twice, and without a gap for a reader that keeps up.
LossOnlyByOverflow ==
    \A s \in Streams : \A c \in DOMAIN mSubscribersMap[s] :
        LET accounted == delivered[c][s] + Len(mSubscribersMap[s][c])
        IN  \/ accounted = mMostRecentPacket[s]
            \/ /\ accounted < mMostRecentPacket[s]
               /\ Len(mSubscribersMap[s][c]) = MaximumQueueSize

\* The cached count is stale only when marked so: a pending request that turns
\* into an active subscription does not change who is counted, and everything
\* that does change it resets the cache.
CachedCountIsFresh ==
    mNumberOfSubscribers # -1 => mNumberOfSubscribers = Cardinality(AllSubscribers)

\* A context that left is in none of the maps, even one whose queues had been
\* purged before by unsubscribeAll: its address may be reused.
UnsubscribedIsForgotten ==
    [][\A c \in Contexts : unsubscribeFromAll(c) =>
         /\ c \notin AllSubscribers'
         /\ \A s \in Streams : c \notin DOMAIN mSubscribersMap'[s]]_vars

-----------------------------------------------------------------------------
(***************************************************************************)
(* The manager implements PacketBroadcast.  A context is interested in the *)
(* streams it is subscribed to and in those it waits for; one that waits   *)
(* for all is interested in every stream.                                  *)
(***************************************************************************)
Interest == [c \in Contexts |->
    IF c \in mPendingSubscribeToAllRequests THEN Streams
    ELSE mPendingSubscriptionRequests[c]
           \cup {s \in Streams : isSubscribed(mSubscribersMap[s], c)}]

Outbox == [c \in Contexts |-> [s \in Streams |->
    IF isSubscribed(mSubscribersMap[s], c) THEN mSubscribersMap[s][c] ELSE <<>>]]

Broadcast == INSTANCE PacketBroadcast
    WITH published <- mMostRecentPacket, interest <- Interest, outbox <- Outbox

\* Every call of the manager is a step its callers were promised, or none.
ImplementsBroadcast == Broadcast!Spec

=============================================================================
