--------------------- MODULE SubscriptionManagerThreads ---------------------
(***************************************************************************)
(* The subscription manager as its threads run it.  The thread that        *)
(* propagates imported packets calls enqueuePacket; for every RPC a gRPC   *)
(* thread calls subscribe or subscribeToAll, then getPackets again and     *)
(* again, then unsubscribeFromAll; anybody may ask for the number of       *)
(* subscribers; and the thread that stops the server calls unsubscribeAll. *)
(*                                                                         *)
(* The maps are concurrent containers, so one find, insert or erase is one *)
(* step, and so is one call of a std::queue; what the code does between    *)
(* two of them is not protected, except                                    *)
(* by a Stream's mutex (setNextPacket, unsubscribe, unsubscribeAll) or by  *)
(* the manager's: for a few lines that are one step here, and during the   *)
(* traversal of unsubscribeAll.  Maps are traversed in the order of their  *)
(* keys: contexts and streams are numbers.  A thread whose iterator or     *)
(* reference was erased under it goes on as if the key were still there;   *)
(* whether it may at all is the subject of EraseIsExclusive.               *)
(***************************************************************************)
EXTENDS Stream, FiniteSetsExt, SequencesExt

CONSTANTS Streams,         \* names of streams, in the order of the maps
          Request,         \* what the RPC of each context asks for
          ServerStops,     \* is unsubscribeAll called?  Once, if it is
          CountIsAsked,    \* is the number of subscribers asked for?
          MaximumPackets   \* bound: packets ever published

\* A request is for all streams, or for a list of distinct names, which subscribe
\* throws at if it is empty.
ASSUME RequestAssumption ==
    \A c \in Contexts : /\ Request[c].all \in BOOLEAN
                        /\ Request[c].names \in Seq(Streams)
                        /\ IsInjective(Request[c].names)
                        /\ Request[c].all \/ Request[c].names # <<>>

\* Keys are ordered; there are finitely many RPCs.
ASSUME OrderAssumption ==
    /\ Contexts \subseteq Nat \ {0} /\ Streams \subseteq Nat \ {0}
    /\ IsFiniteSet(Contexts)

ASSUME CallsAssumption == ServerStops \in BOOLEAN /\ CountIsAsked \in BOOLEAN

Publisher == 0
Stopper == -2
Threads == Contexts \cup {Publisher, Stopper}
Free == -1

VARIABLES mStreamsMap, mMostRecentPacket, mSubscribersMap,
          mActiveSubscriptionsMap, mPendingSubscriptionRequests,
          mPendingSubscribeToAllRequests, mNumberOfSubscribers,
          underrun,   \* queues, as <<stream, context>>, popped too often
          mMutex,     \* per stream, the thread that holds its mutex, or Free
          pc, at,     \* per thread, where it is and its local variables
          returned,   \* history: last packet getPackets took, per stream
          disturbed   \* history: see Disturbs

streams == <<mStreamsMap, mMostRecentPacket, mSubscribersMap, underrun>>
pending == <<mPendingSubscriptionRequests, mPendingSubscribeToAllRequests>>
maps == <<streams, mActiveSubscriptionsMap, pending, mNumberOfSubscribers>>

vars == <<maps, mMutex, pc, at, returned, disturbed>>

\* Every step of a thread moves it.
places == <<pc, at>>

\* The local variables of a thread: the stream and the context its loops are
\* at, a counter, a flag, and which of the two pending maps is being scanned.
NoLocals == [s |-> 0, c |-> 0, n |-> 0, flag |-> FALSE, all |-> TRUE]

Init ==
    /\ mStreamsMap = {}
    /\ mMostRecentPacket = [s \in Streams |-> 0]
    /\ mSubscribersMap = [s \in Streams |-> NoSubscribers]
    /\ underrun = {}
    /\ mActiveSubscriptionsMap = [c \in Contexts |-> {}]
    /\ mPendingSubscriptionRequests = [c \in {} |-> {}]
    /\ mPendingSubscribeToAllRequests = {}
    /\ mNumberOfSubscribers = -1
    /\ mMutex = [s \in Streams |-> Free]
    /\ pc = [t \in Threads |-> IF t \in Contexts THEN "new" ELSE "idle"]
    /\ at = [t \in Threads |-> NoLocals]
    /\ returned = [c \in Contexts |-> [s \in Streams |-> 0]]
    /\ disturbed = [c \in Contexts |-> FALSE]

-----------------------------------------------------------------------------
\* The part of a map that an iterator at key x has yet to visit.
Above(S, x) == {y \in S : y > x}

Goto(t, label) == pc' = [pc EXCEPT ![t] = label]

\* The manager's mutex, which only unsubscribeAll holds for several steps.
ManagerIsFree == pc[Stopper] \notin {"clear", "wipe"}

(***************************************************************************)
(* A pop of an empty std::queue is undefined.  What the build's deque does *)
(* is to move its beginning past its end: the queue holds nothing, but it  *)
(* is not empty() and its size() is the largest there is, until as many    *)
(* packets were pushed in vain as were popped too many.  How many that is  *)
(* is left open: a push may end the state or not.                          *)
(***************************************************************************)
IsUnderrun(s, c) == <<s, c>> \in underrun

Pop(s, c) ==
    LET drained == isSubscribed(mSubscribersMap[s], c) /\ mSubscribersMap[s][c] = <<>>
    IN  /\ mSubscribersMap' = [mSubscribersMap EXCEPT ![s] = getNextPackets(@, c, 1)]
        /\ underrun' = IF drained THEN underrun \cup {<<s, c>>} ELSE underrun

\* addToActiveSubscriptionsMap asks whether the context is in the map ...
CheckActive(t, c) ==
    /\ pc[t] = "check"
    /\ at' = [at EXCEPT ![t].flag = mActiveSubscriptionsMap[c] # {}]
    /\ Goto(t, "note")
    /\ UNCHANGED <<maps, mMutex, returned>>

\* ... and then adds to its set, or stores a new set over whatever is there.
NoteActive(t, c, next) ==
    /\ pc[t] = "note"
    /\ mActiveSubscriptionsMap' =
         [mActiveSubscriptionsMap EXCEPT ![c] =
            (IF at[t].flag THEN @ ELSE {}) \cup {at[t].s}]
    /\ at' = [at EXCEPT ![t].flag = FALSE]
    /\ Goto(t, next)
    /\ UNCHANGED <<streams, pending, mNumberOfSubscribers, mMutex, returned>>

\* Stream::subscribe of c to the stream thread t is at; not locked.
Subscribe(t, c, firstPackets, ifAlready) ==
    /\ mSubscribersMap' =
         [mSubscribersMap EXCEPT ![at[t].s] = subscribe(@, c, firstPackets)]
    /\ Goto(t, IF isSubscribed(mSubscribersMap[at[t].s], c) THEN ifAlready
               ELSE "check")
    /\ UNCHANGED <<mStreamsMap, mMostRecentPacket, underrun, mActiveSubscriptionsMap,
                   pending, mNumberOfSubscribers, mMutex, at, returned>>

-----------------------------------------------------------------------------
(***************************************************************************)
(* enqueuePacket, on the publisher's thread.                               *)
(***************************************************************************)
P == Publisher

Published == FoldFunction(+, 0, mMostRecentPacket)

FindStream(s) ==
    /\ pc[P] = "idle"
    /\ Published < MaximumPackets
    /\ at' = [at EXCEPT ![P] = [NoLocals EXCEPT !.s = s]]
    /\ Goto(P, IF s \in mStreamsMap THEN "lock" ELSE "insert")
    /\ UNCHANGED <<maps, mMutex, returned>>

\* setNextPacket takes the stream's mutex and keeps the packet ...
LockStream ==
    /\ pc[P] = "lock"
    /\ mMutex[at[P].s] = Free
    /\ mMutex' = [mMutex EXCEPT ![at[P].s] = P]
    /\ mMostRecentPacket' = [mMostRecentPacket EXCEPT ![at[P].s] = @ + 1]
    /\ Goto(P, "fanout")
    /\ UNCHANGED <<mStreamsMap, mSubscribersMap, underrun,
                   mActiveSubscriptionsMap, pending, mNumberOfSubscribers, at, returned>>

\* ... and comes to one subscriber after the other.  Fault: a full queue turns
\* the newest packet away.
FanOut_KeepsOldest ==
    LET s    == at[P].s
        rest == Above(DOMAIN mSubscribersMap[s], at[P].c)
        c    == Min(rest)
    IN  /\ pc[P] = "fanout"
        /\ rest # {}
        /\ at' = [at EXCEPT ![P].c = c]
        /\ Goto(P, IF Len(mSubscribersMap[s][c]) >= MaximumQueueSize THEN "fanout"
                   ELSE "push")
        /\ UNCHANGED <<maps, mMutex, returned>>

\* The size of the next queue is tested, ...
FanOut ==
    LET s    == at[P].s
        rest == Above(DOMAIN mSubscribersMap[s], at[P].c)
        c    == Min(rest)
        full == IsUnderrun(s, c) \/ Len(mSubscribersMap[s][c]) >= MaximumQueueSize
    IN  /\ pc[P] = "fanout"
        /\ rest # {}
        /\ at' = [at EXCEPT ![P].c = c]
        /\ Goto(P, IF full THEN "trim" ELSE "push")
        /\ UNCHANGED <<maps, mMutex, returned>>

\* ... the front popped if it was full, whatever is there by now, ...
TrimQueue ==
    /\ pc[P] = "trim"
    /\ Pop(at[P].s, at[P].c)
    /\ Goto(P, "push")
    /\ UNCHANGED <<mStreamsMap, mMostRecentPacket, mActiveSubscriptionsMap,
                   pending, mNumberOfSubscribers, mMutex, at, returned>>

\* ... and a copy of the packet pushed.
PushPacket ==
    LET s == at[P].s
        c == at[P].c
    IN  /\ pc[P] = "push"
        /\ mSubscribersMap' =
             IF IsUnderrun(s, c) THEN mSubscribersMap
             ELSE [mSubscribersMap EXCEPT ![s][c] = Append(@, mMostRecentPacket[s])]
        /\ underrun' \in {underrun, underrun \ {<<s, c>>}}
        /\ Goto(P, "fanout")
        /\ UNCHANGED <<mStreamsMap, mMostRecentPacket, mActiveSubscriptionsMap,
                       pending, mNumberOfSubscribers, mMutex, at, returned>>

UnlockStream ==
    /\ pc[P] = "fanout"
    /\ Above(DOMAIN mSubscribersMap[at[P].s], at[P].c) = {}
    /\ mMutex' = [mMutex EXCEPT ![at[P].s] = Free]
    /\ at' = [at EXCEPT ![P] = NoLocals]
    /\ Goto(P, "idle")
    /\ UNCHANGED <<maps, returned>>

\* Fault: those who subscribed to all are not told of the stream.
InsertStream_ForNamedOnly ==
    /\ pc[P] = "insert"
    /\ mStreamsMap' = mStreamsMap \cup {at[P].s}
    /\ mMostRecentPacket' = [mMostRecentPacket EXCEPT ![at[P].s] = @ + 1]
    /\ at' = [at EXCEPT ![P].all = FALSE]
    /\ Goto(P, "scan")
    /\ UNCHANGED <<mSubscribersMap, underrun, mActiveSubscriptionsMap, pending,
                   mNumberOfSubscribers, mMutex, returned>>

InsertStream ==
    /\ pc[P] = "insert"
    /\ mStreamsMap' = mStreamsMap \cup {at[P].s}
    /\ mMostRecentPacket' = [mMostRecentPacket EXCEPT ![at[P].s] = @ + 1]
    /\ Goto(P, "scan")
    /\ UNCHANGED <<mSubscribersMap, underrun, mActiveSubscriptionsMap, pending,
                   mNumberOfSubscribers, mMutex, at, returned>>

\* The next context that waits for all streams.
ScanAll ==
    LET rest == Above(mPendingSubscribeToAllRequests, at[P].c)
    IN  /\ pc[P] = "scan" /\ at[P].all
        /\ \/ /\ rest # {}
              /\ at' = [at EXCEPT ![P].c = Min(rest)]
              /\ Goto(P, "admit")
           \/ /\ rest = {}
              /\ at' = [at EXCEPT ![P].all = FALSE, ![P].c = 0]
              /\ UNCHANGED pc
        /\ UNCHANGED <<maps, mMutex, returned>>

\* The next context with pending requests; is the new stream among them?
ScanRequests ==
    LET rest == Above(DOMAIN mPendingSubscriptionRequests, at[P].c)
    IN  /\ pc[P] = "scan" /\ ~at[P].all
        /\ \/ /\ rest # {}
              /\ at' = [at EXCEPT ![P].c = Min(rest)]
              /\ Goto(P, IF at[P].s \in mPendingSubscriptionRequests[Min(rest)]
                           THEN "admit" ELSE "scan")
           \/ /\ rest = {}
              /\ at' = [at EXCEPT ![P].c = 0]
              /\ Goto(P, "purge")
        /\ UNCHANGED <<maps, mMutex, returned>>

AfterAdmission == IF at[P].all THEN "scan" ELSE "fulfil"

Admit == /\ pc[P] = "admit"
         /\ Subscribe(P, at[P].c, <<mMostRecentPacket[at[P].s]>>, AfterAdmission)

NoteAdmitted == \/ CheckActive(P, at[P].c)
                \/ NoteActive(P, at[P].c, AfterAdmission)

\* The request is fulfilled: the stream is erased from it.
Fulfil ==
    /\ pc[P] = "fulfil"
    /\ mPendingSubscriptionRequests' =
         [c \in DOMAIN mPendingSubscriptionRequests |->
            IF c = at[P].c THEN mPendingSubscriptionRequests[c] \ {at[P].s}
            ELSE mPendingSubscriptionRequests[c]]
    /\ Goto(P, "scan")
    /\ UNCHANGED <<streams, mActiveSubscriptionsMap,
                   mPendingSubscribeToAllRequests, mNumberOfSubscribers, mMutex,
                   at, returned>>

\* Requests with nothing left are looked for without the mutex ...
FindEmptyRequest ==
    LET rest == Above(DOMAIN mPendingSubscriptionRequests, at[P].c)
    IN  /\ pc[P] = "purge"
        /\ \/ /\ rest # {}
              /\ at' = [at EXCEPT ![P].c = Min(rest)]
              /\ Goto(P, IF mPendingSubscriptionRequests[Min(rest)] = {}
                           THEN "drop" ELSE "purge")
           \/ /\ rest = {}
              /\ at' = [at EXCEPT ![P] = NoLocals]
              /\ Goto(P, "idle")
        /\ UNCHANGED <<maps, mMutex, returned>>

\* ... and erased under it, whatever they hold by then.
DropRequest ==
    /\ pc[P] = "drop" /\ ManagerIsFree
    /\ mPendingSubscriptionRequests' =
         [c \in DOMAIN mPendingSubscriptionRequests \ {at[P].c} |->
            mPendingSubscriptionRequests[c]]
    /\ Goto(P, "purge")
    /\ UNCHANGED <<streams, mActiveSubscriptionsMap,
                   mPendingSubscribeToAllRequests, mNumberOfSubscribers, mMutex,
                   at, returned>>

enqueuePacket ==
    \/ \E s \in Streams : FindStream(s)
    \/ LockStream \/ FanOut \/ TrimQueue \/ PushPacket \/ UnlockStream
    \/ InsertStream \/ ScanAll \/ ScanRequests \/ Admit \/ NoteAdmitted
    \/ Fulfil \/ FindEmptyRequest \/ DropRequest

-----------------------------------------------------------------------------
(***************************************************************************)
(* subscribe and subscribeToAll, on the thread of context c.               *)
(***************************************************************************)
\* Where the loop over the wanted streams continues.
NextWanted(c) == IF Request[c].all THEN "streams" ELSE "names"

StartSubscribe(c) ==
    /\ pc[c] = "new"
    /\ Goto(c, NextWanted(c))
    /\ UNCHANGED <<maps, mMutex, at, returned>>

\* subscribe: does the next stream on the list exist?
NextName(c) ==
    LET n == at[c].n + 1
    IN  /\ pc[c] = "names"
        /\ \/ /\ n <= Len(Request[c].names)
              /\ at' = [at EXCEPT ![c].n = n, ![c].s = Request[c].names[n]]
              /\ Goto(c, IF Request[c].names[n] \in mStreamsMap THEN "join"
                         ELSE "file")
           \/ /\ n > Len(Request[c].names)
              /\ Goto(c, "reset")
              /\ UNCHANGED at
        /\ UNCHANGED <<maps, mMutex, returned>>

\* It does not: does c have pending requests already?
FindRequest(c) ==
    /\ pc[c] = "file"
    /\ at' = [at EXCEPT ![c].flag = c \in DOMAIN mPendingSubscriptionRequests]
    /\ Goto(c, "request")
    /\ UNCHANGED <<maps, mMutex, returned>>

\* The request joins the set that was found, or starts one; a set that was
\* found and has been erased since is written to in vain.
FileRequest(c) ==
    LET filed == DOMAIN mPendingSubscriptionRequests
    IN  /\ pc[c] = "request"
        /\ mPendingSubscriptionRequests' =
             IF at[c].flag /\ c \notin filed THEN mPendingSubscriptionRequests
             ELSE [d \in filed \cup {c} |->
                     (IF d \in filed THEN mPendingSubscriptionRequests[d] ELSE {})
                       \cup (IF d = c THEN {at[c].s} ELSE {})]
        /\ at' = [at EXCEPT ![c].flag = FALSE]
        /\ Goto(c, "names")
        /\ UNCHANGED <<streams, mActiveSubscriptionsMap,
                       mPendingSubscribeToAllRequests, mNumberOfSubscribers,
                       mMutex, returned>>

\* subscribeToAll: the next stream there is, or else wait for those to come.
NextStream(c) ==
    LET rest == Above(mStreamsMap, at[c].s)
    IN  /\ pc[c] = "streams"
        /\ rest # {}
        /\ at' = [at EXCEPT ![c].s = Min(rest)]
        /\ Goto(c, "join")
        /\ UNCHANGED <<maps, mMutex, returned>>

WaitForAll(c) ==
    /\ pc[c] = "streams"
    /\ Above(mStreamsMap, at[c].s) = {}
    /\ mPendingSubscribeToAllRequests' = mPendingSubscribeToAllRequests \cup {c}
    /\ Goto(c, "reset")
    /\ UNCHANGED <<streams, mActiveSubscriptionsMap,
                   mPendingSubscriptionRequests, mNumberOfSubscribers, mMutex,
                   at, returned>>

Join(c) == pc[c] = "join" /\ Subscribe(c, c, <<>>, NextWanted(c))

NoteJoined(c) == CheckActive(c, c) \/ NoteActive(c, c, NextWanted(c))

\* Fault: the cached count is kept.
ResetCount_Forgotten(c, label, next) ==
    /\ pc[c] = label /\ ManagerIsFree
    /\ at' = [at EXCEPT ![c] = NoLocals]
    /\ Goto(c, next)
    /\ UNCHANGED <<maps, mMutex, returned>>

\* The cached count is marked stale, last; also by unsubscribeFromAll.
ResetCount(c, label, next) ==
    /\ pc[c] = label /\ ManagerIsFree
    /\ mNumberOfSubscribers' = -1
    /\ at' = [at EXCEPT ![c] = NoLocals]
    /\ Goto(c, next)
    /\ UNCHANGED <<streams, mActiveSubscriptionsMap, pending, mMutex, returned>>

SubscribeStep(c) ==
    \/ StartSubscribe(c) \/ NextName(c) \/ FindRequest(c) \/ FileRequest(c)
    \/ NextStream(c) \/ WaitForAll(c) \/ Join(c) \/ NoteJoined(c)
    \/ ResetCount(c, "reset", "polling")

-----------------------------------------------------------------------------
(***************************************************************************)
(* getPackets, on the thread of context c.                                 *)
(***************************************************************************)
\* The active subscriptions, of any context, that the walk has yet to visit.
Unvisited(c) ==
    {e \in Contexts \X Streams :
        /\ e[2] \in mActiveSubscriptionsMap[e[1]]
        /\ e[1] > at[c].c \/ (e[1] = at[c].c /\ e[2] > at[c].s)}

\* The first of them in the order of the map.
Nearest(E) == CHOOSE e \in E :
    \A f \in E : e[1] < f[1] \/ (e[1] = f[1] /\ e[2] <= f[2])

\* Stream::getNextPacket finds the queue of c, which is not empty, ...
FindQueue(c) ==
    LET e == Nearest(Unvisited(c))
        s == e[2]
        available == /\ isSubscribed(mSubscribersMap[s], c)
                     /\ mSubscribersMap[s][c] # <<>> \/ IsUnderrun(s, c)
    IN  /\ pc[c] \in {"polling", "walk"}
        /\ Unvisited(c) # {}
        /\ at' = [at EXCEPT ![c].c = e[1], ![c].s = s]
        /\ Goto(c, IF available THEN "front" ELSE "walk")
        /\ UNCHANGED <<maps, mMutex, returned>>

\* ... moves its front out, if there still is one (what is read where there is
\* none is no packet of the stream), ...
TakePacket(c) ==
    LET s == at[c].s
        exists == /\ isSubscribed(mSubscribersMap[s], c)
                  /\ mSubscribersMap[s][c] # <<>>
    IN  /\ pc[c] = "front"
        /\ returned' = IF exists
                       THEN [returned EXCEPT ![c][s] = Head(mSubscribersMap[s][c])]
                       ELSE returned
        /\ Goto(c, "pop")
        /\ UNCHANGED <<maps, mMutex, at>>

\* Fault: the packet stays in the queue.
PopPacket_Forgotten(c) ==
    /\ pc[c] = "pop"
    /\ Goto(c, "walk")
    /\ UNCHANGED <<maps, mMutex, at, returned>>

\* ... and pops it, all with no mutex held.
PopPacket(c) ==
    /\ pc[c] = "pop"
    /\ Pop(at[c].s, c)
    /\ Goto(c, "walk")
    /\ UNCHANGED <<mStreamsMap, mMostRecentPacket, mActiveSubscriptionsMap,
                   pending, mNumberOfSubscribers, mMutex, at, returned>>

EndWalk(c) ==
    /\ pc[c] = "walk"
    /\ Unvisited(c) = {}
    /\ at' = [at EXCEPT ![c] = NoLocals]
    /\ Goto(c, "polling")
    /\ UNCHANGED <<maps, mMutex, returned>>

PollStep(c) == FindQueue(c) \/ TakePacket(c) \/ PopPacket(c) \/ EndWalk(c)

-----------------------------------------------------------------------------
(***************************************************************************)
(* unsubscribeFromAll, on the thread of context c.                         *)
(***************************************************************************)
\* Under the manager's mutex, c leaves the pending requests.
StartLeave(c) ==
    /\ pc[c] = "polling" /\ ManagerIsFree
    /\ mPendingSubscriptionRequests' =
         [d \in DOMAIN mPendingSubscriptionRequests \ {c} |->
            mPendingSubscriptionRequests[d]]
    /\ mPendingSubscribeToAllRequests' = mPendingSubscribeToAllRequests \ {c}
    /\ Goto(c, "leave")
    /\ UNCHANGED <<streams, mActiveSubscriptionsMap, mNumberOfSubscribers,
                   mMutex, at, returned>>

\* Stream::unsubscribe of the next stream takes the stream's mutex and the size
\* of its map ...
TakeSize(c) ==
    LET rest == Above(mStreamsMap, at[c].s)
        s    == Min(rest)
    IN  /\ pc[c] = "leave"
        /\ rest # {}
        /\ mMutex[s] = Free
        /\ mMutex' = [mMutex EXCEPT ![s] = c]
        /\ at' = [at EXCEPT ![c].s = s,
                            ![c].n = Cardinality(DOMAIN mSubscribersMap[s])]
        /\ Goto(c, "erase")
        /\ UNCHANGED <<maps, returned>>

\* Fault: the mutex is not released when c was never subscribed.
Erase_KeepsMutex(c) ==
    LET s      == at[c].s
        exists == isSubscribed(mSubscribersMap[s], c)
    IN  /\ pc[c] = "erase"
        /\ mSubscribersMap' = [mSubscribersMap EXCEPT ![s] = unsubscribe(@, c)]
        /\ underrun' = underrun \ {<<s, c>>}
        /\ mMutex' = IF exists THEN [mMutex EXCEPT ![s] = Free] ELSE mMutex
        /\ Goto(c, IF exists THEN "forget" ELSE "leave")
        /\ UNCHANGED <<mStreamsMap, mMostRecentPacket, mActiveSubscriptionsMap,
                       pending, mNumberOfSubscribers, at, returned>>

\* ... erases c, and throws if the new size does not add up, which a
\* subscription without the mutex can bring about.  The exception is caught
\* and the active subscriptions are then not looked at.
Erase(c) ==
    LET s       == at[c].s
        exists  == isSubscribed(mSubscribersMap[s], c)
        newSize == Cardinality(DOMAIN mSubscribersMap[s] \ {c})
        throws  == newSize # at[c].n - (IF exists THEN 1 ELSE 0)
        purge   == IF exists THEN ~at[c].flag ELSE mActiveSubscriptionsMap[c] # {}
    IN  /\ pc[c] = "erase"
        /\ mSubscribersMap' = [mSubscribersMap EXCEPT ![s] = unsubscribe(@, c)]
        /\ underrun' = underrun \ {<<s, c>>}
        /\ mMutex' = [mMutex EXCEPT ![s] = Free]
        /\ at' = [at EXCEPT ![c].n = 0]
        /\ Goto(c, IF ~throws /\ purge THEN "forget" ELSE "leave")
        /\ UNCHANGED <<mStreamsMap, mMostRecentPacket, mActiveSubscriptionsMap,
                       pending, mNumberOfSubscribers, returned>>

\* Fault: the first stream c is unsubscribed from ends the loop.
ForgetActive_EndsLoop(c) ==
    /\ pc[c] = "forget" /\ ManagerIsFree
    /\ mActiveSubscriptionsMap' = [mActiveSubscriptionsMap EXCEPT ![c] = {}]
    /\ at' = [at EXCEPT ![c].flag = TRUE, ![c].s = Max(Streams)]
    /\ Goto(c, "leave")
    /\ UNCHANGED <<streams, pending, mNumberOfSubscribers, mMutex, returned>>

\* flag is purgedFromActiveSubscriptions.
ForgetActive(c) ==
    /\ pc[c] = "forget" /\ ManagerIsFree
    /\ mActiveSubscriptionsMap' = [mActiveSubscriptionsMap EXCEPT ![c] = {}]
    /\ at' = [at EXCEPT ![c].flag = TRUE]
    /\ Goto(c, "leave")
    /\ UNCHANGED <<streams, pending, mNumberOfSubscribers, mMutex, returned>>

EndLeave(c) == Above(mStreamsMap, at[c].s) = {} /\ ResetCount(c, "leave", "gone")

LeaveStep(c) == TakeSize(c) \/ Erase(c) \/ ForgetActive(c) \/ EndLeave(c)

\* Fault: who is in two maps counts twice.
getNumberOfSubscribers_AddsUp ==
    /\ CountIsAsked /\ mNumberOfSubscribers = -1 /\ ManagerIsFree
    /\ mNumberOfSubscribers' =
         Cardinality({c \in Contexts : mActiveSubscriptionsMap[c] # {}})
           + Cardinality(DOMAIN mPendingSubscriptionRequests)
           + Cardinality(mPendingSubscribeToAllRequests)
    /\ UNCHANGED <<streams, mActiveSubscriptionsMap, pending, mMutex, pc, at,
                   returned>>

-----------------------------------------------------------------------------
AllSubscribers ==
    {c \in Contexts : mActiveSubscriptionsMap[c] # {}}
        \cup DOMAIN mPendingSubscriptionRequests
        \cup mPendingSubscribeToAllRequests

\* Taken under the manager's mutex, in one step although subscriptions go on beside
\* it: a call that it misses marks the count stale when it ends, under that mutex.
getNumberOfSubscribers ==
    /\ CountIsAsked /\ mNumberOfSubscribers = -1 /\ ManagerIsFree
    /\ mNumberOfSubscribers' = Cardinality(AllSubscribers)
    /\ UNCHANGED <<streams, mActiveSubscriptionsMap, pending, mMutex, pc, at,
                   returned>>

-----------------------------------------------------------------------------
(***************************************************************************)
(* unsubscribeAll, on the thread that stops the server.                    *)
(***************************************************************************)
S == Stopper

\* It takes the manager's mutex, and clears the pending requests ...
StartPurge ==
    /\ ServerStops /\ pc[S] = "idle"
    /\ mNumberOfSubscribers' = -1
    /\ mPendingSubscriptionRequests' = [c \in {} |-> {}]
    /\ Goto(S, "clear")
    /\ UNCHANGED <<streams, mActiveSubscriptionsMap,
                   mPendingSubscribeToAllRequests, mMutex, at, returned>>

\* ... of either kind.
ClearWaiting ==
    /\ pc[S] = "clear"
    /\ mPendingSubscribeToAllRequests' = {}
    /\ Goto(S, "wipe")
    /\ UNCHANGED <<streams, mActiveSubscriptionsMap, mPendingSubscriptionRequests,
                   mNumberOfSubscribers, mMutex, at, returned>>

\* Fault: a stream whose mutex is taken is passed over.
WipeStream_IfFree ==
    LET rest == Above(mStreamsMap, at[S].s)
        s    == Min(rest)
    IN  /\ pc[S] = "wipe"
        /\ rest # {}
        /\ mSubscribersMap' = IF mMutex[s] = Free
                              THEN [mSubscribersMap EXCEPT ![s] = NoSubscribers]
                              ELSE mSubscribersMap
        /\ underrun' = {e \in underrun : e[1] # s}
        /\ at' = [at EXCEPT ![S].s = s]
        /\ UNCHANGED <<mStreamsMap, mMostRecentPacket, mActiveSubscriptionsMap,
                       pending, mNumberOfSubscribers, mMutex, pc, returned>>

\* The next stream's subscribers are erased, under its mutex as well.  Those who
\* polled it go on doing so: the active subscriptions are kept.
WipeStream ==
    LET rest == Above(mStreamsMap, at[S].s)
        s    == Min(rest)
    IN  /\ pc[S] = "wipe"
        /\ rest # {}
        /\ mMutex[s] = Free
        /\ mSubscribersMap' = [mSubscribersMap EXCEPT ![s] = NoSubscribers]
        /\ underrun' = {e \in underrun : e[1] # s}
        /\ at' = [at EXCEPT ![S].s = s]
        /\ UNCHANGED <<mStreamsMap, mMostRecentPacket, mActiveSubscriptionsMap,
                       pending, mNumberOfSubscribers, mMutex, pc, returned>>

\* What it asks last, how many are left, is getNumberOfSubscribers.
EndPurge ==
    /\ pc[S] = "wipe"
    /\ Above(mStreamsMap, at[S].s) = {}
    /\ at' = [at EXCEPT ![S] = NoLocals]
    /\ Goto(S, "stopped")
    /\ UNCHANGED <<maps, mMutex, returned>>

unsubscribeAll == StartPurge \/ ClearWaiting \/ WipeStream \/ EndPurge

-----------------------------------------------------------------------------
(***************************************************************************)
(* A call of c is disturbed when it overlaps with the creation of a stream *)
(* or, if it is unsubscribeFromAll, with the subscription of another       *)
(* context.  And c is disturbed when it subscribes while unsubscribeAll    *)
(* runs or later, or a stream is created then: unsubscribeAll keeps others *)
(* from neither.  disturbed[c] remembers it of the last call of c.         *)
(***************************************************************************)
Subscribing(c) == pc[c] \in {"names", "streams", "join", "check", "note",
                             "file", "request", "reset"}
Leaving(c) == pc[c] \in {"leave", "erase", "forget"}
Creating == pc[P] \in {"scan", "admit", "check", "note", "fulfil", "purge", "drop"}

Disturbs(c) ==
    \/ (Subscribing(c) \/ Leaving(c)) /\ Creating
    \/ Leaving(c) /\ \E d \in Contexts : Subscribing(d)
    \/ pc[S] # "idle" /\ (Subscribing(c) \/ Creating)

RecordDisturbance ==
    disturbed' = [c \in Contexts |->
        \/ disturbed[c] /\ ~(pc[c] = "polling" /\ pc'[c] = "leave")
        \/ Disturbs(c)']

Step == \/ enqueuePacket
        \/ \E c \in Contexts :
             SubscribeStep(c) \/ PollStep(c) \/ StartLeave(c) \/ LeaveStep(c)
        \/ getNumberOfSubscribers
        \/ unsubscribeAll

\* Every RPC has gone and every packet was published: nothing is left to do.
Finished == /\ \A c \in Contexts : pc[c] = "gone"
            /\ pc[P] = "idle" /\ pc[S] = (IF ServerStops THEN "stopped" ELSE "idle")
            /\ Published = MaximumPackets
            /\ UNCHANGED vars

Next == (Step /\ RecordDisturbance) \/ Finished

\* The operating system runs every thread: a call that was started goes on.
\* That a packet arrives, an RPC leaves or the server stops is nobody's duty.
Fairness ==
    /\ WF_places(pc[P] # "idle" /\ enqueuePacket)
    /\ WF_places(pc[S] # "idle" /\ unsubscribeAll)
    /\ \A c \in Contexts :
         WF_places(/\ pc[c] \notin {"new", "polling"}
                   /\ SubscribeStep(c) \/ PollStep(c) \/ LeaveStep(c))

Spec == Init /\ [][Next]_vars /\ Fairness

-----------------------------------------------------------------------------
(***************************************************************************)
(* Properties.                                                             *)
(***************************************************************************)
Labels == {"idle", "lock", "fanout", "trim", "push", "insert", "scan", "admit", "fulfil",
           "purge", "drop", "new", "polling", "walk", "front", "pop", "gone",
           "check", "note", "names", "streams", "join", "file", "request", "reset",
           "leave", "erase", "forget", "clear", "wipe", "stopped"}

Locals == [s : Streams \cup {0}, c : Contexts \cup {0}, n : Nat, flag : BOOLEAN,
           all : BOOLEAN]

TypeOK ==
    /\ mStreamsMap \in SUBSET Streams
    /\ mMostRecentPacket \in [Streams -> Nat]
    /\ DOMAIN mSubscribersMap = Streams
    /\ \A s \in Streams : IsQueueMap(mSubscribersMap[s])
    /\ underrun \in SUBSET (Streams \X Contexts)
    /\ mActiveSubscriptionsMap \in [Contexts -> SUBSET Streams]
    /\ DOMAIN mPendingSubscriptionRequests \in SUBSET Contexts
    /\ \A c \in DOMAIN mPendingSubscriptionRequests :
         mPendingSubscriptionRequests[c] \in SUBSET Streams
    /\ mPendingSubscribeToAllRequests \in SUBSET Contexts
    /\ mNumberOfSubscribers \in -1..Cardinality(Contexts)
    /\ mMutex \in [Streams -> Threads \cup {Free}]
    /\ pc \in [Threads -> Labels]
    /\ at \in [Threads -> Locals]
    /\ returned \in [Contexts -> [Streams -> Nat]]
    /\ disturbed \in [Contexts -> BOOLEAN]

\* setNextPacket is at stream s.
FansOut(s) == pc[P] \in {"fanout", "trim", "push"} /\ at[P].s = s

\* What a queue holds is an unbroken run of packets of at most the maximum size
\* that reaches up to the newest one, unless setNextPacket has yet to come to it,
\* although a reader pops without the mutex between its size test, pop and push.
\* A queue that one of them popped when it was empty holds nothing.
QueueIsRun ==
    \A s \in Streams : \A c \in DOMAIN mSubscribersMap[s] :
        LET queue == mSubscribersMap[s][c]
        IN  /\ Len(queue) <= MaximumQueueSize
            /\ \A i \in 1..Len(queue) - 1 : queue[i + 1] = queue[i] + 1
            /\ queue # <<>> /\ ~FansOut(s) => Last(queue) = mMostRecentPacket[s]
            /\ IsUnderrun(s, c) => queue = <<>>

\* getPackets never returns a packet twice nor an older one after a newer one:
\* what is queued is newer than what was returned, but for the front that is
\* just being popped.
InOrder ==
    \A s \in Streams : \A c \in DOMAIN mSubscribersMap[s] :
        \A i \in 1..Len(mSubscribersMap[s][c]) :
            \/ mSubscribersMap[s][c][i] > returned[c][s]
            \/ /\ pc[c] = "pop" /\ at[c].s = s
               /\ mSubscribersMap[s][c][i] = returned[c][s] /\ i = 1

\* The streams c asked for and that exist.
Wanted(c) == IF Request[c].all THEN mStreamsMap
             ELSE {s \in mStreamsMap : \E i \in DOMAIN Request[c].names :
                                          Request[c].names[i] = s}

Served(c) == \A s \in Wanted(c) : /\ isSubscribed(mSubscribersMap[s], c)
                                  /\ s \in mActiveSubscriptionsMap[c]

Polling(c) == pc[c] \in {"polling", "walk", "front", "pop"}

\* A context whose subscribe call did not overlap with the creation of a stream
\* gets every stream it asked for, those created later included, whatever the
\* other threads do, until the server stops.
ServedUnlessDisturbed ==
    \A c \in Contexts :
        Polling(c) /\ ~Creating /\ ~disturbed[c] /\ pc[S] = "idle" => Served(c)

\* A context that is gone is in no map.
Forgotten(c) ==
    /\ c \notin AllSubscribers
    /\ \A s \in Streams : c \notin DOMAIN mSubscribersMap[s]

\* A context whose unsubscribeFromAll overlapped neither with the creation of a
\* stream nor with somebody's subscription leaves no trace in any map, then or
\* later.
ForgottenUnlessDisturbed ==
    \A c \in Contexts : pc[c] = "gone" /\ ~disturbed[c] => Forgotten(c)

\* The count the admission of new RPCs relies on is never too small: marking
\* it stale last, every subscribe call that has returned is counted, until the
\* server stops.
CountCoversPolling ==
    mNumberOfSubscribers # -1 /\ pc[S] = "idle" =>
        mNumberOfSubscribers >= Cardinality({c \in Contexts : Polling(c)})

\* "Do not let these get filled while I'm clearing" (unsubscribeAll), as far as it
\* goes: after unsubscribeAll, an RPC that subscribed before it and is still there
\* has no queue and no pending request, unless a stream was created as it
\* subscribed or since unsubscribeAll began.  A publisher in the middle of
\* setNextPacket does not bring any back, nor do RPCs that come or leave.
PurgedUnlessDisturbed ==
    pc[S] = "stopped" =>
        \A c \in Contexts : Polling(c) /\ ~disturbed[c] =>
            /\ c \notin DOMAIN mPendingSubscriptionRequests
            /\ c \notin mPendingSubscribeToAllRequests
            /\ \A s \in Streams : ~isSubscribed(mSubscribersMap[s], c)

\* Between two calls.
Idle == {"idle", "new", "polling", "gone", "stopped"}

\* No call waits for ever: neither the publisher for a stream's mutex, nor an
\* RPC thread for the end of a traversal or the manager's mutex, nor
\* unsubscribeAll, which holds the latter, for the former.  Every thread is
\* between two calls again, whenever one asks.
EveryCallReturns ==
    \A t \in Threads : []<>(pc[t] \in Idle)

(***************************************************************************)
(* What comments in the code say, and interleavings refute.                *)
(***************************************************************************)

\* "Whoever was particularly interested in this stream should be subscribed"
\* (enqueuePacket): once its subscribe call has returned and no stream is
\* being created, a context has every existing stream it asked for.
InterestedAreServed ==
    \A c \in Contexts : Polling(c) /\ ~Creating => Served(c)

\* "The lock-guard above ensures we this context was purged from the pending
\* subscriptions" (unsubscribeFromAll): nobody subscribes it again.
GoneAreForgotten ==
    \A c \in Contexts : pc[c] = "gone" => Forgotten(c)

\* "Erase is not thread safe" (Stream::unsubscribe): nobody else is using the
\* map while a context is erased from it.
EraseIsExclusive ==
    \A c, d \in Contexts :
        ~(pc[c] = "erase" /\ pc[d] \in {"front", "pop"} /\ at[c].s = at[d].s)

\* "The next packet if it exists.  Otherwise, std::nullopt" (getNextPacket): what
\* the test for an empty queue let through is there to be returned.
NextPacketExists ==
    \A c \in Contexts : pc[c] = "front" =>
        /\ isSubscribed(mSubscribersMap[at[c].s], c)
        /\ mSubscribersMap[at[c].s][c] # <<>>
=============================================================================
