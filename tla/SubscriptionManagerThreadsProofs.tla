------------------- MODULE SubscriptionManagerThreadsProofs -------------------
(***************************************************************************)
(* Theorems about SubscriptionManagerThreads, for any number of contexts,  *)
(* streams and packets, and any requests.                                  *)
(***************************************************************************)
EXTENDS SubscriptionManagerThreads, StreamProofs, FiniteSetTheorems,
        SequenceTheorems, WellFoundedInduction, TLAPS

-----------------------------------------------------------------------------
(***************************************************************************)
(* The inductive invariant.                                                *)
(***************************************************************************)
PublisherLabels == {"idle", "lock", "fanout", "trim", "push", "insert", "scan",
                    "admit", "check", "note", "fulfil", "purge", "drop"}
StopperLabels == {"idle", "clear", "wipe", "stopped"}
ContextLabels == {"new", "names", "streams", "join", "check", "note", "file",
                  "request", "reset", "polling", "walk", "front", "pop", "leave",
                  "erase", "forget", "gone"}

\* The publisher is busy with one stream, which it creates unless it finds it.
PublisherPlace ==
    LET l == at[P]
    IN  /\ pc[P] \in PublisherLabels
        /\ pc[P] # "idle" => l.s \in Streams
        /\ pc[P] = "insert" => l.s \notin mStreamsMap
        /\ pc[P] \notin {"idle", "insert"} => l.s \in mStreamsMap
        /\ pc[P] \in {"lock", "insert"} => l.c = 0 /\ l.all
        /\ pc[P] \in {"trim", "push", "admit", "check", "note", "fulfil", "drop"} =>
             l.c \in Contexts
        /\ pc[P] \in {"admit", "check", "note", "fulfil"} => l.all = Request[l.c].all
        /\ pc[P] \in {"fulfil", "purge", "drop"} => ~l.all

StopperPlace == /\ pc[S] \in StopperLabels
                /\ pc[S] \in {"idle", "clear"} => at[S].s = 0

ContextPlace(c) ==
    LET l == at[c]
    IN  /\ pc[c] \in ContextLabels
        /\ pc[c] \in {"new", "polling", "gone"} => l = NoLocals
        /\ pc[c] \in {"join", "check", "note", "front", "pop", "erase"} =>
             l.s \in mStreamsMap
        /\ pc[c] = "streams" => Request[c].all
        /\ pc[c] \in {"names", "file", "request"} => ~Request[c].all
        /\ pc[c] = "names" => l.n <= Len(Request[c].names)
        /\ pc[c] \in {"join", "check", "note", "file", "request"} /\ ~Request[c].all =>
             l.n \in DOMAIN Request[c].names /\ l.s = Request[c].names[l.n]

\* Who waits for all streams asked for all, who waits for some did not.
Kinds == /\ \A c \in mPendingSubscribeToAllRequests : Request[c].all
         /\ \A c \in DOMAIN mPendingSubscriptionRequests : ~Request[c].all

Places == PublisherPlace /\ StopperPlace /\ Kinds /\ \A c \in Contexts : ContextPlace(c)

\* Who holds a mutex is where the code holds it.
Mutexes ==
    \A s \in Streams :
        /\ mMutex[s] = P <=> FansOut(s)
        /\ \A c \in Contexts : mMutex[s] = c <=> pc[c] = "erase" /\ at[c].s = s
        /\ mMutex[s] # S

\* A stream is created with its first packet, and had no subscriber before.
StreamsAreCreated ==
    /\ \A s \in mStreamsMap : mMostRecentPacket[s] > 0
    /\ \A s \in Streams \ mStreamsMap :
         mMostRecentPacket[s] = 0 /\ DOMAIN mSubscribersMap[s] = {}
    /\ \A c \in Contexts : mActiveSubscriptionsMap[c] \subseteq mStreamsMap

\* The last packet setNextPacket has brought to the queue of c.
Reach(s, c) ==
    IF FansOut(s) /\ (c > at[P].c \/ (c = at[P].c /\ pc[P] # "fanout"))
    THEN mMostRecentPacket[s] - 1 ELSE mMostRecentPacket[s]

\* A queue reaches as far as setNextPacket came.
IsRun(queue, last) ==
    /\ Len(queue) <= MaximumQueueSize
    /\ \A i \in 1..Len(queue) : queue[i] = last - Len(queue) + i

Runs ==
    \A s \in Streams : \A c \in DOMAIN mSubscribersMap[s] :
        IsRun(mSubscribersMap[s][c], Reach(s, c))

\* Who was popped too often has nothing to be popped.
Underruns ==
    \A s \in Streams, c \in Contexts : IsUnderrun(s, c) =>
        c \in DOMAIN mSubscribersMap[s] /\ mSubscribersMap[s][c] = <<>>

\* Where setNextPacket is about to push there is room, if it pushes at all.
Room ==
    LET s == at[P].s
        c == at[P].c
    IN  pc[P] = "push" /\ c \in DOMAIN mSubscribersMap[s] /\ ~IsUnderrun(s, c) =>
          Len(mSubscribersMap[s][c]) < MaximumQueueSize

\* While enqueuePacket creates a stream: has it yet to admit c?
Unadmitted(c) ==
    /\ pc[P] \in {"scan", "admit", "check", "note", "fulfil"}
    /\ \/ at[P].all /\ ~Request[c].all
       \/ /\ at[P].all = Request[c].all
          /\ c > at[P].c \/ (c = at[P].c /\ pc[P] = "admit")

\* What was returned came from a queue.
Returns ==
    \A s \in Streams : \A c \in Contexts :
        /\ returned[c][s] <= Reach(s, c)
        /\ Unadmitted(c) /\ at[P].s = s =>
             /\ returned[c][s] = 0
             /\ c \in DOMAIN mSubscribersMap[s] => mSubscribersMap[s][c] = <<>>

\* The streams c ever asks for, and those it has dealt with: in the loop of
\* subscribe or subscribeToAll it is at one, and done with the ones before.
Names(c) == IF Request[c].all THEN Streams ELSE Range(Request[c].names)

HandledAt(c, label, l) ==
    IF label = "new" THEN {}
    ELSE IF label \notin {"names", "streams", "join", "check", "note", "file", "request"}
      THEN Names(c)
    ELSE IF Request[c].all
      THEN {s \in Streams : s < l.s \/ (s = l.s /\ label = "streams")}
    ELSE {s \in Streams : \E i \in DOMAIN Request[c].names :
            s = Request[c].names[i] /\ (i < l.n \/ (i = l.n /\ label = "names"))}

Handled(c) == HandledAt(c, pc[c], at[c])

Asked(c) == Handled(c) \cup (IF pc[c] \in {"check", "note"} THEN {at[c].s} ELSE {})

Admitting(c) == pc[P] \in {"check", "note", "fulfil"} /\ at[P].c = c

\* Nobody subscribes c to a stream it did not ask for ...
OnlyAsked(c) ==
    \A s \in Streams : c \in DOMAIN mSubscribersMap[s] => s \in Asked(c)

\* ... nor to one it waits for, unless it is about to stop waiting ...
FiledRequests(c) ==
    c \in DOMAIN mPendingSubscriptionRequests =>
        /\ pc[c] \notin {"new", "leave", "erase", "forget", "gone"}
        /\ \A s \in mPendingSubscriptionRequests[c] :
             /\ s \in Handled(c)
             /\ c \in DOMAIN mSubscribersMap[s] => Admitting(c) /\ at[P].s = s

\* ... and who waits for all streams has dealt with those there were.
WaitsForAll(c) ==
    c \in mPendingSubscribeToAllRequests => 
        pc[c] \in {"reset", "polling", "walk", "front", "pop"}

AdmitsAsked(c) ==
    /\ (pc[P] = "admit" /\ at[P].c = c) \/ Admitting(c) => at[P].s \in Handled(c)
    /\ pc[P] = "drop" /\ at[P].c = c => pc[c] # "new"

Requests ==
    \A c \in Contexts :
        OnlyAsked(c) /\ FiledRequests(c) /\ WaitsForAll(c) /\ AdmitsAsked(c)

\* Is c where it needs to be registered?
Present(c) == Subscribing(c) \/ Polling(c)

\* Is c counted, as one that asked for some streams?
Enlisted(c) ==
    c \in DOMAIN mPendingSubscriptionRequests \/ mActiveSubscriptionsMap[c] # {}

\* A context that is present is in a map, as soon as it has dealt with a stream.
RegisteredAt(c) ==
    /\ Request[c].all /\ (Polling(c) \/ pc[c] = "reset") =>
         c \in mPendingSubscribeToAllRequests
    /\ Present(c) /\ ~Request[c].all /\ Handled(c) # {} => Enlisted(c)
    /\ pc[c] = "request" /\ at[c].flag => Enlisted(c)
    /\ c \in DOMAIN mPendingSubscriptionRequests /\ mPendingSubscriptionRequests[c] = {} =>
         mActiveSubscriptionsMap[c] # {}
    /\ Present(c) /\ pc[P] \in {"fulfil", "drop"} /\ at[P].c = c =>
         mActiveSubscriptionsMap[c] # {}
    /\ Present(c) /\ pc[P] = "admit" /\ at[P].c = c /\ ~Request[c].all =>
         /\ c \in DOMAIN mPendingSubscriptionRequests
         /\ at[P].s \in mPendingSubscriptionRequests[c]

Registered == pc[S] = "idle" => \A c \in Contexts : RegisteredAt(c)

\* A disturbance is recorded.
Recorded == \A c \in Contexts : Disturbs(c) => disturbed[c]

OnStream(c, s) ==
    c \in DOMAIN mSubscribersMap[s] /\ s \in mActiveSubscriptionsMap[c]

Awaited(c, s) ==
    /\ c \in DOMAIN mPendingSubscriptionRequests
    /\ s \in mPendingSubscriptionRequests[c]

\* enqueuePacket is about to put c on the stream it creates, or at it.
Coming(c, s) ==
    /\ at[P].s = s
    /\ \/ /\ Unadmitted(c)
          /\ c \notin DOMAIN mSubscribersMap[s]
          /\ Request[c].all \/ Awaited(c, s)
       \/ pc[P] \in {"check", "note"} /\ at[P].c = c

\* An undisturbed context is on every stream it has dealt with, or soon will be.
ServedAt(c) ==
    /\ Present(c) => \A s \in Handled(c) :
         /\ s \in mStreamsMap => OnStream(c, s) \/ (Polling(c) /\ Coming(c, s))
         /\ s \notin mStreamsMap => Request[c].all \/ Awaited(c, s)
    /\ pc[c] \in {"check", "note"} => c \in DOMAIN mSubscribersMap[at[c].s]
    /\ pc[c] = "note" => (at[c].flag <=> mActiveSubscriptionsMap[c] # {})
    /\ pc[c] \in {"file", "request"} => at[c].s \notin mStreamsMap
    /\ pc[c] = "request" => (at[c].flag <=> c \in DOMAIN mPendingSubscriptionRequests)
    /\ Polling(c) /\ at[P].c = c =>
         /\ pc[P] \in {"check", "note"} => c \in DOMAIN mSubscribersMap[at[P].s]
         /\ pc[P] = "note" => (at[P].flag <=> mActiveSubscriptionsMap[c] # {})
         /\ pc[P] = "drop" => Names(c) \subseteq mStreamsMap

ServedSoFar == \A c \in Contexts : ~disturbed[c] /\ pc[S] = "idle" => ServedAt(c)

\* An undisturbed context that leaves is on none of the streams it has passed.
LeftAt(c) ==
    /\ \A s \in mStreamsMap :
         \/ pc[c] = "gone" \/ s < at[c].s
         \/ s = at[c].s /\ pc[c] \in {"leave", "forget"}
         => c \notin DOMAIN mSubscribersMap[s]
    /\ pc[c] = "gone" \/ at[c].flag \/ (pc[c] = "leave" /\ at[c].s # 0) =>
         mActiveSubscriptionsMap[c] = {}
    /\ pc[c] = "erase" => at[c].n = Cardinality(DOMAIN mSubscribersMap[at[c].s])
    /\ pc[c] = "forget" => at[c].s # 0
    /\ pc[P] \in {"admit", "check", "note"} => at[P].c # c

LeftSoFar ==
    \A c \in Contexts : ~disturbed[c] /\ (Leaving(c) \/ pc[c] = "gone") => LeftAt(c)

\* unsubscribeAll has purged an undisturbed context as far as it has come.
PurgedAt(c) ==
    /\ c \notin DOMAIN mPendingSubscriptionRequests
    /\ pc[S] # "clear" => c \notin mPendingSubscribeToAllRequests
    /\ \A s \in mStreamsMap :
         pc[S] = "stopped" \/ (pc[S] = "wipe" /\ s <= at[S].s) =>
            c \notin DOMAIN mSubscribersMap[s]

PurgedSoFar ==
    \A c \in Contexts : ~disturbed[c] /\ Polling(c) /\ pc[S] # "idle" => PurgedAt(c)

IInv == /\ TypeOK /\ Places /\ Mutexes /\ StreamsAreCreated
        /\ Runs /\ Underruns /\ Room /\ Returns /\ InOrder
        /\ Requests /\ Registered /\ CountCoversPolling
        /\ Recorded /\ ServedSoFar /\ LeftSoFar /\ PurgedSoFar
-----------------------------------------------------------------------------
(***************************************************************************)
(* Helpers.                                                                *)
(***************************************************************************)
\* A set of numbers that is not empty has a least element.
LEMMA MinProperties ==
    ASSUME NEW X \in SUBSET Nat, X # {}
    PROVE  Min(X) \in X /\ \A y \in X : Min(X) <= y
<1> DEFINE Less == OpToRel(<, Nat)
<1>1. PICK x \in X : \A y \in X : <<y, x>> \notin Less
  BY NatLessThanWellFounded, WFMin
<1>2. ASSUME NEW y \in X, y < x
      PROVE  <<y, x>> \in Less
  BY <1>2 DEF OpToRel
<1> HIDE DEF Less
<1>3. ASSUME NEW y \in X
      PROVE  x <= y
  <2>1. x \in Nat /\ y \in Nat
    OBVIOUS
  <2>2. ~(y < x)
    BY <1>1, <1>2
  <2> QED BY <2>1, <2>2
<1> QED BY <1>3 DEF Min

\* A traversal goes on to the least of the keys that are left.
LEMMA NextKey ==
    ASSUME NEW X \in SUBSET Nat, NEW x \in Nat, Above(X, x) # {}
    PROVE  LET y == Min(Above(X, x))
           IN  /\ y \in X /\ y > x
               /\ \A z \in X : z > x => z >= y
<1>1. Above(X, x) \in SUBSET Nat
  BY DEF Above
<1> QED BY <1>1, MinProperties DEF Above

\* The walk of getPackets goes on to a subscription that is left.
LEMMA NearestProperties ==
    ASSUME NEW E \in SUBSET (Contexts \X Streams), E # {}
    PROVE  Nearest(E) \in E
<1> DEFINE D == {e[1] : e \in E}
           d == Min(D)
           T == {s \in Streams : <<d, s>> \in E}
           s0 == Min(T)
<1>1. D \in SUBSET Nat /\ D # {}
  BY OrderAssumption
<1>2. d \in D /\ \A y \in D : d <= y
  BY <1>1, MinProperties
<1>3. T \in SUBSET Nat /\ T # {}
  <2>1. PICK e \in E : e[1] = d
    BY <1>2
  <2>2. e = <<e[1], e[2]>> /\ e[2] \in Streams
    BY E \in SUBSET (Contexts \X Streams)
  <2>3. e[2] \in T
    BY <2>1, <2>2
  <2> QED BY <2>3, OrderAssumption
<1>4. s0 \in T /\ \A y \in T : s0 <= y
  BY <1>3, MinProperties
<1> HIDE DEF d, s0
<1>5. <<d, s0>> \in E
  BY <1>4
<1>6. ASSUME NEW f \in E
      PROVE  d < f[1] \/ (d = f[1] /\ s0 <= f[2])
  <2>0. f \in Contexts \X Streams
    OBVIOUS
  <2>1. f = <<f[1], f[2]>> /\ f[1] \in Contexts /\ f[2] \in Streams
    BY <2>0
  <2>4. f[1] \in D
    OBVIOUS
  <2>2. d \in Nat /\ d <= f[1] /\ f[1] \in Nat
    BY <1>1, <1>2, <2>4
  <2>3. d = f[1] => f[2] \in T
    BY <2>1
  <2> QED BY <1>4, <2>2, <2>3
<1>7. \E e \in E : \A f \in E : e[1] < f[1] \/ (e[1] = f[1] /\ e[2] <= f[2])
  BY <1>5, <1>6
<1> QED BY <1>7 DEF Nearest

\* The keys of the maps are ordered as numbers are.
LEMMA KeysAreNumbers ==
    /\ \A c \in Contexts \cup {0} : c \in Nat
    /\ \A s \in Streams \cup {0} : s \in Nat
BY OrderAssumption

\* The publisher, the stopper and the contexts are different threads.
LEMMA ThreadsDiffer ==
    /\ P \notin Contexts /\ S \notin Contexts /\ P # S
    /\ Free \notin Threads
    /\ Threads = Contexts \cup {P, S}
    /\ Contexts \subseteq Nat \ {0} /\ Streams \subseteq Nat \ {0}
    /\ P = 0 /\ S = -2 /\ Free = -1
BY OrderAssumption DEF P, S, Publisher, Stopper, Threads, Free

\* A thread's local variables keep their types.
LEMMA LocalsUpdate ==
    ASSUME NEW l \in Locals
    PROVE  /\ \A s \in Streams \cup {0} : [l EXCEPT !.s = s] \in Locals
           /\ \A c \in Contexts \cup {0} : [l EXCEPT !.c = c] \in Locals
           /\ \A n \in Nat : [l EXCEPT !.n = n] \in Locals
           /\ \A f \in BOOLEAN : [l EXCEPT !.flag = f] \in Locals
           /\ \A c \in Contexts \cup {0}, f \in BOOLEAN :
                [l EXCEPT !.all = f, !.c = c] \in Locals
           /\ \A s \in Streams \cup {0}, n \in Nat :
                /\ [l EXCEPT !.n = n, !.s = s] \in Locals
                /\ [l EXCEPT !.s = s, !.n = n] \in Locals
           /\ \A s \in Streams \cup {0}, c \in Contexts \cup {0} :
                [l EXCEPT !.c = c, !.s = s] \in Locals
           /\ NoLocals \in Locals
BY DEF Locals, NoLocals

\* What Stream::subscribe, the note of an active subscription and the rest leave
\* has its type.
LEMMA SubscribeType ==
    ASSUME TypeOK, NEW t \in Threads, NEW c \in Contexts, NEW first \in Seq(Nat),
           NEW ifAlready \in Labels, at[t].s \in Streams,
           Subscribe(t, c, first, ifAlready)
    PROVE  /\ DOMAIN mSubscribersMap' = Streams
           /\ \A s \in Streams : IsQueueMap(mSubscribersMap'[s])
           /\ pc' \in [Threads -> Labels]
<1> USE DEF TypeOK
<1>1. IsQueueMap(subscribe(mSubscribersMap[at[t].s], c, first))
  BY subscribeType
<1>2. mSubscribersMap' =
        [mSubscribersMap EXCEPT ![at[t].s] =
           subscribe(mSubscribersMap[at[t].s], c, first)]
  BY DEF Subscribe
<1>3. pc' = [pc EXCEPT ![t] = "check"] \/ pc' = [pc EXCEPT ![t] = ifAlready]
  BY DEF Subscribe, Goto
<1>4. "check" \in Labels
  BY DEF Labels
<1> HIDE DEF TypeOK
<1>5. DOMAIN mSubscribersMap = Streams /\ \A s \in Streams : IsQueueMap(mSubscribersMap[s])
  BY DEF TypeOK
<1>6. pc \in [Threads -> Labels]
  BY DEF TypeOK
<1> QED BY <1>1, <1>2, <1>3, <1>4, <1>5, <1>6

\* A pop of a queue, in time or too late, leaves queues and underruns.
LEMMA PopType ==
    ASSUME TypeOK, NEW s \in Streams, NEW c \in Contexts, Pop(s, c)
    PROVE  /\ DOMAIN mSubscribersMap' = Streams
           /\ \A r \in Streams : IsQueueMap(mSubscribersMap'[r])
           /\ underrun' \in SUBSET (Streams \X Contexts)
<1> DEFINE q == getNextPackets(mSubscribersMap[s], c, 1)
<1>1. IsQueueMap(q)
  BY getNextPacketsType DEF TypeOK
<1>2. mSubscribersMap' = [mSubscribersMap EXCEPT ![s] = q]
  BY DEF Pop
<1>3. underrun' \in {underrun, underrun \cup {<<s, c>>}}
  BY DEF Pop
<1> HIDE DEF q
<1>4. DOMAIN mSubscribersMap' = Streams /\ \A r \in Streams : IsQueueMap(mSubscribersMap'[r])
  BY <1>1, <1>2 DEF TypeOK
<1>5. underrun \in SUBSET (Streams \X Contexts)
  BY DEF TypeOK
<1> QED BY <1>3, <1>4, <1>5

\* A queue whose front, if any, was popped.
Popped(queue) == SubSeq(queue, IF queue = <<>> THEN 1 ELSE 2, Len(queue))

\* A queue with its front removed.
LEMMA PoppedProperties ==
    ASSUME NEW q \in Seq(Nat)
    PROVE  /\ Popped(q) \in Seq(Nat)
           /\ Len(Popped(q)) = IF q = <<>> THEN 0 ELSE Len(q) - 1
           /\ \A i \in 1..Len(Popped(q)) : q # <<>> /\ Popped(q)[i] = q[i + 1]
<1>1. CASE q = <<>>
  BY <1>1 DEF Popped
<1>2. CASE q # <<>>
  <2>1. Popped(q) = SubSeq(q, 2, Len(q)) /\ Len(q) \in Nat /\ Len(q) > 0
    BY <1>2 DEF Popped
  <2>2. Popped(q) = Tail(q)
    BY <1>2, <2>1, TailIsSubSeq
  <2> QED BY <1>2, <2>2, HeadTailProperties
<1> QED BY <1>1, <1>2

\* An empty queue has no front to remove.
LEMMA PoppedEmpty == Popped(<<>>) = <<>>
<1>1. <<>> \in Seq(Nat)
  OBVIOUS
<1>2. Popped(<<>>) \in Seq(Nat) /\ Len(Popped(<<>>)) = 0
  BY <1>1, PoppedProperties
<1> QED BY <1>2

\* A pop changes one queue, which is underrun if there was nothing in it.
LEMMA PopProperties ==
    ASSUME TypeOK, NEW s \in Streams, NEW c \in Contexts, Pop(s, c)
    PROVE  /\ \A r \in Streams :
                /\ DOMAIN mSubscribersMap'[r] = DOMAIN mSubscribersMap[r]
                /\ \A d \in DOMAIN mSubscribersMap[r] :
                     mSubscribersMap'[r][d] = IF r = s /\ d = c
                                              THEN Popped(mSubscribersMap[r][d])
                                              ELSE mSubscribersMap[r][d]
           /\ underrun' = IF c \in DOMAIN mSubscribersMap[s] /\ mSubscribersMap[s][c] = <<>>
                          THEN underrun \cup {<<s, c>>} ELSE underrun
<1> DEFINE m == mSubscribersMap
           q == getNextPackets(m[s], c, 1)
<1>1. m' = [m EXCEPT ![s] = q]
  BY DEF Pop
<1>2. ASSUME NEW r \in Streams, r # s
      PROVE  m'[r] = m[r]
  BY <1>1, <1>2 DEF TypeOK
<1>3. m'[s] = q /\ DOMAIN q = DOMAIN m[s]
  BY <1>1 DEF TypeOK, getNextPackets
<1>4. ASSUME NEW d \in DOMAIN m[s]
      PROVE  q[d] = IF d = c THEN Popped(m[s][d]) ELSE m[s][d]
  <2>1. CASE d # c
    BY <2>1 DEF getNextPackets
  <2>2. CASE d = c
    <3>1. m[s][c] \in Seq(Nat)
      BY <2>2 DEF TypeOK, IsQueueMap
    <3>2. NumberReturned(m[s], c, 1) = IF m[s][c] = <<>> THEN 0 ELSE 1
      BY <2>2, <3>1 DEF NumberReturned, isSubscribed
    <3>3. NumberReturned(m[s], c, 1) + 1 = IF m[s][c] = <<>> THEN 1 ELSE 2
      BY <3>2
    <3>4. q[d] = SubSeq(m[s][c], NumberReturned(m[s], c, 1) + 1, Len(m[s][c]))
      BY <2>2 DEF getNextPackets
    <3> QED BY <2>2, <3>3, <3>4 DEF Popped
  <2> QED BY <2>1, <2>2
<1>5. underrun' = IF c \in DOMAIN m[s] /\ m[s][c] = <<>>
                  THEN underrun \cup {<<s, c>>} ELSE underrun
  BY DEF Pop, isSubscribed
<1> HIDE DEF q
<1> QED BY <1>2, <1>3, <1>4, <1>5

\* A push changes one queue, which is not underrun.
LEMMA PushedQueues ==
    ASSUME TypeOK, Places, PushPacket
    PROVE  LET s == at[P].s
               c == at[P].c
           IN  /\ s \in Streams /\ c \in Contexts
               /\ \A r \in Streams :
                    /\ DOMAIN mSubscribersMap'[r] = DOMAIN mSubscribersMap[r]
                    /\ \A d \in DOMAIN mSubscribersMap[r] :
                         mSubscribersMap'[r][d] =
                           IF r = s /\ d = c /\ ~IsUnderrun(s, c)
                           THEN Append(mSubscribersMap[r][d], mMostRecentPacket[r])
                           ELSE mSubscribersMap[r][d]
               /\ underrun' \in {underrun, underrun \ {<<s, c>>}}
<1> DEFINE m == mSubscribersMap
           s == at[P].s
           c == at[P].c
           q == Append(m[s][c], mMostRecentPacket[s])
<1>1. s \in Streams /\ c \in Contexts
  BY DEF PushPacket, Places, PublisherPlace
<1>2. m' = IF IsUnderrun(s, c) THEN m ELSE [m EXCEPT ![s][c] = q]
  BY DEF PushPacket
<1>3. underrun' \in {underrun, underrun \ {<<s, c>>}}
  BY DEF PushPacket
<1>4. ASSUME NEW r \in Streams
      PROVE  /\ DOMAIN m'[r] = DOMAIN m[r]
             /\ \A d \in DOMAIN m[r] :
                  m'[r][d] = IF r = s /\ d = c /\ ~IsUnderrun(s, c) THEN q ELSE m[r][d]
  <2> HIDE DEF q, s, c
  <2> QED BY <1>2 DEF TypeOK
<1> QED BY <1>1, <1>3, <1>4

\* The test whether a subscription is active keeps the types, ...
LEMMA CheckActiveType ==
    ASSUME TypeOK, NEW t \in Threads, NEW c \in Contexts, CheckActive(t, c),
           disturbed' \in [Contexts -> BOOLEAN]
    PROVE  TypeOK'
<1> DEFINE l == [at[t] EXCEPT !.flag = mActiveSubscriptionsMap[c] # {}]
<1>1. l \in Locals /\ at' = [at EXCEPT ![t] = l]
  BY LocalsUpdate DEF TypeOK, CheckActive
<1>2. at' \in [Threads -> Locals]
  BY <1>1 DEF TypeOK
<1>3. pc' \in [Threads -> Labels]
  BY DEF TypeOK, CheckActive, Goto, Labels
<1> QED BY <1>2, <1>3 DEF TypeOK, CheckActive, maps, streams, pending

\* ... and the note of an active one.
LEMMA NoteActiveType ==
    ASSUME TypeOK, NEW t \in Threads, NEW c \in Contexts, NEW next \in Labels,
           at[t].s \in Streams, NoteActive(t, c, next),
           disturbed' \in [Contexts -> BOOLEAN]
    PROVE  TypeOK'
<1> DEFINE l == [at[t] EXCEPT !.flag = FALSE]
           a == (IF at[t].flag THEN mActiveSubscriptionsMap[c] ELSE {}) \cup {at[t].s}
<1>1. l \in Locals /\ at' = [at EXCEPT ![t] = l]
  BY LocalsUpdate DEF TypeOK, NoteActive
<1>2. at' \in [Threads -> Locals]
  BY <1>1 DEF TypeOK
<1>3. pc' \in [Threads -> Labels]
  BY DEF TypeOK, NoteActive, Goto
<1>4. a \in SUBSET Streams /\ mActiveSubscriptionsMap' = [mActiveSubscriptionsMap EXCEPT ![c] = a]
  BY DEF TypeOK, NoteActive
<1>5. mActiveSubscriptionsMap' \in [Contexts -> SUBSET Streams]
  BY <1>4 DEF TypeOK
<1> QED BY <1>2, <1>3, <1>5 DEF TypeOK, NoteActive, streams, pending

\* The types of what most steps change.
LEMMA PlacesType ==
    ASSUME TypeOK, NEW t \in Threads, NEW label \in Labels, NEW l \in Locals,
           Goto(t, label) \/ UNCHANGED pc,
           at' = [at EXCEPT ![t] = l] \/ UNCHANGED at
    PROVE  pc' \in [Threads -> Labels] /\ at' \in [Threads -> Locals]
BY DEF TypeOK, Goto

\* Each step of each thread keeps the types: the publisher's, ...
LEMMA PublisherType ==
    ASSUME TypeOK, PublisherPlace, enqueuePacket, disturbed' \in [Contexts -> BOOLEAN]
    PROVE  TypeOK'
<1> DEFINE s == at[P].s
           m == mSubscribersMap[s]
           rest(X) == Above(X, at[P].c)
           moved(l) == at' = [at EXCEPT ![P] = l]
           waiting == DOMAIN mPendingSubscriptionRequests
<1>1. /\ P \in Threads /\ at[P] \in Locals /\ NoLocals \in Locals
      /\ at[P].c \in Nat /\ pc[P] \in Labels
  <2>1. P \in Threads /\ at \in [Threads -> Locals] /\ pc \in [Threads -> Labels]
    BY ThreadsDiffer DEF TypeOK
  <2>2. at[P].c \in Contexts \cup {0}
    BY <2>1 DEF Locals
  <2>3. at[P].c \in Nat
    BY <2>2, KeysAreNumbers
  <2> QED BY <2>1, <2>3, LocalsUpdate
<1>2. /\ \A X \in SUBSET Contexts : rest(X) # {} => Min(rest(X)) \in X
      /\ \A c \in Contexts \cup {0} : [at[P] EXCEPT !.c = c] \in Locals
  BY <1>1, NextKey, ThreadsDiffer, LocalsUpdate
<1>3. pc[P] # "idle" => s \in Streams /\ IsQueueMap(m) /\ mMostRecentPacket[s] \in Nat
  BY DEF TypeOK, PublisherPlace
<1>4. \A label \in Labels, l \in Locals :
         (Goto(P, label) \/ UNCHANGED pc) /\ (moved(l) \/ UNCHANGED at) =>
           pc' \in [Threads -> Labels] /\ at' \in [Threads -> Locals]
  BY <1>1, PlacesType
<1>5. {"idle", "lock", "fanout", "trim", "push", "insert", "scan", "admit", "fulfil", "purge",
       "drop", "check", "note"} \subseteq Labels
  BY DEF Labels
<1> USE DEF maps, streams, pending
<1>6. ASSUME NEW q \in Streams, FindStream(q)
      PROVE  TypeOK'
  <2> DEFINE l == [NoLocals EXCEPT !.s = q]
  <2>1. l \in Locals /\ moved(l)
    BY <1>6, LocalsUpdate, <1>1 DEF FindStream
  <2>2. Goto(P, "lock") \/ Goto(P, "insert")
    BY <1>6 DEF FindStream
  <2>3. pc' \in [Threads -> Labels] /\ at' \in [Threads -> Locals]
    BY <2>1, <2>2, <1>4, <1>5
  <2> QED BY <1>6, <2>3 DEF TypeOK, FindStream
<1>7. CASE LockStream
  <2>1. Goto(P, "fanout") /\ UNCHANGED at
    BY <1>7 DEF LockStream
  <2>2. pc' \in [Threads -> Labels] /\ at' \in [Threads -> Locals]
    BY <2>1, <1>1, <1>4, <1>5
  <2>3. mMostRecentPacket' \in [Streams -> Nat] /\ mMutex' \in [Streams -> Threads \cup {Free}]
    BY <1>7, <1>1, <1>3 DEF LockStream, TypeOK
  <2> QED BY <1>7, <2>2, <2>3 DEF TypeOK, LockStream
<1>8. CASE FanOut
  <2> DEFINE c == Min(rest(DOMAIN m))
             l == [at[P] EXCEPT !.c = c]
  <2>1. c \in Contexts /\ l \in Locals /\ moved(l)
    BY <1>8, <1>2, <1>3 DEF FanOut, IsQueueMap
  <2>2. Goto(P, "trim") \/ Goto(P, "push")
    BY <1>8 DEF FanOut
  <2> HIDE DEF c, l
  <2>3. pc' \in [Threads -> Labels] /\ at' \in [Threads -> Locals]
    BY <2>1, <2>2, <1>4, <1>5
  <2> QED BY <1>8, <2>3 DEF TypeOK, FanOut
<1>16. CASE TrimQueue
  <2>1. Goto(P, "push") /\ UNCHANGED at /\ Pop(s, at[P].c)
    BY <1>16 DEF TrimQueue
  <2>2. pc' \in [Threads -> Labels] /\ at' \in [Threads -> Locals]
    BY <2>1, <1>1, <1>4, <1>5
  <2>3. s \in Streams /\ at[P].c \in Contexts
    BY <1>16 DEF TrimQueue, PublisherPlace
  <2>4. /\ DOMAIN mSubscribersMap' = Streams
        /\ \A r \in Streams : IsQueueMap(mSubscribersMap'[r])
        /\ underrun' \in SUBSET (Streams \X Contexts)
    BY <2>1, <2>3, PopType
  <2> QED BY <1>16, <2>2, <2>4 DEF TypeOK, TrimQueue
<1>17. CASE PushPacket
  <2> DEFINE c == at[P].c
             q == Append(m[c], mMostRecentPacket[s])
  <2>1. Goto(P, "fanout") /\ UNCHANGED at
    BY <1>17 DEF PushPacket
  <2>2. pc' \in [Threads -> Labels] /\ at' \in [Threads -> Locals]
    BY <2>1, <1>1, <1>4, <1>5
  <2>3. underrun' \in SUBSET (Streams \X Contexts)
    BY <1>17 DEF PushPacket, TypeOK
  <2>4. \/ UNCHANGED mSubscribersMap
        \/ mSubscribersMap' = [mSubscribersMap EXCEPT ![s] = [m EXCEPT ![c] = q]]
    BY <1>17 DEF PushPacket
  <2>5. c \in DOMAIN m => q \in Seq(Nat)
    BY <1>17, <1>3 DEF PushPacket, IsQueueMap
  <2> HIDE DEF c, q
  <2>6. IsQueueMap([m EXCEPT ![c] = q])
    BY <2>5, <1>17, <1>3 DEF IsQueueMap, PushPacket
  <2> HIDE DEF m
  <2>7. DOMAIN mSubscribersMap' = Streams /\ \A r \in Streams : IsQueueMap(mSubscribersMap'[r])
    BY <2>4, <2>6 DEF TypeOK
  <2> QED BY <1>17, <2>2, <2>3, <2>7 DEF TypeOK, PushPacket
<1>9. CASE UnlockStream
  <2>1. Goto(P, "idle") /\ moved(NoLocals)
    BY <1>9 DEF UnlockStream
  <2>2. pc' \in [Threads -> Labels] /\ at' \in [Threads -> Locals]
    BY <2>1, <1>1, <1>4, <1>5
  <2> QED BY <1>9, <2>2 DEF TypeOK, UnlockStream
<1>10. CASE InsertStream
  <2>1. Goto(P, "scan") /\ UNCHANGED at
    BY <1>10 DEF InsertStream
  <2>2. pc' \in [Threads -> Labels] /\ at' \in [Threads -> Locals]
    BY <2>1, <1>1, <1>4, <1>5
  <2>3. mMostRecentPacket' \in [Streams -> Nat] /\ mStreamsMap' \in SUBSET Streams
    BY <1>10, <1>3 DEF InsertStream, TypeOK
  <2> QED BY <1>10, <2>2, <2>3 DEF TypeOK, InsertStream
<1>11. CASE ScanAll
  <2> DEFINE c == Min(rest(mPendingSubscribeToAllRequests))
             l == [at[P] EXCEPT !.c = c]
             k == [at[P] EXCEPT !.all = FALSE, !.c = 0]
  <2>1. k \in Locals /\ (rest(mPendingSubscribeToAllRequests) # {} => l \in Locals)
    BY <1>1, <1>2, LocalsUpdate DEF TypeOK
  <2>2. \/ l \in Locals /\ moved(l) /\ Goto(P, "admit")
        \/ moved(k) /\ UNCHANGED pc
    BY <1>11, <2>1 DEF ScanAll
  <2> HIDE DEF l, k
  <2>3. pc' \in [Threads -> Labels] /\ at' \in [Threads -> Locals]
    BY <2>1, <2>2, <1>4, <1>5
  <2> QED BY <1>11, <2>3 DEF TypeOK, ScanAll
<1>12. CASE ScanRequests \/ FindEmptyRequest
  <2> DEFINE c == Min(rest(waiting))
             l == [at[P] EXCEPT !.c = c]
             k == [at[P] EXCEPT !.c = 0]
  <2>1. k \in Locals /\ (rest(waiting) # {} => l \in Locals)
    BY <1>1, <1>2, LocalsUpdate DEF TypeOK
  <2>2. /\ \E label \in {"admit", "scan", "purge", "drop", "idle"} : Goto(P, label)
        /\ (l \in Locals /\ moved(l)) \/ moved(k) \/ moved(NoLocals)
    BY <1>12, <2>1 DEF ScanRequests, FindEmptyRequest
  <2> HIDE DEF l, k, moved
  <2>3. pc' \in [Threads -> Labels] /\ at' \in [Threads -> Locals]
    BY <2>1, <2>2, <1>1, <1>4, <1>5
  <2> QED BY <1>12, <2>3 DEF TypeOK, ScanRequests, FindEmptyRequest
<1>13. CASE Admit
  <2>1. /\ at[P].c \in Contexts /\ <<mMostRecentPacket[s]>> \in Seq(Nat)
        /\ AfterAdmission \in Labels /\ s \in Streams
    BY <1>13, <1>3 DEF Admit, PublisherPlace, AfterAdmission, Labels
  <2>2. Subscribe(P, at[P].c, <<mMostRecentPacket[s]>>, AfterAdmission)
    BY <1>13 DEF Admit
  <2>3. /\ DOMAIN mSubscribersMap' = Streams
        /\ \A r \in Streams : IsQueueMap(mSubscribersMap'[r])
        /\ pc' \in [Threads -> Labels]
    BY <2>1, <2>2, <1>1, SubscribeType
  <2> QED BY <2>2, <2>3 DEF TypeOK, Subscribe
<1>14. CASE NoteAdmitted
  <2>1. at[P].c \in Contexts /\ s \in Streams /\ AfterAdmission \in Labels
    BY <1>14, <1>3
    DEF NoteAdmitted, CheckActive, NoteActive, PublisherPlace, AfterAdmission, Labels
  <2> QED BY <1>14, <2>1, <1>1, CheckActiveType, NoteActiveType DEF NoteAdmitted
<1>15. CASE Fulfil \/ DropRequest
  <2>1. Goto(P, "scan") \/ Goto(P, "purge")
    BY <1>15 DEF Fulfil, DropRequest
  <2>2. UNCHANGED at
    BY <1>15 DEF Fulfil, DropRequest
  <2>3. pc' \in [Threads -> Labels] /\ at' \in [Threads -> Locals]
    BY <2>1, <2>2, <1>1, <1>4, <1>5
  <2>4. /\ DOMAIN mPendingSubscriptionRequests' \in SUBSET Contexts
        /\ \A c \in DOMAIN mPendingSubscriptionRequests' :
             mPendingSubscriptionRequests'[c] \in SUBSET Streams
    BY <1>15 DEF Fulfil, DropRequest, TypeOK
  <2> QED BY <1>15, <2>3, <2>4 DEF TypeOK, Fulfil, DropRequest
<1> QED BY <1>6, <1>7, <1>8, <1>9, <1>10, <1>11, <1>12, <1>13, <1>14, <1>15, <1>16,
           <1>17 DEF enqueuePacket

\* ... a context's when it subscribes, ...
LEMMA SubscribeStepType ==
    ASSUME TypeOK, NEW c \in Contexts, ContextPlace(c), SubscribeStep(c),
           disturbed' \in [Contexts -> BOOLEAN]
    PROVE  TypeOK'
<1> DEFINE s == at[c].s
           moved(l) == at' = [at EXCEPT ![c] = l]
           names == Request[c].names
           filed == DOMAIN mPendingSubscriptionRequests
<1>1. /\ c \in Threads /\ at[c] \in Locals /\ NoLocals \in Locals
      /\ at[c].s \in Nat /\ at[c].n \in Nat /\ pc[c] \in Labels
  <2>1. c \in Threads /\ at \in [Threads -> Locals] /\ pc \in [Threads -> Labels]
    BY ThreadsDiffer DEF TypeOK
  <2>2. at[c].s \in Streams \cup {0} /\ at[c].n \in Nat
    BY <2>1 DEF Locals
  <2>3. at[c].s \in Nat
    BY <2>2, KeysAreNumbers
  <2> QED BY <2>1, <2>2, <2>3, LocalsUpdate
<1>2. NextWanted(c) \in Labels
  BY DEF NextWanted, Labels
<1>3. pc[c] \in {"join", "check", "note"} => s \in Streams
  BY DEF TypeOK, ContextPlace
<1>4. \A label \in Labels, l \in Locals :
         (Goto(c, label) \/ UNCHANGED pc) /\ (moved(l) \/ UNCHANGED at) =>
           pc' \in [Threads -> Labels] /\ at' \in [Threads -> Locals]
  BY <1>1, PlacesType
<1>5. {"join", "file", "reset", "request", "names", "polling"} \subseteq Labels
  BY DEF Labels
<1> USE DEF maps, streams, pending
<1>6. CASE StartSubscribe(c)
  <2>1. pc' \in [Threads -> Labels] /\ at' \in [Threads -> Locals]
    BY <1>6, <1>1, <1>2, <1>4 DEF StartSubscribe
  <2> QED BY <1>6, <2>1 DEF TypeOK, StartSubscribe
<1>7. CASE NextName(c)
  <2> DEFINE n == at[c].n + 1
             l == [at[c] EXCEPT !.n = n, !.s = names[n]]
  <2>1. n \in Nat /\ (n <= Len(names) => names[n] \in Streams)
    <3>1. names \in Seq(Streams)
      BY RequestAssumption
    <3> QED BY <3>1, <1>1
  <2>2. n <= Len(names) => l \in Locals
    BY <2>1, <1>1, LocalsUpdate
  <2>5. \/ /\ n <= Len(names)
           /\ at' = [at EXCEPT ![c].n = n, ![c].s = names[n]]
           /\ Goto(c, "join") \/ Goto(c, "file")
        \/ UNCHANGED at /\ Goto(c, "reset")
    BY <1>7 DEF NextName
  <2> HIDE DEF names, n
  <2>3. \/ moved(l) /\ l \in Locals /\ (Goto(c, "join") \/ Goto(c, "file"))
        \/ UNCHANGED at /\ Goto(c, "reset")
    BY <2>5, <2>2
  <2> HIDE DEF l
  <2>4. pc' \in [Threads -> Labels] /\ at' \in [Threads -> Locals]
    BY <2>3, <1>1, <1>4, <1>5
  <2> QED BY <1>7, <2>4 DEF TypeOK, NextName
<1>8. CASE FindRequest(c)
  <2> DEFINE found == c \in filed
             l == [at[c] EXCEPT !.flag = found]
  <2>0. found \in BOOLEAN
    OBVIOUS
  <2>3. at' = [at EXCEPT ![c].flag = found] /\ Goto(c, "request")
    BY <1>8 DEF FindRequest
  <2> HIDE DEF found
  <2>1. l \in Locals /\ moved(l) /\ Goto(c, "request")
    BY <2>0, <2>3, <1>1, LocalsUpdate
  <2> HIDE DEF l
  <2>2. pc' \in [Threads -> Labels] /\ at' \in [Threads -> Locals]
    BY <2>1, <1>4, <1>5
  <2> QED BY <1>8, <2>2 DEF TypeOK, FindRequest
<1>9. CASE FileRequest(c)
  <2> DEFINE l == [at[c] EXCEPT !.flag = FALSE]
             r == [d \in filed \cup {c} |->
                     (IF d \in filed THEN mPendingSubscriptionRequests[d] ELSE {})
                       \cup (IF d = c THEN {at[c].s} ELSE {})]
  <2>1. l \in Locals /\ moved(l) /\ Goto(c, "names")
    BY <1>9, <1>1, LocalsUpdate DEF FileRequest
  <2>2. at[c].s \in Streams
    BY <1>9, RequestAssumption DEF ContextPlace, FileRequest
  <2> HIDE DEF l
  <2>3. pc' \in [Threads -> Labels] /\ at' \in [Threads -> Locals]
    BY <2>1, <1>4, <1>5
  <2>4. DOMAIN r \in SUBSET Contexts /\ \A d \in DOMAIN r : r[d] \in SUBSET Streams
    BY <2>2 DEF TypeOK
  <2>5. mPendingSubscriptionRequests' \in {r, mPendingSubscriptionRequests}
    BY <1>9 DEF FileRequest
  <2> HIDE DEF r
  <2>6. /\ DOMAIN mPendingSubscriptionRequests' \in SUBSET Contexts
        /\ \A d \in DOMAIN mPendingSubscriptionRequests' :
             mPendingSubscriptionRequests'[d] \in SUBSET Streams
    BY <2>4, <2>5 DEF TypeOK
  <2>7. UNCHANGED <<streams, mActiveSubscriptionsMap, mPendingSubscribeToAllRequests,
                    mNumberOfSubscribers, mMutex, returned>>
    BY <1>9 DEF FileRequest
  <2> QED BY <2>3, <2>6, <2>7 DEF TypeOK
<1>10. CASE NextStream(c)
  <2> DEFINE x == Min(Above(mStreamsMap, s))
             l == [at[c] EXCEPT !.s = x]
  <2>1. x \in Streams
    <3>1. Above(mStreamsMap, s) # {}
      BY <1>10 DEF NextStream
    <3>2. mStreamsMap \in SUBSET Streams /\ mStreamsMap \in SUBSET Nat
      BY ThreadsDiffer DEF TypeOK
    <3>3. s \in Nat
      BY <1>1, KeysAreNumbers DEF Locals
    <3> QED BY <3>1, <3>2, <3>3, NextKey
  <2>2. l \in Locals /\ moved(l) /\ Goto(c, "join")
    BY <1>10, <2>1, <1>1, LocalsUpdate DEF NextStream
  <2> HIDE DEF l
  <2>3. pc' \in [Threads -> Labels] /\ at' \in [Threads -> Locals]
    BY <2>2, <1>4, <1>5
  <2> QED BY <1>10, <2>3 DEF TypeOK, NextStream
<1>11. CASE WaitForAll(c)
  <2>1. pc' \in [Threads -> Labels] /\ at' \in [Threads -> Locals]
    BY <1>11, <1>1, <1>4, <1>5 DEF WaitForAll
  <2> QED BY <1>11, <2>1 DEF TypeOK, WaitForAll
<1>12. CASE Join(c)
  <2>1. Subscribe(c, c, <<>>, NextWanted(c)) /\ s \in Streams /\ <<>> \in Seq(Nat)
    BY <1>12, <1>3 DEF Join
  <2>2. /\ DOMAIN mSubscribersMap' = Streams
        /\ \A r \in Streams : IsQueueMap(mSubscribersMap'[r])
        /\ pc' \in [Threads -> Labels]
    BY <2>1, <1>1, <1>2, SubscribeType
  <2> QED BY <2>1, <2>2 DEF TypeOK, Subscribe
<1>13. CASE NoteJoined(c)
  <2>1. s \in Streams
    BY <1>13, <1>3 DEF NoteJoined, CheckActive, NoteActive
  <2> QED BY <1>13, <2>1, <1>1, <1>2, CheckActiveType, NoteActiveType DEF NoteJoined
<1>14. CASE ResetCount(c, "reset", "polling")
  <2>1. pc' \in [Threads -> Labels] /\ at' \in [Threads -> Locals]
    BY <1>14, <1>1, <1>4, <1>5 DEF ResetCount
  <2>2. mNumberOfSubscribers' \in -1..Cardinality(Contexts)
    BY <1>14, FS_CardinalityType, OrderAssumption DEF ResetCount
  <2> QED BY <1>14, <2>1, <2>2 DEF TypeOK, ResetCount
<1> QED BY <1>6, <1>7, <1>8, <1>9, <1>10, <1>11, <1>12, <1>13, <1>14
        DEF SubscribeStep

\* ... polls, ...
LEMMA PollStepType ==
    ASSUME TypeOK, NEW c \in Contexts, ContextPlace(c), PollStep(c),
           disturbed' \in [Contexts -> BOOLEAN]
    PROVE  TypeOK'
<1> DEFINE moved(l) == at' = [at EXCEPT ![c] = l]
           m == mSubscribersMap
<1>1. c \in Threads /\ at[c] \in Locals /\ NoLocals \in Locals /\ pc[c] \in Labels
  BY ThreadsDiffer, LocalsUpdate DEF TypeOK
<1>2. \A label \in Labels, l \in Locals :
         (Goto(c, label) \/ UNCHANGED pc) /\ (moved(l) \/ UNCHANGED at) =>
           pc' \in [Threads -> Labels] /\ at' \in [Threads -> Locals]
  BY <1>1, PlacesType
<1>3. {"front", "pop", "walk", "polling"} \subseteq Labels
  BY DEF Labels
<1> USE DEF maps, streams, pending
<1>4. CASE FindQueue(c)
  <2> DEFINE e == Nearest(Unvisited(c))
             l == [at[c] EXCEPT !.c = e[1], !.s = e[2]]
  <2>1. e \in Contexts \X Streams
    <3>1. Unvisited(c) # {}
      BY <1>4 DEF FindQueue
    <3>2. Unvisited(c) \in SUBSET (Contexts \X Streams)
      BY DEF Unvisited
    <3> QED BY <3>1, <3>2, NearestProperties
  <2>2. e[1] \in Contexts /\ e[2] \in Streams
    BY <2>1
  <2>3. l \in Locals /\ moved(l) /\ (Goto(c, "front") \/ Goto(c, "walk"))
    BY <1>4, <2>2, <1>1, LocalsUpdate DEF FindQueue
  <2> HIDE DEF l, e
  <2>5. pc' \in [Threads -> Labels] /\ at' \in [Threads -> Locals]
    BY <2>3, <1>2, <1>3
  <2> QED BY <1>4, <2>5 DEF TypeOK, FindQueue
<1>7. CASE TakePacket(c)
  <2> DEFINE s == at[c].s
             h == Head(m[s][c])
             r == [returned[c] EXCEPT ![s] = h]
  <2>1. s \in Streams
    BY <1>7 DEF TakePacket, ContextPlace, TypeOK
  <2>2. Goto(c, "pop") /\ UNCHANGED at
    BY <1>7 DEF TakePacket
  <2>3. pc' \in [Threads -> Labels] /\ at' \in [Threads -> Locals]
    BY <2>2, <1>1, <1>2, <1>3
  <2>4. \/ UNCHANGED returned
        \/ /\ c \in DOMAIN m[s] /\ m[s][c] # <<>>
           /\ returned' = [returned EXCEPT ![c] = r]
    BY <1>7 DEF TakePacket, isSubscribed
  <2>5. c \in DOMAIN m[s] /\ m[s][c] # <<>> => h \in Nat
    <3>1. c \in DOMAIN m[s] => m[s][c] \in Seq(Nat)
      BY <2>1 DEF TypeOK, IsQueueMap
    <3> QED BY <3>1
  <2> HIDE DEF h
  <2>6. h \in Nat => r \in [Streams -> Nat]
    BY <2>1 DEF TypeOK
  <2> HIDE DEF r, s
  <2>7. returned' \in [Contexts -> [Streams -> Nat]]
    BY <2>4, <2>5, <2>6 DEF TypeOK
  <2> QED BY <1>7, <2>3, <2>7 DEF TypeOK, TakePacket
<1>5. CASE PopPacket(c)
  <2>1. at[c].s \in Streams
    BY <1>5 DEF PopPacket, ContextPlace, TypeOK
  <2>2. Pop(at[c].s, c)
    BY <1>5 DEF PopPacket
  <2>4. /\ DOMAIN mSubscribersMap' = Streams
        /\ \A r \in Streams : IsQueueMap(mSubscribersMap'[r])
        /\ underrun' \in SUBSET (Streams \X Contexts)
    BY <2>1, <2>2, PopType
  <2>5. pc' \in [Threads -> Labels] /\ at' \in [Threads -> Locals]
    BY <1>5, <1>1, <1>2, <1>3 DEF PopPacket
  <2> QED BY <1>5, <2>4, <2>5 DEF TypeOK, PopPacket
<1>6. CASE EndWalk(c)
  <2>1. pc' \in [Threads -> Labels] /\ at' \in [Threads -> Locals]
    BY <1>6, <1>1, <1>2, <1>3 DEF EndWalk
  <2> QED BY <1>6, <2>1 DEF TypeOK, EndWalk
<1> QED BY <1>4, <1>5, <1>6, <1>7 DEF PollStep

\* ... and leaves, ...
LEMMA LeaveStepType ==
    ASSUME TypeOK, NEW c \in Contexts, ContextPlace(c), StartLeave(c) \/ LeaveStep(c),
           disturbed' \in [Contexts -> BOOLEAN]
    PROVE  TypeOK'
<1> DEFINE moved(l) == at' = [at EXCEPT ![c] = l]
           m == mSubscribersMap
<1>1. /\ c \in Threads /\ at[c] \in Locals /\ NoLocals \in Locals
      /\ at[c].s \in Nat /\ pc[c] \in Labels
  <2>1. c \in Threads /\ at \in [Threads -> Locals] /\ pc \in [Threads -> Labels]
    BY ThreadsDiffer DEF TypeOK
  <2>2. at[c].s \in Streams \cup {0}
    BY <2>1 DEF Locals
  <2>3. at[c].s \in Nat
    BY <2>2, KeysAreNumbers
  <2> QED BY <2>1, <2>3, LocalsUpdate
<1>2. \A label \in Labels, l \in Locals :
         (Goto(c, label) \/ UNCHANGED pc) /\ (moved(l) \/ UNCHANGED at) =>
           pc' \in [Threads -> Labels] /\ at' \in [Threads -> Locals]
  BY <1>1, PlacesType
<1>3. {"leave", "erase", "forget", "gone"} \subseteq Labels
  BY DEF Labels
<1> USE DEF maps, streams, pending
<1>4. CASE StartLeave(c)
  <2>1. pc' \in [Threads -> Labels] /\ at' \in [Threads -> Locals]
    BY <1>4, <1>1, <1>2, <1>3 DEF StartLeave
  <2> QED BY <1>4, <2>1 DEF TypeOK, StartLeave
<1>5. CASE TakeSize(c)
  <2> DEFINE s == Min(Above(mStreamsMap, at[c].s))
             n == Cardinality(DOMAIN m[s])
             l == [at[c] EXCEPT !.s = s, !.n = n]
  <2>1. s \in Streams
    <3>1. Above(mStreamsMap, at[c].s) # {}
      BY <1>5 DEF TakeSize
    <3>2. mStreamsMap \in SUBSET Streams /\ mStreamsMap \in SUBSET Nat
      BY ThreadsDiffer DEF TypeOK
    <3>3. at[c].s \in Nat
      BY <1>1, KeysAreNumbers DEF Locals
    <3> QED BY <3>1, <3>2, <3>3, NextKey
  <2>2. n \in Nat
    <3>1. DOMAIN m[s] \in SUBSET Contexts
      BY <2>1 DEF TypeOK, IsQueueMap
    <3>2. IsFiniteSet(DOMAIN m[s])
      BY <3>1, OrderAssumption, FS_Subset
    <3> QED BY <3>2, FS_CardinalityType
  <2>3. /\ at' = [at EXCEPT ![c].s = s, ![c].n = n]
        /\ mMutex' = [mMutex EXCEPT ![s] = c] /\ Goto(c, "erase")
    BY <1>5 DEF TakeSize
  <2> HIDE DEF s, n
  <2>4. l \in Locals /\ moved(l)
    BY <2>1, <2>2, <2>3, <1>1, LocalsUpdate
  <2> HIDE DEF l
  <2>5. pc' \in [Threads -> Labels] /\ at' \in [Threads -> Locals]
    BY <2>3, <2>4, <1>2, <1>3
  <2>6. mMutex' \in [Streams -> Threads \cup {Free}]
    BY <2>3, <1>1 DEF TypeOK
  <2> QED BY <1>5, <2>5, <2>6 DEF TypeOK, TakeSize
<1>6. CASE Erase(c)
  <2> DEFINE s == at[c].s
             q == unsubscribe(m[s], c)
             l == [at[c] EXCEPT !.n = 0]
  <2>1. s \in Streams /\ IsQueueMap(m[s])
    BY <1>6 DEF Erase, ContextPlace, TypeOK
  <2>2. IsQueueMap(q)
    BY <2>1, unsubscribeType
  <2>3. /\ mSubscribersMap' = [mSubscribersMap EXCEPT ![s] = q]
        /\ mMutex' = [mMutex EXCEPT ![s] = Free]
        /\ Goto(c, "forget") \/ Goto(c, "leave")
        /\ at' = [at EXCEPT ![c].n = 0]
    BY <1>6 DEF Erase
  <2> HIDE DEF q
  <2>4. DOMAIN mSubscribersMap' = Streams /\ \A r \in Streams : IsQueueMap(mSubscribersMap'[r])
    BY <2>1, <2>2, <2>3 DEF TypeOK
  <2>5. l \in Locals /\ moved(l)
    BY <2>3, <1>1, LocalsUpdate
  <2> HIDE DEF l
  <2>6. pc' \in [Threads -> Labels] /\ at' \in [Threads -> Locals]
    BY <2>3, <2>5, <1>2, <1>3
  <2>7. mMutex' \in [Streams -> Threads \cup {Free}]
    BY <2>1, <2>3 DEF TypeOK
  <2>8. underrun' \in SUBSET (Streams \X Contexts)
    BY <1>6 DEF Erase, TypeOK
  <2> QED BY <1>6, <2>4, <2>6, <2>7, <2>8 DEF TypeOK, Erase
<1>7. CASE ForgetActive(c)
  <2> DEFINE l == [at[c] EXCEPT !.flag = TRUE]
  <2>1. l \in Locals /\ moved(l) /\ Goto(c, "leave")
    BY <1>7, <1>1, LocalsUpdate DEF ForgetActive
  <2> HIDE DEF l
  <2>2. pc' \in [Threads -> Labels] /\ at' \in [Threads -> Locals]
    BY <2>1, <1>2, <1>3
  <2>3. mActiveSubscriptionsMap' \in [Contexts -> SUBSET Streams]
    BY <1>7 DEF ForgetActive, TypeOK
  <2> QED BY <1>7, <2>2, <2>3 DEF TypeOK, ForgetActive
<1>8. CASE EndLeave(c)
  <2>1. ResetCount(c, "leave", "gone")
    BY <1>8 DEF EndLeave
  <2>2. pc' \in [Threads -> Labels] /\ at' \in [Threads -> Locals]
    BY <2>1, <1>1, <1>2, <1>3 DEF ResetCount
  <2>3. mNumberOfSubscribers' \in -1..Cardinality(Contexts)
    BY <2>1, FS_CardinalityType, OrderAssumption DEF ResetCount
  <2> QED BY <2>1, <2>2, <2>3 DEF TypeOK, ResetCount
<1> QED BY <1>4, <1>5, <1>6, <1>7, <1>8 DEF LeaveStep

\* The count is that of a set of contexts.
LEMMA NumberType ==
    ASSUME TypeOK, getNumberOfSubscribers, disturbed' \in [Contexts -> BOOLEAN]
    PROVE  TypeOK'
<1>1. AllSubscribers \in SUBSET Contexts
  BY DEF AllSubscribers, TypeOK
<1>2. /\ Cardinality(AllSubscribers) \in Nat /\ Cardinality(Contexts) \in Nat
      /\ Cardinality(AllSubscribers) <= Cardinality(Contexts)
  BY <1>1, OrderAssumption, FS_Subset, FS_CardinalityType
<1>3. mNumberOfSubscribers' \in -1..Cardinality(Contexts)
  BY <1>2 DEF getNumberOfSubscribers
<1> QED BY <1>3 DEF TypeOK, getNumberOfSubscribers, streams, pending

\* ... and the stopper's.
LEMMA StopperType ==
    ASSUME TypeOK, unsubscribeAll, disturbed' \in [Contexts -> BOOLEAN]
    PROVE  TypeOK'
<1> DEFINE moved(l) == at' = [at EXCEPT ![S] = l]
<1>1. /\ S \in Threads /\ at[S] \in Locals /\ NoLocals \in Locals
      /\ at[S].s \in Nat /\ pc[S] \in Labels
  <2>1. S \in Threads /\ at \in [Threads -> Locals] /\ pc \in [Threads -> Labels]
    BY ThreadsDiffer DEF TypeOK
  <2>2. at[S].s \in Streams \cup {0}
    BY <2>1 DEF Locals
  <2>3. at[S].s \in Nat
    BY <2>2, KeysAreNumbers
  <2> QED BY <2>1, <2>3, LocalsUpdate
<1>2. \A label \in Labels, l \in Locals :
         (Goto(S, label) \/ UNCHANGED pc) /\ (moved(l) \/ UNCHANGED at) =>
           pc' \in [Threads -> Labels] /\ at' \in [Threads -> Locals]
  BY <1>1, PlacesType
<1>3. {"clear", "wipe", "stopped"} \subseteq Labels
  BY DEF Labels
<1> USE DEF maps, streams, pending
<1>4. CASE StartPurge \/ ClearWaiting
  <2>1. UNCHANGED at /\ (Goto(S, "clear") \/ Goto(S, "wipe"))
    BY <1>4 DEF StartPurge, ClearWaiting
  <2>2. pc' \in [Threads -> Labels] /\ at' \in [Threads -> Locals]
    BY <2>1, <1>1, <1>2, <1>3
  <2>3. mNumberOfSubscribers' \in -1..Cardinality(Contexts)
    BY <1>4, FS_CardinalityType, OrderAssumption DEF StartPurge, ClearWaiting, TypeOK
  <2>4. /\ DOMAIN mPendingSubscriptionRequests' \in SUBSET Contexts
        /\ \A c \in DOMAIN mPendingSubscriptionRequests' :
             mPendingSubscriptionRequests'[c] \in SUBSET Streams
    BY <1>4 DEF StartPurge, ClearWaiting, TypeOK
  <2> QED BY <1>4, <2>2, <2>3, <2>4 DEF TypeOK, StartPurge, ClearWaiting
<1>5. CASE WipeStream
  <2> DEFINE s == Min(Above(mStreamsMap, at[S].s))
             l == [at[S] EXCEPT !.s = s]
  <2>1. s \in Streams
    BY <1>5, <1>1, NextKey, ThreadsDiffer DEF WipeStream, TypeOK
  <2>2. /\ mSubscribersMap' = [mSubscribersMap EXCEPT ![s] = NoSubscribers]
        /\ at' = [at EXCEPT ![S].s = s] /\ UNCHANGED pc
    BY <1>5 DEF WipeStream
  <2> HIDE DEF s
  <2>3. l \in Locals /\ moved(l)
    BY <2>1, <2>2, <1>1, LocalsUpdate
  <2> HIDE DEF l
  <2>4. pc' \in [Threads -> Labels] /\ at' \in [Threads -> Locals]
    BY <2>2, <2>3, <1>1, <1>2
  <2>5. DOMAIN mSubscribersMap' = Streams /\ \A r \in Streams : IsQueueMap(mSubscribersMap'[r])
    BY <2>1, <2>2, NoSubscribersType DEF TypeOK
  <2>6. underrun' \in SUBSET (Streams \X Contexts)
    BY <1>5 DEF WipeStream, TypeOK
  <2> QED BY <1>5, <2>4, <2>5, <2>6 DEF TypeOK, WipeStream
<1>6. CASE EndPurge
  <2>1. pc' \in [Threads -> Labels] /\ at' \in [Threads -> Locals]
    BY <1>6, <1>1, <1>2, <1>3 DEF EndPurge
  <2> QED BY <1>6, <2>1 DEF TypeOK, EndPurge
<1> QED BY <1>4, <1>5, <1>6 DEF unsubscribeAll

\* So does every step.
LEMMA NextType ==
    ASSUME TypeOK, Places, [Next]_vars
    PROVE  TypeOK'
<1>1. CASE UNCHANGED vars
  BY <1>1 DEF TypeOK, vars, maps, streams, pending
<1>2. CASE Step /\ RecordDisturbance
  <2>1. disturbed' \in [Contexts -> BOOLEAN]
    BY <1>2 DEF RecordDisturbance
  <2>2. CASE enqueuePacket
    BY <2>1, <2>2, PublisherType DEF Places
  <2>3. ASSUME NEW c \in Contexts,
               SubscribeStep(c) \/ PollStep(c) \/ StartLeave(c) \/ LeaveStep(c)
        PROVE  TypeOK'
    BY <2>1, <2>3, SubscribeStepType, PollStepType, LeaveStepType DEF Places
  <2>4. CASE getNumberOfSubscribers
    BY <2>1, <2>4, NumberType
  <2>5. CASE unsubscribeAll
    BY <2>1, <2>5, StopperType
  <2> QED BY <1>2, <2>2, <2>3, <2>4, <2>5 DEF Step
<1> QED BY <1>1, <1>2 DEF Next, Finished

-----------------------------------------------------------------------------
(***************************************************************************)
(* What a thread's step leaves alone.                                      *)
(***************************************************************************)
OthersStay(t) == \A u \in Threads \ {t} : pc'[u] = pc[u] /\ at'[u] = at[u]

\* What the publisher's steps leave alone: streams are only ever created.
LEMMA PublisherFrame ==
    ASSUME TypeOK, enqueuePacket
    PROVE  /\ OthersStay(P)
           /\ UNCHANGED <<mPendingSubscribeToAllRequests, mNumberOfSubscribers, returned>>
           /\ mStreamsMap \subseteq mStreamsMap'
<1> USE DEF maps, streams, pending, OthersStay, TypeOK, Goto
<1>1. ASSUME NEW s \in Streams, FindStream(s)
      PROVE  /\ OthersStay(P)
             /\ UNCHANGED <<mPendingSubscribeToAllRequests, mNumberOfSubscribers, returned>>
             /\ mStreamsMap \subseteq mStreamsMap'
  BY <1>1 DEF FindStream
<1>2. CASE LockStream \/ FanOut \/ TrimQueue \/ PushPacket \/ UnlockStream \/ InsertStream
  BY <1>2 DEF LockStream, FanOut, TrimQueue, PushPacket, UnlockStream, InsertStream
<1>3. CASE ScanAll \/ ScanRequests \/ Fulfil \/ FindEmptyRequest \/ DropRequest
  BY <1>3 DEF ScanAll, ScanRequests, Fulfil, FindEmptyRequest, DropRequest
<1>4. CASE Admit \/ NoteAdmitted
  BY <1>4 DEF Admit, NoteAdmitted, Subscribe, CheckActive, NoteActive
<1> QED BY <1>1, <1>2, <1>3, <1>4 DEF enqueuePacket

ContextStep(c) == SubscribeStep(c) \/ PollStep(c) \/ StartLeave(c) \/ LeaveStep(c)

\* What a context's steps leave alone.
LEMMA ContextFrame ==
    ASSUME TypeOK, NEW c \in Contexts, ContextStep(c)
    PROVE  OthersStay(c) /\ UNCHANGED <<mStreamsMap, mMostRecentPacket>>
<1> USE DEF maps, streams, pending, OthersStay, TypeOK, Goto
<1>1. CASE StartSubscribe(c) \/ NextName(c) \/ FindRequest(c) \/ FileRequest(c)
  BY <1>1 DEF StartSubscribe, NextName, FindRequest, FileRequest
<1>2. CASE NextStream(c) \/ WaitForAll(c) \/ Join(c) \/ NoteJoined(c)
  BY <1>2 DEF NextStream, WaitForAll, Join, NoteJoined, Subscribe, CheckActive, NoteActive
<1>3. CASE ResetCount(c, "reset", "polling") \/ EndLeave(c)
  BY <1>3 DEF ResetCount, EndLeave
<1>4. CASE PollStep(c)
  BY <1>4 DEF PollStep, FindQueue, TakePacket, PopPacket, EndWalk
<1>5. CASE StartLeave(c) \/ TakeSize(c) \/ Erase(c) \/ ForgetActive(c)
  BY <1>5 DEF StartLeave, TakeSize, Erase, ForgetActive
<1> QED BY <1>1, <1>2, <1>3, <1>4, <1>5 DEF ContextStep, SubscribeStep, LeaveStep

\* What the stopper's steps leave alone.
LEMMA StopperFrame ==
    ASSUME TypeOK, unsubscribeAll
    PROVE  /\ OthersStay(S)
           /\ UNCHANGED <<mStreamsMap, mMostRecentPacket, mActiveSubscriptionsMap,
                          mMutex, returned>>
BY DEF maps, streams, pending, OthersStay, TypeOK, Goto, unsubscribeAll, StartPurge,
       ClearWaiting, WipeStream, EndPurge

\* A step is that of one thread, or only changes the cached count.
LEMMA StepCases ==
    ASSUME [Next]_vars
    PROVE  \/ enqueuePacket /\ RecordDisturbance
           \/ \E c \in Contexts : ContextStep(c) /\ RecordDisturbance
           \/ getNumberOfSubscribers /\ RecordDisturbance
           \/ unsubscribeAll /\ RecordDisturbance
           \/ UNCHANGED vars
<1> HIDE DEF RecordDisturbance
<1> QED BY DEF Next, Finished, Step, ContextStep

-----------------------------------------------------------------------------
(***************************************************************************)
(* Where the threads are.                                                  *)
(***************************************************************************)
LEMMA PublisherPlaces ==
    ASSUME TypeOK, PublisherPlace, Kinds, enqueuePacket
    PROVE  PublisherPlace'
<1>1. P \in Threads /\ at[P] \in Locals
  BY ThreadsDiffer DEF TypeOK
<1>2. at[P].c \in Nat
  <2>1. at[P].c \in Contexts \cup {0}
    BY <1>1 DEF Locals
  <2> QED BY <2>1, KeysAreNumbers
<1>3. \A X \in SUBSET Contexts : Above(X, at[P].c) # {} => Min(Above(X, at[P].c)) \in X
  BY <1>2, NextKey, ThreadsDiffer
<1> DEFINE s == at[P].s
<1> USE DEF maps, streams, pending, PublisherLabels
<1>5. ASSUME NEW r \in Streams, FindStream(r)
      PROVE  PublisherPlace'
  BY <1>1, <1>5 DEF FindStream, Goto, PublisherPlace, TypeOK, NoLocals
<1>6. CASE LockStream
  BY <1>1, <1>6 DEF LockStream, Goto, PublisherPlace, TypeOK
<1>7. CASE FanOut
  <2> DEFINE X == DOMAIN mSubscribersMap[s]
             c == Min(Above(X, at[P].c))
  <2>1. s \in Streams /\ s \in mStreamsMap /\ Above(X, at[P].c) # {}
    BY <1>7 DEF FanOut, PublisherPlace
  <2>2. c \in Contexts
    BY <2>1, <1>3 DEF TypeOK, IsQueueMap
  <2>3. /\ UNCHANGED mStreamsMap /\ at'[P].c = c /\ at'[P].s = s
        /\ pc'[P] \in {"trim", "push"}
    BY <1>1, <1>7 DEF FanOut, Goto, TypeOK, Locals
  <2> HIDE DEF c
  <2> QED BY <2>1, <2>2, <2>3 DEF PublisherPlace
<1>16. CASE TrimQueue
  BY <1>1, <1>16 DEF TrimQueue, Goto, PublisherPlace, TypeOK
<1>17. CASE PushPacket
  BY <1>1, <1>17 DEF PushPacket, Goto, PublisherPlace, TypeOK
<1>8. CASE UnlockStream
  BY <1>1, <1>8 DEF UnlockStream, Goto, PublisherPlace, TypeOK, NoLocals
<1>9. CASE InsertStream
  BY <1>1, <1>9 DEF InsertStream, Goto, PublisherPlace, TypeOK
<1>4. /\ pc[P] = "scan" => s \in Streams /\ s \in mStreamsMap
      /\ at[P].all \in BOOLEAN
      /\ \A c \in mPendingSubscribeToAllRequests : c \in Contexts /\ Request[c].all = TRUE
      /\ \A c \in DOMAIN mPendingSubscriptionRequests :
           c \in Contexts /\ Request[c].all = FALSE
  BY <1>1, RequestAssumption DEF PublisherPlace, Locals, Kinds, TypeOK
<1>10. CASE ScanAll
  <2> DEFINE X == mPendingSubscribeToAllRequests
             c == Min(Above(X, at[P].c))
             k == [at[P] EXCEPT !.all = FALSE, !.c = 0]
  <2>1. Above(X, at[P].c) # {} => c \in X
    BY <1>3 DEF TypeOK
  <2>2. /\ UNCHANGED mStreamsMap /\ at[P].all = TRUE /\ pc[P] = "scan"
        /\ \/ /\ Above(X, at[P].c) # {} /\ at' = [at EXCEPT ![P].c = c]
              /\ pc' = [pc EXCEPT ![P] = "admit"]
           \/ at' = [at EXCEPT ![P] = k] /\ UNCHANGED pc
    BY <1>4, <1>10 DEF ScanAll, Goto
  <2>4. k.s = s
    BY <1>1 DEF Locals
  <2> HIDE DEF c, k
  <2>3. /\ at'[P].s = s
        /\ \/ /\ Above(X, at[P].c) # {} /\ at'[P].c = c /\ at'[P].all = TRUE
              /\ pc'[P] = "admit"
           \/ pc'[P] = "scan"
    <3>1. CASE at' = [at EXCEPT ![P] = k] /\ UNCHANGED pc
      BY <1>1, <2>2, <2>4, <3>1 DEF TypeOK
    <3>2. CASE at' = [at EXCEPT ![P].c = c] /\ pc' = [pc EXCEPT ![P] = "admit"]
      BY <1>1, <2>2, <3>2 DEF TypeOK, Locals
    <3> QED BY <2>2, <3>1, <3>2
  <2> QED BY <1>4, <2>1, <2>2, <2>3 DEF PublisherPlace
<1>11. CASE ScanRequests
  <2> DEFINE X == DOMAIN mPendingSubscriptionRequests
             c == Min(Above(X, at[P].c))
  <2>1. Above(X, at[P].c) # {} => c \in X
    BY <1>3 DEF TypeOK
  <2>2. /\ UNCHANGED mStreamsMap /\ pc[P] = "scan"
        /\ \/ /\ Above(X, at[P].c) # {} /\ at' = [at EXCEPT ![P].c = c]
              /\ pc'[P] \in {"admit", "scan"}
           \/ at' = [at EXCEPT ![P].c = 0] /\ pc'[P] = "purge"
        /\ at[P].all = FALSE
    BY <1>1, <1>11 DEF ScanRequests, Goto, TypeOK, Locals
  <2> HIDE DEF c
  <2>3. /\ at'[P].s = s /\ at'[P].all = FALSE
        /\ \/ /\ Above(X, at[P].c) # {} /\ at'[P].c = c
              /\ pc'[P] \in {"admit", "scan"}
           \/ pc'[P] = "purge"
    <3>1. CASE at' = [at EXCEPT ![P].c = 0] /\ pc'[P] = "purge"
      BY <1>1, <2>2, <3>1 DEF TypeOK, Locals
    <3>2. CASE /\ at' = [at EXCEPT ![P].c = c] /\ Above(X, at[P].c) # {}
               /\ pc'[P] \in {"admit", "scan"}
      BY <1>1, <2>2, <3>2 DEF TypeOK, Locals
    <3> QED BY <2>2, <3>1, <3>2
  <2> QED BY <1>4, <2>1, <2>2, <2>3 DEF PublisherPlace
<1>12. CASE Admit
  BY <1>1, <1>12 DEF Admit, Subscribe, AfterAdmission, Goto, PublisherPlace, TypeOK
<1>13. CASE NoteAdmitted
  <2>1. /\ UNCHANGED mStreamsMap /\ pc[P] \in {"check", "note"}
        /\ at'[P].s = at[P].s /\ at'[P].all = at[P].all /\ at'[P].c = at[P].c
        /\ pc'[P] \in {"note", AfterAdmission}
    BY <1>1, <1>13 DEF NoteAdmitted, CheckActive, NoteActive, Goto, TypeOK, Locals
  <2> QED BY <2>1 DEF PublisherPlace, AfterAdmission
<1>14. CASE Fulfil \/ DropRequest
  BY <1>1, <1>14 DEF Fulfil, DropRequest, Goto, PublisherPlace, TypeOK
<1>15. CASE FindEmptyRequest
  <2> DEFINE X == DOMAIN mPendingSubscriptionRequests
             c == Min(Above(X, at[P].c))
  <2>1. Above(X, at[P].c) # {} => c \in Contexts
    BY <1>3 DEF TypeOK
  <2>2. /\ UNCHANGED mStreamsMap /\ pc[P] = "purge"
        /\ \/ /\ Above(X, at[P].c) # {} /\ at'[P].c = c
              /\ at'[P].s = at[P].s /\ at'[P].all = at[P].all
              /\ pc'[P] \in {"drop", "purge"}
           \/ pc'[P] = "idle"
    BY <1>1, <1>15 DEF FindEmptyRequest, Goto, TypeOK, Locals
  <2> QED BY <2>1, <2>2 DEF PublisherPlace
<1> QED BY <1>5, <1>6, <1>7, <1>8, <1>9, <1>10, <1>11, <1>12, <1>13, <1>14, <1>15, <1>16,
           <1>17 DEF enqueuePacket

\* A context's own steps.
LEMMA ContextPlaces ==
    ASSUME TypeOK, StreamsAreCreated, NEW c \in Contexts, ContextPlace(c), ContextStep(c)
    PROVE  ContextPlace(c)'
<1> DEFINE names == Request[c].names
           s == at[c].s
<1>1. c \in Threads /\ at[c] \in Locals /\ UNCHANGED mStreamsMap
  BY ThreadsDiffer, ContextFrame DEF TypeOK
<1>2. s \in Nat /\ at[c].n \in Nat
  <2>1. s \in Streams \cup {0} /\ at[c].n \in Nat
    BY <1>1 DEF Locals
  <2> QED BY <2>1, KeysAreNumbers
<1>3. Above(mStreamsMap, s) # {} => Min(Above(mStreamsMap, s)) \in mStreamsMap
  BY <1>2, NextKey, ThreadsDiffer DEF TypeOK
<1>4. /\ Request[c].all \in BOOLEAN /\ names \in Seq(Streams)
      /\ Len(names) \in Nat /\ DOMAIN names = 1..Len(names)
  BY RequestAssumption
<1> USE DEF maps, streams, pending, ContextLabels
<1>5. CASE StartSubscribe(c)
  BY <1>1, <1>4, <1>5
  DEF StartSubscribe, NextWanted, Goto, ContextPlace, TypeOK, NoLocals
<1>6. CASE NextName(c)
  <2> DEFINE n == at[c].n + 1
  <2>1. /\ pc[c] = "names" /\ ~Request[c].all
        /\ \/ /\ n <= Len(names)
              /\ at' = [at EXCEPT ![c].n = n, ![c].s = names[n]]
              /\ pc'[c] = IF names[n] \in mStreamsMap THEN "join" ELSE "file"
           \/ /\ n > Len(names)
              /\ pc'[c] = "reset"
              /\ UNCHANGED at
    BY <1>1, <1>6 DEF NextName, Goto, ContextPlace, TypeOK
  <2>2. CASE n <= Len(names)
    <3> DEFINE q == names[n]
               l == [at[c] EXCEPT !.n = n, !.s = q]
    <3>4. n \in 1..Len(names)
      BY <2>2, <1>2, <1>4
    <3>5. n \in DOMAIN names
      BY <3>4, <1>4
    <3>6. at' = [at EXCEPT ![c].n = n, ![c].s = q]
      BY <2>1, <2>2, <1>2, <1>4
    <3> HIDE DEF n, q
    <3>1. at' = [at EXCEPT ![c] = l]
      BY <3>6
    <3>2. l.n = n /\ l.s = q
      BY <1>1 DEF Locals
    <3> HIDE DEF l
    <3>3. at'[c].n = n /\ at'[c].s = q
      BY <3>1, <3>2, <1>1 DEF TypeOK
    <3> QED BY <2>1, <2>2, <3>5, <3>3, <1>1 DEF ContextPlace, q
  <2>3. CASE ~(n <= Len(names))
    BY <2>1, <2>3, <1>1, <1>2, <1>4 DEF ContextPlace
  <2> QED BY <2>2, <2>3
<1>7. CASE FindRequest(c)
  <2> DEFINE found == c \in DOMAIN mPendingSubscriptionRequests
  <2>1. at' = [at EXCEPT ![c].flag = found] /\ pc[c] = "file" /\ Goto(c, "request")
    BY <1>7 DEF FindRequest
  <2> HIDE DEF found
  <2>2. pc'[c] = "request" /\ at'[c].s = s /\ at'[c].n = at[c].n
    BY <1>1, <2>1 DEF TypeOK, Locals, Goto
  <2> QED BY <2>1, <2>2 DEF ContextPlace
<1>8. CASE FileRequest(c)
  <2>1. /\ pc[c] = "request" /\ pc'[c] = "names" /\ at'[c].s = s /\ at'[c].n = at[c].n
    BY <1>1, <1>8 DEF FileRequest, Goto, TypeOK, Locals
  <2> QED BY <2>1, <1>4 DEF ContextPlace
<1>9. CASE NextStream(c)
  <2>1. /\ Above(mStreamsMap, s) # {} /\ pc[c] = "streams" /\ pc'[c] = "join"
        /\ at'[c].s = Min(Above(mStreamsMap, s))
    BY <1>1, <1>9 DEF NextStream, Goto, TypeOK, Locals
  <2> QED BY <2>1, <1>1, <1>3 DEF ContextPlace
<1>10. CASE WaitForAll(c)
  BY <1>1, <1>10 DEF WaitForAll, Goto, ContextPlace, TypeOK
<1>11. CASE Join(c) \/ NoteJoined(c)
  <2>1. /\ pc[c] \in {"join", "check", "note"}
        /\ pc'[c] \in {"check", "note", NextWanted(c)}
        /\ at'[c].s = s /\ at'[c].n = at[c].n
    BY <1>1, <1>11
    DEF Join, Subscribe, NoteJoined, CheckActive, NoteActive, Goto, TypeOK, Locals
  <2> QED BY <2>1, <1>1, <1>4 DEF ContextPlace, NextWanted
<1>12. CASE ResetCount(c, "reset", "polling") \/ EndLeave(c)
  BY <1>1, <1>12 DEF ResetCount, EndLeave, Goto, ContextPlace, TypeOK, NoLocals
<1>20. CASE TakePacket(c)
  BY <1>1, <1>20 DEF TakePacket, Goto, ContextPlace, TypeOK
<1>13. CASE FindQueue(c)
  <2> DEFINE e == Nearest(Unvisited(c))
             l == [at[c] EXCEPT !.c = e[1], !.s = e[2]]
  <2>1. at' = [at EXCEPT ![c] = l] /\ pc'[c] \in {"front", "walk"}
    BY <1>1, <1>13 DEF FindQueue, Goto, TypeOK
  <2>2. e[2] \in mStreamsMap
    <3>3. e \in Unvisited(c)
      BY <1>13, NearestProperties DEF FindQueue, Unvisited
    <3>1. e \in Contexts \X Streams /\ e[2] \in mActiveSubscriptionsMap[e[1]]
      BY <3>3, Zenon DEF Unvisited
    <3>2. e[1] \in Contexts
      BY <3>1
    <3> QED BY <3>1, <3>2 DEF StreamsAreCreated
  <2>3. l.s = e[2]
    BY <1>1 DEF Locals
  <2> HIDE DEF l, e
  <2>4. at'[c].s \in mStreamsMap
    BY <1>1, <2>1, <2>2, <2>3 DEF TypeOK
  <2> QED BY <1>1, <2>1, <2>4 DEF ContextPlace
<1>14. CASE PopPacket(c)
  BY <1>1, <1>14 DEF PopPacket, Goto, ContextPlace, TypeOK
<1>15. CASE EndWalk(c)
  BY <1>1, <1>15 DEF EndWalk, Goto, ContextPlace, TypeOK, NoLocals
<1>16. CASE StartLeave(c)
  BY <1>1, <1>16 DEF StartLeave, Goto, ContextPlace, TypeOK
<1>17. CASE TakeSize(c)
  <2> DEFINE x == Min(Above(mStreamsMap, s))
             n == Cardinality(DOMAIN mSubscribersMap[x])
             l == [at[c] EXCEPT !.s = x, !.n = n]
  <2>1. at' = [at EXCEPT ![c] = l] /\ pc'[c] = "erase" /\ x \in mStreamsMap
    BY <1>1, <1>3, <1>17 DEF TakeSize, Goto, TypeOK
  <2>2. l.s = x
    BY <1>1 DEF Locals
  <2> HIDE DEF l, x
  <2>3. at'[c].s = x
    BY <1>1, <2>1, <2>2 DEF TypeOK
  <2> QED BY <1>1, <2>1, <2>3 DEF ContextPlace
<1>18. CASE Erase(c)
  <2>1. pc'[c] \in {"forget", "leave"}
    BY <1>1, <1>18 DEF Erase, Goto, TypeOK
  <2> QED BY <2>1 DEF ContextPlace
<1>19. CASE ForgetActive(c)
  <2>1. pc'[c] = "leave"
    BY <1>1, <1>19 DEF ForgetActive, Goto, TypeOK
  <2> QED BY <2>1 DEF ContextPlace
<1> QED BY <1>5, <1>6, <1>7, <1>8, <1>9, <1>10, <1>11, <1>12, <1>13, <1>14, <1>15,
           <1>16, <1>17, <1>18, <1>19, <1>20 DEF ContextStep, SubscribeStep, PollStep, LeaveStep

\* Where a thread stays, its place is as it was.
LEMMA ContextPlaceStays ==
    ASSUME NEW c \in Contexts, ContextPlace(c), pc'[c] = pc[c], at'[c] = at[c],
           mStreamsMap \subseteq mStreamsMap'
    PROVE  ContextPlace(c)'
BY DEF ContextPlace

\* The publisher's place depends on it and the streams.
LEMMA PublisherPlaceStays ==
    ASSUME PublisherPlace, pc'[P] = pc[P], at'[P] = at[P], UNCHANGED mStreamsMap
    PROVE  PublisherPlace'
BY DEF PublisherPlace

\* The stopper's steps keep to its places.
LEMMA StopperPlaces ==
    ASSUME TypeOK, StopperPlace, unsubscribeAll
    PROVE  StopperPlace'
<1>1. S \in Threads /\ at[S] \in Locals
  BY ThreadsDiffer DEF TypeOK
<1> QED BY <1>1 DEF StopperPlace, StopperLabels, unsubscribeAll, StartPurge, ClearWaiting,
                    WipeStream, EndPurge, Goto, TypeOK, Locals

\* Requests are filed by those who ask for some streams, the others wait for all.
LEMMA KindsStay ==
    ASSUME TypeOK, Places, [Next]_vars
    PROVE  Kinds'
<1> USE DEF maps, streams, pending, Kinds, Places
<1>1. CASE enqueuePacket
  <2>1. UNCHANGED mPendingSubscribeToAllRequests
    BY <1>1, PublisherFrame
  <2>2. DOMAIN mPendingSubscriptionRequests' \subseteq DOMAIN mPendingSubscriptionRequests
    BY <1>1
    DEF enqueuePacket, FindStream, LockStream, FanOut, TrimQueue, PushPacket,
        UnlockStream, InsertStream, ScanAll,
        ScanRequests, Admit, NoteAdmitted, Subscribe, CheckActive, NoteActive, Fulfil,
        FindEmptyRequest, DropRequest
  <2> QED BY <2>1, <2>2
<1>2. ASSUME NEW c \in Contexts, ContextStep(c)
      PROVE  Kinds'
  <2>1. ContextPlace(c)
    OBVIOUS
  <2>2. CASE FileRequest(c)
    BY <2>1, <2>2 DEF FileRequest, ContextPlace
  <2>3. CASE WaitForAll(c)
    BY <2>1, <2>3 DEF WaitForAll, ContextPlace
  <2>4. CASE StartLeave(c)
    BY <2>4 DEF StartLeave
  <2>5. CASE ~FileRequest(c) /\ ~WaitForAll(c) /\ ~StartLeave(c)
    <3>1. UNCHANGED pending
      BY <1>2, <2>5
      DEF ContextStep, SubscribeStep, PollStep, LeaveStep, StartSubscribe, NextName,
          FindRequest, NextStream, Join, NoteJoined, Subscribe, CheckActive, NoteActive,
          ResetCount, FindQueue, TakePacket, PopPacket, EndWalk, TakeSize, Erase,
          ForgetActive, EndLeave
    <3> QED BY <3>1
  <2> QED BY <2>2, <2>3, <2>4, <2>5
<1>3. CASE getNumberOfSubscribers \/ unsubscribeAll
  BY <1>3 DEF getNumberOfSubscribers, unsubscribeAll, StartPurge, ClearWaiting, WipeStream,
              EndPurge
<1>4. CASE UNCHANGED vars
  BY <1>4 DEF vars
<1> QED BY <1>1, <1>2, <1>3, <1>4, StepCases

\* Only a stream that was created gets packets and subscribers.
LEMMA StreamsStayCreated ==
    ASSUME TypeOK, Places, StreamsAreCreated, [Next]_vars
    PROVE  StreamsAreCreated'
<1> USE DEF maps, streams, pending
<1>1. CASE enqueuePacket
  <2> DEFINE s == at[P].s
  <2>1. pc[P] \notin {"idle", "insert"} => s \in mStreamsMap
    BY DEF Places, PublisherPlace
  <2>7. CASE TrimQueue \/ PushPacket
    <3>1. /\ UNCHANGED <<mStreamsMap, mMostRecentPacket, mActiveSubscriptionsMap>>
          /\ s \in Streams /\ at[P].c \in Contexts
      BY <2>7 DEF TrimQueue, PushPacket, Places, PublisherPlace
    <3>2. \A r \in Streams : DOMAIN mSubscribersMap'[r] = DOMAIN mSubscribersMap[r]
      BY <2>7, <3>1, PopProperties, PushedQueues DEF TrimQueue
    <3> QED BY <3>1, <3>2 DEF StreamsAreCreated
  <2>2. CASE LockStream
    <3>1. /\ UNCHANGED <<mStreamsMap, mActiveSubscriptionsMap>>
          /\ \A r \in Streams : DOMAIN mSubscribersMap'[r] = DOMAIN mSubscribersMap[r]
      BY <2>2 DEF LockStream, TypeOK
    <3>2. \A r \in Streams : /\ mMostRecentPacket'[r] >= mMostRecentPacket[r]
                             /\ mMostRecentPacket[r] \in Nat /\ mMostRecentPacket'[r] \in Nat
                             /\ r # s => mMostRecentPacket'[r] = mMostRecentPacket[r]
      BY <2>2 DEF LockStream, TypeOK
    <3>3. s \in mStreamsMap /\ mStreamsMap \subseteq Streams
      BY <2>1, <2>2 DEF LockStream, TypeOK
    <3>4. \A r \in mStreamsMap' : mMostRecentPacket'[r] > 0
      BY <3>1, <3>2, <3>3 DEF StreamsAreCreated
    <3> QED BY <3>1, <3>2, <3>3, <3>4 DEF StreamsAreCreated
  <2>3. CASE InsertStream
    <3>1. /\ UNCHANGED <<mSubscribersMap, mActiveSubscriptionsMap>>
          /\ mStreamsMap' = mStreamsMap \cup {s} /\ s \in Streams /\ mStreamsMap \subseteq Streams
          /\ mMostRecentPacket' = [mMostRecentPacket EXCEPT ![s] = @ + 1]
      BY <2>3 DEF InsertStream, Places, PublisherPlace, TypeOK
    <3>2. \A r \in Streams : /\ mMostRecentPacket[r] \in Nat
                             /\ r # s => mMostRecentPacket'[r] = mMostRecentPacket[r]
                             /\ r = s => mMostRecentPacket'[r] > 0
      BY <3>1 DEF TypeOK
    <3> QED BY <3>1, <3>2 DEF StreamsAreCreated
  <2>4. CASE Admit
    BY <2>1, <2>4 DEF Admit, Subscribe, StreamsAreCreated, TypeOK
  <2>5. CASE NoteAdmitted
    BY <2>1, <2>5 DEF NoteAdmitted, CheckActive, NoteActive, StreamsAreCreated, TypeOK
  <2>6. CASE /\ ~TrimQueue /\ ~PushPacket /\ ~LockStream /\ ~InsertStream /\ ~Admit
             /\ ~NoteAdmitted
    <3>1. UNCHANGED <<streams, mActiveSubscriptionsMap>>
      BY <1>1, <2>6
      DEF enqueuePacket, FindStream, FanOut, UnlockStream, ScanAll, ScanRequests, Fulfil,
          FindEmptyRequest, DropRequest
    <3> QED BY <3>1 DEF StreamsAreCreated
  <2> QED BY <1>1, <2>2, <2>3, <2>4, <2>5, <2>6, <2>7
<1>2. ASSUME NEW c \in Contexts, ContextStep(c)
      PROVE  StreamsAreCreated'
  <2> DEFINE s == at[c].s
  <2>1. pc[c] \in {"join", "check", "note", "pop", "erase"} => s \in mStreamsMap
    BY DEF Places, ContextPlace
  <2>2. UNCHANGED <<mStreamsMap, mMostRecentPacket>>
    BY <1>2, ContextFrame
  <2>3. CASE Join(c)
    BY <2>1, <2>2, <2>3 DEF Join, Subscribe, StreamsAreCreated, TypeOK
  <2>4. CASE NoteJoined(c)
    BY <2>1, <2>2, <2>4 DEF NoteJoined, CheckActive, NoteActive, StreamsAreCreated, TypeOK
  <2>5. CASE PopPacket(c)
    <3>1. s \in Streams /\ UNCHANGED mActiveSubscriptionsMap /\ Pop(s, c)
      BY <2>1, <2>5 DEF PopPacket, TypeOK
    <3>2. \A r \in Streams : DOMAIN mSubscribersMap'[r] = DOMAIN mSubscribersMap[r]
      BY <3>1, PopProperties
    <3> QED BY <2>2, <3>1, <3>2 DEF StreamsAreCreated
  <2>6. CASE Erase(c)
    BY <2>1, <2>2, <2>6 DEF Erase, StreamsAreCreated, TypeOK
  <2>7. CASE ForgetActive(c)
    BY <2>7 DEF ForgetActive, StreamsAreCreated, TypeOK
  <2>8. CASE ~Join(c) /\ ~NoteJoined(c) /\ ~PopPacket(c) /\ ~Erase(c) /\ ~ForgetActive(c)
    <3>1. UNCHANGED <<streams, mActiveSubscriptionsMap>>
      BY <1>2, <2>8
      DEF ContextStep, SubscribeStep, PollStep, LeaveStep, StartSubscribe, NextName,
          FindRequest, FileRequest, NextStream, WaitForAll, ResetCount, FindQueue, TakePacket,
          EndWalk, StartLeave, TakeSize, EndLeave
    <3> QED BY <3>1 DEF StreamsAreCreated
  <2> QED BY <2>3, <2>4, <2>5, <2>6, <2>7, <2>8
<1>3. CASE unsubscribeAll
  <2>1. CASE WipeStream
    BY <2>1 DEF WipeStream, StreamsAreCreated, TypeOK, NoSubscribers
  <2>2. CASE ~WipeStream
    BY <1>3, <2>2 DEF unsubscribeAll, StartPurge, ClearWaiting, EndPurge, StreamsAreCreated
  <2> QED BY <2>1, <2>2
<1>4. CASE getNumberOfSubscribers \/ UNCHANGED vars
  BY <1>4 DEF getNumberOfSubscribers, vars, StreamsAreCreated
<1> QED BY <1>1, <1>2, <1>3, <1>4, StepCases

\* Every thread stays at a place of its program.
LEMMA NextPlaces ==
    ASSUME TypeOK, Places, StreamsAreCreated, [Next]_vars
    PROVE  Places'
<1>1. Kinds'
  BY KindsStay
<1> SUFFICES PublisherPlace' /\ StopperPlace' /\ \A c \in Contexts : ContextPlace(c)'
  BY <1>1 DEF Places
<1>2. P \in Threads /\ S \in Threads /\ P # S /\ P \notin Contexts /\ S \notin Contexts
      /\ Contexts \subseteq Threads
  BY ThreadsDiffer
<1>3. CASE enqueuePacket
  <2>1. OthersStay(P) /\ mStreamsMap \subseteq mStreamsMap'
    BY <1>3, PublisherFrame
  <2>2. PublisherPlace'
    BY <1>3, PublisherPlaces DEF Places
  <2>3. StopperPlace'
    BY <1>2, <2>1 DEF OthersStay, Places, StopperPlace
  <2>4. ASSUME NEW c \in Contexts
        PROVE  ContextPlace(c)'
    BY <1>2, <2>1, ContextPlaceStays DEF OthersStay, Places
  <2> QED BY <2>2, <2>3, <2>4
<1>4. ASSUME NEW c \in Contexts, ContextStep(c)
      PROVE  PublisherPlace' /\ StopperPlace' /\ \A d \in Contexts : ContextPlace(d)'
  <2>1. OthersStay(c) /\ UNCHANGED mStreamsMap
    BY <1>4, ContextFrame
  <2>2. PublisherPlace'
    BY <1>2, <2>1, PublisherPlaceStays DEF OthersStay, Places
  <2>3. StopperPlace'
    BY <1>2, <2>1 DEF OthersStay, Places, StopperPlace
  <2>4. ContextPlace(c)'
    BY <1>4, ContextPlaces DEF Places
  <2>5. ASSUME NEW d \in Contexts, d # c
        PROVE  ContextPlace(d)'
    BY <1>2, <2>1, <2>5, ContextPlaceStays DEF OthersStay, Places
  <2> QED BY <2>2, <2>3, <2>4, <2>5
<1>5. CASE unsubscribeAll
  <2>1. OthersStay(S) /\ UNCHANGED mStreamsMap
    BY <1>5, StopperFrame
  <2>2. PublisherPlace'
    BY <1>2, <2>1, PublisherPlaceStays DEF OthersStay, Places
  <2>3. StopperPlace'
    BY <1>5, StopperPlaces DEF Places
  <2>4. ASSUME NEW c \in Contexts
        PROVE  ContextPlace(c)'
    BY <1>2, <2>1, ContextPlaceStays DEF OthersStay, Places
  <2> QED BY <2>2, <2>3, <2>4
<1>6. CASE getNumberOfSubscribers \/ UNCHANGED vars
  <2>1. UNCHANGED <<mStreamsMap, pc, at>>
    BY <1>6 DEF getNumberOfSubscribers, vars, maps, streams
  <2> QED BY <2>1, PublisherPlaceStays, ContextPlaceStays DEF Places, StopperPlace
<1> QED BY <1>3, <1>4, <1>5, <1>6, StepCases

-----------------------------------------------------------------------------
(***************************************************************************)
(* The mutexes of the streams.                                             *)
(***************************************************************************)
LEMMA NextMutexes ==
    ASSUME TypeOK, Places, Mutexes, [Next]_vars
    PROVE  Mutexes'
<1> USE DEF maps, streams, pending
<1>0. /\ P \in Threads /\ S \in Threads /\ P # S /\ P \notin Contexts /\ S \notin Contexts
      /\ Contexts \subseteq Threads /\ Free \notin Threads
  BY ThreadsDiffer
<1>1. CASE enqueuePacket
  <2> DEFINE r == at[P].s
  <2>1. OthersStay(P) /\ at[P] \in Locals
    BY <1>1, <1>0, PublisherFrame DEF TypeOK
  <2>2. /\ pc[P] # "idle" => r \in Streams
        /\ \A c \in Contexts : pc'[c] = pc[c] /\ at'[c] = at[c]
    BY <1>0, <2>1 DEF Places, PublisherPlace, OthersStay
  <2>3. CASE LockStream
    <3>1. /\ mMutex[r] = Free /\ mMutex' = [mMutex EXCEPT ![r] = P] /\ r \in Streams
          /\ pc'[P] = "fanout" /\ at'[P].s = r /\ pc[P] = "lock"
      BY <1>0, <2>2, <2>3 DEF LockStream, Goto, TypeOK
    <3> QED BY <1>0, <2>2, <3>1 DEF Mutexes, FansOut, TypeOK
  <2>4. CASE UnlockStream
    <3>1. /\ mMutex' = [mMutex EXCEPT ![r] = Free] /\ r \in Streams
          /\ pc'[P] = "idle" /\ pc[P] = "fanout"
      BY <1>0, <2>2, <2>4 DEF UnlockStream, Goto, TypeOK
    <3> QED BY <1>0, <2>2, <3>1 DEF Mutexes, FansOut, TypeOK
  <2>5. CASE FanOut \/ TrimQueue \/ PushPacket
    <3>1. /\ UNCHANGED mMutex /\ at'[P].s = r
          /\ pc[P] \in {"fanout", "trim", "push"} /\ pc'[P] \in {"fanout", "trim", "push"}
      BY <1>0, <2>1, <2>5 DEF FanOut, TrimQueue, PushPacket, Goto, TypeOK, Locals
    <3> QED BY <2>2, <3>1 DEF Mutexes, FansOut
  <2>6. CASE ~LockStream /\ ~UnlockStream /\ ~FanOut /\ ~TrimQueue /\ ~PushPacket
    <3>1. UNCHANGED mMutex
      BY <1>1, <2>6
      DEF enqueuePacket, FindStream, InsertStream, ScanAll, ScanRequests, Admit, Subscribe,
          NoteAdmitted, CheckActive, NoteActive, Fulfil, FindEmptyRequest, DropRequest
    <3>2. /\ pc[P] \notin {"fanout", "trim", "push"}
          /\ pc'[P] \notin {"fanout", "trim", "push"}
      BY <1>0, <1>1, <2>6
      DEF enqueuePacket, FindStream, InsertStream, ScanAll, ScanRequests, Admit, Subscribe,
          NoteAdmitted, CheckActive, NoteActive, Fulfil, FindEmptyRequest, DropRequest,
          AfterAdmission, Goto, TypeOK
    <3> QED BY <2>2, <3>1, <3>2 DEF Mutexes, FansOut
  <2> QED BY <2>3, <2>4, <2>5, <2>6
<1>2. ASSUME NEW c \in Contexts, ContextStep(c)
      PROVE  Mutexes'
  <2> DEFINE r == at[c].s
  <2>1. OthersStay(c) /\ at[c] \in Locals
    BY <1>2, <1>0, ContextFrame DEF TypeOK
  <2>2. \A t \in Threads \ {c} : pc'[t] = pc[t] /\ at'[t] = at[t]
    BY <2>1 DEF OthersStay
  <2>3. CASE TakeSize(c)
    <3> DEFINE x == Min(Above(mStreamsMap, r))
               n == Cardinality(DOMAIN mSubscribersMap[x])
               l == [at[c] EXCEPT !.s = x, !.n = n]
    <3>0. x \in Streams
      <4>1. r \in Streams \cup {0}
        BY <2>1 DEF Locals
      <4>2. r \in Nat
        BY <4>1, KeysAreNumbers
      <4>3. Above(mStreamsMap, r) # {}
        BY <2>3 DEF TakeSize
      <4>4. mStreamsMap \in SUBSET Nat /\ mStreamsMap \subseteq Streams
        BY ThreadsDiffer DEF TypeOK
      <4>5. x \in mStreamsMap
        BY <4>2, <4>3, <4>4, NextKey
      <4> QED BY <4>4, <4>5
    <3>1. /\ at' = [at EXCEPT ![c] = l] /\ pc'[c] = "erase" /\ mMutex[x] = Free
          /\ mMutex' = [mMutex EXCEPT ![x] = c] /\ pc[c] = "leave"
      BY <1>0, <2>3 DEF TakeSize, Goto, TypeOK
    <3>2. l.s = x
      BY <2>1 DEF Locals
    <3> HIDE DEF l, x
    <3>3. at'[c].s = x
      BY <1>0, <3>1, <3>2 DEF TypeOK
    <3> QED BY <1>0, <2>2, <3>0, <3>1, <3>3 DEF Mutexes, FansOut, TypeOK
  <2>4. CASE Erase(c)
    <3>1. /\ mMutex' = [mMutex EXCEPT ![r] = Free] /\ pc[c] = "erase" /\ pc'[c] # "erase"
          /\ r \in Streams
      BY <1>0, <2>4 DEF Erase, Goto, TypeOK, Places, ContextPlace
    <3> QED BY <1>0, <2>2, <3>1 DEF Mutexes, FansOut, TypeOK
  <2>5. CASE ~TakeSize(c) /\ ~Erase(c)
    <3>1. UNCHANGED mMutex
      BY <1>2, <2>5
      DEF ContextStep, SubscribeStep, PollStep, LeaveStep, StartSubscribe, NextName,
          FindRequest, FileRequest, NextStream, WaitForAll, ResetCount, FindQueue, TakePacket,
          EndWalk, StartLeave, EndLeave, Join, Subscribe, NoteJoined, CheckActive,
          NoteActive, PopPacket, ForgetActive
    <3>2. pc[c] # "erase" /\ pc'[c] # "erase"
      BY <1>0, <1>2, <2>5
      DEF ContextStep, SubscribeStep, PollStep, LeaveStep, StartSubscribe, NextName,
          FindRequest, FileRequest, NextStream, WaitForAll, ResetCount, FindQueue, TakePacket,
          EndWalk, StartLeave, EndLeave, Join, Subscribe, NoteJoined, CheckActive,
          NoteActive, PopPacket, ForgetActive, NextWanted, Goto, TypeOK
    <3> QED BY <1>0, <2>2, <3>1, <3>2 DEF Mutexes, FansOut
  <2> QED BY <2>3, <2>4, <2>5
<1>3. CASE unsubscribeAll
  <2>1. OthersStay(S) /\ UNCHANGED mMutex
    BY <1>3, StopperFrame
  <2> QED BY <1>0, <2>1 DEF OthersStay, Mutexes, FansOut
<1>4. CASE getNumberOfSubscribers \/ UNCHANGED vars
  BY <1>4 DEF getNumberOfSubscribers, vars, Mutexes, FansOut
<1> QED BY <1>1, <1>2, <1>3, <1>4, StepCases

-----------------------------------------------------------------------------
(***************************************************************************)
(* How a step changes the queues.                                          *)
(***************************************************************************)
\* A context changes its own queue only: it starts one, or pops its front.
LEMMA ContextQueues ==
    ASSUME TypeOK, Places, NEW c \in Contexts, ContextStep(c),
           NEW s \in Streams, NEW d \in DOMAIN mSubscribersMap'[s]
    PROVE  \/ d \in DOMAIN mSubscribersMap[s] /\ mSubscribersMap'[s][d] = mSubscribersMap[s][d]
           \/ /\ Join(c) /\ d = c /\ s = at[c].s /\ d \notin DOMAIN mSubscribersMap[s]
              /\ mSubscribersMap'[s][d] = <<>>
           \/ /\ PopPacket(c) /\ d = c /\ s = at[c].s /\ d \in DOMAIN mSubscribersMap[s]
              /\ mSubscribersMap'[s][d] = Popped(mSubscribersMap[s][d])
<1> DEFINE m == mSubscribersMap
<1> USE DEF maps, streams, pending
<1>1. CASE Join(c)
  BY <1>1 DEF Join, Subscribe, subscribe, TypeOK
<1>2. CASE PopPacket(c)
  <2>1. at[c].s \in Streams /\ Pop(at[c].s, c)
    BY <1>2 DEF PopPacket, Places, ContextPlace, TypeOK
  <2> QED BY <1>2, <2>1, PopProperties
<1>3. CASE Erase(c)
  BY <1>3 DEF Erase, unsubscribe, TypeOK
<1>4. CASE ~Join(c) /\ ~PopPacket(c) /\ ~Erase(c)
  <2>1. UNCHANGED mSubscribersMap
    BY <1>4 DEF ContextStep, SubscribeStep, PollStep, LeaveStep, StartSubscribe, NextName,
          FindRequest, FileRequest, NextStream, WaitForAll, ResetCount, FindQueue, TakePacket,
          EndWalk, StartLeave, TakeSize, EndLeave, NoteJoined, CheckActive,
          NoteActive, ForgetActive
  <2> QED BY <2>1
<1> QED BY <1>1, <1>2, <1>3, <1>4

\* The publisher starts the queue of whom it admits, and pops and pushes where
\* setNextPacket has come to.
LEMMA PublisherQueues ==
    ASSUME TypeOK, Places, enqueuePacket,
           NEW s \in Streams, NEW d \in DOMAIN mSubscribersMap'[s]
    PROVE  \/ /\ d \in DOMAIN mSubscribersMap[s]
              /\ mSubscribersMap'[s][d] = mSubscribersMap[s][d]
              /\ PushPacket /\ s = at[P].s /\ d = at[P].c => IsUnderrun(s, d)
           \/ /\ Admit /\ s = at[P].s /\ d = at[P].c /\ d \notin DOMAIN mSubscribersMap[s]
              /\ mSubscribersMap'[s][d] = <<mMostRecentPacket[s]>>
           \/ /\ TrimQueue /\ s = at[P].s /\ d = at[P].c /\ d \in DOMAIN mSubscribersMap[s]
              /\ mSubscribersMap'[s][d] = Popped(mSubscribersMap[s][d])
           \/ /\ PushPacket /\ s = at[P].s /\ d = at[P].c /\ d \in DOMAIN mSubscribersMap[s]
              /\ ~IsUnderrun(s, d)
              /\ mSubscribersMap'[s][d] = Append(mSubscribersMap[s][d], mMostRecentPacket[s])
<1> USE DEF maps, streams, pending
<1>1. CASE Admit
  BY <1>1 DEF Admit, Subscribe, subscribe, TypeOK, PushPacket
<1>2. CASE TrimQueue
  <2>1. at[P].s \in Streams /\ at[P].c \in Contexts /\ Pop(at[P].s, at[P].c) /\ ~PushPacket
    BY <1>2 DEF TrimQueue, PushPacket, Places, PublisherPlace
  <2> QED BY <1>2, <2>1, PopProperties
<1>3. CASE PushPacket
  BY <1>3, PushedQueues
<1>4. CASE ~Admit /\ ~TrimQueue /\ ~PushPacket
  <2>1. UNCHANGED mSubscribersMap
    BY <1>4
    DEF enqueuePacket, FindStream, LockStream, FanOut, UnlockStream, InsertStream, ScanAll,
        ScanRequests, NoteAdmitted, CheckActive, NoteActive, Fulfil, FindEmptyRequest,
        DropRequest
  <2> QED BY <1>4, <2>1
<1> QED BY <1>1, <1>2, <1>3, <1>4

\* unsubscribeAll changes no queue that it leaves.
LEMMA StopperQueues ==
    ASSUME TypeOK, unsubscribeAll,
           NEW s \in Streams, NEW d \in DOMAIN mSubscribersMap'[s]
    PROVE  d \in DOMAIN mSubscribersMap[s] /\ mSubscribersMap'[s][d] = mSubscribersMap[s][d]
<1> DEFINE r == Min(Above(mStreamsMap, at[S].s))
<1>1. CASE WipeStream
  <2>1. mSubscribersMap' = [mSubscribersMap EXCEPT ![r] = NoSubscribers]
    BY <1>1 DEF WipeStream
  <2> HIDE DEF r
  <2>2. CASE s = r
    BY <2>1, <2>2 DEF TypeOK, NoSubscribers
  <2>3. CASE s # r
    BY <2>1, <2>3 DEF TypeOK
  <2> QED BY <2>2, <2>3
<1>2. CASE ~WipeStream
  <2>1. UNCHANGED mSubscribersMap
    BY <1>2 DEF unsubscribeAll, StartPurge, ClearWaiting, EndPurge, maps, streams
  <2> QED BY <2>1
<1> QED BY <1>1, <1>2

-----------------------------------------------------------------------------
(***************************************************************************)
(* The queues are runs of packets.                                         *)
(***************************************************************************)
\* A run is one packet longer, where there is room.
LEMMA PushedRun ==
    ASSUME NEW q \in Seq(Nat), NEW last \in Nat, IsRun(q, last), Len(q) < MaximumQueueSize
    PROVE  IsRun(Append(q, last + 1), last + 1)
<1> DEFINE p == Append(q, last + 1)
<1>1. Len(q) \in Nat /\ Len(p) = Len(q) + 1 /\ p[Len(p)] = last + 1
  OBVIOUS
<1>2. \A i \in 1..Len(q) : p[i] = q[i]
  OBVIOUS
<1> HIDE DEF p
<1>3. ASSUME NEW i \in 1..Len(p)
      PROVE  p[i] = last + 1 - Len(p) + i
  <2>1. i \in Nat /\ i >= 1 /\ i <= Len(p)
    BY <1>1
  <2>2. CASE i = Len(p)
    BY <1>1, <2>1, <2>2
  <2>3. CASE i # Len(p)
    <3>1. i \in 1..Len(q)
      BY <1>1, <2>1, <2>3
    <3>2. p[i] = q[i] /\ q[i] = last - Len(q) + i
      BY <1>2, <3>1 DEF IsRun
    <3>3. last - Len(q) + i = last + 1 - Len(p) + i
      BY <1>1, <2>1
    <3> QED BY <3>2, <3>3
  <2> QED BY <2>2, <2>3
<1>4. Len(p) <= MaximumQueueSize
  BY <1>1, QueueSizeAssumption
<1> QED BY <1>3, <1>4 DEF IsRun, p

\* A run with its front removed ends as it did.
LEMMA PoppedRun ==
    ASSUME NEW q \in Seq(Nat), NEW last \in Nat, IsRun(q, last)
    PROVE  IsRun(Popped(q), last)
<1> DEFINE p == Popped(q)
<1>1. CASE q = <<>>
  BY <1>1, PoppedProperties DEF Popped, IsRun
<1>2. CASE q # <<>>
  <2>1. /\ p \in Seq(Nat) /\ Len(p) = Len(q) - 1 /\ Len(q) \in Nat
        /\ \A i \in 1..Len(p) : p[i] = q[i + 1]
    BY <1>2, PoppedProperties
  <2> HIDE DEF p
  <2>2. Len(p) <= MaximumQueueSize
    BY <2>1, QueueSizeAssumption DEF IsRun
  <2>3. ASSUME NEW i \in 1..Len(p)
        PROVE  p[i] = last - Len(p) + i
    <3>1. i \in Nat /\ i + 1 \in 1..Len(q)
      BY <2>1
    <3>2. q[i + 1] = last - Len(q) + (i + 1)
      BY <3>1 DEF IsRun
    <3>3. last - Len(q) + (i + 1) = last - Len(p) + i
      BY <2>1, <3>1
    <3> QED BY <2>1, <3>2, <3>3
  <2> QED BY <2>2, <2>3 DEF IsRun, p
<1> QED BY <1>1, <1>2

\* What setNextPacket does not reach for now.
LEMMA ReachStays ==
    ASSUME NEW s, NEW c, mMostRecentPacket'[s] = mMostRecentPacket[s],
           \/ pc'[P] = pc[P] /\ at'[P] = at[P]
           \/ ~FansOut(s) /\ ~FansOut(s)'
    PROVE  Reach(s, c)' = Reach(s, c)
BY DEF Reach, FansOut

\* What has reached a subscriber is a packet's number.
LEMMA ReachType ==
    ASSUME TypeOK, Places, StreamsAreCreated, NEW s \in Streams, NEW c
    PROVE  Reach(s, c) \in Nat
BY DEF TypeOK, Places, PublisherPlace, StreamsAreCreated, Reach, FansOut

\* A step of another thread leaves the publisher where it is.
LEMMA PublisherStays ==
    ASSUME TypeOK, \/ \E c \in Contexts : ContextStep(c)
                   \/ unsubscribeAll \/ getNumberOfSubscribers \/ UNCHANGED vars
    PROVE  pc'[P] = pc[P] /\ at'[P] = at[P] /\ UNCHANGED <<mStreamsMap, mMostRecentPacket>>
<1>0. P \in Threads /\ P \notin Contexts /\ P # S
  BY ThreadsDiffer
<1>1. ASSUME NEW c \in Contexts, ContextStep(c)
      PROVE  pc'[P] = pc[P] /\ at'[P] = at[P] /\ UNCHANGED <<mStreamsMap, mMostRecentPacket>>
  BY <1>0, <1>1, ContextFrame DEF OthersStay
<1>2. CASE unsubscribeAll
  BY <1>0, <1>2, StopperFrame DEF OthersStay
<1>3. CASE getNumberOfSubscribers \/ UNCHANGED vars
  BY <1>3 DEF getNumberOfSubscribers, vars, maps, streams
<1> QED BY <1>1, <1>2, <1>3

\* How far setNextPacket has come after a step of the publisher.
LEMMA PublisherReach ==
    ASSUME TypeOK, Places, enqueuePacket, NEW s \in Streams, NEW c \in Contexts
    PROVE  \/ Reach(s, c)' = Reach(s, c)
           \/ /\ PushPacket /\ s = at[P].s /\ c = at[P].c
              /\ Reach(s, c) = mMostRecentPacket[s] - 1
              /\ Reach(s, c)' = mMostRecentPacket[s]
           \/ /\ FanOut \/ UnlockStream
              /\ c \notin DOMAIN mSubscribersMap[s] /\ UNCHANGED mSubscribersMap
              /\ Reach(s, c)' = mMostRecentPacket[s]
              /\ Reach(s, c) = mMostRecentPacket[s] - 1
           \/ InsertStream /\ s = at[P].s /\ Reach(s, c)' = Reach(s, c) + 1
<1> DEFINE r == at[P].s
           rest == Above(DOMAIN mSubscribersMap[r], at[P].c)
<1>0. /\ P \in Threads /\ at[P] \in Locals /\ c \in Nat \ {0}
      /\ mMostRecentPacket[s] \in Nat
  BY ThreadsDiffer DEF TypeOK
<1>1. at[P].c \in Nat
  <2>1. at[P].c \in Contexts \cup {0}
    BY <1>0 DEF Locals
  <2> QED BY <2>1, KeysAreNumbers
<1>2. pc[P] # "idle" => r \in Streams
  BY DEF Places, PublisherPlace
<1> USE DEF maps, streams, pending
<1>3. CASE LockStream
  <2>1. /\ pc[P] = "lock" /\ pc'[P] = "fanout" /\ UNCHANGED at
        /\ mMostRecentPacket' = [mMostRecentPacket EXCEPT ![r] = @ + 1]
    BY <1>0, <1>3 DEF LockStream, Goto, TypeOK
  <2>2. at[P].c = 0 /\ r \in Streams
    BY <1>2, <2>1 DEF Places, PublisherPlace
  <2>3. CASE s = r
    <3>1. mMostRecentPacket'[s] = mMostRecentPacket[s] + 1
      BY <2>1, <2>3 DEF TypeOK
    <3>2. Reach(s, c)' = mMostRecentPacket[s]
      BY <1>0, <2>1, <2>2, <2>3, <3>1 DEF Reach, FansOut
    <3>3. Reach(s, c) = mMostRecentPacket[s]
      BY <2>1 DEF Reach, FansOut
    <3> QED BY <3>2, <3>3
  <2>4. CASE s # r
    BY <2>1, <2>4 DEF Reach, FansOut, TypeOK
  <2> QED BY <2>3, <2>4
<1>4. CASE FanOut
  <2>1. /\ pc[P] = "fanout" /\ pc'[P] \in {"trim", "push"}
        /\ UNCHANGED <<mMostRecentPacket, mSubscribersMap>>
        /\ at'[P].s = r /\ at'[P].c = Min(rest) /\ rest # {}
    BY <1>0, <1>4 DEF FanOut, Goto, TypeOK, Locals
  <2>2. /\ Min(rest) > at[P].c /\ Min(rest) \in Nat
        /\ \A z \in DOMAIN mSubscribersMap[r] : z > at[P].c => z >= Min(rest)
    <3>1. DOMAIN mSubscribersMap[r] \in SUBSET Nat
      BY <1>2, <2>1, ThreadsDiffer DEF TypeOK, IsQueueMap
    <3> QED BY <3>1, <1>1, <2>1, NextKey
  <2> HIDE DEF rest
  <2>3. CASE s = r /\ c > at[P].c /\ c < Min(rest)
    <3>1. Reach(s, c) = mMostRecentPacket[s] - 1
      BY <2>1, <2>3 DEF Reach, FansOut
    <3>2. Reach(s, c)' = mMostRecentPacket[s]
      BY <1>0, <2>1, <2>2, <2>3 DEF Reach, FansOut
    <3>3. c \notin DOMAIN mSubscribersMap[s]
      BY <1>0, <2>2, <2>3
    <3> QED BY <1>4, <2>1, <3>1, <3>2, <3>3
  <2>4. CASE ~(s = r /\ c > at[P].c /\ c < Min(rest))
    BY <1>0, <1>1, <2>1, <2>2, <2>4 DEF Reach, FansOut
  <2> QED BY <2>3, <2>4
<1>8. CASE TrimQueue
  <2>1. /\ pc[P] = "trim" /\ pc'[P] = "push" /\ UNCHANGED <<mMostRecentPacket, at>>
    BY <1>0, <1>8 DEF TrimQueue, Goto, TypeOK
  <2> QED BY <2>1 DEF Reach, FansOut
<1>9. CASE PushPacket
  <2>1. /\ pc[P] = "push" /\ pc'[P] = "fanout" /\ UNCHANGED <<mMostRecentPacket, at>>
    BY <1>0, <1>9 DEF PushPacket, Goto, TypeOK
  <2>2. CASE s = r /\ c = at[P].c
    BY <1>0, <1>9, <2>1, <2>2 DEF Reach, FansOut
  <2>3. CASE ~(s = r /\ c = at[P].c)
    BY <2>1, <2>3 DEF Reach, FansOut
  <2> QED BY <2>2, <2>3
<1>5. CASE UnlockStream
  <2>1. /\ pc[P] = "fanout" /\ pc'[P] = "idle" /\ UNCHANGED <<mMostRecentPacket, mSubscribersMap>>
        /\ rest = {}
    BY <1>0, <1>5 DEF UnlockStream, Goto, TypeOK
  <2>2. Reach(s, c)' = mMostRecentPacket[s]
    BY <2>1 DEF Reach, FansOut
  <2>3. CASE s = r /\ c > at[P].c
    <3>1. Reach(s, c) = mMostRecentPacket[s] - 1
      BY <2>1, <2>3 DEF Reach, FansOut
    <3>2. c \notin DOMAIN mSubscribersMap[s]
      BY <2>1, <2>3 DEF Above
    <3> QED BY <1>5, <2>1, <2>2, <3>1, <3>2
  <2>4. CASE ~(s = r /\ c > at[P].c)
    BY <2>1, <2>2, <2>4 DEF Reach, FansOut
  <2> QED BY <2>3, <2>4
<1>6. CASE InsertStream
  <2>1. /\ pc[P] = "insert" /\ pc'[P] = "scan" /\ UNCHANGED at /\ r \in Streams
        /\ mMostRecentPacket' = [mMostRecentPacket EXCEPT ![r] = @ + 1]
    BY <1>0, <1>2, <1>6 DEF InsertStream, Goto, TypeOK
  <2>2. CASE s = r
    BY <1>6, <2>1, <2>2 DEF Reach, FansOut, TypeOK
  <2>3. CASE s # r
    BY <2>1, <2>3 DEF Reach, FansOut, TypeOK
  <2> QED BY <2>2, <2>3
<1>7. CASE /\ ~LockStream /\ ~FanOut /\ ~TrimQueue /\ ~PushPacket /\ ~UnlockStream
           /\ ~InsertStream
  <2>1. /\ UNCHANGED mMostRecentPacket
    BY <1>7
    DEF enqueuePacket, FindStream, ScanAll, ScanRequests, Admit, Subscribe, NoteAdmitted,
        CheckActive, NoteActive, Fulfil, FindEmptyRequest, DropRequest
  <2>2. /\ pc[P] \notin {"fanout", "trim", "push"}
        /\ pc'[P] \notin {"fanout", "trim", "push"}
    BY <1>0, <1>7
    DEF enqueuePacket, FindStream, ScanAll, ScanRequests, Admit, Subscribe,
        NoteAdmitted, CheckActive, NoteActive, Fulfil, FindEmptyRequest, DropRequest,
        AfterAdmission, Goto, TypeOK
  <2> QED BY <2>1, <2>2, ReachStays DEF FansOut
<1> QED BY <1>3, <1>4, <1>5, <1>6, <1>7, <1>8, <1>9

\* A push reaches its subscriber.
LEMMA PushReaches ==
    ASSUME TypeOK, Places, StreamsAreCreated, PushPacket, NEW r, r = at[P].s,
           NEW y, y = at[P].c
    PROVE  /\ r \in Streams /\ y \in Contexts
           /\ mMostRecentPacket[r] \in Nat /\ mMostRecentPacket[r] - 1 \in Nat
           /\ Reach(r, y) = mMostRecentPacket[r] - 1
           /\ Reach(r, y)' = mMostRecentPacket[r]
           /\ UNCHANGED mMostRecentPacket
<1>1. P \in Threads /\ pc[P] = "push"
  BY ThreadsDiffer DEF PushPacket
<1>2. r \in Streams /\ r \in mStreamsMap /\ y \in Contexts /\ y \in Nat
  BY <1>1, ThreadsDiffer DEF Places, PublisherPlace
<1>3. UNCHANGED <<mMostRecentPacket, at>> /\ pc'[P] = "fanout"
  BY <1>1 DEF PushPacket, Goto, TypeOK
<1>4. Reach(r, y) = mMostRecentPacket[r] - 1 /\ Reach(r, y)' = mMostRecentPacket[r]
  BY <1>1, <1>2, <1>3 DEF Reach, FansOut
<1>5. mMostRecentPacket[r] \in Nat /\ mMostRecentPacket[r] > 0
  BY <1>2 DEF TypeOK, StreamsAreCreated
<1> QED BY <1>2, <1>3, <1>4, <1>5

\* Each step keeps the queues runs that end with what has reached their
\* subscriber.
LEMMA NextRuns ==
    ASSUME TypeOK, Places, StreamsAreCreated, Runs, Underruns, Room, TypeOK', [Next]_vars
    PROVE  Runs'
<1> USE DEF maps, streams, pending
<1>0. P \in Threads
  BY ThreadsDiffer
<1>2. ASSUME enqueuePacket, NEW s \in Streams, NEW d \in DOMAIN mSubscribersMap'[s]
      PROVE  IsRun(mSubscribersMap'[s][d], Reach(s, d)')
  <2> DEFINE m == mSubscribersMap
             q == mSubscribersMap[s][d]
  <2>1. d \in Contexts /\ d \in Nat
    BY OrderAssumption DEF TypeOK, IsQueueMap
  <2>2. CASE /\ d \in DOMAIN m[s] /\ mSubscribersMap'[s][d] = q
             /\ PushPacket /\ s = at[P].s /\ d = at[P].c => IsUnderrun(s, d)
    <3>1. IsRun(q, Reach(s, d))
      BY <2>2 DEF Runs
    <3>2. CASE Reach(s, d)' = Reach(s, d)
      BY <2>2, <3>1, <3>2
    <3>3. CASE PushPacket /\ s = at[P].s /\ d = at[P].c
      <4>1. q = <<>>
        BY <2>1, <2>2, <3>3 DEF Underruns
      <4>2. IsRun(<<>>, Reach(s, d)')
        BY QueueSizeAssumption DEF IsRun
      <4> QED BY <2>2, <4>1, <4>2
    <3>4. ASSUME InsertStream, s = at[P].s
          PROVE  FALSE
      <4>1. s \notin mStreamsMap
        BY <3>4 DEF InsertStream, Places, PublisherPlace
      <4> QED BY <2>2, <4>1 DEF StreamsAreCreated
    <3> QED BY <1>2, <2>1, <2>2, <3>2, <3>3, <3>4, PublisherReach
  <2>5. CASE /\ TrimQueue /\ d \in DOMAIN m[s]
             /\ mSubscribersMap'[s][d] = Popped(q)
    <3>1. IsRun(q, Reach(s, d)) /\ q \in Seq(Nat)
      BY <2>5 DEF Runs, TypeOK, IsQueueMap
    <3>2. pc[P] = "trim" /\ pc'[P] = "push" /\ UNCHANGED <<mMostRecentPacket, at>>
      BY <1>0, <2>5 DEF TrimQueue, Goto, TypeOK
    <3>3. Reach(s, d)' = Reach(s, d)
      BY <3>2 DEF Reach, FansOut
    <3>4. Reach(s, d) \in Nat
      BY ReachType
    <3> QED BY <2>5, <3>1, <3>3, <3>4, PoppedRun
  <2>3. CASE /\ Admit /\ s = at[P].s /\ d = at[P].c
             /\ mSubscribersMap'[s][d] = <<mMostRecentPacket[s]>>
    <3>1. pc[P] = "admit" /\ ~FansOut(s)' /\ UNCHANGED mMostRecentPacket
      BY <1>0, <2>3 DEF Admit, Subscribe, Goto, AfterAdmission, FansOut, TypeOK
    <3>2. Reach(s, d)' = mMostRecentPacket[s]
      BY <3>1 DEF Reach
    <3>3. mMostRecentPacket[s] \in Nat
      BY DEF TypeOK
    <3> DEFINE x == mMostRecentPacket[s]
    <3>4. x = x - 1 + 1 /\ 1 <= MaximumQueueSize
      BY <3>3, QueueSizeAssumption
    <3> HIDE DEF x
    <3>5. Len(<<x>>) = 1 /\ \A i \in 1..1 : i = 1 /\ <<x>>[i] = x
      OBVIOUS
    <3>6. IsRun(<<x>>, x)
      BY <3>4, <3>5 DEF IsRun
    <3> QED BY <2>3, <3>2, <3>6 DEF x
  <2>4. CASE /\ PushPacket /\ s = at[P].s /\ d = at[P].c /\ d \in DOMAIN m[s]
             /\ ~IsUnderrun(s, d)
             /\ mSubscribersMap'[s][d] = Append(q, mMostRecentPacket[s])
    <3> DEFINE x == mMostRecentPacket[s]
    <3>1. /\ Reach(s, d) = x - 1 /\ Reach(s, d)' = x
          /\ x \in Nat /\ x - 1 \in Nat
      BY <2>4, PushReaches
    <3>2. q \in Seq(Nat) /\ IsRun(q, x - 1)
      BY <2>4, <3>1 DEF Runs, TypeOK, IsQueueMap
    <3>3. Len(q) < MaximumQueueSize
      BY <2>4 DEF Room, PushPacket
    <3> HIDE DEF x
    <3>4. IsRun(Append(q, x - 1 + 1), x - 1 + 1) /\ x - 1 + 1 = x
      BY <3>1, <3>2, <3>3, PushedRun
    <3>5. IsRun(Append(q, x), x)
      BY <3>4
    <3> QED BY <2>4, <3>1, <3>5 DEF x
  <2> QED BY <1>2, <2>2, <2>3, <2>4, <2>5, PublisherQueues
<1>3. ASSUME pc'[P] = pc[P], at'[P] = at[P], UNCHANGED mMostRecentPacket,
             \A s \in Streams : \A d \in DOMAIN mSubscribersMap'[s] :
               \/ /\ d \in DOMAIN mSubscribersMap[s]
                  /\ mSubscribersMap'[s][d] = mSubscribersMap[s][d]
               \/ mSubscribersMap'[s][d] = <<>>
               \/ /\ d \in DOMAIN mSubscribersMap[s]
                  /\ mSubscribersMap'[s][d] = Popped(mSubscribersMap[s][d])
      PROVE  Runs'
  <2>1. ASSUME NEW s \in Streams, NEW d \in DOMAIN mSubscribersMap'[s]
        PROVE  IsRun(mSubscribersMap'[s][d], Reach(s, d)')
    <3>1. Reach(s, d)' = Reach(s, d)
      BY <1>3, ReachStays
    <3>2. d \in DOMAIN mSubscribersMap[s] =>
            /\ IsRun(mSubscribersMap[s][d], Reach(s, d))
            /\ mSubscribersMap[s][d] \in Seq(Nat)
      BY DEF Runs, TypeOK, IsQueueMap
    <3>4. Reach(s, d) \in Nat
      BY ReachType
    <3>3. IsRun(<<>>, Reach(s, d))
      BY QueueSizeAssumption DEF IsRun
    <3> QED BY <1>3, <3>1, <3>2, <3>3, <3>4, PoppedRun
  <2> QED BY <2>1 DEF Runs
<1>4. CASE \E c \in Contexts : ContextStep(c)
  BY <1>3, <1>4, ContextQueues, PublisherStays
<1>5. CASE unsubscribeAll
  BY <1>3, <1>5, StopperQueues, PublisherStays
<1>6. CASE getNumberOfSubscribers \/ UNCHANGED vars
  <2>1. UNCHANGED mSubscribersMap
    BY <1>6 DEF getNumberOfSubscribers, vars
  <2> QED BY <1>3, <1>6, <2>1, PublisherStays
<1>7. CASE enqueuePacket
  BY <1>2, <1>7 DEF Runs
<1> QED BY <1>4, <1>5, <1>6, <1>7, StepCases

\* A queue that was popped too often stays empty until a push ends it, ...
LEMMA NextUnderruns ==
    ASSUME TypeOK, Places, Underruns, TypeOK', [Next]_vars
    PROVE  Underruns'
<1> DEFINE m == mSubscribersMap
<1> USE DEF maps, streams, pending
<1> SUFFICES ASSUME NEW s \in Streams, NEW d \in Contexts, <<s, d>> \in underrun'
             PROVE  d \in DOMAIN m'[s] /\ m'[s][d] = <<>>
  BY DEF Underruns, IsUnderrun
<1>1. <<s, d>> \in underrun => d \in DOMAIN m[s] /\ m[s][d] = <<>>
  BY DEF Underruns, IsUnderrun
<1>2. ASSUME NEW r \in Streams, NEW c \in Contexts, Pop(r, c)
      PROVE  d \in DOMAIN m'[s] /\ m'[s][d] = <<>>
  <2>1. d \in DOMAIN m[s] /\ m[s][d] = <<>>
    <3>1. CASE <<s, d>> \in underrun
      BY <1>1, <3>1
    <3>2. CASE <<s, d>> \notin underrun
      <4>1. <<s, d>> = <<r, c>> /\ c \in DOMAIN m[r] /\ m[r][c] = <<>>
        BY <1>2, <3>2, PopProperties
      <4> QED BY <4>1
    <3> QED BY <3>1, <3>2
  <2>2. d \in DOMAIN m'[s] /\ m'[s][d] \in {m[s][d], Popped(m[s][d])}
    BY <1>2, <2>1, PopProperties
  <2> QED BY <2>1, <2>2, PoppedEmpty
<1>3. ASSUME NEW t \in Threads, NEW c \in Contexts, NEW first, NEW next,
             Subscribe(t, c, first, next)
      PROVE  d \in DOMAIN m'[s] /\ m'[s][d] = <<>>
  <2>1. d \in DOMAIN m[s] /\ m[s][d] = <<>>
    BY <1>1, <1>3 DEF Subscribe
  <2>2. m' = [m EXCEPT ![at[t].s] = subscribe(m[at[t].s], c, first)]
    BY <1>3 DEF Subscribe
  <2>3. CASE s = at[t].s
    <3>1. m'[s] = subscribe(m[s], c, first)
      BY <2>2, <2>3 DEF TypeOK
    <3> QED BY <2>1, <3>1 DEF subscribe
  <2>4. CASE s # at[t].s
    BY <2>1, <2>2, <2>4 DEF TypeOK
  <2> QED BY <2>3, <2>4
<1>4. CASE UNCHANGED <<mSubscribersMap, underrun>>
  BY <1>1, <1>4
<1>5. CASE enqueuePacket
  <2>1. CASE Admit
    <3>1. P \in Threads /\ at[P].c \in Contexts
      BY <2>1, ThreadsDiffer DEF Admit, Places, PublisherPlace
    <3> QED BY <1>3, <2>1, <3>1 DEF Admit
  <2>2. CASE TrimQueue
    <3>1. at[P].s \in Streams /\ at[P].c \in Contexts
      BY <2>2 DEF TrimQueue, Places, PublisherPlace
    <3> QED BY <1>2, <2>2, <3>1 DEF TrimQueue
  <2>3. CASE PushPacket
    <3>1. <<s, d>> \in underrun
      BY <2>3, PushedQueues
    <3>2. IsUnderrun(s, d)
      BY <3>1 DEF IsUnderrun
    <3> QED BY <1>1, <2>3, <3>1, <3>2, PushedQueues
  <2>4. CASE ~Admit /\ ~TrimQueue /\ ~PushPacket
    <3>1. UNCHANGED <<mSubscribersMap, underrun>>
      BY <1>5, <2>4
      DEF enqueuePacket, FindStream, LockStream, FanOut, UnlockStream, InsertStream, ScanAll,
          ScanRequests, NoteAdmitted, CheckActive, NoteActive, Fulfil, FindEmptyRequest,
          DropRequest
    <3> QED BY <1>4, <3>1
  <2> QED BY <2>1, <2>2, <2>3, <2>4
<1>6. ASSUME NEW c \in Contexts, ContextStep(c)
      PROVE  d \in DOMAIN m'[s] /\ m'[s][d] = <<>>
  <2>1. CASE Join(c)
    <3>1. c \in Threads
      BY ThreadsDiffer
    <3> QED BY <1>3, <2>1, <3>1 DEF Join
  <2>2. CASE PopPacket(c)
    <3>1. at[c].s \in Streams
      BY <2>2 DEF PopPacket, Places, ContextPlace, TypeOK
    <3> QED BY <1>2, <2>2, <3>1 DEF PopPacket
  <2>3. CASE Erase(c)
    <3>1. <<s, d>> \in underrun /\ ~(s = at[c].s /\ d = c)
      BY <2>3 DEF Erase
    <3>2. m' = [m EXCEPT ![at[c].s] = unsubscribe(m[at[c].s], c)]
      BY <2>3 DEF Erase
    <3>3. CASE s = at[c].s
      <4>1. m'[s] = unsubscribe(m[s], c) /\ d # c
        BY <3>1, <3>2, <3>3 DEF TypeOK
      <4> QED BY <1>1, <3>1, <4>1 DEF unsubscribe
    <3>4. CASE s # at[c].s
      BY <1>1, <3>1, <3>2, <3>4 DEF TypeOK
    <3> QED BY <3>3, <3>4
  <2>4. CASE ~Join(c) /\ ~PopPacket(c) /\ ~Erase(c)
    <3>1. UNCHANGED <<mSubscribersMap, underrun>>
      BY <1>6, <2>4
      DEF ContextStep, SubscribeStep, PollStep, LeaveStep, StartSubscribe, NextName,
          FindRequest, FileRequest, NextStream, WaitForAll, ResetCount, FindQueue, TakePacket,
          EndWalk, StartLeave, TakeSize, EndLeave, NoteJoined, CheckActive, NoteActive,
          ForgetActive
    <3> QED BY <1>4, <3>1
  <2> QED BY <2>1, <2>2, <2>3, <2>4
<1>7. CASE unsubscribeAll
  <2>1. CASE WipeStream
    <3> DEFINE x == Min(Above(mStreamsMap, at[S].s))
    <3>1. <<s, d>> \in underrun /\ s # x
      BY <2>1 DEF WipeStream
    <3>2. m' = [m EXCEPT ![x] = NoSubscribers]
      BY <2>1 DEF WipeStream
    <3> HIDE DEF x
    <3> QED BY <1>1, <3>1, <3>2 DEF TypeOK
  <2>2. CASE ~WipeStream
    <3>1. UNCHANGED <<mSubscribersMap, underrun>>
      BY <1>7, <2>2 DEF unsubscribeAll, StartPurge, ClearWaiting, EndPurge
    <3> QED BY <1>4, <3>1
  <2> QED BY <2>1, <2>2
<1>8. CASE getNumberOfSubscribers \/ UNCHANGED vars
  <2>1. UNCHANGED <<mSubscribersMap, underrun>>
    BY <1>8 DEF getNumberOfSubscribers, vars
  <2> QED BY <1>4, <2>1
<1> QED BY <1>5, <1>6, <1>7, <1>8, StepCases

\* ... and a queue that was found to have room, or was given some, has it still
\* when it is pushed to.
LEMMA NextRoom ==
    ASSUME TypeOK, Places, Runs, Underruns, Room, TypeOK', [Next]_vars
    PROVE  Room'
<1> DEFINE m == mSubscribersMap
           s == at[P].s
           c == at[P].c
<1> USE DEF maps, streams, pending
<1>0. P \in Threads /\ at[P] \in Locals /\ MaximumQueueSize \in Nat /\ 0 < MaximumQueueSize
  BY ThreadsDiffer, QueueSizeAssumption DEF TypeOK
<1>1. ASSUME NEW r \in Streams, NEW d \in DOMAIN m[r]
      PROVE  /\ m[r][d] \in Seq(Nat) /\ Len(m[r][d]) \in Nat
             /\ Len(m[r][d]) <= MaximumQueueSize
  BY DEF TypeOK, IsQueueMap, Runs, IsRun
<1>2. ASSUME pc'[P] = pc[P], at'[P] = at[P],
             \A r \in Streams : \A d \in DOMAIN m'[r] :
               \/ d \in DOMAIN m[r] /\ m'[r][d] \in {m[r][d], Popped(m[r][d])}
               \/ m'[r][d] = <<>>
      PROVE  Room'
  <2> SUFFICES ASSUME pc[P] = "push", c \in DOMAIN m'[s]
               PROVE  Len(m'[s][c]) < MaximumQueueSize
    BY <1>2 DEF Room
  <2>1. s \in Streams /\ c \in Contexts
    BY DEF Places, PublisherPlace
  <2>2. CASE m'[s][c] = <<>>
    BY <1>0, <2>2
  <2>3. CASE /\ c \in DOMAIN m[s] /\ m'[s][c] \in {m[s][c], Popped(m[s][c])}
             /\ IsUnderrun(s, c)
    <3>1. m[s][c] = <<>>
      BY <2>1, <2>3 DEF Underruns
    <3>2. m'[s][c] = <<>>
      BY <2>3, <3>1, PoppedEmpty
    <3> QED BY <2>2, <3>2
  <2>4. CASE /\ c \in DOMAIN m[s] /\ m'[s][c] \in {m[s][c], Popped(m[s][c])}
             /\ ~IsUnderrun(s, c)
    <3>1. Len(m[s][c]) < MaximumQueueSize /\ m[s][c] \in Seq(Nat) /\ Len(m[s][c]) \in Nat
      BY <1>1, <2>1, <2>4 DEF Room
    <3>2. Len(Popped(m[s][c])) <= Len(m[s][c]) /\ Len(Popped(m[s][c])) \in Nat
      BY <3>1, PoppedProperties
    <3> QED BY <1>0, <2>4, <3>1, <3>2
  <2> QED BY <1>2, <2>1, <2>2, <2>3, <2>4
<1>3. CASE enqueuePacket
  <2> SUFFICES ASSUME pc'[P] = "push", at'[P].c \in DOMAIN m'[at'[P].s],
                      <<at'[P].s, at'[P].c>> \notin underrun'
               PROVE  Len(m'[at'[P].s][at'[P].c]) < MaximumQueueSize
    BY DEF Room, IsUnderrun
  <2>1. CASE FanOut
    <3> DEFINE d == Min(Above(DOMAIN m[s], c))
    <3>1. /\ UNCHANGED <<mSubscribersMap, underrun>>
          /\ at'[P].s = s /\ at'[P].c = d
          /\ ~(Len(m[s][d]) >= MaximumQueueSize)
      BY <1>0, <2>1 DEF FanOut, Goto, TypeOK, Locals
    <3>2. s \in Streams
      BY <2>1 DEF FanOut, Places, PublisherPlace
    <3> HIDE DEF d
    <3> QED BY <1>0, <1>1, <3>1, <3>2
  <2>2. CASE TrimQueue
    <3>1. s \in Streams /\ c \in Contexts /\ Pop(s, c) /\ UNCHANGED at
      BY <2>2 DEF TrimQueue, Places, PublisherPlace
    <3>2. c \in DOMAIN m[s] /\ m'[s][c] = Popped(m[s][c])
      BY <3>1, PopProperties
    <3>3. m[s][c] # <<>>
      BY <3>1, <3>2, PopProperties
    <3>4. Len(Popped(m[s][c])) = Len(m[s][c]) - 1
      BY <1>1, <3>1, <3>2, <3>3, PoppedProperties
    <3> QED BY <1>0, <1>1, <3>1, <3>2, <3>4
  <2>3. CASE ~FanOut /\ ~TrimQueue
    <3>1. pc'[P] # "push"
      BY <1>0, <1>3, <2>3
      DEF enqueuePacket, FindStream, LockStream, PushPacket, UnlockStream, InsertStream,
          ScanAll, ScanRequests, Admit, Subscribe, AfterAdmission, NoteAdmitted, CheckActive,
          NoteActive, Fulfil, FindEmptyRequest, DropRequest, Goto, TypeOK
    <3> QED BY <3>1
  <2> QED BY <2>1, <2>2, <2>3
<1>4. CASE \E d \in Contexts : ContextStep(d)
  BY <1>2, <1>4, ContextQueues, PublisherStays
<1>5. CASE unsubscribeAll
  BY <1>2, <1>5, StopperQueues, PublisherStays
<1>6. CASE getNumberOfSubscribers \/ UNCHANGED vars
  <2>1. UNCHANGED mSubscribersMap
    BY <1>6 DEF getNumberOfSubscribers, vars
  <2> QED BY <1>2, <1>6, <2>1, PublisherStays
<1> QED BY <1>3, <1>4, <1>5, <1>6, StepCases

-----------------------------------------------------------------------------
(***************************************************************************)
(* Packets are returned in order.                                          *)
(***************************************************************************)
\* Whom enqueuePacket has yet to admit, it had yet to admit before.
LEMMA UnadmittedBefore ==
    ASSUME TypeOK, Places, enqueuePacket, ~InsertStream,
           NEW c \in Contexts, Unadmitted(c)'
    PROVE  Unadmitted(c) /\ at'[P].s = at[P].s /\ ~Admitting(c)
<1> DEFINE x == at[P].c
           inLoop == {"scan", "admit", "check", "note", "fulfil"}
<1>0. /\ P \in Threads /\ at[P] \in Locals /\ c \in Nat \ {0} /\ pc'[P] \in inLoop
      /\ at[P].all \in BOOLEAN
  <2>1. P \in Threads /\ at[P] \in Locals /\ c \in Nat \ {0} /\ pc'[P] \in inLoop
    BY ThreadsDiffer DEF TypeOK, Unadmitted
  <2> QED BY <2>1 DEF Locals
<1>1. x \in Nat
  <2>1. x \in Contexts \cup {0}
    BY <1>0 DEF Locals
  <2> QED BY <2>1, KeysAreNumbers
<1>2. ASSUME NEW X \in SUBSET Contexts, Above(X, x) # {}
      PROVE  Min(Above(X, x)) > x /\ Min(Above(X, x)) \in Nat
  <2>1. X \in SUBSET Nat
    BY OrderAssumption
  <2>2. Min(Above(X, x)) > x /\ Min(Above(X, x)) \in X
    BY <1>1, <1>2, <2>1, NextKey
  <2> QED BY <2>1, <2>2
<1>3. Request[c].all \in BOOLEAN
  BY RequestAssumption
<1>4. CASE ScanAll
  <2> DEFINE y == Min(Above(mPendingSubscribeToAllRequests, x))
             k == [at[P] EXCEPT !.all = FALSE, !.c = 0]
  <2>1. \/ /\ at' = [at EXCEPT ![P].c = y] /\ pc' = [pc EXCEPT ![P] = "admit"]
           /\ y > x /\ y \in Nat
        \/ at' = [at EXCEPT ![P] = k] /\ pc' = pc
    BY <1>2, <1>4 DEF ScanAll, Goto, TypeOK
  <2>2. pc[P] = "scan" /\ at[P].all = TRUE
    BY <1>0, <1>4 DEF ScanAll
  <2>3. k.s = at[P].s /\ k.c = 0 /\ k.all = FALSE
    BY <1>0 DEF Locals
  <2> HIDE DEF y, k
  <2>4. CASE at' = [at EXCEPT ![P].c = y] /\ pc' = [pc EXCEPT ![P] = "admit"] /\ y > x /\ y \in Nat
    <3>1. at'[P].s = at[P].s /\ at'[P].c = y /\ at'[P].all = TRUE /\ pc'[P] = "admit"
      BY <1>0, <2>2, <2>4 DEF TypeOK, Locals
    <3> QED BY <1>0, <1>1, <1>3, <2>2, <2>4, <3>1 DEF Unadmitted, Admitting
  <2>5. CASE at' = [at EXCEPT ![P] = k] /\ pc' = pc
    <3>1. at'[P].s = at[P].s /\ at'[P].c = 0 /\ at'[P].all = FALSE /\ pc'[P] = "scan"
      BY <1>0, <2>2, <2>3, <2>5 DEF TypeOK
    <3> QED BY <1>0, <1>3, <2>2, <3>1 DEF Unadmitted, Admitting
  <2> QED BY <2>1, <2>4, <2>5
<1>5. CASE ScanRequests
  <2> DEFINE y == Min(Above(DOMAIN mPendingSubscriptionRequests, x))
  <2>1. /\ at' = [at EXCEPT ![P].c = y] /\ y > x /\ y \in Nat
        /\ pc[P] = "scan" /\ at[P].all = FALSE
    BY <1>0, <1>2, <1>5 DEF ScanRequests, Goto, TypeOK
  <2> HIDE DEF y
  <2>2. at'[P].s = at[P].s /\ at'[P].c = y /\ at'[P].all = FALSE
    BY <1>0, <2>1 DEF TypeOK, Locals
  <2> QED BY <1>0, <1>1, <1>3, <2>1, <2>2 DEF Unadmitted, Admitting
<1>6. CASE Admit \/ NoteAdmitted \/ Fulfil
  <2>1. /\ at'[P].s = at[P].s /\ at'[P].c = x /\ at'[P].all = at[P].all
        /\ pc[P] \in inLoop /\ pc'[P] # "admit" /\ pc[P] # "scan"
    BY <1>0, <1>6
    DEF Admit, Subscribe, NoteAdmitted, CheckActive, NoteActive, Fulfil, AfterAdmission, Goto,
        TypeOK, Locals
  <2>2. pc[P] \in {"admit", "check", "note", "fulfil"} => at[P].all = Request[x].all
    BY DEF Places, PublisherPlace
  <2> QED BY <1>0, <1>1, <1>3, <2>1, <2>2 DEF Unadmitted, Admitting
<1>7. CASE ~ScanAll /\ ~ScanRequests /\ ~Admit /\ ~NoteAdmitted /\ ~Fulfil
  BY <1>0, <1>7
  DEF enqueuePacket, FindStream, LockStream, FanOut, TrimQueue, PushPacket,
      UnlockStream, FindEmptyRequest, DropRequest, Goto, TypeOK
<1> QED BY <1>4, <1>5, <1>6, <1>7

\* A step of a context returns what is at the front of its queue, if anything.
LEMMA ContextReturns ==
    ASSUME TypeOK, Places, NEW c \in Contexts, ContextStep(c)
    PROVE  \/ UNCHANGED returned /\ pc'[c] # "pop"
           \/ UNCHANGED <<returned, mSubscribersMap>> /\ pc[c] = "front"
           \/ \E s \in Streams :
                /\ UNCHANGED mSubscribersMap /\ pc[c] = "front"
                /\ c \in DOMAIN mSubscribersMap[s] /\ mSubscribersMap[s][c] # <<>>
                /\ returned' = [returned EXCEPT ![c][s] = mSubscribersMap[s][c][1]]
                /\ pc'[c] = "pop" /\ at'[c].s = s
<1>0. c \in Threads /\ at[c] \in Locals
  BY ThreadsDiffer DEF TypeOK
<1> USE DEF maps, streams, pending
<1>1. CASE TakePacket(c)
  <2> DEFINE s == at[c].s
             q == mSubscribersMap[s][c]
  <2>1. /\ UNCHANGED <<mSubscribersMap, at>> /\ pc[c] = "front" /\ pc'[c] = "pop"
        /\ \/ /\ c \in DOMAIN mSubscribersMap[s] /\ q # <<>>
              /\ returned' = [returned EXCEPT ![c][s] = Head(q)]
           \/ UNCHANGED returned
    BY <1>0, <1>1 DEF TakePacket, isSubscribed, Goto, TypeOK
  <2>2. s \in Streams
    BY <2>1 DEF Places, ContextPlace, TypeOK
  <2>3. c \in DOMAIN mSubscribersMap[s] /\ q # <<>> => Head(q) = q[1]
    <3>1. c \in DOMAIN mSubscribersMap[s] => q \in Seq(Nat)
      BY <2>2 DEF TypeOK, IsQueueMap
    <3> QED BY <3>1
  <2> QED BY <2>1, <2>2, <2>3
<1>2. CASE ~TakePacket(c)
  BY <1>0, <1>2
  DEF ContextStep, SubscribeStep, PollStep, LeaveStep, StartSubscribe, NextName,
      FindRequest, FileRequest, NextStream, WaitForAll, ResetCount, FindQueue, EndWalk,
      StartLeave, TakeSize, Erase, EndLeave, Join, Subscribe, NoteJoined, CheckActive,
      NoteActive, PopPacket, ForgetActive, NextWanted, Goto, TypeOK
<1> QED BY <1>1, <1>2

\* The publisher pushes only packets that are newer than any returned, ...
LEMMA PublisherKeepsReturns ==
    ASSUME TypeOK, Places, StreamsAreCreated, Runs, Returns, enqueuePacket
    PROVE  Returns'
<1>0. UNCHANGED returned
  BY PublisherFrame
<1>1. ASSUME NEW s \in Streams, NEW c \in Contexts
      PROVE  returned'[c][s] <= Reach(s, c)'
  <2>1. returned[c][s] \in Nat /\ mMostRecentPacket[s] \in Nat
    BY DEF TypeOK
  <2>2. returned[c][s] <= Reach(s, c) /\ Reach(s, c) \in Nat
    BY ReachType DEF Returns
  <2>3. Reach(s, c)' \in Nat /\ Reach(s, c)' >= Reach(s, c)
    BY <2>1, <2>2, PublisherReach
  <2> HIDE DEF Reach
  <2> QED BY <1>0, <2>1, <2>2, <2>3
<1>2. ASSUME NEW s \in Streams, NEW c \in Contexts, Unadmitted(c)', at'[P].s = s
      PROVE  /\ returned'[c][s] = 0
             /\ c \in DOMAIN mSubscribersMap'[s] => mSubscribersMap'[s][c] = <<>>
  <2>1. CASE InsertStream
    <3>1. s \notin mStreamsMap /\ pc[P] = "insert" /\ UNCHANGED mSubscribersMap
      BY <1>2, <2>1 DEF InsertStream, Places, PublisherPlace
    <3>2. mMostRecentPacket[s] = 0 /\ DOMAIN mSubscribersMap[s] = {}
      BY <3>1 DEF StreamsAreCreated
    <3>3. Reach(s, c) = 0
      BY <3>1, <3>2 DEF Reach, FansOut
    <3>4. returned[c][s] \in Nat /\ returned[c][s] <= 0
      BY <3>3 DEF TypeOK, Returns
    <3> QED BY <1>0, <3>1, <3>2, <3>4
  <2>2. CASE ~InsertStream
    <3>1. Unadmitted(c) /\ at[P].s = s
      BY <1>2, <2>2, UnadmittedBefore
    <3>2. /\ returned[c][s] = 0
          /\ c \in DOMAIN mSubscribersMap[s] => mSubscribersMap[s][c] = <<>>
      BY <3>1 DEF Returns
    <3>3. ~TrimQueue /\ ~PushPacket /\ ~(Admit /\ c = at[P].c)
      <4>1. ~TrimQueue /\ ~PushPacket
        BY <3>1 DEF TrimQueue, PushPacket, Unadmitted
      <4>2. ASSUME Admit, c = at[P].c
            PROVE  FALSE
        <5>1. /\ pc'[P] # "admit" /\ UNCHANGED at /\ at[P].all = Request[c].all
              /\ c \in Nat
          BY <4>2, ThreadsDiffer
          DEF Admit, Subscribe, Goto, AfterAdmission, TypeOK, Places, PublisherPlace
        <5> QED BY <1>2, <4>2, <5>1 DEF Unadmitted
      <4> QED BY <4>1, <4>2
    <3> QED BY <1>0, <3>2, <3>3, PublisherQueues
  <2> QED BY <2>1, <2>2
<1> QED BY <1>1, <1>2 DEF Returns

\* ... so that those a poll takes come in order.
LEMMA PublisherKeepsOrder ==
    ASSUME TypeOK, Places, StreamsAreCreated, Runs, Returns, InOrder, TypeOK', enqueuePacket
    PROVE  InOrder'
<1> SUFFICES ASSUME NEW s \in Streams, NEW c \in DOMAIN mSubscribersMap'[s],
                    NEW i \in 1..Len(mSubscribersMap'[s][c])
             PROVE  \/ mSubscribersMap'[s][c][i] > returned'[c][s]
                    \/ /\ pc'[c] = "pop" /\ at'[c].s = s
                       /\ mSubscribersMap'[s][c][i] = returned'[c][s] /\ i = 1
  BY DEF InOrder
<1> DEFINE q == mSubscribersMap[s][c]
           r == returned[c][s]
           x == mMostRecentPacket[s]
<1>1. c \in Contexts /\ c # P /\ c \in Threads /\ P \in Threads
  BY ThreadsDiffer DEF TypeOK, IsQueueMap
<1>2. UNCHANGED returned /\ pc'[c] = pc[c] /\ at'[c] = at[c]
  BY <1>1, PublisherFrame DEF OthersStay
<1>3. r \in Nat /\ x \in Nat /\ r <= Reach(s, c)
  BY <1>1 DEF TypeOK, Returns
<1>4. CASE c \in DOMAIN mSubscribersMap[s] /\ mSubscribersMap'[s][c] = q
  BY <1>2, <1>4 DEF InOrder
<1>5. CASE /\ Admit /\ s = at[P].s /\ c = at[P].c
           /\ mSubscribersMap'[s][c] = <<x>>
  <2>1. pc[P] = "admit" /\ at[P].all = Request[c].all /\ s \in mStreamsMap
    BY <1>5 DEF Admit, Places, PublisherPlace
  <2>2. Unadmitted(c)
    BY <1>5, <2>1 DEF Unadmitted
  <2>3. r = 0 /\ x > 0
    BY <1>1, <1>5, <2>1, <2>2 DEF Returns, StreamsAreCreated
  <2>4. mSubscribersMap'[s][c][i] = x
    BY <1>5
  <2> QED BY <1>2, <2>3, <2>4
<1>8. c \in DOMAIN mSubscribersMap[s] => q \in Seq(Nat)
  BY DEF TypeOK, IsQueueMap
<1>6. CASE /\ TrimQueue /\ c \in DOMAIN mSubscribersMap[s]
           /\ mSubscribersMap'[s][c] = Popped(q)
  <2>1. q \in Seq(Nat) /\ Len(q) \in Nat
    BY <1>6, <1>8
  <2>2. q # <<>> /\ Len(Popped(q)) = Len(q) - 1 /\ Popped(q)[i] = q[i + 1]
    BY <1>6, <2>1, PoppedProperties
  <2>3. i \in Nat /\ i + 1 \in 1..Len(q) /\ i + 1 # 1
    BY <1>6, <2>1, <2>2
  <2>4. \A j \in 1..Len(q) : j # 1 => q[j] > r
    BY <1>6 DEF InOrder
  <2> QED BY <1>2, <1>6, <2>2, <2>3, <2>4
<1>7. CASE /\ PushPacket /\ s = at[P].s /\ c = at[P].c /\ c \in DOMAIN mSubscribersMap[s]
           /\ mSubscribersMap'[s][c] = Append(q, x)
  <2>1. Reach(s, c) = x - 1
    BY <1>7, PushReaches
  <2>2. q \in Seq(Nat) /\ Len(q) \in Nat
    <3>1. q \in Seq(Nat)
      BY <1>8, <1>7
    <3> QED BY <3>1
  <2> DEFINE p == Append(q, x)
  <2>3. Len(p) = Len(q) + 1 /\ p[Len(p)] = x /\ \A j \in 1..Len(q) : p[j] = q[j]
    BY <2>2
  <2> HIDE DEF p
  <2>4. mSubscribersMap'[s][c] = p
    BY <1>7 DEF p
  <2>5. CASE i = Len(p)
    BY <1>2, <1>3, <2>1, <2>3, <2>4, <2>5
  <2>6. CASE i # Len(p)
    <3>1. i \in 1..Len(q) /\ p[i] = q[i]
      BY <2>2, <2>3, <2>4, <2>6
    <3>2. \/ q[i] > r
          \/ pc[c] = "pop" /\ at[c].s = s /\ q[i] = r /\ i = 1
      BY <1>7, <3>1 DEF InOrder
    <3> QED BY <1>2, <2>4, <3>1, <3>2
  <2> QED BY <2>5, <2>6
<1> QED BY <1>4, <1>5, <1>6, <1>7, PublisherQueues

\* The front of a queue is not newer than what has been brought to it.
LEMMA FrontOfRun ==
    ASSUME NEW q \in Seq(Nat), q # <<>>, NEW last \in Nat, IsRun(q, last)
    PROVE  /\ q[1] \in Nat /\ q[1] <= last
           /\ \A i \in 1..Len(q) : i # 1 => q[i] > q[1]
<1>1. Len(q) \in Nat /\ Len(q) > 0 /\ 1 \in 1..Len(q)
  OBVIOUS
<1>2. q[1] = last - Len(q) + 1
  BY <1>1 DEF IsRun
<1>3. ASSUME NEW i \in 1..Len(q), i # 1
      PROVE  q[i] > q[1]
  <2>1. q[i] = last - Len(q) + i /\ i \in Nat /\ i > 1
    BY <1>1, <1>3 DEF IsRun
  <2> QED BY <1>1, <1>2, <2>1
<1> QED BY <1>1, <1>2, <1>3

\* A poll returns nothing that the queues keep, ...
LEMMA ContextKeepsReturns ==
    ASSUME TypeOK, Places, StreamsAreCreated, Runs, Returns, NEW c \in Contexts, ContextStep(c)
    PROVE  Returns'
<1>1. pc'[P] = pc[P] /\ at'[P] = at[P] /\ UNCHANGED mMostRecentPacket
  BY PublisherStays
<1>2. ASSUME NEW s \in Streams, NEW d \in Contexts
      PROVE  /\ Reach(s, d)' = Reach(s, d) /\ Reach(s, d) \in Nat
             /\ Unadmitted(d)' = Unadmitted(d)
  BY <1>1, ReachStays, ReachType DEF Unadmitted
<1>3. ASSUME NEW s \in Streams, NEW d \in Contexts, Unadmitted(d), at[P].s = s,
             d \in DOMAIN mSubscribersMap'[s]
      PROVE  mSubscribersMap'[s][d] = <<>>
  BY <1>3, ContextQueues, PoppedEmpty DEF Returns
<1>4. CASE UNCHANGED returned
  <2>1. ASSUME NEW s \in Streams, NEW d \in Contexts
        PROVE  /\ returned'[d][s] <= Reach(s, d)'
               /\ Unadmitted(d)' /\ at'[P].s = s => returned'[d][s] = 0
    BY <1>1, <1>2, <1>4 DEF Returns
  <2> HIDE DEF Reach, Unadmitted
  <2> QED BY <1>1, <1>2, <1>3, <2>1 DEF Returns
<1>5. CASE \E s \in Streams :
                /\ c \in DOMAIN mSubscribersMap[s] /\ mSubscribersMap[s][c] # <<>>
                /\ returned' = [returned EXCEPT ![c][s] = mSubscribersMap[s][c][1]]
  <2>1. PICK r \in Streams :
                /\ c \in DOMAIN mSubscribersMap[r] /\ mSubscribersMap[r][c] # <<>>
                /\ returned' = [returned EXCEPT ![c][r] = mSubscribersMap[r][c][1]]
    BY <1>5
  <2> DEFINE q == mSubscribersMap[r][c]
  <2>2. q \in Seq(Nat) /\ IsRun(q, Reach(r, c)) /\ q # <<>>
    BY <2>1 DEF TypeOK, IsQueueMap, Runs
  <2>3. q[1] <= Reach(r, c)
    BY <1>2, <2>2, FrontOfRun
  <2>4. ~(Unadmitted(c) /\ at[P].s = r)
    BY <2>1 DEF Returns
  <2>5. ASSUME NEW s \in Streams, NEW d \in Contexts
        PROVE  returned'[d][s] = IF d = c /\ s = r THEN q[1] ELSE returned[d][s]
    BY <2>1 DEF TypeOK
  <2> HIDE DEF q
  <2>6. ASSUME NEW s \in Streams, NEW d \in Contexts
        PROVE  /\ returned'[d][s] <= Reach(s, d)'
               /\ Unadmitted(d)' /\ at'[P].s = s => returned'[d][s] = 0
    BY <1>1, <1>2, <2>3, <2>4, <2>5 DEF Returns
  <2> HIDE DEF Reach, Unadmitted
  <2> QED BY <1>1, <1>2, <1>3, <2>6 DEF Returns
<1> QED BY <1>4, <1>5, ContextReturns

\* ... and no packet before an earlier one.
LEMMA ContextKeepsOrder ==
    ASSUME TypeOK, Places, StreamsAreCreated, Runs, InOrder, TypeOK', NEW c \in Contexts, ContextStep(c)
    PROVE  InOrder'
<1> SUFFICES ASSUME NEW s \in Streams, NEW d \in DOMAIN mSubscribersMap'[s],
                    NEW i \in 1..Len(mSubscribersMap'[s][d])
             PROVE  \/ mSubscribersMap'[s][d][i] > returned'[d][s]
                    \/ /\ pc'[d] = "pop" /\ at'[d].s = s
                       /\ mSubscribersMap'[s][d][i] = returned'[d][s] /\ i = 1
  BY DEF InOrder
<1> DEFINE q == mSubscribersMap[s][d]
<1>1. d \in Contexts
  BY DEF TypeOK, IsQueueMap
<1>2. d # c => pc'[d] = pc[d] /\ at'[d] = at[d]
  BY <1>1, ContextFrame, ThreadsDiffer DEF OthersStay
<1>3. c \in Threads
  BY ThreadsDiffer
<1>4. CASE UNCHANGED returned /\ pc'[c] # "pop"
  <2>1. CASE d \in DOMAIN mSubscribersMap[s] /\ mSubscribersMap'[s][d] = q /\ ~PopPacket(c)
    <3>1. pc[c] # "pop"
      BY <1>4, <2>1
      DEF ContextStep, SubscribeStep, PollStep, LeaveStep, StartSubscribe, NextName,
          FindRequest, FileRequest, NextStream, WaitForAll, ResetCount, FindQueue,
          TakePacket, EndWalk, StartLeave, TakeSize, Erase, EndLeave, Join,
          NoteJoined, CheckActive, NoteActive, ForgetActive
    <3> QED BY <1>2, <1>4, <2>1, <3>1 DEF InOrder
  <2>2. CASE mSubscribersMap'[s][d] = <<>>
    BY <2>2
  <2>3. CASE PopPacket(c) /\ d # c /\ d \in DOMAIN mSubscribersMap[s] /\ mSubscribersMap'[s][d] = q
    BY <1>2, <1>4, <2>3 DEF InOrder
  <2>4. CASE /\ PopPacket(c) /\ d = c /\ d \in DOMAIN mSubscribersMap[s]
             /\ mSubscribersMap'[s][d] = q /\ s # at[c].s
    BY <1>4, <2>4 DEF InOrder
  <2>5. CASE PopPacket(c) /\ d = c /\ s = at[c].s /\ d \in DOMAIN mSubscribersMap[s]
    <3>0. mSubscribersMap'[s][d] = Popped(q)
      BY <1>1, <2>5, PopProperties DEF PopPacket
    <3>1. q \in Seq(Nat) /\ Len(q) \in Nat
      BY <2>5 DEF TypeOK, IsQueueMap
    <3>2. q # <<>> /\ Len(Popped(q)) = Len(q) - 1 /\ Popped(q)[i] = q[i + 1]
      BY <3>0, <3>1, PoppedProperties
    <3>3. i \in Nat /\ i + 1 \in 1..Len(q) /\ i + 1 # 1
      BY <3>0, <3>1, <3>2
    <3>4. q[i + 1] > returned[d][s]
      <4>1. \A j \in 1..Len(q) : j # 1 => q[j] > returned[d][s]
        BY <2>5 DEF InOrder
      <4> QED BY <3>3, <4>1
    <3> QED BY <1>4, <3>0, <3>2, <3>4
  <2> QED BY <1>3, <2>1, <2>2, <2>3, <2>4, <2>5, ContextQueues
<1>6. CASE UNCHANGED <<returned, mSubscribersMap>> /\ pc[c] = "front"
  BY <1>2, <1>6 DEF InOrder
<1>5. CASE \E r \in Streams :
                /\ UNCHANGED mSubscribersMap /\ pc[c] = "front"
                /\ c \in DOMAIN mSubscribersMap[r] /\ mSubscribersMap[r][c] # <<>>
                /\ returned' = [returned EXCEPT ![c][r] = mSubscribersMap[r][c][1]]
                /\ pc'[c] = "pop" /\ at'[c].s = r
  <2>1. PICK r \in Streams :
                /\ UNCHANGED mSubscribersMap /\ pc[c] = "front"
                /\ c \in DOMAIN mSubscribersMap[r] /\ mSubscribersMap[r][c] # <<>>
                /\ returned' = [returned EXCEPT ![c][r] = mSubscribersMap[r][c][1]]
                /\ pc'[c] = "pop" /\ at'[c].s = r
    BY <1>5
  <2>2. d \in DOMAIN mSubscribersMap[s] /\ mSubscribersMap'[s][d] = q /\ i \in 1..Len(q)
    BY <2>1
  <2>3. CASE d = c /\ s = r
    <3>1. /\ q \in Seq(Nat) /\ q # <<>> /\ IsRun(q, Reach(s, d))
          /\ Reach(s, d) \in Nat
      <4>1. q \in Seq(Nat)
        BY <2>2 DEF TypeOK, IsQueueMap
      <4>2. q # <<>>
        BY <2>1, <2>3
      <4>3. IsRun(q, Reach(s, d))
        BY <2>2 DEF Runs
      <4>4. Reach(s, d) \in Nat
        BY <1>1, ReachType
      <4> QED BY <4>1, <4>2, <4>3, <4>4
    <3>2. i # 1 => q[i] > q[1]
      BY <2>2, <3>1, FrontOfRun
    <3>3. returned'[d][s] = q[1]
      BY <2>1, <2>3 DEF TypeOK
    <3> QED BY <2>1, <2>2, <2>3, <3>2, <3>3
  <2>4. CASE ~(d = c /\ s = r)
    <3>1. returned'[d][s] = returned[d][s]
      BY <1>1, <2>1, <2>4 DEF TypeOK
    <3>2. \/ q[i] > returned[d][s]
          \/ /\ pc[d] = "pop" /\ at[d].s = s /\ q[i] = returned[d][s] /\ i = 1
      BY <2>2 DEF InOrder
    <3>3. d = c => pc[d] # "pop"
      BY <2>1
    <3> QED BY <1>2, <2>2, <3>1, <3>2, <3>3
  <2> QED BY <2>3, <2>4
<1> QED BY <1>4, <1>5, <1>6, ContextReturns

\* Each step keeps the returned packets in order.
LEMMA NextReturns ==
    ASSUME TypeOK, Places, StreamsAreCreated, Runs, Returns, InOrder, TypeOK', [Next]_vars
    PROVE  Returns' /\ InOrder'
<1>1. CASE enqueuePacket
  BY <1>1, PublisherKeepsReturns, PublisherKeepsOrder
<1>2. CASE \E c \in Contexts : ContextStep(c)
  BY <1>2, ContextKeepsReturns, ContextKeepsOrder
<1>3. CASE unsubscribeAll \/ getNumberOfSubscribers \/ UNCHANGED vars
  <2>1. pc'[P] = pc[P] /\ at'[P] = at[P] /\ UNCHANGED <<mMostRecentPacket, returned>>
    BY <1>3, PublisherStays, StopperFrame DEF getNumberOfSubscribers, vars
  <2>2. ASSUME NEW c \in Contexts
        PROVE  pc'[c] = pc[c] /\ at'[c] = at[c]
    BY <1>3, StopperFrame, ThreadsDiffer DEF getNumberOfSubscribers, vars, OthersStay
  <2>3. ASSUME NEW s \in Streams, NEW d \in DOMAIN mSubscribersMap'[s]
        PROVE  /\ d \in DOMAIN mSubscribersMap[s] /\ d \in Contexts
               /\ mSubscribersMap'[s][d] = mSubscribersMap[s][d]
    <3>1. d \in Contexts
      BY DEF TypeOK, IsQueueMap
    <3> QED BY <1>3, <3>1, StopperQueues DEF getNumberOfSubscribers, vars, maps, streams
  <2>4. ASSUME NEW s \in Streams, NEW c \in Contexts
        PROVE  Reach(s, c)' = Reach(s, c) /\ Unadmitted(c)' = Unadmitted(c)
    BY <2>1, ReachStays DEF Unadmitted
  <2>5. Returns'
    <3>1. ASSUME NEW s \in Streams, NEW c \in Contexts
          PROVE  /\ returned'[c][s] <= Reach(s, c)'
                 /\ Unadmitted(c)' /\ at'[P].s = s =>
                      /\ returned'[c][s] = 0
                      /\ c \in DOMAIN mSubscribersMap'[s] => mSubscribersMap'[s][c] = <<>>
      BY <2>1, <2>3, <2>4 DEF Returns
    <3> QED BY <3>1 DEF Returns
  <2>6. InOrder'
    BY <2>1, <2>2, <2>3 DEF InOrder
  <2> QED BY <2>5, <2>6
<1> QED BY <1>1, <1>2, <1>3, StepCases

-----------------------------------------------------------------------------
(***************************************************************************)
(* What a context asks for.                                                *)
(***************************************************************************)
InLoop == {"names", "streams", "join", "check", "note", "file", "request"}

\* The sets that Handled stands for.
LEMMA HandledCases ==
    ASSUME NEW c \in Contexts, NEW label, NEW l \in Locals,
           label = "streams" => Request[c].all,
           label \in {"names", "file", "request"} => ~Request[c].all
    PROVE  /\ label = "new" => HandledAt(c, label, l) = {}
           /\ label \notin InLoop \cup {"new"} => HandledAt(c, label, l) = Names(c)
           /\ label = "streams" => HandledAt(c, label, l) = {s \in Streams : s <= l.s}
           /\ label = "names" =>
                HandledAt(c, label, l) =
                  {s \in Streams : \E i \in DOMAIN Request[c].names :
                     s = Request[c].names[i] /\ i <= l.n}
           /\ label \in {"join", "check", "note", "file", "request"} =>
                HandledAt(c, label, l) =
                  IF Request[c].all THEN {s \in Streams : s < l.s}
                  ELSE {s \in Streams : \E i \in DOMAIN Request[c].names :
                          s = Request[c].names[i] /\ i < l.n}
<1>1. l.s \in Nat /\ l.n \in Nat
  <2>1. l.s \in Streams \cup {0} /\ l.n \in Nat
    BY DEF Locals
  <2> QED BY <2>1, KeysAreNumbers
<1>2. /\ \A s \in Streams : s \in Nat
      /\ DOMAIN Request[c].names \subseteq Nat
  <2>1. Request[c].names \in Seq(Streams)
    BY RequestAssumption
  <2> QED BY <2>1, OrderAssumption
<1>3. CASE label = "new"
  BY <1>3 DEF HandledAt, InLoop
<1>4. CASE label = "streams"
  BY <1>1, <1>2, <1>4 DEF HandledAt, InLoop
<1>5. CASE label = "names"
  BY <1>1, <1>2, <1>5 DEF HandledAt, InLoop
<1>6. CASE label \in {"join", "check", "note", "file", "request"}
  BY <1>6 DEF HandledAt, InLoop
<1>7. CASE label \notin InLoop \cup {"new"}
  BY <1>7 DEF HandledAt, InLoop
<1> QED BY <1>3, <1>4, <1>5, <1>6, <1>7

\* A context never asks for more than its request.
LEMMA HandledAreNames ==
    ASSUME TypeOK, NEW c \in Contexts, ContextPlace(c)
    PROVE  Handled(c) \subseteq Names(c) /\ Names(c) \subseteq Streams
<1>1. Request[c].names \in Seq(Streams)
  BY RequestAssumption
<1>2. \A i \in DOMAIN Request[c].names :
        Request[c].names[i] \in Streams /\ Request[c].names[i] \in Range(Request[c].names)
  BY <1>1 DEF Range
<1>3. Names(c) \subseteq Streams
  BY <1>1 DEF Names, Range
<1> QED BY <1>2, <1>3 DEF Handled, HandledAt, Names

\* The stream a context is at is not among those it has dealt with.
LEMMA NotYetHandled ==
    ASSUME TypeOK, NEW c \in Contexts, ContextPlace(c),
           pc[c] \in {"join", "check", "note", "file", "request"}
    PROVE  at[c].s \notin Handled(c) /\ at[c].s \in Names(c)
<1>0. c \in Threads /\ at[c] \in Locals
  BY ThreadsDiffer DEF TypeOK
<1>1. at[c].s \in Nat /\ at[c].n \in Nat
  <2>1. at[c].s \in Streams \cup {0} /\ at[c].n \in Nat
    BY <1>0 DEF Locals
  <2> QED BY <2>1, KeysAreNumbers
<1>2. CASE Request[c].all
  <2>1. at[c].s \in mStreamsMap /\ mStreamsMap \subseteq Streams
    BY <1>2 DEF ContextPlace, TypeOK
  <2>2. ~(at[c].s < at[c].s)
    BY <1>1
  <2>3. Handled(c) = {s \in Streams : s < at[c].s}
    BY <1>0, <1>2, HandledCases DEF Handled, ContextPlace
  <2> QED BY <1>2, <2>1, <2>2, <2>3 DEF Names
<1>3. CASE ~Request[c].all
  <2>1. at[c].n \in DOMAIN Request[c].names /\ at[c].s = Request[c].names[at[c].n]
    BY <1>3 DEF ContextPlace
  <2>2. \A i \in DOMAIN Request[c].names :
          Request[c].names[i] = Request[c].names[at[c].n] => i = at[c].n
    BY <2>1, RequestAssumption DEF IsInjective
  <2>3. ~(at[c].n < at[c].n)
    BY <1>1
  <2>4. Handled(c) = {s \in Streams : \E i \in DOMAIN Request[c].names :
                         s = Request[c].names[i] /\ i < at[c].n}
    BY <1>0, <1>3, HandledCases DEF Handled, ContextPlace
  <2> QED BY <1>3, <2>1, <2>2, <2>3, <2>4 DEF Names, Range
<1> QED BY <1>2, <1>3

\* A context deals with one stream after the other, and passes over those that do
\* not exist when it asks for all.
LEMMA HandledSteps ==
    ASSUME TypeOK, TypeOK', NEW c \in Contexts, ContextPlace(c), ContextPlace(c)', ContextStep(c)
    PROVE  \/ /\ pc[c] \notin {"note", "request"} /\ (pc[c] = "join" => pc'[c] = "check")
              /\ Handled(c)' = Handled(c)
           \/ /\ pc[c] \in {"join", "note", "request"} /\ pc'[c] \in {"names", "streams"}
              /\ Handled(c)' = Handled(c) \cup {at[c].s}
           \/ /\ NextStream(c) \/ WaitForAll(c)
              /\ Request[c].all /\ Handled(c) \subseteq Handled(c)'
              /\ \A s \in Handled(c)' : s \in Handled(c) \/ s \notin mStreamsMap
<1> DEFINE names == Request[c].names
           x == at[c].s
           n == at[c].n
           x1 == at'[c].s
           n1 == at'[c].n
           before(k) == {s \in Streams : \E i \in DOMAIN names : s = names[i] /\ i < k}
           upTo(k) == {s \in Streams : \E i \in DOMAIN names : s = names[i] /\ i <= k}
<1>0. c \in Threads /\ at[c] \in Locals /\ at'[c] \in Locals
  BY ThreadsDiffer DEF TypeOK
<1>1. x \in Nat /\ n \in Nat
  <2>1. x \in Streams \cup {0} /\ n \in Nat
    BY <1>0 DEF Locals
  <2> QED BY <2>1, KeysAreNumbers
<1>2. /\ \A s \in Streams : s \in Nat \ {0}
      /\ names \in Seq(Streams) /\ Len(names) \in Nat /\ DOMAIN names = 1..Len(names)
  BY RequestAssumption, OrderAssumption
<1>3. /\ pc[c] \notin InLoop \cup {"new"} => Handled(c) = Names(c)
      /\ pc[c] = "streams" => Handled(c) = {s \in Streams : s <= x}
      /\ pc[c] = "names" => Handled(c) = upTo(n)
      /\ pc[c] \in {"join", "check", "note", "file", "request"} =>
           Handled(c) = IF Request[c].all THEN {s \in Streams : s < x} ELSE before(n)
      /\ pc[c] = "new" => Handled(c) = {}
  BY <1>0, HandledCases DEF Handled, ContextPlace
<1>4. /\ pc'[c] \notin InLoop \cup {"new"} => Handled(c)' = Names(c)
      /\ pc'[c] = "streams" => Handled(c)' = {s \in Streams : s <= x1}
      /\ pc'[c] = "names" => Handled(c)' = upTo(n1)
      /\ pc'[c] \in {"join", "check", "note", "file", "request"} =>
           Handled(c)' = IF Request[c].all THEN {s \in Streams : s < x1} ELSE before(n1)
  BY <1>0, HandledCases DEF Handled, ContextPlace
<1>5. Handled(c) \subseteq Names(c) /\ Names(c) \subseteq Streams
  BY HandledAreNames
<1>6. Request[c].all => Names(c) = Streams
  BY DEF Names
<1> USE DEF maps, streams, pending
<1>7. CASE StartSubscribe(c)
  <2>1. pc[c] = "new" /\ pc'[c] = NextWanted(c) /\ x1 = 0 /\ n1 = 0
    BY <1>0, <1>7 DEF StartSubscribe, Goto, TypeOK, ContextPlace, NoLocals
  <2>2. CASE pc'[c] = "streams"
    <3>1. Handled(c)' = {s \in Streams : s <= 0}
      BY <1>4, <2>1, <2>2
    <3> QED BY <1>2, <1>3, <2>1, <3>1
  <2>3. CASE pc'[c] = "names"
    <3>1. Handled(c)' = upTo(0)
      BY <1>4, <2>1, <2>3
    <3>2. \A i \in DOMAIN names : ~(i <= 0)
      BY <1>2
    <3>3. upTo(0) = {}
      BY <3>2
    <3> QED BY <1>3, <2>1, <3>1, <3>3
  <2> QED BY <2>1, <2>2, <2>3 DEF NextWanted
<1>8. CASE NextName(c)
  <2>1. /\ pc[c] = "names" /\ ~Request[c].all
        /\ \/ /\ n + 1 <= Len(names)
              /\ at' = [at EXCEPT ![c].n = n + 1, ![c].s = names[n + 1]]
              /\ pc'[c] \in {"join", "file"}
           \/ /\ n + 1 > Len(names)
              /\ pc'[c] = "reset"
    BY <1>0, <1>8 DEF NextName, Goto, ContextPlace, TypeOK
  <2>2. CASE n + 1 <= Len(names)
    <3> DEFINE k == n + 1
               q == names[k]
               l == [at[c] EXCEPT !.n = k, !.s = q]
    <3>1. at' = [at EXCEPT ![c].n = k, ![c].s = q] /\ pc'[c] \in {"join", "file"}
      BY <1>1, <1>2, <2>1, <2>2
    <3> HIDE DEF k, q
    <3>2. at' = [at EXCEPT ![c] = l]
      BY <3>1
    <3>3. l.n = k
      BY <1>0 DEF Locals
    <3> HIDE DEF l
    <3>4. n1 = k
      BY <3>2, <3>3, <1>0 DEF TypeOK
    <3>5. Handled(c)' = before(k)
      BY <1>4, <2>1, <3>1, <3>4
    <3>6. \A i \in DOMAIN names : i < k <=> i <= n
      BY <1>1, <1>2 DEF k
    <3>7. before(k) = upTo(n)
      BY <3>6
    <3> QED BY <1>3, <2>1, <3>5, <3>7
  <2>3. CASE ~(n + 1 <= Len(names))
    <3>1. Handled(c)' = Names(c)
      BY <1>4, <2>1, <2>3 DEF InLoop
    <3>2. \A i \in DOMAIN names : i <= n
      BY <1>1, <1>2, <2>3
    <3>3. \A i \in DOMAIN names : names[i] \in Streams
      BY <1>2
    <3>4. upTo(n) = Names(c)
      BY <2>1, <3>2, <3>3 DEF Names, Range
    <3> QED BY <1>3, <2>1, <3>1, <3>4
  <2> QED BY <2>2, <2>3
<1>9. CASE FindRequest(c)
  <2> DEFINE found == c \in DOMAIN mPendingSubscriptionRequests
  <2>1. at' = [at EXCEPT ![c].flag = found] /\ pc[c] = "file" /\ Goto(c, "request")
    BY <1>9 DEF FindRequest
  <2> HIDE DEF found
  <2>2. pc'[c] = "request" /\ x1 = x /\ n1 = n
    BY <1>0, <2>1 DEF TypeOK, Locals, Goto
  <2> QED BY <1>3, <1>4, <2>1, <2>2
<1>10. ASSUME pc[c] \in {"join", "note", "request"}, pc'[c] = NextWanted(c), x1 = x, n1 = n
       PROVE  /\ pc'[c] \in {"names", "streams"}
              /\ Handled(c)' = Handled(c) \cup {x}
  <2>1. x \in Streams
    BY <1>5, <1>10, NotYetHandled
  <2>2. CASE Request[c].all
    <3>1. Handled(c) = {s \in Streams : s < x} /\ Handled(c)' = {s \in Streams : s <= x}
      BY <1>3, <1>4, <1>10, <2>2 DEF NextWanted
    <3> QED BY <1>1, <1>2, <1>10, <2>1, <2>2, <3>1 DEF NextWanted
  <2>3. CASE ~Request[c].all
    <3>1. Handled(c) = before(n) /\ Handled(c)' = upTo(n) /\ pc'[c] = "names"
      BY <1>3, <1>4, <1>10, <2>3 DEF NextWanted
    <3>2. n \in DOMAIN names /\ x = names[n]
      BY <1>10, <2>3 DEF ContextPlace
    <3>3. \A i \in DOMAIN names : i <= n <=> i < n \/ i = n
      BY <1>1, <1>2
    <3>4. upTo(n) = before(n) \cup {x}
      BY <2>1, <3>2, <3>3
    <3> QED BY <3>1, <3>4
  <2> QED BY <2>2, <2>3
<1>11. CASE FileRequest(c)
  <2>1. pc[c] = "request" /\ pc'[c] = "names" /\ x1 = x /\ n1 = n /\ ~Request[c].all
    BY <1>0, <1>11 DEF FileRequest, Goto, TypeOK, Locals, ContextPlace
  <2> QED BY <1>10, <2>1 DEF NextWanted
<1>12. CASE NextStream(c)
  <2> DEFINE y == Min(Above(mStreamsMap, x))
  <2>1. /\ Above(mStreamsMap, x) # {} /\ pc[c] = "streams" /\ pc'[c] = "join" /\ x1 = y
        /\ Request[c].all
    BY <1>0, <1>12 DEF NextStream, Goto, TypeOK, Locals, ContextPlace
  <2>2. mStreamsMap \in SUBSET Nat
    BY ThreadsDiffer DEF TypeOK
  <2>3. y \in mStreamsMap /\ y > x /\ \A z \in mStreamsMap : z > x => z >= y
    BY <1>1, <2>1, <2>2, NextKey
  <2>4. y \in Nat
    BY <2>2, <2>3
  <2> HIDE DEF y
  <2>5. Handled(c) = {s \in Streams : s <= x} /\ Handled(c)' = {s \in Streams : s < y}
    BY <1>3, <1>4, <2>1
  <2>6. \A s \in Streams : (s <= x => s < y) /\ (s < y /\ s \in mStreamsMap => s <= x)
    BY <1>1, <1>2, <2>3, <2>4
  <2> QED BY <1>12, <2>1, <2>5, <2>6
<1>13. CASE WaitForAll(c)
  <2>1. /\ Above(mStreamsMap, x) = {} /\ pc[c] = "streams" /\ pc'[c] = "reset"
        /\ Request[c].all
    BY <1>0, <1>13 DEF WaitForAll, Goto, TypeOK, ContextPlace
  <2>2. Handled(c) = {s \in Streams : s <= x} /\ Handled(c)' = Streams
    BY <1>3, <1>4, <1>6, <2>1 DEF InLoop
  <2>3. \A s \in Streams : s \in mStreamsMap => s <= x
    BY <1>1, <1>2, <2>1 DEF Above
  <2> QED BY <1>13, <2>1, <2>2, <2>3
<1>14. CASE Join(c) \/ NoteJoined(c)
  <2>1. /\ pc[c] \in {"join", "check", "note"} /\ x1 = x /\ n1 = n
        /\ pc[c] = "check" => pc'[c] = "note"
        /\ pc[c] = "note" => pc'[c] = NextWanted(c)
        /\ pc[c] = "join" => pc'[c] \in {"check", NextWanted(c)}
    BY <1>0, <1>14
    DEF Join, Subscribe, NoteJoined, CheckActive, NoteActive, Goto, TypeOK, Locals
  <2>2. CASE pc'[c] = NextWanted(c)
    <3>1. pc[c] \in {"join", "note"}
      BY <2>1, <2>2 DEF NextWanted
    <3> QED BY <1>10, <2>1, <2>2, <3>1
  <2>3. CASE pc'[c] \in {"check", "note"}
    <3>1. pc[c] \in {"join", "check"}
      BY <2>1, <2>3 DEF NextWanted
    <3>2. /\ Handled(c) = IF Request[c].all THEN {s \in Streams : s < x} ELSE before(n)
          /\ Handled(c)' = IF Request[c].all THEN {s \in Streams : s < x1} ELSE before(n1)
      BY <1>3, <1>4, <2>3, <3>1
    <3>3. Handled(c)' = Handled(c)
      BY <2>1, <3>2
    <3>4. pc[c] = "join" => pc'[c] = "check"
      BY <2>1, <2>3 DEF NextWanted
    <3> QED BY <3>1, <3>3, <3>4
  <2> QED BY <2>1, <2>2, <2>3
<1>15. CASE /\ ~StartSubscribe(c) /\ ~NextName(c) /\ ~FindRequest(c) /\ ~FileRequest(c)
            /\ ~NextStream(c) /\ ~WaitForAll(c) /\ ~Join(c) /\ ~NoteJoined(c)
  <2>1. pc[c] \notin InLoop \cup {"new"} /\ pc'[c] \notin InLoop \cup {"new"}
    BY <1>0, <1>15
    DEF ContextStep, SubscribeStep, PollStep, LeaveStep, ResetCount, FindQueue,
        TakePacket, PopPacket, EndWalk, StartLeave, TakeSize, Erase, ForgetActive,
        EndLeave, Goto, TypeOK, InLoop
  <2> QED BY <1>3, <1>4, <2>1 DEF InLoop
<1> QED BY <1>7, <1>8, <1>9, <1>11, <1>12, <1>13, <1>14, <1>15

-----------------------------------------------------------------------------
(***************************************************************************)
(* What the step of a thread does, label by label.                         *)
(***************************************************************************)
LEMMA ContextMoves ==
    ASSUME TypeOK, Places, NEW c \in Contexts, ContextStep(c)
    PROVE  /\ pc[c] = "new" => pc'[c] = NextWanted(c)
           /\ pc[c] = "names" =>
                /\ pc'[c] \in {"join", "file", "reset"}
                /\ pc'[c] = "file" => at'[c].s \notin mStreamsMap
           /\ pc[c] = "file" =>
                /\ pc'[c] = "request" /\ at'[c].s = at[c].s
                /\ at'[c].flag <=> c \in DOMAIN mPendingSubscriptionRequests
           /\ pc[c] = "request" => pc'[c] = "names" /\ at'[c].s = at[c].s
           /\ pc[c] = "streams" =>
                /\ pc'[c] \in {"join", "reset"}
                /\ pc'[c] = "reset" => at'[c].s = at[c].s
           /\ pc[c] = "join" =>
                /\ pc'[c] = IF c \in DOMAIN mSubscribersMap[at[c].s] THEN NextWanted(c)
                            ELSE "check"
                /\ at'[c] = at[c]
           /\ pc[c] = "check" =>
                /\ pc'[c] = "note" /\ at'[c].s = at[c].s
                /\ at'[c].flag <=> mActiveSubscriptionsMap[c] # {}
           /\ pc[c] = "note" => pc'[c] = NextWanted(c) /\ at'[c].s = at[c].s
           /\ pc[c] = "reset" => pc'[c] = "polling"
           /\ pc[c] \in {"polling", "walk", "front", "pop"} =>
                pc'[c] \in {"polling", "walk", "front", "pop"} \/ (pc[c] = "polling" /\ pc'[c] = "leave")
           /\ pc[c] \in {"leave", "erase", "forget"} =>
                pc'[c] \in {"leave", "erase", "forget", "gone"}
           /\ pc'[c] = "gone" => pc[c] = "leave"
           /\ pc[c] # "gone" /\ pc'[c] # "new"
<1>1. c \in Threads /\ at[c] \in Locals /\ ContextPlace(c)
  BY ThreadsDiffer DEF TypeOK, Places
<1>2. \A x : [at EXCEPT ![c] = x][c] = x
  BY <1>1 DEF TypeOK
<1>3. \A label : Goto(c, label) => pc'[c] = label
  BY <1>1 DEF Goto, TypeOK
<1>4. CASE StartSubscribe(c)
  BY <1>3, <1>4 DEF StartSubscribe, NextWanted
<1>5. CASE NextName(c)
  <2> DEFINE n == at[c].n + 1
             q == Request[c].names[n]
             l == [at[c] EXCEPT !.n = n, !.s = q]
  <2>1. /\ pc[c] = "names"
        /\ \/ /\ pc'[c] = IF q \in mStreamsMap THEN "join" ELSE "file"
              /\ at' = [at EXCEPT ![c].n = n, ![c].s = q]
           \/ pc'[c] = "reset"
    BY <1>3, <1>5 DEF NextName
  <2> HIDE DEF q, n
  <2>2. at' = [at EXCEPT ![c].n = n, ![c].s = q] => at' = [at EXCEPT ![c] = l]
    OBVIOUS
  <2>3. l.s = q
    BY <1>1 DEF Locals
  <2> HIDE DEF l
  <2>4. at' = [at EXCEPT ![c].n = n, ![c].s = q] => at'[c].s = q
    BY <1>2, <2>2, <2>3
  <2> QED BY <2>1, <2>4
<1>6. CASE FindRequest(c)
  <2> DEFINE found == c \in DOMAIN mPendingSubscriptionRequests
             l == [at[c] EXCEPT !.flag = found]
  <2>1. at' = [at EXCEPT ![c].flag = found] /\ pc[c] = "file" /\ Goto(c, "request")
    BY <1>6 DEF FindRequest
  <2>2. found \in BOOLEAN
    OBVIOUS
  <2> HIDE DEF found
  <2>3. l.flag = found /\ l.s = at[c].s /\ at' = [at EXCEPT ![c] = l]
    BY <1>1, <2>1 DEF Locals
  <2> HIDE DEF l
  <2>4. pc'[c] = "request" /\ at'[c].s = at[c].s /\ at'[c].flag = found
    BY <1>2, <1>3, <2>1, <2>3
  <2> USE DEF found
  <2> QED BY <2>1, <2>4
<1>7. CASE FileRequest(c)
  BY <1>1, <1>3, <1>7 DEF FileRequest, TypeOK, Locals
<1>8. CASE NextStream(c) \/ WaitForAll(c)
  BY <1>1, <1>3, <1>8 DEF NextStream, WaitForAll, TypeOK, Locals
<1>9. CASE Join(c)
  <2>1. /\ pc[c] = "join" /\ at'[c] = at[c]
        /\ pc'[c] = IF c \in DOMAIN mSubscribersMap[at[c].s] THEN NextWanted(c) ELSE "check"
    BY <1>3, <1>9 DEF Join, Subscribe, isSubscribed
  <2>2. pc'[c] \notin {"new", "gone"}
    BY <2>1 DEF NextWanted
  <2> QED BY <2>1, <2>2
<1>10. CASE CheckActive(c, c)
  <2> DEFINE found == mActiveSubscriptionsMap[c] # {}
             l == [at[c] EXCEPT !.flag = found]
  <2>1. at' = [at EXCEPT ![c].flag = found] /\ pc[c] = "check" /\ Goto(c, "note")
    BY <1>10 DEF CheckActive
  <2>2. found \in BOOLEAN
    OBVIOUS
  <2> HIDE DEF found
  <2>3. l.flag = found /\ l.s = at[c].s /\ at' = [at EXCEPT ![c] = l]
    BY <1>1, <2>1 DEF Locals
  <2> HIDE DEF l
  <2>4. pc'[c] = "note" /\ at'[c].s = at[c].s /\ at'[c].flag = found
    BY <1>2, <1>3, <2>1, <2>3
  <2> USE DEF found
  <2> QED BY <2>1, <2>4
<1>11. CASE NoteActive(c, c, NextWanted(c))
  <2>1. pc[c] = "note" /\ at'[c].s = at[c].s /\ pc'[c] = NextWanted(c)
    BY <1>1, <1>3, <1>11 DEF NoteActive, TypeOK, Locals
  <2>2. pc'[c] \notin {"new", "gone"}
    BY <2>1 DEF NextWanted
  <2> QED BY <2>1, <2>2
<1>12. CASE ResetCount(c, "reset", "polling")
  BY <1>3, <1>12 DEF ResetCount
<1>13. CASE PollStep(c) \/ StartLeave(c)
  BY <1>3, <1>13 DEF PollStep, FindQueue, TakePacket, PopPacket, EndWalk, StartLeave
<1>14. CASE TakeSize(c) \/ Erase(c) \/ ForgetActive(c)
  <2>1. pc[c] \in {"leave", "erase", "forget"} /\ pc'[c] \in {"leave", "erase", "forget"}
    BY <1>3, <1>14 DEF TakeSize, Erase, ForgetActive
  <2> QED BY <2>1
<1>15. CASE EndLeave(c)
  BY <1>3, <1>15 DEF EndLeave, ResetCount
<1> QED BY <1>4, <1>5, <1>6, <1>7, <1>8, <1>9, <1>10, <1>11, <1>12, <1>13, <1>14, <1>15
        DEF ContextStep, SubscribeStep, NoteJoined, LeaveStep

\* Who is subscribed to what, after a step of a context ...
LEMMA ContextMembers ==
    ASSUME TypeOK, Places, NEW c \in Contexts, ContextStep(c), NEW s \in Streams
    PROVE  DOMAIN mSubscribersMap'[s] =
             IF pc[c] = "join" /\ at[c].s = s THEN DOMAIN mSubscribersMap[s] \cup {c}
             ELSE IF pc[c] = "erase" /\ at[c].s = s THEN DOMAIN mSubscribersMap[s] \ {c}
             ELSE DOMAIN mSubscribersMap[s]
<1> USE DEF maps, streams, pending
<1>1. CASE Join(c)
  BY <1>1 DEF Join, Subscribe, subscribe, TypeOK
<1>2. CASE PopPacket(c)
  <2>1. at[c].s \in Streams /\ Pop(at[c].s, c) /\ pc[c] = "pop"
    BY <1>2 DEF PopPacket, Places, ContextPlace, TypeOK
  <2> QED BY <2>1, PopProperties
<1>3. CASE Erase(c)
  BY <1>3 DEF Erase, unsubscribe, TypeOK
<1>4. CASE ~Join(c) /\ ~PopPacket(c) /\ ~Erase(c)
  BY <1>4 DEF ContextStep, SubscribeStep, PollStep, LeaveStep, StartSubscribe, NextName,
          FindRequest, FileRequest, NextStream, WaitForAll, ResetCount, FindQueue, TakePacket,
          EndWalk, StartLeave, TakeSize, EndLeave, NoteJoined, CheckActive,
          NoteActive, ForgetActive
<1> QED BY <1>1, <1>2, <1>3, <1>4

\* ... of the publisher ...
LEMMA PublisherMembers ==
    ASSUME TypeOK, Places, enqueuePacket, NEW s \in Streams
    PROVE  DOMAIN mSubscribersMap'[s] =
             IF pc[P] = "admit" /\ at[P].s = s THEN DOMAIN mSubscribersMap[s] \cup {at[P].c}
             ELSE DOMAIN mSubscribersMap[s]
<1> USE DEF maps, streams, pending
<1>1. CASE Admit
  BY <1>1 DEF Admit, Subscribe, subscribe, TypeOK
<1>2. CASE TrimQueue
  <2>1. at[P].s \in Streams /\ at[P].c \in Contexts /\ Pop(at[P].s, at[P].c) /\ pc[P] = "trim"
    BY <1>2 DEF TrimQueue, Places, PublisherPlace, TypeOK
  <2> QED BY <2>1, PopProperties
<1>3. CASE PushPacket
  BY <1>3, PushedQueues DEF PushPacket
<1>4. CASE ~Admit /\ ~TrimQueue /\ ~PushPacket
  BY <1>4 DEF enqueuePacket, FindStream, LockStream, FanOut, UnlockStream, InsertStream,
          ScanAll, ScanRequests, NoteAdmitted, CheckActive, NoteActive, Fulfil,
          FindEmptyRequest, DropRequest
<1> QED BY <1>1, <1>2, <1>3, <1>4

\* ... and of unsubscribeAll.
LEMMA StopperMembers ==
    ASSUME TypeOK, unsubscribeAll, NEW s \in Streams
    PROVE  /\ DOMAIN mSubscribersMap'[s] \subseteq DOMAIN mSubscribersMap[s]
           /\ WipeStream /\ s = Min(Above(mStreamsMap, at[S].s)) =>
                DOMAIN mSubscribersMap'[s] = {}
<1> USE DEF maps, streams, pending
<1>1. CASE WipeStream
  BY <1>1 DEF WipeStream, NoSubscribers, TypeOK
<1>2. CASE ~WipeStream
  BY <1>2 DEF unsubscribeAll, StartPurge, ClearWaiting, EndPurge
<1> QED BY <1>1, <1>2

\* The pending requests after a step of a context.
LEMMA ContextRequests ==
    ASSUME TypeOK, Places, NEW c \in Contexts, ContextStep(c)
    PROVE  LET filed  == DOMAIN mPendingSubscriptionRequests
               leaves == pc[c] = "polling" /\ pc'[c] = "leave"
           IN  /\ \A d \in Contexts \ {c} :
                    /\ d \in DOMAIN mPendingSubscriptionRequests' <=> d \in filed
                    /\ d \in filed => mPendingSubscriptionRequests'[d] =
                                        mPendingSubscriptionRequests[d]
               /\ pc[c] = "request" =>
                    /\ c \in DOMAIN mPendingSubscriptionRequests' <=>
                         c \in filed \/ ~at[c].flag
                    /\ c \in DOMAIN mPendingSubscriptionRequests' =>
                         mPendingSubscriptionRequests'[c] =
                           (IF c \in filed THEN mPendingSubscriptionRequests[c] ELSE {})
                             \cup {at[c].s}
               /\ pc[c] # "request" =>
                    /\ c \in DOMAIN mPendingSubscriptionRequests' <=> c \in filed /\ ~leaves
                    /\ c \in DOMAIN mPendingSubscriptionRequests' =>
                         mPendingSubscriptionRequests'[c] = mPendingSubscriptionRequests[c]
               /\ mPendingSubscribeToAllRequests' =
                    IF pc[c] = "streams" /\ pc'[c] = "reset"
                      THEN mPendingSubscribeToAllRequests \cup {c}
                    ELSE IF leaves THEN mPendingSubscribeToAllRequests \ {c}
                    ELSE mPendingSubscribeToAllRequests
<1>1. c \in Threads
  BY ThreadsDiffer
<1>2. \A label : Goto(c, label) => pc'[c] = label
  BY <1>1 DEF Goto, TypeOK
<1> USE DEF maps, streams, pending
<1>3. CASE FileRequest(c)
  <2>1. /\ pc[c] = "request" /\ UNCHANGED mPendingSubscribeToAllRequests
        /\ mPendingSubscriptionRequests' =
             IF at[c].flag /\ c \notin DOMAIN mPendingSubscriptionRequests
               THEN mPendingSubscriptionRequests
             ELSE [d \in DOMAIN mPendingSubscriptionRequests \cup {c} |->
                     (IF d \in DOMAIN mPendingSubscriptionRequests
                        THEN mPendingSubscriptionRequests[d] ELSE {})
                       \cup (IF d = c THEN {at[c].s} ELSE {})]
    BY <1>3 DEF FileRequest
  <2>2. CASE at[c].flag /\ c \notin DOMAIN mPendingSubscriptionRequests
    BY <2>1, <2>2
  <2>3. CASE ~(at[c].flag /\ c \notin DOMAIN mPendingSubscriptionRequests)
    <3>1. /\ DOMAIN mPendingSubscriptionRequests' = DOMAIN mPendingSubscriptionRequests \cup {c}
          /\ \A d \in DOMAIN mPendingSubscriptionRequests \cup {c} :
               mPendingSubscriptionRequests'[d] =
                 (IF d \in DOMAIN mPendingSubscriptionRequests
                    THEN mPendingSubscriptionRequests[d] ELSE {})
                   \cup (IF d = c THEN {at[c].s} ELSE {})
      BY <2>1, <2>3
    <3> QED BY <2>1, <2>3, <3>1
  <2> QED BY <2>2, <2>3
<1>4. CASE WaitForAll(c)
  BY <1>2, <1>4 DEF WaitForAll
<1>5. CASE StartLeave(c)
  BY <1>2, <1>5 DEF StartLeave
<1>6. CASE ~FileRequest(c) /\ ~WaitForAll(c) /\ ~StartLeave(c)
  <2>1. UNCHANGED pending /\ pc[c] # "request"
    BY <1>6
    DEF ContextStep, SubscribeStep, PollStep, LeaveStep, StartSubscribe, NextName,
        FindRequest, NextStream, Join, NoteJoined, Subscribe, CheckActive, NoteActive,
        ResetCount, FindQueue, TakePacket, PopPacket, EndWalk, TakeSize, Erase,
        ForgetActive, EndLeave
  <2>2. ~(pc[c] = "streams" /\ pc'[c] = "reset")
    BY <1>2, <1>6
    DEF ContextStep, SubscribeStep, PollStep, LeaveStep, StartSubscribe, NextName,
        FindRequest, NextStream, Join, NoteJoined, Subscribe, CheckActive, NoteActive,
        ResetCount, FindQueue, TakePacket, PopPacket, EndWalk, TakeSize, Erase,
        ForgetActive, EndLeave
  <2>3. ~(pc[c] = "polling" /\ pc'[c] = "leave")
    BY <1>2, <1>6
    DEF ContextStep, SubscribeStep, PollStep, LeaveStep, StartSubscribe, NextName,
        FindRequest, NextStream, Join, NoteJoined, Subscribe, CheckActive, NoteActive,
        ResetCount, FindQueue, TakePacket, PopPacket, EndWalk, TakeSize, Erase,
        ForgetActive, EndLeave
  <2> QED BY <2>1, <2>2, <2>3
<1> QED BY <1>3, <1>4, <1>5, <1>6

\* The publisher only takes requests away.
LEMMA PublisherRequests ==
    ASSUME TypeOK, Places, enqueuePacket
    PROVE  /\ DOMAIN mPendingSubscriptionRequests' =
                IF pc[P] = "drop" THEN DOMAIN mPendingSubscriptionRequests \ {at[P].c}
                ELSE DOMAIN mPendingSubscriptionRequests
           /\ \A c \in DOMAIN mPendingSubscriptionRequests' :
                mPendingSubscriptionRequests'[c] =
                  IF pc[P] = "fulfil" /\ c = at[P].c
                    THEN mPendingSubscriptionRequests[c] \ {at[P].s}
                  ELSE mPendingSubscriptionRequests[c]
<1> USE DEF maps, streams, pending
<1>1. CASE Fulfil
  BY <1>1 DEF Fulfil
<1>2. CASE DropRequest
  BY <1>2 DEF DropRequest
<1>3. CASE ~Fulfil /\ ~DropRequest
  <2>1. UNCHANGED mPendingSubscriptionRequests /\ pc[P] \notin {"fulfil", "drop"}
    BY <1>3 DEF enqueuePacket, FindStream, LockStream, FanOut, TrimQueue, PushPacket,
                UnlockStream, InsertStream, ScanAll, ScanRequests, Admit,
                NoteAdmitted, Subscribe, CheckActive, NoteActive, FindEmptyRequest
  <2> QED BY <2>1
<1> QED BY <1>1, <1>2, <1>3

\* The active subscriptions after a step of a context ...
LEMMA ContextActive ==
    ASSUME TypeOK, Places, NEW c \in Contexts, ContextStep(c), NEW d \in Contexts
    PROVE  mActiveSubscriptionsMap'[d] =
             IF d = c /\ pc[c] = "note"
               THEN (IF at[c].flag THEN mActiveSubscriptionsMap[c] ELSE {}) \cup {at[c].s}
             ELSE IF d = c /\ pc[c] = "forget" THEN {}
             ELSE mActiveSubscriptionsMap[d]
<1> USE DEF maps, streams, pending
<1>1. CASE NoteActive(c, c, NextWanted(c))
  BY <1>1 DEF NoteActive, TypeOK
<1>2. CASE ForgetActive(c)
  BY <1>2 DEF ForgetActive, TypeOK
<1>3. CASE ~NoteActive(c, c, NextWanted(c)) /\ ~ForgetActive(c)
  <2>1. UNCHANGED mActiveSubscriptionsMap /\ pc[c] \notin {"note", "forget"}
    BY <1>3 DEF ContextStep, SubscribeStep, PollStep, LeaveStep, StartSubscribe, NextName,
          FindRequest, FileRequest, NextStream, WaitForAll, Join, Subscribe, ResetCount,
          FindQueue, TakePacket, PopPacket, EndWalk, StartLeave, TakeSize, Erase, EndLeave,
          NoteJoined, CheckActive
  <2> QED BY <2>1
<1> QED BY <1>1, <1>2, <1>3

\* ... and of the publisher.
LEMMA PublisherActive ==
    ASSUME TypeOK, Places, enqueuePacket, NEW d \in Contexts
    PROVE  mActiveSubscriptionsMap'[d] =
             IF pc[P] = "note" /\ d = at[P].c
               THEN (IF at[P].flag THEN mActiveSubscriptionsMap[d] ELSE {}) \cup {at[P].s}
             ELSE mActiveSubscriptionsMap[d]
<1> USE DEF maps, streams, pending
<1>1. CASE NoteActive(P, at[P].c, AfterAdmission)
  BY <1>1 DEF NoteActive, TypeOK
<1>2. CASE ~NoteActive(P, at[P].c, AfterAdmission)
  <2>1. UNCHANGED mActiveSubscriptionsMap /\ pc[P] # "note"
    BY <1>2 DEF enqueuePacket, FindStream, LockStream, FanOut, TrimQueue, PushPacket,
                UnlockStream, InsertStream, ScanAll, ScanRequests, Admit,
                NoteAdmitted, Subscribe, CheckActive, Fulfil, FindEmptyRequest,
                DropRequest
  <2> QED BY <2>1
<1> QED BY <1>1, <1>2

\* Where the publisher goes, and whom it finds.
LEMMA PublisherMoves ==
    ASSUME TypeOK, Places, enqueuePacket
    PROVE  LET filed == DOMAIN mPendingSubscriptionRequests
           IN  /\ pc[P] = "idle" => pc'[P] \in {"lock", "insert"}
               /\ pc[P] = "lock" => pc'[P] = "fanout"
               /\ pc[P] = "fanout" => pc'[P] \in {"trim", "push", "idle"}
               /\ pc[P] = "trim" => pc'[P] = "push"
               /\ pc[P] = "push" => pc'[P] = "fanout"
               /\ pc[P] = "insert" =>
                    /\ pc'[P] = "scan" /\ at'[P] = at[P]
                    /\ mStreamsMap' = mStreamsMap \cup {at[P].s}
               /\ pc[P] # "insert" => UNCHANGED mStreamsMap
               /\ pc[P] = "scan" =>
                    /\ at'[P].s = at[P].s /\ pc'[P] \in {"scan", "admit", "purge"}
                    /\ pc'[P] = "admit" /\ at[P].all =>
                         at'[P].c \in mPendingSubscribeToAllRequests
                    /\ pc'[P] = "admit" /\ ~at[P].all =>
                         /\ at'[P].c \in filed
                         /\ at[P].s \in mPendingSubscriptionRequests[at'[P].c]
               /\ pc[P] = "admit" =>
                    /\ pc'[P] = IF at[P].c \in DOMAIN mSubscribersMap[at[P].s]
                                THEN AfterAdmission ELSE "check"
                    /\ at'[P] = at[P]
               /\ pc[P] = "check" =>
                    /\ pc'[P] = "note" /\ at'[P].s = at[P].s /\ at'[P].c = at[P].c
                    /\ at'[P].all = at[P].all
                    /\ at'[P].flag <=> mActiveSubscriptionsMap[at[P].c] # {}
               /\ pc[P] = "note" =>
                    /\ pc'[P] = AfterAdmission /\ at'[P].s = at[P].s /\ at'[P].c = at[P].c
                    /\ at'[P].all = at[P].all
               /\ pc[P] = "fulfil" => pc'[P] = "scan" /\ at'[P] = at[P]
               /\ pc[P] = "purge" =>
                    /\ pc'[P] \in {"purge", "drop", "idle"}
                    /\ pc'[P] = "drop" =>
                         /\ at'[P].c \in filed /\ mPendingSubscriptionRequests[at'[P].c] = {}
                         /\ at'[P].s = at[P].s
               /\ pc[P] = "drop" =>
                    pc'[P] = "purge" /\ at'[P] = at[P] /\ ManagerIsFree
<1>1. P \in Threads /\ at[P] \in Locals
  BY ThreadsDiffer DEF TypeOK
<1>2. \A x : [at EXCEPT ![P] = x][P] = x
  BY <1>1 DEF TypeOK
<1>3. \A label : Goto(P, label) => pc'[P] = label
  BY <1>1 DEF Goto, TypeOK
<1>4. at[P].c \in Nat
  <2>1. at[P].c \in Contexts \cup {0}
    BY <1>1 DEF Locals
  <2> QED BY <2>1, KeysAreNumbers
<1>5. \A X \in SUBSET Contexts : Above(X, at[P].c) # {} => Min(Above(X, at[P].c)) \in X
  BY <1>4, NextKey, ThreadsDiffer
<1> USE DEF maps, streams, pending
<1>6. ASSUME NEW s \in Streams, FindStream(s)
      PROVE  pc[P] = "idle" /\ pc'[P] \in {"lock", "insert"} /\ UNCHANGED mStreamsMap
  BY <1>3, <1>6 DEF FindStream
<1>7. CASE LockStream \/ FanOut \/ TrimQueue \/ PushPacket \/ UnlockStream
  BY <1>3, <1>7 DEF LockStream, FanOut, TrimQueue, PushPacket, UnlockStream
<1>8. CASE InsertStream
  BY <1>3, <1>8 DEF InsertStream
<1>9. CASE ScanAll
  <2> DEFINE X == mPendingSubscribeToAllRequests
             c == Min(Above(X, at[P].c))
             k == [at[P] EXCEPT !.all = FALSE, !.c = 0]
  <2>1. Above(X, at[P].c) # {} => c \in X
    BY <1>5 DEF TypeOK
  <2>2. /\ UNCHANGED mStreamsMap /\ at[P].all /\ pc[P] = "scan"
        /\ \/ /\ Above(X, at[P].c) # {} /\ at' = [at EXCEPT ![P].c = c]
              /\ pc'[P] = "admit"
           \/ at' = [at EXCEPT ![P] = k] /\ pc'[P] = pc[P]
    BY <1>3, <1>9 DEF ScanAll
  <2>3. k.s = at[P].s
    BY <1>1 DEF Locals
  <2> HIDE DEF c, k
  <2>4. at' = [at EXCEPT ![P].c = c] => at'[P].c = c /\ at'[P].s = at[P].s
    BY <1>1 DEF Locals, TypeOK
  <2>5. at' = [at EXCEPT ![P] = k] => at'[P].s = at[P].s
    BY <1>2, <2>3
  <2> QED BY <2>1, <2>2, <2>4, <2>5
<1>10. CASE ScanRequests
  <2> DEFINE X == DOMAIN mPendingSubscriptionRequests
             c == Min(Above(X, at[P].c))
  <2>1. Above(X, at[P].c) # {} => c \in X
    BY <1>5 DEF TypeOK
  <2>2. /\ UNCHANGED mStreamsMap /\ ~at[P].all /\ pc[P] = "scan"
        /\ \/ /\ Above(X, at[P].c) # {} /\ at' = [at EXCEPT ![P].c = c]
              /\ pc'[P] = IF at[P].s \in mPendingSubscriptionRequests[c] THEN "admit" ELSE "scan"
           \/ at' = [at EXCEPT ![P].c = 0] /\ pc'[P] = "purge"
    BY <1>3, <1>10 DEF ScanRequests
  <2> HIDE DEF c
  <2>3. /\ at' = [at EXCEPT ![P].c = c] => at'[P].c = c /\ at'[P].s = at[P].s
        /\ at' = [at EXCEPT ![P].c = 0] => at'[P].s = at[P].s
    BY <1>1 DEF Locals, TypeOK
  <2> QED BY <2>1, <2>2, <2>3
<1>11. CASE Admit
  <2>1. /\ pc[P] = "admit" /\ UNCHANGED <<mStreamsMap, at>>
        /\ pc'[P] = IF at[P].c \in DOMAIN mSubscribersMap[at[P].s]
                    THEN AfterAdmission ELSE "check"
    BY <1>3, <1>11 DEF Admit, Subscribe, isSubscribed
  <2> QED BY <2>1
<1>12. CASE CheckActive(P, at[P].c)
  <2> DEFINE found == mActiveSubscriptionsMap[at[P].c] # {}
             l == [at[P] EXCEPT !.flag = found]
  <2>1. /\ at' = [at EXCEPT ![P].flag = found] /\ pc[P] = "check" /\ pc'[P] = "note"
        /\ UNCHANGED mStreamsMap
    BY <1>3, <1>12 DEF CheckActive
  <2>2. found \in BOOLEAN
    OBVIOUS
  <2> HIDE DEF found
  <2>3. /\ l.flag = found /\ l.s = at[P].s /\ l.c = at[P].c /\ l.all = at[P].all
        /\ at' = [at EXCEPT ![P] = l]
    BY <1>1, <2>1 DEF Locals
  <2> HIDE DEF l
  <2>4. /\ at'[P].flag = found /\ at'[P].s = at[P].s /\ at'[P].c = at[P].c
        /\ at'[P].all = at[P].all
    BY <1>2, <2>3
  <2> USE DEF found
  <2> QED BY <2>1, <2>4
<1>13. CASE NoteActive(P, at[P].c, AfterAdmission)
  <2>1. /\ pc[P] = "note" /\ pc'[P] = AfterAdmission /\ UNCHANGED mStreamsMap
        /\ at'[P].s = at[P].s /\ at'[P].c = at[P].c /\ at'[P].all = at[P].all
    BY <1>1, <1>3, <1>13 DEF NoteActive, Locals, TypeOK
  <2> QED BY <2>1
<1>14. CASE Fulfil \/ DropRequest
  BY <1>3, <1>14 DEF Fulfil, DropRequest
<1>15. CASE FindEmptyRequest
  <2> DEFINE X == DOMAIN mPendingSubscriptionRequests
             c == Min(Above(X, at[P].c))
  <2>1. Above(X, at[P].c) # {} => c \in X
    BY <1>5 DEF TypeOK
  <2>2. /\ UNCHANGED mStreamsMap /\ pc[P] = "purge"
        /\ \/ /\ Above(X, at[P].c) # {} /\ at' = [at EXCEPT ![P].c = c]
              /\ pc'[P] = IF mPendingSubscriptionRequests[c] = {} THEN "drop" ELSE "purge"
           \/ pc'[P] = "idle"
    BY <1>3, <1>15 DEF FindEmptyRequest
  <2> HIDE DEF c
  <2>3. at' = [at EXCEPT ![P].c = c] => at'[P].c = c /\ at'[P].s = at[P].s
    BY <1>1 DEF Locals, TypeOK
  <2> QED BY <2>1, <2>2, <2>3
<1> QED BY <1>6, <1>7, <1>8, <1>9, <1>10, <1>11, <1>12, <1>13, <1>14, <1>15
        DEF enqueuePacket, NoteAdmitted

-----------------------------------------------------------------------------
(***************************************************************************)
(* Who is on the streams and in the maps asked to be.                      *)
(***************************************************************************)
\* What is Requests of c, as long as c and the publisher stay where they are and
\* nothing is added.
LEMMA RequestsStay ==
    ASSUME NEW c \in Contexts,
           OnlyAsked(c), FiledRequests(c), WaitsForAll(c), AdmitsAsked(c),
           pc'[c] = pc[c], at'[c] = at[c], pc'[P] = pc[P], at'[P] = at[P],
           \A s \in Streams : c \in DOMAIN mSubscribersMap'[s] => c \in DOMAIN mSubscribersMap[s],
           TypeOK,
           c \in DOMAIN mPendingSubscriptionRequests' =>
             /\ c \in DOMAIN mPendingSubscriptionRequests
             /\ mPendingSubscriptionRequests'[c] \subseteq mPendingSubscriptionRequests[c],
           c \in mPendingSubscribeToAllRequests' => c \in mPendingSubscribeToAllRequests
    PROVE  OnlyAsked(c)' /\ FiledRequests(c)' /\ WaitsForAll(c)' /\ AdmitsAsked(c)'
<1>1. Handled(c)' = Handled(c) /\ Asked(c)' = Asked(c) /\ Admitting(c)' = Admitting(c)
  BY DEF Handled, Asked, Admitting
<1>2. OnlyAsked(c)'
  BY <1>1 DEF OnlyAsked
<1>3. FiledRequests(c)'
  <2>1. c \in DOMAIN mPendingSubscriptionRequests =>
          \A s \in mPendingSubscriptionRequests[c] : s \in Streams
    BY DEF TypeOK
  <2> QED BY <1>1, <2>1 DEF FiledRequests
<1>4. WaitsForAll(c)' /\ AdmitsAsked(c)'
  BY <1>1 DEF WaitsForAll, AdmitsAsked, Admitting
<1> QED BY <1>2, <1>3, <1>4

\* The publisher moves requests from pending to the streams, and loses none.
LEMMA PublisherKeepsRequests ==
    ASSUME TypeOK, Places, Requests, TypeOK', Places', enqueuePacket
    PROVE  Requests'
<1> SUFFICES ASSUME NEW c \in Contexts
             PROVE  OnlyAsked(c)' /\ FiledRequests(c)' /\ WaitsForAll(c)' /\ AdmitsAsked(c)'
  BY DEF Requests
<1>1. OnlyAsked(c) /\ FiledRequests(c) /\ WaitsForAll(c) /\ AdmitsAsked(c)
  BY DEF Requests
<1>2. /\ pc'[c] = pc[c] /\ at'[c] = at[c]
      /\ UNCHANGED mPendingSubscribeToAllRequests
  BY PublisherFrame, ThreadsDiffer DEF OthersStay
<1>3. Handled(c)' = Handled(c) /\ Asked(c)' = Asked(c)
  BY <1>2 DEF Handled, Asked
<1>4. \A s \in Streams : c \in DOMAIN mSubscribersMap'[s] =>
        \/ c \in DOMAIN mSubscribersMap[s]
        \/ /\ pc[P] = "admit" /\ at[P].s = s /\ at[P].c = c
           /\ c \notin DOMAIN mSubscribersMap[s]
  BY PublisherMembers
<1>5. /\ pc[P] \in {"admit", "check", "note", "fulfil"} => at[P].all = Request[at[P].c].all
      /\ pc[P] \notin {"idle"} => at[P].s \in Streams
      /\ c \in DOMAIN mPendingSubscriptionRequests => ~Request[c].all
      /\ c \in mPendingSubscribeToAllRequests => Request[c].all
  BY DEF Places, PublisherPlace, Kinds
<1>6. OnlyAsked(c)'
  <2>1. \A s \in Handled(c) : s \in Asked(c)
    BY DEF Asked
  <2> QED BY <1>1, <1>3, <1>4, <2>1 DEF OnlyAsked, AdmitsAsked
<1>7. FiledRequests(c)'
  <2> SUFFICES ASSUME c \in DOMAIN mPendingSubscriptionRequests',
                      NEW s \in mPendingSubscriptionRequests'[c]
               PROVE  /\ s \in Handled(c)'
                      /\ c \in DOMAIN mSubscribersMap'[s] => Admitting(c)' /\ at'[P].s = s
    <3>1. c \in DOMAIN mPendingSubscriptionRequests' => c \in DOMAIN mPendingSubscriptionRequests
      BY PublisherRequests
    <3> QED BY <1>1, <1>2, <3>1 DEF FiledRequests
  <2>1. /\ c \in DOMAIN mPendingSubscriptionRequests /\ s \in mPendingSubscriptionRequests[c]
        /\ ~(pc[P] = "fulfil" /\ c = at[P].c /\ s = at[P].s)
    BY PublisherRequests
  <2>2. s \in Streams /\ s \in Handled(c) /\ ~Request[c].all
    BY <1>1, <1>5, <2>1 DEF FiledRequests, TypeOK
  <2>3. ASSUME c \in DOMAIN mSubscribersMap'[s]
        PROVE  Admitting(c)' /\ at'[P].s = s
    <3>1. CASE /\ pc[P] = "admit" /\ at[P].s = s /\ at[P].c = c
               /\ c \notin DOMAIN mSubscribersMap[s]
      BY <3>1, PublisherMoves DEF Admitting
    <3>2. CASE c \in DOMAIN mSubscribersMap[s]
      <4>1. Admitting(c) /\ at[P].s = s /\ pc[P] # "fulfil"
        BY <1>1, <2>1, <3>2 DEF FiledRequests, Admitting
      <4>2. ~at[P].all
        BY <1>5, <2>2, <4>1 DEF Admitting
      <4> QED BY <4>1, <4>2, PublisherMoves DEF Admitting, AfterAdmission
    <3> QED BY <1>4, <2>2, <2>3, <3>1, <3>2
  <2> QED BY <1>3, <2>2, <2>3
<1>8. WaitsForAll(c)'
  BY <1>1, <1>2 DEF WaitsForAll
<1>9. AdmitsAsked(c)'
  <2>0. ASSUME pc'[P] = "drop", at'[P].c = c
        PROVE  pc'[c] # "new"
    <3>1. pc[P] = "purge"
      <4>1. pc[P] \in PublisherLabels
        BY DEF Places, PublisherPlace
      <4> QED BY <2>0, <4>1, PublisherMoves DEF PublisherLabels, AfterAdmission
    <3>2. c \in DOMAIN mPendingSubscriptionRequests
      BY <2>0, <3>1, PublisherMoves
    <3> QED BY <1>1, <1>2, <3>2 DEF FiledRequests
  <2> SUFFICES ASSUME pc'[P] \in {"admit", "check", "note", "fulfil"}, at'[P].c = c
               PROVE  at'[P].s \in Handled(c)
    BY <1>3, <2>0 DEF AdmitsAsked, Admitting
  <2>1. CASE pc'[P] = "admit"
    <3>1. pc[P] = "scan" /\ at'[P].s = at[P].s
      BY <2>1, PublisherMoves, PublisherPlaces DEF AfterAdmission, Places,
            PublisherPlace, PublisherLabels
    <3>2. CASE at[P].all
      <4>1. c \in mPendingSubscribeToAllRequests
        BY <2>1, <3>1, <3>2, PublisherMoves
      <4>2. pc[c] \in {"reset", "polling", "walk", "front", "pop"} /\ Request[c].all
        BY <1>1, <1>5, <4>1 DEF WaitsForAll
      <4>3. Handled(c) = Streams
        BY <4>2 DEF Handled, HandledAt, Names
      <4> QED BY <1>5, <3>1, <4>3
    <3>3. CASE ~at[P].all
      BY <1>1, <2>1, <3>1, <3>3, PublisherMoves DEF FiledRequests
    <3> QED BY <3>2, <3>3
  <2>2. CASE pc'[P] # "admit"
    <3>1. pc[P] \in {"admit", "check", "note"} /\ at'[P].s = at[P].s /\ at'[P].c = at[P].c
      <4>1. pc[P] \in PublisherLabels
        BY DEF Places, PublisherPlace
      <4> QED BY <2>2, <4>1, PublisherMoves DEF PublisherLabels
    <3> QED BY <1>1, <3>1 DEF AdmitsAsked, Admitting
  <2> QED BY <2>1, <2>2
<1> QED BY <1>6, <1>7, <1>8, <1>9

\* A context's steps record its requests.
LEMMA ContextKeepsRequests ==
    ASSUME TypeOK, Places, Requests, TypeOK', Places', NEW c \in Contexts, ContextStep(c)
    PROVE  Requests'
<1> USE DEF Requests
<1>1. pc'[P] = pc[P] /\ at'[P] = at[P] /\ UNCHANGED mStreamsMap
  BY PublisherStays, ContextFrame
<1>2. ASSUME NEW d \in Contexts \ {c}
      PROVE  OnlyAsked(d)' /\ FiledRequests(d)' /\ WaitsForAll(d)' /\ AdmitsAsked(d)'
  <2>1. pc'[d] = pc[d] /\ at'[d] = at[d]
    BY ContextFrame, ThreadsDiffer DEF OthersStay
  <2>2. ASSUME NEW s \in Streams, d \in DOMAIN mSubscribersMap'[s]
        PROVE  d \in DOMAIN mSubscribersMap[s]
    <3>1. \/ DOMAIN mSubscribersMap'[s] = DOMAIN mSubscribersMap[s] \cup {c}
          \/ DOMAIN mSubscribersMap'[s] = DOMAIN mSubscribersMap[s] \ {c}
          \/ DOMAIN mSubscribersMap'[s] = DOMAIN mSubscribersMap[s]
      BY ContextMembers
    <3> QED BY <2>2, <3>1
  <2>3. /\ d \in DOMAIN mPendingSubscriptionRequests' =>
             /\ d \in DOMAIN mPendingSubscriptionRequests
             /\ mPendingSubscriptionRequests'[d] \subseteq mPendingSubscriptionRequests[d]
        /\ d \in mPendingSubscribeToAllRequests' => d \in mPendingSubscribeToAllRequests
    BY ContextRequests
  <2> QED BY <1>1, <2>1, <2>2, <2>3, RequestsStay
<1>3. OnlyAsked(c) /\ FiledRequests(c) /\ WaitsForAll(c) /\ AdmitsAsked(c)
  OBVIOUS
<1>4. ContextPlace(c) /\ ContextPlace(c)'
  BY DEF Places
<1>5. \/ /\ pc[c] \notin {"note", "request"} /\ (pc[c] = "join" => pc'[c] = "check")
         /\ Handled(c)' = Handled(c)
      \/ /\ pc[c] \in {"join", "note", "request"} /\ pc'[c] \in {"names", "streams"}
         /\ Handled(c)' = Handled(c) \cup {at[c].s}
      \/ /\ pc[c] = "streams" /\ Handled(c) \subseteq Handled(c)'
  <2>1. NextStream(c) \/ WaitForAll(c) => pc[c] = "streams"
    BY DEF NextStream, WaitForAll
  <2> QED BY <1>4, <2>1, HandledSteps
<1>6. Handled(c) \subseteq Handled(c)'
  BY <1>5
<1>7. OnlyAsked(c)'
  <2> SUFFICES ASSUME NEW s \in Streams, c \in DOMAIN mSubscribersMap'[s]
               PROVE  s \in Asked(c)'
    BY DEF OnlyAsked
  <2>1. CASE c \in DOMAIN mSubscribersMap[s]
    <3>1. s \in Handled(c) \/ (pc[c] \in {"check", "note"} /\ s = at[c].s)
      BY <1>3, <2>1 DEF OnlyAsked, Asked
    <3>2. CASE s \in Handled(c)
      BY <1>6, <3>2 DEF Asked
    <3>3. CASE pc[c] = "check" /\ s = at[c].s
      BY <3>3, ContextMoves DEF Asked
    <3>4. CASE pc[c] = "note" /\ s = at[c].s
      BY <1>5, <3>4 DEF Asked
    <3> QED BY <3>1, <3>2, <3>3, <3>4
  <2>2. CASE c \notin DOMAIN mSubscribersMap[s]
    <3>1. pc[c] = "join" /\ at[c].s = s
      BY <2>2, ContextMembers
    <3>2. pc'[c] = "check" /\ at'[c] = at[c]
      BY <2>2, <3>1, ContextMoves
    <3> QED BY <3>1, <3>2 DEF Asked
  <2> QED BY <2>1, <2>2
<1>8. FiledRequests(c)'
  <2>1. CASE pc[c] = "request"
    <3>1. pc'[c] = "names" /\ Handled(c)' = Handled(c) \cup {at[c].s}
      BY <1>5, <2>1, ContextMoves
    <3>2. at[c].s \notin Handled(c) /\ Asked(c) = Handled(c)
      BY <1>4, <2>1, NotYetHandled DEF Asked
    <3>3. \A s \in Streams : DOMAIN mSubscribersMap'[s] = DOMAIN mSubscribersMap[s]
      BY <2>1, ContextMembers
    <3>4. at[c].s \in Streams
      <4>1. at[c].s \in Names(c) /\ Names(c) \subseteq Streams
        BY <1>4, <2>1, NotYetHandled, HandledAreNames
      <4> QED BY <4>1
    <3>5. c \notin DOMAIN mSubscribersMap[at[c].s]
      BY <1>3, <3>2, <3>4 DEF OnlyAsked
    <3>6. ASSUME c \in DOMAIN mPendingSubscriptionRequests',
                 NEW s \in mPendingSubscriptionRequests'[c]
          PROVE  s = at[c].s \/ (/\ c \in DOMAIN mPendingSubscriptionRequests
                                 /\ s \in mPendingSubscriptionRequests[c])
      BY <2>1, <3>6, ContextRequests
    <3>7. c \in DOMAIN mPendingSubscriptionRequests =>
            \A s \in mPendingSubscriptionRequests[c] : s \in Streams
      BY DEF TypeOK
    <3> QED BY <1>1, <1>3, <3>1, <3>3, <3>4, <3>5, <3>6, <3>7 DEF FiledRequests, Admitting
  <2>2. CASE pc[c] # "request" /\ c \in DOMAIN mPendingSubscriptionRequests'
    <3>1. /\ c \in DOMAIN mPendingSubscriptionRequests
          /\ mPendingSubscriptionRequests'[c] = mPendingSubscriptionRequests[c]
          /\ ~(pc[c] = "polling" /\ pc'[c] = "leave")
      BY <2>2, ContextRequests
    <3>2. pc'[c] \notin {"new", "leave", "erase", "forget", "gone"}
      <4>1. pc[c] \in ContextLabels /\ pc[c] \notin {"new", "leave", "erase", "forget", "gone"}
        BY <1>3, <1>4, <3>1 DEF FiledRequests, ContextPlace
      <4> QED BY <3>1, <4>1, ContextMoves DEF ContextLabels, NextWanted
    <3>3. ASSUME NEW s \in mPendingSubscriptionRequests[c]
          PROVE  /\ s \in Handled(c)'
                 /\ c \in DOMAIN mSubscribersMap'[s] => Admitting(c)' /\ at'[P].s = s
      <4>1. s \in Handled(c) /\ s \in Streams
        BY <1>3, <3>1 DEF FiledRequests, TypeOK
      <4>2. pc[c] = "join" => at[c].s # s
        BY <1>4, <4>1, NotYetHandled
      <4>3. c \in DOMAIN mSubscribersMap'[s] => c \in DOMAIN mSubscribersMap[s]
        BY <4>1, <4>2, ContextMembers
      <4> QED BY <1>1, <1>3, <1>6, <3>1, <4>1, <4>3 DEF FiledRequests, Admitting
    <3> QED BY <3>1, <3>2, <3>3 DEF FiledRequests
  <2>3. CASE c \notin DOMAIN mPendingSubscriptionRequests'
    BY <2>3 DEF FiledRequests
  <2> QED BY <2>1, <2>2, <2>3
<1>9. WaitsForAll(c)'
  <2> SUFFICES ASSUME c \in mPendingSubscribeToAllRequests'
               PROVE  pc'[c] \in {"reset", "polling", "walk", "front", "pop"}
    BY DEF WaitsForAll
  <2>1. \/ pc'[c] = "reset"
        \/ c \in mPendingSubscribeToAllRequests /\ ~(pc[c] = "polling" /\ pc'[c] = "leave")
    BY ContextRequests
  <2>2. c \in mPendingSubscribeToAllRequests => pc[c] \in {"reset", "polling", "walk", "front", "pop"}
    BY <1>3 DEF WaitsForAll
  <2> QED BY <2>1, <2>2, ContextMoves
<1>10. AdmitsAsked(c)'
  BY <1>1, <1>3, <1>6, ContextMoves DEF AdmitsAsked, Admitting
<1> QED BY <1>2, <1>7, <1>8, <1>9, <1>10

\* Each step keeps the requests where the threads' places say.
LEMMA NextRequests ==
    ASSUME TypeOK, Places, Requests, TypeOK', Places', [Next]_vars
    PROVE  Requests'
<1>1. CASE enqueuePacket
  BY <1>1, PublisherKeepsRequests
<1>2. CASE \E c \in Contexts : ContextStep(c)
  BY <1>2, ContextKeepsRequests
<1>3. CASE unsubscribeAll \/ getNumberOfSubscribers \/ UNCHANGED vars
  <2>1. pc'[P] = pc[P] /\ at'[P] = at[P]
    BY <1>3, PublisherStays DEF getNumberOfSubscribers, vars
  <2> SUFFICES ASSUME NEW c \in Contexts
               PROVE  OnlyAsked(c)' /\ FiledRequests(c)' /\ WaitsForAll(c)' /\ AdmitsAsked(c)'
    BY DEF Requests
  <2>2. pc'[c] = pc[c] /\ at'[c] = at[c]
    BY <1>3, StopperFrame, ThreadsDiffer DEF getNumberOfSubscribers, vars, OthersStay
  <2>3. \A s \in Streams : c \in DOMAIN mSubscribersMap'[s] => c \in DOMAIN mSubscribersMap[s]
    BY <1>3, StopperMembers DEF getNumberOfSubscribers, vars, maps, streams
  <2>4. /\ c \in DOMAIN mPendingSubscriptionRequests' =>
             /\ c \in DOMAIN mPendingSubscriptionRequests
             /\ mPendingSubscriptionRequests'[c] \subseteq mPendingSubscriptionRequests[c]
        /\ c \in mPendingSubscribeToAllRequests' => c \in mPendingSubscribeToAllRequests
    BY <1>3 DEF unsubscribeAll, StartPurge, ClearWaiting, WipeStream, EndPurge,
                getNumberOfSubscribers, vars, maps, pending, streams
  <2> QED BY <2>1, <2>2, <2>3, <2>4, RequestsStay DEF Requests
<1> QED BY <1>1, <1>2, <1>3, StepCases

-----------------------------------------------------------------------------
(***************************************************************************)
(* Who is present is counted.                                              *)
(***************************************************************************)
\* unsubscribeAll does not go back to its start; nobody else moves its thread.
LEMMA StopperIsIdle ==
    ASSUME TypeOK, [Next]_vars, pc'[S] = "idle"
    PROVE  pc[S] = "idle" /\ ~unsubscribeAll
<1>1. S \in Threads
  BY ThreadsDiffer
<1>2. CASE unsubscribeAll
  BY <1>1, <1>2 DEF unsubscribeAll, StartPurge, ClearWaiting, WipeStream, EndPurge, Goto, TypeOK
<1>3. CASE enqueuePacket
  BY <1>2, <1>3, PublisherFrame, ThreadsDiffer DEF OthersStay
<1>4. CASE \E c \in Contexts : ContextStep(c)
  BY <1>2, <1>4, ContextFrame, ThreadsDiffer DEF OthersStay
<1>5. CASE getNumberOfSubscribers \/ UNCHANGED vars
  BY <1>2, <1>5 DEF getNumberOfSubscribers, vars
<1> QED BY <1>2, <1>3, <1>4, <1>5, StepCases

\* The publisher notes each context it adds to a stream as active, ...
LEMMA PublisherKeepsRegistered ==
    ASSUME TypeOK, Places, Requests, pc[S] = "idle", Registered, Places', enqueuePacket
    PROVE  Registered'
<1> SUFFICES ASSUME NEW c \in Contexts
             PROVE  RegisteredAt(c)'
  BY DEF Registered
<1>1. RegisteredAt(c) /\ OnlyAsked(c) /\ FiledRequests(c)
  BY DEF Registered, Requests
<1>2. pc'[c] = pc[c] /\ at'[c] = at[c] /\ UNCHANGED mPendingSubscribeToAllRequests
  BY PublisherFrame, ThreadsDiffer DEF OthersStay
<1>3. /\ Handled(c)' = Handled(c) /\ Present(c)' = Present(c) /\ Polling(c)' = Polling(c)
  BY <1>2 DEF Handled, Present, Subscribing, Polling
<1>4. mActiveSubscriptionsMap[c] # {} => mActiveSubscriptionsMap'[c] # {}
  BY PublisherActive
<1>5. c \in DOMAIN mPendingSubscriptionRequests =>
        \/ c \in DOMAIN mPendingSubscriptionRequests'
        \/ pc[P] = "drop" /\ at[P].c = c
  BY PublisherRequests
<1>6. Present(c) /\ Enlisted(c) => Enlisted(c)'
  BY <1>1, <1>4, <1>5 DEF Enlisted, RegisteredAt
<1>7. /\ pc[P] \in PublisherLabels
      /\ pc[P] \in {"admit", "check", "note", "fulfil"} => at[P].all = Request[at[P].c].all
      /\ pc[P] = "admit" => at[P].s \in Streams
      /\ pc'[P] \in {"admit", "check", "note", "fulfil"} => at'[P].all = Request[at'[P].c].all
      /\ c \in mPendingSubscribeToAllRequests => Request[c].all
  BY DEF Places, PublisherPlace, Kinds
<1>8. /\ Request[c].all /\ (Polling(c) \/ pc[c] = "reset") =>
           c \in mPendingSubscribeToAllRequests
      /\ pc[c] = "request" => Present(c)
  BY <1>1 DEF RegisteredAt, Present, Subscribing
<1>9. ASSUME c \in DOMAIN mPendingSubscriptionRequests', mPendingSubscriptionRequests'[c] = {}
      PROVE  mActiveSubscriptionsMap'[c] # {}
  <2>1. /\ c \in DOMAIN mPendingSubscriptionRequests
        /\ mPendingSubscriptionRequests[c] = {} \/ (pc[P] = "fulfil" /\ at[P].c = c)
    BY <1>9, PublisherRequests
  <2>2. Present(c)
    <3>1. pc[c] \notin {"new", "leave", "erase", "forget", "gone"} /\ pc[c] \in ContextLabels
      BY <1>1, <2>1 DEF FiledRequests, Places, ContextPlace
    <3> QED BY <3>1 DEF ContextLabels, Present, Subscribing, Polling
  <2> QED BY <1>1, <1>4, <2>1, <2>2 DEF RegisteredAt
<1>10. ASSUME Present(c), pc'[P] \in {"fulfil", "drop"}, at'[P].c = c
       PROVE  mActiveSubscriptionsMap'[c] # {}
  <2>1. \/ /\ pc[P] = "admit" /\ at'[P] = at[P]
           /\ at[P].c \in DOMAIN mSubscribersMap[at[P].s]
        \/ pc[P] = "note" /\ at'[P].c = at[P].c
        \/ /\ pc[P] = "purge" /\ c \in DOMAIN mPendingSubscriptionRequests
           /\ mPendingSubscriptionRequests[c] = {}
    BY <1>7, <1>10, PublisherMoves DEF PublisherLabels, AfterAdmission
  <2>2. CASE pc[P] = "admit" /\ at'[P] = at[P] /\ at[P].c \in DOMAIN mSubscribersMap[at[P].s]
    <3>1. ~at[P].all
      BY <1>10, <2>2, PublisherMoves DEF AfterAdmission
    <3>2. ~Request[c].all
      BY <1>7, <1>10, <2>2, <3>1
    <3>3. /\ c \in DOMAIN mPendingSubscriptionRequests
          /\ at[P].s \in mPendingSubscriptionRequests[c]
      BY <1>1, <1>10, <2>2, <3>2 DEF RegisteredAt
    <3>4. Admitting(c)
      BY <1>1, <1>10, <2>2, <3>3 DEF FiledRequests
    <3> QED BY <2>2, <3>4 DEF Admitting
  <2>3. CASE pc[P] = "note" /\ at'[P].c = at[P].c
    BY <1>10, <2>3, PublisherActive
  <2>4. CASE /\ pc[P] = "purge" /\ c \in DOMAIN mPendingSubscriptionRequests
             /\ mPendingSubscriptionRequests[c] = {}
    BY <1>1, <1>4, <2>4 DEF RegisteredAt
  <2> QED BY <2>1, <2>2, <2>3, <2>4
<1>11. ASSUME pc'[P] = "admit", at'[P].c = c, ~Request[c].all
       PROVE  /\ c \in DOMAIN mPendingSubscriptionRequests'
              /\ at'[P].s \in mPendingSubscriptionRequests'[c]
  <2>1. pc[P] = "scan" /\ at'[P].s = at[P].s
    BY <1>7, <1>11, PublisherMoves DEF PublisherLabels, AfterAdmission
  <2>2. ~at[P].all
    BY <1>7, <1>11, <2>1, PublisherMoves
  <2>3. /\ c \in DOMAIN mPendingSubscriptionRequests
        /\ at[P].s \in mPendingSubscriptionRequests[c]
    BY <1>11, <2>1, <2>2, PublisherMoves
  <2> QED BY <2>1, <2>3, PublisherRequests
<1>12. pc[c] = "request" /\ at[c].flag => Enlisted(c)
  BY <1>1 DEF RegisteredAt
<1>13. Present(c) /\ ~Request[c].all /\ Handled(c) # {} => Enlisted(c)
  BY <1>1 DEF RegisteredAt
<1> HIDE DEF Handled, Present, Polling, Enlisted
<1> QED BY <1>2, <1>3, <1>6, <1>8, <1>9, <1>10, <1>11, <1>12, <1>13 DEF RegisteredAt

\* ... as a context does that adds itself.
LEMMA ContextKeepsRegistered ==
    ASSUME TypeOK, Places, Requests, pc[S] = "idle", Registered, TypeOK', Places',
           NEW c \in Contexts, ContextStep(c)
    PROVE  Registered'
<1>1. pc'[P] = pc[P] /\ at'[P] = at[P] /\ UNCHANGED mStreamsMap
  BY PublisherStays, ContextFrame
<1>2. ASSUME NEW d \in Contexts, d # c
      PROVE  RegisteredAt(d)'
  <2>1. pc'[d] = pc[d] /\ at'[d] = at[d]
    BY <1>2, ContextFrame, ThreadsDiffer DEF OthersStay
  <2>2. /\ Handled(d)' = Handled(d) /\ Present(d)' = Present(d) /\ Polling(d)' = Polling(d)
    BY <2>1 DEF Handled, Present, Subscribing, Polling
  <2>3. /\ d \in DOMAIN mPendingSubscriptionRequests' <=> d \in DOMAIN mPendingSubscriptionRequests
        /\ d \in DOMAIN mPendingSubscriptionRequests =>
             mPendingSubscriptionRequests'[d] = mPendingSubscriptionRequests[d]
        /\ d \in mPendingSubscribeToAllRequests => d \in mPendingSubscribeToAllRequests'
    BY <1>2, ContextRequests
  <2>4. mActiveSubscriptionsMap'[d] = mActiveSubscriptionsMap[d]
    BY <1>2, ContextActive
  <2>5. Enlisted(d)' <=> Enlisted(d)
    BY <2>3, <2>4 DEF Enlisted
  <2>6. RegisteredAt(d)
    BY DEF Registered
  <2> HIDE DEF Handled, Present, Polling, Enlisted
  <2> QED BY <1>1, <2>1, <2>2, <2>3, <2>4, <2>5, <2>6 DEF RegisteredAt
<1>3. /\ RegisteredAt(c) /\ OnlyAsked(c) /\ FiledRequests(c) /\ AdmitsAsked(c)
      /\ ContextPlace(c) /\ ContextPlace(c)'
  BY DEF Registered, Requests, Places
<1>4. pc[c] \in ContextLabels /\ pc'[c] \in ContextLabels
  BY <1>3 DEF ContextPlace
<1>5. Present(c)' => Present(c) \/ pc[c] = "new"
  BY <1>4, ContextMoves DEF ContextLabels, Present, Subscribing, Polling
<1>6. Present(c)' =>
        /\ pc[c] # "forget" /\ ~(pc[c] = "polling" /\ pc'[c] = "leave")
        /\ mActiveSubscriptionsMap[c] # {} => mActiveSubscriptionsMap'[c] # {}
        /\ c \in DOMAIN mPendingSubscriptionRequests =>
             /\ c \in DOMAIN mPendingSubscriptionRequests'
             /\ mPendingSubscriptionRequests[c] \subseteq mPendingSubscriptionRequests'[c]
  <2>1. Present(c)' => pc[c] # "forget" /\ ~(pc[c] = "polling" /\ pc'[c] = "leave")
    BY <1>5 DEF Present, Subscribing, Polling
  <2>2. pc[c] # "forget" /\ mActiveSubscriptionsMap[c] # {} => mActiveSubscriptionsMap'[c] # {}
    BY ContextActive
  <2>3. /\ ~(pc[c] = "polling" /\ pc'[c] = "leave")
        /\ c \in DOMAIN mPendingSubscriptionRequests
        => /\ c \in DOMAIN mPendingSubscriptionRequests'
           /\ mPendingSubscriptionRequests[c] \subseteq mPendingSubscriptionRequests'[c]
    <3>1. CASE pc[c] = "request"
      BY <3>1, ContextRequests
    <3>2. CASE pc[c] # "request"
      BY <3>2, ContextRequests
    <3> QED BY <3>1, <3>2
  <2> QED BY <2>1, <2>2, <2>3
<1>7. Present(c)' /\ Enlisted(c) => Enlisted(c)'
  BY <1>6 DEF Enlisted
<1>8. pc[c] = "new" => Handled(c) = {}
  BY DEF Handled, HandledAt
<1>9. ASSUME Request[c].all, Polling(c)' \/ pc'[c] = "reset"
      PROVE  c \in mPendingSubscribeToAllRequests'
  <2>1. ~(pc[c] = "polling" /\ pc'[c] = "leave")
    BY <1>9 DEF Polling
  <2>2. CASE pc[c] = "streams"
    <3>1. pc'[c] = "reset"
      BY <1>9, <2>2, ContextMoves DEF Polling
    <3> QED BY <2>2, <3>1, ContextRequests
  <2>3. CASE pc[c] # "streams"
    <3>1. Polling(c) \/ pc[c] = "reset"
      BY <1>3, <1>4, <1>9, <2>3, ContextMoves
      DEF ContextLabels, Polling, NextWanted, ContextPlace
    <3>2. c \in mPendingSubscribeToAllRequests
      BY <1>3, <1>9, <3>1 DEF RegisteredAt
    <3> QED BY <2>1, <2>3, <3>2, ContextRequests
  <2> QED BY <2>2, <2>3
<1>10. ASSUME Present(c)', ~Request[c].all, Handled(c)' # {}
       PROVE  Enlisted(c)'
  <2>1. CASE pc[c] = "note"
    BY <2>1, ContextActive DEF Enlisted
  <2>2. CASE pc[c] = "request"
    <3>1. c \in DOMAIN mPendingSubscriptionRequests' \/ at[c].flag
      BY <2>2, ContextRequests
    <3>2. at[c].flag => Enlisted(c)
      BY <1>3, <2>2 DEF RegisteredAt
    <3> QED BY <1>7, <1>10, <3>1, <3>2 DEF Enlisted
  <2>3. CASE pc[c] = "join" /\ pc'[c] # "check"
    <3>1. c \in DOMAIN mSubscribersMap[at[c].s]
      BY <2>3, ContextMoves
    <3>2. at[c].s \in Streams /\ at[c].s \notin Handled(c) /\ Asked(c) = Handled(c)
      BY <1>3, <2>3, NotYetHandled DEF Asked, ContextPlace, TypeOK
    <3> QED BY <1>3, <3>1, <3>2 DEF OnlyAsked
  <2>4. CASE pc[c] \notin {"note", "request"} /\ ~(pc[c] = "join" /\ pc'[c] # "check")
    <3>1. ~NextStream(c) /\ ~WaitForAll(c)
      BY <1>3, <1>10 DEF NextStream, WaitForAll, ContextPlace
    <3>2. Handled(c)' = Handled(c)
      BY <1>3, <2>4, <3>1, HandledSteps
    <3>3. Present(c)
      BY <1>5, <1>8, <1>10, <3>2
    <3>4. Enlisted(c)
      BY <1>3, <1>10, <3>2, <3>3 DEF RegisteredAt
    <3> QED BY <1>7, <1>10, <3>4
  <2> QED BY <2>1, <2>2, <2>3, <2>4
<1>11. ASSUME pc'[c] = "request", at'[c].flag
       PROVE  Enlisted(c)'
  <2>1. pc[c] = "file"
    BY <1>4, <1>11, ContextMoves DEF ContextLabels, NextWanted
  <2>2. c \in DOMAIN mPendingSubscriptionRequests
    BY <1>11, <2>1, ContextMoves
  <2>3. Present(c)'
    BY <1>11 DEF Present, Subscribing
  <2> QED BY <1>7, <2>2, <2>3 DEF Enlisted
<1>12. ASSUME c \in DOMAIN mPendingSubscriptionRequests', mPendingSubscriptionRequests'[c] = {}
       PROVE  mActiveSubscriptionsMap'[c] # {}
  <2>1. pc[c] # "request"
    BY <1>12, ContextRequests
  <2>2. c \in DOMAIN mPendingSubscriptionRequests /\ mPendingSubscriptionRequests[c] = {}
    BY <1>12, <2>1, ContextRequests
  <2>3. mActiveSubscriptionsMap[c] # {} /\ pc[c] # "forget"
    BY <1>3, <2>2 DEF RegisteredAt, FiledRequests
  <2> QED BY <2>3, ContextActive
<1>13. ASSUME Present(c)', pc[P] \in {"fulfil", "drop"}, at[P].c = c
       PROVE  mActiveSubscriptionsMap'[c] # {}
  <2>1. pc[c] # "new"
    BY <1>3, <1>8, <1>13 DEF AdmitsAsked, Admitting
  <2> QED BY <1>3, <1>5, <1>6, <1>13, <2>1 DEF RegisteredAt
<1>14. ASSUME Present(c)', pc[P] = "admit", at[P].c = c, ~Request[c].all
       PROVE  /\ c \in DOMAIN mPendingSubscriptionRequests'
              /\ at[P].s \in mPendingSubscriptionRequests'[c]
  <2>1. pc[c] # "new"
    BY <1>3, <1>8, <1>14 DEF AdmitsAsked, Admitting
  <2>2. /\ c \in DOMAIN mPendingSubscriptionRequests
        /\ at[P].s \in mPendingSubscriptionRequests[c]
    BY <1>3, <1>5, <1>14, <2>1 DEF RegisteredAt
  <2> QED BY <1>6, <1>14, <2>2
<1>15. RegisteredAt(c)'
  <2> HIDE DEF Handled, Present, Polling, Enlisted
  <2> QED BY <1>1, <1>9, <1>10, <1>11, <1>12, <1>13, <1>14 DEF RegisteredAt
<1> QED BY <1>2, <1>15 DEF Registered

\* Each step keeps subscribers registered, unless all are being purged.
LEMMA NextRegistered ==
    ASSUME TypeOK, Places, Requests, Registered, TypeOK', Places', [Next]_vars
    PROVE  Registered'
<1> SUFFICES ASSUME pc'[S] = "idle"
             PROVE  Registered'
  BY DEF Registered
<1>1. pc[S] = "idle" /\ ~unsubscribeAll
  BY StopperIsIdle
<1>2. CASE enqueuePacket
  BY <1>1, <1>2, PublisherKeepsRegistered
<1>3. CASE \E c \in Contexts : ContextStep(c)
  BY <1>1, <1>3, ContextKeepsRegistered
<1>4. CASE getNumberOfSubscribers \/ UNCHANGED vars
  BY <1>4 DEF getNumberOfSubscribers, vars, maps, streams, pending, Registered, RegisteredAt,
       Enlisted, Present, Polling, Subscribing, Handled
<1> QED BY <1>1, <1>2, <1>3, <1>4, StepCases

\* The cached count is marked stale by whoever starts polling.
LEMMA ContextCount ==
    ASSUME TypeOK, NEW c \in Contexts, ContextStep(c)
    PROVE  /\ mNumberOfSubscribers' \in {mNumberOfSubscribers, -1}
           /\ pc[c] = "reset" => mNumberOfSubscribers' = -1
<1> USE DEF maps, streams, pending
<1>1. CASE ResetCount(c, "reset", "polling") \/ EndLeave(c)
  BY <1>1 DEF EndLeave, ResetCount
<1>2. CASE ~ResetCount(c, "reset", "polling") /\ ~EndLeave(c)
  BY <1>2 DEF ContextStep, SubscribeStep, PollStep, LeaveStep, StartSubscribe, NextName,
       FindRequest, FileRequest, NextStream, WaitForAll, Join, Subscribe, NoteJoined,
       CheckActive, NoteActive, FindQueue, TakePacket, PopPacket, EndWalk, StartLeave,
       TakeSize, Erase, ForgetActive
<1> QED BY <1>1, <1>2

\* Who polls is in one of the maps that are counted.
LEMMA PollingAreCounted ==
    ASSUME TypeOK, Places, pc[S] = "idle", Registered, NEW c \in Contexts, Polling(c)
    PROVE  c \in AllSubscribers
<1>1. RegisteredAt(c)
  BY DEF Registered
<1>2. CASE Request[c].all
  BY <1>1, <1>2 DEF RegisteredAt, AllSubscribers
<1>3. CASE ~Request[c].all
  <2>1. Handled(c) = Range(Request[c].names)
    BY <1>3 DEF Handled, HandledAt, Polling, Names
  <2>2. Request[c].names \in Seq(Streams) /\ Request[c].names # <<>>
    BY <1>3, RequestAssumption
  <2>3. 1 \in DOMAIN Request[c].names
    BY <2>2
  <2>4. Handled(c) # {}
    BY <2>1, <2>3 DEF Range
  <2>5. Enlisted(c)
    BY <1>1, <1>3, <2>4 DEF RegisteredAt, Present
  <2> QED BY <2>5 DEF Enlisted, AllSubscribers
<1> QED BY <1>2, <1>3

\* Each step keeps the cached count no less than the contexts that poll.
LEMMA NextCount ==
    ASSUME TypeOK, Places, Registered, CountCoversPolling, TypeOK', [Next]_vars
    PROVE  CountCoversPolling'
<1> DEFINE X == {c \in Contexts : Polling(c)}
           Y == {c \in Contexts : Polling(c)'}
<1> SUFFICES ASSUME mNumberOfSubscribers' # -1, pc'[S] = "idle"
             PROVE  mNumberOfSubscribers' >= Cardinality(Y)
  BY DEF CountCoversPolling
<1>1. pc[S] = "idle" /\ ~unsubscribeAll
  BY StopperIsIdle
<1>2. mNumberOfSubscribers # -1 => mNumberOfSubscribers >= Cardinality(X)
  BY <1>1 DEF CountCoversPolling
<1>3. /\ IsFiniteSet(X) /\ Cardinality(X) \in Nat
      /\ \A Z \in SUBSET X : IsFiniteSet(Z) /\ Cardinality(Z) \in Nat
                             /\ Cardinality(Z) <= Cardinality(X)
  <2>1. X \subseteq Contexts /\ IsFiniteSet(Contexts)
    BY OrderAssumption
  <2>2. IsFiniteSet(X)
    BY <2>1, FS_Subset
  <2> HIDE DEF X
  <2> QED BY <2>2, FS_Subset, FS_CardinalityType
<1>4. mNumberOfSubscribers' \in Int
  <2>1. Cardinality(Contexts) \in Nat
    BY OrderAssumption, FS_CardinalityType
  <2> QED BY <2>1 DEF TypeOK
<1>5. ASSUME Y \subseteq X, mNumberOfSubscribers' = mNumberOfSubscribers
      PROVE  mNumberOfSubscribers' >= Cardinality(Y)
  <2>1. Cardinality(Y) \in Nat /\ Cardinality(Y) <= Cardinality(X)
    BY <1>3, <1>5
  <2> HIDE DEF X, Y
  <2> QED BY <1>2, <1>3, <1>4, <1>5, <2>1
<1>6. CASE enqueuePacket
  <2>1. UNCHANGED mNumberOfSubscribers
    BY <1>6, PublisherFrame
  <2>2. \A c \in Contexts : pc'[c] = pc[c]
    BY <1>6, PublisherFrame, ThreadsDiffer DEF OthersStay
  <2> QED BY <1>5, <2>1, <2>2 DEF Polling
<1>7. ASSUME NEW c \in Contexts, ContextStep(c)
      PROVE  mNumberOfSubscribers' >= Cardinality(Y)
  <2>1. mNumberOfSubscribers' = mNumberOfSubscribers /\ pc[c] # "reset"
    BY <1>7, ContextCount
  <2>2. \A d \in Contexts \ {c} : pc'[d] = pc[d]
    BY <1>7, ContextFrame, ThreadsDiffer DEF OthersStay
  <2>3. Polling(c)' => Polling(c)
    <3>1. pc[c] \in ContextLabels
      BY DEF Places, ContextPlace
    <3> QED BY <1>7, <2>1, <3>1, ContextMoves DEF Polling, ContextLabels, NextWanted
  <2>4. Y \subseteq X
    BY <2>2, <2>3 DEF Polling
  <2> QED BY <1>5, <2>1, <2>4
<1>8. CASE getNumberOfSubscribers
  <2>1. UNCHANGED pc /\ mNumberOfSubscribers' = Cardinality(AllSubscribers)
    BY <1>8 DEF getNumberOfSubscribers
  <2>2. Y = X
    BY <2>1 DEF Polling
  <2>3. AllSubscribers \subseteq Contexts /\ X \subseteq AllSubscribers
    BY <1>1, PollingAreCounted DEF AllSubscribers, TypeOK
  <2>4. IsFiniteSet(AllSubscribers)
    BY <2>3, OrderAssumption, FS_Subset
  <2> HIDE DEF X, Y
  <2>5. Cardinality(X) <= Cardinality(AllSubscribers)
    BY <2>3, <2>4, FS_Subset
  <2>6. Cardinality(AllSubscribers) \in Nat
    BY <2>4, FS_CardinalityType
  <2> QED BY <1>3, <2>1, <2>2, <2>5, <2>6
<1>9. CASE UNCHANGED vars
  BY <1>5, <1>9 DEF vars, maps, Polling
<1> QED BY <1>1, <1>6, <1>7, <1>8, <1>9, StepCases

-----------------------------------------------------------------------------
(***************************************************************************)
(* Undisturbed contexts are served.                                        *)
(***************************************************************************)
\* What is recorded of c once it is undisturbed: nothing disturbs it, and nothing
\* did, unless it has just begun to leave.
LEMMA Undisturbed ==
    ASSUME TypeOK, RecordDisturbance, NEW c \in Contexts, ~disturbed'[c]
    PROVE  ~Disturbs(c)' /\ (~disturbed[c] \/ (pc[c] = "polling" /\ pc'[c] = "leave"))
<1>1. disturbed'[c] = \/ disturbed[c] /\ ~(pc[c] = "polling" /\ pc'[c] = "leave")
                      \/ Disturbs(c)'
  BY DEF RecordDisturbance
<1> HIDE DEF Disturbs
<1> QED BY <1>1

\* A disturbance is recorded when it happens.
LEMMA NextRecorded ==
    ASSUME Recorded, [Next]_vars
    PROVE  Recorded'
<1>1. CASE RecordDisturbance
  <2> HIDE DEF Disturbs
  <2> QED BY <1>1 DEF RecordDisturbance, Recorded
<1>2. CASE UNCHANGED vars
  BY <1>2 DEF vars, Recorded, Disturbs, Subscribing, Leaving, Creating
<1> QED BY <1>1, <1>2, StepCases

\* What is ServedAt of c, as long as nothing that concerns it changes.
LEMMA ServedStays ==
    ASSUME NEW c \in Contexts, ServedAt(c), TypeOK, ContextPlace(c),
           pc'[c] = pc[c], at'[c] = at[c], pc'[P] = pc[P], at'[P] = at[P],
           UNCHANGED mStreamsMap,
           \A s \in Streams : c \in DOMAIN mSubscribersMap'[s] <=> c \in DOMAIN mSubscribersMap[s],
           mActiveSubscriptionsMap'[c] = mActiveSubscriptionsMap[c],
           c \in DOMAIN mPendingSubscriptionRequests' <=>
             c \in DOMAIN mPendingSubscriptionRequests,
           c \in DOMAIN mPendingSubscriptionRequests =>
             mPendingSubscriptionRequests'[c] = mPendingSubscriptionRequests[c],
           pc[P] \in {"check", "note"} => at[P].s \in Streams
    PROVE  ServedAt(c)'
<1>1. /\ Handled(c)' = Handled(c) /\ Present(c)' = Present(c) /\ Polling(c)' = Polling(c)
      /\ Unadmitted(c)' = Unadmitted(c)
  BY DEF Handled, Present, Polling, Subscribing, Unadmitted
<1>2. Handled(c) \subseteq Streams /\ mStreamsMap \subseteq Streams
  BY HandledAreNames DEF TypeOK
<1>3. ASSUME NEW s \in Streams
      PROVE  /\ OnStream(c, s)' <=> OnStream(c, s)
             /\ Awaited(c, s)' <=> Awaited(c, s)
             /\ Coming(c, s)' <=> Coming(c, s)
  BY <1>1 DEF OnStream, Awaited, Coming
<1>4. pc[c] \in {"check", "note"} => at[c].s \in Streams
  BY <1>2 DEF ContextPlace
<1> HIDE DEF Handled, Present, Polling, OnStream, Awaited, Coming
<1>5. Present(c)' => \A s \in Handled(c)' :
         /\ s \in mStreamsMap' => OnStream(c, s)' \/ (Polling(c)' /\ Coming(c, s)')
         /\ s \notin mStreamsMap' => Request[c].all \/ Awaited(c, s)'
  BY <1>1, <1>2, <1>3 DEF ServedAt
<1> QED BY <1>1, <1>4, <1>5 DEF ServedAt

\* The streams a call has come past are streams.
LEMMA HandledAreStreams ==
    ASSUME NEW c \in Contexts, NEW label, NEW l
    PROVE  HandledAt(c, label, l) \subseteq Streams
<1>1. Request[c].names \in Seq(Streams)
  BY RequestAssumption
<1>2. Names(c) \subseteq Streams
  BY <1>1 DEF Names, Range
<1> QED BY <1>2 DEF HandledAt

\* A context's own call, undisturbed, leaves it subscribed to what it has come
\* past.
LEMMA ContextServesItself ==
    ASSUME TypeOK, Places, StreamsAreCreated, Requests, pc[S] = "idle", TypeOK', Places',
           NEW c \in Contexts, ServedAt(c), ContextStep(c),
           Subscribing(c) => ~Creating
    PROVE  ServedAt(c)'
<1>1. pc'[P] = pc[P] /\ at'[P] = at[P] /\ UNCHANGED mStreamsMap
  BY PublisherStays, ContextFrame
<1>2. /\ ContextPlace(c) /\ ContextPlace(c)' /\ pc[c] \in ContextLabels
      /\ OnlyAsked(c) /\ mStreamsMap \subseteq Streams
  BY DEF Places, ContextPlace, Requests, TypeOK
<1>3. Handled(c) \subseteq Streams /\ Handled(c)' \subseteq Streams
  BY HandledAreStreams DEF Handled
<1>4. CASE pc[c] = "new"
  <2>1. pc'[c] \in {"streams", "names"}
    BY <1>4, ContextMoves DEF NextWanted
  <2>2. Handled(c)' = Handled(c) /\ Handled(c) = {}
    <3>1. ~NextStream(c) /\ ~WaitForAll(c)
      BY <1>4 DEF NextStream, WaitForAll
    <3>2. Handled(c)' = Handled(c)
      BY <1>2, <1>4, <3>1, HandledSteps
    <3> QED BY <1>4, <3>2 DEF Handled, HandledAt
  <2> QED BY <2>1, <2>2 DEF ServedAt, Polling
<1>5. CASE Subscribing(c)
  <2>1. /\ pc[P] \notin {"scan", "admit", "check", "note", "fulfil", "purge", "drop"}
        /\ ~Polling(c) /\ Present(c)
    BY <1>5 DEF Creating, Polling, Subscribing, Present
  <2>2. ASSUME NEW s \in Handled(c)
        PROVE  /\ s \in mStreamsMap => OnStream(c, s)
               /\ s \notin mStreamsMap => Request[c].all \/ Awaited(c, s)
    BY <2>1 DEF ServedAt
  <2>3. mActiveSubscriptionsMap[c] \subseteq mActiveSubscriptionsMap'[c]
    <3>1. pc[c] = "note" => (at[c].flag <=> mActiveSubscriptionsMap[c] # {})
      BY DEF ServedAt
    <3>2. pc[c] # "forget"
      BY <1>5 DEF Subscribing
    <3> QED BY <3>1, <3>2, ContextActive
  <2>4. ASSUME NEW s \in Streams, c \in DOMAIN mSubscribersMap[s]
        PROVE  c \in DOMAIN mSubscribersMap'[s]
    BY <1>5, <2>4, ContextMembers DEF Subscribing
  <2>5. ASSUME NEW s, Awaited(c, s)
        PROVE  Awaited(c, s)'
    <3>1. pc[c] # "polling"
      BY <1>5 DEF Subscribing
    <3>2. CASE pc[c] = "request"
      BY <2>5, <3>2, ContextRequests DEF Awaited
    <3>3. CASE pc[c] # "request"
      BY <2>5, <3>1, <3>3, ContextRequests DEF Awaited
    <3> QED BY <3>2, <3>3
  <2>6. ASSUME NEW s \in Handled(c)
        PROVE  /\ s \in mStreamsMap => OnStream(c, s)'
               /\ s \notin mStreamsMap => Request[c].all \/ Awaited(c, s)'
    <3>1. s \in Streams
      BY <1>3
    <3> QED BY <2>2, <2>3, <2>4, <2>5, <3>1 DEF OnStream
  <2>7. ASSUME NEW s \in Handled(c)'
        PROVE  /\ s \in mStreamsMap => OnStream(c, s)'
               /\ s \notin mStreamsMap => Request[c].all \/ Awaited(c, s)'
    <3>1. CASE s \in Handled(c)
      BY <2>6, <3>1
    <3>2. CASE s \notin Handled(c)
      <4>1. CASE pc[c] = "note" /\ s = at[c].s
        <5>1. c \in DOMAIN mSubscribersMap[s] /\ s \in mStreamsMap
          BY <1>2, <4>1 DEF ServedAt, ContextPlace
        <5>2. s \in mActiveSubscriptionsMap'[c]
          BY <4>1, ContextActive
        <5> QED BY <1>2, <2>4, <5>1, <5>2 DEF OnStream
      <4>2. CASE pc[c] = "request" /\ s = at[c].s
        <5>1. s \notin mStreamsMap /\ (at[c].flag <=> c \in DOMAIN mPendingSubscriptionRequests)
          BY <4>2 DEF ServedAt
        <5> QED BY <4>2, <5>1, ContextRequests DEF Awaited
      <4>3. CASE pc[c] = "join" /\ s = at[c].s /\ pc'[c] # "check"
        <5>1. c \in DOMAIN mSubscribersMap[s]
          BY <4>3, ContextMoves
        <5>2. s \in Streams /\ Asked(c) = Handled(c)
          BY <1>3, <4>3 DEF Asked
        <5> QED BY <1>2, <3>2, <5>1, <5>2 DEF OnlyAsked
      <4>4. CASE Request[c].all /\ s \notin mStreamsMap
        BY <4>4
      <4>5. \/ pc[c] \in {"note", "request"} /\ s = at[c].s
            \/ pc[c] = "join" /\ s = at[c].s /\ pc'[c] # "check"
            \/ Request[c].all /\ s \notin mStreamsMap
        BY <1>2, <3>2, HandledSteps
      <4> QED BY <4>1, <4>2, <4>3, <4>4, <4>5
    <3> QED BY <3>1, <3>2
  <2>8. pc'[c] \in {"check", "note"} => c \in DOMAIN mSubscribersMap'[at'[c].s]
    <3>1. CASE pc'[c] = "check"
      <4>1. pc[c] = "join" /\ at'[c] = at[c] /\ at[c].s \in Streams
        <5>1. pc[c] = "join" /\ at'[c] = at[c]
          BY <1>2, <1>5, <3>1, ContextMoves DEF Subscribing, NextWanted
        <5> QED BY <1>2, <5>1 DEF ContextPlace
      <4> QED BY <4>1, ContextMembers
    <3>2. CASE pc'[c] = "note"
      <4>1. pc[c] = "check" /\ at'[c].s = at[c].s /\ at[c].s \in Streams
        <5>1. pc[c] = "check" /\ at'[c].s = at[c].s
          BY <1>2, <1>5, <3>2, ContextMoves DEF Subscribing, NextWanted
        <5> QED BY <1>2, <5>1 DEF ContextPlace
      <4>2. c \in DOMAIN mSubscribersMap[at[c].s]
        BY <4>1 DEF ServedAt
      <4> QED BY <2>4, <4>1, <4>2
    <3> QED BY <3>1, <3>2
  <2>9. pc'[c] = "note" => (at'[c].flag <=> mActiveSubscriptionsMap'[c] # {})
    <3> HAVE pc'[c] = "note"
    <3>1. pc[c] = "check"
      BY <1>2, <1>5, ContextMoves DEF Subscribing, NextWanted
    <3>2. mActiveSubscriptionsMap'[c] = mActiveSubscriptionsMap[c]
      BY <3>1, ContextActive
    <3> QED BY <3>1, <3>2, ContextMoves
  <2>10. /\ pc'[c] \in {"file", "request"} => at'[c].s \notin mStreamsMap
         /\ pc'[c] = "request" => (at'[c].flag <=> c \in DOMAIN mPendingSubscriptionRequests')
    <3>1. CASE pc'[c] = "file"
      <4>1. pc[c] = "names"
        BY <1>2, <1>5, <3>1, ContextMoves DEF Subscribing, NextWanted
      <4> QED BY <3>1, <4>1, ContextMoves
    <3>2. CASE pc'[c] = "request"
      <4>1. pc[c] = "file"
        BY <1>2, <1>5, <3>2, ContextMoves DEF Subscribing, NextWanted
      <4>2. at[c].s \notin mStreamsMap
        BY <4>1 DEF ServedAt
      <4>3. /\ at'[c].s = at[c].s
            /\ at'[c].flag <=> c \in DOMAIN mPendingSubscriptionRequests
        BY <4>1, ContextMoves
      <4>4. c \in DOMAIN mPendingSubscriptionRequests' <=> c \in DOMAIN mPendingSubscriptionRequests
        BY <4>1, ContextRequests
      <4> QED BY <4>2, <4>3, <4>4
    <3> QED BY <3>1, <3>2
  <2> HIDE DEF OnStream, Awaited, Present, Polling, Handled
  <2> QED BY <1>1, <2>1, <2>7, <2>8, <2>9, <2>10 DEF ServedAt
<1>6. CASE Polling(c)
  <2>1. pc'[c] \in {"polling", "walk", "front", "pop", "leave"}
    BY <1>6, ContextMoves DEF Polling
  <2>2. CASE pc'[c] = "leave"
    BY <2>2 DEF ServedAt, Present, Subscribing, Polling
  <2>3. CASE pc'[c] # "leave"
    <3>1. Polling(c)' /\ Handled(c)' = Handled(c) /\ Present(c)
      BY <1>6, <2>1, <2>3 DEF Polling, Handled, HandledAt, Present
    <3>2. ASSUME NEW s \in Streams
          PROVE  c \in DOMAIN mSubscribersMap'[s] <=> c \in DOMAIN mSubscribersMap[s]
      BY <1>6, ContextMembers DEF Polling
    <3>3. mActiveSubscriptionsMap'[c] = mActiveSubscriptionsMap[c]
      BY <1>6, ContextActive DEF Polling
    <3>4. /\ c \in DOMAIN mPendingSubscriptionRequests' <=>
               c \in DOMAIN mPendingSubscriptionRequests
          /\ c \in DOMAIN mPendingSubscriptionRequests =>
               mPendingSubscriptionRequests'[c] = mPendingSubscriptionRequests[c]
      BY <1>6, <2>3, ContextRequests DEF Polling
    <3>5. ASSUME NEW s \in Streams
          PROVE  /\ OnStream(c, s)' <=> OnStream(c, s)
                 /\ Awaited(c, s)' <=> Awaited(c, s)
                 /\ Coming(c, s)' <=> Coming(c, s)
      BY <1>1, <3>2, <3>3, <3>4 DEF OnStream, Awaited, Coming, Unadmitted
    <3>6. ASSUME NEW s \in Handled(c)'
          PROVE  /\ s \in mStreamsMap' => OnStream(c, s)' \/ Coming(c, s)'
                 /\ s \notin mStreamsMap' => Request[c].all \/ Awaited(c, s)'
      <4>1. s \in Handled(c) /\ s \in Streams
        BY <1>3, <3>1
      <4>2. /\ s \in mStreamsMap => OnStream(c, s) \/ Coming(c, s)
            /\ s \notin mStreamsMap => Request[c].all \/ Awaited(c, s)
        BY <3>1, <4>1 DEF ServedAt
      <4> QED BY <1>1, <3>5, <4>1, <4>2
    <3>7. pc'[c] \notin {"check", "note", "file", "request"}
      BY <2>1
    <3>8. at[P].c = c =>
            /\ pc[P] \in {"check", "note"} => c \in DOMAIN mSubscribersMap'[at[P].s]
            /\ pc[P] = "note" => (at[P].flag <=> mActiveSubscriptionsMap[c] # {})
            /\ pc[P] = "drop" => Names(c) \subseteq mStreamsMap
      <4>1. pc[P] \in {"check", "note"} => at[P].s \in Streams
        BY DEF Places, PublisherPlace
      <4> QED BY <1>6, <3>2, <4>1 DEF ServedAt
    <3> HIDE DEF OnStream, Awaited, Present, Polling, Handled, Coming
    <3> QED BY <1>1, <3>1, <3>3, <3>6, <3>7, <3>8 DEF ServedAt
  <2> QED BY <2>1, <2>2, <2>3
<1>7. CASE pc[c] \in {"leave", "erase", "forget", "gone"}
  <2>1. pc'[c] \in {"leave", "erase", "forget", "gone"}
    BY <1>7, ContextMoves
  <2> QED BY <2>1 DEF ServedAt, Present, Subscribing, Polling
<1> QED BY <1>2, <1>4, <1>5, <1>6, <1>7 DEF ContextLabels, Subscribing, Polling

\* enqueuePacket passes over nobody who waits for the stream it creates.
LEMMA UnadmittedAfter ==
    ASSUME TypeOK, Places, enqueuePacket, NEW c \in Contexts, Unadmitted(c),
           Request[c].all => c \in mPendingSubscribeToAllRequests,
           ~Request[c].all => Awaited(c, at[P].s),
           ~(pc[P] = "admit" /\ at[P].c = c)
    PROVE  Unadmitted(c)' /\ at'[P].s = at[P].s
<1> DEFINE x == at[P].c
           inLoop == {"scan", "admit", "check", "note", "fulfil"}
<1>0. /\ P \in Threads /\ at[P] \in Locals /\ c \in Nat \ {0} /\ pc[P] \in inLoop
      /\ at[P].all \in BOOLEAN
  <2>1. P \in Threads /\ at[P] \in Locals /\ c \in Nat \ {0} /\ pc[P] \in inLoop
    BY ThreadsDiffer DEF TypeOK, Unadmitted
  <2> QED BY <2>1 DEF Locals
<1>1. x \in Nat
  <2>1. x \in Contexts \cup {0}
    BY <1>0 DEF Locals
  <2> QED BY <2>1, KeysAreNumbers
<1>2. ASSUME NEW X \in SUBSET Contexts, Above(X, x) # {}
      PROVE  /\ Min(Above(X, x)) \in Nat
             /\ c \in X /\ c > x => c >= Min(Above(X, x))
  <2>1. X \in SUBSET Nat
    BY OrderAssumption
  <2>2. Min(Above(X, x)) \in X /\ \A z \in X : z > x => z >= Min(Above(X, x))
    BY <1>1, <1>2, <2>1, NextKey
  <2> QED BY <2>1, <2>2
<1>3. Request[c].all \in BOOLEAN
  BY RequestAssumption
<1>4. CASE ScanAll
  <2> DEFINE X == mPendingSubscribeToAllRequests
             y == Min(Above(X, x))
             k == [at[P] EXCEPT !.all = FALSE, !.c = 0]
  <2>1. \/ /\ at' = [at EXCEPT ![P].c = y] /\ pc' = [pc EXCEPT ![P] = "admit"]
           /\ y \in Nat /\ (c \in X /\ c > x => c >= y)
        \/ at' = [at EXCEPT ![P] = k] /\ pc' = pc /\ Above(X, x) = {}
    BY <1>2, <1>4 DEF ScanAll, Goto, TypeOK
  <2>2. pc[P] = "scan" /\ at[P].all = TRUE
    BY <1>0, <1>4 DEF ScanAll
  <2>3. k.s = at[P].s /\ k.c = 0 /\ k.all = FALSE
    BY <1>0 DEF Locals
  <2>6. Request[c].all = TRUE => c \in X /\ c > x
    BY <2>2 DEF Unadmitted
  <2> HIDE DEF y, k
  <2>4. CASE /\ at' = [at EXCEPT ![P].c = y] /\ pc' = [pc EXCEPT ![P] = "admit"]
             /\ y \in Nat /\ (c \in X /\ c > x => c >= y)
    <3>1. at'[P].s = at[P].s /\ at'[P].c = y /\ at'[P].all = TRUE /\ pc'[P] = "admit"
      BY <1>0, <2>2, <2>4 DEF TypeOK, Locals
    <3> QED BY <1>0, <1>3, <2>4, <2>6, <3>1 DEF Unadmitted
  <2>5. CASE at' = [at EXCEPT ![P] = k] /\ pc' = pc /\ Above(X, x) = {}
    <3>1. at'[P].s = at[P].s /\ at'[P].c = 0 /\ at'[P].all = FALSE /\ pc'[P] = "scan"
      BY <1>0, <2>2, <2>3, <2>5 DEF TypeOK
    <3>2. Request[c].all = FALSE
      BY <1>3, <2>5, <2>6 DEF Above
    <3>3. c > 0
      BY <1>0
    <3>4. c > at'[P].c /\ at'[P].all = Request[c].all
      BY <3>1, <3>2, <3>3
    <3> QED BY <3>1, <3>4 DEF Unadmitted
  <2> QED BY <2>1, <2>4, <2>5
<1>5. CASE ScanRequests
  <2> DEFINE X == DOMAIN mPendingSubscriptionRequests
             y == Min(Above(X, x))
  <2>1. pc[P] = "scan" /\ at[P].all = FALSE
    BY <1>0, <1>5 DEF ScanRequests
  <2>2. Request[c].all = FALSE /\ c > x
    BY <1>3, <2>1 DEF Unadmitted
  <2>3. c \in X /\ at[P].s \in mPendingSubscriptionRequests[c]
    BY <2>2 DEF Awaited
  <2>4. Above(X, x) # {} /\ c >= y /\ y \in Nat
    <3>1. Above(X, x) # {}
      BY <2>2, <2>3 DEF Above
    <3> QED BY <1>2, <2>2, <2>3, <3>1 DEF TypeOK
  <2>5. /\ at' = [at EXCEPT ![P].c = y]
        /\ pc'[P] = IF at[P].s \in mPendingSubscriptionRequests[y] THEN "admit" ELSE "scan"
    BY <1>0, <1>5, <2>4 DEF ScanRequests, Goto, TypeOK
  <2> HIDE DEF y
  <2>6. at'[P].s = at[P].s /\ at'[P].c = y /\ at'[P].all = FALSE
    BY <1>0, <2>1, <2>5 DEF TypeOK, Locals
  <2>7. c > y \/ (c = y /\ pc'[P] = "admit")
    BY <1>0, <2>3, <2>4, <2>5
  <2> QED BY <2>2, <2>5, <2>6, <2>7 DEF Unadmitted
<1>6. CASE pc[P] # "scan"
  <2>1. /\ at'[P].s = at[P].s /\ at'[P].c = x /\ at'[P].all = at[P].all
        /\ pc'[P] \in inLoop
    BY <1>0, <1>6, PublisherMoves DEF AfterAdmission
  <2>2. \/ at[P].all /\ ~Request[c].all
        \/ at[P].all = Request[c].all /\ c > x
    BY <1>6 DEF Unadmitted
  <2> QED BY <2>1, <2>2 DEF Unadmitted
<1>7. pc[P] = "scan" => ScanAll \/ ScanRequests
  BY DEF enqueuePacket, FindStream, LockStream, FanOut, TrimQueue, PushPacket,
         UnlockStream, InsertStream, Admit, NoteAdmitted, Subscribe, CheckActive,
         NoteActive, Fulfil, FindEmptyRequest, DropRequest
<1> QED BY <1>4, <1>5, <1>6, <1>7

\* While no stream is created, enqueuePacket changes queues at most.
LEMMA QuietPublisher ==
    ASSUME TypeOK, Places, enqueuePacket, ~Creating, ~Creating'
    PROVE  /\ UNCHANGED <<mStreamsMap, mActiveSubscriptionsMap, pending>>
           /\ \A s \in Streams : DOMAIN mSubscribersMap'[s] = DOMAIN mSubscribersMap[s]
           /\ pc[P] \in {"idle", "lock", "fanout", "trim", "push"}
           /\ pc'[P] \in {"idle", "lock", "fanout", "trim", "push", "insert"}
<1>1. pc[P] \in PublisherLabels /\ pc[P] \in {"idle", "lock", "fanout", "trim", "push", "insert"}
  BY DEF Places, PublisherPlace, PublisherLabels, Creating
<1>2. pc[P] # "insert"
  BY PublisherMoves DEF Creating
<1>3. /\ pc'[P] \in {"idle", "lock", "fanout", "trim", "push", "insert"} /\ UNCHANGED mStreamsMap
  BY <1>1, <1>2, PublisherMoves
<1>4. \A s \in Streams : DOMAIN mSubscribersMap'[s] = DOMAIN mSubscribersMap[s]
  BY <1>1, PublisherMembers
<1>5. UNCHANGED <<mActiveSubscriptionsMap, pending>>
  BY <1>1, <1>2 DEF enqueuePacket, FindStream, LockStream, FanOut, TrimQueue,
                    PushPacket, UnlockStream, InsertStream, ScanAll, ScanRequests,
                    Admit, NoteAdmitted, Subscribe, CheckActive, NoteActive, Fulfil,
                    FindEmptyRequest, DropRequest, maps, streams, pending
<1> QED BY <1>1, <1>2, <1>3, <1>4, <1>5

\* Whom enqueuePacket is about to put on a stream it has put there, or still is.
LEMMA ComingArrive ==
    ASSUME TypeOK, Places, enqueuePacket, NEW c \in Contexts, Polling(c), ServedAt(c),
           Request[c].all => c \in mPendingSubscribeToAllRequests,
           NEW s \in Streams, Coming(c, s)
    PROVE  OnStream(c, s)' \/ Coming(c, s)'
<1>1. at[P].s = s /\ pc[P] \in {"scan", "admit", "check", "note", "fulfil"}
  BY DEF Coming, Unadmitted
<1>2. CASE pc[P] \in {"check", "note"} /\ at[P].c = c
  <2>1. c \in DOMAIN mSubscribersMap[s] /\ (pc[P] = "note" =>
          (at[P].flag <=> mActiveSubscriptionsMap[c] # {}))
    BY <1>1, <1>2 DEF ServedAt
  <2>2. CASE pc[P] = "check"
    BY <1>1, <1>2, <2>2, PublisherMoves DEF Coming
  <2>3. CASE pc[P] = "note"
    BY <1>1, <1>2, <2>1, <2>3, PublisherMembers, PublisherActive DEF OnStream
  <2> QED BY <1>2, <2>2, <2>3
<1>3. CASE ~(pc[P] \in {"check", "note"} /\ at[P].c = c)
  <2>1. /\ Unadmitted(c) /\ c \notin DOMAIN mSubscribersMap[s]
        /\ Request[c].all \/ Awaited(c, s)
    BY <1>3 DEF Coming
  <2>2. CASE pc[P] = "admit" /\ at[P].c = c
    BY <1>1, <2>1, <2>2, PublisherMoves DEF Coming
  <2>3. CASE ~(pc[P] = "admit" /\ at[P].c = c)
    <3>1. Unadmitted(c)' /\ at'[P].s = s
      BY <1>1, <2>1, <2>3, UnadmittedAfter
    <3>2. c \notin DOMAIN mSubscribersMap'[s]
      BY <2>1, <2>3, PublisherMembers
    <3>3. Awaited(c, s) => Awaited(c, s)'
      <4>1. ~(pc[P] = "fulfil" /\ at[P].c = c)
        <5>1. at[P].c = c => at[P].c \in Nat
          BY ThreadsDiffer
        <5>2. pc[P] = "fulfil" => ~at[P].all
          BY DEF Places, PublisherPlace
        <5> QED BY <2>1, <5>1, <5>2 DEF Unadmitted
      <4> QED BY <1>1, <4>1, PublisherRequests DEF Awaited
    <3> QED BY <2>1, <3>1, <3>2, <3>3 DEF Coming
  <2> QED BY <2>2, <2>3
<1> QED BY <1>2, <1>3

\* The publisher's steps take none of a context's subscriptions.
LEMMA PublisherKeepsServed ==
    ASSUME TypeOK, Places, StreamsAreCreated, Requests, pc[S] = "idle", Registered,
           TypeOK', Places', enqueuePacket, NEW c \in Contexts, ServedAt(c),
           Subscribing(c) => ~Creating /\ ~Creating'
    PROVE  ServedAt(c)'
<1>1. pc'[c] = pc[c] /\ at'[c] = at[c] /\ UNCHANGED mPendingSubscribeToAllRequests
  BY PublisherFrame, ThreadsDiffer DEF OthersStay
<1>2. /\ Handled(c)' = Handled(c) /\ Present(c)' = Present(c) /\ Polling(c)' = Polling(c)
      /\ Handled(c) \subseteq Streams
  BY <1>1, HandledAreStreams DEF Handled, Present, Polling, Subscribing
<1>3. CASE ~Polling(c) /\ ~Subscribing(c)
  BY <1>1, <1>3 DEF ServedAt, Present, Polling, Subscribing
<1>4. CASE Subscribing(c)
  <2>1. /\ UNCHANGED <<mStreamsMap, mActiveSubscriptionsMap, mPendingSubscriptionRequests>>
        /\ \A s \in Streams : DOMAIN mSubscribersMap'[s] = DOMAIN mSubscribersMap[s]
    BY <1>4, QuietPublisher DEF pending
  <2>2. ~Polling(c) /\ (pc[c] \in {"check", "note"} => at[c].s \in Streams)
    BY <1>4 DEF Polling, Subscribing, Places, ContextPlace, TypeOK
  <2>3. ASSUME NEW s \in Streams
        PROVE  /\ OnStream(c, s)' <=> OnStream(c, s)
               /\ Awaited(c, s)' <=> Awaited(c, s)
    BY <2>1 DEF OnStream, Awaited
  <2> HIDE DEF OnStream, Awaited, Present, Polling, Handled
  <2>4. Present(c)' => \A s \in Handled(c)' :
           /\ s \in mStreamsMap' => OnStream(c, s)'
           /\ s \notin mStreamsMap' => Request[c].all \/ Awaited(c, s)'
    BY <1>2, <2>1, <2>2, <2>3 DEF ServedAt
  <2> QED BY <1>1, <1>2, <2>1, <2>2, <2>4 DEF ServedAt
<1>5. CASE Polling(c)
  <2>1. /\ Present(c) /\ Handled(c) = Names(c)
        /\ pc[c] \notin {"check", "note", "file", "request"}
    BY <1>5 DEF Present, Polling, Handled, HandledAt
  <2>2. RegisteredAt(c) /\ OnlyAsked(c) /\ FiledRequests(c) /\ AdmitsAsked(c)
    BY DEF Registered, Requests
  <2>3. Request[c].all => c \in mPendingSubscribeToAllRequests
    BY <1>5, <2>2 DEF RegisteredAt
  <2>4. /\ pc[P] \in PublisherLabels
        /\ pc[P] # "idle" => at[P].s \in Streams
        /\ pc[P] = "insert" => at[P].s \notin mStreamsMap /\ at[P].c = 0 /\ at[P].all
        /\ pc[P] \notin {"idle", "insert"} => at[P].s \in mStreamsMap
    BY DEF Places, PublisherPlace
  <2>5. ASSUME NEW s \in Handled(c)
        PROVE  /\ s \in mStreamsMap => OnStream(c, s) \/ Coming(c, s)
               /\ s \notin mStreamsMap => Request[c].all \/ Awaited(c, s)
    BY <2>1 DEF ServedAt
  <2>6. ASSUME NEW s \in Streams, OnStream(c, s)
        PROVE  OnStream(c, s)'
    <3>1. c \in DOMAIN mSubscribersMap'[s]
      BY <2>6, PublisherMembers DEF OnStream
    <3>2. pc[P] = "note" /\ at[P].c = c => (at[P].flag <=> mActiveSubscriptionsMap[c] # {})
      BY <1>5 DEF ServedAt
    <3>3. s \in mActiveSubscriptionsMap'[c]
      BY <2>6, <3>2, PublisherActive DEF OnStream
    <3> QED BY <3>1, <3>3 DEF OnStream
  <2>7. ASSUME NEW s \in Streams, s \notin mStreamsMap, Awaited(c, s), s \in Handled(c)
        PROVE  Awaited(c, s)'
    <3>1. ~(pc[P] = "drop" /\ at[P].c = c)
      BY <1>5, <2>1, <2>7 DEF ServedAt
    <3>2. pc[P] = "fulfil" => at[P].s # s
      BY <2>4, <2>7
    <3> QED BY <2>7, <3>1, <3>2, PublisherRequests DEF Awaited
  <2>8. ASSUME NEW s \in Handled(c), s \in mStreamsMap', s \notin mStreamsMap
        PROVE  Coming(c, s)'
    <3>1. /\ pc[P] = "insert" /\ pc'[P] = "scan" /\ at'[P] = at[P] /\ s = at[P].s
      BY <2>8, PublisherMoves
    <3>2. c \in Nat \ {0} /\ s \in Streams
      BY <1>2, ThreadsDiffer
    <3>3. Unadmitted(c)'
      <4>1. c > at'[P].c /\ at'[P].all = TRUE
        <5>1. at[P] \in Locals
          BY ThreadsDiffer DEF TypeOK
        <5> QED BY <2>4, <3>1, <3>2, <5>1 DEF Locals
      <4> QED BY <3>1, <4>1, RequestAssumption DEF Unadmitted
    <3>4. c \notin DOMAIN mSubscribersMap'[s]
      BY <2>8, <3>1, <3>2, PublisherMembers DEF StreamsAreCreated
    <3>5. Request[c].all \/ Awaited(c, s)'
      BY <2>5, <2>7, <2>8, <3>2
    <3> QED BY <3>1, <3>3, <3>4, <3>5 DEF Coming
  <2>9. ASSUME NEW s \in Handled(c)
        PROVE  /\ s \in mStreamsMap' => OnStream(c, s)' \/ Coming(c, s)'
               /\ s \notin mStreamsMap' => Request[c].all \/ Awaited(c, s)'
    <3>1. s \in Streams /\ mStreamsMap \subseteq mStreamsMap'
      BY <1>2, PublisherFrame
    <3>2. s \in mStreamsMap => OnStream(c, s)' \/ Coming(c, s)'
      BY <1>5, <2>3, <2>5, <2>6, <3>1, ComingArrive
    <3> QED BY <2>5, <2>7, <2>8, <3>1, <3>2
  <2>10. ASSUME pc'[P] \in {"check", "note"}, at'[P].c = c
         PROVE  /\ c \in DOMAIN mSubscribersMap'[at'[P].s]
                /\ pc'[P] = "note" => (at'[P].flag <=> mActiveSubscriptionsMap'[c] # {})
    <3>1. CASE pc'[P] = "check"
      <4>1. pc[P] = "admit" /\ at'[P] = at[P]
        BY <2>4, <3>1, PublisherMoves DEF PublisherLabels, AfterAdmission
      <4> QED BY <2>4, <2>10, <3>1, <4>1, PublisherMembers
    <3>2. CASE pc'[P] = "note"
      <4>1. pc[P] = "check" /\ at'[P].s = at[P].s /\ at'[P].c = at[P].c
        BY <2>4, <3>2, PublisherMoves DEF PublisherLabels, AfterAdmission
      <4>2. c \in DOMAIN mSubscribersMap[at[P].s] /\ at[P].s \in Streams
        BY <1>5, <2>4, <2>10, <4>1 DEF ServedAt
      <4>3. mActiveSubscriptionsMap'[c] = mActiveSubscriptionsMap[c]
        BY <4>1, PublisherActive
      <4> QED BY <2>10, <4>1, <4>2, <4>3, PublisherMoves, PublisherMembers
    <3> QED BY <2>10, <3>1, <3>2
  <2>11. ASSUME pc'[P] = "drop", at'[P].c = c
         PROVE  Names(c) \subseteq mStreamsMap'
    <3>1. pc[P] = "purge"
      BY <2>4, <2>11, PublisherMoves DEF PublisherLabels, AfterAdmission
    <3>2. /\ c \in DOMAIN mPendingSubscriptionRequests /\ mPendingSubscriptionRequests[c] = {}
          /\ UNCHANGED mStreamsMap
      BY <2>11, <3>1, PublisherMoves
    <3>3. ~Request[c].all
      BY <3>2 DEF Places, Kinds
    <3>4. \A s \in Handled(c) : ~Awaited(c, s)
      BY <3>2 DEF Awaited
    <3> QED BY <2>1, <2>5, <3>2, <3>3, <3>4
  <2> HIDE DEF OnStream, Awaited, Present, Polling, Handled, Coming
  <2> QED BY <1>1, <1>2, <1>5, <2>1, <2>9, <2>10, <2>11 DEF ServedAt
<1> QED BY <1>3, <1>4, <1>5

\* Each step keeps the undisturbed served.
LEMMA NextServed ==
    ASSUME TypeOK, Places, StreamsAreCreated, Requests, Registered, Recorded, ServedSoFar,
           TypeOK', Places', [Next]_vars
    PROVE  ServedSoFar'
<1> SUFFICES ASSUME NEW c \in Contexts, ~disturbed'[c], pc'[S] = "idle"
             PROVE  ServedAt(c)'
  BY DEF ServedSoFar
<1>1. pc[S] = "idle" /\ ~unsubscribeAll
  BY StopperIsIdle
<1>2. CASE UNCHANGED vars
  <2>1. ServedAt(c)
    BY <1>1, <1>2 DEF ServedSoFar, vars
  <2> QED BY <1>2, <2>1 DEF vars, maps, streams, pending, ServedAt, Present, Polling, Subscribing,
           Handled, OnStream, Awaited, Coming, Unadmitted
<1>3. CASE RecordDisturbance /\ disturbed[c]
  <2>1. pc'[c] = "leave"
    BY <1>3, Undisturbed
  <2> QED BY <2>1 DEF ServedAt, Present, Subscribing, Polling
<1>4. CASE RecordDisturbance /\ ~disturbed[c]
  <2>1. ServedAt(c) /\ ~Disturbs(c) /\ ~Disturbs(c)'
    BY <1>1, <1>4, Undisturbed DEF ServedSoFar, Recorded
  <2>2. /\ Subscribing(c) => ~Creating
        /\ Subscribing(c)' => ~Creating'
    BY <2>1 DEF Disturbs
  <2>3. CASE enqueuePacket
    <3>1. Subscribing(c)' = Subscribing(c)
      BY <2>3, PublisherFrame, ThreadsDiffer DEF OthersStay, Subscribing
    <3> QED BY <1>1, <2>1, <2>2, <2>3, <3>1, PublisherKeepsServed
  <2>4. CASE ContextStep(c)
    BY <1>1, <2>1, <2>2, <2>4, ContextServesItself
  <2>5. ASSUME NEW d \in Contexts, d # c, ContextStep(d)
        PROVE  ServedAt(c)'
    <3>1. pc'[c] = pc[c] /\ at'[c] = at[c]
      BY <2>5, ContextFrame, ThreadsDiffer DEF OthersStay
    <3>2. pc'[P] = pc[P] /\ at'[P] = at[P] /\ UNCHANGED mStreamsMap
      BY <2>5, PublisherStays, ContextFrame
    <3>3. ASSUME NEW s \in Streams
          PROVE  c \in DOMAIN mSubscribersMap'[s] <=> c \in DOMAIN mSubscribersMap[s]
      <4>1. \/ DOMAIN mSubscribersMap'[s] = DOMAIN mSubscribersMap[s] \cup {d}
            \/ DOMAIN mSubscribersMap'[s] = DOMAIN mSubscribersMap[s] \ {d}
            \/ DOMAIN mSubscribersMap'[s] = DOMAIN mSubscribersMap[s]
        BY <2>5, ContextMembers
      <4> QED BY <2>5, <4>1
    <3>4. /\ mActiveSubscriptionsMap'[c] = mActiveSubscriptionsMap[c]
          /\ c \in DOMAIN mPendingSubscriptionRequests' <=>
               c \in DOMAIN mPendingSubscriptionRequests
          /\ c \in DOMAIN mPendingSubscriptionRequests =>
               mPendingSubscriptionRequests'[c] = mPendingSubscriptionRequests[c]
      BY <2>5, ContextActive, ContextRequests
    <3>5. ContextPlace(c) /\ (pc[P] \in {"check", "note"} => at[P].s \in Streams)
      BY DEF Places, PublisherPlace
    <3> QED BY <2>1, <3>1, <3>2, <3>3, <3>4, <3>5, ServedStays
  <2>6. CASE getNumberOfSubscribers
    <3>1. UNCHANGED <<streams, mActiveSubscriptionsMap, pending, pc, at>>
      BY <2>6 DEF getNumberOfSubscribers
    <3> QED BY <2>1, <3>1 DEF streams, pending, ServedAt, Present, Polling, Subscribing,
             Handled, OnStream, Awaited, Coming, Unadmitted
  <2>7. CASE UNCHANGED vars
    BY <1>2, <2>7
  <2> QED BY <1>1, <2>3, <2>4, <2>5, <2>6, <2>7, StepCases
<1> QED BY <1>2, <1>3, <1>4, StepCases

-----------------------------------------------------------------------------
(***************************************************************************)
(* Undisturbed contexts leave no trace.                                    *)
(***************************************************************************)
\* unsubscribeFromAll, step by step; it does not throw if nobody was added to or
\* taken from the stream since its size was taken.
LEMMA ContextLeaves ==
    ASSUME TypeOK, Places, NEW c \in Contexts, ContextStep(c)
    PROVE  /\ pc[c] = "polling" /\ pc'[c] = "leave" => at'[c] = at[c]
           /\ pc[c] = "leave" =>
                \/ /\ pc'[c] = "erase" /\ at'[c].flag = at[c].flag
                   /\ at'[c].s \in mStreamsMap
                   /\ \A s \in mStreamsMap : s < at'[c].s => s <= at[c].s
                   /\ at'[c].n = Cardinality(DOMAIN mSubscribersMap[at'[c].s])
                \/ /\ pc'[c] = "gone"
                   /\ \A s \in mStreamsMap : s <= at[c].s
           /\ pc[c] = "erase" =>
                /\ at'[c].s = at[c].s /\ at'[c].flag = at[c].flag
                /\ at[c].n = Cardinality(DOMAIN mSubscribersMap[at[c].s]) =>
                     pc'[c] = IF \/ /\ c \in DOMAIN mSubscribersMap[at[c].s]
                                    /\ ~at[c].flag
                                 \/ /\ c \notin DOMAIN mSubscribersMap[at[c].s]
                                    /\ mActiveSubscriptionsMap[c] # {}
                              THEN "forget" ELSE "leave"
           /\ pc[c] = "forget" => pc'[c] = "leave" /\ at'[c].s = at[c].s /\ at'[c].flag
<1>1. c \in Threads /\ at[c] \in Locals /\ ContextPlace(c)
  BY ThreadsDiffer DEF TypeOK, Places
<1>2. \A x : [at EXCEPT ![c] = x][c] = x
  BY <1>1 DEF TypeOK
<1>3. \A label : Goto(c, label) => pc'[c] = label
  BY <1>1 DEF Goto, TypeOK
<1>4. at[c].s \in Nat /\ mStreamsMap \in SUBSET Nat /\ mStreamsMap \in SUBSET Streams
  <2>1. at[c].s \in Streams \cup {0}
    BY <1>1 DEF Locals
  <2> QED BY <2>1, KeysAreNumbers, ThreadsDiffer DEF TypeOK
<1>5. CASE StartLeave(c)
  BY <1>5 DEF StartLeave
<1>6. CASE TakeSize(c)
  <2> DEFINE s == Min(Above(mStreamsMap, at[c].s))
             n == Cardinality(DOMAIN mSubscribersMap[s])
             l == [at[c] EXCEPT !.s = s, !.n = n]
  <2>1. s \in mStreamsMap /\ \A z \in mStreamsMap : z > at[c].s => z >= s
    BY <1>4, <1>6, NextKey DEF TakeSize
  <2>2. /\ at' = [at EXCEPT ![c] = l]
        /\ pc[c] = "leave" /\ pc'[c] = "erase"
    BY <1>3, <1>6 DEF TakeSize
  <2> HIDE DEF s, n
  <2>3. l.s = s /\ l.n = n /\ l.flag = at[c].flag
    BY <1>1 DEF Locals
  <2> HIDE DEF l
  <2>4. at'[c].s = s /\ at'[c].n = n /\ at'[c].flag = at[c].flag
    BY <1>2, <2>2, <2>3
  <2>5. \A z \in mStreamsMap : z < s => z <= at[c].s
    BY <1>4, <2>1
  <2> QED BY <2>1, <2>2, <2>4, <2>5 DEF n
<1>7. CASE EndLeave(c)
  <2>1. pc[c] = "leave" /\ pc'[c] = "gone" /\ Above(mStreamsMap, at[c].s) = {}
    BY <1>3, <1>7 DEF EndLeave, ResetCount
  <2>2. \A s \in mStreamsMap : s <= at[c].s
    BY <1>4, <2>1 DEF Above
  <2> QED BY <2>1, <2>2
<1>8. CASE Erase(c)
  <2> DEFINE X == DOMAIN mSubscribersMap[at[c].s]
             exists == c \in X
             purge == IF exists THEN ~at[c].flag ELSE mActiveSubscriptionsMap[c] # {}
             throws == Cardinality(X \ {c}) # at[c].n - (IF exists THEN 1 ELSE 0)
  <2>1. /\ pc[c] = "erase" /\ at' = [at EXCEPT ![c].n = 0]
        /\ pc'[c] = IF ~throws /\ purge THEN "forget" ELSE "leave"
    BY <1>3, <1>8 DEF Erase, isSubscribed
  <2>2. at'[c].s = at[c].s /\ at'[c].flag = at[c].flag
    BY <1>1, <2>1 DEF TypeOK, Locals
  <2>3. at[c].n = Cardinality(X) => ~throws
    <3>1. IsFiniteSet(X)
      <4>1. X \subseteq Contexts
        BY <1>1, <1>4, <2>1 DEF ContextPlace, TypeOK, IsQueueMap
      <4> QED BY <4>1, OrderAssumption, FS_Subset
    <3> HIDE DEF X
    <3>2. /\ Cardinality(X) \in Nat
          /\ Cardinality(X \ {c}) = IF c \in X THEN Cardinality(X) - 1 ELSE Cardinality(X)
      BY <3>1, FS_RemoveElement, FS_CardinalityType
    <3>3. CASE c \in X
      BY <3>2, <3>3
    <3>4. CASE c \notin X
      BY <3>2, <3>4
    <3> QED BY <3>3, <3>4
  <2> HIDE DEF throws
  <2> QED BY <2>1, <2>2, <2>3
<1>9. CASE ForgetActive(c)
  BY <1>1, <1>3, <1>9 DEF ForgetActive, TypeOK, Locals
<1>10. CASE SubscribeStep(c) \/ PollStep(c)
  <2>1. pc[c] \notin {"leave", "erase", "forget"} /\ ~(pc[c] = "polling" /\ pc'[c] = "leave")
    BY <1>3, <1>10
    DEF SubscribeStep, StartSubscribe, NextName, FindRequest, FileRequest, NextStream,
        WaitForAll, Join, Subscribe, NoteJoined, CheckActive, NoteActive, ResetCount,
        PollStep, FindQueue, TakePacket, PopPacket, EndWalk
  <2> QED BY <2>1
<1> QED BY <1>5, <1>6, <1>7, <1>8, <1>9, <1>10 DEF ContextStep, LeaveStep

\* A context that begins to leave ...
LEMMA LeaveBegins ==
    ASSUME TypeOK, Places, StreamsAreCreated, NEW c \in Contexts, ContextStep(c),
           pc[c] = "polling", pc'[c] = "leave", ~Creating
    PROVE  LeftAt(c)'
<1>1. /\ pc'[P] = pc[P] /\ at'[P] = at[P] /\ UNCHANGED mStreamsMap
      /\ pc[P] \notin {"admit", "check", "note"}
  BY PublisherStays, ContextFrame DEF Creating
<1>2. at'[c].s = 0 /\ at'[c].flag = FALSE
  BY ContextLeaves DEF Places, ContextPlace, NoLocals
<1>3. \A s \in mStreamsMap : ~(s < 0) /\ s # 0
  BY OrderAssumption DEF TypeOK
<1> QED BY <1>1, <1>2, <1>3 DEF LeftAt

\* ... and goes on to.
LEMMA ContextKeepsLeft ==
    ASSUME TypeOK, Places, StreamsAreCreated, NEW c \in Contexts, ContextStep(c),
           Leaving(c), LeftAt(c)
    PROVE  LeftAt(c)'
<1>1. pc'[P] = pc[P] /\ at'[P] = at[P] /\ UNCHANGED mStreamsMap
  BY PublisherStays, ContextFrame
<1>2. /\ mStreamsMap \in SUBSET Nat /\ mStreamsMap \in SUBSET Streams
      /\ 0 \notin mStreamsMap /\ at[c].s \in Nat
  <2>1. at[c] \in Locals
    BY ThreadsDiffer DEF TypeOK
  <2>2. at[c].s \in Streams \cup {0}
    BY <2>1 DEF Locals
  <2> QED BY <2>2, KeysAreNumbers, ThreadsDiffer DEF TypeOK
<1>3. CASE pc[c] = "leave"
  <2>1. /\ \A s \in mStreamsMap : DOMAIN mSubscribersMap'[s] = DOMAIN mSubscribersMap[s]
        /\ mActiveSubscriptionsMap'[c] = mActiveSubscriptionsMap[c]
    BY <1>2, <1>3, ContextMembers, ContextActive
  <2>2. ASSUME NEW s \in mStreamsMap, s <= at[c].s
        PROVE  c \notin DOMAIN mSubscribersMap[s]
    <3>1. s < at[c].s \/ s = at[c].s
      BY <1>2, <2>2
    <3>2. CASE s < at[c].s
      BY <3>2 DEF LeftAt
    <3>3. CASE s = at[c].s
      BY <1>3, <3>3 DEF LeftAt
    <3> QED BY <3>1, <3>2, <3>3
  <2>3. CASE /\ pc'[c] = "erase" /\ at'[c].flag = at[c].flag
             /\ at'[c].s \in mStreamsMap
             /\ \A s \in mStreamsMap : s < at'[c].s => s <= at[c].s
             /\ at'[c].n = Cardinality(DOMAIN mSubscribersMap[at'[c].s])
    <3>1. at[c].flag => mActiveSubscriptionsMap[c] = {}
      BY DEF LeftAt
    <3>2. pc[P] \in {"admit", "check", "note"} => at[P].c # c
      BY DEF LeftAt
    <3>3. \A s \in mStreamsMap : s < at'[c].s => c \notin DOMAIN mSubscribersMap'[s]
      BY <2>1, <2>2, <2>3
    <3>4. at'[c].n = Cardinality(DOMAIN mSubscribersMap'[at'[c].s])
      BY <2>1, <2>3
    <3> QED BY <1>1, <2>1, <2>3, <3>1, <3>2, <3>3, <3>4 DEF LeftAt
  <2>4. CASE pc'[c] = "gone" /\ \A s \in mStreamsMap : s <= at[c].s
    <3>1. mActiveSubscriptionsMap[c] = {}
      <4>1. CASE at[c].s # 0
        BY <1>3, <4>1 DEF LeftAt
      <4>2. CASE at[c].s = 0
        <5>1. \A s \in mStreamsMap : s <= 0 /\ s \in Nat /\ s # 0
          BY <1>2, <2>4, <4>2
        <5>2. mStreamsMap = {}
          BY <5>1
        <5> QED BY <5>2 DEF StreamsAreCreated
      <4> QED BY <4>1, <4>2
    <3>2. pc[P] \in {"admit", "check", "note"} => at[P].c # c
      BY DEF LeftAt
    <3> QED BY <1>1, <2>1, <2>2, <2>4, <3>1, <3>2 DEF LeftAt
  <2> QED BY <1>3, <2>3, <2>4, ContextLeaves
<1>4. CASE pc[c] = "erase"
  <2>1. /\ at[c].s \in mStreamsMap /\ at'[c].s = at[c].s /\ at'[c].flag = at[c].flag
        /\ pc'[c] = IF \/ /\ c \in DOMAIN mSubscribersMap[at[c].s] /\ ~at[c].flag
                       \/ /\ c \notin DOMAIN mSubscribersMap[at[c].s]
                          /\ mActiveSubscriptionsMap[c] # {}
                    THEN "forget" ELSE "leave"
    <3>1. at[c].n = Cardinality(DOMAIN mSubscribersMap[at[c].s]) /\ at[c].s \in mStreamsMap
      BY <1>4 DEF LeftAt, Places, ContextPlace
    <3> QED BY <1>4, <3>1, ContextLeaves
  <2>2. \A s \in mStreamsMap : c \in DOMAIN mSubscribersMap'[s] =>
                                 s # at[c].s /\ c \in DOMAIN mSubscribersMap[s]
    BY <1>2, <1>4, ContextMembers
  <2>3. mActiveSubscriptionsMap'[c] = mActiveSubscriptionsMap[c]
    BY <1>4, ContextActive
  <2>4. /\ \A s \in mStreamsMap : s < at[c].s => c \notin DOMAIN mSubscribersMap[s]
        /\ at[c].flag => mActiveSubscriptionsMap[c] = {}
        /\ pc[P] \in {"admit", "check", "note"} => at[P].c # c
    BY DEF LeftAt
  <2>5. pc'[c] = "leave" => mActiveSubscriptionsMap[c] = {}
    BY <2>1, <2>4
  <2>6. at[c].s # 0 /\ pc'[c] \in {"leave", "forget"}
    BY <1>2, <2>1
  <2> QED BY <1>1, <2>1, <2>2, <2>3, <2>4, <2>5, <2>6 DEF LeftAt
<1>5. CASE pc[c] = "forget"
  <2>1. pc'[c] = "leave" /\ at'[c].s = at[c].s
    BY <1>5, ContextLeaves
  <2>2. mActiveSubscriptionsMap'[c] = {}
    BY <1>5, ContextActive
  <2>3. \A s \in mStreamsMap : DOMAIN mSubscribersMap'[s] = DOMAIN mSubscribersMap[s]
    BY <1>2, <1>5, ContextMembers
  <2> QED BY <1>1, <1>5, <2>1, <2>2, <2>3 DEF LeftAt
<1> QED BY <1>3, <1>4, <1>5 DEF Leaving

\* What is LeftAt of c, as long as c and the publisher stay where they are, and
\* c is added to nothing.
LEMMA LeftStays ==
    ASSUME NEW c \in Contexts, LeftAt(c),
           pc'[c] = pc[c], at'[c] = at[c], pc'[P] = pc[P], at'[P] = at[P],
           UNCHANGED mStreamsMap,
           \A s \in mStreamsMap : c \in DOMAIN mSubscribersMap'[s] =>
                                    c \in DOMAIN mSubscribersMap[s],
           mActiveSubscriptionsMap'[c] = mActiveSubscriptionsMap[c],
           pc[c] = "erase" => DOMAIN mSubscribersMap'[at[c].s] = DOMAIN mSubscribersMap[at[c].s]
    PROVE  LeftAt(c)'
BY DEF LeftAt

\* The publisher does not bring back a context that has left undisturbed.
LEMMA PublisherKeepsLeft ==
    ASSUME TypeOK, Places, StreamsAreCreated, Requests, enqueuePacket, NEW c \in Contexts,
           LeftAt(c), Leaving(c) => ~Creating /\ ~Creating', Leaving(c) \/ pc[c] = "gone"
    PROVE  LeftAt(c)'
<1>1. pc'[c] = pc[c] /\ at'[c] = at[c]
  BY PublisherFrame, ThreadsDiffer DEF OthersStay
<1>2. CASE Leaving(c)
  <2>1. /\ UNCHANGED <<mStreamsMap, mActiveSubscriptionsMap>>
        /\ \A s \in Streams : DOMAIN mSubscribersMap'[s] = DOMAIN mSubscribersMap[s]
        /\ pc'[P] \notin {"admit", "check", "note"}
    BY <1>2, QuietPublisher
  <2>2. mStreamsMap \subseteq Streams /\ (pc[c] = "erase" => at[c].s \in mStreamsMap)
    BY DEF TypeOK, Places, ContextPlace
  <2> QED BY <1>1, <2>1, <2>2 DEF LeftAt
<1>3. CASE pc[c] = "gone"
  <2>1. FiledRequests(c) /\ WaitsForAll(c) /\ mStreamsMap \subseteq Streams
    BY DEF Requests, TypeOK
  <2>2. /\ pc[P] \in {"admit", "check", "note"} => at[P].c # c
        /\ mActiveSubscriptionsMap[c] = {}
        /\ \A s \in mStreamsMap : c \notin DOMAIN mSubscribersMap[s]
    BY <1>3 DEF LeftAt
  <2>3. /\ pc[P] \in PublisherLabels
        /\ pc[P] = "insert" => at[P].s \in Streams \ mStreamsMap
    BY DEF Places, PublisherPlace
  <2>4. pc'[P] \in {"admit", "check", "note"} => at'[P].c # c
    <3>1. CASE pc'[P] = "admit"
      <4>1. pc[P] = "scan"
        BY <2>3, <3>1, PublisherMoves DEF PublisherLabels, AfterAdmission
      <4> QED BY <1>3, <2>1, <3>1, <4>1, PublisherMoves DEF FiledRequests, WaitsForAll
    <3>2. CASE pc'[P] \in {"check", "note"}
      <4>1. pc[P] \in {"admit", "check"} /\ at'[P].c = at[P].c
        BY <2>3, <3>2, PublisherMoves DEF PublisherLabels, AfterAdmission
      <4> QED BY <2>2, <4>1
    <3> QED BY <3>1, <3>2
  <2>5. mActiveSubscriptionsMap'[c] = {}
    BY <2>2, PublisherActive
  <2>6. \A s \in mStreamsMap' : c \notin DOMAIN mSubscribersMap'[s]
    <3>1. CASE pc[P] = "insert"
      <4>1. mStreamsMap' = mStreamsMap \cup {at[P].s}
        BY <3>1, PublisherMoves
      <4>2. \A s \in Streams : DOMAIN mSubscribersMap'[s] = DOMAIN mSubscribersMap[s]
        BY <3>1, PublisherMembers
      <4> QED BY <2>1, <2>2, <2>3, <3>1, <4>1, <4>2 DEF StreamsAreCreated
    <3>2. CASE pc[P] # "insert"
      <4>1. UNCHANGED mStreamsMap
        BY <3>2, PublisherMoves
      <4> QED BY <2>1, <2>2, <4>1, PublisherMembers
    <3> QED BY <3>1, <3>2
  <2> QED BY <1>1, <1>3, <2>4, <2>5, <2>6 DEF LeftAt
<1> QED BY <1>2, <1>3

\* Nothing another context does adds c to a stream or takes it off one, nor does
\* it change a stream that c has locked, unless it is subscribing.
LEMMA OthersKeepLeft ==
    ASSUME TypeOK, Places, Mutexes, NEW c \in Contexts, NEW d \in Contexts, c # d,
           ContextStep(d), LeftAt(c), Leaving(c) => ~Subscribing(d)
    PROVE  LeftAt(c)'
<1>1. /\ pc'[P] = pc[P] /\ at'[P] = at[P] /\ UNCHANGED mStreamsMap
      /\ pc'[c] = pc[c] /\ at'[c] = at[c]
  BY PublisherStays, ContextFrame, ThreadsDiffer DEF OthersStay
<1>2. mStreamsMap \subseteq Streams
  BY DEF TypeOK
<1>3. ASSUME NEW s \in mStreamsMap, c \in DOMAIN mSubscribersMap'[s]
      PROVE  c \in DOMAIN mSubscribersMap[s]
  <2>1. \/ DOMAIN mSubscribersMap'[s] = DOMAIN mSubscribersMap[s] \cup {d}
        \/ DOMAIN mSubscribersMap'[s] = DOMAIN mSubscribersMap[s] \ {d}
        \/ DOMAIN mSubscribersMap'[s] = DOMAIN mSubscribersMap[s]
    BY <1>2, ContextMembers
  <2> QED BY <1>3, <2>1
<1>4. mActiveSubscriptionsMap'[c] = mActiveSubscriptionsMap[c]
  BY ContextActive
<1>5. ASSUME pc[c] = "erase"
      PROVE  DOMAIN mSubscribersMap'[at[c].s] = DOMAIN mSubscribersMap[at[c].s]
  <2>1. at[c].s \in Streams /\ mMutex[at[c].s] = c
    BY <1>2, <1>5 DEF Places, ContextPlace, Mutexes
  <2>2. pc[d] # "join"
    BY <1>5 DEF Leaving, Subscribing
  <2>3. ~(pc[d] = "erase" /\ at[d].s = at[c].s)
    BY <2>1 DEF Mutexes
  <2> QED BY <2>1, <2>2, <2>3, ContextMembers
<1> QED BY <1>1, <1>3, <1>4, <1>5, LeftStays

\* unsubscribeAll passes no stream whose mutex is taken.
LEMMA StopperKeepsLeft ==
    ASSUME TypeOK, Places, Mutexes, NEW c \in Contexts, unsubscribeAll, LeftAt(c)
    PROVE  LeftAt(c)'
<1>1. /\ pc'[P] = pc[P] /\ at'[P] = at[P] /\ UNCHANGED mStreamsMap
      /\ pc'[c] = pc[c] /\ at'[c] = at[c] /\ UNCHANGED mActiveSubscriptionsMap
  BY StopperFrame, ThreadsDiffer DEF OthersStay
<1>2. mStreamsMap \subseteq Streams
  BY DEF TypeOK
<1>3. \A s \in mStreamsMap : c \in DOMAIN mSubscribersMap'[s] =>
                               c \in DOMAIN mSubscribersMap[s]
  BY <1>2, StopperMembers
<1>5. ASSUME pc[c] = "erase"
      PROVE  mSubscribersMap'[at[c].s] = mSubscribersMap[at[c].s]
  <2>1. at[c].s \in Streams /\ mMutex[at[c].s] = c
    BY <1>2, <1>5 DEF Places, ContextPlace, Mutexes
  <2>4. c # Free
    BY ThreadsDiffer
  <2>2. CASE WipeStream
    <3> DEFINE s == Min(Above(mStreamsMap, at[S].s))
    <3>1. /\ mMutex[s] = Free
          /\ mSubscribersMap' = [mSubscribersMap EXCEPT ![s] = NoSubscribers]
      BY <2>2 DEF WipeStream
    <3> HIDE DEF s
    <3>2. s # at[c].s
      BY <2>1, <2>4, <3>1
    <3> QED BY <2>1, <3>1, <3>2 DEF TypeOK
  <2>3. CASE ~WipeStream
    BY <2>3 DEF unsubscribeAll, StartPurge, ClearWaiting, EndPurge, maps, streams
  <2> QED BY <2>2, <2>3
<1> QED BY <1>1, <1>3, <1>5, LeftStays

\* Each step keeps the undisturbed forgotten as far as they have come.
LEMMA NextLeft ==
    ASSUME TypeOK, Places, Mutexes, StreamsAreCreated, Requests, Recorded, LeftSoFar,
           [Next]_vars
    PROVE  LeftSoFar'
<1> SUFFICES ASSUME NEW c \in Contexts, ~disturbed'[c], (Leaving(c) \/ pc[c] = "gone")'
             PROVE  LeftAt(c)'
  BY DEF LeftSoFar
<1>1. CASE UNCHANGED vars
  BY <1>1 DEF vars, maps, streams, LeftSoFar, LeftAt, Leaving
<1>2. ASSUME RecordDisturbance, Leaving(c)'
      PROVE  ~Creating' /\ \A d \in Contexts : ~Subscribing(d)'
  <2>1. ~Disturbs(c)'
    BY <1>2, Undisturbed
  <2> QED BY <1>2, <2>1 DEF Disturbs
<1>3. ASSUME Leaving(c), ~disturbed[c]
      PROVE  ~Creating /\ \A d \in Contexts : ~Subscribing(d)
  BY <1>3 DEF Recorded, Disturbs
<1>4. ASSUME RecordDisturbance, pc'[c] = pc[c]
      PROVE  ~disturbed[c] /\ (Leaving(c) \/ pc[c] = "gone") /\ LeftAt(c)
  <2>1. pc[c] # "polling"
    BY <1>4 DEF Leaving
  <2>2. ~disturbed[c]
    BY <1>4, <2>1, Undisturbed
  <2> QED BY <1>4, <2>2 DEF Leaving, LeftSoFar
<1>5. CASE enqueuePacket /\ RecordDisturbance
  <2>1. pc'[c] = pc[c]
    BY <1>5, PublisherFrame, ThreadsDiffer DEF OthersStay
  <2>2. Leaving(c) => Leaving(c)'
    BY <2>1 DEF Leaving
  <2> QED BY <1>2, <1>3, <1>4, <1>5, <2>1, <2>2, PublisherKeepsLeft
<1>6. ASSUME NEW d \in Contexts, ContextStep(d), RecordDisturbance
      PROVE  LeftAt(c)'
  <2>1. CASE c # d
    <3>1. pc'[c] = pc[c]
      BY <1>6, <2>1, ContextFrame, ThreadsDiffer DEF OthersStay
    <3> QED BY <1>3, <1>4, <1>6, <2>1, <3>1, OthersKeepLeft
  <2>2. CASE c = d /\ pc[c] = "polling"
    <3>1. pc'[c] = "leave"
      BY <1>6, <2>2, ContextMoves DEF Leaving
    <3>2. ~Creating
      <4>1. ~Creating'
        BY <1>2, <1>6, <3>1 DEF Leaving
      <4> QED BY <1>6, <4>1, PublisherStays DEF Creating
    <3> QED BY <1>6, <2>2, <3>1, <3>2, LeaveBegins
  <2>3. CASE c = d /\ pc[c] # "polling"
    <3>1. ~disturbed[c]
      BY <1>6, <2>3, Undisturbed
    <3>2. Leaving(c)
      <4>1. ContextPlace(c)
        BY DEF Places
      <4> QED BY <1>6, <2>3, <4>1, ContextMoves
          DEF Leaving, ContextPlace, ContextLabels, NextWanted
    <3> QED BY <1>6, <2>3, <3>1, <3>2, ContextKeepsLeft DEF LeftSoFar
  <2> QED BY <2>1, <2>2, <2>3
<1>7. CASE getNumberOfSubscribers /\ RecordDisturbance
  <2>1. UNCHANGED <<pc, at, streams, mActiveSubscriptionsMap>>
    BY <1>7 DEF getNumberOfSubscribers
  <2> QED BY <1>4, <1>7, <2>1 DEF LeftAt, streams
<1>8. CASE unsubscribeAll /\ RecordDisturbance
  <2>1. pc'[c] = pc[c]
    BY <1>8, StopperFrame, ThreadsDiffer DEF OthersStay
  <2> QED BY <1>4, <1>8, <2>1, StopperKeepsLeft
<1> QED BY <1>1, <1>5, <1>6, <1>7, <1>8, StepCases

-----------------------------------------------------------------------------
(***************************************************************************)
(* unsubscribeAll purges undisturbed contexts.                             *)
(***************************************************************************)
\* What unsubscribeAll has taken from c stays away, if nobody gives it back.
LEMMA PurgedStays ==
    ASSUME NEW c \in Contexts, PurgedAt(c), pc'[S] = pc[S], at'[S] = at[S],
           UNCHANGED mStreamsMap,
           c \in DOMAIN mPendingSubscriptionRequests' =>
             c \in DOMAIN mPendingSubscriptionRequests,
           c \in mPendingSubscribeToAllRequests' => c \in mPendingSubscribeToAllRequests,
           \A s \in mStreamsMap : c \in DOMAIN mSubscribersMap'[s] =>
                                    c \in DOMAIN mSubscribersMap[s]
    PROVE  PurgedAt(c)'
BY DEF PurgedAt

\* A context that polls is given nothing by a context.
LEMMA ContextsKeepPurged ==
    ASSUME TypeOK, Places, NEW c \in Contexts, NEW d \in Contexts, ContextStep(d),
           Polling(c), Polling(c)', PurgedAt(c)
    PROVE  PurgedAt(c)'
<1>1. pc'[S] = pc[S] /\ at'[S] = at[S] /\ UNCHANGED mStreamsMap
  BY ContextFrame, ThreadsDiffer DEF OthersStay
<1>2. mStreamsMap \subseteq Streams
  BY DEF TypeOK
<1>3. c = d => pc[d] \notin {"request", "streams", "join"}
  BY DEF Polling
<1>4. c \in DOMAIN mPendingSubscriptionRequests' => c \in DOMAIN mPendingSubscriptionRequests
  BY <1>3, ContextRequests
<1>5. c \in mPendingSubscribeToAllRequests' => c \in mPendingSubscribeToAllRequests
  <2>1. \/ mPendingSubscribeToAllRequests' = mPendingSubscribeToAllRequests \cup {d} /\ c # d
        \/ mPendingSubscribeToAllRequests' = mPendingSubscribeToAllRequests \ {d}
        \/ mPendingSubscribeToAllRequests' = mPendingSubscribeToAllRequests
    BY <1>3, ContextRequests
  <2> QED BY <2>1
<1>6. ASSUME NEW s \in mStreamsMap, c \in DOMAIN mSubscribersMap'[s]
      PROVE  c \in DOMAIN mSubscribersMap[s]
  <2>1. \/ DOMAIN mSubscribersMap'[s] = DOMAIN mSubscribersMap[s] \cup {d} /\ c # d
        \/ DOMAIN mSubscribersMap'[s] = DOMAIN mSubscribersMap[s] \ {d}
        \/ DOMAIN mSubscribersMap'[s] = DOMAIN mSubscribersMap[s]
    BY <1>2, <1>3, ContextMembers
  <2> QED BY <1>6, <2>1
<1> QED BY <1>1, <1>4, <1>5, <1>6, PurgedStays

\* unsubscribeAll itself: first one kind of requests, then the other, then one
\* stream after the other.
LEMMA StopperPurges ==
    ASSUME TypeOK, Places, unsubscribeAll, NEW c \in Contexts, pc[S] # "idle" => PurgedAt(c)
    PROVE  PurgedAt(c)'
<1>1. UNCHANGED mStreamsMap /\ mStreamsMap \in SUBSET Nat /\ mStreamsMap \subseteq Streams
  BY StopperFrame, KeysAreNumbers DEF TypeOK
<1>2. at[S].s \in Nat /\ S \in Threads
  <2>1. at[S] \in Locals /\ S \in Threads
    BY ThreadsDiffer DEF TypeOK
  <2>2. at[S].s \in Streams \cup {0}
    BY <2>1 DEF Locals
  <2> QED BY <2>1, <2>2, KeysAreNumbers
<1>3. \A label : Goto(S, label) => pc'[S] = label
  BY <1>2 DEF Goto, TypeOK
<1>4. CASE StartPurge
  BY <1>3, <1>4 DEF StartPurge, PurgedAt
<1>5. CASE ClearWaiting
  <2>1. /\ pc[S] = "clear" /\ pc'[S] = "wipe" /\ at' = at /\ at[S].s = 0
        /\ mPendingSubscribeToAllRequests' = {} /\ UNCHANGED mPendingSubscriptionRequests
    BY <1>3, <1>5 DEF ClearWaiting, Places, StopperPlace
  <2>2. \A s \in mStreamsMap : ~(s <= 0)
    BY <1>1, OrderAssumption
  <2> QED BY <1>1, <2>1, <2>2 DEF PurgedAt
<1>6. CASE WipeStream
  <2> DEFINE s == Min(Above(mStreamsMap, at[S].s))
             l == [at[S] EXCEPT !.s = s]
  <2>1. s \in mStreamsMap /\ \A z \in mStreamsMap : z > at[S].s => z >= s
    BY <1>1, <1>2, <1>6, NextKey DEF WipeStream
  <2>2. DOMAIN mSubscribersMap'[s] = {}
    BY <1>1, <1>6, <2>1, StopperMembers
  <2>3. at' = [at EXCEPT ![S] = l] /\ pc[S] = "wipe" /\ UNCHANGED <<pc, pending>>
    BY <1>6 DEF WipeStream
  <2> HIDE DEF s
  <2>4. l.s = s
    BY ThreadsDiffer DEF TypeOK, Locals
  <2> HIDE DEF l
  <2>5. at'[S].s = s
    BY <1>2, <2>3, <2>4 DEF TypeOK
  <2>6. ASSUME NEW z \in mStreamsMap, z <= s
        PROVE  c \notin DOMAIN mSubscribersMap'[z]
    <3>1. z <= at[S].s \/ z = s
      BY <1>1, <1>2, <2>1, <2>6
    <3>2. CASE z <= at[S].s
      BY <1>1, <1>6, <2>3, <3>2, StopperMembers DEF PurgedAt
    <3>3. CASE z = s
      BY <2>2, <3>3
    <3> QED BY <3>1, <3>2, <3>3
  <2>7. c \notin DOMAIN mPendingSubscriptionRequests' /\ c \notin mPendingSubscribeToAllRequests'
    BY <2>3 DEF PurgedAt, pending
  <2>8. pc'[S] = "wipe"
    BY <2>3
  <2> QED BY <1>1, <2>5, <2>6, <2>7, <2>8 DEF PurgedAt
<1>7. CASE EndPurge
  <2>1. /\ pc[S] = "wipe" /\ pc'[S] = "stopped" /\ Above(mStreamsMap, at[S].s) = {}
        /\ UNCHANGED <<mSubscribersMap, pending>>
    BY <1>3, <1>7 DEF EndPurge, maps, streams
  <2>2. \A s \in mStreamsMap : s <= at[S].s
    BY <1>1, <1>2, <2>1 DEF Above
  <2> QED BY <1>1, <2>1, <2>2 DEF PurgedAt, pending
<1> QED BY <1>4, <1>5, <1>6, <1>7 DEF unsubscribeAll

\* Each step keeps the purge as far as it has come.
LEMMA NextPurged ==
    ASSUME TypeOK, Places, Recorded, PurgedSoFar, TypeOK', [Next]_vars
    PROVE  PurgedSoFar'
<1> SUFFICES ASSUME NEW c \in Contexts, ~disturbed'[c], Polling(c)', pc'[S] # "idle"
             PROVE  PurgedAt(c)'
  BY DEF PurgedSoFar
<1>1. CASE UNCHANGED vars
  BY <1>1 DEF vars, maps, streams, pending, PurgedSoFar, PurgedAt, Polling
<1>2. ASSUME RecordDisturbance, pc[S] # "idle"
      PROVE  ~disturbed[c] /\ ~Creating /\ ~Creating' /\ ~Subscribing(c)
  <2>1. ~Disturbs(c)' /\ ~Creating' /\ ~disturbed[c]
    <3>1. ~(pc[c] = "polling" /\ pc'[c] = "leave")
      BY DEF Polling
    <3> QED BY <1>2, <3>1, Undisturbed DEF Disturbs
  <2> QED BY <1>2, <2>1 DEF Recorded, Disturbs
<1>3. CASE enqueuePacket /\ RecordDisturbance
  <2>1. pc'[c] = pc[c] /\ pc'[S] = pc[S] /\ at'[S] = at[S]
    BY <1>3, PublisherFrame, ThreadsDiffer DEF OthersStay
  <2>2. PurgedAt(c)
    BY <1>2, <1>3, <2>1 DEF PurgedSoFar, Polling
  <2>3. /\ UNCHANGED <<mStreamsMap, pending>>
        /\ \A s \in Streams : DOMAIN mSubscribersMap'[s] = DOMAIN mSubscribersMap[s]
    BY <1>2, <1>3, <2>1, QuietPublisher
  <2> QED BY <2>1, <2>2, <2>3, PurgedStays DEF pending, TypeOK
<1>4. ASSUME NEW d \in Contexts, ContextStep(d), RecordDisturbance
      PROVE  PurgedAt(c)'
  <2>1. pc[S] # "idle"
    BY <1>4, ContextFrame, ThreadsDiffer DEF OthersStay
  <2>2. Polling(c)
    <3>1. CASE c # d
      BY <1>4, <3>1, ContextFrame, ThreadsDiffer DEF OthersStay, Polling
    <3>2. CASE c = d
      <4>1. ContextPlace(c) /\ ~Subscribing(c)
        BY <1>2, <1>4, <2>1 DEF Places
      <4> QED BY <1>4, <3>2, <4>1, ContextMoves
          DEF Polling, Subscribing, ContextPlace, ContextLabels, NextWanted
    <3> QED BY <3>1, <3>2
  <2> QED BY <1>2, <1>4, <2>1, <2>2, ContextsKeepPurged DEF PurgedSoFar
<1>5. CASE getNumberOfSubscribers /\ RecordDisturbance
  BY <1>2, <1>5 DEF getNumberOfSubscribers, streams, pending, PurgedSoFar, PurgedAt, Polling
<1>6. CASE unsubscribeAll /\ RecordDisturbance
  <2>1. pc'[c] = pc[c]
    BY <1>6, StopperFrame, ThreadsDiffer DEF OthersStay
  <2>2. pc[S] # "idle" => PurgedAt(c)
    BY <1>2, <1>6, <2>1 DEF PurgedSoFar, Polling
  <2> QED BY <1>6, <2>2, StopperPurges
<1> QED BY <1>1, <1>3, <1>4, <1>5, <1>6, StepCases

-----------------------------------------------------------------------------
(***************************************************************************)
(* The theorems.                                                           *)
(***************************************************************************)
\* Init establishes the invariant: there are no streams, and no RPC has begun.
LEMMA InitType == ASSUME Init PROVE TypeOK
<1>1. at \in [Threads -> Locals]
  BY LocalsUpdate DEF Init, NoLocals, Locals
<1>2. pc \in [Threads -> Labels]
  BY DEF Init, Labels
<1>3. mNumberOfSubscribers \in -1..Cardinality(Contexts)
  BY OrderAssumption, FS_CardinalityType DEF Init
<1>4. IsQueueMap(NoSubscribers)
  BY NoSubscribersType
<1> QED BY <1>1, <1>2, <1>3, <1>4 DEF Init, TypeOK

\* The inductive invariant holds at first, ...
LEMMA InitInv == ASSUME Init PROVE IInv
<1>1. TypeOK
  BY InitType
<1>2. /\ pc[P] = "idle" /\ pc[S] = "idle" /\ at[P] = NoLocals /\ at[S] = NoLocals
      /\ \A c \in Contexts : pc[c] = "new" /\ at[c] = NoLocals /\ disturbed[c] = FALSE
  BY ThreadsDiffer DEF Init
<1>3. \A s \in Streams : DOMAIN mSubscribersMap[s] = {}
  BY DEF Init, NoSubscribers
<1>4. /\ mPendingSubscribeToAllRequests = {} /\ DOMAIN mPendingSubscriptionRequests = {}
      /\ mStreamsMap = {} /\ mNumberOfSubscribers = -1
      /\ \A c \in Contexts : mActiveSubscriptionsMap[c] = {}
      /\ \A s \in Streams : mMostRecentPacket[s] = 0 /\ mMutex[s] = Free
      /\ \A c \in Contexts, s \in Streams : returned[c][s] = 0
  BY DEF Init
<1>5. Places
  BY <1>2, <1>4 DEF Places, PublisherPlace, PublisherLabels, StopperPlace, StopperLabels,
        Kinds, ContextPlace, ContextLabels, NoLocals
<1>6. Mutexes
  <2>1. Free # P /\ Free # S /\ \A c \in Contexts : Free # c
    BY ThreadsDiffer
  <2> QED BY <1>2, <1>4, <2>1 DEF Mutexes, FansOut
<1>7. StreamsAreCreated
  BY <1>3, <1>4 DEF StreamsAreCreated
<1>8. Runs /\ InOrder
  BY <1>3 DEF Runs, InOrder
<1>9. Returns
  BY <1>2, <1>4 DEF Returns, Reach, FansOut, Unadmitted
<1>10. Requests
  BY <1>2, <1>3, <1>4
  DEF Requests, OnlyAsked, FiledRequests, WaitsForAll, AdmitsAsked, Admitting
<1>11. Registered
  <2>1. \A c \in Contexts : Handled(c) = {}
    BY <1>2 DEF Handled, HandledAt
  <2> QED BY <1>2, <1>4, <2>1 DEF Registered, RegisteredAt, Present, Subscribing, Polling
<1>12. CountCoversPolling
  BY <1>4 DEF CountCoversPolling
<1>13. Recorded
  BY <1>2 DEF Recorded, Disturbs, Subscribing, Leaving, Creating
<1>14. ServedSoFar
  BY <1>2 DEF ServedSoFar, ServedAt, Present, Subscribing, Polling
<1>15. LeftSoFar /\ PurgedSoFar
  BY <1>2 DEF LeftSoFar, PurgedSoFar, Leaving, Polling
<1>16. Underruns /\ Room
  BY <1>2, <1>3 DEF Init, Underruns, Room, IsUnderrun
<1> QED
  BY <1>1, <1>5, <1>6, <1>7, <1>8, <1>9, <1>10, <1>11, <1>12, <1>13, <1>14, <1>15, <1>16
  DEF IInv

\* ... and each step keeps it.
LEMMA NextInv == ASSUME IInv, [Next]_vars PROVE IInv'
<1> USE DEF IInv
<1>1. TypeOK'
  BY NextType
<1>2. Places' /\ Mutexes' /\ StreamsAreCreated'
  BY NextPlaces, NextMutexes, StreamsStayCreated
<1>3. Underruns' /\ Room' /\ Runs' /\ Returns' /\ InOrder'
  BY <1>1, NextUnderruns, NextRoom, NextRuns, NextReturns
<1>4. Requests' /\ Registered' /\ CountCoversPolling'
  BY <1>1, <1>2, NextRequests, NextRegistered, NextCount
<1>5. Recorded' /\ ServedSoFar' /\ LeftSoFar' /\ PurgedSoFar'
  BY <1>1, <1>2, NextRecorded, NextServed, NextLeft, NextPurged
<1> QED BY <1>1, <1>2, <1>3, <1>4, <1>5

\* In every state that the threads reach, in any order of their steps, the
\* inductive invariant holds.
THEOREM Invariance == Spec => []IInv
<1>1. Init => IInv
  BY InitInv
<1>2. IInv /\ [Next]_vars => IInv'
  BY NextInv
<1> QED BY <1>1, <1>2, PTL DEF Spec

\* The types of the maps, and of the local variables of every thread.
THEOREM TypeCorrect == Spec => []TypeOK
<1>1. IInv => TypeOK
  BY DEF IInv
<1> QED BY <1>1, Invariance, PTL

\* What a queue holds is a run without gaps, at most as long as the maximum size, and
\* ends in the newest packet: although getNextPacket pops without the mutex between
\* the size test, the pop and the push of setNextPacket, and subscribe, unsubscribe
\* and unsubscribeAll run at the same time.
THEOREM QueuesAreRuns == Spec => []QueueIsRun
<1>1. ASSUME IInv, NEW s \in Streams, NEW c \in DOMAIN mSubscribersMap[s],
             NEW queue, queue = mSubscribersMap[s][c]
      PROVE  /\ Len(queue) <= MaximumQueueSize
             /\ \A i \in 1..Len(queue) - 1 : queue[i + 1] = queue[i] + 1
             /\ (queue # <<>> /\ ~FansOut(s)) => Last(queue) = mMostRecentPacket[s]
             /\ IsUnderrun(s, c) => queue = <<>>
  <2>1. /\ IsRun(queue, Reach(s, c)) /\ Reach(s, c) \in Nat
        /\ queue \in Seq(Nat) /\ Len(queue) \in Nat
    <3>1. queue \in Seq(Nat)
      BY <1>1 DEF IInv, TypeOK, IsQueueMap
    <3>2. Reach(s, c) \in Nat
      BY <1>1, ReachType DEF IInv
    <3> QED BY <1>1, <3>1, <3>2 DEF IInv, Runs
  <2>2. ASSUME NEW i \in 1..Len(queue) - 1
        PROVE  queue[i + 1] = queue[i] + 1
    <3>1. i \in 1..Len(queue) /\ i + 1 \in 1..Len(queue)
      BY <2>1
    <3> QED BY <2>1, <3>1 DEF IsRun
  <2>3. ASSUME queue # <<>>, ~FansOut(s)
        PROVE  Last(queue) = mMostRecentPacket[s]
    <3>1. Len(queue) \in 1..Len(queue)
      BY <2>1, <2>3
    <3>2. queue[Len(queue)] = Reach(s, c) - Len(queue) + Len(queue)
      BY <2>1, <3>1 DEF IsRun
    <3>3. queue[Len(queue)] = Reach(s, c)
      BY <2>1, <3>2
    <3> QED BY <2>3, <3>3 DEF Last, Reach
  <2>4. IsUnderrun(s, c) => queue = <<>>
    <3>1. c \in Contexts
      BY <1>1 DEF IInv, TypeOK, IsQueueMap
    <3> QED BY <1>1, <3>1 DEF IInv, Underruns
  <2> QED BY <2>1, <2>2, <2>3, <2>4 DEF IsRun
<1>2. IInv => QueueIsRun
  BY <1>1 DEF QueueIsRun
<1> QED BY <1>2, Invariance, PTL

\* getPackets returns the packets of a stream in their order, and none twice.
THEOREM ReturnedInOrder == Spec => []InOrder
<1>1. IInv => InOrder
  BY DEF IInv
<1> QED BY <1>1, Invariance, PTL

\* The cached count never hides an RPC whose subscribe call has returned.
THEOREM CountIsEnough == Spec => []CountCoversPolling
<1>1. IInv => CountCoversPolling
  BY DEF IInv
<1> QED BY <1>1, Invariance, PTL

\* A subscribe call that no creation of a stream overlaps is never lost.
THEOREM UndisturbedAreServed == Spec => []ServedUnlessDisturbed
<1>1. ASSUME IInv, NEW c \in Contexts, Polling(c), ~Creating, ~disturbed[c], pc[S] = "idle"
      PROVE  Served(c)
  <2>1. ServedAt(c)
    BY <1>1 DEF IInv, ServedSoFar
  <2>2. Handled(c) = Names(c)
    BY <1>1 DEF Handled, HandledAt, Polling
  <2>3. ASSUME NEW s \in Wanted(c)
        PROVE  s \in mStreamsMap /\ s \in Names(c)
    <3>1. s \in mStreamsMap /\ mStreamsMap \subseteq Streams
      BY <1>1, <2>3 DEF Wanted, IInv, TypeOK
    <3>2. CASE Request[c].all
      BY <3>1, <3>2 DEF Names
    <3>3. CASE ~Request[c].all
      BY <2>3, <3>1, <3>3 DEF Names, Wanted, Range
    <3> QED BY <3>2, <3>3
  <2>4. \A s : ~Coming(c, s)
    BY <1>1 DEF Coming, Unadmitted, Creating
  <2> QED BY <1>1, <2>1, <2>2, <2>3, <2>4
      DEF Served, ServedAt, Present, OnStream, isSubscribed
<1>2. IInv => ServedUnlessDisturbed
  BY <1>1 DEF ServedUnlessDisturbed
<1> QED BY <1>2, Invariance, PTL

\* A call of unsubscribeFromAll that nothing overlaps leaves no trace of its RPC,
\* and nobody brings it back.
THEOREM UndisturbedAreForgotten == Spec => []ForgottenUnlessDisturbed
<1>1. ASSUME IInv, NEW c \in Contexts, pc[c] = "gone", ~disturbed[c]
      PROVE  Forgotten(c)
  <2>1. LeftAt(c) /\ FiledRequests(c) /\ WaitsForAll(c)
    BY <1>1 DEF IInv, LeftSoFar, Requests
  <2>2. c \notin AllSubscribers
    BY <1>1, <2>1 DEF LeftAt, FiledRequests, WaitsForAll, AllSubscribers
  <2>3. \A s \in Streams : c \notin DOMAIN mSubscribersMap[s]
    BY <1>1, <2>1 DEF LeftAt, IInv, StreamsAreCreated
  <2> QED BY <2>2, <2>3 DEF Forgotten
<1>2. IInv => ForgottenUnlessDisturbed
  BY <1>1 DEF ForgottenUnlessDisturbed
<1> QED BY <1>2, Invariance, PTL

\* unsubscribeAll leaves nothing of an RPC that nothing disturbed, although it holds
\* no mutex of the publisher's nor of those who come and leave.
THEOREM UndisturbedArePurged == Spec => []PurgedUnlessDisturbed
<1>1. ASSUME IInv, pc[S] = "stopped", NEW c \in Contexts, Polling(c), ~disturbed[c]
      PROVE  /\ c \notin DOMAIN mPendingSubscriptionRequests
             /\ c \notin mPendingSubscribeToAllRequests
             /\ \A s \in Streams : ~isSubscribed(mSubscribersMap[s], c)
  <2>1. PurgedAt(c)
    BY <1>1 DEF IInv, PurgedSoFar
  <2> QED BY <1>1, <2>1 DEF PurgedAt, IInv, StreamsAreCreated, isSubscribed
<1>2. IInv => PurgedUnlessDisturbed
  BY <1>1 DEF PurgedUnlessDisturbed
<1> QED BY <1>2, Invariance, PTL
===============================================================================
