--------------------------- MODULE AsyncWriterProofs ---------------------------
(***************************************************************************)
(* Theorems about AsyncWriter, for any contexts, streams and requests, any *)
(* limits and any number of packets.                                       *)
(***************************************************************************)
EXTENDS AsyncWriter, FiniteSetTheorems, TLAPS

\* How far a reactor is says what may have happened to it: a deleted one is as
\* new, the constructor comes before every reaction and meets no packet, a write
\* keeps the thread in gRPC's hands, and Finish ends an admitted call.
PhaseOf(r) ==
    /\ r.pc = "none" => r = NoReactor
    /\ r.pc \in {"admit", "subscribe"} =>
         ~r.constructed /\ ~r.mSubscribed /\ r.mPacketsQueue = <<>>
    /\ r.pc = "admit" => r.finishes = 0
    /\ r.onCancel # "no" => r.constructed
    /\ r.mWriteInProgress => r.pc = "idle"
    /\ r.writing # Nothing =>
         /\ r.mWriteInProgress
         /\ r.mPacketsQueue # <<>> /\ Head(r.mPacketsQueue) = r.writing
    /\ ~r.refused => \/ r.finishes = 0
                     \/ r.finishes = 1 /\ r.pc = "idle" /\ r.writing = Nothing

Phases == \A c \in Contexts : PhaseOf(rpc[c])

\* The manager knows of a context only while its reactor says so, and keeps
\* packets only of streams that interest it.
Interests ==
    \A c \in Contexts :
        /\ ~rpc[c].mSubscribed => interest[c] = {}
        /\ \A s \in Streams \ interest[c] : outbox[c][s] = <<>>

\* A client that was sent packets up to f, whose reactor holds q and for which
\* the manager holds o while the newest packets are those of p: nothing is newer
\* than the newest, and everything is in order.
Sent(f, q, o, p) ==
    /\ \A s \in Streams :
         /\ f[s] <= p[s]
         /\ \A i \in DOMAIN o[s] : f[s] < o[s][i] /\ o[s][i] <= p[s]
         /\ \A i, j \in DOMAIN o[s] : i < j => o[s][i] < o[s][j]
    /\ \A i \in DOMAIN q :
         /\ f[q[i].stream] < q[i].number /\ q[i].number <= p[q[i].stream]
         /\ \A j \in DOMAIN o[q[i].stream] : q[i].number < o[q[i].stream][j]
    /\ Ordered(q)

AllSent ==
    \A c \in Contexts : Sent(flushed[c], rpc[c].mPacketsQueue, outbox[c], published)

\* The inductive invariant.
IInv == TypeOK /\ Phases /\ Interests /\ AllSent

USE RequestAssumption, LimitsAssumption, ManagerAssumption

-----------------------------------------------------------------------------
(***************************************************************************)
(* The operators of the reactor and of the manager.                        *)
(***************************************************************************)
\* There are finitely many packets.
LEMMA PacketsFinite == IsFiniteSet(Packet)
<1> DEFINE Pairs == Streams \X (1..MaximumPackets)
           f == [p \in Packet |-> <<p.stream, p.number>>]
<1>1. IsFiniteSet(Pairs)
  <2>1. IsFiniteSet(1..MaximumPackets) BY FS_Interval
  <2> QED BY <2>1, FS_Product
<1>2. f \in Injection(Packet, Pairs)
  <2>1. f \in [Packet -> Pairs] BY DEF Packet
  <2>2. ASSUME NEW p \in Packet, NEW r \in Packet, f[p] = f[r]
        PROVE  p = r
    <3>1. p.stream = r.stream /\ p.number = r.number BY <2>2
    <3> QED BY <3>1 DEF Packet
  <2> QED BY <2>1, <2>2 DEF Injection, IsInjective
<1> QED BY <1>1, <1>2, FS_Injection

\* An arrangement of a set of packets is a sequence of its members.
LEMMA ArrangementIsSeq ==
    ASSUME NEW S \in SUBSET Packet, NEW q \in SetToSeqs(S)
    PROVE  /\ q \in Seq(Packet)
           /\ \A i \in DOMAIN q : q[i] \in S
<1>1. IsFiniteSet(S) BY PacketsFinite, FS_Subset
<1>2. Cardinality(S) \in Nat BY <1>1, FS_CardinalityType
<1>3. q \in [1..Cardinality(S) -> S] BY DEF SetToSeqs
<1> QED BY <1>2, <1>3

\* Newest is a bounded end of its argument.
LEMMA NewestIsEnd ==
    ASSUME NEW q \in Seq(Packet)
    PROVE  /\ Newest(q) \in Seq(Packet)
           /\ Len(Newest(q)) <= MaximumWriterQueueSize + 1
           /\ \E k \in Nat : \A i \in 1..Len(Newest(q)) :
                i + k \in 1..Len(q) /\ Newest(q)[i] = q[i + k]
<1> DEFINE n == Len(q) - MaximumWriterQueueSize
           m == Max({1, n})
<1>1. n \in Int /\ Len(q) \in Nat OBVIOUS
<1>2. m = IF n > 1 THEN n ELSE 1
  <2> HIDE DEF n
  <2>1. \E x \in {1, n} : \A y \in {1, n} : x >= y BY <1>1
  <2>2. m \in {1, n} /\ \A y \in {1, n} : m >= y BY <2>1 DEF Max
  <2> QED BY <1>1, <2>2
<1>3. m \in Nat \ {0} BY <1>1, <1>2
<1>4. Newest(q) = SubSeq(q, m, Len(q)) BY DEF Newest
<1> HIDE DEF m
<1>5. /\ Newest(q) \in Seq(Packet)
      /\ Len(Newest(q)) = IF m <= Len(q) THEN Len(q) - m + 1 ELSE 0
      /\ \A i \in 1..Len(Newest(q)) : Newest(q)[i] = q[i + (m - 1)]
  BY <1>3, <1>4
<1>6. Len(Newest(q)) <= MaximumWriterQueueSize + 1
  <2>1. m >= n BY <1>1, <1>2
  <2> QED BY <1>1, <1>3, <1>5, <2>1
<1>7. \A i \in 1..Len(Newest(q)) : i + (m - 1) \in 1..Len(q) BY <1>3, <1>5
<1>8. m - 1 \in Nat BY <1>3
<1> QED BY <1>5, <1>6, <1>7, <1>8

\* Finish counts up to two.
LEMMA FinishCounts ==
    ASSUME NEW n \in Nat, NEW f \in 0..2
    PROVE  /\ Finish(n, f) \in 0..2
           /\ n + f <= 1 => Finish(n, f) = n + f
BY DEF Finish

\* The first n elements of a sequence are those of another after its first k.
Shifted(new, n, old, k) ==
    \A i \in 1..n : i + k \in 1..Len(old) /\ new[i] = old[i + k]

\* A delivery appends a packet, to all that was there or to all but the first.
LEMMA DeliverProperties ==
    ASSUME NEW box \in Seq(1..MaximumPackets), NEW packet \in 1..MaximumPackets,
           NEW delivered, delivered = Manager!Deliver(box, packet)
    PROVE  /\ delivered \in Seq(1..MaximumPackets)
           /\ Len(delivered) > 0 /\ delivered[Len(delivered)] = packet
           /\ \E k \in 0..1 : Shifted(delivered, Len(delivered) - 1, box, k)
<1> DEFINE kept == IF Len(box) >= MaximumQueueSize THEN Tail(box) ELSE box
           k == IF Len(box) >= MaximumQueueSize THEN 1 ELSE 0
<1>1. /\ kept \in Seq(1..MaximumPackets)
      /\ k \in 0..1
      /\ Len(kept) = Len(box) - k
      /\ \A i \in 1..Len(kept) : i + k \in 1..Len(box) /\ kept[i] = box[i + k]
  <2>1. CASE Len(box) >= MaximumQueueSize
    <3>1. box # <<>> BY <2>1
    <3>2. /\ Tail(box) \in Seq(1..MaximumPackets)
          /\ Len(Tail(box)) = Len(box) - 1
          /\ \A i \in 1..Len(Tail(box)) : Tail(box)[i] = box[i + 1]
      BY <3>1
    <3> QED BY <2>1, <3>2
  <2>2. CASE ~(Len(box) >= MaximumQueueSize) BY <2>2
  <2> QED BY <2>1, <2>2
<1>2. Manager!Deliver(box, packet) = Append(kept, packet) BY DEF Manager!Deliver
<1> HIDE DEF kept, k
<1> DEFINE new == Append(kept, packet)
<1>3. /\ new \in Seq(1..MaximumPackets)
      /\ Len(new) = Len(kept) + 1 /\ new[Len(new)] = packet
      /\ \A i \in 1..Len(kept) : new[i] = kept[i]
  BY <1>1
<1> HIDE DEF new
<1>4. \A i \in 1..(Len(new) - 1) : i + k \in 1..Len(box) /\ new[i] = box[i + k]
  <2>1. Len(kept) \in Nat BY <1>1
  <2>2. 1..(Len(new) - 1) = 1..Len(kept) BY <1>3, <2>1
  <2> QED BY <1>1, <1>3, <2>2
<1>5. Len(new) > 0 BY <1>1, <1>3
<1>6. new = delivered BY <1>2 DEF new
<1>7. Shifted(new, Len(new) - 1, box, k) BY <1>4 DEF Shifted
<1> QED BY <1>1, <1>3, <1>5, <1>6, <1>7

ManagerTypes ==
    /\ published \in [Streams -> 0..MaximumPackets]
    /\ interest \in [Contexts -> SUBSET Streams]
    /\ outbox \in [Contexts -> [Streams -> Seq(1..MaximumPackets)]]

\* The manager's operations keep its types.
LEMMA ManagerType ==
    ASSUME ManagerTypes,
           \/ \E s \in Streams : Manager!Publish(s)
           \/ \E c \in Contexts, S \in SUBSET Streams : Manager!Want(c, S)
           \/ \E c \in Contexts : Manager!Fetch(c)
           \/ \E C \in SUBSET Contexts : Manager!Leave(C)
           \/ UNCHANGED manager
    PROVE  ManagerTypes'
<1> USE DEF ManagerTypes
<1> DEFINE Boxes == Seq(1..MaximumPackets)
<1>1. ASSUME NEW s \in Streams, Manager!Publish(s)
      PROVE  ManagerTypes'
  <2>1. /\ published[s] + 1 \in 1..MaximumPackets
        /\ published' \in [Streams -> 0..MaximumPackets]
    BY <1>1 DEF Manager!Publish
  <2>2. \A box \in Boxes, packet \in 1..MaximumPackets :
           Manager!Deliver(box, packet) \in Boxes
    BY DeliverProperties
  <2>3. outbox' \in [Contexts -> [Streams -> Boxes]]
    BY <1>1, <2>1, <2>2 DEF Manager!Publish
  <2> QED BY <1>1, <2>1, <2>3 DEF Manager!Publish
<1>2. ASSUME NEW c \in Contexts, NEW S \in SUBSET Streams, Manager!Want(c, S)
      PROVE  ManagerTypes'
  BY <1>2 DEF Manager!Want
<1>3. ASSUME NEW c \in Contexts, Manager!Fetch(c)
      PROVE  ManagerTypes'
  <2>1. PICK taken \in [Streams -> 0..MaximumQueueSize] :
          outbox' = [outbox EXCEPT ![c] =
                       [s \in Streams |-> SubSeq(@[s], taken[s] + 1, Len(@[s]))]]
    BY <1>3 DEF Manager!Fetch
  <2>2. \A s \in Streams :
          SubSeq(outbox[c][s], taken[s] + 1, Len(outbox[c][s])) \in Boxes
    OBVIOUS
  <2>3. outbox' \in [Contexts -> [Streams -> Boxes]] BY <2>1, <2>2
  <2> QED BY <1>3, <2>3 DEF Manager!Fetch
<1>4. ASSUME NEW C \in SUBSET Contexts, Manager!Leave(C)
      PROVE  ManagerTypes'
  <2>1. Manager!EmptyOutbox \in [Streams -> Boxes] BY DEF Manager!EmptyOutbox
  <2> QED BY <1>4, <2>1 DEF Manager!Leave
<1>5. ASSUME UNCHANGED manager PROVE ManagerTypes' BY <1>5 DEF manager
<1> QED BY <1>1, <1>2, <1>3, <1>4, <1>5

-----------------------------------------------------------------------------
\* The invariant holds at first.
LEMMA InitInv == Init => IInv
<1> SUFFICES ASSUME Init PROVE IInv OBVIOUS
<1> USE DEF Init, Manager!Init
<1>1. NoReactor \in Reactors BY DEF NoReactor, Reactors
<1>2. TypeOK
  <2>1. \A c \in Contexts : Len(rpc[c].mPacketsQueue) = 0 BY DEF NoReactor
  <2>2. Manager!EmptyOutbox \in [Streams -> Seq(1..MaximumPackets)]
    BY DEF Manager!EmptyOutbox
  <2>3. ManagerTypes BY <2>2 DEF ManagerTypes
  <2>4. /\ rpc \in [Contexts -> Reactors]
        /\ \A c \in Contexts :
             Len(rpc[c].mPacketsQueue) <= MaximumWriterQueueSize + 1
    BY <1>1, <2>1
  <2> QED BY <2>3, <2>4 DEF TypeOK, ManagerTypes
<1>3. Phases BY DEF Phases, PhaseOf, NoReactor
<1>4. Interests BY DEF Interests, NoReactor, Manager!EmptyOutbox
<1>5. AllSent BY DEF AllSent, Sent, Ordered, NoReactor, Manager!EmptyOutbox
<1> QED BY <1>2, <1>3, <1>4, <1>5 DEF IInv

-----------------------------------------------------------------------------
(***************************************************************************)
(* Types.                                                                  *)
(***************************************************************************)
\* Whatever happens is one operation of the manager, or none.
LEMMA ManagerStep ==
    ASSUME [Next]_vars
    PROVE  \/ \E s \in Streams : Manager!Publish(s)
           \/ \E c \in Contexts, S \in SUBSET Streams : Manager!Want(c, S)
           \/ \E c \in Contexts : Manager!Fetch(c)
           \/ \E C \in SUBSET Contexts : Manager!Leave(C)
           \/ UNCHANGED manager
<1> USE DEF manager
<1>1. CASE \E s \in Streams : enqueuePacket(s) BY <1>1 DEF enqueuePacket
<1>2. ASSUME NEW c \in Contexts, Connect(c) \/ Cancel(c) PROVE UNCHANGED manager
  BY <1>2 DEF Connect, Cancel, Goto
<1>3. ASSUME NEW c \in Contexts, Reactor(c)
      PROVE  \/ Manager!Want(c, Request[c]) \/ Manager!Fetch(c)
             \/ Manager!Leave({c}) \/ UNCHANGED manager
  BY <1>3 DEF Reactor, Admit, Subscribe, SubscribeToNothing, Poll, StartWrite,
              GetPackets, Leave, Unsubscribe, FinishCall
<1>4. ASSUME NEW c \in Contexts, Reaction(c)
      PROVE  Manager!Leave({c}) \/ UNCHANGED manager
  BY <1>4 DEF Reaction, OnWriteDone, OnCancel, OnCancelUnsubscribe, OnDone
<1>5. CASE start \/ StopRunning \/ Stopping \/ StopAgain
  BY <1>5 DEF start, StopRunning, Stopping, StopAgain, PurgeSubscribers, Shutdown,
              NoShutdown, ShutdownReturns, Advance
<1>6. CASE UNCHANGED vars BY <1>6 DEF vars
<1>7. \A c \in Contexts : {c} \in SUBSET Contexts /\ Request[c] \in SUBSET Streams
  OBVIOUS
<1> QED BY <1>1, <1>2, <1>3, <1>4, <1>5, <1>6, <1>7 DEF Next

\* A reactor whose members are right.
Good(r) == /\ r \in Reactors
           /\ Len(r.mPacketsQueue) <= MaximumWriterQueueSize + 1
           /\ PhaseOf(r)

GoodReactors == rpc \in [Contexts -> Reactors] /\ \A c \in Contexts : Good(rpc[c])

\* A step of one reactor.
Becomes(c, r) == rpc' = [rpc EXCEPT ![c] = r]

\* The constructor keeps a reactor right.
LEMMA ConstructorIsGood ==
    ASSUME GoodReactors, NEW c \in Contexts,
           Connect(c) \/ Admit(c) \/ Subscribe(c) \/ SubscribeToNothing(c)
    PROVE  \E r : Becomes(c, r) /\ Good(r)
<1> DEFINE old == rpc[c]
<1>1. old \in Reactors /\ Good(old) BY DEF GoodReactors
<1>2. CASE Connect(c)
  <2> DEFINE r == [old EXCEPT !.pc = "admit"]
  <2>1. Becomes(c, r) BY <1>2 DEF Connect, Goto, Becomes, GoodReactors
  <2>2. old = NoReactor BY <1>1, <1>2 DEF Connect, Good, PhaseOf
  <2>3. r \in Reactors BY <1>1 DEF Reactors
  <2>4. Good(r) BY <1>1, <2>2, <2>3 DEF Good, PhaseOf, NoReactor
  <2> QED BY <2>1, <2>4
<1>3. CASE Admit(c)
  <2>1. PICK n \in 0..2, refused \in BOOLEAN :
          /\ n > 0 => refused
          /\ rpc' = [rpc EXCEPT ![c].pc = "subscribe",
                                ![c].finishes = Finish(n, @),
                                ![c].refused = refused]
    <3>1. PICK validated \in BOOLEAN, k \in 0..Cardinality(Contexts) :
            LET exhausted == k >= MaximumNumberOfSubscribers
                refusals  == (IF validated THEN 0 ELSE 1) + (IF exhausted THEN 1 ELSE 0)
            IN  rpc' = [rpc EXCEPT ![c].pc = "subscribe",
                                   ![c].finishes = Finish(refusals, @),
                                   ![c].refused = refusals > 0]
      BY <1>3 DEF Admit
    <3> DEFINE n == (IF validated THEN 0 ELSE 1)
                    + (IF k >= MaximumNumberOfSubscribers THEN 1 ELSE 0)
    <3>2. n \in 0..2 /\ (n > 0) \in BOOLEAN OBVIOUS
    <3> QED BY <3>1, <3>2
  <2> DEFINE f == Finish(n, old.finishes)
             r == [old EXCEPT !.pc = "subscribe", !.finishes = f, !.refused = refused]
  <2>2. Becomes(c, r) BY <2>1 DEF Becomes, GoodReactors
  <2>3. old.finishes = 0 /\ old.pc = "admit"
    BY <1>1, <1>3 DEF Admit, Good, PhaseOf
  <2>4. f = n BY <2>3 DEF Finish
  <2> HIDE DEF f
  <2>5. r \in Reactors BY <1>1, <2>4 DEF Reactors
  <2>6. Good(r) BY <1>1, <2>1, <2>3, <2>4, <2>5 DEF Good, PhaseOf, Reactors
  <2> QED BY <2>2, <2>6
<1>4. CASE Subscribe(c)
  <2> DEFINE r == [old EXCEPT !.pc = "poll", !.mSubscribed = TRUE]
  <2>1. Becomes(c, r) BY <1>4 DEF Subscribe, Becomes, GoodReactors
  <2>2. old.pc = "subscribe" BY <1>4 DEF Subscribe
  <2>3. r \in Reactors BY <1>1 DEF Reactors
  <2>4. Good(r) BY <1>1, <2>2, <2>3 DEF Good, PhaseOf, Reactors
  <2> QED BY <2>1, <2>4
<1>5. CASE SubscribeToNothing(c)
  <2> DEFINE f == Finish(3, old.finishes)
             r == [old EXCEPT !.pc = "poll", !.finishes = f, !.refused = TRUE]
  <2>1. Becomes(c, r) BY <1>5 DEF SubscribeToNothing, Becomes, GoodReactors
  <2>2. old.pc = "subscribe" BY <1>5 DEF SubscribeToNothing
  <2>3. f \in 0..2 BY <1>1, FinishCounts DEF Reactors
  <2> HIDE DEF f
  <2>4. r \in Reactors BY <1>1, <2>3 DEF Reactors
  <2>5. Good(r) BY <1>1, <2>2, <2>3, <2>4 DEF Good, PhaseOf, Reactors
  <2> QED BY <2>1, <2>5
<1> QED BY <1>2, <1>3, <1>4, <1>5

\* nextWrite keeps a reactor right.
LEMMA NextWriteIsGood ==
    ASSUME GoodReactors, NEW c \in Contexts,
           \/ Poll(c) \/ StartWrite(c) \/ GetPackets(c)
           \/ Leave(c) \/ Unsubscribe(c) \/ FinishCall(c)
    PROVE  \E r : Becomes(c, r) /\ Good(r)
<1> DEFINE old == rpc[c]
<1>1. old \in Reactors /\ Good(old) BY DEF GoodReactors
<1>2. CASE Poll(c) \/ Leave(c)
  <2>1. PICK label \in {"work", "leave", "unsubscribe", "finish"} : Goto(c, label)
    BY <1>2, Zenon DEF Poll, Leave
  <2> DEFINE r == [old EXCEPT !.pc = label]
  <2>2. Becomes(c, r) BY <2>1 DEF Goto, Becomes, GoodReactors
  <2>3. old.pc \in {"poll", "leave"} BY <1>2 DEF Poll, Leave
  <2>4. r \in Reactors BY <1>1 DEF Reactors
  <2>5. Good(r) BY <1>1, <2>3, <2>4 DEF Good, PhaseOf, Reactors
  <2> QED BY <2>2, <2>5
<1>3. CASE StartWrite(c)
  <2> DEFINE packet == Head(old.mPacketsQueue)
             r == [old EXCEPT !.pc = "idle", !.constructed = TRUE,
                              !.mWriteInProgress = TRUE, !.writing = packet]
  <2>1. Becomes(c, r) BY <1>3 DEF StartWrite, Becomes, GoodReactors
  <2>2. old.pc = "work" /\ old.mPacketsQueue # <<>> BY <1>3 DEF StartWrite
  <2>3. packet \in Packet BY <1>1, <2>2 DEF Reactors
  <2>4. r.mPacketsQueue = old.mPacketsQueue /\ r.writing = packet
    BY <1>1 DEF Reactors
  <2> HIDE DEF packet
  <2>5. r \in Reactors BY <1>1, <2>3 DEF Reactors
  <2>6. PhaseOf(r)
    <3>1. r.pc = "idle" /\ r.constructed /\ r.mWriteInProgress /\ r.refused = old.refused
          /\ r.finishes = old.finishes
      BY <1>1 DEF Reactors
    <3>2. ~old.refused => old.finishes = 0 BY <1>1, <2>2 DEF Good, PhaseOf
    <3> QED BY <2>2, <2>4, <3>1, <3>2 DEF PhaseOf, packet
  <2> QED BY <1>1, <2>1, <2>4, <2>5, <2>6 DEF Good
<1>4. CASE GetPackets(c)
  <2>1. PICK q \in Seq(Packet) :
          rpc' = [rpc EXCEPT ![c].pc = "poll", ![c].mPacketsQueue = Newest(q)]
    BY <1>4, ArrangementIsSeq DEF GetPackets
  <2> DEFINE new == Newest(q)
             r == [old EXCEPT !.pc = "poll", !.mPacketsQueue = new]
  <2>2. Becomes(c, r) BY <2>1 DEF Becomes, GoodReactors
  <2>3. old.pc = "work" /\ old.mPacketsQueue = <<>> BY <1>4 DEF GetPackets
  <2>4. new \in Seq(Packet) /\ Len(new) <= MaximumWriterQueueSize + 1
    BY NewestIsEnd
  <2> HIDE DEF new
  <2>5. r \in Reactors BY <1>1, <2>4 DEF Reactors
  <2>6. Good(r) BY <1>1, <2>3, <2>4, <2>5 DEF Good, PhaseOf, Reactors
  <2> QED BY <2>2, <2>6
<1>5. CASE Unsubscribe(c)
  <2> DEFINE r == [old EXCEPT !.pc = "finish", !.mSubscribed = FALSE]
  <2>1. Becomes(c, r) BY <1>5 DEF Unsubscribe, Becomes, GoodReactors
  <2>2. old.pc = "unsubscribe" BY <1>5 DEF Unsubscribe
  <2>3. r \in Reactors BY <1>1 DEF Reactors
  <2>4. Good(r) BY <1>1, <2>2, <2>3 DEF Good, PhaseOf, Reactors
  <2> QED BY <2>1, <2>4
<1>6. CASE FinishCall(c)
  <2> DEFINE f == Finish(1, old.finishes)
             r == [old EXCEPT !.pc = "idle", !.constructed = TRUE, !.finishes = f]
  <2>1. Becomes(c, r) BY <1>6 DEF FinishCall, Becomes, GoodReactors
  <2>2. old.pc = "finish" BY <1>6 DEF FinishCall
  <2>3. f \in 0..2 /\ (~old.refused => f = 1)
    BY <1>1, <2>2, FinishCounts DEF Good, PhaseOf, Reactors
  <2> HIDE DEF f
  <2>4. r \in Reactors BY <1>1, <2>3 DEF Reactors
  <2>5. Good(r) BY <1>1, <2>2, <2>3, <2>4 DEF Good, PhaseOf, Reactors
  <2> QED BY <2>1, <2>5
<1> QED BY <1>2, <1>3, <1>4, <1>5, <1>6

\* The reactions, and a cancellation, keep a reactor right.
LEMMA ReactionIsGood ==
    ASSUME GoodReactors, NEW c \in Contexts, Cancel(c) \/ Reaction(c)
    PROVE  \E r : Becomes(c, r) /\ Good(r)
<1> DEFINE old == rpc[c]
<1>1. old \in Reactors /\ Good(old) BY DEF GoodReactors
<1>2. CASE OnWriteDone(c)
  <2>1. old.pc = "idle" /\ old.writing # Nothing BY <1>2 DEF OnWriteDone
  <2>2. old.mWriteInProgress /\ old.mPacketsQueue # <<>>
    BY <1>1, <2>1 DEF Good, PhaseOf
  <2>3. ~old.refused => old.finishes = 0 BY <1>1, <2>1 DEF Good, PhaseOf
  <2>4. CASE rpc' = [rpc EXCEPT ![c].pc = "poll", ![c].writing = Nothing,
                                ![c].mWriteInProgress = FALSE,
                                ![c].mPacketsQueue = Tail(@)]
    <3> DEFINE rest == Tail(old.mPacketsQueue)
               r == [old EXCEPT !.pc = "poll", !.writing = Nothing,
                                !.mWriteInProgress = FALSE, !.mPacketsQueue = rest]
    <3>1. Becomes(c, r) BY <2>4 DEF Becomes, GoodReactors
    <3>2. old.mPacketsQueue \in Seq(Packet) BY <1>1 DEF Reactors
    <3>3. rest \in Seq(Packet) /\ Len(rest) <= MaximumWriterQueueSize + 1
      BY <1>1, <2>2, <3>2 DEF Good
    <3> HIDE DEF rest
    <3>4. r \in Reactors BY <1>1, <3>3 DEF Reactors
    <3>5. Good(r) BY <1>1, <2>1, <2>3, <3>3, <3>4 DEF Good, PhaseOf, Reactors
    <3> QED BY <3>1, <3>5
  <2>5. CASE rpc' = [rpc EXCEPT ![c].writing = Nothing, ![c].finishes = Finish(1, @)]
    <3> DEFINE f == Finish(1, old.finishes)
               r == [old EXCEPT !.writing = Nothing, !.finishes = f]
    <3>1. Becomes(c, r) BY <2>5 DEF Becomes, GoodReactors
    <3>2. f \in 0..2 /\ (~old.refused => f = 1)
      BY <1>1, <2>3, FinishCounts DEF Reactors
    <3> HIDE DEF f
    <3>3. r \in Reactors BY <1>1, <3>2 DEF Reactors
    <3>4. Good(r) BY <1>1, <2>1, <2>2, <3>2, <3>3 DEF Good, PhaseOf, Reactors
    <3> QED BY <3>1, <3>4
  <2> QED BY <1>2, <2>4, <2>5 DEF OnWriteDone
<1>3. CASE Cancel(c)
  <2> DEFINE r == [old EXCEPT !.cancelled = TRUE]
  <2>1. Becomes(c, r) BY <1>3 DEF Cancel, Becomes, GoodReactors
  <2>2. old.pc # "none" BY <1>3 DEF Cancel
  <2>3. r \in Reactors BY <1>1 DEF Reactors
  <2>4. Good(r) BY <1>1, <2>2, <2>3 DEF Good, PhaseOf, Reactors
  <2> QED BY <2>1, <2>4
<1>4. CASE OnCancel(c)
  <2>1. PICK step \in {"unsubscribe", "done"} : rpc' = [rpc EXCEPT ![c].onCancel = step]
    BY <1>4, Zenon DEF OnCancel
  <2> DEFINE r == [old EXCEPT !.onCancel = step]
  <2>2. Becomes(c, r) BY <2>1 DEF Becomes, GoodReactors
  <2>3. old.constructed /\ old.pc # "none"
    BY <1>1, <1>4 DEF OnCancel, Good, PhaseOf, NoReactor
  <2>4. r \in Reactors BY <1>1 DEF Reactors
  <2>5. Good(r) BY <1>1, <2>3, <2>4 DEF Good, PhaseOf, Reactors
  <2> QED BY <2>2, <2>5
<1>5. CASE OnCancelUnsubscribe(c)
  <2> DEFINE r == [old EXCEPT !.onCancel = "done", !.mSubscribed = FALSE]
  <2>1. Becomes(c, r) BY <1>5 DEF OnCancelUnsubscribe, Becomes, GoodReactors
  <2>2. old.constructed /\ old.pc # "none"
    BY <1>1, <1>5 DEF OnCancelUnsubscribe, Good, PhaseOf, NoReactor
  <2>3. r \in Reactors BY <1>1 DEF Reactors
  <2>4. Good(r) BY <1>1, <2>2, <2>3 DEF Good, PhaseOf, Reactors
  <2> QED BY <2>1, <2>4
<1>6. CASE OnDone(c)
  <2>1. Becomes(c, NoReactor) BY <1>6 DEF OnDone, Becomes
  <2>2. NoReactor \in Reactors BY DEF NoReactor, Reactors
  <2>3. Good(NoReactor) BY <2>2 DEF Good, PhaseOf, NoReactor
  <2> QED BY <2>1, <2>3
<1> QED BY <1>2, <1>3, <1>4, <1>5, <1>6 DEF Reaction

\* So does every step.
LEMMA NextIsGood == ASSUME GoodReactors, [Next]_vars PROVE GoodReactors'
<1>1. CASE UNCHANGED rpc BY <1>1 DEF GoodReactors
<1>2. CASE \E s \in Streams : enqueuePacket(s) BY <1>1, <1>2 DEF enqueuePacket
<1>3. CASE start \/ StopRunning \/ Stopping \/ StopAgain
  BY <1>1, <1>3 DEF start, StopRunning, Stopping, StopAgain, PurgeSubscribers,
              Shutdown, NoShutdown, ShutdownReturns, Advance
<1>4. CASE UNCHANGED vars BY <1>1, <1>4 DEF vars
<1>5. ASSUME NEW c \in Contexts, NEW r, Becomes(c, r), Good(r) PROVE GoodReactors'
  <2>1. r \in Reactors BY <1>5 DEF Good
  <2>2. rpc' \in [Contexts -> Reactors] BY <1>5, <2>1 DEF Becomes, GoodReactors
  <2>3. \A d \in Contexts : rpc'[d] = IF d = c THEN r ELSE rpc[d]
    BY <1>5 DEF Becomes, GoodReactors
  <2>4. \A d \in Contexts : Good(rpc'[d]) BY <1>5, <2>3 DEF GoodReactors
  <2> QED BY <2>2, <2>4 DEF GoodReactors, Good
<1>6. ASSUME NEW c \in Contexts, Connect(c) \/ Cancel(c) \/ Reactor(c) \/ Reaction(c)
      PROVE  GoodReactors'
  <2>1. \E r : Becomes(c, r) /\ Good(r)
    BY <1>6, ConstructorIsGood, NextWriteIsGood, ReactionIsGood DEF Reactor
  <2> QED BY <1>5, <2>1
<1> QED BY <1>2, <1>3, <1>4, <1>6 DEF Next

\* Only OnWriteDone and Connect change what a client was sent.
LEMMA FlushedChanges ==
    ASSUME TypeOK, Phases, [Next]_vars
    PROVE  \/ UNCHANGED flushed
           \/ \E c \in Contexts :
                Connect(c) /\ flushed' = [flushed EXCEPT ![c] = [s \in Streams |-> 0]]
           \/ \E c \in Contexts :
                /\ OnWriteDone(c)
                /\ rpc[c].writing \in Packet
                /\ flushed' = [flushed EXCEPT
                                 ![c][rpc[c].writing.stream] = rpc[c].writing.number]
<1>1. CASE \E s \in Streams : enqueuePacket(s) BY <1>1 DEF enqueuePacket
<1>2. CASE start \/ StopRunning \/ Stopping \/ StopAgain
  BY <1>2 DEF start, StopRunning, Stopping, StopAgain, PurgeSubscribers,
              Shutdown, NoShutdown, ShutdownReturns, Advance
<1>3. CASE UNCHANGED vars BY <1>3 DEF vars
<1>4. ASSUME NEW c \in Contexts, Cancel(c) \/ Reactor(c) PROVE UNCHANGED flushed
  BY <1>4 DEF Cancel, Reactor, Admit, Subscribe, SubscribeToNothing,
              Poll, StartWrite, GetPackets, Leave, Unsubscribe, FinishCall
<1>5. ASSUME NEW c \in Contexts, Connect(c)
      PROVE  flushed' = [flushed EXCEPT ![c] = [s \in Streams |-> 0]]
  BY <1>5 DEF Connect
<1>6. ASSUME NEW c \in Contexts, OnCancel(c) \/ OnCancelUnsubscribe(c) \/ OnDone(c)
      PROVE  UNCHANGED flushed
  BY <1>6 DEF OnCancel, OnCancelUnsubscribe, OnDone
<1>7. ASSUME NEW c \in Contexts, OnWriteDone(c)
      PROVE  /\ rpc[c].writing \in Packet
             /\ \/ UNCHANGED flushed
                \/ flushed' = [flushed EXCEPT
                                 ![c][rpc[c].writing.stream] = rpc[c].writing.number]
  <2>1. rpc[c] \in Reactors BY DEF TypeOK
  <2> QED BY <1>7, <2>1 DEF OnWriteDone, Reactors
<1> QED BY <1>1, <1>2, <1>3, <1>4, <1>5, <1>6, <1>7 DEF Next, Reaction

\* Every step keeps the variables in their types.
LEMMA NextType == ASSUME TypeOK, Phases, [Next]_vars PROVE TypeOK'
<1>1. ManagerTypes' BY ManagerStep, ManagerType DEF TypeOK, ManagerTypes
<1>2. GoodReactors' BY NextIsGood DEF TypeOK, Phases, GoodReactors, Good
<1>3. /\ server' \in {"running", "stopping", "purged", "shutdown", "stopped"}
      /\ mServer' \in BOOLEAN
  <2> USE DEF TypeOK
  <2>1. CASE UNCHANGED <<server, mServer>> BY <2>1
  <2>2. CASE \E s \in Streams : enqueuePacket(s) BY <2>1, <2>2 DEF enqueuePacket
  <2>3. ASSUME NEW c \in Contexts, Connect(c) \/ Cancel(c) \/ Reactor(c) \/ Reaction(c)
        PROVE  UNCHANGED <<server, mServer>>
    BY <2>3 DEF Connect, Cancel, Reactor, Reaction, Admit, Subscribe,
         SubscribeToNothing, Poll, StartWrite, GetPackets, Leave, Unsubscribe,
         FinishCall, OnWriteDone, OnCancel, OnCancelUnsubscribe, OnDone
  <2>4. CASE start \/ StopRunning \/ Stopping \/ StopAgain
    BY <2>4 DEF start, StopRunning, Stopping, StopAgain, PurgeSubscribers, Shutdown,
                NoShutdown, ShutdownReturns, Advance
  <2>5. CASE UNCHANGED vars BY <2>1, <2>5 DEF vars
  <2> QED BY <2>1, <2>2, <2>3, <2>4, <2>5 DEF Next
<1>4. flushed' \in [Contexts -> [Streams -> 0..MaximumPackets]]
  <2>1. ASSUME NEW c \in Contexts, NEW p \in Packet,
               flushed' = [flushed EXCEPT ![c][p.stream] = p.number]
        PROVE  flushed' \in [Contexts -> [Streams -> 0..MaximumPackets]]
    <3>1. p.stream \in Streams /\ p.number \in 0..MaximumPackets BY DEF Packet
    <3> QED BY <2>1, <3>1 DEF TypeOK
  <2>2. ASSUME NEW c \in Contexts, flushed' = [flushed EXCEPT ![c] = [s \in Streams |-> 0]]
        PROVE  flushed' \in [Contexts -> [Streams -> 0..MaximumPackets]]
    BY <2>2 DEF TypeOK
  <2>3. CASE UNCHANGED flushed BY <2>3 DEF TypeOK
  <2> QED BY <2>1, <2>2, <2>3, FlushedChanges
<1> QED BY <1>1, <1>2, <1>3, <1>4 DEF TypeOK, ManagerTypes, GoodReactors, Good

-----------------------------------------------------------------------------
(***************************************************************************)
(* The manager's interests.                                                *)
(***************************************************************************)
\* A step of one call changes nothing of another.
LEMMA OthersKeep ==
    ASSUME TypeOK, Phases, NEW c \in Contexts, NEW d \in Contexts \ {c},
           Connect(c) \/ Cancel(c) \/ Reactor(c) \/ Reaction(c)
    PROVE  /\ rpc'[d] = rpc[d] /\ flushed'[d] = flushed[d]
           /\ interest'[d] = interest[d] /\ outbox'[d] = outbox[d]
           /\ published' = published
<1>1. rpc'[d] = rpc[d]
  <2>1. GoodReactors BY DEF TypeOK, Phases, GoodReactors, Good
  <2>2. \E r : Becomes(c, r)
    BY <2>1, ConstructorIsGood, NextWriteIsGood, ReactionIsGood DEF Reactor
  <2> QED BY <2>2 DEF Becomes, TypeOK
<1>2. flushed'[d] = flushed[d]
  <2>1. CASE Reactor(c)
    BY <2>1 DEF Reactor, Admit, Subscribe, SubscribeToNothing, Poll, StartWrite,
                GetPackets, Leave, Unsubscribe, FinishCall
  <2>2. CASE Connect(c) \/ Cancel(c) BY <2>2 DEF Connect, Cancel, TypeOK
  <2>3. CASE Reaction(c)
    BY <2>3 DEF Reaction, OnWriteDone, OnCancel, OnCancelUnsubscribe, OnDone, TypeOK
  <2> QED BY <2>1, <2>2, <2>3
<1>3. /\ interest'[d] = interest[d] /\ outbox'[d] = outbox[d]
      /\ published' = published
  <2>1. CASE UNCHANGED manager BY <2>1 DEF manager
  <2>2. CASE Manager!Leave({c}) BY <2>2 DEF Manager!Leave, TypeOK
  <2>3. CASE Manager!Want(c, Request[c]) BY <2>3 DEF Manager!Want, TypeOK
  <2>4. CASE Manager!Fetch(c) BY <2>4 DEF Manager!Fetch, TypeOK
  <2> QED BY <2>1, <2>2, <2>3, <2>4
    DEF Connect, Cancel, Goto, Reactor, Reaction, Admit, Subscribe, SubscribeToNothing,
        Poll, StartWrite, GetPackets, Leave, Unsubscribe, FinishCall,
        OnWriteDone, OnCancel, OnCancelUnsubscribe, OnDone
<1> QED BY <1>1, <1>2, <1>3

\* Every step keeps the manager's interests in line with the reactors.
LEMMA NextInterests ==
    ASSUME TypeOK, Phases, Interests, [Next]_vars
    PROVE  Interests'
<1>1. GoodReactors BY DEF TypeOK, Phases, GoodReactors, Good
<1>2. \A c \in Contexts : rpc[c] \in Reactors BY DEF TypeOK
<1> DEFINE Forgotten(c) == interest[c] = {} /\ outbox[c] = Manager!EmptyOutbox
           Kept(c) == interest'[c] = interest[c] /\ outbox'[c] = outbox[c]
           Member(c) == rpc'[c].mSubscribed = rpc[c].mSubscribed
           OK(c) == /\ ~rpc[c].mSubscribed => interest[c] = {}
                    /\ \A s \in Streams \ interest[c] : outbox[c][s] = <<>>
<1>3. ASSUME NEW c \in Contexts PROVE OK(c) BY DEF Interests
<1>4. SUFFICES ASSUME NEW d \in Contexts PROVE OK(d)' BY DEF Interests
<1>5. ASSUME Forgotten(d)' PROVE OK(d)' BY <1>5 DEF Manager!EmptyOutbox
<1>6. ASSUME Kept(d), Member(d) PROVE OK(d)' BY <1>3, <1>6
<1>7. ASSUME NEW C \in SUBSET Contexts, Manager!Leave(C)
      PROVE  IF d \in C THEN Forgotten(d)' ELSE Kept(d)
  BY <1>7 DEF Manager!Leave, TypeOK
<1>8. CASE UNCHANGED rpc /\ UNCHANGED manager BY <1>6, <1>8 DEF manager
<1>9. CASE UNCHANGED rpc /\ \E C \in SUBSET Contexts : Manager!Leave(C)
  BY <1>5, <1>6, <1>7, <1>9
<1>10. ASSUME NEW s \in Streams, enqueuePacket(s) PROVE OK(d)'
  <2>1. UNCHANGED <<rpc, interest>>
    BY <1>10 DEF enqueuePacket, Manager!Publish
  <2>2. \A t \in Streams \ interest[d] : outbox'[d][t] = outbox[d][t]
    BY <1>10 DEF enqueuePacket, Manager!Publish
  <2> QED BY <1>3, <2>1, <2>2
<1>11. ASSUME NEW c \in Contexts, c # d,
              Connect(c) \/ Cancel(c) \/ Reactor(c) \/ Reaction(c)
       PROVE  OK(d)'
  BY <1>6, <1>11, OthersKeep
<1>12. CASE Connect(d) \/ Cancel(d) \/ Admit(d) \/ SubscribeToNothing(d) \/ Poll(d)
            \/ StartWrite(d) \/ Leave(d) \/ FinishCall(d) \/ OnWriteDone(d)
  <2>1. UNCHANGED manager
    BY <1>12 DEF Connect, Cancel, Admit, SubscribeToNothing, Poll, StartWrite, Leave,
                 FinishCall, OnWriteDone
  <2>2. Member(d)
    <3> USE <1>2 DEF TypeOK, Reactors
    <3>1. CASE Connect(d) \/ Poll(d) \/ Leave(d) BY <3>1 DEF Connect, Poll, Leave, Goto
    <3>2. CASE Cancel(d) BY <3>2 DEF Cancel
    <3>3. CASE Admit(d)
      <4>1. PICK f, b : rpc' = [rpc EXCEPT ![d].pc = "subscribe", ![d].finishes = f,
                                           ![d].refused = b]
        BY ONLY <3>3, Zenon DEF Admit
      <4> QED BY <4>1
    <3>4. CASE SubscribeToNothing(d) BY <3>4 DEF SubscribeToNothing
    <3>5. CASE StartWrite(d) BY <3>5 DEF StartWrite
    <3>6. CASE FinishCall(d) BY <3>6 DEF FinishCall
    <3>7. CASE OnWriteDone(d) BY <3>7 DEF OnWriteDone
    <3> QED BY <1>12, <3>1, <3>2, <3>3, <3>4, <3>5, <3>6, <3>7
  <2> QED BY <1>6, <2>1, <2>2 DEF manager
<1>13. CASE Subscribe(d)
  <2>1. rpc'[d] = [rpc[d] EXCEPT !.pc = "poll", !.mSubscribed = TRUE]
    BY <1>13 DEF Subscribe, TypeOK
  <2>2. rpc'[d].mSubscribed
    BY <1>2, <2>1 DEF Reactors
  <2>3. interest[d] \subseteq interest'[d] /\ outbox' = outbox
    BY <1>13 DEF Subscribe, Manager!Want, TypeOK
  <2> QED BY <1>3, <2>2, <2>3
<1>14. CASE GetPackets(d)
  <2>1. PICK q : rpc' = [rpc EXCEPT ![d].pc = "poll", ![d].mPacketsQueue = Newest(q)]
    BY <1>14 DEF GetPackets
  <2>2. Member(d) BY <1>2, <2>1 DEF TypeOK, Reactors
  <2>3. interest' = interest BY <1>14 DEF GetPackets, Manager!Fetch
  <2>4. ASSUME NEW s \in Streams, outbox[d][s] = <<>> PROVE outbox'[d][s] = <<>>
    <3>1. PICK taken \in [Streams -> 0..MaximumQueueSize] :
            /\ taken[s] <= Len(outbox[d][s])
            /\ outbox' = [outbox EXCEPT ![d] =
                            [t \in Streams |-> SubSeq(@[t], taken[t] + 1, Len(@[t]))]]
      BY <1>14 DEF GetPackets, Manager!Fetch
    <3>2. outbox'[d][s] = SubSeq(outbox[d][s], taken[s] + 1, Len(outbox[d][s]))
      BY <3>1 DEF TypeOK
    <3>3. taken[s] = 0 BY <2>4, <3>1
    <3> QED BY <2>4, <3>2, <3>3
  <2> QED BY <1>3, <2>2, <2>3, <2>4
<1>15. CASE Unsubscribe(d) \/ OnCancelUnsubscribe(d)
  <2>1. Manager!Leave({d}) BY <1>15 DEF Unsubscribe, OnCancelUnsubscribe
  <2> QED BY <1>5, <1>7, <2>1
<1>16. CASE OnCancel(d)
  <2>1. UNCHANGED manager BY <1>16 DEF OnCancel
  <2>2. rpc'[d] = [rpc[d] EXCEPT !.onCancel =
                     IF rpc[d].mSubscribed THEN "unsubscribe" ELSE "done"]
    BY <1>16 DEF OnCancel, TypeOK
  <2>3. rpc'[d].mSubscribed = rpc[d].mSubscribed
    BY <1>2, <2>2 DEF Reactors
  <2> QED BY <1>3, <2>1, <2>3 DEF manager
<1>17. CASE OnDone(d)
  <2>1. CASE rpc[d].mSubscribed
    <3>1. Manager!Leave({d}) BY <1>17, <2>1 DEF OnDone
    <3> QED BY <1>5, <1>7, <3>1
  <2>2. CASE ~rpc[d].mSubscribed
    <3>1. UNCHANGED manager BY <1>17, <2>2 DEF OnDone
    <3>2. interest[d] = {} BY <1>3, <2>2
    <3> QED BY <1>3, <3>1, <3>2 DEF manager
  <2> QED BY <2>1, <2>2
<1>18. CASE start \/ StopRunning \/ Stopping \/ StopAgain
  BY <1>8, <1>9, <1>18
  DEF start, StopRunning, Stopping, StopAgain, PurgeSubscribers, Shutdown,
      NoShutdown, ShutdownReturns, Advance
<1>19. CASE UNCHANGED vars BY <1>8, <1>19 DEF vars
<1>20. CASE \E c \in Contexts : Connect(c) \/ Cancel(c) \/ Reactor(c) \/ Reaction(c)
  BY <1>11, <1>12, <1>13, <1>14, <1>15, <1>16, <1>17, <1>20 DEF Reactor, Reaction
<1> QED BY <1>10, <1>18, <1>19, <1>20 DEF Next

-----------------------------------------------------------------------------
(***************************************************************************)
(* What a client was sent, what is held for it and what waits for it.      *)
(***************************************************************************)
Numbers == [Streams -> 0..MaximumPackets]
Outboxes == [Streams -> Seq(1..MaximumPackets)]

\* A held packet has a stream and a number.
LEMMA HeldPackets ==
    ASSUME NEW q \in Seq(Packet), NEW i \in DOMAIN q
    PROVE  /\ q[i] \in Packet
           /\ q[i].stream \in Streams /\ q[i].number \in 1..MaximumPackets
           /\ q[i].number \in Nat
<1>1. q[i] \in Packet OBVIOUS
<1> QED BY <1>1 DEF Packet

\* A publication adds the newest packet at the end.
LEMMA SentAfterPublish ==
    ASSUME NEW f \in Numbers, NEW q \in Seq(Packet), NEW o \in Outboxes,
           NEW p \in Numbers, Sent(f, q, o, p),
           NEW s \in Streams, p[s] < MaximumPackets, NEW new \in Outboxes,
           \A t \in Streams : \/ new[t] = o[t]
                              \/ t = s /\ new[t] = Manager!Deliver(o[t], p[t] + 1)
    PROVE  Sent(f, q, new, [p EXCEPT ![s] = @ + 1])
<1> DEFINE more == [p EXCEPT ![s] = @ + 1]
<1>1. \A t \in Streams : p[t] \in Nat /\ f[t] \in Nat
  BY DEF Numbers
<1>2. \A t \in Streams : more[t] \in Nat /\ p[t] <= more[t] BY <1>1 DEF Numbers
<1>3. ASSUME NEW t \in Streams
      PROVE  /\ o[t] \in Seq(1..MaximumPackets)
             /\ \A i \in DOMAIN o[t] : o[t][i] \in Nat
  BY DEF Outboxes
<1>4. ASSUME NEW t \in Streams, NEW i \in DOMAIN new[t]
      PROVE  /\ new[t][i] \in Nat
             /\ \/ \E j \in DOMAIN o[t] : new[t][i] = o[t][j]
                \/ new[t][i] = p[t] + 1 /\ more[t] = p[t] + 1
             /\ \A j \in DOMAIN new[t] : i < j => new[t][i] < new[t][j]
  <2>1. CASE new[t] = o[t] BY <1>3, <1>4, <2>1 DEF Sent
  <2>2. CASE t = s /\ new[t] = Manager!Deliver(o[t], p[t] + 1)
    <3>1. p[t] + 1 \in 1..MaximumPackets BY <1>1, <2>2
    <3>2. /\ Len(new[t]) > 0 /\ new[t][Len(new[t])] = p[t] + 1
          /\ \E k \in 0..1 : Shifted(new[t], Len(new[t]) - 1, o[t], k)
      <4> DEFINE box == o[t]
                 packet == p[t] + 1
                 delivered == new[t]
      <4>1. box \in Seq(1..MaximumPackets) BY <1>3
      <4>2. packet \in 1..MaximumPackets BY <3>1
      <4>3. delivered = Manager!Deliver(box, packet) BY <2>2
      <4> HIDE DEF box, packet, delivered
      <4>4. /\ Len(delivered) > 0 /\ delivered[Len(delivered)] = packet
            /\ \E k \in 0..1 : Shifted(delivered, Len(delivered) - 1, box, k)
        BY <4>1, <4>2, <4>3, DeliverProperties
      <4> QED BY <4>4 DEF box, packet, delivered
    <3>3. PICK k \in 0..1 : \A j \in 1..(Len(new[t]) - 1) :
               j + k \in 1..Len(o[t]) /\ new[t][j] = o[t][j + k]
      BY <3>2 DEF Shifted
    <3>4. Len(new[t]) \in Nat /\ DOMAIN new[t] = 1..Len(new[t]) BY DEF Outboxes
    <3>5. more[t] = p[t] + 1 BY <2>2 DEF Numbers
    <3>6. \A j, l \in DOMAIN o[t] : j < l => o[t][j] < o[t][l] BY DEF Sent
    <3>7. \A j \in DOMAIN o[t] : o[t][j] <= p[t] BY DEF Sent
    <3>8. DOMAIN o[t] = 1..Len(o[t]) BY <1>3
    <3>9. CASE i = Len(new[t]) BY <1>1, <3>2, <3>4, <3>5, <3>9
    <3>10. CASE i # Len(new[t])
      <4>1. i \in 1..(Len(new[t]) - 1) BY <1>4, <3>4, <3>10
      <4>2. i + k \in DOMAIN o[t] /\ new[t][i] = o[t][i + k] BY <3>3, <3>8, <4>1
      <4>3. ASSUME NEW j \in DOMAIN new[t], i < j PROVE new[t][i] < new[t][j]
        <5>1. CASE j = Len(new[t])
          <6>1. o[t][i + k] \in Nat /\ o[t][i + k] <= p[t] BY <1>3, <3>7, <4>2
          <6>2. new[t][j] = p[t] + 1 BY <3>2, <5>1
          <6> QED BY <1>1, <4>2, <6>1, <6>2
        <5>2. CASE j # Len(new[t])
          <6>1. j \in 1..(Len(new[t]) - 1) BY <3>4, <5>2
          <6>2. j + k \in DOMAIN o[t] /\ new[t][j] = o[t][j + k]
            BY <3>3, <3>8, <6>1
          <6>3. i + k < j + k BY <4>1, <4>3, <6>1
          <6> QED BY <3>6, <4>2, <6>2, <6>3
        <5> QED BY <5>1, <5>2
      <4> QED BY <1>3, <4>2, <4>3
    <3> QED BY <3>9, <3>10
  <2> QED BY <2>1, <2>2
<1> HIDE DEF more
<1>5. ASSUME NEW t \in Streams
      PROVE  /\ f[t] <= more[t]
             /\ \A i \in DOMAIN new[t] : f[t] < new[t][i] /\ new[t][i] <= more[t]
             /\ \A i, j \in DOMAIN new[t] : i < j => new[t][i] < new[t][j]
  <2>1. f[t] <= p[t] /\ \A j \in DOMAIN o[t] : f[t] < o[t][j] /\ o[t][j] <= p[t]
    BY DEF Sent
  <2>2. f[t] <= more[t] BY <1>1, <1>2, <2>1
  <2>3. ASSUME NEW i \in DOMAIN new[t] PROVE f[t] < new[t][i] /\ new[t][i] <= more[t]
    <3>1. ASSUME NEW j \in DOMAIN o[t], new[t][i] = o[t][j]
          PROVE  f[t] < new[t][i] /\ new[t][i] <= more[t]
      BY <1>1, <1>2, <1>3, <2>1, <3>1
    <3>2. CASE new[t][i] = p[t] + 1 /\ more[t] = p[t] + 1 BY <1>1, <2>1, <3>2
    <3> QED BY <1>4, <3>1, <3>2
  <2> QED BY <1>4, <2>2, <2>3
<1>6. ASSUME NEW i \in DOMAIN q
      PROVE  /\ f[q[i].stream] < q[i].number /\ q[i].number <= more[q[i].stream]
             /\ \A j \in DOMAIN new[q[i].stream] :
                  q[i].number < new[q[i].stream][j]
  <2>1. q[i].stream \in Streams /\ q[i].number \in Nat BY HeldPackets
  <2>2. /\ f[q[i].stream] < q[i].number /\ q[i].number <= p[q[i].stream]
        /\ \A j \in DOMAIN o[q[i].stream] : q[i].number < o[q[i].stream][j]
    BY DEF Sent
  <2>3. q[i].number <= more[q[i].stream] BY <1>1, <1>2, <2>1, <2>2
  <2>4. ASSUME NEW j \in DOMAIN new[q[i].stream]
        PROVE  q[i].number < new[q[i].stream][j]
    <3>1. ASSUME NEW l \in DOMAIN o[q[i].stream],
                 new[q[i].stream][j] = o[q[i].stream][l]
          PROVE  q[i].number < new[q[i].stream][j]
      BY <2>2, <3>1
    <3>2. CASE new[q[i].stream][j] = p[q[i].stream] + 1 BY <1>1, <2>1, <2>2, <3>2
    <3> QED BY <1>4, <2>1, <3>1, <3>2
  <2> QED BY <2>2, <2>3, <2>4
<1>7. Ordered(q) BY DEF Sent
<1>8. Sent(f, q, new, more) BY <1>5, <1>6, <1>7 DEF Sent
<1> QED BY <1>8 DEF more

\* What is left of a box when its first n packets are taken.
LEMMA RestOfBox ==
    ASSUME NEW box \in Seq(1..MaximumPackets), NEW n \in Nat, n <= Len(box),
           NEW m, m = n + 1,
           NEW rest, rest = SubSeq(box, m, Len(box))
    PROVE  /\ Len(box) \in Nat /\ DOMAIN box = 1..Len(box)
           /\ rest \in Seq(1..MaximumPackets)
           /\ DOMAIN rest = 1..(Len(box) - n)
           /\ \A j \in DOMAIN rest : j + n \in DOMAIN box /\ rest[j] = box[j + n]
<1>1. Len(box) \in Nat /\ DOMAIN box = 1..Len(box) OBVIOUS
<1>2. m \in Nat \ {0} OBVIOUS
<1>3. /\ rest \in Seq(1..MaximumPackets)
      /\ Len(rest) = IF m <= Len(box) THEN Len(box) - m + 1 ELSE 0
      /\ \A j \in 1..Len(rest) : rest[j] = box[j + (m - 1)]
  BY <1>1, <1>2
<1>4. n \in Nat /\ n <= Len(box) /\ m = n + 1 OBVIOUS
<1>5. Len(rest) = Len(box) - n BY ONLY <1>1, <1>3, <1>4
<1>6. m - 1 = n BY ONLY <1>4
<1>7. DOMAIN rest = 1..Len(rest) BY <1>3
<1>8. ASSUME NEW j \in 1..(Len(box) - n)
      PROVE  j + n \in 1..Len(box) /\ rest[j] = box[j + n]
  <2>1. j \in Int /\ 1 <= j /\ j <= Len(box) - n BY <1>1, <1>4
  <2>2. j + n \in 1..Len(box) BY ONLY <1>1, <1>4, <2>1
  <2>3. rest[j] = box[j + (m - 1)] BY ONLY <1>1, <1>3, <1>4, <1>5, <2>1
  <2>4. j + (m - 1) = j + n BY ONLY <1>6
  <2> QED BY ONLY <2>2, <2>3, <2>4
<1> QED BY ONLY <1>1, <1>3, <1>5, <1>7, <1>8

\* A fetch moves the first packets of every stream to the empty queue.
LEMMA SentAfterFetch ==
    ASSUME NEW f \in Numbers, NEW o \in Outboxes, NEW p \in Numbers,
           Sent(f, <<>>, o, p),
           NEW taken \in [Streams -> 0..MaximumQueueSize],
           \A s \in Streams : taken[s] <= Len(o[s]),
           NEW rest,
           rest = [s \in Streams |-> SubSeq(o[s], taken[s] + 1, Len(o[s]))],
           NEW q \in SetToSeqs({r \in Packet : /\ r.number \in Range(o[r.stream])
                                               /\ r.number \notin Range(rest[r.stream])}),
           Ordered(q)
    PROVE  Sent(f, Newest(q), rest, p)
<1> DEFINE Fetched == {r \in Packet : /\ r.number \in Range(o[r.stream])
                                      /\ r.number \notin Range(rest[r.stream])}
<1>1. q \in Seq(Packet) /\ \A i \in DOMAIN q : q[i] \in Fetched BY ArrangementIsSeq
<1>2. ASSUME NEW s \in Streams
      PROVE  /\ taken[s] \in Nat /\ Len(o[s]) \in Nat /\ DOMAIN o[s] = 1..Len(o[s])
             /\ DOMAIN rest[s] = 1..(Len(o[s]) - taken[s])
             /\ \A j \in DOMAIN rest[s] : /\ j + taken[s] \in DOMAIN o[s]
                                          /\ rest[s][j] = o[s][j + taken[s]]
  <2>1. o[s] \in Seq(1..MaximumPackets) /\ taken[s] \in Nat /\ taken[s] <= Len(o[s])
    BY DEF Outboxes
  <2>2. rest[s] = SubSeq(o[s], taken[s] + 1, Len(o[s])) OBVIOUS
  <2> DEFINE box == o[s]
             n == taken[s]
             m == taken[s] + 1
             left == rest[s]
  <2>3. box \in Seq(1..MaximumPackets) /\ n \in Nat /\ n <= Len(box)
        /\ m = n + 1 /\ left = SubSeq(box, m, Len(box))
    BY <2>1, <2>2
  <2> HIDE DEF box, n, m, left
  <2>4. /\ Len(box) \in Nat /\ DOMAIN box = 1..Len(box)
        /\ DOMAIN left = 1..(Len(box) - n)
        /\ \A j \in DOMAIN left : j + n \in DOMAIN box /\ left[j] = box[j + n]
    BY <2>3, RestOfBox
  <2> QED BY <2>3, <2>4 DEF box, n, left
<1>3. ASSUME NEW s \in Streams
      PROVE  /\ f[s] <= p[s]
             /\ \A i \in DOMAIN o[s] : f[s] < o[s][i] /\ o[s][i] <= p[s]
             /\ \A i, j \in DOMAIN o[s] : i < j => o[s][i] < o[s][j]
  BY DEF Sent
<1>4. ASSUME NEW r \in Fetched
      PROVE  /\ f[r.stream] < r.number /\ r.number <= p[r.stream]
             /\ \A j \in DOMAIN rest[r.stream] : r.number < rest[r.stream][j]
  <2> DEFINE s == r.stream
  <2>1. s \in Streams BY DEF Packet
  <2>2. PICK i \in DOMAIN o[s] : r.number = o[s][i] BY DEF Range
  <2>3. \A j \in DOMAIN rest[s] : r.number # rest[s][j] BY DEF Range
  <2> HIDE DEF s
  <2>4. i <= taken[s]
    <3>1. SUFFICES ASSUME ~(i <= taken[s]) PROVE FALSE OBVIOUS
    <3>2. i - taken[s] \in DOMAIN rest[s]
      <4>1. /\ taken[s] \in Nat /\ Len(o[s]) \in Nat /\ DOMAIN o[s] = 1..Len(o[s])
            /\ DOMAIN rest[s] = 1..(Len(o[s]) - taken[s])
        BY <1>2, <2>1
      <4> QED BY <2>2, <3>1, <4>1
    <3>3. (i - taken[s]) + taken[s] = i BY <1>2, <2>1, <2>2
    <3>4. rest[s][i - taken[s]] = o[s][(i - taken[s]) + taken[s]]
      BY <1>2, <2>1, <3>2
    <3> QED BY <2>2, <2>3, <3>2, <3>3, <3>4
  <2>5. ASSUME NEW j \in DOMAIN rest[s] PROVE r.number < rest[s][j]
    <3>1. j + taken[s] \in DOMAIN o[s] /\ rest[s][j] = o[s][j + taken[s]]
      BY <1>2, <2>1
    <3>2. i < j + taken[s] BY <1>2, <2>1, <2>2, <2>4
    <3> QED BY <1>3, <2>1, <2>2, <3>1, <3>2
  <2>6. f[s] < r.number /\ r.number <= p[s] BY <1>3, <2>1, <2>2
  <2> QED BY <2>5, <2>6 DEF s
<1>5. PICK k \in Nat : \A i \in 1..Len(Newest(q)) :
        i + k \in 1..Len(q) /\ Newest(q)[i] = q[i + k]
  BY <1>1, NewestIsEnd
<1>6. DOMAIN Newest(q) = 1..Len(Newest(q)) /\ DOMAIN q = 1..Len(q)
  BY <1>1, NewestIsEnd
<1>7. ASSUME NEW s \in Streams
      PROVE  /\ f[s] <= p[s]
             /\ \A i \in DOMAIN rest[s] : f[s] < rest[s][i] /\ rest[s][i] <= p[s]
             /\ \A i, j \in DOMAIN rest[s] : i < j => rest[s][i] < rest[s][j]
  <2>1. ASSUME NEW i \in DOMAIN rest[s], NEW j \in DOMAIN rest[s], i < j
        PROVE  rest[s][i] < rest[s][j]
    <3>1. i + taken[s] < j + taken[s] BY <1>2, <2>1
    <3> QED BY <1>2, <1>3, <3>1
  <2> QED BY <1>2, <1>3, <2>1
<1> DEFINE held == Newest(q)
<1>8. \A i \in DOMAIN held : held[i] \in Fetched BY <1>1, <1>5, <1>6
<1>9. Ordered(held)
  <2>1. SUFFICES ASSUME NEW i \in DOMAIN held, NEW j \in DOMAIN held,
                        i < j, held[i].stream = held[j].stream
                 PROVE  held[i].number < held[j].number
    BY DEF Ordered
  <2>2. /\ i + k \in DOMAIN q /\ held[i] = q[i + k]
        /\ j + k \in DOMAIN q /\ held[j] = q[j + k]
    BY <1>5, <1>6
  <2>3. Len(held) \in Nat BY <1>1, NewestIsEnd
  <2>4. i + k < j + k BY <1>6, <2>1, <2>3
  <2> HIDE DEF held
  <2> QED BY <2>1, <2>2, <2>4 DEF Ordered
<1> HIDE DEF held, Fetched
<1>10. Sent(f, held, rest, p) BY <1>4, <1>7, <1>8, <1>9 DEF Sent
<1> QED BY <1>10 DEF held

\* A flushed packet leaves the front of the queue.
LEMMA SentAfterFlush ==
    ASSUME NEW f \in Numbers, NEW q \in Seq(Packet), NEW o \in Outboxes,
           NEW p \in Numbers, Sent(f, q, o, p), q # <<>>
    PROVE  Sent([f EXCEPT ![Head(q).stream] = Head(q).number], Tail(q), o, p)
<1> DEFINE more == [f EXCEPT ![Head(q).stream] = Head(q).number]
           rest == Tail(q)
<1>1. Head(q) = q[1] /\ 1 \in DOMAIN q /\ DOMAIN q = 1..Len(q) /\ Len(q) \in Nat
  OBVIOUS
<1>2. q[1] \in Packet /\ q[1].stream \in Streams /\ q[1].number \in Nat
  BY <1>1, HeldPackets
<1>3. /\ DOMAIN rest = 1..(Len(q) - 1)
      /\ \A i \in DOMAIN rest : i + 1 \in DOMAIN q /\ rest[i] = q[i + 1]
  BY <1>1
<1>4. \A s \in Streams : more[s] = IF s = q[1].stream THEN q[1].number ELSE f[s]
  BY <1>1, <1>2 DEF Numbers
<1> HIDE DEF more, rest
<1>5. ASSUME NEW s \in Streams
      PROVE  /\ more[s] <= p[s]
             /\ \A i \in DOMAIN o[s] : more[s] < o[s][i] /\ o[s][i] <= p[s]
             /\ \A i, j \in DOMAIN o[s] : i < j => o[s][i] < o[s][j]
  BY <1>1, <1>2, <1>4 DEF Sent
<1>6. ASSUME NEW i \in DOMAIN rest
      PROVE  /\ more[rest[i].stream] < rest[i].number
             /\ rest[i].number <= p[rest[i].stream]
             /\ \A j \in DOMAIN o[rest[i].stream] :
                  rest[i].number < o[rest[i].stream][j]
  <2>1. i + 1 \in DOMAIN q /\ rest[i] = q[i + 1] /\ 1 < i + 1 BY <1>1, <1>3
  <2>2. q[i + 1].stream \in Streams BY <2>1, HeldPackets
  <2>3. /\ f[q[i + 1].stream] < q[i + 1].number
        /\ q[i + 1].number <= p[q[i + 1].stream]
        /\ \A j \in DOMAIN o[q[i + 1].stream] :
             q[i + 1].number < o[q[i + 1].stream][j]
    BY <2>1 DEF Sent
  <2>4. q[1].stream = q[i + 1].stream => q[1].number < q[i + 1].number
    BY <1>1, <2>1 DEF Sent, Ordered
  <2> QED BY <1>4, <2>1, <2>2, <2>3, <2>4
<1>7. Ordered(rest)
  <2>1. SUFFICES ASSUME NEW i \in DOMAIN rest, NEW j \in DOMAIN rest,
                        i < j, rest[i].stream = rest[j].stream
                 PROVE  rest[i].number < rest[j].number
    BY DEF Ordered
  <2>2. i + 1 < j + 1 BY <1>1, <1>3, <2>1
  <2> QED BY <1>3, <2>1, <2>2 DEF Sent, Ordered
<1>8. Sent(more, rest, o, p) BY <1>5, <1>6, <1>7 DEF Sent
<1> QED BY <1>8 DEF more, rest

\* A client that is forgotten, or begins.
LEMMA SentAfterReset ==
    ASSUME NEW f \in Numbers, NEW q \in Seq(Packet), NEW o \in Outboxes,
           NEW p \in Numbers, Sent(f, q, o, p)
    PROVE  /\ Sent(f, q, Manager!EmptyOutbox, p)
           /\ Sent(f, <<>>, o, p)
           /\ Sent(f, <<>>, Manager!EmptyOutbox, p)
           /\ Sent([s \in Streams |-> 0], <<>>, Manager!EmptyOutbox, p)
<1>1. /\ \A s \in Streams : DOMAIN Manager!EmptyOutbox[s] = {}
      /\ \A i \in DOMAIN q : q[i].stream \in Streams
  BY HeldPackets DEF Manager!EmptyOutbox
<1>2. \A s \in Streams : 0 <= p[s] BY DEF Numbers
<1>3. Ordered(<<>>) BY DEF Ordered
<1> HIDE DEF Manager!EmptyOutbox
<1> QED BY <1>1, <1>2, <1>3 DEF Sent

\* Every step keeps what clients were sent, and are to be sent, in order.
LEMMA NextSent == ASSUME IInv, [Next]_vars PROVE AllSent'
<1> USE DEF IInv
<1> DEFINE OK(c) == Sent(flushed[c], rpc[c].mPacketsQueue, outbox[c], published)
           Queue(c) == UNCHANGED flushed /\ rpc'[c].mPacketsQueue = rpc[c].mPacketsQueue
<1>1. SUFFICES ASSUME NEW d \in Contexts PROVE OK(d)' BY DEF AllSent
<1>2. /\ flushed[d] \in Numbers /\ outbox[d] \in Outboxes /\ published \in Numbers
      /\ rpc[d] \in Reactors
  BY DEF TypeOK, Numbers, Outboxes
<1>3. rpc[d].mPacketsQueue \in Seq(Packet) BY <1>2 DEF Reactors
<1>4. OK(d) BY DEF AllSent
<1>5. CASE UNCHANGED manager /\ Queue(d) BY <1>4, <1>5 DEF manager
<1>6. ASSUME NEW C \in SUBSET Contexts, Manager!Leave(C), Queue(d) PROVE OK(d)'
  <2>1. published' = published BY <1>6 DEF Manager!Leave
  <2>2. outbox'[d] = Manager!EmptyOutbox \/ outbox'[d] = outbox[d]
    BY <1>6 DEF Manager!Leave
  <2>3. Sent(flushed[d], rpc[d].mPacketsQueue, Manager!EmptyOutbox, published)
    BY <1>2, <1>3, <1>4, SentAfterReset
  <2> QED BY <1>4, <1>6, <2>1, <2>2, <2>3
<1>7. ASSUME NEW s \in Streams, enqueuePacket(s) PROVE OK(d)'
  <2>1. UNCHANGED <<rpc, flushed>> /\ Manager!Publish(s) BY <1>7 DEF enqueuePacket
  <2>2. /\ published[s] < MaximumPackets
        /\ published' = [published EXCEPT ![s] = @ + 1]
        /\ \A t \in Streams :
             \/ outbox'[d][t] = outbox[d][t]
             \/ /\ t = s
                /\ outbox'[d][t] = Manager!Deliver(outbox[d][t], published[t] + 1)
    BY <2>1 DEF Manager!Publish
  <2>3. outbox'[d] \in Outboxes
    <3>1. TypeOK' BY NextType
    <3> QED BY <3>1 DEF TypeOK, Outboxes
  <2> DEFINE new == outbox'[d]
             f == flushed[d]
             q == rpc[d].mPacketsQueue
             o == outbox[d]
  <2>4. Sent(f, q, o, published) /\ f \in Numbers /\ q \in Seq(Packet) /\ o \in Outboxes
    BY <1>2, <1>3, <1>4
  <2>5. /\ new \in Outboxes
        /\ \A t \in Streams : \/ new[t] = o[t]
                              \/ t = s /\ new[t] = Manager!Deliver(o[t], published[t] + 1)
    BY <2>2, <2>3
  <2> HIDE DEF new, f, q, o
  <2>6. Sent(f, q, new, [published EXCEPT ![s] = @ + 1])
    BY <1>2, <2>2, <2>4, <2>5, SentAfterPublish
  <2> QED BY <2>1, <2>2, <2>6 DEF new, f, q, o
<1>8. ASSUME NEW c \in Contexts, c # d,
             Connect(c) \/ Cancel(c) \/ Reactor(c) \/ Reaction(c)
      PROVE  OK(d)'
  BY <1>4, <1>8, OthersKeep
<1>9. CASE Cancel(d) \/ Admit(d) \/ SubscribeToNothing(d) \/ Poll(d) \/ StartWrite(d)
           \/ Leave(d) \/ FinishCall(d) \/ OnCancel(d)
  <2>1. UNCHANGED <<manager, flushed>>
    BY <1>9 DEF Cancel, Admit, SubscribeToNothing, Poll, StartWrite, Leave,
                FinishCall, OnCancel
  <2>2. rpc'[d].mPacketsQueue = rpc[d].mPacketsQueue
    <3> USE <1>2 DEF TypeOK, Reactors
    <3>1. CASE Poll(d) \/ Leave(d) BY <3>1 DEF Poll, Leave, Goto
    <3>2. CASE Cancel(d) \/ OnCancel(d) BY <3>2 DEF Cancel, OnCancel
    <3>3. CASE Admit(d)
      <4>1. PICK f, b : rpc' = [rpc EXCEPT ![d].pc = "subscribe", ![d].finishes = f,
                                           ![d].refused = b]
        BY ONLY <3>3, Zenon DEF Admit
      <4> QED BY <4>1
    <3>4. CASE SubscribeToNothing(d) BY <3>4 DEF SubscribeToNothing
    <3>5. CASE StartWrite(d) BY <3>5 DEF StartWrite
    <3>6. CASE FinishCall(d) BY <3>6 DEF FinishCall
    <3> QED BY <1>9, <3>1, <3>2, <3>3, <3>4, <3>5, <3>6
  <2> QED BY <1>5, <2>1, <2>2
<1>10. CASE Subscribe(d)
  <2>1. UNCHANGED <<outbox, published, flushed>>
    BY <1>10 DEF Subscribe, Manager!Want
  <2>2. rpc'[d].mPacketsQueue = rpc[d].mPacketsQueue
    BY <1>2, <1>10 DEF Subscribe, TypeOK, Reactors
  <2> QED BY <1>4, <2>1, <2>2
<1>11. CASE Unsubscribe(d) \/ OnCancelUnsubscribe(d)
  <2>1. Manager!Leave({d}) /\ UNCHANGED flushed
    BY <1>11 DEF Unsubscribe, OnCancelUnsubscribe
  <2>2. rpc'[d].mPacketsQueue = rpc[d].mPacketsQueue
    BY <1>2, <1>11 DEF Unsubscribe, OnCancelUnsubscribe, TypeOK, Reactors
  <2> QED BY <1>6, <2>1, <2>2
<1>12. ASSUME ~rpc[d].mSubscribed PROVE outbox[d] = Manager!EmptyOutbox
  <2>1. \A s \in Streams : outbox[d][s] = <<>> BY <1>12 DEF Interests
  <2> QED BY <1>2, <2>1 DEF Manager!EmptyOutbox, Outboxes
<1>13. CASE Connect(d)
  <2>1. UNCHANGED manager /\ flushed'[d] = [s \in Streams |-> 0]
    BY <1>13 DEF Connect, TypeOK
  <2>2. rpc'[d].mPacketsQueue = rpc[d].mPacketsQueue
    BY <1>2, <1>13 DEF Connect, Goto, TypeOK, Reactors
  <2>3. ~rpc[d].mSubscribed /\ rpc[d].mPacketsQueue = <<>>
    BY <1>13 DEF Connect, Phases, PhaseOf, NoReactor
  <2>4. Sent([s \in Streams |-> 0], <<>>, Manager!EmptyOutbox, published)
    BY <1>2, <1>3, <1>4, SentAfterReset
  <2> QED BY <1>12, <2>1, <2>2, <2>3, <2>4 DEF manager
<1>14. CASE OnDone(d)
  <2>1. rpc'[d].mPacketsQueue = <<>> /\ UNCHANGED flushed
    BY <1>14 DEF OnDone, NoReactor, TypeOK
  <2>2. published' = published /\ (outbox'[d] = outbox[d] \/ outbox'[d] = Manager!EmptyOutbox)
    BY <1>14 DEF OnDone, Manager!Leave, manager
  <2>3. /\ Sent(flushed[d], <<>>, Manager!EmptyOutbox, published)
        /\ Sent(flushed[d], <<>>, outbox[d], published)
    BY <1>2, <1>3, <1>4, SentAfterReset
  <2> QED BY <2>1, <2>2, <2>3
<1>15. CASE OnWriteDone(d)
  <2> DEFINE packet == rpc[d].writing
             q == rpc[d].mPacketsQueue
  <2>1. UNCHANGED manager BY <1>15 DEF OnWriteDone
  <2>2. q # <<>> /\ Head(q) = packet BY <1>15 DEF OnWriteDone, Phases, PhaseOf
  <2>3. CASE /\ rpc' = [rpc EXCEPT ![d].pc = "poll", ![d].writing = Nothing,
                                   ![d].mWriteInProgress = FALSE,
                                   ![d].mPacketsQueue = Tail(@)]
             /\ flushed' = [flushed EXCEPT ![d][packet.stream] = packet.number]
    <3>1. rpc'[d].mPacketsQueue = Tail(q) BY <1>2, <2>3 DEF TypeOK, Reactors
    <3>2. flushed'[d] = [flushed[d] EXCEPT ![Head(q).stream] = Head(q).number]
      BY <2>2, <2>3 DEF TypeOK
    <3>3. Sent([flushed[d] EXCEPT ![Head(q).stream] = Head(q).number], Tail(q),
               outbox[d], published)
      BY <1>2, <1>3, <1>4, <2>2, SentAfterFlush
    <3> QED BY <2>1, <3>1, <3>2, <3>3 DEF manager
  <2>4. CASE /\ rpc' = [rpc EXCEPT ![d].writing = Nothing, ![d].finishes = Finish(1, @)]
             /\ UNCHANGED flushed
    <3>1. rpc'[d].mPacketsQueue = q BY <1>2, <2>4 DEF TypeOK, Reactors
    <3> QED BY <1>5, <2>1, <2>4, <3>1
  <2> QED BY <1>15, <2>3, <2>4 DEF OnWriteDone
<1>16. CASE GetPackets(d)
  <2>1. PICK taken \in [Streams -> 0..MaximumQueueSize] :
          /\ \A s \in Streams : taken[s] <= Len(outbox[d][s])
          /\ outbox' = [outbox EXCEPT ![d] =
                          [s \in Streams |-> SubSeq(@[s], taken[s] + 1, Len(@[s]))]]
    BY <1>16 DEF GetPackets, Manager!Fetch
  <2>2. UNCHANGED <<published, flushed>> /\ rpc[d].mPacketsQueue = <<>>
    BY <1>16 DEF GetPackets, Manager!Fetch
  <2> DEFINE o == outbox[d]
             rest == outbox'[d]
             f == flushed[d]
  <2>3. PICK q \in SetToSeqs({p \in Packet : /\ p.number \in Range(o[p.stream])
                                             /\ p.number \notin Range(rest[p.stream])}) :
          /\ Ordered(q)
          /\ rpc' = [rpc EXCEPT ![d].pc = "poll", ![d].mPacketsQueue = Newest(q)]
    BY <1>16 DEF GetPackets
  <2>4. rest = [s \in Streams |-> SubSeq(o[s], taken[s] + 1, Len(o[s]))]
    BY <2>1 DEF TypeOK
  <2>5. rpc'[d].mPacketsQueue = Newest(q) BY <1>2, <2>3 DEF TypeOK, Reactors
  <2>6. o \in Outboxes /\ f \in Numbers /\ Sent(f, <<>>, o, published)
        /\ \A s \in Streams : taken[s] <= Len(o[s])
    BY <1>2, <1>4, <2>1, <2>2
  <2> HIDE DEF o, rest, f
  <2>7. Sent(f, Newest(q), rest, published)
    BY <1>2, <2>3, <2>4, <2>6, SentAfterFetch
  <2> QED BY <2>2, <2>5, <2>7 DEF o, rest, f
<1>17. CASE start \/ StopRunning \/ Stopping \/ StopAgain
  <2>1. UNCHANGED <<rpc, flushed>> /\ (UNCHANGED manager \/ Manager!Leave(Contexts))
    BY <1>17 DEF start, StopRunning, Stopping, StopAgain, PurgeSubscribers, Shutdown,
                 NoShutdown, ShutdownReturns, Advance
  <2> QED BY <1>5, <1>6, <2>1
<1>18. CASE UNCHANGED vars BY <1>5, <1>18 DEF vars
<1>19. CASE \E c \in Contexts : Connect(c) \/ Cancel(c) \/ Reactor(c) \/ Reaction(c)
  BY <1>8, <1>9, <1>10, <1>11, <1>13, <1>14, <1>15, <1>16, <1>19 DEF Reactor, Reaction
<1> QED BY <1>7, <1>17, <1>18, <1>19 DEF Next

-----------------------------------------------------------------------------
(***************************************************************************)
(* The theorems.                                                           *)
(***************************************************************************)
\* Whatever clients, threads and gRPC do in whatever order, the invariant holds.
THEOREM Invariance == Spec => []IInv
<1>1. Init => IInv BY InitInv
<1>2. IInv /\ [Next]_vars => IInv'
  <2> SUFFICES ASSUME IInv, [Next]_vars PROVE IInv' OBVIOUS
  <2>1. TypeOK' BY NextType DEF IInv
  <2>2. Phases'
    <3>1. GoodReactors' BY NextIsGood DEF IInv, TypeOK, Phases, GoodReactors, Good
    <3> QED BY <3>1 DEF GoodReactors, Good, Phases
  <2>3. Interests' BY NextInterests DEF IInv
  <2>4. AllSent' BY NextSent
  <2> QED BY <2>1, <2>2, <2>3, <2>4 DEF IInv
<1> QED BY <1>1, <1>2, PTL DEF Spec

\* The reactors, their queues included, keep to their types and limits, and so
\* does what the manager holds for them.
THEOREM TypeCorrect == Spec => []TypeOK
<1>1. IInv => TypeOK BY DEF IInv
<1> QED BY <1>1, Invariance, PTL

\* The packet gRPC has a reference to stays at the front of its reactor's queue
\* until OnWriteDone, whatever the other reactions do.
THEOREM WrittenPacketStays == Spec => []WrittenPacketIsFront
<1>1. IInv => WrittenPacketIsFront BY DEF IInv, Phases, PhaseOf, WrittenPacketIsFront
<1> QED BY <1>1, Invariance, PTL

\* nextWrite is never entered while a write is in progress.
THEOREM NextWriteNeverSpins == Spec => []NeverSpins
<1>1. IInv => NeverSpins BY DEF IInv, Phases, PhaseOf, NeverSpins
<1> QED BY <1>1, Invariance, PTL

\* The manager has forgotten every context without a reactor: the next call at
\* the same address starts from nothing.
THEOREM NothingIsInherited == Spec => []GoneAreUnsubscribed
<1>1. ASSUME IInv, NEW c \in Contexts, rpc[c].pc = "none"
      PROVE  interest[c] = {} /\ outbox[c] = Manager!EmptyOutbox
  <2>1. ~rpc[c].mSubscribed BY <1>1 DEF IInv, Phases, PhaseOf, NoReactor
  <2>2. interest[c] = {} /\ \A s \in Streams : outbox[c][s] = <<>>
    BY <1>1, <2>1 DEF IInv, Interests
  <2>3. outbox[c] \in [Streams -> Seq(1..MaximumPackets)] BY <1>1 DEF IInv, TypeOK
  <2> QED BY <2>2, <2>3 DEF Manager!EmptyOutbox
<1>2. IInv => GoneAreUnsubscribed BY <1>1 DEF GoneAreUnsubscribed
<1> QED BY <1>2, Invariance, PTL

\* Every client is sent the packets of every stream in order, none twice.
THEOREM SentInOrder == Spec => []PacketsInOrder
<1>1. ASSUME IInv, NEW c \in Contexts, NEW s \in Streams
      PROVE  LET held    == rpc[c].mPacketsQueue
                 waiting == outbox[c][s]
                 ofStream == {i \in DOMAIN held : held[i].stream = s}
             IN  /\ Ordered(held)
                 /\ \A i, j \in DOMAIN waiting : i < j => waiting[i] < waiting[j]
                 /\ \A i \in ofStream : flushed[c][s] < held[i].number
                 /\ \A j \in DOMAIN waiting : flushed[c][s] < waiting[j]
                 /\ \A i \in ofStream, j \in DOMAIN waiting :
                      held[i].number < waiting[j]
  <2>1. Sent(flushed[c], rpc[c].mPacketsQueue, outbox[c], published)
    BY <1>1 DEF IInv, AllSent
  <2> QED BY <2>1 DEF Sent
<1>2. IInv => PacketsInOrder BY <1>1 DEF PacketsInOrder
<1> QED BY <1>2, Invariance, PTL

\* An admitted call is finished at most once, by nextWrite or by OnWriteDone.
THEOREM FinishedOnce == Spec => []AdmittedFinishOnce
<1>1. ASSUME IInv, NEW c \in Contexts, rpc[c].finishes > 1 PROVE rpc[c].refused
  BY <1>1 DEF IInv, Phases, PhaseOf
<1>2. IInv => AdmittedFinishOnce BY <1>1 DEF AdmittedFinishOnce
<1> QED BY <1>2, Invariance, PTL
================================================================================
