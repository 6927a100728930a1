-------------------------- MODULE PacketBroadcast ---------------------------
(***************************************************************************)
(* What the subscription manager promises its callers, whatever maps it    *)
(* keeps to do so.  A context has an interest in a set of streams and an   *)
(* outbox per stream.  A published packet reaches the outbox of every      *)
(* context interested in its stream, whether the stream existed when the   *)
(* interest was declared or not; fetching takes from the front of every    *)
(* outbox; the only loss is that of the oldest packet of a full outbox.    *)
(* SubscriptionManager is shown to implement this specification.           *)
(***************************************************************************)
EXTENDS Integers, Sequences

CONSTANTS Contexts, Streams, MaximumQueueSize, MaximumPackets

VARIABLES published,  \* number of packets published on each stream
          interest,   \* the streams each context wants
          outbox      \* the packets each context has yet to fetch, per stream

vars == <<published, interest, outbox>>

EmptyOutbox == [s \in Streams |-> <<>>]

Init == /\ published = [s \in Streams |-> 0]
        /\ interest = [c \in Contexts |-> {}]
        /\ outbox = [c \in Contexts |-> EmptyOutbox]

Deliver(box, packet) ==
    Append(IF Len(box) >= MaximumQueueSize THEN Tail(box) ELSE box, packet)

\* A packet goes to everyone interested in its stream and to nobody else.
Publish(s) ==
    /\ published[s] < MaximumPackets
    /\ published' = [published EXCEPT ![s] = @ + 1]
    /\ outbox' = [c \in Contexts |->
                    [t \in Streams |->
                        IF t = s /\ s \in interest[c]
                          THEN Deliver(outbox[c][t], published[s] + 1)
                          ELSE outbox[c][t]]]
    /\ UNCHANGED interest

\* Declaring an interest never brings packets that were published before.
Want(c, S) ==
    /\ interest' = [interest EXCEPT ![c] = @ \cup S]
    /\ UNCHANGED <<published, outbox>>

\* A fetch takes at least the oldest packet of every outbox of the context.
Fetch(c) ==
    \E taken \in [Streams -> 0..MaximumQueueSize] :
        /\ \A s \in Streams : /\ taken[s] <= Len(outbox[c][s])
                              /\ outbox[c][s] # <<>> => taken[s] > 0
        /\ outbox' = [outbox EXCEPT ![c] =
                        [s \in Streams |-> SubSeq(@[s], taken[s] + 1, Len(@[s]))]]
        /\ UNCHANGED <<published, interest>>

Leave(C) ==
    /\ interest' = [c \in Contexts |-> IF c \in C THEN {} ELSE interest[c]]
    /\ outbox' = [c \in Contexts |-> IF c \in C THEN EmptyOutbox ELSE outbox[c]]
    /\ UNCHANGED published

Next == \/ \E s \in Streams : Publish(s)
        \/ \E c \in Contexts, S \in SUBSET Streams : Want(c, S)
        \/ \E c \in Contexts : Fetch(c)
        \/ \E C \in SUBSET Contexts : Leave(C)

Spec == Init /\ [][Next]_vars
=============================================================================
