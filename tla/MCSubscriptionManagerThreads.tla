-------------------- MODULE MCSubscriptionManagerThreads --------------------
\* Instances of SubscriptionManagerThreads for TLC.
EXTENDS SubscriptionManagerThreads

\* One RPC for every stream and one for both streams, by name, in the order
\* opposite to that of the maps.
OneOfEach == <<[all |-> TRUE, names |-> <<>>], [all |-> FALSE, names |-> <<2, 1>>]>>

\* The same with one name in the second request, for fewer states.
AllAndOneName ==
    <<[all |-> TRUE, names |-> <<>>], [all |-> FALSE, names |-> <<2>>]>>

\* The same for a single stream.
OneOfEachForOneStream ==
    <<[all |-> TRUE, names |-> <<>>], [all |-> FALSE, names |-> <<1>>]>>
=============================================================================
