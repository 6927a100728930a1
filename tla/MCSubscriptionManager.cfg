CONSTANTS
    Contexts = {c1, c2}
    Streams = {s1, s2}
    MaximumQueueSize = 2
    MaximumPackets = 3
SPECIFICATION Spec
INVARIANTS
    TypeOK
    PendingOnlyForFutureStreams
    SubscribedToAllMeansAll
    SubscribersArePolled
    QueueHoldsNewest
    LossOnlyByOverflow
    CachedCountIsFresh
PROPERTIES
    UnsubscribedIsForgotten
    ImplementsBroadcast
