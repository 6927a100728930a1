CONSTANTS
    Contexts = {1, 2}
    Streams = {1, 2}
    MaximumQueueSize = 1
    MaximumPackets = 2
    ServerStops = FALSE
    CountIsAsked = TRUE
    Request <- AllAndOneName
SPECIFICATION Spec
INVARIANTS
    TypeOK
    QueueIsRun
    InOrder
    ServedUnlessDisturbed
    ForgottenUnlessDisturbed
    CountCoversPolling
