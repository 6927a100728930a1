CONSTANTS
    Contexts = {1, 2}
    Streams = {1}
    MaximumQueueSize = 1
    MaximumPackets = 2
    ServerStops = TRUE
    CountIsAsked = FALSE
    Request <- OneOfEachForOneStream
SPECIFICATION Spec
INVARIANT PurgedUnlessDisturbed
PROPERTY EveryCallReturns
