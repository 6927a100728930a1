CONSTANTS
    Contexts = {1, 2}
    Streams = {1, 2}
    MaximumQueueSize = 1
    MaximumPackets = 2
    ServerStops = FALSE
    CountIsAsked = TRUE
    Request <- OneOfEach
SPECIFICATION Spec
INVARIANT EraseIsExclusive
