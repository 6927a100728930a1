CONSTANTS
    c1 = c1
    c2 = c2
    Contexts = {c1, c2}
    Streams = {s1}
    MaximumQueueSize = 2
    MaximumPackets = 3
    MaximumNumberOfSubscribers = 1
    MaximumWriterQueueSize = 0
    Request <- AllAndNothing
SPECIFICATION Spec
INVARIANTS
    TypeOK
    WrittenPacketIsFront
    NeverSpins
    GoneAreUnsubscribed
    PacketsInOrder
    AdmittedFinishOnce
PROPERTIES
    QueuedIsSent
    CancelledCallEnds
    StopReturns
