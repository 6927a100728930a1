CONSTANTS
    c1 = c1
    c2 = c2
    Contexts = {c1, c2}
    Streams = {s1}
    MaximumQueueSize = 1
    MaximumPackets = 1
    MaximumNumberOfSubscribers = 1
    MaximumWriterQueueSize = 0
    Request <- AllAndNothing
SPECIFICATION Spec
PROPERTY RejectedCallEnds
