SPECIFICATION Spec
CONSTANTS
    nReconnect = 1
    mMaximumImportQueueSize = 2
    MaximumPackets = 3
INVARIANTS
    TypeOK
    PacketsInOrder
    NewestIsKept
    ReadsEndBeforeReactor
    GivesUpAfterSchedule
    EndsInOrder
PROPERTIES
    SignalEndsProcess
    DeadImportEndsProcess
    NewestIsSent
