SPECIFICATION SpecDetectors
CONSTANTS
    Second = 2
    Counts = 16
    Tolerance <- MCTolerance
    Headers <- MCHeaders
    Sizes = {0, 3}
    Durations = {0, 2}
    DefaultDuration = 2
    MinimumCapacity = 1
    ExpiredTimes = {0, 1}
    DefaultExpiredTime = 4
    FutureTimes <- MCFutureTimes
    LargestTime = 12
    LastTick = 10
INVARIANTS
    TypeOKDetectors
    BufferIsSorted
    JudgesOverlaps
    MemoryLasts
    SamplesAreInTime
