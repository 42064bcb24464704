SPECIFICATION FairSpec
CONSTANTS
    LineUnits = 3
    NumLines = 2
    Ops <- MCOps
    Window = 3
    Buckets = 1
    RecentRetired = 0
    RegUnits = 2
    LateData = {"store", "swap"}
    LastSeq = 3
    Mispredictions = 1
CHECK_DEADLOCK FALSE
INVARIANTS
    QueueConsistent
    NoStaleValue
PROPERTIES
    ImplementsMemory
    AllRetire
