SPECIFICATION SchedulerSpec
CONSTANTS
    Types <- MCTypes
    Units <- MCUnits
    UnitOf <- MCUnitOf
    NumAlus <- MCNumAlus
    Latency <- MCLatency
    MaxExecute = 2
    QueueSize = 2
    LastSeq = 3
    LastCycle = 5
CHECK_DEADLOCK FALSE
INVARIANTS
    ListsConsistent
PROPERTIES
    OldestFirst
    ExecutesWhenDue
