\* Liveness and predictor state on a ring of three slots, fetch in groups of two.
SPECIFICATION FairSpec
CONSTANTS
    RobSize = 3
    WinSize = 2
    FetchStages = 1
    DecodeStages = 1
    MaxFetch = 2
    MaxDecode = 1
    MaxDispatch = 1
    MaxRetire = 1
    MispredPenalty = 1
    Histories = 2
    Kinds = {"control", "call", "restore", "other", "barrier", "itlbmiss"}
PROPERTIES
    SpecHistoryKept
    RetirementProgress
    FetchRestarts
