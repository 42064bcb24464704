\* A ring of four slots, fetch in groups of two, two stages to decode.
SPECIFICATION Spec
CONSTANTS
    RobSize = 4
    WinSize = 3
    FetchStages = 2
    DecodeStages = 1
    MaxFetch = 2
    MaxDecode = 2
    MaxDispatch = 1
    MaxRetire = 2
    MispredPenalty = 1
    Histories = 1
    Kinds = {"control", "other", "barrier", "itlbmiss"}
INVARIANTS
    WindowConsistent
    ExceptionCoversHazards
    StallHasCause
PROPERTIES
    ImplementsInOrder
