SPECIFICATION FairSpec
CONSTANTS
    NumSets = 4
    RobSize = 4
    Regs = {"asi", "tl"}
    Values = {0, 1}
    Initial = 0
    Ops <- MCOps
INVARIANTS
    RingInProgramOrder
    ReadyTracksWriter
PROPERTIES
    ImplementsFile
    RingDrains
