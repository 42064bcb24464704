SPECIFICATION FairSpec
CONSTANTS
    NumPhysical = 5
    NumLogical = 2
    Reserves = 1
    RobSize = 3
    DestLists <- MCDestLists
    ReadKinds <- MCReadKinds
INVARIANTS
    TypeOK
    NoRegisterLeak
    ProgramOrderMaps
    BookkeepingExact
PROPERTIES
    HeadCompletes
