SPECIFICATION FairSpec
CONSTANTS
    Sequencer = Sequencer
    Insts = {i1, i2}
    CodeLines = {l1}
    DataLines = {l1, l2}
    Ways <- MCWays
    Entries <- MCEntries
    Latency <- MCLatency
    BusCycles <- MCBusCycles
    LastAccess = 4
INVARIANTS
    MissesConsistent
    BusCarriesOneLine
PROPERTIES
    WokenWithLine
    EveryMissEnds
