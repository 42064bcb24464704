\* Two instructions and the fetches, over two lines, one miss outstanding.
SPECIFICATION FairSpec
CONSTANTS
    i1 = i1
    i2 = i2
    l1 = l1
    l2 = l2
    Sequencer = Sequencer
    Insts = {i1, i2}
    Lines = {l1, l2}
    Types <- LoadsAndStores
    MaxOutstanding = 1
    LastCycle = 3
CHECK_DEADLOCK FALSE
INVARIANTS
    PoolConsistent
    CountIsOutstanding
    AnswersFindRequests
PROPERTIES
    EveryMissEnds
