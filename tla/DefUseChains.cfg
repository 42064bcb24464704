\* Two recorded stores and two addresses; classes remember two cycles.
SPECIFICATION Spec
CHECK_DEADLOCK FALSE
CONSTANTS
    StorePcs = {1, 2, 3}
    LoadPcs = {2, 3, 4}
    RecordPcs = {1, 2}
    Addresses = {1, 2}
    TagSpace = 2
    ClassSize = 2
    MaxStores = 5
    MaxUses = 1
INVARIANTS
    ChainsConsistent
    EveryStoreOnce
PROPERTIES
    ImplementsEquivalence
