SPECIFICATION MCSpec

CONSTANTS
    Var = {"x", "y"}
    Global = {"g"}
    Null = Null
    SpaceSize = 3
    NumGenerations = 3
    GenSize = 2
    MaxSegments = 2
    MinSegments = 1
    NumBlocks = 2
    MinorThreshold = 1
    BlockCounts = 4
    WordBits = 3
    MaxOps = 6
    ReppyOps = 2

INVARIANTS
    OldToYoung
    UnreservedHasRoom
    OverMeansFull

PROPERTIES
    HeapKept

CHECK_DEADLOCK FALSE
