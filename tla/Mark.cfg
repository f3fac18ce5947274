CONSTANTS
    Worker = {w1, w2}
    Block = {o1, o2, o3}
    Null = null
    MaxGC = 1
    MaxOps = 3
SPECIFICATION MCSpec
SYMMETRY Symmetry
INVARIANTS
    KeptInv
    LiveUnlessMissed
    TracedUnlessMissed
    SnapshotUnlessMissed
CHECK_DEADLOCK FALSE
