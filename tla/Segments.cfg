SPECIFICATION MCSpec
CONSTANTS
    Worker = {w1, w2}
    Segment = {s1, s2, s3}
    Pool = Pool
    WordBits = 3
    N = 2
    MaxGC = 2
    MaxRoom = 1
INVARIANTS
    IInv
    LiveNotReturned
    CollectBitsClear
    ReadyToUse
    FindBitmapFirst
SYMMETRY Sym
CHECK_DEADLOCK FALSE
