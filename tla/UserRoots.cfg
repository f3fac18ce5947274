SPECIFICATION Spec
CONSTANTS
    Worker = {w1, w2}
    Thread = {u1, u2}
    Context = {c1, c2, c3}
    Null = Null
    MaxGC = 1
    MaxDepth = 2
    StolenCallback = FALSE
INVARIANTS
    IInv
    EnumSafe
    RootsEnumerated
    ContextKept
    LockReleased
SYMMETRY Sym
CHECK_DEADLOCK FALSE
