SPECIFICATION Spec
CONSTANTS
    Worker = {w1, w2}
    Thread = {u1, u2}
    Context = {c1, c2, c3}
    Null = Null
    MaxGC = 1
    MaxDepth = 2
    StolenCallback = TRUE
INVARIANTS
    EnumSafe
SYMMETRY Sym
CHECK_DEADLOCK FALSE
