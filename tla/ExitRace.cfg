SPECIFICATION Spec
CONSTANTS
    Thread = {t1, t2, t3}
    Exiter = t1
    MaxSignal = 3
INVARIANTS
    Alone
CHECK_DEADLOCK FALSE
