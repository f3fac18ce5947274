CONSTANTS
    N = 2
    MaxGC = 1
    MaxRetry = 0
SPECIFICATION Spec
INVARIANTS
    SomeoneAdvances
CHECK_DEADLOCK FALSE
