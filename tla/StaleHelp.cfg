SPECIFICATION RestrictedSpec
CONSTANTS
    N = 2
    MaxGC = 1
    MaxRetry = 1
INVARIANT
    HelpAlwaysOffered
CHECK_DEADLOCK FALSE
