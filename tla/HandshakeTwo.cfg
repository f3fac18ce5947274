CONSTANTS
    N = 2
    MaxGC = 2
    MaxRetry = 1
SPECIFICATION FairSpec
INVARIANTS
    CounterExact
    RootsBeforeMark
    ExclusiveAction
    Asserts
    QuietBetweenCollections
    IInv
    HelpStaysOffered
PROPERTIES
    InRounds
    DeadIsLeftAlone
    WaiterReleased
    EnterReturns
CHECK_DEADLOCK FALSE
