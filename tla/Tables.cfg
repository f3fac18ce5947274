SPECIFICATION MCSpec
CONSTANTS
    Address = {1, 2, 3, 4}
    Exporter = {x1, x2}
    Code = {1}
    Env = {"a", "b", "c"}
    EnvClass <- MCClass
    PageSize = 2
    Program = {"main", "second", "third"}
    Units <- MCUnits
    PageItems = 2
    MaxDepth = 8
    MaxRaise = 3
SYMMETRY Sym
INVARIANTS
    FinalizedOnce
    TreeOps
    CallbackUnique
    EnvMarked
    ListOrder
    LookupFinds
    EnumComplete
    PadsLeft
    ContextMatches
    ExnHeld
