SPECIFICATION Spec
CONSTANTS
    Calls = {c1, c2, c3}
    MaxSets = 3
    Stores = {"memory", "file", "database"}
    Size <- SizesFirst
SYMMETRY Symmetry
INVARIANTS
    TypeOK
    NeverStale
    FreshKept
    TornHasCause
CHECK_DEADLOCK FALSE
