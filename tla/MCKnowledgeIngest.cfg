SPECIFICATION Spec
CONSTANTS
    Agents = {a1, a2}
    Versions = 2
    Batches = 2
SYMMETRY Symmetry
INVARIANTS
    TypeOK
    WholeOrCut
    OneContent
PROPERTIES
    StartLoads
CHECK_DEADLOCK FALSE
