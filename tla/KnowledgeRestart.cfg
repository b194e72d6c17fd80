SPECIFICATION Spec
CONSTANTS
    Agents = {a1}
    Versions = 1
    Batches = 2
INVARIANT StartCompletes
CHECK_DEADLOCK FALSE
