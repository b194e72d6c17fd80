SPECIFICATION FairSpec
CONSTANTS
    Requests = {r1, r2, r3, r4, r5}
    NotLooping = NotLooping
    Pausing = Pausing
INVARIANTS
    TypeOK
    OneLoop
    NoneLostOrRepeated
PROPERTIES
    ServesInOrder
CHECK_DEADLOCK FALSE
