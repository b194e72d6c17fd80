SPECIFICATION Spec
CONSTANTS
    MaxTweets = 2
    h1 = h1
    h2 = h2
    Handlers <- TwoTicks
SYMMETRY TickSymmetry
INVARIANTS TypeOK OnlyApproved PostedOnce NoneForgotten
CHECK_DEADLOCK FALSE
