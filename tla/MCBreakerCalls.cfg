SPECIFICATION FairSpec
CONSTANTS
    Calls = {c1, c2, c3}
    FailureThreshold = 2
    ResetTimeout = 1
    HalfOpenMaxAttempts = 2
INVARIANTS
    TypeOK
    CountDecidesState
    ProbesAreAnUnbrokenRun
PROPERTIES
    Lifecycle
    HalfOpenFailureReopens
    ClosesOnCleanRun
    Recovers
