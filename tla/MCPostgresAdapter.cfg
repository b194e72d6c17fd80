SPECIFICATION FairSpec
CONSTANTS
    Tasks = {t1, t2}
    Observed = {t1}
    MaxRetries = 2
    FailureThreshold = 2
    ResetTimeout = 1
    HalfOpenMaxAttempts = 2
INVARIANTS
    TypeOK
    FailuresPerCall
    QueriesPerCall
    ResolvedMeansStored
PROPERTIES
    CallsSettle
    Recovers
