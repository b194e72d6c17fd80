SPECIFICATION FairSpec
CONSTANTS
    Users = {u1, u2}
    MaxSaid = 3
    Handlings = {h1, h2}
    Nobody = nobody
INVARIANTS
    TypeOK
    FlagTells
PROPERTIES
    HeardOrDrowned
CHECK_DEADLOCK FALSE
