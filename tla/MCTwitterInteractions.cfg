SPECIFICATION FairSpec
CONSTANTS
    Count = 3
    Polls = {p1, p2}
    Limit = 2
    Parent <- ReplyToFirst
INVARIANTS
    TypeOK
    AnsweredOnce
    NoneOverlooked
PROPERTIES
    NoSecondChance
    EveryMentionSeen
CHECK_DEADLOCK FALSE
