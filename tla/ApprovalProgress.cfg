SPECIFICATION FairSpec
CONSTANTS
    MaxTweets = 2
    h1 = h1
    h2 = h2
    Handlers <- OneTick
PROPERTIES AnsweredLeaves ApprovedIsTried
CHECK_DEADLOCK FALSE
