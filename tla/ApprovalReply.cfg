SPECIFICATION Spec
CONSTANTS
    MaxTweets = 1
    h1 = h1
    h2 = h2
    Handlers <- OneTick
INVARIANTS ReplyIsTrue
CHECK_DEADLOCK FALSE
