-------------------------- MODULE MCTweetApproval --------------------------
(* Two tweets, and one or two executions of handlePendingTweet at a time.   *)
EXTENDS TweetApproval, TLC
CONSTANTS h1, h2
TwoTicks == {h1, h2}
OneTick == {h1}
TickSymmetry == Permutations(TwoTicks)
=============================================================================
