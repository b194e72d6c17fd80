------------------------- MODULE MCTwitterInteractions -------------------------
EXTENDS TwitterInteractions
\* The last mention replies to the first.
ReplyToFirst == <<0, 0, 1>>
=============================================================================
