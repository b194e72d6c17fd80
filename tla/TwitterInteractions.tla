-------------------------- MODULE TwitterInteractions --------------------------
(***************************************************************************)
(* Answers to mentions (client-twitter/src/interactions.ts, utils.ts and   *)
(* the start-up in base.ts).  Every few minutes a poll searches the latest *)
(* mentions and goes through them in the order of their ids.  Two things   *)
(* keep it from answering again: the mark lastCheckedTweetId, kept in the  *)
(* process and saved in the cache at the end of a poll, and the memory of  *)
(* the tweet, stored before it is answered.  The timer does not wait for   *)
(* the poll before.                                                        *)
(***************************************************************************)
EXTENDS Naturals, FiniteSets, FiniteSetsExt

CONSTANTS Count,      \* bound: mentions in a behaviour
          Polls,      \* bound: polls at a time
          Limit,      \* how many mentions a search returns (20 in the code)
          Parent      \* the mention that a mention replies to, 0 for none

Mentions == 1 .. Count      \* in the order of their ids

ASSUME MentionAssumption ==
    /\ Count \in Nat
    /\ Limit \in Nat \ {0}
    /\ Parent \in [Mentions -> Mentions \union {0}]
    /\ \A m \in Mentions : Parent[m] < m

VARIABLES
    indexed,    \* mentions the search can find
    memory,     \* tweets with a stored memory
    replies,    \* how often a mention was answered, 2 meaning more than once
    mark,       \* lastCheckedTweetId, 0 for null
    saved,      \* the mark in the cache
    up,         \* the client has started
    poll,       \* the polls in progress
    passed,     \* history: mentions the search showed too late, or no more
    overlapped  \* history: a poll started before another had ended

vars == <<indexed, memory, replies, mark, saved, up, poll, passed, overlapped>>

(***************************************************************************)
(* A poll: where it is, the candidates left, the mention it handles (at    *)
(* "save": the mark it writes) and the tweet of its thread it is at.       *)
(***************************************************************************)
Places == {"idle", "lookup", "thread", "insert", "compose", "send", "sent", "save"}
Idle == [at |-> "idle", todo |-> {}, m |-> 0, node |-> 0]

TypeOK ==
    /\ indexed \subseteq Mentions
    /\ memory \subseteq Mentions
    /\ replies \in [Mentions -> 0 .. 2]
    /\ mark \in 0 .. Count
    /\ saved \in 0 .. Count
    /\ up \in BOOLEAN
    /\ poll \in [Polls -> [at : Places, todo : SUBSET Mentions,
                           m : 0 .. Count, node : 0 .. Count]]
    /\ \A p \in Polls :
        /\ poll[p].at \in {"lookup", "thread", "insert", "compose", "send", "sent"} =>
               poll[p].m # 0 /\ \A n \in poll[p].todo : n > poll[p].m
        /\ poll[p].at \in {"thread", "insert"} => poll[p].node # 0
        /\ ~up => poll[p] = Idle
    /\ passed \subseteq indexed
    /\ overlapped \in BOOLEAN

Init ==
    /\ indexed = {}
    /\ memory = {}
    /\ replies = [m \in Mentions |-> 0]
    /\ mark = 0
    /\ saved = 0
    /\ up = FALSE
    /\ poll = [p \in Polls |-> Idle]
    /\ passed = {}
    /\ overlapped = FALSE

-----------------------------------------------------------------------------
(* The search *)

\* A mention can be found from some time after it was written. One that a later
\* mention has overtaken may find the mark beyond it.
Appear(m) ==
    /\ m \notin indexed
    /\ indexed' = indexed \union {m}
    /\ passed' = IF \E n \in indexed : n > m THEN passed \union {m} ELSE passed
    /\ UNCHANGED <<memory, replies, mark, saved, up, poll, overlapped>>

\* The mentions a search returns (SearchMode.Latest).
Latest == {m \in indexed : Cardinality({n \in indexed : n > m}) < Limit}

-----------------------------------------------------------------------------
(* Start-up *)

\* ClientBase.init: the mark is loaded, and populateTimeline stores a memory of
\* the latest mentions, also of those nobody has answered. A search that fails
\* returns none.
Start ==
    /\ ~up
    /\ \E found \in {Latest, {}} : memory' = memory \union found
    /\ mark' = saved
    /\ up' = TRUE
    /\ UNCHANGED <<indexed, replies, saved, poll, passed, overlapped>>

\* It may fail half-way, and the client does not start.
StartFails ==
    /\ ~up
    /\ \E found \in SUBSET Latest : memory' = memory \union found
    /\ UNCHANGED <<indexed, replies, mark, saved, up, poll, passed, overlapped>>

Crash ==
    /\ up
    /\ up' = FALSE
    /\ mark' = 0
    /\ poll' = [p \in Polls |-> Idle]
    /\ UNCHANGED <<indexed, memory, replies, saved, passed, overlapped>>

-----------------------------------------------------------------------------
(* A poll *)

At(p, place) == poll[p].at = place
Move(p, place) == poll' = [poll EXCEPT ![p].at = place]

\* Faulty: the first candidate is the one with the greatest id.
LatestFirst(candidates, latest) ==
    LET new == {m \in candidates : latest = 0 \/ m > latest} IN
    IF new = {} THEN [Idle EXCEPT !.at = "save", !.m = latest]
    ELSE [Idle EXCEPT !.at = "lookup", !.m = Max(new), !.todo = new \ {Max(new)}]

\* The loop goes on to the first candidate beyond the mark; after the last one
\* the mark is to be saved.
Continue(candidates, latest) ==
    LET new == {m \in candidates : latest = 0 \/ m > latest} IN
    IF new = {} THEN [Idle EXCEPT !.at = "save", !.m = latest]
    ELSE [Idle EXCEPT !.at = "lookup", !.m = Min(new), !.todo = new \ {Min(new)}]

\* The search answers; it finds nothing when it fails or takes too long.
\* Mentions older than the latest are seen no more.
StartPoll(p, found) ==
    /\ up
    /\ At(p, "idle")
    /\ poll' = [poll EXCEPT ![p] = Continue(found, mark)]
    /\ passed' = IF found = {} THEN passed ELSE passed \union (indexed \ found)
    /\ overlapped' = IF \E q \in Polls : ~At(q, "idle") THEN TRUE ELSE overlapped
    /\ UNCHANGED <<indexed, memory, replies, mark, saved, up>>

\* Faulty: the memory is not looked up.
NoLookup(p) ==
    /\ At(p, "lookup")
    /\ poll' = [poll EXCEPT ![p].at = "thread", ![p].node = poll[p].m]
    /\ UNCHANGED <<indexed, memory, replies, mark, saved, up, passed, overlapped>>

\* Faulty: a mention with a memory ends the loop.
LookupBreaks(p) ==
    /\ At(p, "lookup")
    /\ poll' = [poll EXCEPT ![p] =
                   IF @.m \in memory THEN Continue({}, mark)
                   ELSE [@ EXCEPT !.at = "thread", !.node = poll[p].m]]
    /\ UNCHANGED <<indexed, memory, replies, mark, saved, up, passed, overlapped>>

\* A mention with a memory counts as answered, and does not move the mark.
Lookup(p) ==
    /\ At(p, "lookup")
    /\ poll' = [poll EXCEPT ![p] =
                   IF @.m \in memory THEN Continue(@.todo, mark)
                   ELSE [@ EXCEPT !.at = "thread", !.node = poll[p].m]]
    /\ UNCHANGED <<indexed, memory, replies, mark, saved, up, passed, overlapped>>

OwnNode(p) == poll[p].node = poll[p].m

\* An error in the tweet's own step ends the poll; in that of one it replies to,
\* it ends the thread.
Throws(p) ==
    \/ OwnNode(p) /\ poll' = [poll EXCEPT ![p] = Idle]
    \/ ~OwnNode(p) /\ Move(p, "compose")

\* processThread: a tweet with a memory is not stored again; in any case the
\* thread goes on with the tweet it replies to.
NextInThread(p) ==
    poll' = [poll EXCEPT ![p] =
        IF Parent[poll[p].node] = 0 THEN [@ EXCEPT !.at = "compose"]
        ELSE [@ EXCEPT !.at = "thread", !.node = Parent[poll[p].node]]]

LookupInThread(p) ==
    /\ At(p, "thread")
    /\ \/ poll[p].node \in memory /\ NextInThread(p)
       \/ poll[p].node \notin memory /\ Move(p, "insert")
       \/ Throws(p)
    /\ UNCHANGED <<indexed, memory, replies, mark, saved, up, passed, overlapped>>

\* createMemory: should another poll have stored the tweet meanwhile, that is
\* noticed, or the row replaced, or refused with an error.
Insert(p) ==
    /\ At(p, "insert")
    /\ \/ memory' = memory \union {poll[p].node} /\ NextInThread(p)
       \/ Throws(p) /\ UNCHANGED memory
    /\ UNCHANGED <<indexed, replies, mark, saved, up, passed, overlapped>>

\* handleTweet: the model decides. The tweet is stored if it is not yet.
Compose(p) ==
    /\ At(p, "compose")
    /\ memory' = memory \union {poll[p].m}
    /\ \/ Move(p, "send") /\ UNCHANGED mark
       \/ /\ mark' = poll[p].m      \* not responding
          /\ poll' = [poll EXCEPT ![p] = Continue(@.todo, mark')]
    /\ UNCHANGED <<indexed, replies, saved, up, passed, overlapped>>

\* sendTweet, whose errors are logged.
Send(p) ==
    /\ At(p, "send")
    /\ \/ replies' = [replies EXCEPT ![poll[p].m] = IF @ = 0 THEN 1 ELSE 2]
       \/ UNCHANGED replies
    /\ Move(p, "sent")
    /\ UNCHANGED <<indexed, memory, mark, saved, up, passed, overlapped>>

\* After the actions and a pause, the mark moves to the tweet.
Finish(p) ==
    /\ At(p, "sent")
    /\ mark' = poll[p].m
    /\ poll' = [poll EXCEPT ![p] = Continue(@.todo, mark')]
    /\ UNCHANGED <<indexed, memory, replies, saved, up, passed, overlapped>>

\* cacheLatestCheckedTweetId, with the mark the loop ended with.
SaveMark(p) ==
    /\ At(p, "save")
    /\ \/ poll[p].m # 0 /\ saved' = poll[p].m
       \/ UNCHANGED saved
    /\ poll' = [poll EXCEPT ![p] = Idle]
    /\ UNCHANGED <<indexed, memory, replies, mark, up, passed, overlapped>>

\* Faulty: a poll that fails moves the mark beyond the tweet.
AbortAndMark(p) ==
    /\ poll[p].at \in {"lookup", "compose"}
    /\ poll' = [poll EXCEPT ![p] = Idle]
    /\ mark' = poll[p].m
    /\ UNCHANGED <<indexed, memory, replies, saved, up, passed, overlapped>>

\* An error of the database, of a provider or of a model ends the poll: the
\* mark stays, the remaining candidates wait for the next poll.
Abort(p) ==
    /\ poll[p].at \in {"lookup", "compose"}
    /\ poll' = [poll EXCEPT ![p] = Idle]
    /\ UNCHANGED <<indexed, memory, replies, mark, saved, up, passed, overlapped>>

Step(p) ==
    \/ Lookup(p) \/ LookupInThread(p) \/ Insert(p)
    \/ Compose(p) \/ Send(p) \/ Finish(p) \/ SaveMark(p)

Next ==
    \/ \E m \in Mentions : Appear(m)
    \/ Start \/ StartFails \/ Crash
    \/ \E p \in Polls :
        \/ \E found \in {Latest, {}} : StartPoll(p, found)
        \/ Step(p)
        \/ Abort(p)

Spec == Init /\ [][Next]_vars

\* Timers fire and awaited calls settle.
Fairness ==
    /\ WF_vars(Start)
    /\ \A p \in Polls : WF_vars(Step(p)) /\ WF_vars(StartPoll(p, Latest))

FairSpec == Spec /\ Fairness

-----------------------------------------------------------------------------
(* Properties *)

Handles(p, m) ==
    /\ poll[p].at \in {"thread", "insert", "compose", "send", "sent"}
    /\ poll[p].m = m

\* A mention is answered at most once, whatever fails and however often the
\* process restarts, as long as no poll started before another had ended
\* (start and handleTwitterInteractions).
AnsweredOnce == \A m \in Mentions : replies[m] = 2 => overlapped

\* The memory is the point of no return: a mention that has one, and that no
\* poll is at, is never taken up or answered any more, also by overlapping polls
\* and after a restart (the lookup of handleTwitterInteractions and the
\* insertion of buildConversationThread, before anything is sent).
NoSecondChance ==
    [][\A m \in memory :
        (\A p \in Polls : ~Handles(p, m)) =>
            (\A p \in Polls : ~Handles(p, m)') /\ replies'[m] = replies[m]]_vars

\* The mark, in the process or in the cache, passes no mention that was never
\* looked at, unless the search overtook it (the order of the loop, and the
\* mark of a poll that failed or overlapped).
NoneOverlooked ==
    \A m \in indexed \ passed :
        m <= mark \/ m <= saved => m \in memory

\* A search that does not show a new mention there is; a lookup or an insertion
\* in the database that fails.
SearchFails(p) ==
    At(p, "idle") /\ poll'[p].at = "save" /\ \E m \in Latest : m > mark
DatabaseFails(p) ==
    poll[p].at \in {"lookup", "thread", "insert"} /\ poll'[p] = Idle
Served == \A p \in Polls : ~SearchFails(p) /\ ~DatabaseFails(p)

\* Once the process keeps running, over a search and a database that work, each
\* mention is looked at, unless the search overtakes it: older mentions whose
\* answer fails each time do not hold it up (the timer of start, and the catch
\* of handleTwitterInteractions).
EveryMentionSeen ==
    <>[]up /\ <>[][Served]_vars =>
        \A m \in Mentions : m \in indexed \ passed ~> m \in memory \union passed

=============================================================================
