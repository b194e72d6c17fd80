---------------------------- MODULE TweetApproval ----------------------------
(***************************************************************************)
(* Approval of tweets by a human (client-twitter/src/post.ts).  A generated *)
(* tweet is sent to a Discord channel and recorded in a list kept under one *)
(* cache key.  A timer goes through the list: an expired tweet is removed, *)
(* an approved one is posted, a rejected one dropped.                      *)
(*                                                                         *)
(* Every change of the list is a read, an await and a write of the whole   *)
(* list, and nothing keeps two of them apart: not the generator and the    *)
(* timer, nor two ticks of the timer (setInterval does not wait for the    *)
(* previous tick, and the timer of a client that was restarted is never    *)
(* cleared).  The history variable blame records what went wrong, so that  *)
(* each property can say which mishaps it survives.                        *)
(***************************************************************************)
EXTENDS Naturals, Sequences, FiniteSets, SequencesExt

CONSTANTS MaxTweets,    \* bound: tweets generated in a behaviour
          Handlers      \* bound: executions of handlePendingTweet at a time

ASSUME SizeAssumption == MaxTweets \in Nat /\ Handlers # {}

Tweets == 1 .. MaxTweets    \* in the order they are generated

VARIABLES
    pending,    \* the cached list, of tweets in the order they were recorded
    asked,      \* messages sent to Discord so far: tweets 1 .. asked
    gen,        \* sendForApproval: where it is, and the list it has read
    handler,    \* handlePendingTweet: the rest of its list with the tweet it
                \* is at first, where it is, and the list cleanup has read
    verdict,    \* the reactions on the tweet's Discord message
    expired,    \* tweets recorded more than 24 hours ago
    fate,       \* what became of the tweet at Twitter
    blame       \* history: what went wrong

vars == <<pending, asked, gen, handler, verdict, expired, fate, blame>>

(***************************************************************************)
(* up: approved in time.  vetoed: approved in time, rejected later.        *)
(* down: rejected first.  late: approved after the tweet had expired.      *)
(***************************************************************************)
Verdicts == {"none", "up", "vetoed", "down", "late"}
Fates == {"untried", "failed", "posted", "posted twice"}
Faults == {"crash", "send lost", "read lost", "write lost", "cache threw"}
Mishaps == Faults \union {"overlap", "stale write"}

Lists == UNION {[1 .. n -> Tweets] : n \in 0 .. MaxTweets}
Done == [todo |-> <<>>, at |-> "idle", read |-> <<>>]

TypeOK ==
    /\ pending \in Lists /\ IsInjective(pending)
    /\ asked \in 0 .. MaxTweets
    /\ ToSet(pending) \subseteq 1 .. asked
    /\ gen \in [at : {"idle", "read", "write"}, read : Lists]
    /\ \A h \in Handlers :
        /\ handler[h] \in [todo : Lists, read : Lists,
               at : {"idle", "expiry", "status", "post", "reply", "clean", "write"}]
        /\ handler[h].at = "idle" <=> handler[h].todo = <<>>
    /\ verdict \in [Tweets -> Verdicts]
    /\ expired \subseteq Tweets
    /\ fate \in [Tweets -> Fates]
    /\ blame \subseteq Mishaps

Init ==
    /\ pending = <<>>
    /\ asked = 0
    /\ gen = [at |-> "idle", read |-> <<>>]
    /\ handler = [h \in Handlers |-> Done]
    /\ verdict = [m \in Tweets |-> "none"]
    /\ expired = {}
    /\ fate = [m \in Tweets |-> "untried"]
    /\ blame = {}

(***************************************************************************)
(* Faults are injected one per behaviour (a bound); blame records it.      *)
(***************************************************************************)
Faulty(kind) ==
    /\ blame \intersect Faults = {}
    /\ blame' = blame \union {kind}

\* The list is written: the write loses what happened since the list was read,
\* or is lost itself (the adapters catch and log).
WriteList(old, new) ==
    \/ /\ pending' = new
       /\ blame' = IF old = pending THEN blame ELSE blame \union {"stale write"}
    \/ /\ Faulty("write lost")
       /\ UNCHANGED pending

\* The list as a cache read gives it: an error of the adapter reads as no list.
ReadList(list) ==
    \/ list = pending /\ UNCHANGED blame
    \/ list = <<>> /\ Faulty("read lost")

-----------------------------------------------------------------------------
(* sendForApproval, called by generateNewTweet *)

\* channel.send: the human sees the tweet. When the response is lost the tweet
\* is abandoned, with its message on Discord. (When the send fails nothing
\* happens: another tweet is generated later.)
Ask ==
    /\ gen.at = "idle"
    /\ asked < MaxTweets
    /\ asked' = asked + 1
    /\ \/ gen' = [gen EXCEPT !.at = "read"] /\ UNCHANGED blame
       \/ Faulty("send lost") /\ UNCHANGED gen
    /\ UNCHANGED <<pending, handler, verdict, expired, fate>>

\* cacheManager.get of the list; an error that throws gives the tweet up.
ReadPending ==
    /\ gen.at = "read"
    /\ \/ \E list \in {pending, <<>>} :
            /\ ReadList(list)
            /\ gen' = [at |-> "write", read |-> list]
       \/ /\ Faulty("cache threw")
          /\ gen' = [gen EXCEPT !.at = "idle"]
    /\ UNCHANGED <<pending, asked, handler, verdict, expired, fate>>

\* push, and cacheManager.set of the list.
Record ==
    /\ gen.at = "write"
    /\ WriteList(gen.read, Append(gen.read, asked))
    /\ gen' = [at |-> "idle", read |-> <<>>]
    /\ UNCHANGED <<asked, handler, verdict, expired, fate>>

-----------------------------------------------------------------------------
(* handlePendingTweet *)

At(h, place) == handler[h].at = place
Current(h) == Head(handler[h].todo)
Busy(h) == ~At(h, "idle")

Move(h, place) == handler' = [handler EXCEPT ![h].at = place]

\* Faulty: the loop does not end at the end of the list.
OverTheEnd(h) ==
    handler' = [handler EXCEPT ![h] =
        [todo |-> Tail(@.todo), at |-> "expiry", read |-> <<>>]]

\* The next tweet of the list, or the end of the tick.
NextTweet(h) ==
    handler' = [handler EXCEPT ![h] =
        IF Len(@.todo) = 1 THEN Done
        ELSE [todo |-> Tail(@.todo), at |-> "expiry", read |-> <<>>]]

\* A tick of the timer: cacheManager.get of the list. On an empty list, or an
\* error, nothing happens until the next tick.
StartTick(h) ==
    /\ At(h, "idle")
    /\ pending # <<>>
    /\ handler' = [handler EXCEPT ![h].todo = pending, ![h].at = "expiry"]
    /\ blame' = IF \E g \in Handlers : Busy(g) THEN blame \union {"overlap"}
                ELSE blame
    /\ UNCHANGED <<pending, asked, gen, verdict, expired, fate>>

\* Faulty: expiry is left out.
IgnoreExpiry(h) ==
    /\ At(h, "expiry")
    /\ Move(h, "status")
    /\ UNCHANGED <<pending, asked, gen, verdict, expired, fate, blame>>

\* An expired tweet is announced and cleaned up, and the tick returns: the rest
\* of the list waits for the next one.
CheckExpiry(h) ==
    /\ At(h, "expiry")
    /\ IF Current(h) \in expired
       THEN handler' = [handler EXCEPT ![h].todo = <<Current(h)>>,
                                       ![h].at = "clean"]
       ELSE Move(h, "status")
    /\ UNCHANGED <<pending, asked, gen, verdict, expired, fate, blame>>

\* checkApprovalStatus: a rejection outweighs an approval. An error reads as
\* PENDING.
Status(m) ==
    CASE verdict[m] \in {"up", "late"} -> "APPROVED"
      [] verdict[m] \in {"down", "vetoed"} -> "REJECTED"
      [] OTHER -> "PENDING"

\* Faulty: a rejected tweet stays on the list.
RejectedStays(h, status) ==
    /\ At(h, "status")
    /\ \/ status = "APPROVED" /\ Move(h, "post")
       \/ status # "APPROVED" /\ NextTweet(h)
    /\ UNCHANGED <<pending, asked, gen, verdict, expired, fate, blame>>

\* Faulty: the tick returns at a tweet without an answer.
PendingEndsTick(h, status) ==
    /\ At(h, "status")
    /\ \/ status = "APPROVED" /\ Move(h, "post")
       \/ status = "REJECTED" /\ Move(h, "clean")
       \/ status = "PENDING" /\ handler' = [handler EXCEPT ![h] = Done]
    /\ UNCHANGED <<pending, asked, gen, verdict, expired, fate, blame>>

\* An approved tweet is posted, a rejected one is cleaned up (the human is told
\* afterwards), one without an answer is left for the next tick.
CheckStatus(h, status) ==
    /\ At(h, "status")
    /\ \/ status = "APPROVED" /\ Move(h, "post")
       \/ status = "REJECTED" /\ Move(h, "clean")
       \/ status = "PENDING" /\ NextTweet(h)
    /\ UNCHANGED <<pending, asked, gen, verdict, expired, fate, blame>>

\* What a tweet has come to after one more attempt.
FatesAfter(f) ==
    CASE f = "untried" -> {"failed", "posted"}
      [] f = "failed" -> {"failed", "posted"}
      [] OTHER -> {f, "posted twice"}

\* postTweet: Twitter takes the tweet or not. Whatever error there is, before
\* or after the tweet is out, is caught and logged.
PostTweet(h) ==
    /\ At(h, "post")
    /\ \E f \in FatesAfter(fate[Current(h)]) :
            fate' = [fate EXCEPT ![Current(h)] = f]
    /\ Move(h, "reply")
    /\ UNCHANGED <<pending, asked, gen, verdict, expired, blame>>

\* Faulty: a tweet that was posted stays on the list.
PostedStays(h) ==
    /\ At(h, "reply")
    /\ NextTweet(h)
    /\ UNCHANGED <<pending, asked, gen, verdict, expired, fate, blame>>

\* The Discord message gets the reply "Tweet has been posted successfully!"
\* (or the reply fails, which is ignored).
ReplyPosted(h) ==
    /\ At(h, "reply")
    /\ Move(h, "clean")
    /\ UNCHANGED <<pending, asked, gen, verdict, expired, fate, blame>>

\* cleanupPendingTweet reads the list; an error that throws ends the tick.
ReadForCleanup(h) ==
    /\ At(h, "clean")
    /\ \/ \E list \in {pending, <<>>} :
            /\ ReadList(list)
            /\ handler' = [handler EXCEPT ![h].at = "write", ![h].read = list]
       \/ /\ Faulty("cache threw")
          /\ handler' = [handler EXCEPT ![h] = Done]
    /\ UNCHANGED <<pending, asked, gen, verdict, expired, fate>>

\* Faulty: the cache key is deleted whatever is left.
DeleteKey(h) ==
    /\ At(h, "write")
    /\ WriteList(handler[h].read, <<>>)
    /\ NextTweet(h)
    /\ UNCHANGED <<asked, gen, verdict, expired, fate>>

\* The list without the tweet (filter).
Without(list, m) ==
    LET kept[n \in 0 .. Len(list)] ==
            IF n = 0 THEN <<>>
            ELSE IF list[n] = m THEN kept[n - 1]
            ELSE Append(kept[n - 1], list[n])
    IN  kept[Len(list)]

\* ... and writes it without the tweet; here too an error may end the tick.
WriteCleaned(h) ==
    /\ At(h, "write")
    /\ \/ /\ WriteList(handler[h].read, Without(handler[h].read, Current(h)))
          /\ NextTweet(h)
       \/ /\ Faulty("cache threw")
          /\ handler' = [handler EXCEPT ![h] = Done]
          /\ UNCHANGED pending
    /\ UNCHANGED <<asked, gen, verdict, expired, fate>>

-----------------------------------------------------------------------------
(* The human, the clock and the process *)

\* An approval is in time before the tweet expires, and also while a tick that
\* found it fresh is fetching the reactions.
InTime(m) ==
    \/ m \notin expired
    \/ \E h \in Handlers : At(h, "status") /\ Current(h) = m

\* What one more reaction makes of a verdict (a bound: none is taken back).
VerdictsAfter(m) ==
    CASE verdict[m] = "none" -> {"down", IF InTime(m) THEN "up" ELSE "late"}
      [] verdict[m] = "up"   -> {"vetoed"}
      [] verdict[m] = "late" -> {"down"}
      [] OTHER               -> {}

React(m) ==
    /\ m <= asked
    /\ \E v \in VerdictsAfter(m) : verdict' = [verdict EXCEPT ![m] = v]
    /\ UNCHANGED <<pending, asked, gen, handler, expired, fate, blame>>

\* 24 hours since the tweet was recorded.
Expire(m) ==
    /\ m \in ToSet(pending) \ expired
    /\ expired' = expired \union {m}
    /\ UNCHANGED <<pending, asked, gen, handler, verdict, fate, blame>>

\* The process restarts: what is in the cache stays.
Crash ==
    /\ Faulty("crash")
    /\ gen' = [at |-> "idle", read |-> <<>>]
    /\ handler' = [h \in Handlers |-> Done]
    /\ UNCHANGED <<pending, asked, verdict, expired, fate>>

CheckStatusOf(h) ==
    At(h, "status") /\ \E status \in {Status(Current(h)), "PENDING"} :
                            CheckStatus(h, status)

Tick(h) ==
    \/ CheckExpiry(h)
    \/ CheckStatusOf(h)
    \/ PostTweet(h)
    \/ ReplyPosted(h)
    \/ ReadForCleanup(h)
    \/ WriteCleaned(h)

Next ==
    \/ Ask
    \/ ReadPending
    \/ Record
    \/ \E h \in Handlers : StartTick(h) \/ Tick(h)
    \/ \E m \in Tweets : React(m) \/ Expire(m)
    \/ Crash

Spec == Init /\ [][Next]_vars

\* Timers fire and awaited calls settle; Discord answers a status check now and
\* then. Nothing makes the human react, a tweet expire or anything fail.
Fairness ==
    /\ WF_vars(ReadPending)
    /\ WF_vars(Record)
    /\ \A h \in Handlers :
        /\ WF_vars(Tick(h))
        /\ WF_vars(StartTick(h))
        /\ \A m \in Tweets :
            SF_vars(At(h, "status") /\ Current(h) = m /\ CheckStatus(h, Status(m)))

FairSpec == Spec /\ Fairness

-----------------------------------------------------------------------------
(* Properties *)

Out == {m \in Tweets : fate[m] \in {"posted", "posted twice"}}

\* Only a tweet a human approved within 24 hours is tried at Twitter, whatever
\* races, faults and restarts happen (handlePendingTweet, checkApprovalStatus).
OnlyApproved ==
    \A m \in Tweets : fate[m] # "untried" => verdict[m] \in {"up", "vetoed"}

\* A tweet is posted twice only if two ticks overlapped, a stale list was
\* written, or the removal from the list was kept from happening after the post
\* (handlePendingTweet posts before it cleans up).
PostedOnce ==
    \A m \in Tweets :
        fate[m] = "posted twice" =>
            blame \intersect {"overlap", "stale write", "crash", "write lost",
                              "cache threw"} # {}

Recording(m) == gen.at # "idle" /\ m = asked

\* Someone keeps watching a message that awaits an answer: a tweet shown to the
\* human, neither tried, rejected nor expired, is on the list or being put
\* there, unless a fault or a stale write lost it (sendForApproval and
\* cleanupPendingTweet). Overlapping ticks alone do not lose it.
NoneForgotten ==
    \A m \in 1 .. asked :
        /\ fate[m] = "untried"
        /\ verdict[m] \in {"none", "up"}
        /\ m \notin expired
        => m \in ToSet(pending) \/ Recording(m) \/ blame \ {"overlap"} # {}

Listed(m) == m \in ToSet(pending)

\* A tweet that was answered or has expired leaves the list, in spite of a
\* restart, a fault or a list written back by the generator
\* (handlePendingTweet, cleanupPendingTweet).
AnsweredLeaves ==
    \A m \in Tweets :
        Listed(m) /\ (verdict[m] # "none" \/ m \in expired) ~> ~Listed(m)

\* An approved tweet is tried, also behind tweets nobody answers, unless it is
\* rejected, expires or is lost first (the loop of handlePendingTweet).
ApprovedIsTried ==
    \A m \in Tweets :
        Listed(m) /\ verdict[m] = "up" ~>
            \/ fate[m] # "untried" \/ verdict[m] # "up" \/ m \in expired
            \/ blame \ {"overlap"} # {}

\* What the reply on Discord says: "Tweet has been posted successfully!".
ReplyIsTrue == \A h \in Handlers : At(h, "reply") => Current(h) \in Out

=============================================================================
