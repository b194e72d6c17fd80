------------------------- MODULE TweetApproval_proof -------------------------
(***************************************************************************)
(* What the approval of tweets guarantees for any number of tweets and of  *)
(* overlapping ticks.  OnlyApproved does not depend on what the lists      *)
(* contain; the other theorems follow a tweet from list to list, and rest  *)
(* on what Without does to a list.  That is an induction over the list,    *)
(* made with sets: a set of natural numbers that has 0, and n + 1 with     *)
(* every n, is Nat, because Nat is well founded.                           *)
(***************************************************************************)
EXTENDS TweetApproval, TLAPS, WellFoundedInduction, FiniteSetTheorems

(***************************************************************************)
(* The invariant follows a tweet through a tick: a late approval is one of *)
(* an expired tweet, a tweet whose reactions are being fetched was fresh   *)
(* when the tick came to it, so that one about to be posted was approved   *)
(* in time.                                                                *)
(***************************************************************************)
HandlerShape ==
    /\ DOMAIN handler = Handlers
    /\ \A h \in Handlers : DOMAIN handler[h] = {"todo", "at", "read"}

Approved(m) == verdict[m] \in {"up", "vetoed"}

LateIsExpired == \A m \in Tweets : verdict[m] = "late" => m \in expired

FetchedIsNotLate ==
    \A h \in Handlers :
        At(h, "status") /\ Current(h) \in Tweets => verdict[Current(h)] # "late"

PostingIsApproved ==
    \A h \in Handlers :
        At(h, "post") /\ Current(h) \in Tweets => Approved(Current(h))

ApprovalInv ==
    /\ HandlerShape
    /\ verdict \in [Tweets -> Verdicts]
    /\ fate \in [Tweets -> Fates]
    /\ LateIsExpired
    /\ FetchedIsNotLate
    /\ PostingIsApproved
    /\ OnlyApproved

-----------------------------------------------------------------------------

LEMMA InitApprovalInv == Init => ApprovalInv
BY DEF Init, ApprovalInv, HandlerShape, Done, Verdicts, Fates, LateIsExpired,
       FetchedIsNotLate, PostingIsApproved, OnlyApproved, At

\* A tick that moves on, without changing its list, to a place where nothing
\* is claimed about the tweet.
LEMMA MoveElsewhere ==
    ASSUME ApprovalInv, UNCHANGED <<verdict, fate, expired>>,
           NEW h \in Handlers, NEW place \in {"reply", "clean"}, Move(h, place)
    PROVE  ApprovalInv'
BY DEF ApprovalInv, Move, HandlerShape, LateIsExpired, FetchedIsNotLate,
       PostingIsApproved, OnlyApproved, Approved, At, Current

\* A tick that goes to the next tweet or ends.
LEMMA GoOn ==
    ASSUME ApprovalInv, UNCHANGED <<verdict, fate, expired>>,
           NEW h \in Handlers, NextTweet(h) \/ handler' = [handler EXCEPT ![h] = Done]
    PROVE  ApprovalInv'
<1> DEFINE next == handler'[h]
<1>1. /\ DOMAIN handler' = Handlers
      /\ \A g \in Handlers \ {h} : handler'[g] = handler[g]
      /\ DOMAIN next = {"todo", "at", "read"}
      /\ next.at \in {"idle", "expiry"}
  BY DEF ApprovalInv, HandlerShape, NextTweet, Done
<1> QED
  BY <1>1 DEF ApprovalInv, HandlerShape, LateIsExpired, FetchedIsNotLate,
              PostingIsApproved, OnlyApproved, Approved, At, Current

LEMMA NextApprovalInv == ApprovalInv /\ [Next]_vars => ApprovalInv'
<1> SUFFICES ASSUME ApprovalInv, [Next]_vars PROVE ApprovalInv'
  OBVIOUS
<1> USE DEF ApprovalInv, HandlerShape, LateIsExpired, FetchedIsNotLate,
            PostingIsApproved, OnlyApproved, Approved, At, Current
<1>1. CASE Ask
  BY <1>1 DEF Ask
<1>2. CASE ReadPending
  BY <1>2 DEF ReadPending
<1>3. CASE Record
  BY <1>3 DEF Record
<1>4. ASSUME NEW h \in Handlers, StartTick(h) PROVE ApprovalInv'
  BY <1>4 DEF StartTick
<1>5. ASSUME NEW h \in Handlers, CheckExpiry(h) PROVE ApprovalInv'
  <2>1. CASE Current(h) \in expired
    BY <1>5, <2>1 DEF CheckExpiry
  <2>2. CASE Current(h) \notin expired
    BY <1>5, <2>2 DEF CheckExpiry, Move
  <2> QED
    BY <2>1, <2>2
<1>6. ASSUME NEW h \in Handlers, CheckStatusOf(h) PROVE ApprovalInv'
  <2>1. PICK status \in {Status(Current(h)), "PENDING"} : CheckStatus(h, status)
    BY <1>6 DEF CheckStatusOf
  <2>2. UNCHANGED <<verdict, fate, expired>> /\ handler[h].at = "status"
    BY <2>1 DEF CheckStatus
  <2>3. CASE status = "APPROVED"
    <3>1. Status(Current(h)) = "APPROVED"
      BY <2>1, <2>3
    <3>2. Current(h) \in Tweets => verdict[Current(h)] = "up"
      BY <3>1, <2>2 DEF Status, Verdicts
    <3>3. Move(h, "post")
      BY <2>1, <2>3 DEF CheckStatus
    <3> QED
      BY <2>2, <3>2, <3>3 DEF Move
  <2>4. CASE status = "REJECTED"
    <3>1. Move(h, "clean")
      BY <2>1, <2>4 DEF CheckStatus
    <3> QED
      BY <2>2, <3>1, MoveElsewhere
  <2>5. CASE status = "PENDING"
    <3>1. NextTweet(h)
      BY <2>1, <2>5 DEF CheckStatus
    <3> QED
      BY <2>2, <3>1, GoOn
  <2> QED
    BY <2>1, <2>3, <2>4, <2>5 DEF CheckStatus
<1>7. ASSUME NEW h \in Handlers, PostTweet(h) PROVE ApprovalInv'
  <2>1. PICK f \in FatesAfter(fate[Current(h)]) :
            fate' = [fate EXCEPT ![Current(h)] = f]
    BY <1>7 DEF PostTweet
  <2>2. UNCHANGED <<verdict, expired>> /\ Move(h, "reply") /\ handler[h].at = "post"
    BY <1>7 DEF PostTweet
  <2>3. Current(h) \in Tweets => f \in Fates
    BY <2>1 DEF FatesAfter, Fates
  <2>4. fate' \in [Tweets -> Fates]
    BY <2>1, <2>3
  <2>5. OnlyApproved'
    BY <2>1, <2>2
  <2> QED
    BY <2>2, <2>4, <2>5 DEF Move
<1>8. ASSUME NEW h \in Handlers, ReplyPosted(h) PROVE ApprovalInv'
  BY <1>8, MoveElsewhere DEF ReplyPosted
<1>9. ASSUME NEW h \in Handlers, ReadForCleanup(h) PROVE ApprovalInv'
  <2>1. UNCHANGED <<verdict, fate, expired>>
    BY <1>9 DEF ReadForCleanup
  <2>2. CASE handler' = [handler EXCEPT ![h] = Done]
    BY <2>1, <2>2, GoOn
  <2>3. ASSUME NEW list, handler' = [handler EXCEPT ![h].at = "write", ![h].read = list]
        PROVE  ApprovalInv'
    BY <2>1, <2>3
  <2> QED
    BY <1>9, <2>2, <2>3 DEF ReadForCleanup
<1>10. ASSUME NEW h \in Handlers, WriteCleaned(h) PROVE ApprovalInv'
  BY <1>10, GoOn DEF WriteCleaned
<1>11. ASSUME NEW m \in Tweets, React(m) PROVE ApprovalInv'
  <2>1. PICK v \in VerdictsAfter(m) : verdict' = [verdict EXCEPT ![m] = v]
    BY <1>11 DEF React
  <2>2. UNCHANGED <<handler, fate, expired>>
    BY <1>11 DEF React
  <2>3. /\ v \in Verdicts
        /\ v = "late" => ~InTime(m)
        /\ verdict[m] = "up" => v = "vetoed"
        /\ verdict[m] # "vetoed"
    BY <2>1 DEF VerdictsAfter, Verdicts
  <2> QED
    BY <2>1, <2>2, <2>3 DEF InTime
<1>12. ASSUME NEW m \in Tweets, Expire(m) PROVE ApprovalInv'
  BY <1>12 DEF Expire
<1>13. CASE Crash
  BY <1>13 DEF Crash, Done
<1>14. CASE UNCHANGED vars
  BY <1>14 DEF vars
<1> QED
  BY <1>1, <1>2, <1>3, <1>4, <1>5, <1>6, <1>7, <1>8, <1>9, <1>10, <1>11,
     <1>12, <1>13, <1>14 DEF Next, Tick

-----------------------------------------------------------------------------

LEMMA ApprovalInvHolds == Spec => []ApprovalInv
BY InitApprovalInv, NextApprovalInv, PTL DEF Spec

\* Only a tweet approved within 24 hours is ever tried at Twitter, for every
\* number of tweets and of overlapping ticks (handlePendingTweet,
\* checkApprovalStatus).
THEOREM OnlyApprovedTried == Spec => []OnlyApproved
<1>1. ApprovalInv => OnlyApproved
  BY DEF ApprovalInv
<1> QED
  BY <1>1, ApprovalInvHolds, PTL

-----------------------------------------------------------------------------
(* Lists *)

\* A list of distinct tweets, all of them among the first n.
Listing(list, n) ==
    /\ list \in Seq(1 .. n)
    /\ \A i, j \in 1 .. Len(list) : list[i] = list[j] => i = j

\* The tweets that can be on a list: not the one that is being recorded.
Recorded == IF gen.at = "idle" THEN asked ELSE asked - 1

(***************************************************************************)
(* Every list there is, in the cache or in the hands of a tick or of the   *)
(* generator, is one of recorded tweets.                                   *)
(***************************************************************************)
GenShape ==
    /\ asked \in 0 .. MaxTweets
    /\ gen \in [at : {"idle", "read", "write"}, read : Seq(Nat)]
    /\ gen.at # "idle" => asked # 0
    /\ Listing(gen.read, Recorded)

TickShape(h) ==
    /\ handler[h] \in [todo : Seq(Nat), read : Seq(Nat),
            at : {"idle", "expiry", "status", "post", "reply", "clean", "write"}]
    /\ At(h, "idle") <=> handler[h].todo = <<>>
    /\ Listing(handler[h].todo, Recorded)
    /\ Listing(handler[h].read, Recorded)

ListInv ==
    /\ GenShape
    /\ Listing(pending, Recorded)
    /\ DOMAIN handler = Handlers
    /\ \A h \in Handlers : TickShape(h)
    /\ expired \subseteq Tweets
    /\ blame \subseteq Mishaps

(***************************************************************************)
(* A tick cleans up only tweets that need no watching any more.            *)
(***************************************************************************)
Settled(m) ==
    fate[m] # "untried" \/ verdict[m] \notin {"none", "up"} \/ m \in expired

Finishing(h) == handler[h].at \in {"reply", "clean", "write"}

WatchInv ==
    /\ \A h \in Handlers : Finishing(h) => Settled(Current(h))
    /\ NoneForgotten

(***************************************************************************)
(* As long as nothing keeps the removal of a posted tweet from happening,  *)
(* one tick is at work at a time, a tweet that was tried is on no list but *)
(* for the tick that is finishing with it.                                 *)
(***************************************************************************)
Undisturbed ==
    blame \intersect {"overlap", "stale write", "crash", "write lost", "cache threw"} = {}

TriedIsRecorded == \A m \in Tweets : fate[m] # "untried" => m <= Recorded

AloneAtWork == \A g, h \in Handlers : Busy(g) /\ Busy(h) => g = h

TriedIsFinishing ==
    \A m \in ToSet(pending) :
        fate[m] # "untried" => \E h \in Handlers : Finishing(h) /\ Current(h) = m

TriedIsFirst ==
    \A h \in Handlers : \A i \in 1 .. Len(handler[h].todo) :
        fate[handler[h].todo[i]] # "untried" => i = 1 /\ Finishing(h)

OnceInv ==
    /\ TriedIsRecorded
    /\ Undisturbed =>
        /\ \A m \in Tweets : fate[m] # "posted twice"
        /\ AloneAtWork
        /\ TriedIsFinishing
        /\ TriedIsFirst

-----------------------------------------------------------------------------
(* Induction *)

LEMMA LeastNat ==
    ASSUME NEW T \in SUBSET Nat, T # {}
    PROVE  \E n \in T : \A k \in T : n <= k
<1> DEFINE R == OpToRel(<, Nat)
<1>1. IsWellFoundedOn(R, Nat)
  BY NatLessThanWellFounded
<1> HIDE DEF R
<1>2. PICK n \in T : \A k \in T : ~(<<k, n>> \in R)
  BY <1>1, WFMin
<1>3. \A k \in T : k < n => <<k, n>> \in R
  BY DEF R, OpToRel
<1>4. \A k \in T : ~(k < n)
  BY <1>2, <1>3, Zenon
<1>5. n \in Nat /\ \A k \in T : k \in Nat
  OBVIOUS
<1> QED
  BY <1>4, <1>5

LEMMA Induction ==
    ASSUME NEW S \in SUBSET Nat, 0 \in S, \A n \in S : n + 1 \in S
    PROVE  S = Nat
<1> SUFFICES ASSUME S # Nat PROVE FALSE
  OBVIOUS
<1>1. PICK n \in Nat \ S : \A k \in Nat \ S : n <= k
  BY LeastNat
<1>2. n - 1 \in S
  BY <1>1
<1> QED
  BY <1>1, <1>2

-----------------------------------------------------------------------------
(* What Without does to a list *)

\* What is kept of the first n tweets of the list.
Keep(list, m, f, n) ==
    IF n = 0 THEN <<>>
    ELSE IF list[n] = m THEN f[n - 1]
    ELSE Append(f[n - 1], list[n])

Keeps(list, m, f, n) == f = [k \in 0 .. n |-> Keep(list, m, f, k)]

LEMMA KeepsExists ==
    ASSUME NEW list, NEW m
    PROVE  \A n \in Nat : \E f : Keeps(list, m, f, n)
<1> DEFINE S == {n \in Nat : \E f : Keeps(list, m, f, n)}
<1>1. 0 \in S
  <2>1. Keeps(list, m, [k \in 0 .. 0 |-> <<>>], 0)
    BY DEF Keeps, Keep
  <2> QED
    BY <2>1
<1>2. ASSUME NEW n \in S PROVE n + 1 \in S
  <2>1. PICK f : Keeps(list, m, f, n)
    BY <1>2
  <2> DEFINE last == Keep(list, m, f, n + 1)
             g == [k \in 0 .. (n + 1) |-> IF k = n + 1 THEN last ELSE f[k]]
  <2>2. \A k \in 0 .. n : f[k] = Keep(list, m, f, k)
    BY <2>1 DEF Keeps
  <2>3. \A k \in 0 .. n : Keep(list, m, g, k) = Keep(list, m, f, k)
    BY DEF Keep
  <2>4. Keep(list, m, g, n + 1) = last
    BY DEF Keep
  <2>5. \A k \in 0 .. (n + 1) : g[k] = Keep(list, m, g, k)
    BY <2>2, <2>3, <2>4
  <2>6. Keeps(list, m, g, n + 1)
    BY <2>5 DEF Keeps
  <2> QED
    BY <2>6
<1>3. S = Nat
  <2> HIDE DEF S
  <2>1. S \in SUBSET Nat
    BY DEF S
  <2> QED
    BY <1>1, <1>2, <2>1, Induction
<1> QED
  BY <1>3

LEMMA WithoutDef ==
    ASSUME NEW list, NEW m, Len(list) \in Nat
    PROVE  \E f : Keeps(list, m, f, Len(list)) /\ Without(list, m) = f[Len(list)]
<1> DEFINE f == CHOOSE g : Keeps(list, m, g, Len(list))
<1>1. Keeps(list, m, f, Len(list))
  BY KeepsExists
<1>2. Without(list, m) = f[Len(list)]
  BY DEF Without, Keeps, Keep
<1> QED
  BY <1>1, <1>2

LEMMA ToSetDef ==
    ASSUME NEW S, NEW list \in Seq(S)
    PROVE  ToSet(list) = {list[i] : i \in 1 .. Len(list)}
BY DEF ToSet

\* The list keeps its other tweets, each once.
LEMMA WithoutFacts ==
    ASSUME NEW n \in Nat, NEW list, Listing(list, n), NEW m
    PROVE  /\ Listing(Without(list, m), n)
           /\ ToSet(Without(list, m)) = ToSet(list) \ {m}
<1> DEFINE len == Len(list)
<1>1. list \in Seq(1 .. n) /\ len \in Nat
  BY DEF Listing
<1>2. PICK f : Keeps(list, m, f, len) /\ Without(list, m) = f[len]
  BY <1>1, WithoutDef
<1> DEFINE Kept(k) ==
             /\ Listing(f[k], n)
             /\ \A i \in 1 .. Len(f[k]) : \E j \in 1 .. k : f[k][i] = list[j] /\ list[j] # m
             /\ \A j \in 1 .. k : list[j] # m => \E i \in 1 .. Len(f[k]) : f[k][i] = list[j]
           S == {k \in Nat : k <= len => Kept(k)}
<1>3. \A k \in 0 .. len : f[k] = Keep(list, m, f, k)
  BY <1>2 DEF Keeps
<1>4. 0 \in S
  <2>1. f[0] = <<>>
    BY <1>1, <1>3 DEF Keep
  <2>2. Kept(0)
    BY <2>1 DEF Listing
  <2> QED
    BY <2>2
<1>5. ASSUME NEW k \in S PROVE k + 1 \in S
  <2> SUFFICES ASSUME k + 1 <= len PROVE Kept(k + 1)
    OBVIOUS
  <2>1. k \in Nat /\ k + 1 \in 1 .. len /\ Kept(k)
    BY <1>1
  <2>2. list[k + 1] \in 1 .. n
    BY <1>1, <2>1
  <2>3. CASE list[k + 1] = m
    <3>1. f[k + 1] = f[k]
      BY <1>1, <1>3, <2>1, <2>3 DEF Keep
    <3> QED
      BY <2>1, <2>3, <3>1
  <2>4. CASE list[k + 1] # m
    <3> DEFINE new == f[k + 1]
    <3>1. new = Append(f[k], list[k + 1])
      <4>1. new = Keep(list, m, f, k + 1) /\ (k + 1) - 1 = k /\ k + 1 # 0
        BY <1>3, <2>1
      <4> QED
        BY <2>4, <4>1 DEF Keep
    <3>2. f[k] \in Seq(1 .. n) /\ Len(f[k]) \in Nat
      BY <2>1 DEF Listing
    <3>3. /\ new \in Seq(1 .. n) /\ Len(new) = Len(f[k]) + 1
          /\ \A i \in 1 .. Len(f[k]) : new[i] = f[k][i]
          /\ new[Len(new)] = list[k + 1]
      BY <2>2, <3>1, <3>2
    <3>a. Len(f[k]) \in Nat /\ Len(new) = Len(f[k]) + 1
      BY <3>2, <3>3
    <3>b. \A i \in 1 .. Len(new) : i = Len(new) \/ i \in 1 .. Len(f[k])
      BY <3>a
    <3> HIDE DEF new
    <3>4. \A i \in 1 .. Len(f[k]) : f[k][i] # list[k + 1]
      BY <1>1, <2>1 DEF Listing
    <3>5. Listing(new, n)
      <4>1. \A i, j \in 1 .. Len(f[k]) : f[k][i] = f[k][j] => i = j
        BY <2>1 DEF Listing
      <4>2. \A i \in 1 .. Len(f[k]) : new[i] # new[Len(new)]
        BY <3>3, <3>4
      <4>3. \A i, j \in 1 .. Len(new) : new[i] = new[j] => i = j
        BY <3>3, <3>b, <4>1, <4>2
      <4> QED
        BY <3>3, <4>3 DEF Listing
    <3>6. \A i \in 1 .. Len(new) : \E j \in 1 .. (k + 1) : new[i] = list[j] /\ list[j] # m
      <4> TAKE i \in 1 .. Len(new)
      <4>1. CASE i = Len(new)
        BY <2>1, <2>4, <3>3, <4>1
      <4>2. CASE i # Len(new)
        <5>1. i \in 1 .. Len(f[k])
          BY <3>b, <4>2
        <5> QED
          BY <2>1, <3>3, <5>1
      <4> QED
        BY <4>1, <4>2
    <3>7. ASSUME NEW j \in 1 .. (k + 1), list[j] # m
          PROVE  \E i \in 1 .. Len(new) : new[i] = list[j]
      <4>1. CASE j = k + 1
        <5>1. Len(new) \in 1 .. Len(new)
          BY <3>a
        <5> QED
          BY <3>3, <4>1, <5>1
      <4>2. CASE j # k + 1
        <5>1. j \in 1 .. k
          BY <2>1, <4>2
        <5>2. PICK i \in 1 .. Len(f[k]) : f[k][i] = list[j]
          BY <2>1, <3>7, <5>1
        <5> QED
          BY <3>2, <3>3, <5>2
      <4> QED
        BY <4>1, <4>2
    <3> QED
      BY <3>5, <3>6, <3>7 DEF new
  <2> QED
    BY <2>3, <2>4
<1>6. Kept(len)
  <2> HIDE DEF Kept
  <2>1. S = Nat
    <3> HIDE DEF S
    <3>1. S \in SUBSET Nat
      BY DEF S
    <3> QED
      BY <1>4, <1>5, <3>1, Induction
  <2> QED
    BY <1>1, <2>1
<1> QED
  <2>1. \A i \in 1 .. Len(f[len]) : \E j \in 1 .. len : f[len][i] = list[j] /\ list[j] # m
    BY <1>6
  <2>2. \A j \in 1 .. len : list[j] # m => \E i \in 1 .. Len(f[len]) : f[len][i] = list[j]
    BY <1>6
  <2>3. f[len] \in Seq(1 .. n)
    BY <1>6 DEF Listing
  <2>4. ToSet(list) = {list[j] : j \in 1 .. len}
    BY <1>1, ToSetDef
  <2>5. ToSet(f[len]) = {f[len][i] : i \in 1 .. Len(f[len])}
    BY <2>3, ToSetDef
  <2>6. ToSet(f[len]) \subseteq ToSet(list) \ {m}
    <3>1. ASSUME NEW i \in 1 .. Len(f[len]) PROVE f[len][i] \in ToSet(list) \ {m}
      <4>1. PICK j \in 1 .. len : f[len][i] = list[j] /\ list[j] # m
        BY <2>1
      <4> QED
        BY <2>4, <4>1
    <3> QED
      BY <2>5, <3>1
  <2>7. ToSet(list) \ {m} \subseteq ToSet(f[len])
    <3>1. ASSUME NEW j \in 1 .. len, list[j] # m PROVE list[j] \in ToSet(f[len])
      <4>1. PICK i \in 1 .. Len(f[len]) : f[len][i] = list[j]
        BY <2>2, <3>1
      <4> QED
        BY <2>5, <4>1
    <3> QED
      BY <2>4, <3>1
  <2> QED
    BY <1>2, <1>6, <2>6, <2>7

-----------------------------------------------------------------------------
(* Lists of recorded tweets *)

LEMMA EmptyListing == \A n \in Nat : Listing(<<>>, n)
BY DEF Listing

LEMMA ListingSeq ==
    ASSUME NEW n \in Nat, NEW list, Listing(list, n)
    PROVE  list \in Seq(Nat)
<1>1. list \in Seq(1 .. n)
  BY DEF Listing
<1>2. Len(list) \in Nat /\ \A i \in 1 .. Len(list) : list[i] \in Nat
  BY <1>1
<1> QED
  BY <1>1, <1>2

LEMMA ListingGrows ==
    ASSUME NEW n \in Nat, NEW k \in Nat, n <= k, NEW list, Listing(list, n)
    PROVE  Listing(list, k)
<1>1. list \in Seq(1 .. n) /\ Len(list) \in Nat
  BY DEF Listing
<1>2. \A i \in 1 .. Len(list) : list[i] \in 1 .. k
  BY <1>1
<1>3. list \in Seq(1 .. k)
  BY <1>1, <1>2
<1> QED
  BY <1>3 DEF Listing

LEMMA ListingAppend ==
    ASSUME NEW n \in Nat, n # 0, NEW list, Listing(list, n - 1)
    PROVE  /\ Listing(Append(list, n), n)
           /\ ToSet(Append(list, n)) = ToSet(list) \union {n}
<1> DEFINE new == Append(list, n)
<1>1. /\ list \in Seq(1 .. (n - 1)) /\ Len(list) \in Nat
      /\ \A i, j \in 1 .. Len(list) : list[i] = list[j] => i = j
  BY DEF Listing
<1>2. Listing(list, n)
  BY ListingGrows
<1>3. /\ new \in Seq(1 .. n) /\ Len(new) = Len(list) + 1
      /\ \A i \in 1 .. Len(list) : new[i] = list[i] /\ new[i] \in 1 .. (n - 1)
      /\ new[Len(new)] = n
  BY <1>1, <1>2 DEF Listing
<1> HIDE DEF new
<1>4. \A i \in 1 .. Len(new) : i = Len(new) \/ i \in 1 .. Len(list)
  BY <1>1, <1>3
<1>5. \A i \in 1 .. Len(list) : new[i] # new[Len(new)]
  BY <1>3
<1>6. \A i, j \in 1 .. Len(new) : new[i] = new[j] => i = j
  BY <1>1, <1>3, <1>4, <1>5
<1>7. ToSet(new) = {new[i] : i \in 1 .. Len(new)}
  BY <1>3, ToSetDef
<1>8. ToSet(list) = {list[i] : i \in 1 .. Len(list)}
  BY <1>1, ToSetDef
<1>9. ToSet(new) = ToSet(list) \union {n}
  <2>1. \A i \in 1 .. Len(new) : new[i] \in ToSet(list) \union {n}
    BY <1>3, <1>4, <1>8
  <2>2. \A i \in 1 .. Len(list) : i \in 1 .. Len(new) /\ list[i] = new[i]
    BY <1>1, <1>3
  <2>3. Len(new) \in 1 .. Len(new)
    BY <1>1, <1>3
  <2>4. new[Len(new)] = n
    BY <1>3
  <2> QED
    BY <1>7, <1>8, <2>1, <2>2, <2>3, <2>4
<1> QED
  BY <1>3, <1>6, <1>9 DEF Listing, new

LEMMA ListingEntries ==
    ASSUME NEW n, NEW list, Listing(list, n)
    PROVE  \A i \in 1 .. Len(list) : list[i] \in 1 .. n
<1> DEFINE S == 1 .. n
<1>1. list \in Seq(S)
  BY DEF Listing
<1> HIDE DEF S
<1>2. \A i \in 1 .. Len(list) : list[i] \in S
  BY <1>1
<1> QED
  BY <1>2 DEF S

LEMMA ListingTail ==
    ASSUME NEW n \in Nat, NEW list, Listing(list, n), list # <<>>
    PROVE  /\ Listing(Tail(list), n)
           /\ Len(list) \in Nat /\ Len(Tail(list)) = Len(list) - 1
           /\ \A i \in 1 .. Len(Tail(list)) :
                i + 1 \in 1 .. Len(list) /\ Tail(list)[i] = list[i + 1]
           /\ 1 \in 1 .. Len(list) /\ Head(list) = list[1] /\ Head(list) \in 1 .. n
<1>1. /\ list \in Seq(1 .. n) /\ Len(list) \in Nat /\ Len(list) # 0
      /\ \A i, j \in 1 .. Len(list) : list[i] = list[j] => i = j
  BY DEF Listing
<1>2. /\ Tail(list) \in Seq(1 .. n) /\ Len(Tail(list)) = Len(list) - 1
      /\ \A i \in 1 .. Len(Tail(list)) :
                i + 1 \in 1 .. Len(list) /\ Tail(list)[i] = list[i + 1]
  BY <1>1
<1>3. \A i, j \in 1 .. Len(Tail(list)) : Tail(list)[i] = Tail(list)[j] => i = j
  <2> TAKE i, j \in 1 .. Len(Tail(list))
  <2> HAVE Tail(list)[i] = Tail(list)[j]
  <2>1. list[i + 1] = list[j + 1] /\ i + 1 \in 1 .. Len(list) /\ j + 1 \in 1 .. Len(list)
    BY <1>2
  <2>2. i + 1 = j + 1
    BY <1>1, <2>1
  <2> QED
    BY <1>1, <1>2, <2>2
<1>4. 1 \in 1 .. Len(list) /\ Head(list) = list[1] /\ Head(list) \in 1 .. n
  BY <1>1
<1> QED
  BY <1>1, <1>2, <1>3, <1>4 DEF Listing

LEMMA ListingOne ==
    ASSUME NEW n \in Nat, NEW m \in 1 .. n
    PROVE  Listing(<<m>>, n)
BY DEF Listing

LEMMA CardinalityUpTo ==
    ASSUME NEW n \in Nat
    PROVE  IsFiniteSet(1 .. n) /\ Cardinality(1 .. n) = n
<1>1. 1 \in Int /\ n \in Int
  OBVIOUS
<1>2. /\ IsFiniteSet(1 .. n)
      /\ Cardinality(1 .. n) = IF 1 > n THEN 0 ELSE n - 1 + 1
  BY <1>1, FS_Interval
<1>3. (IF 1 > n THEN 0 ELSE n - 1 + 1) = n
  OBVIOUS
<1> QED
  BY <1>2, <1>3

\* Distinct tweets make a list no longer than there are tweets.
LEMMA ListingInLists ==
    ASSUME NEW n \in 0 .. MaxTweets, NEW list, Listing(list, n)
    PROVE  list \in Lists /\ IsInjective(list) /\ ToSet(list) \subseteq 1 .. n
<1>1. /\ list \in Seq(1 .. n) /\ Len(list) \in Nat /\ n \in Nat
      /\ \A i, j \in 1 .. Len(list) : list[i] = list[j] => i = j
  BY SizeAssumption DEF Listing
<1>2. list \in [1 .. Len(list) -> 1 .. n]
  BY <1>1
<1>3. IsInjective(list)
  BY <1>1, <1>2 DEF IsInjective
<1>4. Len(list) <= n
  <2>1. IsFiniteSet(1 .. n) /\ Cardinality(1 .. n) = n
    BY <1>1, CardinalityUpTo
  <2>2. IsFiniteSet(1 .. Len(list)) /\ Cardinality(1 .. Len(list)) = Len(list)
    BY <1>1, CardinalityUpTo
  <2>3. ~(n < Len(list))
    <3>1. SUFFICES ASSUME n < Len(list) PROVE FALSE
      OBVIOUS
    <3>2. \E i, j \in 1 .. Len(list) : i # j /\ list[i] = list[j]
      BY <1>2, <2>1, <2>2, <3>1, FS_PigeonHole
    <3> QED
      BY <1>1, <3>2
  <2> QED
    BY <1>1, <2>3
<1>5. Len(list) \in 0 .. MaxTweets /\ 1 .. n \subseteq Tweets
  BY <1>1, <1>4, SizeAssumption DEF Tweets
<1>6. list \in [1 .. Len(list) -> Tweets]
  BY <1>2, <1>5
<1>7. ToSet(list) \subseteq 1 .. n
  BY <1>1, ToSetDef
<1> QED
  BY <1>3, <1>5, <1>6, <1>7 DEF Lists

-----------------------------------------------------------------------------
(* Every list is one of recorded tweets *)

LEMMA RecordedNat ==
    ASSUME GenShape
    PROVE  /\ Recorded \in 0 .. MaxTweets /\ Recorded <= asked
           /\ asked \in Nat
           /\ gen.at # "idle" => asked # 0 /\ Recorded = asked - 1
BY SizeAssumption DEF GenShape, Recorded

\* Tick h moves, and what it has is well-shaped; the cached list stays one of
\* recorded tweets.
LEMMA TickMoves ==
    ASSUME ListInv, NEW h \in Handlers, UNCHANGED <<asked, gen>>,
           DOMAIN handler' = Handlers,
           \A g \in Handlers \ {h} : handler'[g] = handler[g],
           TickShape(h)', Listing(pending, Recorded)',
           expired' \subseteq Tweets, blame' \subseteq Mishaps
    PROVE  ListInv'
<1>1. GenShape' /\ Recorded' = Recorded
  BY DEF ListInv, GenShape, Recorded
<1>2. ASSUME NEW g \in Handlers PROVE TickShape(g)'
  <2>1. CASE g # h
    <3>1. handler'[g] = handler[g]
      BY <2>1
    <3> QED
      BY <1>1, <3>1 DEF ListInv, TickShape, At
  <2> QED
    BY <2>1
<1> QED
  BY <1>1, <1>2 DEF ListInv

LEMMA NextTweetEffect ==
    ASSUME ListInv, NEW h \in Handlers, Busy(h), NextTweet(h)
    PROVE  /\ DOMAIN handler' = Handlers
           /\ \A g \in Handlers \ {h} : handler'[g] = handler[g]
           /\ \/ handler'[h] = Done
              \/ /\ Len(handler[h].todo) # 1
                 /\ handler'[h] = [todo |-> Tail(handler[h].todo),
                                   at |-> "expiry", read |-> <<>>]
BY DEF ListInv, NextTweet

LEMMA DoneShape ==
    ASSUME ListInv, NEW h \in Handlers, UNCHANGED <<asked, gen>>, handler'[h] = Done
    PROVE  TickShape(h)'
<1>1. GenShape' /\ Recorded' \in Nat
  BY RecordedNat DEF ListInv, GenShape, Recorded
<1>2. Listing(<<>>, Recorded')
  BY <1>1, EmptyListing
<1> QED
  BY <1>2 DEF TickShape, Done, At

LEMMA NextTweetShape ==
    ASSUME ListInv, NEW h \in Handlers, Busy(h), NextTweet(h), UNCHANGED <<asked, gen>>
    PROVE  TickShape(h)'
<1>1. CASE handler'[h] = Done
  BY <1>1, DoneShape
<1>2. CASE /\ Len(handler[h].todo) # 1
           /\ handler'[h] = [todo |-> Tail(handler[h].todo),
                             at |-> "expiry", read |-> <<>>]
  <2> DEFINE todo == handler[h].todo
  <2>1. Listing(todo, Recorded) /\ todo # <<>> /\ Recorded \in Nat /\ Recorded' = Recorded
    BY RecordedNat DEF ListInv, TickShape, Busy, Recorded
  <2> HIDE DEF todo
  <2>2. Listing(Tail(todo), Recorded) /\ Len(Tail(todo)) = Len(todo) - 1 /\ Len(todo) \in Nat
    BY <2>1, ListingTail
  <2>3. Tail(todo) # <<>> /\ Tail(todo) \in Seq(Nat)
    <3> DEFINE rest == Tail(todo)
    <3>1. rest \in Seq(Nat)
      BY <2>1, <2>2, ListingSeq
    <3>2. Len(rest) # 0
      BY <1>2, <2>2 DEF todo
    <3> HIDE DEF rest
    <3>3. rest # <<>>
      BY <3>2
    <3> QED
      BY <3>1, <3>3 DEF rest
  <2>4. handler'[h] = [todo |-> Tail(todo), at |-> "expiry", read |-> <<>>]
    BY <1>2 DEF todo
  <2>5. Listing(<<>>, Recorded)
    BY <2>1, EmptyListing
  <2> QED
    BY <2>1, <2>2, <2>3, <2>4, <2>5 DEF TickShape, At
<1> QED
  BY <1>1, <1>2, NextTweetEffect

LEMMA NextTweetKeeps ==
    ASSUME ListInv, NEW h \in Handlers, Busy(h),
           NextTweet(h) \/ handler' = [handler EXCEPT ![h] = Done],
           UNCHANGED <<asked, gen>>, Listing(pending, Recorded)',
           expired' = expired, blame' \subseteq Mishaps
    PROVE  ListInv'
<1>1. /\ DOMAIN handler' = Handlers
      /\ \A g \in Handlers \ {h} : handler'[g] = handler[g]
  BY NextTweetEffect DEF ListInv
<1>2. TickShape(h)'
  <2>1. handler' = [handler EXCEPT ![h] = Done] => handler'[h] = Done
    BY DEF ListInv
  <2> QED
    BY <2>1, DoneShape, NextTweetShape
<1> QED
  BY <1>1, <1>2, TickMoves DEF ListInv

LEMMA MoveKeeps ==
    ASSUME ListInv, NEW h \in Handlers, Busy(h),
           NEW place \in {"status", "post", "reply", "clean"}, Move(h, place),
           UNCHANGED <<asked, gen, pending, expired, blame>>
    PROVE  ListInv'
<1>1. /\ DOMAIN handler' = Handlers
      /\ \A g \in Handlers \ {h} : handler'[g] = handler[g]
      /\ handler'[h] = [handler[h] EXCEPT !.at = place]
  BY DEF ListInv, Move
<1>2. Recorded' = Recorded
  BY DEF Recorded
<1>3. TickShape(h) /\ handler[h].todo # <<>>
  BY DEF ListInv, TickShape, Busy
<1>4. TickShape(h)'
  BY <1>1, <1>2, <1>3 DEF TickShape, At
<1> QED
  BY <1>1, <1>2, <1>4, TickMoves DEF ListInv

\* The blame for a fault is one of the mishaps, and is never taken back.
LEMMA FaultyBlame ==
    ASSUME NEW kind \in Faults, Faulty(kind)
    PROVE  blame \subseteq blame' /\ kind \in blame' /\ (blame \subseteq Mishaps => blame' \subseteq Mishaps)
BY DEF Faulty, Mishaps

LEMMA WriteListEffect ==
    ASSUME NEW old, NEW new, WriteList(old, new)
    PROVE  /\ blame \subseteq blame'
           /\ blame \subseteq Mishaps => blame' \subseteq Mishaps
           /\ \/ pending' = new /\ (old = pending \/ "stale write" \in blame')
              \/ pending' = pending /\ "write lost" \in blame'
BY FaultyBlame DEF WriteList, Faults, Mishaps

LEMMA ReadListEffect ==
    ASSUME NEW list, ReadList(list)
    PROVE  /\ blame \subseteq blame'
           /\ blame \subseteq Mishaps => blame' \subseteq Mishaps
           /\ list = pending \/ (list = <<>> /\ "read lost" \in blame')
BY FaultyBlame DEF ReadList, Faults

LEMMA InitListInv == Init => ListInv
<1> SUFFICES ASSUME Init PROVE ListInv
  OBVIOUS
<1>1. Listing(<<>>, 0) /\ Recorded = 0
  BY EmptyListing DEF Init, Recorded
<1>2. GenShape
  BY <1>1, SizeAssumption DEF Init, GenShape
<1>3. \A h \in Handlers : TickShape(h)
  BY <1>1 DEF Init, Done, TickShape, At
<1> QED
  BY <1>1, <1>2, <1>3 DEF Init, ListInv

\* The generator moves: no list shrinks below what is recorded.
LEMMA GenMoves ==
    ASSUME ListInv, GenShape', Recorded <= Recorded',
           Listing(pending, Recorded)',
           UNCHANGED <<handler, expired>>, blame' \subseteq Mishaps
    PROVE  ListInv'
<1>1. Recorded \in Nat /\ Recorded' \in Nat
  <2>1. Recorded \in Nat
    BY RecordedNat, SizeAssumption DEF ListInv
  <2>2. Recorded' \in Nat
    <3>1. asked' \in Nat /\ (gen'.at # "idle" => asked' # 0)
      BY SizeAssumption DEF GenShape
    <3>2. CASE gen'.at = "idle"
      BY <3>1, <3>2 DEF Recorded
    <3>3. CASE gen'.at # "idle"
      <4>1. Recorded' = asked' - 1
        BY <3>3 DEF Recorded
      <4>2. asked' - 1 \in Nat
        <5>1. \A n \in Nat : n # 0 => n - 1 \in Nat
          OBVIOUS
        <5>2. asked' \in Nat /\ asked' # 0
          BY <3>1, <3>3
        <5> QED
          BY <5>1, <5>2, Zenon
      <4> QED
        BY <4>1, <4>2
    <3> QED
      BY <3>2, <3>3
  <2> QED
    BY <2>1, <2>2
<1>2. ASSUME NEW h \in Handlers PROVE TickShape(h)'
  <2>1. TickShape(h) /\ handler' = handler
    BY DEF ListInv
  <2>2. Listing(handler[h].todo, Recorded') /\ Listing(handler[h].read, Recorded')
    BY <1>1, <2>1, ListingGrows DEF TickShape
  <2> QED
    BY <2>1, <2>2 DEF TickShape, At
<1> QED
  BY <1>2 DEF ListInv

LEMMA NextListInv == ListInv /\ [Next]_vars => ListInv'
<1> SUFFICES ASSUME ListInv, [Next]_vars PROVE ListInv'
  OBVIOUS
<1>0. /\ GenShape /\ Listing(pending, Recorded) /\ blame \subseteq Mishaps
      /\ Recorded \in Nat /\ Recorded \in 0 .. MaxTweets
      /\ asked \in Nat /\ asked \in 0 .. MaxTweets /\ MaxTweets \in Nat
  BY RecordedNat, SizeAssumption DEF ListInv, GenShape
<1>1. CASE Ask
  <2>1. /\ gen.at = "idle" /\ asked' = asked + 1 /\ asked < MaxTweets
        /\ gen' = [gen EXCEPT !.at = "read"] \/ gen' = gen
        /\ UNCHANGED <<pending, handler, expired>>
    BY <1>1 DEF Ask
  <2>2. blame' \subseteq Mishaps
    BY <1>0, <1>1, FaultyBlame DEF Ask, Faults
  <2>3. gen'.read = gen.read /\ gen' \in [at : {"idle", "read", "write"}, read : Seq(Nat)]
    BY <1>0, <2>1 DEF GenShape
  <2>4. Recorded = asked /\ Recorded' \in Nat /\ Recorded <= Recorded'
    BY <1>0, <2>1, <2>3 DEF Recorded
  <2>5. Listing(pending, Recorded') /\ Listing(gen.read, Recorded')
    BY <1>0, <2>4, ListingGrows DEF GenShape
  <2>6. GenShape'
    BY <1>0, <2>1, <2>3, <2>5 DEF GenShape
  <2> QED
    BY <2>1, <2>2, <2>4, <2>5, <2>6, GenMoves
<1>2. CASE ReadPending
  <2>1. gen.at = "read" /\ UNCHANGED <<pending, asked, handler, expired>>
    BY <1>2 DEF ReadPending
  <2>2. CASE \E list \in {pending, <<>>} :
                ReadList(list) /\ gen' = [at |-> "write", read |-> list]
    <3>1. PICK list \in {pending, <<>>} :
                ReadList(list) /\ gen' = [at |-> "write", read |-> list]
      BY <2>2
    <3>2. Listing(list, Recorded) /\ list \in Seq(Nat)
      BY <1>0, <3>1, EmptyListing, ListingSeq
    <3>3. Recorded' = Recorded
      BY <2>1, <3>1 DEF Recorded
    <3>4. GenShape'
      BY <1>0, <2>1, <3>1, <3>2, <3>3 DEF GenShape
    <3>5. blame' \subseteq Mishaps
      BY <1>0, <3>1, ReadListEffect
    <3> QED
      BY <1>0, <2>1, <3>3, <3>4, <3>5, GenMoves
  <2>3. CASE Faulty("cache threw") /\ gen' = [gen EXCEPT !.at = "idle"]
    <3>1. blame' \subseteq Mishaps
      BY <1>0, <2>3, FaultyBlame DEF Faults
    <3>2. gen'.read = gen.read /\ gen'.at = "idle"
          /\ gen' \in [at : {"idle", "read", "write"}, read : Seq(Nat)]
      BY <1>0, <2>3 DEF GenShape
    <3>3. Recorded' \in Nat /\ Recorded <= Recorded'
      BY <1>0, <2>1, <3>2 DEF Recorded
    <3>4. Listing(pending, Recorded') /\ Listing(gen.read, Recorded')
      BY <1>0, <3>3, ListingGrows DEF GenShape
    <3>5. GenShape'
      BY <1>0, <2>1, <3>2, <3>4 DEF GenShape
    <3> QED
      BY <2>1, <3>1, <3>3, <3>4, <3>5, GenMoves
  <2> QED
    BY <1>2, <2>2, <2>3 DEF ReadPending
<1>3. CASE Record
  <2>1. /\ gen.at = "write" /\ WriteList(gen.read, Append(gen.read, asked))
        /\ gen' = [at |-> "idle", read |-> <<>>]
        /\ UNCHANGED <<asked, handler, expired>>
    BY <1>3 DEF Record
  <2>2. Recorded' = asked /\ Recorded = asked - 1 /\ asked # 0
    BY <1>0, <2>1, RecordedNat DEF Recorded
  <2>3. Listing(Append(gen.read, asked), asked) /\ Listing(pending, asked)
    BY <1>0, <2>2, ListingAppend, ListingGrows DEF GenShape
  <2>4. Listing(pending', Recorded') /\ blame' \subseteq Mishaps
    BY <1>0, <2>1, <2>2, <2>3, WriteListEffect
  <2>5. GenShape'
    BY <1>0, <2>1, <2>2, EmptyListing DEF GenShape
  <2> QED
    BY <1>0, <2>1, <2>2, <2>4, <2>5, GenMoves
<1>4. ASSUME NEW h \in Handlers, StartTick(h) PROVE ListInv'
  <2>1. /\ At(h, "idle") /\ pending # <<>>
        /\ handler' = [handler EXCEPT ![h].todo = pending, ![h].at = "expiry"]
        /\ UNCHANGED <<pending, asked, gen, expired>>
    BY <1>4 DEF StartTick
  <2>2. blame' \subseteq Mishaps
    BY <1>0, <1>4 DEF StartTick, Mishaps
  <2>3. /\ DOMAIN handler' = Handlers
        /\ \A g \in Handlers \ {h} : handler'[g] = handler[g]
        /\ handler'[h] = [handler[h] EXCEPT !.todo = pending, !.at = "expiry"]
    BY <2>1 DEF ListInv
  <2>4. Recorded' = Recorded
    BY <2>1 DEF Recorded
  <2>5. pending \in Seq(Nat)
    BY <1>0, ListingSeq
  <2>6. TickShape(h)
    BY DEF ListInv
  <2>7. TickShape(h)'
    BY <1>0, <2>1, <2>3, <2>4, <2>5, <2>6 DEF TickShape, At
  <2> QED
    BY <1>0, <2>1, <2>2, <2>3, <2>4, <2>7, TickMoves DEF ListInv
<1>5. ASSUME NEW h \in Handlers, CheckExpiry(h) PROVE ListInv'
  <2>1. At(h, "expiry") /\ Busy(h) /\ UNCHANGED <<pending, asked, gen, expired, blame>>
    BY <1>5 DEF CheckExpiry, Busy, At
  <2>2. CASE Current(h) \in expired
    <3>1. handler' = [handler EXCEPT ![h].todo = <<Current(h)>>, ![h].at = "clean"]
      BY <1>5, <2>2 DEF CheckExpiry
    <3>2. /\ DOMAIN handler' = Handlers
          /\ \A g \in Handlers \ {h} : handler'[g] = handler[g]
          /\ handler'[h] = [handler[h] EXCEPT !.todo = <<Current(h)>>, !.at = "clean"]
      BY <3>1 DEF ListInv
    <3>3. TickShape(h) /\ handler[h].todo # <<>>
      BY <2>1 DEF ListInv, TickShape, Busy
    <3>4. Current(h) \in 1 .. Recorded
      BY <1>0, <3>3, ListingTail DEF TickShape, Current
    <3>5. Listing(<<Current(h)>>, Recorded)
      BY <1>0, <3>4, ListingOne
    <3>6. <<Current(h)>> \in Seq(Nat)
      BY <1>0, <3>5, ListingSeq
    <3>7. Recorded' = Recorded
      BY <2>1 DEF Recorded
    <3>8. TickShape(h)'
      <4> DEFINE one == <<Current(h)>>
      <4>1. one # <<>>
        OBVIOUS
      <4>2. /\ Listing(one, Recorded) /\ one \in Seq(Nat)
            /\ handler'[h] = [handler[h] EXCEPT !.todo = one, !.at = "clean"]
        BY <3>2, <3>5, <3>6
      <4> HIDE DEF one
      <4> QED
        BY <3>3, <3>7, <4>1, <4>2 DEF TickShape, At
    <3> QED
      BY <1>0, <2>1, <3>2, <3>7, <3>8, TickMoves DEF ListInv
  <2>3. CASE Current(h) \notin expired
    BY <1>5, <2>1, <2>3, MoveKeeps DEF CheckExpiry
  <2> QED
    BY <2>2, <2>3
<1>6. ASSUME NEW h \in Handlers, CheckStatusOf(h) PROVE ListInv'
  <2>1. PICK status \in {Status(Current(h)), "PENDING"} : CheckStatus(h, status)
    BY <1>6 DEF CheckStatusOf
  <2>2. Busy(h) /\ UNCHANGED <<pending, asked, gen, expired, blame>>
    BY <2>1 DEF CheckStatus, Busy, At
  <2>3. Recorded' = Recorded
    BY <2>2 DEF Recorded
  <2>4. Move(h, "post") \/ Move(h, "clean") \/ NextTweet(h)
    BY <2>1 DEF CheckStatus
  <2>5. CASE Move(h, "post") \/ Move(h, "clean")
    BY <2>2, <2>5, MoveKeeps
  <2>6. CASE NextTweet(h)
    BY <1>0, <2>2, <2>3, <2>6, NextTweetKeeps
  <2> QED
    BY <2>4, <2>5, <2>6
<1>7. ASSUME NEW h \in Handlers, PostTweet(h) PROVE ListInv'
  BY <1>7, MoveKeeps DEF PostTweet, Busy, At
<1>8. ASSUME NEW h \in Handlers, ReplyPosted(h) PROVE ListInv'
  BY <1>8, MoveKeeps DEF ReplyPosted, Busy, At
<1>9. ASSUME NEW h \in Handlers, ReadForCleanup(h) PROVE ListInv'
  <2>1. /\ At(h, "clean") /\ Busy(h) /\ UNCHANGED <<pending, asked, gen, expired>>
        /\ Recorded' = Recorded
    BY <1>9 DEF ReadForCleanup, Busy, At, Recorded
  <2>2. CASE \E list \in {pending, <<>>} :
              /\ ReadList(list)
              /\ handler' = [handler EXCEPT ![h].at = "write", ![h].read = list]
    <3>1. PICK list \in {pending, <<>>} :
              /\ ReadList(list)
              /\ handler' = [handler EXCEPT ![h].at = "write", ![h].read = list]
      BY <2>2
    <3>2. Listing(list, Recorded) /\ list \in Seq(Nat)
      BY <1>0, <3>1, EmptyListing, ListingSeq
    <3>3. /\ DOMAIN handler' = Handlers
          /\ \A g \in Handlers \ {h} : handler'[g] = handler[g]
          /\ handler'[h] = [handler[h] EXCEPT !.at = "write", !.read = list]
      BY <3>1 DEF ListInv
    <3>4. TickShape(h) /\ handler[h].todo # <<>>
      BY <2>1 DEF ListInv, TickShape, Busy
    <3>5. TickShape(h)'
      BY <2>1, <3>2, <3>3, <3>4 DEF TickShape, At
    <3>6. blame' \subseteq Mishaps
      BY <1>0, <3>1, ReadListEffect
    <3> QED
      BY <1>0, <2>1, <3>3, <3>5, <3>6, TickMoves DEF ListInv
  <2>3. CASE Faulty("cache threw") /\ handler' = [handler EXCEPT ![h] = Done]
    <3>1. blame' \subseteq Mishaps
      BY <1>0, <2>3, FaultyBlame DEF Faults
    <3> QED
      BY <1>0, <2>1, <2>3, <3>1, NextTweetKeeps
  <2> QED
    BY <1>9, <2>2, <2>3 DEF ReadForCleanup
<1>10. ASSUME NEW h \in Handlers, WriteCleaned(h) PROVE ListInv'
  <2>1. /\ Busy(h) /\ UNCHANGED <<asked, gen, expired>> /\ Recorded' = Recorded
    BY <1>10 DEF WriteCleaned, Busy, At, Recorded
  <2>2. Listing(Without(handler[h].read, Current(h)), Recorded)
    BY <1>0, WithoutFacts DEF ListInv, TickShape
  <2>3. CASE /\ WriteList(handler[h].read, Without(handler[h].read, Current(h)))
             /\ NextTweet(h)
    <3>1. Listing(pending', Recorded') /\ blame' \subseteq Mishaps
      BY <1>0, <2>1, <2>2, <2>3, WriteListEffect
    <3> QED
      BY <2>1, <2>3, <3>1, NextTweetKeeps
  <2>4. CASE /\ Faulty("cache threw") /\ UNCHANGED pending
             /\ handler' = [handler EXCEPT ![h] = Done]
    <3>1. blame' \subseteq Mishaps
      BY <1>0, <2>4, FaultyBlame DEF Faults
    <3> QED
      BY <1>0, <2>1, <2>4, <3>1, NextTweetKeeps
  <2> QED
    BY <1>10, <2>3, <2>4 DEF WriteCleaned
<1>11. ASSUME NEW m \in Tweets, React(m) \/ Expire(m) PROVE ListInv'
  BY <1>11 DEF React, Expire, ListInv, GenShape, TickShape, At, Recorded
<1>12. CASE Crash
  <2>1. /\ gen' = [at |-> "idle", read |-> <<>>] /\ handler' = [h \in Handlers |-> Done]
        /\ UNCHANGED <<pending, asked, expired>> /\ Faulty("crash")
    BY <1>12 DEF Crash
  <2>2. blame' \subseteq Mishaps
    BY <1>0, <2>1, FaultyBlame DEF Faults
  <2>3. Recorded' = asked /\ Recorded <= asked
    BY <1>0, <2>1, RecordedNat DEF Recorded
  <2>4. Listing(pending, asked) /\ Listing(<<>>, asked)
    BY <1>0, <2>3, ListingGrows, EmptyListing
  <2>5. GenShape'
    BY <1>0, <2>1, <2>3, <2>4 DEF GenShape
  <2>6. \A h \in Handlers : TickShape(h)'
    BY <2>1, <2>3, <2>4 DEF TickShape, Done, At
  <2> QED
    BY <2>1, <2>2, <2>3, <2>4, <2>5, <2>6 DEF ListInv
<1>13. CASE UNCHANGED vars
  BY <1>13 DEF vars, ListInv, GenShape, TickShape, At, Recorded
<1> QED
  BY <1>1, <1>2, <1>3, <1>4, <1>5, <1>6, <1>7, <1>8, <1>9, <1>10, <1>11,
     <1>12, <1>13 DEF Next, Tick

-----------------------------------------------------------------------------
(* What a step does to tweets, lists and the blame *)

LEMMA CurrentIsTweet ==
    ASSUME ListInv, NEW h \in Handlers, Busy(h)
    PROVE  /\ Current(h) \in Tweets /\ Current(h) <= Recorded
           /\ Listing(handler[h].todo, Recorded)
           /\ 1 \in 1 .. Len(handler[h].todo) /\ Current(h) = handler[h].todo[1]
<1>1. /\ Listing(handler[h].todo, Recorded) /\ handler[h].todo # <<>>
      /\ Recorded \in Nat /\ Recorded <= MaxTweets /\ MaxTweets \in Nat
  BY RecordedNat, SizeAssumption DEF ListInv, TickShape, Busy
<1>2. /\ 1 \in 1 .. Len(handler[h].todo) /\ Current(h) = handler[h].todo[1]
      /\ Current(h) \in 1 .. Recorded
  BY <1>1, ListingTail DEF Current
<1> QED
  BY <1>1, <1>2 DEF Tweets

LEMMA BlameGrows ==
    ASSUME [Next]_vars
    PROVE  blame \subseteq blame'
<1>1. CASE Ask \/ ReadPending \/ Record
  BY <1>1, FaultyBlame, WriteListEffect, ReadListEffect
     DEF Ask, ReadPending, Record, Faults
<1>2. ASSUME NEW h \in Handlers, StartTick(h) PROVE blame \subseteq blame'
  BY <1>2 DEF StartTick
<1>3. ASSUME NEW h \in Handlers, Tick(h) PROVE blame \subseteq blame'
  <2>1. CASE ReadForCleanup(h)
    BY <2>1, FaultyBlame, ReadListEffect DEF ReadForCleanup, Faults
  <2>2. CASE WriteCleaned(h)
    BY <2>2, FaultyBlame, WriteListEffect DEF WriteCleaned, Faults
  <2> QED
    BY <1>3, <2>1, <2>2
       DEF Tick, CheckExpiry, CheckStatusOf, CheckStatus, PostTweet, ReplyPosted
<1>4. ASSUME NEW m \in Tweets, React(m) \/ Expire(m) PROVE blame \subseteq blame'
  BY <1>4 DEF React, Expire
<1>5. CASE Crash
  BY <1>5, FaultyBlame DEF Crash, Faults
<1>6. CASE UNCHANGED vars
  BY <1>6 DEF vars
<1> QED
  BY <1>1, <1>2, <1>3, <1>4, <1>5, <1>6 DEF Next

\* The cached list changes when a tweet is recorded or cleaned up; unless the
\* write is a stale one, what was read is the list as it is.
Cleans(h) ==
    /\ At(h, "write")
    /\ NextTweet(h)
    /\ pending' = Without(handler[h].read, Current(h))
    /\ handler[h].read = pending \/ "stale write" \in blame'
    /\ UNCHANGED <<asked, gen, verdict, expired, fate>>

Adds ==
    /\ gen.at = "write"
    /\ gen'.at = "idle"
    /\ pending' = Append(gen.read, asked)
    /\ gen.read = pending \/ "stale write" \in blame'
    /\ UNCHANGED <<asked, handler, verdict, expired, fate>>

LEMMA PendingStep ==
    ASSUME [Next]_vars
    PROVE  pending' = pending \/ Adds \/ \E h \in Handlers : Cleans(h)
<1>1. CASE Record
  <2>1. WriteList(gen.read, Append(gen.read, asked))
    BY <1>1 DEF Record
  <2> QED
    BY <1>1, <2>1, WriteListEffect DEF Record, Adds
<1>2. ASSUME NEW h \in Handlers, WriteCleaned(h) PROVE pending' = pending \/ Cleans(h)
  <2>1. CASE WriteList(handler[h].read, Without(handler[h].read, Current(h))) /\ NextTweet(h)
    BY <1>2, <2>1, WriteListEffect DEF WriteCleaned, Cleans
  <2> QED
    BY <1>2, <2>1 DEF WriteCleaned
<1>3. CASE Ask \/ ReadPending
  BY <1>3 DEF Ask, ReadPending
<1>4. ASSUME NEW h \in Handlers, StartTick(h) \/ Tick(h) PROVE pending' = pending \/ Cleans(h)
  BY <1>2, <1>4 DEF StartTick, Tick, CheckExpiry, CheckStatusOf, CheckStatus,
                    PostTweet, ReplyPosted, ReadForCleanup
<1>5. CASE (\E m \in Tweets : React(m) \/ Expire(m)) \/ Crash \/ UNCHANGED vars
  BY <1>5 DEF React, Expire, Crash, vars
<1> QED
  BY <1>1, <1>3, <1>4, <1>5 DEF Next

\* A tweet is tried by PostTweet only.
LEMMA FateStep ==
    ASSUME [Next]_vars
    PROVE  fate' = fate \/ \E h \in Handlers : PostTweet(h)
BY DEF Next, Ask, ReadPending, Record, StartTick, Tick, CheckExpiry, CheckStatusOf,
       CheckStatus, ReplyPosted, ReadForCleanup, WriteCleaned, React, Expire, Crash, vars

LEMMA VerdictStep ==
    ASSUME [Next]_vars
    PROVE  /\ verdict' = verdict \/ \E m \in Tweets : React(m)
           /\ expired \subseteq expired'
<1>1. CASE Ask \/ ReadPending \/ Record \/ Crash \/ UNCHANGED vars
  BY <1>1 DEF Ask, ReadPending, Record, Crash, vars
<1>2. ASSUME NEW h \in Handlers, StartTick(h) \/ Tick(h)
      PROVE  verdict' = verdict /\ expired' = expired
  BY <1>2 DEF StartTick, Tick, CheckExpiry, CheckStatusOf, CheckStatus, PostTweet,
              ReplyPosted, ReadForCleanup, WriteCleaned
<1>3. ASSUME NEW m \in Tweets, React(m) \/ Expire(m)
      PROVE  (verdict' = verdict \/ React(m)) /\ expired \subseteq expired'
  BY <1>3 DEF React, Expire
<1> QED
  BY <1>1, <1>2, <1>3 DEF Next

\* A tweet that was tried, rejected or that has expired stays so.
LEMMA SettledStays ==
    ASSUME ApprovalInv, [Next]_vars, NEW m \in Tweets, Settled(m)
    PROVE  Settled(m)'
<1>1. fate[m] # "untried" => fate'[m] # "untried"
  <2>1. ASSUME NEW h \in Handlers, PostTweet(h), fate[m] # "untried"
        PROVE  fate'[m] # "untried"
    <3>1. PICK f \in FatesAfter(fate[Current(h)]) :
             fate' = [fate EXCEPT ![Current(h)] = f]
      BY <2>1 DEF PostTweet
    <3>2. f # "untried" \/ Current(h) # m
      BY <2>1, <3>1 DEF FatesAfter, ApprovalInv, Fates
    <3> QED
      BY <2>1, <3>1, <3>2 DEF ApprovalInv
  <2> QED
    BY <2>1, FateStep
<1>2. verdict[m] \notin {"none", "up"} => verdict'[m] \notin {"none", "up"}
  <2>1. ASSUME NEW k \in Tweets, React(k), verdict[m] \notin {"none", "up"}
        PROVE  verdict'[m] \notin {"none", "up"}
    <3>1. PICK v \in VerdictsAfter(k) : verdict' = [verdict EXCEPT ![k] = v]
      BY <2>1 DEF React
    <3>2. k # m \/ v = "down"
      BY <2>1, <3>1 DEF VerdictsAfter, ApprovalInv, Verdicts
    <3> QED
      BY <2>1, <3>1, <3>2 DEF ApprovalInv
  <2> QED
    BY <2>1, VerdictStep
<1>3. m \in expired => m \in expired'
  BY VerdictStep
<1> QED
  BY <1>1, <1>2, <1>3 DEF Settled

LEMMA RecordedGrows ==
    ASSUME ListInv, [Next]_vars
    PROVE  /\ Recorded <= Recorded' /\ Recorded \in Nat /\ Recorded' \in Nat
           /\ asked' = asked \/ (Ask /\ asked' = asked + 1)
<1>1. Recorded \in Nat /\ asked \in Nat /\ GenShape
      /\ Recorded = IF gen.at = "idle" THEN asked ELSE asked - 1
  BY RecordedNat DEF ListInv, Recorded
<1>2. CASE Ask
  <2>1. gen.at = "idle" /\ asked' = asked + 1
    BY <1>2 DEF Ask
  <2>2. Recorded' = asked + 1 \/ Recorded' = asked
    BY <1>1, <2>1 DEF Recorded
  <2> QED
    BY <1>1, <1>2, <2>1, <2>2
<1>3. CASE asked' = asked /\ (gen' = gen \/ gen'.at = "idle" \/ gen.at # "idle")
  <2>1. Recorded' = Recorded \/ (Recorded' = asked /\ Recorded <= asked)
        \/ (Recorded' = asked - 1 /\ gen.at # "idle")
    BY <1>1, <1>3, RecordedNat DEF Recorded
  <2>2. gen.at # "idle" => Recorded = asked - 1
    BY <1>1
  <2> QED
    BY <1>1, <1>3, <2>1, <2>2
<1>4. Ask \/ (asked' = asked /\ (gen' = gen \/ gen'.at = "idle" \/ gen.at # "idle"))
  <2>1. CASE ReadPending \/ Record \/ Crash \/ UNCHANGED vars
    <3>1. CASE ReadPending
      BY <3>1 DEF ReadPending
    <3>2. CASE Record
      BY <3>2 DEF Record
    <3>3. CASE Crash
      BY <3>3 DEF Crash
    <3>4. CASE UNCHANGED vars
      BY <3>4 DEF vars
    <3> QED
      BY <2>1, <3>1, <3>2, <3>3, <3>4
  <2>2. ASSUME NEW h \in Handlers, StartTick(h) \/ Tick(h)
        PROVE  asked' = asked /\ gen' = gen
    BY <2>2 DEF StartTick, Tick, CheckExpiry, CheckStatusOf, CheckStatus, PostTweet,
                ReplyPosted, ReadForCleanup, WriteCleaned
  <2>3. ASSUME NEW m \in Tweets, React(m) \/ Expire(m)
        PROVE  asked' = asked /\ gen' = gen
    BY <2>3 DEF React, Expire
  <2> QED
    BY <2>1, <2>2, <2>3 DEF Next
<1> QED
  BY <1>2, <1>3, <1>4

-----------------------------------------------------------------------------
(* What a step does to the ticks *)

\* What tick h does with its list: it takes the cached one, keeps what it has,
\* goes on with the rest, or returns early.
Takes(h) ==
    /\ At(h, "idle")
    /\ handler'[h].todo = pending
    /\ handler'[h].at = "expiry"
    /\ (\E g \in Handlers : Busy(g)) => "overlap" \in blame'
    /\ UNCHANGED <<pending, fate>>

Works(h) ==
    /\ Busy(h)
    /\ handler'[h].todo = handler[h].todo
    /\ \/ /\ At(h, "expiry") /\ handler'[h].at = "status"
          /\ UNCHANGED <<pending, fate>>
       \/ /\ At(h, "status") /\ handler'[h].at = "post"
          /\ UNCHANGED <<pending, fate>>
       \/ /\ At(h, "status") /\ handler'[h].at = "clean"
          /\ Settled(Current(h))
          /\ UNCHANGED <<pending, fate>>
       \/ /\ At(h, "post") /\ handler'[h].at = "reply"
          /\ PostTweet(h)
       \/ /\ Finishing(h) /\ Finishing(h)'
          /\ UNCHANGED <<pending, fate>>

GoesOn(h) ==
    /\ Busy(h)
    /\ \/ handler'[h] = Done
       \/ /\ handler'[h].todo = Tail(handler[h].todo)
          /\ handler'[h].at = "expiry"
    /\ UNCHANGED fate
    /\ \/ At(h, "status") /\ UNCHANGED pending
       \/ Cleans(h)
       \/ {"write lost", "cache threw"} \intersect blame' # {} /\ UNCHANGED pending

Returns(h) ==
    /\ At(h, "expiry")
    /\ Current(h) \in expired
    /\ handler'[h].todo = <<Current(h)>>
    /\ handler'[h].at = "clean"
    /\ UNCHANGED <<pending, fate>>

OthersStay(h) == \A g \in Handlers \ {h} : handler'[g] = handler[g]

LEMMA RestOfList ==
    ASSUME ListInv, NEW h \in Handlers, Busy(h), NextTweet(h)
    PROVE  /\ OthersStay(h)
           /\ \/ handler'[h] = Done
              \/ /\ handler'[h].todo = Tail(handler[h].todo)
                 /\ handler'[h].at = "expiry"
<1>1. CASE handler'[h] = Done
  BY <1>1, NextTweetEffect DEF OthersStay
<1>2. CASE handler'[h] = [todo |-> Tail(handler[h].todo), at |-> "expiry", read |-> <<>>]
  BY <1>2, NextTweetEffect DEF OthersStay
<1> QED
  BY <1>1, <1>2, NextTweetEffect

LEMMA TickStep ==
    ASSUME ListInv, NEW h \in Handlers, StartTick(h) \/ Tick(h)
    PROVE  OthersStay(h) /\ (Takes(h) \/ Works(h) \/ GoesOn(h) \/ Returns(h))
<1>0. DOMAIN handler = Handlers /\ DOMAIN handler[h] = {"todo", "at", "read"}
  BY DEF ListInv, TickShape
<1>1. CASE StartTick(h)
  BY <1>0, <1>1 DEF StartTick, OthersStay, Takes, At
<1>2. CASE CheckExpiry(h)
  <2>1. CASE Current(h) \in expired
    BY <1>0, <1>2, <2>1 DEF CheckExpiry, OthersStay, Returns, At
  <2>2. CASE Current(h) \notin expired
    BY <1>0, <1>2, <2>2 DEF CheckExpiry, Move, OthersStay, Works, Busy, At
  <2> QED
    BY <2>1, <2>2
<1>3. CASE CheckStatusOf(h)
  <2>1. PICK status \in {Status(Current(h)), "PENDING"} : CheckStatus(h, status)
    BY <1>3 DEF CheckStatusOf
  <2>2. At(h, "status") /\ Busy(h) /\ UNCHANGED <<pending, fate>>
    BY <2>1 DEF CheckStatus, Busy, At
  <2>3. CASE status = "APPROVED"
    BY <1>0, <2>1, <2>2, <2>3 DEF CheckStatus, NextTweet, Move, OthersStay, Works, At
  <2>4. CASE status = "REJECTED"
    <3>1. Status(Current(h)) = "REJECTED" /\ Move(h, "clean")
      BY <2>1, <2>4 DEF CheckStatus
    <3>2. verdict[Current(h)] \in {"down", "vetoed"}
      BY <3>1 DEF Status
    <3> QED
      BY <1>0, <2>2, <3>1, <3>2 DEF Move, OthersStay, Works, Settled, At
  <2>5. CASE status = "PENDING"
    <3>1. NextTweet(h)
      BY <2>1, <2>5 DEF CheckStatus
    <3> QED
      BY <2>2, <3>1, RestOfList DEF GoesOn
  <2> QED
    BY <2>1, <2>3, <2>4, <2>5 DEF CheckStatus
<1>4. CASE PostTweet(h)
  BY <1>0, <1>4 DEF PostTweet, Move, OthersStay, Works, Busy, At
<1>5. CASE ReplyPosted(h)
  BY <1>0, <1>5 DEF ReplyPosted, Move, OthersStay, Works, Busy, At, Finishing
<1>6. CASE ReadForCleanup(h)
  <2>1. At(h, "clean") /\ Busy(h) /\ Finishing(h) /\ UNCHANGED <<pending, fate>>
    BY <1>6 DEF ReadForCleanup, Busy, At, Finishing
  <2>2. ASSUME NEW list, handler' = [handler EXCEPT ![h].at = "write", ![h].read = list]
        PROVE  OthersStay(h) /\ Works(h)
    BY <1>0, <2>1, <2>2 DEF OthersStay, Works, Finishing
  <2>3. CASE Faulty("cache threw") /\ handler' = [handler EXCEPT ![h] = Done]
    <3>1. "cache threw" \in blame'
      BY <2>3, FaultyBlame DEF Faults
    <3> QED
      BY <1>0, <2>1, <2>3, <3>1 DEF OthersStay, GoesOn
  <2> QED
    BY <1>6, <2>2, <2>3 DEF ReadForCleanup
<1>7. CASE WriteCleaned(h)
  <2>1. At(h, "write") /\ Busy(h) /\ UNCHANGED <<asked, gen, verdict, expired, fate>>
    BY <1>7 DEF WriteCleaned, Busy, At
  <2>2. CASE /\ WriteList(handler[h].read, Without(handler[h].read, Current(h)))
             /\ NextTweet(h)
    <3>1. Cleans(h) \/ ("write lost" \in blame' /\ UNCHANGED pending)
      BY <2>1, <2>2, WriteListEffect DEF Cleans
    <3> QED
      BY <2>1, <2>2, <3>1, RestOfList DEF GoesOn
  <2>3. CASE /\ Faulty("cache threw") /\ UNCHANGED pending
             /\ handler' = [handler EXCEPT ![h] = Done]
    <3>1. "cache threw" \in blame'
      BY <2>3, FaultyBlame DEF Faults
    <3> QED
      BY <1>0, <2>1, <2>3, <3>1 DEF OthersStay, GoesOn
  <2> QED
    BY <1>7, <2>2, <2>3 DEF WriteCleaned
<1> QED
  BY <1>1, <1>2, <1>3, <1>4, <1>5, <1>6, <1>7 DEF Tick

\* Any other step leaves the ticks alone, or ends them all.
LEMMA OtherStep ==
    ASSUME [Next]_vars, \A h \in Handlers : ~StartTick(h) /\ ~Tick(h)
    PROVE  \/ UNCHANGED <<handler, fate>> /\ (pending' = pending \/ Adds)
           \/ "crash" \in blame' /\ handler' = [h \in Handlers |-> Done]
              /\ UNCHANGED <<pending, fate>>
<1>1. CASE Record
  <2>1. WriteList(gen.read, Append(gen.read, asked))
    BY <1>1 DEF Record
  <2> QED
    BY <1>1, <2>1, WriteListEffect DEF Record, Adds
<1>2. CASE Ask \/ ReadPending \/ (\E m \in Tweets : React(m) \/ Expire(m)) \/ UNCHANGED vars
  BY <1>2 DEF Ask, ReadPending, React, Expire, vars
<1>3. CASE Crash
  BY <1>3, FaultyBlame DEF Crash, Faults
<1> QED
  BY <1>1, <1>2, <1>3 DEF Next

-----------------------------------------------------------------------------
(* No tweet is forgotten *)

LEMMA FinishingHolds ==
    ASSUME ListInv, ListInv', ApprovalInv, [Next]_vars,
           \A h \in Handlers : Finishing(h) => Settled(Current(h)),
           NEW h \in Handlers, Finishing(h)'
    PROVE  Settled(Current(h))'
<1>1. CASE handler'[h] = handler[h]
  <2>1. Finishing(h) /\ Busy(h) /\ Current(h)' = Current(h)
    BY <1>1 DEF Finishing, Busy, At, Current
  <2>2. Current(h) \in Tweets /\ Settled(Current(h))
    BY <2>1, CurrentIsTweet
  <2>3. Settled(Current(h))' <=>
            \/ fate'[Current(h)] # "untried"
            \/ verdict'[Current(h)] \notin {"none", "up"}
            \/ Current(h) \in expired'
    BY <2>1 DEF Settled
  <2>4. \/ fate'[Current(h)] # "untried"
        \/ verdict'[Current(h)] \notin {"none", "up"}
        \/ Current(h) \in expired'
    <3> DEFINE m == Current(h)
    <3>1. m \in Tweets /\ Settled(m)
      BY <2>2
    <3>2. fate' [m] # "untried" \/ verdict'[m] \notin {"none", "up"} \/ m \in expired'
      <4> SUFFICES ASSUME NEW k \in Tweets, Settled(k)
                   PROVE  \/ fate'[k] # "untried"
                          \/ verdict'[k] \notin {"none", "up"}
                          \/ k \in expired'
        BY <3>1
      <4>1. Settled(k)'
        BY SettledStays
      <4> QED
        BY <4>1 DEF Settled
    <3> QED
      BY <3>2
  <2> QED
    BY <2>3, <2>4
<1>2. CASE handler'[h] # handler[h]
  <2>1. handler'[h] # Done
    BY DEF Finishing, Done
  <2>2. StartTick(h) \/ Tick(h)
    <3>1. ASSUME NEW g \in Handlers, StartTick(g) \/ Tick(g), g # h PROVE FALSE
      BY <1>2, <3>1, TickStep DEF OthersStay
    <3>2. \E g \in Handlers : StartTick(g) \/ Tick(g)
      BY <1>2, <2>1, OtherStep
    <3> QED
      BY <3>1, <3>2
  <2>3. Works(h) \/ Returns(h)
    BY <2>1, <2>2, TickStep DEF Takes, GoesOn, Finishing
  <2>4. Busy(h) /\ Current(h)' = Current(h) /\ Current(h) \in Tweets
    <3>1. Busy(h)
      BY <2>3 DEF Works, Returns, Busy, At
    <3>2. Current(h)' = Current(h)
      BY <2>3 DEF Works, Returns, Current
    <3> QED
      BY <3>1, <3>2, CurrentIsTweet
  <2>5. Settled(Current(h)) \/ fate'[Current(h)] # "untried"
    <3>1. CASE Returns(h)
      BY <3>1 DEF Returns, Settled
    <3>2. CASE PostTweet(h)
      <4>1. PICK f \in FatesAfter(fate[Current(h)]) :
                fate' = [fate EXCEPT ![Current(h)] = f]
        BY <3>2 DEF PostTweet
      <4>2. f # "untried"
        BY <2>4, <4>1 DEF FatesAfter, ApprovalInv, Fates
      <4> QED
        BY <2>4, <4>1, <4>2 DEF ApprovalInv
    <3>3. CASE Works(h) /\ ~PostTweet(h)
      BY <3>3 DEF Works, Finishing, At
    <3> QED
      BY <2>3, <3>1, <3>2, <3>3
  <2>6. \A k \in Tweets : Settled(k) =>
            \/ fate'[k] # "untried" \/ verdict'[k] \notin {"none", "up"} \/ k \in expired'
    BY SettledStays DEF Settled
  <2> QED
    BY <2>4, <2>5, <2>6 DEF Settled
<1> QED
  BY <1>1, <1>2

LEMMA NextWatchInv ==
    ASSUME ListInv, ListInv', ApprovalInv, WatchInv, [Next]_vars
    PROVE  WatchInv'
<1>1. \A h \in Handlers : Finishing(h)' => Settled(Current(h))'
  BY FinishingHolds DEF WatchInv
<1>2. ASSUME NEW m \in 1 .. asked', ~Settled(m)', blame' \ {"overlap"} = {}
      PROVE  m \in ToSet(pending)' \/ Recording(m)'
  <2>1. blame \ {"overlap"} = {} /\ "stale write" \notin blame'
    <3>1. "stale write" \in blame' => "stale write" \in blame' \ {"overlap"}
      OBVIOUS
    <3> QED
      BY <1>2, <3>1, BlameGrows
  <2>2. /\ asked \in Nat /\ asked' \in 0 .. MaxTweets /\ Recorded \in Nat
        /\ MaxTweets \in Nat /\ GenShape /\ m \in Tweets
    <3>1. asked \in Nat /\ Recorded \in Nat /\ GenShape
      BY RecordedNat DEF ListInv
    <3>2. asked' \in 0 .. MaxTweets /\ MaxTweets \in Nat
      BY SizeAssumption DEF ListInv, GenShape
    <3> QED
      BY <3>1, <3>2 DEF Tweets
  <2>3. ~Settled(m)
    BY <1>2, <2>2, SettledStays
  <2>4. CASE m \notin 1 .. asked
    <3>1. Ask /\ m = asked'
      BY <2>2, <2>4, RecordedGrows
    <3>2. gen'.at = "read"
      <4>1. \A kind \in Faults : ~Faulty(kind)
        BY <1>2, FaultyBlame DEF Faults
      <4>2. gen' = [gen EXCEPT !.at = "read"]
        BY <3>1, <4>1 DEF Ask, Faults
      <4> QED
        BY <2>2, <4>2 DEF GenShape
    <3> QED
      BY <3>1, <3>2 DEF Recording
  <2>5. CASE m \in 1 .. asked
    <3>1. m \in ToSet(pending) \/ Recording(m)
      BY <2>1, <2>3, <2>5 DEF WatchInv, NoneForgotten, Settled
    <3>2. CASE m \in ToSet(pending)
      <4>1. CASE pending' = pending
        BY <3>2, <4>1
      <4>2. CASE Adds
        <5>1. gen.read = pending /\ pending' = Append(pending, asked)
          BY <2>1, <4>2 DEF Adds
        <5>2. asked # 0 /\ Listing(pending, asked - 1)
          BY <4>2, RecordedNat DEF ListInv, Adds
        <5>3. ToSet(pending') = ToSet(pending) \union {asked}
          BY <2>2, <5>1, <5>2, ListingAppend
        <5> QED
          BY <3>2, <5>3
      <4>3. ASSUME NEW h \in Handlers, Cleans(h)
            PROVE  m \in ToSet(pending')
        <5>1. pending' = Without(pending, Current(h))
          BY <2>1, <4>3 DEF Cleans
        <5>2. Settled(Current(h))
          BY <4>3 DEF Cleans, WatchInv, Finishing, At
        <5>3. Listing(pending, Recorded)
          BY DEF ListInv
        <5>4. ToSet(pending') = ToSet(pending) \ {Current(h)}
          BY <2>2, <5>1, <5>3, WithoutFacts
        <5> QED
          BY <2>3, <3>2, <5>2, <5>4
      <4> QED
        BY <4>1, <4>2, <4>3, PendingStep
    <3>3. CASE Recording(m)
      <4>1. gen.at # "idle" /\ m = asked /\ asked # 0 /\ Recorded = asked - 1
        BY <2>2, <3>3, RecordedNat DEF Recording
      <4>2. \A kind \in Faults : ~Faulty(kind)
        BY <1>2, FaultyBlame DEF Faults
      <4>3. CASE ReadPending
        <5>1. gen'.at = "write" /\ asked' = asked
          <6>1. PICK list \in {pending, <<>>} : gen' = [at |-> "write", read |-> list]
            BY <4>2, <4>3 DEF ReadPending, Faults
          <6> QED
            BY <4>3, <6>1 DEF ReadPending
        <5> QED
          BY <4>1, <5>1 DEF Recording
      <4>4. CASE Record
        <5>1. pending' = Append(gen.read, asked)
          BY <4>2, <4>4 DEF Record, WriteList, Faults
        <5>2. ToSet(pending') = ToSet(gen.read) \union {asked}
          BY <2>2, <4>1, <5>1, ListingAppend DEF GenShape
        <5> QED
          BY <4>1, <5>2
      <4>5. CASE ~ReadPending /\ ~Record
        <5>1. ASSUME NEW h \in Handlers, StartTick(h) \/ Tick(h)
              PROVE  gen' = gen /\ asked' = asked
          BY <5>1 DEF StartTick, Tick, CheckExpiry, CheckStatusOf, CheckStatus,
                      PostTweet, ReplyPosted, ReadForCleanup, WriteCleaned
        <5>2. ASSUME NEW k \in Tweets, React(k) \/ Expire(k)
              PROVE  gen' = gen /\ asked' = asked
          BY <5>2 DEF React, Expire
        <5>3. ~Ask /\ ~Crash
          BY <4>1, <4>2 DEF Ask, Crash, Faults
        <5>4. gen' = gen /\ asked' = asked
          BY <4>5, <5>1, <5>2, <5>3 DEF Next, vars
        <5> QED
          BY <3>3, <5>4 DEF Recording
      <4> QED
        BY <4>3, <4>4, <4>5
    <3> QED
      BY <3>1, <3>2, <3>3
  <2> QED
    BY <2>4, <2>5
<1>3. NoneForgotten'
  BY <1>2 DEF NoneForgotten, Settled
<1> QED
  BY <1>1, <1>3 DEF WatchInv

-----------------------------------------------------------------------------
(* No tweet is posted twice *)

LEMMA TriedIsRecordedHolds ==
    ASSUME ListInv, ApprovalInv, TriedIsRecorded, [Next]_vars
    PROVE  TriedIsRecorded'
<1> SUFFICES ASSUME NEW m \in Tweets, fate'[m] # "untried" PROVE m <= Recorded'
  BY DEF TriedIsRecorded
<1>1. Recorded \in Nat /\ Recorded' \in Nat /\ Recorded <= Recorded' /\ m \in Nat
  BY RecordedGrows DEF Tweets
<1>2. m <= Recorded
  <2>1. CASE fate[m] # "untried"
    BY <2>1 DEF TriedIsRecorded
  <2>2. ASSUME NEW h \in Handlers, PostTweet(h) PROVE m = Current(h) \/ fate'[m] = fate[m]
    <3>1. \E f \in FatesAfter(fate[Current(h)]) : fate' = [fate EXCEPT ![Current(h)] = f]
      BY <2>2 DEF PostTweet
    <3> QED
      BY <3>1 DEF ApprovalInv
  <2>3. ASSUME NEW h \in Handlers, PostTweet(h) PROVE Current(h) <= Recorded
    BY <2>3, CurrentIsTweet DEF PostTweet, Busy, At
  <2> QED
    BY <2>1, <2>2, <2>3, FateStep
<1> QED
  BY <1>1, <1>2

\* Only tick h has a list.
LEMMA OneTickFirst ==
    ASSUME NEW h \in Handlers,
           \A g \in Handlers \ {h} : Len(handler'[g].todo) = 0,
           \A i \in 1 .. Len(handler'[h].todo) :
                fate'[handler'[h].todo[i]] # "untried" => i = 1 /\ Finishing(h)'
    PROVE  TriedIsFirst'
<1>1. ASSUME NEW g \in Handlers \ {h} PROVE 1 .. Len(handler'[g].todo) = {}
  BY <1>1
<1> QED
  BY <1>1 DEF TriedIsFirst

LEMMA NextOnceInv ==
    ASSUME ListInv, ApprovalInv, OnceInv, [Next]_vars
    PROVE  OnceInv'
<1>1. TriedIsRecorded'
  BY TriedIsRecordedHolds DEF OnceInv
<1> SUFFICES ASSUME Undisturbed'
             PROVE  /\ \A m \in Tweets : fate'[m] # "posted twice"
                    /\ AloneAtWork'
                    /\ TriedIsFinishing'
                    /\ TriedIsFirst'
  BY <1>1 DEF OnceInv
<1>2. Undisturbed
  BY BlameGrows DEF Undisturbed
<1>3. /\ TriedIsRecorded /\ AloneAtWork /\ TriedIsFinishing /\ TriedIsFirst
      /\ \A m \in Tweets : fate[m] # "posted twice"
  BY <1>2 DEF OnceInv
<1>4. /\ "overlap" \notin blame' /\ "stale write" \notin blame'
      /\ "crash" \notin blame' /\ "write lost" \notin blame' /\ "cache threw" \notin blame'
  BY DEF Undisturbed
<1>5. /\ Recorded \in Nat /\ MaxTweets \in Nat /\ Listing(pending, Recorded)
      /\ Recorded \in 0 .. MaxTweets
      /\ asked \in Nat /\ GenShape
      /\ \A h \in Handlers : Listing(handler[h].todo, Recorded)
  BY RecordedNat, SizeAssumption DEF ListInv, TickShape
<1>6. CASE \A h \in Handlers : ~StartTick(h) /\ ~Tick(h)
  <2>1. UNCHANGED <<handler, fate>> /\ (pending' = pending \/ Adds)
    BY <1>4, <1>6, OtherStep
  <2>2. AloneAtWork' /\ TriedIsFirst' /\ \A m \in Tweets : fate'[m] # "posted twice"
    <3>1. AloneAtWork'
      BY <1>3, <2>1 DEF AloneAtWork, Busy, At
    <3>2. TriedIsFirst'
      <4>1. \A h \in Handlers : Finishing(h)' <=> Finishing(h)
        BY <2>1 DEF Finishing
      <4> QED
        BY <1>3, <2>1, <4>1 DEF TriedIsFirst
    <3> QED
      BY <1>3, <2>1, <3>1, <3>2
  <2>3. ASSUME NEW m \in ToSet(pending'), fate[m] # "untried" PROVE m \in ToSet(pending)
    <3>1. CASE Adds
      <4>1. pending' = Append(pending, asked) /\ asked # 0 /\ Recorded = asked - 1
        BY <1>4, <1>5, <3>1, RecordedNat DEF Adds
      <4>2. ToSet(pending') = ToSet(pending) \union {asked}
        BY <1>5, <4>1, ListingAppend
      <4>3. asked \in Tweets
        BY <1>5, <4>1 DEF GenShape, Tweets
      <4>4. m # asked
        <5> SUFFICES ASSUME m = asked PROVE FALSE
          OBVIOUS
        <5>1. asked <= Recorded
          BY <1>3, <2>3, <4>3 DEF TriedIsRecorded
        <5> QED
          BY <1>5, <4>1, <5>1
      <4> QED
        BY <4>2, <4>4
    <3> QED
      BY <2>1, <2>3, <3>1
  <2>4. TriedIsFinishing'
    BY <1>3, <2>1, <2>3 DEF TriedIsFinishing, Finishing, Current
  <2> QED
    BY <2>2, <2>4
<1>7. ASSUME NEW h \in Handlers, StartTick(h) \/ Tick(h)
      PROVE  /\ \A m \in Tweets : fate'[m] # "posted twice"
             /\ AloneAtWork'
             /\ TriedIsFinishing'
             /\ TriedIsFirst'
  <2>1. OthersStay(h) /\ (Takes(h) \/ Works(h) \/ GoesOn(h) \/ Returns(h))
    BY <1>7, TickStep
  <2>2. \A g \in Handlers \ {h} : handler'[g] = handler[g] /\ ~Busy(g)
    BY <1>3, <1>4, <2>1 DEF OthersStay, AloneAtWork, Takes, Works, GoesOn, Returns, At, Busy
  <2>3. AloneAtWork'
    BY <2>2 DEF AloneAtWork, Busy, At
  <2>4. \A g \in Handlers \ {h} : ~Finishing(g) /\ Len(handler[g].todo) = 0 /\ Len(handler'[g].todo) = 0
    BY <2>2 DEF Busy, At, Finishing, ListInv, TickShape
  <2>5. CASE Takes(h)
    <3>1. \A m \in ToSet(pending) : fate[m] = "untried"
      BY <1>3, <2>4, <2>5 DEF TriedIsFinishing, Takes, Finishing, At
    <3>2. \A i \in 1 .. Len(pending) : pending[i] \in ToSet(pending)
      BY <1>5, ToSetDef DEF Listing
    <3>3. \A i \in 1 .. Len(handler'[h].todo) : fate'[handler'[h].todo[i]] = "untried"
      BY <2>5, <3>1, <3>2 DEF Takes
    <3>4. TriedIsFirst'
      BY <2>4, <3>3 DEF TriedIsFirst
    <3>5. TriedIsFinishing'
      BY <2>5, <3>1 DEF TriedIsFinishing, Takes
    <3> QED
      BY <1>3, <2>3, <2>5, <3>4, <3>5 DEF Takes
  <2>6. CASE Returns(h)
    <3>1. Busy(h) /\ Finishing(h)' /\ Current(h)' = Current(h)
          /\ UNCHANGED <<pending, fate>>
      BY <2>6 DEF Returns, Busy, At, Finishing, Current
    <3>2. TriedIsFirst'
      <4>1. Len(handler'[h].todo) = 1
        BY <2>6 DEF Returns
      <4> QED
        BY <2>4, <3>1, <4>1 DEF TriedIsFirst
    <3>3. TriedIsFinishing'
      BY <1>3, <2>4, <2>6, <3>1 DEF TriedIsFinishing, Returns, Finishing, At
    <3> QED
      BY <1>3, <2>3, <3>1, <3>2, <3>3
  <2>7. CASE Works(h)
    <3>1. Busy(h) /\ handler'[h].todo = handler[h].todo /\ Current(h)' = Current(h)
      BY <2>7 DEF Works, Current
    <3>2. CASE PostTweet(h)
      <4> DEFINE m == Current(h)
      <4>1. /\ m \in Tweets /\ 1 \in 1 .. Len(handler[h].todo) /\ m = handler[h].todo[1]
            /\ Listing(handler[h].todo, Recorded)
        BY <3>1, CurrentIsTweet
      <4>2. At(h, "post") /\ ~Finishing(h) /\ pending' = pending
        BY <3>2 DEF PostTweet, At, Finishing
      <4>3. fate[m] = "untried"
        BY <1>3, <4>1, <4>2 DEF TriedIsFirst
      <4>4. PICK f \in {"failed", "posted"} : fate' = [fate EXCEPT ![m] = f]
        BY <3>2, <4>3 DEF PostTweet, FatesAfter
      <4> HIDE DEF m
      <4>5. \A k \in Tweets : fate'[k] # "posted twice" /\ (k # m => fate'[k] = fate[k])
        BY <1>3, <4>1, <4>4 DEF ApprovalInv
      <4>6. Finishing(h)'
        BY <2>7, <4>2 DEF Works, At, Finishing
      <4>7. \A i \in 1 .. Len(handler[h].todo) :
                handler[h].todo[i] \in Tweets /\ (i # 1 => handler[h].todo[i] # m)
        <5>1. \A i \in 1 .. Len(handler[h].todo) : handler[h].todo[i] \in 1 .. Recorded
          BY <4>1, ListingEntries
        <5>2. \A i, j \in 1 .. Len(handler[h].todo) :
                 handler[h].todo[i] = handler[h].todo[j] => i = j
          BY <4>1 DEF Listing
        <5>3. 1 .. Recorded \subseteq Tweets
          BY <1>5 DEF Tweets
        <5> QED
          BY <4>1, <5>1, <5>2, <5>3
      <4>8. TriedIsFirst'
        <5>1. \A i \in 1 .. Len(handler[h].todo) :
                 i # 1 => fate'[handler[h].todo[i]] = "untried"
          BY <1>3, <4>2, <4>5, <4>7 DEF TriedIsFirst
        <5> QED
          BY <2>4, <3>1, <4>6, <5>1, OneTickFirst
      <4>9. ToSet(pending) \subseteq Tweets
        <5>1. ToSet(pending) \subseteq 1 .. Recorded
          BY <1>5, ListingInLists
        <5> QED
          BY <1>5, <5>1 DEF Tweets
      <4>10. TriedIsFinishing'
        <5> SUFFICES ASSUME NEW k \in ToSet(pending), fate'[k] # "untried"
                     PROVE  \E g \in Handlers : (Finishing(g) /\ Current(g) = k)'
          BY <4>2 DEF TriedIsFinishing
        <5>1. k = m
          BY <1>3, <2>4, <4>2, <4>5, <4>9 DEF TriedIsFinishing
        <5> QED
          BY <3>1, <4>6, <5>1 DEF m
      <4> QED
        BY <2>3, <4>5, <4>8, <4>10
    <3>3. CASE ~PostTweet(h)
      <4>1. UNCHANGED <<pending, fate>> /\ (Finishing(h) => Finishing(h)')
        BY <2>7, <3>3 DEF Works, At, Finishing
      <4>2. TriedIsFirst'
        <5>1. \A i \in 1 .. Len(handler[h].todo) :
                 fate'[handler[h].todo[i]] # "untried" => i = 1 /\ Finishing(h)'
          BY <1>3, <4>1 DEF TriedIsFirst
        <5> QED
          BY <2>4, <3>1, <5>1, OneTickFirst
      <4>3. TriedIsFinishing'
        BY <1>3, <2>4, <3>1, <4>1 DEF TriedIsFinishing
      <4> QED
        BY <1>3, <2>3, <4>1, <4>2, <4>3
    <3> QED
      BY <3>2, <3>3
  <2>8. CASE GoesOn(h)
    <3>1. Busy(h) /\ fate' = fate /\ (handler'[h] = Done \/ handler'[h].todo = Tail(handler[h].todo))
      BY <2>8 DEF GoesOn
    <3>2. \A i \in 1 .. Len(handler'[h].todo) : fate[handler'[h].todo[i]] = "untried"
      <4>1. CASE handler'[h] = Done
        BY <4>1 DEF Done
      <4>2. CASE handler'[h].todo = Tail(handler[h].todo)
        <5>1. /\ handler[h].todo # <<>>
          BY <3>1 DEF ListInv, TickShape, Busy
        <5>2. /\ \A i \in 1 .. Len(Tail(handler[h].todo)) :
                    /\ i + 1 \in 1 .. Len(handler[h].todo)
                    /\ Tail(handler[h].todo)[i] = handler[h].todo[i + 1]
              /\ Len(Tail(handler[h].todo)) = Len(handler[h].todo) - 1
              /\ Len(handler[h].todo) \in Nat
          BY <1>5, <5>1, ListingTail
        <5>3. \A i \in 1 .. Len(Tail(handler[h].todo)) : i + 1 # 1
          BY <5>2
        <5>4. \A j \in 1 .. Len(handler[h].todo) : j # 1 => fate[handler[h].todo[j]] = "untried"
          BY <1>3 DEF TriedIsFirst
        <5>5. ASSUME NEW i \in 1 .. Len(Tail(handler[h].todo))
              PROVE  fate[Tail(handler[h].todo)[i]] = "untried"
          BY <5>2, <5>3, <5>4
        <5> QED
          BY <4>2, <5>5
      <4> QED
        BY <3>1, <4>1, <4>2
    <3>3. TriedIsFirst'
      BY <2>4, <3>1, <3>2 DEF TriedIsFirst
    <3>4. TriedIsFinishing'
      <4> SUFFICES ASSUME NEW k \in ToSet(pending'), fate[k] # "untried" PROVE FALSE
        BY <3>1 DEF TriedIsFinishing
      <4>1. CASE At(h, "status") /\ UNCHANGED pending
        BY <1>3, <2>4, <4>1 DEF TriedIsFinishing, Finishing, At
      <4>2. CASE Cleans(h)
        <5>1. pending' = Without(pending, Current(h))
          BY <1>4, <4>2 DEF Cleans
        <5>2. ToSet(pending') = ToSet(pending) \ {Current(h)}
          BY <1>5, <5>1, WithoutFacts
        <5> QED
          BY <1>3, <2>4, <5>2 DEF TriedIsFinishing
      <4> QED
        BY <1>4, <2>8, <4>1, <4>2 DEF GoesOn
    <3> QED
      BY <1>3, <2>3, <3>1, <3>3, <3>4
  <2> QED
    BY <2>1, <2>5, <2>6, <2>7, <2>8
<1> QED
  BY <1>6, <1>7

-----------------------------------------------------------------------------

LEMMA ListInvHolds == Spec => []ListInv
BY InitListInv, NextListInv, PTL DEF Spec

\* The lists hold distinct tweets that were sent to Discord, in the cache and in
\* the hands of every tick, and the fields keep their types (sendForApproval,
\* cleanupPendingTweet).
THEOREM TypeCorrect == Spec => []TypeOK
<1>1. ListInv /\ ApprovalInv => TypeOK
  <2> SUFFICES ASSUME ListInv, ApprovalInv PROVE TypeOK
    OBVIOUS
  <2>1. Recorded \in 0 .. MaxTweets /\ Recorded <= asked /\ Recorded \in Nat
        /\ asked \in 0 .. MaxTweets /\ asked \in Nat
    BY RecordedNat, SizeAssumption DEF ListInv, GenShape
  <2>2. pending \in Lists /\ IsInjective(pending) /\ ToSet(pending) \subseteq 1 .. Recorded
    BY <2>1, ListingInLists DEF ListInv
  <2>3. ToSet(pending) \subseteq 1 .. asked
    BY <2>1, <2>2
  <2>4. gen \in [at : {"idle", "read", "write"}, read : Lists]
    <3>1. gen.read \in Lists
      BY <2>1, ListingInLists DEF ListInv, GenShape
    <3> QED
      BY <3>1 DEF ListInv, GenShape
  <2>5. ASSUME NEW h \in Handlers
        PROVE  /\ handler[h] \in [todo : Lists, read : Lists,
                     at : {"idle", "expiry", "status", "post", "reply", "clean", "write"}]
               /\ handler[h].at = "idle" <=> handler[h].todo = <<>>
    <3>1. TickShape(h)
      BY DEF ListInv
    <3>2. handler[h].todo \in Lists /\ handler[h].read \in Lists
      BY <2>1, <3>1, ListingInLists DEF TickShape
    <3> QED
      BY <3>1, <3>2 DEF TickShape, At
  <2> QED
    BY <2>1, <2>2, <2>3, <2>4, <2>5 DEF TypeOK, ApprovalInv, ListInv
<1> QED
  BY <1>1, ListInvHolds, ApprovalInvHolds, PTL

\* A message that awaits an answer stays on the list, unless a fault or a stale
\* write lost it, however many ticks overlap (sendForApproval,
\* cleanupPendingTweet).
THEOREM NothingForgotten == Spec => []NoneForgotten
<1>1. Init => WatchInv
  BY SizeAssumption DEF Init, WatchInv, Finishing, Done, NoneForgotten
<1>2. WatchInv => NoneForgotten
  BY DEF WatchInv
<1> QED
  BY <1>1, <1>2, NextWatchInv, ListInvHolds, ApprovalInvHolds, PTL DEF Spec

\* A tweet is posted twice only when ticks overlapped, a stale list was written
\* or the removal after the post did not happen (handlePendingTweet).
THEOREM PostedOnlyOnce == Spec => []PostedOnce
<1>1. Init => OnceInv
  <2> SUFFICES ASSUME Init PROVE OnceInv
    OBVIOUS
  <2>1. \A h \in Handlers : ~Busy(h) /\ ~Finishing(h) /\ Len(handler[h].todo) = 0
    BY DEF Init, Done, Busy, At, Finishing
  <2>2. \A m \in Tweets : fate[m] = "untried"
    BY DEF Init
  <2>3. ToSet(pending) = {}
    BY DEF Init, ToSet
  <2> QED
    <3>1. TriedIsRecorded /\ \A m \in Tweets : fate[m] # "posted twice"
      BY <2>2 DEF TriedIsRecorded
    <3>2. AloneAtWork /\ TriedIsFinishing
      BY <2>1, <2>3 DEF AloneAtWork, TriedIsFinishing
    <3>3. TriedIsFirst
      BY <2>1 DEF TriedIsFirst
    <3> QED
      BY <3>1, <3>2, <3>3 DEF OnceInv
<1>2. OnceInv => PostedOnce
  BY DEF OnceInv, Undisturbed, PostedOnce
<1> QED
  BY <1>1, <1>2, NextOnceInv, ListInvHolds, ApprovalInvHolds, PTL DEF Spec

-----------------------------------------------------------------------------
(* What leaves the list *)

\* The list is about to be written by someone who read another one.
StaleWrite ==
    \/ gen.at = "write" /\ gen.read # pending
    \/ \E h \in Handlers : At(h, "write") /\ handler[h].read # pending

\* Step by step, and whatever went wrong before: a tweet leaves the list only when
\* it was tried, rejected or has expired, or by a write of a list that was not read
\* as it is now. A cleanup takes no other tweet with it (cleanupPendingTweet).
OnlySettledLeave ==
    [][\A m \in ToSet(pending) : m \in ToSet(pending)' \/ Settled(m) \/ StaleWrite]_vars

LEMMA FinishingInvHolds ==
    Spec => [](\A h \in Handlers : Finishing(h) => Settled(Current(h)))
<1> DEFINE Inv == \A h \in Handlers : Finishing(h) => Settled(Current(h))
<1>1. Init => Inv
  BY DEF Init, Finishing, Done
<1>2. ListInv /\ ListInv' /\ ApprovalInv /\ Inv /\ [Next]_vars => Inv'
  BY FinishingHolds
<1> QED
  BY <1>1, <1>2, ListInvHolds, ApprovalInvHolds, PTL DEF Spec

\* No tick, however late, removes a tweet that still awaits its answer, and no
\* recording does, but for the writes of a list that changed since it was read
\* (sendForApproval, handlePendingTweet).
THEOREM OnlySettledGo == Spec => OnlySettledLeave
<1> DEFINE Inv == \A h \in Handlers : Finishing(h) => Settled(Current(h))
           Step == \A m \in ToSet(pending) :
                      m \in ToSet(pending)' \/ Settled(m) \/ StaleWrite
<1>1. ListInv /\ Inv /\ [Next]_vars => Step
  <2> SUFFICES ASSUME ListInv, Inv, [Next]_vars,
                      NEW m \in ToSet(pending), ~StaleWrite, ~Settled(m)
               PROVE  m \in ToSet(pending')
    OBVIOUS
  <2>1. Listing(pending, Recorded) /\ Recorded \in Nat
    BY RecordedNat DEF ListInv
  <2>2. CASE Adds
    <3>1. pending' = Append(pending, asked)
      BY <2>2 DEF Adds, StaleWrite
    <3>2. asked # 0 /\ asked \in Nat /\ Listing(pending, asked - 1)
      BY <2>1, <2>2, RecordedNat DEF ListInv, GenShape, Adds, Recorded
    <3>3. ToSet(pending') = ToSet(pending) \union {asked}
      BY <3>1, <3>2, ListingAppend
    <3> QED
      BY <3>3
  <2>3. ASSUME NEW h \in Handlers, Cleans(h)
        PROVE  m \in ToSet(pending')
    <3>1. pending' = Without(pending, Current(h))
      BY <2>3 DEF Cleans, StaleWrite
    <3>2. Settled(Current(h))
      BY <2>3 DEF Cleans, Finishing, At
    <3>3. ToSet(pending') = ToSet(pending) \ {Current(h)}
      BY <2>1, <3>1, WithoutFacts
    <3> QED
      BY <3>2, <3>3
  <2> QED
    BY <2>2, <2>3, PendingStep
<1>2. ListInv /\ Inv /\ [Next]_vars => [Step]_vars
  BY <1>1
<1> QED
  BY <1>2, ListInvHolds, FinishingInvHolds, PTL DEF Spec, OnlySettledLeave

-----------------------------------------------------------------------------
(* A tick ends *)

\* The steps a tick may still take for the tweet it is at.
StepsAt(place) ==
    CASE place = "expiry" -> 6
      [] place = "status" -> 5
      [] place = "post"   -> 4
      [] place = "reply"  -> 3
      [] place = "clean"  -> 2
      [] place = "write"  -> 1

\* The most steps a tick may still take.
Left(h) ==
    IF At(h, "idle") THEN 0
    ELSE 6 * (Len(handler[h].todo) - 1) + StepsAt(handler[h].at)

\* A tick has finitely many steps to go, and each of its steps is one of them,
\* whatever becomes of the cached list meanwhile (the loop of handlePendingTweet
\* over the list that it has read).
TicksRunOut ==
    [][\A h \in Handlers :
         Busy(h) => Left(h)' < Left(h) \/ UNCHANGED handler[h]]_vars

LEMMA SixSteps ==
    ASSUME NEW n \in Nat \ {0}, NEW a \in 1 .. 6
    PROVE  /\ 6 * (n - 1) + a \in Nat
           /\ \A b \in 1 .. 6 : b < a => 6 * (n - 1) + b < 6 * (n - 1) + a
           /\ \A m \in Nat : n <= m => 6 * (n - 1) + a <= 6 * m
OBVIOUS

LEMMA BusyShape ==
    ASSUME ListInv, NEW h \in Handlers, Busy(h)
    PROVE  /\ Len(handler[h].todo) \in Nat \ {0}
           /\ handler[h].at \in {"expiry", "status", "post", "reply", "clean", "write"}
           /\ Len(handler[h].todo) <= MaxTweets
           /\ handler[h].todo # <<>>
           /\ Len(handler[h].todo) # 1 =>
                Len(Tail(handler[h].todo)) = Len(handler[h].todo) - 1
<1>1. /\ Listing(handler[h].todo, Recorded) /\ handler[h].todo # <<>>
      /\ Recorded \in 0 .. MaxTweets /\ Recorded \in Nat
      /\ handler[h].at \in {"expiry", "status", "post", "reply", "clean", "write"}
  BY RecordedNat DEF ListInv, TickShape, Busy, At
<1>2. handler[h].todo \in Lists
  BY <1>1, ListingInLists
<1>3. \A list \in Lists : Len(list) \in 0 .. MaxTweets
  BY SizeAssumption DEF Lists
<1>4. Len(handler[h].todo) \in 0 .. MaxTweets
  BY <1>2, <1>3
<1>5. /\ 1 \in 1 .. Len(handler[h].todo)
      /\ Len(Tail(handler[h].todo)) = Len(handler[h].todo) - 1
  BY <1>1, ListingTail
<1> QED
  BY <1>1, <1>4, <1>5, SizeAssumption

LEMMA TickShortens ==
    ASSUME ListInv, NEW h \in Handlers, Tick(h)
    PROVE  Left(h)' < Left(h)
<1> DEFINE n == Len(handler[h].todo)
           place == handler[h].at
<1>1. Busy(h)
  BY DEF Tick, CheckExpiry, CheckStatusOf, PostTweet, ReplyPosted, ReadForCleanup,
         WriteCleaned, Busy, At
<1>2. /\ n \in Nat \ {0}
      /\ place \in {"expiry", "status", "post", "reply", "clean", "write"}
      /\ n # 1 => Len(Tail(handler[h].todo)) = n - 1
  BY <1>1, BusyShape
<1>3. Left(h) = 6 * (n - 1) + StepsAt(place)
  BY <1>1 DEF Left, Busy
<1>4. StepsAt(place) \in 1 .. 6
  BY <1>2 DEF StepsAt
<1>5. ASSUME handler'[h] = Done PROVE Left(h)' < Left(h)
  <2>1. Left(h)' = 0
    BY <1>5 DEF Left, At, Done
  <2> QED
    BY <1>2, <1>3, <1>4, <2>1
<1>6. ASSUME NextTweet(h) PROVE Left(h)' < Left(h)
  <2>1. CASE n # 1 /\ handler'[h] = [todo |-> Tail(handler[h].todo),
                                     at |-> "expiry", read |-> <<>>]
    <3>1. Left(h)' = 6 * ((n - 1) - 1) + 6
      BY <1>2, <2>1 DEF Left, At, StepsAt
    <3> QED
      BY <1>2, <1>3, <1>4, <2>1, <3>1
  <2> QED
    BY <1>1, <1>5, <1>6, <2>1, NextTweetEffect
<1>7. ASSUME NEW next, Len(handler'[h].todo) = n, handler'[h].at = next,
             next # "idle", StepsAt(next) \in 1 .. 6, StepsAt(next) < StepsAt(place)
      PROVE  Left(h)' < Left(h)
  <2>1. Left(h)' = 6 * (n - 1) + StepsAt(next)
    BY <1>7 DEF Left, At
  <2>2. 6 * (n - 1) + StepsAt(next) < 6 * (n - 1) + StepsAt(place)
    BY <1>2, <1>4, <1>7, SixSteps
  <2> QED
    BY <1>3, <2>1, <2>2
<1>8. DOMAIN handler = Handlers /\ DOMAIN handler[h] = {"todo", "at", "read"}
  BY DEF ListInv, TickShape
<1>9. \A p : Move(h, p) => Len(handler'[h].todo) = n /\ handler'[h].at = p
  BY <1>8 DEF Move
<1>10. CASE CheckExpiry(h)
  <2>1. place = "expiry"
    BY <1>10 DEF CheckExpiry, At
  <2>2. CASE Current(h) \in expired
    <3>1. handler'[h].todo = <<Current(h)>> /\ handler'[h].at = "clean"
      BY <1>8, <1>10, <2>2 DEF CheckExpiry
    <3>2. Left(h)' = 6 * (1 - 1) + 2
      BY <3>1 DEF Left, At, StepsAt
    <3>3. StepsAt(place) = 6
      BY <2>1 DEF StepsAt
    <3> QED
      BY <1>2, <1>3, <3>2, <3>3
  <2>3. CASE Current(h) \notin expired
    <3>1. Move(h, "status")
      BY <1>10, <2>3 DEF CheckExpiry
    <3> QED
      BY <1>7, <1>9, <2>1, <3>1 DEF StepsAt
  <2> QED
    BY <2>2, <2>3
<1>11. CASE CheckStatusOf(h)
  <2>1. PICK status : CheckStatus(h, status)
    BY <1>11 DEF CheckStatusOf
  <2>2. place = "status"
    BY <2>1 DEF CheckStatus, At
  <2>3. CASE Move(h, "post") \/ Move(h, "clean")
    BY <1>7, <1>9, <2>2, <2>3 DEF StepsAt
  <2> QED
    BY <1>6, <2>1, <2>3 DEF CheckStatus
<1>12. CASE PostTweet(h)
  <2>1. place = "post" /\ Move(h, "reply")
    BY <1>12 DEF PostTweet, At
  <2> QED
    BY <1>7, <1>9, <2>1 DEF StepsAt
<1>13. CASE ReplyPosted(h)
  <2>1. place = "reply" /\ Move(h, "clean")
    BY <1>13 DEF ReplyPosted, At
  <2> QED
    BY <1>7, <1>9, <2>1 DEF StepsAt
<1>14. CASE ReadForCleanup(h)
  <2>1. place = "clean"
    BY <1>14 DEF ReadForCleanup, At
  <2>2. ASSUME NEW list, handler' = [handler EXCEPT ![h].at = "write", ![h].read = list]
        PROVE  Left(h)' < Left(h)
    <3>1. Len(handler'[h].todo) = n /\ handler'[h].at = "write"
      BY <1>8, <2>2
    <3> QED
      BY <1>7, <2>1, <3>1 DEF StepsAt
  <2>3. handler' = [handler EXCEPT ![h] = Done] => handler'[h] = Done
    BY <1>8
  <2> QED
    BY <1>5, <1>14, <2>2, <2>3 DEF ReadForCleanup
<1>15. CASE WriteCleaned(h)
  <2>1. handler' = [handler EXCEPT ![h] = Done] => handler'[h] = Done
    BY <1>8
  <2> QED
    BY <1>5, <1>6, <1>15, <2>1 DEF WriteCleaned
<1> QED
  BY <1>10, <1>11, <1>12, <1>13, <1>14, <1>15 DEF Tick

\* A tick takes at most six steps for each tweet on the list that it read, for
\* any number of tweets and of other ticks: it never takes up tweets that came
\* later. That it does take its steps is a matter of fairness (handlePendingTweet).
THEOREM TicksEnd ==
    Spec => /\ [](\A h \in Handlers : Left(h) \in 0 .. 6 * MaxTweets)
            /\ TicksRunOut
<1> DEFINE Bounded == \A h \in Handlers : Left(h) \in 0 .. 6 * MaxTweets
           Shorter == \A h \in Handlers :
                         Busy(h) => Left(h)' < Left(h) \/ UNCHANGED handler[h]
<1>1. ListInv => Bounded
  <2> SUFFICES ASSUME ListInv, NEW h \in Handlers
               PROVE  Left(h) \in 0 .. 6 * MaxTweets
    OBVIOUS
  <2>1. CASE At(h, "idle")
    BY <2>1, SizeAssumption DEF Left
  <2>2. CASE Busy(h)
    <3>1. /\ Len(handler[h].todo) \in Nat \ {0}
          /\ handler[h].at \in {"expiry", "status", "post", "reply", "clean", "write"}
          /\ Len(handler[h].todo) <= MaxTweets
      BY <2>2, BusyShape
    <3>2. StepsAt(handler[h].at) \in 1 .. 6
      BY <3>1 DEF StepsAt
    <3>3. Left(h) = 6 * (Len(handler[h].todo) - 1) + StepsAt(handler[h].at)
      BY <2>2 DEF Left, Busy
    <3>4. /\ Left(h) \in Nat
          /\ Left(h) <= 6 * MaxTweets
      BY <3>1, <3>2, <3>3, SixSteps, SizeAssumption
    <3> QED
      BY <3>4, SizeAssumption
  <2> QED
    BY <2>1, <2>2 DEF Busy
<1>2. ListInv /\ [Next]_vars => [Shorter]_vars
  <2> SUFFICES ASSUME ListInv, [Next]_vars, NEW h \in Handlers, Busy(h),
                      handler'[h] # handler[h]
               PROVE  Left(h)' < Left(h)
    BY DEF vars
  <2>1. CASE Tick(h)
    BY <2>1, TickShortens
  <2>2. CASE ~Tick(h)
    <3>1. \A g \in Handlers : ~StartTick(g) /\ ~Tick(g)
      <4>1. ~StartTick(h)
        BY DEF StartTick, Busy
      <4>2. ASSUME NEW g \in Handlers \ {h}, StartTick(g) \/ Tick(g)
            PROVE  FALSE
        BY <4>2, TickStep DEF OthersStay
      <4> QED
        BY <2>2, <4>1, <4>2
    <3>2. handler'[h] = Done
      BY <3>1, OtherStep
    <3>3. Left(h)' = 0
      BY <3>2 DEF Left, At, Done
    <3>4. /\ Len(handler[h].todo) \in Nat \ {0}
          /\ handler[h].at \in {"expiry", "status", "post", "reply", "clean", "write"}
      BY BusyShape
    <3>5. StepsAt(handler[h].at) \in 1 .. 6
      BY <3>4 DEF StepsAt
    <3>6. Left(h) = 6 * (Len(handler[h].todo) - 1) + StepsAt(handler[h].at)
      BY DEF Left, Busy
    <3> QED
      BY <3>3, <3>4, <3>5, <3>6
  <2> QED
    BY <2>1, <2>2
<1> QED
  BY <1>1, <1>2, ListInvHolds, PTL DEF Spec, TicksRunOut
=============================================================================
