---------------------- MODULE TwitterInteractions_proof ----------------------
(***************************************************************************)
(* What the answers to mentions guarantee for any number of mentions and   *)
(* of overlapping polls, whatever a search returns or misses and whenever  *)
(* the process restarts.                                                   *)
(***************************************************************************)
EXTENDS TwitterInteractions, WellFoundedInduction, TLAPS

-----------------------------------------------------------------------------
(* Types *)

PollRecords == [at : Places, todo : SUBSET Mentions, m : 0 .. Count,
                node : 0 .. Count]

\* Where a poll is at a mention.
Taken == {"lookup", "thread", "insert", "compose", "send", "sent"}
InThread == {"thread", "insert"}

\* What TypeOK says of a poll.
Sound(record) ==
    /\ record \in PollRecords
    /\ record.at \in Taken =>
           record.m # 0 /\ \A n \in record.todo : n > record.m
    /\ record.at \in InThread => record.node # 0

TypeInv ==
    /\ indexed \subseteq Mentions
    /\ memory \subseteq Mentions
    /\ replies \in [Mentions -> 0 .. 2]
    /\ mark \in 0 .. Count
    /\ saved \in 0 .. Count
    /\ up \in BOOLEAN
    /\ poll \in [Polls -> PollRecords]
    /\ \A p \in Polls : Sound(poll[p]) /\ (~up => poll[p] = Idle)
    /\ passed \subseteq indexed
    /\ overlapped \in BOOLEAN

LEMMA TypeInvIsTypeOK == TypeInv <=> TypeOK
BY DEF TypeOK, TypeInv, Sound, PollRecords, Taken, InThread

LEMMA IdleSound == Sound(Idle) /\ Idle.at \notin Taken
BY MentionAssumption DEF Sound, Idle, PollRecords, Places, Taken, InThread

\* The least of a set of mentions.
LEMMA MinOfMentions ==
    ASSUME NEW S \in SUBSET Mentions, S # {}
    PROVE  Min(S) \in S /\ \A n \in S : Min(S) <= n
<1>1. S \subseteq Nat
  BY DEF Mentions
<1> DEFINE Less == {pair \in Nat \X Nat : pair[1] < pair[2]}
<1>2. IsWellFoundedOn(Less, Nat)
  BY NatLessThanWellFounded DEF OpToRel
<1>3. \E k \in S : \A n \in S : ~ (<<n, k>> \in Less)
  <2> HIDE DEF Less
  <2> QED
    BY <1>1, <1>2, WFMin, Zenon
<1>4. PICK k \in S : \A n \in S : ~ (<<n, k>> \in Less)
  BY <1>3
<1>5. ASSUME NEW n \in S PROVE k <= n
  <2>1. <<n, k>> \in Nat \X Nat /\ <<n, k>>[1] = n /\ <<n, k>>[2] = k
    BY <1>1
  <2>2. ~ (n < k)
    BY <1>4, <2>1
  <2> QED
    BY <1>1, <2>2
<1> QED
  BY <1>5 DEF Min

\* Where the loop goes on: at the mark, or at the least candidate beyond it.
LEMMA ContinueValue ==
    ASSUME NEW candidates \in SUBSET Mentions, NEW latest \in 0 .. Count
    PROVE  LET next == Continue(candidates, latest) IN
           /\ Sound(next)
           /\ next.at \in {"save", "lookup"}
           /\ next.at = "save" =>
                  /\ next.m = latest
                  /\ next.todo = {}
                  /\ \A n \in candidates : n <= latest
           /\ next.at = "lookup" =>
                  /\ next.m \in candidates
                  /\ next.todo \subseteq candidates
                  /\ \A n \in candidates :
                         n <= latest \/ n = next.m \/ n \in next.todo
<1> DEFINE new == {m \in candidates : latest = 0 \/ m > latest}
           next == Continue(candidates, latest)
<1>1. CASE new = {}
  <2>1. next = [at |-> "save", todo |-> {}, m |-> latest, node |-> 0]
    BY <1>1 DEF Continue, Idle
  <2>2. \A n \in candidates : n <= latest
    BY <1>1, MentionAssumption DEF Mentions
  <2>3. Sound(next)
    BY <2>1, MentionAssumption DEF Sound, PollRecords, Places, Taken, InThread
  <2> QED
    BY <2>1, <2>2, <2>3
<1>2. CASE new # {}
  <2>0. new \subseteq Mentions
    OBVIOUS
  <2>1. PICK least \in new : least = Min(new) /\ \A n \in new : least <= n
    <3> HIDE DEF new
    <3> QED
      BY MinOfMentions, <1>2, <2>0
  <2>2. next = [at |-> "lookup", todo |-> new \ {least}, m |-> least, node |-> 0]
    BY <1>2, <2>1 DEF Continue, Idle
  <2>3. /\ least \in 1 .. Count
        /\ new \ {least} \in SUBSET Mentions
        /\ \A n \in new \ {least} : n > least
    <3> HIDE DEF new
    <3>1. least \in Mentions /\ \A n \in new : n \in Mentions
      BY <2>0, <2>1
    <3>2. ASSUME NEW n \in new \ {least} PROVE n > least
      BY <2>1, <3>1 DEF Mentions
    <3> QED
      BY <2>0, <3>1, <3>2 DEF Mentions
  <2>4. Sound(next)
    <3> HIDE DEF new, next
    <3>1. 0 \in 0 .. Count /\ 1 .. Count \subseteq 0 .. Count
      BY MentionAssumption
    <3>2. next \in PollRecords
      BY <2>2, <2>3, <3>1 DEF PollRecords, Places
    <3>3. next.m # 0 /\ \A n \in next.todo : n > next.m
      BY <2>2, <2>3
    <3> QED
      BY <2>2, <3>2, <3>3 DEF Sound, InThread
  <2>5. \A n \in candidates : n <= latest \/ n = least \/ n \in new \ {least}
    BY MentionAssumption DEF Mentions
  <2> QED
    BY <2>1, <2>2, <2>4, <2>5
<1> QED
  BY <1>1, <1>2

-----------------------------------------------------------------------------
(* The step of a poll changes the record of that poll only. *)

Goes(p) == Sound(poll'[p]) /\ poll' = [poll EXCEPT ![p] = poll'[p]]

\* A poll that goes elsewhere with its mention, to the next one, or ends.
LEMMA PollGoes ==
    ASSUME TypeInv, NEW p \in Polls, NEW record, Sound(record),
           poll' = [poll EXCEPT ![p] = record]
    PROVE  Goes(p)
BY DEF TypeInv, Goes

LEMMA StepChanges ==
    ASSUME TypeInv, NEW p \in Polls, Step(p)
    PROVE  /\ Goes(p)
           /\ memory \subseteq memory' /\ memory' \subseteq Mentions
           /\ replies' \in [Mentions -> 0 .. 2]
           /\ mark' \in 0 .. Count /\ saved' \in 0 .. Count
           /\ UNCHANGED <<indexed, up, passed, overlapped>>
<1>0. /\ poll[p] \in PollRecords /\ Sound(poll[p]) /\ poll \in [Polls -> PollRecords]
      /\ memory \subseteq Mentions /\ replies \in [Mentions -> 0 .. 2]
      /\ mark \in 0 .. Count /\ saved \in 0 .. Count
  BY DEF TypeInv
<1>m. poll[p].at \in Taken => poll[p].m \in Mentions
  BY <1>0 DEF Sound, PollRecords, Mentions
<1>n. poll[p].at \in InThread => poll[p].node \in Mentions
  BY <1>0 DEF Sound, PollRecords, Mentions
\* A poll that stays at its mention, and one that goes on in the thread.
<1>a. ASSUME NEW place \in Taken \ InThread, poll[p].at \in Taken, Move(p, place)
      PROVE  Goes(p)
  <2>1. Sound([poll[p] EXCEPT !.at = place])
    BY <1>0, <1>a DEF Sound, PollRecords, Places, Taken, InThread
  <2>2. poll' = [poll EXCEPT ![p] = [poll[p] EXCEPT !.at = place]]
    BY <1>0, <1>a DEF Move
  <2> QED
    BY <2>1, <2>2, PollGoes
<1>b. ASSUME NEW place \in InThread, NEW n \in Mentions, poll[p].at \in Taken
      PROVE  Sound([poll[p] EXCEPT !.at = place, !.node = n])
  <2>1. n \in 0 .. Count /\ n # 0
    BY MentionAssumption DEF Mentions
  <2>2. poll[p].m # 0 /\ \A k \in poll[p].todo : k > poll[p].m
    BY <1>0, <1>b DEF Sound
  <2> QED
    BY <1>0, <2>1, <2>2 DEF Sound, PollRecords, Places, Taken, InThread
<1>c. ASSUME NextInThread(p), poll[p].at \in InThread
      PROVE  Goes(p)
  <2>1. poll[p].at \in Taken /\ Parent[poll[p].node] \in Mentions \union {0}
    BY <1>n, <1>c, MentionAssumption DEF Taken, InThread
  <2>2. CASE Parent[poll[p].node] = 0
    <3>1. Move(p, "compose")
      BY <1>0, <1>c, <2>2 DEF NextInThread, Move
    <3> QED
      BY <1>a, <2>1, <3>1 DEF Taken, InThread
  <2>3. CASE Parent[poll[p].node] # 0
    <3>1. poll' = [poll EXCEPT ![p] =
              [poll[p] EXCEPT !.at = "thread", !.node = Parent[poll[p].node]]]
      BY <1>0, <1>c, <2>3 DEF NextInThread
    <3>2. Sound([poll[p] EXCEPT !.at = "thread", !.node = Parent[poll[p].node]])
      BY <1>b, <2>1, <2>3 DEF InThread
    <3> QED
      BY <3>1, <3>2, PollGoes
  <2> QED
    BY <2>2, <2>3
<1>d. ASSUME Throws(p), poll[p].at \in Taken
      PROVE  Goes(p)
  <2>1. CASE Move(p, "compose")
    BY <1>a, <1>d, <2>1 DEF Taken, InThread
  <2>2. CASE poll' = [poll EXCEPT ![p] = Idle]
    BY <2>2, IdleSound, PollGoes
  <2> QED
    BY <1>d, <2>1, <2>2 DEF Throws
<1>e. ASSUME NEW latest \in 0 .. Count, poll' = [poll EXCEPT ![p] = Continue(@.todo, latest)]
      PROVE  Goes(p)
  <2>1. Sound(Continue(poll[p].todo, latest))
    BY <1>0, ContinueValue DEF PollRecords
  <2>2. poll' = [poll EXCEPT ![p] = Continue(poll[p].todo, latest)]
    BY <1>0, <1>e
  <2> QED
    BY <2>1, <2>2, PollGoes
<1>1. CASE Lookup(p)
  <2>1. poll[p].at \in Taken
    BY <1>1 DEF Lookup, At, Taken
  <2>2. CASE poll[p].m \in memory
    <3>1. poll' = [poll EXCEPT ![p] = Continue(@.todo, mark)]
      BY <1>0, <1>1, <2>2 DEF Lookup
    <3> QED
      BY <1>0, <1>1, <1>e, <3>1 DEF Lookup
  <2>3. CASE poll[p].m \notin memory
    <3>1. poll' = [poll EXCEPT ![p] =
                      [poll[p] EXCEPT !.at = "thread", !.node = poll[p].m]]
      BY <1>0, <1>1, <2>3 DEF Lookup
    <3>2. Sound([poll[p] EXCEPT !.at = "thread", !.node = poll[p].m])
      BY <1>b, <1>m, <2>1 DEF InThread
    <3> QED
      BY <1>0, <1>1, <3>1, <3>2, PollGoes DEF Lookup
  <2> QED
    BY <2>2, <2>3
<1>2. CASE LookupInThread(p)
  <2>1. poll[p].at \in Taken /\ poll[p].at \in InThread
    BY <1>2 DEF LookupInThread, At, Taken, InThread
  <2>2. CASE Move(p, "insert")
    <3>1. Sound([poll[p] EXCEPT !.at = "insert", !.node = poll[p].node])
      BY <1>b, <1>n, <2>1 DEF InThread
    <3>2. [poll[p] EXCEPT !.at = "insert"] =
              [poll[p] EXCEPT !.at = "insert", !.node = poll[p].node]
      BY <1>0 DEF PollRecords
    <3>3. poll' = [poll EXCEPT ![p] = [poll[p] EXCEPT !.at = "insert"]]
      BY <1>0, <2>2 DEF Move
    <3> QED
      BY <1>0, <1>2, <3>1, <3>2, <3>3, PollGoes DEF LookupInThread
  <2>3. Goes(p)
    BY <1>2, <1>c, <1>d, <2>1, <2>2 DEF LookupInThread
  <2> QED
    BY <1>0, <1>2, <2>3 DEF LookupInThread
<1>3. CASE Insert(p)
  <2>1. poll[p].at \in Taken /\ poll[p].at \in InThread
    BY <1>3 DEF Insert, At, Taken, InThread
  <2>2. Goes(p)
    BY <1>3, <1>c, <1>d, <2>1 DEF Insert
  <2> QED
    BY <1>0, <1>3, <1>n, <2>1, <2>2 DEF Insert
<1>4. CASE Compose(p)
  <2>1. poll[p].at \in Taken
    BY <1>4 DEF Compose, At, Taken
  <2>2. poll[p].m \in 0 .. Count
    BY <1>0 DEF PollRecords
  <2>3. Goes(p) /\ mark' \in 0 .. Count
    BY <1>0, <1>4, <1>a, <1>e, <2>1, <2>2 DEF Compose, Taken, InThread
  <2> QED
    BY <1>0, <1>4, <1>m, <2>1, <2>3 DEF Compose
<1>5. CASE Send(p)
  <2>1. poll[p].at \in Taken
    BY <1>5 DEF Send, At, Taken
  <2>2. Goes(p)
    BY <1>5, <1>a, <2>1 DEF Send, Taken, InThread
  <2>3. replies' \in [Mentions -> 0 .. 2]
    BY <1>0, <1>5 DEF Send
  <2> QED
    BY <1>0, <1>5, <2>2, <2>3 DEF Send
<1>6. CASE Finish(p)
  <2>1. poll[p].m \in 0 .. Count
    BY <1>0 DEF PollRecords
  <2>2. Goes(p)
    BY <1>6, <1>e, <2>1 DEF Finish
  <2> QED
    BY <1>0, <1>6, <2>1, <2>2 DEF Finish
<1>7. CASE SaveMark(p)
  <2>1. Goes(p)
    BY <1>7, IdleSound, PollGoes DEF SaveMark
  <2> QED
    BY <1>0, <1>7, <2>1 DEF SaveMark, PollRecords
<1> QED
  BY <1>1, <1>2, <1>3, <1>4, <1>5, <1>6, <1>7 DEF Step

LEMMA InitTypeInv == Init => TypeInv
<1> SUFFICES ASSUME Init PROVE TypeInv
  OBVIOUS
<1>1. replies \in [Mentions -> 0 .. 2]
  BY DEF Init
<1>2. poll \in [Polls -> PollRecords] /\ \A p \in Polls : Sound(poll[p])
  BY IdleSound DEF Init, Sound
<1>3. \A p \in Polls : poll[p] = Idle
  BY DEF Init
<1>4. 0 \in 0 .. Count
  BY MentionAssumption
<1>5. /\ indexed = {} /\ memory = {} /\ passed = {} /\ mark = 0 /\ saved = 0
      /\ up = FALSE /\ overlapped = FALSE
  BY DEF Init
<1> QED
  BY <1>1, <1>2, <1>3, <1>4, <1>5 DEF TypeInv

LEMMA NextTypeInv == TypeInv /\ [Next]_vars => TypeInv'
<1> SUFFICES ASSUME TypeInv, [Next]_vars PROVE TypeInv'
  OBVIOUS
<1> USE DEF TypeInv
<1>l. Latest \subseteq indexed
  BY DEF Latest
<1>1. ASSUME NEW m \in Mentions, Appear(m) PROVE TypeInv'
  BY <1>1 DEF Appear
<1>2. CASE Start
  BY <1>2, <1>l DEF Start
<1>3. CASE StartFails
  BY <1>3, <1>l DEF StartFails
<1>4. CASE Crash
  <2>1. poll' \in [Polls -> PollRecords]
        /\ \A p \in Polls : poll'[p] = Idle /\ Sound(poll'[p])
    BY <1>4, IdleSound DEF Crash, Sound
  <2>2. 0 \in 0 .. Count
    BY MentionAssumption
  <2>3. /\ up' = FALSE /\ mark' = 0
        /\ UNCHANGED <<indexed, memory, replies, saved, passed, overlapped>>
    BY <1>4 DEF Crash
  <2> QED
    BY <2>1, <2>2, <2>3
<1>5. ASSUME NEW p \in Polls, NEW found \in {Latest, {}}, StartPoll(p, found)
      PROVE  TypeInv'
  <2>1. Goes(p)
    <3>1. found \in SUBSET Mentions
      BY <1>l
    <3>2. Sound(Continue(found, mark))
      BY <3>1, ContinueValue
    <3> QED
      BY <1>5, <3>2, PollGoes DEF StartPoll
  <2>2. overlapped' \in BOOLEAN
    BY <1>5 DEF StartPoll
  <2>4. passed' \subseteq indexed
    BY <1>5 DEF StartPoll
  <2>3. UNCHANGED <<indexed, memory, replies, mark, saved, up>> /\ up
    BY <1>5 DEF StartPoll
  <2> QED
    BY <2>1, <2>2, <2>3, <2>4 DEF Goes, Sound
<1>6. ASSUME NEW p \in Polls, Step(p) PROVE TypeInv'
  <2>1. up
    BY <1>6, IdleSound DEF Step, Lookup, LookupInThread, Insert, Compose, Send,
       Finish, SaveMark, At, Idle
  <2>2. Goes(p)
    BY <1>6, StepChanges
  <2> QED
    BY <1>6, <2>1, <2>2, StepChanges DEF Goes, Sound
<1>7. ASSUME NEW p \in Polls, Abort(p) PROVE TypeInv'
  <2>1. Goes(p)
    BY <1>7, IdleSound, PollGoes DEF Abort
  <2> QED
    BY <1>7, <2>1, IdleSound DEF Abort, Goes, Sound
<1>8. CASE UNCHANGED vars
  BY <1>8 DEF vars
<1> QED
  BY <1>1, <1>2, <1>3, <1>4, <1>5, <1>6, <1>7, <1>8 DEF Next

\* Every variable keeps its type, the candidates of a poll are beyond its
\* mention, and a client that is down polls nothing.
THEOREM TypeCorrect == Spec => []TypeOK
BY InitTypeInv, NextTypeInv, TypeInvIsTypeOK, PTL DEF Spec

-----------------------------------------------------------------------------
(* How a poll comes from the lookup of a mention to its answer *)

Onward(p) ==
    \/ poll'[p].at \in {"idle", "save", "lookup"}
    \/ /\ poll'[p].m = poll[p].m
       /\ poll'[p].todo = poll[p].todo
       /\ \/ /\ poll[p].at = "lookup" /\ poll'[p].at = "thread"
             /\ poll[p].m \notin memory
          \/ poll[p].at \in InThread /\ poll'[p].at \in InThread \union {"compose"}
          \/ /\ poll[p].at = "compose" /\ poll'[p].at = "send"
             /\ poll[p].m \in memory'
          \/ poll[p].at = "send" /\ poll'[p].at = "sent"

Answers(p) ==
    poll[p].at = "send" /\
        replies' = [replies EXCEPT ![poll[p].m] = IF @ = 0 THEN 1 ELSE 2]

LEMMA StepOnward ==
    ASSUME TypeInv, NEW p \in Polls, Step(p)
    PROVE  /\ poll[p].at # "idle"
           /\ Onward(p)
           /\ replies' = replies \/ Answers(p)
<1>0. /\ poll \in [Polls -> PollRecords] /\ poll[p] \in PollRecords
      /\ mark \in 0 .. Count
  BY DEF TypeInv
<1>c. ASSUME NEW latest \in 0 .. Count,
             poll' = [poll EXCEPT ![p] = Continue(@.todo, latest)]
      PROVE  Onward(p)
  <2>1. Continue(poll[p].todo, latest).at \in {"save", "lookup"}
    BY <1>0, ContinueValue DEF PollRecords
  <2>2. poll'[p] = Continue(poll[p].todo, latest)
    BY <1>0, <1>c
  <2> QED
    BY <2>1, <2>2 DEF Onward
<1>i. Idle.at = "idle"
  BY DEF Idle
<1>n. ASSUME NextInThread(p), poll[p].at \in InThread PROVE Onward(p)
  BY <1>0, <1>n DEF NextInThread, Onward, PollRecords, InThread
<1>t. ASSUME Throws(p), poll[p].at \in InThread PROVE Onward(p)
  BY <1>0, <1>i, <1>t DEF Throws, Move, Onward, PollRecords, InThread
<1>1. CASE Lookup(p)
  <2>1. CASE poll[p].m \in memory
    <3>1. poll' = [poll EXCEPT ![p] = Continue(@.todo, mark)]
      BY <1>0, <1>1, <2>1 DEF Lookup
    <3> QED
      BY <1>0, <1>1, <1>c, <3>1 DEF Lookup, At
  <2>2. CASE poll[p].m \notin memory
    BY <1>0, <1>1, <2>2 DEF Lookup, At, Onward, PollRecords
  <2> QED
    BY <2>1, <2>2
<1>2. CASE LookupInThread(p)
  <2>1. poll[p].at = "thread" /\ replies' = replies
    BY <1>2 DEF LookupInThread, At
  <2>2. CASE Move(p, "insert")
    BY <1>0, <2>1, <2>2 DEF Move, Onward, PollRecords, InThread
  <2> QED
    BY <1>2, <1>n, <1>t, <2>1, <2>2 DEF LookupInThread, InThread
<1>3. CASE Insert(p)
  BY <1>3, <1>n, <1>t DEF Insert, At, InThread
<1>4. CASE Compose(p)
  <2>1. poll[p].at = "compose" /\ replies' = replies /\ poll[p].m \in memory'
    BY <1>4 DEF Compose, At
  <2>2. CASE Move(p, "send")
    BY <1>0, <2>1, <2>2 DEF Move, Onward, PollRecords
  <2>3. CASE ~Move(p, "send")
    <3>1. poll[p].m \in 0 .. Count
      BY <1>0 DEF PollRecords
    <3> QED
      BY <1>4, <1>c, <2>1, <2>3, <3>1 DEF Compose
  <2> QED
    BY <2>2, <2>3
<1>5. CASE Send(p)
  BY <1>0, <1>5 DEF Send, Move, At, Onward, Answers, PollRecords
<1>6. CASE Finish(p)
  <2>1. poll[p].m \in 0 .. Count
    BY <1>0 DEF PollRecords
  <2> QED
    BY <1>6, <1>c, <2>1 DEF Finish, At
<1>7. CASE SaveMark(p)
  BY <1>0, <1>7, <1>i DEF SaveMark, At, Onward
<1> QED
  BY <1>1, <1>2, <1>3, <1>4, <1>5, <1>6, <1>7 DEF Step

-----------------------------------------------------------------------------
(* One answer *)

(***************************************************************************)
(* An answered mention has a memory; while polls do not overlap, the one   *)
(* that is on its way to an answer found the mention without a memory, and *)
(* nobody has answered it since.                                           *)
(***************************************************************************)
AloneInv ==
    /\ \A p, q \in Polls : poll[p].at # "idle" /\ poll[q].at # "idle" => p = q
    /\ \A p \in Polls :
        poll[p].at \in {"thread", "insert", "compose", "send"} =>
            replies[poll[p].m] = 0
    /\ \A m \in Mentions : replies[m] # 2

AnswerInv ==
    /\ \A m \in Mentions : replies[m] # 0 => m \in memory
    /\ \A p \in Polls : poll[p].at \in {"send", "sent"} => poll[p].m \in memory
    /\ overlapped \/ AloneInv

LEMMA StepAnswerInv ==
    ASSUME TypeInv, AnswerInv, NEW p \in Polls, Step(p)
    PROVE  AnswerInv'
<1>0. /\ poll \in [Polls -> PollRecords]
      /\ replies \in [Mentions -> 0 .. 2]
      /\ poll[p].at \in Taken => poll[p].m \in Mentions
  BY DEF TypeInv, Sound, PollRecords, Mentions
<1>1. /\ poll[p].at # "idle" /\ Onward(p) /\ (replies' = replies \/ Answers(p))
      /\ memory \subseteq memory' /\ overlapped' = overlapped
      /\ \A q \in Polls \ {p} : poll'[q] = poll[q]
  BY <1>0, StepOnward, StepChanges DEF Goes
<1>2. \A m \in Mentions : replies'[m] # 0 => m \in memory'
  BY <1>0, <1>1 DEF AnswerInv, Answers
<1>3. \A q \in Polls : poll'[q].at \in {"send", "sent"} => poll'[q].m \in memory'
  BY <1>1 DEF AnswerInv, Onward, InThread
<1>4. ASSUME AloneInv PROVE AloneInv'
  <2>1. \A q, r \in Polls : poll'[q].at # "idle" /\ poll'[r].at # "idle" => q = r
    BY <1>1, <1>4 DEF AloneInv
  <2>2. \A m \in Mentions : replies'[m] # 2
    BY <1>0, <1>1, <1>4 DEF AloneInv, Answers
  <2>3. \A q \in Polls :
            poll'[q].at \in {"thread", "insert", "compose", "send"} =>
                replies'[poll'[q].m] = 0
    <3>1. ASSUME NEW q \in Polls, poll'[q].at \in {"thread", "insert", "compose", "send"}
          PROVE  q = p
      BY <1>1, <1>4, <3>1 DEF AloneInv
    <3>2. ASSUME poll'[p].at \in {"thread", "insert", "compose", "send"}
          PROVE  replies'[poll'[p].m] = 0
      <4>1. replies' = replies /\ poll'[p].m = poll[p].m
        BY <1>1, <3>2 DEF Onward, Answers, InThread
      <4>2. replies[poll[p].m] = 0
        BY <1>0, <1>1, <1>4, <3>2 DEF Onward, AnswerInv, AloneInv, InThread, Taken
      <4> QED
        BY <4>1, <4>2
    <3> QED
      BY <3>1, <3>2
  <2> QED
    BY <2>1, <2>2, <2>3 DEF AloneInv
<1> QED
  BY <1>1, <1>2, <1>3, <1>4 DEF AnswerInv

LEMMA NextAnswerInv == TypeInv /\ AnswerInv /\ [Next]_vars => AnswerInv'
<1> SUFFICES ASSUME TypeInv, AnswerInv, [Next]_vars PROVE AnswerInv'
  OBVIOUS
<1> USE DEF AnswerInv, AloneInv
<1>0. poll \in [Polls -> PollRecords] /\ Idle.at = "idle"
  BY DEF TypeInv, Idle
<1>1. ASSUME NEW m \in Mentions, Appear(m) PROVE AnswerInv'
  BY <1>1 DEF Appear
<1>2. CASE Start
  BY <1>2 DEF Start
<1>3. CASE StartFails
  BY <1>3 DEF StartFails
<1>4. CASE Crash
  BY <1>0, <1>4 DEF Crash
<1>5. ASSUME NEW p \in Polls, NEW found \in {Latest, {}}, StartPoll(p, found)
      PROVE  AnswerInv'
  <2>1. found \in SUBSET Mentions /\ mark \in 0 .. Count
    BY DEF TypeInv, Latest
  <2>2. Continue(found, mark).at \in {"save", "lookup"}
    BY <2>1, ContinueValue
  <2>3. /\ poll'[p].at \in {"save", "lookup"}
        /\ \A q \in Polls \ {p} : poll'[q] = poll[q]
        /\ UNCHANGED <<memory, replies>>
    BY <1>0, <1>5, <2>2 DEF StartPoll
  <2>4. \/ overlapped' = TRUE
        \/ overlapped' = overlapped /\ \A q \in Polls : poll[q].at = "idle"
    BY <1>5 DEF StartPoll, At
  <2> QED
    BY <2>3, <2>4
<1>6. ASSUME NEW p \in Polls, Step(p) PROVE AnswerInv'
  BY <1>6, StepAnswerInv
<1>7. ASSUME NEW p \in Polls, Abort(p) PROVE AnswerInv'
  BY <1>0, <1>7 DEF Abort
<1>8. CASE UNCHANGED vars
  BY <1>8 DEF vars
<1> QED
  BY <1>1, <1>2, <1>3, <1>4, <1>5, <1>6, <1>7, <1>8 DEF Next

\* No mention is answered twice while no two polls overlap, over any number of
\* restarts, failed polls and searches.
THEOREM OneAnswer == Spec => []AnsweredOnce
<1>1. Init => AnswerInv
  BY DEF Init, AnswerInv, AloneInv, Idle
<1>2. AnswerInv => AnsweredOnce
  BY DEF AnswerInv, AloneInv, AnsweredOnce
<1> QED
  BY <1>1, <1>2, InitTypeInv, NextTypeInv, NextAnswerInv, PTL DEF Spec

-----------------------------------------------------------------------------
(* No second chance *)

\* A mention that has a memory and that nobody is at stays as it is: a poll only
\* takes up mentions that have none, and every answer comes from a poll at the
\* mention.
THEOREM MemoryIsFinal == Spec => NoSecondChance
<1>1. ASSUME TypeInv, [Next]_vars, NEW m \in memory,
             \A p \in Polls : ~Handles(p, m)
      PROVE  (\A p \in Polls : ~Handles(p, m)') /\ replies'[m] = replies[m]
  <2> USE DEF Handles
  <2>0. poll \in [Polls -> PollRecords] /\ replies \in [Mentions -> 0 .. 2]
        /\ Idle.at = "idle" /\ m \in Mentions
    BY <1>1 DEF TypeInv, Idle
  <2>1. ASSUME NEW p \in Polls, Step(p)
        PROVE  (\A q \in Polls : ~Handles(q, m)') /\ replies'[m] = replies[m]
    <3>1. /\ Onward(p) /\ (replies' = replies \/ Answers(p))
          /\ \A q \in Polls \ {p} : poll'[q] = poll[q]
      BY <1>1, <2>0, <2>1, StepOnward, StepChanges DEF Goes
    <3>2. replies'[m] = replies[m]
      BY <1>1, <2>0, <3>1 DEF Answers
    <3>3. ~Handles(p, m)'
      BY <1>1, <3>1 DEF Onward, InThread
    <3> QED
      BY <1>1, <3>1, <3>2, <3>3
  <2>2. ASSUME NEW p \in Polls, NEW found \in {Latest, {}}, StartPoll(p, found)
        PROVE  (\A q \in Polls : ~Handles(q, m)') /\ replies'[m] = replies[m]
    <3>1. found \in SUBSET Mentions /\ mark \in 0 .. Count
      BY <1>1 DEF TypeInv, Latest
    <3>2. Continue(found, mark).at \in {"save", "lookup"}
      BY <3>1, ContinueValue
    <3> QED
      BY <1>1, <2>0, <2>2, <3>2 DEF StartPoll
  <2>3. ASSUME NEW p \in Polls, Abort(p)
        PROVE  (\A q \in Polls : ~Handles(q, m)') /\ replies'[m] = replies[m]
    BY <1>1, <2>0, <2>3 DEF Abort
  <2>4. ASSUME Crash
        PROVE  (\A q \in Polls : ~Handles(q, m)') /\ replies'[m] = replies[m]
    BY <2>0, <2>4 DEF Crash
  <2>5. ASSUME (\E n \in Mentions : Appear(n)) \/ Start \/ StartFails \/ UNCHANGED vars
        PROVE  (\A q \in Polls : ~Handles(q, m)') /\ replies'[m] = replies[m]
    BY <1>1, <2>5 DEF Appear, Start, StartFails, vars
  <2> QED
    BY <1>1, <2>1, <2>2, <2>3, <2>4, <2>5 DEF Next
<1>2. TypeInv /\ [Next]_vars =>
          [\A m \in memory :
              (\A p \in Polls : ~Handles(p, m)) =>
                  (\A p \in Polls : ~Handles(p, m)') /\ replies'[m] = replies[m]]_vars
  BY <1>1
<1> QED
  BY <1>2, InitTypeInv, NextTypeInv, PTL DEF Spec, NoSecondChance

-----------------------------------------------------------------------------
(* The mark *)

\* Mentions nobody has looked at, which the search has not overtaken.
Open == indexed \ (passed \union memory)

\* A mark behind which nothing is open, among the mentions found so far.
Behind(k, found, open) == k \in found \union {0} /\ \A n \in open : n > k

(***************************************************************************)
(* A poll has before it everything that is open, but for mentions that     *)
(* have appeared beyond its candidates since.                              *)
(***************************************************************************)
Follows(record, found, open) ==
    /\ record.at \in Taken =>
        /\ record.m \in found
        /\ record.todo \subseteq found
        /\ \A n \in open :
            \/ n = record.m
            \/ n \in record.todo
            \/ n > record.m /\ \A k \in record.todo : n > k
    /\ record.at = "save" => Behind(record.m, found, open)

MarkInv ==
    /\ Behind(mark, indexed, Open)
    /\ Behind(saved, indexed, Open)
    /\ \A p \in Polls : Follows(poll[p], indexed, Open)

\* As mentions are looked at or overtaken, there is less to follow.
LEMMA FollowsLess ==
    ASSUME NEW record, NEW found, NEW open, NEW more, NEW less,
           found \subseteq more, less \subseteq open
    PROVE  /\ Follows(record, found, open) => Follows(record, more, less)
           /\ \A k : Behind(k, found, open) => Behind(k, more, less)
BY DEF Follows, Behind

\* A mention appears beyond all others.
LEMMA FollowsNew ==
    ASSUME NEW record \in PollRecords, NEW found \in SUBSET Mentions,
           NEW open \in SUBSET Mentions, NEW m \in Mentions,
           \A n \in found : m > n
    PROVE  /\ Follows(record, found, open) =>
                  Follows(record, found \union {m}, open \union {m})
           /\ \A k : Behind(k, found, open) => Behind(k, found \union {m}, open \union {m})
<1>1. m > 0
  BY DEF Mentions
<1>2. ASSUME NEW k, Behind(k, found, open)
      PROVE  Behind(k, found \union {m}, open \union {m})
  BY <1>1, <1>2 DEF Behind
<1>3. ASSUME Follows(record, found, open)
      PROVE  Follows(record, found \union {m}, open \union {m})
  BY <1>2, <1>3 DEF Follows
<1> QED
  BY <1>2, <1>3

\* Going on from a mark with nothing open behind it leaves nothing out.
LEMMA ContinueFollows ==
    ASSUME NEW candidates \in SUBSET Mentions, NEW latest \in 0 .. Count,
           NEW found \in SUBSET Mentions, NEW open \in SUBSET Mentions,
           candidates \subseteq found, Behind(latest, found, open),
           \A n \in open : n \in candidates \/ \A k \in candidates : n > k
    PROVE  Follows(Continue(candidates, latest), found, open)
<1> DEFINE next == Continue(candidates, latest)
<1>1. /\ next.at = "save" => next.m = latest
      /\ next.at = "lookup" =>
             /\ next.m \in candidates
             /\ next.todo \subseteq candidates
             /\ \A n \in candidates : n <= latest \/ n = next.m \/ n \in next.todo
      /\ next.at \in {"save", "lookup"}
  BY ContinueValue
<1> HIDE DEF next
<1>2. ASSUME next.at = "lookup", NEW n \in open
      PROVE  \/ n = next.m
             \/ n \in next.todo
             \/ n > next.m /\ \A k \in next.todo : n > k
  <2>1. n > latest /\ n \in Mentions
    BY DEF Behind
  <2>2. CASE n \in candidates
    <3>1. ~(n <= latest)
      BY <2>1, MentionAssumption DEF Mentions
    <3> QED
      BY <1>1, <1>2, <2>2, <3>1
  <2>3. CASE \A k \in candidates : n > k
    BY <1>1, <1>2, <2>3
  <2> QED
    BY <2>2, <2>3
<1>3. Follows(next, found, open)
  BY <1>1, <1>2 DEF Follows, Taken
<1> QED
  BY <1>3 DEF next

\* What a poll has looked at is not open when it goes on.
LEMMA GoOn ==
    ASSUME TypeInv, MarkInv, NEW p \in Polls, NEW latest \in 0 .. Count,
           poll[p].at \in Taken, poll[p].m \in memory',
           Open' \subseteq Open, indexed' = indexed,
           latest \in {mark, poll[p].m},
           poll' = [poll EXCEPT ![p] = Continue(@.todo, latest)]
    PROVE  Follows(poll'[p], indexed', Open') /\ Behind(latest, indexed', Open')
<1>0. /\ poll \in [Polls -> PollRecords] /\ poll[p] \in PollRecords
      /\ indexed \subseteq Mentions /\ Follows(poll[p], indexed, Open)
      /\ \A n \in poll[p].todo : n > poll[p].m
  BY DEF TypeInv, MarkInv, Sound
<1>1. poll[p].m \notin Open'
  BY DEF Open
<1>2. Open' \in SUBSET Mentions /\ poll[p].todo \subseteq indexed
  BY <1>0 DEF Open, Follows
<1>3. Behind(latest, indexed, Open')
  <2>1. CASE latest = mark
    BY <2>1 DEF MarkInv, Behind
  <2>2. CASE latest = poll[p].m
    BY <1>0, <1>1, <2>2 DEF Follows, Behind
  <2> QED
    BY <2>1, <2>2
<1>4. \A n \in Open' : n \in poll[p].todo \/ \A k \in poll[p].todo : n > k
  BY <1>0, <1>1 DEF Follows
<1>5. poll[p].todo \in SUBSET Mentions
  BY <1>0 DEF PollRecords
<1>6. Follows(Continue(poll[p].todo, latest), indexed, Open')
  BY <1>0, <1>2, <1>3, <1>4, <1>5, ContinueFollows
<1>7. poll'[p] = Continue(poll[p].todo, latest)
  BY <1>0
<1> QED
  BY <1>3, <1>6, <1>7

LEMMA StepMarkInv ==
    ASSUME TypeInv, AnswerInv, MarkInv, NEW p \in Polls, Step(p)
    PROVE  MarkInv'
<1>0. /\ poll \in [Polls -> PollRecords] /\ poll[p] \in PollRecords
      /\ mark \in 0 .. Count /\ poll[p].m \in 0 .. Count
      /\ Follows(poll[p], indexed, Open)
      /\ Behind(mark, indexed, Open) /\ Behind(saved, indexed, Open)
  BY DEF TypeInv, MarkInv, PollRecords
<1>1. /\ indexed' = indexed /\ passed' = passed /\ memory \subseteq memory'
      /\ \A q \in Polls \ {p} : poll'[q] = poll[q]
      /\ Onward(p)
  BY <1>0, StepOnward, StepChanges DEF Goes
<1>2. Open' \subseteq Open
  BY <1>1 DEF Open
<1>3. /\ \A q \in Polls \ {p} : Follows(poll'[q], indexed', Open')
      /\ Behind(mark, indexed', Open') /\ Behind(saved, indexed', Open')
      /\ Follows(poll[p], indexed', Open')
  BY <1>0, <1>1, <1>2, FollowsLess DEF MarkInv
\* A poll that stays at its mention, or ends.
<1>4. ASSUME poll'[p].at \in {"thread", "insert", "compose", "send", "sent"}
      PROVE  Follows(poll'[p], indexed', Open')
  BY <1>1, <1>3, <1>4 DEF Onward, Follows, Taken, InThread
<1>5. ASSUME poll'[p].at = "idle"
      PROVE  Follows(poll'[p], indexed', Open')
  BY <1>5 DEF Follows, Taken
<1>6. CASE Lookup(p)
  <2>1. mark' = mark /\ saved' = saved /\ memory' = memory /\ poll[p].at \in Taken
    BY <1>6 DEF Lookup, At, Taken
  <2>2. CASE poll[p].m \in memory
    <3>1. poll' = [poll EXCEPT ![p] = Continue(@.todo, mark)]
      BY <1>0, <1>6, <2>2 DEF Lookup
    <3> QED
      BY <1>0, <1>1, <1>2, <1>3, <2>1, <2>2, <3>1, GoOn DEF MarkInv
  <2>3. CASE poll[p].m \notin memory
    <3>1. poll'[p].at = "thread"
      BY <1>0, <1>6, <2>3 DEF Lookup, PollRecords
    <3> QED
      BY <1>3, <1>4, <2>1, <3>1 DEF MarkInv
  <2> QED
    BY <2>2, <2>3
<1>7. CASE LookupInThread(p) \/ Insert(p)
  <2>1. mark' = mark /\ saved' = saved
    BY <1>7 DEF LookupInThread, Insert
  <2>2. poll'[p].at \in {"idle", "thread", "insert", "compose"}
    <3>1. NextInThread(p) \/ Throws(p) \/ Move(p, "insert")
      BY <1>7 DEF LookupInThread, Insert
    <3>2. CASE NextInThread(p)
      BY <1>0, <3>2 DEF NextInThread, PollRecords
    <3>3. CASE Throws(p)
      BY <1>0, <3>3 DEF Throws, Move, Idle, PollRecords
    <3>4. CASE Move(p, "insert")
      BY <1>0, <3>4 DEF Move, PollRecords
    <3> QED
      BY <3>1, <3>2, <3>3, <3>4
  <2> QED
    BY <1>3, <1>4, <1>5, <2>1, <2>2 DEF MarkInv
<1>8. CASE Compose(p)
  <2>1. saved' = saved /\ poll[p].at \in Taken /\ poll[p].m \in memory'
    BY <1>8 DEF Compose, At, Taken
  <2>2. CASE Move(p, "send") /\ mark' = mark
    <3>1. poll'[p].at = "send"
      BY <1>0, <2>2 DEF Move, PollRecords
    <3> QED
      BY <1>3, <1>4, <2>1, <2>2, <3>1 DEF MarkInv
  <2>3. CASE /\ mark' = poll[p].m
             /\ poll' = [poll EXCEPT ![p] = Continue(@.todo, mark')]
    BY <1>0, <1>1, <1>2, <1>3, <2>1, <2>3, GoOn DEF MarkInv
  <2> QED
    BY <1>8, <2>2, <2>3 DEF Compose
<1>9. CASE Send(p)
  <2>1. mark' = mark /\ saved' = saved /\ poll'[p].at = "sent"
    BY <1>0, <1>9 DEF Send, Move, PollRecords
  <2> QED
    BY <1>3, <1>4, <2>1 DEF MarkInv
<1>10. CASE Finish(p)
  <2>1. /\ saved' = saved /\ mark' = poll[p].m /\ poll[p].at \in Taken
        /\ poll' = [poll EXCEPT ![p] = Continue(@.todo, poll[p].m)]
        /\ poll[p].m \in memory'
    BY <1>1, <1>10 DEF Finish, At, Taken, AnswerInv
  <2> QED
    BY <1>0, <1>1, <1>2, <1>3, <2>1, GoOn DEF MarkInv
<1>11. CASE SaveMark(p)
  <2>1. poll[p].at = "save" /\ mark' = mark /\ poll'[p].at = "idle"
        /\ saved' \in {saved, poll[p].m}
    BY <1>0, <1>11 DEF SaveMark, At, Idle
  <2>2. Behind(saved', indexed', Open')
    BY <1>3, <2>1 DEF Follows
  <2> QED
    BY <1>3, <1>5, <2>1, <2>2 DEF MarkInv
<1> QED
  BY <1>6, <1>7, <1>8, <1>9, <1>10, <1>11 DEF Step

LEMMA NextMarkInv == TypeInv /\ AnswerInv /\ MarkInv /\ [Next]_vars => MarkInv'
<1> SUFFICES ASSUME TypeInv, AnswerInv, MarkInv, [Next]_vars PROVE MarkInv'
  OBVIOUS
<1>0. /\ poll \in [Polls -> PollRecords] /\ mark \in 0 .. Count
      /\ indexed \subseteq Mentions /\ Open \subseteq Mentions
      /\ Follows(Idle, indexed, Open) /\ Idle.at = "idle"
  BY DEF TypeInv, Open, Idle, Follows, Taken
<1>1. ASSUME NEW m \in Mentions, Appear(m) PROVE MarkInv'
  <2>1. UNCHANGED <<mark, saved, poll>> /\ indexed' = indexed \union {m}
    BY <1>1 DEF Appear
  <2>2. CASE \E n \in indexed : n > m
    <3>1. Open' \subseteq Open
      BY <1>1, <2>2 DEF Appear, Open
    <3> QED
      BY <2>1, <3>1, FollowsLess DEF MarkInv
  <2>3. CASE ~\E n \in indexed : n > m
    <3>1. \A n \in indexed : m > n
      BY <1>0, <1>1, <2>3, MentionAssumption DEF Appear, Mentions
    <3>0. m > 0
      BY DEF Mentions
    <3>2. Open' \subseteq Open \union {m}
      BY <1>1, <2>3 DEF Appear, Open
    <3>3. /\ \A p \in Polls : Follows(poll[p], indexed', Open \union {m})
          /\ Behind(mark, indexed', Open \union {m})
          /\ Behind(saved, indexed', Open \union {m})
      <4>1. /\ Behind(mark, indexed \union {m}, Open \union {m})
            /\ Behind(saved, indexed \union {m}, Open \union {m})
        BY <3>1, <3>0 DEF MarkInv, Behind
      <4>2. ASSUME NEW p \in Polls
            PROVE  Follows(poll[p], indexed \union {m}, Open \union {m})
        <5>1. poll[p] \in PollRecords /\ Follows(poll[p], indexed, Open)
          BY <1>0 DEF MarkInv
        <5> QED
          BY <1>0, <3>1, <5>1, FollowsNew
      <4> QED
        BY <2>1, <4>1, <4>2
    <3> QED
      BY <2>1, <3>2, <3>3, FollowsLess DEF MarkInv
  <2> QED
    BY <2>2, <2>3
<1>2. CASE Start \/ StartFails
  <2>1. indexed' = indexed /\ poll' = poll /\ saved' = saved /\ mark' \in {mark, saved}
    BY <1>2 DEF Start, StartFails
  <2>2. Open' \subseteq Open
    BY <1>2 DEF Start, StartFails, Open
  <2> QED
    BY <2>1, <2>2, FollowsLess DEF MarkInv
<1>3. CASE Crash
  <2>1. /\ indexed' = indexed /\ saved' = saved /\ mark' = 0 /\ Open' = Open
        /\ \A p \in Polls : poll'[p] = Idle
    BY <1>3 DEF Crash, Open
  <2>2. Behind(0, indexed, Open)
    BY <1>0 DEF Behind, Mentions
  <2> QED
    BY <1>0, <2>1, <2>2 DEF MarkInv
<1>4. ASSUME NEW p \in Polls, NEW found \in {Latest, {}}, StartPoll(p, found)
      PROVE  MarkInv'
  <2>1. /\ UNCHANGED <<indexed, memory, mark, saved>>
        /\ poll'[p] = Continue(found, mark)
        /\ \A q \in Polls \ {p} : poll'[q] = poll[q]
    BY <1>0, <1>4 DEF StartPoll
  <2>2. /\ found \subseteq indexed
        /\ Open' \subseteq Open
        /\ found # {} => Open' \subseteq found
    BY <1>4, <2>1 DEF StartPoll, Latest, Open
  <2>3. /\ \A q \in Polls \ {p} : Follows(poll'[q], indexed', Open')
        /\ Behind(mark', indexed', Open') /\ Behind(saved', indexed', Open')
    BY <2>1, <2>2, FollowsLess DEF MarkInv
  <2>4. Open' \in SUBSET Mentions /\ found \in SUBSET Mentions
    BY <1>0, <2>2
  <2>5. \A n \in Open' : n \in found \/ \A k \in found : n > k
    BY <2>2
  <2>6. Follows(Continue(found, mark), indexed', Open')
    BY <1>0, <2>1, <2>2, <2>3, <2>4, <2>5, ContinueFollows
  <2> QED
    BY <2>1, <2>3, <2>6 DEF MarkInv
<1>5. ASSUME NEW p \in Polls, Step(p) PROVE MarkInv'
  BY <1>5, StepMarkInv
<1>6. ASSUME NEW p \in Polls, Abort(p) PROVE MarkInv'
  BY <1>0, <1>6 DEF Abort, MarkInv, Open
<1>7. CASE UNCHANGED vars
  BY <1>7 DEF vars, MarkInv, Open
<1> QED
  BY <1>1, <1>2, <1>3, <1>4, <1>5, <1>6, <1>7 DEF Next

\* The mark passes no mention that nobody has looked at and that the search has
\* not overtaken, for any limit of the search and any overlap of polls.
THEOREM MarkIsSafe == Spec => []NoneOverlooked
<1>1. Init => AnswerInv
  BY DEF Init, AnswerInv, AloneInv, Idle
<1>2. Init => MarkInv
  BY DEF Init, MarkInv, Behind, Follows, Open, Idle, Taken
<1>3. TypeInv /\ MarkInv => NoneOverlooked
  <2> SUFFICES ASSUME TypeInv, MarkInv, NEW m \in indexed \ passed,
                      m <= mark \/ m <= saved, m \notin memory
               PROVE  FALSE
    BY DEF NoneOverlooked
  <2>1. m > mark /\ m > saved /\ m \in Mentions
    BY DEF MarkInv, Behind, Open, TypeInv
  <2> QED
    BY <2>1, MentionAssumption DEF TypeInv, Mentions
<1> QED
  BY <1>1, <1>2, <1>3, InitTypeInv, NextTypeInv, NextAnswerInv, NextMarkInv, PTL DEF Spec

-----------------------------------------------------------------------------
(* A poll ends *)

\* The most steps a poll takes for one mention: two for each tweet of its thread
\* and four more.
Round == 2 * Count + 4

\* The steps it may still take for the mention it is at. A thread goes on with
\* earlier tweets only.
StepsAt(record) ==
    CASE record.at = "lookup"  -> Round
      [] record.at = "thread"  -> 2 * record.node + 3
      [] record.at = "insert"  -> 2 * record.node + 2
      [] record.at = "compose" -> 3
      [] record.at = "send"    -> 2
      [] record.at = "sent"    -> 1

\* The most steps a poll may still take: it goes on to later mentions only, and
\* saves the mark at the end.
Left(record) ==
    IF record.at \in Taken THEN (Count - record.m) * Round + StepsAt(record) + 1
    ELSE IF record.at = "save" THEN 1
    ELSE 0

\* A poll has finitely many steps to go, and each of its steps is one of them,
\* however long the threads are, whatever fails, and whatever other polls do to
\* the mark meanwhile (the loop of handleTwitterInteractions and the recursion of
\* buildConversationThread).
PollsRunOut ==
    [][\A p \in Polls :
         ~At(p, "idle") => Left(poll'[p]) < Left(poll[p]) \/ UNCHANGED poll[p]]_vars

\* A later mention leaves a round less, at least.
LEMMA RoundsShrink ==
    ASSUME NEW m \in Mentions
    PROVE  /\ Round \in Nat
           /\ (Count - m) * Round \in Nat
           /\ (Count - m) * Round + Round <= Count * Round
           /\ \A n \in Mentions : n > m =>
                  (Count - n) * Round + Round <= (Count - m) * Round
<1>1. /\ Count \in Nat /\ m \in 1 .. Count /\ Count - m \in Nat
      /\ Round \in Nat /\ Count - m + 1 \in Nat /\ Count - m + 1 <= Count
  BY MentionAssumption DEF Mentions, Round
<1>2. \A i, j \in Nat : i * j \in Nat /\ (i + 1) * j = i * j + j
  OBVIOUS
<1>3. \A i, j, k \in Nat : i <= j => i * k <= j * k
  OBVIOUS
<1>4. /\ (Count - m) * Round \in Nat
      /\ (Count - m + 1) * Round = (Count - m) * Round + Round
      /\ (Count - m + 1) * Round <= Count * Round
  BY <1>1, <1>2, <1>3
<1>5. ASSUME NEW n \in Mentions, n > m
      PROVE  (Count - n) * Round + Round <= (Count - m) * Round
  <2>1. /\ Count - n \in Nat /\ Count - n + 1 \in Nat
        /\ Count - n + 1 <= Count - m
    BY <1>1, <1>5 DEF Mentions
  <2>2. (Count - n + 1) * Round = (Count - n) * Round + Round
    BY <1>1, <1>2, <2>1
  <2>3. (Count - n + 1) * Round <= (Count - m) * Round
    BY <1>1, <1>3, <2>1
  <2> QED
    BY <2>2, <2>3
<1> QED
  BY <1>1, <1>4, <1>5

\* Where a poll at a mention stands.
LEMMA TakenLeft ==
    ASSUME NEW record, Sound(record), record.at \in Taken
    PROVE  /\ record.m \in Mentions
           /\ StepsAt(record) \in 1 .. Round
           /\ Left(record) = (Count - record.m) * Round + StepsAt(record) + 1
           /\ Left(record) \in Nat
           /\ Left(record) <= Count * Round + 1
           /\ (Count - record.m) * Round + 1 < Left(record)
           /\ 1 < Left(record)
<1>1. record.m \in Mentions
  BY DEF Sound, PollRecords, Mentions
<1>2. record.at \in InThread => record.node \in 1 .. Count
  BY DEF Sound, PollRecords
<1>3. StepsAt(record) \in 1 .. Round
  BY <1>2, MentionAssumption DEF StepsAt, Round, Taken, InThread
<1>4. Left(record) = (Count - record.m) * Round + StepsAt(record) + 1
  BY DEF Left
<1>5. /\ (Count - record.m) * Round \in Nat /\ Round \in Nat
      /\ (Count - record.m) * Round + Round <= Count * Round
      /\ Count * Round \in Nat
  <2>1. Count \in Nat /\ Round \in Nat
    BY MentionAssumption DEF Round
  <2>2. Count * Round \in Nat
    BY <2>1
  <2> QED
    BY <1>1, <2>2, RoundsShrink
<1> QED
  BY <1>1, <1>3, <1>4, <1>5

\* The loop that goes on has a mention less before it.
LEMMA ContinueShortens ==
    ASSUME NEW record, Sound(record), record.at \in Taken, NEW latest \in 0 .. Count
    PROVE  Left(Continue(record.todo, latest)) < Left(record)
<1> DEFINE next == Continue(record.todo, latest)
<1>1. record.todo \in SUBSET Mentions /\ \A n \in record.todo : n > record.m
  BY DEF Sound, PollRecords
<1>2. /\ Sound(next) /\ next.at \in {"save", "lookup"}
      /\ next.at = "lookup" => next.m \in record.todo
  BY <1>1, ContinueValue
<1>3. /\ record.m \in Mentions /\ Left(record) \in Nat /\ 1 < Left(record)
      /\ (Count - record.m) * Round + 1 < Left(record)
  BY TakenLeft
<1> HIDE DEF next
<1>4. CASE next.at = "save"
  <2>1. Left(next) = 1
    BY <1>4 DEF Left, Taken
  <2> QED
    BY <1>3, <2>1 DEF next
<1>5. CASE next.at = "lookup"
  <2>1. next.at \in Taken /\ next.m \in Mentions /\ next.m > record.m
    BY <1>1, <1>2, <1>5 DEF Taken
  <2>2. /\ StepsAt(next) \in 1 .. Round
        /\ Left(next) = (Count - next.m) * Round + StepsAt(next) + 1
    BY <1>2, <2>1, TakenLeft
  <2>3. /\ Round \in Nat /\ (Count - next.m) * Round \in Nat
        /\ (Count - record.m) * Round \in Nat
        /\ (Count - next.m) * Round + Round <= (Count - record.m) * Round
    BY <1>3, <2>1, RoundsShrink
  <2>4. Left(next) < Left(record)
    BY <1>3, <2>2, <2>3
  <2> QED
    BY <2>4 DEF next
<1> QED
  BY <1>2, <1>4, <1>5

\* A step at the same mention.
LEMMA StaysShortens ==
    ASSUME NEW record, Sound(record), record.at \in Taken,
           NEW next, Sound(next), next.at \in Taken, next.m = record.m,
           StepsAt(next) < StepsAt(record)
    PROVE  Left(next) < Left(record)
<1>1. /\ Left(next) = (Count - record.m) * Round + StepsAt(next) + 1
      /\ Left(record) = (Count - record.m) * Round + StepsAt(record) + 1
      /\ StepsAt(next) \in Nat /\ StepsAt(record) \in Nat
      /\ record.m \in Mentions
  <2>1. Round \in Nat
    BY MentionAssumption DEF Round
  <2> QED
    BY <2>1, TakenLeft
<1>2. (Count - record.m) * Round \in Nat
  BY <1>1, RoundsShrink
<1> QED
  BY <1>1, <1>2

LEMMA StepShortens ==
    ASSUME TypeInv, NEW p \in Polls, Step(p)
    PROVE  Left(poll'[p]) < Left(poll[p])
<1> DEFINE now == poll[p]
           next == poll'[p]
<1>0. /\ poll \in [Polls -> PollRecords] /\ now \in PollRecords /\ Sound(now)
      /\ mark \in 0 .. Count /\ now.m \in 0 .. Count /\ Sound(next)
  BY StepChanges DEF TypeInv, PollRecords, Goes
<1>i. Left(Idle) = 0 /\ Left(Idle) < 1
  BY DEF Left, Idle, Taken
<1>t. now.at \in Taken => 1 < Left(now) /\ Left(now) \in Nat
  BY <1>0, TakenLeft
<1>n. now.at \in InThread => now.node \in Mentions
  BY <1>0 DEF Sound, PollRecords, Mentions
<1>c. ASSUME NEW latest \in 0 .. Count, now.at \in Taken,
             poll' = [poll EXCEPT ![p] = Continue(@.todo, latest)]
      PROVE  Left(next) < Left(now)
  <2>1. next = Continue(now.todo, latest)
    BY <1>0, <1>c
  <2> QED
    BY <1>0, <1>c, <2>1, ContinueShortens
<1>d. ASSUME now.at \in Taken, poll' = [poll EXCEPT ![p] = Idle]
      PROVE  Left(next) < Left(now)
  <2>1. next = Idle
    BY <1>0, <1>d
  <2> QED
    BY <1>d, <1>i, <1>t, <2>1
<1>e. ASSUME next.at \in Taken, next.m = now.m, now.at \in Taken,
             StepsAt(next) < StepsAt(now)
      PROVE  Left(next) < Left(now)
  <2> HIDE DEF next, now
  <2> QED
    BY <1>0, <1>e, StaysShortens
<1>f. ASSUME Move(p, "compose"), now.at \in InThread
      PROVE  Left(next) < Left(now)
  <2>1. next.at = "compose" /\ next.m = now.m /\ now.at \in Taken
    BY <1>0, <1>f DEF Move, PollRecords, Taken, InThread
  <2>2. StepsAt(next) = 3
    BY <2>1 DEF StepsAt
  <2>3. StepsAt(now) > 3
    BY <1>n, <1>f, MentionAssumption DEF StepsAt, InThread, Mentions
  <2> QED
    BY <1>e, <2>1, <2>2, <2>3 DEF Taken
<1>g. ASSUME NextInThread(p), now.at \in InThread
      PROVE  Left(next) < Left(now)
  <2>1. CASE Parent[now.node] = 0
    <3>1. Move(p, "compose")
      BY <1>0, <1>g, <2>1 DEF NextInThread, Move
    <3> QED
      BY <1>f, <1>g, <3>1
  <2>2. CASE Parent[now.node] # 0
    <3>1. /\ next.at = "thread" /\ next.m = now.m /\ next.node = Parent[now.node]
          /\ now.at \in Taken
      BY <1>0, <1>g, <2>2 DEF NextInThread, PollRecords, Taken, InThread
    <3>2. /\ next.node \in Nat /\ now.node \in Nat /\ next.node < now.node
      BY <1>n, <1>g, <3>1, MentionAssumption DEF Mentions
    <3>3. StepsAt(next) = 2 * next.node + 3
      BY <3>1 DEF StepsAt
    <3>4. StepsAt(now) \in {2 * now.node + 3, 2 * now.node + 2}
      BY <1>g DEF StepsAt, InThread
    <3> QED
      BY <1>e, <3>1, <3>2, <3>3, <3>4 DEF Taken
  <2> QED
    BY <2>1, <2>2
<1>h. ASSUME Throws(p), now.at \in InThread
      PROVE  Left(next) < Left(now)
  BY <1>d, <1>f, <1>h DEF Throws, Taken, InThread
<1>1. CASE Lookup(p)
  <2>1. now.at = "lookup" /\ now.at \in Taken
    BY <1>1 DEF Lookup, At, Taken
  <2>2. CASE now.m \in memory
    <3>1. poll' = [poll EXCEPT ![p] = Continue(@.todo, mark)]
      BY <1>0, <1>1, <2>2 DEF Lookup
    <3> QED
      BY <1>0, <1>c, <2>1, <3>1
  <2>3. CASE now.m \notin memory
    <3>1. next.at = "thread" /\ next.m = now.m /\ next.node = now.m
      BY <1>0, <1>1, <2>3 DEF Lookup, PollRecords
    <3>2. StepsAt(next) = 2 * now.m + 3 /\ StepsAt(now) = Round
      BY <2>1, <3>1 DEF StepsAt
    <3>3. StepsAt(next) < StepsAt(now)
      BY <1>0, <3>2, MentionAssumption DEF Round
    <3> QED
      BY <1>e, <2>1, <3>1, <3>3 DEF Taken
  <2> QED
    BY <2>2, <2>3
<1>2. CASE LookupInThread(p)
  <2>1. now.at = "thread" /\ now.at \in InThread
    BY <1>2 DEF LookupInThread, At, InThread
  <2>2. CASE Move(p, "insert")
    <3>1. next.at = "insert" /\ next.m = now.m /\ next.node = now.node
      BY <1>0, <2>2 DEF Move, PollRecords
    <3>2. StepsAt(next) = 2 * now.node + 2 /\ StepsAt(now) = 2 * now.node + 3
      BY <2>1, <3>1 DEF StepsAt
    <3>3. StepsAt(next) < StepsAt(now)
      BY <1>n, <2>1, <3>2 DEF Mentions
    <3> QED
      BY <1>e, <2>1, <3>1, <3>3 DEF Taken
  <2> QED
    BY <1>2, <1>g, <1>h, <2>1, <2>2 DEF LookupInThread
<1>3. CASE Insert(p)
  <2>1. now.at \in InThread
    BY <1>3 DEF Insert, At, InThread
  <2> QED
    BY <1>3, <1>g, <1>h, <2>1 DEF Insert
<1>4. CASE Compose(p)
  <2>1. now.at = "compose" /\ now.at \in Taken
    BY <1>4 DEF Compose, At, Taken
  <2>2. CASE Move(p, "send")
    <3>1. next.at = "send" /\ next.m = now.m
      BY <1>0, <2>2 DEF Move, PollRecords
    <3>2. StepsAt(next) = 2 /\ StepsAt(now) = 3
      BY <2>1, <3>1 DEF StepsAt
    <3> QED
      BY <1>e, <2>1, <3>1, <3>2 DEF Taken
  <2>3. CASE ~Move(p, "send")
    BY <1>0, <1>4, <1>c, <2>1, <2>3 DEF Compose
  <2> QED
    BY <2>2, <2>3
<1>5. CASE Send(p)
  <2>1. now.at = "send" /\ now.at \in Taken /\ next.at = "sent" /\ next.m = now.m
    BY <1>0, <1>5 DEF Send, At, Move, Taken, PollRecords
  <2>2. StepsAt(next) = 1 /\ StepsAt(now) = 2
    BY <2>1 DEF StepsAt
  <2> QED
    BY <1>e, <2>1, <2>2 DEF Taken
<1>6. CASE Finish(p)
  <2>1. now.at \in Taken
    BY <1>6 DEF Finish, At, Taken
  <2> QED
    BY <1>0, <1>6, <1>c, <2>1 DEF Finish
<1>7. CASE SaveMark(p)
  <2>1. next = Idle /\ now.at = "save"
    BY <1>0, <1>7 DEF SaveMark, At
  <2>2. Left(now) = 1
    BY <2>1 DEF Left, Taken
  <2> QED
    BY <1>i, <2>1, <2>2
<1> QED
  BY <1>1, <1>2, <1>3, <1>4, <1>5, <1>6, <1>7 DEF Step

\* A poll ends after a bounded number of steps, which no other poll can extend:
\* a round for each mention, and the saving of the mark.
THEOREM PollsEnd ==
    Spec => /\ [](\A p \in Polls : Left(poll[p]) \in 0 .. Count * Round + 1)
            /\ PollsRunOut
<1> DEFINE Bounded == \A p \in Polls : Left(poll[p]) \in 0 .. Count * Round + 1
           Shorter == \A p \in Polls :
               ~At(p, "idle") => Left(poll'[p]) < Left(poll[p]) \/ UNCHANGED poll[p]
<1>1. TypeInv => Bounded
  <2> SUFFICES ASSUME TypeInv, NEW p \in Polls
               PROVE  Left(poll[p]) \in 0 .. Count * Round + 1
    OBVIOUS
  <2>1. Sound(poll[p])
    BY DEF TypeInv
  <2>2. Count * Round \in Nat
    <3>1. Count \in Nat /\ Round \in Nat
      BY MentionAssumption DEF Round
    <3> QED
      BY <3>1
  <2>3. CASE poll[p].at \in Taken
    <3>1. Left(poll[p]) \in Nat /\ Left(poll[p]) <= Count * Round + 1
      BY <2>1, <2>3, TakenLeft
    <3> QED
      BY <2>2, <3>1
  <2>4. CASE poll[p].at \notin Taken
    <3>1. Left(poll[p]) \in {0, 1}
      BY <2>4 DEF Left
    <3> QED
      BY <2>2, <3>1
  <2> QED
    BY <2>3, <2>4
<1>2. TypeInv /\ [Next]_vars => [Shorter]_vars
  <2> SUFFICES ASSUME TypeInv, [Next]_vars, NEW p \in Polls, ~At(p, "idle"),
                      poll'[p] # poll[p]
               PROVE  Left(poll'[p]) < Left(poll[p])
    BY DEF vars
  <2>0. poll \in [Polls -> PollRecords] /\ poll[p] \in PollRecords /\ Sound(poll[p])
    BY DEF TypeInv
  <2>1. CASE Step(p)
    BY <2>1, StepShortens
  <2>2. CASE poll'[p] = Idle
    <3>1. Left(poll'[p]) = 0
      BY <2>2 DEF Left, Idle, Taken
    <3>2. CASE poll[p].at \in Taken
      <4>1. 1 < Left(poll[p]) /\ Left(poll[p]) \in Nat
        BY <2>0, <3>2, TakenLeft
      <4> QED
        BY <3>1, <4>1
    <3>3. CASE poll[p].at \notin Taken
      <4>1. poll[p].at = "save"
        BY <2>0, <3>3 DEF At, PollRecords, Places, Taken
      <4>2. Left(poll[p]) = 1
        BY <4>1 DEF Left, Taken
      <4> QED
        BY <3>1, <4>2
    <3> QED
      BY <3>2, <3>3
  <2>3. CASE poll'[p] # Idle /\ ~Step(p)
    <3>1. ASSUME NEW q \in Polls, Step(q) PROVE FALSE
      <4>1. q # p /\ poll' = [poll EXCEPT ![q] = poll'[q]]
        BY <2>3, <3>1, StepChanges DEF Goes
      <4> QED
        BY <2>0, <4>1
    <3>2. ASSUME NEW q \in Polls, NEW found, StartPoll(q, found) PROVE FALSE
      <4>1. q # p
        BY <3>2 DEF StartPoll, At
      <4> QED
        BY <2>0, <3>2, <4>1 DEF StartPoll
    <3>3. ASSUME NEW q \in Polls, Abort(q) PROVE FALSE
      BY <2>0, <2>3, <3>3 DEF Abort
    <3>4. ~Crash
      BY <2>3 DEF Crash
    <3> QED
      BY <3>1, <3>2, <3>3, <3>4 DEF Next, Appear, Start, StartFails, vars
  <2> QED
    BY <2>1, <2>2, <2>3
<1> QED
  BY <1>1, <1>2, InitTypeInv, NextTypeInv, PTL DEF Spec, PollsRunOut
=============================================================================
