------------------------- MODULE RequestQueue_proof -------------------------
(* Theorems about the request queue of the Twitter client, for any set of    *)
(* requests.                                                                 *)
EXTENDS RequestQueue, SequenceTheorems, TLAPS

(* Inductive as it stands: OneLoop says what the flag means, and the types   *)
(* say that a loop that is active is either pausing or awaiting a request.   *)
QueueInv == TypeOK /\ OneLoop

\* A shifted queue splits into a request and a shorter queue.
LEMMA ShiftTypes ==
    ASSUME NEW s \in Seq(Requests), s # <<>>
    PROVE  Head(s) \in Requests /\ Tail(s) \in Seq(Requests)
BY HeadTailProperties

\* Pushing on an empty queue and shifting again gives the request back.
LEMMA PushShift ==
    ASSUME NEW r \in Requests
    PROVE  Head(Append(<<>>, r)) = r /\ Tail(Append(<<>>, r)) = <<>>
OBVIOUS

\* The queue starts empty, without a loop.
LEMMA InitQueueInv == Init => QueueInv
<1>1. Init => TypeOK
  <2>1. <<>> \in Seq(Requests)
    OBVIOUS
  <2> QED
    BY <2>1, Zenon DEF Init, TypeOK
<1>2. Init => OneLoop
  BY DEF Init, OneLoop, Active
<1> QED
  BY <1>1, <1>2 DEF QueueInv

\* No step of add or processQueue breaks the invariant.
LEMMA NextQueueInv == QueueInv /\ [Next]_vars => QueueInv'
<1> SUFFICES ASSUME QueueInv, [Next]_vars
             PROVE  QueueInv'
  OBVIOUS
<1> USE MarkersAssumption DEF QueueInv, TypeOK, OneLoop, Active
<1>1. ASSUME NEW r \in Requests, Add(r)
      PROVE  QueueInv'
  <2> outcome' \in [Requests -> {"new", "waiting", "resolved", "rejected"}]
    BY <1>1 DEF Add
  <2>1. CASE processing
    BY <1>1, <2>1 DEF Add
  <2>2. CASE ~processing
    <3>1. queue' = <<>> /\ loop' = [loop EXCEPT ![r] = r] /\ processing'
      BY <1>1, <2>2, PushShift DEF Add
    <3> QED
      BY <2>2, <3>1
  <2> QED
    BY <2>1, <2>2
<1>2. ASSUME NEW w \in Requests, NEW result \in Results, Settle(w, result)
      PROVE  QueueInv'
  BY <1>2 DEF Settle, Results
<1>3. ASSUME NEW w \in Requests, Resume(w)
      PROVE  QueueInv'
  <2>1. processing /\ \A v \in Requests \ {w} : ~Active(v)
    BY <1>3 DEF Resume
  <2>2. CASE queue # <<>>
    <3>1. Head(queue) \in Requests /\ Tail(queue) \in Seq(Requests)
      BY <2>2, ShiftTypes
    <3>2. /\ loop' = [loop EXCEPT ![w] = Head(queue)]
          /\ queue' = Tail(queue)
          /\ UNCHANGED <<processing, outcome>>
      BY <1>3, <2>2 DEF Resume
    <3> QED
      BY <2>1, <3>1, <3>2
  <2>3. CASE queue = <<>>
    BY <1>3, <2>1, <2>3 DEF Resume
  <2> QED
    BY <2>2, <2>3
<1>4. CASE UNCHANGED vars
  BY <1>4 DEF vars
<1> QED
  BY <1>1, <1>2, <1>3, <1>4 DEF Next

-----------------------------------------------------------------------------

\* The fields of the queue and the promises of its callers keep their types.
THEOREM TypeCorrect == Spec => []TypeOK
<1>1. QueueInv => TypeOK
  BY DEF QueueInv
<1> QED
  BY InitQueueInv, NextQueueInv, <1>1, PTL DEF Spec

\* The processing flag admits one loop at a time and never strands a request
\* (processQueue).
THEOREM OneLoopOnly == Spec => []OneLoop
<1>1. QueueInv => OneLoop
  BY DEF QueueInv
<1> QED
  BY InitQueueInv, NextQueueInv, <1>1, PTL DEF Spec

-----------------------------------------------------------------------------
(* The refinement *)

\* Without a request in flight, the line is the queue.
LEMMA LineIdle ==
    ASSUME InFlight = {}
    PROVE  Line = queue
BY DEF Line

\* With one in flight, the line is that request and the queue behind it.
LEMMA LineBusy ==
    ASSUME NEW w, InFlight = {w}
    PROVE  Line = <<loop[w]>> \o queue
BY DEF Line

\* While loop w is active, no other loop has a request in flight.
LEMMA SoleLoop ==
    ASSUME QueueInv, NEW w \in Requests, Active(w)
    PROVE  /\ processing
           /\ loop[w] \in Requests => InFlight = {w}
           /\ loop[w] \notin Requests => InFlight = {}
BY MarkersAssumption DEF QueueInv, TypeOK, OneLoop, Active, InFlight

\* A request in flight is pushed further back by nobody: appending to the
\* queue appends to the line.
LEMMA ConcatAppend ==
    ASSUME NEW x \in Requests, NEW s \in Seq(Requests), NEW r \in Requests
    PROVE  <<x>> \o Append(s, r) = Append(<<x>> \o s, r)
OBVIOUS

\* The head of the line is the request in flight, the rest is the queue.
LEMMA ConcatHeadTail ==
    ASSUME NEW x \in Requests, NEW s \in Seq(Requests)
    PROVE  /\ <<x>> \o s # <<>>
           /\ Head(<<x>> \o s) = x
           /\ Tail(<<x>> \o s) = s
OBVIOUS

\* A queue that is not empty is its head followed by its tail.
LEMMA HeadThenTail ==
    ASSUME NEW s \in Seq(Requests), s # <<>>
    PROVE  <<Head(s)>> \o Tail(s) = s
OBVIOUS

\* Every step of the queue is a step of the server, or changes nothing the
\* server has: add submits, settling completes, the pauses are invisible.
LEMMA StepRefines == QueueInv /\ QueueInv' /\ [Next]_vars => [Server!Next]_(Server!vars)
<1> SUFFICES ASSUME QueueInv, QueueInv', [Next]_vars
             PROVE  [Server!Next]_(Server!vars)
  OBVIOUS
<1> USE DEF Server!Next, Server!vars
<1>1. ASSUME NEW r \in Requests, Add(r)
      PROVE  Server!Submit(r)
  <2>1. outcome[r] = "new" /\ outcome' = [outcome EXCEPT ![r] = "waiting"]
    BY <1>1 DEF Add
  <2>2. CASE processing
    <3>1. PICK w \in Requests : Active(w)
      BY <2>2 DEF QueueInv, OneLoop
    <3>2. loop' = loop /\ queue' = Append(queue, r) /\ InFlight' = InFlight
      BY <1>1, <2>2 DEF Add, InFlight
    <3>3. CASE loop[w] \in Requests
      <4>1. InFlight = {w} /\ Line = <<loop[w]>> \o queue
        BY <3>1, <3>3, SoleLoop, LineBusy
      <4>2. Line' = <<loop[w]>> \o Append(queue, r)
        BY <3>2, <4>1 DEF Line
      <4> QED
        BY <2>1, <3>3, <4>1, <4>2, ConcatAppend
           DEF Server!Submit, QueueInv, TypeOK
    <3>4. CASE loop[w] \notin Requests
      <4>1. InFlight = {} /\ Line = queue
        BY <3>1, <3>4, SoleLoop, LineIdle
      <4>2. Line' = Append(queue, r)
        BY <3>2, <4>1 DEF Line
      <4> QED
        BY <2>1, <4>1, <4>2 DEF Server!Submit
    <3> QED
      BY <3>3, <3>4
  <2>3. CASE ~processing
    <3>1. queue = <<>> /\ InFlight = {} /\ Line = <<>>
      BY <2>3, MarkersAssumption
         DEF QueueInv, OneLoop, Active, InFlight, Line
    <3>2. queue' = <<>> /\ loop' = [loop EXCEPT ![r] = r]
      BY <1>1, <2>3, <3>1, PushShift DEF Add
    <3>3. InFlight' = {r} /\ loop'[r] = r
      BY <2>3, <3>2, MarkersAssumption
         DEF QueueInv, TypeOK, OneLoop, Active, InFlight
    <3>4. Line' = <<r>> \o <<>>
      BY <3>2, <3>3 DEF Line
    <3> QED
      BY <2>1, <3>1, <3>4 DEF Server!Submit
  <2> QED
    BY <2>2, <2>3
<1>2. ASSUME NEW w \in Requests, NEW result \in Results, Settle(w, result)
      PROVE  Server!Complete(result)
  <2>1. loop[w] \in Requests /\ Active(w)
    BY <1>2, MarkersAssumption DEF Settle, Active
  <2>2. InFlight = {w} /\ Line = <<loop[w]>> \o queue
    BY <2>1, SoleLoop, LineBusy
  <2>3. InFlight' = {} /\ queue' = queue
    BY <1>2, <2>2, MarkersAssumption
       DEF Settle, InFlight, QueueInv, TypeOK
  <2>4. Line' = queue
    BY <2>3 DEF Line
  <2> QED
    BY <1>2, <2>1, <2>2, <2>4, ConcatHeadTail
       DEF Server!Complete, Settle, QueueInv, TypeOK
<1>3. ASSUME NEW w \in Requests, Resume(w)
      PROVE  UNCHANGED <<Line, outcome>>
  <2>1. Active(w) /\ loop[w] \notin Requests
    BY <1>3, MarkersAssumption DEF Resume, Active
  <2>2. InFlight = {} /\ Line = queue
    BY <2>1, SoleLoop, LineIdle
  <2>3. CASE queue # <<>>
    <3>1. /\ Head(queue) \in Requests
          /\ loop' = [loop EXCEPT ![w] = Head(queue)]
          /\ queue' = Tail(queue)
      BY <1>3, <2>3, ShiftTypes DEF Resume, QueueInv, TypeOK
    <3>2. InFlight' = {w} /\ loop'[w] = Head(queue)
      BY <2>2, <3>1 DEF InFlight, QueueInv, TypeOK
    <3>3. Line' = <<Head(queue)>> \o Tail(queue)
      BY <3>1, <3>2 DEF Line
    <3> QED
      BY <1>3, <2>2, <2>3, <3>3, HeadThenTail DEF Resume, QueueInv, TypeOK
  <2>4. CASE queue = <<>>
    <3>1. InFlight' = {} /\ queue' = queue
      BY <1>3, <2>2, <2>4, MarkersAssumption
         DEF Resume, InFlight, QueueInv, TypeOK
    <3> QED
      BY <1>3, <2>2, <3>1 DEF Resume, Line
  <2> QED
    BY <2>3, <2>4
<1>4. CASE UNCHANGED vars
  BY <1>4 DEF vars, Line, InFlight
<1> QED
  BY <1>1, <1>2, <1>3, <1>4 DEF Next, Results

\* The queue implements the first-come first-served server (safety; that every
\* request settles is left to the model checker).
THEOREM QueueRefinesServer == Spec => Server!Spec
<1>1. Init => Server!Init
  BY MarkersAssumption DEF Init, Server!Init, Line, InFlight
<1> QED
  BY <1>1, InitQueueInv, NextQueueInv, StepRefines, PTL DEF Spec, Server!Spec

-----------------------------------------------------------------------------
(* No request is lost or repeated *)

Queued(r) == \E i \in 1 .. Len(queue) : queue[i] = r
Sent(r) == \E w \in Requests : loop[w] = r

(* NoneLostOrRepeated compares sets, and would not notice a request that is   *)
(* twice in the queue, or in it and in flight: the first time it settles, the *)
(* other copy would be a request whose caller waits no more. So no request    *)
(* may stand twice.                                                           *)
NoCopies ==
    /\ \A i, j \in 1 .. Len(queue) : i # j => queue[i] # queue[j]
    /\ \A r \in Requests : Sent(r) => ~Queued(r)

Accounted == \A r \in Requests : outcome[r] = "waiting" <=> Queued(r) \/ Sent(r)

CountInv == QueueInv /\ NoCopies /\ Accounted

\* Said request by request, it is the property.
LEMMA AccountedIsNoneLost == TypeOK /\ Accounted => NoneLostOrRepeated
BY DEF TypeOK, Accounted, NoneLostOrRepeated, Queued, Sent

\* add puts its request in the queue, behind the others.
LEMMA PushedStands ==
    ASSUME NEW s \in Seq(Requests), NEW r \in Requests
    PROVE  /\ Len(Append(s, r)) = Len(s) + 1
           /\ Append(s, r)[Len(s) + 1] = r
           /\ \A i \in 1 .. Len(s) : Append(s, r)[i] = s[i]
OBVIOUS

\* shift takes the first request, the others move up by one.
LEMMA ShiftedStands ==
    ASSUME NEW s \in Seq(Requests), s # <<>>
    PROVE  /\ Len(s) \in Nat \ {0}
           /\ Head(s) = s[1]
           /\ Len(Tail(s)) = Len(s) - 1
           /\ \A i \in 1 .. Len(s) - 1 : Tail(s)[i] = s[i + 1]
OBVIOUS

\* Every step of add and processQueue keeps each request of a waiting caller in
\* one place.
LEMMA NextCountInv == CountInv /\ QueueInv' /\ [Next]_vars => CountInv'
<1> SUFFICES ASSUME CountInv, QueueInv', [Next]_vars
             PROVE  NoCopies' /\ Accounted'
  BY DEF CountInv
<1> USE MarkersAssumption
<1>0. TypeOK /\ OneLoop /\ TypeOK' /\ NoCopies /\ Accounted
  BY DEF CountInv, QueueInv
<1>1. ASSUME NEW r \in Requests, Add(r)
      PROVE  NoCopies' /\ Accounted'
  <2>1. /\ outcome[r] = "new" /\ outcome' = [outcome EXCEPT ![r] = "waiting"]
        /\ ~Queued(r) /\ ~Sent(r)
    BY <1>0, <1>1 DEF Add, Accounted
  <2>2. CASE processing
    <3>1. queue' = Append(queue, r) /\ loop' = loop
      BY <1>1, <2>2 DEF Add
    <3>2. /\ Len(queue') = Len(queue) + 1 /\ queue'[Len(queue) + 1] = r
          /\ \A i \in 1 .. Len(queue) : queue'[i] = queue[i]
          /\ Len(queue) \in Nat
      BY <1>0, <3>1, PushedStands DEF TypeOK
    <3>3. \A q \in Requests : Sent(q)' <=> Sent(q)
      BY <3>1 DEF Sent
    <3>4. \A q \in Requests : Queued(q)' <=> Queued(q) \/ q = r
      BY <3>2 DEF Queued
    <3>5. \A i, j \in 1 .. Len(queue') : i # j => queue'[i] # queue'[j]
      BY <1>0, <2>1, <3>2 DEF NoCopies, Queued
    <3>6. NoCopies'
      BY <1>0, <2>1, <3>3, <3>4, <3>5 DEF NoCopies
    <3>7. Accounted'
      BY <1>0, <2>1, <3>3, <3>4 DEF Accounted, TypeOK
    <3> QED
      BY <3>6, <3>7
  <2>3. CASE ~processing
    <3>1. queue = <<>> /\ \A w \in Requests : loop[w] = NotLooping
      BY <1>0, <2>3 DEF OneLoop, Active
    <3>2. queue' = <<>> /\ loop' = [loop EXCEPT ![r] = r]
      BY <1>1, <2>3, <3>1, PushShift DEF Add
    <3>3. \A q \in Requests : ~Queued(q) /\ ~Queued(q)' /\ ~Sent(q)
      BY <3>1, <3>2 DEF Queued, Sent
    <3>4. \A q \in Requests : Sent(q)' <=> q = r
      BY <1>0, <3>1, <3>2 DEF Sent, TypeOK
    <3>5. NoCopies'
      BY <3>2, <3>3 DEF NoCopies
    <3>6. Accounted'
      BY <1>0, <2>1, <3>3, <3>4 DEF Accounted, TypeOK
    <3> QED
      BY <3>5, <3>6
  <2> QED
    BY <2>2, <2>3
<1>2. ASSUME NEW w \in Requests, NEW result \in Results, Settle(w, result)
      PROVE  NoCopies' /\ Accounted'
  <2>1. /\ loop[w] \in Requests
        /\ outcome' = [outcome EXCEPT ![loop[w]] = result]
        /\ loop' = [loop EXCEPT ![w] = Pausing] /\ queue' = queue
    BY <1>2 DEF Settle
  <2>2. \A v \in Requests \ {w} : loop[v] = NotLooping
    BY <1>0, <2>1 DEF OneLoop, Active
  <2>3. \A q \in Requests : ~Sent(q)' /\ (Sent(q) <=> q = loop[w])
    BY <1>0, <2>1, <2>2 DEF Sent, TypeOK
  <2>4. \A q \in Requests : Queued(q)' <=> Queued(q)
    BY <2>1 DEF Queued
  <2>5. NoCopies'
    BY <1>0, <2>1, <2>3 DEF NoCopies
  <2>6. ~Queued(loop[w]) /\ result # "waiting"
    BY <1>0, <2>1, <2>3 DEF NoCopies, Results
  <2>7. Accounted'
    BY <1>0, <2>1, <2>3, <2>4, <2>6 DEF Accounted, TypeOK
  <2> QED
    BY <2>5, <2>7
<1>3. ASSUME NEW w \in Requests, Resume(w)
      PROVE  NoCopies' /\ Accounted'
  <2>1. loop[w] = Pausing /\ outcome' = outcome
    BY <1>3 DEF Resume
  <2>2. \A v \in Requests \ {w} : loop[v] = NotLooping
    BY <1>0, <2>1 DEF OneLoop, Active
  <2>3. \A q \in Requests : ~Sent(q)
    BY <2>1, <2>2 DEF Sent
  <2>4. CASE queue # <<>>
    <3>1. loop' = [loop EXCEPT ![w] = queue[1]] /\ queue' = Tail(queue)
      BY <1>0, <1>3, <2>4, ShiftedStands DEF Resume, TypeOK
    <3>2. /\ Len(queue) \in Nat \ {0} /\ Len(queue') = Len(queue) - 1
          /\ \A i \in 1 .. Len(queue) - 1 : queue'[i] = queue[i + 1]
      BY <1>0, <2>4, <3>1, ShiftedStands DEF TypeOK
    <3>3. \A q \in Requests : Sent(q)' <=> q = queue[1]
      BY <1>0, <2>2, <3>1 DEF Sent, TypeOK
    <3>4. \A q \in Requests : Queued(q)' => Queued(q) /\ q # queue[1]
      BY <1>0, <3>2 DEF NoCopies, Queued
    <3>5. \A q \in Requests : Queued(q) => Queued(q)' \/ q = queue[1]
      <4> SUFFICES ASSUME NEW q \in Requests, NEW i \in 1 .. Len(queue),
                          queue[i] = q, i # 1
                   PROVE  Queued(q)'
        BY DEF Queued
      <4>1. i - 1 \in 1 .. Len(queue') /\ queue'[i - 1] = q
        BY <3>2
      <4> QED
        BY <4>1 DEF Queued
    <3>6. Queued(queue[1])
      BY <3>2 DEF Queued
    <3>7. \A i, j \in 1 .. Len(queue') : i # j => queue'[i] # queue'[j]
      BY <1>0, <3>2 DEF NoCopies
    <3>8. NoCopies'
      BY <3>3, <3>4, <3>7 DEF NoCopies
    <3>9. Accounted'
      BY <1>0, <2>1, <2>3, <3>3, <3>4, <3>5, <3>6 DEF Accounted
    <3> QED
      BY <3>8, <3>9
  <2>5. CASE queue = <<>>
    <3>1. queue' = queue /\ loop' = [loop EXCEPT ![w] = NotLooping]
      BY <1>3, <2>5 DEF Resume
    <3>2. \A q \in Requests : ~Sent(q)' /\ (Queued(q)' <=> Queued(q))
      BY <1>0, <2>2, <3>1 DEF Sent, Queued, TypeOK
    <3>3. NoCopies'
      BY <1>0, <3>1, <3>2 DEF NoCopies
    <3>4. Accounted'
      BY <1>0, <2>1, <2>3, <3>2 DEF Accounted
    <3> QED
      BY <3>3, <3>4
  <2> QED
    BY <2>4, <2>5
<1>4. CASE UNCHANGED vars
  BY <1>0, <1>4 DEF vars, NoCopies, Accounted, Queued, Sent
<1> QED
  BY <1>1, <1>2, <1>3, <1>4 DEF Next

\* The requests queued or in flight are those of the callers that still wait: an
\* add is never forgotten, and none is carried out again (add, processQueue).
THEOREM NoRequestLost == Spec => []NoneLostOrRepeated
<1>1. Init => CountInv
  BY InitQueueInv, MarkersAssumption
     DEF Init, CountInv, NoCopies, Accounted, Queued, Sent
<1>2. CountInv => NoneLostOrRepeated /\ QueueInv
  BY AccountedIsNoneLost DEF CountInv, QueueInv
<1> QED
  BY <1>1, <1>2, NextQueueInv, NextCountInv, PTL DEF Spec
=============================================================================
