---------------------------- MODULE RequestQueue ----------------------------
(***************************************************************************)
(* The request queue every call to Twitter goes through                    *)
(* (client-twitter/src/base.ts, class RequestQueue).  add pushes a request *)
(* and calls processQueue without awaiting it, so each add may start a     *)
(* loop of its own; the processing flag is what keeps a second loop from   *)
(* running.  A pushed request catches its own errors and hands them to the *)
(* caller of add: the catch of processQueue (put back at the head, back    *)
(* off) is never reached, and has no action here.                          *)
(***************************************************************************)
EXTENDS Sequences, FiniteSets

CONSTANTS Requests,      \* the calls of add, each with its request
          NotLooping,    \* the processQueue an add called has returned
          Pausing        \* it awaits randomDelay

ASSUME MarkersAssumption ==
    {NotLooping, Pausing} \intersect Requests = {} /\ NotLooping # Pausing

VARIABLES queue,         \* this.queue
          processing,    \* this.processing
          loop,          \* the processQueue that each add called: returned,
                         \* pausing, or the request it awaits
          outcome        \* what the promise returned by each add has become

vars == <<queue, processing, loop, outcome>>

TypeOK ==
    /\ queue \in Seq(Requests)
    /\ processing \in BOOLEAN
    /\ loop \in [Requests -> Requests \union {NotLooping, Pausing}]
    /\ outcome \in [Requests -> {"new", "waiting", "resolved", "rejected"}]

Init ==
    /\ queue = <<>>
    /\ processing = FALSE
    /\ loop = [r \in Requests |-> NotLooping]
    /\ outcome = [r \in Requests |-> "new"]

-----------------------------------------------------------------------------

\* Faulty: processQueue does not look at the processing flag.
AddUnguarded(r) ==
    /\ outcome[r] = "new"
    /\ outcome' = [outcome EXCEPT ![r] = "waiting"]
    /\ processing' = TRUE
    /\ loop' = [loop EXCEPT ![r] = Head(Append(queue, r))]
    /\ queue' = Tail(Append(queue, r))

\* add: push, then processQueue, which returns if a loop is running already
\* and otherwise starts the first request before add returns.
Add(r) ==
    /\ outcome[r] = "new"
    /\ outcome' = [outcome EXCEPT ![r] = "waiting"]
    /\ \/ /\ processing
          /\ queue' = Append(queue, r)
          /\ UNCHANGED <<processing, loop>>
       \/ /\ ~processing
          /\ processing' = TRUE
          /\ loop' = [loop EXCEPT ![r] = Head(Append(queue, r))]
          /\ queue' = Tail(Append(queue, r))

\* Faulty: the pushed request rethrows, so that processQueue puts it back.
SettleAndRetry(w, result) ==
    /\ loop[w] \in Requests
    /\ outcome' = [outcome EXCEPT ![loop[w]] = result]
    /\ queue' = IF result = "rejected" THEN <<loop[w]>> \o queue ELSE queue
    /\ loop' = [loop EXCEPT ![w] = Pausing]
    /\ UNCHANGED processing

\* Faulty: an error leaves the loop, the flag stays up.
SettleOrDie(w, result) ==
    /\ loop[w] \in Requests
    /\ outcome' = [outcome EXCEPT ![loop[w]] = result]
    /\ loop' = [loop EXCEPT ![w] = IF result = "rejected" THEN NotLooping
                                   ELSE Pausing]
    /\ UNCHANGED <<queue, processing>>

\* The request that loop w awaits settles, and so does the promise of its add.
Settle(w, result) ==
    /\ loop[w] \in Requests
    /\ outcome' = [outcome EXCEPT ![loop[w]] = result]
    /\ loop' = [loop EXCEPT ![w] = Pausing]
    /\ UNCHANGED <<queue, processing>>

\* Faulty: shift() without looking at the length of the queue.
ShiftUnchecked(w) ==
    /\ loop[w] = Pausing
    /\ loop' = [loop EXCEPT ![w] = IF queue = <<>> THEN "undefined"
                                   ELSE Head(queue)]
    /\ queue' = IF queue = <<>> THEN queue ELSE Tail(queue)
    /\ UNCHANGED <<processing, outcome>>

\* randomDelay is over: the next request, or the loop ends.
Resume(w) ==
    /\ loop[w] = Pausing
    /\ \/ /\ queue # <<>>
          /\ loop' = [loop EXCEPT ![w] = Head(queue)]
          /\ queue' = Tail(queue)
          /\ UNCHANGED processing
       \/ /\ queue = <<>>
          /\ loop' = [loop EXCEPT ![w] = NotLooping]
          /\ processing' = FALSE
          /\ UNCHANGED queue
    /\ UNCHANGED outcome

Results == {"resolved", "rejected"}

Next ==
    \E r \in Requests :
        \/ Add(r)
        \/ \E result \in Results : Settle(r, result)
        \/ Resume(r)

Spec == Init /\ [][Next]_vars

\* A request that was sent settles (the HTTP client answers or errors) and
\* timers fire. Nothing obliges anyone to make a request.
Fairness ==
    \A w \in Requests :
        /\ WF_vars(\E result \in Results : Settle(w, result))
        /\ WF_vars(Resume(w))

FairSpec == Spec /\ Fairness

-----------------------------------------------------------------------------
(* Properties *)

Active(w) == loop[w] # NotLooping

\* The flag is up exactly while one loop is active, and only then may requests
\* be waiting: two requests are never in flight or less than a pause apart,
\* and none is left behind in the queue (processQueue, processing).
OneLoop ==
    /\ processing => \E w \in Requests :
                        Active(w) /\ \A v \in Requests \ {w} : ~Active(v)
    /\ ~processing => queue = <<>> /\ \A w \in Requests : ~Active(w)

\* The requests in flight and in the queue are exactly those whose caller still
\* waits: none is forgotten, none is carried out again (add, processQueue).
NoneLostOrRepeated ==
    {r \in Requests : outcome[r] = "waiting"} =
        {queue[i] : i \in DOMAIN queue} \union
        {loop[w] : w \in {v \in Requests : loop[v] \in Requests}}

\* The request in flight, if any, followed by those in the queue.
InFlight == {w \in Requests : loop[w] \in Requests}
Line ==
    IF InFlight = {} THEN queue
    ELSE <<loop[CHOOSE w \in InFlight : TRUE]>> \o queue

Server == INSTANCE SerialServer WITH line <- Line

\* The queue is a first-come first-served server: requests settle in the order
\* of the calls of add, one at a time, each once, and all of them settle.
ServesInOrder == Server!FairSpec

=============================================================================
