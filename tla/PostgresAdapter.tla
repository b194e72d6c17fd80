-------------------------- MODULE PostgresAdapter --------------------------
(***************************************************************************)
(* The calls of the PostgreSQL adapter (adapter-postgres/src/index.ts):    *)
(* every method runs inside withDatabase, that is, a retry loop inside one *)
(* execute of the shared circuit breaker.  Some methods call others inside *)
(* their own body, so a single call may hold two breaker frames at once,   *)
(* the inner one executed anew in each attempt of the outer one.           *)
(*                                                                         *)
(* The methods differ, for the breaker, in what one attempt does:          *)
(*   query            one pool query; an error is thrown (most methods)    *)
(*   createAccount    one pool query; an error is caught, false is returned*)
(*   getCache         an inner `query`, its error caught                   *)
(*   createMemory     an inner `query` (the similarity search), then an    *)
(*                    INSERT under the id the memory brings                *)
(***************************************************************************)
EXTENDS CircuitBreaker

CONSTANTS Tasks,       \* concurrent callers of the adapter
          Observed,    \* those whose history is kept
          MaxRetries   \* attempts made by withRetry

ASSUME RetryAssumption ==
    MaxRetries \in Nat \ {0} /\ Observed \subseteq Tasks

VARIABLES method,      \* the method each task called last
          at,          \* where in that method it is
          tries,       \* the attempt each of its two retry loops is in
          stored,      \* whether this call's memory is in the table
          queries,     \* history: pool queries this call has issued
          counted,     \* history: failures the breaker counted in this call
          served       \* history: was a query served since it half-opened?

vars == <<breaker, method, at, tries, stored, queries, counted, served>>

Nesting == {"createMemory", "getCache"}
Methods == Nesting \union {"query", "createAccount"}

\* rest: no call in progress, the last one threw; resolved: it resolved.
\* attempt: an attempt of the outer loop, or the back-off before it; inner: the
\* same of the inner loop.
\* found, thrown: the inner call settled; insert: the INSERT is in flight.
Idle == {"rest", "resolved"}
Places == Idle \union {"attempt", "inner", "found", "thrown", "insert"}

\* The histories saturate above what the properties allow.
HistoryCap == MaxRetries * (MaxRetries + 1) + 1

TypeOK ==
    /\ BreakerTypeOK
    /\ method \in [Tasks -> Methods]
    /\ at \in [Tasks -> Places]
    /\ tries \in [Tasks -> [outer : 1..MaxRetries, inner : 1..MaxRetries]]
    /\ stored \in [Tasks -> BOOLEAN]
    /\ queries \in [Observed -> 0..HistoryCap]
    /\ counted \in [Observed -> 0..HistoryCap]
    /\ served \in BOOLEAN

Init ==
    /\ BreakerInit
    /\ method = [t \in Tasks |-> "query"]
    /\ at = [t \in Tasks |-> "rest"]
    /\ tries = [t \in Tasks |-> [outer |-> 1, inner |-> 1]]
    /\ stored = [t \in Tasks |-> FALSE]
    /\ queries = [t \in Observed |-> 0]
    /\ counted = [t \in Observed |-> 0]
    /\ served = FALSE

-----------------------------------------------------------------------------
(* One pool query, and where the method goes next *)

OneMore(history, t) ==
    [o \in Observed |-> IF o = t THEN CapAt(history[o] + 1, HistoryCap)
                        ELSE history[o]]

Anew(history, t) ==
    [o \in Observed |-> IF o = t THEN 0 ELSE history[o]]

GoTo(t, place) == at' = [at EXCEPT ![t] = place]

Query(t) == queries' = OneMore(queries, t)

Served(t) == Query(t) /\ served' = TRUE

\* An error is thrown: the database is down or refuses the query, or what it is
\* asked for is invalid, which may be noticed before it is asked.
Unserved(t) == (Query(t) \/ UNCHANGED queries) /\ UNCHANGED served

-----------------------------------------------------------------------------
(* withDatabase: withRetry inside the breaker's execute *)

\* execute lets the operation start; half-opening restarts the history.
Enter == EnterExecute /\ served' = (served /\ state' = state)

\* Faulty: a refused call counts as a failure.
RefusalCounts(t) ==
    /\ at[t] \in Idle
    /\ Refuses
    /\ HandleFailure
    /\ GoTo(t, "rest")
    /\ UNCHANGED <<method, tries, stored, queries, counted, served>>

\* A call the breaker refuses throws at once.
BeginRefused(t) ==
    /\ at[t] \in Idle
    /\ Refuses
    /\ GoTo(t, "rest")
    /\ UNCHANGED <<breaker, method, tries, stored, queries, counted, served>>

\* The first attempt of a nesting method executes the breaker again before it
\* awaits anything: what the outer frame entered admits the inner one.
Begin(t, m) ==
    /\ at[t] \in Idle
    /\ Enter
    /\ GoTo(t, IF m \in Nesting THEN "inner" ELSE "attempt")
    /\ method' = [method EXCEPT ![t] = m]
    /\ stored' = [stored EXCEPT ![t] = FALSE]
    /\ queries' = Anew(queries, t)
    /\ counted' = Anew(counted, t)
    /\ UNCHANGED tries

\* The retry loop returned, the breaker records a success.
LoopReturned(t, loop, next) ==
    /\ AfterSuccess
    /\ tries' = [tries EXCEPT ![t][loop] = 1]
    /\ GoTo(t, next)
    /\ UNCHANGED counted

\* Faulty: each attempt that failed is counted, not only the loop.
EachAttemptCounts(t, loop, again, next) ==
    /\ HandleFailure
    /\ counted' = OneMore(counted, t)
    /\ tries' = [tries EXCEPT ![t][loop] = IF @ < MaxRetries THEN @ + 1 ELSE 1]
    /\ GoTo(t, IF tries[t][loop] < MaxRetries THEN again ELSE next)

\* Faulty: the loop never runs out of attempts.
RetryForever(t, loop, again, next) ==
    /\ tries' = [tries EXCEPT ![t][loop] = IF @ < MaxRetries THEN @ + 1 ELSE 1]
    /\ GoTo(t, again)
    /\ UNCHANGED <<breaker, counted>>

\* An attempt threw: back off and try again; the last attempt throws to the
\* breaker, which records one failure.
AttemptThrew(t, loop, again, next) ==
    \/ /\ tries[t][loop] < MaxRetries
       /\ tries' = [tries EXCEPT ![t][loop] = @ + 1]
       /\ GoTo(t, again)
       /\ UNCHANGED <<breaker, counted>>
    \/ /\ tries[t][loop] = MaxRetries
       /\ HandleFailure
       /\ counted' = OneMore(counted, t)
       /\ tries' = [tries EXCEPT ![t][loop] = 1]
       /\ GoTo(t, next)

OuterReturned(t) == LoopReturned(t, "outer", "resolved")
OuterThrew(t) == AttemptThrew(t, "outer", "attempt", "rest")

-----------------------------------------------------------------------------
(* One attempt of each kind of method *)

\* query and the methods like it: one pool query.
PlainQuery(t) ==
    /\ at[t] = "attempt" /\ method[t] = "query"
    /\ \/ Served(t) /\ OuterReturned(t)
       \/ Unserved(t) /\ OuterThrew(t)
    /\ UNCHANGED <<method, stored>>

\* createAccount returns false instead of throwing.
CreateAccount(t) ==
    /\ at[t] = "attempt" /\ method[t] = "createAccount"
    /\ Served(t) \/ Unserved(t)
    /\ OuterReturned(t)
    /\ UNCHANGED <<method, stored>>

\* After the back-off a nesting method executes the breaker anew.
EnterInner(t) ==
    /\ at[t] = "attempt" /\ method[t] \in Nesting
    /\ \/ Enter /\ GoTo(t, "inner")
       \/ Refuses /\ GoTo(t, "thrown") /\ UNCHANGED <<breaker, served>>
    /\ UNCHANGED <<method, tries, stored, queries, counted>>

InnerQuery(t) ==
    /\ at[t] = "inner"
    /\ \/ Served(t) /\ LoopReturned(t, "inner", "found")
       \/ Unserved(t) /\ AttemptThrew(t, "inner", "inner", "thrown")
    /\ UNCHANGED <<method, stored>>

\* getCache catches whatever the inner call threw and returns undefined.
ResumeGetCache(t) ==
    /\ at[t] \in {"found", "thrown"} /\ method[t] = "getCache"
    /\ OuterReturned(t)
    /\ UNCHANGED <<method, stored, queries, served>>

\* createMemory goes on to the INSERT, or its attempt throws.
ResumeCreateMemory(t) ==
    /\ method[t] = "createMemory"
    /\ \/ /\ at[t] = "found"
          /\ GoTo(t, "insert")
          /\ UNCHANGED <<breaker, tries, counted>>
       \/ /\ at[t] = "thrown"
          /\ OuterThrew(t)
    /\ UNCHANGED <<method, stored, queries, served>>

Store(t) == stored' = [stored EXCEPT ![t] = TRUE]

\* Faulty: an INSERT that failed is reported as a success.
InsertSwallowsErrors(t) ==
    /\ at[t] = "insert"
    /\ \/ ~stored[t] /\ Store(t) /\ Served(t)
       \/ Unserved(t) /\ UNCHANGED stored
    /\ OuterReturned(t)
    /\ UNCHANGED method

\* An INSERT whose answer is lost has stored the memory. The attempts after it
\* fail: its id is the primary key.
Insert(t) ==
    /\ at[t] = "insert"
    /\ \/ ~stored[t] /\ Store(t) /\ Served(t) /\ OuterReturned(t)
       \/ ~stored[t] /\ Store(t) /\ Query(t) /\ UNCHANGED served /\ OuterThrew(t)
       \/ Unserved(t) /\ UNCHANGED stored /\ OuterThrew(t)
    /\ UNCHANGED method

-----------------------------------------------------------------------------
(* The environment: the wall clock *)

\* A back-off and a query in flight may outlast the quarantine.
Tick ==
    /\ ClockTick
    /\ UNCHANGED <<method, at, tries, stored, queries, counted, served>>

BeginSome(t) == BeginRefused(t) \/ \E m \in Methods : Begin(t, m)

Proceed(t) ==
    \/ PlainQuery(t)
    \/ CreateAccount(t)
    \/ EnterInner(t)
    \/ InnerQuery(t)
    \/ ResumeGetCache(t)
    \/ ResumeCreateMemory(t)
    \/ Insert(t)

Next ==
    \/ \E t \in Tasks : BeginSome(t) \/ Proceed(t)
    \/ Tick

Spec == Init /\ [][Next]_vars

\* Time passes, a call that was begun goes on (timers fire and the driver
\* answers or times out), and the agent keeps calling the adapter.
Fairness ==
    /\ WF_vars(Tick)
    /\ \A t \in Tasks : WF_vars(Proceed(t)) /\ WF_vars(BeginSome(t))

FairSpec == Spec /\ Fairness

-----------------------------------------------------------------------------
(* Properties *)

\* One logical call may cost the breaker several failures: createMemory counts
\* its inner search once per attempt and then itself, never more; a caught
\* error costs nothing (withDatabase nested in withDatabase).
FailuresPerCall ==
    \A t \in Observed :
        counted[t] <= CASE method[t] = "createMemory"  -> MaxRetries + 1
                        [] method[t] = "createAccount" -> 0
                        [] OTHER                       -> 1

\* The retry loops multiply, and that is all: an attempt of createMemory issues
\* at most MaxRetries searches and one INSERT (withRetry in withRetry).
QueriesPerCall ==
    \A t \in Observed :
        queries[t] <= CASE method[t] = "createMemory"  -> MaxRetries * (MaxRetries + 1)
                        [] method[t] = "createAccount" -> 1
                        [] OTHER                       -> MaxRetries

\* createMemory resolves only if the memory is in the table, whatever became
\* of the attempts before (createMemory, withRetry).
ResolvedMeansStored ==
    \A t \in Tasks :
        method[t] = "createMemory" /\ at[t] = "resolved" => stored[t]

\* Every call settles: both retry loops end, whether the breaker refuses the
\* inner call or the database fails it (withRetry, execute).
CallsSettle == \A t \in Observed : at[t] \notin Idle ~> at[t] \in Idle

\* An attempt throws by itself: not because the breaker refuses its inner call,
\* nor because the memory is there already.
Throws(t) ==
    /\ \/ at[t] = "attempt" /\ method[t] = "query"
       \/ at[t] = "inner"
       \/ at[t] = "insert" /\ ~stored[t]
    /\ at'[t] # at[t] \/ tries'[t] # tries[t]
    /\ at'[t] \notin {"found", "resolved"}

\* Once no attempt throws by itself any more the circuit closes for good. What
\* calls that began before still fail on (an inner call that is refused after a
\* back-off, a memory they stored themselves) and what a refused call does to
\* the circuit may delay that, but not for ever; nor does it matter what
\* createAccount swallows (withDatabase, execute).
Recovers == <>[][\A t \in Tasks : ~Throws(t)]_vars => <>[](state = "CLOSED")


=============================================================================
