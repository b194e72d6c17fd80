------------------------- MODULE PostgresAdapter_proof -------------------------
(* Theorems about the calls of the PostgreSQL adapter, for any number of       *)
(* callers and of attempts, and any circuit breaker.                           *)
EXTENDS PostgresAdapter, TLAPS

-----------------------------------------------------------------------------
(* The invariant *)

BreakerInv ==
    /\ BreakerTypeOK
    /\ CountDecidesState
    /\ state = "HALF_OPEN" => halfOpenSuccesses < HalfOpenMaxAttempts

TriesRecord == [outer : 1 .. MaxRetries, inner : 1 .. MaxRetries]

Shape ==
    /\ method \in [Tasks -> Methods]
    /\ at \in [Tasks -> Places]
    /\ tries \in [Tasks -> TriesRecord]
    /\ stored \in [Tasks -> BOOLEAN]
    /\ queries \in [Observed -> 0 .. HistoryCap]
    /\ counted \in [Observed -> 0 .. HistoryCap]
    /\ served \in BOOLEAN

\* A retry loop that is not running is at its first attempt; createAccount and
\* getCache let no error out, so that their outer loop never has a second one.
PlaceFits(t) ==
    /\ at[t] \in {"inner", "found", "thrown"} => method[t] \in Nesting
    /\ at[t] = "insert" => method[t] = "createMemory"
    /\ at[t] # "inner" => tries[t].inner = 1
    /\ at[t] \in Idle \/ method[t] \in {"createAccount", "getCache"} =>
            tries[t].outer = 1

StoredFits(t) ==
    method[t] = "createMemory" /\ at[t] = "resolved" => stored[t]

Outer(t) == tries[t].outer
Inner(t) == tries[t].inner

(* FailuresPerCall and QueriesPerCall bound what a call has cost when it is    *)
(* over; before that, it has cost what the attempts made so far can cost.      *)
CountFits(t) ==
    /\ method[t] = "createAccount" => counted[t] = 0
    /\ method[t] \in {"query", "getCache"} =>
        /\ counted[t] <= 1
        /\ at[t] \notin Idle \union {"thrown"} => counted[t] = 0
    /\ method[t] = "createMemory" =>
        /\ counted[t] <= MaxRetries + 1
        /\ at[t] \notin Idle => counted[t] <= Outer(t)
        /\ at[t] \notin Idle \union {"thrown"} => counted[t] <= Outer(t) - 1

\* The queries of the attempts of createMemory that are over.
Spent(t) == (Outer(t) - 1) * (MaxRetries + 1)

QueriesFit(t) ==
    /\ method[t] = "createAccount" =>
        queries[t] <= 1 /\ (at[t] \notin Idle => queries[t] = 0)
    /\ method[t] = "query" =>
        queries[t] <= MaxRetries /\ (at[t] \notin Idle => queries[t] <= Outer(t) - 1)
    /\ method[t] = "getCache" =>
        /\ queries[t] <= MaxRetries
        /\ at[t] = "attempt" => queries[t] = 0
        /\ at[t] = "inner" => queries[t] <= Inner(t) - 1
    /\ method[t] = "createMemory" =>
        /\ queries[t] <= MaxRetries * (MaxRetries + 1)
        /\ at[t] = "attempt" => queries[t] <= Spent(t)
        /\ at[t] = "inner" => queries[t] <= Spent(t) + Inner(t) - 1
        /\ at[t] \in {"found", "thrown", "insert"} =>
                queries[t] <= Spent(t) + MaxRetries

TaskFits(t) == PlaceFits(t) /\ StoredFits(t)
HistoryFits(t) == CountFits(t) /\ QueriesFit(t)

CallsInv ==
    /\ Shape
    /\ \A t \in Tasks : TaskFits(t)
    /\ \A t \in Observed : HistoryFits(t)

-----------------------------------------------------------------------------
(* What a step does to one call *)

\* Only the call of t moves.
OnlyTask(t) ==
    /\ \A u \in Tasks \ {t} : /\ at'[u] = at[u] /\ method'[u] = method[u]
                              /\ tries'[u] = tries[u] /\ stored'[u] = stored[u]
    /\ \A u \in Observed \ {t} : /\ queries'[u] = queries[u]
                                 /\ counted'[u] = counted[u]

LEMMA CallsAfter ==
    ASSUME CallsInv, NEW t \in Tasks, OnlyTask(t), Shape', TaskFits(t)',
           t \in Observed => HistoryFits(t)'
    PROVE  CallsInv'
<1>1. \A u \in Tasks \ {t} : TaskFits(u)'
  BY DEF CallsInv, OnlyTask, TaskFits, PlaceFits, StoredFits
<1>2. ASSUME NEW u \in Observed \ {t}
      PROVE  HistoryFits(u)'
  <2>1. /\ u \in Tasks /\ HistoryFits(u)
        /\ at'[u] = at[u] /\ method'[u] = method[u] /\ tries'[u] = tries[u]
        /\ queries'[u] = queries[u] /\ counted'[u] = counted[u]
    BY RetryAssumption DEF CallsInv, OnlyTask
  <2>2. Spent(u)' = Spent(u) /\ Outer(u)' = Outer(u) /\ Inner(u)' = Inner(u)
    BY <2>1 DEF Spent, Outer, Inner
  <2> QED
    BY <2>1, <2>2 DEF HistoryFits, CountFits, QueriesFit
<1> QED
  BY <1>1, <1>2 DEF CallsInv

\* The counters of one retry loop.
LEMMA TriesSet ==
    ASSUME Shape, NEW t \in Tasks, NEW loop \in {"outer", "inner"},
           NEW n \in 1 .. MaxRetries,
           \/ tries' = [tries EXCEPT ![t][loop] = n]
           \/ tries' = [tries EXCEPT ![t][loop] = @ + 1] /\ n = tries[t][loop] + 1
    PROVE  /\ tries' \in [Tasks -> TriesRecord]
           /\ \A u \in Tasks \ {t} : tries'[u] = tries[u]
           /\ Outer(t)' = IF loop = "outer" THEN n ELSE Outer(t)
           /\ Inner(t)' = IF loop = "inner" THEN n ELSE Inner(t)
<1>1. tries' = [tries EXCEPT ![t] = [tries[t] EXCEPT ![loop] = n]]
  BY DEF Shape, TriesRecord
<1>2. CASE loop = "outer"
  BY <1>1, <1>2 DEF Shape, TriesRecord, Outer, Inner
<1>3. CASE loop = "inner"
  BY <1>1, <1>3 DEF Shape, TriesRecord, Outer, Inner
<1> QED
  BY <1>2, <1>3

LEMMA CapNat == HistoryCap \in Nat \ {0}
<1>1. MaxRetries * (MaxRetries + 1) \in Nat
  BY RetryAssumption
<1> QED
  BY <1>1 DEF HistoryCap

LEMMA OneMoreEffect ==
    ASSUME NEW h \in [Observed -> 0 .. HistoryCap], NEW t
    PROVE  /\ OneMore(h, t) \in [Observed -> 0 .. HistoryCap]
           /\ \A u \in Observed \ {t} : OneMore(h, t)[u] = h[u]
           /\ t \in Observed => OneMore(h, t)[t] <= h[t] + 1
BY CapNat DEF OneMore, CapAt

LEMMA AnewEffect ==
    ASSUME NEW h \in [Observed -> 0 .. HistoryCap], NEW t
    PROVE  /\ Anew(h, t) \in [Observed -> 0 .. HistoryCap]
           /\ \A u \in Observed \ {t} : Anew(h, t)[u] = h[u]
           /\ t \in Observed => Anew(h, t)[t] = 0
BY CapNat DEF Anew

\* An attempt of createMemory costs as many queries as its search has attempts,
\* and one more.
LEMMA SpentGrows ==
    ASSUME NEW o \in 1 .. MaxRetries
    PROVE  /\ (o - 1) * (MaxRetries + 1) \in Nat
           /\ ((o + 1) - 1) * (MaxRetries + 1)
                = (o - 1) * (MaxRetries + 1) + MaxRetries + 1
           /\ (o - 1) * (MaxRetries + 1) + MaxRetries + 1
                <= MaxRetries * (MaxRetries + 1)
<1> USE RetryAssumption
<1>1. \A a, b \in Nat : a * b \in Nat /\ (a + 1) * b = a * b + b
  OBVIOUS
<1>2. \A a, b, c \in Nat : a <= b => a * c <= b * c
  OBVIOUS
<1>3. o - 1 \in Nat /\ MaxRetries + 1 \in Nat /\ o \in Nat /\ (o + 1) - 1 = o
      /\ (o - 1) + 1 = o /\ o <= MaxRetries /\ MaxRetries \in Nat
  OBVIOUS
<1>4. o * (MaxRetries + 1) = (o - 1) * (MaxRetries + 1) + MaxRetries + 1
  BY <1>1, <1>3
<1>5. o * (MaxRetries + 1) <= MaxRetries * (MaxRetries + 1)
  BY <1>2, <1>3
<1> QED
  BY <1>1, <1>3, <1>4, <1>5

-----------------------------------------------------------------------------
(* The breaker *)

LEMMA BreakerSteps ==
    ASSUME BreakerInv,
           \/ EnterExecute \/ AfterSuccess \/ HandleFailure \/ ClockTick
           \/ UNCHANGED breaker
    PROVE  BreakerInv'
<1> USE ConfigAssumption DEF BreakerInv, BreakerTypeOK, CountDecidesState, Expired
<1>1. CASE EnterExecute
  BY <1>1 DEF EnterExecute, HalfOpens, breaker
<1>2. CASE AfterSuccess
  <2>1. CASE state = "HALF_OPEN" /\ EnoughProbes
    BY <1>2, <2>1 DEF AfterSuccess, EnoughProbes, Reset
  <2>2. CASE state = "HALF_OPEN" /\ ~EnoughProbes
    BY <1>2, <2>2 DEF AfterSuccess, EnoughProbes
  <2>3. CASE state # "HALF_OPEN"
    BY <1>2, <2>3 DEF AfterSuccess, breaker
  <2> QED
    BY <2>1, <2>2, <2>3
<1>3. CASE HandleFailure
  BY <1>3 DEF HandleFailure, CapAt
<1>4. CASE ClockTick
  BY <1>4 DEF ClockTick
<1>5. CASE UNCHANGED breaker
  BY <1>5 DEF breaker
<1> QED
  BY <1>1, <1>2, <1>3, <1>4, <1>5

\* Whatever a call does, it leaves the breaker to execute, reset and
\* handleFailure.
LEMMA NextOfBreaker ==
    ASSUME [Next]_vars
    PROVE  \/ EnterExecute \/ AfterSuccess \/ HandleFailure \/ ClockTick
           \/ UNCHANGED breaker
<1>1. ASSUME NEW t \in Tasks, BeginSome(t) \/ Proceed(t)
      PROVE  \/ EnterExecute \/ AfterSuccess \/ HandleFailure
             \/ UNCHANGED breaker
  BY <1>1 DEF BeginSome, BeginRefused, Begin, Enter, Proceed, PlainQuery,
              CreateAccount, EnterInner, InnerQuery, ResumeGetCache,
              ResumeCreateMemory, Insert, OuterReturned, OuterThrew,
              LoopReturned, AttemptThrew, breaker
<1>2. CASE Tick
  BY <1>2 DEF Tick
<1>3. CASE UNCHANGED vars
  BY <1>3 DEF vars
<1> QED
  BY <1>1, <1>2, <1>3 DEF Next

LEMMA NextBreaker == BreakerInv /\ [Next]_vars => BreakerInv'
BY NextOfBreaker, BreakerSteps
-----------------------------------------------------------------------------
(* How an attempt ends *)

LEMMA GoToEffect ==
    ASSUME Shape, NEW t \in Tasks, NEW place \in Places, GoTo(t, place)
    PROVE  /\ at' \in [Tasks -> Places] /\ at'[t] = place
           /\ \A u \in Tasks \ {t} : at'[u] = at[u]
BY DEF Shape, GoTo

\* Where the call of t goes, and the attempts its loops are in then.
Goes(t, place, o, i) ==
    /\ at' \in [Tasks -> Places] /\ at'[t] = place
    /\ tries' \in [Tasks -> TriesRecord] /\ Outer(t)' = o /\ Inner(t)' = i
    /\ \A u \in Tasks \ {t} : at'[u] = at[u] /\ tries'[u] = tries[u]

LEMMA LoopCounts ==
    ASSUME Shape, NEW t \in Tasks
    PROVE  /\ Outer(t) \in 1 .. MaxRetries /\ Inner(t) \in 1 .. MaxRetries
           /\ tries[t]["outer"] = Outer(t) /\ tries[t]["inner"] = Inner(t)
           /\ 1 \in 1 .. MaxRetries /\ MaxRetries \in Nat \ {0}
BY RetryAssumption DEF Shape, TriesRecord, Outer, Inner

LEMMA OuterReturnedEffect ==
    ASSUME Shape, NEW t \in Tasks, OuterReturned(t)
    PROVE  Goes(t, "resolved", 1, Inner(t)) /\ counted' = counted
<1>1. "resolved" \in Places
  BY DEF Places, Idle
<1>2. GoTo(t, "resolved") /\ tries' = [tries EXCEPT ![t]["outer"] = 1]
      /\ counted' = counted
  BY DEF OuterReturned, LoopReturned
<1> QED
  BY <1>1, <1>2, GoToEffect, TriesSet, LoopCounts DEF Goes

LEMMA InnerReturnedEffect ==
    ASSUME Shape, NEW t \in Tasks, LoopReturned(t, "inner", "found")
    PROVE  Goes(t, "found", Outer(t), 1) /\ counted' = counted
<1>1. "found" \in Places
  BY DEF Places
<1>2. GoTo(t, "found") /\ tries' = [tries EXCEPT ![t]["inner"] = 1]
      /\ counted' = counted
  BY DEF LoopReturned
<1> QED
  BY <1>1, <1>2, GoToEffect, TriesSet, LoopCounts DEF Goes

\* The breaker counts one more failure of the call.
OneFailure(t) ==
    /\ counted' \in [Observed -> 0 .. HistoryCap]
    /\ \A u \in Observed \ {t} : counted'[u] = counted[u]
    /\ t \in Observed => counted'[t] <= counted[t] + 1

LEMMA OuterThrewEffect ==
    ASSUME Shape, NEW t \in Tasks, OuterThrew(t)
    PROVE  \/ /\ Outer(t) < MaxRetries /\ counted' = counted
              /\ Goes(t, "attempt", Outer(t) + 1, Inner(t))
           \/ Goes(t, "rest", 1, Inner(t)) /\ OneFailure(t)
<1>1. "attempt" \in Places /\ "rest" \in Places
  BY DEF Places, Idle
<1>2. CASE /\ tries[t]["outer"] < MaxRetries /\ counted' = counted
           /\ tries' = [tries EXCEPT ![t]["outer"] = @ + 1]
           /\ GoTo(t, "attempt")
  <2>1. Outer(t) + 1 \in 1 .. MaxRetries /\ Outer(t) < MaxRetries
        /\ tries[t]["outer"] + 1 = Outer(t) + 1
    BY <1>2, LoopCounts
  <2> QED
    BY <1>1, <1>2, <2>1, GoToEffect, TriesSet DEF Goes
<1>3. CASE /\ counted' = OneMore(counted, t) /\ GoTo(t, "rest")
           /\ tries' = [tries EXCEPT ![t]["outer"] = 1]
  <2>1. Goes(t, "rest", 1, Inner(t))
    BY <1>1, <1>3, GoToEffect, TriesSet, LoopCounts DEF Goes
  <2>2. OneFailure(t)
    BY <1>3, OneMoreEffect DEF Shape, OneFailure
  <2> QED
    BY <2>1, <2>2
<1> QED
  BY <1>2, <1>3 DEF OuterThrew, AttemptThrew

LEMMA InnerThrewEffect ==
    ASSUME Shape, NEW t \in Tasks, AttemptThrew(t, "inner", "inner", "thrown")
    PROVE  \/ /\ Inner(t) < MaxRetries /\ counted' = counted
              /\ Goes(t, "inner", Outer(t), Inner(t) + 1)
           \/ Goes(t, "thrown", Outer(t), 1) /\ OneFailure(t)
<1>1. "inner" \in Places /\ "thrown" \in Places
  BY DEF Places
<1>2. CASE /\ tries[t]["inner"] < MaxRetries /\ counted' = counted
           /\ tries' = [tries EXCEPT ![t]["inner"] = @ + 1]
           /\ GoTo(t, "inner")
  <2>1. Inner(t) + 1 \in 1 .. MaxRetries /\ Inner(t) < MaxRetries
        /\ tries[t]["inner"] + 1 = Inner(t) + 1
    BY <1>2, LoopCounts
  <2> QED
    BY <1>1, <1>2, <2>1, GoToEffect, TriesSet DEF Goes
<1>3. CASE /\ counted' = OneMore(counted, t) /\ GoTo(t, "thrown")
           /\ tries' = [tries EXCEPT ![t]["inner"] = 1]
  <2>1. Goes(t, "thrown", Outer(t), 1)
    BY <1>1, <1>3, GoToEffect, TriesSet, LoopCounts DEF Goes
  <2>2. OneFailure(t)
    BY <1>3, OneMoreEffect DEF Shape, OneFailure
  <2> QED
    BY <2>1, <2>2
<1> QED
  BY <1>2, <1>3 DEF AttemptThrew

\* A step that leaves the counters of the loops alone.
LEMMA PlainGo ==
    ASSUME Shape, NEW t \in Tasks, NEW place \in Places, GoTo(t, place),
           tries' = tries
    PROVE  Goes(t, place, Outer(t), Inner(t))
BY GoToEffect DEF Shape, Goes, Outer, Inner

\* At most one more query of the call.
OneQuery(t) ==
    /\ queries' \in [Observed -> 0 .. HistoryCap]
    /\ \A u \in Observed \ {t} : queries'[u] = queries[u]
    /\ t \in Observed => queries'[t] <= queries[t] + 1

LEMMA QueryEffect ==
    ASSUME Shape, NEW t \in Tasks, Query(t) \/ Served(t) \/ Unserved(t)
    PROVE  OneQuery(t)
<1>1. queries' = OneMore(queries, t) \/ queries' = queries
  BY DEF Query, Served, Unserved
<1>2. queries \in [Observed -> 0 .. HistoryCap]
  BY DEF Shape
<1>3. t \in Observed => queries[t] <= queries[t] + 1
  BY <1>2, CapNat
<1> QED
  BY <1>1, <1>2, <1>3, OneMoreEffect DEF OneQuery

-----------------------------------------------------------------------------
(* What is left to show of a step of call t that goes on *)

\* The histories stay or grow by one.
Costs(t) ==
    /\ OneFailure(t) \/ counted' = counted
    /\ OneQuery(t) \/ queries' = queries

LEMMA StepFits ==
    ASSUME CallsInv, NEW t \in Tasks,
           NEW place \in Places, NEW o, NEW i, Goes(t, place, o, i), Costs(t),
           method' = method, served' \in BOOLEAN,
           stored' \in [Tasks -> BOOLEAN],
           \A u \in Tasks \ {t} : stored'[u] = stored[u],
           TaskFits(t)', t \in Observed => HistoryFits(t)'
    PROVE  CallsInv'
<1>1. Shape'
  BY DEF CallsInv, Shape, Goes, Costs, OneFailure, OneQuery
<1>2. OnlyTask(t)
  BY DEF OnlyTask, Goes, Costs, OneFailure, OneQuery
<1> QED
  BY <1>1, <1>2, CallsAfter
LEMMA InitCalls == Init => CallsInv
<1> SUFFICES ASSUME Init
             PROVE  CallsInv
  OBVIOUS
<1>1. Shape
  <2>1. 1 \in 1 .. MaxRetries /\ 0 \in 0 .. MaxRetries /\ 0 \in 0 .. HistoryCap
    BY RetryAssumption, CapNat
  <2>2. "query" \in Methods /\ "rest" \in Places
    BY DEF Methods, Places, Idle
  <2> QED
    BY <2>1, <2>2 DEF Init, Shape, TriesRecord
<1>2. \A t \in Tasks : TaskFits(t)
  BY DEF Init, TaskFits, PlaceFits, StoredFits, Nesting
<1>3. \A t \in Observed : HistoryFits(t)
  <2> SUFFICES ASSUME NEW t \in Observed
               PROVE  HistoryFits(t)
    OBVIOUS
  <2>1. /\ t \in Tasks /\ method[t] = "query" /\ at[t] = "rest"
        /\ queries[t] = 0 /\ counted[t] = 0
    BY RetryAssumption DEF Init
  <2>2. MaxRetries \in Nat
    BY RetryAssumption
  <2> QED
    BY <2>1, <2>2 DEF HistoryFits, CountFits, QueriesFit, Idle
<1> QED
  BY <1>1, <1>2, <1>3 DEF CallsInv

LEMMA NextCalls == CallsInv /\ [Next]_vars => CallsInv'
<1> SUFFICES ASSUME CallsInv, [Next]_vars
             PROVE  CallsInv'
  OBVIOUS
<1>0. /\ Shape /\ (\A t \in Tasks : TaskFits(t))
      /\ (\A t \in Observed : HistoryFits(t))
      /\ Observed \subseteq Tasks /\ MaxRetries \in Nat \ {0}
  BY RetryAssumption DEF CallsInv
<1>a. \A t \in Observed : /\ queries[t] \in Nat /\ counted[t] \in Nat
  BY <1>0, CapNat DEF Shape
<1>1. ASSUME NEW t \in Tasks, BeginRefused(t)
      PROVE  CallsInv'
  <2>1. /\ at[t] \in Idle /\ GoTo(t, "rest") /\ tries' = tries
        /\ UNCHANGED <<method, stored, queries, counted, served>>
    BY <1>1 DEF BeginRefused
  <2>2. "rest" \in Places /\ "rest" \in Idle /\ Idle \subseteq Places
    BY DEF Places, Idle
  <2>3. Goes(t, "rest", Outer(t), Inner(t))
    BY <1>0, <2>1, <2>2, PlainGo
  <2>4. TaskFits(t)'
    BY <1>0, <2>1, <2>2, <2>3
       DEF TaskFits, PlaceFits, StoredFits, Goes, Outer, Inner, Idle
  <2>5. t \in Observed => HistoryFits(t)'
    BY <1>0, <2>1, <2>2, <2>3
       DEF HistoryFits, CountFits, QueriesFit, Goes, Idle
  <2> QED
    BY <1>0, <2>1, <2>2, <2>3, <2>4, <2>5, StepFits DEF Shape, Costs
<1>2. ASSUME NEW t \in Tasks, NEW m \in Methods, Begin(t, m)
      PROVE  CallsInv'
  <2> DEFINE place == IF m \in Nesting THEN "inner" ELSE "attempt"
  <2>1. /\ at[t] \in Idle /\ GoTo(t, place) /\ tries' = tries
        /\ method' = [method EXCEPT ![t] = m]
        /\ stored' = [stored EXCEPT ![t] = FALSE]
        /\ queries' = Anew(queries, t) /\ counted' = Anew(counted, t)
        /\ served' \in BOOLEAN
    BY <1>0, <1>2 DEF Begin, Enter, Shape
  <2>2. Goes(t, place, Outer(t), Inner(t))
    BY <1>0, <2>1, PlainGo DEF Places
  <2>3. /\ method' \in [Tasks -> Methods] /\ method'[t] = m
        /\ stored' \in [Tasks -> BOOLEAN] /\ stored'[t] = FALSE
        /\ \A u \in Tasks \ {t} : method'[u] = method[u] /\ stored'[u] = stored[u]
    BY <1>0, <2>1 DEF Shape
  <2>4. /\ queries' \in [Observed -> 0 .. HistoryCap]
        /\ counted' \in [Observed -> 0 .. HistoryCap]
        /\ \A u \in Observed \ {t} : queries'[u] = queries[u]
                                     /\ counted'[u] = counted[u]
        /\ t \in Observed => queries'[t] = 0 /\ counted'[t] = 0
    <3>1. /\ queries \in [Observed -> 0 .. HistoryCap]
          /\ counted \in [Observed -> 0 .. HistoryCap]
      BY <1>0 DEF Shape
    <3>2. queries' = Anew(queries, t) /\ counted' = Anew(counted, t)
      BY <2>1
    <3> QED
      BY <3>1, <3>2, AnewEffect
  <2>5. Shape' /\ OnlyTask(t)
    BY <1>0, <2>1, <2>2, <2>3, <2>4 DEF Shape, OnlyTask, Goes
  <2>6. Outer(t) = 1 /\ Inner(t) = 1
    BY <1>0, <2>1 DEF TaskFits, PlaceFits, Outer, Inner, Idle
  <2>7. TaskFits(t)'
    BY <2>2, <2>3, <2>6
       DEF TaskFits, PlaceFits, StoredFits, Goes, Outer, Inner, Idle, Nesting
  <2>8. t \in Observed => HistoryFits(t)'
    <3>1. Spent(t)' = 0 /\ Outer(t)' = 1 /\ Inner(t)' = 1
      BY <1>0, <2>2, <2>6, SpentGrows DEF Spent, Goes
    <3>2. MaxRetries * (MaxRetries + 1) \in Nat
      BY <1>0
    <3> QED
      BY <1>0, <2>2, <2>4, <3>1, <3>2
         DEF HistoryFits, CountFits, QueriesFit, Goes, Idle, Nesting
  <2> QED
    BY <2>5, <2>7, <2>8, CallsAfter
<1>3. ASSUME NEW t \in Tasks, PlainQuery(t)
      PROVE  CallsInv'
  <2>1. /\ at[t] = "attempt" /\ method[t] = "query"
        /\ UNCHANGED <<method, stored>>
        /\ OneQuery(t) /\ served' \in BOOLEAN
        /\ OuterReturned(t) \/ OuterThrew(t)
    <3>1. Served(t) \/ Unserved(t)
      BY <1>3 DEF PlainQuery
    <3>2. served' \in BOOLEAN
      BY <1>0, <3>1 DEF Served, Unserved, Shape
    <3> QED
      BY <1>0, <1>3, <3>1, <3>2, QueryEffect DEF PlainQuery
  <2>2. Inner(t) = 1 /\ Outer(t) \in 1 .. MaxRetries
    BY <1>0, <2>1, LoopCounts DEF TaskFits, PlaceFits, StoredFits, Inner
  <2>3. t \in Observed => counted[t] = 0 /\ queries[t] <= Outer(t) - 1
                          /\ queries[t] \in Nat
    BY <1>0, <1>a, <2>1 DEF HistoryFits, CountFits, QueriesFit, Idle
  <2>4. CASE Goes(t, "resolved", 1, Inner(t)) /\ counted' = counted
    <3>1. TaskFits(t)'
      BY <2>1, <2>2, <2>4
         DEF TaskFits, PlaceFits, StoredFits, Goes, Outer, Inner, Idle
    <3>2. t \in Observed => HistoryFits(t)'
      BY <1>0, <2>1, <2>2, <2>3, <2>4
         DEF HistoryFits, CountFits, QueriesFit, Goes, Idle, OneQuery
    <3>3. "resolved" \in Places
      BY DEF Places, Idle
    <3> QED
      BY <1>0, <2>1, <2>4, <3>1, <3>2, <3>3, StepFits DEF Shape, Costs
  <2>5. CASE /\ Outer(t) < MaxRetries /\ counted' = counted
             /\ Goes(t, "attempt", Outer(t) + 1, Inner(t))
    <3>1. TaskFits(t)'
      BY <2>1, <2>2, <2>5
         DEF TaskFits, PlaceFits, StoredFits, Goes, Outer, Inner, Idle
    <3>2. t \in Observed => HistoryFits(t)'
      BY <1>0, <2>1, <2>2, <2>3, <2>5
         DEF HistoryFits, CountFits, QueriesFit, Goes, Idle, OneQuery
    <3>3. "attempt" \in Places
      BY DEF Places, Idle
    <3> QED
      BY <1>0, <2>1, <2>5, <3>1, <3>2, <3>3, StepFits DEF Shape, Costs
  <2>6. CASE Goes(t, "rest", 1, Inner(t)) /\ OneFailure(t)
    <3>1. TaskFits(t)'
      BY <2>1, <2>2, <2>6
         DEF TaskFits, PlaceFits, StoredFits, Goes, Outer, Inner, Idle
    <3>2. t \in Observed => HistoryFits(t)'
      BY <1>0, <2>1, <2>2, <2>3, <2>6
         DEF HistoryFits, CountFits, QueriesFit, Goes, Idle, OneQuery,
             OneFailure
    <3>3. "rest" \in Places
      BY DEF Places, Idle
    <3> QED
      BY <1>0, <2>1, <2>6, <3>1, <3>2, <3>3, StepFits DEF Shape, Costs
  <2> QED
    BY <1>0, <2>1, <2>4, <2>5, <2>6, OuterReturnedEffect, OuterThrewEffect
<1>4. ASSUME NEW t \in Tasks, CreateAccount(t)
      PROVE  CallsInv'
  <2>1. /\ at[t] = "attempt" /\ method[t] = "createAccount"
        /\ UNCHANGED <<method, stored>>
        /\ OneQuery(t) /\ served' \in BOOLEAN
        /\ Goes(t, "resolved", 1, Inner(t)) /\ counted' = counted
    <3>1. Served(t) \/ Unserved(t)
      BY <1>4 DEF CreateAccount
    <3>2. served' \in BOOLEAN
      BY <1>0, <3>1 DEF Served, Unserved, Shape
    <3> QED
      BY <1>0, <1>4, <3>1, <3>2, QueryEffect, OuterReturnedEffect
         DEF CreateAccount
  <2>2. Inner(t) = 1
    BY <1>0, <2>1 DEF TaskFits, PlaceFits, StoredFits, Inner
  <2>3. t \in Observed => counted[t] = 0 /\ queries[t] = 0
    BY <1>0, <2>1 DEF HistoryFits, CountFits, QueriesFit, Idle
  <2>4. TaskFits(t)'
    BY <2>1, <2>2
       DEF TaskFits, PlaceFits, StoredFits, Goes, Outer, Inner, Idle
  <2>5. t \in Observed => HistoryFits(t)'
    BY <1>0, <2>1, <2>3
       DEF HistoryFits, CountFits, QueriesFit, Goes, Idle, OneQuery
  <2>6. "resolved" \in Places
    BY DEF Places, Idle
  <2> QED
    BY <1>0, <2>1, <2>4, <2>5, <2>6, StepFits DEF Shape, Costs
<1>5. ASSUME NEW t \in Tasks, EnterInner(t)
      PROVE  CallsInv'
  <2>1. /\ at[t] = "attempt" /\ method[t] \in Nesting /\ tries' = tries
        /\ UNCHANGED <<method, stored, queries, counted>>
        /\ served' \in BOOLEAN
        /\ GoTo(t, "inner") \/ GoTo(t, "thrown")
    BY <1>0, <1>5 DEF EnterInner, Enter, Shape
  <2>2. PICK place \in {"inner", "thrown"} :
            Goes(t, place, Outer(t), Inner(t)) /\ place \in Places
    BY <1>0, <2>1, PlainGo DEF Places
  <2>3. /\ Inner(t) = 1 /\ Outer(t) \in 1 .. MaxRetries
        /\ method[t] = "getCache" => Outer(t) = 1
    BY <1>0, <2>1, LoopCounts DEF TaskFits, PlaceFits, StoredFits, Inner, Outer
  <2>4. TaskFits(t)'
    BY <2>1, <2>2, <2>3
       DEF TaskFits, PlaceFits, StoredFits, Goes, Outer, Inner, Idle, Nesting
  <2>5. t \in Observed => HistoryFits(t)'
    <3> SUFFICES ASSUME t \in Observed
                 PROVE  HistoryFits(t)'
      OBVIOUS
    <3>1. Spent(t)' = Spent(t) /\ Outer(t)' = Outer(t) /\ Inner(t)' = 1
          /\ Spent(t) \in Nat
      BY <2>2, <2>3, SpentGrows DEF Goes, Spent
    <3>2. CountFits(t)'
      BY <1>0, <1>a, <2>1, <2>2, <2>3, <3>1
         DEF HistoryFits, CountFits, Goes, Idle, Nesting
    <3>3. QueriesFit(t)'
      BY <1>0, <1>a, <2>1, <2>2, <2>3, <3>1
         DEF HistoryFits, QueriesFit, Goes, Idle, Nesting
    <3> QED
      BY <3>2, <3>3 DEF HistoryFits
  <2> QED
    BY <1>0, <2>1, <2>2, <2>4, <2>5, StepFits DEF Shape, Costs
<1>6. ASSUME NEW t \in Tasks, InnerQuery(t)
      PROVE  CallsInv'
  <2>1. /\ at[t] = "inner" /\ UNCHANGED <<method, stored>>
        /\ OneQuery(t) /\ served' \in BOOLEAN
        /\ \/ LoopReturned(t, "inner", "found")
           \/ AttemptThrew(t, "inner", "inner", "thrown")
    <3>1. Served(t) \/ Unserved(t)
      BY <1>6 DEF InnerQuery
    <3>2. served' \in BOOLEAN
      BY <1>0, <3>1 DEF Served, Unserved, Shape
    <3> QED
      BY <1>0, <1>6, <3>1, <3>2, QueryEffect DEF InnerQuery
  <2>2. /\ method[t] \in Nesting
        /\ Outer(t) \in 1 .. MaxRetries /\ Inner(t) \in 1 .. MaxRetries
        /\ method[t] = "getCache" => Outer(t) = 1
        /\ Spent(t) \in Nat
        /\ Spent(t) + MaxRetries <= MaxRetries * (MaxRetries + 1)
    <3>1. Outer(t) \in 1 .. MaxRetries /\ Inner(t) \in 1 .. MaxRetries
      BY <1>0, LoopCounts
    <3>2. Spent(t) \in Nat
          /\ Spent(t) + MaxRetries + 1 <= MaxRetries * (MaxRetries + 1)
      BY <3>1, SpentGrows DEF Spent
    <3>3. Spent(t) + MaxRetries <= MaxRetries * (MaxRetries + 1)
      BY <1>0, <3>2
    <3> QED
      BY <1>0, <2>1, <3>1, <3>2, <3>3 DEF TaskFits, PlaceFits, StoredFits, Outer
  <2>3. PICK place \in {"found", "inner", "thrown"}, i \in 1 .. MaxRetries :
            /\ Goes(t, place, Outer(t), i) /\ place \in Places
            /\ place = "inner" => i = Inner(t) + 1
            /\ place # "inner" => i = 1
            /\ counted' = counted \/ (place = "thrown" /\ OneFailure(t))
    <3>1. {"found", "inner", "thrown"} \subseteq Places /\ 1 \in 1 .. MaxRetries
      BY <1>0 DEF Places
    <3>2. Inner(t) < MaxRetries => Inner(t) + 1 \in 1 .. MaxRetries
      BY <1>0, <2>2
    <3>3. CASE LoopReturned(t, "inner", "found")
      <4>1. Goes(t, "found", Outer(t), 1) /\ counted' = counted
        BY <1>0, <3>3, InnerReturnedEffect
      <4> 1 \in 1 .. MaxRetries
        BY <3>1
      <4> WITNESS "found" \in {"found", "inner", "thrown"}, 1 \in 1 .. MaxRetries
      <4> QED
        BY <3>1, <4>1
    <3>4. CASE AttemptThrew(t, "inner", "inner", "thrown")
      <4>1. CASE /\ Inner(t) < MaxRetries /\ counted' = counted
                 /\ Goes(t, "inner", Outer(t), Inner(t) + 1)
        <5> Inner(t) + 1 \in 1 .. MaxRetries
          BY <3>2, <4>1
        <5> WITNESS "inner" \in {"found", "inner", "thrown"},
                    Inner(t) + 1 \in 1 .. MaxRetries
        <5> QED
          BY <3>1, <4>1
      <4>2. CASE Goes(t, "thrown", Outer(t), 1) /\ OneFailure(t)
        BY <3>1, <4>2
      <4> QED
        BY <1>0, <3>4, <4>1, <4>2, InnerThrewEffect
    <3> QED
      BY <2>1, <3>3, <3>4
  <2>4. TaskFits(t)'
    BY <2>1, <2>2, <2>3
       DEF TaskFits, PlaceFits, StoredFits, Goes, Outer, Inner, Idle, Nesting
  <2>5. t \in Observed => HistoryFits(t)'
    <3> SUFFICES ASSUME t \in Observed
                 PROVE  HistoryFits(t)'
      OBVIOUS
    <3>1. Spent(t)' = Spent(t) /\ Outer(t)' = Outer(t) /\ Inner(t)' = i
      BY <2>3 DEF Goes, Spent
    <3>2. /\ at'[t] = place /\ method'[t] = method[t]
          /\ queries[t] \in Nat /\ counted[t] \in Nat
          /\ queries'[t] \in Nat /\ queries'[t] <= queries[t] + 1
          /\ counted'[t] \in Nat
          /\ \/ counted'[t] = counted[t]
             \/ place = "thrown" /\ counted'[t] <= counted[t] + 1
      BY <1>0, <1>a, <2>1, <2>3, CapNat DEF Goes, OneQuery, OneFailure
    <3>3. CountFits(t)'
      BY <1>0, <2>1, <2>2, <2>3, <3>1, <3>2
         DEF HistoryFits, CountFits, Idle, Nesting
    <3>4. CASE method[t] = "getCache"
      <4>1. queries[t] <= Inner(t) - 1
        BY <1>0, <2>1, <3>4 DEF HistoryFits, QueriesFit
      <4>2. Inner(t) \in 1 .. MaxRetries
        BY <2>2
      <4>3. queries'[t] <= Inner(t) /\ queries'[t] <= MaxRetries
        BY <1>0, <3>2, <4>1, <4>2
      <4>4. place = "inner" => queries'[t] <= i - 1
        BY <2>3, <4>2, <4>3
      <4>5. QueriesFit(t)'
        BY <2>3, <3>1, <3>2, <3>4, <4>3, <4>4 DEF QueriesFit
      <4> QED
        BY <3>3, <4>5 DEF HistoryFits
    <3>5. CASE method[t] = "createMemory"
      <4>1. queries[t] <= Spent(t) + Inner(t) - 1
        BY <1>0, <2>1, <3>5 DEF HistoryFits, QueriesFit
      <4>2. /\ queries'[t] <= Spent(t) + Inner(t)
            /\ queries'[t] <= Spent(t) + MaxRetries
        BY <1>0, <2>2, <3>2, <4>1
      <4>3. queries'[t] <= MaxRetries * (MaxRetries + 1)
        BY <1>0, <2>2, <3>2, <4>2
      <4>4. place = "inner" => queries'[t] <= Spent(t) + i - 1
        BY <2>2, <2>3, <4>2
      <4>5. QueriesFit(t)'
        BY <2>3, <3>1, <3>2, <3>5, <4>2, <4>3, <4>4 DEF QueriesFit
      <4> QED
        BY <3>3, <4>5 DEF HistoryFits
    <3> QED
      BY <2>2, <3>4, <3>5 DEF Nesting
  <2> QED
    BY <1>0, <2>1, <2>3, <2>4, <2>5, StepFits DEF Shape, Costs
<1>7. ASSUME NEW t \in Tasks, ResumeGetCache(t)
      PROVE  CallsInv'
  <2>1. /\ at[t] \in {"found", "thrown"} /\ method[t] = "getCache"
        /\ UNCHANGED <<method, stored, queries, served>>
        /\ Goes(t, "resolved", 1, Inner(t)) /\ counted' = counted
    BY <1>0, <1>7, OuterReturnedEffect DEF ResumeGetCache
  <2>2. Inner(t) = 1
    BY <1>0, <2>1 DEF TaskFits, PlaceFits, StoredFits, Inner
  <2>3. TaskFits(t)'
    BY <2>1, <2>2
       DEF TaskFits, PlaceFits, StoredFits, Goes, Outer, Inner, Idle
  <2>4. t \in Observed => HistoryFits(t)'
    BY <1>0, <2>1 DEF HistoryFits, CountFits, QueriesFit, Goes, Idle
  <2>5. "resolved" \in Places
    BY DEF Places, Idle
  <2> QED
    BY <1>0, <2>1, <2>3, <2>4, <2>5, StepFits DEF Shape, Costs
<1>8. ASSUME NEW t \in Tasks, method[t] = "createMemory",
             at[t] = "found", GoTo(t, "insert"),
             UNCHANGED <<method, tries, stored, queries, counted, served>>
      PROVE  CallsInv'
  <2>1. Goes(t, "insert", Outer(t), Inner(t))
    BY <1>0, <1>8, PlainGo DEF Places
  <2>2. Inner(t) = 1
    BY <1>0, <1>8 DEF TaskFits, PlaceFits, StoredFits, Inner
  <2>3. TaskFits(t)'
    BY <1>8, <2>1, <2>2
       DEF TaskFits, PlaceFits, StoredFits, Goes, Outer, Inner, Idle
  <2>4. t \in Observed => HistoryFits(t)'
    <3>1. Spent(t)' = Spent(t)
      BY <2>1 DEF Goes, Spent
    <3> QED
      BY <1>0, <1>8, <2>1, <3>1 DEF HistoryFits, CountFits, QueriesFit, Goes, Idle
  <2>5. "insert" \in Places
    BY DEF Places
  <2> QED
    BY <1>0, <1>8, <2>1, <2>3, <2>4, <2>5, StepFits DEF Shape, Costs
\* An attempt of createMemory that throws, after its search or at the INSERT.
<1>9. ASSUME NEW t \in Tasks, method[t] = "createMemory", OuterThrew(t),
             UNCHANGED method, served' \in BOOLEAN,
             \/ at[t] = "thrown" /\ UNCHANGED queries
             \/ at[t] = "insert" /\ OneQuery(t),
             UNCHANGED stored \/ Store(t)
      PROVE  CallsInv'
  <2>1. Inner(t) = 1 /\ Outer(t) \in 1 .. MaxRetries
    BY <1>0, <1>9, LoopCounts DEF TaskFits, PlaceFits, StoredFits, Inner
  <2>2. /\ stored' \in [Tasks -> BOOLEAN]
        /\ \A u \in Tasks \ {t} : stored'[u] = stored[u]
    BY <1>0, <1>9 DEF Store, Shape
  <2>3. OneQuery(t) \/ queries' = queries
    BY <1>9
  <2>4. t \in Observed =>
            /\ queries[t] \in Nat /\ counted[t] \in Nat
            /\ queries'[t] \in Nat /\ queries'[t] <= Spent(t) + MaxRetries + 1
            /\ counted[t] <= Outer(t)
    <3> SUFFICES ASSUME t \in Observed
                 PROVE  /\ queries'[t] \in Nat
                        /\ queries'[t] <= Spent(t) + MaxRetries + 1
                        /\ counted[t] <= Outer(t)
      BY <1>a
    <3>1. queries[t] <= Spent(t) + MaxRetries /\ counted[t] <= Outer(t)
      BY <1>0, <1>9, <2>1 DEF HistoryFits, CountFits, QueriesFit, Idle
    <3>2. queries'[t] \in Nat /\ queries'[t] <= queries[t] + 1
      BY <1>a, <2>3, CapNat DEF OneQuery
    <3>3. Spent(t) \in Nat
      BY <2>1, SpentGrows DEF Spent
    <3> QED
      BY <1>0, <1>a, <3>1, <3>2, <3>3
  <2>5. CASE /\ Outer(t) < MaxRetries /\ counted' = counted
             /\ Goes(t, "attempt", Outer(t) + 1, Inner(t))
    <3>1. TaskFits(t)'
      BY <1>9, <2>1, <2>2, <2>5
         DEF TaskFits, PlaceFits, StoredFits, Goes, Outer, Inner, Idle
    <3>2. ASSUME t \in Observed
          PROVE  HistoryFits(t)'
      <4>1. Spent(t)' = Spent(t) + MaxRetries + 1 /\ Outer(t)' = Outer(t) + 1
        BY <2>1, <2>5, SpentGrows DEF Goes, Spent
      <4>2. Spent(t) + MaxRetries + 1 <= MaxRetries * (MaxRetries + 1)
            /\ Spent(t) \in Nat /\ MaxRetries * (MaxRetries + 1) \in Nat
        BY <1>0, <2>1, SpentGrows DEF Spent
      <4>3. queries'[t] <= Spent(t)' /\ queries'[t] <= MaxRetries * (MaxRetries + 1)
        BY <1>0, <2>4, <3>2, <4>1, <4>2
      <4>4. /\ at'[t] = "attempt" /\ method'[t] = "createMemory"
            /\ counted'[t] <= Outer(t)' - 1 /\ counted'[t] <= Outer(t)'
            /\ counted'[t] <= MaxRetries + 1
        BY <1>0, <1>9, <2>1, <2>4, <2>5, <3>2, <4>1 DEF Goes
      <4> QED
        BY <4>3, <4>4 DEF HistoryFits, CountFits, QueriesFit, Idle
    <3>3. "attempt" \in Places
      BY DEF Places
    <3> QED
      BY <1>9, <2>2, <2>3, <2>5, <3>1, <3>2, <3>3, StepFits DEF Costs
  <2>6. CASE Goes(t, "rest", 1, Inner(t)) /\ OneFailure(t)
    <3>1. TaskFits(t)'
      BY <1>9, <2>1, <2>2, <2>6
         DEF TaskFits, PlaceFits, StoredFits, Goes, Outer, Inner, Idle
    <3>2. ASSUME t \in Observed
          PROVE  HistoryFits(t)'
      <4>1. Spent(t) + MaxRetries + 1 <= MaxRetries * (MaxRetries + 1)
            /\ Spent(t) \in Nat /\ MaxRetries * (MaxRetries + 1) \in Nat
        BY <1>0, <2>1, SpentGrows DEF Spent
      <4>2. queries'[t] <= MaxRetries * (MaxRetries + 1)
        BY <1>0, <2>4, <3>2, <4>1
      <4>3. counted'[t] \in Nat /\ counted'[t] <= counted[t] + 1
        BY <2>6, <3>2, CapNat DEF OneFailure
      <4>4. /\ at'[t] \in Idle /\ method'[t] = "createMemory"
            /\ counted'[t] <= MaxRetries + 1
        BY <1>0, <1>9, <2>1, <2>4, <2>6, <3>2, <4>3 DEF Goes, Idle
      <4> QED
        BY <4>2, <4>4 DEF HistoryFits, CountFits, QueriesFit, Idle
    <3>3. "rest" \in Places
      BY DEF Places, Idle
    <3> QED
      BY <1>9, <2>2, <2>3, <2>6, <3>1, <3>2, <3>3, StepFits DEF Costs
  <2> QED
    BY <1>0, <1>9, <2>5, <2>6, OuterThrewEffect
<1>10. ASSUME NEW t \in Tasks, Insert(t)
       PROVE  CallsInv'
  <2>1. at[t] = "insert" /\ method[t] = "createMemory"
        /\ UNCHANGED method
    BY <1>0, <1>10 DEF Insert, TaskFits, PlaceFits
  <2>2. OneQuery(t) /\ served' \in BOOLEAN
    <3>1. (Query(t) \/ Unserved(t)) /\ served' \in BOOLEAN
      BY <1>0, <1>10 DEF Insert, Served, Unserved, Shape
    <3> QED
      BY <1>0, <3>1, QueryEffect
  <2>4. CASE OuterThrew(t)
    <3>1. UNCHANGED stored \/ Store(t)
      BY <1>10 DEF Insert
    <3> QED
      BY <1>9, <2>1, <2>2, <2>4, <3>1
  <2>5. CASE Store(t) /\ OuterReturned(t)
    <3>3. /\ stored' \in [Tasks -> BOOLEAN] /\ stored'[t] = TRUE
          /\ \A u \in Tasks \ {t} : stored'[u] = stored[u]
      BY <1>0, <2>5 DEF Store, Shape
    <3>4. Goes(t, "resolved", 1, Inner(t)) /\ counted' = counted
      BY <1>0, <2>5, OuterReturnedEffect
    <3>5. Inner(t) = 1 /\ Outer(t) \in 1 .. MaxRetries
      BY <1>0, <2>1, LoopCounts DEF TaskFits, PlaceFits, Inner
    <3>6. TaskFits(t)'
      BY <2>1, <3>3, <3>4, <3>5
         DEF TaskFits, PlaceFits, StoredFits, Goes, Outer, Inner, Idle
    <3>7. ASSUME t \in Observed
          PROVE  HistoryFits(t)'
      <4>1. queries[t] <= Spent(t) + MaxRetries /\ counted[t] <= MaxRetries + 1
        BY <1>0, <2>1, <3>7 DEF HistoryFits, CountFits, QueriesFit, Idle
      <4>2. queries'[t] \in Nat /\ queries'[t] <= queries[t] + 1
        BY <2>2, <3>7, CapNat DEF OneQuery
      <4>3. Spent(t) + MaxRetries + 1 <= MaxRetries * (MaxRetries + 1)
            /\ Spent(t) \in Nat /\ MaxRetries * (MaxRetries + 1) \in Nat
        BY <1>0, <3>5, SpentGrows DEF Spent
      <4>4. queries'[t] <= MaxRetries * (MaxRetries + 1)
        BY <1>0, <1>a, <3>7, <4>1, <4>2, <4>3
      <4>5. at'[t] \in Idle /\ method'[t] = "createMemory"
            /\ counted'[t] = counted[t]
        BY <2>1, <3>4 DEF Goes, Idle
      <4> QED
        BY <4>1, <4>4, <4>5 DEF HistoryFits, CountFits, QueriesFit, Idle
    <3>8. "resolved" \in Places
      BY DEF Places, Idle
    <3> QED
      BY <2>1, <2>2, <3>3, <3>4, <3>6, <3>7, <3>8, StepFits DEF Costs
  <2> QED
    BY <1>10, <2>4, <2>5 DEF Insert
<1>11. ASSUME NEW t \in Tasks, ResumeCreateMemory(t)
       PROVE  CallsInv'
  <2>1. CASE at[t] = "found" /\ GoTo(t, "insert") /\ UNCHANGED <<tries, counted>>
    BY <1>8, <1>11, <2>1 DEF ResumeCreateMemory
  <2>2. CASE at[t] = "thrown" /\ OuterThrew(t)
    <3>1. served' \in BOOLEAN
      BY <1>0, <1>11 DEF ResumeCreateMemory, Shape
    <3> QED
      BY <1>9, <1>11, <2>2, <3>1 DEF ResumeCreateMemory
  <2> QED
    BY <1>11, <2>1, <2>2 DEF ResumeCreateMemory
<1>12. ASSUME UNCHANGED <<method, at, tries, stored, queries, counted>>,
              served' \in BOOLEAN
       PROVE  CallsInv'
  <2>1. Shape'
    BY <1>0, <1>12 DEF Shape
  <2>2. \A t \in Tasks : TaskFits(t)'
    BY <1>0, <1>12 DEF TaskFits, PlaceFits, StoredFits
  <2>3. \A t \in Observed : HistoryFits(t)'
    BY <1>0, <1>12 DEF HistoryFits, CountFits, QueriesFit, Spent, Outer, Inner
  <2> QED
    BY <2>1, <2>2, <2>3 DEF CallsInv
<1>13. CASE Tick \/ UNCHANGED vars
  BY <1>0, <1>12, <1>13 DEF Tick, vars, Shape
<1> QED
  BY <1>1, <1>2, <1>3, <1>4, <1>5, <1>6, <1>7, <1>10, <1>11, <1>13
     DEF Next, BeginSome, Proceed

-----------------------------------------------------------------------------
(* The theorems *)

LEMMA AdapterInvHolds == Spec => [](BreakerInv /\ CallsInv)
<1>1. Init => BreakerInv
  BY ConfigAssumption
     DEF Init, BreakerInit, BreakerInv, BreakerTypeOK, CountDecidesState, Expired
<1> QED
  BY <1>1, InitCalls, NextBreaker, NextCalls, PTL DEF Spec

\* The breaker's fields, the calls and their histories keep their types.
THEOREM TypeCorrect == Spec => []TypeOK
<1>1. BreakerInv /\ CallsInv => TypeOK
  BY DEF BreakerInv, CallsInv, Shape, TriesRecord, TypeOK
<1> QED
  BY <1>1, AdapterInvHolds, PTL

\* However many attempts the retry loops make, a call costs the breaker at most
\* one failure per attempt of createMemory and one more, and any other call at
\* most one (withDatabase nested in withDatabase).
THEOREM FailuresBounded == Spec => []FailuresPerCall
<1>1. CallsInv => FailuresPerCall
  <2> SUFFICES ASSUME CallsInv, NEW t \in Observed
               PROVE  counted[t] <= CASE method[t] = "createMemory" -> MaxRetries + 1
                                      [] method[t] = "createAccount" -> 0
                                      [] OTHER -> 1
    BY DEF FailuresPerCall
  <2>1. CountFits(t) /\ method[t] \in Methods
    BY RetryAssumption DEF CallsInv, HistoryFits, Shape
  <2>2. counted[t] \in Nat
    BY CapNat DEF CallsInv, Shape
  <2> QED
    BY <2>1, <2>2 DEF CountFits, Methods, Nesting
<1> QED
  BY <1>1, AdapterInvHolds, PTL

\* The nested retry loops multiply and no more: MaxRetries searches and one
\* INSERT in each of the MaxRetries attempts (withRetry in withRetry).
THEOREM QueriesBounded == Spec => []QueriesPerCall
<1>1. CallsInv => QueriesPerCall
  <2> SUFFICES ASSUME CallsInv, NEW t \in Observed
               PROVE  queries[t] <=
                        CASE method[t] = "createMemory" -> MaxRetries * (MaxRetries + 1)
                          [] method[t] = "createAccount" -> 1
                          [] OTHER -> MaxRetries
    BY DEF QueriesPerCall
  <2>1. QueriesFit(t) /\ method[t] \in Methods
    BY RetryAssumption DEF CallsInv, HistoryFits, Shape
  <2> QED
    BY <2>1 DEF QueriesFit, Methods, Nesting
<1> QED
  BY <1>1, AdapterInvHolds, PTL

\* createMemory resolves only when the memory is in the table (createMemory,
\* withRetry).
THEOREM ResolvedIsStored == Spec => []ResolvedMeansStored
<1>1. CallsInv => ResolvedMeansStored
  BY DEF CallsInv, TaskFits, StoredFits, ResolvedMeansStored
<1> QED
  BY <1>1, AdapterInvHolds, PTL

\* The calls share one breaker, nested frames and swallowed errors included, and
\* still its failure count alone tells closed from not closed (withDatabase).
THEOREM CountDecides == Spec => []CountDecidesState
<1>1. BreakerInv => CountDecidesState
  BY DEF BreakerInv
<1> QED
  BY <1>1, AdapterInvHolds, PTL

\* A frame admitted in one state may settle in another, after frames of the same
\* call came and went inside it; the circuit still keeps to its lifecycle
\* (withDatabase nested in withDatabase).
THEOREM LifecycleHolds == Spec => Lifecycle
<1>1. BreakerInv /\ [Next]_vars => [LifecycleStep]_state
  <2> SUFFICES ASSUME BreakerInv, [Next]_vars, state' # state
               PROVE  LifecycleStep
    OBVIOUS
  <2>1. state \in {"CLOSED", "OPEN", "HALF_OPEN"}
    BY DEF BreakerInv, BreakerTypeOK
  <2>2. EnterExecute \/ AfterSuccess \/ HandleFailure
    BY NextOfBreaker DEF ClockTick, breaker
  <2> QED
    BY <2>1, <2>2 DEF EnterExecute, HalfOpens, AfterSuccess, Reset, HandleFailure,
                      LifecycleStep, breaker
<1> QED
  BY <1>1, AdapterInvHolds, PTL DEF Spec, Lifecycle

\* A failure that a call adds to its cost while the circuit is half-open, be it
\* its own or that of a query inside it, reopens the circuit (handleFailure).
CountedFailureReopens ==
    [][\A t \in Observed :
         state = "HALF_OPEN" /\ counted'[t] > counted[t] => state' = "OPEN"]_vars

\* Only handleFailure adds to what a call has cost.
LEMMA CostIsFailure ==
    ASSUME CallsInv, [Next]_vars, NEW t \in Observed, counted'[t] > counted[t]
    PROVE  HandleFailure
<1>1. counted \in [Observed -> 0 .. HistoryCap] /\ HistoryCap \in Nat
  BY CapNat DEF CallsInv, Shape
<1>2. counted' # counted
  BY <1>1
<1>3. \A u \in Tasks : counted' # Anew(counted, u)
  BY <1>1 DEF Anew
<1>4. PICK u \in Tasks : Proceed(u)
  BY <1>2, <1>3 DEF Next, BeginSome, BeginRefused, Begin, Tick, vars
<1>5. \A loop, again, next :
         AttemptThrew(u, loop, again, next) => HandleFailure
  BY <1>2 DEF AttemptThrew
<1>6. \A loop, next : ~LoopReturned(u, loop, next)
  BY <1>2 DEF LoopReturned
<1> QED
  BY <1>2, <1>4, <1>5, <1>6
     DEF Proceed, PlainQuery, CreateAccount, EnterInner, InnerQuery,
         ResumeGetCache, ResumeCreateMemory, Insert, OuterReturned, OuterThrew

\* Whichever call fails, and in whichever of its two frames, a half-open circuit
\* has no failures left to spare (withDatabase, handleFailure).
THEOREM FailureReopens == Spec => CountedFailureReopens
<1> DEFINE Reopens ==
      \A t \in Observed :
         state = "HALF_OPEN" /\ counted'[t] > counted[t] => state' = "OPEN"
<1>1. BreakerInv /\ CallsInv /\ [Next]_vars => [Reopens]_vars
  <2> SUFFICES ASSUME BreakerInv, CallsInv, [Next]_vars, NEW t \in Observed,
                      state = "HALF_OPEN", counted'[t] > counted[t]
               PROVE  state' = "OPEN"
    OBVIOUS
  <2>1. HandleFailure
    BY CostIsFailure
  <2>2. failureCount' >= FailureThreshold
    BY <2>1, ConfigAssumption
       DEF HandleFailure, CapAt, BreakerInv, BreakerTypeOK, CountDecidesState
  <2> QED
    BY <2>1, <2>2 DEF HandleFailure
<1> QED
  BY <1>1, AdapterInvHolds, PTL DEF Spec, CountedFailureReopens

-----------------------------------------------------------------------------
(* Both retry loops run out *)

\* The steps that the attempts still to come may take.
Ahead(t) == (MaxRetries - Outer(t)) * (MaxRetries + 4)

\* The most steps the call may still take before it settles.
Left(t) ==
    IF at[t] \in Idle THEN 0
    ELSE Ahead(t) + CASE at[t] = "attempt" -> MaxRetries + 3
                      [] at[t] = "inner"   -> MaxRetries - Inner(t) + 3
                      [] at[t] = "found"   -> 2
                      [] OTHER             -> 1

\* However the two loops nest and whatever the database and the breaker do, a
\* call has finitely many steps to go, and each of its steps is one of them.
RetriesRunOut ==
    [][\A t \in Tasks :
         /\ Proceed(t) => Left(t)' < Left(t)
         /\ at[t] \in Idle \/ Proceed(t) \/ Left(t)' = Left(t)]_vars

\* An attempt more leaves as many steps as one attempt may take less.
LEMMA AheadShrinks ==
    ASSUME NEW o \in 1 .. MaxRetries
    PROVE  /\ (MaxRetries - o) * (MaxRetries + 4) \in Nat
           /\ (MaxRetries - o) * (MaxRetries + 4) + MaxRetries + 4
                <= MaxRetries * (MaxRetries + 4)
           /\ o < MaxRetries =>
                (MaxRetries - o) * (MaxRetries + 4)
                  = (MaxRetries - (o + 1)) * (MaxRetries + 4) + MaxRetries + 4
<1> DEFINE r == MaxRetries - o
           b == MaxRetries + 4
<1>1. /\ r \in Nat /\ b \in Nat /\ r + 1 \in Nat /\ r + 1 <= MaxRetries
      /\ MaxRetries \in Nat /\ b = MaxRetries + 4
  BY RetryAssumption
<1>2. \A i, j \in Nat : i * j \in Nat /\ (i + 1) * j = i * j + j
  OBVIOUS
<1>3. \A i, j, k \in Nat : i <= j => i * k <= j * k
  OBVIOUS
<1>4. r * b \in Nat /\ (r + 1) * b = r * b + b
  BY <1>1, <1>2
<1>5. (r + 1) * b <= MaxRetries * b
  BY <1>1, <1>3
<1>6. r * b + b <= MaxRetries * b
  BY <1>4, <1>5
<1>7. ASSUME o < MaxRetries
      PROVE  r * b = (MaxRetries - (o + 1)) * b + b
  <2>1. MaxRetries - (o + 1) \in Nat /\ (MaxRetries - (o + 1)) + 1 = r
    BY <1>7, RetryAssumption
  <2> QED
    BY <1>1, <1>2, <2>1
<1>8. MaxRetries * b \in Nat
  BY <1>1, <1>2
<1>9. \A x, y \in Nat : x + b <= y => x + MaxRetries + 4 <= y
  BY <1>1
<1>10. \A x, y \in Nat : x = y + b => x = y + MaxRetries + 4
  BY <1>1
<1>11. o < MaxRetries => (MaxRetries - (o + 1)) * b \in Nat
  <2> SUFFICES ASSUME o < MaxRetries
               PROVE  (MaxRetries - (o + 1)) * b \in Nat
    OBVIOUS
  <2>1. MaxRetries - (o + 1) \in Nat
    BY RetryAssumption
  <2> QED
    BY <1>1, <1>2, <2>1
<1> QED
  BY <1>4, <1>6, <1>7, <1>8, <1>9, <1>10, <1>11

LEMMA LeftBounded ==
    ASSUME CallsInv, NEW t \in Tasks
    PROVE  Left(t) \in 0 .. MaxRetries * (MaxRetries + 4)
<1>1. /\ Outer(t) \in 1 .. MaxRetries /\ Inner(t) \in 1 .. MaxRetries
      /\ MaxRetries \in Nat
  BY LoopCounts DEF CallsInv
<1>2. /\ Ahead(t) \in Nat
      /\ Ahead(t) + MaxRetries + 4 <= MaxRetries * (MaxRetries + 4)
  BY <1>1, AheadShrinks DEF Ahead
<1>3. MaxRetries * (MaxRetries + 4) \in Nat
  <2>1. \A i, j \in Nat : i * j \in Nat
    OBVIOUS
  <2> QED
    BY <1>1, <2>1
<1>4. /\ MaxRetries + 3 \in 0 .. MaxRetries + 4 /\ 2 \in 0 .. MaxRetries + 4
      /\ MaxRetries - Inner(t) + 3 \in 0 .. MaxRetries + 4 /\ 1 \in 0 .. MaxRetries + 4
  BY <1>1
<1>5. \A n \in 0 .. MaxRetries + 4 :
         Ahead(t) + n \in 0 .. MaxRetries * (MaxRetries + 4)
  BY <1>1, <1>2, <1>3
<1>6. 0 \in 0 .. MaxRetries * (MaxRetries + 4)
  BY <1>3
<1> QED
  BY <1>4, <1>5, <1>6 DEF Left

\* How an attempt of the outer loop may end.
OuterEnds(t) ==
    \/ Goes(t, "resolved", 1, Inner(t))
    \/ Goes(t, "rest", 1, Inner(t))
    \/ Outer(t) < MaxRetries /\ Goes(t, "attempt", Outer(t) + 1, Inner(t))

LEMMA ProceedGoes ==
    ASSUME CallsInv, NEW t \in Tasks, Proceed(t)
    PROVE  \/ at[t] \in {"attempt", "found", "thrown", "insert"} /\ OuterEnds(t)
           \/ /\ at[t] = "attempt" /\ Inner(t) = 1
              /\ \/ Goes(t, "inner", Outer(t), Inner(t))
                 \/ Goes(t, "thrown", Outer(t), Inner(t))
           \/ /\ at[t] = "inner"
              /\ \/ Goes(t, "found", Outer(t), 1)
                 \/ Goes(t, "thrown", Outer(t), 1)
                 \/ /\ Inner(t) < MaxRetries
                    /\ Goes(t, "inner", Outer(t), Inner(t) + 1)
           \/ at[t] = "found" /\ Goes(t, "insert", Outer(t), Inner(t))
<1>0. Shape /\ PlaceFits(t)
  BY DEF CallsInv, TaskFits
<1>1. OuterReturned(t) \/ OuterThrew(t) => OuterEnds(t)
  BY <1>0, OuterReturnedEffect, OuterThrewEffect DEF OuterEnds
<1>2. CASE PlainQuery(t) \/ CreateAccount(t) \/ ResumeGetCache(t) \/ Insert(t)
  BY <1>1, <1>2 DEF PlainQuery, CreateAccount, ResumeGetCache, Insert
<1>3. CASE EnterInner(t)
  <2>1. /\ at[t] = "attempt" /\ tries' = tries
        /\ GoTo(t, "inner") \/ GoTo(t, "thrown")
    BY <1>3 DEF EnterInner
  <2>2. Inner(t) = 1
    BY <1>0, <2>1 DEF PlaceFits, Inner
  <2> QED
    BY <1>0, <2>1, <2>2, PlainGo DEF Places
<1>4. CASE InnerQuery(t)
  <2>1. /\ at[t] = "inner"
        /\ \/ LoopReturned(t, "inner", "found")
           \/ AttemptThrew(t, "inner", "inner", "thrown")
    BY <1>4 DEF InnerQuery
  <2> QED
    BY <1>0, <2>1, InnerReturnedEffect, InnerThrewEffect
<1>5. CASE ResumeCreateMemory(t)
  <2>1. CASE at[t] = "found" /\ GoTo(t, "insert") /\ tries' = tries
    BY <1>0, <2>1, PlainGo DEF Places
  <2>2. CASE at[t] = "thrown" /\ OuterThrew(t)
    BY <1>1, <2>2
  <2> QED
    BY <1>5, <2>1, <2>2 DEF ResumeCreateMemory
<1> QED
  BY <1>2, <1>3, <1>4, <1>5 DEF Proceed

LEMMA ProceedShortens ==
    ASSUME CallsInv, NEW t \in Tasks, Proceed(t)
    PROVE  Left(t)' < Left(t)
<1>1. /\ Outer(t) \in 1 .. MaxRetries /\ Inner(t) \in 1 .. MaxRetries
      /\ MaxRetries \in Nat
  BY LoopCounts DEF CallsInv
<1>2. Ahead(t) \in Nat
  BY <1>1, AheadShrinks DEF Ahead
<1> DEFINE o == Outer(t)
           i == Inner(t)
<1>3. ASSUME at[t] \in {"attempt", "found", "thrown", "insert"}, OuterEnds(t)
      PROVE  Left(t)' < Left(t)
  <2>1. Left(t) \in Nat /\ Left(t) >= Ahead(t) + 1
    BY <1>1, <1>2, <1>3 DEF Left, Idle
  <2>2. CASE at'[t] \in Idle
    BY <1>2, <2>1, <2>2 DEF Left
  <2>3. CASE at'[t] \notin Idle
    <3>1. o < MaxRetries /\ at'[t] = "attempt" /\ Outer(t)' = o + 1
      BY <1>3, <2>3 DEF OuterEnds, Goes, Idle
    <3>2. Ahead(t) = Ahead(t)' + MaxRetries + 4 /\ Ahead(t)' \in Nat
      <4>1. o + 1 \in 1 .. MaxRetries
        BY <1>1, <3>1
      <4>2. Ahead(t)' = (MaxRetries - (o + 1)) * (MaxRetries + 4)
        BY <3>1 DEF Ahead
      <4> QED
        BY <1>1, <3>1, <4>1, <4>2, AheadShrinks DEF Ahead
    <3>3. Left(t)' = Ahead(t)' + (MaxRetries + 3)
      BY <3>1 DEF Left, Idle
    <3> QED
      BY <1>1, <1>2, <2>1, <3>2, <3>3
  <2> QED
    BY <2>2, <2>3
<1>4. ASSUME NEW place, NEW k, Goes(t, place, o, k)
      PROVE  Ahead(t)' = Ahead(t) /\ at'[t] = place /\ Inner(t)' = k
  BY <1>4 DEF Ahead, Goes
<1>5. CASE at[t] = "attempt" /\ i = 1
           /\ (Goes(t, "inner", o, i) \/ Goes(t, "thrown", o, i))
  <2>1. Left(t) = Ahead(t) + (MaxRetries + 3)
    BY <1>5 DEF Left, Idle
  <2>2. \/ Left(t)' = Ahead(t) + (MaxRetries - 1 + 3)
        \/ Left(t)' = Ahead(t) + 1
    BY <1>4, <1>5 DEF Left, Idle
  <2> QED
    BY <1>1, <1>2, <2>1, <2>2
<1>6. CASE /\ at[t] = "inner"
           /\ \/ Goes(t, "found", o, 1) \/ Goes(t, "thrown", o, 1)
              \/ i < MaxRetries /\ Goes(t, "inner", o, i + 1)
  <2>1. Left(t) = Ahead(t) + (MaxRetries - i + 3)
    BY <1>6 DEF Left, Idle
  <2>2. \/ Left(t)' = Ahead(t) + 2
        \/ Left(t)' = Ahead(t) + 1
        \/ i < MaxRetries /\ Left(t)' = Ahead(t) + (MaxRetries - (i + 1) + 3)
    BY <1>4, <1>6 DEF Left, Idle
  <2> QED
    BY <1>1, <1>2, <2>1, <2>2
<1>7. CASE at[t] = "found" /\ Goes(t, "insert", o, i)
  <2>1. Left(t) = Ahead(t) + 2
    BY <1>7 DEF Left, Idle
  <2>2. Left(t)' = Ahead(t) + 1
    BY <1>4, <1>7 DEF Left, Idle
  <2> QED
    BY <1>2, <2>1, <2>2
<1> QED
  BY <1>3, <1>5, <1>6, <1>7, ProceedGoes

\* A step that is not the call's own leaves it as many steps as it had.
LEMMA OthersWait ==
    ASSUME CallsInv, [Next]_vars, NEW t \in Tasks, at[t] \notin Idle, ~Proceed(t)
    PROVE  Left(t)' = Left(t)
<1>1. at'[t] = at[t] /\ tries'[t] = tries[t] => Left(t)' = Left(t)
  BY DEF Left, Ahead, Outer, Inner
<1>2. ASSUME NEW u \in Tasks, BeginRefused(u) \/ \E m \in Methods : Begin(u, m)
      PROVE  at'[t] = at[t] /\ tries'[t] = tries[t]
  BY <1>2 DEF BeginRefused, Begin, GoTo, CallsInv, Shape
<1>3. ASSUME NEW u \in Tasks, Proceed(u)
      PROVE  at'[t] = at[t] /\ tries'[t] = tries[t]
  <2>1. u # t
    BY <1>3
  <2>2. PICK place, o, i : Goes(u, place, o, i)
    BY <1>3, ProceedGoes DEF OuterEnds
  <2> QED
    BY <2>1, <2>2 DEF Goes
<1>4. Tick \/ UNCHANGED vars => at'[t] = at[t] /\ tries'[t] = tries[t]
  BY DEF Tick, vars
<1> QED
  BY <1>1, <1>2, <1>3, <1>4 DEF Next, BeginSome

\* A call settles after at most MaxRetries * (MaxRetries + 4) steps of its own,
\* for every number of retries: neither the inner loop, begun anew in each
\* attempt of the outer one, nor the refusals of the breaker keep it going
\* (withRetry in withRetry). That it does take its steps is a matter of fairness.
THEOREM CallsRunOut ==
    Spec => /\ [](\A t \in Tasks : Left(t) \in 0 .. MaxRetries * (MaxRetries + 4))
            /\ RetriesRunOut
<1> DEFINE Shorter ==
      \A t \in Tasks :
         /\ Proceed(t) => Left(t)' < Left(t)
         /\ at[t] \in Idle \/ Proceed(t) \/ Left(t)' = Left(t)
           Bounded == \A t \in Tasks : Left(t) \in 0 .. MaxRetries * (MaxRetries + 4)
<1>1. CallsInv => Bounded
  BY LeftBounded
<1>2. CallsInv /\ [Next]_vars => [Shorter]_vars
  BY ProceedShortens, OthersWait
<1> QED
  BY <1>1, <1>2, AdapterInvHolds, PTL DEF Spec, RetriesRunOut
=============================================================================
