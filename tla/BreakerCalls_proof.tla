------------------------ MODULE BreakerCalls_proof ------------------------
(* Theorems about the circuit breaker, for every number of callers, every    *)
(* threshold, every reset timeout and every number of probes.                *)
EXTENDS BreakerCalls, TLAPS

(* The inductive invariant: the count tells closed from not closed only      *)
(* while the fields are in range, and a half-open circuit needs the second   *)
(* part to know that the probe it counts next keeps the run unbroken.        *)
BreakerInv == TypeOK /\ CountDecidesState /\ ProbesAreAnUnbrokenRun

\* A capped count stays in its range.
LEMMA CapAtRange ==
    ASSUME NEW cap \in Nat, NEW n \in 0..cap
    PROVE  CapAt(n + 1, cap) \in 0..cap
BY DEF CapAt

\* The constructor leaves the breaker closed, with nothing counted.
LEMMA InitBreakerInv == Init => BreakerInv
BY ConfigAssumption
   DEF Init, BreakerInit, BreakerInv, TypeOK, BreakerTypeOK,
       CountDecidesState, ProbesAreAnUnbrokenRun, CallStatus, Expired

\* No step of execute, handleFailure, reset, the clock or the database breaks
\* the invariant.
LEMMA NextBreakerInv == BreakerInv /\ [Next]_vars => BreakerInv'
<1> SUFFICES ASSUME BreakerInv, [Next]_vars
             PROVE  BreakerInv'
  OBVIOUS
<1> USE ConfigAssumption
    DEF BreakerInv, TypeOK, BreakerTypeOK, CountDecidesState,
        ProbesAreAnUnbrokenRun, CallStatus, Expired
<1>1. ASSUME NEW c \in Calls, Admit(c)
      PROVE  BreakerInv'
  <2>1. CASE HalfOpens
    BY <1>1, <2>1 DEF Admit, HalfOpens
  <2>2. CASE UNCHANGED breaker
    BY <1>1, <2>2 DEF Admit, breaker
  <2> QED
    BY <1>1, <2>1, <2>2 DEF Admit, EnterExecute
<1>2. ASSUME NEW c \in Calls, Refuse(c)
      PROVE  BreakerInv'
  BY <1>2 DEF Refuse, breaker
<1>3. ASSUME NEW c \in Calls, Succeed(c)
      PROVE  BreakerInv'
  <2> cleanRun' \in 0..HalfOpenMaxAttempts
    BY <1>3, CapAtRange DEF Succeed
  <2> call' \in [Calls -> CallStatus] /\ healthy' \in BOOLEAN
    BY <1>3 DEF Succeed
  <2>1. CASE state = "HALF_OPEN" /\ EnoughProbes
    BY <1>3, <2>1 DEF Succeed, AfterSuccess, EnoughProbes, Reset
  <2>2. CASE state = "HALF_OPEN" /\ ~EnoughProbes
    <3>1. cleanRun' = cleanRun + 1
      BY <1>3, <2>2 DEF Succeed, EnoughProbes, CapAt
    <3> QED
      BY <1>3, <2>2, <3>1 DEF Succeed, AfterSuccess, EnoughProbes
  <2>3. CASE state # "HALF_OPEN"
    BY <1>3, <2>3 DEF Succeed, AfterSuccess, breaker
  <2> QED
    BY <2>1, <2>2, <2>3
<1>4. ASSUME NEW c \in Calls, Fail(c)
      PROVE  BreakerInv'
  <2>1. failureCount' \in 0..FailureThreshold
    BY <1>4, CapAtRange DEF Fail, HandleFailure
  <2>2. state' # "HALF_OPEN"
    BY <1>4 DEF Fail, HandleFailure, CapAt
  <2>3. CountDecidesState'
    BY <1>4 DEF Fail, HandleFailure, CapAt
  <2> QED
    BY <1>4, <2>1, <2>2, <2>3 DEF Fail, HandleFailure
<1>5. CASE Tick
  BY <1>5 DEF Tick, ClockTick
<1>6. CASE HealthChange
  BY <1>6 DEF HealthChange, breaker
<1>7. CASE UNCHANGED vars
  BY <1>7 DEF vars
<1> QED
  BY <1>1, <1>2, <1>3, <1>4, <1>5, <1>6, <1>7 DEF Next, Execute

-----------------------------------------------------------------------------

\* The breaker's fields keep the types its TypeScript declarations give them.
THEOREM TypeCorrect == Spec => []TypeOK
<1>1. BreakerInv => TypeOK
  BY DEF BreakerInv
<1> QED
  BY InitBreakerInv, NextBreakerInv, <1>1, PTL DEF Spec

\* A circuit is closed exactly while its failure budget is not spent
\* (handleFailure, reset).
THEOREM CountDecides == Spec => []CountDecidesState
<1>1. BreakerInv => CountDecidesState
  BY DEF BreakerInv
<1> QED
  BY InitBreakerInv, NextBreakerInv, <1>1, PTL DEF Spec

\* What a half-open circuit has counted is an unbroken run of successes, and
\* too short to close it yet (execute).
THEOREM ProbesUnbroken == Spec => []ProbesAreAnUnbrokenRun
<1>1. BreakerInv => ProbesAreAnUnbrokenRun
  BY DEF BreakerInv
<1> QED
  BY InitBreakerInv, NextBreakerInv, <1>1, PTL DEF Spec

\* Calls that settle in a state other than the one that admitted them never
\* take the circuit along an edge the lifecycle does not have.
THEOREM LifecycleHolds == Spec => Lifecycle
<1>1. BreakerInv /\ [Next]_vars => [LifecycleStep]_state
  <2> SUFFICES ASSUME BreakerInv, [Next]_vars, state' # state
               PROVE  LifecycleStep
    OBVIOUS
  <2> USE DEF BreakerInv, TypeOK, BreakerTypeOK, LifecycleStep
  <2>1. ASSUME NEW c \in Calls, Admit(c)
        PROVE  LifecycleStep
    BY <2>1 DEF Admit, EnterExecute, HalfOpens, breaker
  <2>2. ASSUME NEW c \in Calls, Succeed(c)
        PROVE  LifecycleStep
    BY <2>2 DEF Succeed, AfterSuccess, Reset, breaker
  <2>3. ASSUME NEW c \in Calls, Fail(c)
        PROVE  LifecycleStep
    BY <2>3 DEF Fail, HandleFailure
  <2> QED
    BY <2>1, <2>2, <2>3
       DEF Next, Execute, Refuse, Tick, ClockTick, HealthChange, vars, breaker
<1> QED
  BY InitBreakerInv, NextBreakerInv, <1>1, PTL DEF Spec, Lifecycle

\* One failure is enough to reopen a half-open circuit: its budget is spent
\* before it half-opens and stays spent until it closes (handleFailure).
THEOREM HalfOpenReopens == Spec => HalfOpenFailureReopens
<1> DEFINE Reopens ==
      \A c \in Calls :
         state = "HALF_OPEN" /\ call[c] = "running" /\ call'[c] = "threw"
            => state' = "OPEN"
<1>1. BreakerInv /\ [Next]_vars => [Reopens]_vars
  <2> SUFFICES ASSUME BreakerInv, [Next]_vars,
                      NEW c \in Calls,
                      state = "HALF_OPEN", call[c] = "running",
                      call'[c] = "threw"
               PROVE  state' = "OPEN"
    OBVIOUS
  <2> USE DEF BreakerInv, TypeOK, CallStatus
  <2>1. \A d \in Calls : ~Admit(d) /\ ~Refuse(d) /\ ~Succeed(d)
    BY DEF Admit, Refuse, Succeed
  <2>2. ~Tick /\ ~HealthChange /\ vars' # vars
    BY DEF Tick, HealthChange, vars
  <2>3. PICK d \in Calls : Fail(d)
    BY <2>1, <2>2 DEF Next, Execute
  <2>4. failureCount' >= FailureThreshold
    BY <2>3, ConfigAssumption
       DEF Fail, HandleFailure, CapAt, BreakerTypeOK, CountDecidesState
  <2> QED
    BY <2>3, <2>4 DEF Fail, HandleFailure
<1> QED
  BY InitBreakerInv, NextBreakerInv, <1>1, PTL DEF Spec, HalfOpenFailureReopens

\* The circuit closes only behind HalfOpenMaxAttempts successes in a row
\* (execute, reset).
THEOREM ClosesClean == Spec => ClosesOnCleanRun
<1> DEFINE Clean == state # "CLOSED" /\ state' = "CLOSED"
                       => cleanRun + 1 >= HalfOpenMaxAttempts
<1>1. BreakerInv /\ [Next]_vars => [Clean]_vars
  <2> SUFFICES ASSUME BreakerInv, [Next]_vars, state # "CLOSED",
                      state' = "CLOSED"
               PROVE  cleanRun + 1 >= HalfOpenMaxAttempts
    OBVIOUS
  <2>1. PICK c \in Calls : Succeed(c)
    BY DEF Next, Execute, Admit, EnterExecute, HalfOpens, Refuse, Fail,
           HandleFailure, Tick, ClockTick, HealthChange, vars, breaker
  <2>2. state = "HALF_OPEN" /\ EnoughProbes
    BY <2>1 DEF Succeed, AfterSuccess, breaker
  <2> QED
    BY <2>2 DEF BreakerInv, ProbesAreAnUnbrokenRun, EnoughProbes
<1> QED
  BY InitBreakerInv, NextBreakerInv, <1>1, PTL DEF Spec, ClosesOnCleanRun

=============================================================================
