--------------------------- MODULE CircuitBreaker ---------------------------
(***************************************************************************)
(* The fields of the circuit breaker every database adapter wraps its      *)
(* operations in (core/src/database/CircuitBreaker.ts), and what the       *)
(* synchronous pieces of its methods do to them.  `execute` is two such    *)
(* pieces around an await: EnterExecute before the operation, AfterSuccess *)
(* or HandleFailure once it settled.  The modules that EXTEND this one     *)
(* interleave those pieces.                                                *)
(*                                                                         *)
(* Abstractions, both exact because of how the code reads the fields:      *)
(*  - failureCount is only compared with the threshold: it saturates there *)
(*  - lastFailureTime is only read as Date.now() - lastFailureTime against *)
(*    resetTimeout: sinceFailure is that difference, in ticks, saturating  *)
(*    at Expired; `undefined` reads as 0, hence as Expired.                *)
(***************************************************************************)
EXTENDS Naturals

CONSTANTS FailureThreshold,    \* failures before the circuit opens
          ResetTimeout,        \* ticks the circuit stays open
          HalfOpenMaxAttempts  \* successes needed to close it again

ASSUME ConfigAssumption ==
    /\ FailureThreshold \in Nat \ {0}
    /\ ResetTimeout \in Nat
    /\ HalfOpenMaxAttempts \in Nat \ {0}

VARIABLES state,             \* CircuitBreakerState
          failureCount,
          sinceFailure,      \* Date.now() - lastFailureTime
          halfOpenSuccesses

breaker == <<state, failureCount, sinceFailure, halfOpenSuccesses>>

Expired == ResetTimeout + 1
CapAt(n, cap) == IF n < cap THEN n ELSE cap

BreakerTypeOK ==
    /\ state \in {"CLOSED", "OPEN", "HALF_OPEN"}
    /\ failureCount \in 0..FailureThreshold
    /\ sinceFailure \in 0..Expired
    /\ halfOpenSuccesses \in 0..HalfOpenMaxAttempts

BreakerInit ==
    /\ state = "CLOSED"
    /\ failureCount = 0
    /\ sinceFailure = Expired
    /\ halfOpenSuccesses = 0

-----------------------------------------------------------------------------
(* execute, up to its await *)

ResetTimeoutElapsed == sinceFailure > ResetTimeout

\* "Circuit breaker is OPEN" is thrown: the operation never starts.
Refuses == state = "OPEN" /\ ~ResetTimeoutElapsed

\* Faulty: the successes of an earlier half-open period are kept.
HalfOpenKeepsProbes ==
    /\ state = "OPEN" /\ ResetTimeoutElapsed
    /\ state' = "HALF_OPEN"
    /\ UNCHANGED <<failureCount, sinceFailure, halfOpenSuccesses>>

\* Faulty: the failures are forgotten when the circuit half-opens.
HalfOpenForgetsFailures ==
    /\ state = "OPEN" /\ ResetTimeoutElapsed
    /\ state' = "HALF_OPEN"
    /\ failureCount' = 0
    /\ halfOpenSuccesses' = 0
    /\ UNCHANGED sinceFailure

\* Open for longer than resetTimeout: this call half-opens the circuit.
HalfOpens ==
    /\ state = "OPEN" /\ ResetTimeoutElapsed
    /\ state' = "HALF_OPEN"
    /\ halfOpenSuccesses' = 0
    /\ UNCHANGED <<failureCount, sinceFailure>>

\* Any number of operations may be started while closed or half-open.
EnterExecute ==
    \/ HalfOpens
    \/ state # "OPEN" /\ UNCHANGED breaker

-----------------------------------------------------------------------------
(* execute, after the operation settled: the state is read anew *)

\* Faulty: compared before the increment.
OneProbeTooMany == halfOpenSuccesses >= HalfOpenMaxAttempts

EnoughProbes == halfOpenSuccesses + 1 >= HalfOpenMaxAttempts

\* Faulty: the failures that opened the circuit are kept.
ResetKeepsFailures ==
    /\ state' = "CLOSED"
    /\ sinceFailure' = Expired
    /\ UNCHANGED failureCount

\* reset(); halfOpenSuccesses keeps the value it was incremented to.
Reset ==
    /\ state' = "CLOSED"
    /\ failureCount' = 0
    /\ sinceFailure' = Expired

\* Faulty: every success is a probe, whatever the state is by now.
AfterSuccessInAnyState ==
    /\ halfOpenSuccesses' = CapAt(halfOpenSuccesses + 1, HalfOpenMaxAttempts)
    /\ IF EnoughProbes THEN Reset
       ELSE UNCHANGED <<state, failureCount, sinceFailure>>

AfterSuccess ==
    \/ /\ state = "HALF_OPEN"
       /\ halfOpenSuccesses' = halfOpenSuccesses + 1
       /\ IF EnoughProbes THEN Reset
          ELSE UNCHANGED <<state, failureCount, sinceFailure>>
    \/ /\ state # "HALF_OPEN"
       /\ UNCHANGED breaker

\* handleFailure()
HandleFailure ==
    /\ failureCount' = CapAt(failureCount + 1, FailureThreshold)
    /\ sinceFailure' = 0
    /\ IF state # "OPEN" /\ failureCount' >= FailureThreshold
       THEN state' = "OPEN"
       ELSE UNCHANGED state
    /\ UNCHANGED halfOpenSuccesses

\* Date.now() grows.
ClockTick ==
    /\ sinceFailure < Expired
    /\ sinceFailure' = sinceFailure + 1
    /\ UNCHANGED <<state, failureCount, halfOpenSuccesses>>

-----------------------------------------------------------------------------

\* Failures are never reset by a success, only by closing the circuit, so the
\* count alone tells closed from not closed: a closed circuit has budget left,
\* and a half-open one has none (failureCount in handleFailure and reset).
CountDecidesState == (state = "CLOSED") <=> (failureCount < FailureThreshold)

\* The circuit moves only CLOSED -> OPEN -> HALF_OPEN -> CLOSED or OPEN, even
\* when calls admitted in one state settle in another (execute).
LifecycleStep ==
    \/ state = "CLOSED" /\ state' = "OPEN"
    \/ state = "OPEN" /\ state' = "HALF_OPEN"
    \/ state = "HALF_OPEN" /\ state' \in {"OPEN", "CLOSED"}

Lifecycle == [][LifecycleStep]_state

=============================================================================
