---------------------------- MODULE BreakerCalls ----------------------------
(***************************************************************************)
(* Concurrent calls of CircuitBreaker.execute over a database that goes    *)
(* down and up: a call admitted in one state may settle in another.        *)
(***************************************************************************)
EXTENDS CircuitBreaker

CONSTANT Calls               \* the concurrent callers of execute

VARIABLES call,              \* how the latest execute of each caller stands
          healthy,           \* whether the database answers (environment)
          cleanRun           \* history: successes since the last failure or
                             \* since the circuit half-opened

vars == <<state, failureCount, sinceFailure, halfOpenSuccesses, call, healthy,
          cleanRun>>

CallStatus == {"idle", "running", "returned", "threw", "refused"}

TypeOK ==
    /\ BreakerTypeOK
    /\ call \in [Calls -> CallStatus]
    /\ healthy \in BOOLEAN
    /\ cleanRun \in 0..HalfOpenMaxAttempts

Init ==
    /\ BreakerInit
    /\ call = [c \in Calls |-> "idle"]
    /\ healthy \in BOOLEAN
    /\ cleanRun = 0

-----------------------------------------------------------------------------

Admit(c) ==
    /\ call[c] # "running"
    /\ EnterExecute
    /\ call' = [call EXCEPT ![c] = "running"]
    /\ cleanRun' = IF state' = state THEN cleanRun ELSE 0
    /\ UNCHANGED healthy

\* Faulty: the refusal is handled like a failure of the operation.
RefuseIsAFailure(c) ==
    /\ call[c] # "running"
    /\ Refuses
    /\ HandleFailure
    /\ call' = [call EXCEPT ![c] = "refused"]
    /\ UNCHANGED <<healthy, cleanRun>>

Refuse(c) ==
    /\ call[c] # "running"
    /\ Refuses
    /\ call' = [call EXCEPT ![c] = "refused"]
    /\ UNCHANGED <<breaker, healthy, cleanRun>>

Execute(c) == Admit(c) \/ Refuse(c)

Succeed(c) ==
    /\ call[c] = "running"
    /\ AfterSuccess
    /\ call' = [call EXCEPT ![c] = "returned"]
    /\ cleanRun' = CapAt(cleanRun + 1, HalfOpenMaxAttempts)
    /\ UNCHANGED healthy

\* An operation can only fail while the database is down.
Fail(c) ==
    /\ call[c] = "running"
    /\ ~healthy
    /\ HandleFailure
    /\ call' = [call EXCEPT ![c] = "threw"]
    /\ cleanRun' = 0
    /\ UNCHANGED healthy

Tick ==
    /\ ClockTick
    /\ UNCHANGED <<call, healthy, cleanRun>>

HealthChange ==
    /\ healthy' = ~healthy
    /\ UNCHANGED <<breaker, call, cleanRun>>

Next ==
    \/ \E c \in Calls : Execute(c) \/ Succeed(c) \/ Fail(c)
    \/ Tick
    \/ HealthChange

Spec == Init /\ [][Next]_vars

\* Time passes, callers call again (the agent's clients poll for ever), and an
\* operation that was started settles: the drivers time out.
Fairness ==
    /\ WF_vars(Tick)
    /\ \A c \in Calls : /\ WF_vars(Execute(c))
                        /\ WF_vars(Succeed(c) \/ Fail(c))

FairSpec == Spec /\ Fairness

-----------------------------------------------------------------------------
(* Properties; CountDecidesState and Lifecycle of CircuitBreaker are two more *)

\* A half-open circuit is still waiting for probes, and has seen no failure
\* since it half-opened: every success it counted is in an unbroken run
\* (halfOpenSuccesses in execute).
ProbesAreAnUnbrokenRun ==
    state = "HALF_OPEN" => /\ halfOpenSuccesses < HalfOpenMaxAttempts
                           /\ halfOpenSuccesses = cleanRun

\* A half-open circuit does not survive a failure, whichever call it comes
\* from and whenever that call was admitted (handleFailure).
HalfOpenFailureReopens ==
    [][\A c \in Calls :
         state = "HALF_OPEN" /\ call[c] = "running" /\ call'[c] = "threw"
            => state' = "OPEN"]_vars

\* The circuit closes only when the last HalfOpenMaxAttempts operations to
\* settle all succeeded, with no failure and no half-opening between them
\* (execute, reset).
ClosesOnCleanRun ==
    [][state # "CLOSED" /\ state' = "CLOSED"
         => cleanRun + 1 >= HalfOpenMaxAttempts]_vars

\* A database that comes back for good is eventually used again without
\* interruption: refused calls do not prolong the quarantine (execute).
Recovers == <>[]healthy => <>[](state = "CLOSED")

=============================================================================
