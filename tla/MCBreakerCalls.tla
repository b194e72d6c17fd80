-------------------------- MODULE MCBreakerCalls --------------------------
(* A small breaker for TLC: three callers, so that a call admitted while the *)
(* circuit was closed can settle after it opened, half-opened or closed.     *)
EXTENDS BreakerCalls
=============================================================================
