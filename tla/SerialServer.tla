---------------------------- MODULE SerialServer ----------------------------
(***************************************************************************)
(* What the request queue of the Twitter client promises its callers:      *)
(* requests are carried out one at a time, in the order they were made,    *)
(* each exactly once, and its caller gets the result or the error.         *)
(***************************************************************************)
EXTENDS Sequences

CONSTANT Requests

VARIABLES line,      \* the requests not carried out yet, in order
          outcome    \* what each caller has got

vars == <<line, outcome>>

Init ==
    /\ line = <<>>
    /\ outcome = [r \in Requests |-> "new"]

Submit(r) ==
    /\ outcome[r] = "new"
    /\ line' = Append(line, r)
    /\ outcome' = [outcome EXCEPT ![r] = "waiting"]

Complete(result) ==
    /\ line # <<>>
    /\ line' = Tail(line)
    /\ outcome' = [outcome EXCEPT ![Head(line)] = result]

Next ==
    \/ \E r \in Requests : Submit(r)
    \/ \E result \in {"resolved", "rejected"} : Complete(result)

Spec == Init /\ [][Next]_vars

FairSpec ==
    Spec /\ WF_vars(\E result \in {"resolved", "rejected"} : Complete(result))

=============================================================================
