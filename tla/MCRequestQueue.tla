---------------------------- MODULE MCRequestQueue ----------------------------
(* Five calls of add, made at any moment: before, while and after the queue    *)
(* is being processed.                                                         *)
EXTENDS RequestQueue
=============================================================================
