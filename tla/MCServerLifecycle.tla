-------------------------- MODULE MCServerLifecycle --------------------------
(***************************************************************************)
(* A pool of two, writes that can fill it, and a read of two queries.      *)
(***************************************************************************)
EXTENDS ServerLifecycle, TLC

(* The process is down for good. *)
Down == ~ Up /\ UNCHANGED vars

MCSpec == Init /\ [][Next \/ Down]_vars
MCFairSpec == MCSpec /\ Fairness
=============================================================================
