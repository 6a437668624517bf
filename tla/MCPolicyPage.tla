----------------------------- MODULE MCPolicyPage -----------------------------
(* Small instances of PolicyPage. *)
EXTENDS PolicyPage, TLC

(* Every commit is made, and the page has nothing to load or to submit. *)
Quiescent ==
  /\ loads = {}
  /\ ~ refetchDue
  /\ version = MaxVersion \/ view = "error"
  /\ UNCHANGED vars

MCSpec == Init /\ [][Next \/ Quiescent]_vars
MCFairSpec == MCSpec /\ Fairness
=============================================================================
