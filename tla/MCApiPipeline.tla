---------------------------- MODULE MCApiPipeline ----------------------------
(***************************************************************************)
(* Small instances of ApiPipeline, and the rest of a bounded behaviour.    *)
(***************************************************************************)
EXTENDS ApiPipeline, TLC

(* One that reaches the database and fails there, and one that fails before *)
(* it is counted: the others differ from them only in their status.         *)
FailingKinds == {"impossible", "unparsable"}

(* The clock has run out, and every request was sent and answered. *)
Quiescent ==
  /\ now = MaxTime /\ process = MaxRestarts /\ Len(requests) = MaxRequests
  /\ \A i \in DOMAIN requests : requests[i].stage \in {"answered", "lost"}
  /\ UNCHANGED vars

MCSpec == Init /\ [][Next \/ Quiescent]_vars
MCFairSpec == MCSpec /\ Fairness
=============================================================================
