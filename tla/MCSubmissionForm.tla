---------------------------- MODULE MCSubmissionForm ----------------------------
(* Small instances of SubmissionForm. *)
EXTENDS SubmissionForm, TLC

CONSTANTS low, high, wrong

ThreeEntries == {low, high, wrong}
WrongEntry == {wrong}

(* No submission is left to make, and nothing is on its way; the keys may   *)
(* be spent with the form unmounted.                                        *)
Quiescent == requests = {} /\ attempts = MaxAttempts /\ UNCHANGED vars

(* The page is gone, its keys are spent, and nothing is on its way. *)
Spent == ~ mounted /\ generated = MaxKeys /\ requests = {} /\ UNCHANGED vars

MCSpec == Init /\ [][Next \/ Quiescent \/ Spent]_vars

EntrySymmetry == Permutations({low, high})
=============================================================================
