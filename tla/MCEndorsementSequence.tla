------------------------ MODULE MCEndorsementSequence ------------------------
(* Small instances of EndorsementSequence. *)
EXTENDS EndorsementSequence

SmallPremiums == 0 .. 9

(* The bound stops the sequence. *)
Done == steps = MaxSteps /\ UNCHANGED sequenceVars

MCSpec == SequenceInit /\ [][SequenceNext \/ Done]_sequenceVars
=============================================================================
