------------------------ MODULE MCHistoryVerification ------------------------
EXTENDS HistoryVerification, TLC
PayloadSymmetry == Permutations(Payloads)
=============================================================================
