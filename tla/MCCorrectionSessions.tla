------------------------ MODULE MCCorrectionSessions ------------------------
(* Finite instances of CorrectionSessions for TLC. *)
EXTENDS CorrectionSessions, TLC

CONSTANTS d1, d2

MCSymmetry == Permutations(Client)

=============================================================================
