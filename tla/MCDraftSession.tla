---------------------------- MODULE MCDraftSession ----------------------------
(* DraftSession for TLC: interchangeable goroutines. *)
EXTENDS DraftSession, TLC

JobSymmetry == Permutations(Jobs)

=============================================================================
