----------------------------- MODULE MCMoveUndo -----------------------------
(* MoveUndo on an inbox and a Trash, for each kind of server. *)
EXTENDS MoveUndo, TLC

CONSTANTS inbox, trash, m1, m2, j1, j2

AllServers == {[move |-> TRUE, uidPlus |-> TRUE], [move |-> TRUE, uidPlus |-> FALSE],
               [move |-> FALSE, uidPlus |-> TRUE], [move |-> FALSE, uidPlus |-> FALSE]}

Symmetry == Permutations(Jobs) \cup Permutations(Msgs)

=============================================================================
