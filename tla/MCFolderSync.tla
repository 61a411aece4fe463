---------------------------- MODULE MCFolderSync ----------------------------
(* Instances of FolderSync for TLC. *)
EXTENDS FolderSync, TLC

Symmetry == Permutations(Syncers)
=============================================================================
