--------------------------- MODULE MCFolderEdits ---------------------------
(* FolderEdits for TLC: interchangeable syncers and editors. *)
EXTENDS FolderEdits, TLC

EditSymmetry == Permutations(Syncers) \cup Permutations(Editors)

=============================================================================
