--------------------------- MODULE MCTuiSelection ---------------------------
(* Two accounts, one of them with a second folder, which may be deleted. *)
EXTENDS TuiSelection

CONSTANTS a1, a2, inbox, other

MCFoldersOf == [a \in {a1, a2} |-> IF a = a1 THEN {inbox, other} ELSE {}]
MCFirstKnown == {<<a1, inbox>>, <<a1, other>>}
MCDeletable == {<<a1, other>>}

=============================================================================
