----------------------------- MODULE MCServices -----------------------------
(* A small instance of each part of Services. *)
EXTENDS Services

CONSTANTS a1, a2, inbox, other, p1, p2

MCFoldersOf == [a \in {a1, a2} |-> IF a = a1 THEN {inbox, other} ELSE {}]
MCFirstKnown == {<<a1, inbox>>, <<a1, other>>}
MCDeletable == {<<a1, other>>}

\* A process of the build before the last migration, and one of the build after.
MCLastOf == [p \in {p1, p2} |-> IF p = p1 THEN 3 ELSE 2]

=============================================================================
