------------------------------- MODULE Schema -------------------------------
(***************************************************************************)
(* What the database promises the programs that open it, of one build or   *)
(* another, at the same time: the migrations of storage/sqlite/migrations  *)
(* take effect one after the other and once each, and no signature is lost *)
(* but to the one that starts the table anew.                              *)
(***************************************************************************)
EXTENDS Naturals, Sequences

CONSTANTS
    Versions,  \* the number of migrations there are
    Rekey,     \* the migration that drops and recreates the table of signatures
    SignatureIds

VARIABLES
    done,      \* the migrations that took effect, in order
    kept       \* the signatures there are

schemaVars == <<done, kept>>

SchemaInit == done = <<>> /\ kept = {}

Migrated ==
    /\ Len(done) < Versions
    /\ done' = Append(done, Len(done) + 1)
    /\ kept' = IF Len(done) + 1 = Rekey THEN {} ELSE kept

Saved(i) ==
    /\ Len(done) >= Rekey /\ i \notin kept
    /\ kept' = kept \cup {i} /\ UNCHANGED done

Removed(i) == kept' = kept \ {i} /\ UNCHANGED done

SchemaNext == Migrated \/ \E i \in SignatureIds : Saved(i) \/ Removed(i)

SchemaSpec == SchemaInit /\ [][SchemaNext]_schemaVars

=============================================================================
