------------------------------ MODULE Database ------------------------------
(***************************************************************************)
(* The sqlite database as its processes open and migrate it                *)
(* (internal/storage/sqlite/db.go), and the signatures they keep in it     *)
(* (signature.go and internal/cli/signature.go).  A statement is atomic,   *)
(* and so is a transaction; between two of them others have theirs.  The   *)
(* text of a signature, and the command that edits it, are left out.       *)
(***************************************************************************)
EXTENDS Naturals, Sequences

CONSTANTS
    Processes,
    LastOf,    \* the last migration the build of a process knows
    Versions, Rekey,   \* see Schema
    Global,    \* the scope of the signatures of no account
    Slugs,     \* the accounts
    MaxId      \* bound: the ids of signatures

Ids == 1..MaxId
Scopes == Slugs \cup {Global}

ASSUME DatabaseAssumption ==
    /\ Versions \in Nat /\ Rekey \in 1..Versions /\ MaxId \in Nat /\ Global \notin Slugs
    /\ LastOf \in [Processes -> Rekey..Versions]

VARIABLES
    recorded,  \* the versions in schema_migrations
    shape,     \* the migrations whose statements took effect, in order
    signatures,   \* signatures[i]: a row, or NoRow
    process,   \* process[p]: its progress
    made,      \* history: the signatures made the default of a scope last: by the last
               \* command that did so, and by those since the clearing before that
    standing,  \* history: scopes whose default was not cleared since it was made
    cut        \* history: scopes where a command ended after it had cleared the default
               \* and before it set one, until one is set

defaults == <<made, standing, cut>>
databaseVars == <<recorded, shape, signatures, process, defaults>>

NoRow == [scope |-> Global, used |-> FALSE, default |-> FALSE]
Row(s, d) == [scope |-> s, used |-> TRUE, default |-> d]

\* version: the migration next; id and scope: what is made the default, 0 for a
\* row to be inserted.
Down == [pc |-> "down", version |-> 1, id |-> 0, scope |-> Global]

InitDatabase ==
    /\ recorded = {} /\ shape = <<>> /\ signatures = [i \in Ids |-> NoRow]
    /\ process = [p \in Processes |-> Down]
    /\ made = [s \in Scopes |-> {}] /\ standing = Scopes /\ cut = {}

IsAt(p, pc) == process[p].pc = pc
MoveTo(p, pc) == process' = [process EXCEPT ![p].pc = pc]

-----------------------------------------------------------------------------
(* Open and migrate. *)

OpenDatabase(p) ==
    /\ IsAt(p, "down") /\ MoveTo(p, "check")
    /\ UNCHANGED <<recorded, shape, signatures, defaults>>

\* Outside of the transaction.
CheckMigration(p) ==
    /\ IsAt(p, "check")
    /\ LET v == process[p].version IN
       \/ v > LastOf[p] /\ MoveTo(p, "ready")
       \/ v <= LastOf[p] /\ v \in recorded /\ process' = [process EXCEPT ![p].version = v + 1]
       \/ v <= LastOf[p] /\ v \notin recorded /\ MoveTo(p, "apply")
    /\ UNCHANGED <<recorded, shape, signatures, defaults>>

Apply(p) ==
    LET v == process[p].version IN
    /\ shape' = Append(shape, v)
    /\ recorded' = recorded \cup {v}
    /\ signatures' = IF v = Rekey THEN [i \in Ids |-> NoRow] ELSE signatures
    /\ made' = IF v = Rekey THEN [s \in Scopes |-> {}] ELSE made
    /\ process' = [process EXCEPT ![p].version = v + 1, ![p].pc = "check"]
    /\ UNCHANGED <<standing, cut>>

\* Fault: INSERT OR IGNORE.
ApplyAnyway(p) == IsAt(p, "apply") /\ Apply(p)

\* The version is a primary key: inserted twice, all is rolled back, and Open fails.
ApplyMigration(p) ==
    /\ IsAt(p, "apply")
    /\ \/ process[p].version \notin recorded /\ Apply(p)
       \/ /\ process[p].version \in recorded
          /\ process' = [process EXCEPT ![p] = Down]
          /\ UNCHANGED <<recorded, shape, signatures, defaults>>

\* An error, a lock that is held, or the process is done or killed.
Stop(p) ==
    /\ ~ IsAt(p, "down")
    /\ process' = [process EXCEPT ![p] = Down]
    /\ cut' = IF IsAt(p, "set") THEN cut \cup {process[p].scope} ELSE cut
    /\ UNCHANGED <<recorded, shape, signatures, made, standing>>

-----------------------------------------------------------------------------
(* Signatures. *)

\* The row id after the last.
NextId(i) ==
    /\ \A j \in Ids : signatures[j].used => j < i
    /\ i > 1 => signatures[i - 1].used

AddSignature(p, s) ==
    /\ IsAt(p, "ready")
    /\ \/ /\ process' = [process EXCEPT ![p].pc = "clear", ![p].id = 0, ![p].scope = s]
          /\ UNCHANGED signatures
       \/ /\ \E i \in Ids : NextId(i) /\ signatures' = [signatures EXCEPT ![i] = Row(s, FALSE)]
          /\ UNCHANGED process
    /\ UNCHANGED <<recorded, shape, defaults>>

\* The scope is read first; an error if there is no such row.
SetDefaultSignature(p, i) ==
    /\ IsAt(p, "ready") /\ signatures[i].used
    /\ process' = [process EXCEPT ![p].pc = "clear", ![p].id = i, ![p].scope = signatures[i].scope]
    /\ UNCHANGED <<recorded, shape, signatures, defaults>>

Cleared(p, S) ==
    LET s == process[p].scope IN
    /\ IsAt(p, "clear") /\ MoveTo(p, "set")
    /\ signatures' = [i \in Ids |->
         IF signatures[i].scope \in S THEN [signatures[i] EXCEPT !.default = FALSE] ELSE signatures[i]]
    /\ standing' = standing \ {s}
    /\ UNCHANGED <<recorded, shape, made, cut>>

\* Fault: account_slug = NULL finds no row.
ClearEqual(p) == Cleared(p, {process[p].scope} \ {Global})

clearDefaultSignature(p) == Cleared(p, {process[p].scope})

\* Row i, which is in scope t by now, gets the default.
SetIn(i, t) ==
    /\ signatures' = [signatures EXCEPT ![i] = Row(t, TRUE)]
    /\ made' = [made EXCEPT ![t] = (IF t \in standing THEN @ ELSE {}) \cup {i}]
    /\ standing' = standing \cup {t}

\* The INSERT of a new default, or the UPDATE, which may find no row, or one that
\* took the id in another scope.
SetDefaultRow(p) ==
    LET i == process[p].id
        s == process[p].scope
    IN  /\ IsAt(p, "set") /\ MoveTo(p, "ready")
        /\ \/ i = 0 /\ \E j \in Ids : NextId(j) /\ SetIn(j, s)
           \/ i # 0 /\ signatures[i].used /\ SetIn(i, signatures[i].scope)
           \/ i # 0 /\ ~ signatures[i].used /\ UNCHANGED <<signatures, made, standing>>
        /\ cut' = IF i = 0 \/ signatures[i] \in {Row(s, TRUE), Row(s, FALSE)} THEN cut \ {s} ELSE cut \cup {s}
        /\ UNCHANGED <<recorded, shape>>

RemoveSignature(p, i) ==
    /\ IsAt(p, "ready")
    /\ signatures' = [signatures EXCEPT ![i] = NoRow]
    /\ made' = [s \in Scopes |-> made[s] \ {i}]
    /\ UNCHANGED <<recorded, shape, process, standing, cut>>

NextDatabase ==
    \E p \in Processes :
      \/ OpenDatabase(p) \/ CheckMigration(p) \/ ApplyMigration(p) \/ Stop(p)
      \/ \E s \in Scopes : AddSignature(p, s)
      \/ \E i \in Ids : SetDefaultSignature(p, i) \/ RemoveSignature(p, i)
      \/ clearDefaultSignature(p) \/ SetDefaultRow(p)

DatabaseSpec == InitDatabase /\ [][NextDatabase]_databaseVars

-----------------------------------------------------------------------------
(* Properties. *)

Rows == [scope : Scopes, used : BOOLEAN, default : BOOLEAN]
Progress == [pc : {"down", "check", "apply", "ready", "clear", "set"},
             version : 1..Versions + 1, id : Ids \cup {0}, scope : Scopes]

DatabaseTypeOK ==
    /\ recorded \subseteq 1..Versions /\ shape \in Seq(1..Versions)
    /\ signatures \in [Ids -> Rows] /\ process \in [Processes -> Progress]
    /\ made \in [Scopes -> SUBSET Ids] /\ standing \subseteq Scopes /\ cut \subseteq Scopes

\* The migrations take effect in order and once each, and lose no signature,
\* however many processes of whatever builds open the database and die meanwhile
\* (db.go, migrate: the check is outside of the transaction).
Promise == INSTANCE Schema WITH SignatureIds <- Ids, done <- shape,
                                kept <- {i \in Ids : signatures[i].used}
StoreKeepsItsPromise == Promise!SchemaSpec

IsDefault(s, i) == signatures[i].used /\ signatures[i].default /\ signatures[i].scope = s
NoneIn(s) == \A i \in Ids : ~ IsDefault(s, i)

\* The first default of a scope, by id.
DefaultIn(s, i) == IsDefault(s, i) /\ \A j \in Ids : IsDefault(s, j) => i <= j

\* The signature i that a draft of account a gets.
DefaultSignature(a, i) == DefaultIn(a, i) \/ (NoneIn(a) /\ DefaultIn(Global, i))

\* There may be no default in s: none was made, or the last is cleared by a command
\* that is about to set another, or by one that ended before it did.
MayHaveNone(s) ==
    made[s] = {} \/ s \in cut \/ \E p \in Processes : IsAt(p, "set") /\ process[p].scope = s

\* A draft gets the signature that was last made the default of its account, or else
\* of all, or one of two that were made so at a time; never a former one, and none,
\* or that of all in place of the account's, only while a command is between clearing
\* the old and setting the new or after one that ended there (signature.go: two
\* statements with no transaction, by any number of processes).
DraftGetsTheDefault ==
    \A a \in Slugs :
      /\ \A i \in Ids : DefaultSignature(a, i) => i \in made[a] \/ (MayHaveNone(a) /\ i \in made[Global])
      /\ NoneIn(a) /\ NoneIn(Global) => MayHaveNone(a) /\ MayHaveNone(Global)

=============================================================================
