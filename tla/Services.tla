------------------------------ MODULE Services ------------------------------
(***************************************************************************)
(* The parts of pigeon that share no state with one another, side by side: *)
(* what the TUI shows and names, the bodies, the folders of an account,    *)
(* the accounts, the database with its signatures, and the log.  A         *)
(* behaviour is one of one part, the others at rest: as no step of a part  *)
(* reads or changes the state of another, their interleavings add nothing. *)
(***************************************************************************)
EXTENDS TuiSelection, BodyCache, AccountSync, Accounts, Database, LogPages

VARIABLE part

servicesVars == <<part, tuiVars, bodyVars, syncVars, accountVars, databaseVars, logVars>>

InitServices ==
    /\ part \in {"tui", "bodies", "folders", "accounts", "database", "log"}
    /\ InitTui /\ InitBodies /\ InitAccountSync /\ InitAccounts /\ InitDatabase /\ InitLog

OnlyFolders ==
    /\ part = "folders"
    /\ UNCHANGED <<part, tuiVars, bodyVars, accountVars, databaseVars, logVars>>

NextServices ==
    \/ /\ part = "tui" /\ NextTui
       /\ UNCHANGED <<part, bodyVars, syncVars, accountVars, databaseVars, logVars>>
    \/ /\ part = "bodies" /\ NextBodies
       /\ UNCHANGED <<part, tuiVars, syncVars, accountVars, databaseVars, logVars>>
    \/ OnlyFolders /\ NextAccountSync
    \/ /\ part = "accounts" /\ NextAccounts
       /\ UNCHANGED <<part, tuiVars, bodyVars, syncVars, databaseVars, logVars>>
    \/ /\ part = "database" /\ NextDatabase
       /\ UNCHANGED <<part, tuiVars, bodyVars, syncVars, accountVars, logVars>>
    \/ /\ part = "log" /\ NextLog
       /\ UNCHANGED <<part, tuiVars, bodyVars, syncVars, accountVars, databaseVars>>

ServicesSpec == InitServices /\ [][NextServices]_servicesVars

\* Every process that syncs goes on with its sync, and starts another by and by
\* (the tick of the TUI).
FairServicesSpec == ServicesSpec /\ \A s \in Passes : WF_servicesVars(OnlyFolders /\ StepOfSync(s))

-----------------------------------------------------------------------------

\* Every part is well typed.
ServicesTypeOK ==
    TuiTypeOK /\ BodiesTypeOK /\ AccountSyncTypeOK /\ AccountsTypeOK /\ DatabaseTypeOK /\ LogTypeOK

\* FoldersConverge, in a behaviour of the syncs (sync.go, SyncAccount).
FoldersAreThoseOfServer == part = "folders" => FoldersConverge

=============================================================================
