---------------------------- MODULE AccountSync ----------------------------
(***************************************************************************)
(* Which folders of an account are cached: SyncAccount of                  *)
(* internal/sync/sync.go, run by several processes, on a server whose      *)
(* folders come and go.  FolderSync has what a sync does to one folder;    *)
(* here a folder has one message, of the same UID in each, that never      *)
(* changes, and its row may go away while it is synced.                    *)
(***************************************************************************)
EXTENDS FiniteSets, Naturals

CONSTANTS
    Passes,       \* the syncs that may be under way at a time
    Paths,
    MaxEvents   \* bound: folders created, deleted and renamed, folders that fail to
                \* sync, and syncs that are cut short

ASSUME AccountSyncAssumption == MaxEvents \in Nat /\ IsFiniteSet(Paths)

VARIABLES
    remote,      \* the folders that LIST reports and that can be selected
    folderRow,   \* folderRow[p]: its id, and if a sync was recorded; id 0: no row
    message,     \* message[i]: the folder that the message of row i came from
    pass,        \* pass[s]: the progress of one sync
    events,
    undercut     \* history: folders that a sync stored into, or recorded, for a folder
                 \* whose row was removed since the sync began: the row is another by
                 \* now, of that folder or of one that has its id

syncVars == <<remote, folderRow, message, pass, events, undercut>>

RowIds == 1 .. MaxEvents + Cardinality(Paths) + 1    \* more than are ever in use
NoFolderRow == [id |-> 0, recorded |-> FALSE]
Nothing == "nothing"
RowPaths == {p \in Paths : folderRow[p].id # 0}

\* todo: what is left of LIST, listed; prior: the folders known to be recorded;
\* path and id: the folder at hand; fetched: its message is new.  removed is
\* history: the folders whose rows were removed since prior was read.
NoPass == [pc |-> "none", listed |-> {}, todo |-> {}, prior |-> {}, path |-> Nothing, id |-> 0,
           fetched |-> FALSE, removed |-> {}]

InitAccountSync ==
    /\ remote = Paths
    /\ folderRow = [p \in Paths |-> NoFolderRow] /\ message = <<>>
    /\ pass = [s \in Passes |-> NoPass]
    /\ events = 0 /\ undercut = {}

On(s, pc) == pass[s].pc = pc
Go(s, pc) == pass' = [pass EXCEPT ![s].pc = pc]

\* The folder comes, goes, or comes back with its UIDVALIDITY (a rename, a label
\* that is shown over IMAP or not).
ChangeFolders(p) ==
    /\ events < MaxEvents /\ events' = events + 1
    /\ remote' = IF p \in remote THEN remote \ {p} ELSE remote \cup {p}
    /\ UNCHANGED <<folderRow, message, pass, undercut>>

BeginSync(s) ==
    /\ On(s, "none")
    /\ pass' = [pass EXCEPT ![s] = [NoPass EXCEPT !.pc = "known", !.listed = remote, !.todo = remote]]
    /\ UNCHANGED <<remote, folderRow, message, events, undercut>>

\* db.ListFolders.
ReadPrior(s) ==
    /\ On(s, "known")
    /\ pass' = [pass EXCEPT ![s].pc = "next", ![s].prior = {p \in Paths : folderRow[p].recorded}]
    /\ UNCHANGED <<remote, folderRow, message, events, undercut>>

\* The row id after the last, unless there is a row.
UpsertFolder(s, p) ==
    /\ On(s, "next") /\ p \in pass[s].todo
    /\ \E i \in RowIds :
         /\ IF folderRow[p].id # 0 THEN i = folderRow[p].id /\ UNCHANGED <<folderRow, message>>
            ELSE /\ \A q \in Paths : folderRow[q].id < i
                 /\ i = 1 \/ \E q \in Paths : folderRow[q].id = i - 1
                 /\ folderRow' = [folderRow EXCEPT ![p] = [id |-> i, recorded |-> FALSE]]
                 /\ message' = [j \in DOMAIN message \cup {i} |-> IF j = i THEN Nothing ELSE message[j]]
         /\ pass' = [pass EXCEPT ![s].pc = "select", ![s].path = p, ![s].id = i,
                                 ![s].todo = @ \ {p}]
    /\ UNCHANGED <<remote, events, undercut>>

\* SELECT fails if the folder is gone.
SelectAndDiff(s) ==
    LET p == pass[s].path IN
    /\ On(s, "select")
    /\ \/ /\ p \in remote
          /\ pass' = [pass EXCEPT ![s].pc = "store",
               ![s].fetched = /\ p \notin pass[s].prior
                              /\ \A i \in DOMAIN message : i = pass[s].id => message[i] = Nothing]
       \/ p \notin remote /\ Go(s, "next")
    /\ UNCHANGED <<remote, folderRow, message, events, undercut>>

Owner(s) == {p \in Paths : folderRow[p].id = pass[s].id}
Undercuts(s) == undercut' = IF pass[s].path \in pass[s].removed THEN undercut \cup Owner(s) ELSE undercut

\* A row that is not one of rows fails the foreign key.
StoreIn(s, rows) ==
    LET i == pass[s].id IN
    /\ On(s, "store")
    /\ \/ /\ pass[s].fetched /\ i \in rows
          /\ message' = [j \in DOMAIN message \cup {i} |-> IF j = i THEN pass[s].path ELSE message[j]]
          /\ Go(s, "record") /\ Undercuts(s)
       \/ pass[s].fetched /\ i \notin rows /\ Go(s, "next") /\ UNCHANGED <<message, undercut>>
       \/ ~ pass[s].fetched /\ Go(s, "record") /\ UNCHANGED <<message, undercut>>
    /\ UNCHANGED <<remote, folderRow, events>>

\* Fault: foreign keys are not enforced.
StoreAnywhere(s) == StoreIn(s, RowIds)

StoreMessage(s) == StoreIn(s, DOMAIN message)

\* UpdateFolderSyncState, of whatever row has the id by now.
RecordState(s) ==
    /\ On(s, "record") /\ Go(s, "next")
    /\ folderRow' = [p \in Paths |-> IF p \in Owner(s) THEN [folderRow[p] EXCEPT !.recorded = TRUE]
                                     ELSE folderRow[p]]
    /\ Undercuts(s)
    /\ UNCHANGED <<remote, message, events>>

\* An error in one folder; the sync goes on with the next.
FailAt(s, pc) ==
    /\ pass[s].pc \in {"select", "store", "record"} /\ events < MaxEvents /\ events' = events + 1
    /\ Go(s, pc)
    /\ UNCHANGED <<remote, folderRow, message, undercut>>

\* Fault: the error is logged, and the folder's state recorded.
FolderFailsAndGoesOn(s) == FailAt(s, "record")

FolderFails(s) == FailAt(s, "next")

\* DeleteFoldersNotIn: the rows go, with their messages.
Reconcile(s, Gone) ==
    /\ On(s, "next") /\ pass[s].todo = {}
    /\ folderRow' = [p \in Paths |-> IF p \in Gone THEN NoFolderRow ELSE folderRow[p]]
    /\ message' = [i \in {folderRow'[p].id : p \in Paths} \ {0} |-> message[i]]
    /\ pass' = [r \in Passes |->
         IF r = s THEN NoPass
         ELSE [pass[r] EXCEPT !.removed = IF On(r, "none") \/ On(r, "known") THEN @ ELSE @ \cup Gone]]
    /\ undercut' = undercut \ Gone
    /\ UNCHANGED <<remote, events>>

\* Fault: folders that are gone from the server stay.
ReconcileNone(s) == Reconcile(s, {})

DeleteFoldersNotIn(s) == Reconcile(s, RowPaths \ pass[s].listed)

\* The connection to LIST fails, or the process is killed.
EndSync(s) ==
    /\ ~ On(s, "none") /\ events < MaxEvents /\ events' = events + 1
    /\ pass' = [pass EXCEPT ![s] = NoPass]
    /\ UNCHANGED <<remote, folderRow, message, undercut>>

StepOfSync(s) ==
    \/ BeginSync(s) \/ ReadPrior(s) \/ SelectAndDiff(s) \/ StoreMessage(s) \/ RecordState(s)
    \/ \E p \in Paths : UpsertFolder(s, p)
    \/ DeleteFoldersNotIn(s)

NextAccountSync ==
    \/ \E p \in Paths : ChangeFolders(p)
    \/ \E s \in Passes : StepOfSync(s) \/ FolderFails(s) \/ EndSync(s)

AccountSyncSpec == InitAccountSync /\ [][NextAccountSync]_syncVars

-----------------------------------------------------------------------------
(* Properties. *)

AccountSyncTypeOK ==
    /\ remote \subseteq Paths /\ undercut \subseteq Paths
    /\ folderRow \in [Paths -> [id : RowIds \cup {0}, recorded : BOOLEAN]]
    /\ DOMAIN message = {folderRow[p].id : p \in RowPaths}
    /\ \A i \in DOMAIN message : message[i] \in Paths \cup {Nothing}

\* A folder that was recorded as synced has its messages, and its own, whichever
\* syncs overlap, fail and remove folders, unless one was synced by a row that was
\* removed (sync.go: what is known of the folders is read once, and only what
\* changed since is fetched).
FoldersWhole ==
    \A p \in RowPaths \ undercut : folderRow[p].recorded => message[folderRow[p].id] = p

\* Once the folders of the server are left alone, and syncs no longer fail, those
\* cached are those of the server, for good, and have been synced.
FoldersConverge ==
    <>[](RowPaths = remote /\ \A p \in remote : folderRow[p].recorded)

=============================================================================
