---------------------------- MODULE TuiSelection ----------------------------
(***************************************************************************)
(* What the TUI shows and what its keys name (internal/tui/app.go, with    *)
(* search.go, related.go, attachments.go and triage.go).  Lists, folders,  *)
(* bodies and results are loaded by commands that answer in any order, for *)
(* a selection that may have moved on.  Here is which folder and UID a     *)
(* command names; MoveUndo, FolderEdits and BodyCache have what it does.   *)
(***************************************************************************)
EXTENDS FiniteSets, Naturals, Bags

CONSTANTS
    None,
    FoldersOf,   \* the accounts, and the folders of each
    FirstUp,     \* the accounts configured at the start
    FirstKnown,  \* the folders synced before the start
    Deletable,   \* folders that may be deleted on the server
    Uids,        \* a folder has messages with some of these UIDs
    MaxCmds      \* bound: commands in flight; one more where an answer starts some

Accounts == DOMAIN FoldersOf
Places == UNION {{<<a, f>> : f \in FoldersOf[a]} : a \in Accounts}

\* A message as listed; the program keeps the UID only.
Item == [at : Places, uid : Uids]

ASSUME TuiSelectionAssumption ==
    /\ FirstUp \subseteq Accounts /\ FirstKnown \subseteq {p \in Places : p[1] \in FirstUp}
    /\ Deletable \subseteq Places /\ MaxCmds \in Nat
    /\ None \notin [item : Item, left : BOOLEAN]

VARIABLES
    accounts,    \* the accounts configured
    selected,    \* <<selectedAccount, selectedFolder>>
    folderPane, listPane,   \* the items of the two lists
    viewing,     \* the message open, or None; left is history: the selection has
                 \* moved away from it
    overlay,     \* search or related results shown, or None
    asking,      \* what is asked (purge?  move where?  save where?), or None; left
                 \* as for viewing
    cmds,        \* the commands in flight (a bag: the same one may be twice)
    synced,      \* the accounts that have a row
    known,       \* the folders that have a row
    gone,        \* folders deleted; as a bound, they are not created again
    behind       \* history: the selection has moved, and its list has not come since,
                 \* or what was begun for another selection may yet come over it

panes == <<accounts, folderPane, listPane>>
place == <<selected, behind>>
store == <<synced, known, gone>>
tuiVars == <<panes, place, viewing, overlay, asking, cmds, store>>

ItemsOf(p) == {[at |-> p, uid |-> u] : u \in Uids}
Listed(a) == {p \in known : p[1] = a}

\* Commands: loads, and those that name a message (folder at, UID of item;
\* astray is history: see behind and Left).
LoadAccounts == [kind |-> "accounts"]
LoadFolders(a) == [kind |-> "folders", at |-> <<a, None>>, got |-> None]
LoadMessages(p) == [kind |-> "messages", at |-> p, got |-> None]
FindMessages(a) == [kind |-> "find", at |-> <<a, None>>]
Naming(kind, p, i, astray) == [kind |-> kind, at |-> p, item |-> i, astray |-> astray]
Reload == {LoadMessages(selected), LoadFolders(selected[1])}

InitTui ==
    /\ accounts = FirstUp /\ selected = <<None, None>>
    /\ folderPane = {} /\ listPane = {} /\ viewing = None /\ overlay = None /\ asking = None
    /\ cmds = SetToBag({LoadAccounts}) /\ behind = TRUE
    /\ synced = {p[1] : p \in FirstKnown} /\ known = FirstKnown /\ gone = {}

-----------------------------------------------------------------------------
(* Answers. *)

\* Command c is answered, and Update starts the commands S.
Answer(c, S) ==
    /\ cmds' = (cmds (-) SetToBag({c})) (+) SetToBag(S)
    /\ BagCardinality(cmds') <= MaxCmds + 1

\* A load reads the cache now and answers later.  That of the folders has none if
\* it failed; one of messages that failed shows none.  Other clients and syncs see
\* to what a folder has.
Read(c) ==
    /\ c.kind \in {"folders", "messages"} /\ c.got = None
    /\ IF c.kind = "folders"
       THEN Answer(c, {[c EXCEPT !.got = IF c.at[1] \in synced THEN {Listed(c.at[1])} ELSE {}]})
       ELSE \E S \in SUBSET ItemsOf(c.at) :
              /\ c.at \notin known => S = {}
              /\ Answer(c, {[c EXCEPT !.got = {S}]})
    /\ UNCHANGED <<panes, place, viewing, overlay, asking, store>>

\* The selection moves to p, maybe away from the message open or asked about.
MovedOn(x, p) == IF x = None \/ p = selected THEN x ELSE [x EXCEPT !.left = TRUE]
Select(p) ==
    /\ selected' = p /\ behind' = (behind \/ p # selected)
    /\ viewing' = MovedOn(viewing, p) /\ asking' = MovedOn(asking, p)

accountsLoaded(c) ==
    /\ c.kind = "accounts"
    /\ \E a \in accounts :
         /\ selected[1] \in accounts => a = selected[1]
         /\ Select(<<a, selected[2]>>)
         /\ Answer(c, {LoadFolders(a)})
    /\ UNCHANGED <<panes, overlay, store>>

\* The account selected is not compared with the one the folders are of.
foldersLoaded(c) ==
    /\ c.kind = "folders" /\ c.got # None
    /\ \/ /\ c.got = {}                              \* an error
          /\ folderPane' = {} /\ Answer(c, {})
          /\ UNCHANGED <<place, listPane, viewing, asking>>
       \/ /\ c.got = {{}}
          /\ folderPane' = {} /\ listPane' = {}
          /\ Select(<<selected[1], None>>) /\ Answer(c, {})
       \/ /\ c.got \notin {{}, {{}}}
          /\ folderPane' = UNION c.got
          /\ \E p \in folderPane' :
               /\ (\E q \in folderPane' : q[2] = selected[2]) => p[2] = selected[2]
               /\ Select(<<selected[1], p[2]>>) /\ Answer(c, {LoadMessages(p)})
          /\ UNCHANGED listPane
    /\ UNCHANGED <<accounts, overlay, store>>

\* What command c was begun for is what is selected.
OfSelection(c) ==
    /\ c.kind # "accounts"
    /\ c.kind = "messages" => c.at = selected
    /\ c.kind \in {"folders", "find"} => c.at[1] = selected[1]

\* Nor is the folder selected with the one the messages are of.
messagesLoaded(c) ==
    /\ c.kind = "messages" /\ c.got # None
    /\ listPane' = UNION c.got
    /\ Answer(c, {})
    /\ behind' = (behind /\ ~ (/\ overlay = None /\ c.at = selected
                               /\ \A d \in BagToSet(cmds') : OfSelection(d)))
    /\ UNCHANGED <<accounts, folderPane, selected, viewing, overlay, asking, store>>

\* Search and Related: what the index or the headers give is some of what the
\* account has cached; all of it is shown, the user picks.
Findable(a) == UNION {ItemsOf(p) : p \in Listed(a)}

found(c) ==
    /\ c.kind = "find"
    /\ overlay' = IF c.at[1] \in synced THEN Findable(c.at[1]) ELSE overlay
    /\ Answer(c, {})
    /\ UNCHANGED <<panes, place, viewing, asking, store>>

\* The viewer shows what arrives last, whatever is selected by then.
messageBodyLoaded(c) ==
    /\ c.kind = "body"
    /\ \/ Answer(c, {}) /\ UNCHANGED viewing         \* an error or a timeout
       \/ /\ c.at \in known
          /\ viewing' = [item |-> c.item, left |-> c.astray \/ c.at # selected]
          /\ Answer(c, Reload)
    /\ UNCHANGED <<panes, place, overlay, asking, store>>

attachmentSaved(c) ==
    /\ c.kind = "save" /\ Answer(c, {})
    /\ UNCHANGED <<panes, place, viewing, overlay, asking, store>>

\* Moves, purges and flags, done or failed.
triageResult(c) ==
    /\ c.kind = "triage" /\ Answer(c, Reload)
    /\ UNCHANGED <<panes, place, viewing, overlay, asking, store>>

moveMessageResult(c) ==
    /\ c.kind = "spam"
    /\ \/ Answer(c, {}) /\ UNCHANGED viewing         \* an error
       \/ viewing' = None /\ Answer(c, Reload)
    /\ UNCHANGED <<panes, place, overlay, asking, store>>

-----------------------------------------------------------------------------
(* Keys. *)

Begin(S) ==
    /\ BagCardinality(cmds) < MaxCmds
    /\ cmds' = cmds (+) SetToBag(S)

Press(S) == Begin(S) /\ UNCHANGED <<accounts, folderPane, store>>

Main == overlay = None /\ asking = None /\ viewing = None
Viewer == overlay = None /\ asking = None /\ viewing # None

openAccount(a) ==
    /\ Main /\ a \in accounts \ {selected[1]}
    /\ Select(<<a, selected[2]>>)
    /\ Press({LoadFolders(a)})
    /\ UNCHANGED <<listPane, overlay>>

\* The form is submitted, the sign-in done: the answer selects the account.
accountAdded(a) ==
    /\ Main /\ a \notin accounts
    /\ accounts' = accounts \cup {a} /\ Select(<<a, selected[2]>>)
    /\ Begin({LoadAccounts})
    /\ UNCHANGED <<folderPane, listPane, overlay, store>>

openFolder(p) ==
    /\ Main /\ p \in folderPane /\ p[2] # selected[2]
    /\ Select(<<selected[1], p[2]>>)
    /\ Press({LoadMessages(selected')})
    /\ UNCHANGED <<listPane, overlay>>

Name(kind, i, astray) == Naming(kind, selected, i, astray)

openMessage(i) ==
    /\ Main /\ i \in listPane
    /\ Press({Name("body", i, behind)})
    /\ UNCHANGED <<listPane, place, viewing, overlay, asking>>

\* triageTarget: the open message, or else one of the list; history: whether the
\* selection moved on from it.
Targets == IF viewing # None THEN {viewing.item} ELSE listPane
Left == IF viewing # None THEN viewing.left ELSE behind

\* removeMessageItem and the viewer: the message is taken off at once.
beginMove(i, astray) ==
    /\ listPane' = {x \in listPane : x.uid # i.uid} /\ viewing' = None
    /\ Press({Name("triage", i, astray)})

\* In the Trash, and to choose a folder, there is a question first.
handleTriageKey(i) ==
    /\ Main \/ Viewer
    /\ i \in Targets
    /\ \/ beginMove(i, Left) /\ UNCHANGED asking
       \/ /\ asking' = [what |-> "move", item |-> i, left |-> Left]
          /\ Press({}) /\ UNCHANGED <<listPane, viewing>>
       \/ /\ Press({Name("triage", i, Left)}) /\ UNCHANGED <<asking, listPane, viewing>>
    /\ UNCHANGED <<place, overlay>>

\* updateConfirmPurge and updatePickingFolder: the message is the one asked
\* about, the folder the one selected by now.
answerQuestion ==
    /\ overlay = None /\ asking # None /\ asking.what = "move"
    /\ asking' = None
    /\ \/ beginMove(asking.item, asking.left)
       \/ Press({}) /\ UNCHANGED <<listPane, viewing>>
    /\ UNCHANGED <<place, overlay>>

toggleSpam(i) ==
    /\ Main \/ Viewer
    /\ i \in Targets
    /\ Press({Name("spam", i, Left)})
    /\ UNCHANGED <<listPane, place, viewing, overlay, asking>>

beginSaveAttachment ==
    /\ Viewer
    /\ asking' = [what |-> "save", item |-> viewing.item, left |-> Left]
    /\ Press({})
    /\ UNCHANGED <<listPane, place, viewing, overlay>>

\* The UID is that of the message open by now.
updateSavingAttachment ==
    /\ overlay = None /\ asking # None /\ asking.what = "save"
    /\ asking' = None
    /\ \/ viewing # None /\ Press({Name("save", viewing.item, Left)})
       \/ Press({})
    /\ UNCHANGED <<listPane, place, viewing, overlay>>

closeViewer ==
    /\ Viewer /\ viewing' = None /\ Press({})
    /\ UNCHANGED <<listPane, place, overlay, asking>>

search ==
    /\ Main \/ Viewer
    /\ selected[1] # None /\ Press({FindMessages(selected[1])})
    /\ UNCHANGED <<listPane, place, viewing, overlay, asking>>

closeResults ==
    /\ overlay # None /\ overlay' = None /\ Press({})
    /\ UNCHANGED <<listPane, place, viewing, asking>>

\* Fault: the folder selected stays.
openResultHere(i) ==
    /\ overlay # None /\ i \in overlay /\ overlay' = None
    /\ Press({Name("body", i, behind), LoadMessages(selected)})
    /\ UNCHANGED <<listPane, place, viewing, asking>>

\* A result opens in its folder, which is selected.
openResult(i) ==
    /\ overlay # None /\ i \in overlay /\ overlay' = None
    /\ Select(<<selected[1], i.at[2]>>)
    /\ Press({Naming("body", selected', i, behind), LoadMessages(selected')})
    /\ UNCHANGED listPane

-----------------------------------------------------------------------------
(* Syncs. *)

syncDone ==
    /\ selected[1] # None /\ Begin({LoadFolders(selected[1])})
    /\ UNCHANGED <<panes, place, viewing, overlay, asking, store>>

\* UpsertAccount, UpsertFolder and DeleteFoldersNotIn, by any process.
SyncWrites ==
    /\ \/ /\ \E a \in accounts \ synced : synced' = synced \cup {a}
          /\ UNCHANGED <<known, gone>>
       \/ /\ \E p \in Places \ (known \cup gone) : p[1] \in synced /\ known' = known \cup {p}
          /\ UNCHANGED <<synced, gone>>
       \/ /\ \E p \in known \cap Deletable : known' = known \ {p} /\ gone' = gone \cup {p}
          /\ UNCHANGED synced
    /\ UNCHANGED <<panes, place, viewing, overlay, asking, cmds>>

NextTui ==
    \/ \E c \in BagToSet(cmds) :
         \/ Read(c) \/ accountsLoaded(c) \/ foldersLoaded(c) \/ messagesLoaded(c) \/ found(c)
         \/ messageBodyLoaded(c) \/ attachmentSaved(c) \/ triageResult(c) \/ moveMessageResult(c)
    \/ \E a \in Accounts : openAccount(a) \/ accountAdded(a)
    \/ \E p \in folderPane : openFolder(p)
    \/ \E i \in listPane : openMessage(i)
    \/ \E i \in Targets : handleTriageKey(i) \/ toggleSpam(i)
    \/ answerQuestion \/ beginSaveAttachment \/ updateSavingAttachment \/ closeViewer
    \/ search \/ closeResults
    \/ overlay # None /\ \E i \in overlay : openResult(i)
    \/ syncDone \/ SyncWrites

TuiSpec == InitTui /\ [][NextTui]_tuiVars

-----------------------------------------------------------------------------
(* Properties. *)

TuiTypeOK ==
    /\ selected \in (Accounts \cup {None}) \X ((UNION {FoldersOf[a] : a \in Accounts}) \cup {None})
    /\ folderPane \subseteq Places /\ listPane \subseteq Item
    /\ viewing # None => viewing.item \in Item
    /\ overlay # None => overlay \subseteq Item
    /\ known \subseteq {p \in Places : p[1] \in synced} /\ synced \subseteq accounts

\* A key acts on the message that is shown: the folder it names, the one selected,
\* is the message's own, whatever was loaded, searched, opened and synced before,
\* and whatever is still to be answered (app.go: openMessageCmd, beginMove and their
\* like send selectedFolder with the UID of an item).  Excepted are a key pressed on
\* a list that is behind the selection, and one on a message that was opened or
\* asked about before the selection moved on.
KeysNameWhatIsShown ==
    \A c \in BagToSet(cmds) :
      c.kind \in {"body", "save", "triage", "spam"} => c.at = c.item.at \/ c.astray

\* The triage keys act on their target, the open message or the selection in the
\* list (triage.go: the comment of triageTarget).  They need not: the list of the
\* folder left is shown until that of the folder selected comes, and a key sends its
\* UIDs with the folder selected.
TriageActsOnTarget ==
    \A c \in BagToSet(cmds) : c.kind = "triage" => c.at = c.item.at

=============================================================================
