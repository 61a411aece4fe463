---------------------------- MODULE LiveUpdates ----------------------------
(***************************************************************************)
(* How the TUI keeps up with the server: the IDLE watcher of the folder    *)
(* shown (internal/tui/idle.go, internal/sync/watch.go), the sync it runs  *)
(* in the background and its progress stream (internal/tui/sync.go), and   *)
(* the cases of App.Update their messages reach.  Update handles one       *)
(* message at a time; messages of different goroutines come in any order.  *)
(* One account.                                                            *)
(***************************************************************************)
EXTENDS Naturals, FiniteSets

CONSTANTS
    Folders,
    Watchers,      \* goroutines of startIdleCmd, each with a channel of its own
    None,          \* no watcher, or no folder
    MaxMsgs,       \* bound: messages of one kind that wait for Update
    MaxListeners   \* bound: goroutines listening on one channel

ASSUME LiveUpdatesAssumption ==
    /\ None \notin Folders \cup Watchers
    /\ MaxMsgs \in Nat \ {0} /\ MaxListeners \in Nat \ {0}

VARIABLES
    selected,   \* selectedFolder
    loading,    \* folders whose message list is being loaded (two loads of
                \* one list count as one)
    effect,     \* idleFolder, and the watcher idleCancel and idleCh belong to
    watch,      \* watch[w]: the watcher goroutine w and its channel
    listeners,  \* listeners[w]: goroutines of listenIdleCmd on the channel of w
    updates,    \* idleUpdateMsgs that wait
    syncCh,     \* is syncCh set
    sync,       \* the goroutine of startSyncCmd
    readers,    \* goroutines of listenSyncProgressCmd on syncCh
    progress,   \* syncProgressMsgs that wait
    reported    \* history: the watcher in effect heard of a change while no
                \* sync ran, and the folder has not had its turn in one since

idle == <<effect, watch, listeners, updates>>
stream == <<syncCh, sync, readers, progress>>
vars == <<selected, loading, idle, stream, reported>>

Watcher == [pc : {"none", "connecting", "idle", "stopped"},
            folder : Folders \cup {None}, cancelled : BOOLEAN, signal : BOOLEAN]
NoWatcher == [pc |-> "none", folder |-> None, cancelled |-> FALSE, signal |-> FALSE]

\* A sync reads the folders left one by one, sends a progress report after
\* each, and is done.
Sync == [pc : {"none", "work", "send", "done"}, left : SUBSET Folders]
NoSync == [pc |-> "none", left |-> {}]

Init ==
    /\ selected \in Folders
    /\ loading = {selected}
    /\ effect = [folder |-> None, w |-> None]
    /\ watch = [w \in Watchers |-> NoWatcher]
    /\ listeners = [w \in Watchers |-> 0] /\ updates = 0
    /\ syncCh = FALSE /\ sync = NoSync /\ readers = 0 /\ progress = 0
    /\ reported = FALSE

-----------------------------------------------------------------------------
(* The selection and the loading. *)

openSelection(f) ==
    /\ selected' = f
    /\ loading' = loading \cup {f}
    /\ UNCHANGED <<idle, stream, reported>>

LoadFails ==
    /\ \E f \in loading : loading' = loading \ {f}
    /\ UNCHANGED <<selected, idle, stream, reported>>

-----------------------------------------------------------------------------
(* The watcher. *)

\* A watcher that goes on and that nobody can cancel any more: the TUI has
\* forgotten it.
Stray(w) ==
    watch[w].pc \in {"connecting", "idle"} /\ ~ watch[w].cancelled /\ w # effect.w

\* (Bounds: the slot of a stray watcher may be used again, which from then on
\* hears nothing; a signal still pending on the channel of an ended watcher is
\* heard before its slot is used again, or never.)
Free(w) == watch[w].pc = "none" \/ Stray(w)

\* The watcher in effect is kept if it is of folder f, else cancelled, unless
\* it has ended, and another one started.
restartIdleCmd(f) ==
    IF effect = [folder |-> f, w |-> effect.w] /\ effect.w # None
    THEN UNCHANGED <<effect, watch, listeners, reported>>
    ELSE \E w \in Watchers :
           /\ Free(w)
           /\ effect' = [folder |-> f, w |-> w]
           /\ watch' = [v \in Watchers |->
                 IF v = w THEN [NoWatcher EXCEPT !.pc = "connecting", !.folder = f]
                 ELSE IF v = effect.w
                 THEN [watch[v] EXCEPT !.cancelled = watch[v].pc # "stopped"]
                 ELSE watch[v]]
           /\ listeners' = [listeners EXCEPT ![w] = 1]
           /\ reported' = FALSE

messagesLoaded(f) ==
    /\ f \in loading /\ loading' = loading \ {f}
    /\ restartIdleCmd(f)
    /\ UNCHANGED <<selected, updates, stream>>

\* DialClientWithUpdates and SELECT; Idle begins.
Connect(w) ==
    /\ watch[w].pc = "connecting" /\ ~ watch[w].cancelled
    /\ watch' = [watch EXCEPT ![w].pc = "idle"]
    /\ UNCHANGED <<selected, loading, effect, listeners, updates, stream, reported>>

\* No connection, no IDLE on this server, or the connection is lost.
WatchFails(w) ==
    /\ watch[w].pc \in {"connecting", "idle"} /\ ~ watch[w].cancelled
    /\ watch' = [watch EXCEPT ![w].pc = "stopped"]
    /\ UNCHANGED <<selected, loading, effect, listeners, updates, stream, reported>>

Cancelled(w) ==
    /\ watch[w].pc \in {"connecting", "idle"} /\ watch[w].cancelled
    /\ watch' = [watch EXCEPT ![w].pc = "stopped", ![w].cancelled = FALSE]
    /\ UNCHANGED <<selected, loading, effect, listeners, updates, stream, reported>>

\* New mail in folder f: every watcher of f signals, unless a signal is
\* pending.  (Nothing else is heard: DialClientWithUpdates sets no handler for
\* flags and expunges.)
NewMail(f) ==
    /\ \E w \in Watchers : watch[w].pc = "idle" /\ watch[w].folder = f
    /\ watch' = [w \in Watchers |-> IF watch[w].pc = "idle" /\ watch[w].folder = f
                                    THEN [watch[w] EXCEPT !.signal = TRUE] ELSE watch[w]]
    /\ reported' = (\/ reported
                    \/ /\ ~ syncCh
                       /\ \E w \in Watchers : /\ w = effect.w
                                             /\ watch[w].pc = "idle" /\ watch[w].folder = f)
    /\ UNCHANGED <<selected, loading, effect, listeners, updates, stream>>

\* (The bound on listeners is for the channel in effect, which gets the
\* listeners of the ones before.)
listenIdleCmd(w) ==
    /\ watch[w].signal /\ listeners[w] > 0
    /\ updates < MaxMsgs
    /\ \A v \in Watchers : v = effect.w /\ v # w => listeners[v] + updates < MaxListeners
    /\ watch' = [watch EXCEPT ![w].signal = FALSE]
    /\ listeners' = [listeners EXCEPT ![w] = @ - 1]
    /\ updates' = updates + 1
    /\ UNCHANGED <<selected, loading, effect, stream, reported>>

\* Only a signal still pending is ever heard from the channel of a watcher
\* that has ended.
Abandon(w) ==
    LET pending == watch[w].signal /\ listeners[w] > 0
    IN /\ watch' = [watch EXCEPT ![w] = [NoWatcher EXCEPT !.signal = pending]]
       /\ listeners' = [listeners EXCEPT ![w] = IF pending THEN 1 ELSE 0]

\* Fault: a watcher that failed stays in effect.
StoppedKept(w) ==
    /\ watch[w].pc = "stopped"
    /\ Abandon(w)
    /\ UNCHANGED <<selected, loading, effect, updates, stream, reported>>

\* The watcher is told by its folder.
idleStopped(w) ==
    /\ watch[w].pc = "stopped"
    /\ effect' = IF watch[w].folder = effect.folder THEN [effect EXCEPT !.w = None] ELSE effect
    /\ Abandon(w)
    /\ UNCHANGED <<selected, loading, updates, stream, reported>>

-----------------------------------------------------------------------------
(* The sync. *)

startSync ==
    /\ progress < MaxMsgs
    /\ syncCh' = TRUE
    /\ sync' = [pc |-> "work", left |-> Folders]
    /\ readers' = 1

\* Fault: nobody listens for the next signal.
idleUpdateOnce ==
    /\ updates > 0
    /\ updates' = updates - 1
    /\ IF syncCh THEN UNCHANGED <<syncCh, sync, readers>> ELSE startSync
    /\ UNCHANGED <<selected, loading, effect, watch, listeners, progress, reported>>

\* Fault: the hint starts no sync.
idleUpdateIgnored ==
    /\ updates > 0
    /\ updates' = updates - 1
    /\ listeners' = [w \in Watchers |-> IF w = effect.w THEN listeners[w] + 1 ELSE listeners[w]]
    /\ UNCHANGED <<selected, loading, effect, watch, stream, reported>>

\* The channel in effect gets a listener, whichever the signal came from.
idleUpdate ==
    /\ updates > 0
    /\ updates' = updates - 1
    /\ listeners' = [w \in Watchers |-> IF w = effect.w THEN listeners[w] + 1 ELSE listeners[w]]
    /\ IF syncCh THEN UNCHANGED <<syncCh, sync, readers>> ELSE startSync
    /\ UNCHANGED <<selected, loading, effect, watch, progress, reported>>

\* The tick of the background sync; also the s key, an undo, a new account.
syncTick ==
    /\ ~ syncCh /\ startSync
    /\ UNCHANGED <<selected, loading, idle, progress, reported>>

\* The folder is read, or fails to be, which the report says.
SyncFolder(f) ==
    /\ sync.pc = "work" /\ f \in sync.left
    /\ sync' = [pc |-> "send", left |-> sync.left \ {f}]
    /\ reported' = (reported /\ f # effect.folder)
    /\ UNCHANGED <<selected, loading, idle, syncCh, readers, progress>>

\* Fault: the report is sent to nobody.
SendUnheard ==
    /\ sync.pc = "send"
    /\ sync' = [sync EXCEPT !.pc = "work"]
    /\ readers' = readers - 1 /\ progress' = progress + 1
    /\ UNCHANGED <<selected, loading, idle, syncCh, reported>>

\* The channel has no buffer: a listener has to be there.
SendProgress ==
    /\ sync.pc = "send" /\ readers > 0
    /\ sync' = [sync EXCEPT !.pc = "work"]
    /\ readers' = readers - 1 /\ progress' = progress + 1
    /\ UNCHANGED <<selected, loading, idle, syncCh, reported>>

\* The channel is closed: its listeners end.
Close ==
    /\ sync' = [pc |-> "done", left |-> {}]
    /\ readers' = 0
    /\ UNCHANGED <<selected, loading, idle, syncCh, progress>>

SyncEnds == sync.pc = "work" /\ sync.left = {} /\ Close /\ UNCHANGED reported

\* The connection is lost, or was not made: syncDone says so.
SyncFails == sync.pc = "work" /\ Close /\ reported' = FALSE

\* Fault: the reports of the rest of the sync find no listener.
syncProgressOnce ==
    /\ progress > 0
    /\ progress' = progress - 1
    /\ UNCHANGED <<selected, loading, idle, syncCh, sync, readers, reported>>

\* A listener for the sync that runs now, be it a later one than reported.
\* (On a nil channel it waits for ever, on a closed one it ends.)
syncProgress ==
    /\ progress > 0
    /\ progress' = progress - 1
    /\ readers' = IF syncCh /\ sync.pc # "done" THEN readers + 1 ELSE readers
    /\ UNCHANGED <<selected, loading, idle, syncCh, sync, reported>>

\* The folders are loaded again, and then the messages of the one selected
\* (two loads taken as one).
syncDone ==
    /\ sync.pc = "done"
    /\ syncCh' = FALSE /\ sync' = NoSync
    /\ loading' = loading \cup {selected}
    /\ UNCHANGED <<selected, idle, readers, progress, reported>>

-----------------------------------------------------------------------------
SyncWorks == (\E f \in Folders : SyncFolder(f)) \/ SendProgress \/ SyncEnds

Fails ==
    \/ LoadFails \/ SyncFails
    \/ \E w \in Watchers : WatchFails(w)

Next ==
    \/ \E f \in Folders : openSelection(f) \/ messagesLoaded(f) \/ NewMail(f)
    \/ \E w \in Watchers : Connect(w) \/ Cancelled(w) \/ listenIdleCmd(w) \/ idleStopped(w)
    \/ idleUpdate \/ syncTick \/ SyncWorks \/ syncProgress \/ syncDone
    \/ Fails

Spec == Init /\ [][Next]_vars

\* Goroutines get on, Update handles every message, and the timer ticks again
\* and again; the user and the server do as they like.
FairSpec ==
    /\ Spec
    /\ WF_vars(\E f \in Folders : messagesLoaded(f))
    /\ WF_vars(\E w \in Watchers : Connect(w) \/ Cancelled(w) \/ idleStopped(w))
    /\ WF_vars(SyncWorks \/ syncDone \/ syncTick) /\ WF_vars(syncProgress)

-----------------------------------------------------------------------------
(* Properties. *)

TypeOK ==
    /\ selected \in Folders
    /\ loading \subseteq Folders
    /\ effect \in [folder : Folders \cup {None}, w : Watchers \cup {None}]
    /\ watch \in [Watchers -> Watcher]
    /\ listeners \in [Watchers -> Nat] /\ updates \in Nat
    /\ syncCh \in BOOLEAN /\ sync \in Sync /\ readers \in Nat /\ progress \in Nat
    /\ reported \in BOOLEAN

\* A watcher that goes on is the one in effect, which the next restart
\* cancels: the end of a superseded watcher is told from that of the one in
\* effect, and no connection is left behind (app.go: idleAccount, idleFolder).
NoneLeftBehind == \A w \in Watchers : ~ Stray(w)

\* The next signal of the watcher in effect will be heard: its channel has a
\* listener, or a message that waits gives it one (app.go: idleUpdateMsg).
Heard == \A w \in Watchers : w = effect.w => listeners[w] > 0 \/ updates > 0

\* A sync that reports is not stuck: somebody listens, or will (app.go:
\* syncProgressMsg).
StreamMoves == sync.pc = "send" => readers > 0 \/ progress > 0

Quiet ==
    /\ ~ syncCh /\ updates = 0
    /\ \A w \in Watchers : ~ watch[w].signal

\* A change the watcher in effect heard of while no sync ran is not forgotten:
\* unless its signal is still under way, a sync began after it and dealt with
\* the folder (app.go: idleUpdateMsg).  One heard of during a sync may wait
\* for the next tick.
NoSignalLost == Quiet => ~ reported

\* A watcher fails, or the list does that would start one.  (The list of a
\* folder whose watcher is kept starts none, come or not.)
Setback ==
    \/ \E w \in Watchers : WatchFails(w)
    \/ LoadFails /\ \E f \in loading \ loading' : effect.folder # f \/ effect.w = None

\* Once the user stays in a folder and watchers and lists fail no more, that
\* folder is watched for good, in whatever order the lists came, whatever failed
\* before and however syncs fail, a stray end of an earlier watcher included
\* (app.go: messagesLoadedMsg).
Watched(f) ==
    \E w \in Watchers : effect = [folder |-> f, w |-> w] /\ watch[w].pc = "idle"
Settles ==
    <>[][selected' = selected /\ ~ Setback]_vars => <>[]Watched(selected)

=============================================================================
