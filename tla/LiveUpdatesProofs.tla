------------------------- MODULE LiveUpdatesProofs -------------------------
(***************************************************************************)
(* What is proved of LiveUpdates, for all folders and watchers and for any *)
(* bounds.                                                                 *)
(***************************************************************************)
EXTENDS LiveUpdates, TLAPS

-----------------------------------------------------------------------------
(* The invariant. *)

\* The watcher in effect is one of the folder in effect, and nobody told it to
\* stop.
EffectSound ==
    \A w \in Watchers :
        w = effect.w => /\ watch[w].pc # "none" /\ watch[w].folder = effect.folder
                        /\ ~ watch[w].cancelled

\* A sync that goes on is the one of syncCh, and its reports are read.
StreamInv ==
    sync.pc \in {"work", "send"} => syncCh /\ (readers > 0 \/ progress > 0)

\* What was reported is still to be dealt with: by the sync that runs, or by
\* the one a signal or a message under way will start.
SignalInv ==
    reported =>
        /\ effect.folder \in Folders
        /\ syncCh => sync.pc \in {"work", "send"} /\ effect.folder \in sync.left
        /\ ~ syncCh => \/ updates > 0
                       \/ \E w \in Watchers : watch[w].signal /\ listeners[w] > 0

LiveInv == TypeOK /\ EffectSound /\ Heard /\ StreamInv /\ SignalInv

-----------------------------------------------------------------------------
(* Type correctness. *)

\* What the steps make of a watcher is a watcher (idle.go: startIdleCmd).
LEMMA WatcherFields ==
    ASSUME NEW W \in [Watchers -> Watcher], NEW w \in Watchers
    PROVE  /\ W[w].pc \in {"none", "connecting", "idle", "stopped"}
           /\ W[w].folder \in Folders \cup {None}
           /\ W[w].cancelled \in BOOLEAN /\ W[w].signal \in BOOLEAN
           /\ \A p \in {"none", "connecting", "idle", "stopped"} : [W[w] EXCEPT !.pc = p] \in Watcher
           /\ [W[w] EXCEPT !.cancelled = W[w].pc # "stopped"] \in Watcher
           /\ [W[w] EXCEPT !.pc = "stopped", !.cancelled = FALSE] \in Watcher
           /\ \A b \in BOOLEAN : [W[w] EXCEPT !.signal = b] \in Watcher
           /\ \A b \in BOOLEAN : [NoWatcher EXCEPT !.signal = b] \in Watcher
           /\ \A f \in Folders : [NoWatcher EXCEPT !.pc = "connecting", !.folder = f] \in Watcher
  BY DEF Watcher, NoWatcher

\* Every step keeps the state well typed (tui/idle.go, tui/sync.go and the cases
\* of App.Update).
LEMMA TypeStep ==
    ASSUME TypeOK, Next
    PROVE  TypeOK'
<1> USE LiveUpdatesAssumption DEF TypeOK
<1>0. [pc |-> "work", left |-> Folders] \in Sync /\ [pc |-> "done", left |-> {}] \in Sync
  BY DEF Sync
<1>1. ASSUME NEW f \in Folders, openSelection(f) PROVE TypeOK'
  BY <1>1 DEF openSelection, idle, stream
<1>2. ASSUME NEW f \in Folders, messagesLoaded(f) PROVE TypeOK'
  <2>1. CASE UNCHANGED <<effect, watch, listeners, reported>>
    BY <1>2, <2>1 DEF messagesLoaded, stream
  <2>2. CASE ~ UNCHANGED <<effect, watch, listeners, reported>>
    <3>1. PICK w \in Watchers :
            /\ effect' = [folder |-> f, w |-> w]
            /\ watch' = [v \in Watchers |->
                  IF v = w THEN [NoWatcher EXCEPT !.pc = "connecting", !.folder = f]
                  ELSE IF v = effect.w
                  THEN [watch[v] EXCEPT !.cancelled = watch[v].pc # "stopped"]
                  ELSE watch[v]]
            /\ listeners' = [listeners EXCEPT ![w] = 1]
            /\ reported' = FALSE
      BY <1>2, <2>2 DEF messagesLoaded, restartIdleCmd
    <3>2. watch' \in [Watchers -> Watcher]
      <4>1. ASSUME NEW v \in Watchers
            PROVE  /\ watch[v] \in Watcher
                   /\ [watch[v] EXCEPT !.cancelled = watch[v].pc # "stopped"] \in Watcher
                   /\ [NoWatcher EXCEPT !.pc = "connecting", !.folder = f] \in Watcher
        BY WatcherFields
      <4> QED BY <3>1, <4>1
    <3> QED BY <1>2, <3>1, <3>2 DEF messagesLoaded, stream
  <2> QED BY <2>1, <2>2
<1>3. ASSUME NEW f \in Folders, NewMail(f) PROVE TypeOK'
  <2>1. watch' \in [Watchers -> Watcher]
    <3>1. ASSUME NEW v \in Watchers
          PROVE  watch[v] \in Watcher /\ [watch[v] EXCEPT !.signal = TRUE] \in Watcher
      BY WatcherFields
    <3> QED BY <1>3, <3>1 DEF NewMail
  <2>2. reported' \in BOOLEAN
    BY <1>3 DEF NewMail
  <2> QED BY <1>3, <2>1, <2>2 DEF NewMail, stream
<1>4. ASSUME NEW w \in Watchers, Connect(w) PROVE TypeOK'
  <2>1. watch' = [watch EXCEPT ![w] = [watch[w] EXCEPT !.pc = "idle"]]
    BY <1>4 DEF Connect
  <2>2. watch' \in [Watchers -> Watcher]
    BY <2>1, WatcherFields
  <2> QED BY <1>4, <2>2 DEF Connect, stream
<1>5. ASSUME NEW w \in Watchers, Cancelled(w) \/ WatchFails(w) PROVE TypeOK'
  <2>1. \/ watch' = [watch EXCEPT ![w] = [watch[w] EXCEPT !.pc = "stopped"]]
        \/ watch' = [watch EXCEPT ![w] = [watch[w] EXCEPT !.pc = "stopped", !.cancelled = FALSE]]
    BY <1>5 DEF Cancelled, WatchFails
  <2>2. /\ [watch[w] EXCEPT !.pc = "stopped"] \in Watcher
        /\ [watch[w] EXCEPT !.pc = "stopped", !.cancelled = FALSE] \in Watcher
    BY WatcherFields
  <2>3. watch' \in [Watchers -> Watcher]
    BY <2>1, <2>2
  <2> QED BY <1>5, <2>3 DEF Cancelled, WatchFails, stream
<1>6. ASSUME NEW w \in Watchers, listenIdleCmd(w) PROVE TypeOK'
  <2>1. watch' = [watch EXCEPT ![w] = [watch[w] EXCEPT !.signal = FALSE]]
    BY <1>6 DEF listenIdleCmd
  <2>2. watch' \in [Watchers -> Watcher]
    BY <2>1, WatcherFields
  <2>3. listeners' \in [Watchers -> Nat] /\ updates' \in Nat
    BY <1>6 DEF listenIdleCmd
  <2> QED BY <1>6, <2>2, <2>3 DEF listenIdleCmd, stream
<1>7. ASSUME NEW w \in Watchers, idleStopped(w) PROVE TypeOK'
  <2> DEFINE pending == watch[w].signal /\ listeners[w] > 0
  <2>1. watch' = [watch EXCEPT ![w] = [NoWatcher EXCEPT !.signal = pending]]
    BY <1>7 DEF idleStopped, Abandon
  <2>2. listeners' \in [Watchers -> Nat]
    BY <1>7 DEF idleStopped, Abandon
  <2>3. effect' \in [folder : Folders \cup {None}, w : Watchers \cup {None}]
    BY <1>7 DEF idleStopped
  <2>4. pending \in BOOLEAN
    OBVIOUS
  <2> HIDE DEF pending
  <2>5. watch' \in [Watchers -> Watcher]
    <3>1. [NoWatcher EXCEPT !.signal = pending] \in Watcher
      BY <2>4, WatcherFields
    <3> QED BY <2>1, <3>1
  <2> QED BY <1>7, <2>2, <2>3, <2>5 DEF idleStopped, stream
<1>8. CASE idleUpdate
  <2>1. listeners' \in [Watchers -> Nat] /\ updates' \in Nat
    BY <1>8 DEF idleUpdate
  <2>2. syncCh' \in BOOLEAN /\ sync' \in Sync /\ readers' \in Nat
    <3>1. CASE syncCh
      BY <1>8, <3>1 DEF idleUpdate
    <3>2. CASE ~ syncCh
      BY <1>0, <1>8, <3>2 DEF idleUpdate, startSync
    <3> QED BY <3>1, <3>2
  <2>3. UNCHANGED <<selected, loading, effect, watch, progress, reported>>
    BY <1>8 DEF idleUpdate
  <2> QED BY <2>1, <2>2, <2>3
<1>9. CASE syncTick
  BY <1>9 DEF syncTick, startSync, idle, Sync
<1>10. ASSUME NEW f \in Folders, SyncFolder(f) PROVE TypeOK'
  BY <1>10 DEF SyncFolder, idle, Sync
<1>11. CASE SendProgress
  <2>1. sync' \in Sync
    BY <1>11 DEF SendProgress, Sync
  <2> QED BY <1>11, <2>1 DEF SendProgress, idle
<1>12. CASE SyncEnds \/ SyncFails
  <2>0. sync' = [pc |-> "done", left |-> {}] /\ readers' = 0
    BY <1>12 DEF SyncEnds, SyncFails, Close
  <2>1. sync' \in Sync /\ readers' \in Nat
    BY <1>0, <2>0
  <2>3. reported' \in BOOLEAN
    BY <1>12 DEF SyncEnds, SyncFails
  <2>2. UNCHANGED <<selected, loading, effect, watch, listeners, updates, syncCh, progress>>
    BY <1>12 DEF SyncEnds, SyncFails, Close, idle
  <2> QED BY <2>1, <2>2, <2>3
<1>13. CASE syncProgress
  BY <1>13 DEF syncProgress, idle
<1>14. CASE syncDone
  BY <1>14 DEF syncDone, NoSync, idle, Sync
<1>15. CASE LoadFails
  BY <1>15 DEF LoadFails, idle, stream
<1> QED BY <1>1, <1>2, <1>3, <1>4, <1>5, <1>6, <1>7, <1>8, <1>9, <1>10, <1>11, <1>12, <1>13, <1>14, <1>15
        DEF Next, SyncWorks, Fails

-----------------------------------------------------------------------------
(* The invariant holds. *)

\* The invariant holds before anything was loaded.
LEMMA LiveInit == ASSUME Init PROVE LiveInv
<1>1. TypeOK
  BY LiveUpdatesAssumption DEF Init, TypeOK, Watcher, NoWatcher, Sync, NoSync
<1>2. EffectSound /\ Heard
  BY LiveUpdatesAssumption DEF Init, EffectSound, Heard
<1>3. StreamInv /\ SignalInv
  BY DEF Init, StreamInv, SignalInv, NoSync
<1> QED BY <1>1, <1>2, <1>3 DEF LiveInv

\* A step of the sync or of the lists: the watchers, their channels and
\* messages stay.
LEMMA WatchersRest ==
    ASSUME LiveInv, UNCHANGED idle
    PROVE  EffectSound' /\ Heard'
<1>1. EffectSound'
  BY DEF LiveInv, EffectSound, idle
<1>2. Heard'
  BY DEF LiveInv, Heard, idle
<1> QED BY <1>1, <1>2

\* A step that leaves the sync and its stream alone.
LEMMA StreamRests ==
    ASSUME LiveInv, UNCHANGED stream
    PROVE  StreamInv'
  BY DEF LiveInv, StreamInv, stream

\* The watchers' steps (app.go: messagesLoadedMsg, idleStoppedMsg; idle.go).
LEMMA WatchStep ==
    ASSUME LiveInv,
           \/ \E f \in Folders : messagesLoaded(f) \/ NewMail(f)
           \/ \E w \in Watchers : \/ Connect(w) \/ Cancelled(w) \/ WatchFails(w)
                                  \/ listenIdleCmd(w) \/ idleStopped(w)
    PROVE  EffectSound' /\ Heard' /\ StreamInv' /\ SignalInv'
<1> USE LiveUpdatesAssumption DEF LiveInv
<1> DEFINE Kept == EffectSound' /\ Heard' /\ StreamInv' /\ SignalInv'
<1>1. ASSUME NEW f \in Folders, messagesLoaded(f) PROVE Kept
  <2>1. CASE UNCHANGED <<effect, watch, listeners, reported>>
    BY <1>1, <2>1, StreamRests DEF messagesLoaded, EffectSound, Heard, SignalInv, stream
  <2>2. CASE ~ UNCHANGED <<effect, watch, listeners, reported>>
    <3>1. PICK v \in Watchers :
            /\ effect' = [folder |-> f, w |-> v]
            /\ watch' = [u \in Watchers |->
                  IF u = v THEN [NoWatcher EXCEPT !.pc = "connecting", !.folder = f]
                  ELSE IF u = effect.w
                  THEN [watch[u] EXCEPT !.cancelled = watch[u].pc # "stopped"]
                  ELSE watch[u]]
            /\ listeners' = [listeners EXCEPT ![v] = 1]
            /\ reported' = FALSE
      BY <1>1, <2>2 DEF messagesLoaded, restartIdleCmd
    <3>2. watch'[v] = [NoWatcher EXCEPT !.pc = "connecting", !.folder = f] /\ listeners'[v] = 1
      BY <3>1 DEF TypeOK
    <3>3. effect'.w = v /\ effect'.folder = f
      BY <3>1
    <3>4. EffectSound'
      BY <3>2, <3>3 DEF EffectSound, NoWatcher
    <3>5. Heard'
      BY <3>2, <3>3 DEF Heard
    <3> QED BY <1>1, <3>1, <3>4, <3>5, StreamRests DEF messagesLoaded, SignalInv
  <2> QED BY <2>1, <2>2
<1>2. ASSUME NEW f \in Folders, NewMail(f) PROVE Kept
  <2>1. EffectSound'
    <3>1. ASSUME NEW v \in Watchers
          PROVE  /\ watch'[v].pc = watch[v].pc /\ watch'[v].folder = watch[v].folder
                 /\ watch'[v].cancelled = watch[v].cancelled
      <4>1. watch[v] \in Watcher
        BY DEF TypeOK
      <4>2. CASE watch'[v] = watch[v]
        BY <4>2
      <4>3. CASE watch'[v] = [watch[v] EXCEPT !.signal = TRUE]
        BY <4>1, <4>3 DEF Watcher
      <4> QED BY <1>2, <4>2, <4>3 DEF NewMail
    <3>2. effect' = effect
      BY <1>2 DEF NewMail
    <3> QED BY <3>1, <3>2 DEF EffectSound
  <2>2. Heard'
    BY <1>2 DEF NewMail, Heard
  <2>3. SignalInv'
    <3>1. /\ effect' = effect /\ syncCh' = syncCh /\ sync' = sync
          /\ updates' = updates /\ listeners' = listeners
      BY <1>2 DEF NewMail, stream
    <3>2. ASSUME NEW v \in Watchers
          PROVE  /\ watch[v].signal => watch'[v].signal
                 /\ watch[v].pc = "idle" /\ watch[v].folder = f => watch'[v].signal
      BY <1>2 DEF NewMail, TypeOK, Watcher
    <3>3. CASE reported
      BY <3>1, <3>2, <3>3 DEF SignalInv
    <3>4. CASE ~ reported /\ reported'
      <4>1. PICK v \in Watchers : v = effect.w /\ watch[v].pc = "idle" /\ watch[v].folder = f
        BY <1>2, <3>4 DEF NewMail
      <4>2. ~ syncCh
        BY <1>2, <3>4 DEF NewMail
      <4>3. effect.folder \in Folders
        BY <4>1 DEF EffectSound
      <4>4. updates > 0 \/ (watch'[v].signal /\ listeners[v] > 0)
        BY <3>2, <4>1 DEF Heard
      <4> QED BY <3>1, <4>2, <4>3, <4>4 DEF SignalInv
    <3>5. CASE ~ reported'
      BY <3>5 DEF SignalInv
    <3> QED BY <3>3, <3>4, <3>5
  <2> QED BY <1>2, <2>1, <2>2, <2>3, StreamRests DEF NewMail
<1>3. ASSUME NEW w \in Watchers, Connect(w) \/ Cancelled(w) \/ WatchFails(w) PROVE Kept
  <2>1. PICK p \in {"idle", "stopped"} :
           \/ watch' = [watch EXCEPT ![w] = [watch[w] EXCEPT !.pc = p]]
           \/ watch' = [watch EXCEPT ![w] = [watch[w] EXCEPT !.pc = p, !.cancelled = FALSE]]
    BY <1>3 DEF Connect, Cancelled, WatchFails
  <2>2. ASSUME NEW v \in Watchers
        PROVE  /\ watch'[v].pc = watch[v].pc \/ watch'[v].pc = p
               /\ watch'[v].folder = watch[v].folder
               /\ watch'[v].cancelled => watch[v].cancelled
               /\ watch'[v].signal = watch[v].signal
    <3>1. watch[v] \in Watcher
      BY DEF TypeOK
    <3>2. CASE watch'[v] = watch[v]
      BY <3>2
    <3>3. CASE v = w /\ watch'[v] = [watch[v] EXCEPT !.pc = p]
      BY <3>1, <3>3 DEF Watcher
    <3>4. CASE v = w /\ watch'[v] = [watch[v] EXCEPT !.pc = p, !.cancelled = FALSE]
      BY <3>1, <3>4 DEF Watcher
    <3> QED BY <2>1, <3>2, <3>3, <3>4 DEF TypeOK
  <2>3. UNCHANGED <<effect, listeners, updates, stream, reported>>
    BY <1>3 DEF Connect, Cancelled, WatchFails
  <2>4. EffectSound'
    BY <2>2, <2>3 DEF EffectSound
  <2>5. Heard'
    BY <2>3 DEF Heard
  <2>6. SignalInv'
    BY <2>2, <2>3 DEF SignalInv, stream
  <2> QED BY <2>3, <2>4, <2>5, <2>6, StreamRests
<1>4. ASSUME NEW w \in Watchers, listenIdleCmd(w) PROVE Kept
  <2>1. watch' = [watch EXCEPT ![w] = [watch[w] EXCEPT !.signal = FALSE]]
    BY <1>4 DEF listenIdleCmd
  <2>2. ASSUME NEW v \in Watchers
        PROVE  /\ watch'[v].pc = watch[v].pc /\ watch'[v].folder = watch[v].folder
               /\ watch'[v].cancelled = watch[v].cancelled
    BY <2>1 DEF TypeOK, Watcher
  <2>3. UNCHANGED <<effect, stream, reported>> /\ updates' > 0
    BY <1>4 DEF listenIdleCmd, TypeOK
  <2>4. EffectSound'
    BY <2>2, <2>3 DEF EffectSound
  <2>5. Heard'
    BY <2>3 DEF Heard
  <2>6. SignalInv'
    BY <2>3 DEF SignalInv, stream
  <2> QED BY <2>3, <2>4, <2>5, <2>6, StreamRests
<1>5. ASSUME NEW w \in Watchers, idleStopped(w) PROVE Kept
  <2> DEFINE pending == watch[w].signal /\ listeners[w] > 0
  <2>1. /\ watch' = [watch EXCEPT ![w] = [NoWatcher EXCEPT !.signal = pending]]
        /\ listeners' = [listeners EXCEPT ![w] = IF pending THEN 1 ELSE 0]
        /\ UNCHANGED <<updates, stream, reported>>
    BY <1>5 DEF idleStopped, Abandon
  <2>2. effect'.folder = effect.folder /\ (effect'.w = effect.w \/ effect'.w = None)
    BY <1>5 DEF idleStopped, TypeOK
  <2>3. effect.w = w => effect'.w = None
    <3>1. ASSUME effect.w = w PROVE watch[w].folder = effect.folder
      BY <3>1 DEF EffectSound
    <3> QED BY <1>5, <3>1 DEF idleStopped, TypeOK
  <2>4. \A v \in Watchers : v # w => watch'[v] = watch[v] /\ listeners'[v] = listeners[v]
    BY <2>1 DEF TypeOK
  <2>5. pending => watch'[w].signal /\ listeners'[w] > 0
    <3>1. ASSUME pending PROVE watch'[w] = [NoWatcher EXCEPT !.signal = TRUE] /\ listeners'[w] = 1
      <4>1. pending = TRUE
        BY <3>1
      <4> HIDE DEF pending
      <4> QED BY <2>1, <4>1 DEF TypeOK
    <3> QED BY <3>1 DEF NoWatcher
  <2>6. EffectSound'
    BY <2>2, <2>3, <2>4 DEF EffectSound
  <2>7. Heard'
    BY <2>1, <2>2, <2>3, <2>4 DEF Heard
  <2>8. SignalInv'
    BY <2>1, <2>2, <2>4, <2>5 DEF SignalInv, stream
  <2> QED BY <2>1, <2>6, <2>7, <2>8, StreamRests
<1> QED BY <1>1, <1>2, <1>3, <1>4, <1>5

\* The steps of the sync and of the messages that start, read and end it
\* (tui/sync.go; app.go: idleUpdateMsg, syncTickMsg, syncProgressMsg,
\* syncDoneMsg).
LEMMA SyncStep ==
    ASSUME LiveInv, NEW f \in Folders,
           \/ idleUpdate \/ syncTick \/ SyncFolder(f) \/ SendProgress
           \/ SyncEnds \/ SyncFails \/ syncProgress \/ syncDone
    PROVE  EffectSound' /\ Heard' /\ StreamInv' /\ SignalInv'
<1> USE DEF LiveInv
<1>1. CASE idleUpdate
  <2>1. UNCHANGED <<effect, watch, progress, reported>>
    BY <1>1 DEF idleUpdate
  <2>2. \A w \in Watchers : listeners'[w] = IF w = effect.w THEN listeners[w] + 1 ELSE listeners[w]
    BY <1>1 DEF idleUpdate
  <2>3. \A w \in Watchers : listeners[w] \in Nat
    BY DEF TypeOK
  <2>4. EffectSound'
    BY <2>1 DEF EffectSound
  <2>5. Heard'
    BY <2>1, <2>2, <2>3 DEF Heard
  <2>6. CASE syncCh
    <3>1. UNCHANGED <<syncCh, sync, readers>>
      BY <1>1, <2>6 DEF idleUpdate
    <3>2. StreamInv'
      BY <2>1, <3>1 DEF StreamInv
    <3>3. SignalInv'
      BY <2>1, <2>6, <3>1 DEF SignalInv
    <3> QED BY <2>4, <2>5, <3>2, <3>3
  <2>7. CASE ~ syncCh
    <3>1. syncCh' = TRUE /\ sync' = [pc |-> "work", left |-> Folders] /\ readers' = 1
      BY <1>1, <2>7 DEF idleUpdate, startSync
    <3>2. StreamInv'
      BY <3>1 DEF StreamInv
    <3>3. SignalInv'
      BY <2>1, <3>1 DEF SignalInv
    <3> QED BY <2>4, <2>5, <3>2, <3>3
  <2> QED BY <2>6, <2>7
<1>2. CASE syncTick
  <2>1. /\ UNCHANGED idle /\ reported' = reported
        /\ syncCh' = TRUE /\ sync' = [pc |-> "work", left |-> Folders] /\ readers' = 1
    BY <1>2 DEF syncTick, startSync
  <2>2. StreamInv' /\ SignalInv'
    BY <2>1 DEF StreamInv, SignalInv, idle
  <2> QED BY <2>1, <2>2, WatchersRest
<1>3. CASE SyncFolder(f)
  <2>1. /\ UNCHANGED <<idle, syncCh, readers, progress>>
        /\ sync.pc = "work" /\ sync' = [pc |-> "send", left |-> sync.left \ {f}]
        /\ reported' = (reported /\ f # effect.folder)
    BY <1>3 DEF SyncFolder
  <2>2. StreamInv'
    BY <2>1 DEF StreamInv
  <2>3. SignalInv'
    <3>1. ASSUME reported'
          PROVE  /\ reported /\ f # effect.folder /\ effect.folder \in Folders
                 /\ syncCh /\ effect.folder \in sync.left
      BY <2>1, <3>1 DEF SignalInv, StreamInv
    <3>2. effect' = effect
      BY <2>1 DEF idle
    <3> QED BY <2>1, <3>1, <3>2 DEF SignalInv
  <2> QED BY <2>1, <2>2, <2>3, WatchersRest
<1>4. CASE SendProgress
  <2>1. /\ UNCHANGED <<idle, syncCh, reported>> /\ sync.pc = "send"
        /\ progress' > 0
    BY <1>4 DEF SendProgress, TypeOK
  <2>2. sync'.pc = "work" /\ sync'.left = sync.left
    BY <1>4 DEF SendProgress, TypeOK, Sync
  <2>3. StreamInv'
    BY <2>1, <2>2 DEF StreamInv
  <2>4. SignalInv'
    BY <2>1, <2>2 DEF SignalInv, idle
  <2> QED BY <2>1, <2>3, <2>4, WatchersRest
<1>5. CASE SyncEnds \/ SyncFails
  <2>1. UNCHANGED idle /\ sync' = [pc |-> "done", left |-> {}]
    BY <1>5 DEF SyncEnds, SyncFails, Close
  <2>2. ~ reported'
    <3>1. CASE SyncEnds
      <4>1. sync.pc = "work" /\ sync.left = {} /\ reported' = reported
        BY <3>1 DEF SyncEnds
      <4> QED BY <4>1 DEF SignalInv, StreamInv
    <3>2. CASE SyncFails
      BY <3>2 DEF SyncFails
    <3> QED BY <1>5, <3>1, <3>2
  <2>3. StreamInv' /\ SignalInv'
    BY <2>1, <2>2 DEF StreamInv, SignalInv
  <2> QED BY <2>1, <2>3, WatchersRest
<1>6. CASE syncProgress
  <2>1. UNCHANGED <<idle, syncCh, sync, reported>>
    BY <1>6 DEF syncProgress
  <2>2. sync.pc \in {"work", "send"} => readers' > 0
    <3>1. readers \in Nat
      BY DEF TypeOK
    <3>2. sync.pc \in {"work", "send"} => readers' = readers + 1
      BY <1>6 DEF syncProgress, StreamInv
    <3> QED BY <3>1, <3>2
  <2>3. StreamInv'
    BY <2>1, <2>2 DEF StreamInv
  <2>4. SignalInv'
    BY <2>1 DEF SignalInv, idle
  <2> QED BY <2>1, <2>3, <2>4, WatchersRest
<1>7. CASE syncDone
  <2>1. /\ UNCHANGED <<idle, reported>> /\ sync.pc = "done"
        /\ syncCh' = FALSE /\ sync' = NoSync
    BY <1>7 DEF syncDone
  <2>2. StreamInv'
    BY <2>1 DEF StreamInv, NoSync
  <2>3. SignalInv'
    BY <2>1 DEF SignalInv, StreamInv, idle
  <2> QED BY <2>1, <2>2, <2>3, WatchersRest
<1> QED BY <1>1, <1>2, <1>3, <1>4, <1>5, <1>6, <1>7

\* Every step keeps the invariant.
LEMMA LiveStep ==
    ASSUME LiveInv, [Next]_vars
    PROVE  LiveInv'
<1>1. CASE UNCHANGED vars
  BY <1>1 DEF LiveInv, TypeOK, EffectSound, Heard, StreamInv, SignalInv, vars, idle, stream
<1>2. CASE Next
  <2>1. TypeOK'
    BY <1>2, TypeStep DEF LiveInv
  <2>2. CASE \/ \E f \in Folders : openSelection(f)
             \/ LoadFails
    <3>1. UNCHANGED <<idle, stream, reported>>
      BY <2>2 DEF openSelection, LoadFails
    <3>2. SignalInv'
      BY <3>1 DEF LiveInv, SignalInv, idle, stream
    <3> QED BY <2>1, <3>1, <3>2, WatchersRest, StreamRests DEF LiveInv
  <2>3. CASE \/ \E f \in Folders : messagesLoaded(f) \/ NewMail(f)
             \/ \E w \in Watchers : \/ Connect(w) \/ Cancelled(w) \/ WatchFails(w)
                                    \/ listenIdleCmd(w) \/ idleStopped(w)
    BY <2>1, <2>3, WatchStep DEF LiveInv
  <2>4. CASE \/ idleUpdate \/ syncTick \/ SyncWorks \/ SyncFails \/ syncProgress \/ syncDone
    <3>1. PICK f \in Folders :
             \/ idleUpdate \/ syncTick \/ SyncFolder(f) \/ SendProgress
             \/ SyncEnds \/ SyncFails \/ syncProgress \/ syncDone
      BY <2>4 DEF SyncWorks, LiveInv, TypeOK
    <3> QED BY <2>1, <3>1, SyncStep DEF LiveInv
  <2> QED BY <1>2, <2>2, <2>3, <2>4 DEF Next, Fails
<1> QED BY <1>1, <1>2

-----------------------------------------------------------------------------
(* The theorems. *)

\* Every reachable state satisfies the invariant, hence is well typed.
THEOREM LiveInvariant == Spec => []LiveInv
<1>1. Init => LiveInv
  BY LiveInit
<1>2. LiveInv /\ [Next]_vars => LiveInv'
  BY LiveStep
<1> QED BY <1>1, <1>2, PTL DEF Spec

\* Every reachable state is well typed (tui/idle.go, tui/sync.go).
THEOREM LiveTypeCorrect == Spec => []TypeOK
<1>1. LiveInv => TypeOK
  BY DEF LiveInv
<1> QED BY <1>1, LiveInvariant, PTL

\* The watcher in effect never loses its listener (app.go: idleUpdateMsg).
THEOREM AlwaysHeard == Spec => []Heard
<1>1. LiveInv => Heard
  BY DEF LiveInv
<1> QED BY <1>1, LiveInvariant, PTL

\* A sync is never stuck on a report nobody reads (tui/sync.go: the channel has
\* no buffer).
THEOREM StreamNeverStuck == Spec => []StreamMoves
<1>1. LiveInv => StreamMoves
  BY DEF LiveInv, StreamInv, StreamMoves
<1> QED BY <1>1, LiveInvariant, PTL

\* A change heard of while no sync ran is dealt with by a sync that began after
\* it, unless its signal is under way (app.go: idleUpdateMsg), for any number
\* of watchers and of waiting messages.
THEOREM SignalsCount == Spec => []NoSignalLost
<1>1. LiveInv => NoSignalLost
  BY DEF LiveInv, SignalInv, NoSignalLost, Quiet
<1> QED BY <1>1, LiveInvariant, PTL

=============================================================================
