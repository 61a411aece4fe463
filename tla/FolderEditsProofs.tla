------------------------- MODULE FolderEditsProofs -------------------------
(***************************************************************************)
(* Theorems about the edits of FolderEdits.                                *)
(***************************************************************************)
EXTENDS FolderUses, FolderSyncProofs

\* The steps of FolderSync that FolderEdits takes over are FolderSync's own.
LEMMA TakenOver ==
    ASSUME MailboxStep \/ \E s \in Syncers : SyncStep(s) \/ Fail(s)
    PROVE  Next
BY DEF MailboxStep, Next, ServerStep

\* An editor's step moves that editor only.
LEMMA EditEffect ==
    ASSUME EditTypeOK, NEW e \in Editors, NEW r \in Edit, edit' = [edit EXCEPT ![e] = r]
    PROVE  /\ edit' \in [Editors -> Edit]
           /\ edit'[e] = r
           /\ \A f \in Editors \ {e} : edit'[f] = edit[f]
BY DEF EditTypeOK

\* An editor that is done is back at its initial state.
LEMMA NoEditType == NoEdit \in Edit
BY FolderSyncAssumption DEF NoEdit, Edit, EditOps, Validity

\* Each step of an editor leaves it well typed, and only that one changed.
LEMMA EditorType ==
    ASSUME EditTypeOK, NEW e \in Editors,
           \/ \E op \in Ops, u \in Uid : Choose(e, op, u)
           \/ EditStep(e) \/ EditFail(e)
    PROVE  /\ edit' \in [Editors -> Edit]
           /\ \A f \in Editors \ {e} : edit'[f] = edit[f]
<1>1. ASSUME NEW op \in Ops, NEW u \in Uid, Choose(e, op, u)
      PROVE  \E r \in Edit : edit' = [edit EXCEPT ![e] = r]
  <2>1. rows[u].val \in Validity /\ 0 \in Validity /\ u \in 0 .. MaxUid /\ op \in EditOps
    BY FolderSyncAssumption, FolderEditsAssumption DEF EditTypeOK, TypeOK, Row, Validity, Uid
  <2>2. QED
    BY <1>1, <2>1 DEF Choose, Edit
<1>2. CASE EditSelect(e)
  <2>1. edit[e] \in Edit /\ uidValidity \in Validity
    BY FolderSyncAssumption DEF EditTypeOK, TypeOK, Validity
  <2>2. edit' \in [Editors -> Edit] /\ \A f \in Editors \ {e} : edit'[f] = edit[f]
    BY <1>2, <2>1 DEF EditSelect, EditTypeOK, Edit
  <2>3. QED
    BY <2>2
<1>3. CASE StoreFlags(e) \/ RemoveOnServer(e)
  BY <1>3 DEF StoreFlags, RemoveOnServer, EditTypeOK, Edit
<1>4. CASE ApplyFlagChanges(e) \/ DeleteMessages(e)
  BY <1>4 DEF ApplyFlagChanges, DeleteMessages, EditTypeOK, Edit
<1>5. CASE RefreshFolderCounts(e) \/ EditFail(e) \/ EditDisconnect(e)
  BY <1>5, NoEditType, EditEffect DEF RefreshFolderCounts, EditFail, EditDisconnect
<1>6. QED
  BY <1>1, <1>2, <1>3, <1>4, <1>5, EditEffect DEF EditStep

-----------------------------------------------------------------------------
(* Type correctness. *)

\* A mailbox with one message replaced is well typed.
LEMMA OneMessage ==
    ASSUME TypeOK, NEW u, NEW m \in [mod : ModSeq, seen : BOOLEAN]
    PROVE  [msgs EXCEPT ![u] = m] \in [Uid -> [mod : ModSeq, seen : BOOLEAN]]
BY DEF TypeOK

\* Every step of an editor keeps the folder, its cache and the syncs well typed.
LEMMA EditorFolderType ==
    ASSUME EditTypeOK, NEW e \in Editors,
           \/ \E op \in Ops, u \in Uid : Choose(e, op, u)
           \/ EditStep(e) \/ EditFail(e)
    PROVE  TypeOK'
<1> USE FolderSyncAssumption DEF EditTypeOK
<1>1. CASE UNCHANGED vars
  BY <1>1 DEF TypeOK, vars, server, cache
<1>2. CASE StoreFlags(e)
  <2>1. CASE UNCHANGED <<msgs, highestModSeq>>
    BY <1>2, <2>1 DEF StoreFlags, TypeOK, cache
  <2>2. CASE /\ highestModSeq < MaxMod /\ highestModSeq' = highestModSeq + 1
             /\ msgs' = [msgs EXCEPT ![edit[e].uid] = [mod |-> highestModSeq + 1,
                                                      seen |-> edit[e].op = "seen"]]
    <3>1. highestModSeq' \in 1 .. MaxMod
      BY <2>2 DEF TypeOK
    <3>2. [mod |-> highestModSeq + 1, seen |-> edit[e].op = "seen"] \in [mod : ModSeq, seen : BOOLEAN]
      BY <2>2, <3>1 DEF ModSeq
    <3>3. QED
      BY <1>2, <2>2, <3>1, <3>2, OneMessage DEF StoreFlags, TypeOK, cache
  <2>3. QED
    BY <1>2, <2>1, <2>2 DEF StoreFlags
<1>3. CASE RemoveOnServer(e)
  <2>1. NoMsg \in [mod : ModSeq, seen : BOOLEAN]
    BY DEF NoMsg, ModSeq
  <2>2. msgs' = [msgs EXCEPT ![edit[e].uid] = NoMsg]
    BY <1>3 DEF RemoveOnServer
  <2>3. msgs' \in [Uid -> [mod : ModSeq, seen : BOOLEAN]]
    BY <2>1, <2>2, OneMessage
  <2>4. QED
    BY <1>3, <2>3 DEF RemoveOnServer, TypeOK, cache
<1>4. CASE ApplyFlagChanges(e)
  <2>1. rows' \in [Uid -> Row]
    BY <1>4 DEF ApplyFlagChanges, TypeOK, Row
  <2>2. QED
    BY <1>4, <2>1 DEF ApplyFlagChanges, TypeOK, server
<1>5. CASE DeleteMessages(e)
  <2>1. rows' \in [Uid -> Row]
    BY <1>5 DEF DeleteMessages, TypeOK, Row, NoRow, Validity
  <2>2. QED
    BY <1>5, <2>1 DEF DeleteMessages, TypeOK, server
<1>6. CASE RefreshFolderCounts(e)
  <2>1. counts' \in [total : Nat, unread : Nat]
    BY <1>6, CountsType DEF RefreshFolderCounts, TypeOK
  <2>2. QED
    BY <1>6, <2>1 DEF RefreshFolderCounts, TypeOK, server
<1>7. CASE EditFail(e)
  <2>1. fails' \in 0 .. MaxFail
    BY <1>7 DEF EditFail, TypeOK
  <2>2. QED
    BY <1>7, <2>1 DEF EditFail, TypeOK, server, cache
<1>8. QED
  BY <1>1, <1>2, <1>3, <1>4, <1>5, <1>6, <1>7
     DEF Choose, EditStep, EditSelect, EditDisconnect

LEMMA EditStepType == EditTypeOK /\ [EditNext]_editVars => EditTypeOK'
<1> SUFFICES ASSUME EditTypeOK, [EditNext]_editVars PROVE EditTypeOK'
  OBVIOUS
<1>1. CASE (MailboxStep \/ \E s \in Syncers : SyncStep(s) \/ Fail(s)) /\ UNCHANGED edit
  BY <1>1, TakenOver, StepType DEF EditTypeOK
<1>2. ASSUME NEW e \in Editors,
             \/ \E op \in Ops, u \in Uid : Choose(e, op, u)
             \/ EditStep(e) \/ EditFail(e)
      PROVE  EditTypeOK'
  BY <1>2, EditorType, EditorFolderType DEF EditTypeOK
<1>3. CASE UNCHANGED editVars
  BY <1>3, StepType DEF EditTypeOK, editVars
<1>4. QED
  BY <1>1, <1>2, <1>3 DEF EditNext

\* The state is well typed for every value of the constants.
THEOREM EditTypeCorrect == EditSpec => []EditTypeOK
<1>1. EditInit => EditTypeOK
  BY InitType, NoEditType DEF EditInit, EditTypeOK
<1>2. QED
  BY <1>1, EditStepType, PTL DEF EditSpec

-----------------------------------------------------------------------------
(* The badges. *)

\* A sync past its SELECT or an edit past its write has a recount to come.
RecountAhead ==
    \/ \E s \in Syncers : sess[s].pc \notin {"idle", "select", "clear"}
    \/ \E e \in Editors : edit[e].pc = "badges"

\* As long as nothing fails, on a mailbox that is not renumbered.
RecountInv ==
    /\ uidValidity = 1
    /\ \A s \in Syncers : sess[s].pc \notin {"idle", "select"} => sess[s].val = 1
    /\ counts # CountsOf(rows) => RecountAhead

\* The recount of the others is still to come.
LEMMA RecountKept ==
    ASSUME RecountAhead,
           \A s \in Syncers : sess[s].pc \notin {"idle", "select", "clear"} => sess'[s].pc = sess[s].pc,
           \A e \in Editors : edit[e].pc = "badges" => edit'[e].pc = "badges"
    PROVE  RecountAhead'
BY DEF RecountAhead

\* Every step of a sync keeps the promise of a recount, or makes the recount.
LEMMA SyncBadges ==
    ASSUME EditTypeOK, RecountInv, NEW s \in Syncers, SyncStep(s), UNCHANGED edit
    PROVE  RecountInv'
<1>1. TypeOK /\ sess[s] \in Session
  BY DEF EditTypeOK, TypeOK
<1>2. UNCHANGED server
  BY DEF SyncStep, Start, SelectFolder, ClearFolderMessages, FetchFlags, Diff, FetchHeaders,
         UpsertMessageHeaders, UpdateMessageFlags, ListUIDs, FindStale, DeleteStale,
         UpdateFolderSyncState, Disconnect
<1>3. uidValidity' = 1
  BY <1>2 DEF server, RecountInv
<1>4. ASSUME NEW w \in Windows, Start(s, w) PROVE RecountInv'
  <2>1. /\ sess[s].pc = "idle" /\ sess'[s].pc = "select"
        /\ \A t \in Syncers \ {s} : sess'[t] = sess[t]
        /\ UNCHANGED <<rows, counts>>
    BY <1>1, <1>4, StartEffect DEF Start, cache
  <2>2. RecountAhead => RecountAhead'
    BY <2>1, RecountKept
  <2>3. QED
    BY <1>3, <2>1, <2>2 DEF RecountInv
<1>5. ASSUME NEW c \in CondStore, SelectFolder(s, c) PROVE RecountInv'
  <2>1. /\ sess[s].pc = "select" /\ sess'[s].val = uidValidity
        /\ \A t \in Syncers \ {s} : sess'[t] = sess[t]
        /\ UNCHANGED <<rows, counts>>
    BY <1>1, <1>5, SelectEffect DEF SelectFolder, cache
  <2>2. RecountAhead => RecountAhead'
    BY <2>1, RecountKept
  <2>3. QED
    BY <2>1, <2>2, <1>3 DEF RecountInv
<1>6. ASSUME sess'[s].pc \notin {"idle", "select", "clear"}, sess'[s].val = sess[s].val,
             sess[s].pc \notin {"idle", "select"},
             \A t \in Syncers \ {s} : sess'[t] = sess[t]
      PROVE  RecountInv'
  BY <1>3, <1>6 DEF RecountInv, RecountAhead
<1>7. CASE ClearFolderMessages(s)
  BY <1>1, <1>6, <1>7, ClearEffect DEF ClearFolderMessages
<1>8. CASE FetchFlags(s)
  BY <1>1, <1>6, <1>8, ListEffect DEF FetchFlags
<1>9. CASE Diff(s)
  BY <1>1, <1>6, <1>9, DiffEffect DEF Diff
<1>10. CASE FetchHeaders(s)
  BY <1>1, <1>6, <1>10, HeadersEffect DEF FetchHeaders
<1>11. CASE UpsertMessageHeaders(s)
  BY <1>1, <1>6, <1>11, StoreEffect DEF UpsertMessageHeaders
<1>12. CASE UpdateMessageFlags(s)
  <2>1. /\ sess'[s].pc \notin {"idle", "select", "clear"} /\ sess'[s].val = sess[s].val
        /\ \A t \in Syncers \ {s} : sess'[t] = sess[t]
    BY <1>1, <1>12, FlagsEffect
  <2>2. QED
    BY <1>6, <1>12, <2>1 DEF UpdateMessageFlags
<1>13. CASE ListUIDs(s)
  BY <1>1, <1>6, <1>13, UidsEffect DEF ListUIDs
<1>14. CASE FindStale(s)
  <2>1. /\ sess'[s].pc \notin {"idle", "select", "clear"} /\ sess'[s].val = sess[s].val
        /\ \A t \in Syncers \ {s} : sess'[t] = sess[t]
    BY <1>1, <1>14, FindEffect
  <2>2. QED
    BY <1>6, <1>14, <2>1 DEF FindStale
<1>15. CASE DeleteStale(s)
  BY <1>1, <1>6, <1>15, DeleteEffect DEF DeleteStale
<1>16. CASE UpdateFolderSyncState(s)
  <2>1. /\ sess'[s].pc = "idle" /\ \A t \in Syncers \ {s} : sess'[t] = sess[t]
    BY <1>1, <1>16, EndEffect DEF UpdateFolderSyncState
  <2>2. counts' = CountsOf(rows)'
    BY <1>16 DEF UpdateFolderSyncState, CountsOf
  <2>3. QED
    BY <1>3, <2>1, <2>2 DEF RecountInv
<1>17. CASE Disconnect(s)
  <2>1. sess[s].val = 1 /\ uidValidity = 1
    BY <1>17 DEF Disconnect, RecountInv
  <2>2. QED
    BY <1>17, <2>1 DEF Disconnect, Connected
<1>18. QED
  BY <1>4, <1>5, <1>7, <1>8, <1>9, <1>10, <1>11, <1>12, <1>13, <1>14, <1>15, <1>16, <1>17
     DEF SyncStep

\* So does every step of an edit.
LEMMA EditorBadges ==
    ASSUME EditTypeOK, RecountInv, NEW e \in Editors,
           (\E op \in Ops, u \in Uid : Choose(e, op, u)) \/ EditStep(e)
    PROVE  RecountInv'
<1>1. UNCHANGED <<uidValidity, sess>>
  BY DEF EditStep, Choose, EditSelect, EditDisconnect, StoreFlags, ApplyFlagChanges,
         RemoveOnServer, DeleteMessages, RefreshFolderCounts, vars, server, cache
<1>2. /\ edit' \in [Editors -> Edit]
      /\ \A f \in Editors \ {e} : edit'[f] = edit[f]
  BY EditorType
<1>3. CASE edit[e].pc # "badges" /\ UNCHANGED <<rows, counts>>
  <2>1. RecountAhead => RecountAhead'
    BY <1>1, <1>2, <1>3, RecountKept
  <2>2. QED
    BY <1>1, <1>3, <2>1 DEF RecountInv, CountsOf
<1>4. CASE ApplyFlagChanges(e) \/ DeleteMessages(e)
  <2>1. edit' = [edit EXCEPT ![e].pc = "badges"]
    BY <1>4 DEF ApplyFlagChanges, DeleteMessages
  <2>2. edit'[e].pc = "badges"
    BY <2>1 DEF EditTypeOK, Edit
  <2>3. QED
    BY <1>1, <2>2 DEF RecountInv, RecountAhead
<1>5. CASE RefreshFolderCounts(e)
  <2>1. counts' = CountsOf(rows)'
    BY <1>5 DEF RefreshFolderCounts, CountsOf
  <2>2. QED
    BY <1>1, <2>1 DEF RecountInv
<1>6. QED
  BY <1>3, <1>4, <1>5
     DEF EditStep, Choose, EditSelect, EditDisconnect, StoreFlags, RemoveOnServer, vars, server, cache

BadgesInv == fails = 0 => RecountInv

LEMMA BadgeStep ==
    ASSUME MaxValidity = 1
    PROVE  EditTypeOK /\ BadgesInv /\ [EditNext]_editVars => BadgesInv'
<1> SUFFICES ASSUME EditTypeOK, fails = 0 => RecountInv, [EditNext]_editVars, fails' = 0
             PROVE  RecountInv'
  BY DEF BadgesInv
<1>1. fails \in Nat /\ uidValidity = 1
  BY FolderSyncAssumption DEF EditTypeOK, TypeOK
<1>2. ASSUME fails' = fails + 1 PROVE FALSE
  BY <1>1, <1>2
<1>3. ASSUME MailboxStep, UNCHANGED edit PROVE RecountInv'
  <2>1. UNCHANGED <<uidValidity, rows, counts, sess, fails>>
    BY <1>1, <1>3 DEF MailboxStep, Deliver, RemoteFlag, Expunge, Renumber, cache
  <2>2. QED
    BY <1>3, <2>1 DEF RecountInv, RecountAhead, CountsOf
<1>4. ASSUME NEW s \in Syncers, SyncStep(s), UNCHANGED edit PROVE RecountInv'
  <2>1. fails' = fails
    BY <1>4 DEF SyncStep, Start, SelectFolder, ClearFolderMessages, FetchFlags, Diff, FetchHeaders,
         UpsertMessageHeaders, UpdateMessageFlags, ListUIDs, FindStale, DeleteStale,
         UpdateFolderSyncState, Disconnect
  <2>2. QED
    BY <1>4, <2>1, SyncBadges
<1>5. ASSUME NEW e \in Editors, (\E op \in Ops, u \in Uid : Choose(e, op, u)) \/ EditStep(e)
      PROVE  RecountInv'
  <2>1. fails' = fails
    BY <1>5 DEF EditStep, Choose, EditSelect, EditDisconnect, StoreFlags, ApplyFlagChanges,
         RemoveOnServer, DeleteMessages, RefreshFolderCounts, vars
  <2>2. QED
    BY <1>5, <2>1, EditorBadges
<1>6. CASE UNCHANGED editVars
  BY <1>6 DEF editVars, vars, server, cache, RecountInv, RecountAhead, CountsOf
<1>7. QED
  BY <1>2, <1>3, <1>4, <1>5, <1>6 DEF EditNext, Fail, EditFail

\* However the syncs and the edits interleave, the badges are right once all of
\* them are through, if none failed half way and the server does not renumber:
\* every writer of rows recounts after its last write.
THEOREM BadgesRight ==
    ASSUME MaxValidity = 1
    PROVE  EditSpec => []BadgesMatchAtRest
<1>1. EditInit => EditTypeOK /\ BadgesInv
  <2>1. ASSUME EditInit PROVE RecountInv
    <3>1. \A u \in Uid : rows[u] = NoRow
      BY <2>1 DEF EditInit, Init
    <3>2. {u \in Uid : rows[u].val # 0} = {}
      BY <3>1 DEF NoRow
    <3>3. CountsOf(rows) = [total |-> 0, unread |-> 0]
      BY <3>2, FS_EmptySet DEF CountsOf
    <3>4. QED
      BY <2>1, <3>3 DEF EditInit, Init, RecountInv, Idle
  <2>2. QED
    BY <2>1, InitType, NoEditType DEF EditInit, EditTypeOK, BadgesInv
<1>2. BadgesInv => BadgesMatchAtRest
  BY DEF BadgesInv, RecountInv, RecountAhead, BadgesMatchAtRest, Rest
<1>3. QED
  BY <1>1, <1>2, BadgeStep, EditStepType, PTL DEF EditSpec

-----------------------------------------------------------------------------
(* Edits that do not overlap, on a mailbox no other client changes the flags *)
(* of.                                                                       *)

\* A step that only brings cached flags to the server's and drops rows of
\* messages that are gone keeps what the syncs rely on.
LEMMA RowsFollow ==
    ASSUME IInv, TypeOK', UNCHANGED <<server, folder, sess, early>>,
           \A u \in Uid :
             /\ rows'[u].val = rows[u].val \/ (rows'[u].val = 0 /\ u \notin Live)
             /\ rows'[u].seen = rows[u].seen \/ (u \in Live => rows'[u].seen = msgs[u].seen)
    PROVE  IInv'
<1>1. /\ Cached' \subseteq Cached /\ Live' = Live
      /\ \A u \in Live : u \in Cached <=> u \in Cached'
      /\ \A u \in Cached' : rows'[u].val = rows[u].val
      /\ \A u \in Live : rows'[u].seen # rows[u].seen => rows'[u].seen = msgs[u].seen
  BY DEF Cached, Live, server
<1>2. OneSync' /\ BaselineKnown' /\ RowsNumbered'
  BY <1>1 DEF IInv, OneSync, Active, BaselineKnown, RowsNumbered, Current, server
<1>3. NothingMissed' /\ FlagsCatchUp'
  BY <1>1 DEF IInv, NothingMissed, FlagsCatchUp, Current, WillBeListed, server
<1>4. ASSUME NEW s \in Syncers PROVE SessionInv(s)'
  <2>1. SessionInv(s)
    BY DEF IInv
  <2>2. \A u \in Uid : Settled(s, u)' <=> Settled(s, u)
    BY SettledSame
  <2>3. \A u \in Uid : Settled(s, u) => u \in Live
    BY DEF Settled
  <2>4. SessionNumbered(s)'
    BY <1>1, <2>1 DEF SessionInv, SessionNumbered, Active, Selected, Diffed, Connected,
         uidValidityChanged, freshCache, server
  <2>5. ListingComplete(s)'
    BY <2>1, <2>2 DEF SessionInv, ListingComplete, Listed, Connected, useCondStore,
         uidValidityChanged, server
  <2>6. MissingPending(s)'
    BY <1>1, <2>1, <2>2, <2>3 DEF SessionInv, MissingPending, Diffed, Connected, server
  <2>7. FlagPending(s)'
    <3>1. Cached \subseteq Uid /\ Live \subseteq Uid /\ sess[s].fetched \subseteq Uid
      BY DEF IInv, TypeOK, Session, Cached, Live
    <3>2. UNCHANGED <<msgs, uidValidity>> /\ sess'[s] = sess[s]
      BY DEF server
    <3>3. \A u \in Cached' : Settled(s, u) /\ rows'[u].seen # msgs[u].seen =>
            u \in Cached /\ rows[u].seen # msgs[u].seen
      BY <1>1, <2>3, <3>1
    <3>4. QED
      BY <1>1, <2>1, <2>2, <3>1, <3>2, <3>3 DEF SessionInv, FlagPending, Diffed, Connected
  <2>8. KeepsSettled(s)'
    BY <2>1, <2>2 DEF SessionInv, KeepsSettled, Connected, server
  <2>9. QED
    BY <2>4, <2>5, <2>6, <2>7, <2>8 DEF SessionInv
<1>5. QED
  BY <1>2, <1>3, <1>4 DEF IInv

\* An edit keeps what the syncs rely on, because its cache write says of the
\* message what the server says.
LEMMA EditorKeepsSyncs ==
    ASSUME EditInv, NEW e \in Editors,
           \/ \E op \in Ops, u \in Uid : Choose(e, op, u)
           \/ EditStep(e) \/ EditFail(e)
    PROVE  IInv'
<1>1. IInv /\ EditTypeOK /\ StoreStands(e) /\ TypeOK'
  BY EditorFolderType DEF EditInv
<1>2. edit[e].pc # "idle" => edit[e].uid \in Uid
  BY <1>1 DEF StoreStands
<1>3. CASE UNCHANGED <<server, rows, folder, sess, early>>
  BY <1>1, <1>3, RowsFollow
<1>4. CASE StoreFlags(e) /\ ~ UNCHANGED <<msgs, highestModSeq>>
  <2>1. /\ UNCHANGED <<uidValidity, cache, sess, early>> /\ highestModSeq' = highestModSeq + 1
        /\ msgs' = [msgs EXCEPT ![edit[e].uid] = [mod |-> highestModSeq + 1,
                                                  seen |-> edit[e].op = "seen"]]
    BY <1>4 DEF StoreFlags
  <2>2. highestModSeq \in Nat /\ msgs \in [Uid -> [mod : ModSeq, seen : BOOLEAN]]
    BY <1>1, FolderSyncAssumption DEF IInv, TypeOK
  <2>3. ASSUME NEW u \in Uid
        PROVE  /\ msgs'[u].mod <= highestModSeq'
               /\ msgs'[u] = msgs[u] \/ msgs'[u].mod = 0 \/ msgs'[u].mod > highestModSeq
    <3>1. msgs[u].mod <= highestModSeq /\ msgs[u].mod \in Nat
      BY <1>1, <2>2 DEF IInv, BaselineKnown, ModSeq
    <3>2. msgs'[u] = msgs[u] \/ msgs'[u].mod = highestModSeq + 1
      BY <2>1, <2>2
    <3>3. QED
      BY <2>1, <2>2, <3>1, <3>2
  <2>4. QED
    BY <1>1, <2>1, <2>2, <2>3, ServerInv
<1>5. CASE RemoveOnServer(e)
  <2>1. /\ UNCHANGED <<uidValidity, cache, sess, highestModSeq, early>>
        /\ msgs' = [msgs EXCEPT ![edit[e].uid] = NoMsg]
    BY <1>5 DEF RemoveOnServer
  <2>2. highestModSeq \in Nat /\ msgs \in [Uid -> [mod : ModSeq, seen : BOOLEAN]]
    BY <1>1, FolderSyncAssumption DEF IInv, TypeOK
  <2>3. ASSUME NEW u \in Uid
        PROVE  /\ msgs'[u].mod <= highestModSeq'
               /\ msgs'[u] = msgs[u] \/ msgs'[u].mod = 0 \/ msgs'[u].mod > highestModSeq
    <3>1. msgs[u].mod <= highestModSeq
      BY <1>1 DEF IInv, BaselineKnown
    <3>2. msgs'[u] = msgs[u] \/ msgs'[u].mod = 0
      BY <2>1, <2>2 DEF NoMsg
    <3>3. QED
      BY <2>1, <2>2, <3>1, <3>2
  <2>4. QED
    BY <1>1, <2>1, <2>2, <2>3, ServerInv
<1>6. CASE ApplyFlagChanges(e)
  <2>1. /\ edit[e].pc = "cache" /\ edit[e].op # "drop"
        /\ UNCHANGED <<server, folder, sess, early>>
    BY <1>6 DEF ApplyFlagChanges
  <2>2. \A u \in Uid : rows'[u] = IF u = edit[e].uid /\ u \in Cached
                                  THEN [val |-> rows[u].val, seen |-> edit[e].op = "seen"]
                                  ELSE rows[u]
    BY <1>6 DEF ApplyFlagChanges
  <2>3. edit[e].uid \in Live => msgs[edit[e].uid].seen = (edit[e].op = "seen")
    <3>1. msgs \in [Uid -> [mod : ModSeq, seen : BOOLEAN]]
      BY <1>1 DEF IInv, TypeOK
    <3>2. edit[e].uid \in Live => (msgs[edit[e].uid].seen <=> edit[e].op = "seen")
      BY <1>1, <2>1 DEF StoreStands
    <3>3. QED
      BY <1>2, <2>1, <3>1, <3>2
  <2>4. ASSUME NEW u \in Uid
        PROVE  /\ rows'[u].val = rows[u].val
               /\ rows'[u].seen = rows[u].seen \/ (u \in Live => rows'[u].seen = msgs[u].seen)
    <3>1. CASE u = edit[e].uid /\ u \in Cached
      <4>1. rows'[u].val = rows[u].val /\ rows'[u].seen = (edit[e].op = "seen")
        <5> DEFINE flag == edit[e].op = "seen"
        <5>1. rows'[u] = [val |-> rows[u].val, seen |-> flag]
          BY <2>2, <3>1, Zenon
        <5> HIDE DEF flag
        <5>2. rows'[u].val = rows[u].val /\ rows'[u].seen = flag
          BY <5>1
        <5>3. QED
          BY <5>2, Zenon DEF flag
      <4>2. QED
        BY <2>3, <3>1, <4>1
    <3>2. CASE ~ (u = edit[e].uid /\ u \in Cached)
      <4>1. rows'[u] = rows[u]
        BY <2>2, <3>2
      <4>2. QED
        BY <4>1
    <3>3. QED
      BY <3>1, <3>2
  <2>5. QED
    BY <1>1, <2>1, <2>4, RowsFollow
<1>7. CASE DeleteMessages(e)
  <2>1. /\ edit[e].pc = "cache" /\ edit[e].op = "drop"
        /\ UNCHANGED <<server, folder, sess, early>>
    BY <1>7 DEF DeleteMessages
  <2>2. ASSUME NEW u \in Uid
        PROVE  IF u = edit[e].uid THEN rows'[u] = NoRow ELSE rows'[u] = rows[u]
    BY <1>7 DEF DeleteMessages
  <2>3. edit[e].uid \notin Live
    BY <1>1, <2>1 DEF StoreStands
  <2>4. QED
    BY <1>1, <2>1, <2>2, <2>3, RowsFollow DEF NoRow
<1>8. QED
  BY <1>3, <1>4, <1>5, <1>6, <1>7
     DEF EditStep, Choose, EditSelect, EditDisconnect, StoreFlags, RefreshFolderCounts, EditFail,
         vars, server, cache

\* A sync only learns of UIDs the server has.
LEMMA SyncKnowsUids ==
    ASSUME TypeOK, KnownUids, NEW s \in Syncers, SyncStep(s)
    PROVE  KnownUids'
<1>1. UNCHANGED server
  BY DEF SyncStep, Start, SelectFolder, ClearFolderMessages, FetchFlags, Diff, FetchHeaders,
         UpsertMessageHeaders, UpdateMessageFlags, ListUIDs, FindStale, DeleteStale,
         UpdateFolderSyncState, Disconnect
<1>2. ASSUME Cached' \subseteq Cached \cup sess[s].fetched,
             \A t \in Syncers \ {s} : sess'[t] = sess[t],
             sess'[s].fetched \subseteq sess[s].fetched \cup Live
      PROVE  KnownUids'
  BY <1>1, <1>2 DEF KnownUids, Live, server
<1>3. CASE UNCHANGED rows
  <2>1. Cached' = Cached
    BY <1>3 DEF Cached
  <2>2. ASSUME NEW w \in Windows, Start(s, w) PROVE KnownUids'
    <3>1. /\ \A t \in Syncers \ {s} : sess'[t] = sess[t]
          /\ sess' = [sess EXCEPT ![s] = [Idle EXCEPT !.pc = "select", !.window = w,
                                                      !.prior = folder]]
      BY <2>2, StartEffect DEF Start
    <3>2. sess'[s].fetched = {}
      BY <3>1 DEF TypeOK, Idle
    <3>3. QED
      BY <1>2, <2>1, <3>1, <3>2
  <2>3. ASSUME NEW c \in CondStore, SelectFolder(s, c) PROVE KnownUids'
    BY <1>2, <2>1, <2>3, SelectEffect
  <2>4. CASE FetchFlags(s)
    BY <1>2, <2>1, <2>4, ListEffect
  <2>5. CASE Diff(s)
    BY <1>2, <2>1, <2>5, DiffEffect
  <2>6. CASE FetchHeaders(s)
    BY <1>2, <2>1, <2>6, HeadersEffect
  <2>7. CASE ListUIDs(s)
    BY <1>2, <2>1, <2>7, UidsEffect
  <2>8. CASE FindStale(s)
    <3>1. /\ \A t \in Syncers \ {s} : sess'[t] = sess[t]
          /\ sess'[s].fetched = sess[s].fetched
      BY <2>8, FindEffect
    <3>2. QED
      BY <1>2, <2>1, <3>1
  <2>9. CASE UpdateFolderSyncState(s) \/ Disconnect(s)
    <3>1. sess' = [sess EXCEPT ![s] = Idle]
      BY <2>9 DEF UpdateFolderSyncState, Disconnect
    <3>2. /\ \A t \in Syncers \ {s} : sess'[t] = sess[t]
          /\ sess'[s].fetched = {}
      BY <3>1, EndEffect DEF TypeOK, Idle
    <3>3. QED
      BY <1>2, <2>1, <3>2
  <2>10. CASE ClearFolderMessages(s)
    BY <1>2, <2>1, <2>10, ClearEffect
  <2>11. CASE UpsertMessageHeaders(s)
    BY <1>2, <2>1, <2>11, StoreEffect
  <2>12. CASE UpdateMessageFlags(s)
    <3>1. /\ \A t \in Syncers \ {s} : sess'[t] = sess[t]
          /\ sess'[s].fetched = sess[s].fetched
      BY <2>12, FlagsEffect
    <3>2. QED
      BY <1>2, <2>1, <3>1
  <2>13. CASE DeleteStale(s)
    BY <1>2, <2>1, <2>13, DeleteEffect
  <2>14. QED
    BY <2>2, <2>3, <2>4, <2>5, <2>6, <2>7, <2>8, <2>9, <2>10, <2>11, <2>12, <2>13 DEF SyncStep
<1>4. CASE ClearFolderMessages(s)
  <2>1. Cached' = {}
    BY <1>4 DEF ClearFolderMessages, Cached, NoRow
  <2>2. QED
    BY <1>2, <1>4, <2>1, ClearEffect
<1>5. CASE UpsertMessageHeaders(s)
  <2>1. \A u \in Uid \ sess[s].fetched : rows'[u] = rows[u]
    BY <1>5 DEF UpsertMessageHeaders
  <2>2. Cached' \subseteq Cached \cup sess[s].fetched
    BY <2>1 DEF Cached
  <2>3. QED
    BY <1>2, <1>5, <2>2, StoreEffect
<1>6. CASE UpdateMessageFlags(s)
  <2>1. \A u \in Uid : rows'[u].val = rows[u].val
    BY <1>6 DEF UpdateMessageFlags
  <2>2. Cached' = Cached
    BY <2>1 DEF Cached
  <2>3. /\ \A t \in Syncers \ {s} : sess'[t] = sess[t]
        /\ sess'[s].fetched = sess[s].fetched
    BY <1>6, FlagsEffect
  <2>4. QED
    BY <1>2, <2>2, <2>3
<1>7. CASE DeleteStale(s)
  <2>1. \A u \in Uid : rows'[u].val = 0 \/ rows'[u].val = rows[u].val
    BY <1>7 DEF DeleteStale, NoRow
  <2>2. Cached' \subseteq Cached
    BY <2>1 DEF Cached
  <2>3. QED
    BY <1>2, <1>7, <2>2, DeleteEffect
<1>8. QED
  BY <1>3, <1>4, <1>5, <1>6, <1>7
     DEF SyncStep, Start, SelectFolder, FetchFlags, Diff, FetchHeaders, ListUIDs, FindStale,
         UpdateFolderSyncState, Disconnect, cache

\* While an edit runs, the others rest, and stay at rest.
LEMMA OtherEditsRest ==
    ASSUME EditInv, NEW e \in Editors,
           edit[e].pc # "idle" \/ \A f \in Editors : edit[f].pc = "idle",
           \A f \in Editors \ {e} : edit'[f] = edit[f]
    PROVE  OneEdit' /\ \A f \in Editors \ {e} : StoreStands(f)'
<1>1. \A f \in Editors \ {e} : edit'[f].pc = "idle"
  BY DEF EditInv, OneEdit
<1>2. QED
  BY <1>1 DEF OneEdit, StoreStands

\* An arrival or an expunge leaves what an edit did to the server as it is.
LEMMA MailboxKeepsEdits ==
    ASSUME EditInv, MailboxStep, UNCHANGED edit, ~ OtherClients, MaxValidity = 1
    PROVE  KnownUids' /\ OneEdit' /\ \A e \in Editors : StoreStands(e)'
<1>1. TypeOK /\ KnownUids /\ OneEdit /\ \A e \in Editors : StoreStands(e)
  BY DEF EditInv, EditTypeOK
<1>2. uidNext \in Nat /\ msgs \in [Uid -> [mod : ModSeq, seen : BOOLEAN]]
  BY <1>1 DEF TypeOK
<1>3. OneEdit'
  BY <1>1 DEF OneEdit
<1>4. CASE Deliver
  <2>1. /\ uidNext' = uidNext + 1 /\ UNCHANGED <<rows, sess>>
        /\ \A u \in Uid : u # uidNext => msgs'[u] = msgs[u]
    BY <1>2, <1>4 DEF Deliver, cache
  <2>2. Live' \subseteq Live \cup {uidNext}
    BY <2>1 DEF Live
  <2>3. KnownUids'
    BY <1>1, <1>2, <2>1, <2>2 DEF KnownUids, Cached, Uid
  <2>4. ASSUME NEW e \in Editors PROVE StoreStands(e)'
    <3>1. CASE edit[e].pc = "idle"
      BY <3>1 DEF StoreStands
    <3>2. CASE edit[e].pc # "idle"
      <4>1. edit[e].uid \in Uid /\ edit[e].uid < uidNext /\ edit[e].uid # uidNext
        BY <1>1, <1>2, <3>2 DEF StoreStands, Uid
      <4>2. edit[e].uid \in Nat /\ edit[e].uid < uidNext + 1
        BY <1>2, <4>1 DEF Uid
      <4>3. msgs'[edit[e].uid] = msgs[edit[e].uid]
        BY <2>1, <4>1
      <4>4. QED
        BY <1>1, <2>1, <4>1, <4>2, <4>3 DEF StoreStands, Live
    <3>3. QED
      BY <3>1, <3>2
  <2>5. QED
    BY <1>3, <2>3, <2>4
<1>5. ASSUME NEW v \in Uid, Expunge(v)
      PROVE  KnownUids' /\ \A e \in Editors : StoreStands(e)'
  <2>1. /\ UNCHANGED <<uidNext, rows, sess>>
        /\ \A u \in Uid : msgs'[u] = msgs[u] \/ msgs'[u].mod = 0
    BY <1>2, <1>5 DEF Expunge, cache, NoMsg
  <2>2. Live' \subseteq Live /\ \A u \in Live' : msgs'[u] = msgs[u]
    BY <2>1 DEF Live
  <2>3. KnownUids'
    BY <1>1, <2>1, <2>2 DEF KnownUids, Cached
  <2>4. \A e \in Editors : StoreStands(e)'
    BY <1>1, <2>1, <2>2 DEF StoreStands
  <2>5. QED
    BY <2>3, <2>4
<1>6. ASSUME NEW n, NEW flagged, Renumber(n, flagged) PROVE FALSE
  BY <1>1, <1>6 DEF Renumber, TypeOK
<1>7. QED
  BY <1>3, <1>4, <1>5, <1>6 DEF MailboxStep

\* Each step of an edit, with the others at rest, prepares the next.
LEMMA EditorKeepsEdits ==
    ASSUME EditInv, ~ EditsOverlap, NEW e \in Editors,
           \/ \E op \in Ops, u \in Uid : Choose(e, op, u)
           \/ EditStep(e) \/ EditFail(e)
    PROVE  KnownUids' /\ OneEdit' /\ \A f \in Editors : StoreStands(f)'
<1>1. /\ TypeOK /\ EditTypeOK /\ KnownUids /\ StoreStands(e)
      /\ msgs \in [Uid -> [mod : ModSeq, seen : BOOLEAN]]
  BY DEF EditInv, EditTypeOK, TypeOK
<1>2. edit[e] \in Edit /\ edit' \in [Editors -> Edit]
      /\ \A f \in Editors \ {e} : edit'[f] = edit[f]
  BY <1>1, EditorType DEF EditTypeOK
<1>3. edit[e].pc # "idle" \/ \A f \in Editors : edit[f].pc = "idle"
  BY DEF Choose, EditStep, EditSelect, EditDisconnect, StoreFlags, RemoveOnServer,
         ApplyFlagChanges, DeleteMessages, RefreshFolderCounts, EditFail
<1>4. OneEdit' /\ \A f \in Editors \ {e} : StoreStands(f)'
  BY <1>2, <1>3, OtherEditsRest
<1>5. ASSUME NEW op \in Ops, NEW u \in Uid, Choose(e, op, u)
      PROVE  KnownUids' /\ StoreStands(e)'
  <2>1. edit'[e].pc = "select" /\ edit'[e].uid = u
    BY <1>1, <1>5 DEF Choose, EditTypeOK
  <2>2. u < uidNext
    BY <1>1, <1>5 DEF Choose, KnownUids
  <2>3. QED
    BY <1>1, <1>5, <2>1, <2>2
       DEF Choose, StoreStands, KnownUids, Live, Cached, vars, server, cache
<1>6. ASSUME EditSelect(e) PROVE KnownUids' /\ StoreStands(e)'
  <2>1. edit'[e].pc = "server" /\ edit'[e].uid = edit[e].uid
    BY <1>1, <1>6 DEF EditSelect, EditTypeOK, Edit
  <2>2. QED
    BY <1>1, <1>6, <2>1
       DEF EditSelect, StoreStands, KnownUids, Live, Cached, vars, server, cache
<1>7. ASSUME StoreFlags(e) PROVE KnownUids' /\ StoreStands(e)'
  <2>1. /\ edit'[e].pc = "cache" /\ edit'[e].uid = edit[e].uid /\ edit'[e].op = edit[e].op
        /\ edit[e].uid \in Uid /\ edit[e].uid < uidNext /\ edit[e].op # "drop"
    BY <1>1, <1>7 DEF StoreFlags, EditTypeOK, Edit, StoreStands
  <2>2. /\ Live' = Live
        /\ edit[e].uid \in Live => (msgs'[edit[e].uid].seen <=> edit[e].op = "seen")
    <3>1. CASE edit[e].uid \in Live /\ msgs[edit[e].uid].seen # (edit[e].op = "seen")
      <4> DEFINE flag == edit[e].op = "seen"
      <4>1. /\ highestModSeq \in Nat
            /\ msgs' = [msgs EXCEPT ![edit[e].uid] = [mod |-> highestModSeq + 1, seen |-> flag]]
        BY <1>1, <1>7, <3>1, FolderSyncAssumption DEF StoreFlags, TypeOK
      <4> HIDE DEF flag
      <4>2. /\ msgs'[edit[e].uid].mod = highestModSeq + 1
            /\ msgs'[edit[e].uid].seen = flag
            /\ \A u \in Uid : u # edit[e].uid => msgs'[u] = msgs[u]
        BY <1>1, <2>1, <4>1
      <4>3. highestModSeq + 1 # 0
        BY <4>1
      <4>4. Live' = Live
        BY <3>1, <4>2, <4>3 DEF Live
      <4>5. msgs'[edit[e].uid].seen <=> edit[e].op = "seen"
        BY <4>2, Zenon DEF flag
      <4>6. QED
        BY <4>4, <4>5
    <3>2. CASE ~ (edit[e].uid \in Live /\ msgs[edit[e].uid].seen # (edit[e].op = "seen"))
      <4>1. UNCHANGED msgs
        BY <1>7, <3>2 DEF StoreFlags
      <4>2. msgs[edit[e].uid].seen \in BOOLEAN
        BY <1>1, <2>1
      <4>3. QED
        BY <3>2, <4>1, <4>2 DEF Live
    <3>3. QED
      BY <3>1, <3>2
  <2>3. UNCHANGED <<uidNext, rows, sess>>
    BY <1>7 DEF StoreFlags, cache
  <2>4. QED
    BY <1>1, <2>1, <2>2, <2>3 DEF StoreStands, KnownUids, Cached
<1>8. ASSUME RemoveOnServer(e) PROVE KnownUids' /\ StoreStands(e)'
  <2>1. /\ edit'[e].pc = "cache" /\ edit'[e].uid = edit[e].uid /\ edit'[e].op = edit[e].op
        /\ edit[e].uid \in Uid /\ edit[e].uid < uidNext /\ edit[e].op = "drop"
    BY <1>1, <1>8 DEF RemoveOnServer, EditTypeOK, Edit, StoreStands
  <2>2. Live' = Live \ {edit[e].uid} /\ UNCHANGED <<uidNext, rows, sess>>
    BY <1>1, <1>8 DEF RemoveOnServer, Live, NoMsg, cache
  <2>3. QED
    BY <1>1, <2>1, <2>2 DEF StoreStands, KnownUids, Cached
<1>9. ASSUME ApplyFlagChanges(e) \/ DeleteMessages(e) PROVE KnownUids' /\ StoreStands(e)'
  <2>1. edit'[e].pc = "badges" /\ edit'[e].uid = edit[e].uid
    BY <1>1, <1>9 DEF ApplyFlagChanges, DeleteMessages, EditTypeOK, Edit
  <2>2. Cached' \subseteq Cached
    <3>1. ASSUME NEW u \in Uid PROVE rows'[u].val = rows[u].val \/ rows'[u].val = 0
      BY <1>9 DEF ApplyFlagChanges, DeleteMessages, NoRow
    <3>2. QED
      BY <3>1 DEF Cached
  <2>3. UNCHANGED <<server, sess>> /\ edit[e].pc # "idle"
    BY <1>9 DEF ApplyFlagChanges, DeleteMessages
  <2>4. QED
    BY <1>1, <2>1, <2>2, <2>3 DEF StoreStands, KnownUids, Live, server
<1>10. ASSUME RefreshFolderCounts(e) \/ EditFail(e) \/ EditDisconnect(e) PROVE KnownUids' /\ StoreStands(e)'
  <2>1. edit'[e].pc = "idle"
    BY <1>1, <1>10 DEF RefreshFolderCounts, EditFail, EditDisconnect, EditTypeOK, NoEdit
  <2>2. UNCHANGED <<server, rows, sess>>
    BY <1>10 DEF RefreshFolderCounts, EditFail, EditDisconnect, vars, cache
  <2>3. QED
    BY <1>1, <2>1, <2>2 DEF StoreStands, KnownUids, Live, Cached, server
<1>11. QED
  BY <1>4, <1>5, <1>6, <1>7, <1>8, <1>9, <1>10 DEF EditStep

\* Every step keeps the invariant.
LEMMA EditInvStep ==
    ASSUME ~ Overlap, ~ EditsOverlap, ~ OtherClients, MaxValidity = 1
    PROVE  EditInv /\ [EditNext]_editVars => EditInv'
<1> SUFFICES ASSUME EditInv, [EditNext]_editVars PROVE EditInv'
  OBVIOUS
<1>1. EditTypeOK' /\ IInv /\ TypeOK
  BY EditStepType DEF EditInv, EditTypeOK
<1>2. ASSUME MailboxStep, UNCHANGED edit PROVE EditInv'
  <2>1. IInv'
    BY <1>1, <1>2, TakenOver, StepInv
  <2>2. QED
    BY <1>1, <1>2, <2>1, MailboxKeepsEdits DEF EditInv
<1>3. ASSUME NEW s \in Syncers, SyncStep(s) \/ Fail(s), UNCHANGED edit PROVE EditInv'
  <2>1. IInv'
    BY <1>1, <1>3, TakenOver, StepInv
  <2>2. UNCHANGED server
    BY <1>3 DEF SyncStep, Start, SelectFolder, ClearFolderMessages, FetchFlags, Diff,
         FetchHeaders, UpsertMessageHeaders, UpdateMessageFlags, ListUIDs, FindStale,
         DeleteStale, UpdateFolderSyncState, Disconnect, Fail
  <2>3. KnownUids'
    <3>1. CASE SyncStep(s)
      BY <1>1, <3>1, SyncKnowsUids DEF EditInv
    <3>2. CASE Fail(s)
      <4>1. sess'[s].fetched = {} /\ \A t \in Syncers \ {s} : sess'[t] = sess[t]
        BY <1>1, <3>2, EndEffect DEF Fail, TypeOK, Idle
      <4>2. QED
        BY <3>2, <4>1 DEF EditInv, KnownUids, Fail, Live, Cached, server, cache
    <3>3. QED
      BY <1>3, <3>1, <3>2
  <2>4. OneEdit' /\ \A e \in Editors : StoreStands(e)'
    BY <1>3, <2>2 DEF EditInv, OneEdit, StoreStands, Live, server
  <2>5. QED
    BY <1>1, <2>1, <2>3, <2>4 DEF EditInv
<1>4. ASSUME NEW e \in Editors,
             \/ \E op \in Ops, u \in Uid : Choose(e, op, u)
             \/ EditStep(e) \/ EditFail(e)
      PROVE  EditInv'
  BY <1>1, <1>4, EditorKeepsSyncs, EditorKeepsEdits DEF EditInv
<1>5. CASE UNCHANGED editVars
  <2>1. UNCHANGED vars /\ UNCHANGED edit
    BY <1>5 DEF editVars
  <2>2. IInv'
    BY <1>1, <2>1, StepInv
  <2>3. KnownUids' /\ OneEdit' /\ \A e \in Editors : StoreStands(e)'
    BY <2>1 DEF EditInv, KnownUids, OneEdit, StoreStands, Live, Cached, vars, server, cache
  <2>4. QED
    BY <1>1, <2>2, <2>3 DEF EditInv
<1>6. QED
  BY <1>2, <1>3, <1>4, <1>5 DEF EditNext

LEMMA EditInvInit == EditInit => EditInv
<1> SUFFICES ASSUME EditInit PROVE EditInv
  OBVIOUS
<1>1. IInv /\ EditTypeOK
  BY InitInv, InitType, NoEditType DEF EditInit, EditTypeOK
<1>2. Cached = {} /\ \A s \in Syncers : sess[s].fetched = {}
  BY DEF EditInit, Init, Cached, NoRow, Idle
<1>3. ASSUME NEW u \in Live PROVE u < uidNext
  <2>1. PICK n \in 0 .. MaxUid : uidNext = n + 1 /\ msgs = Numbered(n, {})
    BY DEF EditInit, Init
  <2>2. u \in Uid /\ msgs[u].mod # 0
    BY DEF Live
  <2>3. u <= n
    BY <2>1, <2>2 DEF Numbered, NoMsg
  <2>4. QED
    BY <2>1, <2>2, <2>3, FolderSyncAssumption DEF Uid
<1>4. KnownUids
  BY <1>2, <1>3 DEF KnownUids
<1>5. OneEdit /\ \A e \in Editors : StoreStands(e)
  BY DEF EditInit, OneEdit, StoreStands, NoEdit
<1>6. QED
  BY <1>1, <1>4, <1>5 DEF EditInv

LEMMA EditInvariance ==
    ASSUME ~ Overlap, ~ EditsOverlap, ~ OtherClients, MaxValidity = 1
    PROVE  EditSpec => []EditInv
BY EditInvInit, EditInvStep, PTL DEF EditSpec

\* An edit that runs, fails or stops half way beside a sync never leaves a flag
\* wrong that the next sync would not list.
THEOREM EditsCatchUp ==
    ASSUME ~ Overlap, ~ EditsOverlap, ~ OtherClients, MaxValidity = 1
    PROVE  EditSpec => []FlagsCatchUp
<1>1. EditInv => FlagsCatchUp
  BY DEF EditInv, IInv
<1>2. QED
  BY <1>1, EditInvariance, PTL

\* Nor does it make a sync lose a message.
THEOREM EditsLoseNothing ==
    ASSUME ~ Overlap, ~ EditsOverlap, ~ OtherClients, MaxValidity = 1
    PROVE  EditSpec => []NothingMissed
<1>1. EditInv => NothingMissed
  BY DEF EditInv, IInv
<1>2. QED
  BY <1>1, EditInvariance, PTL

-----------------------------------------------------------------------------
(* FolderUses. *)

\* Every use of a folder is a behaviour of the edits beside the syncs.
THEOREM UsesAreEdits == UsesSpec => EditSpec
<1>1. InitUses => EditInit
  BY DEF InitUses
<1>2. [NextUses]_usesVars => [EditNext]_editVars
  BY DEF NextUses, usesVars, EditNext, Reading, Editing, SyncGoesOn, EditGoesOn, MailboxStep
<1>3. QED
  BY <1>1, <1>2, PTL DEF UsesSpec, EditSpec

=============================================================================
