---------------------------- MODULE FolderEdits ----------------------------
(***************************************************************************)
(* The edits of cached messages (internal/core/message/actions.go), beside *)
(* the syncs of FolderSync: a flag change, or a message that leaves the    *)
(* folder (moved or purged).  Each edit selects the folder, changes the    *)
(* server, then the cache, then the badges, and a sync may take any of its *)
(* steps in between.                                                       *)
(*                                                                         *)
(* An edit names a message by its UID alone.  A batch goes through the     *)
(* same steps for all of its UIDs; one UID per edit is modelled.           *)
(***************************************************************************)
EXTENDS FolderSync

CONSTANTS
    Editors,        \* the TUI commands and CLI processes that may edit
    Ops,            \* the edits made: a subset of EditOps
    EditsOverlap,   \* may an edit start while another one runs
    OtherClients    \* do other clients of the account change flags

EditOps == {"seen", "unseen", "drop"}

ASSUME FolderEditsAssumption ==
    /\ Ops \subseteq EditOps
    /\ EditsOverlap \in BOOLEAN /\ OtherClients \in BOOLEAN

VARIABLE edit   \* edit[e]: the arguments and the progress of editor e

editVars == <<vars, edit>>

\* chosen is the UIDVALIDITY of the row the user picked (the code keeps the
\* UID only), val the one of the mailbox SELECT opened.
Edit == [pc : {"idle", "select", "server", "cache", "badges"}, op : EditOps,
         uid : 0 .. MaxUid, chosen : Validity, val : Validity]

NoEdit == [pc |-> "idle", op |-> "seen", uid |-> 0, chosen |-> 0, val |-> 0]

EditInit == Init /\ edit = [e \in Editors |-> NoEdit]

\* The message list, the viewer or the command line names a cached message.
Choose(e, op, u) ==
    /\ edit[e].pc = "idle"
    /\ EditsOverlap \/ \A f \in Editors : edit[f].pc = "idle"
    /\ u \in Cached
    /\ edit' = [edit EXCEPT ![e] = [pc |-> "select", op |-> op, uid |-> u,
                                    chosen |-> rows[u].val, val |-> 0]]
    /\ UNCHANGED vars

\* Fault: the cache is changed before the server is asked.
EditSelectOptimistic(e) ==
    /\ edit[e].pc = "select"
    /\ edit' = [edit EXCEPT ![e].pc = "server", ![e].val = uidValidity]
    /\ rows' = [rows EXCEPT ![edit[e].uid].seen =
                    IF edit[e].uid \in Cached THEN edit[e].op = "seen" ELSE @]
    /\ UNCHANGED <<server, folder, counts, sess, fails, early>>

\* eachGroup and moveGroup: the UIDVALIDITY SELECT returns is not looked at.
EditSelect(e) ==
    /\ edit[e].pc = "select"
    /\ edit' = [edit EXCEPT ![e].pc = "server", ![e].val = uidValidity]
    /\ UNCHANGED vars

\* A STORE of a UID that is gone, or of a flag as it already is, succeeds and
\* changes nothing.
StoreFlags(e) ==
    /\ edit[e].pc = "server" /\ edit[e].op # "drop"
    /\ edit[e].val = uidValidity
    /\ LET u == edit[e].uid
           seen == edit[e].op = "seen"
       IN IF u \in Live /\ msgs[u].seen # seen
          THEN /\ highestModSeq < MaxMod
               /\ msgs' = [msgs EXCEPT ![u] = [mod |-> highestModSeq + 1, seen |-> seen]]
               /\ highestModSeq' = highestModSeq + 1
          ELSE UNCHANGED <<msgs, highestModSeq>>
    /\ edit' = [edit EXCEPT ![e].pc = "cache"]
    /\ UNCHANGED <<uidValidity, uidNext, cache, sess, fails, early>>

\* Fault: the server's refusal is taken for a success.
RemoveNothing(e) ==
    /\ edit[e].pc = "server" /\ edit[e].op = "drop"
    /\ edit[e].val = uidValidity
    /\ edit' = [edit EXCEPT ![e].pc = "cache"]
    /\ UNCHANGED vars

\* MoveToFolder or Purge: the message leaves the folder.
RemoveOnServer(e) ==
    /\ edit[e].pc = "server" /\ edit[e].op = "drop"
    /\ edit[e].val = uidValidity
    /\ msgs' = [msgs EXCEPT ![edit[e].uid] = NoMsg]
    /\ edit' = [edit EXCEPT ![e].pc = "cache"]
    /\ UNCHANGED <<uidValidity, uidNext, highestModSeq, cache, sess, fails, early>>

\* Fault: the edit ends without a look at the badges.
ApplyWithoutBadges(e) ==
    /\ edit[e].pc = "cache" /\ edit[e].op # "drop"
    /\ rows' = [u \in Uid |-> IF u = edit[e].uid /\ u \in Cached
                              THEN [val |-> rows[u].val, seen |-> edit[e].op = "seen"]
                              ELSE rows[u]]
    /\ edit' = [edit EXCEPT ![e] = NoEdit]
    /\ UNCHANGED <<server, folder, counts, sess, fails, early>>

\* A UID without a cached row is skipped.
ApplyFlagChanges(e) ==
    /\ edit[e].pc = "cache" /\ edit[e].op # "drop"
    /\ rows' = [u \in Uid |-> IF u = edit[e].uid /\ u \in Cached
                              THEN [val |-> rows[u].val, seen |-> edit[e].op = "seen"]
                              ELSE rows[u]]
    /\ edit' = [edit EXCEPT ![e].pc = "badges"]
    /\ UNCHANGED <<server, folder, counts, sess, fails, early>>

DeleteMessages(e) ==
    /\ edit[e].pc = "cache" /\ edit[e].op = "drop"
    /\ rows' = [u \in Uid |-> IF u = edit[e].uid THEN NoRow ELSE rows[u]]
    /\ edit' = [edit EXCEPT ![e].pc = "badges"]
    /\ UNCHANGED <<server, folder, counts, sess, fails, early>>

\* Fault: the badge is counted down instead of recounted.
CountDown(e) ==
    /\ edit[e].pc = "badges"
    /\ counts' = [counts EXCEPT !.unread = @ - 1]
    /\ edit' = [edit EXCEPT ![e] = NoEdit]
    /\ UNCHANGED <<server, rows, folder, sess, fails, early>>

RefreshFolderCounts(e) ==
    /\ edit[e].pc = "badges"
    /\ counts' = CountsOf(rows)
    /\ edit' = [edit EXCEPT ![e] = NoEdit]
    /\ UNCHANGED <<server, rows, folder, sess, fails, early>>

\* An error, a timeout or the end of the process: what was done stays done.
EditFail(e) ==
    /\ edit[e].pc # "idle"
    /\ fails < MaxFail
    /\ fails' = fails + 1
    /\ edit' = [edit EXCEPT ![e] = NoEdit]
    /\ UNCHANGED <<server, cache, sess, early>>

\* The mailbox the edit had selected was renumbered.
EditDisconnect(e) ==
    /\ edit[e].pc = "server" /\ edit[e].val # uidValidity
    /\ edit' = [edit EXCEPT ![e] = NoEdit]
    /\ UNCHANGED vars

EditStep(e) ==
    \/ EditSelect(e) \/ EditDisconnect(e)
    \/ StoreFlags(e) \/ ApplyFlagChanges(e)
    \/ RemoveOnServer(e) \/ DeleteMessages(e)
    \/ RefreshFolderCounts(e)

\* The server's own steps, without other clients' flag changes if there are
\* no other clients.
MailboxStep ==
    \/ Deliver
    \/ \E u \in Uid : Expunge(u) \/ (OtherClients /\ RemoteFlag(u))
    \/ \E n \in 0 .. MaxUid : \E flagged \in SUBSET (1 .. n) : Renumber(n, flagged)

EditNext ==
    \/ /\ MailboxStep \/ \E s \in Syncers : SyncStep(s) \/ Fail(s)
       /\ UNCHANGED edit
    \/ \E e \in Editors :
         \/ \E op \in Ops, u \in Uid : Choose(e, op, u)
         \/ EditStep(e) \/ EditFail(e)

EditSpec == EditInit /\ [][EditNext]_editVars

-----------------------------------------------------------------------------
(* Properties. *)

EditTypeOK == TypeOK /\ edit \in [Editors -> Edit]

Rest ==
    /\ \A s \in Syncers : sess[s].pc = "idle"
    /\ \A e \in Editors : edit[e].pc = "idle"

\* The server renumbered the mailbox, and no sync has recorded it yet.
Renumbered == folder.val \notin {0, uidValidity}

\* When no sync and no edit is under way and none failed, the badges count the
\* cached rows: every writer of rows recounts after its last write, in whatever
\* order the writers interleave; only a renumbering can cut a sync off between
\* the two (folder.go: UpdateFolderSyncState, RefreshFolderCounts).
BadgesMatchAtRest == Rest /\ fails = 0 => counts = CountsOf(rows) \/ Renumbered

\* With nothing under way, a cached flag that differs from the server's is one
\* the next sync will list: no edit leaves the cache wrong for good
\* (SetFlags: on the server, then in the cache).
FlagsCatchUpAtRest == Rest => FlagsCatchUp

-----------------------------------------------------------------------------
(* The invariant behind EditsCatchUp and EditsLoseNothing. *)

\* UIDs the cache or a sync knows of were assigned.
KnownUids ==
    \A u \in Uid :
      (u \in Live \/ u \in Cached \/ \E s \in Syncers : u \in sess[s].fetched) => u < uidNext

OneEdit ==
    \A e, f \in Editors : edit[e].pc # "idle" /\ edit[f].pc # "idle" => e = f

\* What the server did with an edit still stands when the cache follows.
StoreStands(e) ==
    /\ edit[e].pc # "idle" => edit[e].uid \in Uid /\ edit[e].uid < uidNext
    /\ edit[e].pc = "cache" =>
         IF edit[e].op = "drop" THEN edit[e].uid \notin Live
         ELSE edit[e].uid \in Live => (msgs[edit[e].uid].seen <=> edit[e].op = "seen")

EditInv ==
    /\ EditTypeOK /\ IInv
    /\ KnownUids /\ OneEdit
    /\ \A e \in Editors : StoreStands(e)

=============================================================================
