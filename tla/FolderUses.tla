----------------------------- MODULE FolderUses -----------------------------
(***************************************************************************)
(* A folder and its cache in three uses, each a behaviour of FolderEdits:  *)
(* the user only reads, while other clients of the account and the server  *)
(* change the mailbox; the user is the only client, and makes one edit     *)
(* after the other; or several edits at once, of a single message.         *)
(***************************************************************************)
EXTENDS FolderEdits

VARIABLE use

usesVars == <<editVars, use>>

InitUses ==
    /\ EditInit
    /\ use \in {"reads", "edits"} \cup (IF uidNext <= 2 THEN {"several"} ELSE {})

Reading == use = "reads" /\ UNCHANGED <<edit, use>>

\* Bounds: where the user edits, the mailbox is not renumbered and a sync is
\* not windowed; where several edits are made at once, there is one message
\* and nothing fails.
Editing ==
    /\ use # "reads" /\ UNCHANGED <<uidValidity, use>>
    /\ \A s \in Syncers : sess'[s].window = 0
    /\ use = "several" => uidNext' <= 2 /\ fails' = 0

\* The editor that makes the edits one after the other.
Only == CHOOSE e \in Editors : TRUE

SyncGoesOn(s) == SyncStep(s) /\ (Reading \/ (UNCHANGED edit /\ Editing))

EditGoesOn(e) == EditStep(e) /\ Editing

NextUses ==
    \/ MailboxStep /\ Reading
    \/ (Deliver \/ \E u \in Uid : Expunge(u)) /\ UNCHANGED edit /\ Editing
    \/ \E s \in Syncers :
         \/ SyncGoesOn(s)
         \/ Fail(s) /\ (Reading \/ (UNCHANGED edit /\ Editing))
    \/ \E e \in Editors :
         /\ use = "several" \/ e = Only
         /\ \/ \E op \in Ops, u \in Uid : Choose(e, op, u) /\ Editing
            \/ EditGoesOn(e)
            \/ EditFail(e) /\ Editing

UsesSpec == InitUses /\ [][NextUses]_usesVars

\* Every syncer keeps running syncs (the TUI's sync tick, a later "sync"
\* command) and every sync takes its next step; an edit begun is carried on.
\* The user, the server and the failures owe nothing.
FairUsesSpec ==
    /\ UsesSpec
    /\ \A s \in Syncers : WF_usesVars(SyncGoesOn(s))
    /\ \A e \in Editors : WF_usesVars(EditGoesOn(e))

=============================================================================
