------------------------- MODULE DraftSessionProofs -------------------------
(* What DraftSession guarantees for any number of goroutines and any bound. *)
EXTENDS DraftSession, FiniteSetTheorems, TLAPS

Saving == {"append", "purge", "saved", "failed"}

\* What the constants are.
LEMMA Bounds ==
    /\ MaxGen \in Nat /\ MaxText \in Nat /\ MaxUid \in Nat /\ MaxFail \in Nat
    /\ 0 \in Text /\ 0 \in 0 .. MaxUid /\ 0 \in 0 .. MaxGen
    /\ Doc = 0 .. MaxGen /\ Text \subseteq Nat
BY DraftSessionAssumption DEF Doc, Text

LEMMA JobTyped ==
    ASSUME TypeOK, NEW j \in Jobs
    PROVE  /\ jobs[j] \in Job
           /\ jobs[j].pc \in {"none", "append", "purge", "saved", "failed",
                              "send", "sent", "unsent", "discard"}
           /\ jobs[j].gen \in 0 .. MaxGen /\ jobs[j].doc \in Doc
           /\ jobs[j].text \in Text
           /\ jobs[j].prev \in 0 .. MaxUid /\ jobs[j].uid \in 0 .. MaxUid
BY DEF TypeOK, Job

LEMMA PaneTyped ==
    ASSUME TypeOK
    PROVE  /\ pane.open \in BOOLEAN /\ pane.saving \in BOOLEAN
           /\ pane.gen \in 0 .. MaxGen /\ pane.doc \in Doc
           /\ pane.text \in Text /\ pane.initial \in Text /\ pane.lastSaved \in Text
           /\ pane.ref \in 0 .. MaxUid
           /\ viewing.uid \in 0 .. MaxUid /\ viewing.doc \in Doc
           /\ viewing.text \in Text
BY DEF TypeOK, Pane, View

\* A job that goes on stays a job, and no other one changes.
LEMMA ReachTyped ==
    ASSUME TypeOK, NEW j \in Jobs,
           NEW pc \in {"none", "append", "purge", "saved", "failed",
                       "send", "sent", "unsent", "discard"},
           Reach(j, pc)
    PROVE  jobs' \in [Jobs -> Job]
<1> DEFINE new == [jobs[j] EXCEPT !.pc = pc]
<1>1. jobs' = [jobs EXCEPT ![j] = new]
    BY DEF Reach
<1>2. new \in Job
    BY JobTyped DEF Job
<1> QED BY <1>1, <1>2 DEF TypeOK

LEMMA DoneTyped ==
    ASSUME TypeOK, NEW j \in Jobs, Done(j)
    PROVE  jobs' \in [Jobs -> Job]
<1>1. NoJob \in Job
    BY Bounds DEF NoJob, Job
<1> QED BY <1>1 DEF TypeOK, Done

LEMMA SaveTyped ==
    ASSUME TypeOK, NEW j \in Jobs, Save(j)
    PROVE  jobs' \in [Jobs -> Job]
<1>1. [pc |-> "append", gen |-> pane.gen, doc |-> pane.doc, text |-> pane.text,
       prev |-> pane.ref, uid |-> 0] \in Job
    BY Bounds, PaneTyped DEF Job
<1> QED BY <1>1 DEF TypeOK, Save

LEMMA AppendTyped ==
    ASSUME TypeOK, NEW j \in Jobs, uidNext <= MaxUid, NEW d, NEW t,
           d = jobs[j].doc, t = jobs[j].text,
           drafts' = [drafts EXCEPT ![uidNext] = [doc |-> d, text |-> t]],
           uidNext' = uidNext + 1
    PROVE  /\ drafts' \in [Uid -> [doc : Doc, text : Text]]
           /\ uidNext' \in 1 .. MaxUid + 1
<1>1. uidNext \in Uid
    BY Bounds DEF TypeOK, Uid
<1>2. [doc |-> d, text |-> t] \in [doc : Doc, text : Text]
    BY JobTyped
<1>3. drafts' \in [Uid -> [doc : Doc, text : Text]]
    BY <1>1, <1>2 DEF TypeOK
<1>4. uidNext' \in 1 .. MaxUid + 1
    BY Bounds DEF TypeOK
<1> QED BY <1>3, <1>4

LEMMA FailureTyped ==
    ASSUME TypeOK, Failure
    PROVE  fails' \in 0 .. MaxFail
BY Bounds DEF TypeOK, Failure

LEMMA RemovalTyped ==
    ASSUME TypeOK, NEW u,
           drafts' = IF UidPlus THEN [drafts EXCEPT ![u] = NoCopy] ELSE drafts
    PROVE  drafts' \in [Uid -> [doc : Doc, text : Text]]
<1>1. NoCopy \in [doc : Doc, text : Text]
    BY Bounds DEF NoCopy
<1> QED BY <1>1 DEF TypeOK

LEMMA EnterTyped ==
    ASSUME TypeOK, NEW d \in Doc, NEW t \in Text, NEW u \in 0 .. MaxUid,
           enterCompose(d, t, u)
    PROVE  pane' \in Pane /\ viewing' \in View
<1>1. pane.gen + 1 \in 0 .. MaxGen
    BY Bounds, PaneTyped DEF enterCompose
<1>2. pane' \in Pane
    BY <1>1 DEF enterCompose, Pane
<1>3. viewing' \in View
    BY Bounds DEF enterCompose, View, NoView
<1> QED BY <1>2, <1>3

\* Every step keeps the state well typed.
LEMMA TypeStep ==
    ASSUME TypeOK, [Next]_vars
    PROVE  TypeOK'
<1>1. CASE NewMessage
    <2>1. pane.gen + 1 \in 0 .. MaxGen
        BY <1>1, Bounds, PaneTyped DEF NewMessage, enterCompose
    <2>2. pane' \in Pane /\ viewing' \in View
        BY <1>1, <2>1, Bounds, EnterTyped DEF NewMessage
    <2> QED BY <1>1, <2>2 DEF NewMessage, TypeOK, folder
<1>2. CASE startEditDraft
    <2>1. pane' \in Pane /\ viewing' \in View
        BY <1>2, PaneTyped, EnterTyped DEF startEditDraft
    <2> QED BY <1>2, <2>1 DEF startEditDraft, TypeOK, folder
<1>3. CASE Type
    <2>1. newest[pane.doc] \in Text /\ pane.doc \in Doc
        BY PaneTyped DEF TypeOK
    <2>2. newest[pane.doc] + 1 \in Text
        BY <1>3, <2>1, Bounds DEF Type, Text
    <2>3. newest' \in [Doc -> Text]
        BY <1>3, <2>1, <2>2 DEF Type, TypeOK
    <2>4. pane' \in Pane
        BY <1>3, <2>2 DEF Type, TypeOK, Pane
    <2> QED BY <1>3, <2>3, <2>4 DEF Type, TypeOK, folder
<1>4. ASSUME NEW u \in Uid, ViewDraft(u)
      PROVE  TypeOK'
    <2>1. drafts[u] \in [doc : Doc, text : Text] /\ u \in 0 .. MaxUid
        BY Bounds DEF TypeOK, Uid
    <2>2. viewing' \in View
        BY <1>4, <2>1 DEF ViewDraft, View
    <2> QED BY <1>4, <2>2 DEF ViewDraft, TypeOK, folder
<1>5. ASSUME NEW j \in Jobs, handleDraftAutosaveTick(j) \/ saveDraftNow(j)
      PROVE  TypeOK'
    <2>1. jobs' \in [Jobs -> Job]
        BY <1>5, SaveTyped DEF handleDraftAutosaveTick, saveDraftNow
    <2>2. pane' \in Pane
        BY <1>5 DEF handleDraftAutosaveTick, saveDraftNow, TypeOK, Pane
    <2> QED BY <1>5, <2>1, <2>2 DEF handleDraftAutosaveTick, saveDraftNow, TypeOK, folder
<1>6. ASSUME NEW j \in Jobs, cancelCompose(j)
      PROVE  TypeOK'
    <2>1. jobs' \in [Jobs -> Job]
        BY <1>6, SaveTyped DEF cancelCompose, TypeOK
    <2>2. pane' \in Pane
        BY <1>6 DEF cancelCompose, TypeOK, Pane
    <2>3. crossed' \subseteq Doc
        BY <1>6, PaneTyped DEF cancelCompose, TypeOK
    <2> QED BY <1>6, <2>1, <2>2, <2>3 DEF cancelCompose, TypeOK, folder
<1>7. ASSUME NEW j \in Jobs, sendCompose(j)
      PROVE  TypeOK'
    <2>1. [NoJob EXCEPT !.pc = "send", !.doc = pane.doc, !.text = pane.text] \in Job
        BY Bounds, PaneTyped DEF NoJob, Job
    <2>2. jobs' \in [Jobs -> Job]
        BY <1>7, <2>1 DEF sendCompose, TypeOK
    <2> QED BY <1>7, <2>2 DEF sendCompose, TypeOK, folder
<1>8. ASSUME NEW j \in Jobs, Append(j)
      PROVE  TypeOK'
    <2> DEFINE new == [jobs[j] EXCEPT !.pc = AfterAppend(j),
                                      !.uid = IF UidPlus THEN uidNext ELSE 0]
    <2>1. /\ AfterAppend(j) \in {"purge", "saved"}
          /\ (IF UidPlus THEN uidNext ELSE 0) \in 0 .. MaxUid
        BY <1>8, Bounds DEF Append, AfterAppend, TypeOK
    <2>2. new \in Job
        BY <2>1, JobTyped DEF Job
    <2>3. jobs' = [jobs EXCEPT ![j] = new]
        BY <1>8 DEF Append
    <2>4. jobs' \in [Jobs -> Job]
        BY <2>2, <2>3 DEF TypeOK
    <2>5. /\ drafts' \in [Uid -> [doc : Doc, text : Text]]
          /\ uidNext' \in 1 .. MaxUid + 1
        BY <1>8, AppendTyped DEF Append
    <2> QED BY <1>8, <2>4, <2>5 DEF Append, TypeOK
<1>9. ASSUME NEW j \in Jobs, AppendLost(j)
      PROVE  TypeOK'
    <2>1. /\ drafts' \in [Uid -> [doc : Doc, text : Text]]
          /\ uidNext' \in 1 .. MaxUid + 1
        BY <1>9, AppendTyped DEF AppendLost
    <2>2. jobs' \in [Jobs -> Job] /\ fails' \in 0 .. MaxFail
        BY <1>9, ReachTyped, FailureTyped DEF AppendLost
    <2> QED BY <1>9, <2>1, <2>2 DEF AppendLost, TypeOK
<1>10. ASSUME NEW j \in Jobs, AppendFail(j) \/ PurgeFail(j) \/ SendFail(j)
       PROVE  TypeOK'
    <2>1. jobs' \in [Jobs -> Job] /\ fails' \in 0 .. MaxFail
        BY <1>10, ReachTyped, FailureTyped DEF AppendFail, PurgeFail, SendFail
    <2> QED BY <1>10, <2>1 DEF AppendFail, PurgeFail, SendFail, TypeOK, folder
<1>11. ASSUME NEW j \in Jobs, Purge(j)
       PROVE  TypeOK'
    <2>1. jobs' \in [Jobs -> Job] /\ drafts' \in [Uid -> [doc : Doc, text : Text]]
        BY <1>11, ReachTyped, RemovalTyped DEF Purge
    <2> QED BY <1>11, <2>1 DEF Purge, TypeOK
<1>12. ASSUME NEW j \in Jobs, handleDraftSaveResult(j)
       PROVE  TypeOK'
    <2>1. pane' \in Pane
        BY <1>12, JobTyped DEF handleDraftSaveResult, TypeOK, Pane
    <2>2. jobs' \in [Jobs -> Job]
        BY <1>12, DoneTyped DEF handleDraftSaveResult
    <2> QED BY <1>12, <2>1, <2>2 DEF handleDraftSaveResult, TypeOK, folder
<1>13. ASSUME NEW j \in Jobs, Send(j) \/ SendLost(j)
       PROVE  TypeOK'
    <2>1. jobs' \in [Jobs -> Job] /\ (SendLost(j) => fails' \in 0 .. MaxFail)
        BY <1>13, ReachTyped, FailureTyped DEF Send, SendLost
    <2>2. sent' \subseteq Doc
        BY <1>13, JobTyped DEF Send, SendLost, TypeOK
    <2> QED BY <1>13, <2>1, <2>2 DEF Send, SendLost, TypeOK, folder
<1>14. ASSUME NEW j \in Jobs, Sent(j)
       PROVE  TypeOK'
    <2>1. [NoJob EXCEPT !.pc = "discard", !.prev = pane.ref] \in Job
        BY Bounds, PaneTyped DEF NoJob, Job
    <2>2. jobs' \in [Jobs -> Job]
        BY <1>14, <2>1, DoneTyped DEF Sent, TypeOK
    <2>3. pane' \in Pane
        BY <1>14, Bounds DEF Sent, TypeOK, Pane
    <2> QED BY <1>14, <2>2, <2>3 DEF Sent, TypeOK, folder
<1>15. ASSUME NEW j \in Jobs, Unsent(j)
       PROVE  TypeOK'
    <2>1. jobs' \in [Jobs -> Job]
        BY <1>15, DoneTyped DEF Unsent
    <2> QED BY <1>15, <2>1 DEF Unsent, TypeOK, folder
<1>16. ASSUME NEW j \in Jobs, Discard(j)
       PROVE  TypeOK'
    <2>1. jobs' \in [Jobs -> Job] /\ drafts' \in [Uid -> [doc : Doc, text : Text]]
        BY <1>16, DoneTyped, RemovalTyped DEF Discard
    <2> QED BY <1>16, <2>1 DEF Discard, TypeOK
<1>17. ASSUME NEW j \in Jobs, DiscardFail(j)
       PROVE  TypeOK'
    <2>1. jobs' \in [Jobs -> Job] /\ fails' \in 0 .. MaxFail
        BY <1>17, DoneTyped, FailureTyped DEF DiscardFail
    <2> QED BY <1>17, <2>1 DEF DiscardFail, TypeOK, folder
<1>18. CASE Quit
    <2>1. [j \in Jobs |-> NoJob] \in [Jobs -> Job] /\ NoView \in View
        BY Bounds DEF NoJob, Job, NoView, View
    <2>2. pane' \in Pane /\ fails' \in 0 .. MaxFail
        BY <1>18, Bounds, FailureTyped DEF Quit, TypeOK, Pane
    <2> QED BY <1>18, <2>1, <2>2 DEF Quit, TypeOK, folder
<1>19. CASE UNCHANGED vars
    BY <1>19 DEF vars, folder, TypeOK
<1> QED
    BY <1>1, <1>2, <1>3, <1>4, <1>5, <1>6, <1>7, <1>8, <1>9, <1>10, <1>11, <1>12,
       <1>13, <1>14, <1>15, <1>16, <1>17, <1>18, <1>19 DEF Next, Command

LEMMA TypeInit ==
    ASSUME Init
    PROVE  TypeOK
<1>1. NoJob \in Job /\ NoView \in View /\ NoCopy \in [doc : Doc, text : Text]
    BY Bounds DEF NoJob, Job, NoView, View, NoCopy
<1>2. pane \in Pane
    BY Bounds DEF Init, Pane
<1> QED BY <1>1, <1>2, Bounds DEF Init, TypeOK

\* Whatever the user does and whatever fails, the state stays well typed.
THEOREM DraftTypeCorrect == Spec => []TypeOK
<1>1. Init => TypeOK
    BY TypeInit
<1>2. TypeOK /\ [Next]_vars => TypeOK'
    BY TypeStep
<1> QED BY <1>1, <1>2, PTL DEF Spec
-----------------------------------------------------------------------------

\* Copies may go, and those that stay are as they were.
CopiesKept == /\ Saved' \subseteq Saved /\ uidNext' = uidNext
              /\ \A u \in Saved' : drafts'[u] = drafts[u]

LEMMA FolderKept ==
    ASSUME UNCHANGED folder
    PROVE  CopiesKept /\ Saved' = Saved
BY DEF folder, CopiesKept, Saved

\* A purge takes away the copy it names, if anything.
LEMMA Removal ==
    ASSUME TypeOK, NEW p, uidNext' = uidNext,
           drafts' = IF UidPlus THEN [drafts EXCEPT ![p] = NoCopy] ELSE drafts
    PROVE  /\ CopiesKept
           /\ \A u \in Saved : u # p => u \in Saved'
           /\ UidPlus \/ Saved' = Saved
<1>1. DOMAIN drafts = Uid
    BY DEF TypeOK
<1>2. CASE UidPlus
    <2>1. \A u \in Uid : drafts'[u] = IF u = p THEN NoCopy ELSE drafts[u]
        BY <1>1, <1>2
    <2> QED BY <1>2, <2>1 DEF CopiesKept, Saved
<1>3. CASE ~ UidPlus
    BY <1>3 DEF CopiesKept, Saved
<1> QED BY <1>2, <1>3

\* APPEND makes one copy, under a UID nothing refers to.
LEMMA Addition ==
    ASSUME TypeOK, References, NEW d, NEW t, d # 0, uidNext <= MaxUid,
           drafts' = [drafts EXCEPT ![uidNext] = [doc |-> d, text |-> t]],
           uidNext' = uidNext + 1
    PROVE  /\ uidNext \in Uid \ Saved
           /\ Saved' = Saved \cup {uidNext}
           /\ drafts'[uidNext] = [doc |-> d, text |-> t]
           /\ \A u \in Saved : u # uidNext /\ drafts'[u] = drafts[u]
<1>1. uidNext \in Uid /\ Uid \subseteq Nat
    BY Bounds DEF TypeOK, Uid
<1>2. uidNext \notin Saved
    BY <1>1 DEF References
<1>3. drafts' \in [Uid -> {[doc |-> d, text |-> t]} \cup {drafts[u] : u \in Uid}]
    BY <1>1 DEF TypeOK
<1>4. \A u \in Uid : drafts'[u] = IF u = uidNext THEN [doc |-> d, text |-> t] ELSE drafts[u]
    BY <1>1 DEF TypeOK
<1>5. [doc |-> d, text |-> t] # NoCopy
    BY DEF NoCopy
<1> QED BY <1>1, <1>2, <1>4, <1>5 DEF Saved

-----------------------------------------------------------------------------
(* One lemma per kind of step. *)

\* A command goes on, and neither the pane nor the copies are touched.
LEMMA Advance ==
    ASSUME SessionInv, TypeOK', Unreported', NEW j \in Jobs, NEW pc, Reach(j, pc),
           UNCHANGED <<pane, viewing, newest>>, UNCHANGED folder,
           sent \subseteq sent', ~ Free(j), jobs[j].pc # "discard",
           pc \notin {"none", "discard"},
           pc \in Saving => jobs[j].pc \in Saving,
           pc \in {"purge", "saved"} => jobs[j].pc \in {"purge", "saved"},
           pc = "sent" => jobs[j].doc \in sent'
    PROVE  SessionInv'
<1>1. /\ \A k \in Jobs \ {j} : jobs'[k] = jobs[k]
      /\ jobs'[j].pc = pc /\ jobs'[j].doc = jobs[j].doc /\ jobs'[j].text = jobs[j].text
      /\ jobs'[j].prev = jobs[j].prev /\ jobs'[j].uid = jobs[j].uid
    BY JobTyped DEF Reach, SessionInv, TypeOK, Job
<1>2. /\ CopiesKept /\ Saved' = Saved /\ drafts' = drafts /\ uidNext' = uidNext
      /\ pane' = pane /\ viewing' = viewing /\ newest' = newest
    BY FolderKept DEF folder
<1>3. PaneKnown'
    BY <1>2 DEF SessionInv, PaneKnown
<1>4. JobsOfPane'
    BY <1>1, <1>2 DEF SessionInv, JobsOfPane, Free, Saving
<1>5. References'
    BY <1>1, <1>2 DEF SessionInv, References, Within, Saving
<1>6. NewCopies'
    BY <1>1, <1>2 DEF SessionInv, NewCopies, Appended
<1>7. DiscardsSentOnly'
    BY <1>1, <1>2 DEF SessionInv, DiscardsSentOnly
<1> QED BY <1>3, <1>4, <1>5, <1>6, <1>7 DEF SessionInv

\* A command ends, perhaps with a copy that no save has just made.
LEMMA Finish ==
    ASSUME SessionInv, TypeOK', Unreported', NEW j \in Jobs, Done(j), CopiesKept,
           UNCHANGED <<pane, viewing, newest, sent>>,
           \A k \in Jobs : Appended(k) => jobs[k].uid \in Saved'
    PROVE  SessionInv'
<1>1. /\ \A k \in Jobs \ {j} : jobs'[k] = jobs[k]
      /\ jobs'[j].pc = "none" /\ jobs'[j].prev = 0
    BY DEF Done, SessionInv, TypeOK, NoJob
<1>2. /\ Saved' \subseteq Saved /\ \A u \in Saved' : drafts'[u] = drafts[u]
      /\ uidNext' = uidNext /\ sent' = sent
      /\ pane' = pane /\ viewing' = viewing /\ newest' = newest
    BY DEF CopiesKept
<1>3. PaneKnown'
    BY <1>2 DEF SessionInv, PaneKnown
<1>4. JobsOfPane'
    BY <1>1, <1>2 DEF SessionInv, JobsOfPane, Free
<1>5. References'
    <2>1. 0 < uidNext
        BY Bounds DEF SessionInv, TypeOK
    <2> QED BY <1>1, <1>2, <2>1 DEF SessionInv, References, Within
<1>6. NewCopies'
    <2>1. \A k \in Jobs : Appended(k) => jobs[k].uid \in Uid
        BY DEF SessionInv, NewCopies, Saved
    <2>2. \A k \in Jobs : Appended(k) => jobs[k].uid # 0
        BY <2>1, Bounds DEF Uid
    <2> QED BY <1>1, <1>2, <2>2 DEF SessionInv, NewCopies, Appended
<1>7. DiscardsSentOnly'
    BY <1>1, <1>2 DEF SessionInv, DiscardsSentOnly
<1> QED BY <1>3, <1>4, <1>5, <1>6, <1>7 DEF SessionInv

\* A pane opens: nothing is under way.
LEMMA Enter ==
    ASSUME SessionInv, TypeOK', Unreported', Patient, NEW d \in Doc, NEW t \in Text, NEW u \in 0 .. MaxUid,
           enterCompose(d, t, u), UNCHANGED <<jobs, newest, sent>>, UNCHANGED folder,
           d # 0, t <= newest[d], Within(u, d, t)
    PROVE  SessionInv'
<1>1. \A k \in Jobs : jobs[k].pc = "none" /\ jobs'[k] = jobs[k]
    BY DEF enterCompose, Patient, Busy, Free
<1>2. /\ pane'.open /\ pane'.doc = d /\ pane'.text = t /\ pane'.ref = u
      /\ viewing' = NoView
    BY DEF enterCompose
<1>3. /\ Saved' = Saved /\ drafts' = drafts /\ uidNext' = uidNext /\ newest' = newest
    BY FolderKept DEF folder
<1>4. PaneKnown'
    BY <1>2, <1>3 DEF PaneKnown, NoView
<1>5. JobsOfPane'
    BY <1>1 DEF JobsOfPane, Free
<1>6. References'
    <2>1. Within(0, 0, 0)
        BY Bounds DEF Within, SessionInv, TypeOK, Saved, Uid
    <2> QED BY <1>1, <1>2, <1>3, <2>1 DEF SessionInv, References, Within, NoView
<1>7. NewCopies' /\ DiscardsSentOnly'
    BY <1>1 DEF NewCopies, Appended, DiscardsSentOnly
<1> QED BY <1>4, <1>5, <1>6, <1>7 DEF SessionInv

LEMMA ViewStep ==
    ASSUME SessionInv, TypeOK', Unreported', Patient, NEW u \in Uid, ViewDraft(u)
    PROVE  SessionInv'
<1>1. \A k \in Jobs : jobs[k].pc = "none" /\ jobs'[k] = jobs[k]
    BY DEF ViewDraft, Patient, Busy, Free
<1>2. /\ Saved' = Saved /\ drafts' = drafts /\ uidNext' = uidNext
      /\ newest' = newest /\ pane' = pane /\ ~ pane.open
      /\ u \in Saved /\ viewing'.uid = u
      /\ viewing'.doc = drafts[u].doc /\ viewing'.text = drafts[u].text
    BY FolderKept DEF ViewDraft, folder
<1>3. PaneKnown'
    BY <1>2 DEF SessionInv, PaneKnown, References
<1>4. JobsOfPane' /\ NewCopies' /\ DiscardsSentOnly'
    BY <1>1 DEF JobsOfPane, Free, NewCopies, Appended, DiscardsSentOnly
<1>5. References'
    <2>1. drafts[u].text \in Nat
        BY Bounds DEF SessionInv, TypeOK
    <2>2. drafts[u].text <= drafts[u].text
        BY <2>1
    <2> QED BY <1>1, <1>2, <2>2 DEF SessionInv, References, Within
<1> QED BY <1>3, <1>4, <1>5 DEF SessionInv

LEMMA TypeKeyStep ==
    ASSUME SessionInv, TypeOK', Unreported', Type
    PROVE  SessionInv'
<1>1. /\ Saved' = Saved /\ drafts' = drafts /\ uidNext' = uidNext
      /\ jobs' = jobs /\ viewing' = viewing /\ viewing = NoView
    BY FolderKept DEF Type, folder, SessionInv, PaneKnown
<1>2. /\ pane'.open = pane.open /\ pane'.doc = pane.doc /\ pane'.ref = pane.ref
      /\ pane'.text = newest[pane.doc] + 1 /\ pane.open
    BY DEF Type, SessionInv, TypeOK, Pane
<1>3. /\ pane.doc \in Doc /\ newest[pane.doc] \in Nat /\ pane.text \in Nat
      /\ pane.text <= newest[pane.doc]
    BY PaneTyped, Bounds DEF SessionInv, TypeOK, PaneKnown
<1>4. /\ \A d \in Doc : newest[d] \in Nat /\ newest'[d] \in Nat /\ newest[d] <= newest'[d]
      /\ newest'[pane.doc] = newest[pane.doc] + 1
    BY <1>3, Bounds DEF Type, SessionInv, TypeOK
<1>5. PaneKnown'
    BY <1>1, <1>2, <1>3, <1>4 DEF SessionInv, PaneKnown, NoView
<1>6. JobsOfPane'
    <2>1. \A j \in Jobs : jobs[j].text \in Nat
        BY JobTyped, Bounds DEF SessionInv
    <2>2. \A j \in Jobs : jobs[j].text <= pane.text => jobs[j].text <= pane'.text
        BY <1>2, <1>3, <2>1
    <2> QED BY <1>1, <1>2, <2>2 DEF SessionInv, JobsOfPane, Free, Type
<1>7. References'
    <2>1. \A u \in Saved : drafts[u].text \in Nat /\ drafts[u].doc \in Doc
        BY Bounds DEF SessionInv, TypeOK, Saved
    <2>2. \A u \in Saved : drafts[u].text <= newest'[drafts[u].doc]
        BY <1>4, <2>1 DEF SessionInv, References
    <2>3. Within(pane.ref, pane.doc, pane.text)
        BY DEF SessionInv, References
    <2>4. pane.ref \in Saved => drafts[pane.ref].text <= pane'.text
        BY <1>2, <1>3, <2>1, <2>3 DEF Within
    <2> QED BY <1>1, <1>2, <2>2, <2>3, <2>4 DEF SessionInv, References, Within
<1>8. NewCopies' /\ DiscardsSentOnly'
    BY <1>1, <1>2 DEF SessionInv, NewCopies, Appended, DiscardsSentOnly, Type
<1> QED BY <1>5, <1>6, <1>7, <1>8 DEF SessionInv

\* A save begins, and the pane stays open or is closed.
LEMMA SaveBegins ==
    ASSUME SessionInv, TypeOK', Unreported', NEW j \in Jobs, Save(j), pane.open,
           UNCHANGED <<viewing, newest, sent>>, UNCHANGED folder,
           pane'.open => pane.open,
           pane'.doc = pane.doc, pane'.text = pane.text, pane'.ref = pane.ref
    PROVE  SessionInv'
<1>1. /\ \A k \in Jobs \ {j} : jobs'[k] = jobs[k]
      /\ jobs'[j].pc = "append" /\ jobs'[j].doc = pane.doc /\ jobs'[j].text = pane.text
      /\ jobs'[j].prev = pane.ref
    BY DEF Save, SessionInv, TypeOK
<1>2. /\ Saved' = Saved /\ drafts' = drafts /\ uidNext' = uidNext
      /\ viewing' = viewing /\ newest' = newest
    BY FolderKept DEF folder
<1>3. pane.doc # 0 /\ viewing = NoView /\ pane.text \in Nat
    BY PaneTyped, Bounds DEF SessionInv, PaneKnown
<1>4. PaneKnown'
    BY <1>2 DEF SessionInv, PaneKnown
<1>5. JobsOfPane'
    <2>1. pane.text <= pane.text
        BY <1>3
    <2> QED BY <1>1, <1>2, <1>3, <2>1 DEF SessionInv, JobsOfPane, Free
<1>6. References'
    BY <1>1, <1>2 DEF SessionInv, References, Within
<1>7. NewCopies' /\ DiscardsSentOnly'
    BY <1>1, <1>2 DEF SessionInv, NewCopies, Appended, DiscardsSentOnly
<1> QED BY <1>4, <1>5, <1>6, <1>7 DEF SessionInv

\* The pane is closed with nothing to save.
LEMMA CloseClean ==
    ASSUME SessionInv, TypeOK', Unreported', NEW j \in Jobs, cancelCompose(j), ~ Dirty
    PROVE  SessionInv'
<1>1. /\ Saved' = Saved /\ drafts' = drafts /\ uidNext' = uidNext /\ jobs' = jobs
      /\ viewing' = viewing /\ newest' = newest /\ sent' = sent
    BY FolderKept DEF cancelCompose, folder
<1>2. /\ ~ pane'.open /\ pane'.doc = pane.doc /\ pane'.text = pane.text /\ pane'.ref = pane.ref
    BY DEF cancelCompose, SessionInv, TypeOK, Pane
<1>3. PaneKnown' /\ JobsOfPane'
    BY <1>1, <1>2 DEF SessionInv, PaneKnown, JobsOfPane, Free
<1>4. References' /\ NewCopies' /\ DiscardsSentOnly'
    BY <1>1, <1>2 DEF SessionInv, References, Within, NewCopies, Appended, DiscardsSentOnly
<1> QED BY <1>3, <1>4 DEF SessionInv

LEMMA SendBegins ==
    ASSUME SessionInv, TypeOK', Unreported', NEW j \in Jobs, sendCompose(j)
    PROVE  SessionInv'
<1>1. /\ \A k \in Jobs \ {j} : jobs'[k] = jobs[k]
      /\ jobs'[j].pc = "send" /\ jobs'[j].doc = pane.doc /\ jobs'[j].prev = 0
    BY DEF sendCompose, SessionInv, TypeOK, NoJob
<1>2. /\ Saved' = Saved /\ drafts' = drafts /\ uidNext' = uidNext
      /\ viewing' = viewing /\ newest' = newest /\ pane' = pane /\ pane.open
    BY FolderKept DEF sendCompose, folder
<1>3. PaneKnown'
    BY <1>2 DEF SessionInv, PaneKnown
<1>4. JobsOfPane'
    BY <1>1, <1>2 DEF SessionInv, JobsOfPane, PaneKnown, Free, sendCompose
<1>5. References'
    <2>1. 0 < uidNext
        BY Bounds DEF SessionInv, TypeOK
    <2> QED BY <1>1, <1>2, <2>1 DEF SessionInv, References, Within
<1>6. NewCopies'
    <2>1. \A k \in Jobs : Appended(k) => jobs[k].uid \in Uid
        BY DEF SessionInv, NewCopies, Saved
    <2>2. \A k \in Jobs : Appended(k) => jobs[k].uid # 0
        BY <2>1, Bounds DEF Uid
    <2> QED BY <1>1, <1>2, <2>2 DEF SessionInv, NewCopies, Appended
<1>7. DiscardsSentOnly'
    BY <1>1, <1>2 DEF SessionInv, DiscardsSentOnly, sendCompose
<1> QED BY <1>3, <1>4, <1>5, <1>6, <1>7 DEF SessionInv

\* The references after an APPEND of goroutine j.
LEMMA AdditionReferences ==
    ASSUME SessionInv, NEW j \in Jobs, jobs[j].pc = "append", jobs'[j].pc \in Saving,
           \A k \in Jobs \ {j} : jobs'[k] = jobs[k],
           jobs'[j].doc = jobs[j].doc, jobs'[j].text = jobs[j].text,
           jobs'[j].prev = jobs[j].prev,
           pane' = pane, viewing' = viewing, newest' = newest,
           uidNext \in Uid \ Saved, Saved' = Saved \cup {uidNext},
           drafts'[uidNext] = [doc |-> jobs[j].doc, text |-> jobs[j].text],
           \A u \in Saved : u # uidNext /\ drafts'[u] = drafts[u],
           uidNext' = uidNext + 1
    PROVE  References'
<1>1. jobs[j].doc = pane.doc /\ pane.doc # 0 /\ jobs[j].text <= pane.text
    BY DEF SessionInv, JobsOfPane, Free
<1>2. uidNext \in Nat
    BY Bounds DEF SessionInv, TypeOK
<1>3. \A u \in 0 .. MaxUid : \A d, t : Within(u, d, t) =>
          u < uidNext' /\ (u \in Saved' => drafts'[u].doc = d /\ drafts'[u].text <= t)
    BY <1>2, Bounds DEF Within
<1>4. jobs[j].text <= newest[jobs[j].doc]
    <2>1. pane.text <= newest[pane.doc] /\ pane.doc \in Doc
        BY PaneTyped DEF SessionInv, PaneKnown
    <2>2. newest[pane.doc] \in Nat /\ pane.text \in Nat /\ jobs[j].text \in Nat
        BY <2>1, PaneTyped, JobTyped, Bounds DEF SessionInv, TypeOK
    <2> QED BY <1>1, <2>1, <2>2
<1>5. \A u \in Saved' : /\ u < uidNext' /\ drafts'[u].doc # 0
                        /\ drafts'[u].text <= newest'[drafts'[u].doc]
    <2>1. \A u \in Saved : u \in Nat /\ u < uidNext'
        BY <1>2, Bounds DEF SessionInv, References, Saved, Uid
    <2> QED BY <1>1, <1>2, <1>4, <2>1 DEF SessionInv, References
<1>6. Within(pane.ref, pane.doc, pane.text)' /\ Within(viewing.uid, viewing.doc, viewing.text)'
    BY <1>3, PaneTyped DEF SessionInv, References, Within
<1>7. ASSUME NEW k \in Jobs
      PROVE  /\ jobs'[k].prev < uidNext'
             /\ jobs'[k].pc \in Saving => Within(jobs[k].prev, jobs[k].doc, jobs[k].text)'
    <2>1. jobs'[k].prev = jobs[k].prev /\ jobs'[k].doc = jobs[k].doc /\ jobs'[k].text = jobs[k].text
        BY <1>7
    <2>2. jobs[k].prev < uidNext /\ jobs[k].prev \in Nat /\ jobs[k].prev \in 0 .. MaxUid
        BY JobTyped, Bounds DEF SessionInv, References
    <2>3. jobs'[k].pc \in Saving => Within(jobs[k].prev, jobs[k].doc, jobs[k].text)
        BY DEF SessionInv, References, Saving
    <2> QED BY <1>2, <1>3, <2>1, <2>2, <2>3 DEF Within
<1> QED BY <1>5, <1>6, <1>7 DEF References, Saving

LEMMA AppendStep ==
    ASSUME SessionInv, TypeOK', Unreported', NEW j \in Jobs, Append(j)
    PROVE  SessionInv'
<1> DEFINE new == IF UidPlus THEN uidNext ELSE 0
<1>1. /\ \A k \in Jobs \ {j} : jobs'[k] = jobs[k]
      /\ jobs'[j].pc \in {"purge", "saved"} /\ jobs[j].pc = "append"
      /\ jobs'[j].doc = jobs[j].doc /\ jobs'[j].text = jobs[j].text
      /\ jobs'[j].prev = jobs[j].prev /\ jobs'[j].uid = new
    BY JobTyped DEF Append, AfterAppend, SessionInv, TypeOK, Job
<1>2. jobs[j].doc = pane.doc /\ pane.doc # 0 /\ jobs[j].text <= pane.text
    BY <1>1 DEF SessionInv, JobsOfPane, Free
<1>3. /\ uidNext \in Uid \ Saved
      /\ Saved' = Saved \cup {uidNext}
      /\ drafts'[uidNext] = [doc |-> jobs[j].doc, text |-> jobs[j].text]
      /\ \A u \in Saved : u # uidNext /\ drafts'[u] = drafts[u]
    BY <1>2, Addition DEF Append, SessionInv
<1>4. /\ pane' = pane /\ viewing' = viewing /\ newest' = newest /\ sent' = sent
      /\ uidNext' = uidNext + 1 /\ uidNext \in Nat
    BY Bounds DEF Append, SessionInv, TypeOK
<1>5. PaneKnown'
    BY <1>4 DEF SessionInv, PaneKnown
<1>6. JobsOfPane'
    BY <1>1, <1>4 DEF SessionInv, JobsOfPane, Free
<1>8. References'
    BY <1>1, <1>2, <1>3, <1>4, AdditionReferences DEF SessionInv, Saving
<1>9. NewCopies'
    <2>1. CASE ~ UidPlus
        BY <2>1 DEF NewCopies, Appended
    <2>2. CASE UidPlus
        <3>1. jobs'[j].uid = uidNext
            BY <1>1, <2>2
        <3>2. \A k \in Jobs : jobs[k].prev # uidNext
            BY <1>4, JobTyped DEF SessionInv, References
        <3>3. pane.ref # uidNext
            BY <1>4, PaneTyped DEF SessionInv, References, Within
        <3>4. \A k \in Jobs : jobs'[k].prev = jobs[k].prev
            BY <1>1
        <3>5. \A k \in Jobs \ {j} : Appended(k)' => /\ Appended(k) /\ jobs[k].uid \in Saved
                                                    /\ jobs'[k].uid # uidNext
            BY <1>1, <1>3 DEF SessionInv, NewCopies, Appended
        <3>6. ASSUME NEW k \in Jobs \ {j}, Appended(k)'
              PROVE  /\ jobs'[k].uid \in Saved'
                     /\ drafts'[jobs'[k].uid] = [doc |-> jobs'[k].doc, text |-> jobs'[k].text]
                     /\ pane.ref # jobs'[k].uid
                     /\ \A i \in Jobs : jobs'[i].prev # jobs'[k].uid
                     /\ \A i \in Jobs \ {k} : Appended(i)' => jobs'[i].uid # jobs'[k].uid
            BY <1>1, <1>3, <3>1, <3>4, <3>5, <3>6 DEF SessionInv, NewCopies
        <3>7. /\ uidNext \in Saved'
              /\ drafts'[uidNext] = [doc |-> jobs'[j].doc, text |-> jobs'[j].text]
            BY <1>1, <1>3
        <3> QED BY <1>4, <3>1, <3>2, <3>3, <3>4, <3>5, <3>6, <3>7 DEF NewCopies
    <2> QED BY <2>1, <2>2
<1>10. DiscardsSentOnly'
    <2>1. \A k \in Jobs : jobs[k].prev # uidNext
        BY <1>4, JobTyped DEF SessionInv, References
    <2> QED BY <1>1, <1>3, <1>4, <2>1 DEF SessionInv, DiscardsSentOnly
<1> QED BY <1>5, <1>6, <1>8, <1>9, <1>10 DEF SessionInv

LEMMA AppendLostStep ==
    ASSUME SessionInv, TypeOK', Unreported', NEW j \in Jobs, AppendLost(j)
    PROVE  SessionInv'
<1>1. /\ \A k \in Jobs \ {j} : jobs'[k] = jobs[k]
      /\ jobs'[j].pc = "failed" /\ jobs[j].pc = "append"
      /\ jobs'[j].doc = jobs[j].doc /\ jobs'[j].text = jobs[j].text
      /\ jobs'[j].prev = jobs[j].prev
    BY JobTyped DEF AppendLost, Reach, SessionInv, TypeOK, Job
<1>2. jobs[j].doc = pane.doc /\ pane.doc # 0 /\ jobs[j].text <= pane.text
    BY <1>1 DEF SessionInv, JobsOfPane, Free
<1>3. /\ uidNext \in Uid \ Saved
      /\ Saved' = Saved \cup {uidNext}
      /\ drafts'[uidNext] = [doc |-> jobs[j].doc, text |-> jobs[j].text]
      /\ \A u \in Saved : u # uidNext /\ drafts'[u] = drafts[u]
    BY <1>2, Addition DEF AppendLost, SessionInv
<1>4. /\ pane' = pane /\ viewing' = viewing /\ newest' = newest /\ sent' = sent
      /\ uidNext' = uidNext + 1 /\ uidNext \in Nat
    BY Bounds DEF AppendLost, SessionInv, TypeOK
<1>5. PaneKnown'
    BY <1>4 DEF SessionInv, PaneKnown
<1>6. JobsOfPane'
    BY <1>1, <1>4 DEF SessionInv, JobsOfPane, Free
<1>7. References'
    BY <1>1, <1>2, <1>3, <1>4, AdditionReferences DEF SessionInv, Saving
<1>8. NewCopies'
    BY <1>1, <1>3, <1>4 DEF SessionInv, NewCopies, Appended
<1>9. DiscardsSentOnly'
    <2>1. \A k \in Jobs : jobs[k].prev # uidNext
        BY <1>4, JobTyped DEF SessionInv, References
    <2> QED BY <1>1, <1>3, <1>4, <2>1 DEF SessionInv, DiscardsSentOnly
<1> QED BY <1>5, <1>6, <1>7, <1>8, <1>9 DEF SessionInv

LEMMA PurgeStep ==
    ASSUME SessionInv, TypeOK', Unreported', NEW j \in Jobs, Purge(j)
    PROVE  SessionInv'
<1>1. /\ \A k \in Jobs \ {j} : jobs'[k] = jobs[k]
      /\ jobs'[j].pc = "saved" /\ jobs[j].pc = "purge"
      /\ jobs'[j].doc = jobs[j].doc /\ jobs'[j].text = jobs[j].text
      /\ jobs'[j].prev = jobs[j].prev /\ jobs'[j].uid = jobs[j].uid
    BY JobTyped DEF Purge, Reach, SessionInv, TypeOK, Job
<1>2. /\ CopiesKept
      /\ \A u \in Saved : u # jobs[j].prev => u \in Saved'
    BY Removal DEF Purge, SessionInv
<1>3. /\ Saved' \subseteq Saved /\ \A u \in Saved' : drafts'[u] = drafts[u]
      /\ uidNext' = uidNext /\ sent' = sent
      /\ pane' = pane /\ viewing' = viewing /\ newest' = newest
    BY <1>2 DEF CopiesKept, Purge
<1>4. \A k \in Jobs : Appended(k)' => Appended(k) /\ jobs'[k].uid = jobs[k].uid
    BY <1>1 DEF Appended
<1>5. PaneKnown'
    BY <1>3 DEF SessionInv, PaneKnown
<1>6. JobsOfPane'
    BY <1>1, <1>3 DEF SessionInv, JobsOfPane, Free
<1>7. References'
    BY <1>1, <1>3 DEF SessionInv, References, Within
<1>8. NewCopies'
    BY <1>1, <1>2, <1>3, <1>4 DEF SessionInv, NewCopies
<1>9. DiscardsSentOnly'
    BY <1>1, <1>3 DEF SessionInv, DiscardsSentOnly
<1> QED BY <1>5, <1>6, <1>7, <1>8, <1>9 DEF SessionInv

\* The pane takes over the reference to the copy its save made.
LEMMA SaveResultStep ==
    ASSUME SessionInv, TypeOK', Unreported', NEW j \in Jobs, handleDraftSaveResult(j)
    PROVE  SessionInv'
<1>1. /\ \A k \in Jobs \ {j} : jobs'[k] = jobs[k]
      /\ jobs'[j].pc = "none" /\ jobs'[j].prev = 0 /\ jobs[j].pc \in {"saved", "failed"}
    BY DEF handleDraftSaveResult, Done, SessionInv, TypeOK, NoJob
<1>2. /\ Saved' = Saved /\ drafts' = drafts /\ uidNext' = uidNext
      /\ viewing' = viewing /\ newest' = newest /\ sent' = sent
    BY FolderKept DEF handleDraftSaveResult, folder
<1>3. /\ pane'.open = pane.open /\ pane'.doc = pane.doc /\ pane'.text = pane.text
      /\ \/ pane'.ref = pane.ref
         \/ jobs[j].pc = "saved" /\ pane'.ref = jobs[j].uid
    BY <1>1 DEF handleDraftSaveResult, SessionInv, TypeOK, Pane
<1>4. /\ jobs[j].doc = pane.doc /\ jobs[j].text <= pane.text
    BY <1>1 DEF SessionInv, JobsOfPane, Free
<1>5. PaneKnown'
    BY <1>2, <1>3 DEF SessionInv, PaneKnown
<1>6. JobsOfPane'
    BY <1>1, <1>2, <1>3 DEF SessionInv, JobsOfPane, Free
<1>7. Within(pane'.ref, pane.doc, pane.text)
    <2>1. CASE pane'.ref = pane.ref
        BY <2>1 DEF SessionInv, References
    <2>2. CASE jobs[j].pc = "saved" /\ pane'.ref = jobs[j].uid /\ UidPlus
        <3>1. /\ jobs[j].uid \in Saved
              /\ drafts[jobs[j].uid] = [doc |-> jobs[j].doc, text |-> jobs[j].text]
            BY <2>2 DEF SessionInv, NewCopies, Appended
        <3> QED BY <1>4, <2>2, <3>1 DEF SessionInv, References, Within
    <2>3. CASE jobs[j].pc = "saved" /\ pane'.ref = jobs[j].uid /\ ~ UidPlus
        <3>1. jobs[j].uid = 0
            BY <2>3 DEF SessionInv, Unreported
        <3>2. 0 \notin Saved /\ 0 < uidNext
            BY Bounds DEF Saved, Uid, SessionInv, TypeOK
        <3> QED BY <2>3, <3>1, <3>2 DEF Within
    <2> QED BY <1>3, <2>1, <2>2, <2>3
<1>8. References'
    <2>1. 0 < uidNext
        BY Bounds DEF SessionInv, TypeOK
    <2> QED BY <1>1, <1>2, <1>3, <1>7, <2>1 DEF SessionInv, References, Within
<1>9. NewCopies'
    <2>1. \A k \in Jobs : Appended(k) => jobs[k].uid \in Uid
        BY DEF SessionInv, NewCopies, Saved
    <2>2. \A k \in Jobs : Appended(k) => jobs[k].uid # 0
        BY <2>1, Bounds DEF Uid
    <2>3. \A k \in Jobs : Appended(k)' => k # j /\ Appended(k)
        BY <1>1 DEF Appended
    <2>4. \A k \in Jobs : Appended(k)' => pane'.ref # jobs[k].uid
        BY <1>3, <2>3 DEF SessionInv, NewCopies, Appended
    <2> QED BY <1>1, <1>2, <2>2, <2>3, <2>4 DEF SessionInv, NewCopies
<1>10. DiscardsSentOnly'
    BY <1>1, <1>2 DEF SessionInv, DiscardsSentOnly
<1> QED BY <1>5, <1>6, <1>8, <1>9, <1>10 DEF SessionInv

\* The pane closes, and the copy it refers to is of the message sent.
LEMMA SentStep ==
    ASSUME SessionInv, TypeOK', Unreported', NEW j \in Jobs, Sent(j)
    PROVE  SessionInv'
<1>1. /\ \A k \in Jobs \ {j} : jobs'[k] = jobs[k]
      /\ \/ jobs'[j].pc = "none" /\ jobs'[j].prev = 0
         \/ jobs'[j].pc = "discard" /\ jobs'[j].prev = pane.ref /\ pane.ref # 0
      /\ jobs[j].pc = "sent"
    <2>1. jobs' = [jobs EXCEPT ![j] = IF pane.ref # 0
                                      THEN [NoJob EXCEPT !.pc = "discard", !.prev = pane.ref]
                                      ELSE NoJob]
        BY DEF Sent, Done
    <2>2. CASE pane.ref # 0
        <3>1. jobs'[j] = [NoJob EXCEPT !.pc = "discard", !.prev = pane.ref]
            BY <2>1, <2>2 DEF SessionInv, TypeOK
        <3>2. jobs'[j].pc = "discard" /\ jobs'[j].prev = pane.ref
            BY <3>1 DEF NoJob
        <3> QED BY <2>1, <2>2, <3>2 DEF Sent, SessionInv, TypeOK
    <2>3. CASE pane.ref = 0
        BY <2>1, <2>3 DEF Sent, SessionInv, TypeOK, NoJob
    <2> QED BY <2>2, <2>3
<1>2. /\ Saved' = Saved /\ drafts' = drafts /\ uidNext' = uidNext
      /\ viewing' = viewing /\ newest' = newest /\ sent' = sent
    BY FolderKept DEF Sent, folder
<1>3. /\ ~ pane'.open /\ pane'.doc = pane.doc /\ pane'.text = pane.text /\ pane'.ref = 0
    BY DEF Sent, SessionInv, TypeOK, Pane
<1>4. pane.doc \in sent /\ viewing = NoView
    BY <1>1 DEF SessionInv, JobsOfPane, Free
<1>5. 0 \notin Saved /\ 0 < uidNext
    BY Bounds DEF Saved, Uid, SessionInv, TypeOK
<1>6. PaneKnown'
    BY <1>2, <1>3 DEF SessionInv, PaneKnown
<1>7. JobsOfPane'
    BY <1>1, <1>2, <1>3, <1>4 DEF SessionInv, JobsOfPane, Free
<1>8. References'
    BY <1>1, <1>2, <1>3, <1>5 DEF SessionInv, References, Within
<1>9. NewCopies'
    <2>1. \A k \in Jobs : Appended(k)' => k # j /\ Appended(k)
        BY <1>1 DEF Appended
    <2>2. \A k \in Jobs : Appended(k) => jobs[k].uid # 0 /\ jobs[k].uid # pane.ref
        BY <1>5 DEF SessionInv, NewCopies
    <2> QED BY <1>1, <1>2, <1>3, <2>1, <2>2 DEF SessionInv, NewCopies
<1>10. DiscardsSentOnly'
    BY <1>1, <1>2, <1>4 DEF SessionInv, DiscardsSentOnly, References, Within
<1> QED BY <1>6, <1>7, <1>8, <1>9, <1>10 DEF SessionInv

LEMMA QuitStep ==
    ASSUME SessionInv, TypeOK', Unreported', Quit
    PROVE  SessionInv'
<1>1. \A k \in Jobs : jobs'[k].pc = "none" /\ jobs'[k].prev = 0
    BY DEF Quit, NoJob
<1>2. /\ Saved' = Saved /\ drafts' = drafts /\ uidNext' = uidNext
      /\ newest' = newest /\ sent' = sent /\ viewing' = NoView
    BY FolderKept DEF Quit, folder
<1>3. /\ ~ pane'.open /\ pane'.doc = pane.doc /\ pane'.text = pane.text /\ pane'.ref = 0
    BY DEF Quit, SessionInv, TypeOK, Pane
<1>4. 0 \notin Saved /\ 0 < uidNext
    BY Bounds DEF Saved, Uid, SessionInv, TypeOK
<1>5. PaneKnown'
    BY <1>2, <1>3 DEF SessionInv, PaneKnown, NoView
<1>6. References'
    BY <1>1, <1>2, <1>3, <1>4 DEF SessionInv, References, Within, NoView
<1>7. JobsOfPane' /\ NewCopies' /\ DiscardsSentOnly'
    BY <1>1 DEF JobsOfPane, Free, NewCopies, Appended, DiscardsSentOnly
<1> QED BY <1>5, <1>6, <1>7 DEF SessionInv

-----------------------------------------------------------------------------
(* Every step, and the theorems. *)

LEMMA UnreportedStep ==
    ASSUME TypeOK, Unreported, [Next]_vars
    PROVE  Unreported'
<1>1. SUFFICES ASSUME ~ UidPlus, NEW k \in Jobs
               PROVE  jobs'[k].uid = 0
    BY DEF Unreported
<1>2. jobs[k].uid = 0 /\ jobs[k] \in Job /\ DOMAIN jobs = Jobs
    BY <1>1, JobTyped DEF Unreported, TypeOK
<1>3. ASSUME NEW j \in Jobs, NEW pc, Reach(j, pc)
      PROVE  jobs'[k].uid = 0
    BY <1>2, <1>3 DEF Reach, Job
<1>4. ASSUME NEW j \in Jobs, Done(j) \/ Save(j) \/ sendCompose(j) \/ Sent(j)
      PROVE  jobs'[k].uid = 0
    <2>1. /\ NoJob.uid = 0
          /\ [NoJob EXCEPT !.pc = "discard", !.prev = pane.ref].uid = 0
          /\ [NoJob EXCEPT !.pc = "send", !.doc = pane.doc, !.text = pane.text].uid = 0
        BY DEF NoJob
    <2>2. CASE k # j
        BY <1>2, <1>4, <2>2 DEF Done, Save, sendCompose, Sent
    <2>3. CASE k = j
        <3>1. Done(j) => jobs'[j].uid = 0
            BY <1>2, <2>1 DEF Done
        <3>2. Save(j) => jobs'[j].uid = 0
            BY <1>2 DEF Save
        <3>3. sendCompose(j) => jobs'[j].uid = 0
            BY <1>2, <2>1 DEF sendCompose
        <3>4. Sent(j) => jobs'[j].uid = 0
            BY <1>2, <2>1, <3>1 DEF Sent
        <3> QED BY <1>4, <2>3, <3>1, <3>2, <3>3, <3>4
    <2> QED BY <2>2, <2>3
<1>5. ASSUME NEW j \in Jobs, Append(j)
      PROVE  jobs'[k].uid = 0
    BY <1>1, <1>2, <1>5 DEF Append, Job
<1>6. CASE Quit
    BY <1>6 DEF Quit, NoJob
<1>7. CASE jobs' = jobs
    BY <1>2, <1>7
<1> QED
    BY <1>3, <1>4, <1>5, <1>6, <1>7
       DEF Next, Command, vars, NewMessage, startEditDraft, Type, ViewDraft, handleDraftAutosaveTick,
           saveDraftNow, cancelCompose, AppendFail, AppendLost, Purge, PurgeFail,
           handleDraftSaveResult, Send, SendFail, SendLost, Unsent, Discard, DiscardFail

LEMMA InvStep ==
    ASSUME SessionInv, Patient, [Next]_vars
    PROVE  SessionInv'
<1>0. TypeOK' /\ Unreported'
    BY TypeStep, UnreportedStep DEF SessionInv
<1>1. CASE NewMessage
    <2>1. pane.gen + 1 \in Doc /\ pane.gen + 1 # 0
        BY <1>1, PaneTyped, Bounds DEF NewMessage, enterCompose, SessionInv
    <2>2. newest[pane.gen + 1] \in Nat /\ 0 \in Text
        BY <2>1, Bounds DEF SessionInv, TypeOK
    <2>3. 0 <= newest[pane.gen + 1]
        BY <2>2
    <2>4. Within(0, pane.gen + 1, 0) /\ 0 \in 0 .. MaxUid
        BY Bounds DEF Within, Saved, Uid, SessionInv, TypeOK
    <2> QED BY <1>0, <1>1, <2>1, <2>2, <2>3, <2>4, Enter DEF NewMessage
<1>2. CASE startEditDraft
    <2>1. /\ viewing.doc \in Doc /\ viewing.text \in Text /\ viewing.uid \in 0 .. MaxUid
          /\ viewing.doc # 0 /\ viewing.text <= newest[viewing.doc]
          /\ Within(viewing.uid, viewing.doc, viewing.text)
        BY <1>2, PaneTyped DEF startEditDraft, SessionInv, PaneKnown, References
    <2> QED BY <1>0, <1>2, <2>1, Enter DEF startEditDraft
<1>3. CASE Type
    BY <1>0, <1>3, TypeKeyStep
<1>4. ASSUME NEW u \in Uid, ViewDraft(u)
      PROVE  SessionInv'
    BY <1>0, <1>4, ViewStep
<1>5. ASSUME NEW j \in Jobs, handleDraftAutosaveTick(j) \/ saveDraftNow(j)
      PROVE  SessionInv'
    <2>1. /\ pane'.doc = pane.doc /\ pane'.text = pane.text /\ pane'.ref = pane.ref
          /\ pane'.open = pane.open
        BY <1>5 DEF handleDraftAutosaveTick, saveDraftNow, SessionInv, TypeOK, Pane
    <2> QED BY <1>0, <1>5, <2>1, SaveBegins DEF handleDraftAutosaveTick, saveDraftNow
<1>6. ASSUME NEW j \in Jobs, cancelCompose(j), Dirty
      PROVE  SessionInv'
    <2>1. /\ pane'.doc = pane.doc /\ pane'.text = pane.text /\ pane'.ref = pane.ref
        BY <1>6 DEF cancelCompose, SessionInv, TypeOK, Pane
    <2> QED BY <1>0, <1>6, <2>1, SaveBegins DEF cancelCompose
<1>7. ASSUME NEW j \in Jobs, cancelCompose(j), ~ Dirty
      PROVE  SessionInv'
    BY <1>0, <1>7, CloseClean
<1>8. ASSUME NEW j \in Jobs, sendCompose(j)
      PROVE  SessionInv'
    BY <1>0, <1>8, SendBegins
<1>9. ASSUME NEW j \in Jobs, Append(j) \/ AppendLost(j) \/ Purge(j)
      PROVE  SessionInv'
    BY <1>0, <1>9, AppendStep, AppendLostStep, PurgeStep
<1>10. ASSUME NEW j \in Jobs, handleDraftSaveResult(j) \/ Sent(j)
       PROVE  SessionInv'
    BY <1>0, <1>10, SaveResultStep, SentStep
<1>11. ASSUME NEW j \in Jobs, AppendFail(j) \/ PurgeFail(j) \/ SendFail(j)
       PROVE  SessionInv'
    BY <1>0, <1>11, Advance DEF AppendFail, PurgeFail, SendFail, Free, Saving
<1>12. ASSUME NEW j \in Jobs, Send(j) \/ SendLost(j)
       PROVE  SessionInv'
    BY <1>0, <1>12, Advance DEF Send, SendLost, Free, Saving
<1>13. ASSUME NEW j \in Jobs, Unsent(j) \/ DiscardFail(j)
       PROVE  SessionInv'
    <2>1. CopiesKept /\ Saved' = Saved
        BY <1>13, FolderKept DEF Unsent, DiscardFail
    <2> QED BY <1>0, <1>13, <2>1, Finish DEF Unsent, DiscardFail, SessionInv, NewCopies
<1>14. ASSUME NEW j \in Jobs, Discard(j)
       PROVE  SessionInv'
    <2>1. CopiesKept /\ \A u \in Saved : u # jobs[j].prev => u \in Saved'
        BY <1>14, Removal DEF Discard, SessionInv
    <2>2. \A k \in Jobs : Appended(k) => jobs[k].uid \in Saved'
        BY <2>1 DEF SessionInv, NewCopies
    <2> QED BY <1>0, <1>14, <2>1, <2>2, Finish DEF Discard
<1>15. CASE Quit
    BY <1>0, <1>15, QuitStep
<1>16. CASE UNCHANGED vars
    BY <1>0, <1>16 DEF vars, folder, SessionInv, PaneKnown, JobsOfPane, Free, References, Within,
                       NewCopies, Appended, DiscardsSentOnly, Unreported, Saved
<1> QED
    BY <1>1, <1>2, <1>3, <1>4, <1>5, <1>6, <1>7, <1>8, <1>9, <1>10, <1>11, <1>12,
       <1>13, <1>14, <1>15, <1>16 DEF Next, Command

LEMMA InvInit ==
    ASSUME Init
    PROVE  SessionInv
<1>1. /\ Saved = {} /\ 0 < uidNext /\ viewing = NoView
      /\ pane.open = FALSE /\ pane.text = 0 /\ pane.doc = 0 /\ pane.ref = 0
      /\ \A j \in Jobs : jobs[j].pc = "none" /\ jobs[j].prev = 0 /\ jobs[j].uid = 0
    BY DEF Init, Saved, NoJob
<1>2. newest[0] = 0
    BY Bounds DEF Init
<1>3. PaneKnown
    BY <1>1, <1>2 DEF PaneKnown, NoView
<1> QED
    BY <1>1, <1>3, TypeInit DEF SessionInv, JobsOfPane, Free, References, Within, NewCopies, Appended,
                                Unreported, DiscardsSentOnly, NoView

\* As long as nothing is opened while a command is in flight, the sent-message
\* handler discards only copies of messages that were sent.
THEOREM DiscardsRight == Patient /\ Spec => []DiscardsSentOnly
<1>1. Init => SessionInv
    BY InvInit
<1>2. Patient /\ SessionInv /\ [Next]_vars => SessionInv'
    BY InvStep
<1>3. SessionInv => DiscardsSentOnly
    BY DEF SessionInv
<1>4. CASE Patient
    <2>1. SessionInv /\ [Next]_vars => SessionInv'
        BY <1>2, <1>4
    <2> QED BY <1>1, <1>3, <2>1, PTL DEF Spec
<1> QED BY <1>4

\* The step in which a copy leaves the folder: a purge by a save, which has
\* made a copy at least as recent, or the discard of a message sent.
LEMMA KeptStep ==
    ASSUME SessionInv, [Next]_vars
    PROVE  \A u \in Saved \ Saved' :
              \/ drafts[u].doc \in sent
              \/ \E v \in Saved' : /\ drafts'[v].doc = drafts[u].doc
                                   /\ drafts'[v].text >= drafts[u].text
<1>1. ASSUME NEW j \in Jobs, Purge(j)
      PROVE  \A u \in Saved \ Saved' :
                \E v \in Saved' : /\ drafts'[v].doc = drafts[u].doc
                                 /\ drafts'[v].text >= drafts[u].text
    <2> DEFINE v == jobs[j].uid
    <2>1. /\ CopiesKept /\ (UidPlus \/ Saved' = Saved)
          /\ \A u \in Saved : u # jobs[j].prev => u \in Saved'
        BY <1>1, Removal DEF Purge, SessionInv
    <2>2. SUFFICES ASSUME jobs[j].prev \in Saved, UidPlus
                   PROVE  /\ v \in Saved' /\ drafts'[v].doc = drafts[jobs[j].prev].doc
                          /\ drafts'[v].text >= drafts[jobs[j].prev].text
        BY <2>1
    <2>3. /\ v \in Saved /\ v # jobs[j].prev
          /\ drafts[v].doc = jobs[j].doc /\ drafts[v].text = jobs[j].text
        <3>1. Appended(j)
            BY <1>1, <2>2 DEF Purge, Appended
        <3>2. /\ v \in Saved /\ jobs[j].prev # v
              /\ drafts[v] = [doc |-> jobs[j].doc, text |-> jobs[j].text]
            BY <3>1 DEF SessionInv, NewCopies
        <3> QED BY <3>2
    <2>4. v \in Saved' /\ drafts'[v] = drafts[v]
        BY <2>1, <2>3 DEF CopiesKept
    <2>5. /\ drafts[jobs[j].prev].doc = jobs[j].doc
          /\ drafts[jobs[j].prev].text <= jobs[j].text
        BY <1>1, <2>2 DEF Purge, SessionInv, References, Within
    <2>6. drafts[jobs[j].prev].text \in Nat /\ jobs[j].text \in Nat
        BY <2>2, JobTyped, Bounds DEF SessionInv, TypeOK, Saved
    <2> QED BY <2>3, <2>4, <2>5, <2>6
<1>2. ASSUME NEW j \in Jobs, Discard(j)
      PROVE  \A u \in Saved \ Saved' : drafts[u].doc \in sent
    <2>1. \A u \in Saved : u # jobs[j].prev => u \in Saved'
        BY <1>2, Removal DEF Discard, SessionInv
    <2> QED BY <1>2, <2>1 DEF Discard, SessionInv, DiscardsSentOnly
<1>3. ASSUME NEW j \in Jobs, Append(j) \/ AppendLost(j)
      PROVE  Saved \subseteq Saved'
    <2>1. jobs[j].pc = "append" /\ jobs[j].doc # 0
        BY <1>3 DEF Append, AppendLost, SessionInv, JobsOfPane, Free
    <2> QED BY <1>3, <2>1, Addition DEF Append, AppendLost, SessionInv
<1>4. CASE UNCHANGED folder
    BY <1>4, FolderKept
<1> QED
    BY <1>1, <1>2, <1>3, <1>4
       DEF Next, Command, vars, NewMessage, startEditDraft, Type, ViewDraft, handleDraftAutosaveTick,
           saveDraftNow, cancelCompose, sendCompose, AppendFail, PurgeFail,
           handleDraftSaveResult, Send, SendFail, SendLost, Sent, Unsent, DiscardFail, Quit

\* Under the same assumption no failure between the steps of a save, and no
\* order of saves, sends and discards, takes the newest saved copy of a
\* message not sent.
THEOREM SavesLoseNothing == Patient /\ Spec => NewestKept
<1>1. Init => SessionInv
    BY InvInit
<1>2. Patient /\ SessionInv /\ [Next]_vars => SessionInv'
    BY InvStep
<1>3. SessionInv /\ [Next]_vars =>
        [\A u \in Saved \ Saved' :
             \/ drafts[u].doc \in sent
             \/ \E v \in Saved' : /\ drafts'[v].doc = drafts[u].doc
                                  /\ drafts'[v].text >= drafts[u].text]_vars
    BY KeptStep
<1>4. CASE Patient
    <2>1. SessionInv /\ [Next]_vars => SessionInv'
        BY <1>2, <1>4
    <2> QED BY <1>1, <1>3, <2>1, PTL DEF Spec, NewestKept
<1> QED BY <1>4

-----------------------------------------------------------------------------
(***************************************************************************)
(* WorkKept.  A version of a document is kept once the folder has a copy   *)
(* that recent, and stays kept: NewestKept.  What was typed is kept, or on *)
(* the screen, or on its way to the folder; and what the pane takes for    *)
(* saved, and so closes without a save, is kept.                           *)
(***************************************************************************)

Kept(d, t) == t = 0 \/ d \in sent \/ \E u \in CopiesOf(d) : drafts[u].text >= t

OnScreen(d) == pane.open /\ pane.doc = d /\ pane.text = newest[d]
UnderWay(d) ==
    \E j \in Jobs : jobs[j].pc = "append" /\ jobs[j].doc = d /\ jobs[j].text = newest[d]

NothingLost == fails = 0 => \A d \in Doc : Kept(d, newest[d]) \/ OnScreen(d) \/ UnderWay(d)
BaselinesKept == pane.open => Kept(pane.doc, pane.initial) /\ Kept(pane.doc, pane.lastSaved)
ViewKept == viewing.uid # 0 => Kept(viewing.doc, viewing.text)
SavesKept ==
    \A j \in Jobs : jobs[j].pc \in {"purge", "saved"} => Kept(jobs[j].doc, jobs[j].text)
WorkInv == NothingLost /\ BaselinesKept /\ ViewKept /\ SavesKept

\* No step changes a copy that stays.
LEMMA CopiesStay ==
    ASSUME SessionInv, [Next]_vars
    PROVE  /\ \A u \in Saved : u \in Saved' => drafts'[u] = drafts[u]
           /\ sent \subseteq sent'
<1>1. ASSUME NEW j \in Jobs, Purge(j) \/ Discard(j)
      PROVE  \A u \in Saved : u \in Saved' => drafts'[u] = drafts[u]
    BY <1>1, Removal DEF Purge, Discard, SessionInv, CopiesKept
<1>2. ASSUME NEW j \in Jobs, Append(j) \/ AppendLost(j)
      PROVE  \A u \in Saved : drafts'[u] = drafts[u]
    <2>1. jobs[j].pc = "append" /\ jobs[j].doc # 0
        BY <1>2 DEF Append, AppendLost, SessionInv, JobsOfPane, Free
    <2> QED BY <1>2, <2>1, Addition DEF Append, AppendLost, SessionInv
<1>3. ASSUME UNCHANGED folder
      PROVE  \A u \in Saved : u \in Saved' => drafts'[u] = drafts[u]
    BY <1>3 DEF folder
<1>4. sent \subseteq sent'
    BY DEF Next, Command, vars, NewMessage, startEditDraft, Type, ViewDraft,
           handleDraftAutosaveTick, saveDraftNow, cancelCompose, sendCompose, Append, AppendFail,
           AppendLost, Purge, PurgeFail, handleDraftSaveResult, Send, SendFail, SendLost, Sent,
           Unsent, Discard, DiscardFail, Quit
<1>5. \A u \in Saved : u \in Saved' => drafts'[u] = drafts[u]
    BY <1>1, <1>2, <1>3
       DEF Next, Command, vars, NewMessage, startEditDraft, Type, ViewDraft,
           handleDraftAutosaveTick, saveDraftNow, cancelCompose, sendCompose, AppendFail,
           PurgeFail, handleDraftSaveResult, Send, SendFail, SendLost, Sent, Unsent,
           DiscardFail, Quit
<1> QED BY <1>4, <1>5

\* What is kept stays kept.
LEMMA KeptOn ==
    ASSUME SessionInv, SessionInv', [Next]_vars, NEW d \in Doc, NEW t \in Text, Kept(d, t)
    PROVE  Kept(d, t)'
<1>1. CASE t = 0 \/ d \in sent
    BY <1>1, CopiesStay DEF Kept
<1>2. ASSUME NEW u \in CopiesOf(d), drafts[u].text >= t
      PROVE  Kept(d, t)'
    <2>1. u \in Saved /\ drafts[u].doc = d /\ drafts[u].text \in Nat /\ t \in Nat
        BY Bounds DEF CopiesOf, Saved, SessionInv, TypeOK
    <2>2. CASE u \in Saved'
        BY <1>2, <2>1, <2>2, CopiesStay DEF Kept, CopiesOf
    <2>3. CASE u \notin Saved' /\ d \in sent
        BY <2>3, CopiesStay DEF Kept
    <2>4. ASSUME NEW v \in Saved', drafts'[v].doc = d, drafts'[v].text >= drafts[u].text
          PROVE  Kept(d, t)'
        <3>1. drafts'[v].text \in Nat
            BY Bounds DEF Saved, SessionInv, TypeOK
        <3> QED BY <1>2, <2>1, <2>4, <3>1 DEF Kept, CopiesOf
    <2> QED BY <2>1, <2>2, <2>3, <2>4, KeptStep
<1> QED BY <1>1, <1>2 DEF Kept

\* The copy an APPEND makes keeps the version of the job.
LEMMA AppendKeeps ==
    ASSUME SessionInv, TypeOK', NEW j \in Jobs, Append(j)
    PROVE  /\ jobs'[j].doc = jobs[j].doc /\ jobs'[j].text = jobs[j].text
           /\ Kept(jobs[j].doc, jobs[j].text)'
<1>1. jobs'[j].doc = jobs[j].doc /\ jobs'[j].text = jobs[j].text
    BY JobTyped DEF Append, SessionInv, TypeOK, Job
<1>2. jobs[j].doc # 0 /\ jobs[j].text \in Nat
    BY JobTyped, Bounds DEF Append, SessionInv, JobsOfPane, Free
<1>3. uidNext \in Saved' /\ drafts'[uidNext] = [doc |-> jobs[j].doc, text |-> jobs[j].text]
    BY <1>2, Addition DEF Append, SessionInv
<1> QED BY <1>1, <1>2, <1>3 DEF Kept, CopiesOf

LEMMA SavesKeptStep ==
    ASSUME SessionInv, SessionInv', SavesKept, [Next]_vars
    PROVE  SavesKept'
<1>1. SUFFICES ASSUME NEW k \in Jobs, jobs'[k].pc \in {"purge", "saved"}
               PROVE  Kept(jobs[k].doc, jobs[k].text)'
    BY DEF SavesKept
<1>2. jobs[k] \in Job /\ DOMAIN jobs = Jobs /\ jobs[k].doc \in Doc /\ jobs[k].text \in Text
    BY JobTyped DEF SessionInv, TypeOK
<1>3. CASE /\ jobs[k].pc \in {"purge", "saved"}
           /\ jobs'[k].doc = jobs[k].doc /\ jobs'[k].text = jobs[k].text
    BY <1>2, <1>3, KeptOn DEF SavesKept
<1>4. ASSUME NEW j \in Jobs, NEW pc, Reach(j, pc),
             pc \in {"purge", "saved"} => jobs[j].pc \in {"purge", "saved"}
      PROVE  Kept(jobs[k].doc, jobs[k].text)'
    BY <1>1, <1>2, <1>3, <1>4 DEF Reach, Job
<1>5. ASSUME NEW j \in Jobs, Done(j) \/ Save(j) \/ sendCompose(j) \/ Sent(j)
      PROVE  Kept(jobs[k].doc, jobs[k].text)'
    <2>1. k # j => jobs'[k] = jobs[k]
        BY <1>2, <1>5 DEF Done, Save, sendCompose, Sent
    <2>2. jobs'[j].pc \notin {"purge", "saved"}
        <3>1. /\ NoJob.pc = "none"
              /\ [NoJob EXCEPT !.pc = "discard", !.prev = pane.ref].pc = "discard"
              /\ [NoJob EXCEPT !.pc = "send", !.doc = pane.doc, !.text = pane.text].pc = "send"
            BY DEF NoJob
        <3>2. Done(j) => jobs'[j].pc = "none"
            BY <1>2, <3>1 DEF Done
        <3>3. Save(j) => jobs'[j].pc = "append"
            BY <1>2 DEF Save
        <3>4. sendCompose(j) => jobs'[j].pc = "send"
            BY <1>2, <3>1 DEF sendCompose
        <3>5. Sent(j) => jobs'[j].pc \in {"none", "discard"}
            BY <1>2, <3>1, <3>2 DEF Sent
        <3> QED BY <1>5, <3>2, <3>3, <3>4, <3>5
    <2> QED BY <1>1, <1>3, <2>1, <2>2
<1>6. ASSUME NEW j \in Jobs, Append(j)
      PROVE  Kept(jobs[k].doc, jobs[k].text)'
    <2>1. k # j => jobs'[k] = jobs[k]
        BY <1>2, <1>6 DEF Append
    <2>2. CASE k # j
        BY <1>1, <1>3, <2>1, <2>2
    <2>3. CASE k = j
        BY <1>6, <2>3, AppendKeeps DEF SessionInv, Kept
    <2> QED BY <2>2, <2>3
<1>7. CASE Quit
    BY <1>1, <1>7 DEF Quit, NoJob
<1>8. CASE jobs' = jobs
    BY <1>1, <1>3, <1>8
<1> QED
    BY <1>4, <1>5, <1>6, <1>7, <1>8
       DEF Next, Command, vars, NewMessage, startEditDraft, Type, ViewDraft,
           handleDraftAutosaveTick, saveDraftNow, cancelCompose, AppendFail, AppendLost, Purge,
           PurgeFail, handleDraftSaveResult, Send, SendFail, SendLost, Unsent, Discard,
           DiscardFail

LEMMA ViewKeptStep ==
    ASSUME SessionInv, SessionInv', ViewKept, [Next]_vars
    PROVE  ViewKept'
<1>1. CASE viewing' = NoView
    BY <1>1 DEF ViewKept, NoView
<1>2. CASE viewing' = viewing
    BY <1>2, PaneTyped, KeptOn DEF ViewKept, SessionInv
<1>3. ASSUME NEW u \in Uid, ViewDraft(u)
      PROVE  ViewKept'
    <2>1. /\ u \in Saved' /\ drafts'[u] = drafts[u]
          /\ viewing'.doc = drafts[u].doc /\ viewing'.text = drafts[u].text
        BY <1>3, FolderKept DEF ViewDraft, folder
    <2>2. drafts[u].text \in Nat
        BY Bounds DEF SessionInv, TypeOK
    <2> QED BY <2>1, <2>2 DEF ViewKept, Kept, CopiesOf
<1> QED
    BY <1>1, <1>2, <1>3
       DEF Next, Command, vars, NewMessage, startEditDraft, Type, enterCompose,
           handleDraftAutosaveTick, saveDraftNow, cancelCompose, sendCompose, Append, AppendFail,
           AppendLost, Purge, PurgeFail, handleDraftSaveResult, Send, SendFail, SendLost, Sent,
           Unsent, Discard, DiscardFail, Quit

\* An open pane takes a version for saved when it opened with it or a save of
\* it was answered.
LEMMA BaselinesStep ==
    ASSUME SessionInv, SessionInv', WorkInv, [Next]_vars
    PROVE  BaselinesKept'
<1>0. /\ pane \in Pane /\ pane.doc \in Doc /\ pane.initial \in Text /\ pane.lastSaved \in Text
    BY PaneTyped DEF SessionInv, TypeOK
<1>1. CASE ~ pane'.open
    BY <1>1 DEF BaselinesKept
<1>2. ASSUME pane.open, pane'.doc = pane.doc, pane'.initial = pane.initial,
             pane'.lastSaved = pane.lastSaved
      PROVE  BaselinesKept'
    <2>1. Kept(pane.doc, pane.initial) /\ Kept(pane.doc, pane.lastSaved)
        BY <1>2 DEF WorkInv, BaselinesKept
    <2>2. \A t \in Text : Kept(pane.doc, t) => Kept(pane.doc, t)'
        BY <1>0, <1>2, KeptOn
    <2> QED BY <1>0, <1>2, <2>1, <2>2 DEF BaselinesKept, Kept, CopiesOf
<1>3. CASE NewMessage
    BY <1>3 DEF NewMessage, enterCompose, BaselinesKept, Kept
<1>4. CASE startEditDraft
    <2>1. viewing.uid # 0 /\ viewing.doc \in Doc /\ viewing.text \in Text
        BY <1>4, PaneTyped DEF startEditDraft, SessionInv
    <2>2. Kept(viewing.doc, viewing.text)
        BY <2>1 DEF WorkInv, ViewKept
    <2>3. \A d \in Doc, t \in Text : d = viewing.doc /\ t = viewing.text => Kept(d, t)'
        BY <2>2, KeptOn
    <2>4. /\ pane'.doc = viewing.doc /\ pane'.initial = viewing.text
          /\ pane'.lastSaved = viewing.text
        BY <1>4 DEF startEditDraft, enterCompose
    <2> QED BY <2>1, <2>3, <2>4 DEF BaselinesKept, Kept, CopiesOf
<1>5. ASSUME NEW j \in Jobs, handleDraftSaveResult(j), pane'.open
      PROVE  BaselinesKept'
    <2>1. /\ jobs[j].pc \in {"saved", "failed"} /\ jobs[j].doc = pane.doc
          /\ jobs[j].text \in Text
        BY <1>5, JobTyped DEF handleDraftSaveResult, SessionInv, JobsOfPane, Free
    <2>2. /\ pane.open /\ pane'.doc = pane.doc /\ pane'.initial = pane.initial
          /\ \/ pane'.lastSaved = pane.lastSaved
             \/ jobs[j].pc = "saved" /\ pane'.lastSaved = jobs[j].text
        BY <1>0, <1>5 DEF handleDraftSaveResult, Pane
    <2>3. Kept(pane.doc, pane.initial) /\ Kept(pane.doc, pane.lastSaved)
        BY <2>2 DEF WorkInv, BaselinesKept
    <2>4. jobs[j].pc = "saved" => Kept(pane.doc, jobs[j].text)
        BY <2>1 DEF WorkInv, SavesKept
    <2>5. Kept(pane.doc, pane'.initial) /\ Kept(pane.doc, pane'.lastSaved)
        BY <2>2, <2>3, <2>4
    <2>6. \A d \in Doc, t \in Text : Kept(d, t) => Kept(d, t)'
        BY KeptOn
    <2>7. pane'.initial \in Text /\ pane'.lastSaved \in Text
        BY <1>0, <2>1, <2>2
    <2> QED BY <1>0, <2>2, <2>5, <2>6, <2>7 DEF BaselinesKept, Kept, CopiesOf
<1> QED
    BY <1>0, <1>1, <1>2, <1>3, <1>4, <1>5
       DEF Next, Command, vars, Type, ViewDraft, Pane,
           handleDraftAutosaveTick, saveDraftNow, cancelCompose, sendCompose, Append, AppendFail,
           AppendLost, Purge, PurgeFail, Send, SendFail, SendLost, Sent,
           Unsent, Discard, DiscardFail, Quit

LEMMA NothingLostStep ==
    ASSUME SessionInv, SessionInv', WorkInv, [Next]_vars
    PROVE  NothingLost'
<1>0. /\ pane \in Pane /\ pane.doc \in Doc /\ pane.text \in Text
      /\ \A d \in Doc : newest[d] \in Text /\ newest'[d] \in Text
    BY PaneTyped DEF SessionInv, TypeOK
<1>1. CASE fails' # 0
    BY <1>1 DEF NothingLost
<1>2. ASSUME fails = 0, newest' = newest,
             pane.open => \/ pane'.open /\ pane'.doc = pane.doc /\ pane'.text = pane.text
                          \/ pane.doc \in sent
                          \/ Kept(pane.doc, pane.text)
                          \/ \E j \in Jobs : /\ jobs'[j].pc = "append" /\ jobs'[j].doc = pane.doc
                                            /\ jobs'[j].text = pane.text,
             \A k \in Jobs : jobs[k].pc = "append" =>
                \/ jobs'[k].pc = "append" /\ jobs'[k].doc = jobs[k].doc /\ jobs'[k].text = jobs[k].text
                \/ \A d \in Doc, t \in Text : d = jobs[k].doc /\ t = jobs[k].text => Kept(d, t)'
      PROVE  NothingLost'
    <2> SUFFICES ASSUME NEW d \in Doc
                 PROVE  Kept(d, newest[d])' \/ OnScreen(d)' \/ UnderWay(d)'
        BY DEF NothingLost
    <2>1. Kept(d, newest[d]) => Kept(d, newest[d])'
        BY <1>0, <1>2, KeptOn DEF Kept
    <2>2. CASE Kept(d, newest[d])
        BY <2>1, <2>2
    <2>3. CASE OnScreen(d)
        <3>1. d \in sent => Kept(d, newest[d])
            BY DEF Kept
        <3> QED BY <1>2, <2>1, <2>3, <3>1 DEF OnScreen, UnderWay
    <2>4. CASE UnderWay(d)
        BY <1>0, <1>2, <2>4 DEF UnderWay, Kept
    <2> QED BY <1>2, <2>2, <2>3, <2>4 DEF WorkInv, NothingLost
<1>3. fails' = 0 => fails = 0
    <2>1. fails \in Nat
        BY Bounds DEF SessionInv, TypeOK
    <2>2. Failure => fails' = fails + 1
        BY DEF Failure
    <2>3. fails' = fails \/ Failure
        BY DEF Next, Command, vars, NewMessage, startEditDraft, Type, ViewDraft,
               handleDraftAutosaveTick, saveDraftNow, cancelCompose, sendCompose, Append,
               AppendFail, AppendLost, Purge, PurgeFail, handleDraftSaveResult, Send, SendFail,
               SendLost, Sent, Unsent, Discard, DiscardFail, Quit
    <2> QED BY <2>1, <2>2, <2>3
<1>4. CASE Failure
    <2>1. fails' # 0
        BY <1>4, Bounds DEF Failure, SessionInv, TypeOK
    <2> QED BY <1>1, <2>1
<1>5. ASSUME fails' = 0, pane' = pane \/ ~ pane.open, newest' = newest, jobs' = jobs
      PROVE  NothingLost'
    BY <1>2, <1>3, <1>5
<1>6. ASSUME fails' = 0, Type
      PROVE  NothingLost'
    <2>1. /\ pane.open /\ pane'.open /\ pane'.doc = pane.doc /\ jobs' = jobs
          /\ pane'.text = newest'[pane.doc]
          /\ \A d \in Doc : d # pane.doc => newest'[d] = newest[d]
        BY <1>0, <1>6 DEF Type, Pane, SessionInv, TypeOK
    <2> SUFFICES ASSUME NEW d \in Doc
                 PROVE  Kept(d, newest[d])' \/ OnScreen(d)' \/ UnderWay(d)'
        BY DEF NothingLost
    <2>2. CASE d = pane.doc
        BY <2>1, <2>2 DEF OnScreen
    <2>3. CASE d # pane.doc
        <3>1. newest'[d] = newest[d]
            BY <2>1, <2>3
        <3>2. Kept(d, newest[d]) => Kept(d, newest[d])'
            BY <1>0, <3>1, KeptOn DEF Kept
        <3>3. UnderWay(d) => UnderWay(d)'
            BY <2>1, <3>1 DEF UnderWay
        <3>4. ~ OnScreen(d)
            BY <2>3 DEF OnScreen
        <3> QED BY <1>3, <1>6, <3>2, <3>3, <3>4 DEF WorkInv, NothingLost
    <2> QED BY <2>2, <2>3
<1>7. ASSUME NEW j \in Jobs, Save(j)
      PROVE  /\ \A k \in Jobs : jobs[k].pc = "append" => jobs'[k] = jobs[k]
             /\ jobs'[j].pc = "append" /\ jobs'[j].doc = pane.doc /\ jobs'[j].text = pane.text
    BY <1>7 DEF Save, Free, SessionInv, TypeOK
<1>8. ASSUME fails' = 0, NEW j \in Jobs, handleDraftAutosaveTick(j) \/ saveDraftNow(j)
      PROVE  NothingLost'
    <2>1. pane'.open = pane.open /\ pane'.doc = pane.doc /\ pane'.text = pane.text
        BY <1>0, <1>8 DEF handleDraftAutosaveTick, saveDraftNow, Pane
    <2>2. newest' = newest /\ Save(j)
        BY <1>8 DEF handleDraftAutosaveTick, saveDraftNow
    <2> QED BY <1>2, <1>3, <1>7, <1>8, <2>1, <2>2
<1>9. ASSUME fails' = 0, NEW j \in Jobs, cancelCompose(j)
      PROVE  NothingLost'
    <2>1. newest' = newest /\ pane.open
        BY <1>9 DEF cancelCompose
    <2>2. CASE Dirty
        <3>1. Save(j)
            BY <1>9, <2>2 DEF cancelCompose
        <3> QED BY <1>2, <1>3, <1>7, <1>9, <2>1, <3>1
    <2>3. CASE ~ Dirty
        <3>1. Kept(pane.doc, pane.text)
            BY <2>1, <2>3 DEF WorkInv, BaselinesKept, Dirty, draftBaseline
        <3>2. jobs' = jobs
            BY <1>9, <2>3 DEF cancelCompose
        <3> QED BY <1>2, <1>3, <1>9, <2>1, <3>1, <3>2
    <2> QED BY <2>2, <2>3
<1>10. ASSUME fails' = 0, newest' = newest, NEW j \in Jobs, jobs[j].pc # "append",
              \A k \in Jobs \ {j} : jobs'[k] = jobs[k],
              pane.open => \/ pane'.open /\ pane'.doc = pane.doc /\ pane'.text = pane.text
                           \/ pane.doc \in sent
       PROVE  NothingLost'
    BY <1>2, <1>3, <1>10
<1>11. ASSUME fails' = 0, NEW j \in Jobs, Append(j)
       PROVE  NothingLost'
    <2>1. \A k \in Jobs \ {j} : jobs'[k] = jobs[k]
        BY <1>11 DEF Append, SessionInv, TypeOK
    <2>2. \A d \in Doc, t \in Text : d = jobs[j].doc /\ t = jobs[j].text => Kept(d, t)'
        BY <1>11, AppendKeeps DEF SessionInv, Kept
    <2> QED BY <1>2, <1>3, <1>11, <2>1, <2>2 DEF Append
<1>12. ASSUME fails' = 0, NEW j \in Jobs, sendCompose(j)
       PROVE  NothingLost'
    BY <1>10, <1>12 DEF sendCompose, Free, SessionInv, TypeOK
<1>13. ASSUME fails' = 0, NEW j \in Jobs, Purge(j) \/ Send(j)
       PROVE  NothingLost'
    BY <1>10, <1>13 DEF Purge, Send, Reach, SessionInv, TypeOK
<1>14. ASSUME fails' = 0, NEW j \in Jobs, Unsent(j) \/ Discard(j)
       PROVE  NothingLost'
    BY <1>10, <1>14 DEF Unsent, Discard, Done, SessionInv, TypeOK
<1>15. ASSUME fails' = 0, NEW j \in Jobs, handleDraftSaveResult(j)
       PROVE  NothingLost'
    <2>1. pane'.open = pane.open /\ pane'.doc = pane.doc /\ pane'.text = pane.text
        BY <1>0, <1>15 DEF handleDraftSaveResult, Pane
    <2> QED BY <1>10, <1>15, <2>1 DEF handleDraftSaveResult, Done, SessionInv, TypeOK
<1>16. ASSUME fails' = 0, NEW j \in Jobs, Sent(j)
       PROVE  NothingLost'
    <2>1. jobs[j].pc = "sent" /\ pane.doc \in sent
        BY <1>16 DEF Sent, SessionInv, JobsOfPane, Free
    <2>2. \A k \in Jobs \ {j} : jobs'[k] = jobs[k]
        BY <1>16 DEF Sent, Done, SessionInv, TypeOK
    <2> QED BY <1>10, <1>16, <2>1, <2>2 DEF Sent
<1> QED
    BY <1>1, <1>4, <1>5, <1>6, <1>8, <1>9, <1>11, <1>12, <1>13, <1>14, <1>15, <1>16
       DEF Next, Command, vars, NewMessage, startEditDraft, enterCompose, ViewDraft, AppendFail,
           AppendLost, PurgeFail, SendFail, SendLost, DiscardFail, Quit

LEMMA WorkInit ==
    ASSUME Init
    PROVE  WorkInv
<1>1. ~ pane.open /\ viewing.uid = 0 /\ \A j \in Jobs : jobs[j].pc = "none"
    BY DEF Init, NoView, NoJob
<1>2. \A d \in Doc : newest[d] = 0
    BY DEF Init
<1> QED BY <1>1, <1>2 DEF WorkInv, NothingLost, BaselinesKept, ViewKept, SavesKept, Kept

\* As long as nothing is opened while a command is in flight, and nothing
\* fails, what was typed last in a message not sent is in the Drafts folder
\* once nothing is under way: in whatever order the pane is saved, closed and
\* sent, and whether or not the server reports UIDs.
THEOREM WorkIsKept == Patient /\ Spec => []WorkKept
<1>1. Init => SessionInv /\ WorkInv
    BY InvInit, WorkInit
<1>2. Patient /\ SessionInv /\ WorkInv /\ [Next]_vars => SessionInv' /\ WorkInv'
    BY InvStep, NothingLostStep, BaselinesStep, ViewKeptStep, SavesKeptStep DEF WorkInv
<1>3. SessionInv /\ WorkInv => WorkKept
    <2> SUFFICES ASSUME SessionInv, WorkInv, Rest, fails = 0, NEW d \in Doc \ sent, newest[d] # 0
                 PROVE  \E u \in CopiesOf(d) : drafts[u].text = newest[d]
        BY DEF WorkKept
    <2>1. Kept(d, newest[d])
        BY DEF WorkInv, NothingLost, OnScreen, UnderWay, Rest, Busy, Free
    <2>2. PICK u \in CopiesOf(d) : drafts[u].text >= newest[d]
        BY <2>1 DEF Kept
    <2>3. drafts[u].text <= newest[d] /\ drafts[u].text \in Nat /\ newest[d] \in Nat
        BY Bounds DEF CopiesOf, Saved, SessionInv, References, TypeOK
    <2> QED BY <2>2, <2>3
<1>4. CASE Patient
    <2>1. SessionInv /\ WorkInv /\ [Next]_vars => SessionInv' /\ WorkInv'
        BY <1>2, <1>4
    <2> QED BY <1>1, <1>3, <2>1, PTL DEF Spec
<1> QED BY <1>4

-----------------------------------------------------------------------------
(***************************************************************************)
(* OneCopy, for users who open nothing while a command is in flight, on a  *)
(* server with UIDPLUS.  As long as the pane of a document is not closed   *)
(* during a save, one save of it is under way at a time, and its copies    *)
(* are those the pane, or that save, refers to.                            *)
(***************************************************************************)

\* The save of an open pane is its own, and the pane knows of it.
SavesInOrder ==
    /\ \A j, k \in Saves : j = k
    /\ pane.open => \A j \in Saves : /\ pane.saving /\ jobs[j].gen = pane.gen
                                     /\ jobs[j].prev = pane.ref

\* No document is later than the last pane opened.
Begun ==
    /\ pane.doc <= pane.gen /\ viewing.doc <= pane.gen
    /\ \A u \in Saved : drafts[u].doc <= pane.gen
    /\ \A d \in sent : d <= pane.gen

Crossed == pane.doc \in crossed
OrderInv == Begun /\ (Crossed \/ SavesInOrder)

Single(d) == \A u, v \in CopiesOf(d) : u = v

\* The documents of other panes have one copy each.
Others == \A d : d \notin crossed /\ d # pane.doc => Single(d)

\* With no save under way an open pane refers to the copy of its document.
Referred ==
    Saves = {} => Single(pane.doc) /\ (pane.open => CopiesOf(pane.doc) \subseteq {pane.ref})

\* A save knows the copies of its document.
Known ==
    \A j \in Saves :
        /\ jobs[j].pc = "append" => CopiesOf(pane.doc) \subseteq {jobs[j].prev}
        /\ jobs[j].pc = "purge" => CopiesOf(pane.doc) \subseteq {jobs[j].prev, jobs[j].uid}
        /\ jobs[j].pc = "saved" => CopiesOf(pane.doc) \subseteq {jobs[j].uid}

Viewed == viewing.uid # 0 => viewing.uid \in CopiesOf(viewing.doc)

NoneFailed == \A j \in Jobs : jobs[j].pc # "failed"

Copies == Others /\ (Crossed \/ (Referred /\ Known)) /\ Viewed /\ NoneFailed

FolderInv == fails = 0 => Copies

-----------------------------------------------------------------------------
\* What a step does to the jobs, field by field.
LEMMA ReachOne ==
    ASSUME TypeOK, NEW j \in Jobs, NEW pc, Reach(j, pc)
    PROVE  /\ \A k \in Jobs \ {j} : jobs'[k] = jobs[k]
           /\ jobs'[j].pc = pc /\ jobs'[j].doc = jobs[j].doc /\ jobs'[j].text = jobs[j].text
           /\ jobs'[j].gen = jobs[j].gen
           /\ jobs'[j].prev = jobs[j].prev /\ jobs'[j].uid = jobs[j].uid
BY JobTyped DEF Reach, TypeOK, Job

LEMMA DoneOne ==
    ASSUME TypeOK, NEW j \in Jobs, Done(j)
    PROVE  /\ \A k \in Jobs \ {j} : jobs'[k] = jobs[k]
           /\ jobs'[j].pc = "none"
BY DEF Done, TypeOK, NoJob

LEMMA SaveOne ==
    ASSUME TypeOK, NEW j \in Jobs, Save(j)
    PROVE  /\ \A k \in Jobs \ {j} : jobs'[k] = jobs[k]
           /\ Free(j) /\ jobs'[j].pc = "append" /\ jobs'[j].gen = pane.gen
           /\ jobs'[j].doc = pane.doc /\ jobs'[j].prev = pane.ref
BY DEF Save, TypeOK

LEMMA SendOne ==
    ASSUME TypeOK, NEW j \in Jobs, sendCompose(j)
    PROVE  /\ \A k \in Jobs \ {j} : jobs'[k] = jobs[k]
           /\ Free(j) /\ jobs'[j].pc = "send" /\ jobs'[j].doc = pane.doc
BY DEF sendCompose, TypeOK, NoJob

LEMMA AppendOne ==
    ASSUME TypeOK, UidPlus, NEW j \in Jobs, Append(j)
    PROVE  /\ \A k \in Jobs \ {j} : jobs'[k] = jobs[k]
           /\ jobs[j].pc = "append"
           /\ jobs'[j].pc = (IF jobs[j].prev # 0 THEN "purge" ELSE "saved")
           /\ jobs'[j].doc = jobs[j].doc /\ jobs'[j].gen = jobs[j].gen
           /\ jobs'[j].prev = jobs[j].prev /\ jobs'[j].uid = uidNext
BY JobTyped DEF Append, AfterAppend, TypeOK, Job

LEMMA SentOne ==
    ASSUME TypeOK, NEW j \in Jobs, Sent(j)
    PROVE  /\ \A k \in Jobs \ {j} : jobs'[k] = jobs[k]
           /\ jobs[j].pc = "sent" /\ jobs'[j].pc \in {"none", "discard"}
           /\ pane.ref # 0 => jobs'[j].pc = "discard" /\ jobs'[j].prev = pane.ref
           /\ ~ pane'.open /\ pane'.doc = pane.doc /\ pane'.gen = pane.gen
<1>1. CASE pane.ref # 0
    <2>1. jobs' = [jobs EXCEPT ![j] = [NoJob EXCEPT !.pc = "discard", !.prev = pane.ref]]
        BY <1>1 DEF Sent
    <2>2. /\ [NoJob EXCEPT !.pc = "discard", !.prev = pane.ref].pc = "discard"
          /\ [NoJob EXCEPT !.pc = "discard", !.prev = pane.ref].prev = pane.ref
        BY DEF NoJob
    <2> QED BY <1>1, <2>1, <2>2 DEF Sent, TypeOK, Pane
<1>2. CASE pane.ref = 0
    BY <1>2, DoneOne DEF Sent, TypeOK, Pane
<1> QED BY <1>1, <1>2

\* A purge takes away the copy it names.
LEMMA Purged ==
    ASSUME TypeOK, UidPlus, NEW p,
           drafts' = IF UidPlus THEN [drafts EXCEPT ![p] = NoCopy] ELSE drafts
    PROVE  /\ Saved' = Saved \ {p}
           /\ \A u \in Saved' : drafts'[u] = drafts[u]
BY DEF TypeOK, Saved


\* A step that begins no save, and keeps an open pane.
LEMMA OrderKept ==
    ASSUME SavesInOrder, Saves' \subseteq Saves,
           \A k \in Saves' : jobs'[k].gen = jobs[k].gen /\ jobs'[k].prev = jobs[k].prev,
           pane'.open => /\ pane.open /\ pane'.gen = pane.gen /\ pane'.ref = pane.ref
                         /\ pane'.saving = pane.saving
    PROVE  SavesInOrder'
BY DEF SavesInOrder

\* Saves that are under way, told by the jobs.
LEMMA SavesAre ==
    /\ \A j \in Jobs : j \in Saves <=> jobs[j].pc \in Saving
    /\ \A j \in Jobs : (j \in Saves)' <=> jobs'[j].pc \in Saving
    /\ Saves \subseteq Jobs /\ Saves' \subseteq Jobs
BY DEF Saves, Saving

LEMMA OrderStep ==
    ASSUME SessionInv, OrderInv, Patient, [Next]_vars, pane'.doc \notin crossed'
    PROVE  SavesInOrder'
<1>0. TypeOK /\ pane \in Pane
    BY DEF SessionInv, TypeOK
<1>1. CASE \A k \in Jobs : jobs'[k].pc = "none"
    BY <1>1, SavesAre DEF SavesInOrder, Saving
<1>2. CASE ~ Busy /\ jobs' = jobs
    BY <1>1, <1>2 DEF Busy, Free
<1>3. CASE NewMessage \/ startEditDraft \/ Quit
    BY <1>1, <1>2, <1>3 DEF NewMessage, startEditDraft, enterCompose, Patient, Quit, NoJob
<1>4. CASE pane'.doc = pane.doc /\ crossed' = crossed
    <2>1. SavesInOrder
        BY <1>4 DEF OrderInv, Crossed
    <2>2. ASSUME jobs' = jobs, pane'.open => /\ pane.open /\ pane'.gen = pane.gen /\ pane'.ref = pane.ref
                                             /\ pane'.saving = pane.saving
          PROVE  SavesInOrder'
        BY <2>1, <2>2, OrderKept DEF Saves
    <2>3. ASSUME NEW j \in Jobs, NEW pc, Reach(j, pc), pane' = pane,
                 pc \in Saving => jobs[j].pc \in Saving
          PROVE  SavesInOrder'
        <3>1. \A k \in Saves' : k \in Saves /\ jobs'[k].gen = jobs[k].gen /\ jobs'[k].prev = jobs[k].prev
            BY <1>0, <2>3, ReachOne, SavesAre
        <3> QED BY <2>1, <2>3, <3>1, OrderKept
    <2>4. ASSUME NEW j \in Jobs, Done(j), pane' = pane
          PROVE  SavesInOrder'
        <3>1. \A k \in Saves' : k \in Saves /\ jobs'[k].gen = jobs[k].gen /\ jobs'[k].prev = jobs[k].prev
            BY <1>0, <2>4, DoneOne, SavesAre DEF Saving
        <3> QED BY <2>1, <2>4, <3>1, OrderKept
    <2>5. ASSUME NEW j \in Jobs, handleDraftAutosaveTick(j) \/ saveDraftNow(j)
          PROVE  SavesInOrder'
        <3>1. /\ pane'.open = pane.open /\ pane'.gen = pane.gen /\ pane'.ref = pane.ref
              /\ pane'.saving /\ pane.open /\ ~ pane.saving /\ Save(j)
            BY <1>0, <2>5 DEF handleDraftAutosaveTick, saveDraftNow, Pane
        <3>2. Saves = {}
            BY <2>1, <3>1 DEF SavesInOrder
        <3>3. \A k \in Saves' : k = j
            BY <1>0, <3>1, <3>2, SaveOne, SavesAre
        <3> QED BY <1>0, <3>1, <3>3, SaveOne DEF SavesInOrder
    <2>6. ASSUME NEW j \in Jobs, sendCompose(j)
          PROVE  SavesInOrder'
        <3>1. \A k \in Saves' : k \in Saves /\ jobs'[k].gen = jobs[k].gen /\ jobs'[k].prev = jobs[k].prev
            BY <1>0, <2>6, SendOne, SavesAre DEF Saving
        <3> QED BY <2>1, <2>6, <3>1, OrderKept DEF sendCompose
    <2>7. ASSUME NEW j \in Jobs, Append(j)
          PROVE  SavesInOrder'
        <3>1. /\ \A k \in Jobs \ {j} : jobs'[k] = jobs[k]
              /\ jobs[j].pc = "append" /\ jobs'[j].gen = jobs[j].gen /\ jobs'[j].prev = jobs[j].prev
            BY <1>0, <2>7, JobTyped DEF Append, TypeOK, Job
        <3>2. \A k \in Saves' : k \in Saves /\ jobs'[k].gen = jobs[k].gen /\ jobs'[k].prev = jobs[k].prev
            BY <3>1, SavesAre DEF Saving
        <3> QED BY <2>1, <2>7, <3>2, OrderKept DEF Append
    <2>8. ASSUME NEW j \in Jobs, handleDraftSaveResult(j)
          PROVE  SavesInOrder'
        <3>1. j \in Saves /\ Done(j)
            BY <2>8, SavesAre DEF handleDraftSaveResult, Saving
        <3>2. \A k \in Saves' : k \in Saves \ {j}
            BY <1>0, <3>1, DoneOne, SavesAre DEF Saving
        <3>3. Saves' = {}
            BY <2>1, <3>1, <3>2 DEF SavesInOrder
        <3> QED BY <3>3 DEF SavesInOrder
    <2>9. ASSUME NEW j \in Jobs, Sent(j)
          PROVE  SavesInOrder'
        <3>1. \A k \in Saves' : k \in Saves /\ jobs'[k].gen = jobs[k].gen /\ jobs'[k].prev = jobs[k].prev
            BY <1>0, <2>9, SentOne, SavesAre DEF Saving
        <3> QED BY <1>0, <2>1, <2>9, <3>1, SentOne, OrderKept
    <2>10. CASE Type
        BY <1>0, <2>2, <2>10 DEF Type, Pane
    <2>11. ASSUME NEW j \in Jobs, AppendFail(j) \/ AppendLost(j) \/ Purge(j) \/ PurgeFail(j)
           PROVE  SavesInOrder'
        BY <2>3, <2>11 DEF AppendFail, AppendLost, Purge, PurgeFail, Saving
    <2>12. ASSUME NEW j \in Jobs, Send(j) \/ SendFail(j) \/ SendLost(j)
           PROVE  SavesInOrder'
        BY <2>3, <2>12 DEF Send, SendFail, SendLost, Saving
    <2>13. ASSUME NEW j \in Jobs, cancelCompose(j)
           PROVE  SavesInOrder'
        <3>1. ~ pane'.open
            BY <1>0, <2>13 DEF cancelCompose, Pane
        <3>2. Saves = {}
            BY <1>4, <2>13 DEF cancelCompose
        <3>3. \A k \in Saves' : k = j
            BY <1>0, <2>13, <3>2, SaveOne, SavesAre DEF cancelCompose
        <3> QED BY <3>1, <3>3 DEF SavesInOrder
    <2> QED
        BY <1>3, <2>2, <2>4, <2>5, <2>6, <2>7, <2>8, <2>9, <2>10, <2>11, <2>12, <2>13
           DEF Next, Command, vars, ViewDraft, Unsent, Discard, DiscardFail
<1>5. ASSUME NEW j \in Jobs, cancelCompose(j)
      PROVE  SavesInOrder'
    <2>1. pane'.doc = pane.doc
        BY <1>0, <1>5 DEF cancelCompose, Pane
    <2>2. crossed' = crossed
        BY <1>5, <2>1 DEF cancelCompose
    <2> QED BY <1>4, <2>1, <2>2
<1>6. CASE UNCHANGED <<pane, crossed>>
    BY <1>4, <1>6
<1>7. CASE pane' # pane /\ ~ (NewMessage \/ startEditDraft \/ Quit \/ \E j \in Jobs : cancelCompose(j))
    <2>1. crossed' = crossed
        BY <1>7 DEF Next, Command, vars, ViewDraft, Type, handleDraftAutosaveTick, saveDraftNow,
            sendCompose, Append, AppendFail, AppendLost, Purge, PurgeFail, handleDraftSaveResult,
            Send, SendFail, SendLost, Sent, Unsent, Discard, DiscardFail
    <2>2. pane'.doc = pane.doc
        <3>1. \/ Type
              \/ \E j \in Jobs : \/ handleDraftAutosaveTick(j) \/ saveDraftNow(j)
                                 \/ handleDraftSaveResult(j) \/ Sent(j)
            BY <1>7 DEF Next, Command, vars, ViewDraft, sendCompose, Append, AppendFail, AppendLost,
                Purge, PurgeFail, Send, SendFail, SendLost, Unsent, Discard, DiscardFail
        <3> QED BY <1>0, <3>1 DEF Type, handleDraftAutosaveTick, saveDraftNow, handleDraftSaveResult,
                    Sent, Pane
    <2> QED BY <1>4, <2>1, <2>2
<1>8. CASE pane' = pane /\ ~ \E j \in Jobs : cancelCompose(j)
    <2>1. crossed' = crossed
        BY <1>8 DEF Next, Command, vars, ViewDraft, Type, handleDraftAutosaveTick, saveDraftNow,
            sendCompose, Append, AppendFail, AppendLost, Purge, PurgeFail, handleDraftSaveResult,
            Send, SendFail, SendLost, Sent, Unsent, Discard, DiscardFail, NewMessage,
            startEditDraft, Quit
    <2> QED BY <1>6, <1>8, <2>1
<1> QED BY <1>3, <1>5, <1>7, <1>8

LEMMA BegunStep ==
    ASSUME SessionInv, OrderInv, [Next]_vars
    PROVE  Begun'
<1>0. /\ TypeOK /\ pane \in Pane /\ pane.gen \in Nat /\ pane.doc \in Nat /\ viewing.doc \in Nat
      /\ pane.doc <= pane.gen /\ viewing.doc <= pane.gen
      /\ \A u \in Saved : drafts[u].doc <= pane.gen
      /\ \A d \in sent : d <= pane.gen /\ d \in Nat
    BY PaneTyped, Bounds DEF SessionInv, TypeOK, OrderInv, Begun
<1>1. ASSUME pane'.doc = pane.doc, pane'.gen = pane.gen,
             viewing' \in {viewing, NoView}, UNCHANGED folder,
             sent' \subseteq sent \cup {pane.doc}
      PROVE  Begun'
    BY <1>0, <1>1, FolderKept DEF Begun, NoView, folder
<1>2. ASSUME NEW j \in Jobs, ~ Free(j), jobs[j].pc # "discard"
      PROVE  jobs[j].doc = pane.doc /\ pane.doc # 0
    BY <1>2 DEF SessionInv, JobsOfPane
<1>3. ASSUME NEW j \in Jobs, Append(j) \/ AppendLost(j)
      PROVE  Begun'
    <2>1. jobs[j].doc = pane.doc /\ pane.doc # 0
        BY <1>2, <1>3 DEF Append, AppendLost, Free
    <2>2. /\ Saved' = Saved \cup {uidNext}
          /\ drafts'[uidNext] = [doc |-> jobs[j].doc, text |-> jobs[j].text]
          /\ \A u \in Saved : drafts'[u] = drafts[u]
        BY <1>3, <2>1, Addition DEF Append, AppendLost, SessionInv
    <2>3. pane' = pane /\ viewing' = viewing /\ sent' = sent
        BY <1>3 DEF Append, AppendLost
    <2> QED BY <1>0, <2>1, <2>2, <2>3 DEF Begun
<1>4. ASSUME NEW j \in Jobs, Purge(j) \/ Discard(j)
      PROVE  Begun'
    <2>1. CopiesKept /\ pane' = pane /\ viewing' = viewing /\ sent' = sent
        BY <1>0, <1>4, Removal DEF Purge, Discard
    <2> QED BY <1>0, <2>1 DEF Begun, CopiesKept
<1>5. CASE NewMessage
    <2>1. pane'.doc = pane.gen + 1 /\ pane'.gen = pane.gen + 1 /\ viewing'.doc = 0
        BY <1>5 DEF NewMessage, enterCompose, NoView
    <2>2. Saved' = Saved /\ drafts' = drafts /\ sent' = sent
        BY <1>5, FolderKept DEF NewMessage, folder
    <2>3. \A u \in Saved : drafts[u].doc \in Nat
        BY Bounds DEF SessionInv, TypeOK, Saved
    <2> QED BY <1>0, <2>1, <2>2, <2>3 DEF Begun
<1>6. CASE startEditDraft
    <2>1. pane'.doc = viewing.doc /\ pane'.gen = pane.gen + 1 /\ viewing'.doc = 0
        BY <1>6 DEF startEditDraft, enterCompose, NoView
    <2>2. Saved' = Saved /\ drafts' = drafts /\ sent' = sent
        BY <1>6, FolderKept DEF startEditDraft, folder
    <2>3. \A u \in Saved : drafts[u].doc \in Nat
        BY Bounds DEF SessionInv, TypeOK, Saved
    <2> QED BY <1>0, <2>1, <2>2, <2>3 DEF Begun
<1>7. ASSUME NEW u \in Uid, ViewDraft(u)
      PROVE  Begun'
    <2>1. viewing'.doc = drafts[u].doc /\ u \in Saved /\ pane' = pane /\ sent' = sent
        BY <1>7 DEF ViewDraft
    <2>2. Saved' = Saved /\ drafts' = drafts
        BY <1>7, FolderKept DEF ViewDraft, folder
    <2> QED BY <1>0, <2>1, <2>2 DEF Begun
<1>8. ASSUME NEW j \in Jobs, Send(j) \/ SendLost(j)
      PROVE  Begun'
    BY <1>1, <1>2, <1>8 DEF Send, SendLost, Free
<1>9. CASE Type \/ Quit
    BY <1>0, <1>1, <1>9 DEF Type, Quit, Pane
<1>10. ASSUME NEW j \in Jobs,
              handleDraftAutosaveTick(j) \/ saveDraftNow(j) \/ cancelCompose(j)
       PROVE  Begun'
    BY <1>0, <1>1, <1>10 DEF handleDraftAutosaveTick, saveDraftNow, cancelCompose, Pane
<1>11. ASSUME NEW j \in Jobs, handleDraftSaveResult(j) \/ Sent(j)
       PROVE  Begun'
    BY <1>0, <1>1, <1>11, SentOne DEF handleDraftSaveResult, Sent, Pane
<1> QED
    BY <1>1, <1>3, <1>4, <1>5, <1>6, <1>7, <1>8, <1>9, <1>10, <1>11
       DEF Next, Command, vars, sendCompose, AppendFail, PurgeFail, SendFail, Unsent, DiscardFail

-----------------------------------------------------------------------------
(* FolderInv: one lemma per kind of step, when nothing has failed. *)

\* The copies of a document, where a step keeps, or only removes, copies.
LEMMA CopiesAre ==
    /\ UNCHANGED folder => Saved' = Saved /\ \A d : CopiesOf(d)' = CopiesOf(d)
    /\ Saved' \subseteq Saved /\ (\A u \in Saved' : drafts'[u] = drafts[u])
         => \A d : CopiesOf(d)' \subseteq CopiesOf(d)
BY FolderKept DEF folder, CopiesOf

\* A draft shown in the viewer means that nothing is under way.
LEMMA Quiet ==
    ASSUME SessionInv, NEW j \in Jobs, ~ Free(j)
    PROVE  viewing = NoView /\ viewing.uid = 0
BY DEF SessionInv, JobsOfPane, NoView

\* The pane stays that of its document, no copy is added, and the saves under
\* way are the same.
LEMMA SameCopies ==
    ASSUME Copies, pane'.doc = pane.doc, crossed \subseteq crossed',
           pane'.open => pane.open /\ pane'.ref = pane.ref,
           \A d : CopiesOf(d)' \subseteq CopiesOf(d),
           Saves' = Saves,
           \A j \in Saves : jobs'[j].pc = jobs[j].pc /\ jobs'[j].prev = jobs[j].prev
                            /\ jobs'[j].uid = jobs[j].uid,
           Viewed', NoneFailed'
    PROVE  Copies'
<1>1. \A d : Single(d) => Single(d)'
    BY DEF Single
<1>2. Others'
    BY <1>1 DEF Copies, Others
<1>3. Crossed => Crossed'
    BY DEF Crossed
<1>4. Referred => Referred'
    BY <1>1 DEF Referred
<1>5. Known => Known'
    BY DEF Known
<1> QED BY <1>2, <1>3, <1>4, <1>5 DEF Copies

\* A pane is opened, for a document with no copy but the one it refers to.
LEMMA EnterCopies ==
    ASSUME Copies, ~ Busy, UNCHANGED <<jobs, crossed>>, UNCHANGED folder, viewing' = NoView,
           pane'.doc \notin crossed => CopiesOf(pane'.doc) \subseteq {pane'.ref}
    PROVE  Copies'
<1>1. Saves = {} /\ Saves' = {}
    BY DEF Saves, Busy, Free
<1>2. \A d : CopiesOf(d)' = CopiesOf(d) /\ (Single(d)' <=> Single(d))
    BY CopiesAre DEF Single
<1>3. pane.doc \notin crossed => Single(pane.doc)
    BY <1>1 DEF Copies, Crossed, Referred
<1>4. Others'
    BY <1>2, <1>3 DEF Copies, Others
<1>5. pane'.doc \notin crossed' => Referred'
    BY <1>1, <1>2 DEF Referred, Single
<1>6. Known' /\ Viewed' /\ NoneFailed'
    BY <1>1 DEF Copies, Known, Viewed, NoView, NoneFailed
<1> QED BY <1>4, <1>5, <1>6 DEF Copies, Crossed

\* A save begins in the pane, which keeps its reference.
LEMMA BeginCopies ==
    ASSUME TypeOK, OrderInv, Copies, NEW j \in Jobs, Save(j), pane.open,
           pane'.doc = pane.doc, crossed \subseteq crossed', pane'.doc \notin crossed' => Saves = {},
           UNCHANGED folder, viewing' = viewing
    PROVE  Copies'
<1>1. /\ \A k \in Jobs \ {j} : jobs'[k] = jobs[k]
      /\ jobs'[j].pc = "append" /\ jobs'[j].prev = pane.ref
    BY SaveOne
<1>2. \A d : CopiesOf(d)' = CopiesOf(d) /\ (Single(d)' <=> Single(d))
    BY CopiesAre DEF Single
<1>3. Others' /\ Viewed' /\ NoneFailed'
    BY <1>1, <1>2 DEF Copies, Others, Viewed, NoneFailed
<1>4. CASE pane'.doc \notin crossed'
    <2>1. Saves = {} /\ ~ Crossed
        BY <1>4 DEF Crossed
    <2>2. CopiesOf(pane.doc) \subseteq {pane.ref}
        BY <2>1 DEF Copies, Referred
    <2>3. \A k \in Saves' : k = j
        BY <1>1, <2>1, SavesAre
    <2>4. j \in Saves'
        BY <1>1, SavesAre DEF Saving
    <2>5. Referred'
        BY <2>4 DEF Referred
    <2>6. Known'
        BY <1>1, <1>2, <2>2, <2>3 DEF Known
    <2> QED BY <1>3, <2>5, <2>6 DEF Copies
<1> QED BY <1>3, <1>4 DEF Copies, Crossed

LEMMA AppendCopies ==
    ASSUME SessionInv, OrderInv, UidPlus, Copies, NEW j \in Jobs, Append(j)
    PROVE  Copies'
<1>0. TypeOK /\ ~ Free(j) /\ jobs[j].pc = "append" /\ j \in Saves
    BY SavesAre DEF SessionInv, Append, Free, Saving
<1>1. /\ \A k \in Jobs \ {j} : jobs'[k] = jobs[k]
      /\ jobs'[j].pc = (IF jobs[j].prev # 0 THEN "purge" ELSE "saved")
      /\ jobs'[j].prev = jobs[j].prev /\ jobs'[j].uid = uidNext
    BY <1>0, AppendOne
<1>2. jobs[j].doc = pane.doc /\ pane.doc # 0 /\ viewing.uid = 0
    BY <1>0, Quiet DEF SessionInv, JobsOfPane
<1>3. /\ uidNext \in Uid \ Saved /\ Saved' = Saved \cup {uidNext}
      /\ drafts'[uidNext] = [doc |-> pane.doc, text |-> jobs[j].text]
      /\ \A u \in Saved : drafts'[u] = drafts[u]
    BY <1>0, <1>2, Addition DEF Append, SessionInv
<1>4. pane' = pane /\ viewing' = viewing /\ crossed' = crossed
    BY DEF Append
<1>5. /\ \A d : d # pane.doc => CopiesOf(d)' = CopiesOf(d)
      /\ CopiesOf(pane.doc)' = CopiesOf(pane.doc) \cup {uidNext}
    BY <1>3, <1>4 DEF CopiesOf
<1>6. Others' /\ Viewed' /\ NoneFailed'
    BY <1>1, <1>2, <1>4, <1>5 DEF Copies, Others, Single, Viewed, NoneFailed
<1>7. CASE ~ Crossed
    <2>1. \A k \in Saves : k = j
        BY <1>0, <1>7 DEF OrderInv, SavesInOrder
    <2>2. (\A k \in Saves' : k = j) /\ j \in Saves'
        BY <1>1, <2>1, SavesAre DEF Saving
    <2>3. CopiesOf(pane.doc) \subseteq {jobs[j].prev}
        BY <1>0, <1>7 DEF Copies, Known
    <2>4. jobs[j].prev = 0 => CopiesOf(pane.doc) = {}
        <3>1. 0 \notin Uid
            BY DraftSessionAssumption DEF Uid
        <3> QED BY <2>3, <3>1 DEF CopiesOf, Saved
    <2>5. Referred'
        BY <2>2 DEF Referred
    <2>6. Known'
        BY <1>1, <1>4, <1>5, <2>2, <2>3, <2>4 DEF Known
    <2> QED BY <1>6, <2>5, <2>6 DEF Copies
<1> QED BY <1>4, <1>6, <1>7 DEF Copies, Crossed

LEMMA PurgeCopies ==
    ASSUME SessionInv, OrderInv, UidPlus, Copies, NEW j \in Jobs, Purge(j)
    PROVE  Copies'
<1>0. TypeOK /\ ~ Free(j) /\ jobs[j].pc = "purge" /\ j \in Saves
    BY SavesAre DEF SessionInv, Purge, Free, Saving
<1>1. /\ \A k \in Jobs \ {j} : jobs'[k] = jobs[k]
      /\ jobs'[j].pc = "saved" /\ jobs'[j].uid = jobs[j].uid
    BY <1>0, ReachOne DEF Purge
<1>2. /\ Saved' = Saved \ {jobs[j].prev} /\ \A u \in Saved' : drafts'[u] = drafts[u]
      /\ pane' = pane /\ viewing' = viewing /\ crossed' = crossed
    BY <1>0, Purged DEF Purge
<1>3. \A d : CopiesOf(d)' = CopiesOf(d) \ {jobs[j].prev}
    BY <1>2 DEF CopiesOf
<1>4. Others' /\ Viewed' /\ NoneFailed'
    BY <1>0, <1>1, <1>2, <1>3, Quiet DEF Copies, Others, Single, Viewed, NoneFailed
<1>5. CASE ~ Crossed
    <2>1. \A k \in Saves : k = j
        BY <1>0, <1>5 DEF OrderInv, SavesInOrder
    <2>2. (\A k \in Saves' : k = j) /\ j \in Saves'
        BY <1>1, <2>1, SavesAre DEF Saving
    <2>3. CopiesOf(pane.doc) \subseteq {jobs[j].prev, jobs[j].uid}
        BY <1>0, <1>5 DEF Copies, Known
    <2>4. Referred'
        BY <2>2 DEF Referred
    <2>5. Known'
        BY <1>1, <1>2, <1>3, <2>2, <2>3 DEF Known
    <2> QED BY <1>4, <2>4, <2>5 DEF Copies
<1> QED BY <1>2, <1>4, <1>5 DEF Copies, Crossed

LEMMA ResultCopies ==
    ASSUME SessionInv, OrderInv, Copies, NEW j \in Jobs, handleDraftSaveResult(j)
    PROVE  Copies'
<1>0. TypeOK /\ ~ Free(j) /\ jobs[j].pc = "saved" /\ j \in Saves
    BY SavesAre DEF SessionInv, handleDraftSaveResult, Free, Saving, Copies, NoneFailed
<1>1. (\A k \in Jobs \ {j} : jobs'[k] = jobs[k]) /\ jobs'[j].pc = "none"
    BY <1>0, DoneOne DEF handleDraftSaveResult
<1>2. \A d : CopiesOf(d)' = CopiesOf(d) /\ (Single(d)' <=> Single(d))
    BY CopiesAre DEF Single, handleDraftSaveResult
<1>3. /\ pane'.doc = pane.doc /\ pane'.open = pane.open
      /\ viewing' = viewing /\ crossed' = crossed
    BY <1>0 DEF handleDraftSaveResult, TypeOK, Pane
<1>4. Others' /\ Viewed' /\ NoneFailed'
    BY <1>0, <1>1, <1>2, <1>3, Quiet DEF Copies, Others, Viewed, NoneFailed
<1>5. CASE ~ Crossed
    <2>1. /\ \A k \in Saves : k = j
          /\ pane.open => jobs[j].gen = pane.gen
        BY <1>0, <1>5 DEF OrderInv, SavesInOrder
    <2>2. Saves' = {}
        BY <1>1, <2>1, SavesAre DEF Saving
    <2>3. pane'.open => pane'.ref = jobs[j].uid
        BY <1>0, <1>3, <2>1 DEF handleDraftSaveResult, TypeOK, Pane
    <2>4. CopiesOf(pane.doc) \subseteq {jobs[j].uid}
        BY <1>0, <1>5 DEF Copies, Known
    <2>5. Referred' /\ Known'
        BY <1>2, <1>3, <2>2, <2>3, <2>4 DEF Referred, Known, Single
    <2> QED BY <1>4, <2>5 DEF Copies
<1> QED BY <1>3, <1>4, <1>5 DEF Copies, Crossed

LEMMA DiscardCopies ==
    ASSUME SessionInv, UidPlus, Copies, NEW j \in Jobs, Discard(j)
    PROVE  Copies'
<1>0. TypeOK /\ ~ Free(j) /\ jobs[j].pc = "discard"
    BY DEF SessionInv, Discard, Free
<1>1. (\A k \in Jobs \ {j} : jobs'[k] = jobs[k]) /\ jobs'[j].pc = "none"
    BY <1>0, DoneOne DEF Discard
<1>2. /\ Saved' = Saved \ {jobs[j].prev} /\ \A u \in Saved' : drafts'[u] = drafts[u]
      /\ pane' = pane /\ viewing' = viewing /\ crossed' = crossed
    BY <1>0, Purged DEF Discard
<1>3. \A d : CopiesOf(d)' \subseteq CopiesOf(d)
    BY <1>2, CopiesAre
<1>4. Saves' = Saves
    BY <1>0, <1>1, SavesAre DEF Saving
<1>5. Viewed' /\ NoneFailed'
    BY <1>0, <1>1, <1>2, Quiet DEF Viewed, NoneFailed, Copies
<1> QED BY <1>0, <1>1, <1>2, <1>3, <1>4, <1>5, SameCopies, SavesAre DEF Saving

\* A message is sent, or its send ends.
LEMMA SendCopies ==
    ASSUME SessionInv, Copies, NEW j \in Jobs,
           sendCompose(j) \/ Send(j) \/ Sent(j) \/ Unsent(j)
    PROVE  Copies'
<1>0. TypeOK /\ pane \in Pane
    BY DEF SessionInv, TypeOK
<1>1. /\ \A k \in Jobs \ {j} : jobs'[k] = jobs[k]
      /\ jobs[j].pc \notin Saving /\ jobs'[j].pc \notin Saving
    <2>1. CASE sendCompose(j)
        BY <1>0, <2>1, SendOne DEF Free, Saving
    <2>2. CASE Send(j)
        BY <1>0, <2>2, ReachOne DEF Send, Saving
    <2>3. CASE Sent(j)
        BY <1>0, <2>3, SentOne DEF Saving
    <2>4. CASE Unsent(j)
        BY <1>0, <2>4, DoneOne DEF Unsent, Saving
    <2> QED BY <2>1, <2>2, <2>3, <2>4
<1>2. /\ UNCHANGED folder /\ viewing' = viewing /\ crossed' = crossed
      /\ pane'.doc = pane.doc /\ (pane'.open => pane' = pane)
    BY <1>0, SentOne DEF sendCompose, Send, Sent, Unsent
<1>3. Saves' = Saves
    BY <1>1, SavesAre
<1>4. \A d : CopiesOf(d)' = CopiesOf(d)
    BY <1>2, CopiesAre
<1>5. Viewed' /\ NoneFailed'
    BY <1>1, <1>2, <1>4 DEF Copies, Viewed, NoneFailed, Saving
<1> QED BY <1>1, <1>2, <1>3, <1>4, <1>5, SameCopies, SavesAre

LEMMA FolderInvStep ==
    ASSUME SessionInv, OrderInv, FolderInv, Patient, UidPlus, [Next]_vars
    PROVE  FolderInv'
<1>0. TypeOK /\ pane \in Pane
    BY DEF SessionInv, TypeOK
<1>1. CASE Failure
    <2>1. fails' # 0
        BY <1>1, Bounds DEF Failure, SessionInv, TypeOK
    <2> QED BY <2>1 DEF FolderInv
<1>2. ASSUME Copies => Copies', fails' = fails
      PROVE  FolderInv'
    BY <1>2 DEF FolderInv
<1>3. ASSUME Copies, NewMessage
      PROVE  Copies'
    <2>1. /\ ~ Busy /\ viewing' = NoView /\ pane'.doc = pane.gen + 1
          /\ UNCHANGED <<jobs, crossed>> /\ UNCHANGED folder
        BY <1>3 DEF NewMessage, enterCompose, Patient
    <2>2. \A u \in Saved : drafts[u].doc # pane'.doc
        <3>1. pane.gen \in Nat /\ \A u \in Saved : drafts[u].doc \in Nat
            BY <1>0, PaneTyped, Bounds DEF TypeOK, Saved
        <3> QED BY <2>1, <3>1 DEF OrderInv, Begun
    <2>3. CopiesOf(pane'.doc) \subseteq {pane'.ref}
        BY <2>2 DEF CopiesOf
    <2> QED BY <1>3, <2>1, <2>3, EnterCopies
<1>4. ASSUME Copies, startEditDraft
      PROVE  Copies'
    <2>1. /\ ~ Busy /\ viewing' = NoView /\ viewing.uid # 0
          /\ pane'.doc = viewing.doc /\ pane'.ref = viewing.uid
          /\ UNCHANGED <<jobs, crossed>> /\ UNCHANGED folder
        BY <1>4 DEF startEditDraft, enterCompose, Patient
    <2>2. viewing.uid \in CopiesOf(viewing.doc)
        BY <1>4, <2>1 DEF Copies, Viewed
    <2>3. Saves = {}
        BY <2>1 DEF Saves, Busy, Free
    <2>4. viewing.doc \notin crossed => Single(viewing.doc)
        BY <1>4, <2>3 DEF Copies, Others, Referred, Crossed
    <2>5. viewing.doc \notin crossed => CopiesOf(pane'.doc) \subseteq {pane'.ref}
        BY <2>1, <2>2, <2>4 DEF Single
    <2> QED BY <1>4, <2>1, <2>5, EnterCopies
<1>5. ASSUME Copies, pane'.doc = pane.doc, pane'.open => pane.open /\ pane'.ref = pane.ref,
             UNCHANGED <<jobs, viewing>>, crossed \subseteq crossed', UNCHANGED folder
      PROVE  Copies'
    <2>1. Saves' = Saves /\ \A d : CopiesOf(d)' = CopiesOf(d)
        BY <1>5, CopiesAre DEF Saves
    <2>2. Viewed' /\ NoneFailed'
        BY <1>5, <2>1 DEF Copies, Viewed, NoneFailed
    <2> QED BY <1>5, <2>1, <2>2, SameCopies
<1>6. ASSUME Copies, NEW u \in Uid, ViewDraft(u)
      PROVE  Copies'
    <2>1. /\ u \in Saved /\ viewing'.uid = u /\ viewing'.doc = drafts[u].doc
          /\ UNCHANGED <<pane, jobs, crossed>> /\ UNCHANGED folder
        BY <1>6 DEF ViewDraft
    <2>2. Saves' = Saves /\ \A d : CopiesOf(d)' = CopiesOf(d)
        BY <2>1, CopiesAre DEF Saves
    <2>3. Viewed' /\ NoneFailed'
        BY <1>6, <2>1, <2>2 DEF Copies, Viewed, NoneFailed, CopiesOf
    <2> QED BY <1>6, <2>1, <2>2, <2>3, SameCopies
<1>7. ASSUME Copies, Type
      PROVE  Copies'
    BY <1>0, <1>5, <1>7 DEF Type, Pane
<1>8. ASSUME Copies, NEW j \in Jobs, handleDraftAutosaveTick(j) \/ saveDraftNow(j)
      PROVE  Copies'
    <2>1. /\ pane.open /\ ~ pane.saving /\ Save(j) /\ pane'.doc = pane.doc
          /\ UNCHANGED <<viewing, crossed>> /\ UNCHANGED folder
        BY <1>0, <1>8 DEF handleDraftAutosaveTick, saveDraftNow, Pane
    <2>2. pane.doc \notin crossed => Saves = {}
        BY <2>1 DEF OrderInv, SavesInOrder, Crossed
    <2> QED BY <1>0, <1>8, <2>1, <2>2, BeginCopies
<1>9. ASSUME Copies, NEW j \in Jobs, cancelCompose(j)
      PROVE  Copies'
    <2>1. /\ pane.open /\ ~ pane'.open /\ pane'.doc = pane.doc /\ crossed \subseteq crossed'
          /\ viewing' = viewing /\ UNCHANGED folder
          /\ Saves # {} => pane.doc \in crossed'
        BY <1>0, <1>9 DEF cancelCompose, Pane
    <2>2. CASE Save(j)
        BY <1>0, <1>9, <2>1, <2>2, BeginCopies
    <2>3. CASE jobs' = jobs
        BY <1>5, <1>9, <2>1, <2>3
    <2> QED BY <1>9, <2>2, <2>3 DEF cancelCompose
<1>10. ASSUME Copies, NEW j \in Jobs, sendCompose(j) \/ Command(j)
       PROVE  Copies'
    BY <1>10, AppendCopies, PurgeCopies, ResultCopies, SendCopies, DiscardCopies DEF Command
<1>11. CASE UNCHANGED vars
    BY <1>2, <1>5, <1>11 DEF vars
<1> QED
    BY <1>1, <1>2, <1>3, <1>4, <1>6, <1>7, <1>8, <1>9, <1>10, <1>11
       DEF Next, Command, NewMessage, startEditDraft, ViewDraft, Type, handleDraftAutosaveTick,
           saveDraftNow, cancelCompose, sendCompose, Append, Purge, handleDraftSaveResult, Send,
           Sent, Unsent, Discard, AppendFail, AppendLost, PurgeFail, SendFail, SendLost,
           DiscardFail, Quit

CopyInv == SessionInv /\ OrderInv /\ FolderInv

LEMMA CopyInit ==
    ASSUME Init
    PROVE  CopyInv
<1>1. /\ pane.open = FALSE /\ pane.doc = 0 /\ pane.gen = 0 /\ viewing = NoView
      /\ Saved = {} /\ sent = {} /\ \A j \in Jobs : jobs[j].pc = "none"
    BY DEF Init, Saved, NoJob
<1>2. Saves = {}
    BY <1>1 DEF Saves
<1>3. OrderInv
    BY <1>1, <1>2 DEF OrderInv, SavesInOrder, Begun, NoView
<1>4. \A d : CopiesOf(d) = {}
    BY <1>1 DEF CopiesOf
<1>5. FolderInv
    BY <1>1, <1>2, <1>4
       DEF FolderInv, Copies, Others, Single, Referred, Known, Viewed, NoneFailed, NoView
<1> QED BY <1>3, <1>5, InvInit DEF CopyInv

LEMMA CopyStep ==
    ASSUME CopyInv, Patient, UidPlus, [Next]_vars
    PROVE  CopyInv'
<1>1. SessionInv'
    BY InvStep DEF CopyInv
<1>2. OrderInv'
    BY OrderStep, BegunStep DEF CopyInv, OrderInv, Crossed
<1>3. FolderInv'
    BY FolderInvStep DEF CopyInv
<1> QED BY <1>1, <1>2, <1>3 DEF CopyInv

\* However often a message is saved, closed and resumed, by a user who opens
\* nothing while a command is in flight, one copy of it is in the folder when
\* nothing is under way and nothing failed, unless its pane was closed during
\* a save; the server supports UIDPLUS.
THEOREM OneCopyRemains == Patient /\ UidPlus /\ Spec => []OneCopy
<1>1. CopyInv => OneCopy
    <2> SUFFICES ASSUME CopyInv, Rest, fails = 0, NEW d \in Doc \ crossed
                 PROVE  Cardinality(CopiesOf(d)) <= 1
        BY DEF OneCopy
    <2>1. Saves = {}
        BY DEF Rest, Busy, Free, Saves
    <2>2. Single(d)
        BY <2>1 DEF CopyInv, FolderInv, Copies, Others, Referred, Crossed
    <2>3. CASE CopiesOf(d) = {}
        BY <2>3, FS_EmptySet
    <2>4. ASSUME NEW u \in CopiesOf(d)
          PROVE  Cardinality(CopiesOf(d)) <= 1
        <3>1. CopiesOf(d) = {u}
            BY <2>2 DEF Single
        <3> QED BY <3>1, FS_Singleton
    <2> QED BY <2>3, <2>4
<1>2. CASE Patient /\ UidPlus
    <2>1. CopyInv /\ [Next]_vars => CopyInv'
        BY <1>2, CopyStep
    <2>2. Init => CopyInv
        BY CopyInit
    <2> QED BY <1>1, <2>1, <2>2, PTL DEF Spec
<1> QED BY <1>2
=============================================================================
