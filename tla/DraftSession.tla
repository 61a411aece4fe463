---------------------------- MODULE DraftSession ----------------------------
(***************************************************************************)
(* Writing a message in the TUI: the compose pane (internal/tui/draft.go,  *)
(* compose.go and the cases of App.Update that concern it), the commands   *)
(* it starts (saves, sends, discards; each a goroutine that answers with a *)
(* message), SaveDraft and DiscardDraft of internal/core/compose, and the  *)
(* account's Drafts folder on the server.                                  *)
(*                                                                         *)
(* A document is what the user writes, under the pane that began it and    *)
(* any later one that resumed a saved copy of it.  Its content is a        *)
(* version: each edit makes a new one.  The folder is not renumbered and   *)
(* one account is modelled.                                                *)
(***************************************************************************)
EXTENDS Naturals, FiniteSets

CONSTANTS
    Jobs,       \* goroutines: the commands that may be in flight at once
    MaxGen,     \* bound: compose panes opened, and so documents
    MaxText,    \* bound: versions of one document
    MaxUid,     \* bound: copies appended to the Drafts folder
    MaxActs,    \* bound: the UIDNEXT up to which the user types or presses ctrl+o
    MaxFail,    \* bound: failures of the network or of the process
    UidPlus,    \* does the server support UIDPLUS
    Meanwhile   \* what the user may do while a command is in flight:
                \*   "close": the pane is closed with esc
                \*   "send":  the message is sent with ctrl+s
                \*   "open":  a draft is viewed or another pane opened
                \*   "save":  ctrl+o is pressed while the message is being sent

ASSUME DraftSessionAssumption ==
    /\ MaxGen \in Nat /\ MaxText \in Nat /\ MaxUid \in Nat
    /\ MaxActs \in Nat /\ MaxFail \in Nat
    /\ UidPlus \in BOOLEAN
    /\ Meanwhile \subseteq {"close", "send", "open", "save"}

Doc == 0 .. MaxGen     \* 0: none
Text == 0 .. MaxText    \* 0: as the pane opened (a template, a signature)
Uid == 1 .. MaxUid      \* in the Drafts folder; 0: none

VARIABLES
    pane,      \* the compose fields of the App model
    viewing,   \* the draft shown in the viewer, NoView if none is
    jobs,      \* jobs[j]: the command goroutine j executes
    drafts,    \* drafts[u]: the copy with UID u in the Drafts folder
    uidNext,   \* the UID the next copy gets
    newest,    \* newest[d]: the latest version of document d typed
    sent,      \* documents that were delivered
    crossed,   \* history: documents closed while a save of theirs was in flight
    fails      \* failures so far

folder == <<drafts, uidNext>>
vars == <<pane, viewing, jobs, folder, newest, sent, crossed, fails>>

\* draftInitial, draftLastSaved and the widgets hold versions; the document
\* is not in the code.
Pane == [open : BOOLEAN, gen : 0 .. MaxGen, doc : Doc, text : Text,
         initial : Text, ref : 0 .. MaxUid, lastSaved : Text, saving : BOOLEAN]

View == [uid : 0 .. MaxUid, doc : Doc, text : Text]
NoView == [uid |-> 0, doc |-> 0, text |-> 0]

\* A save is to append, to purge the previous copy, then saved or failed; a
\* message to send is sent or unsent; a copy to discard is gone.
Job == [pc : {"none", "append", "purge", "saved", "failed",
              "send", "sent", "unsent", "discard"},
        gen : 0 .. MaxGen, doc : Doc, text : Text,
        prev : 0 .. MaxUid, uid : 0 .. MaxUid]
NoJob == [pc |-> "none", gen |-> 0, doc |-> 0, text |-> 0, prev |-> 0, uid |-> 0]

NoCopy == [doc |-> 0, text |-> 0]
Saved == {u \in Uid : drafts[u] # NoCopy}
CopiesOf(d) == {u \in Saved : drafts[u].doc = d}

Init ==
    /\ pane = [open |-> FALSE, gen |-> 0, doc |-> 0, text |-> 0, initial |-> 0,
               ref |-> 0, lastSaved |-> 0, saving |-> FALSE]
    /\ viewing = NoView
    /\ jobs = [j \in Jobs |-> NoJob]
    /\ drafts = [u \in Uid |-> NoCopy] /\ uidNext = 1
    /\ newest = [d \in Doc |-> 0]
    /\ sent = {} /\ crossed = {}
    /\ fails = 0

Free(j) == jobs[j].pc = "none"
Busy == \E j \in Jobs : ~ Free(j)
Sending == \E j \in Jobs : jobs[j].pc \in {"send", "sent", "unsent"}

-----------------------------------------------------------------------------
(* The pane. *)

\* Fault: the reference of the pane before is left in place.
enterComposeKeepsRef(doc, text, ref) ==
    /\ ~ pane.open /\ pane.gen < MaxGen
    /\ Busy => "open" \in Meanwhile
    /\ pane' = [open |-> TRUE, gen |-> pane.gen + 1, doc |-> doc, text |-> text,
                initial |-> text, ref |-> IF ref # 0 THEN ref ELSE pane.ref,
                lastSaved |-> text, saving |-> FALSE]
    /\ viewing' = NoView

enterCompose(doc, text, ref) ==
    /\ ~ pane.open /\ pane.gen < MaxGen
    /\ Busy => "open" \in Meanwhile
    /\ pane' = [open |-> TRUE, gen |-> pane.gen + 1, doc |-> doc, text |-> text,
                initial |-> text, ref |-> ref, lastSaved |-> text, saving |-> FALSE]
    /\ viewing' = NoView

\* A new message, a reply or a forward.
NewMessage ==
    /\ enterCompose(pane.gen + 1, 0, 0)
    /\ UNCHANGED <<jobs, folder, newest, sent, crossed, fails>>

\* A draft is opened in the viewer, which keeps it as it was then.  (Loading
\* its body is one step with showing it.)
ViewDraft(u) ==
    /\ ~ pane.open /\ u \in Saved
    /\ Busy => "open" \in Meanwhile
    /\ viewing' = [uid |-> u, doc |-> drafts[u].doc, text |-> drafts[u].text]
    /\ UNCHANGED <<pane, jobs, folder, newest, sent, crossed, fails>>

startEditDraft ==
    /\ viewing.uid # 0
    /\ enterCompose(viewing.doc, viewing.text, viewing.uid)
    /\ UNCHANGED <<jobs, folder, newest, sent, crossed, fails>>

Type ==
    /\ pane.open /\ newest[pane.doc] < MaxText /\ uidNext <= MaxActs
    /\ newest' = [newest EXCEPT ![pane.doc] = @ + 1]
    /\ pane' = [pane EXCEPT !.text = newest[pane.doc] + 1]
    /\ UNCHANGED <<viewing, jobs, folder, sent, crossed, fails>>

draftBaseline == IF pane.ref # 0 THEN pane.lastSaved ELSE pane.initial
Dirty == pane.text # draftBaseline

\* Goroutines that save the draft.
Saves == {j \in Jobs : jobs[j].pc \in {"append", "purge", "saved", "failed"}}

\* saveDraftCmd: goroutine j captures the draft, the generation and the
\* reference of the copy to replace.
Save(j) ==
    /\ Free(j)
    /\ jobs' = [jobs EXCEPT ![j] = [pc |-> "append", gen |-> pane.gen, doc |-> pane.doc,
                                    text |-> pane.text, prev |-> pane.ref, uid |-> 0]]

\* The tick comes whatever the user waits for.
handleDraftAutosaveTick(j) ==
    /\ pane.open /\ ~ pane.saving /\ Dirty
    /\ Save(j)
    /\ pane' = [pane EXCEPT !.saving = TRUE]
    /\ UNCHANGED <<viewing, folder, newest, sent, crossed, fails>>

saveDraftNow(j) ==
    /\ pane.open /\ ~ pane.saving /\ uidNext <= MaxActs
    /\ Sending => "save" \in Meanwhile
    /\ Save(j)
    /\ pane' = [pane EXCEPT !.saving = TRUE]
    /\ UNCHANGED <<viewing, folder, newest, sent, crossed, fails>>

cancelCompose(j) ==
    /\ pane.open
    /\ Busy => "close" \in Meanwhile
    /\ pane' = [pane EXCEPT !.open = FALSE]
    /\ IF Dirty THEN Save(j) ELSE UNCHANGED jobs
    /\ crossed' = IF Saves = {} THEN crossed ELSE crossed \cup {pane.doc}
    /\ UNCHANGED <<viewing, folder, newest, sent, fails>>

sendCompose(j) ==
    /\ pane.open /\ Free(j)
    /\ Busy => "send" \in Meanwhile
    /\ jobs' = [jobs EXCEPT ![j] = [NoJob EXCEPT !.pc = "send", !.doc = pane.doc,
                                                 !.text = pane.text]]
    /\ UNCHANGED <<pane, viewing, folder, newest, sent, crossed, fails>>

-----------------------------------------------------------------------------
(* The commands, and App.Update on their results. *)

\* The command of goroutine j goes on, is answered, or fails.
Reach(j, pc) == jobs' = [jobs EXCEPT ![j].pc = pc]
Done(j) == jobs' = [jobs EXCEPT ![j] = NoJob]
Failure == fails < MaxFail /\ fails' = fails + 1

AfterAppend(j) == IF jobs[j].prev # 0 THEN "purge" ELSE "saved"

\* Fault: the UID reported is the one after.
AppendOffByOne(j) ==
    /\ jobs[j].pc = "append" /\ uidNext <= MaxUid
    /\ drafts' = [drafts EXCEPT ![uidNext] = [doc |-> jobs[j].doc, text |-> jobs[j].text]]
    /\ uidNext' = uidNext + 1
    /\ jobs' = [jobs EXCEPT ![j].pc = AfterAppend(j), ![j].uid = IF UidPlus THEN uidNext' ELSE 0]
    /\ UNCHANGED <<pane, viewing, newest, sent, crossed, fails>>

\* APPEND, which reports the new UID under UIDPLUS only.
Append(j) ==
    /\ jobs[j].pc = "append" /\ uidNext <= MaxUid
    /\ drafts' = [drafts EXCEPT ![uidNext] = [doc |-> jobs[j].doc, text |-> jobs[j].text]]
    /\ uidNext' = uidNext + 1
    /\ jobs' = [jobs EXCEPT ![j].pc = AfterAppend(j), ![j].uid = IF UidPlus THEN uidNext ELSE 0]
    /\ UNCHANGED <<pane, viewing, newest, sent, crossed, fails>>

\* Fault: the previous copy is purged although no new one was made.
AppendFailGoesOn(j) ==
    /\ jobs[j].pc = "append"
    /\ Failure /\ Reach(j, AfterAppend(j))
    /\ UNCHANGED <<pane, viewing, folder, newest, sent, crossed>>

AppendFail(j) ==
    /\ jobs[j].pc = "append"
    /\ Failure /\ Reach(j, "failed")
    /\ UNCHANGED <<pane, viewing, folder, newest, sent, crossed>>

\* The server appended the copy, and its answer is lost.
AppendLost(j) ==
    /\ jobs[j].pc = "append" /\ uidNext <= MaxUid
    /\ drafts' = [drafts EXCEPT ![uidNext] = [doc |-> jobs[j].doc, text |-> jobs[j].text]]
    /\ uidNext' = uidNext + 1
    /\ Failure /\ Reach(j, "failed")
    /\ UNCHANGED <<pane, viewing, newest, sent, crossed>>

\* Purge: without UIDPLUS nothing is deleted, and the error only logged.
Purge(j) ==
    /\ jobs[j].pc = "purge"
    /\ drafts' = IF UidPlus THEN [drafts EXCEPT ![jobs[j].prev] = NoCopy] ELSE drafts
    /\ Reach(j, "saved")
    /\ UNCHANGED <<pane, viewing, uidNext, newest, sent, crossed, fails>>

PurgeFail(j) ==
    /\ jobs[j].pc = "purge"
    /\ Failure /\ Reach(j, "saved")
    /\ UNCHANGED <<pane, viewing, folder, newest, sent, crossed>>

\* Fault: the result says what is on the screen now was saved.
SaveResultOfScreen(j) ==
    /\ jobs[j].pc \in {"saved", "failed"}
    /\ pane' = IF jobs[j].gen # pane.gen THEN pane
               ELSE IF jobs[j].pc = "failed" THEN [pane EXCEPT !.saving = FALSE]
               ELSE [pane EXCEPT !.saving = FALSE, !.ref = jobs[j].uid, !.lastSaved = pane.text]
    /\ Done(j)
    /\ UNCHANGED <<viewing, folder, newest, sent, crossed, fails>>

\* Fault: the reference of the copy is not taken over.
SaveResultNoRef(j) ==
    /\ jobs[j].pc \in {"saved", "failed"}
    /\ pane' = IF jobs[j].gen # pane.gen THEN pane ELSE [pane EXCEPT !.saving = FALSE]
    /\ Done(j)
    /\ UNCHANGED <<viewing, folder, newest, sent, crossed, fails>>

\* Fault: a save that failed leaves the pane saving.
SaveResultStuck(j) ==
    /\ jobs[j].pc \in {"saved", "failed"}
    /\ pane' = IF jobs[j].gen # pane.gen \/ jobs[j].pc = "failed" THEN pane
               ELSE [pane EXCEPT !.saving = FALSE, !.ref = jobs[j].uid,
                                 !.lastSaved = jobs[j].text]
    /\ Done(j)
    /\ UNCHANGED <<viewing, folder, newest, sent, crossed, fails>>

handleDraftSaveResult(j) ==
    /\ jobs[j].pc \in {"saved", "failed"}
    /\ pane' = IF jobs[j].gen # pane.gen THEN pane
               ELSE IF jobs[j].pc = "failed" THEN [pane EXCEPT !.saving = FALSE]
               ELSE [pane EXCEPT !.saving = FALSE, !.ref = jobs[j].uid,
                                 !.lastSaved = jobs[j].text]
    /\ Done(j)
    /\ UNCHANGED <<viewing, folder, newest, sent, crossed, fails>>

Send(j) ==
    /\ jobs[j].pc = "send"
    /\ sent' = sent \cup {jobs[j].doc}
    /\ Reach(j, "sent")
    /\ UNCHANGED <<pane, viewing, folder, newest, crossed, fails>>

SendFail(j) ==
    /\ jobs[j].pc = "send"
    /\ Failure /\ Reach(j, "unsent")
    /\ UNCHANGED <<pane, viewing, folder, newest, sent, crossed>>

\* The message was delivered, and the server's answer is lost.
SendLost(j) ==
    /\ jobs[j].pc = "send"
    /\ sent' = sent \cup {jobs[j].doc}
    /\ Failure /\ Reach(j, "unsent")
    /\ UNCHANGED <<pane, viewing, folder, newest, crossed>>

\* The pane is closed, and the copy it refers to discarded, whichever pane it
\* is by now: the result does not say which one was sent.
Sent(j) ==
    /\ jobs[j].pc = "sent"
    /\ pane' = [pane EXCEPT !.open = FALSE, !.ref = 0]
    /\ IF pane.ref # 0
       THEN jobs' = [jobs EXCEPT ![j] = [NoJob EXCEPT !.pc = "discard", !.prev = pane.ref]]
       ELSE Done(j)
    /\ UNCHANGED <<viewing, folder, newest, sent, crossed, fails>>

Unsent(j) ==
    /\ jobs[j].pc = "unsent"
    /\ Done(j)
    /\ UNCHANGED <<pane, viewing, folder, newest, sent, crossed, fails>>

Discard(j) ==
    /\ jobs[j].pc = "discard"
    /\ drafts' = IF UidPlus THEN [drafts EXCEPT ![jobs[j].prev] = NoCopy] ELSE drafts
    /\ Done(j)
    /\ UNCHANGED <<pane, viewing, uidNext, newest, sent, crossed, fails>>

DiscardFail(j) ==
    /\ jobs[j].pc = "discard"
    /\ Failure /\ Done(j)
    /\ UNCHANGED <<pane, viewing, folder, newest, sent, crossed>>

\* The process ends, its goroutines with it, and is started again.  (gen then
\* starts at 0; no result of an earlier one is left to confuse it with.)
Quit ==
    /\ Failure
    /\ pane' = [pane EXCEPT !.open = FALSE, !.ref = 0, !.saving = FALSE]
    /\ viewing' = NoView
    /\ jobs' = [j \in Jobs |-> NoJob]
    /\ UNCHANGED <<folder, newest, sent, crossed>>

Command(j) ==
    \/ Append(j) \/ Purge(j) \/ handleDraftSaveResult(j)
    \/ Send(j) \/ Sent(j) \/ Unsent(j) \/ Discard(j)

Next ==
    \/ NewMessage \/ startEditDraft \/ Type
    \/ \E u \in Uid : ViewDraft(u)
    \/ \E j \in Jobs :
         \/ handleDraftAutosaveTick(j) \/ saveDraftNow(j) \/ cancelCompose(j) \/ sendCompose(j)
         \/ Command(j)
         \/ AppendFail(j) \/ AppendLost(j) \/ PurgeFail(j) \/ SendFail(j) \/ SendLost(j)
         \/ DiscardFail(j)
    \/ Quit

Spec == Init /\ [][Next]_vars

\* Commands end, and the autosave tick comes again and again while the pane
\* that scheduled it is open.
FairSpec ==
    /\ Spec
    /\ \A j \in Jobs : WF_vars(Command(j))
    /\ WF_vars(\E j \in Jobs : handleDraftAutosaveTick(j))

-----------------------------------------------------------------------------
(* Properties. *)

TypeOK ==
    /\ pane \in Pane
    /\ viewing \in View
    /\ jobs \in [Jobs -> Job]
    /\ drafts \in [Uid -> [doc : Doc, text : Text]]
    /\ uidNext \in 1 .. MaxUid + 1
    /\ newest \in [Doc -> Text]
    /\ sent \subseteq Doc
    /\ crossed \subseteq Doc
    /\ fails \in 0 .. MaxFail

Rest == ~ pane.open /\ ~ Busy

\* However often a document was saved and resumed, and whatever was sent
\* meanwhile, one copy of it remains when nothing is under way and nothing
\* failed, unless its pane was closed while a save of it was in flight
\* (drafts.go: each save purges the copy before).
OneCopy ==
    Rest /\ fails = 0 => \A d \in Doc \ crossed : Cardinality(CopiesOf(d)) <= 1

\* The same of every document: the saves of a draft replace it instead of
\* piling up (drafts.go: SaveDraft).
NoDuplicates ==
    Rest /\ fails = 0 => \A d \in Doc : Cardinality(CopiesOf(d)) <= 1

\* No copy of a message that was sent remains when nothing is under way and
\* nothing failed (app.go: sendResultMsg).
NothingLingers == Rest /\ fails = 0 => \A d \in sent : CopiesOf(d) = {}

\* The last thing typed in a document that was not sent is in the Drafts
\* folder when nothing is under way and nothing failed (compose.go:
\* cancelCompose).
WorkKept ==
    Rest /\ fails = 0 => \A d \in Doc \ sent :
              newest[d] # 0 => \E u \in CopiesOf(d) : drafts[u].text = newest[d]

\* Only copies of documents that were sent are discarded (app.go:
\* sendResultMsg).
DiscardsSentOnly ==
    \A j \in Jobs : jobs[j].pc = "discard" /\ jobs[j].prev \in Saved
                    => drafts[jobs[j].prev].doc \in sent

\* Of a document not sent, a copy leaves the folder only when a copy at least
\* as recent is there: no failure between the steps of a save loses what was
\* saved before (drafts.go: APPEND first).
NewestKept ==
    [][\A u \in Saved \ Saved' :
         \/ drafts[u].doc \in sent
         \/ \E v \in Saved' : /\ drafts'[v].doc = drafts[u].doc
                              /\ drafts'[v].text >= drafts[u].text]_vars

(***************************************************************************)
(* The invariant behind DiscardsSentOnly and NewestKept, for users who     *)
(* open nothing while a command is in flight.                              *)
(***************************************************************************)

\* An open pane and a draft viewed have a document, and are no later than it.
PaneKnown ==
    /\ pane.open => pane.doc # 0 /\ viewing = NoView
    /\ pane.text <= newest[pane.doc]
    /\ viewing.uid # 0 => viewing.doc # 0 /\ viewing.text <= newest[viewing.doc]

\* What is under way belongs to the session of the pane.
JobsOfPane ==
    \A j \in Jobs : ~ Free(j) =>
        /\ viewing = NoView
        /\ jobs[j].pc # "discard" => jobs[j].doc = pane.doc /\ pane.doc # 0
        /\ jobs[j].pc \in {"append", "purge", "saved", "failed"} => jobs[j].text <= pane.text
        /\ jobs[j].pc = "sent" => pane.doc \in sent

\* u is no UID to come, and its copy, if it still exists, is of document d
\* and no later than version t.
Within(u, d, t) ==
    /\ u < uidNext
    /\ u \in Saved => drafts[u].doc = d /\ drafts[u].text <= t

\* The copies are of documents, and the references to them name a copy that
\* what replaces it is at least as recent as.
References ==
    /\ \A u \in Saved : /\ u < uidNext /\ drafts[u].doc # 0
                        /\ drafts[u].text <= newest[drafts[u].doc]
    /\ Within(pane.ref, pane.doc, pane.text)
    /\ Within(viewing.uid, viewing.doc, viewing.text)
    /\ \A j \in Jobs :
         /\ jobs[j].pc \in {"append", "purge", "saved", "failed"}
              => Within(jobs[j].prev, jobs[j].doc, jobs[j].text)
         /\ jobs[j].prev < uidNext

\* The copy a save just made is there, and only that save knows of it.
Appended(j) == jobs[j].pc \in {"purge", "saved"} /\ UidPlus
NewCopies ==
    \A j \in Jobs : Appended(j) =>
        /\ jobs[j].uid \in Saved
        /\ drafts[jobs[j].uid] = [doc |-> jobs[j].doc, text |-> jobs[j].text]
        /\ pane.ref # jobs[j].uid
        /\ \A k \in Jobs : jobs[k].prev # jobs[j].uid
        /\ \A k \in Jobs \ {j} : Appended(k) => jobs[k].uid # jobs[j].uid

\* Without UIDPLUS no save learns the UID of its copy.
Unreported == UidPlus \/ \A j \in Jobs : jobs[j].uid = 0

SessionInv ==
    /\ TypeOK /\ PaneKnown /\ JobsOfPane /\ References /\ NewCopies /\ Unreported
    /\ DiscardsSentOnly

\* All this holds as long as nothing is opened while a command is in flight.
Patient == "open" \notin Meanwhile
DraftInv == Patient => SessionInv

\* An open pane does not stay with changes that are not saved.
Unsaved == pane.open /\ Dirty
Autosaved == Unsaved ~> ~ Unsaved

=============================================================================
