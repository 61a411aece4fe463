------------------------------ MODULE MoveUndo ------------------------------
(***************************************************************************)
(* Moving, deleting and putting back messages: the keys of the TUI         *)
(* (internal/tui/triage.go), the commands they start and those of the CLI  *)
(* (internal/core/message/actions.go), and what they ask of the server     *)
(* (internal/imap/client.go), on the folders of one account and its cache. *)
(* A sync is one step here: FolderSync has all of it.                      *)
(***************************************************************************)
EXTENDS Integers, FiniteSets

CONSTANTS
    Folders, Inbox,
    Msgs, None,
    Jobs,         \* commands that may be under way at a time
    Flagged,      \* UIDs of the inbox that another client flagged \Deleted
    Servers,      \* servers considered: which of MOVE and UIDPLUS they have
    MaxUid, MaxValidity, MaxFail, MaxCommands,   \* bounds: UIDs, renumberings,
                                                 \* failures, commands but undo
    Waits         \* does nothing else move while an undo is under way, and no
                  \* undo begin while something does

ASSUME MoveUndoAssumption ==
    /\ Inbox \in Folders
    /\ None \notin Msgs \cup Folders /\ IsFiniteSet(Msgs)
    /\ Servers \subseteq [move : BOOLEAN, uidPlus : BOOLEAN]
    /\ MaxUid \in Nat \ {0} /\ MaxValidity \in Nat \ {0} /\ {MaxFail, MaxCommands} \subseteq Nat
    /\ Waits \in BOOLEAN

VARIABLES
    server,    \* its extensions
    box,       \* box[f]: folder f on the server; del are the UIDs flagged \Deleted
    cache,     \* cache[f]: its rows, and (history) the UIDVALIDITY they are of
    job,       \* job[j]: one archive, delete, move, purge or undo
    lastMoved, \* what U would put back: at most one record
    gone,      \* history: the messages a purge took, or a command given under an
               \* earlier UIDVALIDITY
    fails, begun

vars == <<server, box, cache, job, lastMoved, gone, fails, begun>>

Uids == 1..MaxUid
Live(at) == {u \in Uids : at[u] # None}
MsgsAt(at, S) == {at[u] : u \in S}

\* A command on the messages uids of folder from; want is the UIDVALIDITY it
\* insists on, if not 0.  (History: msgs are the messages the user pointed at,
\* val the UIDVALIDITY their UIDs are of, took the messages it took out of the
\* folder.)
NoJob == [kind |-> "none", from |-> None, to |-> None, uids |-> {}, want |-> 0, pc |-> "select",
          moved |-> {}, err |-> FALSE, msgs |-> {}, val |-> 1, took |-> {}]

\* The message went from one folder to another, where its UID is duid, if the
\* server told, under UIDVALIDITY dval; msg is history.
Result(f, t, u, v, m) == [from |-> f, to |-> t, duid |-> u, dval |-> v, msg |-> m]

\* The messages are in the inbox.
Init ==
    /\ server \in Servers
    /\ \E p \in {q \in [Uids -> Msgs \cup {None}] :
                   /\ MsgsAt(q, Live(q)) = Msgs
                   /\ Live(q) = 1..Cardinality(Msgs)} :
         box = [f \in Folders |->
                  IF f = Inbox
                  THEN [val |-> 1, next |-> 1 + Cardinality(Live(p)), at |-> p, del |-> Flagged \cap Live(p)]
                  ELSE [val |-> 1, next |-> 1, at |-> [u \in Uids |-> None], del |-> {}]]
    /\ cache = [f \in Folders |-> [val |-> 1, at |-> box[f].at]]
    /\ job = [j \in Jobs |-> NoJob]
    /\ lastMoved = {} /\ gone = {} /\ fails = 0 /\ begun = 0

-----------------------------------------------------------------------------
(* The server, and the sync. *)

\* Of the messages S, the one with UID u is the n-th.
Rank(u, S) == Cardinality({v \in S : v <= u})

\* Box b with the messages S of box a, in the order of their UIDs.
Appended(b, a, S) ==
    LET new(u) == b.next - 1 + Rank(u, S)
    IN [b EXCEPT !.next = @ + Cardinality(S),
                 !.at = [x \in Uids |-> IF \E u \in S : x = new(u)
                                        THEN a.at[CHOOSE u \in S : x = new(u)] ELSE @[x]],
                 !.del = @ \cup {new(u) : u \in S \cap a.del}]

Without(b, S) ==
    [b EXCEPT !.at = [x \in Uids |-> IF x \in S THEN None ELSE @[x]], !.del = @ \ S]

\* The folder gets a new UIDVALIDITY and its messages new UIDs, in any order;
\* sessions that have it selected are cut off.
Renumber(f) ==
    /\ box[f].val < MaxValidity
    /\ \A g \in Folders \ {f} : box[g].val = 1   \* bound: one folder is renumbered
    /\ \E p \in [Uids -> Uids \cup {0}] :
         LET n == Cardinality(Live(box[f].at))  old == {p[u] : u \in 1..n}
         IN /\ \A u \in Uids : (p[u] = 0) = (u > n)
            /\ old = Live(box[f].at)
            /\ box' = [box EXCEPT ![f] =
                         [val |-> @.val + 1, next |-> n + 1,
                          at |-> [u \in Uids |-> IF u > n THEN None ELSE @.at[p[u]]],
                          del |-> {u \in 1..n : p[u] \in @.del}]]
    /\ job' = [j \in Jobs |->
                 IF job[j].from = f /\ job[j].pc \in {"move", "copied", "expunge"}
                 THEN [NoJob EXCEPT !.kind = job[j].kind, !.pc = "done", !.err = TRUE] ELSE job[j]]
    /\ UNCHANGED <<server, cache, lastMoved, gone, fails, begun>>

Sync(f) ==
    /\ cache' = [cache EXCEPT ![f] = [val |-> box[f].val, at |-> box[f].at]]
    /\ UNCHANGED <<server, box, job, lastMoved, gone, fails, begun>>

-----------------------------------------------------------------------------
(* The commands begin. *)

Busy(kinds) == \E j \in Jobs : job[j].kind \in kinds

\* The user points at cached messages; the rest comes later.
Begin(j, kind, f, t, S) ==
    /\ job[j].kind = "none" /\ begun < MaxCommands /\ begun' = begun + 1
    /\ Waits => ~ Busy({"undo"})
    /\ S # {} /\ S \subseteq Live(cache[f].at)
    /\ job' = [job EXCEPT ![j] =
                 [NoJob EXCEPT !.kind = kind, !.from = f, !.to = t, !.uids = S,
                               !.msgs = MsgsAt(cache[f].at, S), !.val = cache[f].val]]
    /\ UNCHANGED <<server, box, cache, lastMoved, gone, fails>>

\* Archive, delete and move differ in the choice of the folder.
beginMove(j, f, t, u) == f # t /\ Begin(j, "move", f, t, {u})

\* Deleting for good, once confirmed: in the TUI one message of the Trash, in the
\* CLI any messages of a folder.
beginPurge(j, f, S) == Begin(j, "purge", f, None, S)

\* The CLI, several messages of a folder at a time, and the spam key: what they
\* move is reported and not remembered.
runOnMessages(j, f, t, S) == f # t /\ Begin(j, "batch", f, t, S)

\* Fault: the UIDVALIDITY of the move is not asked for.
undoAnywhere(j) ==
    /\ job[j].kind = "none"
    /\ Waits => ~ Busy({"undo", "move", "purge", "batch"})
    /\ \E r \in lastMoved :
         job' = [job EXCEPT ![j] =
             IF r.duid = 0 THEN [NoJob EXCEPT !.kind = "undo", !.pc = "done", !.err = TRUE]
             ELSE [NoJob EXCEPT !.kind = "undo", !.from = r.to, !.to = r.from, !.uids = {r.duid},
                                !.msgs = {r.msg}, !.val = r.dval]]
    /\ UNCHANGED <<server, box, cache, lastMoved, gone, fails, begun>>

\* The message moved last goes back, unless its UID is not known.
undoCmd(j) ==
    /\ job[j].kind = "none"
    /\ Waits => ~ Busy({"undo", "move", "purge", "batch"})
    /\ \E r \in lastMoved :
         job' = [job EXCEPT ![j] =
             IF r.duid = 0 THEN [NoJob EXCEPT !.kind = "undo", !.pc = "done", !.err = TRUE]
             ELSE [NoJob EXCEPT !.kind = "undo", !.from = r.to, !.to = r.from, !.uids = {r.duid},
                                !.want = r.dval, !.msgs = {r.msg}, !.val = r.dval]]
    /\ UNCHANGED <<server, box, cache, lastMoved, gone, fails, begun>>

-----------------------------------------------------------------------------
(* The commands go on. *)

\* Job j is over: with an error and no results, or with what it moved.
Ends(j, err, moved) ==
    job' = [job EXCEPT ![j] =
              [NoJob EXCEPT !.kind = job[j].kind, !.pc = "done", !.err = err, !.moved = moved]]
Errs(j) == Ends(j, TRUE, {})

Running(j, kinds, pc) == job[j].kind \in kinds /\ job[j].pc = pc

SelectFolder(j) ==
    /\ Running(j, {"move", "purge", "batch", "undo"}, "select")
    /\ IF job[j].want \in {0, box[job[j].from].val}
       THEN job' = [job EXCEPT ![j].pc = "move"]
       ELSE Errs(j)
    /\ UNCHANGED <<server, box, cache, lastMoved, gone, fails, begun>>

\* The messages asked for that are there.
Present(j) == job[j].uids \cap Live(box[job[j].from].at)

\* Fault: off by one in the pairing.
ResultsOffByOne(j) ==
    LET f == job[j].from  t == job[j].to
        told == server.uidPlus /\ Present(j) = job[j].uids
        new(u) == IF told THEN box[t].next + Rank(u, Present(j)) ELSE 0
    IN {Result(f, t, new(u), box[t].val, box[f].at[u]) : u \in job[j].uids}

\* COPYUID is trusted if the server sends it and took all that was asked for.
Results(j) ==
    LET f == job[j].from  t == job[j].to
        told == server.uidPlus /\ Present(j) = job[j].uids
        new(u) == IF told THEN box[t].next - 1 + Rank(u, Present(j)) ELSE 0
    IN {Result(f, t, new(u), box[t].val, box[f].at[u]) : u \in job[j].uids}

HasRoom(j) == box[job[j].to].next + Cardinality(Present(j)) <= MaxUid + 1

\* What MOVE does on the server.
Moves(j) ==
    LET f == job[j].from  t == job[j].to
    IN box' = [box EXCEPT ![f] = Without(@, Present(j)),
                          ![t] = Appended(@, box[f], Present(j))]

MoveOnServer(j) ==
    /\ Running(j, {"move", "batch", "undo"}, "move")
    /\ server.move /\ HasRoom(j) /\ Moves(j)
    /\ job' = [job EXCEPT ![j].pc = "drop", ![j].moved = Results(j),
                          ![j].took = MsgsAt(box[job[j].from].at, Present(j))]
    /\ UNCHANGED <<server, cache, lastMoved, gone, fails, begun>>

\* Fault: the copies have still to be made when the originals go.
RemoveFirst(j) ==
    /\ Running(j, {"move", "batch", "undo"}, "move")
    /\ ~ server.move /\ server.uidPlus /\ HasRoom(j)
    /\ box' = [box EXCEPT ![job[j].from] = Without(@, Present(j))]
    /\ job' = [job EXCEPT ![j].pc = "copied", ![j].moved = Results(j)]
    /\ UNCHANGED <<server, cache, lastMoved, gone, fails, begun>>

\* Without MOVE: COPY first, and then STORE \Deleted and UID EXPUNGE.
CopyOnServer(j) ==
    LET t == job[j].to
    IN /\ Running(j, {"move", "batch", "undo"}, "move")
       /\ ~ server.move /\ server.uidPlus /\ HasRoom(j)
       /\ box' = [box EXCEPT ![t] = Appended(@, box[job[j].from], Present(j))]
       /\ job' = [job EXCEPT ![j].pc = "copied", ![j].moved = Results(j)]
       /\ UNCHANGED <<server, cache, lastMoved, gone, fails, begun>>

\* The second half of a move without MOVE, and Purge: STORE \Deleted, ...
StoreDeleted(j) ==
    /\ \/ Running(j, {"move", "batch", "undo"}, "copied")
       \/ Running(j, {"purge"}, "move") /\ server.uidPlus
    /\ box' = [box EXCEPT ![job[j].from].del = @ \cup Present(j)]
    /\ job' = [job EXCEPT ![j].pc = "expunge"]
    /\ UNCHANGED <<server, cache, lastMoved, gone, fails, begun>>

\* Losing what this job takes is the user's wish, or past his help.
Excused(j) == job[j].kind = "purge" \/ job[j].val # box[job[j].from].val

\* ... and UID EXPUNGE, which takes those of the UIDs that are flagged.
Expunges(j, S) ==
    /\ box' = [box EXCEPT ![job[j].from] = Without(@, S)]
    /\ gone' = IF Excused(j) THEN gone \cup MsgsAt(box[job[j].from].at, S) ELSE gone

\* Fault: a plain EXPUNGE.
Expunge(j) ==
    LET f == job[j].from  S == box[f].del
    IN /\ Running(j, {"move", "purge", "batch", "undo"}, "expunge") /\ Expunges(j, S)
       /\ job' = [job EXCEPT ![j].pc = "drop", ![j].took = MsgsAt(box[f].at, S)]
       /\ UNCHANGED <<server, cache, lastMoved, fails, begun>>

UIDExpunge(j) ==
    LET f == job[j].from  S == Present(j) \cap box[f].del
    IN /\ Running(j, {"move", "purge", "batch", "undo"}, "expunge") /\ Expunges(j, S)
       /\ job' = [job EXCEPT ![j].pc = "drop", ![j].took = MsgsAt(box[f].at, S)]
       /\ UNCHANGED <<server, cache, lastMoved, fails, begun>>

\* The connection is lost after MOVE or UID EXPUNGE took effect and before it
\* was answered.
AnswerLost(j) ==
    /\ \/ /\ Running(j, {"move", "batch", "undo"}, "move")
          /\ server.move /\ HasRoom(j) /\ Moves(j) /\ gone' = gone
       \/ /\ Running(j, {"move", "purge", "batch", "undo"}, "expunge")
          /\ Expunges(j, Present(j) \cap box[job[j].from].del)
    /\ fails < MaxFail /\ fails' = fails + 1
    /\ Errs(j)
    /\ UNCHANGED <<server, cache, lastMoved, begun>>

\* ErrUIDPlusRequired.
Unsupported(j) ==
    /\ Running(j, {"move", "batch", "undo", "purge"}, "move")
    /\ ~ server.uidPlus /\ (job[j].kind = "purge" \/ ~ server.move)
    /\ Errs(j)
    /\ UNCHANGED <<server, box, cache, lastMoved, gone, fails, begun>>

dropFromCache(j) ==
    /\ job[j].pc = "drop"
    /\ cache' = [cache EXCEPT ![job[j].from].at =
                   [u \in Uids |-> IF u \in job[j].uids THEN None ELSE @[u]]]
    /\ Ends(j, FALSE, job[j].moved)
    /\ UNCHANGED <<server, box, lastMoved, gone, fails, begun>>

\* Fault: the error hides what moved.
DropFailsAlone(j) ==
    /\ job[j].pc = "drop" /\ fails < MaxFail /\ fails' = fails + 1
    /\ Errs(j)
    /\ UNCHANGED <<server, box, cache, lastMoved, gone, begun>>

\* The cache cannot be written; the results stay.
DropFails(j) ==
    /\ job[j].pc = "drop" /\ fails < MaxFail /\ fails' = fails + 1
    /\ Ends(j, TRUE, job[j].moved)
    /\ UNCHANGED <<server, box, cache, lastMoved, gone, begun>>

\* The server refuses, the connection is lost, or the time is up.
Fail(j) ==
    /\ job[j].kind # "none" /\ job[j].pc \in {"select", "move", "copied", "expunge"}
    /\ fails < MaxFail /\ fails' = fails + 1
    /\ Errs(j)
    /\ UNCHANGED <<server, box, cache, lastMoved, gone, begun>>

\* Fault: an undo that failed is forgotten too.
ResultForgets(j) ==
    /\ Running(j, {"move", "purge", "undo"}, "done")
    /\ lastMoved' = IF job[j].kind = "move" /\ job[j].moved # {} THEN job[j].moved
                    ELSE IF job[j].kind = "undo" THEN {}
                    ELSE lastMoved
    /\ job' = [job EXCEPT ![j] = NoJob]
    /\ UNCHANGED <<server, box, cache, gone, fails, begun>>

\* A move that has results is what U undoes from now on; an undo that worked
\* leaves nothing to undo.
handleTriageResult(j) ==
    /\ Running(j, {"move", "purge", "undo"}, "done")
    /\ lastMoved' = IF job[j].kind = "move" /\ job[j].moved # {} THEN job[j].moved
                    ELSE IF job[j].kind = "undo" /\ ~ job[j].err THEN {}
                    ELSE lastMoved
    /\ job' = [job EXCEPT ![j] = NoJob]
    /\ UNCHANGED <<server, box, cache, gone, fails, begun>>

reportMoved(j) ==
    /\ Running(j, {"batch"}, "done")
    /\ job' = [job EXCEPT ![j] = NoJob]
    /\ UNCHANGED <<server, box, cache, lastMoved, gone, fails, begun>>

-----------------------------------------------------------------------------
Begins(j) ==
    \/ \E f, t \in Folders, u \in Uids : beginMove(j, f, t, u)
    \/ \E f \in Folders, S \in SUBSET Uids : beginPurge(j, f, S)
    \/ \E f, t \in Folders, S \in SUBSET Uids : runOnMessages(j, f, t, S)
    \/ undoCmd(j)

GoesOn(j) ==
    \/ SelectFolder(j) \/ MoveOnServer(j) \/ CopyOnServer(j) \/ StoreDeleted(j) \/ UIDExpunge(j)
    \/ Unsupported(j) \/ dropFromCache(j)
    \/ handleTriageResult(j) \/ reportMoved(j)

Breaks(j) == AnswerLost(j) \/ DropFails(j) \/ Fail(j)

Next ==
    \/ \E f \in Folders : Renumber(f) \/ Sync(f)
    \/ \E j \in Jobs : Begins(j) \/ GoesOn(j) \/ Breaks(j)

Spec == Init /\ [][Next]_vars

-----------------------------------------------------------------------------
(* Properties. *)

Rows == [Uids -> Msgs \cup {None}]
Records == [from : Folders, to : Folders, duid : 0..MaxUid, dval : 1..MaxValidity,
            msg : Msgs \cup {None}]

Boxes == [val : 1..MaxValidity, next : 1..MaxUid + 1, at : Rows, del : SUBSET Uids]
Caches == [val : 1..MaxValidity, at : Rows]
Commands == [kind : {"none", "move", "purge", "batch", "undo"},
             from : Folders \cup {None}, to : Folders \cup {None},
             uids : SUBSET Uids, want : 0..MaxValidity,
             pc : {"select", "move", "copied", "expunge", "drop", "done"},
             moved : SUBSET Records, err : BOOLEAN, msgs : SUBSET (Msgs \cup {None}),
             val : 1..MaxValidity, took : SUBSET Msgs]

\* Everything has its type.
TypeOK ==
    /\ server \in Servers
    /\ box \in [Folders -> Boxes] /\ cache \in [Folders -> Caches] /\ job \in [Jobs -> Commands]
    /\ lastMoved \in SUBSET Records /\ gone \subseteq Msgs
    /\ fails \in 0..MaxFail /\ begun \in 0..MaxCommands

\* The messages that go from folder f in a step that does not renumber it.
Going(f) ==
    IF box'[f].val # box[f].val THEN {}
    ELSE MsgsAt(box[f].at, Live(box[f].at) \ Live(box'[f].at))

\* The messages that job j takes in the step.
Taken(j) == IF job[j].from \in Folders /\ job'[j] # job[j] THEN Going(job[j].from) ELSE {}

\* A command takes no message but those the user pointed at, however late it
\* runs and whatever else moved, synced or was flagged \Deleted meanwhile,
\* unless the folder was renumbered since they were cached (actions.go: moveGroup,
\* eachGroup; client.go: Purge).
TakesWhatWasPointedAt ==
    [][\A j \in Jobs :
         job[j].kind # "undo" /\ job[j].from \in Folders =>
            (job[j].val = box[job[j].from].val => Taken(j) \subseteq job[j].msgs)]_vars

\* An undo takes no message but the one that was moved, renumbered or not
\* (actions.go: Undo, moveGroup's wantValidity).
UndoTakesItsOwn ==
    [][\A j \in Jobs : job[j].kind = "undo" => Taken(j) \subseteq job[j].msgs]_vars

\* What a command took and got an answer for is in its results, whether the
\* cache could follow or not, unless its UIDs are of an earlier UIDVALIDITY
\* (actions.go: moveGroup).
ResultsCoverMoves ==
    [][\A j \in Jobs :
         /\ job[j].pc = "drop" /\ job'[j].pc = "done" /\ job[j].kind # "purge"
         /\ job[j].from \in Folders /\ job[j].val = box[job[j].from].val
         => job[j].took \subseteq {r.msg : r \in job'[j].moved}]_vars

\* A message leaves the account only if it was purged, or a UID noted before its
\* folder was renumbered named it, whatever fails and whatever else moves it at
\* the same time (client.go: MoveToFolder, Purge).
NothingLost == Msgs \ gone \subseteq UNION {MsgsAt(box[f].at, Live(box[f].at)) : f \in Folders}

\* The record of a move is given up only when its message is not where it was
\* moved to any more (triage.go: handleTriageResult).
ForgottenWhenBack ==
    [][lastMoved' = {} =>
         \A r \in lastMoved : ~ (/\ r.duid # 0 /\ box[r.to].val = r.dval
                                 /\ box[r.to].at[r.duid] = r.msg)]_vars

=============================================================================
