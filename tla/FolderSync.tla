----------------------------- MODULE FolderSync -----------------------------
(***************************************************************************)
(* One IMAP folder and its local cache, and the passes that bring the      *)
(* cache up to date: syncFolder of internal/sync/sync.go with the SQLite   *)
(* operations of internal/storage/sqlite it calls, one action per          *)
(* statement that talks to the server or to the database.                  *)
(*                                                                         *)
(* A sync is a session: it holds what it has read so far, and everything   *)
(* it read may be out of date when it is used.  The server's mailbox is    *)
(* modelled from what syncFolder relies on: UIDs are assigned upwards and  *)
(* never reused under one UIDVALIDITY, and every arrival or flag change    *)
(* takes a new, higher mod-sequence.                                       *)
(***************************************************************************)
EXTENDS Naturals, FiniteSets

CONSTANTS
    Syncers,        \* the goroutines or processes that may run a sync
    MaxUid,         \* bound: UIDs under one UIDVALIDITY
    MaxMod,         \* bound: the highest mod-sequence
    MaxValidity,    \* bound: how often the server renumbers, plus one
    MaxFail,        \* bound: syncs that end early on an error
    Windows,        \* the WindowCount arguments syncs are called with
    CondStore,      \* may a SELECT report CONDSTORE: a set of Booleans
    Overlap         \* may a sync start while another one runs

ASSUME FolderSyncAssumption ==
    /\ MaxUid \in Nat /\ MaxMod \in Nat \ {0}
    /\ MaxValidity \in Nat \ {0} /\ MaxFail \in Nat
    /\ Windows \subseteq Nat
    /\ CondStore \subseteq BOOLEAN
    /\ Overlap \in BOOLEAN

Uid == 1 .. MaxUid
Validity == 0 .. MaxValidity    \* 0: never recorded
ModSeq == 0 .. MaxMod           \* 0: no mod-sequence

VARIABLES
    \* the server
    uidValidity, uidNext, highestModSeq,
    msgs,      \* msgs[u]: the message numbered u, NoMsg if there is none
    \* the cache
    rows,      \* rows[u]: the messages row of UID u, NoRow if there is none
    folder,    \* the folders row: what the last complete sync recorded
    counts,    \* the badge columns of the folders row
    \* the syncs
    sess,      \* sess[s]: the local variables of syncer s
    fails,     \* syncs that ended early so far
    early      \* history: the server renumbered before the first sync was
               \* complete, and the rows were not cleared since

server == <<uidValidity, uidNext, highestModSeq, msgs>>
cache == <<rows, folder, counts>>
vars == <<server, cache, sess, fails, early>>

NoMsg == [mod |-> 0, seen |-> FALSE]
NoRow == [val |-> 0, seen |-> FALSE]

Live == {u \in Uid : msgs[u].mod # 0}
Cached == {u \in Uid : rows[u].val # 0}

\* A folders row.  val is the UIDVALIDITY, mod the mod-sequence and horizon
\* the SyncHorizonUID of the last complete sync.
FolderRow == [val : Validity, mod : ModSeq, horizon : 0 .. MaxUid]

\* rows[u].val is the UIDVALIDITY under which the header was fetched: with u
\* it says which message the row describes.  The table does not store it.
Row == [val : Validity, seen : BOOLEAN]

Stage == {"idle", "select", "clear", "list", "diff", "headers", "store",
          "flags", "uids", "find", "delete", "finish"}

\* The local variables of SyncAccount and syncFolder: the folders row read
\* before the pass, what SELECT reported, the UIDs listed (those with \Seen
\* apart), the diff against the cache, the headers fetched and the UIDs to
\* reconcile against.  A local that is not read again goes back to its value
\* in Idle.
Session == [pc : Stage, window : Nat, prior : FolderRow,
            val : Validity, hms : ModSeq, horizon : 0 .. MaxUid,
            changed : SUBSET Uid, changedSeen : SUBSET Uid,
            newUids : SUBSET Uid, updates : SUBSET Uid,
            fetched : SUBSET Uid, fetchedSeen : SUBSET Uid,
            remote : SUBSET Uid, stale : SUBSET Uid]

NoFolder == [val |-> 0, mod |-> 0, horizon |-> 0]
Idle == [pc |-> "idle", window |-> 0, prior |-> NoFolder,
         val |-> 0, hms |-> 0, horizon |-> 0,
         changed |-> {}, changedSeen |-> {}, newUids |-> {}, updates |-> {},
         fetched |-> {}, fetchedSeen |-> {}, remote |-> {}, stale |-> {}]

CountsOf(rs) ==
    LET in == {u \in Uid : rs[u].val # 0}
    IN [total |-> Cardinality(in),
        unread |-> Cardinality({u \in in : ~ rs[u].seen})]

-----------------------------------------------------------------------------
(* The server, and the other mail clients of the account. *)

\* A mailbox of the messages 1..n, those in flagged with \Seen.
Numbered(n, flagged) ==
    [u \in Uid |-> IF u <= n THEN [mod |-> 1, seen |-> u \in flagged] ELSE NoMsg]

Init ==
    /\ uidValidity = 1 /\ highestModSeq = 1
    /\ \E n \in 0 .. MaxUid : uidNext = n + 1 /\ msgs = Numbered(n, {})
    /\ rows = [u \in Uid |-> NoRow]
    /\ folder = NoFolder
    /\ counts = [total |-> 0, unread |-> 0]
    /\ sess = [s \in Syncers |-> Idle]
    /\ fails = 0 /\ early = FALSE

Deliver ==
    /\ uidNext <= MaxUid /\ highestModSeq < MaxMod
    /\ msgs' = [msgs EXCEPT ![uidNext] = [mod |-> highestModSeq + 1, seen |-> FALSE]]
    /\ uidNext' = uidNext + 1
    /\ highestModSeq' = highestModSeq + 1
    /\ UNCHANGED <<uidValidity, cache, sess, fails, early>>

RemoteFlag(u) ==
    /\ u \in Live /\ highestModSeq < MaxMod
    /\ msgs' = [msgs EXCEPT ![u] = [mod |-> highestModSeq + 1, seen |-> ~ @.seen]]
    /\ highestModSeq' = highestModSeq + 1
    /\ UNCHANGED <<uidValidity, uidNext, cache, sess, fails, early>>

Expunge(u) ==
    /\ u \in Live
    /\ msgs' = [msgs EXCEPT ![u] = NoMsg]
    /\ UNCHANGED <<uidValidity, uidNext, highestModSeq, cache, sess, fails, early>>

\* Some sync has begun and none has recorded a UIDVALIDITY yet.
FirstSyncUnderway ==
    folder.val = 0 /\ (Cached # {} \/ \E s \in Syncers : sess[s].pc # "idle")

\* The mailbox is recreated or rebuilt: a new UIDVALIDITY, new numbers.
Renumber(n, flagged) ==
    /\ uidValidity < MaxValidity
    /\ uidValidity' = uidValidity + 1
    /\ uidNext' = n + 1
    /\ highestModSeq' = 1
    /\ msgs' = Numbered(n, flagged)
    /\ early' = (early \/ FirstSyncUnderway)
    /\ UNCHANGED <<cache, sess, fails>>

ServerStep ==
    \/ Deliver
    \/ \E u \in Uid : RemoteFlag(u) \/ Expunge(u)
    \/ \E n \in 0 .. MaxUid : \E flagged \in SUBSET (1 .. n) : Renumber(n, flagged)

-----------------------------------------------------------------------------
(* A sync. *)

\* The UID below which a first sync of the UIDs listed leaves messages out,
\* to keep only the count most recent ones.  0: nothing is left out.
windowHorizon(listed, count) ==
    IF Cardinality(listed) <= count
    THEN 0
    ELSE LET recent == {u \in listed : Cardinality({v \in listed : v > u}) < count}
         IN CHOOSE u \in recent : \A v \in recent : u <= v

\* The session was opened on the mailbox the server still has.
Connected(s) == sess[s].val = uidValidity

uidValidityChanged(s) ==
    sess[s].prior.val # 0 /\ sess[s].prior.val # sess[s].val
useCondStore(s) ==
    sess[s].prior.mod # 0 /\ sess[s].hms # 0 /\ ~ uidValidityChanged(s)

\* Fault: the window of the current call replaces the committed horizon.
freshCacheAnyWindow(s) ==
    sess[s].prior.val = 0 \/ uidValidityChanged(s) \/ sess[s].window > 0

freshCache(s) == sess[s].prior.val = 0 \/ uidValidityChanged(s)

\* SyncAccount dials and loads the recorded state of the folders.
Start(s, window) ==
    /\ sess[s].pc = "idle"
    /\ Overlap \/ \A t \in Syncers : sess[t].pc = "idle"
    /\ sess' = [sess EXCEPT ![s] = [Idle EXCEPT !.pc = "select", !.window = window,
                                                !.prior = folder]]
    /\ UNCHANGED <<server, cache, fails, early>>

SelectFolder(s, condStore) ==
    /\ sess[s].pc = "select"
    /\ LET prior == sess[s].prior
           reset == prior.val # 0 /\ prior.val # uidValidity
       IN sess' = [sess EXCEPT ![s] = [@ EXCEPT !.pc = IF reset THEN "clear" ELSE "list",
                                                !.val = uidValidity,
                                                !.hms = IF condStore THEN highestModSeq ELSE 0]]
    /\ UNCHANGED <<server, cache, fails, early>>

\* Fault: the rows of the former numbering are left in place.
ClearNothing(s) ==
    /\ sess[s].pc = "clear"
    /\ sess' = [sess EXCEPT ![s] = [@ EXCEPT !.pc = "list"]]
    /\ UNCHANGED <<server, cache, fails, early>>

ClearFolderMessages(s) ==
    /\ sess[s].pc = "clear"
    /\ rows' = [u \in Uid |-> NoRow]
    /\ early' = FALSE
    /\ sess' = [sess EXCEPT ![s] = [@ EXCEPT !.pc = "list"]]
    /\ UNCHANGED <<server, folder, counts, fails>>

\* Fault: off by one, the mod-sequence after the baseline is skipped.
FetchFlagsPastNext(s) ==
    /\ sess[s].pc = "list"
    /\ Connected(s)
    /\ LET changed == {u \in Live : useCondStore(s) => msgs[u].mod > sess[s].prior.mod + 1}
       IN sess' = [sess EXCEPT ![s] = [@ EXCEPT !.pc = "diff",
                                                !.changed = changed,
                                                !.changedSeen = {u \in changed : msgs[u].seen}]]
    /\ UNCHANGED <<server, cache, fails, early>>

\* FetchChangedUIDsAndFlags under CONDSTORE, else FetchUIDsAndFlags.
FetchFlags(s) ==
    /\ sess[s].pc = "list"
    /\ Connected(s)
    /\ LET changed == IF useCondStore(s)
                      THEN {u \in Live : msgs[u].mod > sess[s].prior.mod}
                      ELSE Live
       IN sess' = [sess EXCEPT ![s] = [@ EXCEPT !.pc = "diff",
                                                !.changed = changed,
                                                !.changedSeen = {u \in changed : msgs[u].seen}]]
    /\ UNCHANGED <<server, cache, fails, early>>

\* ListMessageFlags, and the diff of the listing against it.
Diff(s) ==
    /\ sess[s].pc = "diff"
    /\ LET S == sess[s]
           horizon == IF ~ freshCache(s) THEN S.prior.horizon
                      ELSE IF S.window > 0 THEN windowHorizon(S.changed, S.window)
                      ELSE 0
           new == {u \in S.changed \ Cached : u >= horizon}
           differ == {u \in S.changed \cap Cached :
                        rows[u].seen # (u \in S.changedSeen)}
       IN sess' = [sess EXCEPT ![s] = [@ EXCEPT !.pc = IF new = {} THEN "flags" ELSE "headers",
                                                !.window = 0,
                                                !.horizon = horizon,
                                                !.newUids = new,
                                                !.updates = differ]]
    /\ UNCHANGED <<server, cache, fails, early>>

FetchHeaders(s) ==
    /\ sess[s].pc = "headers"
    /\ Connected(s)
    /\ LET fetched == sess[s].newUids \cap Live
       IN sess' = [sess EXCEPT ![s] = [@ EXCEPT !.pc = "store",
                                                !.newUids = {},
                                                !.fetched = fetched,
                                                !.fetchedSeen = {u \in fetched : msgs[u].seen}]]
    /\ UNCHANGED <<server, cache, fails, early>>

UpsertMessageHeaders(s) ==
    /\ sess[s].pc = "store"
    /\ LET S == sess[s]
       IN rows' = [u \in Uid |-> IF u \in S.fetched
                                 THEN [val |-> S.val, seen |-> u \in S.fetchedSeen]
                                 ELSE rows[u]]
    /\ sess' = [sess EXCEPT ![s] = [@ EXCEPT !.pc = "flags", !.fetched = {}, !.fetchedSeen = {}]]
    /\ UNCHANGED <<server, folder, counts, fails, early>>

\* Fault: after a CONDSTORE listing, deletions are not reconciled.
UpdateMessageFlagsNoReconcile(s) ==
    /\ sess[s].pc = "flags"
    /\ LET S == sess[s]
       IN rows' = [u \in Uid |-> IF u \in S.updates \cap Cached
                                 THEN [val |-> rows[u].val, seen |-> u \in S.changedSeen]
                                 ELSE rows[u]]
    /\ sess' = [sess EXCEPT ![s] = [@ EXCEPT !.pc = IF useCondStore(s) THEN "finish" ELSE "find",
                                             !.remote = IF useCondStore(s) THEN {} ELSE sess[s].changed,
                                             !.changed = {}, !.changedSeen = {}, !.updates = {}]]
    /\ UNCHANGED <<server, folder, counts, fails, early>>

\* The full listing already names every live UID; after a CONDSTORE listing
\* the live UIDs are asked for next.
UpdateMessageFlags(s) ==
    /\ sess[s].pc = "flags"
    /\ LET S == sess[s]
       IN /\ rows' = [u \in Uid |-> IF u \in S.updates \cap Cached
                                    THEN [val |-> rows[u].val, seen |-> u \in S.changedSeen]
                                    ELSE rows[u]]
          /\ sess' = [sess EXCEPT ![s] = [@ EXCEPT !.pc = IF useCondStore(s) THEN "uids" ELSE "find",
                                                   !.remote = IF useCondStore(s) THEN {} ELSE S.changed,
                                                   !.changed = {}, !.changedSeen = {}, !.updates = {}]]
    /\ UNCHANGED <<server, folder, counts, fails, early>>

ListUIDs(s) ==
    /\ sess[s].pc = "uids"
    /\ Connected(s)
    /\ sess' = [sess EXCEPT ![s] = [@ EXCEPT !.pc = "find", !.remote = Live]]
    /\ UNCHANGED <<server, cache, fails, early>>

\* DeleteMessagesNotIn reads the cached UIDs with one statement and deletes
\* the ones to drop in a transaction of its own.
FindStale(s) ==
    /\ sess[s].pc = "find"
    /\ LET stale == Cached \ sess[s].remote
       IN sess' = [sess EXCEPT ![s] = [@ EXCEPT !.pc = IF stale = {} THEN "finish" ELSE "delete",
                                                !.remote = {},
                                                !.stale = stale]]
    /\ UNCHANGED <<server, cache, fails, early>>

DeleteStale(s) ==
    /\ sess[s].pc = "delete"
    /\ rows' = [u \in Uid |-> IF u \in sess[s].stale THEN NoRow ELSE rows[u]]
    /\ sess' = [sess EXCEPT ![s] = [@ EXCEPT !.pc = "finish", !.stale = {}]]
    /\ UNCHANGED <<server, folder, counts, fails, early>>

\* Fault: the baseline recorded is the server's at the end of the pass.
RecordLatestModSeq(s) ==
    /\ sess[s].pc = "finish"
    /\ folder' = [val |-> sess[s].val, horizon |-> sess[s].horizon,
                  mod |-> IF sess[s].hms = 0 THEN 0 ELSE highestModSeq]
    /\ counts' = CountsOf(rows)
    /\ sess' = [sess EXCEPT ![s] = Idle]
    /\ UNCHANGED <<server, rows, fails, early>>

\* Fault: UIDNEXT recorded as the horizon, two integers swapped.
RecordUidNextAsHorizon(s) ==
    /\ sess[s].pc = "finish"
    /\ folder' = [val |-> sess[s].val, mod |-> sess[s].hms, horizon |-> uidNext]
    /\ counts' = CountsOf(rows)
    /\ sess' = [sess EXCEPT ![s] = Idle]
    /\ UNCHANGED <<server, rows, fails, early>>

UpdateFolderSyncState(s) ==
    /\ sess[s].pc = "finish"
    /\ folder' = [val |-> sess[s].val, mod |-> sess[s].hms, horizon |-> sess[s].horizon]
    /\ counts' = CountsOf(rows)
    /\ sess' = [sess EXCEPT ![s] = Idle]
    /\ UNCHANGED <<server, rows, fails, early>>

\* A network or database error, a cancelled context or the end of the
\* process: what was written stays, the folders row is not updated.
Fail(s) ==
    /\ sess[s].pc # "idle"
    /\ fails < MaxFail
    /\ fails' = fails + 1
    /\ sess' = [sess EXCEPT ![s] = Idle]
    /\ UNCHANGED <<server, cache, early>>

\* The mailbox the session had selected is gone: its next command fails.
Disconnect(s) ==
    /\ sess[s].pc \in {"list", "headers", "uids"}
    /\ ~ Connected(s)
    /\ sess' = [sess EXCEPT ![s] = Idle]
    /\ UNCHANGED <<server, cache, fails, early>>

SyncStep(s) ==
    \/ \E w \in Windows : Start(s, w)
    \/ \E c \in CondStore : SelectFolder(s, c)
    \/ ClearFolderMessages(s)
    \/ FetchFlags(s)
    \/ Diff(s)
    \/ FetchHeaders(s)
    \/ UpsertMessageHeaders(s)
    \/ UpdateMessageFlags(s)
    \/ ListUIDs(s)
    \/ FindStale(s)
    \/ DeleteStale(s)
    \/ UpdateFolderSyncState(s)
    \/ Disconnect(s)

Next ==
    \/ ServerStep
    \/ \E s \in Syncers : SyncStep(s) \/ Fail(s)

Spec == Init /\ [][Next]_vars

-----------------------------------------------------------------------------
(* Properties. *)

TypeOK ==
    /\ uidValidity \in 1 .. MaxValidity
    /\ uidNext \in 1 .. MaxUid + 1
    /\ highestModSeq \in 1 .. MaxMod
    /\ msgs \in [Uid -> [mod : ModSeq, seen : BOOLEAN]]
    /\ rows \in [Uid -> Row]
    /\ folder \in FolderRow
    /\ counts \in [total : Nat, unread : Nat]
    /\ sess \in [Syncers -> Session]
    /\ fails \in 0 .. MaxFail
    /\ early \in BOOLEAN

\* What the folders row says is about the mailbox the server has now.
Current == folder.val = uidValidity

\* A CONDSTORE sync from the recorded baseline will list u.
WillBeListed(u) == folder.mod = 0 \/ msgs[u].mod > folder.mod

\* Whenever the recorded UIDVALIDITY is the server's, every cached row
\* describes a message of that numbering: a row of an earlier one would show
\* one message under the UID of another (sync.go: the clear on a UIDVALIDITY
\* change, and what each failed or retried sync leaves behind).  Excused: rows
\* stored by a first sync that a renumbering cut short, as no UIDVALIDITY was
\* recorded yet that the next sync could find changed.
RowsMatchNumbering == Current /\ ~ early => \A u \in Cached : rows[u].val = folder.val

\* A message at or above the horizon that is not cached is one the next sync
\* will list: the CONDSTORE baseline never runs ahead of the rows, so no
\* message is lost for good (sync.go records SELECT's HIGHESTMODSEQ last).
NothingMissed ==
    Current => \A u \in Live \ Cached : u >= folder.horizon => WillBeListed(u)

\* A cached flag that differs from the server's is one the next sync will
\* list: no stale flag is left behind the CONDSTORE baseline.
FlagsCatchUp ==
    Current => \A u \in Live \cap Cached :
                  rows[u].seen # msgs[u].seen => WillBeListed(u)

\* Once a sync is complete, the horizon is kept under that numbering whatever
\* window later syncs are called with.
HorizonKept ==
    [][folder.val # 0 /\ folder'.val = folder.val
         => folder'.horizon = folder.horizon]_vars

\* NothingMissed with no sync under way, when nothing can still repair it.
NothingMissedAtRest == (\A s \in Syncers : sess[s].pc = "idle") => NothingMissed

\* The cache shows the server's mailbox down to the horizon.
InSync ==
    /\ Current
    /\ Cached \subseteq Live
    /\ \A u \in Live : u >= folder.horizon => u \in Cached
    /\ \A u \in Cached : rows[u].seen = msgs[u].seen

\* When the server's mailbox stops changing and failures stop, the cache ends
\* up equal to it and stays so.
Converges == <>[]InSync

-----------------------------------------------------------------------------
(* The inductive invariant behind the safety properties, for syncs that do  *)
(* not overlap.                                                             *)

Active(s) == sess[s].pc # "idle"
Selected(s) == sess[s].pc \notin {"idle", "select"}
Listed(s) == sess[s].pc \in {"diff", "headers", "store", "flags"}
Diffed(s) == sess[s].pc \in {"headers", "store", "flags", "uids", "find", "delete", "finish"}

\* A message as it was when the session selected the mailbox, or as it was
\* when the recorded baseline was.
Settled(s, u) ==
    /\ u \in Live
    /\ \/ msgs[u].mod <= sess[s].hms
       \/ Current /\ msgs[u].mod <= folder.mod

OneSync == \A s, t \in Syncers : Active(s) /\ Active(t) => s = t

BaselineKnown ==
    /\ \A u \in Uid : msgs[u].mod <= highestModSeq
    /\ folder.val <= uidValidity
    /\ Current => folder.mod <= highestModSeq
    /\ folder.val = 0 => folder.mod = 0

\* Rows left by syncs that ended early are of later numberings than the
\* folders row, and before a first sync is complete, of the server's, unless
\* it was renumbered since.
RowsNumbered ==
    \A u \in Cached :
        /\ rows[u].val <= uidValidity
        /\ ~ early => /\ rows[u].val >= folder.val
                      /\ folder.val = 0 => rows[u].val = uidValidity

SessionNumbered(s) ==
    /\ Active(s) => sess[s].prior = folder
    /\ Selected(s) =>
         /\ sess[s].val # 0
         /\ sess[s].val \in folder.val .. uidValidity
         /\ folder.val = 0 /\ ~ early => sess[s].val = uidValidity
         /\ Connected(s) => sess[s].hms <= highestModSeq
         /\ \A u \in Cached : rows[u].val <= sess[s].val
         /\ sess[s].pc = "clear" => uidValidityChanged(s)
         /\ sess[s].pc # "clear" /\ uidValidityChanged(s)
              => \A u \in Cached : rows[u].val = sess[s].val
    /\ Diffed(s) /\ ~ freshCache(s) => sess[s].horizon = folder.horizon

\* What the listing is worth: it has every settled message, with its flag,
\* apart from those the recorded baseline vouches for.
ListingComplete(s) ==
    Listed(s) /\ Connected(s) =>
      \A u \in Uid : Settled(s, u) =>
        /\ u \in sess[s].changed \/ (useCondStore(s) /\ msgs[u].mod <= folder.mod)
        /\ u \in sess[s].changed => (u \in sess[s].changedSeen <=> msgs[u].seen)

\* A settled message that should be cached and is not is about to be.
MissingPending(s) ==
    Diffed(s) /\ Connected(s) =>
      \A u \in Uid : Settled(s, u) /\ u >= sess[s].horizon /\ u \notin Cached =>
        \/ sess[s].pc = "headers" /\ u \in sess[s].newUids
        \/ sess[s].pc = "store" /\ u \in sess[s].fetched

\* A settled message whose cached flag is wrong is about to be corrected.
FlagPending(s) ==
    /\ sess[s].updates \subseteq sess[s].changed
    /\ sess[s].pc \notin {"headers", "store", "flags"} => sess[s].updates = {}
    /\ Diffed(s) /\ Connected(s) =>
         \A u \in Cached : Settled(s, u) /\ rows[u].seen # msgs[u].seen =>
           sess[s].pc \in {"headers", "store", "flags"} /\ u \in sess[s].updates
    /\ sess[s].pc = "store" /\ Connected(s) =>
         \A u \in sess[s].fetched : Settled(s, u) =>
           (u \in sess[s].fetchedSeen <=> msgs[u].seen)

\* No settled message is about to be deleted.
KeepsSettled(s) ==
    Connected(s) =>
      \A u \in Uid : Settled(s, u) =>
        /\ sess[s].pc = "find" => u \in sess[s].remote
        /\ sess[s].pc = "delete" => u \notin sess[s].stale

SessionInv(s) ==
    SessionNumbered(s) /\ ListingComplete(s) /\ MissingPending(s)
      /\ FlagPending(s) /\ KeepsSettled(s)

IInv ==
    /\ TypeOK /\ OneSync /\ BaselineKnown /\ RowsNumbered
    /\ NothingMissed /\ FlagsCatchUp
    /\ \A s \in Syncers : SessionInv(s)

=============================================================================
