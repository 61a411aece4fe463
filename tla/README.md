# A TLA+ model of pigeon's mail core

pigeon is a terminal mail client. It mirrors the folders of an IMAP account in
a SQLite cache, shows and edits the cache from a TUI or from one-shot commands,
and writes every edit through to the server. This directory holds TLA+ modules
of the parts where steps of several actors meet (the server, other mail
clients, syncs, edits, the TUI's asynchronous commands), configurations that
model-check them with TLC, and proofs checked by TLAPS.

## 1. The system

Paths are under `src/internal`.

| component | code | state it keeps | operations | talks to |
|---|---|---|---|---|
| folder sync | `sync/sync.go` (`syncFolder`) | locals of one pass | list, diff, store, reconcile, record | IMAP client, SQLite |
| account sync | `sync/sync.go` (`SyncAccount`), `core/folder` | the LIST result, prior folder rows | the loop over folders, dropping folders | folder sync |
| cache | `storage/sqlite` | tables accounts, folders, messages, signatures | one statement or one transaction per method | every service |
| IMAP client | `imap/client.go` | one connection, the selected mailbox | SELECT, FETCH, SEARCH, STORE, MOVE, EXPUNGE, APPEND, IDLE | the server |
| message edits | `core/message/actions.go` | none | SetFlags, Purge: server first, cache second | IMAP client, cache |
| moves and undo | `core/message/actions.go` | MoveResults held by the caller | Move, Archive, Delete, Undo | IMAP client, cache |
| message bodies | `core/message/message.go`, `storage/blob` | `.eml` files, `body_synced` | Body, SaveAttachment, markSeen | IMAP client, cache, files |
| drafts | `core/compose/drafts.go`, `tui/draft.go`, `tui/compose.go` | the compose session of the TUI | autosave, save, close, send, resume | IMAP client, folder sync |
| live updates | `sync/watch.go`, `tui/idle.go` | the watcher in effect | restart, update, stopped | IMAP client, TUI |
| TUI | `tui/app.go`, `tui/triage.go`, `tui/sync.go` | the App model: selection, lists, viewer, busy flags | `Update`, one message at a time; commands run in goroutines | every service |
| signatures | `storage/sqlite/signature.go` | the signatures table | add, set default | cache |
| accounts | `core/account`, `config` | config file, keyring entries | add, update, remove | files, keyring |
| OAuth tokens | `auth/google.go` | keyring entry | refresh, login | keyring, Google |
| migrations | `storage/sqlite/db.go` | schema_migrations | migrate at open | cache |
| logs | `core/logs`, `tui/status.go`, `logging` | the log file, the pages loaded so far | append, page backwards | files, TUI |
| search and listing | `storage/sqlite/search.go`, `core/message`, `core/folder` | none | read-only queries | cache |
| command line | `cli` | none that outlives a call | one process per command | every service |
| MIME, SMTP, presentation | `mime`, `smtp`, ... | none that outlives a call | | |

How they interact: the TUI runs one `Update` at a time; everything slow runs in
a goroutine (a `tea.Cmd`) that captured what it needed when it was started and
answers with a message, in any order relative to other commands. Several
services write the same SQLite file; a method's transaction is atomic, a
sequence of methods is not. `SetMaxOpenConns(1)` orders statements of one
process; another pigeon process (a `pigeon sync` from cron) interleaves with it
statement by statement. The IMAP server changes under everybody.

What is hard: a sync uses what it read several statements ago; a pass may end
early anywhere and the next one starts from what it left; UIDVALIDITY changes
void every UID the cache knows; edits go to the server and then to the cache,
with syncs in between; the TUI's answers arrive for a selection, a watcher or a
compose session that may be gone. `PROJECT.json` lists each hazard at its line.

Correctness, by component:

- folder sync: the cache converges to the mailbox (down to the horizon);
  whatever the cache lacks or shows stale, the next pass will list; rows of two
  UIDVALIDITYs never mix; the horizon committed to stays.
- edits: after an edit and whatever syncs ran meanwhile, the cache still
  catches up; badges agree with the rows when nothing is under way; an edit
  reaches the message it was asked for.
- moves and undo: results say what moved; Undo puts back exactly that or
  reports that it cannot.
- drafts: one saved copy per draft, never an edit lost, nothing left after a
  send, no other draft deleted.
- live updates: one watcher, of the folder shown, and a change of it is
  followed by a sync.
- TUI: a key acts on the message it was pressed on.
- account sync: a folder that counts as synced is whole, and the folders cached
  become those of the server.
- bodies: the body shown is that of the message chosen, and all of it.
- signatures, accounts, tokens, migrations: a draft gets the default last set,
  never one set before, an
  account has the settings and the secret last given, no token is overwritten by
  an older one, each migration takes effect once and in order.
- logs: every record is shown once, in order, wherever a chunk cuts a line.

The code falls short of some of these; section 2 says where, with the run that
shows it or the exception a property names.

## 2. The modules

### `FolderSync` — one folder, its cache and the syncs

Models `syncFolder` (`sync/sync.go:104-233`) with the SQLite methods it calls,
for one folder, against a server other clients use.

| state | code |
|---|---|
| `uidValidity`, `uidNext`, `highestModSeq`, `msgs` | the mailbox on the server (external) |
| `rows` | the `messages` rows of the folder: `seen` is the flags, `val` a history variable, the UIDVALIDITY the header was fetched under |
| `folder` | `uidvalidity`, `mod_seq`, `sync_horizon_uid` of the `folders` row |
| `counts` | `total_count`, `unread_count` |
| `sess[s]` | the locals of `SyncAccount`/`syncFolder` of syncer `s`; `pc` is the statement to execute next |
| `fails` | passes ended early so far (bound) |
| `early` | history: the server renumbered while the first sync was incomplete, and the cache has not been cleared since |

One action per statement that talks to the server or the database: `Start` (the
prior folder rows are loaded), `SelectFolder`, `ClearFolderMessages`,
`FetchFlags` (full or CHANGEDSINCE), `Diff` (reads the cached flags, computes
the horizon, new UIDs and flag updates), `FetchHeaders`,
`UpsertMessageHeaders`, `UpdateMessageFlags`, `ListUIDs`, `FindStale` and
`DeleteStale` (`DeleteMessagesNotIn` selects and deletes in two steps),
`UpdateFolderSyncState`. `Fail` is every early return, a cancelled context and
the death of the process. The server's steps are `Deliver`, `RemoteFlag`,
`Expunge` and `Renumber`, enabled between any two statements.

What the model takes from IMAP: UIDs grow and are not reused under a
UIDVALIDITY, every arrival and flag change takes a higher mod-sequence, SELECT
reports the current HIGHESTMODSEQ or none (`CondStore`), and a session whose
mailbox was renumbered is cut off (`Disconnect`), as RFC 3501 requires of a
server that changes a UIDVALIDITY under a selected mailbox.

Abstracted: flags are `\Seen` only (flags are compared and overwritten as a
set, so one flag shows every case), header contents (immutable per UID), UIDNEXT
as recorded (never read back).

`MCFolderSync` adds the symmetry of the syncers.

#### Properties

- `NothingMissed`: a live message at or above the horizon that is not cached
  has a mod-sequence above the recorded baseline, or there is no baseline: the
  next pass will list it.
- `FlagsCatchUp`: the same for a cached flag that differs from the server's.
- `RowsMatchNumbering`: a cache recorded under the server's UIDVALIDITY has no
  row of an earlier one, except rows that a first sync stored before a
  renumbering cut it short (`early`, below).
- `HorizonKept` (action property): under one UIDVALIDITY the horizon never
  moves once recorded, whatever `WindowCount` later passes are called with.
- `Converges` (liveness): when the mailbox stops changing and failures stop,
  the cache ends up equal to it down to the horizon.
- `NothingMissedAtRest`: `NothingMissed` when no pass is under way; what
  remains of it when passes overlap.

#### Runs

| run | bounds | result |
|---|---|---|
| `folder` | see `FolderUses` below | `NothingMissed`, `FlagsCatchUp`, `RowsMatchNumbering`, `HorizonKept`, `Converges` hold |
| `overlap` | 2 syncers, CONDSTORE | `NothingMissedAtRest` **violated** |

The passing run assumes that passes do not overlap (`Overlap = FALSE`), and
nothing else of the server: it may renumber the mailbox between any two
statements, the first sync's included.

One disagreement with the code's own words, `overlap`:

- Nothing in `SyncAccount` keeps two passes apart: the TUI guards its
  own syncs with `syncCh`, but `Send`, `SaveDraft` and `DiscardDraft` call
  `Sync` as well, and `pigeon sync` is another process. Pass A lists the UIDs;
  a message arrives; pass B caches it and records the new HIGHESTMODSEQ; A
  deletes the row, which its list does not have. No CONDSTORE pass lists the
  message again until it changes. `storage/sqlite/folder.go:22-23`: "0 means no
  horizon — every remote message is expected to be cached."

And one exception, which is what `early` excuses: `sync/sync.go:153-154` says
"The local cache starts empty either on this folder's very first sync, or right
after a UIDVALIDITY reset". After a first pass that failed beyond
`UpsertMessageHeaders` the UIDVALIDITY recorded is still 0 and the cache is not
empty; if the server renumbers before the retry, nothing is compared, so the
rows of the old numbering stay, and are vouched for under the new one until a
later renumbering clears the cache. Without `~ early` TLC violates
`RowsMatchNumbering` at once.

#### Fairness

`Converges` is checked in `FolderUses`, under weak fairness of each syncer's
steps: passes are started again and again (the TUI's tick, `syncTickMsg`; a later `sync` command) and each
started statement answers or errors. A stalled connection would break the
second half for a TUI sync, which has no timeout; the CLI's has one. Nothing is
asked of the server or of failures; `MaxFail` bounds failures, since a pass that
fails every time never converges.

### `FolderSyncProofs` — what is proved of it

For all values of the constants that satisfy `FolderSyncAssumption`:

- `TypeCorrect`: `Spec => []TypeOK`, overlapping passes included.
- `NoMessageMissed`, `NoStaleFlag`, `NumberingRespected`, `HorizonCommitted`:
  `Spec => []NothingMissed`, `[]FlagsCatchUp`, `[]RowsMatchNumbering`,
  `HorizonKept`, assuming `~ Overlap` (run `overlap` shows the first false
  without it), with a server that renumbers at any step. `NumberingRespected`
  is about caches that are not `early`, as the property is.

The invariant. `NothingMissed` is not inductive: that recording SELECT's
HIGHESTMODSEQ at the end of a pass is right depends on everything the pass did
before. Call a message *settled* for a pass if its last change is covered by
the SELECT's HIGHESTMODSEQ or by the baseline recorded earlier (`Settled`).
`IInv` then says, stage by stage: the listing has every settled message, save
those the old baseline vouches for (`ListingComplete`); a settled message that
should be cached and is not is in the UIDs or headers in hand
(`MissingPending`); a settled message whose cached flag is wrong is among the
pending updates (`FlagPending`); and no settled message is about to be deleted
(`KeepsSettled`). When the pass records its HIGHESTMODSEQ as the new baseline,
all four lists are empty and "settled" becomes "at most the baseline", which is
`NothingMissed` and `FlagsCatchUp`. `RowsNumbered`, `SessionNumbered` and
`BaselineKnown` carry the numbering through renumberings and early ends: the
rows a failed pass left are of the session's numbering or a later one than is
recorded, while the cache is not `early`. The
proof has one lemma per action, a frame lemma for the passes that are idle
(`OthersRest`) and for steps that leave the cache alone (`ReadOnly`). TLC found
`IInv` invariant under the constants of run `folder` before it was proved.

Only model-checked: `Converges` (liveness under fairness is outside the
prover's reach).

### `FolderEdits` — edits beside the syncs

Extends `FolderSync` with `SetFlags` and `Purge` (or the removal half of a
move) of `core/message/actions.go` on one message of the folder.

| state | code |
|---|---|
| `edit[e]` | one call by editor `e` (a TUI command or a CLI process): the flag set or cleared, or `"drop"`; the UID; `pc`, the statement to execute next |
| `edit[e].chosen`, `edit[e].val` | history: the UIDVALIDITY of the row the user picked, and of the mailbox SELECT opened. The code keeps neither |

Actions: `Choose` (`groupRefs` on a cached row), `EditSelect` (`eachGroup`,
`moveGroup`), `StoreFlags` or `RemoveOnServer` (the IMAP command),
`ApplyFlagChanges` or `DeleteMessages` (the cache), `RefreshFolderCounts`
(the badges), `EditFail` (any error, timeout or death between two of them) and
`EditDisconnect` (the mailbox was renumbered under the edit's SELECT). Every
step of `FolderSync` may come in between; `OtherClients` says whether other
clients change flags.

Abstracted: a batch of UIDs goes through the same statements, one UID shows
every interleaving; STORE `\Deleted` and UID EXPUNGE of `Purge` are one step.

Properties: `NothingMissed` and `FlagsCatchUp` of `FolderSync` (they must
survive the edits' writes), `BadgesMatchAtRest` (the badges count the rows when
nothing is under way and nothing failed, unless a renumbering has just cut a
sync off), `FlagsCatchUpAtRest` and `Converges`.

| run | bounds | result |
|---|---|---|
| `folder` | see `FolderUses` below | `EditTypeOK`, `BadgesMatchAtRest`, and those of `FolderSync`, hold |
| `toggles` | 2 editors on one message, CONDSTORE | `FlagsCatchUpAtRest` **violated** |

One disagreement:

- `toggles`. Each toggle of the TUI is a goroutine with a connection of its
  own: STORE, then the cache. The server may take toggle 1 before toggle 2 and
  the cache the other way round; if a sync read the flags and the
  HIGHESTMODSEQ after both STOREs and before the cache writes, the wrong flag
  is behind the baseline and stays. `tui/triage.go:224-225`: "a reload
  afterwards reflects what really happened". The same happens to a single
  edit when another client changes the flag between its STORE and its cache
  write, which is why other clients and edits have uses of their own in
  `FolderUses`.

One more limit: a `Ref` is a folder and a UID, and only `Undo` compares the
UIDVALIDITY that SELECT returns. After a renumbering not yet synced, an edit
reaches whatever message has the UID now (`chosen` and `val` of the model keep
the two numberings apart).

### `FolderUses` — the folder in three uses

A behaviour of `FolderUses` is one of `FolderEdits` in one of three uses, which
it picks at the start:

- `"reads"`: the user only reads; other clients and the server change and
  renumber the mailbox between any two statements of the syncs;
- `"edits"`: the user is the only client and makes one edit after the other,
  beside the syncs, each failing anywhere; mail arrives and messages are
  expunged;
- `"several"`: two edits at once of one message, beside the syncs, none failing.

They are apart because the properties are not true of all together: another
client's flag change between an edit's two halves, or two overlapping toggles,
make `FlagsCatchUp` false (run `toggles`). `several` is there for the badges; it
has no `unseen`, so that both edits agree and `FlagsCatchUp` survives.

| run | bounds | result |
|---|---|---|
| `folder` | 1 syncer, 2 editors that set `\Seen` or remove, 2 UIDs, mod-sequence 2, 2 UIDVALIDITYs, CONDSTORE on and off, windows {0, 1}, 1 failure, fair | `EditTypeOK`, `NothingMissed`, `FlagsCatchUp`, `RowsMatchNumbering`, `BadgesMatchAtRest`, `HorizonKept`, `Converges` hold |

(Where the user edits, the mailbox is not renumbered and syncs are not windowed;
in `several` there is one message and nothing fails.) Two UIDs make a window of
one cut something and leave an arrival after it, and let an edit touch one
message while the sync handles the other; a mod-sequence of 2 is a baseline and
a change after it, on either side of a SELECT; two UIDVALIDITYs are a numbering
and its successor; a failure leaves one partial pass under the next one; two
editors are the fewest whose writes and recounts cross. What the properties
compare is always one message, one row and one baseline. Larger bounds, up to
three UIDs, mod-sequence 3 and two failures, were explored for the syncs alone
while the model was built; the theorems hold for all of them.

Fairness (`FairUsesSpec`): syncs are started again and go on, as in
`FolderSync`; an edit once begun takes its next step (its context has a timeout,
so it ends); nothing makes the user begin one.

### `FolderEditsProofs`

- `EditTypeCorrect`: `EditSpec => []EditTypeOK`, for all constants.
- `BadgesRight`: `EditSpec => []BadgesMatchAtRest`, assuming `MaxValidity = 1`,
  for any number of overlapping syncs and edits. The property is about
  behaviours in which nothing failed: a failure between a write and its recount,
  or a pass cut off by a renumbering, does leave the badges wrong until the next
  sync. Invariant `BadgesInv`: as long as nothing failed, badges that do not
  count the rows are ahead of a recount some sync or edit still owes
  (`RecountInv`).
- `EditsCatchUp`, `EditsLoseNothing`: `EditSpec => []FlagsCatchUp` and
  `[]NothingMissed`, assuming that neither syncs nor edits overlap, no other
  client changes flags, and no renumbering. Invariant `EditInv`: `IInv`, and
  what the server did with an edit still stands when the cache follows
  (`StoreStands`), since UIDs the cache knows are below UIDNEXT (`KnownUids`)
  and no one else changes the flag. The sync's half is `StepInv` of
  `FolderSyncProofs`, cited; an edit's server step is a case of its
  `ServerInv`, an edit's cache step is `RowsFollow`.
- `UsesAreEdits`: `UsesSpec => EditSpec`, so the run `folder` checks an instance
  of what these theorems, and by the same steps those of `FolderSync`, are about.

### `DraftSession` — the compose pane and the Drafts folder

Models the compose session of the TUI (`tui/draft.go`, `tui/compose.go`, the
cases of `App.Update` they answer to), the commands it starts, `SaveDraft` and
`DiscardDraft` (`core/compose/drafts.go`), `Send`, and the account's Drafts
folder.

| state | code |
|---|---|
| `pane` | `composing`, `draftGen`, the widgets (`text`), `draftInitial`, `draftRef` (its UID), `draftLastSaved`, `draftSaving`; `doc` is not in the code |
| `viewing` | `viewingMsg` and `viewBody` when a draft is shown |
| `jobs[j]` | one `tea.Cmd` in a goroutine: what the closure captured (`gen`, `doc`, `text`, `prev`) and what it has done (`pc`, `uid`) |
| `drafts`, `uidNext` | the messages of the Drafts folder (external) |
| `newest`, `sent` | history: the latest version typed of each document, the documents delivered |
| `crossed` | history: the documents closed while a save of theirs was in flight |

A document is what the user writes, through every pane that works on it; its
content is a version number, each edit makes a new one, so "at least as recent"
is `<=`. The pane's actions are `NewMessage` (reply and forward too),
`ViewDraft`, `startEditDraft`, `Type`, `handleDraftAutosaveTick`,
`saveDraftNow` (ctrl+o), `cancelCompose` (esc) and `sendCompose` (ctrl+s). A
save is `Append` then `Purge` of the copy it replaces; a send is `Send`; the
answers are `handleDraftSaveResult` and `Sent` or `Unsent`, applied by `Update`
to the pane of that moment; `Sent` starts a `Discard`. Every command may fail
before or after its effect (`AppendFail`, `AppendLost`, `PurgeFail`,
`SendFail`, `SendLost`, `DiscardFail`), and `Quit` kills the process with its
goroutines. A server without UIDPLUS (`UidPlus = FALSE`) reports no UID and
purges nothing.

`Meanwhile` says how much the user does while a command is in flight: close the
pane, send, press ctrl+o during a send, open something else. The autosave tick is
a timer and is not among these: it comes whenever the pane is open and no save of
it is in flight. The violated runs show where the properties stop holding.

Abstracted: what a draft consists of (`draftsEqual` compares contents, the model
versions; `LoadDraft` gives back the version saved), the sync at the end of a
save (`FolderSync`'s business), body loading before a draft is shown, the
account (one), the folder's UIDVALIDITY (fixed).

Properties: `OneCopy` (when all is quiet, one copy of a draft, unless its pane
was closed during a save), `WorkKept` (the last thing typed in a message not
sent is in the folder), `DiscardsSentOnly`, `NewestKept` (action property: a copy
leaves the folder only when its message was sent or one at least as recent is
there) and `Autosaved` (liveness). `NoDuplicates` (`OneCopy` without its
exception) and `NothingLingers` (no copy of a message sent remains) are what the
code's comments promise and does not hold.

| run | bounds | result |
|---|---|---|
| `drafts` | 2 goroutines, 2 panes, 2 edits per document, 6 copies, 1 failure, closing, sending and saving while commands are in flight, fair | `TypeOK`, `OneCopy`, `WorkKept`, `DiscardsSentOnly`, `NewestKept`, `Autosaved` hold |
| `close_saving` | esc while a save is in flight | `NoDuplicates` **violated** |
| `lingers` | a user who waits for every command (`Meanwhile = {}`) | `NothingLingers` **violated** |
| `wrong_draft` | another pane opened during a send | `DiscardsSentOnly` **violated** |

Two goroutines are two commands whose effects and answers cross; two edits are
one before and one after a save captured the text; two panes are a draft and the
same draft resumed, or two documents. `MaxActs` (3 in the runs) keeps the user
from typing and pressing ctrl+o once the copies run short, so that the 6 copies
are enough for the ticks, closes and retries that follow and `Autosaved` is not
cut off by the bound.

The disagreements:

- `close_saving`. `cancelCompose` does not look at `draftSaving`: esc during an
  autosave starts a second save with the same previous reference; both append
  and neither replaces the other. `core/compose/drafts.go:48-49`: "repeated
  autosaves of the same in-progress draft replace it instead of piling up
  duplicates". These are the documents `OneCopy` excepts (`crossed`).
- `lingers`. The pane stays open during a send and the tick goes on saving it. A
  save in flight when `sendResultMsg` is handled has appended a copy, or will,
  that `draftRef` does not name; the handler discards another or none. The user
  only typed, pressed ctrl+s and waited. `tui/app.go:560-561`: "it's been sent
  now, so the saved copy shouldn't linger".
- `wrong_draft`. `sendResultMsg` has no generation. If another pane is open when
  it arrives, that pane is closed, its unsaved text gone, and its draft
  discarded. `tui/app.go:560-561`: "This session started from (or autosaved
  into) a draft; it's been sent now".

One more limit, which no run repeats: without UIDPLUS (`UidPlus = FALSE`) UID 0
means "not saved yet" to the next save and the baseline stays `draftInitial`, so
every tick saves one more copy, changed or not, and `OneCopy` fails.

Fairness (`FairSpec`): commands end, and the tick comes again while the pane is
open (`handleDraftAutosaveTick` always reschedules). The first half is an
assumption the code does not enforce: a save's context has no deadline.

### `DraftSessionProofs`

- `DraftTypeCorrect`: `Spec => []TypeOK`.
- `DiscardsRight`, `SavesLoseNothing`: `Spec => []DiscardsSentOnly` and
  `NewestKept`, assuming `Patient`, that nothing is opened while a command is
  in flight; run `wrong_draft` shows that the first needs it. Closing, sending
  and saving at any moment, failures and crashes are all included.

- `WorkIsKept`: `Spec => []WorkKept`, assuming `Patient` too, with or without
  UIDPLUS.
- `OneCopyRemains`: `Spec => []OneCopy`, assuming `Patient` and UIDPLUS; closing,
  sending and saving may cross commands in flight.

The invariant `SessionInv`: whatever is under way belongs to the document of the
pane (`JobsOfPane`); every reference, in the pane, the viewer or a command,
names a copy of the document it stands for that is no newer than what would
replace it (`References`); the copy an unanswered save made is in the folder and
nobody else knows its UID (`NewCopies`), so the purge after it leaves that copy
in place. `DraftInv` is the same under `Patient`; TLC found it invariant under
the constants of `drafts`.

`WorkKept` speaks of moments when nothing is under way, so `WorkInv` says where
the work is in between. A version is `Kept` once the folder has a copy that
recent or the message was sent, and `NewestKept` makes that last. `NothingLost`:
what was typed last is kept, on the screen, or about to be appended.
`BaselinesKept`, `ViewKept`, `SavesKept`: what the pane compares with to decide
that nothing has changed, what the viewer shows and what a command reports saved
is kept, so a pane closed without a save loses nothing.

`OneCopy` needs the converse, that the folder has no copy nobody refers to.
`CopyInv` adds to `SessionInv`, for documents not closed during a save: the saves
of a document go one after the other, and the one under an open pane is the
pane's (`OrderInv`: `SavesInOrder`, `Begun`); and while nothing failed
(`FolderInv`) two copies of a document are those of a save about to purge the
older one, and an open pane, a draft viewed or a save knows the copy there is
(`Copies`: `Others`, `Referred`, `Known`, `Viewed`, `NoneFailed`).

### `LiveUpdates` — the watcher, the background sync and its progress

Models how the TUI keeps up with the server: the IDLE watcher of the folder
shown (`tui/idle.go`, `sync/watch.go`, `DialClientWithUpdates`), the sync it
runs in the background with its progress channel (`tui/sync.go`, the loop of
`SyncAccount`), and the cases of `App.Update` their messages reach.

| state | code |
|---|---|
| `selected`, `loading` | `selectedFolder`; the `loadMessagesCmd`s in flight, by folder |
| `effect` | `idleFolder`, and the watcher that `idleCancel` and `idleCh` belong to |
| `watch[w]` | one `startIdleCmd` goroutine: where `WatchFolder` is, its folder, whether its context is cancelled, the signal in its channel (capacity 1) |
| `listeners[w]` | `listenIdleCmd` goroutines blocked on that channel |
| `updates` | `idleUpdateMsg`s not yet handled |
| `syncCh`, `sync`, `readers`, `progress` | `syncCh # nil`; the `startSyncCmd` goroutine and the folders it has left; the listeners on its unbuffered channel; `syncProgressMsg`s not yet handled |
| `reported` | history: the watcher in effect heard of a change while no sync ran and the folder has not been synced since |

An action is a case of `Update` (`openSelection`, `messagesLoaded` with
`restartIdleCmd`, `idleUpdate`, `idleStopped`, `syncTick`, `syncProgress`,
`syncDone`) or a step of a goroutine (`Connect`, `Cancelled`, `WatchFails`,
`NewMail`, `listenIdleCmd`, `SyncFolder`, `SendProgress`, `SyncEnds`,
`SyncFails`). Abstracted: what a sync does to the cache (`FolderSync`), the
account (one), the reload of the folder list before that of the messages.

Connections, loads and syncs may fail at any time.

Properties: `Heard` (the signals of the watcher in effect have a listener, or a
message that will start one), `StreamMoves` (a sync that reports has a reader, or
will), `NoSignalLost` (a change heard of while no sync ran is never forgotten)
and `Settles` (liveness: if the user stays in a folder and neither a watcher nor
a list that would start one fails any more, that folder ends up watched for good,
whether or not syncs fail). `NoneLeftBehind` says that a watcher
that goes on is the one the next restart cancels; it does not hold.

| run | bounds | result |
|---|---|---|
| `live` | 2 folders, 2 watchers, 1 message of a kind waiting, 2 listeners on the channel in effect, fair | `TypeOK`, `Heard`, `StreamMoves`, `NoSignalLost`, `Settles` hold |
| `strays` | 2 folders, 3 watchers | `NoneLeftBehind` **violated** |

Two folders and two watchers are one in effect and one superseded, with their
messages in either order; two listeners happen when the signal of an old channel
starts one on the new. The third watcher of `strays` is the one that is left
behind. A `Stray` watcher goes on for ever, as nobody can cancel it; so that the
slots do not run out, its slot may be used again, as if it was not heard from any
more.

The disagreement, `strays`: `idleStoppedMsg` names the account and the folder.
After switching away and back, the message of the first watcher clears
`idleCancel` and `idleCh` of the new one of the same folder (`tui/app.go:514`),
which goes on, unheard and never cancelled, and the next list starts a third,
though `tui/app.go:104-106` says the names are kept "so a stray idleStoppedMsg
from a superseded watcher can be told apart from a real failure". The folder is
not left unwatched for good: `Settles` holds with such strays.

What else the code does, which no property excludes:

- A change heard of during a sync that has passed the folder waits for the next
  tick (`app.go:501`); `NoSignalLost` is about those heard of while no sync runs.
- Only new mail is heard: `dialAuthenticated` registers no handler but
  `Mailbox`, though `sync/watch.go:16-17` and `imap/client.go:31-33` speak of
  flag changes and expunges.
- Restarting goes by the list that came last: the list of a folder left in the
  meantime starts a watcher for it, which stays until the next list.

Fairness (`FairSpec`): goroutines get on, `Update` handles every message, and
the tick comes again (each `syncTickMsg` reschedules it). Nothing is asked of
the user, the server or the network; `Settles` is about behaviours in which the
user stays and such failures end (`Setback`).

### `LiveUpdatesProofs`

For any folders, watchers and bounds: `LiveTypeCorrect`, `AlwaysHeard`,
`StreamNeverStuck`, `SignalsCount` (`Spec => []TypeOK`, `[]Heard`,
`[]StreamMoves`, `[]NoSignalLost`), with no assumption on the order of lists and
ends. The invariant `LiveInv` adds to `TypeOK` and `Heard`: the watcher in effect
is one of the folder in effect and not cancelled (`EffectSound`); a sync under
way owns `syncCh` and has or will have a reader (`StreamInv`); what was reported
is among the folders the running sync has left, or its signal or message is under
way (`SignalInv`). `Settles` is only model-checked.

### `MoveUndo` — archive, delete, move, purge and undo

Models what the triage keys and the CLI commands do to the folders of an
account: from the key (`tui/triage.go`) or the command
(`cli/message_actions.go`) through `core/message/actions.go` and
`imap/client.go` to the result and the record that `U` goes back to.

| state | code |
|---|---|
| `server` | the capabilities `MoveToFolder` and `Purge` ask for: MOVE, UIDPLUS |
| `box[f]` | the mailbox: UIDVALIDITY, UIDNEXT, a message or none at each UID, the UIDs flagged `\Deleted` |
| `cache[f]` | the cached rows; `val`, the numbering they are of, is history (a `Ref` has none) |
| `job[j]` | one command under way: what `Refs` it was given, how far it is, the `[]MoveResult` it has, whether it errs |
| `lastMoved` | `App.lastMoved`: none or one record, as every key moves one message |
| `gone` | history: what was purged, or taken by a command given under an earlier numbering |

A command is begun (`beginMove`, `beginPurge`, `runOnMessages`, `undoCmd`),
SELECTs, and then moves in one step (`MoveOnServer`), or, on a server without
MOVE, in three (`CopyOnServer`, `StoreDeleted`, `UIDExpunge`), takes the rows
out of the cache (`dropFromCache`, or `DropFails`) and reports
(`handleTriageResult`, `reportMoved`). `Fail` and `AnswerLost` may end it
anywhere, the second after the server did its part; `Renumber` cuts off those
that have the folder selected. `Sync` puts the mailbox in the cache at any time:
what a sync is made of is `FolderSync`'s subject. A spam key is a
`runOnMessages` of one message, as neither leaves a record.

The order COPY, STORE, UID EXPUNGE, and that a refused COPY ends there, is
`imapclient`'s; `MoveToFolder` relies on it and this module does too. All
callers name one folder per command, so a command has one group.

Properties:

- `TakesWhatWasPointedAt`: a command takes no message but those its user pointed
  at, with others flagged `\Deleted` in the folder, other commands and syncs
  under way, and servers without MOVE. It is stated for commands whose UIDs are
  of the folder's present UIDVALIDITY: only `Undo` compares it
  (`actions.go:438`), a move or a purge would take whatever has the UID now.
- `UndoTakesItsOwn`: an undo has no such exception.
- `NothingLost`: a message leaves the account only through a purge, or through a
  command given under an earlier UIDVALIDITY. Between the COPY and the UID
  EXPUNGE of one command another may move or copy either copy, and everything may
  fail.
- `ResultsCoverMoves`: what a command took is in its results, even when the
  cache could not follow; the record for `U` is made of them. The results may
  name more: a UID that was not there gets a record without a new UID.
- `ForgottenWhenBack`: the record is given up only when the message is not where
  it was moved to.

| run | bounds | result |
|---|---|---|
| `triage` | 2 folders, 2 messages, 2 commands under way, 2 moves or purges and undos without limit, 3 UIDs a folder, one renumbering, one failure, one message flagged by another client, all four kinds of server, `Waits` | all hold |

Two commands under way and two messages are enough for one to move what the
other has copied, and for a purge beside a message flagged by someone else;
three UIDs let a message come back to a folder; one renumbering swaps the UIDs of
two messages. `Waits = TRUE` says that a user who undoes lets it finish before he
moves something else. With `Waits = FALSE` everything but `ForgottenWhenBack`
still holds; TLC violates that one: an undo of move A that ends after move B was
recorded sets `lastMoved` to nil (`triage.go:315`), and B cannot be undone,
where `README.md:152` of the repository has `U` undo the last move.

No fairness and no liveness here: a command ends when the network lets it.

### `MoveUndoProofs`

For any folders, messages, servers, bounds and `Waits`: `MoveTypeCorrect`,
`MoveNothingLost` (`Spec => []TypeOK`, `[]NothingLost`),
`MoveTakesWhatWasPointedAt`, `MoveUndoTakesItsOwn` and `MoveResultsCoverMoves`
(`Spec => TakesWhatWasPointedAt`, ...). None of them is inductive. The invariant
`Inv` adds to `TypeOK`

- `Names(b, v, u, ms)`: a UID noted under UIDVALIDITY `v` is, while the folder
  has that numbering, below UIDNEXT and at one of the messages `ms` or at none,
  for every cached row (`CacheNames`), every UID of a command (`JobsName`) and
  every record (`RecordsName`);
- `Sound(j)`: a command knows its folders, and an undo past its SELECT is in a
  folder with the UIDVALIDITY it wants;
- `LiveBelowNext`: UIDs in use are below UIDNEXT.

Every step is shown to satisfy `BoxSteps` (a numbering once left does not come
back, and under one numbering a UID keeps its message or loses it), from which
`Names` carries over; what is left is that each step adds right names: COPY and
MOVE put the n-th message of the set at the n-th new UID (`AppendedFacts`, by
counting with `Rank`), which is what `Results` says. `TakesAsked` then says that
only a command at work takes messages, and only at UIDs it was given.

`SafeCopies` strengthens `NothingLost`: every message that is not `gone` has a
copy that no command is about to expunge. It is needed because a copy may be on
its way out by one command when another copies it. COPY and MOVE keep it since a
new UID is at or above UIDNEXT, where `Names` lets no command under way point
(`NewNotDoomed`). `AllCovered` strengthens `ResultsCoverMoves`: between COPY and
UID EXPUNGE every message still at a UID of the command is in its results.
Before the proofs TLC checked both as invariants with `Waits = FALSE`.

`MoveForgottenWhenBack` (`Spec => ForgottenWhenBack`) assumes `Waits`: nothing
else moves while an undo is under way. `RecordInv` says what that gives: the keys
move one message at a time, so there is one record (`OneRecord`), and an undo is
alone (`UndoAlone`). `UndosFor` follows the undo: it is for the record there is;
at its UID EXPUNGE its message is marked \Deleted; and when it answers without an
error the message is `Away`, no longer where it was moved to.

### The parts side by side: `Services`, `MCServices`

Six parts of pigeon share no state with each other (different tables, files,
keyring entries, fields of the App model): `TuiSelection`, `BodyCache`,
`AccountSync`, `Accounts`, `Database`, `LogPages`. `Services` puts them side by
side: a behaviour is one of one part while the others are at rest. No step of a
part reads or writes a variable of another, so interleaving two of them shows
nothing that either does not show alone, and the run `services` checks each of
them in full. Its properties are those of the parts.

Each part has a specification of its own (`TuiSpec`, `BodySpec`,
`AccountSyncSpec`, `AccountsSpec`, `DatabaseSpec`, `LogSpec`). `StorageProofs` and
`ScreenProofs` prove its safety properties from it, as the sections below say,
and `ServicesProofs` carries them over: `PartsAreAsAlone` (`ServicesSpec` implies
each of the six), hence `ServicesTypeCorrect` and `ServicesKeepTheirPromises`, all
that the run checks but `FoldersAreThoseOfServer`.

| run | result |
|---|---|
| `services` | `ServicesTypeOK`, `KeysNameWhatIsShown`, `BodyShownIsItsOwn`, `FoldersWhole`, `SettingsAsAsked`, `SecretsAsAsked`, `DraftGetsTheDefault`, `PagesAreWhole`, `StoreKeepsItsPromise`, `FoldersAreThoseOfServer` hold |
| `stale_list` (of `TuiSelection` alone) | `TriageActsOnTarget` **violated** |

| part | bounds in the run | larger instances explored |
|---|---|---|
| `TuiSelection` | 2 accounts, one with 2 folders synced before the start, the other with none known, 1 UID, keys with 2 commands in flight and one more that an answer starts; one folder may be deleted | the second account configured from the start |
| `BodyCache` | 2 readers, 1 UID, 2 UIDVALIDITYs | 2 UIDs |
| `AccountSync` | 2 syncs, 2 folders, 2 events | 3 events |
| `Accounts` | 2 commands, 2 accounts, 3 commands begun | 4 commands begun |
| `Database` | 2 processes of two builds, 3 migrations, 1 account and the global scope, 2 ids | 3 ids |
| `LogPages` | chunks and pages of 2, a file of 7 bytes | |

Two commands, readers, syncs or processes are what it takes to cross; two
accounts or folders let one be hit by what was meant for the other. In 7 bytes a
line ends at the edge of a chunk of 2, is cut by it, or is longer than it, and a
second page follows the first. With two commands in flight a key is pressed
while a list, folders, results or a body are loading, and the answers come in
either order. The larger instances were explored while the
modules were written and hold as well.

Several of these properties name an exception in a history variable, for a loss
that the code does not prevent; each was found by TLC, and each is needed for
the property to hold. They are listed under the modules, as what the code does
today.

Fairness: `FairServicesSpec` asks weak fairness of each step of each sync, which
`FoldersAreThoseOfServer` needs: syncs are started again and again (the tick of
the TUI; the next `pigeon sync`) and what they started answers or errors. A
stalled connection of a TUI sync, which has no deadline, is outside of it.
Nothing is asked of users, failures, or the server.

### `TuiSelection` — what a key names

The App model of `tui/app.go` as far as the folder and the UID that a command
names: `selected` is `selectedAccount` and `selectedFolder`, `listPane` the items
of the Messages pane (each with the folder it was listed for, which the program
does not keep), `viewing` is `viewingMsg`, `overlay` the results of a search or
of Related, `asking` the question open (confirm a purge, pick a folder, a path to
save to), `cmds` the bag of `tea.Cmd`s in flight. A load reads the cache (`Read`)
and is answered later (`accountsLoaded`, `foldersLoaded`, `messagesLoaded`,
`found`, `messageBodyLoaded`, ...), in any order, each as its case of `Update`
does it, with the commands that case starts. Keys are `openAccount`,
`openFolder`, `openMessage`, `handleTriageKey`, `answerQuestion`, `toggleSpam`,
`search`, `openResult`, ... What a command then does to its message is in
`MoveUndo`, `FolderEdits` and `BodyCache`.

`KeysNameWhatIsShown`: the folder that a key sends with the UID of a message is
that message's folder, whatever was loaded, searched, opened and synced before
and whatever is in flight when it is pressed. The code sends `selectedFolder`,
and nothing compares it with the folder the list or the body was loaded for, so
this cannot hold of every key. Two histories say of which it does not:

- `behind`: the selection has moved and its list has not come since, or it came
  while something begun for another selection was still in flight and may come
  over it. `messagesLoadedMsg` names its folder and account, but the case does
  not look (`app.go:482-497`). An account that was never synced is opened and its
  folders fail to load: that clears the Folders pane (`app.go:458`), but the list
  and the folder of the old account stay. A key on the list is then excepted.
- `left`, of the message open or asked about: it was opened from a list behind,
  or came for another selection, or the selection moved on from it. A search or
  related result of another folder moves `selectedFolder` at once, and if its
  body does not load the old message stays open; or a sync ends, its folders
  arrive and move the selection while the user answers a question.

Neither is about how much the user waits: with the list come and nothing of
another selection in flight, keys are pressed while any number of loads of the
present selection, bodies, searches and edits are under way, and each of them is
held to the property.

The disagreement, `stale_list`: `tui/triage.go:99-100` says "triageTarget is the
message the triage keys act on: the open message, or else the selection in the
message list". A folder is opened; before its list comes the pane shows that of
the folder left, and `e` archives the message of that UID in the new folder.
`TriageActsOnTarget` is `KeysNameWhatIsShown` for the triage keys without the
exceptions.

A late body has one more consequence that neither names: while the path for an
attachment is asked for, it replaces the viewer, and the index of the attachment
chosen is then saved from the message that came (`attachments.go:137`).

Proved in `ScreenProofs`, for any accounts, folders and messages, and any number
of commands in flight: `TuiTypeCorrect`, `KeysAreOfWhatIsShown`. A key is pressed
long after the list, the results or the message it acts on were loaded, and
`TuiInv` says what has held since. `TuiTyped`: what a load has read is of what it
loads, and every message shown is of a folder that has or had a row. `ListRight`:
while the list is not `behind`, it is of the folder selected, every command in
flight is of the selection, and results shown are of the account selected; the
second part is what keeps a late answer from coming over the list.
`LeftRight`: a message open or asked about that the selection has not left is of
the folder selected. TLC checked `TuiInv` before the proof. `None` is assumed to
be none of the things that may be open.

### `BodyCache` — bodies

`cachedOrFetchRaw` (`core/message/message.go`) by `reader[r]`, one call:
`MessageBodyState` (`Open`), the file (`ReadBlob`) or the server
(`FetchRawBody`), the file created and written (`CreateBlob`, `WriteBlob`: two
steps, as `os.WriteFile` truncates), the row (`SetMessageBodyCached`). Syncs
clear, store and drop rows; the server expunges and renumbers; somebody empties
the cache directory; a call ends anywhere. `row`, `blob` and `got` hold, instead
of contents, the UIDVALIDITY of the message.

`BodyShownIsItsOwn`: what is shown is the body of the message chosen, and whole,
unless the folder was renumbered since it was listed or the UID `clashed`. A
clash: a body fetched under one numbering is written or recorded when the row is
of another (`message.go:292-298` looks at no UIDVALIDITY), and then the wrong
body is shown until the next renumbering; or two calls write the file of one UID
while another reads or records it, which may show half a body (and, if the
second dies, keep it).

Proved in `StorageProofs`, for any readers, UIDs and bounds: `BodiesTypeCorrect`,
`BodyShownIsTheOneChosen`. `BodyShownIsItsOwn` is not inductive. `BodyInv` adds:
no row or choice is of a numbering to come (`NotAhead`); what is fetched for a
choice of the present numbering is of it (`Fetched`); who writes the file of a
UID without a clash is alone, and it is not recorded yet (`WritesAlone`); and the
file of a recorded row is that of the row (`Recorded`).

### `AccountSync` — the folders of an account

`SyncAccount` (`sync/sync.go:44-102`) around `syncFolder`: LIST (`BeginSync`),
the folders recorded so far (`ReadPrior`), and for each folder in any order its
row (`UpsertFolder`), SELECT and what is new (`SelectAndDiff`), the headers
(`StoreMessage`), the state (`RecordState`); then `DeleteFoldersNotIn`, which
takes the rows' messages along. A folder that fails is skipped (`FolderFails`),
a sync may be cut short (`EndSync`), folders come and go on the server
(`ChangeFolders`), and several processes sync. Row ids are reused, as the table
has no AUTOINCREMENT. Abstracted: one message a folder, never changing;
`FolderSync` has the rest.

- `FoldersWhole`: a folder recorded as synced has its messages and no other's,
  except where a sync stored by the id of a row that another sync had removed
  meanwhile (`undercut`): the id may by then be the row of another folder, which
  gets the messages, or of the same folder, new and empty, of which the old
  state's MODSEQ is recorded; the next CONDSTORE sync then fetches nothing.
- `FoldersAreThoseOfServer` (liveness): once the server's folders stay and syncs
  no longer fail, the folders cached are those of the server, all synced.

The fault `StoreAnywhere` shows what `foreign_keys` (`db.go:53`) is for: without
it messages are stored under a row that is gone.

Proved in `StorageProofs`, for any finite set of folders (`LIST` gives finitely
many) and any number of syncs: `AccountSyncTypeCorrect`, `FoldersAreWhole`.
`FoldersWhole` is not inductive, as a sync records what it learnt steps before.
`FoldersInv` adds: no two folders have the same row (`RowsDiffer`) and a row's
message is its folder's (`OwnOrNone`); and of each sync, unless the row was removed
since it began, that the row it works in is still its folder's (`HasRow`), that
what it took for recorded is (`PriorHolds`), and that what it will record, or
decided not to fetch, is there (`HasMessage`).

### `Accounts` — config file and keyring

`Add`, `AddGoogle`, `Update`, `Remove` and `ReauthorizeGoogle` of
`core/account/account.go`, step by step: the file is read (`Load`), secrets
change (`SetSecret`, `DeletePassword`, `DeleteOAuthToken`), the file is truncated
and written (`Truncate`, `Write`). `edit` has read the account before it asks for
a password and writes all the settings it read. A connection refreshes an
expired token (`BeginConnect`, `SetRefreshed`). Commands overlap, fail and die
anywhere. Settings, passwords and sign-ins are told apart by the number of the
command that gave them.

- `SettingsAsAsked`: the file says of each account what the last command on it
  said, whatever was done to others.
- `SecretsAsAsked`: each account has the secret last given, with a refresh token
  if it is Google's, and an account removed has none.

Both except accounts in `raced`, of which a change was lost. The ways: a file
written from what was read before another write; a file that is read while it is
truncated, which is one with no accounts (`config.Load` takes an empty file for
that); two overlapping writes that leave the tail of the longer (`mixed`); an
`edit` that puts back the settings from before its prompt; two commands on one
account whose secrets and settings cross; a command that dies between the
keyring and the file (an `add` that did leaves a password that `remove` cannot
reach, as there is no such account); and a refresh that began before a
reauthorization or removal and writes after it. The form of the TUI begins the
same `Add`; nothing keeps it from being submitted twice, and a Google sign-in
goes on after esc. TLC violates the properties when any one of these is taken
out of `raced`.

Proved in `StorageProofs`, for any commands, accounts and bounds:
`AccountsTypeCorrect`, `SettingsStayAsAsked`, `SecretsStayAsAsked`. A command writes
what it read steps before, so `AccountsInv` relates the two: unless one is at its
write, the file is what was last `written` (`FileKept`), which is as asked
(`SettingsKept`); secrets are as asked unless a command on that account has begun to
change them (`SecretsKept`); what such a command did still stands when it goes on
(`EffectsHold`), since two that did are both removals, or the account is in `raced`
(`TouchesAlone`). `Shapes` says what a command may be at each step, `AloneIs` that
one recorded as alone is.

### `Schema`, `Database` — migrations and signatures

`Database` has processes that open the database (`Open`, `migrate`) with a list
of migrations that depends on their build (`LastOf`), check a version outside the
transaction (`CheckMigration`), apply and record it inside one
(`ApplyMigration`, which the primary key undoes if another was faster), and then
keep signatures: `AddSignature`, `SetDefaultSignature`, `RemoveSignature`, where
making a default is two statements (`clearDefaultSignature`, `SetDefaultRow`).
They die anywhere (`Stop`).

- `StoreKeepsItsPromise`: a refinement. `Schema` is what the database promises:
  migrations take effect in order, once each; a signature goes only when it is
  removed or by migration 2, which recreates the table, and none is there
  before. `Database` implements it with `done <- shape` and `kept <- ` the rows in
  use. The migrations would be applied twice were the record not part of the
  transaction (`ApplyAnyway`): a late one would drop signatures.
- `DraftGetsTheDefault`: a draft gets the signature last made the default of its
  account, or else of all, or one of two that were made so at a time; never one
  that was the default before. It gets none, or that of all in place of the
  account's, only if none was made or it was removed, while a command is between
  clearing the old default and setting the new, or after a command that ended
  there. Three histories carry
  it, none of which forgets what was said when the rows are cleared: `made` is
  the signatures made the default of a scope last (by the last command, and by
  those since the clearing before it), `standing` the scopes not cleared since,
  `cut` the scopes where a command ended between the two statements. So a death
  after `clearDefaultSignature` and two commands at a time are in the property:
  it says how much each may spoil.

What the code does today: after such a death no signature is the default, and
two commands may leave two, of which drafts get the one with the lower id;
nothing in the repository says otherwise.

Proved in `StorageProofs`, for any processes, builds and bounds: `DatabaseTypeCorrect`,
`DatabaseKeepsItsPromise` (`DatabaseSpec => StoreKeepsItsPromise`),
`DraftsGetTheDefault`. For the refinement, `StoreInv`: what is recorded is
`1..Len(shape)`; a process is at most one version past it, is about to apply
only what its build has, and is ready only past its last migration. So an
unrecorded version is the next one, and a process that is ready is past `Rekey`.
For the default, `DefaultInv`, of every scope: the rows that are defaults are
those `made` while the scope is `standing`, and none otherwise (`DefaultRows`);
and a scope is standing unless it may have none (`ClearedFor`).

Not modelled: the text of a signature and `signature edit`, which reads all rows
and later writes one whole: of two such edits the second wins.

### `LogPages` — the log overlay

`Before` of `core/logs/logs.go` reads the file backwards (`ReadChunk`,
`TakeLine`) from a cursor to a page of records; the overlay (`tui/status.go`)
starts it when opened, scrolled to the end or not filled (`loadOlderLog`), one at
a time, and appends what it gets (`PageLoaded`). This session and others append
lines, some of them no records, some cut short by a death (`AppendLine`). Bytes
are positions; a record is where it begins.

`PagesAreWhole`: the overlay shows every record between the cursor and the start
of the session, once, newest first. The file only grows: pigeon never rotates it.

Proved in `ScreenProofs`, for any chunk, page and file: `LogTypeCorrect`, `PagesHaveEveryRecord`.
`LogInv` adds to the types: a record begins a line that ended before the session
did if it began before (`FileInv`); what was shown is what is between cursor and
start (`SessionInv`); what a scan has left ends where a line begins or the session
began, what it has found is what is between there and the cursor (`ScanInv`).

## 3. What is proved, and what is only checked

The theorems hold for every value of the constants that satisfies the named
assumption of the module, and are listed in `PROJECT.json`; what some assume
besides (`~ Overlap`; `~ EditsOverlap`, `~ OtherClients`, `MaxValidity = 1`;
`Patient`, UIDPLUS; `Waits`) is said above, with what fails without it. Every invariant and every
action property that a passing run checks is stated by a theorem, and so is the
refinement of `Schema`. Only model-checked, on the instances of the runs, are

- the liveness properties `Converges`, `Autosaved`, `Settles` and
  `FoldersAreThoseOfServer`: fairness is out of the prover's reach;
- the violations `overlap`, `toggles`, `close_saving`, `lingers`, `wrong_draft`,
  `strays` and `stale_list`, each a behaviour of a small instance that the code
  has and a comment of the repository denies;
- that the cases the properties speak of occur at all: the runs show it, in which
  every action fires.

The proofs are in eight modules: `FolderSyncProofs`, `FolderEditsProofs`,
`DraftSessionProofs`, `LiveUpdatesProofs`, `MoveUndoProofs`, `StorageProofs`
(`BodyCache`, `AccountSync`, `Accounts`, `Database`), `ScreenProofs`
(`TuiSelection`, `LogPages`) and `ServicesProofs`, which combines the last two.

## 4. Plan

Done, in order: `FolderSync`, `FolderEdits`, `FolderUses`, `DraftSession`, `LiveUpdates`,
`MoveUndo` with their proofs; `Database` (refining `Schema`), `BodyCache`,
`LogPages`, `TuiSelection`, `AccountSync`, `Accounts` and `Services` with theirs.

Next: a mirror (a cache that is, per message, the mailbox at some earlier moment)
as the abstract specification of `FolderSync` without overlap, with the
refinement checked and proved.

## 5. Not modelled

MIME (building, parsing and rendering messages), the SMTP and IMAP dialogues
below the commands, dialling and authentication, the Google sign-in in the
browser (a token or an error), the ranking of a search, the arguments and output
of the CLI, and layout: pure conversions or I/O with no state that another step
could find changed. Reading settings (`core/settings`) is one read of the config
file. `PROJECT.json` has the components with reasons.
