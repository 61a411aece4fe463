----------------------------- MODULE BodyCache -----------------------------
(***************************************************************************)
(* The bodies of the messages of one folder, fetched when a message is     *)
(* first opened (internal/core/message/message.go) and kept in files       *)
(* (internal/storage/blob) that are named by folder and UID.  Several may  *)
(* be opened at a time, from the TUI and by CLI processes, while syncs     *)
(* clear and store the rows and the server renumbers the folder.           *)
(***************************************************************************)
EXTENDS Integers

CONSTANTS
    Readers,   \* opens and attachment saves that may be under way at a time
    BodyUids,
    MaxNumbering   \* bound: the UIDVALIDITYs the folder has had

ASSUME BodyCacheAssumption == MaxNumbering \in Nat \ {0}

VARIABLES
    numbering, onServer,   \* the folder's UIDVALIDITY and the UIDs in use
    row,        \* row[u]: 0, or (history) the UIDVALIDITY of the message cached
    bodySynced, \* the UIDs with body_synced; raw_ref is a function of the UID
    blob,       \* blob[u]: NoFile, Torn, or (history) the message's UIDVALIDITY
    reader,     \* reader[r]: the progress of one open
    clashed     \* history: UIDs with a body written or recorded for a row of another
                \* UIDVALIDITY, or a file written while another open was about to
                \* read or record it, or after it was recorded (and then removed)

bodyVars == <<numbering, onServer, row, bodySynced, blob, reader, clashed>>

NoFile == 0
Torn == MaxNumbering + 1

\* listed is history: the UIDVALIDITY of the message the user chose, who may have
\* listed it before the last sync; got is the body, by its UIDVALIDITY, or 0.
Idle == [pc |-> "idle", uid |-> 0, listed |-> 0, got |-> 0]

InitBodies ==
    /\ numbering = 1 /\ onServer = BodyUids
    /\ row = [u \in BodyUids |-> 0] /\ bodySynced = {} /\ blob = [u \in BodyUids |-> NoFile]
    /\ reader = [r \in Readers |-> Idle] /\ clashed = {}

-----------------------------------------------------------------------------
(* One open. *)

At(r, pc) == reader[r].pc = pc
Uid(r) == reader[r].uid
Goes(r, pc, got) == reader' = [reader EXCEPT ![r].pc = pc, ![r].got = got]

\* Body, SaveAttachment: resolveIDs and MessageBodyState.
Open(r, u, v) ==
    /\ At(r, "idle") /\ row[u] # 0 /\ v <= row[u]
    /\ reader' = [reader EXCEPT ![r] =
                    [pc |-> IF u \in bodySynced THEN "read" ELSE "fetch", uid |-> u,
                     listed |-> v, got |-> 0]]
    /\ UNCHANGED <<numbering, onServer, row, bodySynced, blob, clashed>>

\* A file that is not there is fetched again.
ReadBlob(r) ==
    /\ At(r, "read")
    /\ IF blob[Uid(r)] = NoFile THEN Goes(r, "fetch", 0) ELSE Goes(r, "shown", blob[Uid(r)])
    /\ UNCHANGED <<numbering, onServer, row, bodySynced, blob, clashed>>

\* SELECT and FETCH by UID; the UIDVALIDITY is not looked at.
FetchRawBody(r) ==
    /\ At(r, "fetch") /\ Uid(r) \in onServer
    /\ Goes(r, "write", numbering)
    /\ UNCHANGED <<numbering, onServer, row, bodySynced, blob, clashed>>

\* os.WriteFile empties the file first.
CreateBlob(r) ==
    /\ At(r, "write")
    /\ blob' = [blob EXCEPT ![Uid(r)] = Torn]
    /\ clashed' = IF \/ Uid(r) \in bodySynced
                     \/ \E q \in Readers : Uid(q) = Uid(r) /\ reader[q].pc \in {"read", "writing", "record"}
                  THEN clashed \cup {Uid(r)} ELSE clashed
    /\ Goes(r, "writing", reader[r].got)
    /\ UNCHANGED <<numbering, onServer, row, bodySynced>>

\* The row, if there is one, may be of another message by now.
Clash(r) ==
    clashed' = IF row[Uid(r)] \in {0, reader[r].got} THEN clashed ELSE clashed \cup {Uid(r)}

WriteBlob(r) ==
    /\ At(r, "writing")
    /\ blob' = [blob EXCEPT ![Uid(r)] = reader[r].got]
    /\ Clash(r)
    /\ Goes(r, "record", reader[r].got)
    /\ UNCHANGED <<numbering, onServer, row, bodySynced>>

\* For the row that has the UID by now, if there is one.
SetMessageBodyCached(r) ==
    /\ At(r, "record")
    /\ bodySynced' = bodySynced \cup {u \in {Uid(r)} : row[u] # 0}
    /\ Clash(r)
    /\ Goes(r, "shown", reader[r].got)
    /\ UNCHANGED <<numbering, onServer, row, blob>>

\* The viewer is closed; or an error, a timeout, the death of the process: what
\* was written stays.
Close(r) ==
    /\ ~ At(r, "idle")
    /\ reader' = [reader EXCEPT ![r] = Idle]
    /\ UNCHANGED <<numbering, onServer, row, bodySynced, blob, clashed>>

-----------------------------------------------------------------------------
(* Syncs, edits and the server. *)

OfAnother == \E u \in BodyUids : row[u] \notin {0, numbering}

\* Fault: the rows are taken over by the messages of the new numbering.
KeepFolderMessages ==
    /\ OfAnother
    /\ row' = [u \in BodyUids |-> IF u \in onServer THEN numbering ELSE 0]
    /\ bodySynced' = bodySynced \cap onServer
    /\ UNCHANGED <<numbering, onServer, blob, reader, clashed>>

ClearFolderMessages ==
    /\ OfAnother
    /\ row' = [u \in BodyUids |-> 0] /\ bodySynced' = {}
    /\ UNCHANGED <<numbering, onServer, blob, reader, clashed>>

\* UpsertMessageHeaders leaves body_synced of the rows there are.
StoreHeaders ==
    /\ ~ OfAnother
    /\ \E u \in BodyUids : row[u] = 0 /\ u \in onServer /\ row' = [row EXCEPT ![u] = numbering]
    /\ UNCHANGED <<numbering, onServer, bodySynced, blob, reader, clashed>>

DropRow(u) ==
    /\ row[u] # 0 /\ u \notin onServer
    /\ row' = [row EXCEPT ![u] = 0] /\ bodySynced' = bodySynced \ {u}
    /\ UNCHANGED <<numbering, onServer, blob, reader, clashed>>

\* Messages go; under the next numbering their UIDs are in use again.
ExpungeMessage(u) ==
    /\ onServer' = onServer \ {u} /\ onServer' # onServer
    /\ UNCHANGED <<numbering, row, bodySynced, blob, reader, clashed>>

RenumberFolder ==
    /\ numbering < MaxNumbering /\ numbering' = numbering + 1 /\ onServer' = BodyUids
    /\ UNCHANGED <<row, bodySynced, blob, reader, clashed>>

\* Somebody empties the cache directory.
ClearBlobs ==
    /\ blob' = [u \in BodyUids |-> NoFile] /\ blob' # blob
    /\ UNCHANGED <<numbering, onServer, row, bodySynced, reader, clashed>>

NextBodies ==
    \/ \E r \in Readers :
         \/ \E u \in BodyUids, v \in 1..MaxNumbering : Open(r, u, v)
         \/ ReadBlob(r) \/ FetchRawBody(r) \/ CreateBlob(r) \/ WriteBlob(r)
         \/ SetMessageBodyCached(r) \/ Close(r)
    \/ ClearFolderMessages \/ StoreHeaders
    \/ \E u \in BodyUids : DropRow(u) \/ ExpungeMessage(u)
    \/ RenumberFolder \/ ClearBlobs

BodySpec == InitBodies /\ [][NextBodies]_bodyVars

-----------------------------------------------------------------------------
(* Properties. *)

Opens == [pc : {"idle", "read", "fetch", "write", "writing", "record", "shown"},
          uid : BodyUids \cup {0}, listed : 0..MaxNumbering, got : 0..Torn]

BodiesTypeOK ==
    /\ numbering \in 1..MaxNumbering /\ onServer \subseteq BodyUids
    /\ row \in [BodyUids -> 0..MaxNumbering] /\ bodySynced \subseteq {u \in BodyUids : row[u] # 0}
    /\ blob \in [BodyUids -> 0..Torn] /\ clashed \subseteq BodyUids
    /\ reader \in [Readers -> Opens]

\* The body shown is that of the message chosen, and all of it, whatever is fetched,
\* written and recorded at the same time, unless the folder was renumbered since
\* the message was listed, or two bodies clashed (message.go: cachedOrFetchRaw
\* records a body once its file is written; sync.go clears the rows of an old
\* numbering, and so what is known of their files).
BodyShownIsItsOwn ==
    \A r \in Readers :
      At(r, "shown") => \/ reader[r].got = reader[r].listed
                        \/ reader[r].listed # numbering
                        \/ Uid(r) \in clashed

=============================================================================
