--------------------------- MODULE StorageProofs ---------------------------
(***************************************************************************)
(* What is proved of what pigeon stores besides messages: the bodies, the  *)
(* folders of an account, the accounts and the database, for all processes *)
(* and bounds.  The types of each; that the body shown is that of the      *)
(* message chosen, that a synced folder is whole, that an account is as it *)
(* was asked to be, that the database implements Schema whoever migrates   *)
(* it, and that a draft gets the default it should.                        *)
(***************************************************************************)
EXTENDS BodyCache, AccountSync, Accounts, Database, FiniteSetTheorems, TLAPS

-----------------------------------------------------------------------------
(* The bodies: their invariant. *)

\* Nobody chose a message of a numbering to come, and none is cached.
NotAhead ==
    /\ \A u \in BodyUids : row[u] <= numbering
    /\ \A r \in Readers : reader[r].listed <= numbering

\* A body that was fetched is that of the message chosen.
Fetched ==
    \A r \in Readers :
        reader[r].pc \in {"write", "writing", "record"} =>
            /\ Uid(r) \in BodyUids
            /\ reader[r].listed = numbering => reader[r].got = numbering

\* Who writes the file of a UID is alone with it, and it is not recorded yet.
Alone(r) ==
    /\ Uid(r) \notin bodySynced
    /\ \A q \in Readers \ {r} :
         Uid(q) = Uid(r) => reader[q].pc \notin {"read", "writing", "record"}

WritesAlone ==
    \A r \in Readers :
        reader[r].pc \in {"writing", "record"} /\ Uid(r) \notin clashed =>
            /\ Alone(r)
            /\ At(r, "record") => blob[Uid(r)] \in {NoFile, reader[r].got}

\* The file of a recorded body is that of its row, and a file about to be read
\* that of the message chosen.
Recorded ==
    /\ \A u \in bodySynced \ clashed : blob[u] \in {NoFile, row[u]}
    /\ \A r \in Readers :
         At(r, "read") =>
            /\ Uid(r) \in BodyUids
            /\ Uid(r) \notin clashed /\ reader[r].listed = numbering
               => blob[Uid(r)] \in {NoFile, numbering}

BodyInv == BodiesTypeOK /\ NotAhead /\ Fetched /\ WritesAlone /\ Recorded /\ BodyShownIsItsOwn

-----------------------------------------------------------------------------

LEMMA InitBodyInv == InitBodies => BodyInv
<1> SUFFICES ASSUME InitBodies PROVE BodyInv
  OBVIOUS
<1>1. Idle \in Opens
  BY BodyCacheAssumption DEF Idle, Opens, Torn
<1>2. BodiesTypeOK
  BY <1>1, BodyCacheAssumption DEF InitBodies, BodiesTypeOK, NoFile, Torn
<1> QED BY <1>2 DEF InitBodies, BodyInv, NotAhead, Fetched, WritesAlone, Recorded,
        BodyShownIsItsOwn, At, Idle

\* What the actions take from and make of a reader.
LEMMA ReaderFields ==
    ASSUME BodiesTypeOK, NEW r \in Readers
    PROVE  /\ reader[r].listed \in Nat /\ reader[r].got \in 0..Torn /\ numbering \in 1..MaxNumbering
           /\ MaxNumbering \in Nat /\ Torn = MaxNumbering + 1 /\ NoFile = 0
           /\ Uid(r) \in BodyUids \cup {0}
  BY BodyCacheAssumption DEF BodiesTypeOK, Opens, Torn, NoFile, Uid

LEMMA ReaderTypes ==
    ASSUME BodiesTypeOK, NEW r \in Readers,
           NEW pc \in {"read", "fetch", "write", "writing", "record", "shown"}, NEW got \in 0..Torn,
           Goes(r, pc, got)
    PROVE  /\ reader' \in [Readers -> Opens]
           /\ reader'[r].pc = pc /\ reader'[r].got = got /\ Uid(r)' = Uid(r)
           /\ reader'[r].listed = reader[r].listed
           /\ \A q \in Readers \ {r} : reader'[q] = reader[q]
  BY DEF BodiesTypeOK, Goes, Opens, Uid

\* Open.
LEMMA OpenKeeps ==
    ASSUME BodyInv, NEW r \in Readers, NEW u \in BodyUids, NEW v \in 1..MaxNumbering, Open(r, u, v)
    PROVE  BodyInv'
<1> DEFINE pc == IF u \in bodySynced THEN "read" ELSE "fetch"
           X == [pc |-> pc, uid |-> u, listed |-> v, got |-> 0]
<1>1. /\ reader' = [reader EXCEPT ![r] = X]
      /\ UNCHANGED <<numbering, onServer, row, bodySynced, blob, clashed>>
      /\ v <= row[u] /\ row[u] <= numbering /\ row[u] \in Nat /\ numbering \in Nat
  BY DEF Open, BodyInv, NotAhead, BodiesTypeOK
<1>2. X \in Opens /\ 0 \in 0..Torn
  BY BodyCacheAssumption DEF Opens, Torn
<1>3. BodiesTypeOK'
  BY <1>1, <1>2 DEF BodyInv, BodiesTypeOK, Torn
<1>4. NotAhead'
  BY <1>1 DEF BodyInv, BodiesTypeOK, NotAhead
<1>5. Fetched'
  BY <1>1 DEF BodyInv, BodiesTypeOK, Fetched, Uid
<1>6. WritesAlone'
  BY <1>1 DEF BodyInv, BodiesTypeOK, WritesAlone, Alone, Uid, At
<1>7. Recorded'
  BY <1>1 DEF BodyInv, BodiesTypeOK, Recorded, Uid, At
<1>8. BodyShownIsItsOwn'
  BY <1>1 DEF BodyInv, BodiesTypeOK, BodyShownIsItsOwn, Uid, At
<1> QED BY <1>3, <1>4, <1>5, <1>6, <1>7, <1>8 DEF BodyInv

\* Reading, fetching and closing change no file.
LEMMA ReadsKeep ==
    ASSUME BodyInv, NEW r \in Readers, ReadBlob(r) \/ FetchRawBody(r) \/ Close(r)
    PROVE  BodyInv'
<1>0. /\ UNCHANGED <<numbering, onServer, row, bodySynced, blob, clashed>>
      /\ reader \in [Readers -> Opens] /\ numbering \in Nat
  BY DEF ReadBlob, FetchRawBody, Close, BodyInv, BodiesTypeOK
<1>1. PICK X \in Opens :
        /\ reader' = [reader EXCEPT ![r] = X]
        /\ X.listed <= numbering
        /\ X.pc \in {"idle", "fetch", "write", "shown"}
        /\ X.pc \in {"write", "shown"} => X.uid = Uid(r)
        /\ X.pc = "write" => X.uid \in BodyUids /\ X.got = numbering
        /\ X.pc = "shown" => X.got = X.listed \/ X.listed # numbering \/ X.uid \in clashed
  <2>1. CASE ReadBlob(r) /\ blob[Uid(r)] = NoFile
    <3>1. [reader[r] EXCEPT !.pc = "fetch", !.got = 0] \in Opens
      <4>1. reader[r] \in Opens /\ 0 \in 0..Torn
        BY <1>0, BodyCacheAssumption DEF Torn
      <4> QED BY <4>1 DEF Opens
    <3>2. reader' = [reader EXCEPT ![r] = [reader[r] EXCEPT !.pc = "fetch", !.got = 0]]
      BY <2>1 DEF ReadBlob, Goes
    <3> QED BY <1>0, <3>1, <3>2 DEF Opens, BodyInv, NotAhead
  <2>2. CASE ReadBlob(r) /\ blob[Uid(r)] # NoFile
    <3> DEFINE X == [reader[r] EXCEPT !.pc = "shown", !.got = blob[Uid(r)]]
    <3>1. Uid(r) \in BodyUids /\ blob[Uid(r)] \in 0..Torn
      BY <2>2 DEF ReadBlob, BodyInv, Recorded, BodiesTypeOK
    <3>2. X \in Opens /\ X.pc = "shown" /\ X.got = blob[Uid(r)] /\ X.uid = Uid(r) /\ X.listed = reader[r].listed
      BY <1>0, <3>1 DEF Opens, Uid
    <3>3. reader' = [reader EXCEPT ![r] = X]
      BY <2>2 DEF ReadBlob, Goes
    <3>4. Uid(r) \in clashed \/ reader[r].listed # numbering \/ blob[Uid(r)] = numbering
      BY <2>2 DEF ReadBlob, BodyInv, Recorded
    <3> HIDE DEF X
    <3> QED BY <3>2, <3>3, <3>4 DEF BodyInv, NotAhead
  <2>3. CASE FetchRawBody(r)
    <3> DEFINE X == [reader[r] EXCEPT !.pc = "write", !.got = numbering]
    <3>1. Uid(r) \in BodyUids /\ numbering \in 0..Torn
      BY <2>3, ReaderFields DEF FetchRawBody, BodyInv, BodiesTypeOK
    <3>2. X \in Opens /\ X.pc = "write" /\ X.got = numbering /\ X.uid = Uid(r) /\ X.listed = reader[r].listed
      BY <1>0, <3>1 DEF Opens, Uid
    <3>3. reader' = [reader EXCEPT ![r] = X]
      BY <2>3 DEF FetchRawBody, Goes
    <3> HIDE DEF X
    <3> QED BY <3>1, <3>2, <3>3 DEF BodyInv, NotAhead
  <2>4. CASE Close(r)
    <3>1. Idle \in Opens /\ Idle.pc = "idle" /\ Idle.listed = 0
      BY BodyCacheAssumption DEF Idle, Opens, Torn
    <3>2. reader' = [reader EXCEPT ![r] = Idle] /\ Idle.listed <= numbering
      BY <1>0, <2>4, <3>1 DEF Close
    <3> QED BY <3>1, <3>2
  <2> QED BY <2>1, <2>2, <2>3, <2>4
<1>2. BodiesTypeOK' /\ NotAhead'
  BY <1>0, <1>1 DEF BodyInv, BodiesTypeOK, NotAhead
<1>3. Fetched'
  BY <1>0, <1>1 DEF BodyInv, Fetched, Uid
<1>4. WritesAlone'
  BY <1>0, <1>1 DEF BodyInv, WritesAlone, Alone, Uid, At
<1>5. Recorded'
  BY <1>0, <1>1 DEF BodyInv, Recorded, Uid, At
<1>6. BodyShownIsItsOwn'
  BY <1>0, <1>1 DEF BodyInv, BodyShownIsItsOwn, Uid, At
<1> QED BY <1>2, <1>3, <1>4, <1>5, <1>6 DEF BodyInv

\* Writing the file and recording it.
LEMMA WritesKeep ==
    ASSUME BodyInv, NEW r \in Readers, CreateBlob(r) \/ WriteBlob(r) \/ SetMessageBodyCached(r)
    PROVE  BodyInv'
<1> DEFINE u == Uid(r)
           got == reader[r].got
<1>0. /\ UNCHANGED <<numbering, onServer, row>> /\ clashed \subseteq clashed'
      /\ reader[r].pc \in {"write", "writing", "record"}
      /\ blob \in [BodyUids -> 0..Torn] /\ bodySynced \subseteq BodyUids
      /\ numbering \in Nat
  BY DEF CreateBlob, WriteBlob, SetMessageBodyCached, Clash, At, BodyInv, BodiesTypeOK
<1>1. u \in BodyUids /\ got \in 0..Torn /\ Torn \in 0..Torn /\ NoFile = 0
      /\ (reader[r].listed = numbering => got = numbering)
  BY <1>0, ReaderFields DEF BodyInv, Fetched
<1>2. \E pc \in {"writing", "record", "shown"} : Goes(r, pc, got)
  BY DEF CreateBlob, WriteBlob, SetMessageBodyCached
<1>3. /\ reader' \in [Readers -> Opens] /\ reader'[r].got = got /\ Uid(r)' = u
      /\ reader'[r].listed = reader[r].listed
      /\ \A q \in Readers \ {r} : reader'[q] = reader[q] /\ Uid(q)' = Uid(q)
  BY <1>1, <1>2, ReaderTypes DEF BodyInv, Uid
<1>4. BodiesTypeOK'
  <2>1. blob' \in [BodyUids -> 0..Torn]
    BY <1>0, <1>1 DEF CreateBlob, WriteBlob, SetMessageBodyCached
  <2>2. clashed' \subseteq BodyUids
    BY <1>1 DEF CreateBlob, WriteBlob, SetMessageBodyCached, Clash, BodyInv, BodiesTypeOK
  <2>3. bodySynced' \subseteq {x \in BodyUids : row[x] # 0}
    BY <1>1 DEF CreateBlob, WriteBlob, SetMessageBodyCached, BodyInv, BodiesTypeOK
  <2> QED BY <1>0, <1>3, <2>1, <2>2, <2>3 DEF BodyInv, BodiesTypeOK, Torn
<1>5. NotAhead'
  BY <1>0, <1>3 DEF BodyInv, NotAhead
<1>6. Fetched'
  BY <1>0, <1>1, <1>3 DEF BodyInv, Fetched
<1>7. CASE CreateBlob(r)
  <2>1. /\ blob' = [blob EXCEPT ![u] = Torn] /\ bodySynced' = bodySynced
        /\ reader'[r].pc = "writing"
    BY <1>1, <1>7, ReaderTypes DEF CreateBlob, BodyInv
  <2>2. u \notin clashed' => /\ u \notin bodySynced
                             /\ \A q \in Readers : Uid(q) = u => reader[q].pc \notin {"read", "writing", "record"}
    BY <1>7 DEF CreateBlob
  <2>3. WritesAlone'
    BY <1>0, <1>1, <1>3, <2>1, <2>2 DEF BodyInv, WritesAlone, Alone, At
  <2>4. Recorded'
    <3>1. \A x \in bodySynced' \ clashed' : blob'[x] \in {NoFile, row'[x]}
      BY <1>0, <1>1, <2>1, <2>2 DEF BodyInv, Recorded
    <3>2. ASSUME NEW q \in Readers, At(q, "read")'
          PROVE  /\ Uid(q)' \in BodyUids
                 /\ Uid(q)' \notin clashed' /\ reader'[q].listed = numbering'
                    => blob'[Uid(q)'] \in {NoFile, numbering'}
      <4>1. q # r /\ At(q, "read") /\ reader'[q] = reader[q] /\ Uid(q)' = Uid(q)
        BY <1>3, <2>1, <3>2 DEF At
      <4>2. Uid(q) # u \/ u \in clashed'
        BY <2>2, <4>1 DEF At
      <4> QED BY <1>0, <1>1, <2>1, <4>1, <4>2 DEF BodyInv, Recorded
    <3> QED BY <3>1, <3>2 DEF Recorded
  <2>5. BodyShownIsItsOwn'
    BY <1>0, <1>3, <2>1 DEF BodyInv, BodyShownIsItsOwn, At
  <2> QED BY <1>4, <1>5, <1>6, <2>3, <2>4, <2>5 DEF BodyInv
<1>8. CASE WriteBlob(r)
  <2>1. /\ blob' = [blob EXCEPT ![u] = got] /\ bodySynced' = bodySynced
        /\ reader'[r].pc = "record" /\ reader[r].pc = "writing"
    BY <1>1, <1>8, ReaderTypes DEF WriteBlob, BodyInv, At
  <2>2. u \notin clashed' => /\ u \notin bodySynced
                             /\ \A q \in Readers \ {r} : Uid(q) = u => reader[q].pc \notin {"read", "writing", "record"}
    BY <1>0, <2>1 DEF BodyInv, WritesAlone, Alone
  <2>3. WritesAlone'
    BY <1>0, <1>1, <1>3, <2>1, <2>2 DEF BodyInv, WritesAlone, Alone, At
  <2>4. Recorded'
    <3>1. \A x \in bodySynced' \ clashed' : blob'[x] \in {NoFile, row'[x]}
      BY <1>0, <1>1, <2>1, <2>2 DEF BodyInv, Recorded
    <3>2. ASSUME NEW q \in Readers, At(q, "read")'
          PROVE  /\ Uid(q)' \in BodyUids
                 /\ Uid(q)' \notin clashed' /\ reader'[q].listed = numbering'
                    => blob'[Uid(q)'] \in {NoFile, numbering'}
      <4>1. q # r /\ At(q, "read") /\ reader'[q] = reader[q] /\ Uid(q)' = Uid(q)
        BY <1>3, <2>1, <3>2 DEF At
      <4>2. Uid(q) # u \/ u \in clashed'
        BY <2>2, <4>1 DEF At
      <4> QED BY <1>0, <1>1, <2>1, <4>1, <4>2 DEF BodyInv, Recorded
    <3> QED BY <3>1, <3>2 DEF Recorded
  <2>5. BodyShownIsItsOwn'
    BY <1>0, <1>3, <2>1 DEF BodyInv, BodyShownIsItsOwn, At
  <2> QED BY <1>4, <1>5, <1>6, <2>3, <2>4, <2>5 DEF BodyInv
<1>9. CASE SetMessageBodyCached(r)
  <2>1. /\ blob' = blob /\ bodySynced \subseteq bodySynced'
        /\ bodySynced' \subseteq bodySynced \cup {u} /\ (u \in bodySynced' => u \in bodySynced \/ row[u] # 0)
        /\ reader'[r].pc = "shown" /\ reader[r].pc = "record"
        /\ (row[u] \in {0, got} \/ u \in clashed')
    BY <1>1, <1>9, ReaderTypes DEF SetMessageBodyCached, BodyInv, At, Clash
  <2>2. u \notin clashed' => /\ blob[u] \in {NoFile, got} /\ u \notin bodySynced
                             /\ \A q \in Readers \ {r} : Uid(q) = u => reader[q].pc \notin {"read", "writing", "record"}
    BY <1>0, <2>1 DEF BodyInv, WritesAlone, Alone, At
  <2>3. WritesAlone'
    BY <1>0, <1>1, <1>3, <2>1, <2>2 DEF BodyInv, WritesAlone, Alone, At
  <2>4. Recorded'
    <3>1. \A x \in bodySynced' \ clashed' : blob'[x] \in {NoFile, row'[x]}
      BY <1>0, <1>1, <2>1, <2>2 DEF BodyInv, Recorded
    <3>2. \A q \in Readers : At(q, "read")' => q # r /\ At(q, "read")
      BY <1>3, <2>1 DEF At
    <3> QED BY <1>0, <1>3, <2>1, <3>1, <3>2 DEF BodyInv, Recorded
  <2>5. BodyShownIsItsOwn'
    BY <1>0, <1>1, <1>3, <2>1 DEF BodyInv, BodyShownIsItsOwn, At
  <2> QED BY <1>4, <1>5, <1>6, <2>3, <2>4, <2>5 DEF BodyInv
<1> QED BY <1>7, <1>8, <1>9

\* What syncs, edits and the server do.
LEMMA SyncsKeep ==
    ASSUME BodyInv,
           \/ ClearFolderMessages \/ StoreHeaders \/ RenumberFolder \/ ClearBlobs
           \/ \E u \in BodyUids : DropRow(u) \/ ExpungeMessage(u)
    PROVE  BodyInv'
<1>0. /\ UNCHANGED <<reader, clashed>> /\ numbering \in Nat /\ numbering' \in 1..MaxNumbering
      /\ numbering' \in {numbering, numbering + 1} /\ onServer' \subseteq BodyUids
      /\ row \in [BodyUids -> 0..MaxNumbering] /\ blob \in [BodyUids -> 0..Torn]
      /\ \A r \in Readers : reader[r].listed \in Nat /\ reader[r].listed <= numbering
  BY BodyCacheAssumption, ReaderFields DEF ClearFolderMessages, StoreHeaders, RenumberFolder, ClearBlobs,
     DropRow, ExpungeMessage, BodyInv, BodiesTypeOK, NotAhead
<1>1. /\ row' \in [BodyUids -> 0..MaxNumbering]
      /\ \A x \in BodyUids : row'[x] \in {0, row[x], numbering}
      /\ bodySynced' \subseteq bodySynced
      /\ \A x \in bodySynced' : row'[x] = row[x]
  <2>1. CASE StoreHeaders
    <3>1. PICK x \in BodyUids : row[x] = 0 /\ row' = [row EXCEPT ![x] = numbering]
      BY <2>1 DEF StoreHeaders
    <3> QED BY <1>0, <2>1, <3>1 DEF StoreHeaders, BodyInv, BodiesTypeOK
  <2>2. CASE \E x \in BodyUids : DropRow(x) \/ ExpungeMessage(x)
    <3>1. PICK x \in BodyUids : DropRow(x) \/ ExpungeMessage(x)
      BY <2>2
    <3>2. CASE DropRow(x)
      BY <1>0, <3>2, BodyCacheAssumption DEF DropRow, BodyInv, BodiesTypeOK
    <3>3. CASE ExpungeMessage(x)
      BY <1>0, <3>3 DEF ExpungeMessage
    <3> QED BY <3>1, <3>2, <3>3
  <2>3. CASE ClearFolderMessages
    BY <1>0, <2>3, BodyCacheAssumption DEF ClearFolderMessages
  <2>4. CASE RenumberFolder \/ ClearBlobs
    BY <1>0, <2>4 DEF RenumberFolder, ClearBlobs
  <2> QED BY <2>1, <2>2, <2>3, <2>4
<1>2. /\ blob' \in [BodyUids -> 0..Torn]
      /\ \A x \in BodyUids : blob'[x] \in {NoFile, blob[x]}
  BY <1>0, BodyCacheAssumption DEF ClearFolderMessages, StoreHeaders, RenumberFolder, ClearBlobs,
     DropRow, ExpungeMessage, NoFile, Torn
<1>3. BodiesTypeOK'
  <2>1. \A x \in bodySynced' : x \in BodyUids /\ row'[x] # 0
    BY <1>1 DEF BodyInv, BodiesTypeOK
  <2> QED BY <1>0, <1>1, <1>2, <2>1 DEF BodyInv, BodiesTypeOK, Torn
<1>4. NotAhead'
  BY <1>0, <1>1, BodyCacheAssumption DEF BodyInv, NotAhead
<1>5. \A r \in Readers : reader[r].listed = numbering' => numbering' = numbering
  BY <1>0
<1>6. Fetched'
  BY <1>0, <1>5 DEF BodyInv, Fetched, Uid
<1>7. WritesAlone'
  <2>1. \A r \in Readers : Alone(r) => Alone(r)'
    BY <1>0, <1>1 DEF Alone, Uid
  <2> QED BY <1>0, <1>2, <2>1 DEF BodyInv, WritesAlone, Uid, At, Fetched
<1>8. Recorded'
  <2>1. bodySynced \subseteq BodyUids
    BY DEF BodyInv, BodiesTypeOK
  <2> QED BY <1>0, <1>1, <1>2, <1>5, <2>1 DEF BodyInv, Recorded, Uid, At
<1>9. BodyShownIsItsOwn'
  BY <1>0, <1>5 DEF BodyInv, BodyShownIsItsOwn, Uid, At
<1> QED BY <1>3, <1>4, <1>6, <1>7, <1>8, <1>9 DEF BodyInv

LEMMA NextBodyInv == BodyInv /\ [NextBodies]_bodyVars => BodyInv'
<1> SUFFICES ASSUME BodyInv, [NextBodies]_bodyVars PROVE BodyInv'
  OBVIOUS
<1>1. CASE UNCHANGED bodyVars
  BY <1>1 DEF bodyVars, BodyInv, BodiesTypeOK, NotAhead, Fetched, WritesAlone, Alone, Recorded,
       BodyShownIsItsOwn, At, Uid
<1> QED BY <1>1, OpenKeeps, ReadsKeep, WritesKeep, SyncsKeep DEF NextBodies

-----------------------------------------------------------------------------

\* The files, rows and opens are well typed in every reachable state.
THEOREM BodiesTypeCorrect == BodySpec => []BodiesTypeOK
<1>1. BodyInv => BodiesTypeOK
  BY DEF BodyInv
<1> QED BY <1>1, InitBodyInv, NextBodyInv, PTL DEF BodySpec

\* The body shown is that of the message chosen, unless the folder was renumbered
\* since or two bodies clashed, for any readers and UIDs (message.go,
\* cachedOrFetchRaw).
THEOREM BodyShownIsTheOneChosen == BodySpec => []BodyShownIsItsOwn
<1>1. BodyInv => BodyShownIsItsOwn
  BY DEF BodyInv
<1> QED BY <1>1, InitBodyInv, NextBodyInv, PTL DEF BodySpec

-----------------------------------------------------------------------------
(* The folders of an account: the invariant, with what a sync knows of the *)
(* folder it is at.                                                        *)

InFolder(s) == pass[s].pc \in {"select", "store", "record"}

PassRecords == [pc : {"none", "known", "next", "select", "store", "record"},
            listed : SUBSET Paths, todo : SUBSET Paths, prior : SUBSET Paths,
            path : Paths \cup {Nothing}, id : RowIds \cup {0}, fetched : BOOLEAN,
            removed : SUBSET Paths]

PassTyped(s) ==
    /\ pass[s] \in PassRecords
    /\ InFolder(s) => pass[s].path \in Paths /\ pass[s].id \in RowIds
    /\ pass[s].pc \in {"none", "known"} => pass[s].prior = {}

\* Two folders never have the same row, and one that was recorded has one.
RowsDiffer == \A p, q \in RowPaths : folderRow[p].id = folderRow[q].id => p = q
RecordedHasRow == \A p \in Paths : folderRow[p].recorded => folderRow[p].id # 0

\* What a row has is of its own folder.
OwnOrNone == \A p \in RowPaths \ undercut : message[folderRow[p].id] \in {Nothing, p}

\* The row a sync works in is that of its folder, the folders it takes for
\* recorded are, and what it is about to record, or will not fetch, is there:
\* each unless the row was removed since it began.
HasRow(s) ==
    InFolder(s) /\ pass[s].path \notin pass[s].removed
        => folderRow[pass[s].path].id = pass[s].id
PriorHolds(s) == \A p \in pass[s].prior \ pass[s].removed : folderRow[p].recorded
HasMessage(s) ==
    /\ InFolder(s) /\ pass[s].path \notin pass[s].removed \cup undercut
    /\ pass[s].pc = "record" \/ (pass[s].pc = "store" /\ ~ pass[s].fetched)
    => message[pass[s].id] = pass[s].path
PassSound(s) == PassTyped(s) /\ HasRow(s) /\ PriorHolds(s) /\ HasMessage(s)

PassIsMap == pass = [s \in Passes |-> pass[s]]

FoldersInv ==
    /\ AccountSyncTypeOK /\ RowsDiffer /\ RecordedHasRow /\ OwnOrNone /\ FoldersWhole
    /\ PassIsMap /\ \A s \in Passes : PassSound(s)

LEMMA RowIdsAreNumbers == RowIds \subseteq Nat \ {0} /\ 1 \in RowIds
<1>1. Cardinality(Paths) \in Nat /\ MaxEvents \in Nat
  BY AccountSyncAssumption, FS_CardinalityType
<1> QED BY <1>1 DEF RowIds

LEMMA RowFacts ==
    ASSUME FoldersInv
    PROVE  /\ \A p \in Paths : /\ folderRow[p] \in [id : RowIds \cup {0}, recorded : BOOLEAN]
                               /\ folderRow[p].id \in Nat
           /\ \A p \in RowPaths : folderRow[p].id \in DOMAIN message
           /\ \A s \in Passes : PassSound(s)
           /\ undercut \subseteq Paths /\ RowPaths \subseteq Paths
<1>1. \A p \in Paths : folderRow[p] \in [id : RowIds \cup {0}, recorded : BOOLEAN]
  BY DEF FoldersInv, AccountSyncTypeOK
<1>2. DOMAIN message = {folderRow[p].id : p \in RowPaths}
  BY DEF FoldersInv, AccountSyncTypeOK
<1>3. RowPaths \subseteq Paths /\ undercut \subseteq Paths
  BY DEF FoldersInv, AccountSyncTypeOK, RowPaths
<1>4. \A p \in Paths : folderRow[p].id \in Nat
  <2>1. \A p \in Paths : folderRow[p].id \in RowIds \cup {0}
    BY <1>1
  <2>2. \A i \in RowIds : i \in Nat
    BY RowIdsAreNumbers
  <2> QED BY <2>1, <2>2
<1>5. \A p \in RowPaths : folderRow[p].id \in DOMAIN message
  BY <1>2
<1> QED BY <1>1, <1>3, <1>4, <1>5 DEF FoldersInv

\* A pass becomes x.
LEMMA OnePass ==
    ASSUME PassIsMap, NEW s \in Passes, NEW x, pass' = [pass EXCEPT ![s] = x]
    PROVE  PassIsMap' /\ pass'[s] = x /\ \A r \in Passes : r # s => pass'[r] = pass[r]
BY DEF PassIsMap

\* A step that changes neither rows nor messages, of one pass.
LEMMA PassGoes ==
    ASSUME FoldersInv, NEW s \in Passes, NEW x, pass' = [pass EXCEPT ![s] = x],
           remote' \subseteq Paths, UNCHANGED <<folderRow, message, undercut>>,
           PassSound(s)'
    PROVE  FoldersInv'
<1>1. PassIsMap' /\ \A r \in Passes : r # s => pass'[r] = pass[r]
  BY OnePass DEF FoldersInv
<1>2. \A r \in Passes : r # s => PassSound(r)'
  <2> SUFFICES ASSUME NEW r \in Passes, r # s PROVE PassSound(r)'
    OBVIOUS
  <2>1. PassSound(r) /\ pass'[r] = pass[r]
    BY <1>1 DEF FoldersInv
  <2> QED BY <2>1 DEF PassSound, PassTyped, PassRecords, HasRow, PriorHolds, HasMessage, InFolder
<1>3. AccountSyncTypeOK' /\ RowsDiffer' /\ RecordedHasRow' /\ OwnOrNone' /\ FoldersWhole'
  BY DEF FoldersInv, AccountSyncTypeOK, RowsDiffer, RecordedHasRow, OwnOrNone, FoldersWhole, RowPaths
<1> QED BY <1>1, <1>2, <1>3 DEF FoldersInv

LEMMA NoPassFacts == NoPass \in PassRecords /\ NoPass.pc = "none" /\ NoPass.prior = {}
BY DEF NoPass, PassRecords

LEMMA InitFolders == InitAccountSync => FoldersInv
<1> SUFFICES ASSUME InitAccountSync PROVE FoldersInv
  OBVIOUS
<1>1. RowPaths = {} /\ DOMAIN message = {}
  BY DEF InitAccountSync, RowPaths, NoFolderRow
<1>2. AccountSyncTypeOK
  BY <1>1 DEF InitAccountSync, AccountSyncTypeOK, NoFolderRow
<1>3. \A s \in Passes : PassSound(s)
  <2> SUFFICES ASSUME NEW s \in Passes PROVE PassSound(s)
    OBVIOUS
  <2>1. pass[s] = NoPass
    BY DEF InitAccountSync
  <2> QED BY <2>1, NoPassFacts DEF PassSound, PassTyped, HasRow, PriorHolds, HasMessage, InFolder
<1>4. RecordedHasRow /\ PassIsMap
  BY DEF InitAccountSync, RecordedHasRow, NoFolderRow, PassIsMap
<1> QED BY <1>1, <1>2, <1>3, <1>4 DEF FoldersInv, RowsDiffer, OwnOrNone, FoldersWhole

\* A sync begins, goes on, fails in a folder or ends; folders come and go.
LEMMA PassesKeep ==
    ASSUME FoldersInv, NEW s \in Passes,
           BeginSync(s) \/ ReadPrior(s) \/ FolderFails(s) \/ EndSync(s)
    PROVE  FoldersInv'
<1>0. PassSound(s) /\ remote \subseteq Paths
  BY DEF FoldersInv, AccountSyncTypeOK
<1>1. CASE BeginSync(s)
  <2> DEFINE x == [NoPass EXCEPT !.pc = "known", !.listed = remote, !.todo = remote]
  <2>1. x \in PassRecords /\ x.pc = "known" /\ x.prior = {}
    BY <1>0, NoPassFacts DEF PassRecords
  <2>2. pass' = [pass EXCEPT ![s] = x] /\ UNCHANGED <<remote, folderRow, message, undercut>>
    BY <1>1 DEF BeginSync
  <2>3. pass'[s] = x
    BY <2>2, OnePass DEF FoldersInv
  <2> HIDE DEF x
  <2>4. PassTyped(s)'
    BY <2>1, <2>3 DEF PassTyped, InFolder
  <2>5. pass'[s].pc = "known" /\ pass'[s].prior = {}
    BY <2>1, <2>3
  <2>6. PassSound(s)'
    BY <2>4, <2>5 DEF PassSound, HasRow, PriorHolds, HasMessage, InFolder
  <2> QED BY <1>0, <2>2, <2>6, PassGoes
<1>2. CASE ReadPrior(s)
  <2> DEFINE x == [pass[s] EXCEPT !.pc = "next", !.prior = {p \in Paths : folderRow[p].recorded}]
  <2>2. pass' = [pass EXCEPT ![s] = x] /\ UNCHANGED <<remote, folderRow, message, undercut>>
    BY <1>2 DEF ReadPrior
  <2>3. pass'[s] = x
    BY <2>2, OnePass DEF FoldersInv
  <2>4. PassSound(s)'
    <3>1. pass[s] \in PassRecords
      BY <1>0 DEF PassSound, PassTyped
    <3>2. x.pc = "next" /\ x.prior = {p \in Paths : folderRow[p].recorded}
      BY <3>1 DEF PassRecords
    <3>3. UNCHANGED folderRow
      BY <2>2
    <3> QED BY <2>3, <3>1, <3>2, <3>3 DEF PassSound, PassTyped, PassRecords, HasRow, PriorHolds, HasMessage, InFolder
  <2> QED BY <1>0, <2>2, <2>4, PassGoes
<1>3. CASE FolderFails(s)
  <2> DEFINE x == [pass[s] EXCEPT !.pc = "next"]
  <2>2. pass' = [pass EXCEPT ![s] = x] /\ UNCHANGED <<remote, folderRow, message, undercut>>
    BY <1>3 DEF FolderFails, FailAt, Go
  <2>3. pass'[s] = x
    BY <2>2, OnePass DEF FoldersInv
  <2>4. PassSound(s)'
    <3>1. UNCHANGED folderRow
      BY <2>2
    <3> QED BY <1>0, <2>3, <3>1 DEF PassSound, PassTyped, PassRecords, HasRow, PriorHolds, HasMessage, InFolder
  <2> QED BY <1>0, <2>2, <2>4, PassGoes
<1>4. CASE EndSync(s)
  <2>2. pass' = [pass EXCEPT ![s] = NoPass] /\ UNCHANGED <<remote, folderRow, message, undercut>>
    BY <1>4 DEF EndSync
  <2>3. pass'[s] = NoPass
    BY <2>2, OnePass DEF FoldersInv
  <2>4. PassSound(s)'
    BY <2>3, NoPassFacts DEF PassSound, PassTyped, HasRow, PriorHolds, HasMessage, InFolder
  <2> QED BY <1>0, <2>2, <2>4, PassGoes
<1> QED BY <1>1, <1>2, <1>3, <1>4

LEMMA ChangeKeeps ==
    ASSUME FoldersInv, NEW p \in Paths, ChangeFolders(p)
    PROVE  FoldersInv'
<1>1. remote' \subseteq Paths /\ UNCHANGED <<folderRow, message, pass, undercut>>
  BY DEF ChangeFolders, FoldersInv, AccountSyncTypeOK
<1>2. AccountSyncTypeOK' /\ RowsDiffer' /\ RecordedHasRow' /\ OwnOrNone' /\ FoldersWhole'
  BY <1>1 DEF FoldersInv, AccountSyncTypeOK, RowsDiffer, RecordedHasRow, OwnOrNone, FoldersWhole, RowPaths
<1>3. PassIsMap' /\ \A s \in Passes : PassSound(s)'
  BY <1>1 DEF FoldersInv, PassIsMap, PassSound, PassTyped, HasRow, PriorHolds, HasMessage, InFolder
<1> QED BY <1>2, <1>3 DEF FoldersInv

\* A sync selects its folder, and finds out what to fetch.
LEMMA SelectKeeps ==
    ASSUME FoldersInv, NEW s \in Passes, SelectAndDiff(s)
    PROVE  FoldersInv'
<1> DEFINE p == pass[s].path
           fetched == /\ p \notin pass[s].prior
                      /\ \A i \in DOMAIN message : i = pass[s].id => message[i] = Nothing
           x == [pass[s] EXCEPT !.pc = "store", !.fetched = fetched]
           y == [pass[s] EXCEPT !.pc = "next"]
<1>0. PassSound(s) /\ remote \subseteq Paths /\ InFolder(s) /\ UNCHANGED <<remote, folderRow, message, undercut>>
  BY DEF FoldersInv, AccountSyncTypeOK, SelectAndDiff, On, InFolder
<1>t. /\ pass[s] \in PassRecords
      /\ p \in Paths /\ pass[s].id \in RowIds
  BY <1>0 DEF PassSound, PassTyped
<1>1. CASE pass' = [pass EXCEPT ![s] = x]
  <2>1. pass'[s] = x
    BY <1>1, OnePass DEF FoldersInv
  <2>2. /\ x.pc = "store" /\ x.fetched = fetched /\ x.path = p /\ x.id = pass[s].id
        /\ x.removed = pass[s].removed /\ x.prior = pass[s].prior
    BY <1>t DEF PassRecords
  <2>3. fetched \in BOOLEAN
    OBVIOUS
  <2>4. PassTyped(s)'
    BY <1>t, <2>1, <2>3 DEF PassTyped, PassRecords, InFolder
  <2>5. ASSUME p \notin pass[s].removed, p \notin undercut, ~ fetched
        PROVE  message[pass[s].id] = p
    <3>1. folderRow[p].id = pass[s].id /\ p \in RowPaths
      BY <1>0, <1>t, <2>5, RowIdsAreNumbers DEF PassSound, HasRow, RowPaths
    <3>2. pass[s].id \in DOMAIN message /\ message[pass[s].id] \in {Nothing, p}
      BY <2>5, <3>1, RowFacts DEF FoldersInv, OwnOrNone
    <3>3. CASE p \in pass[s].prior
      <4>1. folderRow[p].recorded
        BY <1>0, <2>5, <3>3 DEF PassSound, PriorHolds
      <4> QED BY <2>5, <3>1, <4>1 DEF FoldersInv, FoldersWhole
    <3>4. CASE p \notin pass[s].prior
      BY <2>5, <3>2, <3>4
    <3> QED BY <3>3, <3>4
  <2> HIDE DEF fetched, x
  <2>6. HasMessage(s)'
    BY <1>0, <2>1, <2>2, <2>5 DEF HasMessage
  <2>7. HasRow(s)' /\ PriorHolds(s)'
    BY <1>0, <2>1, <2>2 DEF PassSound, HasRow, PriorHolds
  <2>8. PassSound(s)'
    BY <2>4, <2>6, <2>7 DEF PassSound
  <2> QED BY <1>0, <1>1, <2>8, PassGoes
<1>2. CASE pass' = [pass EXCEPT ![s] = y]
  <2>1. pass'[s] = y
    BY <1>2, OnePass DEF FoldersInv
  <2>2. PassSound(s)'
    BY <1>0, <1>t, <2>1 DEF PassSound, PassTyped, PassRecords, HasRow, PriorHolds, HasMessage, InFolder
  <2> QED BY <1>0, <1>2, <2>2, PassGoes
<1> QED BY <1>1, <1>2 DEF SelectAndDiff, Go

\* A folder without a row gets one, that no other has.
LEMMA UpsertKeeps ==
    ASSUME FoldersInv, NEW s \in Passes, NEW p \in Paths, UpsertFolder(s, p)
    PROVE  FoldersInv'
<1>0. /\ PassSound(s) /\ PassTyped(s) /\ pass[s] \in PassRecords /\ remote' = remote
      /\ remote \subseteq Paths /\ undercut' = undercut
  BY DEF FoldersInv, AccountSyncTypeOK, PassSound, PassTyped, UpsertFolder
<1>1. PICK i \in RowIds :
        /\ IF folderRow[p].id # 0 THEN i = folderRow[p].id /\ UNCHANGED <<folderRow, message>>
           ELSE /\ \A q \in Paths : folderRow[q].id < i
                /\ i = 1 \/ \E q \in Paths : folderRow[q].id = i - 1
                /\ folderRow' = [folderRow EXCEPT ![p] = [id |-> i, recorded |-> FALSE]]
                /\ message' = [j \in DOMAIN message \cup {i} |-> IF j = i THEN Nothing ELSE message[j]]
        /\ pass' = [pass EXCEPT ![s].pc = "select", ![s].path = p, ![s].id = i,
                                ![s].todo = @ \ {p}]
  BY DEF UpsertFolder
<1> DEFINE x == [pass[s] EXCEPT !.pc = "select", !.path = p, !.id = i, !.todo = @ \ {p}]
<1>2. pass' = [pass EXCEPT ![s] = x]
  BY <1>1
<1>3. /\ x \in PassRecords /\ x.pc = "select" /\ x.path = p /\ x.id = i
      /\ x.prior = pass[s].prior /\ x.removed = pass[s].removed
  BY <1>0 DEF PassRecords
<1> HIDE DEF x
<1>4. PassIsMap' /\ pass'[s] = x /\ \A r \in Passes : r # s => pass'[r] = pass[r]
  BY <1>2, OnePass DEF FoldersInv
<1>5. CASE folderRow[p].id # 0
  <2>1. i = folderRow[p].id /\ UNCHANGED <<folderRow, message, undercut>>
    BY <1>0, <1>1, <1>5
  <2>2. PassTyped(s)'
    BY <1>3, <1>4 DEF PassTyped, InFolder
  <2>3. HasRow(s)' /\ HasMessage(s)'
    BY <1>3, <1>4, <2>1 DEF HasRow, HasMessage
  <2>4. PriorHolds(s)'
    BY <1>0, <1>3, <1>4, <2>1 DEF PassSound, PriorHolds
  <2>5. PassSound(s)'
    BY <2>2, <2>3, <2>4 DEF PassSound
  <2> QED BY <1>0, <1>2, <2>1, <2>5, PassGoes
<1>6. CASE folderRow[p].id = 0
  <2>1. /\ \A q \in Paths : folderRow[q].id < i
        /\ folderRow' = [folderRow EXCEPT ![p] = [id |-> i, recorded |-> FALSE]]
        /\ message' = [j \in DOMAIN message \cup {i} |-> IF j = i THEN Nothing ELSE message[j]]
    BY <1>1, <1>6
  <2>2. /\ folderRow \in [Paths -> [id : RowIds \cup {0}, recorded : BOOLEAN]]
        /\ DOMAIN message = {folderRow[q].id : q \in RowPaths}
        /\ \A j \in DOMAIN message : message[j] \in Paths \cup {Nothing}
        /\ i \in Nat /\ i # 0
    BY RowIdsAreNumbers DEF FoldersInv, AccountSyncTypeOK
  <2>3. /\ folderRow' \in [Paths -> [id : RowIds \cup {0}, recorded : BOOLEAN]]
        /\ folderRow'[p].id = i /\ ~ folderRow'[p].recorded
        /\ \A q \in Paths : q # p => folderRow'[q] = folderRow[q]
    BY <2>1, <2>2
  <2>4. RowPaths' = RowPaths \cup {p} /\ p \notin RowPaths
    BY <1>6, <2>2, <2>3 DEF RowPaths
  <2>5. i \notin DOMAIN message /\ \A q \in Paths : folderRow[q].id # i
    <3>1. \A q \in Paths : folderRow[q].id \in Nat
      BY RowFacts
    <3>2. \A q \in Paths : folderRow[q].id # i
      BY <2>1, <2>2, <3>1
    <3> QED BY <2>2, <3>2 DEF RowPaths
  <2>6. /\ DOMAIN message' = DOMAIN message \cup {i} /\ message'[i] = Nothing
        /\ \A j \in DOMAIN message : message'[j] = message[j]
    BY <2>1, <2>5
  <2>7. DOMAIN message' = {folderRow'[q].id : q \in RowPaths'}
    <3>1. \A q \in RowPaths : folderRow'[q] = folderRow[q]
      BY <2>3, <2>4 DEF RowPaths
    <3> QED BY <2>2, <2>3, <2>4, <2>6, <3>1
  <2>8. AccountSyncTypeOK'
    BY <1>0, <2>2, <2>3, <2>6, <2>7 DEF FoldersInv, AccountSyncTypeOK
  <2>9. RowsDiffer'
    <3>1. RowPaths \subseteq Paths
      BY DEF RowPaths
    <3> QED BY <2>3, <2>4, <2>5, <3>1 DEF FoldersInv, RowsDiffer
  <2>10. RecordedHasRow'
    BY <2>3 DEF FoldersInv, RecordedHasRow
  <2>11. \A q \in RowPaths : folderRow'[q] = folderRow[q] /\ folderRow[q].id \in DOMAIN message
    BY <2>3, <2>4, RowFacts DEF RowPaths
  <2>12. OwnOrNone' /\ FoldersWhole'
    BY <1>0, <2>3, <2>4, <2>6, <2>11 DEF FoldersInv, OwnOrNone, FoldersWhole
  <2>13. PassTyped(s)' /\ HasRow(s)' /\ HasMessage(s)'
    BY <1>3, <1>4, <2>3 DEF PassTyped, HasRow, HasMessage, InFolder
  <2>14. \A q \in Paths : folderRow[q].recorded => folderRow'[q] = folderRow[q]
    BY <1>6, <2>3 DEF FoldersInv, RecordedHasRow
  <2>15. \A r \in Passes : PassSound(r) /\ pass[r].prior \subseteq Paths
    BY DEF FoldersInv, PassSound, PassTyped, PassRecords
  <2>16. PriorHolds(s)'
    BY <1>3, <1>4, <2>14, <2>15 DEF PassSound, PriorHolds
  <2>17. ASSUME NEW r \in Passes, r # s PROVE PassSound(r)'
    <3>1. pass'[r] = pass[r] /\ PassTyped(r) /\ HasRow(r) /\ PriorHolds(r) /\ HasMessage(r)
      BY <1>4, <2>15, <2>17 DEF PassSound
    <3>2. PassTyped(r)' /\ PriorHolds(r)'
      BY <2>14, <2>15, <3>1 DEF PassTyped, PriorHolds, InFolder
    <3>3. ASSUME InFolder(r), pass[r].path \notin pass[r].removed
          PROVE  /\ folderRow'[pass[r].path] = folderRow[pass[r].path]
                 /\ folderRow[pass[r].path].id = pass[r].id /\ pass[r].id \in DOMAIN message
      <4>1. pass[r].path \in Paths /\ pass[r].id \in RowIds /\ folderRow[pass[r].path].id = pass[r].id
        BY <3>1, <3>3 DEF PassTyped, HasRow
      <4>2. pass[r].path \in RowPaths
        BY <4>1, RowIdsAreNumbers DEF RowPaths
      <4> QED BY <2>11, <4>1, <4>2
    <3>4. HasRow(r)'
      BY <3>1, <3>3 DEF HasRow, InFolder
    <3>5. HasMessage(r)'
      BY <1>0, <2>6, <3>1, <3>3 DEF HasMessage, InFolder
    <3> QED BY <3>2, <3>4, <3>5 DEF PassSound
  <2>18. \A r \in Passes : PassSound(r)'
    BY <2>13, <2>16, <2>17 DEF PassSound
  <2> QED BY <1>4, <2>8, <2>9, <2>10, <2>12, <2>18 DEF FoldersInv
<1> QED BY <1>5, <1>6

\* The folders whose rows a sync writes to: its own, or else they are undercut.
LEMMA OwnerFacts ==
    ASSUME FoldersInv, NEW s \in Passes, InFolder(s)
    PROVE  /\ Owner(s) \subseteq RowPaths
           /\ pass[s].path \notin pass[s].removed => Owner(s) = {pass[s].path}
           /\ \A p \in Paths : p \in Owner(s) <=> folderRow[p].id = pass[s].id
<1>1. PassTyped(s) /\ HasRow(s) /\ RowsDiffer
  BY DEF FoldersInv, PassSound
<1>2. pass[s].path \in Paths /\ pass[s].id # 0
  BY <1>1, RowIdsAreNumbers DEF PassTyped
<1>3. Owner(s) \subseteq RowPaths
  BY <1>2 DEF Owner, RowPaths
<1>4. ASSUME pass[s].path \notin pass[s].removed PROVE Owner(s) = {pass[s].path}
  <2>1. folderRow[pass[s].path].id = pass[s].id
    BY <1>1, <1>4 DEF HasRow
  <2>2. pass[s].path \in Owner(s)
    BY <1>2, <2>1 DEF Owner
  <2>3. \A p \in Owner(s) : p = pass[s].path
    BY <1>1, <1>3, <2>1, <2>2 DEF RowsDiffer, Owner
  <2> QED BY <2>2, <2>3
<1> QED BY <1>3, <1>4 DEF Owner

\* What is stored is of the folder, or its row is undercut.
LEMMA StoreKeeps ==
    ASSUME FoldersInv, NEW s \in Passes, StoreMessage(s)
    PROVE  FoldersInv'
<1> DEFINE i == pass[s].id
           p == pass[s].path
<1>0. /\ PassSound(s) /\ pass[s] \in PassRecords /\ remote' = remote /\ remote \subseteq Paths
      /\ InFolder(s) /\ p \in Paths /\ i \in RowIds /\ pass[s].pc = "store"
      /\ UNCHANGED <<remote, folderRow>>
  BY DEF FoldersInv, AccountSyncTypeOK, PassSound, PassTyped, StoreMessage, StoreIn, On, InFolder
<1>1. ASSUME NEW pc \in {"next", "record"}, Go(s, pc)
      PROVE  \E x \in PassRecords :
               /\ pass' = [pass EXCEPT ![s] = x] /\ x.pc = pc /\ x.path = p /\ x.id = i
               /\ x.prior = pass[s].prior /\ x.removed = pass[s].removed
  <2>1. [pass[s] EXCEPT !.pc = pc] \in PassRecords
    BY <1>0 DEF PassRecords
  <2> QED BY <1>0, <1>1, <2>1 DEF Go, PassRecords
<1>2. CASE \/ pass[s].fetched /\ i \notin DOMAIN message /\ Go(s, "next") /\ UNCHANGED <<message, undercut>>
           \/ ~ pass[s].fetched /\ Go(s, "record") /\ UNCHANGED <<message, undercut>>
  <2>1. PICK pc \in {"next", "record"} : Go(s, pc) /\ (pc = "record" => ~ pass[s].fetched)
    BY <1>2
  <2>2. PICK x \in PassRecords :
               /\ pass' = [pass EXCEPT ![s] = x] /\ x.pc = pc /\ x.path = p /\ x.id = i
               /\ x.prior = pass[s].prior /\ x.removed = pass[s].removed
    BY <1>1, <2>1
  <2>3. pass'[s] = x
    BY <2>2, OnePass DEF FoldersInv
  <2>4. UNCHANGED <<folderRow, message, undercut>>
    BY <1>0, <1>2
  <2>5. PassTyped(s)' /\ HasRow(s)' /\ PriorHolds(s)'
    BY <1>0, <2>2, <2>3, <2>4 DEF PassSound, PassTyped, HasRow, PriorHolds, InFolder
  <2>6. HasMessage(s)'
    BY <1>0, <2>1, <2>2, <2>3, <2>4 DEF PassSound, HasMessage, InFolder
  <2>7. PassSound(s)'
    BY <2>5, <2>6 DEF PassSound
  <2> QED BY <1>0, <2>2, <2>4, <2>7, PassGoes
<1>3. CASE /\ i \in DOMAIN message /\ Go(s, "record") /\ Undercuts(s)
           /\ message' = [j \in DOMAIN message \cup {i} |-> IF j = i THEN p ELSE message[j]]
  <2>1. PICK x \in PassRecords :
               /\ pass' = [pass EXCEPT ![s] = x] /\ x.pc = "record" /\ x.path = p /\ x.id = i
               /\ x.prior = pass[s].prior /\ x.removed = pass[s].removed
    BY <1>1, <1>3
  <2>2. PassIsMap' /\ pass'[s] = x /\ \A r \in Passes : r # s => pass'[r] = pass[r]
    BY <2>1, OnePass DEF FoldersInv
  <2>3. /\ DOMAIN message' = DOMAIN message /\ message'[i] = p
        /\ \A j \in DOMAIN message : j # i => message'[j] = message[j]
    BY <1>3
  <2>4. RowPaths' = RowPaths /\ RowsDiffer' /\ RecordedHasRow'
    BY <1>0 DEF RowPaths, FoldersInv, RowsDiffer, RecordedHasRow
  <2>5. /\ undercut \subseteq undercut' /\ undercut' \subseteq Paths
        /\ \A q \in Paths : folderRow[q].id = i /\ q \notin undercut' => q = p
    BY <1>0, <1>3, OwnerFacts, RowFacts DEF Undercuts
  <2>6. AccountSyncTypeOK'
    <3>1. \A j \in DOMAIN message : message[j] \in Paths \cup {Nothing}
      BY DEF FoldersInv, AccountSyncTypeOK
    <3>2. \A j \in DOMAIN message' : message'[j] \in Paths \cup {Nothing}
      BY <1>0, <2>3, <3>1
    <3> QED BY <1>0, <2>3, <2>4, <2>5, <3>2 DEF FoldersInv, AccountSyncTypeOK
  <2>7. \A q \in RowPaths \ undercut' :
          /\ q \in RowPaths \ undercut /\ folderRow[q].id \in DOMAIN message
          /\ \/ folderRow[q].id = i /\ q = p
             \/ folderRow[q].id # i /\ message'[folderRow[q].id] = message[folderRow[q].id]
    BY <2>3, <2>5, RowFacts
  <2>8. OwnOrNone' /\ FoldersWhole'
    BY <1>0, <2>3, <2>4, <2>7 DEF FoldersInv, OwnOrNone, FoldersWhole
  <2>9. PassTyped(s)' /\ HasRow(s)' /\ PriorHolds(s)' /\ HasMessage(s)'
    BY <1>0, <2>1, <2>2, <2>3 DEF PassSound, PassTyped, HasRow, PriorHolds, HasMessage, InFolder
  <2>10. ASSUME NEW r \in Passes, r # s PROVE PassSound(r)'
    <3>1. pass'[r] = pass[r] /\ PassTyped(r) /\ HasRow(r) /\ PriorHolds(r) /\ HasMessage(r)
      BY <2>2, <2>10 DEF FoldersInv, PassSound
    <3>2. PassTyped(r)' /\ PriorHolds(r)' /\ HasRow(r)'
      BY <1>0, <3>1 DEF PassTyped, PriorHolds, InFolder, HasRow
    <3>3. ASSUME InFolder(r), pass[r].path \notin pass[r].removed \cup undercut'
          PROVE  /\ pass[r].id \in DOMAIN message /\ (pass[r].id = i => pass[r].path = p)
                 /\ pass[r].path \notin undercut
      <4>1. pass[r].path \in Paths /\ pass[r].id \in RowIds /\ folderRow[pass[r].path].id = pass[r].id
        BY <3>1, <3>3 DEF PassTyped, HasRow
      <4>2. pass[r].path \in RowPaths
        BY <4>1, RowIdsAreNumbers DEF RowPaths
      <4> QED BY <2>5, <3>3, <4>1, <4>2, RowFacts
    <3>4. HasMessage(r)'
      BY <2>3, <3>1, <3>3 DEF HasMessage, InFolder
    <3> QED BY <3>2, <3>4 DEF PassSound
  <2>11. \A r \in Passes : PassSound(r)'
    BY <2>9, <2>10 DEF PassSound
  <2> QED BY <2>2, <2>4, <2>6, <2>8, <2>11 DEF FoldersInv
<1> QED BY <1>2, <1>3 DEF StoreMessage, StoreIn

\* What is recorded has its message, or is undercut.
LEMMA RecordKeeps ==
    ASSUME FoldersInv, NEW s \in Passes, RecordState(s)
    PROVE  FoldersInv'
<1> DEFINE p == pass[s].path
           x == [pass[s] EXCEPT !.pc = "next"]
<1>0. /\ PassSound(s) /\ pass[s] \in PassRecords /\ InFolder(s) /\ p \in Paths
      /\ pass[s].pc = "record" /\ UNCHANGED <<remote, message>> /\ Undercuts(s)
      /\ pass' = [pass EXCEPT ![s] = x]
      /\ folderRow' = [q \in Paths |-> IF q \in Owner(s) THEN [folderRow[q] EXCEPT !.recorded = TRUE]
                                       ELSE folderRow[q]]
  BY DEF FoldersInv, PassSound, PassTyped, RecordState, On, Go, InFolder
<1>1. x \in PassRecords /\ x.pc = "next" /\ x.prior = pass[s].prior /\ x.removed = pass[s].removed
  BY <1>0 DEF PassRecords
<1> HIDE DEF x
<1>2. PassIsMap' /\ pass'[s] = x /\ \A r \in Passes : r # s => pass'[r] = pass[r]
  BY <1>0, OnePass DEF FoldersInv
<1>3. /\ \A q \in Paths : /\ folderRow'[q] \in [id : RowIds \cup {0}, recorded : BOOLEAN]
                          /\ folderRow'[q].id = folderRow[q].id
                          /\ folderRow[q].recorded => folderRow'[q].recorded
                          /\ folderRow'[q].recorded => folderRow[q].recorded \/ q \in Owner(s)
      /\ folderRow' \in [Paths -> [id : RowIds \cup {0}, recorded : BOOLEAN]]
  <2>1. \A q \in Paths : folderRow[q] \in [id : RowIds \cup {0}, recorded : BOOLEAN]
    BY RowFacts
  <2> QED BY <1>0, <2>1
<1>4. RowPaths' = RowPaths /\ RowPaths \subseteq Paths
  BY <1>3 DEF RowPaths
<1>5. /\ undercut \subseteq undercut' /\ undercut' \subseteq Paths /\ Owner(s) \subseteq RowPaths
      /\ \A q \in Owner(s) : q \notin undercut' => q = p /\ p \notin pass[s].removed
  BY <1>0, OwnerFacts, RowFacts DEF Undercuts
<1>6. AccountSyncTypeOK'
  <2>1. {folderRow'[q].id : q \in RowPaths} = {folderRow[q].id : q \in RowPaths}
    BY <1>3, <1>4
  <2> QED BY <1>0, <1>3, <1>4, <1>5, <2>1 DEF FoldersInv, AccountSyncTypeOK
<1>7. RowsDiffer' /\ RecordedHasRow' /\ OwnOrNone'
  <2>1. RowsDiffer' /\ OwnOrNone'
    BY <1>0, <1>3, <1>4, <1>5 DEF FoldersInv, RowsDiffer, OwnOrNone
  <2>2. RecordedHasRow'
    BY <1>3, <1>5 DEF FoldersInv, RecordedHasRow, RowPaths
  <2> QED BY <2>1, <2>2
<1>8. FoldersWhole'
  <2> SUFFICES ASSUME NEW q \in RowPaths, q \notin undercut', folderRow'[q].recorded
               PROVE  message[folderRow[q].id] = q
    BY <1>0, <1>3, <1>4 DEF FoldersWhole
  <2>1. CASE folderRow[q].recorded
    BY <1>5, <2>1 DEF FoldersInv, FoldersWhole
  <2>2. CASE q \in Owner(s)
    <3>1. q = p /\ p \notin pass[s].removed \cup undercut
      BY <1>5, <2>2
    <3>2. message[pass[s].id] = p
      BY <1>0, <3>1 DEF PassSound, HasMessage
    <3> QED BY <2>2, <3>1, <3>2 DEF Owner
  <2> QED BY <1>3, <1>4, <2>1, <2>2
<1>9. \A r \in Passes : /\ PassTyped(r) /\ HasRow(r) /\ PriorHolds(r) /\ HasMessage(r)
                        /\ pass[r].prior \subseteq Paths
  BY DEF FoldersInv, PassSound, PassTyped, PassRecords
<1>10. ASSUME NEW r \in Passes, r # s PROVE PassSound(r)'
  <2>1. pass'[r] = pass[r]
    BY <1>2, <1>10
  <2>2. PassTyped(r)' /\ PriorHolds(r)' /\ HasMessage(r)'
    BY <1>0, <1>3, <1>5, <1>9, <2>1 DEF PassTyped, PriorHolds, HasMessage, InFolder
  <2>3. HasRow(r)'
    BY <1>3, <1>9, <2>1 DEF PassTyped, HasRow, InFolder
  <2> QED BY <2>2, <2>3 DEF PassSound
<1>11. PassSound(s)'
  BY <1>1, <1>2, <1>3, <1>9 DEF PassSound, PassTyped, HasRow, PriorHolds, HasMessage, InFolder
<1> QED BY <1>2, <1>6, <1>7, <1>8, <1>10, <1>11 DEF FoldersInv

\* Rows go, with their messages, and the syncs under way do not know.
LEMMA ReconcileKeeps ==
    ASSUME FoldersInv, NEW s \in Passes, DeleteFoldersNotIn(s)
    PROVE  FoldersInv'
<1> DEFINE Gone == RowPaths \ pass[s].listed
           P(r) == IF r = s THEN NoPass
                   ELSE [pass[r] EXCEPT !.removed = IF On(r, "none") \/ On(r, "known") THEN @ ELSE @ \cup Gone]
<1>0. /\ UNCHANGED remote /\ undercut' = undercut \ Gone
      /\ folderRow' = [p \in Paths |-> IF p \in Gone THEN NoFolderRow ELSE folderRow[p]]
      /\ message' = [i \in {folderRow'[p].id : p \in Paths} \ {0} |-> message[i]]
      /\ pass' = [r \in Passes |-> P(r)]
  BY DEF DeleteFoldersNotIn, Reconcile
<1>1. Gone \subseteq Paths /\ Gone \subseteq RowPaths /\ RowPaths \subseteq Paths
  BY DEF RowPaths
<1> HIDE DEF Gone
<1>2. /\ folderRow' \in [Paths -> [id : RowIds \cup {0}, recorded : BOOLEAN]]
      /\ \A p \in Gone : folderRow'[p].id = 0 /\ ~ folderRow'[p].recorded
      /\ \A p \in Paths \ Gone : folderRow'[p] = folderRow[p]
  <2>1. \A p \in Paths : folderRow[p] \in [id : RowIds \cup {0}, recorded : BOOLEAN]
    BY RowFacts
  <2>2. NoFolderRow \in [id : RowIds \cup {0}, recorded : BOOLEAN] /\ NoFolderRow.id = 0 /\ ~ NoFolderRow.recorded
    BY DEF NoFolderRow
  <2> QED BY <1>0, <1>1, <2>1, <2>2
<1>3. RowPaths' = RowPaths \ Gone
  BY <1>1, <1>2 DEF RowPaths
<1>4. /\ DOMAIN message' = {folderRow'[p].id : p \in RowPaths'}
      /\ \A i \in DOMAIN message' : message'[i] = message[i] /\ i \in DOMAIN message
  <2>1. DOMAIN message' = {folderRow'[p].id : p \in Paths} \ {0}
    BY <1>0
  <2>2. {folderRow'[p].id : p \in Paths} \ {0} = {folderRow'[p].id : p \in RowPaths'}
    BY DEF RowPaths
  <2>3. \A p \in RowPaths' : folderRow'[p] = folderRow[p] /\ folderRow[p].id \in DOMAIN message
    BY <1>1, <1>2, <1>3, RowFacts
  <2>4. \A i \in DOMAIN message' : message'[i] = message[i]
    BY <1>0, <2>1
  <2>5. \A i \in DOMAIN message' : i \in DOMAIN message
    BY <2>1, <2>2, <2>3
  <2> QED BY <2>1, <2>2, <2>4, <2>5
<1>5. AccountSyncTypeOK'
  BY <1>0, <1>2, <1>4 DEF FoldersInv, AccountSyncTypeOK
<1>6. \A p \in RowPaths' : folderRow'[p] = folderRow[p] /\ p \in RowPaths /\ folderRow[p].id \in DOMAIN message'
  BY <1>1, <1>2, <1>3, <1>4
<1>7. \A p \in RowPaths' : message'[folderRow[p].id] = message[folderRow[p].id] /\ (p \in undercut => p \in undercut')
  BY <1>0, <1>3, <1>4, <1>6
<1>8. RowsDiffer' /\ OwnOrNone' /\ FoldersWhole'
  BY <1>6, <1>7 DEF FoldersInv, RowsDiffer, OwnOrNone, FoldersWhole
<1>9. RecordedHasRow'
  BY <1>2 DEF FoldersInv, RecordedHasRow
<1>10. ASSUME NEW r \in Passes PROVE PassSound(r)'
  <2>1. pass'[r] = P(r)
    BY <1>0
  <2>2. CASE r = s
    <3>1. pass'[r] = NoPass
      BY <2>1, <2>2
    <3> QED BY <3>1, NoPassFacts DEF PassSound, PassTyped, HasRow, PriorHolds, HasMessage, InFolder
  <2>3. CASE r # s
    <3> DEFINE removed == IF On(r, "none") \/ On(r, "known") THEN pass[r].removed ELSE pass[r].removed \cup Gone
    <3>1. /\ PassTyped(r) /\ HasRow(r) /\ PriorHolds(r) /\ HasMessage(r) /\ pass[r] \in PassRecords
          /\ pass[r].prior \subseteq Paths /\ pass[r].removed \subseteq Paths
      BY DEF FoldersInv, PassSound, PassTyped, PassRecords
    <3>2. pass'[r] = [pass[r] EXCEPT !.removed = removed]
      BY <2>1, <2>3, <3>1 DEF PassRecords
    <3>3. /\ pass'[r] \in PassRecords /\ pass'[r].removed = removed
          /\ pass'[r].pc = pass[r].pc /\ pass'[r].path = pass[r].path /\ pass'[r].id = pass[r].id
          /\ pass'[r].prior = pass[r].prior /\ pass'[r].fetched = pass[r].fetched
      BY <1>1, <3>1, <3>2 DEF PassRecords
    <3>4. pass[r].removed \subseteq removed
      OBVIOUS
    <3>5. InFolder(r)' = InFolder(r) /\ PassTyped(r)'
      BY <3>1, <3>3 DEF PassTyped, InFolder
    <3>6. InFolder(r) => Gone \subseteq removed
      BY DEF On, InFolder
    <3> HIDE DEF removed, P
    <3>7. ASSUME InFolder(r), pass[r].path \notin removed
          PROVE  /\ folderRow'[pass[r].path] = folderRow[pass[r].path]
                 /\ folderRow[pass[r].path].id = pass[r].id
                 /\ pass[r].path \in RowPaths'
      <4>1. pass[r].path \in Paths /\ pass[r].path \notin Gone /\ pass[r].id # 0
        BY <3>1, <3>6, <3>7, RowIdsAreNumbers DEF PassTyped
      <4>2. folderRow[pass[r].path].id = pass[r].id
        BY <3>1, <3>4, <3>7 DEF HasRow
      <4> QED BY <1>2, <4>1, <4>2 DEF RowPaths
    <3>8. HasRow(r)'
      BY <3>3, <3>5, <3>7 DEF HasRow
    <3>9. HasMessage(r)'
      <4> SUFFICES ASSUME InFolder(r), pass[r].path \notin removed, pass[r].path \notin undercut',
                          pass[r].pc = "record" \/ (pass[r].pc = "store" /\ ~ pass[r].fetched)
                   PROVE  message'[pass[r].id] = pass[r].path
        BY <3>3, <3>5 DEF HasMessage
      <4>1. pass[r].path \notin undercut /\ message'[pass[r].id] = message[pass[r].id]
        BY <1>6, <1>7, <3>7
      <4> QED BY <3>1, <3>4, <4>1 DEF HasMessage
    <3>10. PriorHolds(r)'
      <4> SUFFICES ASSUME NEW p \in pass[r].prior, p \notin removed PROVE folderRow'[p].recorded
        BY <3>3 DEF PriorHolds
      <4>1. folderRow[p].recorded /\ p \in Paths
        BY <3>1, <3>4 DEF PriorHolds
      <4>2. CASE pass[r].pc \notin {"none", "known"}
        <5>1. Gone \subseteq removed
          BY <4>2 DEF On, removed
        <5> QED BY <1>2, <4>1, <5>1
      <4>3. CASE pass[r].pc \in {"none", "known"}
        BY <3>1, <4>3 DEF PassTyped
      <4> QED BY <4>2, <4>3
    <3> QED BY <3>5, <3>8, <3>9, <3>10 DEF PassSound
  <2> QED BY <2>2, <2>3
<1>11. PassIsMap'
  BY <1>0 DEF PassIsMap
<1> QED BY <1>5, <1>8, <1>9, <1>10, <1>11 DEF FoldersInv

LEMMA NextFolders == FoldersInv /\ [NextAccountSync]_syncVars => FoldersInv'
<1> SUFFICES ASSUME FoldersInv, [NextAccountSync]_syncVars PROVE FoldersInv'
  OBVIOUS
<1>1. CASE UNCHANGED syncVars
  <2>1. UNCHANGED <<remote, folderRow, message, pass, undercut>>
    BY <1>1 DEF syncVars
  <2>2. AccountSyncTypeOK' /\ RowsDiffer' /\ RecordedHasRow' /\ OwnOrNone' /\ FoldersWhole'
    BY <2>1 DEF FoldersInv, AccountSyncTypeOK, RowsDiffer, RecordedHasRow, OwnOrNone, FoldersWhole, RowPaths
  <2>3. PassIsMap' /\ \A s \in Passes : PassSound(s)'
    BY <2>1 DEF FoldersInv, PassIsMap, PassSound, PassTyped, HasRow, PriorHolds, HasMessage, InFolder
  <2> QED BY <2>2, <2>3 DEF FoldersInv
<1>2. ASSUME NEW s \in Passes, StepOfSync(s) \/ FolderFails(s) \/ EndSync(s) PROVE FoldersInv'
  BY <1>2, PassesKeep, SelectKeeps, UpsertKeeps, StoreKeeps, RecordKeeps, ReconcileKeeps DEF StepOfSync
<1> QED BY <1>1, <1>2, ChangeKeeps DEF NextAccountSync

\* The folders, rows and syncs are well typed in every reachable state.
THEOREM AccountSyncTypeCorrect == AccountSyncSpec => []AccountSyncTypeOK
<1>1. FoldersInv => AccountSyncTypeOK
  BY DEF FoldersInv
<1> QED BY <1>1, InitFolders, NextFolders, PTL DEF AccountSyncSpec

\* A folder recorded as synced has its messages, and its own, unless it was synced by
\* a row that was removed, for any paths and any number of syncs (sync.go,
\* SyncAccount).
THEOREM FoldersAreWhole == AccountSyncSpec => []FoldersWhole
<1>1. FoldersInv => FoldersWhole
  BY DEF FoldersInv
<1> QED BY <1>1, InitFolders, NextFolders, PTL DEF AccountSyncSpec

-----------------------------------------------------------------------------
(* The accounts: their invariant. *)

Pcs == {"idle", "load", "token", "refresh", "secret", "delete password", "delete token",
        "truncate", "write"}
Ops == {"none", "add", "edit", "remove", "reauthorize", "connect"}
CommandRecords ==
    [pc : Pcs, op : Ops, slug : AccountSlugs \cup {"none"}, loaded : [AccountSlugs -> Settings],
     seen : Settings, set : Settings, secret : 0..MaxStamp, alone : BOOLEAN]

AccountsTyped ==
    /\ AccountsTypeOK
    /\ command \in [Commands -> CommandRecords]
    /\ written \in [AccountSlugs -> Settings]
    /\ asked \in [AccountSlugs -> [settings : Settings, secret : 0..MaxStamp]]

\* What a command may be, at each of its steps.
Shape(r) ==
    /\ r.pc # "idle" => r.slug \in AccountSlugs
    /\ r.pc \in {"refresh", "token", "secret"} => r.secret # 0
    /\ r.pc \in {"load", "secret", "delete password", "delete token", "truncate", "write"}
         => r.op \in {"add", "edit", "remove"}
    /\ r.pc \in {"delete password", "delete token"} => r.op = "remove"
    /\ r.pc = "secret" => r.op # "remove"
    /\ r.op = "remove" => r.set = Absent /\ r.secret = 0
    /\ r.op = "add" => r.secret # 0
    /\ r.op = "edit" => r.set.type = r.seen.type /\ r.seen # Absent
    /\ r.pc = "token" => r.op = "reauthorize" /\ r.seen.type = "google"
    /\ r.pc = "refresh" => r.op = "connect"

Shapes == \A c \in Commands : Shape(command[c])

TokenRefresh == \A s \in AccountSlugs : token[s].refresh => token[s].signin # 0

\* A command that ran alone so far still does.
AloneIs == \A c \in Commands : command[c].alone => \A d \in Commands \ {c} : Pc(d, "idle")

Writing == \E c \in Commands : Pc(c, "write")

FileKept == Writing \/ \A s \in AccountSlugs \ raced : ~ mixed /\ config[s] = written[s]

SettingsKept == \A s \in AccountSlugs \ raced : written[s] = asked[s].settings

Secret(s) ==
    \/ asked[s].settings.type = "none" /\ password[s] = 0 /\ token[s] = NoToken
    \/ asked[s].settings.type = "password" /\ password[s] = asked[s].secret
    \/ /\ asked[s].settings.type = "google"
       /\ token[s] = [signin |-> asked[s].secret, refresh |-> TRUE]

SecretsKept ==
    \A s \in AccountSlugs \ raced :
      (\E c \in Commands : Slug(c) = s /\ Touched(c)) \/ Secret(s)

\* What a command that has touched the secrets of its account has made of them.
Effect(c) ==
    IF command[c].op = "remove"
    THEN password[Slug(c)] = 0 /\ (~ Pc(c, "delete token") => token[Slug(c)] = NoToken)
    ELSE \/ command[c].set.type = "password" /\ password[Slug(c)] = command[c].secret
         \/ /\ command[c].set.type = "google"
            /\ token[Slug(c)] = [signin |-> command[c].secret, refresh |-> TRUE]

EffectsHold ==
    \A c \in Commands : Touched(c) /\ (Slug(c) \notin raced \/ command[c].alone) => Effect(c)

TouchesAlone ==
    \A c, d \in Commands :
      c # d /\ Slug(c) = Slug(d) /\ Slug(c) \notin raced /\ Touched(c) /\ Touched(d)
        => command[c].op = "remove" /\ command[d].op = "remove"

AccountsInv ==
    /\ AccountsTyped /\ Shapes /\ TokenRefresh /\ AloneIs
    /\ FileKept /\ SettingsKept /\ SecretsKept /\ EffectsHold /\ TouchesAlone

AbsentIs == Absent \in Settings /\ Absent.type = "none" /\ Nobody \in [AccountSlugs -> Settings]

LEMMA AbsentTyped == AbsentIs
BY AccountsAssumption DEF AbsentIs, Absent, Settings, Nobody

IdleIs(r) ==
    /\ r \in CommandRecords /\ Shape(r) /\ r.pc = "idle" /\ r.op = "none" /\ r.slug = "none"
    /\ r.secret = 0 /\ r.alone = FALSE

LEMMA IdleCommand == IdleIs(NoCommand)
<1>1. Absent \in Settings /\ Nobody \in [AccountSlugs -> Settings] /\ 0 \in 0..MaxStamp
  BY AbsentTyped, AccountsAssumption DEF AbsentIs
<1> QED BY <1>1 DEF IdleIs, NoCommand, CommandRecords, Shape, Pcs, Ops

\* The commands but c are as they were.
Others(c) == \A d \in Commands \ {c} : command'[d] = command[d]

LEMMA StepIs ==
  ASSUME command \in [Commands -> CommandRecords], NEW c \in Commands, NEW pc \in Pcs, Step(c, pc)
  PROVE  /\ command' \in [Commands -> CommandRecords] /\ Others(c)
         /\ command'[c].pc = pc /\ command'[c].op = command[c].op
         /\ command'[c].slug = command[c].slug /\ command'[c].loaded = command[c].loaded
         /\ command'[c].seen = command[c].seen /\ command'[c].set = command[c].set
         /\ command'[c].secret = command[c].secret /\ command'[c].alone = command[c].alone
<1>1. command[c] \in CommandRecords
  OBVIOUS
<1>2. command'[c] = [command[c] EXCEPT !.pc = pc] /\ Others(c)
  BY DEF Step, Others
<1>3. [command[c] EXCEPT !.pc = pc] \in CommandRecords
  BY <1>1 DEF CommandRecords
<1>4. command' \in [Commands -> CommandRecords]
  BY <1>3 DEF Step
<1> QED BY <1>1, <1>2, <1>4 DEF CommandRecords

LEMMA EndIs ==
  ASSUME command \in [Commands -> CommandRecords], NEW c \in Commands, Ends(c)
  PROVE  command' \in [Commands -> CommandRecords] /\ Others(c) /\ IdleIs(command'[c])
<1>1. NoCommand \in CommandRecords
  BY IdleCommand DEF IdleIs
<1> QED BY <1>1, IdleCommand DEF Ends, Others

LEMMA InitAccountsInv == InitAccounts => AccountsInv
<1> SUFFICES ASSUME InitAccounts PROVE AccountsInv
  OBVIOUS
<1>1. \A c \in Commands : command[c] = NoCommand
  BY DEF InitAccounts
<1>2. \A c \in Commands : IdleIs(command[c])
  BY <1>1, IdleCommand
<1>3. \A c \in Commands : ~ Touched(c) /\ ~ command[c].alone
  BY <1>2 DEF IdleIs, Touched, Pc
<1>4. NoToken \in [signin : 0..MaxStamp, refresh : BOOLEAN] /\ ~ NoToken.refresh
  BY AccountsAssumption DEF NoToken
<1>5. config \in [AccountSlugs -> Settings] /\ written \in [AccountSlugs -> Settings]
  BY AbsentTyped DEF InitAccounts, AbsentIs
<1>6. command \in [Commands -> CommandRecords]
  BY IdleCommand DEF InitAccounts, IdleIs
<1>7. [settings |-> Absent, secret |-> 0] \in [settings : Settings, secret : 0..MaxStamp]
  BY AbsentTyped, AccountsAssumption DEF AbsentIs
<1>8. AccountsTypeOK
  <2>1. password \in [AccountSlugs -> 0..MaxStamp] /\ stamp \in 0..MaxStamp
    BY AccountsAssumption DEF InitAccounts
  <2>2. token \in [AccountSlugs -> [signin : 0..MaxStamp, refresh : BOOLEAN]]
    BY <1>4 DEF InitAccounts
  <2> QED BY <1>5, <2>1, <2>2 DEF InitAccounts, AccountsTypeOK
<1>9. AccountsTyped
  BY <1>5, <1>6, <1>7, <1>8 DEF InitAccounts, AccountsTyped
<1>10. Shapes
  BY <1>2 DEF Shapes, IdleIs
<1>11. TokenRefresh /\ FileKept
  BY <1>4 DEF InitAccounts, TokenRefresh, FileKept
<1>12. SettingsKept
  BY DEF InitAccounts, SettingsKept, Nobody
<1>13. SecretsKept
  BY AbsentTyped DEF InitAccounts, SecretsKept, Secret, AbsentIs
<1> QED BY <1>3, <1>9, <1>10, <1>11, <1>12, <1>13 DEF AccountsInv, AloneIs, EffectsHold, TouchesAlone

-----------------------------------------------------------------------------
(* A command begins. *)

LEMMA BeginKeeps ==
  ASSUME AccountsInv, NEW c \in Commands, NEW r \in CommandRecords, Shape(r),
         r.pc \in {"load", "token", "refresh"}, BeginCommand(c, r)
  PROVE  AccountsInv'
<1> DEFINE q == [r EXCEPT !.alone = \A e \in Commands \ {c} : Pc(e, "idle")]
<1> USE DEF AccountsInv
<1>1. /\ q \in CommandRecords /\ q.pc = r.pc /\ Shape(q)
      /\ q.alone = (\A e \in Commands \ {c} : Pc(e, "idle"))
  BY DEF CommandRecords, Shape
<1>2. command'[c] = q
  BY DEF BeginCommand
<1>3. ASSUME NEW d \in Commands \ {c}
      PROVE  /\ command'[d] \in CommandRecords /\ command'[d].pc = command[d].pc
             /\ command'[d].op = command[d].op /\ command'[d].slug = command[d].slug
             /\ command'[d].seen = command[d].seen /\ command'[d].set = command[d].set
             /\ command'[d].secret = command[d].secret /\ command'[d].alone = FALSE
  <2>1. command'[d] = [command[d] EXCEPT !.alone = FALSE]
    BY DEF BeginCommand
  <2>2. command[d] \in CommandRecords
    BY DEF AccountsTyped
  <2> QED BY <2>1, <2>2 DEF CommandRecords
<1> HIDE DEF q
<1>4. UNCHANGED <<config, mixed, password, token, written, asked, raced>> /\ Pc(c, "idle") /\ stamp' \in 0..MaxStamp
  BY AccountsAssumption DEF BeginCommand, keyring, AccountsTyped, AccountsTypeOK
<1>5. command' \in [Commands -> CommandRecords]
  <2>1. command' = [d \in Commands |-> command'[d]]
    BY DEF BeginCommand
  <2> QED BY <1>1, <1>2, <1>3, <2>1
<1>6. AccountsTyped'
  BY <1>4, <1>5 DEF AccountsTyped, AccountsTypeOK
<1>7. Shapes'
  <2>1. ASSUME NEW d \in Commands \ {c} PROVE Shape(command'[d])
    <3>1. Shape(command[d])
      BY DEF Shapes
    <3> QED BY <1>3, <3>1 DEF Shape
  <2> QED BY <1>1, <1>2, <2>1 DEF Shapes
<1>8. \A d \in Commands \ {c} : Touched(d)' = Touched(d) /\ (Effect(d)' <=> Effect(d)) /\ Slug(d)' = Slug(d)
  BY <1>3, <1>4 DEF Touched, Pc, Effect, Slug
<1>9. ~ Touched(c)' /\ ~ Touched(c) /\ ~ Pc(c, "write") /\ ~ Pc(c, "write")'
  BY <1>1, <1>2, <1>4 DEF Touched, Pc
<1>10. AloneIs'
  <2>1. command'[c].alone => \A e \in Commands \ {c} : Pc(e, "idle")
    BY <1>1, <1>2
  <2>2. \A e \in Commands \ {c} : Pc(e, "idle")' <=> Pc(e, "idle")
    BY <1>3 DEF Pc
  <2>3. \A d \in Commands \ {c} : ~ command'[d].alone
    BY <1>3
  <2> QED BY <2>1, <2>2, <2>3 DEF AloneIs
<1>11. Writing' <=> Writing
  BY <1>3, <1>9 DEF Writing, Pc
<1>12. FileKept' /\ SettingsKept' /\ TokenRefresh'
  BY <1>4, <1>11 DEF FileKept, SettingsKept, TokenRefresh
<1>13. SecretsKept'
  BY <1>4, <1>8, <1>9 DEF SecretsKept, Secret
<1>14. EffectsHold'
  BY <1>3, <1>4, <1>8, <1>9 DEF EffectsHold
<1>15. TouchesAlone'
  <2> SUFFICES ASSUME NEW d \in Commands, NEW e \in Commands, d # e, Slug(d)' = Slug(e)',
                      Slug(d)' \notin raced', Touched(d)', Touched(e)'
               PROVE  command'[d].op = "remove" /\ command'[e].op = "remove"
    BY DEF TouchesAlone
  <2>1. d # c /\ e # c
    BY <1>9
  <2>2. Touched(d) /\ Touched(e) /\ Slug(d) = Slug(e) /\ Slug(d) \notin raced
    BY <1>4, <1>8, <2>1
  <2>3. command[d].op = "remove" /\ command[e].op = "remove"
    BY <2>2 DEF TouchesAlone
  <2> QED BY <1>3, <2>1, <2>3
<1> QED BY <1>6, <1>7, <1>10, <1>12, <1>13, <1>14, <1>15

LEMMA BeginsKeep ==
  ASSUME AccountsInv, NEW c \in Commands, NEW s \in AccountSlugs,
         \/ \E type \in {"password", "google"} : BeginAdd(c, s, type)
         \/ \E n \in {0, stamp + 1} : BeginEdit(c, s, n)
         \/ BeginRemove(c, s) \/ BeginReauthorize(c, s) \/ BeginConnect(c, s)
  PROVE  AccountsInv'
<1>0. /\ NoCommand \in CommandRecords /\ NoCommand.op = "none" /\ NoCommand.secret = 0
      /\ NoCommand.set = Absent /\ NoCommand.seen = Absent
      /\ NoCommand = [pc |-> NoCommand.pc, op |-> NoCommand.op, slug |-> NoCommand.slug,
                      loaded |-> Nobody, seen |-> NoCommand.seen, set |-> NoCommand.set,
                      secret |-> NoCommand.secret, alone |-> NoCommand.alone]
  BY IdleCommand DEF IdleIs, NoCommand
<1>1. Absent \in Settings /\ config[s] \in Settings
  BY AbsentTyped DEF AbsentIs, AccountsInv, AccountsTyped, AccountsTypeOK
<1>2. stamp < MaxStamp => stamp + 1 \in 0..MaxStamp /\ stamp + 1 # 0
  BY AccountsAssumption DEF AccountsInv, AccountsTyped, AccountsTypeOK
<1>3. token[s].signin \in 0..MaxStamp /\ (token[s].refresh => token[s].signin # 0)
  BY DEF AccountsInv, AccountsTyped, AccountsTypeOK, TokenRefresh
<1>4. 0 \in 0..MaxStamp
  BY AccountsAssumption
<1>5. ASSUME NEW type \in {"password", "google"}, BeginAdd(c, s, type) PROVE AccountsInv'
  <2> DEFINE r == NewAccount(s, type)
  <2>1. BeginCommand(c, r) /\ stamp < MaxStamp
    BY <1>5 DEF BeginAdd, BeginCommand
  <2>2. [type |-> type, rev |-> stamp + 1] \in Settings
    BY <1>2, <2>1 DEF Settings
  <2>3. r \in CommandRecords
    BY <1>0, <1>2, <2>1, <2>2 DEF NewAccount, CommandRecords, Pcs, Ops
  <2>4. r.pc = "load" /\ r.op = "add" /\ r.slug = s /\ r.secret = stamp + 1
    BY <1>0 DEF NewAccount, CommandRecords
  <2> HIDE DEF r
  <2>5. Shape(r)
    BY <1>2, <2>1, <2>4 DEF Shape
  <2> QED BY <2>1, <2>3, <2>4, <2>5, BeginKeeps
<1>6. ASSUME NEW n \in {0, stamp + 1}, BeginEdit(c, s, n) PROVE AccountsInv'
  <2> DEFINE t == [config[s] EXCEPT !.rev = stamp + 1]
             r == [NoCommand EXCEPT !.pc = "load", !.op = "edit", !.slug = s, !.seen = config[s],
                     !.set = t, !.secret = n]
  <2>1. BeginCommand(c, r) /\ stamp < MaxStamp /\ config[s] # Absent
    BY <1>6 DEF BeginEdit, BeginCommand
  <2>2. t \in Settings /\ t.type = config[s].type
    BY <1>1, <1>2, <2>1 DEF Settings
  <2> HIDE DEF t
  <2>3. r \in CommandRecords
    BY <1>0, <1>1, <1>2, <1>4, <2>1, <2>2 DEF CommandRecords, Pcs, Ops
  <2>4. r.pc = "load" /\ r.op = "edit" /\ r.slug = s /\ r.seen = config[s] /\ r.set = t
    BY <1>0 DEF CommandRecords
  <2> HIDE DEF r
  <2>5. Shape(r)
    BY <2>1, <2>2, <2>4 DEF Shape
  <2> QED BY <2>1, <2>3, <2>4, <2>5, BeginKeeps
<1>7. ASSUME BeginRemove(c, s) PROVE AccountsInv'
  <2> DEFINE r == [NoCommand EXCEPT !.pc = "load", !.op = "remove", !.slug = s]
  <2>1. BeginCommand(c, r)
    BY <1>7 DEF BeginRemove
  <2>2. r \in CommandRecords
    BY <1>0 DEF CommandRecords, Pcs, Ops
  <2>3. r.pc = "load" /\ r.op = "remove" /\ r.slug = s /\ r.set = Absent /\ r.secret = 0
    BY <1>0 DEF CommandRecords
  <2> HIDE DEF r
  <2>4. Shape(r)
    BY <2>3 DEF Shape
  <2> QED BY <2>1, <2>2, <2>3, <2>4, BeginKeeps
<1>8. ASSUME BeginReauthorize(c, s) PROVE AccountsInv'
  <2> DEFINE r == [NoCommand EXCEPT !.pc = "token", !.op = "reauthorize", !.slug = s,
                     !.seen = config[s], !.secret = stamp + 1]
  <2>1. BeginCommand(c, r) /\ stamp < MaxStamp /\ config[s].type = "google"
    BY <1>8 DEF BeginReauthorize, BeginCommand
  <2>2. r \in CommandRecords
    BY <1>0, <1>1, <1>2, <2>1 DEF CommandRecords, Pcs, Ops
  <2>3. /\ r.pc = "token" /\ r.op = "reauthorize" /\ r.slug = s /\ r.seen = config[s]
        /\ r.secret = stamp + 1
    BY <1>0 DEF CommandRecords
  <2> HIDE DEF r
  <2>4. Shape(r)
    BY <1>2, <2>1, <2>3 DEF Shape
  <2> QED BY <2>1, <2>2, <2>3, <2>4, BeginKeeps
<1>9. ASSUME BeginConnect(c, s) PROVE AccountsInv'
  <2> DEFINE r == [NoCommand EXCEPT !.pc = "refresh", !.op = "connect", !.slug = s,
                     !.secret = token[s].signin]
  <2>1. BeginCommand(c, r) /\ token[s].refresh
    BY <1>9 DEF BeginConnect
  <2>2. r \in CommandRecords
    BY <1>0, <1>3 DEF CommandRecords, Pcs, Ops
  <2>3. r.pc = "refresh" /\ r.op = "connect" /\ r.slug = s /\ r.secret = token[s].signin
    BY <1>0 DEF CommandRecords
  <2> HIDE DEF r
  <2>4. Shape(r)
    BY <1>3, <2>1, <2>3 DEF Shape
  <2> QED BY <2>1, <2>2, <2>3, <2>4, BeginKeeps
<1> QED BY <1>5, <1>6, <1>7, <1>8, <1>9

-----------------------------------------------------------------------------
(* A command goes on. *)

LEMMA ShapesStay ==
  ASSUME Shapes, NEW c \in Commands, Others(c), Shape(command'[c])
  PROVE  Shapes'
BY DEF Shapes, Others

LEMMA AloneStays ==
  ASSUME AloneIs, NEW c \in Commands, ~ Pc(c, "idle"), Others(c),
         command'[c].alone => command[c].alone
  PROVE  AloneIs' /\ \A d \in Commands \ {c} : ~ command[d].alone
<1>1. \A d \in Commands \ {c} : ~ command[d].alone
  BY DEF AloneIs
<1>2. \A d \in Commands \ {c} : ~ command'[d].alone
  BY <1>1 DEF Others
<1>3. command[c].alone => \A d \in Commands \ {c} : Pc(d, "idle")'
  BY DEF AloneIs, Others, Pc
<1> QED BY <1>1, <1>2, <1>3 DEF AloneIs

LEMMA OthersStay ==
  ASSUME NEW c \in Commands, Others(c)
  PROVE  \A d \in Commands \ {c} :
           Touched(d)' = Touched(d) /\ Slug(d)' = Slug(d) /\ Pc(d, "write")' = Pc(d, "write")
BY DEF Others, Touched, Slug, Pc

\* A step of a command that ends or has not begun to write or to touch secrets; of
\* one that leaves off, what it did is lost.
LEMMA QuietStep ==
  ASSUME AccountsInv, NEW c \in Commands, ~ Pc(c, "idle"), Others(c),
         command' \in [Commands -> CommandRecords], Shape(command'[c]),
         command'[c].alone => command[c].alone,
         UNCHANGED <<config, mixed, password, token, stamp, written, asked>>,
         raced \subseteq raced', raced' \subseteq AccountSlugs,
         ~ Touched(c)', Touched(c) => Slug(c) \in raced',
         ~ Pc(c, "write")', Pc(c, "write") => raced' = AccountSlugs
  PROVE  AccountsInv'
<1> USE DEF AccountsInv
<1>1. AloneIs' /\ Shapes' /\ \A d \in Commands \ {c} : ~ command[d].alone
  BY AloneStays, ShapesStay
<1>2. AccountsTyped' /\ TokenRefresh'
  BY DEF AccountsTyped, AccountsTypeOK, TokenRefresh
<1>3. SettingsKept'
  BY DEF SettingsKept
<1>4. /\ \A d \in Commands \ {c} : Touched(d)' = Touched(d) /\ Slug(d)' = Slug(d)
      /\ \A d \in Commands \ {c} : Pc(d, "write")' = Pc(d, "write")
  BY OthersStay
<1>5. FileKept'
  <2>1. CASE Pc(c, "write")
    BY <2>1 DEF FileKept
  <2>2. CASE ~ Pc(c, "write")
    <3>1. Writing' <=> Writing
      BY <1>4, <2>2 DEF Writing
    <3> QED BY <3>1 DEF FileKept
  <2> QED BY <2>1, <2>2
<1>6. SecretsKept'
  BY <1>4 DEF SecretsKept, Secret
<1>7. \A d \in Commands \ {c} : Effect(d)' <=> Effect(d)
  BY DEF Others, Effect, Slug, Pc
<1>8. EffectsHold'
  BY <1>1, <1>4, <1>7 DEF EffectsHold, Others
<1>9. TouchesAlone'
  BY <1>4 DEF TouchesAlone, Others
<1> QED BY <1>1, <1>2, <1>3, <1>5, <1>6, <1>8, <1>9

LEMMA LoadKeeps ==
  ASSUME AccountsInv, NEW c \in Commands, Load(c)
  PROVE  AccountsInv'
<1>1. command \in [Commands -> CommandRecords] /\ config \in [AccountSlugs -> Settings]
      /\ Shape(command[c]) /\ raced \subseteq AccountSlugs
  BY DEF AccountsInv, AccountsTyped, AccountsTypeOK, Shapes
<1>2. UNCHANGED <<config, mixed, password, token, stamp, written, asked>> /\ raced' = raced
  BY DEF Load, keyring
<1>3. ~ Touched(c) /\ ~ Pc(c, "write") /\ ~ Pc(c, "idle") /\ command[c].pc = "load"
  BY DEF Load, Touched, Pc
<1>4. CASE Refuses(c) /\ Ends(c)
  <2>1. Others(c) /\ command' \in [Commands -> CommandRecords] /\ IdleIs(command'[c])
    BY <1>1, <1>4, EndIs
  <2>2. ~ Touched(c)' /\ ~ Pc(c, "write")'
    BY <2>1 DEF IdleIs, Touched, Pc
  <2> QED BY <1>1, <1>2, <1>3, <2>1, <2>2, QuietStep DEF IdleIs
<1>5. CASE ~ (Refuses(c) /\ Ends(c))
  <2> DEFINE seen == IF command[c].seen = Absent THEN config[Slug(c)] ELSE command[c].seen
             pc == IF command[c].op = "remove" THEN "delete password"
                   ELSE IF command[c].secret # 0 THEN "secret" ELSE "truncate"
             r == [command[c] EXCEPT !.loaded = config, !.seen = seen, !.pc = pc]
  <2>0. Slug(c) \in AccountSlugs /\ command[c].op \in {"add", "edit", "remove"}
    BY <1>1, <1>3 DEF Shape, Slug
  <2>1. seen \in Settings /\ pc \in Pcs
    BY <1>1, <2>0 DEF CommandRecords, Pcs
  <2>2. ~ Refuses(c) /\ command' = [command EXCEPT ![c] = r]
    BY <1>5 DEF Load
  <2>3. command[c].op = "edit" => seen = command[c].seen
    BY <1>1 DEF Shape
  <2> HIDE DEF seen
  <2>4. /\ r \in CommandRecords /\ r.pc = pc /\ r.op = command[c].op /\ r.slug = command[c].slug
        /\ r.seen = seen /\ r.set = command[c].set /\ r.secret = command[c].secret
        /\ r.alone = command[c].alone
    BY <1>1, <2>1 DEF CommandRecords
  <2> HIDE DEF r
  <2>5. command'[c] = r /\ Others(c) /\ command' \in [Commands -> CommandRecords]
    BY <1>1, <2>2, <2>4 DEF Others
  <2>6. Shape(r)
    BY <1>1, <1>3, <2>0, <2>3, <2>4 DEF Shape, Slug
  <2>7. ~ Touched(c)' /\ ~ Pc(c, "write")'
    BY <2>4, <2>5 DEF Touched, Pc
  <2> QED BY <1>1, <1>2, <1>3, <2>4, <2>5, <2>6, <2>7, QuietStep
<1> QED BY <1>4, <1>5

LEMMA FailKeeps ==
  ASSUME AccountsInv, NEW c \in Commands, Fail(c)
  PROVE  AccountsInv'
<1>1. command \in [Commands -> CommandRecords] /\ Shape(command[c]) /\ raced \subseteq AccountSlugs
  BY DEF AccountsInv, AccountsTyped, AccountsTypeOK, Shapes
<1>2. UNCHANGED <<config, mixed, password, token, stamp, written, asked>> /\ ~ Pc(c, "idle")
  BY DEF Fail, keyring
<1>3. raced' = raced \cup (IF Pc(c, "write") THEN AccountSlugs ELSE {t \in {Slug(c)} : Touched(c)})
  BY DEF Fail, Raced
<1>4. Slug(c) \in AccountSlugs
  BY <1>1, <1>2 DEF Shape, Slug, Pc
<1>5. Others(c) /\ command' \in [Commands -> CommandRecords] /\ IdleIs(command'[c])
  BY <1>1, EndIs DEF Fail
<1>6. ~ Touched(c)' /\ ~ Pc(c, "write")'
  BY <1>5 DEF IdleIs, Touched, Pc
<1> QED BY <1>1, <1>2, <1>3, <1>4, <1>5, <1>6, QuietStep DEF IdleIs

\* A command changes secrets of its account.  Of the others on it that did, all but
\* removals it does not contradict count as raced, and what they made of the secrets
\* of an account still stands.
LEMMA SecretStep ==
  ASSUME AccountsInv, NEW c \in Commands, NEW s \in AccountSlugs, s = Slug(c),
         ~ Pc(c, "idle"), Others(c),
         command' \in [Commands -> CommandRecords], Shape(command'[c]),
         command'[c].alone => command[c].alone, Touched(c)' => Slug(c)' = s,
         UNCHANGED <<config, mixed, stamp, written>>, AccountsTypeOK', raced \subseteq raced',
         asked' \in [AccountSlugs -> [settings : Settings, secret : 0..MaxStamp]],
         \A t \in AccountSlugs : asked'[t].settings = asked[t].settings,
         TokenRefresh', ~ Pc(c, "write"), ~ Pc(c, "write")',
         \A t \in AccountSlugs \ {s} :
           password'[t] = password[t] /\ token'[t] = token[t] /\ asked'[t] = asked[t],
         \A d \in Commands \ {c} :
           Touched(d) /\ Slug(d) = s /\ s \notin raced' =>
             /\ Effect(d) => Effect(d)'
             /\ Touched(c)' => command[d].op = "remove" /\ command'[c].op = "remove",
         Touched(c)' /\ (s \notin raced' \/ command'[c].alone) => Effect(c)',
         Touched(c)' \/ (s \notin raced' => Secret(s)')
                    \/ (~ Touched(c) /\ (s \notin raced' /\ Secret(s) => Secret(s)'))
  PROVE  AccountsInv'
<1> USE DEF AccountsInv
<1>1. AloneIs' /\ Shapes' /\ \A d \in Commands \ {c} : ~ command[d].alone
  BY AloneStays, ShapesStay
<1>2. AccountsTyped'
  BY DEF AccountsTyped
<1>3. SettingsKept'
  BY DEF SettingsKept
<1>4. /\ \A d \in Commands \ {c} : Touched(d)' = Touched(d) /\ Slug(d)' = Slug(d)
      /\ \A d \in Commands \ {c} : Pc(d, "write")' = Pc(d, "write")
  BY OthersStay
<1>5. FileKept'
  <2>1. Writing' <=> Writing
    BY <1>4 DEF Writing
  <2> QED BY <2>1 DEF FileKept
<1>6. ASSUME NEW d \in Commands \ {c}, Slug(d) \in AccountSlugs \ {s}, Effect(d) PROVE Effect(d)'
  <2>1. command'[d] = command[d] /\ password'[Slug(d)] = password[Slug(d)] /\ token'[Slug(d)] = token[Slug(d)]
    BY <1>6 DEF Others
  <2>2. Slug(d)' = Slug(d) /\ Pc(d, "delete token")' = Pc(d, "delete token")
    BY <2>1 DEF Slug, Pc
  <2>3. password'[Slug(d)'] = password[Slug(d)] /\ token'[Slug(d)'] = token[Slug(d)]
    BY <2>1, <2>2
  <2>4. CASE command[d].op = "remove"
    BY <1>6, <2>1, <2>2, <2>3, <2>4 DEF Effect
  <2>5. CASE command[d].op # "remove"
    BY <1>6, <2>1, <2>2, <2>3, <2>5 DEF Effect
  <2> QED BY <2>4, <2>5
<1>7. SecretsKept'
  <2> SUFFICES ASSUME NEW t \in AccountSlugs \ raced'
               PROVE  (\E d \in Commands : Slug(d)' = t /\ Touched(d)') \/ Secret(t)'
    BY DEF SecretsKept
  <2>1. CASE t # s
    <3>1. (\E d \in Commands : Slug(d) = t /\ Touched(d)) \/ Secret(t)
      BY DEF SecretsKept
    <3>2. Secret(t) => Secret(t)'
      BY <2>1 DEF Secret
    <3> QED BY <1>4, <2>1, <3>1, <3>2
  <2>2. CASE t = s
    <3>1. (\E d \in Commands : Slug(d) = s /\ Touched(d)) \/ Secret(s)
      BY <2>2 DEF SecretsKept
    <3>2. CASE Touched(c)'
      BY <2>2, <3>2
    <3>3. CASE ~ Touched(c)'
      BY <1>4, <2>2, <3>1, <3>3
    <3> QED BY <3>2, <3>3
  <2> QED BY <2>1, <2>2
<1>8. EffectsHold'
  <2> SUFFICES ASSUME NEW d \in Commands, Touched(d)', Slug(d)' \notin raced' \/ command'[d].alone
               PROVE  Effect(d)'
    BY DEF EffectsHold
  <2>1. CASE d = c
    BY <2>1
  <2>2. CASE d # c
    <3>1. ~ command'[d].alone
      BY <1>1, <2>2 DEF Others
    <3>2. Touched(d) /\ Slug(d) \notin raced' /\ Slug(d) \notin raced
      BY <1>4, <2>2, <3>1
    <3>3. Slug(d) \in AccountSlugs
      BY <3>2 DEF Shapes, Shape, Slug, Touched, Pc
    <3>4. Effect(d)
      BY <3>2 DEF EffectsHold
    <3> QED BY <1>6, <2>2, <3>2, <3>3, <3>4
  <2> QED BY <2>1, <2>2
<1>9. TouchesAlone'
  <2> SUFFICES ASSUME NEW d \in Commands, NEW e \in Commands, d # e, Slug(d)' = Slug(e)',
                      Slug(d)' \notin raced', Touched(d)', Touched(e)'
               PROVE  command'[d].op = "remove" /\ command'[e].op = "remove"
    BY DEF TouchesAlone
  <2>1. CASE d # c /\ e # c
    BY <1>4, <2>1 DEF TouchesAlone, Others
  <2>2. CASE d = c
    <3>1. Touched(e) /\ Slug(e) = s /\ s \notin raced' /\ Touched(c)' /\ e # c
      BY <1>4, <2>2
    <3> QED BY <2>2, <3>1 DEF Others
  <2>3. CASE e = c
    <3>1. Touched(d) /\ Slug(d) = s /\ s \notin raced' /\ Touched(c)' /\ d # c
      BY <1>4, <2>3
    <3> QED BY <2>3, <3>1 DEF Others
  <2> QED BY <2>1, <2>2, <2>3
<1> QED BY <1>1, <1>2, <1>3, <1>5, <1>7, <1>8, <1>9

LEMMA SetSecretKeeps ==
  ASSUME AccountsInv, NEW c \in Commands, SetSecret(c)
  PROVE  AccountsInv'
<1> DEFINE s == Slug(c)
<1>1. command[c] \in CommandRecords /\ command \in [Commands -> CommandRecords] /\ Shape(command[c])
  BY DEF AccountsInv, AccountsTyped, Shapes
<1>2. /\ Pc(c, "secret") /\ command[c].secret # 0 /\ command[c].secret \in 0..MaxStamp
      /\ command[c].op \in {"add", "edit"} /\ s \in AccountSlugs
  BY <1>1 DEF SetSecret, Pc, Shape, Slug, CommandRecords
<1>3. Step(c, "truncate") /\ raced' = raced \cup Crossed(c) /\ UNCHANGED <<config, mixed, stamp, written, asked>>
  BY DEF SetSecret, Raced
<1>4. /\ command' \in [Commands -> CommandRecords] /\ Others(c)
      /\ command'[c].pc = "truncate" /\ command'[c].op = command[c].op
      /\ command'[c].slug = command[c].slug /\ command'[c].set = command[c].set
      /\ command'[c].secret = command[c].secret /\ command'[c].alone = command[c].alone
      /\ command'[c].seen = command[c].seen
  BY <1>1, <1>3, StepIs, "truncate" \in Pcs DEF Pcs
<1>5. Shape(command'[c])
  BY <1>1, <1>2, <1>4 DEF Shape, Pc
<1>6. Crossed(c) \subseteq {s} /\ \A d \in Commands \ {c} : Slug(d) = s /\ Touched(d) => s \in Crossed(c)
  BY <1>2 DEF Crossed
<1>7. /\ password \in [AccountSlugs -> 0..MaxStamp] /\ raced \subseteq AccountSlugs
      /\ token \in [AccountSlugs -> [signin : 0..MaxStamp, refresh : BOOLEAN]]
      /\ asked \in [AccountSlugs -> [settings : Settings, secret : 0..MaxStamp]]
      /\ AccountsTypeOK /\ TokenRefresh
  BY DEF AccountsInv, AccountsTyped, AccountsTypeOK
<1>8. \/ /\ command[c].set.type = "password" /\ UNCHANGED token
         /\ password' = [password EXCEPT ![s] = command[c].secret]
      \/ /\ command[c].set.type = "google" /\ UNCHANGED password
         /\ token' = [token EXCEPT ![s] = [signin |-> command[c].secret, refresh |-> TRUE]]
  BY DEF SetSecret
<1>9. /\ password' \in [AccountSlugs -> 0..MaxStamp]
      /\ token' \in [AccountSlugs -> [signin : 0..MaxStamp, refresh : BOOLEAN]]
  <2> DEFINE n == command[c].secret
             signed == [signin |-> n, refresh |-> TRUE]
  <2>1. n \in 0..MaxStamp /\ signed \in [signin : 0..MaxStamp, refresh : BOOLEAN]
    BY <1>2
  <2>2. \/ UNCHANGED token /\ password' = [password EXCEPT ![s] = n]
        \/ UNCHANGED password /\ token' = [token EXCEPT ![s] = signed]
    BY <1>8
  <2> HIDE DEF n, signed, s
  <2> QED BY <1>7, <2>1, <2>2
<1>10. AccountsTypeOK'
  BY <1>2, <1>3, <1>6, <1>7, <1>9 DEF AccountsTypeOK
<1>11. TokenRefresh'
  <2> SUFFICES ASSUME NEW t \in AccountSlugs, token'[t].refresh PROVE token'[t].signin # 0
    BY DEF TokenRefresh
  <2>1. token[t].refresh => token[t].signin # 0
    BY <1>7 DEF TokenRefresh
  <2>2. token'[t] = token[t] \/ token'[t] = [signin |-> command[c].secret, refresh |-> TRUE]
    BY <1>7, <1>8
  <2> QED BY <1>2, <2>1, <2>2
<1>12. \A t \in AccountSlugs \ {s} : password'[t] = password[t] /\ token'[t] = token[t]
  BY <1>7, <1>8
<1>13. Effect(c)' /\ Slug(c)' = s /\ Touched(c)'
  BY <1>2, <1>4, <1>7, <1>8 DEF Effect, Slug, Touched, Pc
<1>14. ~ Pc(c, "idle") /\ ~ Pc(c, "write") /\ ~ Pc(c, "write")'
  BY <1>2, <1>4 DEF Pc
<1> HIDE DEF s
<1>15. s = Slug(c)
  BY DEF s
<1> QED BY <1>2, <1>3, <1>4, <1>5, <1>6, <1>7, <1>10, <1>11, <1>12, <1>13, <1>14, <1>15, SecretStep

LEMMA DeletePasswordKeeps ==
  ASSUME AccountsInv, NEW c \in Commands, DeletePassword(c)
  PROVE  AccountsInv'
<1> DEFINE s == Slug(c)
<1>1. command \in [Commands -> CommandRecords] /\ Shape(command[c])
  BY DEF AccountsInv, AccountsTyped, Shapes
<1>2. Pc(c, "delete password") /\ command[c].op = "remove" /\ s \in AccountSlugs
  BY <1>1 DEF DeletePassword, Pc, Shape, Slug
<1>3. /\ Step(c, "delete token") /\ raced' = raced \cup Crossed(c)
      /\ UNCHANGED <<config, mixed, token, stamp, written, asked>>
      /\ password' = [password EXCEPT ![s] = 0]
  BY DEF DeletePassword, Raced
<1>4. /\ command' \in [Commands -> CommandRecords] /\ Others(c)
      /\ command'[c].pc = "delete token" /\ command'[c].op = command[c].op
      /\ command'[c].slug = command[c].slug /\ command'[c].set = command[c].set
      /\ command'[c].secret = command[c].secret /\ command'[c].alone = command[c].alone
      /\ command'[c].seen = command[c].seen
  BY <1>1, <1>3, StepIs, "delete token" \in Pcs DEF Pcs
<1>5. Shape(command'[c])
  BY <1>1, <1>2, <1>4 DEF Shape, Pc
<1>6. /\ Crossed(c) \subseteq {s}
      /\ \A d \in Commands \ {c} :
           Slug(d) = s /\ Touched(d) /\ s \notin Crossed(c) => command[d].op = "remove"
  BY <1>2 DEF Crossed
<1>7. /\ password \in [AccountSlugs -> 0..MaxStamp] /\ raced \subseteq AccountSlugs
      /\ asked \in [AccountSlugs -> [settings : Settings, secret : 0..MaxStamp]]
      /\ AccountsTypeOK /\ TokenRefresh
  BY DEF AccountsInv, AccountsTyped, AccountsTypeOK
<1>8. password' \in [AccountSlugs -> 0..MaxStamp]
  <2>1. 0 \in 0..MaxStamp
    BY AccountsAssumption
  <2> HIDE DEF s
  <2> QED BY <1>3, <1>7, <2>1
<1>9. AccountsTypeOK' /\ TokenRefresh'
  BY <1>2, <1>3, <1>6, <1>7, <1>8 DEF AccountsTypeOK, TokenRefresh
<1>10. password'[s] = 0 /\ \A t \in AccountSlugs \ {s} : password'[t] = password[t]
  BY <1>2, <1>3, <1>7
<1>11. Effect(c)' /\ Slug(c)' = s /\ Touched(c)'
  BY <1>2, <1>4, <1>10 DEF Effect, Slug, Touched, Pc
<1>12. ASSUME NEW d \in Commands \ {c}, command[d].op = "remove", Slug(d) = s, Effect(d)
       PROVE  Effect(d)'
  <2>1. command'[d] = command[d]
    BY <1>4 DEF Others
  <2> QED BY <1>3, <1>10, <1>12, <2>1 DEF Effect, Slug, Pc
<1>13. ~ Pc(c, "idle") /\ ~ Pc(c, "write") /\ ~ Pc(c, "write")'
  BY <1>2, <1>4 DEF Pc
<1> HIDE DEF s
<1>14. s = Slug(c)
  BY DEF s
<1>15. \A d \in Commands \ {c} :
         Touched(d) /\ Slug(d) = s /\ s \notin raced' =>
           /\ Effect(d) => Effect(d)'
           /\ Touched(c)' => command[d].op = "remove" /\ command'[c].op = "remove"
  BY <1>2, <1>3, <1>4, <1>6, <1>12
<1> QED BY <1>2, <1>3, <1>4, <1>5, <1>7, <1>9, <1>10, <1>11, <1>13, <1>14, <1>15, SecretStep

LEMMA DeleteOAuthTokenKeeps ==
  ASSUME AccountsInv, NEW c \in Commands, DeleteOAuthToken(c)
  PROVE  AccountsInv'
<1> DEFINE s == Slug(c)
<1>1. command \in [Commands -> CommandRecords] /\ Shape(command[c])
  BY DEF AccountsInv, AccountsTyped, Shapes
<1>2. Pc(c, "delete token") /\ command[c].op = "remove" /\ s \in AccountSlugs /\ Touched(c)
  BY <1>1 DEF DeleteOAuthToken, Pc, Shape, Slug, Touched
<1>3. /\ Step(c, "truncate") /\ raced' = raced \cup Crossed(c)
      /\ UNCHANGED <<config, mixed, password, stamp, written, asked>>
      /\ token' = [token EXCEPT ![s] = NoToken]
  BY DEF DeleteOAuthToken, Raced
<1>4. /\ command' \in [Commands -> CommandRecords] /\ Others(c)
      /\ command'[c].pc = "truncate" /\ command'[c].op = command[c].op
      /\ command'[c].slug = command[c].slug /\ command'[c].set = command[c].set
      /\ command'[c].secret = command[c].secret /\ command'[c].alone = command[c].alone
      /\ command'[c].seen = command[c].seen
  BY <1>1, <1>3, StepIs, "truncate" \in Pcs DEF Pcs
<1>5. Shape(command'[c])
  BY <1>1, <1>2, <1>4 DEF Shape, Pc
<1>6. /\ Crossed(c) \subseteq {s}
      /\ \A d \in Commands \ {c} :
           Slug(d) = s /\ Touched(d) /\ s \notin Crossed(c) => command[d].op = "remove"
  BY <1>2 DEF Crossed
<1>7. /\ token \in [AccountSlugs -> [signin : 0..MaxStamp, refresh : BOOLEAN]]
      /\ raced \subseteq AccountSlugs
      /\ asked \in [AccountSlugs -> [settings : Settings, secret : 0..MaxStamp]]
      /\ AccountsTypeOK /\ TokenRefresh
  BY DEF AccountsInv, AccountsTyped, AccountsTypeOK
<1>8. NoToken \in [signin : 0..MaxStamp, refresh : BOOLEAN] /\ ~ NoToken.refresh
  BY AccountsAssumption DEF NoToken
<1>9. token'[s] = NoToken /\ \A t \in AccountSlugs \ {s} : token'[t] = token[t]
  BY <1>2, <1>3, <1>7
<1>10. AccountsTypeOK' /\ TokenRefresh'
  <2>1. token' \in [AccountSlugs -> [signin : 0..MaxStamp, refresh : BOOLEAN]]
    BY <1>2, <1>3, <1>7, <1>8
  <2>2. TokenRefresh'
    BY <1>7, <1>8, <1>9 DEF TokenRefresh
  <2> QED BY <1>2, <1>3, <1>6, <1>7, <2>1, <2>2 DEF AccountsTypeOK
<1>11. ASSUME Touched(c)' /\ (s \notin raced' \/ command'[c].alone) PROVE Effect(c)'
  <2>1. Effect(c)
    BY <1>2, <1>3, <1>4, <1>11 DEF AccountsInv, EffectsHold
  <2>2. password[s] = 0
    BY <1>2, <2>1 DEF Effect
  <2> QED BY <1>2, <1>3, <1>4, <1>9, <2>2 DEF Effect, Slug, Pc
<1>12. ASSUME NEW d \in Commands \ {c}, command[d].op = "remove", Slug(d) = s, Effect(d)
       PROVE  Effect(d)'
  <2>1. command'[d] = command[d]
    BY <1>4 DEF Others
  <2> QED BY <1>3, <1>9, <1>12, <2>1 DEF Effect, Slug, Pc
<1>13. ~ Pc(c, "idle") /\ ~ Pc(c, "write") /\ ~ Pc(c, "write")' /\ Slug(c)' = s /\ Touched(c)'
  BY <1>2, <1>4 DEF Pc, Slug, Touched
<1> HIDE DEF s
<1>14. s = Slug(c)
  BY DEF s
<1>15. \A d \in Commands \ {c} :
         Touched(d) /\ Slug(d) = s /\ s \notin raced' =>
           /\ Effect(d) => Effect(d)'
           /\ Touched(c)' => command[d].op = "remove" /\ command'[c].op = "remove"
  BY <1>2, <1>3, <1>4, <1>6, <1>12
<1>16. Touched(c)' /\ (s \notin raced' \/ command'[c].alone) => Effect(c)'
  BY <1>11
<1>17. raced \subseteq raced' /\ s \in AccountSlugs
  BY <1>2, <1>3
<1>18. asked' = asked /\ password' = password /\ UNCHANGED <<config, mixed, stamp, written>>
  BY <1>3
<1>19. /\ asked' \in [AccountSlugs -> [settings : Settings, secret : 0..MaxStamp]]
       /\ \A t \in AccountSlugs : asked'[t].settings = asked[t].settings
       /\ \A t \in AccountSlugs \ {s} :
            password'[t] = password[t] /\ token'[t] = token[t] /\ asked'[t] = asked[t]
  BY <1>7, <1>9, <1>18
<1> QED BY <1>4, <1>5, <1>10, <1>13, <1>14, <1>15, <1>16, <1>17, <1>18, <1>19, SecretStep

LEMMA SetReauthorizedKeeps ==
  ASSUME AccountsInv, NEW c \in Commands, SetReauthorized(c)
  PROVE  AccountsInv'
<1> SUFFICES ASSUME NEW s, s = Slug(c) PROVE AccountsInv'
  OBVIOUS
<1> DEFINE n == command[c].secret
           signed == [signin |-> n, refresh |-> TRUE]
<1>1. /\ command \in [Commands -> CommandRecords] /\ Shape(command[c])
      /\ command[c] \in CommandRecords
  BY DEF AccountsInv, AccountsTyped, Shapes
<1>2. /\ Pc(c, "token") /\ command[c].op = "reauthorize" /\ s \in AccountSlugs
      /\ command[c].seen.type = "google" /\ n # 0 /\ n \in 0..MaxStamp
  BY <1>1 DEF SetReauthorized, Pc, Shape, Slug, CommandRecords
<1>3. /\ Ends(c) /\ raced' = raced \cup (Crossed(c) \cup {t \in {s} : command[c].seen # written[t]})
      /\ UNCHANGED <<config, mixed, password, stamp, written>>
      /\ token' = [token EXCEPT ![s] = signed]
      /\ asked' = [asked EXCEPT ![s].secret = n]
  BY DEF SetReauthorized, Raced
<1>4. command' \in [Commands -> CommandRecords] /\ Others(c) /\ IdleIs(command'[c])
  BY <1>1, <1>3, EndIs
<1>5. Shape(command'[c]) /\ ~ Touched(c)' /\ ~ Pc(c, "write")' /\ (command'[c].alone => command[c].alone)
  BY <1>4 DEF IdleIs, Touched, Pc
<1>6. /\ Crossed(c) \subseteq {s}
      /\ \A d \in Commands \ {c} : Slug(d) = s /\ Touched(d) => s \in Crossed(c)
  BY <1>2 DEF Crossed
<1>7. /\ token \in [AccountSlugs -> [signin : 0..MaxStamp, refresh : BOOLEAN]]
      /\ raced \subseteq AccountSlugs
      /\ asked \in [AccountSlugs -> [settings : Settings, secret : 0..MaxStamp]]
      /\ AccountsTypeOK /\ TokenRefresh /\ SettingsKept
  BY DEF AccountsInv, AccountsTyped, AccountsTypeOK
<1>8. signed \in [signin : 0..MaxStamp, refresh : BOOLEAN] /\ signed.signin # 0
  BY <1>2
<1>9. token'[s] = signed /\ \A t \in AccountSlugs \ {s} : token'[t] = token[t]
  BY <1>2, <1>3, <1>7
<1>10. AccountsTypeOK' /\ TokenRefresh'
  <2>1. token' \in [AccountSlugs -> [signin : 0..MaxStamp, refresh : BOOLEAN]]
    BY <1>2, <1>3, <1>7, <1>8
  <2>2. TokenRefresh'
    <3> HIDE DEF signed
    <3> QED BY <1>7, <1>8, <1>9 DEF TokenRefresh
  <2> QED BY <1>2, <1>3, <1>6, <1>7, <2>1, <2>2 DEF AccountsTypeOK
<1>11. /\ asked' \in [AccountSlugs -> [settings : Settings, secret : 0..MaxStamp]]
       /\ \A t \in AccountSlugs : asked'[t].settings = asked[t].settings
       /\ \A t \in AccountSlugs \ {s} : asked'[t] = asked[t]
       /\ asked'[s].secret = n
  <2> DEFINE r == [asked[s] EXCEPT !.secret = n]
  <2>1. /\ r \in [settings : Settings, secret : 0..MaxStamp] /\ r.settings = asked[s].settings
        /\ r.secret = n
    BY <1>2, <1>7
  <2>2. asked' = [asked EXCEPT ![s] = r]
    BY <1>3
  <2> HIDE DEF r, n
  <2> QED BY <1>2, <1>7, <2>1, <2>2
<1>12. ASSUME s \notin raced' PROVE Secret(s)'
  <2>1. command[c].seen = written[s] /\ s \notin raced
    BY <1>3, <1>12
  <2>2. asked'[s].settings = command[c].seen
    BY <1>2, <1>7, <1>11, <2>1 DEF SettingsKept
  <2>3. asked'[s].settings.type = "google" /\ token'[s] = [signin |-> asked'[s].secret, refresh |-> TRUE]
    BY <1>2, <1>9, <1>11, <2>2
  <2> HIDE DEF signed, n
  <2> QED BY <2>3 DEF Secret
<1>13. ~ Pc(c, "idle") /\ ~ Pc(c, "write")
  BY <1>2 DEF Pc
<1> HIDE DEF n, signed
<1>15. password' = password /\ UNCHANGED <<config, mixed, stamp, written>> /\ raced \subseteq raced'
  BY <1>3
<1>16. \A d \in Commands \ {c} : ~ (Touched(d) /\ Slug(d) = s /\ s \notin raced')
  BY <1>3, <1>6
<1>17. \A t \in AccountSlugs \ {s} :
         password'[t] = password[t] /\ token'[t] = token[t] /\ asked'[t] = asked[t]
  BY <1>9, <1>11, <1>15
<1> QED BY <1>2, <1>4, <1>5, <1>10, <1>11, <1>12, <1>13, <1>15, <1>16, <1>17, SecretStep

LEMMA SetRefreshedKeeps ==
  ASSUME AccountsInv, NEW c \in Commands, SetRefreshed(c)
  PROVE  AccountsInv'
<1> SUFFICES ASSUME NEW s, s = Slug(c) PROVE AccountsInv'
  OBVIOUS
<1> DEFINE n == command[c].secret
           signed == [signin |-> n, refresh |-> TRUE]
<1>1. /\ command \in [Commands -> CommandRecords] /\ Shape(command[c])
      /\ command[c] \in CommandRecords
  BY DEF AccountsInv, AccountsTyped, Shapes
<1>2. Pc(c, "refresh") /\ s \in AccountSlugs /\ n # 0 /\ n \in 0..MaxStamp
  BY <1>1 DEF SetRefreshed, Refreshed, Pc, Shape, Slug, CommandRecords
<1>3. /\ Ends(c) /\ raced' = raced \cup {t \in {s} : token[t].signin # n}
      /\ UNCHANGED <<config, mixed, password, stamp, written, asked>>
      /\ token' = [token EXCEPT ![s] = signed]
  BY DEF SetRefreshed, Refreshed, Raced
<1>4. command' \in [Commands -> CommandRecords] /\ Others(c) /\ IdleIs(command'[c])
  BY <1>1, <1>3, EndIs
<1>5. Shape(command'[c]) /\ ~ Touched(c)' /\ ~ Pc(c, "write")' /\ (command'[c].alone => command[c].alone)
  BY <1>4 DEF IdleIs, Touched, Pc
<1>6. s \notin raced' => token[s].signin = n /\ token[s] # NoToken
  BY <1>2, <1>3 DEF NoToken
<1>7. /\ token \in [AccountSlugs -> [signin : 0..MaxStamp, refresh : BOOLEAN]]
      /\ raced \subseteq AccountSlugs
      /\ asked \in [AccountSlugs -> [settings : Settings, secret : 0..MaxStamp]]
      /\ AccountsTypeOK /\ TokenRefresh
  BY DEF AccountsInv, AccountsTyped, AccountsTypeOK
<1>8. signed \in [signin : 0..MaxStamp, refresh : BOOLEAN] /\ signed.signin # 0
  BY <1>2
<1>9. token'[s] = signed /\ \A t \in AccountSlugs \ {s} : token'[t] = token[t]
  BY <1>2, <1>3, <1>7
<1>10. AccountsTypeOK' /\ TokenRefresh'
  <2>1. token' \in [AccountSlugs -> [signin : 0..MaxStamp, refresh : BOOLEAN]]
    BY <1>2, <1>3, <1>7, <1>8
  <2>2. TokenRefresh'
    <3> HIDE DEF signed
    <3> QED BY <1>7, <1>8, <1>9 DEF TokenRefresh
  <2> QED BY <1>2, <1>3, <1>7, <2>1, <2>2 DEF AccountsTypeOK
\* The token that a command stored or an account has is the one that is refreshed.
<1>11. ASSUME NEW m, s \notin raced', token[s] = [signin |-> m, refresh |-> TRUE]
       PROVE  token'[s] = [signin |-> m, refresh |-> TRUE]
  <2>1. m = n
    BY <1>6, <1>11
  <2> QED BY <1>9, <2>1
<1>12. s \notin raced' /\ Secret(s) => Secret(s)'
  <2> SUFFICES ASSUME s \notin raced', Secret(s) PROVE Secret(s)'
    OBVIOUS
  <2> HIDE DEF n, signed
  <2>1. password' = password /\ asked' = asked
    BY <1>3
  <2>2. \/ asked[s].settings.type = "password" /\ password[s] = asked[s].secret
        \/ /\ asked[s].settings.type = "google"
           /\ token[s] = [signin |-> asked[s].secret, refresh |-> TRUE]
    BY <1>6 DEF Secret
  <2>3. \/ asked'[s].settings.type = "password" /\ password'[s] = asked'[s].secret
        \/ /\ asked'[s].settings.type = "google"
           /\ token'[s] = [signin |-> asked'[s].secret, refresh |-> TRUE]
    BY <1>11, <2>1, <2>2
  <2> QED BY <2>3 DEF Secret
<1>13. ASSUME NEW d \in Commands \ {c}, Touched(d), Slug(d) = s, s \notin raced', Effect(d)
       PROVE  Effect(d)'
  <2>1. /\ command'[d] = command[d] /\ Slug(d)' = s
        /\ Pc(d, "delete token")' = Pc(d, "delete token") /\ password' = password
    BY <1>3, <1>4, <1>13 DEF Others, Slug, Pc
  <2>2. CASE command[d].op = "remove"
    <3>1. password[s] = 0 /\ Pc(d, "delete token")
      BY <1>6, <1>13, <2>2 DEF Effect
    <3> QED BY <2>1, <2>2, <3>1 DEF Effect
  <2>3. CASE command[d].op # "remove"
    <3>1. \/ command[d].set.type = "password" /\ password[s] = command[d].secret
          \/ /\ command[d].set.type = "google"
             /\ token[s] = [signin |-> command[d].secret, refresh |-> TRUE]
      BY <1>13, <2>3 DEF Effect
    <3>2. \/ command'[d].set.type = "password" /\ password'[s] = command'[d].secret
          \/ /\ command'[d].set.type = "google"
             /\ token'[s] = [signin |-> command'[d].secret, refresh |-> TRUE]
      BY <1>11, <1>13, <2>1, <3>1
    <3> QED BY <2>1, <2>3, <3>2 DEF Effect
  <2> QED BY <2>2, <2>3
<1>14. ~ Pc(c, "idle") /\ ~ Pc(c, "write") /\ ~ Touched(c)
  BY <1>2 DEF Pc, Touched
<1> HIDE DEF n, signed
<1>16. password' = password /\ asked' = asked /\ UNCHANGED <<config, mixed, stamp, written>>
       /\ raced \subseteq raced'
  BY <1>3
<1>17. \A t \in AccountSlugs \ {s} :
         password'[t] = password[t] /\ token'[t] = token[t] /\ asked'[t] = asked[t]
  BY <1>9, <1>16
<1>18. \A d \in Commands \ {c} :
         Touched(d) /\ Slug(d) = s /\ s \notin raced' => (Effect(d) => Effect(d)')
  BY <1>13
<1> QED BY <1>2, <1>4, <1>5, <1>7, <1>10, <1>12, <1>14, <1>16, <1>17, <1>18, SecretStep

-----------------------------------------------------------------------------
(* A command writes the file. *)

LEMMA TruncateKeeps ==
  ASSUME AccountsInv, NEW c \in Commands, Truncate(c)
  PROVE  AccountsInv'
<1> USE DEF AccountsInv
<1>1. command \in [Commands -> CommandRecords] /\ Shape(command[c])
  BY DEF AccountsTyped, Shapes
<1>2. /\ Pc(c, "truncate") /\ Step(c, "write") /\ config' = Nobody /\ mixed' = FALSE
      /\ UNCHANGED <<password, token, stamp, written, asked, raced>>
  BY DEF Truncate, keyring
<1>3. /\ command' \in [Commands -> CommandRecords] /\ Others(c)
      /\ command'[c].pc = "write" /\ command'[c].op = command[c].op
      /\ command'[c].slug = command[c].slug /\ command'[c].set = command[c].set
      /\ command'[c].secret = command[c].secret /\ command'[c].alone = command[c].alone
      /\ command'[c].seen = command[c].seen
  BY <1>1, <1>2, StepIs, "write" \in Pcs DEF Pcs
<1>4. Shape(command'[c])
  BY <1>1, <1>2, <1>3 DEF Shape, Pc
<1>5. AloneIs' /\ Shapes'
  BY <1>2, <1>3, <1>4, AloneStays, ShapesStay DEF Pc
<1>6. AccountsTyped'
  BY <1>2, <1>3, AbsentTyped DEF AccountsTyped, AccountsTypeOK, AbsentIs
<1>7. FileKept' /\ SettingsKept' /\ TokenRefresh'
  BY <1>2, <1>3 DEF FileKept, Writing, Pc, SettingsKept, TokenRefresh
<1>8. \A d \in Commands :
        /\ Touched(d)' = Touched(d) /\ Slug(d)' = Slug(d) /\ command'[d].op = command[d].op
        /\ command'[d].alone = command[d].alone
  BY <1>2, <1>3 DEF Others, Touched, Slug, Pc
<1>9. \A d \in Commands : Effect(d) => Effect(d)'
  <2>1. ASSUME NEW d \in Commands \ {c}, Effect(d) PROVE Effect(d)'
    BY <1>2, <1>3, <2>1 DEF Effect, Others, Slug, Pc
  <2>2. ASSUME Effect(c) PROVE Effect(c)'
    BY <1>2, <1>3, <2>2 DEF Effect, Slug, Pc
  <2> QED BY <2>1, <2>2
<1>10. SecretsKept' /\ EffectsHold' /\ TouchesAlone'
  BY <1>2, <1>8, <1>9 DEF SecretsKept, Secret, EffectsHold, TouchesAlone
<1> QED BY <1>5, <1>6, <1>7, <1>10

\* A file that is whole is what was loaded with the account as asked.  Of the others,
\* an account that was written since is raced; of its own, one that was read before.
LEMMA WriteKeeps ==
  ASSUME AccountsInv, NEW c \in Commands, Write(c)
  PROVE  AccountsInv'
<1> SUFFICES ASSUME NEW s, s = Slug(c), NEW r, r = command[c] PROVE AccountsInv'
  OBVIOUS
<1> USE DEF AccountsInv
<1>1. /\ command \in [Commands -> CommandRecords] /\ r \in CommandRecords /\ Shape(r)
      /\ written \in [AccountSlugs -> Settings]
      /\ asked \in [AccountSlugs -> [settings : Settings, secret : 0..MaxStamp]]
      /\ raced \subseteq AccountSlugs /\ AccountsTypeOK
  BY DEF AccountsTyped, Shapes, AccountsTypeOK
<1>2. /\ r.pc = "write" /\ r.op \in {"add", "edit", "remove"} /\ r.slug = s /\ s \in AccountSlugs
      /\ r.set \in Settings /\ r.secret \in 0..MaxStamp /\ r.loaded \in [AccountSlugs -> Settings]
  BY <1>1 DEF Write, Pc, Shape, Slug, CommandRecords
<1>3. /\ Ends(c) /\ config' = [r.loaded EXCEPT ![s] = r.set] /\ written' = config'
      /\ mixed' \in BOOLEAN /\ UNCHANGED <<password, token, stamp>>
  BY DEF Write, Upserted, keyring
<1> DEFINE secret == IF r.op = "edit" /\ r.secret = 0 THEN asked[s].secret ELSE r.secret
<1>4. asked' = [asked EXCEPT ![s] = [settings |-> r.set, secret |-> secret]]
  BY DEF Write
<1>5. raced' = (IF r.op # "edit" /\ r.alone THEN raced \ {s} ELSE raced)
        \cup (IF mixed' THEN AccountSlugs
              ELSE {t \in AccountSlugs : r.loaded[t] # written[t]} \cup {t \in {s} : r.seen # written[t]})
  BY <1>2 DEF Write, Raced, Slug
<1>6. command' \in [Commands -> CommandRecords] /\ Others(c) /\ IdleIs(command'[c])
  BY <1>1, <1>3, EndIs
<1>7. /\ Shape(command'[c]) /\ ~ Touched(c)' /\ ~ Pc(c, "idle")
      /\ (command'[c].alone => command[c].alone) /\ Touched(c) = (r.secret # 0 \/ r.op = "remove")
  BY <1>2, <1>6 DEF IdleIs, Touched, Pc
<1>8. AloneIs' /\ Shapes' /\ \A d \in Commands \ {c} : ~ command[d].alone
  BY <1>6, <1>7, AloneStays, ShapesStay
<1>9. \A d \in Commands \ {c} :
        /\ Touched(d)' = Touched(d) /\ Slug(d)' = Slug(d)
        /\ command'[d].op = command[d].op /\ (Effect(d) => Effect(d)')
  <2> SUFFICES ASSUME NEW d \in Commands \ {c}
               PROVE  /\ Touched(d)' = Touched(d) /\ Slug(d)' = Slug(d)
                      /\ command'[d].op = command[d].op /\ (Effect(d) => Effect(d)')
    OBVIOUS
  <2>1. command'[d] = command[d] /\ password' = password /\ token' = token
    BY <1>3, <1>6 DEF Others
  <2> QED BY <2>1 DEF Touched, Slug, Effect, Pc
<1>10. secret \in 0..MaxStamp
  BY <1>1, <1>2
<1> HIDE DEF secret
<1>11. /\ config' \in [AccountSlugs -> Settings] /\ config'[s] = r.set
       /\ \A t \in AccountSlugs \ {s} : config'[t] = r.loaded[t]
  BY <1>2, <1>3
<1>12. /\ asked' \in [AccountSlugs -> [settings : Settings, secret : 0..MaxStamp]]
       /\ asked'[s].settings = r.set /\ asked'[s].secret = secret
       /\ \A t \in AccountSlugs \ {s} : asked'[t] = asked[t]
  <2> DEFINE a == [settings |-> r.set, secret |-> secret]
  <2>1. a \in [settings : Settings, secret : 0..MaxStamp] /\ a.settings = r.set /\ a.secret = secret
    BY <1>2, <1>10
  <2>2. asked' = [asked EXCEPT ![s] = a]
    BY <1>4
  <2> HIDE DEF a
  <2> QED BY <1>1, <1>2, <2>1, <2>2
<1>13. AccountsTyped' /\ TokenRefresh'
  <2>1. raced' \subseteq AccountSlugs
    BY <1>1, <1>2, <1>5
  <2> QED BY <1>1, <1>3, <1>6, <1>11, <1>12, <2>1 DEF AccountsTyped, AccountsTypeOK, TokenRefresh
<1>14. FileKept'
  BY <1>2, <1>3, <1>5 DEF FileKept
<1>15. \A t \in AccountSlugs \ raced' :
         /\ r.loaded[t] = written[t] /\ (t # s => t \notin raced)
         /\ t = s => r.seen = written[t] /\ (s \in raced => r.op # "edit" /\ r.alone)
  BY <1>2, <1>5
<1>16. SettingsKept'
  <2> SUFFICES ASSUME NEW t \in AccountSlugs \ raced' PROVE written'[t] = asked'[t].settings
    BY DEF SettingsKept
  <2>1. CASE t = s
    BY <1>3, <1>11, <1>12, <2>1
  <2>2. CASE t # s
    <3>1. written[t] = asked[t].settings
      BY <1>15, <2>2 DEF SettingsKept
    <3> QED BY <1>3, <1>11, <1>12, <1>15, <2>2, <3>1
  <2> QED BY <2>1, <2>2
<1>17. ASSUME s \notin raced', Touched(c) PROVE Secret(s)'
  <2>1. Slug(c) \notin raced \/ command[c].alone
    BY <1>2, <1>15, <1>17
  <2>2. Effect(c)
    BY <1>17, <2>1 DEF EffectsHold
  <2>3. CASE r.op = "remove"
    <3>1. password[s] = 0 /\ token[s] = NoToken /\ r.set = Absent
      BY <1>1, <1>2, <2>2, <2>3 DEF Effect, Pc, Shape
    <3>2. asked'[s].settings.type = "none"
      BY <1>12, <3>1, AbsentTyped DEF AbsentIs
    <3> QED BY <1>3, <3>1, <3>2 DEF Secret
  <2>4. CASE r.op # "remove"
    <3>1. \/ r.set.type = "password" /\ password[s] = r.secret
          \/ r.set.type = "google" /\ token[s] = [signin |-> r.secret, refresh |-> TRUE]
      BY <2>2, <2>4 DEF Effect
    <3>2. secret = r.secret
      BY <1>7, <1>17, <2>4 DEF secret
    <3>3. \/ asked'[s].settings.type = "password" /\ password'[s] = asked'[s].secret
          \/ /\ asked'[s].settings.type = "google"
             /\ token'[s] = [signin |-> asked'[s].secret, refresh |-> TRUE]
      BY <1>3, <1>12, <3>1, <3>2
    <3> QED BY <3>3 DEF Secret
  <2> QED BY <2>3, <2>4
<1>18. ASSUME NEW t \in AccountSlugs \ raced', t # s \/ ~ Touched(c), Secret(t) PROVE Secret(t)'
  <2>1. CASE t # s
    <3>1. asked'[t] = asked[t] /\ password' = password /\ token' = token
      BY <1>3, <1>12, <2>1
    <3> QED BY <1>18, <3>1 DEF Secret
  <2>2. CASE t = s
    <3>1. r.op = "edit" /\ r.secret = 0 /\ s \notin raced
      BY <1>1, <1>2, <1>7, <1>15, <1>18, <2>2 DEF Shape
    <3>2. asked[s].settings = r.seen /\ r.set.type = r.seen.type /\ secret = asked[s].secret
      BY <1>1, <1>2, <1>15, <2>2, <3>1 DEF SettingsKept, Shape, secret
    <3>3. /\ asked'[s].settings.type = asked[s].settings.type /\ asked'[s].secret = asked[s].secret
          /\ password' = password /\ token' = token
      BY <1>3, <1>12, <3>2
    <3> QED BY <1>18, <2>2, <3>3 DEF Secret
  <2> QED BY <2>1, <2>2
<1>19. SecretsKept'
  <2> SUFFICES ASSUME NEW t \in AccountSlugs \ raced'
               PROVE  (\E d \in Commands : Slug(d)' = t /\ Touched(d)') \/ Secret(t)'
    BY DEF SecretsKept
  <2>1. CASE t = s /\ Touched(c)
    BY <1>17, <2>1
  <2>2. CASE t # s \/ ~ Touched(c)
    <3>1. t \notin raced
      BY <1>1, <1>2, <1>7, <1>15, <2>2 DEF Shape
    <3>2. (\E d \in Commands : Slug(d) = t /\ Touched(d)) \/ Secret(t)
      BY <3>1 DEF SecretsKept
    <3> QED BY <1>9, <1>18, <2>2, <3>2
  <2> QED BY <2>1, <2>2
\* Nothing else has touched the secrets of an account that is mended.
<1>20. \A d \in Commands \ {c} : Touched(d) /\ Slug(d) \notin raced' => Slug(d) \notin raced
  <2> SUFFICES ASSUME NEW d \in Commands \ {c}, Touched(d), Slug(d) \notin raced', Slug(d) \in raced
               PROVE  FALSE
    OBVIOUS
  <2>1. Slug(d) = s /\ r.alone
    BY <1>1, <1>15
  <2>2. Pc(d, "idle")
    BY <2>1 DEF AloneIs
  <2> QED BY <2>2 DEF Touched, Pc
<1>21. EffectsHold'
  <2> SUFFICES ASSUME NEW d \in Commands, Touched(d)', Slug(d)' \notin raced' \/ command'[d].alone
               PROVE  Effect(d)'
    BY DEF EffectsHold
  <2>1. d # c /\ Touched(d) /\ ~ command'[d].alone
    BY <1>6, <1>7, <1>8, <1>9 DEF Others
  <2>2. Slug(d) \notin raced
    BY <1>9, <1>20, <2>1
  <2> QED BY <1>9, <2>1, <2>2 DEF EffectsHold
<1>22. TouchesAlone'
  <2> SUFFICES ASSUME NEW d \in Commands, NEW e \in Commands, d # e, Slug(d)' = Slug(e)',
                      Slug(d)' \notin raced', Touched(d)', Touched(e)'
               PROVE  command'[d].op = "remove" /\ command'[e].op = "remove"
    BY DEF TouchesAlone
  <2>1. d # c /\ e # c
    BY <1>7
  <2>2. Touched(d) /\ Touched(e) /\ Slug(d) = Slug(e) /\ Slug(d) \notin raced
    BY <1>9, <1>20, <2>1
  <2> QED BY <1>9, <2>1, <2>2 DEF TouchesAlone
<1> QED BY <1>8, <1>13, <1>14, <1>16, <1>19, <1>21, <1>22

LEMMA NextAccountsInv == AccountsInv /\ [NextAccounts]_accountVars => AccountsInv'
<1> SUFFICES ASSUME AccountsInv, [NextAccounts]_accountVars PROVE AccountsInv'
  OBVIOUS
<1>1. CASE NextAccounts
  <2>1. PICK c \in Commands :
          \/ \E s \in AccountSlugs :
               \/ \E type \in {"password", "google"} : BeginAdd(c, s, type)
               \/ \E n \in {0, stamp + 1} : BeginEdit(c, s, n)
               \/ BeginRemove(c, s) \/ BeginReauthorize(c, s) \/ BeginConnect(c, s)
          \/ Load(c) \/ SetSecret(c) \/ DeletePassword(c) \/ DeleteOAuthToken(c)
          \/ Truncate(c) \/ Write(c) \/ Fail(c) \/ SetReauthorized(c) \/ SetRefreshed(c)
    BY <1>1 DEF NextAccounts
  <2>2. CASE \E s \in AccountSlugs :
               \/ \E type \in {"password", "google"} : BeginAdd(c, s, type)
               \/ \E n \in {0, stamp + 1} : BeginEdit(c, s, n)
               \/ BeginRemove(c, s) \/ BeginReauthorize(c, s) \/ BeginConnect(c, s)
    BY <2>2, BeginsKeep
  <2>3. CASE Load(c) \/ Fail(c)
    BY <2>3, LoadKeeps, FailKeeps
  <2>4. CASE SetSecret(c) \/ DeletePassword(c) \/ DeleteOAuthToken(c)
    BY <2>4, SetSecretKeeps, DeletePasswordKeeps, DeleteOAuthTokenKeeps
  <2>5. CASE Truncate(c) \/ Write(c)
    BY <2>5, TruncateKeeps, WriteKeeps
  <2>6. CASE SetReauthorized(c) \/ SetRefreshed(c)
    BY <2>6, SetReauthorizedKeeps, SetRefreshedKeeps
  <2> QED BY <2>1, <2>2, <2>3, <2>4, <2>5, <2>6
<1>2. CASE UNCHANGED accountVars
  <2>1. /\ AccountsTyped' /\ Shapes' /\ TokenRefresh' /\ AloneIs'
        /\ FileKept' /\ SettingsKept'
    BY <1>2 DEF AccountsInv, accountVars, AccountsTyped, AccountsTypeOK, Shapes, TokenRefresh,
                AloneIs, Pc, FileKept, Writing, SettingsKept
  <2>2. SecretsKept' /\ EffectsHold' /\ TouchesAlone'
    BY <1>2 DEF AccountsInv, accountVars, SecretsKept, Secret, Slug, Touched, Pc, EffectsHold, Effect,
                TouchesAlone
  <2> QED BY <2>1, <2>2 DEF AccountsInv
<1> QED BY <1>1, <1>2

LEMMA AccountsAreAsAsked == AccountsInv => AccountsTypeOK /\ SettingsAsAsked /\ SecretsAsAsked
<1> SUFFICES ASSUME AccountsInv PROVE AccountsTypeOK /\ SettingsAsAsked /\ SecretsAsAsked
  OBVIOUS
<1>1. AccountsTypeOK
  BY DEF AccountsInv, AccountsTyped
<1>2. SettingsAsAsked
  BY DEF AccountsInv, FileKept, SettingsKept, Writing, SettingsAsAsked
<1>3. \A s \in AccountSlugs : (\E c \in Commands : Slug(c) = s /\ Touched(c)) => Under(s)
  BY DEF Touched, Under, Pc
<1>4. SecretsAsAsked
  BY <1>3 DEF AccountsInv, SecretsKept, SecretsAsAsked, Secret
<1> QED BY <1>1, <1>2, <1>4

\* The accounts, their secrets and the commands are well typed in every reachable
\* state.
THEOREM AccountsTypeCorrect == AccountsSpec => []AccountsTypeOK
<1>1. AccountsSpec => []AccountsInv
  BY InitAccountsInv, NextAccountsInv, PTL DEF AccountsSpec
<1> QED BY <1>1, AccountsAreAsAsked, PTL

\* An account has the settings that the last command on it left, for any commands
\* and accounts, unless a change was lost (account.go: Add, Update, Remove).
THEOREM SettingsStayAsAsked == AccountsSpec => []SettingsAsAsked
<1>1. AccountsSpec => []AccountsInv
  BY InitAccountsInv, NextAccountsInv, PTL DEF AccountsSpec
<1> QED BY <1>1, AccountsAreAsAsked, PTL

\* An account has the secret last given for it, and one that was removed none, for
\* any commands and accounts, unless a change was lost (account.go, google.go).
THEOREM SecretsStayAsAsked == AccountsSpec => []SecretsAsAsked
<1>1. AccountsSpec => []AccountsInv
  BY InitAccountsInv, NextAccountsInv, PTL DEF AccountsSpec
<1> QED BY <1>1, AccountsAreAsAsked, PTL

-----------------------------------------------------------------------------
(* The database: its invariant. *)

\* What is recorded is what took effect, and a process knows no more than that:
\* it is past its last migration when it has the database.
AtVersion(p) ==
    /\ process[p].version <= Len(shape) + 1
    /\ IsAt(p, "apply") => process[p].version <= LastOf[p]
    /\ process[p].pc \in {"ready", "clear", "set"} => process[p].version > LastOf[p]

StoreInv ==
    /\ recorded = 1..Len(shape)
    /\ \A p \in Processes : AtVersion(p)

\* The rows that are the default of a scope: those made so last, unless cleared.
DefaultRows(s) == \A i \in Ids : IsDefault(s, i) <=> s \in standing /\ i \in made[s]

\* What is cleared, somebody is to set, or somebody ended before.
ClearedFor(s) == s \in standing \/ MayHaveNone(s)

DefaultInv == \A s \in Scopes : DefaultRows(s) /\ ClearedFor(s)

StoreTypeInv == DatabaseTypeOK /\ StoreInv

-----------------------------------------------------------------------------
(* Its types, and what is recorded. *)

LEMMA RowFields ==
    /\ NoRow \in Rows
    /\ \A s \in Scopes, d \in BOOLEAN : Row(s, d) \in Rows
    /\ Down \in Progress
  BY DatabaseAssumption DEF NoRow, Row, Rows, Scopes, Down, Progress

LEMMA ProgressFields ==
    ASSUME DatabaseTypeOK, NEW p \in Processes
    PROVE  /\ process[p].version \in 1..Versions + 1 /\ process[p].version \in Nat
           /\ process[p].pc \in {"down", "check", "apply", "ready", "clear", "set"}
           /\ process[p].id \in Ids \cup {0} /\ process[p].scope \in Scopes
           /\ Len(shape) \in Nat
           /\ LastOf[p] \in Nat /\ LastOf[p] >= Rekey /\ LastOf[p] <= Versions
           /\ Versions \in Nat /\ Rekey \in Nat /\ Rekey >= 1
  BY DatabaseAssumption DEF DatabaseTypeOK, Progress

\* The initial states.
LEMMA InitStore == InitDatabase => StoreTypeInv
<1> SUFFICES ASSUME InitDatabase PROVE StoreTypeInv
  OBVIOUS
<1>1. DatabaseTypeOK
  BY RowFields, DatabaseAssumption DEF InitDatabase, DatabaseTypeOK, Scopes
<1>2. StoreInv
  BY DatabaseAssumption DEF InitDatabase, StoreInv, AtVersion, IsAt, Down
<1> QED BY <1>1, <1>2 DEF StoreTypeInv

\* A step of p that changes no migration.
LEMMA Progresses ==
    ASSUME StoreTypeInv, NEW p \in Processes, NEW X \in Progress,
           process' = [process EXCEPT ![p] = X], UNCHANGED <<recorded, shape>>,
           X.version <= Len(shape) + 1,
           X.pc = "apply" => X.version <= LastOf[p],
           X.pc \in {"ready", "clear", "set"} => X.version > LastOf[p]
    PROVE  process' \in [Processes -> Progress] /\ StoreInv'
  BY DEF StoreTypeInv, DatabaseTypeOK, StoreInv, AtVersion, IsAt

\* Opening and migrating, but for the migration that takes effect.
LEMMA OpensStore ==
    ASSUME StoreTypeInv, NEW p \in Processes,
           OpenDatabase(p) \/ CheckMigration(p) \/ Stop(p)
           \/ (ApplyMigration(p) /\ process[p].version \in recorded)
    PROVE  StoreTypeInv'
<1> DEFINE v == process[p].version
<1>0. /\ process[p] \in Progress /\ v \in Nat /\ v <= Versions + 1 /\ AtVersion(p)
      /\ recorded = 1..Len(shape) /\ Len(shape) \in Nat /\ LastOf[p] <= Versions
      /\ v >= 1 /\ LastOf[p] \in Nat /\ Versions \in Nat
  BY ProgressFields DEF StoreTypeInv, DatabaseTypeOK, StoreInv
<1>1. UNCHANGED <<recorded, shape, signatures, made, standing>> /\ cut' \subseteq Scopes
  BY ProgressFields DEF OpenDatabase, CheckMigration, Stop, ApplyMigration, Apply, defaults,
      StoreTypeInv, DatabaseTypeOK
<1>2. PICK X \in Progress :
        /\ process' = [process EXCEPT ![p] = X]
        /\ X.version <= Len(shape) + 1
        /\ X.pc = "apply" => X.version <= LastOf[p]
        /\ X.pc \in {"ready", "clear", "set"} => X.version > LastOf[p]
  <2>1. CASE OpenDatabase(p)
    <3>0. [process[p] EXCEPT !.pc = "check"] \in Progress
      BY <1>0 DEF Progress
    <3> QED BY <1>0, <3>0, <2>1 DEF OpenDatabase, MoveTo, AtVersion, Progress
  <2>2. CASE CheckMigration(p) /\ v > LastOf[p]
    <3>0. [process[p] EXCEPT !.pc = "ready"] \in Progress
      BY <1>0 DEF Progress
    <3> QED BY <1>0, <3>0, <2>2 DEF CheckMigration, MoveTo, AtVersion, Progress
  <2>3. CASE CheckMigration(p) /\ v <= LastOf[p] /\ v \in recorded
    <3>1. IsAt(p, "check") /\ v + 1 <= Len(shape) + 1 /\ v + 1 \in 1..Versions + 1
      BY <1>0, <2>3 DEF CheckMigration
    <3>0. [process[p] EXCEPT !.version = v + 1] \in Progress
      BY <1>0, <3>1 DEF Progress
    <3>2. process' = [process EXCEPT ![p].version = v + 1]
      BY <1>0, <2>3 DEF CheckMigration
    <3> QED BY <1>0, <3>0, <3>1, <3>2 DEF IsAt, Progress
  <2>4. CASE CheckMigration(p) /\ v <= LastOf[p] /\ v \notin recorded
    <3>0. [process[p] EXCEPT !.pc = "apply"] \in Progress
      BY <1>0 DEF Progress
    <3> QED BY <1>0, <3>0, <2>4 DEF CheckMigration, MoveTo, AtVersion, Progress
  <2>5. CASE Stop(p) \/ (ApplyMigration(p) /\ v \in recorded)
    <3>0. Down \in Progress
      BY RowFields
    <3> QED BY <1>0, <3>0, <2>5 DEF Stop, ApplyMigration, Down
  <2> QED BY <1>0, <2>1, <2>2, <2>3, <2>4, <2>5
<1> QED BY <1>1, <1>2, Progresses DEF StoreTypeInv, DatabaseTypeOK

\* The migration that takes effect is the one after the last that did.
LEMMA AppliesNext ==
    ASSUME StoreTypeInv, NEW p \in Processes, ApplyMigration(p), process[p].version \notin recorded
    PROVE  /\ process[p].version = Len(shape) + 1 /\ Len(shape) < Versions
           /\ Apply(p)
<1>1. AtVersion(p) /\ recorded = 1..Len(shape)
  BY DEF StoreTypeInv, StoreInv
<1> QED BY <1>1, ProgressFields DEF StoreTypeInv, ApplyMigration, AtVersion

LEMMA AppliesStore ==
    ASSUME StoreTypeInv, NEW p \in Processes, ApplyMigration(p), process[p].version \notin recorded
    PROVE  StoreTypeInv'
<1> DEFINE v == process[p].version
<1>1. v = Len(shape) + 1 /\ v <= Versions /\ Apply(p) /\ Len(shape) \in Nat /\ Versions \in Nat
  BY AppliesNext, ProgressFields DEF StoreTypeInv
<1>2. shape \in Seq(1..Versions) /\ shape' = Append(shape, v)
  BY <1>1 DEF StoreTypeInv, DatabaseTypeOK, Apply
<1>3. shape' \in Seq(1..Versions) /\ Len(shape') = Len(shape) + 1
  BY <1>1, <1>2
<1>4. recorded' = 1..Len(shape')
  BY <1>1, <1>3 DEF StoreTypeInv, StoreInv, Apply
<1> DEFINE X == [process[p] EXCEPT !.version = v + 1, !.pc = "check"]
<1>5. X \in Progress /\ X.version = v + 1 /\ X.pc = "check"
  <2>1. process[p] \in Progress /\ v + 1 \in 1..Versions + 1
    BY <1>1 DEF StoreTypeInv, DatabaseTypeOK
  <2> QED BY <2>1 DEF Progress
<1>6. process' = [process EXCEPT ![p] = X]
  BY <1>1 DEF Apply
<1>7. process' \in [Processes -> Progress]
  BY <1>5, <1>6 DEF StoreTypeInv, DatabaseTypeOK
<1>8. ASSUME NEW q \in Processes PROVE AtVersion(q)'
  <2>1. CASE q = p
    BY <1>1, <1>3, <1>5, <1>6, <2>1 DEF AtVersion, IsAt, StoreTypeInv, DatabaseTypeOK
  <2>2. CASE q # p
    <3>1. process'[q] = process[q] /\ AtVersion(q) /\ process[q].version \in Nat
      BY <1>6, <2>2, ProgressFields DEF StoreTypeInv, DatabaseTypeOK, StoreInv
    <3> QED BY <1>1, <1>3, <3>1 DEF AtVersion, IsAt
  <2> QED BY <2>1, <2>2
<1>9. signatures' \in [Ids -> Rows] /\ made' \in [Scopes -> SUBSET Ids] /\ standing' \subseteq Scopes /\ cut' \subseteq Scopes
  BY <1>1, RowFields DEF Apply, StoreTypeInv, DatabaseTypeOK
<1>10. recorded' \subseteq 1..Versions
  BY <1>1, <1>3, <1>4
<1> QED BY <1>3, <1>4, <1>7, <1>8, <1>9, <1>10 DEF StoreTypeInv, DatabaseTypeOK, StoreInv

\* The steps of p that change signatures (signature.go).
SignatureStep(p) ==
    \/ \E s \in Scopes : AddSignature(p, s)
    \/ \E i \in Ids : SetDefaultSignature(p, i) \/ RemoveSignature(p, i)
    \/ clearDefaultSignature(p) \/ SetDefaultRow(p)

LEMMA SignsStore ==
    ASSUME StoreTypeInv, NEW p \in Processes, SignatureStep(p)
    PROVE  StoreTypeInv'
<1>0. /\ process[p] \in Progress /\ AtVersion(p) /\ process \in [Processes -> Progress]
      /\ signatures \in [Ids -> Rows] /\ made \in [Scopes -> SUBSET Ids] /\ standing \subseteq Scopes /\ cut \subseteq Scopes
      /\ Global \in Scopes
  BY DEF StoreTypeInv, DatabaseTypeOK, StoreInv, Scopes
<1>1. /\ process[p].pc \in {"ready", "clear", "set"} /\ UNCHANGED <<recorded, shape>>
      /\ process[p].scope \in Scopes /\ process[p].version > LastOf[p]
      /\ process[p].version <= Len(shape) + 1 /\ process[p].id \in Ids \cup {0}
  BY <1>0, ProgressFields DEF StoreTypeInv, SignatureStep, AddSignature, SetDefaultSignature, RemoveSignature,
      clearDefaultSignature, Cleared, SetDefaultRow, IsAt, AtVersion
<1>2. \A i \in Ids : signatures[i].scope \in Scopes
  BY <1>0 DEF Rows
<1>3. process' \in [Processes -> Progress] /\ StoreInv'
  <2>1. ASSUME NEW c \in {"ready", "clear", "set"}, NEW i \in Ids \cup {0}, NEW s \in Scopes,
               process' = [process EXCEPT ![p].pc = c, ![p].id = i, ![p].scope = s]
        PROVE  process' \in [Processes -> Progress] /\ StoreInv'
    <3> DEFINE X == [process[p] EXCEPT !.pc = c, !.id = i, !.scope = s]
    <3>1. X \in Progress /\ X.pc = c /\ X.version = process[p].version
      BY <1>0 DEF Progress
    <3>2. process' = [process EXCEPT ![p] = X]
      BY <2>1
    <3> HIDE DEF X
    <3> QED BY <1>1, <3>1, <3>2, Progresses
  <2>2. ASSUME NEW c \in {"ready", "clear", "set"}, MoveTo(p, c)
        PROVE  process' \in [Processes -> Progress] /\ StoreInv'
    <3> DEFINE X == [process[p] EXCEPT !.pc = c]
    <3>1. X \in Progress /\ X.pc = c /\ X.version = process[p].version
      BY <1>0 DEF Progress
    <3>2. process' = [process EXCEPT ![p] = X]
      BY <2>2 DEF MoveTo
    <3> HIDE DEF X
    <3> QED BY <1>1, <3>1, <3>2, Progresses
  <2>3. ASSUME UNCHANGED process PROVE process' \in [Processes -> Progress] /\ StoreInv'
    BY <1>0, <1>1, <2>3 DEF StoreTypeInv, StoreInv, AtVersion, IsAt
  <2>4. ASSUME NEW s \in Scopes, AddSignature(p, s)
        PROVE  process' \in [Processes -> Progress] /\ StoreInv'
    BY <2>1, <2>3, <2>4 DEF AddSignature
  <2>5. ASSUME NEW i \in Ids, SetDefaultSignature(p, i)
        PROVE  process' \in [Processes -> Progress] /\ StoreInv'
    BY <1>2, <2>1, <2>5 DEF SetDefaultSignature
  <2>6. ASSUME NEW i \in Ids, RemoveSignature(p, i)
        PROVE  process' \in [Processes -> Progress] /\ StoreInv'
    BY <2>3, <2>6 DEF RemoveSignature
  <2>7. ASSUME clearDefaultSignature(p) \/ SetDefaultRow(p)
        PROVE  process' \in [Processes -> Progress] /\ StoreInv'
    BY <2>2, <2>7 DEF clearDefaultSignature, Cleared, SetDefaultRow
  <2> QED BY <2>4, <2>5, <2>6, <2>7 DEF SignatureStep
<1>4. signatures' \in [Ids -> Rows] /\ made' \in [Scopes -> SUBSET Ids] /\ standing' \subseteq Scopes /\ cut' \subseteq Scopes
  <2>1. ASSUME NEW i \in Ids, NEW t \in Scopes, SetIn(i, t)
        PROVE  /\ signatures' \in [Ids -> Rows]
               /\ made' \in [Scopes -> SUBSET Ids] /\ standing' \subseteq Scopes
    <3>1. Row(t, TRUE) \in Rows
      BY RowFields
    <3> QED BY <1>0, <2>1, <3>1 DEF SetIn
  <2>2. CASE \E s \in Scopes : AddSignature(p, s)
    <3>1. \A s \in Scopes : Row(s, FALSE) \in Rows
      BY RowFields
    <3> QED BY <1>0, <2>2, <3>1 DEF AddSignature, defaults
  <2>3. CASE \E i \in Ids : SetDefaultSignature(p, i) \/ RemoveSignature(p, i)
    BY <1>0, <2>3, RowFields DEF SetDefaultSignature, RemoveSignature, defaults
  <2>4. CASE clearDefaultSignature(p)
    <3>1. \A i \in Ids : [signatures[i] EXCEPT !.default = FALSE] \in Rows
      BY <1>0 DEF Rows
    <3>2. signatures' \in [Ids -> Rows]
      BY <1>0, <2>4, <3>1 DEF clearDefaultSignature, Cleared
    <3> QED BY <1>0, <1>1, <2>4, <3>2 DEF clearDefaultSignature, Cleared
  <2>5. CASE SetDefaultRow(p)
    BY <1>0, <1>1, <1>2, <2>1, <2>5 DEF SetDefaultRow
  <2> QED BY <2>2, <2>3, <2>4, <2>5 DEF SignatureStep
<1> QED BY <1>1, <1>3, <1>4 DEF StoreTypeInv, DatabaseTypeOK

LEMMA NextStore == StoreTypeInv /\ [NextDatabase]_databaseVars => StoreTypeInv'
<1> SUFFICES ASSUME StoreTypeInv, [NextDatabase]_databaseVars PROVE StoreTypeInv'
  OBVIOUS
<1>1. CASE UNCHANGED databaseVars
  BY <1>1 DEF StoreTypeInv, DatabaseTypeOK, StoreInv, AtVersion, IsAt, databaseVars, defaults
<1>2. ASSUME NEW p \in Processes,
             OpenDatabase(p) \/ CheckMigration(p) \/ ApplyMigration(p) \/ Stop(p)
      PROVE  StoreTypeInv'
  BY <1>2, OpensStore, AppliesStore
<1>3. ASSUME NEW p \in Processes, SignatureStep(p) PROVE StoreTypeInv'
  BY <1>3, SignsStore
<1> QED BY <1>1, <1>2, <1>3 DEF NextDatabase, SignatureStep

\* The database and its processes are well typed in every reachable state.
THEOREM DatabaseTypeCorrect == DatabaseSpec => []DatabaseTypeOK
<1>1. StoreTypeInv => DatabaseTypeOK
  BY DEF StoreTypeInv
<1> QED BY <1>1, InitStore, NextStore, PTL DEF DatabaseSpec

-----------------------------------------------------------------------------
(* Its refinement. *)

LEMMA InitMaps == InitDatabase => Promise!SchemaInit
  BY DEF InitDatabase, Promise!SchemaInit, NoRow

\* A step is one of Schema or leaves what it speaks of alone.
LEMMA StepMaps ==
    ASSUME StoreTypeInv, [NextDatabase]_databaseVars
    PROVE  [Promise!SchemaNext]_(Promise!schemaVars)
<1> DEFINE kept == {i \in Ids : signatures[i].used}
           Same == UNCHANGED shape /\ kept' = kept
<1>1. Same => UNCHANGED Promise!schemaVars
  BY DEF Promise!schemaVars
<1>2. UNCHANGED <<shape, signatures>> => Same
  OBVIOUS
<1>3. ASSUME NEW j \in Ids, j \notin kept, NEW R \in Rows, R.used, UNCHANGED shape,
             signatures' = [signatures EXCEPT ![j] = R], Len(shape) >= Rekey
      PROVE  Promise!Saved(j)
  BY <1>3 DEF Promise!Saved, StoreTypeInv, DatabaseTypeOK
<1>4. ASSUME NEW p \in Processes, ApplyMigration(p), process[p].version \notin recorded
      PROVE  Promise!Migrated
  <2>1. process[p].version = Len(shape) + 1 /\ Len(shape) < Versions /\ Apply(p)
    BY <1>4, AppliesNext
  <2>2. CASE process[p].version = Rekey
    <3>1. \A i \in Ids : ~ signatures'[i].used
      BY <2>1, <2>2 DEF Apply, NoRow
    <3> QED BY <2>1, <2>2, <3>1 DEF Apply, Promise!Migrated
  <2>3. CASE process[p].version # Rekey
    BY <2>1, <2>3 DEF Apply, Promise!Migrated
  <2> QED BY <2>2, <2>3
<1>5. ASSUME NEW p \in Processes,
             OpenDatabase(p) \/ CheckMigration(p) \/ Stop(p)
             \/ (ApplyMigration(p) /\ process[p].version \in recorded)
      PROVE  Same
  BY <1>2, <1>5 DEF OpenDatabase, CheckMigration, Stop, ApplyMigration
<1>6. ASSUME NEW p \in Processes, process[p].pc \in {"ready", "set"} PROVE Len(shape) >= Rekey
  <2>1. process[p].version > LastOf[p] /\ process[p].version <= Len(shape) + 1
    BY <1>6 DEF StoreTypeInv, StoreInv, AtVersion
  <2> QED BY <2>1, ProgressFields DEF StoreTypeInv
<1>7. ASSUME NEW s \in Scopes, NEW d \in BOOLEAN
      PROVE  Row(s, d) \in Rows /\ Row(s, d).used
  BY RowFields DEF Row
<1>8. \A j \in Ids : NextId(j) => j \notin kept
  BY DEF NextId, Ids
<1>9. ASSUME NEW p \in Processes, SignatureStep(p)
      PROVE  Same \/ \E i \in Ids : Promise!Saved(i) \/ Promise!Removed(i)
  <2>1. ASSUME NEW s \in Scopes, AddSignature(p, s) PROVE Same \/ \E i \in Ids : Promise!Saved(i)
    <3>1. CASE UNCHANGED signatures
      BY <1>2, <2>1, <3>1 DEF AddSignature
    <3>2. CASE \E i \in Ids : NextId(i) /\ signatures' = [signatures EXCEPT ![i] = Row(s, FALSE)]
      BY <1>3, <1>6, <1>7, <1>8, <2>1, <3>2 DEF AddSignature, IsAt
    <3> QED BY <2>1, <3>1, <3>2 DEF AddSignature
  <2>2. ASSUME NEW i \in Ids, SetDefaultSignature(p, i) PROVE Same
    BY <1>2, <2>2 DEF SetDefaultSignature
  <2>3. ASSUME NEW i \in Ids, RemoveSignature(p, i) PROVE Promise!Removed(i)
    BY <2>3 DEF RemoveSignature, Promise!Removed, NoRow, StoreTypeInv, DatabaseTypeOK
  <2>4. CASE clearDefaultSignature(p)
    <3>1. \A i \in Ids : signatures'[i].used = signatures[i].used
      BY <2>4 DEF clearDefaultSignature, Cleared, StoreTypeInv, DatabaseTypeOK, Rows
    <3> QED BY <2>4, <3>1 DEF clearDefaultSignature, Cleared
  <2>5. CASE SetDefaultRow(p)
    <3>0. process[p].scope \in Scopes /\ process[p].id \in Ids \cup {0} /\ signatures \in [Ids -> Rows]
          /\ UNCHANGED shape /\ process[p].pc = "set"
      BY <2>5, ProgressFields DEF StoreTypeInv, DatabaseTypeOK, SetDefaultRow, IsAt
    <3>1. ASSUME NEW j \in Ids, NextId(j), SetIn(j, process[p].scope)
          PROVE  Promise!Saved(j)
      BY <1>3, <1>6, <1>7, <1>8, <3>0, <3>1 DEF SetIn
    <3>2. ASSUME NEW i \in Ids, signatures[i].used, SetIn(i, signatures[i].scope)
          PROVE  Same
      BY <3>0, <3>2 DEF SetIn, Row
    <3> QED BY <1>2, <2>5, <3>0, <3>1, <3>2 DEF SetDefaultRow
  <2> QED BY <1>9, <2>1, <2>2, <2>3, <2>4, <2>5 DEF SignatureStep
<1>10. CASE UNCHANGED databaseVars
  BY <1>1, <1>2, <1>10 DEF databaseVars
<1> HIDE DEF Same
<1> QED BY <1>1, <1>4, <1>5, <1>9, <1>10 DEF NextDatabase, SignatureStep, Promise!SchemaNext

\* The database keeps the promise of Schema: its migrations take effect in order
\* and once each, and no signature goes but by its removal or by the migration
\* that starts the table anew, for any processes and builds (db.go, migrate).
THEOREM DatabaseKeepsItsPromise == DatabaseSpec => StoreKeepsItsPromise
  BY InitStore, NextStore, InitMaps, StepMaps, PTL
     DEF DatabaseSpec, StoreKeepsItsPromise, Promise!SchemaSpec

-----------------------------------------------------------------------------
(* The defaults of its signatures. *)

\* A step that changes no row and no history, and that leaves who is about to set a
\* default there, or has it said that it ended.
LEMMA NoneGiven ==
    ASSUME DefaultInv, UNCHANGED <<signatures, made, standing>>, cut \subseteq cut',
           \A q \in Processes : IsAt(q, "set") => \/ process[q].scope \in cut'
                                                  \/ IsAt(q, "set")' /\ process'[q].scope = process[q].scope
    PROVE  DefaultInv'
<1> SUFFICES ASSUME NEW u \in Scopes PROVE DefaultRows(u)' /\ ClearedFor(u)'
  BY DEF DefaultInv
<1>1. DefaultRows(u) /\ ClearedFor(u)
  BY DEF DefaultInv
<1>2. DefaultRows(u)'
  BY <1>1 DEF DefaultRows, IsDefault
<1>3. ClearedFor(u)'
  BY <1>1 DEF ClearedFor, MayHaveNone
<1> QED BY <1>2, <1>3

\* Opening, migrating and stopping, but for the migration that takes effect.
LEMMA OpensLeave ==
    ASSUME StoreTypeInv, DefaultInv, NEW p \in Processes,
           OpenDatabase(p) \/ CheckMigration(p) \/ Stop(p)
           \/ (ApplyMigration(p) /\ process[p].version \in recorded)
    PROVE  DefaultInv'
<1>1. UNCHANGED <<signatures, made, standing>> /\ cut \subseteq cut'
  BY DEF OpenDatabase, CheckMigration, Stop, ApplyMigration, Apply, defaults
<1>2. \A q \in Processes : q # p => process'[q] = process[q]
  BY DEF OpenDatabase, CheckMigration, Stop, ApplyMigration, Apply, MoveTo, StoreTypeInv, DatabaseTypeOK
<1>3. IsAt(p, "set") => process[p].scope \in cut'
  BY DEF OpenDatabase, CheckMigration, Stop, ApplyMigration, IsAt
<1> QED BY <1>1, <1>2, <1>3, NoneGiven DEF IsAt

\* The migration that starts the table anew leaves no default.
LEMMA AppliesLeave ==
    ASSUME StoreTypeInv, DefaultInv, NEW p \in Processes, ApplyMigration(p),
           process[p].version \notin recorded
    PROVE  DefaultInv'
<1>1. Apply(p) /\ IsAt(p, "apply") /\ UNCHANGED <<standing, cut>>
  BY DEF ApplyMigration, Apply
<1>2. \A q \in Processes : IsAt(q, "set") => process'[q] = process[q]
  BY <1>1 DEF Apply, IsAt, StoreTypeInv, DatabaseTypeOK
<1>3. CASE process[p].version # Rekey
  BY <1>1, <1>2, <1>3, NoneGiven DEF Apply, IsAt
<1>4. CASE process[p].version = Rekey
  <2>1. signatures' = [i \in Ids |-> NoRow] /\ made' = [s \in Scopes |-> {}]
    BY <1>1, <1>4 DEF Apply
  <2>2. \A s \in Scopes : DefaultRows(s)' /\ ClearedFor(s)'
    BY <2>1 DEF DefaultRows, IsDefault, NoRow, ClearedFor, MayHaveNone
  <2> QED BY <2>2 DEF DefaultInv
<1> QED BY <1>3, <1>4

\* A row that is no default, in a free place or in any place when it goes.
LEMMA AddsLeave ==
    ASSUME StoreTypeInv, DefaultInv, NEW p \in Processes, NEW s \in Scopes, AddSignature(p, s)
    PROVE  DefaultInv'
<1>1. UNCHANGED <<made, standing, cut>>
  BY DEF AddSignature, defaults
<1>2. \A q \in Processes : IsAt(q, "set") => IsAt(q, "set")' /\ process'[q].scope = process[q].scope
  BY DEF AddSignature, IsAt, StoreTypeInv, DatabaseTypeOK
<1>3. CASE UNCHANGED signatures
  BY <1>1, <1>2, <1>3, NoneGiven
<1>4. CASE \E j \in Ids : NextId(j) /\ signatures' = [signatures EXCEPT ![j] = Row(s, FALSE)]
  <2>1. PICK j \in Ids : NextId(j) /\ signatures' = [signatures EXCEPT ![j] = Row(s, FALSE)]
    BY <1>4
  <2>2. ~ signatures[j].used
    BY <2>1 DEF NextId, Ids
  <2>3. \A u \in Scopes, i \in Ids : IsDefault(u, i)' <=> IsDefault(u, i)
    BY <2>1, <2>2 DEF IsDefault, Row, StoreTypeInv, DatabaseTypeOK
  <2>4. ASSUME NEW u \in Scopes PROVE DefaultRows(u)' /\ ClearedFor(u)'
    BY <1>1, <1>2, <2>3 DEF DefaultInv, DefaultRows, ClearedFor, MayHaveNone
  <2> QED BY <2>4 DEF DefaultInv
<1> QED BY <1>3, <1>4 DEF AddSignature

LEMMA RemovesLeave ==
    ASSUME StoreTypeInv, DefaultInv, NEW p \in Processes, NEW i \in Ids, RemoveSignature(p, i)
    PROVE  DefaultInv'
<1>1. /\ signatures' = [signatures EXCEPT ![i] = NoRow]
      /\ made' = [s \in Scopes |-> made[s] \ {i}]
      /\ UNCHANGED <<process, standing, cut>>
  BY DEF RemoveSignature
<1>2. \A u \in Scopes, j \in Ids : IsDefault(u, j)' <=> j # i /\ IsDefault(u, j)
  BY <1>1 DEF IsDefault, NoRow, StoreTypeInv, DatabaseTypeOK
<1> SUFFICES ASSUME NEW u \in Scopes PROVE DefaultRows(u)' /\ ClearedFor(u)'
  BY DEF DefaultInv
<1>3. DefaultRows(u)'
  BY <1>1, <1>2 DEF DefaultInv, DefaultRows
<1>4. ClearedFor(u)'
  BY <1>1 DEF DefaultInv, ClearedFor, MayHaveNone, IsAt
<1> QED BY <1>3, <1>4

\* Clearing the default of a scope.
LEMMA ClearsTheDefault ==
    ASSUME StoreTypeInv, DefaultInv, NEW p \in Processes, clearDefaultSignature(p)
    PROVE  DefaultInv'
<1> DEFINE s == process[p].scope
<1>0. /\ s \in Scopes /\ process \in [Processes -> Progress] /\ signatures \in [Ids -> Rows]
      /\ MoveTo(p, "set") /\ standing' = standing \ {s} /\ UNCHANGED <<made, cut>>
  BY ProgressFields DEF StoreTypeInv, DatabaseTypeOK, clearDefaultSignature, Cleared
<1>1. \A i \in Ids : /\ signatures[i].scope = s => ~ signatures'[i].default /\ signatures'[i].scope = s
                     /\ signatures[i].scope # s => signatures'[i] = signatures[i]
  BY <1>0 DEF clearDefaultSignature, Cleared, Rows
<1>2. \A u \in Scopes, i \in Ids : IsDefault(u, i)' <=> u # s /\ IsDefault(u, i)
  BY <1>1 DEF IsDefault
<1>3. \A q \in Processes : /\ process'[q].scope = process[q].scope
                           /\ IsAt(q, "set")' <=> q = p \/ IsAt(q, "set")
  BY <1>0 DEF MoveTo, IsAt, Progress
<1> SUFFICES ASSUME NEW u \in Scopes PROVE DefaultRows(u)' /\ ClearedFor(u)'
  BY DEF DefaultInv
<1>4. DefaultRows(u)'
  BY <1>0, <1>2 DEF DefaultInv, DefaultRows
<1>5. ClearedFor(u)'
  BY <1>0, <1>3 DEF DefaultInv, ClearedFor, MayHaveNone
<1> QED BY <1>4, <1>5

\* A row that is given the default of t, where it was or where there was none.
LEMMA GivenTheDefault ==
    ASSUME StoreTypeInv, DefaultInv, NEW p \in Processes, NEW i \in Ids, NEW t \in Scopes,
           SetDefaultRow(p), SetIn(i, t), signatures[i].used => signatures[i].scope = t,
           t # process[p].scope => process[p].scope \in cut'
    PROVE  DefaultInv'
<1> DEFINE s == process[p].scope
<1>0. /\ signatures \in [Ids -> Rows] /\ made \in [Scopes -> SUBSET Ids]
      /\ process \in [Processes -> Progress] /\ MoveTo(p, "ready")
      /\ cut' \in {cut \ {s}, cut \cup {s}}
  BY DEF SetDefaultRow, StoreTypeInv, DatabaseTypeOK
<1>1. \A u \in Scopes, j \in Ids : IsDefault(u, j)' <=> IsDefault(u, j) \/ (u = t /\ j = i)
  BY <1>0 DEF SetIn, IsDefault, Row
<1>2. \A q \in Processes : q # p /\ IsAt(q, "set") => IsAt(q, "set")' /\ process'[q].scope = process[q].scope
  BY <1>0 DEF MoveTo, IsAt
<1> SUFFICES ASSUME NEW u \in Scopes PROVE DefaultRows(u)' /\ ClearedFor(u)'
  BY DEF DefaultInv
<1>3. CASE u = t
  BY <1>0, <1>1, <1>3 DEF DefaultInv, DefaultRows, ClearedFor, SetIn
<1>4. CASE u # t
  <2>1. made'[u] = made[u] /\ (u \in standing' <=> u \in standing)
    BY <1>0, <1>4 DEF SetIn
  <2>2. DefaultRows(u)'
    BY <1>1, <1>4, <2>1 DEF DefaultInv, DefaultRows
  <2>3. u \in cut \/ u = s => u \in cut'
    BY <1>0, <1>4
  <2>4. ClearedFor(u)'
    BY <1>2, <2>1, <2>3 DEF DefaultInv, ClearedFor, MayHaveNone
  <2> QED BY <2>2, <2>4
<1> QED BY <1>3, <1>4

LEMMA SetsTheDefault ==
    ASSUME StoreTypeInv, DefaultInv, NEW p \in Processes, SetDefaultRow(p)
    PROVE  DefaultInv'
<1> DEFINE k == process[p].id
           s == process[p].scope
<1>0. DatabaseTypeOK
  BY DEF StoreTypeInv
<1>1. /\ s \in Scopes /\ k \in Ids \cup {0} /\ process \in [Processes -> Progress]
      /\ \A i \in Ids : signatures[i].scope \in Scopes
      /\ MoveTo(p, "ready")
  BY <1>0, ProgressFields DEF SetDefaultRow, Rows, DatabaseTypeOK
<1>2. CASE k = 0 /\ \E j \in Ids : NextId(j) /\ SetIn(j, s)
  <2>1. PICK j \in Ids : NextId(j) /\ SetIn(j, s)
    BY <1>2
  <2>2. ~ signatures[j].used
    BY <2>1 DEF NextId, Ids
  <2> QED BY <1>1, <2>1, <2>2, GivenTheDefault
<1>3. CASE k # 0 /\ signatures[k].used /\ SetIn(k, signatures[k].scope)
  <2>1. k \in Ids /\ signatures[k].scope \in Scopes
    BY <1>1, <1>3
  <2>2. signatures[k].scope # s => s \in cut'
    BY <1>3 DEF SetDefaultRow, Row
  <2> QED BY <1>3, <2>1, <2>2, GivenTheDefault
<1>4. CASE k # 0 /\ ~ signatures[k].used /\ UNCHANGED <<signatures, made, standing>>
  <2>1. cut' = cut \cup {s}
    BY <1>4 DEF SetDefaultRow, Row
  <2>2. \A q \in Processes : IsAt(q, "set") => \/ process[q].scope \in cut'
                                               \/ IsAt(q, "set")' /\ process'[q].scope = process[q].scope
    BY <1>1, <2>1 DEF MoveTo, IsAt
  <2> QED BY <1>4, <2>1, <2>2, NoneGiven
<1> QED BY <1>2, <1>3, <1>4 DEF SetDefaultRow

LEMMA InitDefault == InitDatabase => DefaultInv
  BY DEF InitDatabase, DefaultInv, DefaultRows, ClearedFor, IsDefault, NoRow

LEMMA NextDefault ==
    ASSUME StoreTypeInv, DefaultInv, [NextDatabase]_databaseVars
    PROVE  DefaultInv'
<1>1. CASE UNCHANGED databaseVars
  BY <1>1, NoneGiven DEF databaseVars, defaults, IsAt
<1>2. ASSUME NEW p \in Processes, OpenDatabase(p) \/ CheckMigration(p) \/ ApplyMigration(p) \/ Stop(p)
      PROVE  DefaultInv'
  BY <1>2, OpensLeave, AppliesLeave
<1>3. ASSUME NEW p \in Processes, NEW i \in Ids, SetDefaultSignature(p, i) PROVE DefaultInv'
  <2>1. \A q \in Processes : IsAt(q, "set") => process'[q] = process[q]
    BY <1>3 DEF SetDefaultSignature, IsAt, StoreTypeInv, DatabaseTypeOK
  <2> QED BY <1>3, <2>1, NoneGiven DEF SetDefaultSignature, defaults, IsAt
<1>4. ASSUME NEW p \in Processes, SignatureStep(p) PROVE DefaultInv'
  BY <1>3, <1>4, AddsLeave, RemovesLeave, ClearsTheDefault, SetsTheDefault DEF SignatureStep
<1> QED BY <1>1, <1>2, <1>4 DEF NextDatabase, SignatureStep

\* A draft gets the signature that was last made the default of its account, or of
\* all, or one of two that were made so at a time, for any processes that stop
\* anywhere: never a former one, and none only where a clearing went before that is
\* to be followed by a setting, or would have been (signature.go).
THEOREM DraftsGetTheDefault == DatabaseSpec => []DraftGetsTheDefault
<1>1. ASSUME StoreTypeInv, DefaultInv PROVE DraftGetsTheDefault
  <2>1. \A s \in Scopes : /\ \A i \in Ids : DefaultIn(s, i) => i \in made[s]
                          /\ NoneIn(s) => MayHaveNone(s)
    <3> SUFFICES ASSUME NEW s \in Scopes
                 PROVE  /\ \A i \in Ids : DefaultIn(s, i) => i \in made[s]
                        /\ NoneIn(s) => MayHaveNone(s)
      OBVIOUS
    <3>1. DefaultRows(s) /\ ClearedFor(s) /\ made[s] \subseteq Ids
      BY <1>1 DEF DefaultInv, StoreTypeInv, DatabaseTypeOK
    <3>2. s \in standing /\ NoneIn(s) => made[s] = {}
      BY <3>1 DEF DefaultRows, NoneIn
    <3> QED BY <3>1, <3>2 DEF DefaultRows, DefaultIn, ClearedFor, MayHaveNone
  <2>2. \A a \in Slugs : a \in Scopes /\ Global \in Scopes
    BY DEF Scopes
  <2> QED BY <2>1, <2>2 DEF DraftGetsTheDefault, DefaultSignature
<1> QED BY <1>1, InitStore, NextStore, InitDefault, NextDefault, PTL DEF DatabaseSpec

=============================================================================
