---------------------------- MODULE ScreenProofs ----------------------------
(***************************************************************************)
(* What is proved of TuiSelection and LogPages, for all accounts, folders, *)
(* messages, chunks, pages and bounds: that a key names the message that   *)
(* is shown, and that the log overlay shows every record once, in order.   *)
(***************************************************************************)
EXTENDS TuiSelection, LogPages, SequenceTheorems, TLAPS

-----------------------------------------------------------------------------
(* The selection: types. *)

Flying == BagToSet(cmds)
Kept == known \cup gone
NamingKinds == {"body", "save", "triage", "spam"}
Good(i) == i \in Item /\ i.at \in Kept

\* What a load has read is of what it loads.
LoadKinds == {"folders", "messages"}
IsLoad(c) == c = [kind |-> c.kind, at |-> c.at, got |-> c.got]
GotFolders(c) ==
    c.got = None \/ c.got = {} \/ \E L \in SUBSET {p \in Kept : p[1] = c.at[1]} : c.got = {L}
GotMessages(c) ==
    c.got = None \/ \E S \in SUBSET ItemsOf(c.at) : c.got = {S} /\ (S # {} => c.at \in Kept)

Typed(c) ==
    /\ c.kind \in {"accounts", "folders", "messages", "find"} \cup NamingKinds
    /\ c.kind \in LoadKinds => IsLoad(c)
    /\ c.kind \in {"folders", "find"} => c.at[1] \in Accounts
    /\ c.kind = "folders" => GotFolders(c)
    /\ c.kind = "messages" => GotMessages(c)
    /\ c.kind \in NamingKinds => Good(c.item)

CmdsTyped == IsABag(cmds) /\ \A c \in Flying : Typed(c)

FolderNames == UNION {FoldersOf[a] : a \in Accounts}
SelectionTyped ==
    /\ selected \in (Accounts \cup {None}) \X (FolderNames \cup {None})
    /\ folderPane \subseteq Places

StoreTyped ==
    /\ known \subseteq {p \in Places : p[1] \in synced} /\ synced \subseteq accounts
    /\ accounts \subseteq Accounts /\ gone \subseteq Places /\ known \cap gone = {}

Opened(v) == v = [item |-> v.item, left |-> v.left] /\ Good(v.item)
Inquired(v) == v = [what |-> v.what, item |-> v.item, left |-> v.left] /\ Good(v.item)

ItemsTyped ==
    /\ \A i \in listPane : Good(i)
    /\ viewing # None => Opened(viewing)
    /\ overlay # None => \A i \in overlay : Good(i)
    /\ asking # None => Inquired(asking)

\* Until the accounts are loaded, nothing is.
NothingYet ==
    /\ selected = <<None, None>> /\ folderPane = {} /\ listPane = {}
    /\ viewing = None /\ overlay = None /\ asking = None /\ behind
    /\ \A c \in Flying : c.kind = "accounts"
Started == selected[1] \in accounts \/ NothingYet

TuiTyped == CmdsTyped /\ SelectionTyped /\ StoreTyped /\ ItemsTyped /\ Started

LEMMA Answers ==
  ASSUME IsABag(cmds), NEW c \in Flying, NEW S, Answer(c, S)
  PROVE  /\ IsABag(cmds') /\ Flying' \subseteq Flying \cup S
<1> DEFINE rest == cmds (-) SetToBag({c})
<1>1. DOMAIN rest \subseteq Flying /\ rest \in [DOMAIN rest -> Nat \ {0}]
  BY DEF Flying, BagToSet, IsABag, SetToBag, (-)
<1>3. cmds' = rest (+) SetToBag(S)
  BY DEF Answer
<1> HIDE DEF rest
<1>4. Flying' = DOMAIN rest \cup S
  BY <1>3 DEF Flying, BagToSet, SetToBag, (+)
<1>5. IsABag(cmds')
  BY <1>1, <1>3 DEF IsABag, SetToBag, (+)
<1> QED BY <1>1, <1>4, <1>5

LEMMA Begins ==
  ASSUME IsABag(cmds), NEW S, Begin(S)
  PROVE  IsABag(cmds') /\ Flying' = Flying \cup S
<1>1. cmds' = cmds (+) SetToBag(S)
  BY DEF Begin
<1> QED BY <1>1 DEF IsABag, Flying, BagToSet, SetToBag, (+)

LEMMA LoadsTyped ==
  /\ \A a \in Accounts : Typed(LoadFolders(a)) /\ Typed(FindMessages(a))
  /\ \A p : Typed(LoadMessages(p))
  /\ Typed(LoadAccounts)
  /\ \A kind \in NamingKinds : \A p, astray, i : Good(i) => Typed(Naming(kind, p, i, astray))
BY DEF Typed, LoadFolders, FindMessages, LoadMessages, LoadAccounts, Naming, NamingKinds, LoadKinds,
       IsLoad, GotFolders, GotMessages

LEMMA TypedStays ==
  ASSUME Kept \subseteq Kept', NEW c, Typed(c)
  PROVE  Typed(c)'
BY DEF Typed, GotFolders, GotMessages, Good, ItemsOf, Item, IsLoad

LEMMA CmdsTypedStay ==
  ASSUME CmdsTyped, Kept \subseteq Kept', IsABag(cmds'), \A c \in Flying' : c \in Flying \/ Typed(c)
  PROVE  CmdsTyped'
<1>1. \A c \in Flying' : Typed(c)'
  BY TypedStays DEF CmdsTyped
<1> QED BY <1>1 DEF CmdsTyped

LEMMA TypedIsTypeOK == TuiTyped => TuiTypeOK
<1> SUFFICES ASSUME TuiTyped PROVE TuiTypeOK
  OBVIOUS
<1>1. /\ selected \in (Accounts \cup {None}) \X ((UNION {FoldersOf[a] : a \in Accounts}) \cup {None})
      /\ folderPane \subseteq Places
  BY DEF TuiTyped, SelectionTyped, FolderNames
<1>2. known \subseteq {p \in Places : p[1] \in synced} /\ synced \subseteq accounts
  BY DEF TuiTyped, StoreTyped
<1>3. listPane \subseteq Item /\ (viewing # None => viewing.item \in Item)
  BY DEF TuiTyped, ItemsTyped, Good, Opened
<1>4. overlay # None => overlay \subseteq Item
  BY DEF TuiTyped, ItemsTyped, Good
<1> QED BY <1>1, <1>2, <1>3, <1>4 DEF TuiTypeOK

LEMMA ItemsOfPlace ==
  ASSUME NEW p \in Kept, p \in Places, NEW i \in ItemsOf(p)
  PROVE  Good(i) /\ i.at = p
BY DEF ItemsOf, Item, Good

LEMMA PlaceParts ==
  ASSUME NEW p \in Places
  PROVE  p[1] \in Accounts /\ p[2] \in FolderNames /\ p = <<p[1], p[2]>>
<1>1. PICK a \in Accounts : p \in {<<a, f>> : f \in FoldersOf[a]}
  BY DEF Places
<1>2. PICK f \in FoldersOf[a] : p = <<a, f>>
  BY <1>1
<1> QED BY <1>2 DEF FolderNames

LEMMA InitTuiTyped == InitTui => TuiTyped
<1> SUFFICES ASSUME InitTui PROVE TuiTyped
  OBVIOUS
<1>1. Flying = {LoadAccounts} /\ IsABag(cmds)
  BY DEF InitTui, Flying, BagToSet, SetToBag, IsABag
<1>2. CmdsTyped /\ Started
  BY <1>1, LoadsTyped DEF InitTui, CmdsTyped, Started, NothingYet, LoadAccounts
<1>3. StoreTyped
  BY TuiSelectionAssumption DEF InitTui, StoreTyped
<1> QED BY <1>2, <1>3 DEF InitTui, TuiTyped, SelectionTyped, ItemsTyped

\* Steps in which nothing is shown that was not.
ShownStays ==
    /\ listPane' \subseteq listPane /\ viewing' \in {viewing, None}
    /\ overlay' \in {overlay, None} /\ asking' \in {asking, None}

LEMMA ShownStaysTyped ==
  ASSUME ItemsTyped, Kept \subseteq Kept', ShownStays
  PROVE  ItemsTyped'
<1>1. \A i : Good(i) => Good(i)'
  BY DEF Good
<1>2. \A v : Opened(v) => Opened(v)'
  BY <1>1 DEF Opened
<1>3. \A i \in listPane' : Good(i)'
  BY <1>1 DEF ItemsTyped, ShownStays
<1>4. (viewing # None => Opened(viewing))'
  BY <1>2 DEF ItemsTyped, ShownStays
<1>5. (overlay # None => \A i \in overlay : Good(i))'
  BY <1>1 DEF ItemsTyped, ShownStays
<1>6. (asking # None => Inquired(asking))'
  BY <1>1 DEF ItemsTyped, ShownStays, Inquired
<1> QED BY <1>3, <1>4, <1>5, <1>6 DEF ItemsTyped

\* Every command that is answered but the first load is of an account.
LEMMA AfterStart ==
  ASSUME TuiTyped, NEW c \in Flying, c.kind # "accounts"
  PROVE  /\ selected[1] \in accounts /\ selected[1] \in Accounts /\ Typed(c)
         /\ \A d \in Reload : Typed(d)
<1>1. selected[1] \in accounts /\ selected[1] \in Accounts /\ Typed(c)
  BY DEF TuiTyped, Started, NothingYet, StoreTyped, CmdsTyped
<1> QED BY <1>1, LoadsTyped DEF Reload

-----------------------------------------------------------------------------
(* Answers keep the types. *)

LEMMA ReadTyped ==
  ASSUME TuiTyped, NEW c \in Flying, Read(c)
  PROVE  TuiTyped'
<1>1. /\ UNCHANGED <<accounts, folderPane, listPane, selected, viewing, overlay, asking, synced, known, gone>>
      /\ c.kind \in LoadKinds /\ c.kind # "accounts" /\ behind' = behind
  BY DEF Read, panes, place, store, LoadKinds
<1>2. IsLoad(c) /\ Typed(c) /\ selected[1] \in accounts
  BY <1>1, AfterStart DEF Typed
<1>3. PICK G : /\ Answer(c, {[c EXCEPT !.got = G]})
               /\ IF c.kind = "folders"
                  THEN G \in {{Listed(c.at[1])}, {}}
                  ELSE \E S \in SUBSET ItemsOf(c.at) : G = {S} /\ (c.at \notin known => S = {})
  BY <1>1 DEF Read, LoadKinds
<1> DEFINE d == [c EXCEPT !.got = G]
<1>4. d.kind = c.kind /\ d.at = c.at /\ d.got = G /\ IsLoad(d)
  <2>1. d = [kind |-> c.kind, at |-> c.at, got |-> G]
    BY <1>2 DEF IsLoad
  <2> QED BY <2>1 DEF IsLoad
<1>5. Answer(c, {d})
  BY <1>3
<1> HIDE DEF d
<1>6. Typed(d)
  <2>1. CASE c.kind = "folders"
    <3>1. G = {} \/ G = {Listed(c.at[1])}
      BY <1>3, <2>1
    <3>2. Listed(c.at[1]) \in SUBSET {p \in Kept : p[1] = c.at[1]}
      BY DEF Listed, Kept
    <3>3. GotFolders(d)
      BY <1>4, <3>1, <3>2 DEF GotFolders
    <3> QED BY <1>2, <1>4, <2>1, <3>3 DEF Typed, LoadKinds, NamingKinds
  <2>2. CASE c.kind = "messages"
    <3>1. GotMessages(d)
      BY <1>3, <1>4, <2>2 DEF GotMessages, Kept
    <3> QED BY <1>2, <1>4, <2>2, <3>1 DEF Typed, LoadKinds, NamingKinds
  <2> QED BY <1>1, <2>1, <2>2 DEF LoadKinds
<1>7. Kept' = Kept /\ IsABag(cmds') /\ Flying' \subseteq Flying \cup {d}
  BY <1>1, <1>5, Answers DEF Kept, TuiTyped, CmdsTyped
<1>8. CmdsTyped'
  BY <1>6, <1>7, CmdsTypedStay DEF TuiTyped
<1>9. ItemsTyped'
  BY <1>1, <1>7, ShownStaysTyped DEF ShownStays, TuiTyped
<1>10. SelectionTyped' /\ StoreTyped'
  BY <1>1 DEF TuiTyped, SelectionTyped, StoreTyped
<1> QED BY <1>1, <1>2, <1>8, <1>9, <1>10 DEF TuiTyped, Started

\* What is open or asked about stays, and is left when the selection moves.
LEMMA Moves ==
  ASSUME ItemsTyped, NEW p, Select(p)
  PROVE  /\ selected' = p /\ (~ behind' => ~ behind /\ p = selected)
         /\ viewing' # None => /\ Opened(viewing') /\ viewing # None /\ viewing'.item = viewing.item
                               /\ ~ viewing'.left => ~ viewing.left /\ p = selected
         /\ asking' # None => /\ Inquired(asking') /\ asking # None /\ asking'.item = asking.item
                              /\ ~ asking'.left => ~ asking.left /\ p = selected
<1>1. ASSUME NEW v, Opened(v), NEW w, w = [v EXCEPT !.left = TRUE]
      PROVE  Opened(w) /\ w.item = v.item /\ w.left
  <2>1. w = [item |-> v.item, left |-> TRUE]
    BY <1>1 DEF Opened
  <2> QED BY <1>1, <2>1 DEF Opened
<1>2. ASSUME NEW v, Inquired(v), NEW w, w = [v EXCEPT !.left = TRUE]
      PROVE  Inquired(w) /\ w.item = v.item /\ w.left
  <2>1. w = [what |-> v.what, item |-> v.item, left |-> TRUE]
    BY <1>2 DEF Inquired
  <2> QED BY <1>2, <2>1 DEF Inquired
<1>3. selected' = p /\ (~ behind' => ~ behind /\ p = selected)
  BY DEF Select
<1>4. viewing' # None => /\ Opened(viewing') /\ viewing # None /\ viewing'.item = viewing.item
                         /\ ~ viewing'.left => ~ viewing.left /\ p = selected
  BY <1>1 DEF Select, MovedOn, ItemsTyped
<1>5. asking' # None => /\ Inquired(asking') /\ asking # None /\ asking'.item = asking.item
                        /\ ~ asking'.left => ~ asking.left /\ p = selected
  BY <1>2 DEF Select, MovedOn, ItemsTyped
<1> QED BY <1>3, <1>4, <1>5

LEMMA SelectTyped ==
  ASSUME ItemsTyped, Kept' = Kept, NEW p, Select(p),
         \A i \in listPane' : i \in listPane \/ Good(i), overlay' \in {overlay, None}
  PROVE  ItemsTyped'
<1>1. /\ \A i : Good(i) => Good(i)'
      /\ \A v : Opened(v) => Opened(v)'
      /\ \A v : Inquired(v) => Inquired(v)'
  BY DEF Good, Opened, Inquired
<1>2. (viewing # None => Opened(viewing))' /\ (asking # None => Inquired(asking))'
  BY <1>1, Moves
<1> QED BY <1>1, <1>2 DEF ItemsTyped

LEMMA AccountsLoadedTyped ==
  ASSUME TuiTyped, NEW c \in Flying, accountsLoaded(c)
  PROVE  TuiTyped'
<1>1. /\ UNCHANGED <<accounts, folderPane, listPane, overlay, synced, known, gone>>
  BY DEF accountsLoaded, panes, store
<1>2. PICK a \in accounts : Select(<<a, selected[2]>>) /\ Answer(c, {LoadFolders(a)})
  BY DEF accountsLoaded
<1>3. a \in Accounts /\ Kept' = Kept
  BY <1>1 DEF TuiTyped, StoreTyped, Kept
<1>4. IsABag(cmds') /\ Flying' \subseteq Flying \cup {LoadFolders(a)}
  BY <1>2, Answers DEF TuiTyped, CmdsTyped
<1>5. CmdsTyped'
  BY <1>3, <1>4, CmdsTypedStay, LoadsTyped DEF TuiTyped
<1>6. ItemsTyped'
  BY <1>1, <1>2, <1>3, SelectTyped DEF TuiTyped
<1>7. SelectionTyped' /\ selected'[1] = a
  BY <1>1, <1>2, <1>3, Moves DEF TuiTyped, SelectionTyped
<1>8. StoreTyped'
  BY <1>1 DEF TuiTyped, StoreTyped
<1> QED BY <1>1, <1>2, <1>5, <1>6, <1>7, <1>8 DEF TuiTyped, Started

LEMMA AnswerTyped ==
  ASSUME TuiTyped, NEW c \in Flying, NEW S, Answer(c, S), Kept' = Kept, \A d \in S : Typed(d)
  PROVE  CmdsTyped'
<1>1. CmdsTyped /\ IsABag(cmds') /\ Flying' \subseteq Flying \cup S
  BY Answers DEF TuiTyped, CmdsTyped
<1> QED BY <1>1, CmdsTypedStay

LEMMA BeginTyped ==
  ASSUME TuiTyped, NEW S, Begin(S), Kept' = Kept, \A d \in S : Typed(d)
  PROVE  CmdsTyped'
<1>1. CmdsTyped /\ IsABag(cmds') /\ Flying' \subseteq Flying \cup S
  BY Begins DEF TuiTyped, CmdsTyped
<1> QED BY <1>1, CmdsTypedStay

LEMMA FoldersLoadedTyped ==
  ASSUME TuiTyped, NEW c \in Flying, foldersLoaded(c)
  PROVE  TuiTyped'
<1>1. UNCHANGED <<accounts, overlay, synced, known, gone>> /\ c.kind = "folders" /\ c.got # None
  BY DEF foldersLoaded, store
<1>2. /\ selected[1] \in accounts /\ selected[1] \in Accounts /\ GotFolders(c) /\ Kept' = Kept
      /\ SelectionTyped /\ ItemsTyped
  BY <1>1, AfterStart DEF Typed, Kept, TuiTyped
<1>3. StoreTyped'
  BY <1>1 DEF TuiTyped, StoreTyped
<1>4. CASE c.got = {} /\ folderPane' = {} /\ Answer(c, {}) /\ UNCHANGED <<selected, behind, listPane, viewing, asking>>
  <2>1. CmdsTyped'
    BY <1>2, <1>4, AnswerTyped
  <2>2. ItemsTyped'
    BY <1>1, <1>2, <1>4, ShownStaysTyped DEF ShownStays
  <2> QED BY <1>1, <1>2, <1>3, <1>4, <2>1, <2>2 DEF TuiTyped, SelectionTyped, Started
<1>5. CASE c.got = {{}} /\ folderPane' = {} /\ listPane' = {} /\ Select(<<selected[1], None>>) /\ Answer(c, {})
  <2>1. CmdsTyped'
    BY <1>2, <1>5, AnswerTyped
  <2>2. ItemsTyped'
    BY <1>1, <1>2, <1>5, SelectTyped
  <2>3. selected' = <<selected[1], None>>
    BY <1>2, <1>5, Moves
  <2> QED BY <1>1, <1>2, <1>3, <1>5, <2>1, <2>2, <2>3 DEF TuiTyped, SelectionTyped, Started
<1>6. CASE /\ c.got \notin {{}, {{}}} /\ folderPane' = UNION c.got /\ UNCHANGED listPane
           /\ \E p \in folderPane' : Select(<<selected[1], p[2]>>) /\ Answer(c, {LoadMessages(p)})
  <2>1. folderPane' \subseteq Places
    BY <1>1, <1>2, <1>6 DEF GotFolders, Kept, TuiTyped, StoreTyped
  <2>2. PICK p \in folderPane' : Select(<<selected[1], p[2]>>) /\ Answer(c, {LoadMessages(p)})
    BY <1>6
  <2>3. CmdsTyped'
    BY <1>2, <2>2, AnswerTyped, LoadsTyped
  <2>4. ItemsTyped'
    BY <1>1, <1>2, <1>6, <2>2, SelectTyped
  <2>5. selected' = <<selected[1], p[2]>> /\ p[2] \in FolderNames
    BY <1>2, <2>1, <2>2, PlaceParts, Moves
  <2> QED BY <1>1, <1>2, <1>3, <2>1, <2>3, <2>4, <2>5 DEF TuiTyped, SelectionTyped, Started
<1> QED BY <1>4, <1>5, <1>6 DEF foldersLoaded, place

LEMMA MessagesLoadedTyped ==
  ASSUME TuiTyped, NEW c \in Flying, messagesLoaded(c)
  PROVE  TuiTyped'
<1>1. /\ UNCHANGED <<accounts, folderPane, selected, viewing, overlay, asking, synced, known, gone>>
      /\ c.kind = "messages" /\ c.got # None /\ listPane' = UNION c.got /\ Answer(c, {})
  BY DEF messagesLoaded, store
<1>2. selected[1] \in accounts /\ GotMessages(c) /\ Kept' = Kept /\ Kept \subseteq Places
  BY <1>1, AfterStart DEF Typed, Kept, TuiTyped, StoreTyped
<1>3. CmdsTyped'
  BY <1>1, <1>2, AnswerTyped
<1>4. \A i \in listPane' : Good(i)
  BY <1>1, <1>2, ItemsOfPlace DEF GotMessages
<1>5. ItemsTyped'
  <2>1. /\ \A i : Good(i) => Good(i)'
        /\ \A v : (Opened(v) => Opened(v)') /\ (Inquired(v) => Inquired(v)')
    BY <1>2 DEF Good, Opened, Inquired
  <2> QED BY <1>1, <1>4, <2>1 DEF TuiTyped, ItemsTyped
<1>6. SelectionTyped' /\ StoreTyped'
  BY <1>1 DEF TuiTyped, SelectionTyped, StoreTyped
<1> QED BY <1>1, <1>2, <1>3, <1>5, <1>6 DEF TuiTyped, Started

LEMMA FoundTyped ==
  ASSUME TuiTyped, NEW c \in Flying, found(c)
  PROVE  TuiTyped'
<1>1. /\ UNCHANGED <<accounts, folderPane, listPane, selected, viewing, asking, synced, known, gone>>
      /\ c.kind = "find" /\ Answer(c, {}) /\ overlay' \in {overlay, Findable(c.at[1])}
  BY DEF found, panes, place, store
<1>2. selected[1] \in accounts /\ Kept' = Kept /\ Kept \subseteq Places
  BY <1>1, AfterStart DEF Kept, TuiTyped, StoreTyped
<1>3. CmdsTyped'
  BY <1>1, <1>2, AnswerTyped
<1>4. \A i \in Findable(c.at[1]) : Good(i)
  <2>1. Listed(c.at[1]) \subseteq Kept
    BY DEF Listed, Kept
  <2> QED BY <1>2, <2>1, ItemsOfPlace DEF Findable
<1>5. ItemsTyped'
  <2>1. /\ \A i : Good(i) => Good(i)'
        /\ \A v : (Opened(v) => Opened(v)') /\ (Inquired(v) => Inquired(v)')
    BY <1>2 DEF Good, Opened, Inquired
  <2> QED BY <1>1, <1>4, <2>1 DEF TuiTyped, ItemsTyped
<1>6. SelectionTyped' /\ StoreTyped'
  BY <1>1 DEF TuiTyped, SelectionTyped, StoreTyped
<1> QED BY <1>1, <1>2, <1>3, <1>5, <1>6 DEF TuiTyped, Started

\* The other answers, which change no more than the message open.
LEMMA ResultTyped ==
  ASSUME TuiTyped, NEW c \in Flying,
         messageBodyLoaded(c) \/ attachmentSaved(c) \/ triageResult(c) \/ moveMessageResult(c)
  PROVE  TuiTyped'
<1>1. /\ UNCHANGED <<accounts, folderPane, listPane, selected, overlay, asking, synced, known, gone>>
      /\ c.kind \in NamingKinds /\ (Answer(c, {}) \/ Answer(c, Reload))
      /\ viewing' \in {viewing, None, [item |-> c.item, left |-> c.astray \/ c.at # selected]}
  BY DEF messageBodyLoaded, attachmentSaved, triageResult, moveMessageResult, panes, place, store,
         NamingKinds
<1>2. c.kind # "accounts"
  BY <1>1 DEF NamingKinds
<1>3. selected[1] \in accounts /\ Good(c.item) /\ Kept' = Kept /\ \A d \in Reload : Typed(d)
  BY <1>1, <1>2, AfterStart DEF Kept, Typed
<1>4. CmdsTyped'
  BY <1>1, <1>3, AnswerTyped
<1>5. ItemsTyped'
  <2>1. /\ \A i : Good(i) => Good(i)'
        /\ \A v : (Opened(v) => Opened(v)') /\ (Inquired(v) => Inquired(v)')
    BY <1>3 DEF Good, Opened, Inquired
  <2>2. Opened([item |-> c.item, left |-> c.astray \/ c.at # selected])
    BY <1>3 DEF Opened
  <2> QED BY <1>1, <2>1, <2>2 DEF TuiTyped, ItemsTyped
<1>6. SelectionTyped' /\ StoreTyped'
  BY <1>1 DEF TuiTyped, SelectionTyped, StoreTyped
<1> QED BY <1>1, <1>3, <1>4, <1>5, <1>6 DEF TuiTyped, Started

-----------------------------------------------------------------------------
(* Keys and syncs keep the types. *)

\* There is nothing to act on until an account is selected.
LEMMA Busy ==
  ASSUME TuiTyped,
         \/ folderPane # {} \/ listPane # {} \/ viewing # None \/ overlay # None \/ asking # None
         \/ selected[1] # None
  PROVE  selected[1] \in accounts /\ selected[1] \in Accounts
BY DEF TuiTyped, Started, NothingYet, StoreTyped

\* Keys and ticks that do not move the selection or open anything, and start S.
LEMMA KeyTyped ==
  ASSUME TuiTyped, NEW S, Begin(S), \A d \in S : Typed(d), selected[1] \in accounts,
         UNCHANGED <<accounts, folderPane, selected, synced, known, gone>>, ItemsTyped'
  PROVE  TuiTyped'
<1>1. Kept' = Kept
  BY DEF Kept
<1>2. CmdsTyped'
  BY <1>1, BeginTyped
<1>3. SelectionTyped' /\ StoreTyped'
  BY DEF TuiTyped, SelectionTyped, StoreTyped
<1> QED BY <1>2, <1>3 DEF TuiTyped, Started

LEMMA OpenAccountTyped ==
  ASSUME TuiTyped, NEW a \in Accounts, openAccount(a)
  PROVE  TuiTyped'
<1>1. /\ UNCHANGED <<accounts, folderPane, listPane, overlay, synced, known, gone>>
      /\ Select(<<a, selected[2]>>) /\ Begin({LoadFolders(a)}) /\ a \in accounts
  BY DEF openAccount, Press, store
<1>2. Kept' = Kept
  BY <1>1 DEF Kept
<1>3. CmdsTyped'
  BY <1>1, <1>2, BeginTyped, LoadsTyped
<1>4. ItemsTyped'
  BY <1>1, <1>2, SelectTyped DEF TuiTyped
<1>5. SelectionTyped' /\ StoreTyped' /\ selected'[1] = a
  BY <1>1, Moves DEF TuiTyped, SelectionTyped, StoreTyped
<1> QED BY <1>1, <1>3, <1>4, <1>5 DEF TuiTyped, Started

LEMMA AccountAddedTyped ==
  ASSUME TuiTyped, NEW a \in Accounts, accountAdded(a)
  PROVE  TuiTyped'
<1>1. /\ UNCHANGED <<folderPane, listPane, overlay, synced, known, gone>>
      /\ Select(<<a, selected[2]>>) /\ Begin({LoadAccounts}) /\ accounts' = accounts \cup {a}
  BY DEF accountAdded, store
<1>2. Kept' = Kept
  BY <1>1 DEF Kept
<1>3. CmdsTyped'
  BY <1>1, <1>2, BeginTyped, LoadsTyped
<1>4. ItemsTyped'
  BY <1>1, <1>2, SelectTyped DEF TuiTyped
<1>5. SelectionTyped' /\ selected'[1] = a
  BY <1>1, Moves DEF TuiTyped, SelectionTyped
<1>6. StoreTyped'
  BY <1>1 DEF TuiTyped, StoreTyped
<1> QED BY <1>1, <1>3, <1>4, <1>5, <1>6 DEF TuiTyped, Started

LEMMA OpenFolderTyped ==
  ASSUME TuiTyped, NEW p \in folderPane, openFolder(p)
  PROVE  TuiTyped'
<1>1. /\ UNCHANGED <<accounts, folderPane, listPane, overlay, synced, known, gone>>
      /\ Select(<<selected[1], p[2]>>) /\ Begin({LoadMessages(selected')})
  BY DEF openFolder, Press, store
<1>2. Kept' = Kept /\ selected[1] \in accounts /\ selected[1] \in Accounts
  BY <1>1, Busy DEF Kept
<1>3. p \in Places /\ p[2] \in FolderNames
  BY PlaceParts DEF TuiTyped, SelectionTyped
<1>4. Typed(LoadMessages(selected'))
  BY LoadsTyped
<1>5. CmdsTyped'
  BY <1>1, <1>2, <1>4, BeginTyped
<1>6. ItemsTyped'
  BY <1>1, <1>2, SelectTyped DEF TuiTyped
<1>7. SelectionTyped' /\ selected'[1] = selected[1]
  BY <1>1, <1>2, <1>3, Moves DEF TuiTyped, SelectionTyped
<1>8. StoreTyped'
  BY <1>1 DEF TuiTyped, StoreTyped
<1> QED BY <1>1, <1>2, <1>5, <1>6, <1>7, <1>8 DEF TuiTyped, Started

LEMMA NameTyped ==
  ASSUME NEW i, Good(i), NEW kind \in NamingKinds, NEW astray
  PROVE  Typed(Name(kind, i, astray))
BY LoadsTyped DEF Name

\* A key that acts on one of the messages shown, or asks about it.
LEMMA TargetTyped ==
  ASSUME TuiTyped, NEW i, Good(i), selected[1] \in accounts, ItemsTyped,
         openMessage(i) \/ handleTriageKey(i) \/ toggleSpam(i)
  PROVE  TuiTyped'
<1>1. UNCHANGED <<accounts, folderPane, selected, synced, known, gone>>
  BY DEF openMessage, handleTriageKey, toggleSpam, beginMove, Press, place, store
<1>2. PICK S : Begin(S) /\ \A d \in S : Typed(d)
  BY NameTyped DEF openMessage, handleTriageKey, toggleSpam, beginMove, Press, NamingKinds
<1>3. /\ listPane' \subseteq listPane /\ viewing' \in {viewing, None} /\ overlay' = overlay
      /\ asking' = asking \/ asking' = [what |-> "move", item |-> i, left |-> Left]
  BY DEF openMessage, handleTriageKey, toggleSpam, beginMove
<1>4. ItemsTyped'
  <2>1. /\ \A j : Good(j) => Good(j)'
        /\ \A v : (Opened(v) => Opened(v)') /\ (Inquired(v) => Inquired(v)')
    BY <1>1 DEF Good, Opened, Inquired, Kept
  <2>2. Inquired([what |-> "move", item |-> i, left |-> Left])
    BY DEF Inquired
  <2> QED BY <1>3, <2>1, <2>2 DEF ItemsTyped
<1> QED BY <1>1, <1>2, <1>4, KeyTyped

LEMMA TargetsGood ==
  ASSUME TuiTyped
  PROVE  (\A i \in listPane : Good(i)) /\ ((Main \/ Viewer) => \A i \in Targets : Good(i))
BY DEF TuiTyped, ItemsTyped, Targets, Opened, Main, Viewer

LEMMA QuestionTyped ==
  ASSUME TuiTyped, answerQuestion \/ beginSaveAttachment \/ updateSavingAttachment \/ closeViewer
  PROVE  TuiTyped'
<1>1. /\ UNCHANGED <<accounts, folderPane, selected, synced, known, gone, overlay>>
      /\ viewing # None \/ asking # None
  BY DEF answerQuestion, beginSaveAttachment, updateSavingAttachment, closeViewer, Viewer, beginMove,
         Press, place, store
<1>2. selected[1] \in accounts /\ ItemsTyped
  BY <1>1, Busy DEF TuiTyped
<1>3. (asking # None => Good(asking.item)) /\ (viewing # None => Good(viewing.item))
  BY <1>2 DEF ItemsTyped, Opened, Inquired
<1>4. PICK S : Begin(S) /\ \A d \in S : Typed(d)
  BY <1>3, NameTyped DEF answerQuestion, beginSaveAttachment, updateSavingAttachment, closeViewer,
     beginMove, Press, NamingKinds
<1>5. /\ listPane' \subseteq listPane /\ viewing' \in {viewing, None}
      /\ asking' = None \/ asking' = asking
           \/ (viewing # None /\ asking' = [what |-> "save", item |-> viewing.item, left |-> Left])
  BY DEF answerQuestion, beginSaveAttachment, updateSavingAttachment, closeViewer, beginMove, Viewer
<1>6. ItemsTyped'
  <2>1. /\ \A j : Good(j) => Good(j)'
        /\ \A v : (Opened(v) => Opened(v)') /\ (Inquired(v) => Inquired(v)')
    BY <1>1 DEF Good, Opened, Inquired, Kept
  <2>2. asking' # None => Inquired(asking')
    BY <1>2, <1>3, <1>5 DEF Inquired, ItemsTyped
  <2> QED BY <1>1, <1>2, <1>5, <2>1, <2>2 DEF ItemsTyped
<1> QED BY <1>1, <1>2, <1>4, <1>6, KeyTyped

LEMMA SearchTyped ==
  ASSUME TuiTyped, search \/ closeResults \/ syncDone
  PROVE  TuiTyped'
<1>1. /\ UNCHANGED <<accounts, folderPane, listPane, selected, synced, known, gone, viewing, asking>>
      /\ overlay' \in {overlay, None} /\ (selected[1] # None \/ overlay # None)
      /\ Begin({FindMessages(selected[1])}) \/ Begin({}) \/ Begin({LoadFolders(selected[1])})
  BY DEF search, closeResults, syncDone, Press, panes, place, store
<1>2. selected[1] \in accounts /\ selected[1] \in Accounts
  BY <1>1, Busy
<1>3. PICK S : Begin(S) /\ \A d \in S : Typed(d)
  <2>1. \A d \in {FindMessages(selected[1])} : Typed(d)
    BY <1>2, LoadsTyped
  <2>2. \A d \in {LoadFolders(selected[1])} : Typed(d)
    BY <1>2, LoadsTyped
  <2>3. \A d \in {} : Typed(d)
    OBVIOUS
  <2>4. CASE Begin({FindMessages(selected[1])})
    BY <2>1, <2>4
  <2>5. CASE Begin({LoadFolders(selected[1])})
    BY <2>2, <2>5
  <2>6. CASE Begin({})
    BY <2>3, <2>6
  <2> QED BY <1>1, <2>4, <2>5, <2>6
<1>4. ItemsTyped'
  BY <1>1, ShownStaysTyped DEF TuiTyped, ShownStays, Kept
<1> QED BY <1>1, <1>2, <1>3, <1>4, KeyTyped

LEMMA OpenResultTyped ==
  ASSUME TuiTyped, overlay # None, NEW i \in overlay, openResult(i)
  PROVE  TuiTyped'
<1>1. /\ UNCHANGED <<accounts, folderPane, listPane, synced, known, gone>> /\ overlay' = None
      /\ Select(<<selected[1], i.at[2]>>)
      /\ Begin({Naming("body", selected', i, behind), LoadMessages(selected')})
  BY DEF openResult, Press, store
<1>2. selected[1] \in accounts /\ selected[1] \in Accounts /\ Kept' = Kept /\ Good(i)
  BY <1>1, Busy DEF Kept, TuiTyped, ItemsTyped
<1>3. Typed(Naming("body", selected', i, behind)) /\ Typed(LoadMessages(selected'))
  BY <1>2, LoadsTyped DEF NamingKinds
<1>4. CmdsTyped'
  BY <1>1, <1>2, <1>3, BeginTyped
<1>5. ItemsTyped'
  BY <1>1, <1>2, SelectTyped DEF TuiTyped
<1>6. i.at[2] \in FolderNames
  BY <1>2, PlaceParts DEF Good, Item
<1>7. selected' = <<selected[1], i.at[2]>>
  BY <1>1, Moves DEF TuiTyped
<1>8. SelectionTyped'
  BY <1>1, <1>2, <1>6, <1>7 DEF TuiTyped, SelectionTyped
<1>9. StoreTyped'
  BY <1>1 DEF TuiTyped, StoreTyped
<1> QED BY <1>1, <1>2, <1>4, <1>5, <1>7, <1>8, <1>9 DEF TuiTyped, Started

LEMMA SyncWritesTyped ==
  ASSUME TuiTyped, SyncWrites
  PROVE  TuiTyped'
<1>1. UNCHANGED <<accounts, folderPane, listPane, selected, behind, viewing, overlay, asking, cmds>>
  BY DEF SyncWrites, panes, place
<1>2. StoreTyped' /\ Kept \subseteq Kept'
  <2>1. CASE (\E a \in accounts \ synced : synced' = synced \cup {a}) /\ UNCHANGED <<known, gone>>
    BY <1>1, <2>1 DEF TuiTyped, StoreTyped, Kept
  <2>2. CASE /\ \E p \in Places \ (known \cup gone) : p[1] \in synced /\ known' = known \cup {p}
             /\ UNCHANGED <<synced, gone>>
    BY <1>1, <2>2 DEF TuiTyped, StoreTyped, Kept
  <2>3. CASE /\ \E p \in known \cap Deletable : known' = known \ {p} /\ gone' = gone \cup {p}
             /\ UNCHANGED synced
    BY <1>1, <2>3 DEF TuiTyped, StoreTyped, Kept
  <2> QED BY <2>1, <2>2, <2>3 DEF SyncWrites
<1>3. Flying' = Flying /\ IsABag(cmds')
  BY <1>1 DEF Flying, TuiTyped, CmdsTyped
<1>4. CmdsTyped'
  BY <1>2, <1>3, CmdsTypedStay DEF TuiTyped
<1>5. ItemsTyped'
  BY <1>1, <1>2, ShownStaysTyped DEF TuiTyped, ShownStays
<1> QED BY <1>1, <1>2, <1>3, <1>4, <1>5 DEF TuiTyped, SelectionTyped, Started, NothingYet

LEMMA NextTuiTyped == TuiTyped /\ [NextTui]_tuiVars => TuiTyped'
<1> SUFFICES ASSUME TuiTyped, [NextTui]_tuiVars PROVE TuiTyped'
  OBVIOUS
<1>1. ASSUME NEW c \in Flying,
             \/ Read(c) \/ accountsLoaded(c) \/ foldersLoaded(c) \/ messagesLoaded(c) \/ found(c)
             \/ messageBodyLoaded(c) \/ attachmentSaved(c) \/ triageResult(c) \/ moveMessageResult(c)
      PROVE  TuiTyped'
  BY <1>1, ReadTyped, AccountsLoadedTyped, FoldersLoadedTyped, MessagesLoadedTyped, FoundTyped, ResultTyped
<1>2. ASSUME NEW a \in Accounts, openAccount(a) \/ accountAdded(a) PROVE TuiTyped'
  BY <1>2, OpenAccountTyped, AccountAddedTyped
<1>3. ASSUME NEW p \in folderPane, openFolder(p) PROVE TuiTyped'
  BY <1>3, OpenFolderTyped
<1>4. ASSUME NEW i \in listPane, openMessage(i) PROVE TuiTyped'
  BY <1>4, Busy, TargetsGood, TargetTyped DEF TuiTyped
<1>5. ASSUME NEW i \in Targets, handleTriageKey(i) \/ toggleSpam(i) PROVE TuiTyped'
  <2>1. (Main \/ Viewer) /\ (listPane # {} \/ viewing # None)
    BY <1>5 DEF handleTriageKey, toggleSpam, Targets
  <2> QED BY <1>5, <2>1, Busy, TargetsGood, TargetTyped DEF TuiTyped
<1>6. CASE answerQuestion \/ beginSaveAttachment \/ updateSavingAttachment \/ closeViewer
  BY <1>6, QuestionTyped
<1>7. CASE search \/ closeResults \/ syncDone
  BY <1>7, SearchTyped
<1>8. CASE overlay # None /\ \E i \in overlay : openResult(i)
  BY <1>8, OpenResultTyped
<1>9. CASE SyncWrites
  BY <1>9, SyncWritesTyped
<1>10. CASE UNCHANGED tuiVars
  <2>1. /\ UNCHANGED <<accounts, folderPane, listPane, selected, behind, viewing, overlay, asking, cmds>>
        /\ UNCHANGED <<synced, known, gone>>
    BY <1>10 DEF tuiVars, panes, place, store
  <2>2. Kept' = Kept /\ Flying' = Flying /\ IsABag(cmds') /\ StoreTyped'
    BY <2>1 DEF Kept, Flying, TuiTyped, CmdsTyped, StoreTyped
  <2>3. CmdsTyped'
    BY <2>2, CmdsTypedStay DEF TuiTyped
  <2>4. ItemsTyped'
    BY <2>1, <2>2, ShownStaysTyped DEF TuiTyped, ShownStays
  <2> QED BY <2>1, <2>2, <2>3, <2>4 DEF TuiTyped, SelectionTyped, Started, NothingYet
<1> QED BY <1>1, <1>2, <1>3, <1>4, <1>5, <1>6, <1>7, <1>8, <1>9, <1>10 DEF NextTui, Flying

-----------------------------------------------------------------------------
(* What keys name: unless the list is behind, it, the results and what is in *)
(* flight are of the selection; what is open or asked about is unless left.  *)

ListRight ==
    ~ behind =>
      /\ \A i \in listPane : i.at = selected
      /\ \A c \in Flying : OfSelection(c)
      /\ overlay # None => \A i \in overlay : i.at[1] = selected[1]

LeftRight ==
    /\ viewing # None /\ ~ viewing.left => viewing.item.at = selected
    /\ asking # None /\ ~ asking.left => asking.item.at = selected

TuiInv == TuiTyped /\ KeysNameWhatIsShown /\ ListRight /\ LeftRight

NamesIt(c) == c.kind \in NamingKinds => c.at = c.item.at \/ c.astray

LEMMA InitTuiInv == InitTui => TuiInv
<1> SUFFICES ASSUME InitTui PROVE TuiInv
  OBVIOUS
<1>1. Flying = {LoadAccounts} /\ LoadAccounts.kind = "accounts"
  BY DEF InitTui, Flying, BagToSet, SetToBag, LoadAccounts
<1>2. KeysNameWhatIsShown
  BY <1>1 DEF KeysNameWhatIsShown, Flying
<1> QED BY <1>2, InitTuiTyped DEF InitTui, TuiInv, ListRight, LeftRight

LEMMA SelectedPair == TuiTyped => selected = <<selected[1], selected[2]>>
BY DEF TuiTyped, SelectionTyped

LEMMA KeysStay ==
  ASSUME KeysNameWhatIsShown, \A c \in Flying' : c \in Flying \/ NamesIt(c)
  PROVE  KeysNameWhatIsShown'
BY DEF KeysNameWhatIsShown, Flying, NamesIt, NamingKinds

LEMMA LoadsOf ==
  /\ \A a : /\ LoadFolders(a).kind = "folders" /\ LoadFolders(a).at = <<a, None>>
            /\ LoadFolders(a).at[1] = a
  /\ \A p : LoadMessages(p).kind = "messages" /\ LoadMessages(p).at = p
  /\ \A a : /\ FindMessages(a).kind = "find" /\ FindMessages(a).at = <<a, None>>
            /\ FindMessages(a).at[1] = a
  /\ LoadAccounts.kind = "accounts"
  /\ \A kind, p, i, x : /\ Naming(kind, p, i, x).kind = kind /\ Naming(kind, p, i, x).at = p
                         /\ Naming(kind, p, i, x).item = i /\ Naming(kind, p, i, x).astray = x
BY DEF LoadFolders, LoadMessages, FindMessages, LoadAccounts, Naming

LEMMA LoadsNameNothing ==
  /\ \A a, p : NamesIt(LoadFolders(a)) /\ NamesIt(FindMessages(a)) /\ NamesIt(LoadMessages(p))
  /\ NamesIt(LoadAccounts)
BY LoadsOf DEF NamesIt, NamingKinds

\* What is begun for the selection.
Apt(d) == NamesIt(d) /\ OfSelection(d)

LEMMA LoadsApt ==
  /\ Apt(LoadMessages(selected)) /\ Apt(LoadFolders(selected[1])) /\ Apt(FindMessages(selected[1]))
  /\ \A d \in Reload : Apt(d)
BY LoadsOf, LoadsNameNothing DEF Apt, OfSelection, Reload

\* Steps that leave the selection where it is, show no more, and begin what is of it.
LEMMA StaysPut ==
  ASSUME TuiInv, UNCHANGED <<selected, behind>>, listPane' \subseteq listPane,
         overlay' \in {overlay, None}, LeftRight', TuiTyped',
         \A d \in Flying' : d \in Flying \/ Apt(d)
  PROVE  TuiInv'
<1>1. KeysNameWhatIsShown'
  BY KeysStay DEF TuiInv, Apt
<1>2. ListRight'
  <2> SUFFICES ASSUME ~ behind
               PROVE  /\ \A i \in listPane' : i.at = selected
                      /\ \A c \in Flying' : OfSelection(c)
                      /\ overlay' # None => \A i \in overlay' : i.at[1] = selected[1]
    BY DEF ListRight, OfSelection
  <2> QED BY DEF TuiInv, ListRight, Apt
<1> QED BY <1>1, <1>2 DEF TuiInv

\* Of what is shown, some may be taken off.
LEMMA LeftStays ==
  ASSUME LeftRight, selected' = selected, viewing' \in {viewing, None}, asking' \in {asking, None}
  PROVE  LeftRight'
BY DEF LeftRight

LEMMA SelectLeft ==
  ASSUME LeftRight, ItemsTyped, NEW p, Select(p)
  PROVE  LeftRight'
<1>1. /\ selected' = p
      /\ viewing' # None => /\ viewing # None /\ viewing'.item = viewing.item
                            /\ ~ viewing'.left => ~ viewing.left /\ p = selected
      /\ asking' # None => /\ asking # None /\ asking'.item = asking.item
                           /\ ~ asking'.left => ~ asking.left /\ p = selected
  BY Moves
<1> QED BY <1>1 DEF LeftRight

-----------------------------------------------------------------------------
(* Answers keep what keys name. *)

LEMMA AnswerFlies ==
  ASSUME TuiInv, NEW c \in Flying, NEW S, Answer(c, S)
  PROVE  Flying' \subseteq Flying \cup S
BY Answers DEF TuiInv, TuiTyped, CmdsTyped

LEMMA ReadRight ==
  ASSUME TuiInv, NEW c \in Flying, Read(c), TuiTyped'
  PROVE  TuiInv'
<1>1. /\ UNCHANGED <<listPane, selected, behind, viewing, overlay, asking>>
      /\ c.kind \in LoadKinds /\ c.kind # "accounts"
  BY DEF Read, panes, place, LoadKinds
<1>2. IsLoad(c)
  BY <1>1 DEF TuiInv, TuiTyped, CmdsTyped, Typed
<1>3. PICK G : Answer(c, {[c EXCEPT !.got = G]})
  BY <1>1 DEF Read, LoadKinds
<1> DEFINE d == [c EXCEPT !.got = G]
<1>4. d.kind = c.kind /\ d.at = c.at
  <2>1. d = [kind |-> c.kind, at |-> c.at, got |-> G]
    BY <1>2 DEF IsLoad
  <2> QED BY <2>1
<1>5. Flying' \subseteq Flying \cup {d}
  BY <1>3, AnswerFlies
<1> HIDE DEF d
<1>6. NamesIt(d) /\ (OfSelection(c) => OfSelection(d))
  BY <1>1, <1>4 DEF NamesIt, NamingKinds, LoadKinds, OfSelection
<1>7. KeysNameWhatIsShown'
  BY <1>5, <1>6, KeysStay DEF TuiInv
<1>8. LeftRight'
  BY <1>1, LeftStays DEF TuiInv
<1>9. ListRight'
  <2> SUFFICES ASSUME ~ behind
               PROVE  /\ \A i \in listPane : i.at = selected
                      /\ \A e \in Flying' : OfSelection(e)
                      /\ overlay # None => \A i \in overlay : i.at[1] = selected[1]
    BY <1>1 DEF ListRight, OfSelection
  <2> QED BY <1>5, <1>6 DEF TuiInv, ListRight
<1> QED BY <1>7, <1>8, <1>9 DEF TuiInv

LEMMA AccountsLoadedRight ==
  ASSUME TuiInv, NEW c \in Flying, accountsLoaded(c), TuiTyped'
  PROVE  TuiInv'
<1>1. PICK a \in accounts : Select(<<a, selected[2]>>) /\ Answer(c, {LoadFolders(a)})
  BY DEF accountsLoaded
<1>2. KeysNameWhatIsShown'
  BY <1>1, AnswerFlies, KeysStay, LoadsNameNothing DEF TuiInv
<1>3. behind
  BY DEF accountsLoaded, TuiInv, ListRight, OfSelection
<1>4. behind'
  BY <1>1, <1>3 DEF Select
<1>5. LeftRight'
  BY <1>1, SelectLeft DEF TuiInv, TuiTyped
<1> QED BY <1>2, <1>4, <1>5 DEF TuiInv, ListRight

LEMMA FoldersLoadedRight ==
  ASSUME TuiInv, NEW c \in Flying, foldersLoaded(c), TuiTyped'
  PROVE  TuiInv'
<1>1. UNCHANGED overlay /\ c.kind = "folders" /\ c.got # None /\ GotFolders(c) /\ TuiTyped /\ ItemsTyped
  BY DEF foldersLoaded, TuiInv, TuiTyped, CmdsTyped, Typed
<1>2. CASE Answer(c, {}) /\ UNCHANGED <<selected, behind, listPane, viewing, asking>>
  <2>1. LeftRight'
    BY <1>2, LeftStays DEF TuiInv
  <2>2. Flying' \subseteq Flying
    BY <1>2, AnswerFlies
  <2> QED BY <1>1, <1>2, <2>1, <2>2, StaysPut
<1>3. CASE listPane' = {} /\ Select(<<selected[1], None>>) /\ Answer(c, {})
  <2>1. Flying' \subseteq Flying
    BY <1>3, AnswerFlies
  <2>2. LeftRight' /\ (~ behind' => ~ behind /\ selected' = selected)
    BY <1>1, <1>3, SelectLeft, Moves DEF TuiInv
  <2>3. KeysNameWhatIsShown'
    BY <2>1, KeysStay DEF TuiInv
  <2>4. ListRight'
    <3> SUFFICES ASSUME ~ behind' PROVE ListRight'
      BY DEF ListRight
    <3>1. \A e : OfSelection(e) => OfSelection(e)'
      BY <2>2 DEF OfSelection
    <3> QED BY <1>1, <1>3, <2>1, <2>2, <3>1 DEF TuiInv, ListRight
  <2> QED BY <2>2, <2>3, <2>4 DEF TuiInv
<1>4. CASE /\ c.got \notin {{}, {{}}} /\ folderPane' = UNION c.got /\ UNCHANGED listPane
           /\ \E p \in folderPane' : Select(<<selected[1], p[2]>>) /\ Answer(c, {LoadMessages(p)})
  <2>1. PICK p \in folderPane' : Select(<<selected[1], p[2]>>) /\ Answer(c, {LoadMessages(p)})
    BY <1>4
  <2>2. Flying' \subseteq Flying \cup {LoadMessages(p)}
    BY <2>1, AnswerFlies
  <2>3. LeftRight' /\ (~ behind' => ~ behind /\ selected' = selected) /\ selected' = <<selected[1], p[2]>>
    BY <1>1, <2>1, SelectLeft, Moves DEF TuiInv
  <2>4. KeysNameWhatIsShown'
    BY <2>2, KeysStay, LoadsNameNothing DEF TuiInv
  <2>5. ListRight'
    <3> SUFFICES ASSUME ~ behind' PROVE ListRight'
      BY DEF ListRight
    <3>1. c.at[1] = selected[1]
      BY <1>1, <2>3 DEF TuiInv, ListRight, OfSelection
    <3>2. PICK L \in SUBSET {q \in Kept : q[1] = c.at[1]} : c.got = {L}
      BY <1>1, <1>4 DEF GotFolders
    <3>3. p[1] = selected[1] /\ p \in Places
      BY <1>1, <1>4, <3>1, <3>2 DEF TuiTyped, StoreTyped, Kept
    <3>4. p = selected'
      BY <2>3, <3>3, PlaceParts
    <3>5. OfSelection(LoadMessages(p))'
      BY <3>4, LoadsOf DEF OfSelection
    <3>6. \A e : OfSelection(e) => OfSelection(e)'
      BY <2>3 DEF OfSelection
    <3> QED BY <1>1, <1>4, <2>2, <2>3, <3>5, <3>6 DEF TuiInv, ListRight
  <2> QED BY <2>3, <2>4, <2>5 DEF TuiInv
<1> QED BY <1>2, <1>3, <1>4 DEF foldersLoaded, place

LEMMA MessagesLoadedRight ==
  ASSUME TuiInv, NEW c \in Flying, messagesLoaded(c), TuiTyped'
  PROVE  TuiInv'
<1>1. /\ UNCHANGED <<selected, viewing, overlay, asking>> /\ c.kind = "messages" /\ c.got # None
      /\ listPane' = UNION c.got /\ Answer(c, {})
      /\ ~ behind' => \/ ~ behind
                      \/ overlay = None /\ c.at = selected /\ \A d \in Flying' : OfSelection(d)
  BY DEF messagesLoaded, Flying
<1>2. Flying' \subseteq Flying
  BY <1>1, AnswerFlies
<1>3. KeysNameWhatIsShown' /\ LeftRight'
  BY <1>1, <1>2, KeysStay, LeftStays DEF TuiInv
<1>4. ListRight'
  <2> SUFFICES ASSUME ~ behind' PROVE ListRight'
    BY DEF ListRight
  <2>1. c.at = selected /\ (\A d \in Flying' : OfSelection(d))
        /\ (overlay # None => \A i \in overlay : i.at[1] = selected[1])
    BY <1>1, <1>2 DEF TuiInv, ListRight, OfSelection
  <2>2. PICK S \in SUBSET ItemsOf(c.at) : c.got = {S}
    BY <1>1 DEF TuiInv, TuiTyped, CmdsTyped, Typed, GotMessages
  <2>3. \A i \in listPane' : i.at = selected
    BY <1>1, <2>1, <2>2 DEF ItemsOf
  <2>4. \A d : OfSelection(d) => OfSelection(d)'
    BY <1>1 DEF OfSelection
  <2> QED BY <1>1, <2>1, <2>3, <2>4 DEF ListRight
<1> QED BY <1>3, <1>4 DEF TuiInv

LEMMA FoundRight ==
  ASSUME TuiInv, NEW c \in Flying, found(c), TuiTyped'
  PROVE  TuiInv'
<1>1. /\ UNCHANGED <<listPane, selected, behind, viewing, asking>> /\ c.kind = "find" /\ Answer(c, {})
      /\ overlay' = overlay \/ overlay' = Findable(c.at[1])
  BY DEF found, panes, place
<1>2. Flying' \subseteq Flying
  BY <1>1, AnswerFlies
<1>3. KeysNameWhatIsShown' /\ LeftRight'
  BY <1>1, <1>2, KeysStay, LeftStays DEF TuiInv
<1>4. ListRight'
  <2> SUFFICES ASSUME ~ behind PROVE ListRight'
    BY <1>1 DEF ListRight
  <2>1. c.at[1] = selected[1]
    BY <1>1 DEF TuiInv, ListRight, OfSelection
  <2>2. \A i \in Findable(c.at[1]) : i.at[1] = c.at[1]
    BY DEF Findable, Listed, ItemsOf
  <2>3. \A d : OfSelection(d) => OfSelection(d)'
    BY <1>1 DEF OfSelection
  <2> QED BY <1>1, <1>2, <2>1, <2>2, <2>3 DEF TuiInv, ListRight
<1> QED BY <1>3, <1>4 DEF TuiInv

LEMMA ResultRight ==
  ASSUME TuiInv, NEW c \in Flying, TuiTyped',
         messageBodyLoaded(c) \/ attachmentSaved(c) \/ triageResult(c) \/ moveMessageResult(c)
  PROVE  TuiInv'
<1>1. /\ UNCHANGED <<listPane, selected, behind, overlay, asking>>
      /\ \/ viewing' \in {viewing, None}
         \/ c.kind = "body" /\ viewing' = [item |-> c.item, left |-> c.astray \/ c.at # selected]
  BY DEF messageBodyLoaded, attachmentSaved, triageResult, moveMessageResult, panes, place
<1>2. PICK S \in {{}, Reload} : Answer(c, S)
  BY DEF messageBodyLoaded, attachmentSaved, triageResult, moveMessageResult
<1>3. \A d \in Flying' : d \in Flying \/ Apt(d)
  BY <1>2, AnswerFlies, LoadsApt
<1>4. LeftRight'
  <2>1. CASE viewing' \in {viewing, None}
    BY <1>1, <2>1, LeftStays DEF TuiInv
  <2>2. CASE c.kind = "body" /\ viewing' = [item |-> c.item, left |-> c.astray \/ c.at # selected]
    <3>1. c.at = c.item.at \/ c.astray
      BY <2>2 DEF TuiInv, KeysNameWhatIsShown, Flying
    <3>2. viewing'.item = c.item /\ viewing'.left = (c.astray \/ c.at # selected)
      BY <2>2
    <3>3. ~ viewing'.left => viewing'.item.at = selected
      BY <3>1, <3>2
    <3> QED BY <1>1, <3>3 DEF TuiInv, LeftRight
  <2> QED BY <1>1, <2>1, <2>2
<1> QED BY <1>1, <1>3, <1>4, StaysPut

-----------------------------------------------------------------------------
(* Keys keep what keys name. *)

LEMMA BeginFlies ==
  ASSUME TuiInv, NEW S, Begin(S)
  PROVE  Flying' = Flying \cup S
BY Begins DEF TuiInv, TuiTyped, CmdsTyped

\* A name given from here is right, if it is not said to be astray.
LEMMA NameApt ==
  ASSUME NEW kind \in NamingKinds, NEW i, NEW astray, ~ astray => i.at = selected
  PROVE  Apt(Name(kind, i, astray))
<1> DEFINE c == Name(kind, i, astray)
<1>1. c.kind = kind /\ c.at = selected /\ c.item = i /\ c.astray = astray
  BY LoadsOf DEF Name
<1> HIDE DEF c
<1>2. NamesIt(c)
  BY <1>1, Zenon DEF NamesIt
<1>3. OfSelection(c)
  BY <1>1 DEF OfSelection, NamingKinds
<1> QED BY <1>2, <1>3 DEF Apt, c

LEMMA TargetsRight ==
  ASSUME TuiInv, NEW i \in Targets, ~ Left
  PROVE  i.at = selected
BY DEF TuiInv, ListRight, LeftRight, Targets, Left

\* A key that begins what is of the selection and asks about one of the targets, if
\* about any.
LEMMA KeyRight ==
  ASSUME TuiInv, NEW S, Begin(S), \A d \in S : Apt(d), UNCHANGED <<selected, behind>>,
         listPane' \subseteq listPane, viewing' \in {viewing, None}, overlay' \in {overlay, None},
         \/ asking' \in {asking, None}
         \/ \E w : \E i \in Targets : asking' = [what |-> w, item |-> i, left |-> Left],
         TuiTyped'
  PROVE  TuiInv'
<1>1. \A d \in Flying' : d \in Flying \/ Apt(d)
  BY BeginFlies
<1>2. LeftRight'
  <2>1. CASE asking' \in {asking, None}
    BY <2>1, LeftStays DEF TuiInv
  <2>2. CASE \E w : \E i \in Targets : asking' = [what |-> w, item |-> i, left |-> Left]
    <3>0. PICK w : \E i \in Targets : asking' = [what |-> w, item |-> i, left |-> Left]
      BY <2>2
    <3>1. PICK i \in Targets : asking' = [what |-> w, item |-> i, left |-> Left]
      BY <3>0
    <3>2. asking'.item = i /\ asking'.left = Left
      BY <3>1
    <3>3. ~ asking'.left => asking'.item.at = selected
      BY <3>2, TargetsRight
    <3> QED BY <3>3 DEF TuiInv, LeftRight
  <2> QED BY <2>1, <2>2
<1> QED BY <1>1, <1>2, StaysPut

LEMMA TargetRight ==
  ASSUME TuiInv, NEW i \in Targets, handleTriageKey(i) \/ toggleSpam(i), TuiTyped'
  PROVE  TuiInv'
<1>1. /\ UNCHANGED <<selected, behind, overlay>>
      /\ \/ beginMove(i, Left) /\ UNCHANGED asking
         \/ /\ asking' = [what |-> "move", item |-> i, left |-> Left]
            /\ Begin({}) /\ UNCHANGED <<listPane, viewing>>
         \/ /\ \E kind \in {"triage", "spam"} : Begin({Name(kind, i, Left)})
            /\ UNCHANGED <<asking, listPane, viewing>>
  BY DEF handleTriageKey, toggleSpam, beginMove, Press, place
<1>2. \A kind \in NamingKinds : Apt(Name(kind, i, Left))
  BY TargetsRight, NameApt
<1>3. CASE beginMove(i, Left) /\ UNCHANGED asking
  <2>1. Begin({Name("triage", i, Left)}) /\ listPane' \subseteq listPane /\ viewing' = None
    BY <1>3 DEF beginMove, Press
  <2> QED BY <1>1, <1>2, <1>3, <2>1, KeyRight DEF NamingKinds
<1>4. CASE /\ asking' = [what |-> "move", item |-> i, left |-> Left]
           /\ Begin({}) /\ UNCHANGED <<listPane, viewing>>
  <2>1. \A d \in {} : Apt(d)
    OBVIOUS
  <2> QED BY <1>1, <1>4, <2>1, KeyRight
<1>5. CASE /\ \E kind \in {"triage", "spam"} : Begin({Name(kind, i, Left)})
           /\ UNCHANGED <<asking, listPane, viewing>>
  <2>1. PICK kind \in {"triage", "spam"} : Begin({Name(kind, i, Left)})
    BY <1>5
  <2>2. \A d \in {Name(kind, i, Left)} : Apt(d)
    BY <1>2 DEF NamingKinds
  <2> QED BY <1>1, <1>5, <2>1, <2>2, KeyRight
<1> QED BY <1>1, <1>3, <1>4, <1>5

LEMMA OpenMessageRight ==
  ASSUME TuiInv, NEW i \in listPane, openMessage(i), TuiTyped'
  PROVE  TuiInv'
<1>1. /\ UNCHANGED <<listPane, selected, behind, viewing, overlay, asking>>
      /\ Begin({Name("body", i, behind)})
  BY DEF openMessage, Press, place
<1>2. Apt(Name("body", i, behind))
  BY NameApt DEF TuiInv, ListRight, NamingKinds
<1> QED BY <1>1, <1>2, KeyRight

LEMMA QuestionRight ==
  ASSUME TuiInv, answerQuestion \/ beginSaveAttachment \/ updateSavingAttachment \/ closeViewer, TuiTyped'
  PROVE  TuiInv'
<1>1. UNCHANGED <<selected, behind, overlay>>
  BY DEF answerQuestion, beginSaveAttachment, updateSavingAttachment, closeViewer, place
<1>2. \A d \in {} : Apt(d)
  OBVIOUS
<1>3. CASE answerQuestion
  <2>1. asking # None /\ asking' = None
    BY <1>3 DEF answerQuestion
  <2>2. CASE beginMove(asking.item, asking.left)
    <3>1. /\ Begin({Name("triage", asking.item, asking.left)}) /\ listPane' \subseteq listPane
          /\ viewing' = None
      BY <2>2 DEF beginMove, Press
    <3>2. Apt(Name("triage", asking.item, asking.left))
      BY <2>1, NameApt DEF TuiInv, LeftRight, NamingKinds
    <3> QED BY <1>1, <2>1, <3>1, <3>2, KeyRight
  <2>3. CASE Press({}) /\ UNCHANGED <<listPane, viewing>>
    BY <1>1, <1>2, <2>1, <2>3, KeyRight DEF Press
  <2> QED BY <1>3, <2>2, <2>3 DEF answerQuestion
<1>4. CASE beginSaveAttachment
  <2>1. /\ asking' = [what |-> "save", item |-> viewing.item, left |-> Left] /\ viewing # None
        /\ Begin({}) /\ UNCHANGED <<listPane, viewing>>
    BY <1>4 DEF beginSaveAttachment, Viewer, Press
  <2>2. viewing.item \in Targets
    BY <2>1 DEF Targets
  <2> QED BY <1>1, <1>2, <2>1, <2>2, KeyRight
<1>5. CASE updateSavingAttachment
  <2>1. asking' = None /\ UNCHANGED <<listPane, viewing>>
    BY <1>5 DEF updateSavingAttachment
  <2>2. CASE viewing # None /\ Press({Name("save", viewing.item, Left)})
    <3>1. Apt(Name("save", viewing.item, Left))
      BY <2>2, TargetsRight, NameApt DEF Targets, NamingKinds
    <3> QED BY <1>1, <2>1, <2>2, <3>1, KeyRight DEF Press
  <2>3. CASE Press({})
    BY <1>1, <1>2, <2>1, <2>3, KeyRight DEF Press
  <2> QED BY <1>5, <2>2, <2>3 DEF updateSavingAttachment
<1>6. CASE closeViewer
  BY <1>1, <1>2, <1>6, KeyRight DEF closeViewer, Press
<1> QED BY <1>3, <1>4, <1>5, <1>6

LEMMA SearchRight ==
  ASSUME TuiInv, search \/ closeResults \/ syncDone, TuiTyped'
  PROVE  TuiInv'
<1>1. UNCHANGED <<listPane, selected, behind, viewing, asking>> /\ overlay' \in {overlay, None}
  BY DEF search, closeResults, syncDone, place, panes
<1>2. PICK S \in {{}, {FindMessages(selected[1])}, {LoadFolders(selected[1])}} : Begin(S)
  BY DEF search, closeResults, syncDone, Press
<1>3. \A d \in S : Apt(d)
  BY <1>2, LoadsApt
<1> QED BY <1>1, <1>2, <1>3, KeyRight

\* The selection moves, and the list is behind until that of the folder comes.
LEMMA MovesRight ==
  ASSUME TuiInv, NEW p, p # selected \/ behind, Select(p), NEW d, Begin({d}), NamesIt(d), TuiTyped'
  PROVE  TuiInv'
<1>1. KeysNameWhatIsShown'
  BY BeginFlies, KeysStay DEF TuiInv
<1>2. behind'
  BY DEF Select
<1>3. LeftRight'
  BY SelectLeft DEF TuiInv, TuiTyped
<1> QED BY <1>1, <1>2, <1>3 DEF TuiInv, ListRight

LEMMA OpenRight ==
  ASSUME TuiInv, TuiTyped',
         \/ \E a \in Accounts : openAccount(a) \/ accountAdded(a)
         \/ \E p \in folderPane : openFolder(p)
  PROVE  TuiInv'
<1>1. TuiTyped
  BY DEF TuiInv
<1>2. ASSUME NEW a \in Accounts, openAccount(a) PROVE TuiInv'
  <2>1. a # selected[1] /\ Select(<<a, selected[2]>>) /\ Begin({LoadFolders(a)})
    BY <1>2 DEF openAccount, Press
  <2>2. <<a, selected[2]>> # selected
    BY <1>1, <2>1, SelectedPair
  <2> QED BY <2>1, <2>2, MovesRight, LoadsNameNothing
<1>3. ASSUME NEW a \in Accounts, accountAdded(a) PROVE TuiInv'
  <2>1. a \notin accounts /\ Select(<<a, selected[2]>>) /\ Begin({LoadAccounts})
    BY <1>3 DEF accountAdded
  <2>2. <<a, selected[2]>> # selected \/ behind
    BY <1>1, <2>1, SelectedPair DEF TuiTyped, Started, NothingYet
  <2> QED BY <2>1, <2>2, MovesRight, LoadsNameNothing
<1>4. ASSUME NEW p \in folderPane, openFolder(p) PROVE TuiInv'
  <2>1. p[2] # selected[2] /\ Select(<<selected[1], p[2]>>) /\ Begin({LoadMessages(selected')})
    BY <1>4 DEF openFolder, Press
  <2>2. <<selected[1], p[2]>> # selected
    BY <1>1, <2>1, SelectedPair
  <2>3. NamesIt(LoadMessages(selected'))
    BY LoadsNameNothing
  <2> QED BY <2>1, <2>2, <2>3, MovesRight
<1> QED BY <1>2, <1>3, <1>4

\* A result is of the account selected, and its folder is selected with it.
LEMMA OpenResultRight ==
  ASSUME TuiInv, overlay # None, NEW i \in overlay, openResult(i), TuiTyped'
  PROVE  TuiInv'
<1>1. /\ UNCHANGED listPane /\ overlay' = None /\ Select(<<selected[1], i.at[2]>>)
      /\ Begin({Naming("body", selected', i, behind), LoadMessages(selected')})
  BY DEF openResult, Press
<1>2. /\ LeftRight' /\ selected' = <<selected[1], i.at[2]>>
      /\ ~ behind' => ~ behind /\ selected' = selected
  BY <1>1, SelectLeft, Moves DEF TuiInv, TuiTyped
<1> SUFFICES ASSUME NEW s, s = <<selected[1], i.at[2]>>, selected' = s,
                    NEW b, b = Naming("body", s, i, behind), NEW l, l = LoadMessages(s), Begin({b, l})
             PROVE  TuiInv'
  BY <1>1, <1>2
<1>3. /\ b.kind = "body" /\ b.at = s /\ b.item = i /\ b.astray = behind
      /\ l.kind = "messages" /\ l.at = s /\ NamesIt(l)
  BY LoadsOf, LoadsNameNothing
<1>4. Flying' = Flying \cup {b, l}
  BY BeginFlies
<1>5. ~ behind => s = i.at
  <2>1. i.at = <<i.at[1], i.at[2]>>
    BY PlaceParts DEF TuiInv, TuiTyped, ItemsTyped, Good, Item
  <2>2. ~ behind => i.at[1] = selected[1]
    BY DEF TuiInv, ListRight
  <2> QED BY <2>1, <2>2
<1>6. KeysNameWhatIsShown'
  <2>1. NamesIt(b)
    BY <1>3, <1>5, Zenon DEF NamesIt
  <2> QED BY <1>3, <1>4, <2>1, KeysStay DEF TuiInv
<1>7. ListRight'
  <2> SUFFICES ASSUME ~ behind' PROVE ListRight'
    BY DEF ListRight
  <2>1. \A d : OfSelection(d) => OfSelection(d)'
    BY <1>2 DEF OfSelection
  <2>2. OfSelection(b)' /\ OfSelection(l)'
    BY <1>3 DEF OfSelection
  <2> QED BY <1>1, <1>2, <1>4, <2>1, <2>2 DEF TuiInv, ListRight
<1> QED BY <1>2, <1>6, <1>7 DEF TuiInv

LEMMA NextTuiInv == TuiInv /\ [NextTui]_tuiVars => TuiInv'
<1> SUFFICES ASSUME TuiInv, [NextTui]_tuiVars PROVE TuiInv'
  OBVIOUS
<1>0. TuiTyped'
  BY NextTuiTyped DEF TuiInv
<1>1. ASSUME NEW c \in Flying,
             \/ Read(c) \/ accountsLoaded(c) \/ foldersLoaded(c) \/ messagesLoaded(c) \/ found(c)
             \/ messageBodyLoaded(c) \/ attachmentSaved(c) \/ triageResult(c) \/ moveMessageResult(c)
      PROVE  TuiInv'
  BY <1>0, <1>1, ReadRight, AccountsLoadedRight, FoldersLoadedRight, MessagesLoadedRight, FoundRight,
     ResultRight
<1>2. CASE \/ \E a \in Accounts : openAccount(a) \/ accountAdded(a)
           \/ \E p \in folderPane : openFolder(p)
  BY <1>0, <1>2, OpenRight
<1>3. ASSUME NEW i \in listPane, openMessage(i) PROVE TuiInv'
  BY <1>0, <1>3, OpenMessageRight
<1>4. ASSUME NEW i \in Targets, handleTriageKey(i) \/ toggleSpam(i) PROVE TuiInv'
  BY <1>0, <1>4, TargetRight
<1>5. CASE answerQuestion \/ beginSaveAttachment \/ updateSavingAttachment \/ closeViewer
  BY <1>0, <1>5, QuestionRight
<1>6. CASE search \/ closeResults \/ syncDone
  BY <1>0, <1>6, SearchRight
<1>7. CASE overlay # None /\ \E i \in overlay : openResult(i)
  BY <1>0, <1>7, OpenResultRight
<1>8. CASE SyncWrites \/ UNCHANGED tuiVars
  <2>1. UNCHANGED <<listPane, selected, behind, viewing, overlay, asking, cmds>>
    BY <1>8 DEF SyncWrites, tuiVars, panes, place
  <2>2. LeftRight' /\ Flying' = Flying
    BY <2>1, LeftStays DEF TuiInv, Flying
  <2> QED BY <1>0, <2>1, <2>2, StaysPut
<1> QED BY <1>1, <1>2, <1>3, <1>4, <1>5, <1>6, <1>7, <1>8 DEF NextTui, Flying

\* What the TUI shows and holds is well typed in every reachable state.
THEOREM TuiTypeCorrect == TuiSpec => []TuiTypeOK
<1>1. TuiInv => TuiTypeOK
  BY TypedIsTypeOK DEF TuiInv
<1> QED BY <1>1, InitTuiInv, NextTuiInv, PTL DEF TuiSpec

\* A key acts on the message that is shown, for all accounts and folders, in any order
\* of keys, answers and syncs, unless it is pressed on a list that is behind the
\* selection, or on a message open or asked about that the selection has left.
THEOREM KeysAreOfWhatIsShown == TuiSpec => []KeysNameWhatIsShown
<1>1. TuiInv => KeysNameWhatIsShown
  BY DEF TuiInv
<1> QED BY <1>1, InitTuiInv, NextTuiInv, PTL DEF TuiSpec

-----------------------------------------------------------------------------
(* The log: the invariant. *)

RecordsIn(q) == {q[k] : k \in 1..Len(q)}
Descends(q) == \A k \in 1..Len(q), l \in 1..Len(q) : k < l => q[l] < q[k]

\* q has the records that begin in [a, b), newest first.
Holds(q, a, b) ==
    /\ \A n \in Nat : n \in RecordsIn(q) <=> n \in records /\ a <= n /\ n < b
    /\ Descends(q)

\* A record begins a line, and the line ended before the session began if the
\* record did.
FileInv ==
    /\ \A n \in newlines : n < size
    /\ \A n \in records :
         /\ n < size /\ LineBegins(n)
         /\ \E e \in newlines : n <= e /\ (n < began => e < began)

SessionInv ==
    /\ began = NotYet => older = <<>>
    /\ began # NotYet =>
         /\ cursor <= began /\ began <= size /\ (cursor = began \/ LineBegins(cursor))
         /\ Holds(older, cursor, began)

\* What a scan has left begins with a whole line, and ends where one does or
\* where the session began.
ScanInv ==
    scan.pc = "read" =>
      /\ began # NotYet /\ scan.end <= cursor /\ scan.base <= scan.end
      /\ scan.end = began \/ LineBegins(scan.end)
      /\ scan.base < scan.end => LineBegins(scan.base)
      /\ Holds(scan.got, scan.end, cursor)

LogInv == LogTypeOK /\ FileInv /\ SessionInv /\ ScanInv

-----------------------------------------------------------------------------
(* The log: pages. *)

Bytes == 0..MaxBytes
USE DEF Bytes

LEMMA EmptyHolds ==
    ASSUME NEW a \in Nat
    PROVE  Holds(<<>>, a, a)
  BY DEF Holds, RecordsIn, Descends

LEMMA AppendHolds ==
    ASSUME NEW q \in Seq(Bytes), NEW s \in Bytes, NEW a \in Nat, NEW b \in Nat,
           Holds(q, a, b), s < a, a <= b, MaxBytes \in Nat,
           \A n \in Nat : s <= n /\ n < a => (n \in records <=> n = s)
    PROVE  Append(q, s) \in Seq(Bytes) /\ Holds(Append(q, s), s, b)
<1> DEFINE r == Append(q, s)
<1>1. /\ r \in Seq(Bytes) /\ Len(r) = Len(q) + 1 /\ Len(q) \in Nat
      /\ \A k \in 1..Len(q) : r[k] = q[k] /\ q[k] \in Nat
      /\ r[Len(q) + 1] = s
  OBVIOUS
<1>2. \A k \in 1..Len(r) : k \in 1..Len(q) \/ k = Len(q) + 1
  BY <1>1
<1>3. \A k \in 1..Len(q) : q[k] \in RecordsIn(q)
  BY DEF RecordsIn
<1>4. \A n : n \in RecordsIn(r) <=> n \in RecordsIn(q) \/ n = s
  BY <1>1, <1>2 DEF RecordsIn
<1>5. \A k \in 1..Len(q) : s < q[k]
  BY <1>1, <1>3 DEF Holds
<1>6. Descends(r)
  <2> SUFFICES ASSUME NEW k \in 1..Len(r), NEW l \in 1..Len(r), k < l PROVE r[l] < r[k]
    BY DEF Descends
  <2>1. k \in 1..Len(q)
    BY <1>1, <1>2
  <2>2. CASE l \in 1..Len(q)
    BY <1>1, <2>1, <2>2 DEF Holds, Descends
  <2>3. CASE l = Len(q) + 1
    BY <1>1, <1>5, <2>1, <2>3
  <2> QED BY <1>2, <2>2, <2>3
<1>7. \A n \in Nat : n \in RecordsIn(r) <=> n \in records /\ s <= n /\ n < b
  BY <1>4 DEF Holds
<1> HIDE DEF r
<1> QED BY <1>1, <1>6, <1>7 DEF Holds, r

LEMMA ConcatHolds ==
    ASSUME NEW q \in Seq(Bytes), NEW r \in Seq(Bytes), NEW a \in Nat, NEW b \in Nat, NEW c \in Nat,
           Holds(q, b, c), Holds(r, a, b), a <= b, b <= c, MaxBytes \in Nat
    PROVE  q \o r \in Seq(Bytes) /\ Holds(q \o r, a, c)
<1> DEFINE s == q \o r
<1>1. /\ s \in Seq(Bytes) /\ Len(s) = Len(q) + Len(r) /\ Len(q) \in Nat /\ Len(r) \in Nat
      /\ \A k \in 1..Len(s) : s[k] = IF k <= Len(q) THEN q[k] ELSE r[k - Len(q)]
  BY ConcatProperties
<1>2. /\ \A k \in 1..Len(q) : q[k] \in RecordsIn(q) /\ q[k] \in Nat
      /\ \A k \in 1..Len(r) : r[k] \in RecordsIn(r) /\ r[k] \in Nat
  BY DEF RecordsIn
<1>3. /\ \A k \in 1..Len(q) : k \in 1..Len(s) /\ s[k] = q[k]
      /\ \A k \in 1..Len(r) : k + Len(q) \in 1..Len(s) /\ s[k + Len(q)] = r[k]
      /\ \A k \in 1..Len(s) : k \in 1..Len(q) \/ k - Len(q) \in 1..Len(r)
  BY <1>1
<1> HIDE DEF s
<1>4. \A n : n \in RecordsIn(s) <=> n \in RecordsIn(q) \/ n \in RecordsIn(r)
  <2>1. ASSUME NEW n \in RecordsIn(s) PROVE n \in RecordsIn(q) \/ n \in RecordsIn(r)
    <3>1. PICK k \in 1..Len(s) : n = s[k]
      BY DEF RecordsIn
    <3>2. CASE k \in 1..Len(q)
      BY <1>2, <1>3, <3>1, <3>2
    <3>3. CASE k - Len(q) \in 1..Len(r)
      <4>1. k - Len(q) + Len(q) = k
        BY <1>1, <3>1
      <4> QED BY <1>2, <1>3, <3>1, <3>3, <4>1
    <3> QED BY <1>3, <3>2, <3>3
  <2>2. \A n \in RecordsIn(q) : n \in RecordsIn(s)
    BY <1>3 DEF RecordsIn
  <2>3. \A n \in RecordsIn(r) : n \in RecordsIn(s)
    BY <1>3 DEF RecordsIn
  <2> QED BY <2>1, <2>2, <2>3
<1>5. Descends(s)
  <2> SUFFICES ASSUME NEW k \in 1..Len(s), NEW l \in 1..Len(s), k < l PROVE s[l] < s[k]
    BY DEF Descends
  <2>1. CASE l \in 1..Len(q)
    <3>1. k \in 1..Len(q)
      BY <1>1, <2>1
    <3> QED BY <1>3, <2>1, <3>1 DEF Holds, Descends
  <2>2. CASE l - Len(q) \in 1..Len(r) /\ k \in 1..Len(q)
    <3>1. s[l] = r[l - Len(q)]
      <4>1. ~ (l <= Len(q))
        BY <1>1, <2>2
      <4> QED BY <1>1, <4>1
    <3>2. r[l - Len(q)] < b /\ b <= q[k]
      BY <1>2, <2>2 DEF Holds
    <3>3. r[l - Len(q)] \in Nat /\ q[k] \in Nat /\ s[k] = q[k]
      BY <1>2, <1>3, <2>2
    <3> QED BY <3>1, <3>2, <3>3
  <2>3. CASE l - Len(q) \in 1..Len(r) /\ k - Len(q) \in 1..Len(r)
    <3>1. s[l] = r[l - Len(q)] /\ s[k] = r[k - Len(q)]
      BY <1>1, <2>3
    <3> QED BY <2>3, <3>1 DEF Holds, Descends
  <2> QED BY <1>3, <2>1, <2>2, <2>3
<1>6. \A n \in Nat : n \in RecordsIn(s) <=> n \in records /\ a <= n /\ n < c
  BY <1>4 DEF Holds
<1> QED BY <1>1, <1>5, <1>6 DEF Holds, s

-----------------------------------------------------------------------------
(* The steps. *)

LEMMA LogFields ==
    ASSUME LogTypeOK
    PROVE  /\ MaxBytes \in Nat /\ Chunk \in Nat \ {0} /\ PageSize \in Nat \ {0} /\ NotYet = MaxBytes + 1
           /\ size \in Nat /\ size <= MaxBytes /\ began \in Nat /\ cursor \in Nat /\ cursor <= MaxBytes
           /\ newlines \subseteq Nat /\ records \subseteq Nat
           /\ scan.end \in Bytes /\ scan.base \in Bytes /\ scan.end \in Nat /\ scan.base \in Nat
           /\ scan.got \in Seq(Bytes) /\ scan.width \in Nat \ {0} /\ Len(scan.got) \in Nat
           /\ scan.pc \in {"none", "read", "failed"}
  BY LogPagesAssumption DEF LogTypeOK, NotYet

LEMMA InitLogInv == InitLog => LogInv
<1> SUFFICES ASSUME InitLog PROVE LogInv
  OBVIOUS
<1>1. LogTypeOK
  <2>1. /\ MaxBytes \in Nat /\ Chunk \in Nat \ {0} /\ 0 \in 0..MaxBytes /\ NotYet \in 0..NotYet
        /\ <<>> \in Seq(0..MaxBytes)
    BY LogPagesAssumption DEF NotYet
  <2>2. NoScan \in [pc : {"none", "read", "failed"}, end : 0..MaxBytes, base : 0..MaxBytes,
                    width : Nat \ {0}, got : Seq(0..MaxBytes)]
    BY <2>1 DEF NoScan
  <2> QED BY <2>1, <2>2 DEF InitLog, LogTypeOK
<1> QED BY <1>1 DEF InitLog, LogInv, FileInv, SessionInv, ScanInv, NoScan

\* What is appended is no part of what the session shows.
LEMMA AppendsKeep ==
    ASSUME LogInv, NEW n \in 1..MaxBytes, NEW ok \in BOOLEAN, NEW whole \in BOOLEAN, AppendLine(n, ok, whole)
    PROVE  LogInv'
<1>0. /\ UNCHANGED <<began, cursor, older, loading, exhausted, scan>>
      /\ size' = size + n /\ size + n <= MaxBytes
      /\ newlines \subseteq newlines' /\ newlines' \subseteq newlines \cup {size + n - 1}
      /\ records \subseteq records' /\ records' \subseteq records \cup {size}
      /\ (size \in records' => size \in records \/ (n > 1 /\ LineBegins(size) /\ size + n - 1 \in newlines'))
  BY DEF AppendLine
<1>1. /\ MaxBytes \in Nat /\ NotYet = MaxBytes + 1 /\ size \in Nat /\ began \in Nat /\ cursor \in Nat
      /\ scan.end \in Nat /\ newlines \subseteq Nat /\ records \subseteq Nat /\ n \in Nat
      /\ size <= MaxBytes
  BY LogFields DEF LogInv
<1>2. \A x \in Nat : LineBegins(x) => LineBegins(x)'
  BY <1>0 DEF LineBegins
<1>3. LogTypeOK'
  <2>1. size + n \in 0..MaxBytes /\ size + n - 1 \in 0..MaxBytes /\ size \in 0..MaxBytes
    BY <1>0, <1>1
  <2> QED BY <1>0, <2>1 DEF LogInv, LogTypeOK, NotYet
<1>4. FileInv'
  <2>1. \A x \in newlines' : x < size'
    BY <1>0, <1>1 DEF LogInv, FileInv
  <2>2. ASSUME NEW x \in records'
        PROVE  /\ x < size' /\ LineBegins(x)'
               /\ \E e \in newlines' : x <= e /\ (x < began => e < began)
    <3>1. CASE x \in records
      BY <1>0, <1>1, <1>2, <3>1 DEF LogInv, FileInv
    <3>2. CASE x = size /\ x \notin records
      <4>1. size + n - 1 \in newlines' /\ LineBegins(size) /\ n > 1
        BY <1>0, <2>2, <3>2
      <4>2. size < began => size + n - 1 < began
        BY <1>0, <1>1 DEF LogInv, SessionInv
      <4>3. size <= size + n - 1 /\ size < size + n
        BY <1>1, <4>1
      <4>4. \E e \in newlines' : x <= e /\ (x < began => e < began)
        BY <3>2, <4>1, <4>2, <4>3
      <4>5. LineBegins(x)'
        BY <1>1, <1>2, <3>2, <4>1
      <4> QED BY <1>0, <3>2, <4>3, <4>4, <4>5
    <3> QED BY <1>0, <3>1, <3>2
  <2> QED BY <1>0, <2>1, <2>2 DEF FileInv
<1>5. ASSUME NEW q, NEW a \in Nat, NEW b \in Nat, b <= size, Holds(q, a, b)
      PROVE  /\ \A x \in Nat : x \in RecordsIn(q) <=> x \in records' /\ a <= x /\ x < b
             /\ Descends(q)
  <2>1. \A x \in Nat : x < b => (x \in records' <=> x \in records)
    BY <1>0, <1>1, <1>5
  <2> QED BY <1>5, <2>1 DEF Holds
<1>6. SessionInv'
  <2>1. began # NotYet => Holds(older, cursor, began)'
    BY <1>0, <1>1, <1>5 DEF LogInv, SessionInv, Holds, RecordsIn, Descends
  <2> QED BY <1>0, <1>1, <1>2, <2>1 DEF LogInv, SessionInv, NotYet
<1>7. ScanInv'
  <2> SUFFICES ASSUME scan.pc = "read" PROVE ScanInv'
    BY <1>0 DEF ScanInv
  <2>1. began # NotYet /\ cursor <= size
    BY <1>1 DEF LogInv, SessionInv, ScanInv
  <2>2. Holds(scan.got, scan.end, cursor)'
    BY <1>0, <1>1, <1>5, <2>1 DEF LogInv, ScanInv, Holds, RecordsIn, Descends
  <2>3. scan.base \in Nat
    BY LogFields DEF LogInv
  <2> QED BY <1>0, <1>1, <1>2, <2>2, <2>3 DEF LogInv, ScanInv, NotYet
<1> QED BY <1>3, <1>4, <1>6, <1>7 DEF LogInv

LEMMA StartsKeep ==
    ASSUME LogInv, StartSession
    PROVE  LogInv'
<1>0. /\ began = NotYet /\ began' = size /\ cursor' = size /\ older = <<>> /\ exhausted' \in BOOLEAN
      /\ UNCHANGED <<size, newlines, records, older, loading, scan>>
      /\ size \in Nat /\ size <= MaxBytes /\ MaxBytes \in Nat /\ NotYet = MaxBytes + 1
      /\ newlines \subseteq Nat /\ records \subseteq Nat
  BY LogFields DEF StartSession, LogInv, SessionInv
<1>1. LogTypeOK'
  BY <1>0 DEF LogInv, LogTypeOK, NotYet
<1>2. FileInv'
  BY <1>0 DEF LogInv, FileInv, LineBegins
<1>3. SessionInv'
  <2>1. Holds(older, size, size)
    BY <1>0, EmptyHolds
  <2> QED BY <1>0, <2>1 DEF SessionInv, Holds, RecordsIn, Descends, NotYet
<1>4. ScanInv'
  BY <1>0 DEF LogInv, ScanInv
<1> QED BY <1>1, <1>2, <1>3, <1>4 DEF LogInv

\* A step that leaves the file and the pages shown to the scan.
LEMMA ScansKeep ==
    ASSUME LogInv, UNCHANGED <<logFile, cursor, older>>,
           loading' \in BOOLEAN, exhausted' \in BOOLEAN,
           scan' \in [pc : {"none", "read", "failed"}, end : 0..MaxBytes, base : 0..MaxBytes,
                      width : Nat \ {0}, got : Seq(0..MaxBytes)],
           scan'.pc = "read" =>
             /\ began # NotYet /\ scan'.end <= cursor /\ scan'.base <= scan'.end
             /\ scan'.end = began \/ LineBegins(scan'.end)
             /\ scan'.base < scan'.end => LineBegins(scan'.base)
             /\ Holds(scan'.got, scan'.end, cursor)
    PROVE  LogInv'
<1>1. LogTypeOK'
  BY DEF LogInv, LogTypeOK, logFile, NotYet
<1>2. FileInv'
  BY DEF LogInv, FileInv, logFile, LineBegins
<1>3. SessionInv'
  BY DEF LogInv, SessionInv, logFile, LineBegins, Holds, RecordsIn, Descends, NotYet
<1>4. ScanInv'
  BY DEF ScanInv, logFile, LineBegins, Holds, RecordsIn, Descends, NotYet
<1> QED BY <1>1, <1>2, <1>3, <1>4 DEF LogInv

LEMMA LoadsKeep ==
    ASSUME LogInv, loadOlderLog \/ ReadFails \/ PageFailed
    PROVE  LogInv'
<1>0. UNCHANGED <<logFile, cursor, older>> /\ loading' \in BOOLEAN /\ exhausted' \in BOOLEAN
  BY DEF loadOlderLog, ReadFails, UnchangedPages, PageFailed, LogInv, LogTypeOK
<1>1. CASE loadOlderLog
  <2>1. /\ scan' = [pc |-> "read", end |-> cursor, base |-> cursor, width |-> Chunk, got |-> <<>>]
        /\ cursor \in Bytes /\ cursor \in Nat /\ Chunk \in Nat \ {0} /\ began # NotYet
    BY <1>1, LogFields DEF loadOlderLog, NoScan, LogInv, LogTypeOK
  <2>2. Holds(<<>>, cursor, cursor)
    BY <2>1, EmptyHolds
  <2>3. cursor = began \/ LineBegins(cursor)
    BY <2>1 DEF LogInv, SessionInv
  <2> QED BY <1>0, <2>1, <2>2, <2>3, ScansKeep
<1>2. CASE ReadFails
  <2>1. scan' = [scan EXCEPT !.pc = "failed"]
    BY <1>2 DEF ReadFails
  <2> QED BY <1>0, <2>1, ScansKeep DEF LogInv, LogTypeOK
<1>3. CASE PageFailed
  <2>1. scan' = [pc |-> "none", end |-> 0, base |-> 0, width |-> Chunk, got |-> <<>>]
        /\ Chunk \in Nat \ {0} /\ 0 \in Bytes
    BY <1>3, LogFields DEF PageFailed, NoScan, LogInv
  <2> QED BY <1>0, <2>1, ScansKeep
<1> QED BY <1>1, <1>2, <1>3

LEMMA ChunksKeep ==
    ASSUME LogInv, ReadChunk
    PROVE  LogInv'
<1> DEFINE start == From(scan.end, scan.width)
           Ends == EndsIn(start, scan.end - 1)
<1>0. /\ UNCHANGED <<logFile, cursor, older, loading, exhausted>>
      /\ scan.pc = "read" /\ scan.end > 0
  BY DEF ReadChunk, NextChunk, Reading, UnchangedPages
<1>1. loading' \in BOOLEAN /\ exhausted' \in BOOLEAN
  BY <1>0 DEF LogInv, LogTypeOK
<1>2. PICK b \in Bytes, w \in Nat \ {0} :
        /\ scan' = [scan EXCEPT !.base = b, !.width = w]
        /\ b <= scan.end /\ (b < scan.end => LineBegins(b))
  <2>1. CASE start = 0 /\ scan' = [scan EXCEPT !.base = 0, !.width = Chunk]
    <3>1. 0 \in Bytes /\ Chunk \in Nat \ {0} /\ 0 <= scan.end /\ LineBegins(0)
      BY LogFields DEF LogInv, LineBegins
    <3> QED BY <2>1, <3>1
  <2>2. CASE scan' = [scan EXCEPT !.width = 2 * scan.width]
    <3>1. scan' = [scan EXCEPT !.base = scan.base, !.width = 2 * scan.width]
      BY <2>2 DEF LogInv, LogTypeOK
    <3>2. scan.base \in Bytes /\ 2 * scan.width \in Nat \ {0}
          /\ scan.base <= scan.end /\ (scan.base < scan.end => LineBegins(scan.base))
      BY <1>0, LogFields DEF LogInv, ScanInv
    <3> QED BY <3>1, <3>2
  <2>3. CASE \E n \in Ends : scan' = [scan EXCEPT !.base = n + 1, !.width = Chunk]
    <3>1. PICK n \in Ends : scan' = [scan EXCEPT !.base = n + 1, !.width = Chunk]
      BY <2>3
    <3>2. n \in newlines /\ n < scan.end - 1 /\ n \in Nat
      BY LogFields DEF EndsIn, LogInv
    <3>3. n + 1 \in Bytes /\ n + 1 <= scan.end /\ LineBegins(n + 1) /\ Chunk \in Nat \ {0}
      BY <3>2, LogFields DEF LineBegins, LogInv
    <3> QED BY <3>1, <3>3
  <2> QED BY <2>1, <2>2, <2>3 DEF ReadChunk
<1>3. scan' \in [pc : {"none", "read", "failed"}, end : 0..MaxBytes, base : 0..MaxBytes,
                 width : Nat \ {0}, got : Seq(0..MaxBytes)]
  BY <1>2 DEF LogInv, LogTypeOK
<1>4. scan'.end = scan.end /\ scan'.base = b /\ scan'.got = scan.got
  BY <1>2 DEF LogInv, LogTypeOK
<1> QED BY <1>0, <1>1, <1>2, <1>3, <1>4, ScansKeep DEF LogInv, ScanInv

\* The last line of what is left is a record, or there is none in it.
LEMMA TakesKeep ==
    ASSUME LogInv, TakeLine
    PROVE  LogInv'
<1>0. /\ UNCHANGED <<logFile, cursor, older, loading, exhausted>>
      /\ scan.pc = "read" /\ scan.base < scan.end
      /\ loading' \in BOOLEAN /\ exhausted' \in BOOLEAN
  BY DEF TakeLine, Reading, UnchangedPages, LogInv, LogTypeOK
<1> DEFINE got(s) == IF s \in records /\ scan.end - 1 \in newlines
                     THEN Append(scan.got, s) ELSE scan.got
<1>1. PICK s \in {scan.base} \cup {n + 1 : n \in EndsIn(scan.base, scan.end - 1)} :
        /\ EndsIn(s, scan.end - 1) = {}
        /\ scan' = [scan EXCEPT !.end = s, !.got = got(s)]
  BY DEF TakeLine
<1>2. /\ MaxBytes \in Nat /\ scan.end \in Nat /\ scan.end <= MaxBytes /\ scan.base \in Nat
      /\ newlines \subseteq Nat /\ records \subseteq Nat /\ cursor \in Nat /\ began \in Nat
      /\ scan.got \in Seq(Bytes)
  BY LogFields DEF LogInv
<1>3. s \in Nat /\ scan.base <= s /\ s < scan.end /\ s \in Bytes /\ LineBegins(s)
  BY <1>0, <1>1, <1>2 DEF EndsIn, LineBegins, LogInv, ScanInv
<1>4. /\ began # NotYet /\ scan.end <= cursor /\ Holds(scan.got, scan.end, cursor)
      /\ (scan.end = began \/ LineBegins(scan.end)) /\ cursor <= began
  BY <1>0 DEF LogInv, ScanInv, SessionInv
<1>5. \A n \in records : s <= n /\ n < scan.end => n = s
  <2> SUFFICES ASSUME NEW n \in records, s < n, n < scan.end PROVE FALSE
    BY <1>2, <1>3
  <2>1. n - 1 \in newlines
    BY <1>2, <1>3 DEF LogInv, FileInv, LineBegins
  <2> QED BY <1>1, <1>2, <1>3, <2>1 DEF EndsIn
<1>6. s \in records => scan.end - 1 \in newlines
  <2> SUFFICES ASSUME s \in records PROVE scan.end - 1 \in newlines
    OBVIOUS
  <2>1. CASE LineBegins(scan.end)
    BY <1>2, <1>3, <2>1 DEF LineBegins
  <2>2. CASE scan.end = began
    <3>1. PICK e \in newlines : s <= e /\ e < began
      BY <1>2, <1>3, <2>2 DEF LogInv, FileInv
    <3>2. ~ (e < scan.end - 1)
      BY <1>1, <3>1 DEF EndsIn
    <3>3. e = scan.end - 1
      BY <1>2, <2>2, <3>1, <3>2
    <3> QED BY <3>3
  <2> QED BY <1>4, <2>1, <2>2
<1>7. got(s) \in Seq(Bytes) /\ Holds(got(s), s, cursor)
  <2>1. CASE s \in records
    <3>1. \A n \in Nat : s <= n /\ n < scan.end => (n \in records <=> n = s)
      BY <1>5, <2>1
    <3>2. got(s) = Append(scan.got, s)
      BY <1>6, <2>1
    <3>3. Append(scan.got, s) \in Seq(Bytes) /\ Holds(Append(scan.got, s), s, cursor)
      BY <1>2, <1>3, <1>4, <3>1, AppendHolds
    <3> QED BY <3>2, <3>3
  <2>2. CASE s \notin records
    <3>1. \A n \in Nat : n \in records /\ s <= n /\ n < cursor
                         <=> n \in records /\ scan.end <= n /\ n < cursor
      BY <1>2, <1>3, <1>5, <2>2
    <3> QED BY <1>2, <1>4, <2>2, <3>1 DEF Holds
  <2> QED BY <2>1, <2>2
<1> HIDE DEF got
<1>8. scan' \in [pc : {"none", "read", "failed"}, end : 0..MaxBytes, base : 0..MaxBytes,
                 width : Nat \ {0}, got : Seq(0..MaxBytes)]
  BY <1>1, <1>3, <1>7 DEF LogInv, LogTypeOK
<1>9. scan'.end = s /\ scan'.base = scan.base /\ scan'.got = got(s)
  BY <1>1 DEF LogInv, LogTypeOK
<1>10. s <= cursor /\ scan.base <= s /\ (scan.base < s => LineBegins(scan.base))
  BY <1>0, <1>2, <1>3, <1>4 DEF LogInv, ScanInv
<1> QED BY <1>0, <1>3, <1>4, <1>7, <1>8, <1>9, <1>10, ScansKeep

LEMMA PagesKeep ==
    ASSUME LogInv, PageLoaded
    PROVE  LogInv'
<1>0. /\ scan.pc = "read" /\ older' = older \o scan.got /\ cursor' = scan.end
      /\ loading' \in BOOLEAN /\ exhausted' \in BOOLEAN
      /\ scan' = [pc |-> "none", end |-> 0, base |-> 0, width |-> Chunk, got |-> <<>>]
      /\ UNCHANGED <<size, newlines, records, began>>
  BY DEF PageLoaded, NoScan, logFile
<1>1. /\ began # NotYet /\ scan.end <= cursor /\ cursor <= began /\ began <= size
      /\ scan.end = began \/ LineBegins(scan.end)
      /\ Holds(older, cursor, began) /\ Holds(scan.got, scan.end, cursor)
  BY <1>0 DEF LogInv, SessionInv, ScanInv
<1>2. /\ scan.end \in Nat /\ scan.end \in Bytes /\ cursor \in Nat /\ began \in Nat /\ size \in Nat
      /\ older \in Seq(Bytes) /\ scan.got \in Seq(Bytes) /\ MaxBytes \in Nat /\ Chunk \in Nat \ {0}
  BY LogFields DEF LogInv, LogTypeOK
<1>3. older' \in Seq(Bytes) /\ Holds(older', scan.end, began)
  BY <1>0, <1>1, <1>2, ConcatHolds
<1>4. LogTypeOK'
  BY <1>0, <1>2, <1>3 DEF LogInv, LogTypeOK, NotYet
<1>5. FileInv'
  BY <1>0 DEF LogInv, FileInv, LineBegins
<1>6. SessionInv'
  <2>1. Holds(older, cursor, began)'
    BY <1>0, <1>3 DEF Holds, RecordsIn, Descends
  <2> QED BY <1>0, <1>1, <1>2, <2>1 DEF SessionInv, LineBegins, NotYet
<1>7. ScanInv'
  BY <1>0 DEF ScanInv
<1> QED BY <1>4, <1>5, <1>6, <1>7 DEF LogInv

LEMMA NextLogInv == LogInv /\ [NextLog]_logVars => LogInv'
<1> SUFFICES ASSUME LogInv, [NextLog]_logVars PROVE LogInv'
  OBVIOUS
<1>1. CASE UNCHANGED logVars
  BY <1>1 DEF logVars, LogInv, LogTypeOK, FileInv, SessionInv, ScanInv, LineBegins, Holds, RecordsIn, Descends, NotYet
<1> QED BY <1>1, AppendsKeep, StartsKeep, LoadsKeep, ChunksKeep, TakesKeep, PagesKeep DEF NextLog

-----------------------------------------------------------------------------

\* The file, the pages and the scan are well typed in every reachable state.
THEOREM LogTypeCorrect == LogSpec => []LogTypeOK
<1>1. LogInv => LogTypeOK
  BY DEF LogInv
<1> QED BY <1>1, InitLogInv, NextLogInv, PTL DEF LogSpec

\* The overlay shows every record of earlier sessions after the cursor, once and
\* newest first, for any chunks and pages (logs.go, Before).
THEOREM PagesHaveEveryRecord == LogSpec => []PagesAreWhole
<1>1. ASSUME LogInv PROVE PagesAreWhole
  <2> SUFFICES ASSUME began # NotYet
               PROVE  /\ RecordsIn(older) = {n \in records : cursor <= n /\ n < began}
                      /\ Descends(older)
    BY DEF PagesAreWhole, RecordsIn, Descends
  <2>1. Holds(older, cursor, began) /\ records \subseteq Nat /\ older \in Seq(Bytes) /\ MaxBytes \in Nat
    BY <1>1, LogFields DEF LogInv, SessionInv, LogTypeOK
  <2>2. RecordsIn(older) \subseteq Nat
    BY <2>1 DEF RecordsIn
  <2> QED BY <2>1, <2>2 DEF Holds
<1> QED BY <1>1, InitLogInv, NextLogInv, PTL DEF LogSpec

=============================================================================
