SPECIFICATION FairServicesSpec
CONSTANTS
    \* TuiSelection
    None = None
    a1 = a1
    a2 = a2
    inbox = inbox
    other = other
    FoldersOf <- MCFoldersOf
    FirstUp = {a1}
    FirstKnown <- MCFirstKnown
    Deletable <- MCDeletable
    Uids = {1}
    MaxCmds = 2
    \* BodyCache
    Readers = {r1, r2}
    BodyUids = {u1}
    MaxNumbering = 2
    \* AccountSync
    Passes = {s1, s2}
    Paths = {x, y}
    MaxEvents = 2
    \* Accounts
    Commands = {c1, c2}
    AccountSlugs = {m1, m2}
    MaxStamp = 3
    \* Database
    p1 = p1
    p2 = p2
    Processes = {p1, p2}
    LastOf <- MCLastOf
    Versions = 3
    Rekey = 2
    Global = Global
    Slugs = {m1}
    MaxId = 2
    \* LogPages
    Chunk = 2
    PageSize = 2
    MaxBytes = 7
INVARIANTS
    ServicesTypeOK
    KeysNameWhatIsShown
    BodyShownIsItsOwn
    FoldersWhole
    SettingsAsAsked
    SecretsAsAsked
    DraftGetsTheDefault
    PagesAreWhole
PROPERTIES
    StoreKeepsItsPromise
    FoldersAreThoseOfServer
CHECK_DEADLOCK FALSE
