SPECIFICATION Spec
CONSTANTS
    inbox = inbox
    trash = trash
    m1 = m1
    m2 = m2
    j1 = j1
    j2 = j2
    None = None
    Folders = {inbox, trash}
    Inbox = inbox
    Msgs = {m1, m2}
    Jobs = {j1, j2}
    Flagged = {1}
    Servers <- AllServers
    MaxUid = 3
    MaxValidity = 2
    MaxFail = 1
    MaxCommands = 2
    Waits = TRUE
SYMMETRY Symmetry
INVARIANTS
    TypeOK
    NothingLost
PROPERTIES
    TakesWhatWasPointedAt
    UndoTakesItsOwn
    ResultsCoverMoves
    ForgottenWhenBack
