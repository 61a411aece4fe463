\* Panes closed and messages sent while saves and sends are in flight, and a
\* failure.
SPECIFICATION FairSpec
CONSTANTS
    Jobs = {j1, j2}
    MaxGen = 2
    MaxText = 2
    MaxUid = 6
    MaxActs = 3
    MaxFail = 1
    UidPlus = TRUE
    Meanwhile = {"close", "send", "save"}
INVARIANTS
    TypeOK
    OneCopy
    WorkKept
    DiscardsSentOnly
PROPERTIES
    NewestKept
    Autosaved
CHECK_DEADLOCK FALSE
