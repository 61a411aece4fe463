SPECIFICATION FairUsesSpec
CONSTANTS
    s1 = s1
    e1 = e1
    e2 = e2
    Syncers = {s1}
    Editors = {e1, e2}
    Ops = {"seen", "drop"}
    MaxUid = 2
    MaxMod = 2
    MaxValidity = 2
    MaxFail = 1
    Windows = {0, 1}
    CondStore = {TRUE, FALSE}
    Overlap = FALSE
    EditsOverlap = TRUE
    OtherClients = TRUE
INVARIANTS
    EditTypeOK
    NothingMissed
    FlagsCatchUp
    RowsMatchNumbering
    BadgesMatchAtRest
PROPERTIES
    HorizonKept
    Converges
CHECK_DEADLOCK FALSE
