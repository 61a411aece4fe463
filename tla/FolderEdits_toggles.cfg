SPECIFICATION EditSpec
CONSTANTS
    s1 = s1
    e1 = e1
    e2 = e2
    Syncers = {s1}
    Editors = {e1, e2}
    Ops = {"seen", "unseen"}
    MaxUid = 1
    MaxMod = 3
    MaxValidity = 1
    MaxFail = 0
    Windows = {0}
    CondStore = {TRUE}
    Overlap = FALSE
    EditsOverlap = TRUE
    OtherClients = FALSE
SYMMETRY EditSymmetry
INVARIANTS
    FlagsCatchUpAtRest
CHECK_DEADLOCK FALSE
