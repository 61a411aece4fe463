\* Two overlapping syncs of a CONDSTORE server.
SPECIFICATION Spec
CONSTANTS
    s1 = s1
    s2 = s2
    Syncers = {s1, s2}
    MaxUid = 1
    MaxMod = 2
    MaxValidity = 1
    MaxFail = 0
    Windows = {0}
    CondStore = {TRUE}
    Overlap = TRUE
SYMMETRY Symmetry
INVARIANTS
    NothingMissedAtRest
CHECK_DEADLOCK FALSE
