\* esc while a save is in flight.
SPECIFICATION Spec
CONSTANTS
    Jobs = {j1, j2}
    MaxGen = 2
    MaxText = 1
    MaxUid = 3
    MaxActs = 3
    MaxFail = 0
    UidPlus = TRUE
    Meanwhile = {"close"}
SYMMETRY JobSymmetry
INVARIANTS
    NoDuplicates
CHECK_DEADLOCK FALSE
