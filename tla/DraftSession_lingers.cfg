\* A user who waits for every command.
SPECIFICATION Spec
CONSTANTS
    Jobs = {j1, j2}
    MaxGen = 2
    MaxText = 1
    MaxUid = 3
    MaxActs = 3
    MaxFail = 0
    UidPlus = TRUE
    Meanwhile = {}
SYMMETRY JobSymmetry
INVARIANTS
    NothingLingers
CHECK_DEADLOCK FALSE
