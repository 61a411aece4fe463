\* esc while the message is being sent, and another pane opened.
SPECIFICATION Spec
CONSTANTS
    Jobs = {j1, j2}
    MaxGen = 2
    MaxText = 1
    MaxUid = 3
    MaxActs = 3
    MaxFail = 0
    UidPlus = TRUE
    Meanwhile = {"open", "close"}
SYMMETRY JobSymmetry
INVARIANTS
    DiscardsSentOnly
CHECK_DEADLOCK FALSE
