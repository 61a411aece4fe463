SPECIFICATION TuiSpec
CONSTANTS
    None = None
    a1 = a1
    a2 = a2
    inbox = inbox
    other = other
    FoldersOf <- MCFoldersOf
    FirstUp = {a1}
    FirstKnown <- MCFirstKnown
    Deletable <- MCDeletable
    Uids = {1}
    MaxCmds = 2
INVARIANT TriageActsOnTarget
CHECK_DEADLOCK FALSE
