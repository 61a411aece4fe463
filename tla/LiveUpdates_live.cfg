SPECIFICATION FairSpec
CONSTANTS
    Folders = {f1, f2}
    Watchers = {w1, w2}
    None = None
    MaxMsgs = 1
    MaxListeners = 2
INVARIANTS
    TypeOK
    Heard
    StreamMoves
    NoSignalLost
PROPERTIES
    Settles
