\* One folder left for another and opened again.
SPECIFICATION Spec
CONSTANTS
    Folders = {f1, f2}
    Watchers = {w1, w2, w3}
    None = None
    MaxMsgs = 1
    MaxListeners = 1
SYMMETRY WatcherSymmetry
INVARIANTS
    NoneLeftBehind
