SPECIFICATION RestSpec
CONSTANTS
    Workers = {w1, w2}
    Pd = Pd
    None = None
    MaxChunks = 0
    Requests <- MCGet
    Messages = {"cancel", "mode", "settings", "delete"}
    Options = {"file"}
    Faults = {"thread", "easy", "file", "network"}
    Windows = FALSE
    Delays = FALSE
    Servers = {s1}
    Inits = {"login"}
SYMMETRY MCSymmetry
INVARIANTS
    LockHeld
    LockGuardsRequest
    OwnTransfer
    SettingsFrozen
CHECK_DEADLOCK FALSE
