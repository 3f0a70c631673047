SPECIFICATION FairSpec
CONSTANTS
    Workers = {w1, w2}
    Pd = Pd
    None = None
    MaxChunks = 1
    Requests <- MCGet
    Messages = {"cancel", "mode", "settings"}
    Options = {"timeout"}
    Faults = {"network"}
    Windows = TRUE
    Delays = TRUE
INVARIANTS
    LockHeld
    SysLockHeld
PROPERTIES
    CancelEnds
