SPECIFICATION Spec
CONSTANTS
    Workers = {w1, w2}
    Pd = Pd
    None = None
    MaxChunks = 2
    Requests <- MCPut
    Messages = {"cancel", "mode", "settings", "init", "delete"}
    Options = {"file"}
    Faults = {"thread", "easy", "multi", "server", "memory", "perform"}
    Windows = FALSE
    Delays = TRUE
SYMMETRY MCSymmetry
INVARIANTS
    TypeOK
    UploadOwned
    HandlesLive
    HandlesReclaimed
    SysLockReturned
    EveryRequestReports
    DataDelivered
CHECK_DEADLOCK FALSE
