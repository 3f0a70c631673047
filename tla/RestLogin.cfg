SPECIFICATION RestSpec
CONSTANTS
    Workers = {w1, w2}
    Pd = Pd
    None = None
    MaxChunks = 0
    Requests <- MCPosts
    Messages = {"cancel", "mode", "delete"}
    Options = {}
    Faults = {"thread", "easy", "server", "network", "memory"}
    Windows = FALSE
    Delays = TRUE
    Servers = {s1, s2}
    Inits = {"empty", "url", "number", "login"}
SYMMETRY MCSymmetry
INVARIANTS
    CookieOfServer
    OwnBody
    HandlesReclaimed
PROPERTY CookieIncluded
CHECK_DEADLOCK FALSE
