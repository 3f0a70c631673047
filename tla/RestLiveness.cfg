SPECIFICATION RestFairSpec
CONSTANTS
    Workers = {w1, w2}
    Pd = Pd
    None = None
    MaxChunks = 0
    Requests <- MCGet
    Messages = {"cancel", "settings"}
    Options = {"timeout"}
    Faults = {"easy"}
    Windows = FALSE
    Delays = TRUE
    Servers = {s1}
    Inits = {"login"}
PROPERTIES
    CancelEnds
    TimeoutEnds
