SPECIFICATION Spec
CONSTANTS
    Workers = {w1, w2}
    Pd = Pd
    None = None
    MaxChunks = 1
    Requests <- MCGet
    Messages = {"delete"}
    Options = {}
    Faults = {}
    Windows = FALSE
    Delays = TRUE
INVARIANT NoUseAfterFree
