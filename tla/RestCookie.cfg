SPECIFICATION RestSpec
CONSTANTS
    Workers = {w1, w2}
    Pd = Pd
    None = None
    MaxChunks = 0
    Requests <- MCGet
    Messages = {}
    Options = {}
    Faults = {}
    Windows = FALSE
    Delays = FALSE
    Servers = {s1}
    Inits = {"login"}
PROPERTY CookieIncluded
