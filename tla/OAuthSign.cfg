SPECIFICATION OAuthSpec
CONSTANTS
    Workers = {w1, w2}
    Pd = Pd
    None = None
    MaxChunks = 0
    Requests <- MCUploads
    Messages = {"cancel", "init", "delete"}
    Options = {}
    Faults = {"thread"}
    Windows = FALSE
    Delays = FALSE
    Accounts = {a1, a2}
    Keys <- MCKeys
    Opening <- MCOpening
    Closing <- MCClosing
    Inits = {"token", "wrong"}
    Methods = {"HMAC", "RSA", "invalid"}
    Freed = Freed
SYMMETRY MCSymmetry
INVARIANTS
    OwnBody
    SignedAsAsked
