SPECIFICATION JsonSpec
CONSTANTS
    id = id
    name = name
    hi = hi
    path = path
    Keys <- MCKeys
    Values <- MCValues
    Nodes = {n1, n2, n3}
    Null = Null
    Arrays = TRUE
    Mixes = FALSE
    Exact = 4
    IntMax = 7
    Depth = 3
    Unit = 2
    Escaped <- MCBackslashed
    Backslashed <- MCBackslashed
    Merged <- MCMerged
    Sent <- MCSent
    Files <- MCFiles
SYMMETRY MCSymmetry
INVARIANTS
    TypeOK
    MemoryOwned
    DecodeShowsStore
    DecodeSeries
PROPERTIES
    StoreImplemented
    ReadBack
