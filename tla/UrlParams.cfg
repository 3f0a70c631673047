SPECIFICATION UrlSpec
CONSTANTS
    Keys <- MCKeys
    Values <- MCValues
    Nodes = {n1, n2}
    Null = Null
    Arrays = FALSE
    Mixes = FALSE
SYMMETRY MCSymmetry
INVARIANTS
    ServerReadsStore
    BufferFits
