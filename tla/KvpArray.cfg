SPECIFICATION Spec
CONSTANTS
    Keys = {id}
    Values = {a, b}
    Nodes = {n1, n2, n3}
    Null = Null
    Arrays = TRUE
    Mixes = TRUE
PROPERTY ArrayAdds
