CONSTANTS
    n1 = n1
    n2 = n2
    n3 = n3
    x = x
    y = y
    NULL = NULL
    Nodes = {n1, n2, n3}
    Pri <- MCPri
    name <- MCName
    Names <- MCNames
SPECIFICATION Spec
INVARIANTS
    TypeOK
    WellLinked
    FindsTheNamed
PROPERTIES
    ListsAreSequences
