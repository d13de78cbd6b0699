CONSTANTS
    n1 = n1
    n2 = n2
    i1 = i1
    i2 = i2
    r1 = r1
    r2 = r2
    r3 = r3
    None = None
    Nodes = {n1, n2}
    Ids = {i1, i2}
    Requests = {r1, r2, r3}
SPECIFICATION Spec
SYMMETRY Symmetry
CHECK_DEADLOCK FALSE
INVARIANTS
    OneInstancePerNode
    DeletedIsForgotten
    ConnectedCanReport
