\* Both programs, any order of operations on three nodes.
SPECIFICATION Spec
CONSTANTS
    n1 = n1
    n2 = n2
    n3 = n3
    n4 = n4
    Cells = {n1, n2, n3}
    Null = Null
    Wild = Wild
    Undefined = Undefined
    Numbers = {2}
    MaxLength = 3
SYMMETRY Symmetry
INVARIANTS
    ListInv
PROPERTIES
    KeepsTrack
    IsNumberList
CHECK_DEADLOCK FALSE
