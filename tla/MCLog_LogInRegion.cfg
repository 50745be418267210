SPECIFICATION Spec
CONSTANTS
    Proc = {p1, p2, p3}
    Val = {v0, v1}
    InitVal = v0
    Absent = absent
    NHOME = 3
    MAXOPBLOCKS = 1
    OPBLOCKS = 1
    LOGSIZE = 3
    NLOG = 3
SYMMETRY Symmetry
INVARIANT LogInRegion
