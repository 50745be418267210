SPECIFICATION Spec
CONSTANTS
    p = p
    q = q
    Proc <- Processes
    None = none
    Name = {"a"}
    NINUM = 3
    Op <- Files
    Path <- RootAndName
INVARIANT NoLockCycle
CHECK_DEADLOCK FALSE
