SPECIFICATION FairSpec
CONSTANTS
    Proc = {p1, p2}
    Val = {v0, v1}
    InitVal = v0
    Absent = absent
    NHOME = 2
    MAXOPBLOCKS = 1
    OPBLOCKS = 2
    LOGSIZE = 3
    NLOG = 4
INVARIANTS LogConsistent QuiescentDurable NoLostWakeup
PROPERTIES CrashAtomic SleeperWoken
