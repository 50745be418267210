SPECIFICATION FairSpec
CONSTANTS
    NPROC = 4
    MAXPID = 4
    Targets = {0, 3, 4}
INVARIANTS TableConsistent NoLeak
PROPERTIES KilledExits OrphanReaped
