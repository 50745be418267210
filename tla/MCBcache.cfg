SPECIFICATION FairSpec
CONSTANTS
    Proc = {p, q}
    Block = {x, y, z}
    Val = {0, 1}
    InitVal = 0
    None = none
    NBUF = 2
    MaxPinned = 1
    DiskError = FALSE
INVARIANTS CacheConsistent BreadReturnsContents
PROPERTIES StoreSpec RequestCompletes
