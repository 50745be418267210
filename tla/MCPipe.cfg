SPECIFICATION FairSpec
CONSTANTS
    Readers = {r}
    Writers = {w, v}
    Byte = {0, 1}
    Text <- Texts
    PIPESIZE = 2
    UINT = 4
    MAXN = 2
INVARIANTS PipeSafe
PROPERTIES FifoSpec SleeperWoken
