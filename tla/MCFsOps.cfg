SPECIFICATION Spec
CONSTANTS
    p = p
    q = q
    Proc <- Processes
    None = none
    Name = {"a"}
    NINUM = 3
    Op <- FilesAndDirectories
    Path <- OneName
INVARIANTS FsConsistent WriteThrough
\* Two calls can wait for each other's inode (NoLockCycle) and a panic stops the kernel.
CHECK_DEADLOCK FALSE
