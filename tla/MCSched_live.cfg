SPECIFICATION FairSpec
CONSTANTS
    CPU = {c1}
    NPROC = 3
    None = none
PROPERTIES RunnableRuns SleeperWakes
