SPECIFICATION ShellSpec
CONSTANTS
  NFILE = 5
  NOFILE = 5
  NPIPE = 2
  Slot = {1, 2, 3, 4, 5, 6}
  init = 0
  Commands <- MCCommands
  PIPESIZE = 1
INVARIANT FilesCounted
PROPERTY PromptReturns
CHECK_DEADLOCK FALSE
