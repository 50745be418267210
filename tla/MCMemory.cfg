SPECIFICATION MCSpec
CONSTANTS
  NFRAME = 14
  Slot = {p1, p2}
  init = p1
  NPDE = 2
  NPTE = 2
  PGSIZE = 2
  NKTAB = 1
  Program <- MCProgram
  ArgBytes = {1, 3}
  SbrkArg <- MCSbrkArg
  c1 = c1
  c2 = c2
  CPU = {c1, c2}
  NPROC = 3
  None = none
INVARIANTS MemorySound ImageSound SchedSafe NoLostWakeup InterruptsRestored
PROPERTIES LostOnlyByCopyuvm ImageHandedOver
VIEW Seen
