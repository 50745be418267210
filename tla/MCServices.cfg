SPECIFICATION MCSpec
CONSTANTS
  Reader = {p1, p2}
  Char = {"a", "nl", "eot"}
  NL = "nl"
  EOT = "eot"
  INPUT_BUF = 2
  WRAP = 4
  ReadLen = {2}
  ROWS = 2
  COLS = 2
  Kernels <- MCKernels
  NINODES = 4
  NMETA = 2
  FSSIZE = 26
  MkBSIZE = 3
  HEAP = 8
  NALLOC = 3
  Units = {2, 5}
  Inode = {i1, i2}
  NoInode = none
  File = {f1, f2}
  Byte = {1, 2}
  Data <- MCData
  ReadSizes = {5}
  Geometries <- MCGeometries
  BSIZE = 2
  NBLOCK = 7
  MAXOPBLOCKS = 3
  Talker = {t1, t2, t3}
  NoMessage = none
  MAILBOX_MSG_QUEUE = 2
  Thread = {s1, s2, s3}
  Values <- MCValues
  Counts <- MCCounts
  MAXVALUE = 4
  NPROC = 2
  NCPU = 2
  MAX_TICKETS = 2
  Priorities = {7}
  TicketArgs = {0}
  SleepTicks = {2}
  MAXTICKS = 2
INVARIANTS ConsoleConsistent ImageReadable HeapSound BlocksListedOnce MailDelivered SemaphoreExact
           ClockSound ChoiceHolds
PROPERTIES DeliversLines ReadsWhatWasWritten
CHECK_DEADLOCK FALSE
VIEW Seen
