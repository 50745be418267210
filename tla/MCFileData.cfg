SPECIFICATION FileSpec
CONSTANTS
  Inode = {i1}
  NoInode = none
  File = {f1}
  Byte = {1, 2}
  Data <- MCData
  ReadSizes = {2}
  Geometries <- MCGeometries
  BSIZE = 2
  NBLOCK = 16
  MAXOPBLOCKS = 10
PROPERTIES PieceWithinReservation
CHECK_DEADLOCK FALSE
