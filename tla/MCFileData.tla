----------------------------- MODULE MCFileData -----------------------------
(* xv6's own MAXOPBLOCKS and NDIRECT, with blocks of two bytes: one piece  *)
(* of a write is thirteen blocks.                                          *)
EXTENDS FileData

MCGeometries ==
  {[layout |-> "xv6", NDIRECT |-> 12, NINDIRECT |-> 2, NINDIRECTIB |-> 1, MAXINDIRECT |-> 2]}
MCData == {<<2>>, [j \in 1 .. 26 |-> 1]}
=============================================================================
