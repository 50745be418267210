------------------------------ MODULE BlockMap ------------------------------
(***************************************************************************)
(* Where the blocks of a file are listed.  g is the geometry of an inode:  *)
(* which bmap() the kernel has (that of xv6, or of one of the three        *)
(* kernels of lab 10) and the constants of its fs.h.                       *)
(***************************************************************************)
EXTENDS Integers, Sequences, FiniteSets

NDIRECTIB(g) == g.NINDIRECT - g.NINDIRECTIB

MAXFILE(g) ==
  CASE g.layout = "xv6"     -> g.NDIRECT + g.NINDIRECT
    [] g.layout = "isingle" -> g.NDIRECT + g.MAXINDIRECT * g.NINDIRECT
    [] g.layout = "idouble" -> g.NINDIRECTIB * g.NINDIRECT + NDIRECTIB(g) + g.NDIRECT
    [] g.layout = "itriple" -> g.NINDIRECTIB * g.NINDIRECTIB * g.NINDIRECT
                               + NDIRECTIB(g) * g.NINDIRECTIB + NDIRECTIB(g) + g.NDIRECT

(***************************************************************************)
(* The way bmap() takes to block bn of a file: an index into addrs, then   *)
(* one into each block of block numbers.                                   *)
(***************************************************************************)
bmap_xv6(g, bn) ==
  IF bn < g.NDIRECT THEN <<bn>> ELSE <<g.NDIRECT, bn - g.NDIRECT>>

bmap_isingle(g, bn) ==
  LET b == bn - g.NDIRECT
  IN IF bn < g.NDIRECT THEN <<bn>>
     ELSE <<g.NDIRECT + b \div g.NINDIRECT, b % g.NINDIRECT>>

bmap_idouble(g, bn) ==
  LET b == bn - g.NDIRECT
      c == b - NDIRECTIB(g)
  IN IF bn < g.NDIRECT THEN <<bn>>
     ELSE IF b < NDIRECTIB(g) THEN <<g.NDIRECT, b>>
     ELSE <<g.NDIRECT, NDIRECTIB(g) + c \div g.NINDIRECT, c % g.NINDIRECT>>

bmap_itriple(g, bn) ==
  LET b == bn - g.NDIRECT
      c == b - NDIRECTIB(g)
      span == g.NINDIRECT * g.NINDIRECTIB + NDIRECTIB(g)
      offset == c % span
      second == <<g.NDIRECT, NDIRECTIB(g) + c \div span>>
      index2 == (offset - NDIRECTIB(g)) \div g.NINDIRECT
  IN IF bn < g.NDIRECT THEN <<bn>>
     ELSE IF b < NDIRECTIB(g) THEN <<g.NDIRECT, b>>
     ELSE IF offset < NDIRECTIB(g) THEN Append(second, offset)
     ELSE second \o <<NDIRECTIB(g) + index2, offset % g.NINDIRECT>>

Path(g, bn) ==
  CASE g.layout = "xv6"     -> bmap_xv6(g, bn)
    [] g.layout = "isingle" -> bmap_isingle(g, bn)
    [] g.layout = "idouble" -> bmap_idouble(g, bn)
    [] g.layout = "itriple" -> bmap_itriple(g, bn)

(* What the way must satisfy for the block lists to be a tree: it stays    *)
(* inside addrs and inside the blocks of block numbers, two blocks of a    *)
(* file are listed in two places, and none is listed where another has     *)
(* block numbers.                                                          *)
Addrs(g) == 0 .. g.NDIRECT + (IF g.layout = "isingle" THEN g.MAXINDIRECT ELSE 1) - 1

PathsAreATree(g) ==
  LET Bn == 0 .. MAXFILE(g) - 1
      Ways == {Path(g, bn) : bn \in Bn}
      Inner == UNION {{SubSeq(w, 1, n) : n \in 1 .. Len(w) - 1} : w \in Ways}
  IN /\ \A w \in Ways : w[1] \in Addrs(g) /\ \A n \in 2 .. Len(w) : w[n] \in 0 .. g.NINDIRECT - 1
     /\ Cardinality(Ways) = MAXFILE(g)
     /\ Ways \cap Inner = {}
=============================================================================
