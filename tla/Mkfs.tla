-------------------------------- MODULE Mkfs --------------------------------
(***************************************************************************)
(* mkfs, which builds the first disk image: it gives out inodes and blocks *)
(* in order, appends the files of the command line to the image, and marks *)
(* the blocks it gave out.  The kernel then reads the image with bmap().   *)
(* Labs 10's mkfs differs in iappend().                                    *)
(*                                                                         *)
(* A block and a dirent are BSIZE and one "bytes"; main() reads the host   *)
(* file BSIZE bytes at a time, so that an iappend() never crosses a block. *)
(***************************************************************************)
EXTENDS BlockMap

CONSTANTS Kernels,     \* geometries
          NINODES, NMETA, FSSIZE, MkBSIZE

ASSUME MkfsAssumption ==
  /\ NMETA > 0 /\ FSSIZE > NMETA
  /\ \A g \in Kernels : g.NINDIRECT = MkBSIZE

VARIABLES kern, freeinode, freeblock,
          img,        \* the sectors of fs.img
          din,        \* the inodes of fs.img
          given,      \* what was appended to each inode
          mkfs_pc     \* "files", "reading" or "done"

mkfsvars == <<kern, freeinode, freeblock, img, din, given, mkfs_pc>>

ROOTINO == 1
Empty == [x \in 0 .. MkBSIZE - 1 |-> 0]

(* iappend()'s choice of the block x for block fbn: the sectors it writes, *)
(* the inode's addrs, and the next free block.  ap is all that is changed. *)
Take(ap) == [ap EXCEPT !.freeblock = @ + 1]

TakeAddr(ap, n) ==
  IF ap.addrs[n] # 0 THEN ap ELSE [Take(ap) EXCEPT !.addrs[n] = ap.freeblock]

TakeListed(ap, b, n) ==
  IF ap.img[b][n] # 0 THEN ap ELSE [Take(ap) EXCEPT !.img[b][n] = ap.freeblock]

IsDirect_le(fbn) == fbn <= kern.NDIRECT   \* mutant
IsDirect(fbn) == fbn < kern.NDIRECT

iappend_xv6(ap0, fbn) ==
  LET n == kern.NDIRECT
      ap1 == TakeAddr(ap0, IF IsDirect(fbn) THEN fbn ELSE n)
      ap2 == TakeListed(ap1, ap1.addrs[n], fbn - n)
  IN IF IsDirect(fbn) THEN [ap1 EXCEPT !.x = ap1.addrs[fbn]]
     ELSE [ap2 EXCEPT !.x = ap2.img[ap2.addrs[n]][fbn - n]]

(* The second level: the number of its block stays in indirect[], in       *)
(* memory, and the block is written to the sector indirect[NDIRECTIB].     *)
Second(ap, index) ==
  LET indirect == ap.img[ap.addrs[kern.NDIRECT]]
      n == NDIRECTIB(kern) + index
  IN IF indirect[n] # 0 THEN [ap |-> ap, indirect |-> indirect]
     ELSE [ap |-> Take(ap), indirect |-> [indirect EXCEPT ![n] = ap.freeblock]]

iappend_idouble(ap0, fbn) ==
  LET ap1 == TakeAddr(ap0, kern.NDIRECT)
      c == fbn - kern.NDIRECT - NDIRECTIB(kern)
      offset == c % kern.NINDIRECT
      s == Second(ap1, c \div kern.NINDIRECT)
      indirect2 == s.ap.img[s.indirect[NDIRECTIB(kern) + c \div kern.NINDIRECT]]
      x == s.ap.freeblock
  IN IF c < 0 THEN iappend_xv6(ap0, fbn)
     ELSE IF indirect2[offset] # 0 THEN [s.ap EXCEPT !.x = indirect2[offset]]
     ELSE [Take(s.ap) EXCEPT
             !.img[s.indirect[NDIRECTIB(kern)]] = [indirect2 EXCEPT ![offset] = x], !.x = x]

iappend_itriple(ap0, fbn) ==
  LET ap1 == TakeAddr(ap0, kern.NDIRECT)
      ndib == NDIRECTIB(kern)
      c == fbn - kern.NDIRECT - ndib
      span == kern.NINDIRECT * kern.NINDIRECTIB + ndib
      offset == c % span
      s == Second(ap1, c \div span)
      indirect2 == s.ap.img[s.indirect[ndib + c \div span]]
      x == s.ap.freeblock
      index2 == (offset - ndib) \div kern.NINDIRECT
      offset2 == (offset - ndib) % kern.NINDIRECT
      third == IF indirect2[ndib + index2] # 0 THEN indirect2[ndib + index2] ELSE x
      ap3 == IF indirect2[ndib + index2] # 0 THEN s.ap ELSE Take(s.ap)
      indirect3 == ap3.img[third]
      y == ap3.freeblock
  IN IF c < 0 THEN iappend_xv6(ap0, fbn)
     ELSE IF offset < ndib
     THEN IF indirect2[offset] # 0 THEN [s.ap EXCEPT !.x = indirect2[offset]]
          ELSE [Take(s.ap) EXCEPT !.img[s.indirect[ndib]] = [indirect2 EXCEPT ![offset] = x], !.x = x]
     ELSE IF indirect3[offset2] # 0 THEN [ap3 EXCEPT !.x = indirect3[offset2]]
     ELSE [Take(ap3) EXCEPT !.img[third] = [indirect3 EXCEPT ![offset2] = y], !.x = y]

ChooseBlock(ap, fbn) ==
  CASE kern.layout = "xv6"     -> iappend_xv6(ap, fbn)
    [] kern.layout = "idouble" -> iappend_idouble(ap, fbn)
    [] kern.layout = "itriple" -> iappend_itriple(ap, fbn)

iappend(inum, s) ==
  LET o == din[inum].size
      fbn == o \div MkBSIZE
      ap == ChooseBlock([img |-> img, addrs |-> din[inum].addrs, freeblock |-> freeblock, x |-> 0], fbn)
      at(x) == (x - (o % MkBSIZE)) + 1
  IN /\ fbn < MAXFILE(kern)                                            \* assert
     /\ freeblock' = ap.freeblock
     /\ img' = [ap.img EXCEPT ![ap.x] =
                  [x \in 0 .. MkBSIZE - 1 |-> IF at(x) \in 1 .. Len(s) THEN s[at(x)] ELSE @[x]]]
     /\ din' = [din EXCEPT ![inum] = [addrs |-> ap.addrs, size |-> o + Len(s)]]
     /\ given' = [given EXCEPT ![inum] = @ \o s]

NewInode == [addrs |-> [x \in 0 .. kern.NDIRECT |-> 0], size |-> 0]

(* main() up to the first file: ialloc(T_DIR), "." and "..".               *)
MkfsInit ==
  /\ kern \in Kernels
  /\ freeinode = 2
  /\ freeblock = NMETA + 1
  /\ img = [b \in 0 .. FSSIZE - 1 |->
              IF b = NMETA THEN [x \in 0 .. MkBSIZE - 1 |-> IF x < 2 THEN ROOTINO ELSE 0] ELSE Empty]
  /\ din = [i \in 1 .. NINODES |->
              IF i = ROOTINO THEN [NewInode EXCEPT !.addrs[0] = NMETA, !.size = 2] ELSE NewInode]
  /\ given = [i \in 1 .. NINODES |-> IF i = ROOTINO THEN <<ROOTINO, ROOTINO>> ELSE <<>>]
  /\ mkfs_pc = "files"

(* The next file: ialloc(T_FILE) and its dirent.                           *)
main_file ==
  /\ mkfs_pc # "done" /\ freeinode <= NINODES
  /\ freeinode' = freeinode + 1
  /\ iappend(ROOTINO, <<freeinode>>)
  /\ mkfs_pc' = "reading"
  /\ UNCHANGED kern

(* A read() of the host file, the last one if it is short.                 *)
main_read(cc) ==
  LET inum == freeinode - 1
  IN /\ mkfs_pc = "reading" /\ freeblock + 4 < FSSIZE
     /\ iappend(inum, [j \in 1 .. cc |-> 100 * inum + Len(given[inum]) + j])
     /\ mkfs_pc' = IF cc = MkBSIZE THEN "reading" ELSE "files"
     /\ UNCHANGED <<kern, freeinode>>

(* The size of the root is rounded up; balloc(freeblock) writes the bitmap.*)
main_done ==
  /\ mkfs_pc # "done"
  /\ din' = [din EXCEPT ![ROOTINO].size = ((@ \div MkBSIZE) + 1) * MkBSIZE]
  /\ mkfs_pc' = "done"
  /\ UNCHANGED <<kern, freeinode, freeblock, img, given>>

MkfsNext == main_file \/ (\E cc \in 1 .. MkBSIZE : main_read(cc)) \/ main_done

MkfsSpec == MkfsInit /\ [][MkfsNext]_mkfsvars
-----------------------------------------------------------------------------
(* The block the kernel's bmap() finds, following way w in the image.      *)
Found(i, w) ==
  LET b1 == din[i].addrs[w[1]]
      b2 == IF b1 = 0 \/ Len(w) < 2 THEN b1 ELSE img[b1][w[2]]
      b3 == IF b2 = 0 \/ Len(w) < 3 THEN b2 ELSE img[b2][w[3]]
  IN IF b3 = 0 \/ Len(w) < 4 THEN b3 ELSE img[b3][w[4]]

Readable(i) ==
  \A j \in 0 .. Len(given[i]) - 1 :
     LET b == Found(i, Path(kern, j \div MkBSIZE))
     IN b \in NMETA .. freeblock - 1 /\ img[b][j % MkBSIZE] = given[i][j + 1]

BlockLists == [g \in Kernels |-> PathsAreATree(g)]

(* mkfs.c and fs.c agree: the kernel reads from the image what mkfs was    *)
(* given, in blocks the bitmap marks, whatever files come before and       *)
(* after.  With the mkfs of lab 10, up to the last block that is listed in *)
(* the first block of block numbers.                                       *)
ImageReadable ==
  /\ BlockLists[kern]
  /\ \A i \in 1 .. NINODES :
       kern.layout = "xv6" \/ Len(given[i]) <= (kern.NDIRECT + NDIRECTIB(kern)) * MkBSIZE
         => Readable(i)

(* The README of lab 10: "Note that this (iappend) must have the same      *)
(* structures of (bmap) otherwise won't be possible writing or reading     *)
(* correctly into filesystem."                                             *)
SameStructures == \A i \in 1 .. NINODES : Readable(i)
=============================================================================
