------------------------------ MODULE FileData ------------------------------
(***************************************************************************)
(* The contents of files: balloc() and bfree() on the bitmap, bmap() and   *)
(* itrunc() on the block lists of an inode, readi() and writei(), and      *)
(* fileread() and filewrite() on the offset of an open file.               *)
(*                                                                         *)
(* The layout of the block lists is that of xv6 or of one of the three     *)
(* kernels of lab 10, which differ in bmap() and share itrunc().           *)
(*                                                                         *)
(* A call of readi() or writei() is one step: it holds the inode's lock,   *)
(* and the bitmap, the one thing it shares with calls on other inodes, is  *)
(* locked for each balloc() only, so another order of the balloc()s gives  *)
(* the same file in other blocks.  filewrite() is several steps: it lets   *)
(* go of the inode between pieces.                                         *)
(***************************************************************************)
EXTENDS BlockMap, SequencesExt, FiniteSetsExt

CONSTANTS Inode, NoInode, File,
          Byte,
          Data,        \* what write() may be given
          ReadSizes,
          Geometries,  \* the kernels
          BSIZE,       \* bytes in a block
          NBLOCK,      \* data blocks of the disk
          MAXOPBLOCKS  \* what begin_op() reserves in the log

ASSUME FileDataAssumption ==
  /\ Data \subseteq Seq(Byte) \ {<<>>}
  /\ \A g \in Geometries : g.NINDIRECT = BSIZE

VARIABLES geo,
          used,        \* the bitmap
          disk,        \* the blocks: bytes, or block numbers
          addrs, size, \* ip->addrs, ip->size
          linked,      \* ip->nlink > 0
          ip, off,     \* f->ip, f->off
          rest,        \* what filewrite() has still to write
          result,      \* what this step's read() returned
          panicked

filevars == <<geo, used, disk, addrs, size, linked, ip, off, rest, result, panicked>>

Block == 1 .. NBLOCK
LOGSIZE == MAXOPBLOCKS * 3

(***************************************************************************)
(* Extending block lists.  fs is the disk state a call works on: the       *)
(* bitmap, the blocks, and the inode's addrs and size; logged is what the  *)
(* call has handed to log_write(), block 0 the bitmap and -1 the inode.    *)
(***************************************************************************)
Zeros == [x \in 0 .. BSIZE - 1 |-> 0]

balloc_dirty(fs) ==   \* mutant: without bzero()
  IF Block \ fs.used = {} THEN [fs EXCEPT !.full = TRUE]
  ELSE LET b == Min(Block \ fs.used)
       IN [fs EXCEPT !.used = @ \cup {b}, !.new = b, !.logged = @ \cup {0, b}]

balloc(fs) ==
  IF Block \ fs.used = {} THEN [fs EXCEPT !.full = TRUE]
  ELSE LET b == Min(Block \ fs.used)
       IN [fs EXCEPT !.used = @ \cup {b}, !.disk[b] = Zeros, !.new = b, !.logged = @ \cup {0, b}]

(* One level of bmap(): at is 0 in the inode, else the block we are in.    *)
Down(fs, x) ==
  LET cur == IF fs.at = 0 THEN fs.addrs[x] ELSE fs.disk[fs.at][x]
      g == balloc(fs)
  IN IF fs.full THEN fs
     ELSE IF cur # 0 THEN [fs EXCEPT !.at = cur]
     ELSE IF g.full THEN g
     ELSE IF fs.at = 0 THEN [g EXCEPT !.addrs[x] = g.new, !.at = g.new]
     ELSE [g EXCEPT !.disk[fs.at][x] = g.new, !.at = g.new, !.logged = @ \cup {fs.at}]

bmap(fs, bn) == FoldLeft(Down, [fs EXCEPT !.at = 0], Path(geo, bn))

FsOf(i) ==
  [used |-> used, disk |-> disk, addrs |-> addrs[i], size |-> size[i], at |-> 0, new |-> 0,
   full |-> FALSE, logged |-> {}]

(* writei()'s loop, a turn for each block bn from first on, and iupdate(). *)
writei(fs, o, s) ==
  LET first == o \div BSIZE
      Put(g, bn) ==
        LET h == bmap(g, bn)
            into(old) == [x \in 0 .. BSIZE - 1 |-> LET j == bn * BSIZE + x - o + 1
                                                   IN IF j \in 1 .. Len(s) THEN s[j] ELSE old[x]]
        IN IF g.full THEN g                           \* balloc() has panicked
           ELSE IF h.full THEN h
           ELSE [h EXCEPT !.disk[h.at] = into(@), !.logged = @ \cup {h.at}]
      turns == (o + Len(s) - 1) \div BSIZE - first + 1
      done == FoldLeft(Put, fs, [t \in 1 .. turns |-> first + t - 1])
  IN IF o + Len(s) <= fs.size THEN done
     ELSE [done EXCEPT !.size = o + Len(s), !.logged = @ \cup {-1}]

readi(i, o, n) ==
  LET ByteAt(j) == LET fs == bmap(FsOf(i), j \div BSIZE) IN fs.disk[fs.at][j % BSIZE]
  IN [j \in 1 .. (IF o + n > size[i] THEN size[i] - o ELSE n) |-> ByteAt(o + j - 1)]

(* The blocks itrunc() hands to bfree(): the direct ones, the first block  *)
(* of block numbers, and what that block lists.                            *)
itrunc_keeps_list(i) ==   \* mutant: the block of block numbers is not freed
  LET top == addrs[i][geo.NDIRECT]
      direct == {addrs[i][x] : x \in 0 .. geo.NDIRECT - 1}
      listed == IF top = 0 THEN {} ELSE {disk[top][x] : x \in 0 .. BSIZE - 1}
  IN (direct \cup listed) \ {0}

itrunc(i) ==
  LET top == addrs[i][geo.NDIRECT]
      direct == {addrs[i][x] : x \in 0 .. geo.NDIRECT - 1}
      listed == IF top = 0 THEN {} ELSE {disk[top][x] : x \in 0 .. BSIZE - 1}
  IN (direct \cup {top} \cup listed) \ {0}

FileInit ==
  /\ geo \in Geometries
  /\ used = {}
  /\ disk = [b \in Block |-> Zeros]
  /\ addrs = [i \in Inode |-> [x \in Addrs(geo) |-> 0]]
  /\ size = [i \in Inode |-> 0]
  /\ linked = [i \in Inode |-> TRUE]
  /\ ip = [f \in File |-> NoInode]
  /\ off = [f \in File |-> 0]
  /\ rest = [f \in File |-> <<>>]
  /\ result = <<>>
  /\ panicked = FALSE

(* sys_open() of an existing file; with O_CREATE of one that was removed,  *)
(* whose inode ialloc() has zeroed.                                        *)
sys_open(f, i) ==
  /\ ip[f] = NoInode
  /\ linked[i] \/ \A h \in File : ip[h] # i
  /\ linked' = [linked EXCEPT ![i] = TRUE]
  /\ addrs' = IF linked[i] THEN addrs ELSE [addrs EXCEPT ![i] = [x \in Addrs(geo) |-> 0]]
  /\ ip' = [ip EXCEPT ![f] = i]
  /\ off' = [off EXCEPT ![f] = 0]
  /\ result' = <<>>
  /\ UNCHANGED <<geo, used, disk, size, rest, panicked>>

(* iput() of an inode with no links, by the last one to let go of it.      *)
Truncate(i) ==
  /\ used' = used \ itrunc(i)
  /\ addrs' = [addrs EXCEPT ![i] = [x \in Addrs(geo) |-> IF x <= geo.NDIRECT THEN 0 ELSE @[x]]]
  /\ size' = [size EXCEPT ![i] = 0]
  /\ panicked' = (itrunc(i) \ used # {})          \* bfree: freeing free block

fileclose(f) ==
  /\ ip[f] # NoInode /\ rest[f] = <<>>
  /\ ip' = [ip EXCEPT ![f] = NoInode]
  /\ IF linked[ip[f]] \/ \E h \in File \ {f} : ip[h] = ip[f]
     THEN UNCHANGED <<used, addrs, size, panicked>>
     ELSE Truncate(ip[f])
  /\ result' = <<>>
  /\ UNCHANGED <<geo, disk, linked, off, rest>>

sys_unlink(i) ==
  /\ linked[i]
  /\ linked' = [linked EXCEPT ![i] = FALSE]
  /\ IF \E f \in File : ip[f] = i
     THEN UNCHANGED <<used, addrs, size, panicked>>
     ELSE Truncate(i)
  /\ result' = <<>>
  /\ UNCHANGED <<geo, disk, ip, off, rest>>

fileread(f, n) ==
  /\ ip[f] # NoInode /\ rest[f] = <<>>
  /\ result' = readi(ip[f], off[f], n)
  /\ off' = [off EXCEPT ![f] = @ + Len(result')]
  /\ UNCHANGED <<geo, used, disk, addrs, size, linked, ip, rest, panicked>>

filewrite(f, s) ==
  /\ ip[f] # NoInode /\ rest[f] = <<>>
  /\ rest' = [rest EXCEPT ![f] = s]
  /\ result' = <<>>
  /\ UNCHANGED <<geo, used, disk, addrs, size, linked, ip, off, panicked>>

max == ((LOGSIZE - 1 - 1 - 2) \div 2) * BSIZE

Piece(f) == SubSeq(rest[f], 1, IF Len(rest[f]) > max THEN max ELSE Len(rest[f]))

(* One turn of filewrite()'s loop: a transaction, under the inode's lock.  *)
(* writei() refuses a piece that would pass MAXFILE, and filewrite() ends. *)
filewrite_piece(f) ==
  LET i == ip[f]
      n1 == Len(Piece(f))
      fs == writei(FsOf(i), off[f], Piece(f))
      fits == off[f] + n1 <= MAXFILE(geo) * BSIZE
  IN /\ rest[f] # <<>>
     /\ panicked' = (fits /\ fs.full)              \* balloc: out of blocks
     /\ used' = IF fits THEN fs.used ELSE used
     /\ IF fits /\ ~fs.full
        THEN /\ disk' = fs.disk
             /\ addrs' = [addrs EXCEPT ![i] = fs.addrs]
             /\ size' = [size EXCEPT ![i] = fs.size]
             /\ off' = [off EXCEPT ![f] = @ + n1]
             /\ rest' = [rest EXCEPT ![f] = SubSeq(@, n1 + 1, Len(@))]
        ELSE /\ rest' = [rest EXCEPT ![f] = <<>>]
             /\ UNCHANGED <<disk, addrs, size, off>>
     /\ result' = <<>>
     /\ UNCHANGED <<geo, linked, ip>>

FileNext ==
  /\ ~panicked
  /\ \/ \E f \in File :
          \/ \E i \in Inode : sys_open(f, i)
          \/ fileclose(f)
          \/ \E n \in ReadSizes : fileread(f, n)
          \/ \E s \in Data : filewrite(f, s)
          \/ filewrite_piece(f)
     \/ \E i \in Inode : sys_unlink(i)

FileSpec == FileInit /\ [][FileNext]_filevars
-----------------------------------------------------------------------------
(* The block found at the end of a way, or 0; the ways that lead to one.   *)
Lookup(i, w) ==
  LET b1 == addrs[i][w[1]]
      b2 == IF b1 = 0 \/ Len(w) < 2 THEN b1 ELSE disk[b1][w[2]]
      b3 == IF b2 = 0 \/ Len(w) < 3 THEN b2 ELSE disk[b2][w[3]]
  IN IF b3 = 0 \/ Len(w) < 4 THEN b3 ELSE disk[b3][w[4]]

WayTo == [g \in Geometries |-> [bn \in 0 .. MAXFILE(g) - 1 |-> Path(g, bn)]]
Ways ==
  [g \in Geometries |->
     UNION {{SubSeq(w, 1, n) : n \in 1 .. Len(w)} : w \in Range(WayTo[g])}]

Listed ==
  {p \in {i \in Inode : size[i] > 0} \X Ways[geo] : Lookup(p[1], p[2]) # 0}
Held == {Lookup(p[1], p[2]) : p \in Listed}

(* fs.c: the blocks of files are marked in the bitmap and each is listed   *)
(* in one place, so no block is two files' or both data and block numbers, *)
(* and no bfree() meets a free block; in xv6 a marked block is listed.     *)
BlocksListedOnce ==
  LET held == Held
  IN /\ used \subseteq Block /\ held \subseteq used
     /\ Cardinality(held) = Cardinality(Listed)
     /\ geo.layout = "xv6" /\ ~panicked => held = used
     /\ panicked => used = Block

(* A piece of a write logs no more blocks (data, lists, bitmap, inode)     *)
(* than begin_op() has reserved for it: param.h has MAXOPBLOCKS as the     *)
(* most that any operation writes.  max, which comes from LOGSIZE, does    *)
(* not keep to it.                                                         *)
PieceWithinReservation ==
  [][\A f \in File : filewrite_piece(f) =>
       Cardinality(writei(FsOf(ip[f]), off[f], Piece(f)).logged) <= MAXOPBLOCKS]_filevars

(* A file is a sequence of bytes and an open file a position in it,        *)
(* whatever blocks the bytes are in: see FileBytes.                        *)
Content(i) ==
  [j \in 1 .. size[i] |-> disk[Lookup(i, WayTo[geo][(j - 1) \div BSIZE])][(j - 1) % BSIZE]]
Bytes == INSTANCE FileBytes WITH content <- [i \in Inode |-> Content(i)], todo <- rest
ReadsWhatWasWritten == Bytes!Spec
=============================================================================
