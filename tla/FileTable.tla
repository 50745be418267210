----------------------------- MODULE FileTable -----------------------------
(***************************************************************************)
(* The open files: filealloc(), filedup() and fileclose() on ftable, the   *)
(* ends of pipes (pipealloc(), pipeclose()), and the system calls on a     *)
(* process's descriptors.  k is the kernel's tables,                       *)
(*   [ft |-> ftable.file, pipe |-> the pages that hold pipes,              *)
(*    ofile |-> the descriptors of every process, panic |-> BOOLEAN];      *)
(* a system call is an operator on k whose field ret is what it returns:   *)
(* a number, or for pipe() two descriptors, or none.                       *)
(***************************************************************************)
EXTENDS Integers, Sequences, FiniteSets, FiniteSetsExt

CONSTANTS NFILE, NOFILE, NPIPE   \* NPIPE: pages kalloc() has for pipes

File == 1 .. NFILE
Fd == 0 .. NOFILE - 1
NoPipe == [alloc |-> FALSE, readopen |-> FALSE, writeopen |-> FALSE, n |-> 0]
Closed == [ref |-> 0, type |-> "FD_NONE", pipe |-> 0, writable |-> FALSE]

FreeFiles(k) == {f \in File : k.ft[f].ref = 0}
FreeFds(k, p) == {fd \in Fd : k.ofile[p][fd] = 0}

filealloc(k) ==
  IF FreeFiles(k) = {} THEN [k EXCEPT !.ret = 0]
  ELSE [k EXCEPT !.ft[Min(FreeFiles(k))].ref = 1, !.ret = Min(FreeFiles(k))]

(* filedup() and fileclose() of every file f, n[f] times.                  *)
filedup(k, n) ==
  [k EXCEPT !.ft = [f \in File |-> [k.ft[f] EXCEPT !.ref = @ + n[f]]],
            !.panic = @ \/ \E f \in File : n[f] > 0 /\ k.ft[f].ref < 1]

pipeclose(pi, rclosed, wclosed) ==
  LET r == pi.readopen /\ ~rclosed
      w == pi.writeopen /\ ~wclosed
  IN IF r \/ w THEN [pi EXCEPT !.readopen = r, !.writeopen = w] ELSE NoPipe

fileclose(k, n) ==
  LET last == {f \in File : n[f] > 0 /\ k.ft[f].ref <= n[f]}
      ends(q, w) == \E f \in last : k.ft[f].type = "FD_PIPE" /\ k.ft[f].pipe = q /\ k.ft[f].writable = w
  IN [k EXCEPT !.ft = [f \in File |-> IF f \in last THEN Closed ELSE [k.ft[f] EXCEPT !.ref = @ - n[f]]],
               !.pipe = [q \in 1 .. NPIPE |-> pipeclose(@[q], ends(q, FALSE), ends(q, TRUE))],
               !.panic = @ \/ \E f \in File : k.ft[f].ref < n[f]]

Once(f) == [g \in File |-> IF g = f THEN 1 ELSE 0]
Held(k, p) == [f \in File |-> Cardinality({fd \in Fd : k.ofile[p][fd] = f})]

(* The lowest descriptor that is free, or -1.                              *)
fdalloc(k, p, f) ==
  IF FreeFds(k, p) = {} THEN [k EXCEPT !.ret = -1]
  ELSE [k EXCEPT !.ofile[p][Min(FreeFds(k, p))] = f, !.ret = Min(FreeFds(k, p))]

sys_dup(k, p, fd) ==
  LET f == k.ofile[p][fd]
  IN IF f = 0 \/ FreeFds(k, p) = {} THEN [k EXCEPT !.ret = -1]
     ELSE filedup(fdalloc(k, p, f), Once(f))

sys_close(k, p, fd) ==
  LET f == k.ofile[p][fd]
  IN IF f = 0 THEN [k EXCEPT !.ret = -1]
     ELSE fileclose([k EXCEPT !.ofile[p][fd] = 0, !.ret = 0], Once(f))

(* sys_open() once the inode is found: a file and a descriptor, or neither.*)
sys_open(k, p) ==
  LET f == Min(FreeFiles(k))
  IN IF FreeFiles(k) = {} THEN [k EXCEPT !.ret = -1]
     ELSE IF FreeFds(k, p) = {} THEN [fileclose(filealloc(k), Once(f)) EXCEPT !.ret = -1]
     ELSE [fdalloc(k, p, f) EXCEPT !.ft[f] = [@ EXCEPT !.ref = 1, !.type = "FD_INODE"]]

(* pipealloc(): two files and a page, or none of them.                     *)
End(q, w) == [ref |-> 1, type |-> "FD_PIPE", pipe |-> q, writable |-> w]
FreePages(k) == {q \in 1 .. NPIPE : ~k.pipe[q].alloc}

pipealloc_leaks(k) ==   \* mutant: without fileclose(*f0)
  LET f0 == Min(FreeFiles(k))
      f1 == Min(FreeFiles(k) \ {f0})
      q == Min(FreePages(k))
  IN CASE FreeFiles(k) = {} -> [k EXCEPT !.ret = <<>>]
       [] Cardinality(FreeFiles(k)) = 1 -> [filealloc(k) EXCEPT !.ret = <<>>]
       [] Cardinality(FreeFiles(k)) > 1 /\ FreePages(k) = {} -> [k EXCEPT !.ret = <<>>]
       [] OTHER -> [k EXCEPT !.ft[f0] = End(q, FALSE), !.ft[f1] = End(q, TRUE), !.ret = <<f0, f1>>,
                             !.pipe[q] = [alloc |-> TRUE, readopen |-> TRUE, writeopen |-> TRUE, n |-> 0]]

pipealloc(k) ==
  LET f0 == Min(FreeFiles(k))
      f1 == Min(FreeFiles(k) \ {f0})
      q == Min(FreePages(k))
  IN CASE FreeFiles(k) = {} -> [k EXCEPT !.ret = <<>>]
       [] Cardinality(FreeFiles(k)) = 1 -> [fileclose(filealloc(k), Once(f0)) EXCEPT !.ret = <<>>]
       [] Cardinality(FreeFiles(k)) > 1 /\ FreePages(k) = {} -> [k EXCEPT !.ret = <<>>]
       [] OTHER -> [k EXCEPT !.ft[f0] = End(q, FALSE), !.ft[f1] = End(q, TRUE), !.ret = <<f0, f1>>,
                             !.pipe[q] = [alloc |-> TRUE, readopen |-> TRUE, writeopen |-> TRUE, n |-> 0]]

sys_pipe(k, p) ==
  LET g == pipealloc(k)
      d0 == Min(FreeFds(k, p))
      d1 == Min(FreeFds(k, p) \ {d0})
  IN IF g.ret = <<>> THEN g
     ELSE IF Cardinality(FreeFds(k, p)) < 2
     THEN [fileclose(g, [f \in File |-> IF f \in {g.ret[1], g.ret[2]} THEN 1 ELSE 0]) EXCEPT !.ret = <<>>]
     ELSE [g EXCEPT !.ofile[p][d0] = g.ret[1], !.ofile[p][d1] = g.ret[2], !.ret = <<d0, d1>>]

(* The loops of fork() and exit() over proc->ofile.                        *)
fork_files(k, p, c) == filedup([k EXCEPT !.ofile[c] = k.ofile[p]], Held(k, p))
exit_files(k, p) == fileclose([k EXCEPT !.ofile[p] = [fd \in Fd |-> 0]], Held(k, p))

(* The file table is exact: the count of every file is the number of       *)
(* descriptors that name it, so none is closed under a process or kept     *)
(* after the last close; a pipe's page is allocated exactly while one of   *)
(* its ends is, and an end is open exactly while a file is that end.       *)
Counted(k) ==
  LET Fds(f) == {pf \in (DOMAIN k.ofile) \X Fd : k.ofile[pf[1]][pf[2]] = f}
      Open(q, w) == \E f \in File : k.ft[f].ref > 0 /\ k.ft[f].type = "FD_PIPE"
                                    /\ k.ft[f].pipe = q /\ k.ft[f].writable = w
  IN /\ ~k.panic
     /\ \A f \in File : k.ft[f].ref = Cardinality(Fds(f))
     /\ \A q \in 1 .. NPIPE :
          /\ k.pipe[q].readopen = Open(q, FALSE) /\ k.pipe[q].writeopen = Open(q, TRUE)
          /\ k.pipe[q].alloc = (Open(q, FALSE) \/ Open(q, TRUE))
=============================================================================
