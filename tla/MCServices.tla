----------------------------- MODULE MCServices -----------------------------
(* Small instances of the parts that do not share state, one of which the  *)
(* first state chooses: a run explores their sum, not their product.       *)
EXTENDS Console, Mkfs, Umalloc, FileData, Mailbox, Semaphore, Policies, TLC

VARIABLE part

G(l, n) == [layout |-> l, NDIRECT |-> n, NINDIRECT |-> 2, NINDIRECTIB |-> 1, MAXINDIRECT |-> 2]
MCGeometries == {G("xv6", 3), G("isingle", 1), G("idouble", 2), G("itriple", 1)}
MCData == {<<2, 1, 1, 2, 2, 1>>}

MCValues == {-1, 0, 1}
MCCounts == {-1, 1, 2}

Kernel(l) == [layout |-> l, NDIRECT |-> 1, NINDIRECT |-> 3, NINDIRECTIB |-> 2, MAXINDIRECT |-> 1]
MCKernels == {Kernel(l) : l \in {"xv6", "idouble", "itriple"}}

MCInit ==
  /\ part \in {"console", "mkfs", "umalloc", "files", "mailbox", "semaphore", "clock"}
  /\ ConsoleInit /\ MkfsInit /\ UmallocInit /\ FileInit /\ MailboxInit /\ SemInit
  /\ PoliciesInit
  /\ part = "mkfs" \/ kern = Kernel("xv6")
  /\ part = "files" \/ geo = G("xv6", 3)
  /\ part = "clock" \/ policy = "DEFAULT"

Only(name, next) == part = name /\ next /\ UNCHANGED part

MCNext ==
  \/ /\ Only("console", ConsoleNext)
     /\ UNCHANGED <<mkfsvars, heapvars, filevars, mailvars, semvars, clockvars>>
  \/ /\ Only("mkfs", MkfsNext)
     /\ UNCHANGED <<consolevars, heapvars, filevars, mailvars, semvars, clockvars>>
  \/ /\ Only("umalloc", UmallocNext)
     /\ UNCHANGED <<consolevars, mkfsvars, filevars, mailvars, semvars, clockvars>>
  \/ /\ Only("files", FileNext)
     /\ UNCHANGED <<consolevars, mkfsvars, heapvars, mailvars, semvars, clockvars>>
  \/ /\ Only("mailbox", MailboxNext)
     /\ UNCHANGED <<consolevars, mkfsvars, heapvars, filevars, semvars, clockvars>>
  \/ /\ Only("semaphore", SemNext)
     /\ UNCHANGED <<consolevars, mkfsvars, heapvars, filevars, mailvars, clockvars>>
  \/ /\ Only("clock", PoliciesNext)
     /\ UNCHANGED <<consolevars, mkfsvars, heapvars, filevars, mailvars, semvars>>

MCSpec == MCInit /\ [][MCNext]_<<part, consolevars, mkfsvars, heapvars, filevars, mailvars,
                                  semvars, clockvars>>

(* Of a table entry: nothing but the state when allocproc() will overwrite *)
(* the rest, else what the policy compares and when the process was made.  *)
(* Of its tickets it only matters whether there are any: arguments are not *)
(* negative here.                                                          *)
Entry(s) ==
  LET e == pt[s]
      key == CASE policy = "DEFAULT"  -> 0
               [] policy \in {"LAB05", "PRIORITY"} -> e.priority
               [] policy = "FCFS"     -> e.ctime
               [] policy = "CFS"      -> e.rutime
               [] policy = "SML"      -> Queue(s)
               [] policy = "LOTTERY"  -> Min({e.ntickets, 1})
  IN IF e.st \in {"UNUSED", "ZOMBIE"} THEN <<e.st>>
     ELSE IF policy = "LAB05" THEN <<e.st, e.due, key>>
     ELSE <<e.st, e.due, key, e.ctime + Times(s)>>
Table ==
  <<policy, ticks, timer, run, scan, [s \in PSlot |-> Entry(s)],
    IF policy \in {"DEFAULT", "LOTTERY"} THEN {} ELSE behind>>

(* How many members of S look like x, for every x.                         *)
Census(S, Look(_)) ==
  LET looks == {Look(s) : s \in S}
  IN {<<x, Cardinality({s \in S : Look(s) = x})>> : x \in looks}

LookOfOpen(f) == <<off[f], rest[f]>>
LookOfInode(i) ==
  <<Content(i), linked[i], Census({f \in File : ip[f] = i}, LookOfOpen)>>

(* A thread's want is set anew by its next sem_wait().                     *)
LookOfThread(t) ==
  <<tpc[t], IF tpc[t] = "user" THEN 0 ELSE want[t], t \in missed>>

(* What tells states apart: the variables of the part.  Inodes, open files *)
(* and threads are interchangeable, and so are the blocks of the disk: of  *)
(* files, two states are the same when as many files hold the same bytes   *)
(* and are open alike, as many blocks are marked, and both or neither      *)
(* satisfy BlocksListedOnce.                                               *)
Seen ==
  CASE part = "console"   -> <<part, consolevars>>
    [] part = "mkfs"      -> <<part, mkfsvars>>
    [] part = "umalloc"   -> <<part, heapvars>>
    [] part = "files"     -> <<part, geo, Census(Inode, LookOfInode), Cardinality(used), panicked,
                               BlocksListedOnce>>
    [] part = "mailbox"   -> <<part, mailvars>>
    [] part = "semaphore" -> <<part, active, value, held, put, got, minus,
                               Census(Thread, LookOfThread)>>
    [] part = "clock"     -> <<part, Table>>
=============================================================================
