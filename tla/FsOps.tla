------------------------------- MODULE FsOps -------------------------------
(* Inodes and directories under concurrent system calls: the inode cache of    *)
(* fs.c (iget, ilock, iput, ialloc), path lookup and directory entries, and    *)
(* open, mkdir, link, unlink, chdir and close of sysfile.c.  A step takes one  *)
(* inode sleep lock, or runs between two such steps; a critical section that   *)
(* only reads one inode is a single step.  The transactions around the calls   *)
(* are Log's subject.                                                          *)
EXTENDS Integers, Sequences, FiniteSets

CONSTANTS
    Proc, None,
    Name,      \* the names programs use, besides "." and ".."
    NINUM,     \* inodes on the disk; 1 is the root
    Op,        \* the system calls each program makes
    Path       \* and the paths they give, as sequences of elements

ASSUME FsConstants == NINUM \in Nat \ {0} /\ {".", ".."} \cap Name = {} /\ None \notin Proc

Inum == 1..NINUM
ROOTINO == 1
NULL == 0
Elem == Name \cup {".", ".."}

VARIABLES
    dinode,    \* on disk: type (NULL if free) and nlink of each inode
    dirents,   \* on disk: the entries of the directories
    inode,     \* the cache: ref, valid, type, nlink; one entry per inum, as iget() keeps it
    holder,    \* the process that has ip->lock
    th,        \* each process in the kernel: where, in which call, its local variables
    cwd, ofile,   \* of each process: current directory and (only) open file
    panic

vars == <<dinode, dirents, inode, holder, th, cwd, ofile, panic>>

Idle == [pc |-> "idle", op |-> "none", path |-> <<>>, ip |-> NULL, dp |-> NULL,
         old |-> NULL, new |-> <<>>, arg |-> NULL, k |-> "none"]

\* An inode cache entry nobody refers to; iget() resets what it held.
Empty == [ref |-> 0, valid |-> FALSE, type |-> "none", nlink |-> 0]

NoEntries == [e \in Elem |-> NULL]
Dots(i, parent) == [e \in Elem |-> IF e = "." THEN i ELSE IF e = ".." THEN parent ELSE NULL]

\* A new file system: only the root, everybody's current directory.
Init ==
    /\ dinode = [i \in Inum |-> IF i = ROOTINO THEN [type |-> "dir", nlink |-> 1]
                                ELSE [type |-> "none", nlink |-> 0]]
    /\ dirents = [i \in Inum |-> IF i = ROOTINO THEN Dots(i, i) ELSE NoEntries]
    /\ inode = [i \in Inum |-> IF i = ROOTINO THEN [Empty EXCEPT !.ref = Cardinality(Proc)] ELSE Empty]
    /\ holder = [i \in Inum |-> None]
    /\ th = [p \in Proc |-> Idle]
    /\ cwd = [p \in Proc |-> ROOTINO] /\ ofile = [p \in Proc |-> NULL]
    /\ panic = "no"

At(p, l) == panic = "no" /\ th[p].pc = l
-----------------------------------------------------------------------------
(* The inode cache *)

\* iget() and idup(): a reference; an entry that had none is not valid.
iget(ic, i) == [ic EXCEPT ![i].ref = @ + 1]

\* ilock(): the sleep lock must be free; the entry is read in if it is not valid.
Loaded(i) ==
    IF inode[i].valid THEN inode[i]
    ELSE [ref |-> inode[i].ref, valid |-> TRUE, type |-> dinode[i].type, nlink |-> dinode[i].nlink]

ilock(i) ==
    /\ holder[i] = None
    /\ panic' = IF ~inode[i].valid /\ dinode[i].type = "none" THEN "ilock: no type" ELSE panic

Load(i) == [inode EXCEPT ![i] = Loaded(i)]

\* A change of nlink and the iupdate() that follows it, by the lock's holder.
AddLink(ic, i, n) == [ic EXCEPT ![i].nlink = @ + n]

\* The call iput(i), after which control goes to k.
Put(t, i, k) == [t EXCEPT !.pc = "iput", !.arg = i, !.k = k]

iput_NoRefCheck(p) ==
    LET i == th[p].arg IN
    /\ At(p, "iput") /\ holder[i] = None
    /\ IF inode[i].valid /\ inode[i].nlink = 0
         THEN holder' = [holder EXCEPT ![i] = p] /\ th' = [th EXCEPT ![p].pc = "itrunc"]
         ELSE UNCHANGED holder /\ th' = [th EXCEPT ![p].pc = "unref"]
    /\ UNCHANGED <<dinode, dirents, inode, cwd, ofile, panic>>

\* iput(): under the lock, decide whether this is the last reference to an
\* inode without links; free it; then drop the reference.
iput(p) ==
    LET i == th[p].arg IN
    /\ At(p, "iput") /\ holder[i] = None
    /\ IF inode[i].valid /\ inode[i].nlink = 0 /\ inode[i].ref = 1
         THEN holder' = [holder EXCEPT ![i] = p] /\ th' = [th EXCEPT ![p].pc = "itrunc"]
         ELSE UNCHANGED holder /\ th' = [th EXCEPT ![p].pc = "unref"]
    /\ UNCHANGED <<dinode, dirents, inode, cwd, ofile, panic>>

itrunc_KeepValid(p) ==
    LET i == th[p].arg IN
    /\ At(p, "itrunc")
    /\ dirents' = [dirents EXCEPT ![i] = NoEntries]
    /\ dinode' = [dinode EXCEPT ![i].type = "none"]
    /\ inode' = [inode EXCEPT ![i].type = "none"]
    /\ holder' = [holder EXCEPT ![i] = None]
    /\ th' = [th EXCEPT ![p].pc = "unref"]
    /\ UNCHANGED <<cwd, ofile, panic>>

itrunc(p) ==
    LET i == th[p].arg IN
    /\ At(p, "itrunc")
    /\ dirents' = [dirents EXCEPT ![i] = NoEntries]
    /\ dinode' = [dinode EXCEPT ![i].type = "none"]
    /\ inode' = [inode EXCEPT ![i].type = "none", ![i].valid = FALSE]
    /\ holder' = [holder EXCEPT ![i] = None]
    /\ th' = [th EXCEPT ![p].pc = "unref"]
    /\ UNCHANGED <<cwd, ofile, panic>>

unref(p) ==
    /\ At(p, "unref")
    /\ inode' = [inode EXCEPT ![th[p].arg] = IF @.ref = 1 THEN Empty ELSE [@ EXCEPT !.ref = @ - 1]]
    /\ th' = [th EXCEPT ![p] = IF th[p].k = "idle" THEN Idle
                               ELSE [th[p] EXCEPT !.pc = th[p].k, !.arg = NULL, !.k = "none"]]
    /\ UNCHANGED <<dinode, dirents, holder, cwd, ofile, panic>>
-----------------------------------------------------------------------------
(* Path lookup: namex() *)

IsParent(op) == op \in {"create", "mkdir", "mknod", "unlink", "link_new"}

\* Where a lookup that fails leaves the call.
Failed(t) == IF t.op = "link_new" THEN "link_bad" ELSE "idle"

\* A lookup begins at t.ip; the root alone ("/") has no parent.
Lookup(t) ==
    IF t.path # <<>> THEN [t EXCEPT !.pc = "namex"]
    ELSE IF IsParent(t.op) THEN Put(t, t.ip, Failed(t))
    ELSE [t EXCEPT !.pc = t.op]

\* A system call that takes a path, from the root or the current directory.
start(p) ==
    /\ At(p, "idle")
    /\ \E op \in Op[p] \ {"close"}, s \in Path, i \in {ROOTINO, cwd[p]}, new \in Path :
         /\ op # "link" => new = s
         /\ inode' = iget(inode, i)
         /\ th' = [th EXCEPT ![p] = Lookup([Idle EXCEPT !.op = op, !.path = s, !.ip = i, !.new = new])]
    /\ UNCHANGED <<dinode, dirents, holder, cwd, ofile, panic>>

\* One round of the loop of namex(), with the directory locked: not a
\* directory, or the parent that was asked for, or the next element.
namex(p) ==
    LET t == th[p]
        next == dirents[t.ip][Head(t.path)]
    IN
    /\ At(p, "namex") /\ ilock(t.ip)
    /\ IF Loaded(t.ip).type # "dir"
         THEN th' = [th EXCEPT ![p] = Put(t, t.ip, Failed(t))] /\ inode' = Load(t.ip)
         ELSE IF IsParent(t.op) /\ Len(t.path) = 1
         THEN th' = [th EXCEPT ![p].pc = t.op] /\ inode' = Load(t.ip)
         ELSE IF next = NULL
         THEN th' = [th EXCEPT ![p] = Put(t, t.ip, Failed(t))] /\ inode' = Load(t.ip)
         ELSE /\ th' = [th EXCEPT ![p] = Put([t EXCEPT !.ip = next, !.path = Tail(t.path)], t.ip,
                                             IF Len(t.path) = 1 THEN t.op ELSE "namex")]
              /\ inode' = iget(Load(t.ip), next)
    /\ UNCHANGED <<dinode, dirents, holder, cwd, ofile>>
-----------------------------------------------------------------------------
(* open(), close(), chdir() *)

\* The end of sys_open() with ip locked: a descriptor, or no descriptor free.
\* The lock is released in the same step.
Opened(p, t) ==
    IF ofile[p] = NULL
      THEN ofile' = [ofile EXCEPT ![p] = t.ip] /\ th' = [th EXCEPT ![p] = Idle]
      ELSE th' = [th EXCEPT ![p] = Put(t, t.ip, "idle")] /\ UNCHANGED ofile

sys_open(p) ==
    /\ At(p, "open") /\ ilock(th[p].ip)
    /\ inode' = Load(th[p].ip)
    /\ \E omode \in {"O_RDONLY", "O_RDWR"} :
         IF Loaded(th[p].ip).type = "dir" /\ omode # "O_RDONLY"
           THEN th' = [th EXCEPT ![p] = Put(@, @.ip, "idle")] /\ UNCHANGED ofile
           ELSE Opened(p, th[p])
    /\ UNCHANGED <<dinode, dirents, holder, cwd>>

sys_close(p) ==
    /\ At(p, "idle") /\ "close" \in Op[p] /\ ofile[p] # NULL
    /\ ofile' = [ofile EXCEPT ![p] = NULL]
    /\ th' = [th EXCEPT ![p] = Put(Idle, ofile[p], "idle")]
    /\ UNCHANGED <<dinode, dirents, inode, holder, cwd, panic>>

\* Only the process itself looks at its current directory, so the new one can
\* be recorded before the iput() of the old one.
sys_chdir(p) ==
    LET t == th[p] IN
    /\ At(p, "chdir") /\ ilock(t.ip)
    /\ inode' = Load(t.ip)
    /\ IF Loaded(t.ip).type = "dir"
         THEN cwd' = [cwd EXCEPT ![p] = t.ip] /\ th' = [th EXCEPT ![p] = Put(t, cwd[p], "idle")]
         ELSE UNCHANGED cwd /\ th' = [th EXCEPT ![p] = Put(t, t.ip, "idle")]
    /\ UNCHANGED <<dinode, dirents, holder, ofile>>
-----------------------------------------------------------------------------
(* create(), for open(O_CREATE), mkdir() and mknod() *)

NewType(t) == CASE t.op = "create" -> "file" [] t.op = "mkdir" -> "dir" [] t.op = "mknod" -> "dev"

\* create() with the parent locked: the name is there, or stays locked.
create(p) ==
    LET t == th[p]
        c == dirents[t.ip][Head(t.path)]
    IN
    /\ th[p].op \in {"create", "mkdir", "mknod"} /\ At(p, th[p].op) /\ ilock(t.ip)
    /\ IF c # NULL
         THEN /\ inode' = iget(Load(t.ip), c)
              /\ th' = [th EXCEPT ![p] = Put([t EXCEPT !.ip = c], t.ip, "exists")]
              /\ UNCHANGED holder
         ELSE /\ inode' = Load(t.ip)
              /\ holder' = [holder EXCEPT ![t.ip] = p]
              /\ th' = [th EXCEPT ![p].pc = "ialloc", ![p].dp = t.ip]
    /\ UNCHANGED <<dinode, dirents, cwd, ofile>>

create_exists(p) ==
    LET t == th[p] IN
    /\ At(p, "exists") /\ ilock(t.ip)
    /\ inode' = Load(t.ip)
    /\ IF t.op = "create" /\ Loaded(t.ip).type = "file"
         THEN Opened(p, t)
         ELSE th' = [th EXCEPT ![p] = Put(t, t.ip, "idle")] /\ UNCHANGED ofile
    /\ UNCHANGED <<dinode, dirents, holder, cwd>>

\* ialloc(): the first inode that is free on disk.
ialloc(p) ==
    /\ At(p, "ialloc")
    /\ IF \A i \in Inum : dinode[i].type # "none"
         THEN panic' = "ialloc: no inodes" /\ UNCHANGED <<dinode, inode, th>>
         ELSE \E i \in Inum :
              /\ dinode[i].type = "none" /\ \A j \in 1..i-1 : dinode[j].type # "none"
              /\ dinode' = [dinode EXCEPT ![i] = [type |-> NewType(th[p]), nlink |-> 0]]
              /\ inode' = iget(inode, i)
              /\ th' = [th EXCEPT ![p].pc = "fill", ![p].ip = i]
              /\ UNCHANGED panic
    /\ UNCHANGED <<dirents, holder, cwd, ofile>>

\* The rest of create(): lock and fill in the new inode, enter it into the
\* directory and put the directory, with the new inode still locked.
create_fill(p) ==
    LET t == th[p]
        isdir == NewType(t) = "dir"
        n == IF isdir THEN 1 ELSE 0
    IN
    /\ At(p, "fill") /\ ilock(t.ip)
    /\ inode' = AddLink([Load(t.ip) EXCEPT ![t.ip].nlink = 1], t.dp, n)
    /\ dinode' = AddLink([dinode EXCEPT ![t.ip].nlink = 1], t.dp, n)
    /\ dirents' = [dirents EXCEPT ![t.ip] = IF isdir THEN Dots(t.ip, t.dp) ELSE @,
                                  ![t.dp][Head(t.path)] = t.ip]
    /\ holder' = [holder EXCEPT ![t.ip] = p, ![t.dp] = None]
    /\ th' = [th EXCEPT ![p] = Put(t, t.dp, "created")]
    /\ UNCHANGED <<cwd, ofile>>

created(p) ==
    LET t == th[p] IN
    /\ At(p, "created")
    /\ holder' = [holder EXCEPT ![t.ip] = None]
    /\ IF t.op = "create"
         THEN Opened(p, t)
         ELSE th' = [th EXCEPT ![p] = Put(t, t.ip, "idle")] /\ UNCHANGED ofile
    /\ UNCHANGED <<dinode, dirents, inode, cwd, panic>>
-----------------------------------------------------------------------------
(* unlink() and link() *)

isdirempty(i) == \A e \in Name : dirents[i][e] = NULL

\* sys_unlink() with the parent locked: nothing to remove, or look at it.
sys_unlink(p) ==
    LET t == th[p]
        c == dirents[t.ip][Head(t.path)]
    IN
    /\ At(p, "unlink") /\ ilock(t.ip)
    /\ IF Head(t.path) \in {".", ".."} \/ c = NULL
         THEN /\ inode' = Load(t.ip)
              /\ th' = [th EXCEPT ![p] = Put(t, t.ip, "idle")]
              /\ UNCHANGED holder
         ELSE /\ inode' = iget(Load(t.ip), c)
              /\ holder' = [holder EXCEPT ![t.ip] = p]
              /\ th' = [th EXCEPT ![p].pc = "unlink_ip", ![p].dp = t.ip, ![p].ip = c]
    /\ UNCHANGED <<dinode, dirents, cwd, ofile>>

\* With the inode locked as well: refuse, or clear the entry and put the
\* directory, with the inode still locked.
unlink_ip(p) ==
    LET t == th[p]
        isdir == Loaded(t.ip).type = "dir"
        n == IF isdir THEN -1 ELSE 0
    IN
    /\ At(p, "unlink_ip") /\ holder[t.ip] = None
    /\ panic' = IF Loaded(t.ip).type = "none" THEN "ilock: no type"
                ELSE IF Loaded(t.ip).nlink < 1 THEN "unlink: nlink < 1" ELSE panic
    /\ IF isdir /\ ~isdirempty(t.ip)
         THEN /\ inode' = Load(t.ip)
              /\ th' = [th EXCEPT ![p] = Put(t, t.ip, "unlink_bad")]
              /\ UNCHANGED <<dinode, dirents, holder>>
         ELSE /\ inode' = AddLink(Load(t.ip), t.dp, n)
              /\ dinode' = AddLink(dinode, t.dp, n)
              /\ dirents' = [dirents EXCEPT ![t.dp][Head(t.path)] = NULL]
              /\ holder' = [holder EXCEPT ![t.ip] = p, ![t.dp] = None]
              /\ th' = [th EXCEPT ![p] = Put(t, t.dp, "unlinked")]
    /\ UNCHANGED <<cwd, ofile>>

\* The label bad of sys_unlink(), and of dirlink() in sys_link(): iunlockput(dp).
unlock_dp(p) ==
    LET t == th[p] IN
    /\ th[p].pc \in {"unlink_bad", "link_exists"} /\ At(p, th[p].pc)
    /\ holder' = [holder EXCEPT ![t.dp] = None]
    /\ th' = [th EXCEPT ![p] = Put(t, t.dp, IF t.pc = "unlink_bad" THEN "idle" ELSE "link_bad")]
    /\ UNCHANGED <<dinode, dirents, inode, cwd, ofile, panic>>

unlinked(p) ==
    LET t == th[p] IN
    /\ At(p, "unlinked")
    /\ inode' = AddLink(inode, t.ip, -1) /\ dinode' = AddLink(dinode, t.ip, -1)
    /\ holder' = [holder EXCEPT ![t.ip] = None]
    /\ th' = [th EXCEPT ![p] = Put(t, t.ip, "idle")]
    /\ UNCHANGED <<dirents, cwd, ofile, panic>>

\* sys_link() with the old inode locked: count the new link, then look for the
\* new name's directory.
sys_link(p) ==
    LET t == th[p] IN
    /\ At(p, "link") /\ ilock(t.ip)
    /\ IF Loaded(t.ip).type = "dir"
         THEN /\ inode' = Load(t.ip)
              /\ th' = [th EXCEPT ![p] = Put(t, t.ip, "idle")]
              /\ UNCHANGED dinode
         ELSE \E i \in {ROOTINO, cwd[p]} :
              /\ inode' = iget(AddLink(Load(t.ip), t.ip, 1), i)
              /\ dinode' = AddLink(dinode, t.ip, 1)
              /\ th' = [th EXCEPT ![p] = Lookup([t EXCEPT !.op = "link_new", !.old = t.ip,
                                                          !.ip = i, !.path = t.new])]
    /\ UNCHANGED <<dirents, holder, cwd, ofile>>

\* dirlink() in the new name's directory: an existing entry is put while the
\* directory is locked.
link_new(p) ==
    LET t == th[p]
        c == dirents[t.ip][Head(t.path)]
    IN
    /\ At(p, "link_new") /\ ilock(t.ip)
    /\ IF c # NULL
         THEN /\ inode' = iget(Load(t.ip), c)
              /\ holder' = [holder EXCEPT ![t.ip] = p]
              /\ th' = [th EXCEPT ![p] = Put([t EXCEPT !.dp = t.ip], c, "link_exists")]
              /\ UNCHANGED dirents
         ELSE /\ inode' = Load(t.ip)
              /\ dirents' = [dirents EXCEPT ![t.ip][Head(t.path)] = t.old]
              /\ th' = [th EXCEPT ![p] = Put(t, t.ip, "link_done")]
              /\ UNCHANGED holder
    /\ UNCHANGED <<dinode, cwd, ofile>>

link_done(p) ==
    /\ At(p, "link_done")
    /\ th' = [th EXCEPT ![p] = Put(@, @.old, "idle")]
    /\ UNCHANGED <<dinode, dirents, inode, holder, cwd, ofile, panic>>

\* The label bad of sys_link(): take the count back.
link_bad(p) ==
    LET t == th[p] IN
    /\ At(p, "link_bad") /\ ilock(t.old)
    /\ inode' = AddLink(Load(t.old), t.old, -1)
    /\ dinode' = AddLink(dinode, t.old, -1)
    /\ th' = [th EXCEPT ![p] = Put(t, t.old, "idle")]
    /\ UNCHANGED <<dirents, holder, cwd, ofile>>
-----------------------------------------------------------------------------
Step(p) ==
    \/ iput(p) \/ itrunc(p) \/ unref(p) \/ namex(p)
    \/ sys_open(p) \/ sys_chdir(p)
    \/ create(p) \/ create_exists(p) \/ ialloc(p) \/ create_fill(p) \/ created(p)
    \/ sys_unlink(p) \/ unlink_ip(p) \/ unlock_dp(p) \/ unlinked(p)
    \/ sys_link(p) \/ link_new(p) \/ link_done(p) \/ link_bad(p)

Next == \E p \in Proc : start(p) \/ sys_close(p) \/ Step(p)

Spec == Init /\ [][Next]_vars
-----------------------------------------------------------------------------
(* Properties *)

TypeOK ==
    /\ dinode \in [Inum -> [type : {"none", "file", "dir", "dev"}, nlink : Nat]]
    /\ dirents \in [Inum -> [Elem -> Inum \cup {NULL}]]
    /\ inode \in [Inum -> [ref : Nat, valid : BOOLEAN, type : {"none", "file", "dir", "dev"}, nlink : Nat]]
    /\ holder \in [Inum -> Proc \cup {None}]
    /\ cwd \in [Proc -> Inum] /\ ofile \in [Proc -> Inum \cup {NULL}]

\* The names of an inode: entries of directories, other than "." and "..".
Names(i) == {d \in Inum \X Name : dirents[d[1]][d[2]] = i}

\* An open file and a current directory stay allocated, whoever unlinks them
\* (iput() frees an inode only with its last reference), as long as the kernel
\* runs.
InUseAllocated ==
    panic = "no" => \A p \in Proc : \A i \in {cwd[p], ofile[p]} \ {NULL} : dinode[i].type # "none"

\* link() counts a name before it appears and unlink() after it is gone, so an
\* inode is never freed while a directory still names it.
NamedAllocated ==
    \A i \in Inum : Names(i) # {} => dinode[i].type # "none" /\ dinode[i].nlink >= Cardinality(Names(i))

\* Inodes in use, by a process or by a name, are allocated, whatever system
\* calls run concurrently.
FsConsistent == TypeOK /\ InUseAllocated /\ NamedAllocated

\* The cache is write-through: what a valid entry says is what is on disk.
WriteThrough ==
    \A i \in Inum : inode[i].valid /\ inode[i].ref > 0
        => inode[i].type = dinode[i].type /\ inode[i].nlink = dinode[i].nlink

\* The sleep lock a process is about to take.
Wants(p) ==
    CASE th[p].pc = "iput" -> th[p].arg
      [] th[p].pc \in {"namex", "open", "chdir", "create", "mkdir", "mknod", "exists", "fill",
                       "unlink", "unlink_ip", "link", "link_new"} -> th[p].ip
      [] th[p].pc = "link_bad" -> th[p].old
      [] OTHER -> NULL

\* No two system calls wait for each other's inode (fs.c:150: "The separation
\* also helps avoid deadlock").
NoLockCycle ==
    ~ \E p, q \in Proc : /\ p # q /\ Wants(p) # NULL /\ Wants(q) # NULL
                         /\ holder[Wants(p)] = q /\ holder[Wants(q)] = p

\* "If that was the last reference and the inode has no links to it, free the
\* inode (and its content) on disk" (fs.c:328): nothing stays allocated that has
\* neither a link nor a reference.
LastPutFrees ==
    \A i \in Inum : inode[i].ref = 0 /\ dinode[i].nlink = 0 => dinode[i].type = "none"
=============================================================================
