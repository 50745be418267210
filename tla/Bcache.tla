------------------------------- MODULE Bcache -------------------------------
(* The buffer cache and the IDE driver under it: bio.c and ide.c, with what    *)
(* their callers do with a locked buffer.  A step is a region under            *)
(* bcache.lock or idelock, or an acquiresleep() or releasesleep().             *)
EXTENDS Integers, Sequences, FiniteSets

CONSTANTS
    Proc, Block, Val, InitVal, None,
    NBUF,      \* buffers in bcache.buf
    MaxPinned, \* bound on the blocks the log holds back, its LOGSIZE
    DiskError  \* whether a read may end with IDE_ERR or IDE_DF

ASSUME BcacheConstants ==
    /\ NBUF \in Nat \ {0} /\ MaxPinned \in Nat /\ DiskError \in BOOLEAN /\ IsFiniteSet(Proc)
    /\ InitVal \in Val /\ None \notin Proc /\ None \notin Block /\ None \notin 1..NBUF

Buf == 1..NBUF

VARIABLES
    lru,       \* the list from head.next (most recently used) to head.prev
    blockno, refcnt, valid, dirty, data,   \* struct buf
    holder,    \* the process that has b->lock
    idequeue, disk,
    busy,      \* the controller works on the request at the head of idequeue
    pc, cur, asleep,   \* of each process: where, with which buffer, asleep in iderw()
    panic

vars == <<lru, blockno, refcnt, valid, dirty, data, holder, idequeue, disk, busy, pc, cur, asleep, panic>>

\* binit(), with every buffer on no block (the code leaves dev = 0, which no
\* caller asks for).
Init ==
    /\ lru = [i \in Buf |-> NBUF + 1 - i]
    /\ blockno = [b \in Buf |-> None]
    /\ refcnt = [b \in Buf |-> 0]
    /\ valid = [b \in Buf |-> FALSE] /\ dirty = [b \in Buf |-> FALSE]
    /\ data = [b \in Buf |-> InitVal]
    /\ holder = [b \in Buf |-> None]
    /\ idequeue = <<>>
    /\ disk = [n \in Block |-> InitVal] /\ busy = FALSE
    /\ pc = [p \in Proc |-> "idle"] /\ cur = [p \in Proc |-> None]
    /\ asleep = [p \in Proc |-> FALSE]
    /\ panic = FALSE

At(p, l) == ~panic /\ pc[p] = l
Goto(p, l) == pc' = [pc EXCEPT ![p] = l]
-----------------------------------------------------------------------------
(* bread() and brelse() *)

Cached(n) == {b \in Buf : blockno[b] = n}
Free_IgnoreDirty == {b \in Buf : refcnt[b] = 0}
Free == {b \in Buf : refcnt[b] = 0 /\ ~dirty[b]}

\* bget() under bcache.lock finds the block cached.
bget_hit(p, n) ==
    /\ At(p, "idle") /\ Cached(n) # {}
    /\ \E b \in Cached(n) :
         /\ refcnt' = [refcnt EXCEPT ![b] = @ + 1]
         /\ cur' = [cur EXCEPT ![p] = b]
    /\ Goto(p, "acquiresleep")
    /\ UNCHANGED <<lru, blockno, valid, dirty, data, holder, idequeue, disk, busy, asleep, panic>>

\* The buffer the second loop of bget() stops at, from the least recently used.
Recycle(b) == \E i \in Buf : lru[i] = b /\ b \in Free /\ \A j \in i+1..NBUF : lru[j] \notin Free

bget_miss_Unlocked(p, n) ==
    /\ At(p, "idle")
    /\ IF Free = {}
         THEN panic' = TRUE /\ UNCHANGED <<blockno, refcnt, valid, dirty, cur, pc>>
         ELSE \E b \in Buf :
              /\ Recycle(b)
              /\ blockno' = [blockno EXCEPT ![b] = n]
              /\ valid' = [valid EXCEPT ![b] = FALSE]
              /\ dirty' = [dirty EXCEPT ![b] = FALSE]
              /\ refcnt' = [refcnt EXCEPT ![b] = 1]
              /\ cur' = [cur EXCEPT ![p] = b]
              /\ Goto(p, "acquiresleep")
              /\ UNCHANGED panic
    /\ UNCHANGED <<lru, data, holder, idequeue, disk, busy, asleep>>

bget_miss_KeepValid(p, n) ==
    /\ At(p, "idle") /\ Cached(n) = {}
    /\ IF Free = {}
         THEN panic' = TRUE /\ UNCHANGED <<blockno, refcnt, valid, dirty, cur, pc>>
         ELSE \E b \in Buf :
              /\ Recycle(b)
              /\ blockno' = [blockno EXCEPT ![b] = n]
              /\ UNCHANGED valid
              /\ dirty' = [dirty EXCEPT ![b] = FALSE]
              /\ refcnt' = [refcnt EXCEPT ![b] = 1]
              /\ cur' = [cur EXCEPT ![p] = b]
              /\ Goto(p, "acquiresleep")
              /\ UNCHANGED panic
    /\ UNCHANGED <<lru, data, holder, idequeue, disk, busy, asleep>>

\* bget() does not find it and recycles a buffer, in the same region.
bget_miss(p, n) ==
    /\ At(p, "idle") /\ Cached(n) = {}
    /\ IF Free = {}
         THEN panic' = TRUE /\ UNCHANGED <<blockno, refcnt, valid, dirty, cur, pc>>
         ELSE \E b \in Buf :
              /\ Recycle(b)
              /\ blockno' = [blockno EXCEPT ![b] = n]
              /\ valid' = [valid EXCEPT ![b] = FALSE]
              /\ dirty' = [dirty EXCEPT ![b] = FALSE]
              /\ refcnt' = [refcnt EXCEPT ![b] = 1]
              /\ cur' = [cur EXCEPT ![p] = b]
              /\ Goto(p, "acquiresleep")
              /\ UNCHANGED panic
    /\ UNCHANGED <<lru, data, holder, idequeue, disk, busy, asleep>>

\* The acquiresleep() at the end of bget(), and the test of B_VALID in bread().
bread(p) ==
    /\ At(p, "acquiresleep") /\ holder[cur[p]] = None
    /\ holder' = [holder EXCEPT ![cur[p]] = p]
    /\ Goto(p, IF valid[cur[p]] THEN "have" ELSE "iderw")
    /\ UNCHANGED <<lru, blockno, refcnt, valid, dirty, data, idequeue, disk, busy, cur, asleep, panic>>

\* brelse(): releasesleep(), then the reference and the list.
releasesleep(p) ==
    /\ At(p, "have")
    /\ holder' = [holder EXCEPT ![cur[p]] = None]
    /\ Goto(p, "brelse")
    /\ UNCHANGED <<lru, blockno, refcnt, valid, dirty, data, idequeue, disk, busy, cur, asleep, panic>>

\* The list with b taken out and put at the head.
MoveToHead(b) ==
    [i \in Buf |-> IF i = 1 THEN b
                   ELSE IF \E j \in i..NBUF : lru[j] = b THEN lru[i - 1] ELSE lru[i]]

brelse(p) ==
    LET b == cur[p] IN
    /\ At(p, "brelse")
    /\ refcnt' = [refcnt EXCEPT ![b] = @ - 1]
    /\ lru' = IF refcnt[b] = 1 THEN MoveToHead(b) ELSE lru
    /\ cur' = [cur EXCEPT ![p] = None]
    /\ Goto(p, "idle")
    /\ UNCHANGED <<blockno, valid, dirty, data, holder, idequeue, disk, busy, asleep, panic>>
-----------------------------------------------------------------------------
(* What the file system and the log do with a buffer they hold *)

\* A caller changes the data, and always goes on to log_write() or bwrite().
modify(p, v) ==
    /\ At(p, "have")
    /\ data' = [data EXCEPT ![cur[p]] = v]
    /\ Goto(p, "modified")
    /\ UNCHANGED <<lru, blockno, refcnt, valid, dirty, holder, idequeue, disk, busy, cur, asleep, panic>>

\* log_write() marks the buffer B_DIRTY so that it stays until the commit.
log_write(p) ==
    /\ At(p, "modified")
    /\ Cardinality({b \in Buf : dirty[b]} \cup {cur[p]}) <= MaxPinned
    /\ dirty' = [dirty EXCEPT ![cur[p]] = TRUE]
    /\ Goto(p, "have")
    /\ UNCHANGED <<lru, blockno, refcnt, valid, data, holder, idequeue, disk, busy, cur, asleep, panic>>

\* bwrite(): by a caller that changed the buffer, or by the commit.
bwrite(p) ==
    /\ At(p, "modified") \/ (At(p, "have") /\ dirty[cur[p]])
    /\ dirty' = [dirty EXCEPT ![cur[p]] = TRUE]
    /\ Goto(p, "iderw")
    /\ UNCHANGED <<lru, blockno, refcnt, valid, data, holder, idequeue, disk, busy, cur, asleep, panic>>
-----------------------------------------------------------------------------
(* The IDE driver *)

\* idestart(): the data of a write goes to the controller with the command.
idestart(b) ==
    /\ busy' = TRUE
    /\ disk' = IF dirty[b] THEN [disk EXCEPT ![blockno[b]] = data[b]] ELSE disk

\* iderw() under idelock, up to its first sleep().
iderw(p) ==
    LET b == cur[p] IN
    /\ At(p, "iderw")
    /\ IF valid[b] /\ ~dirty[b]
         THEN panic' = TRUE /\ UNCHANGED <<idequeue, disk, busy, asleep, pc>>
         ELSE /\ idequeue' = Append(idequeue, b)
              /\ IF idequeue = <<>> THEN idestart(b) ELSE UNCHANGED <<disk, busy>>
              /\ asleep' = [asleep EXCEPT ![p] = TRUE]
              /\ Goto(p, "iowait")
              /\ UNCHANGED panic
    /\ UNCHANGED <<lru, blockno, refcnt, valid, dirty, data, holder, cur>>

\* The loop of iderw() after a wakeup().
iderw_woken(p) ==
    /\ At(p, "iowait") /\ ~asleep[p]
    /\ IF valid[cur[p]] /\ ~dirty[cur[p]]
         THEN Goto(p, "have") /\ UNCHANGED asleep
         ELSE asleep' = [asleep EXCEPT ![p] = TRUE] /\ UNCHANGED pc
    /\ UNCHANGED <<lru, blockno, refcnt, valid, dirty, data, holder, idequeue, disk, busy, cur, panic>>

ideintr_KeepHead(ok) ==
    /\ ~panic /\ busy
    /\ LET b == Head(idequeue) IN
         /\ data' = IF ~dirty[b] /\ ok THEN [data EXCEPT ![b] = disk[blockno[b]]] ELSE data
         /\ valid' = [valid EXCEPT ![b] = TRUE]
         /\ dirty' = [dirty EXCEPT ![b] = FALSE]
         /\ asleep' = [p \in Proc |-> asleep[p] /\ cur[p] # b]
    /\ UNCHANGED <<idequeue, busy, disk>>
    /\ UNCHANGED <<lru, blockno, refcnt, holder, pc, cur, panic>>

\* ideintr(): the request at the head is done.  B_VALID is set even if the
\* status says that a read failed, and the data is then what it was.
ideintr(ok) ==
    /\ ~panic /\ busy
    /\ LET b == Head(idequeue) IN
         /\ idequeue' = Tail(idequeue)
         /\ data' = IF ~dirty[b] /\ ok THEN [data EXCEPT ![b] = disk[blockno[b]]] ELSE data
         /\ valid' = [valid EXCEPT ![b] = TRUE]
         /\ dirty' = [dirty EXCEPT ![b] = FALSE]
         /\ asleep' = [p \in Proc |-> asleep[p] /\ cur[p] # b]
    /\ IF Len(idequeue) > 1 THEN idestart(idequeue[2]) ELSE busy' = FALSE /\ UNCHANGED disk
    /\ UNCHANGED <<lru, blockno, refcnt, holder, pc, cur, panic>>

\* panic() spins.
stopped == panic /\ UNCHANGED vars

Step(p) ==
    \/ bread(p) \/ releasesleep(p) \/ brelse(p) \/ log_write(p) \/ bwrite(p)
    \/ iderw(p) \/ iderw_woken(p)

Interrupt == \E ok \in {TRUE} \cup {~DiskError} : ideintr(ok)

Next ==
    \/ \E p \in Proc :
         \/ Step(p)
         \/ \E n \in Block : bget_hit(p, n) \/ bget_miss(p, n)
         \/ \E v \in Val : modify(p, v)
    \/ Interrupt \/ stopped

Spec == Init /\ [][Next]_vars

\* The disk answers, and the scheduler runs who is awake.
FairSpec == Spec /\ WF_vars(Interrupt) /\ \A p \in Proc : WF_vars(iderw(p)) /\ WF_vars(iderw_woken(p))
-----------------------------------------------------------------------------
(* Properties *)

TypeOK ==
    /\ lru \in [Buf -> Buf] /\ blockno \in [Buf -> Block \cup {None}]
    /\ refcnt \in [Buf -> 0..Cardinality(Proc)]
    /\ valid \in [Buf -> BOOLEAN] /\ dirty \in [Buf -> BOOLEAN]
    /\ data \in [Buf -> Val] /\ disk \in [Block -> Val]
    /\ holder \in [Buf -> Proc \cup {None}]
    /\ idequeue \in Seq(Buf)
    /\ pc \in [Proc -> {"idle", "acquiresleep", "have", "modified", "iderw", "iowait", "brelse"}]
    /\ cur \in [Proc -> Buf \cup {None}] /\ asleep \in [Proc -> BOOLEAN]
    /\ panic \in BOOLEAN /\ busy \in BOOLEAN

Content(n) ==
    IF \E b \in Cached(n) : valid[b] THEN data[CHOOSE b \in Cached(n) : valid[b]] ELSE disk[n]

Owner(n) ==
    IF \E b \in Cached(n) : holder[b] # None /\ valid[b]
      THEN holder[CHOOSE b \in Cached(n) : holder[b] # None /\ valid[b]] ELSE None

\* Recycling, reading ahead of use, waiting for the disk and writing back never
\* change what a block holds: the cache and the driver are one locked copy of
\* every block (bget(), bread(), brelse(), iderw(), ideintr()).
Store == INSTANCE BlockStore WITH content <- [n \in Block |-> Content(n)], owner <- [n \in Block |-> Owner(n)]

StoreSpec == Store!Spec

\* A block is in one buffer at most, also between bget()'s two loops and while
\* processes wait for the buffer.
OneBuffer == \A b, c \in Buf : blockno[b] = blockno[c] /\ blockno[b] # None => b = c

Users(b) == {p \in Proc : cur[p] = b}

RefsCounted == \A b \in Buf : refcnt[b] = Cardinality(Users(b))

QueueSound ==
    /\ \A i, j \in DOMAIN idequeue : idequeue[i] = idequeue[j] => i = j
    /\ \A i \in DOMAIN idequeue : \E p \in Proc : pc[p] = "iowait" /\ cur[p] = idequeue[i]
    /\ busy <=> idequeue # <<>>

ListWhole == {lru[i] : i \in Buf} = Buf

\* A buffer keeps its block while anybody has it, waits for it, or the disk
\* works on it: everyone's buffer is counted in refcnt, the list holds every
\* buffer once, and the controller is at work whenever somebody waits for it.
Counted == RefsCounted /\ QueueSound /\ ListWhole

\* bget() runs out of buffers only when those the log pins and those other
\* processes hold are all there are (no path loses a buffer), and iderw() always
\* has something to do.
PanicOnlyWhenFull ==
    panic => Buf = {b \in Buf : dirty[b]} \cup {cur[p] : p \in {q \in Proc : pc[q] # "idle"}}

\* The cache's bookkeeping holds together: one buffer per block, every use of a
\* buffer counted (bget(), brelse(), iderw(), ideintr()), and none lost.
CacheConsistent == TypeOK /\ OneBuffer /\ Counted /\ PanicOnlyWhenFull

\* "Return a locked buf with the contents of the indicated block" (bio.c:95).
BreadReturnsContents ==
    \A p \in Proc : pc[p] = "have" /\ ~dirty[cur[p]] => data[cur[p]] = disk[blockno[cur[p]]]

\* A request to the disk completes and its process goes on.
RequestCompletes == \A p \in Proc : pc[p] = "iowait" ~> pc[p] # "iowait" \/ panic
=============================================================================
