-------------------------------- MODULE Log --------------------------------
(* The write-ahead redo log of log.c: concurrent file-system system calls     *)
(* bracketed by begin_op()/end_op(), group commit by the last one to end, and *)
(* recovery by initlog() after a crash at any instruction.                    *)
(*                                                                            *)
(* Block 0 is the log header (log.start), 1..log.size-1 the log's data blocks *)
(* and the blocks after them are the home locations mkfs places there (the    *)
(* inodes first).  A disk write of one block is atomic; the contents of a     *)
(* block are opaque.  The log's spin lock makes the bodies of begin_op(),     *)
(* end_op() and the second half of log_write() atomic; sleep() and wakeup()   *)
(* on &log are modelled by the pc "asleep", their own atomicity in Sched.     *)
EXTENDS Integers, Sequences, FiniteSets

CONSTANTS
    Proc,          \* processes that make file-system system calls
    Val,           \* what a block can hold
    InitVal,       \* what mkfs wrote everywhere
    Absent,        \* no buffer caches the block
    NHOME,         \* number of home blocks
    MAXOPBLOCKS,   \* param.h: max # of blocks any FS op writes
    OPBLOCKS,      \* the most blocks a system call does log; see FileData
    LOGSIZE,       \* param.h: max data blocks in on-disk log
    NLOG           \* sb.nlog, the size of the log on disk, header included

ASSUME LogConstants ==
    /\ InitVal \in Val /\ Absent \notin Val
    /\ NHOME \in Nat \ {0}
    /\ MAXOPBLOCKS \in Nat \ {0} /\ OPBLOCKS \in Nat \ {0}
    /\ LOGSIZE \in Nat /\ LOGSIZE >= MAXOPBLOCKS
    /\ NLOG \in Nat /\ NLOG >= 2
    /\ IsFiniteSet(Proc)

VARIABLES
    outstanding,   \* log.outstanding
    committing,    \* log.committing
    lh,            \* log.lh in memory: the sequence block[0..n-1]
    head,          \* the header block on disk, also a sequence
    disk,          \* every other block on disk
    cache,         \* the buffer cache: a value, or Absent
    dirty,         \* blocks whose buffer has B_DIRTY
    pc,            \* where each process is
    cur,           \* the buffer a process has locked in log_write's caller
    wrote,         \* the blocks the current system call of a process has logged
    tail,          \* the loop counter of write_log() and install_trans()
    sys            \* the step of initlog(), then "up", or the message of a panic

vars == <<outstanding, committing, lh, head, disk, cache, dirty, pc, cur, wrote, tail, sys>>

Home == NLOG .. NLOG + NHOME - 1
DataBlock == 1 .. NLOG + NHOME - 1
NoBlock == 0

\* What bread(b) returns in b->data.
View(b) == IF cache[b] = Absent THEN disk[b] ELSE cache[b]

InOp(p) == pc[p] \in {"op", "mod", "append"}
Pc == {"idle", "begin", "asleep", "op", "mod", "append",
       "write_log", "write_head", "install", "erase", "end_commit"}
Panics == {"too big a transaction", "log_write outside of trans", "log.committing"}
Committer(p) == pc[p] \in {"write_log", "write_head", "install", "erase", "end_commit"}
OpSet == {p \in Proc : InOp(p)}
Recovering == sys \in {"read_head", "install", "erase"}
-----------------------------------------------------------------------------
Init ==
    /\ outstanding = 0 /\ committing = FALSE
    /\ lh = << >> /\ head = << >>
    /\ disk = [b \in DataBlock |-> InitVal]
    /\ cache = [b \in DataBlock |-> Absent]
    /\ dirty = {}
    /\ pc = [p \in Proc |-> "idle"]
    /\ cur = [p \in Proc |-> NoBlock]
    /\ wrote = [p \in Proc |-> {}]
    /\ tail = 0
    /\ sys = "read_head"

\* wakeup(&log): every process asleep on &log runs again and retests.
Wakeup(f) == [p \in Proc |-> IF f[p] = "asleep" THEN "begin" ELSE f[p]]

MustWait_NoCommitting == Len(lh) + (outstanding + 1) * MAXOPBLOCKS > LOGSIZE

\* begin_op() waits for a commit to end, and for enough room in the log.
MustWait == committing \/ Len(lh) + (outstanding + 1) * MAXOPBLOCKS > LOGSIZE

\* begin_op(): wait while committing or while the log might run out of space.
begin_op(p) ==
    /\ sys = "up" /\ pc[p] \in {"idle", "begin"}
    /\ IF MustWait
         THEN /\ pc' = [pc EXCEPT ![p] = "asleep"]
              /\ UNCHANGED outstanding
         ELSE /\ outstanding' = outstanding + 1
              /\ pc' = [pc EXCEPT ![p] = "op"]
    /\ UNCHANGED <<committing, lh, head, disk, cache, dirty, cur, wrote, tail, sys>>

\* bp = bread(...); modify bp->data[]: the caller of log_write() holds the
\* buffer's sleep lock, and logs at most OPBLOCKS distinct blocks.
modify(p, b, v) ==
    /\ sys = "up" /\ pc[p] = "op"
    /\ \A q \in Proc : cur[q] # b
    /\ Cardinality(wrote[p] \cup {b}) <= OPBLOCKS
    /\ cache' = [cache EXCEPT ![b] = v]
    /\ cur' = [cur EXCEPT ![p] = b]
    /\ pc' = [pc EXCEPT ![p] = "mod"]
    /\ UNCHANGED <<outstanding, committing, lh, head, disk, dirty, wrote, tail, sys>>

\* The panics of log_write(): the transaction would outgrow lh.block[] or the
\* log on disk, or there is none; "up" when it goes on.
TooBig == Len(lh) >= LOGSIZE \/ Len(lh) >= NLOG - 1
LogWriteChecks ==
    IF TooBig THEN "too big a transaction"
    ELSE IF outstanding < 1 THEN "log_write outside of trans"
    ELSE "up"

\* log_write(), up to acquire(): the checks are made without log.lock.
log_write_check(p) ==
    /\ sys = "up" /\ pc[p] = "mod"
    /\ sys' = LogWriteChecks
    /\ pc' = [pc EXCEPT ![p] = IF sys' = "up" THEN "append" ELSE @]
    /\ UNCHANGED <<outstanding, committing, lh, head, disk, cache, dirty, cur, wrote, tail>>

\* log_write() under log.lock: absorb or append, pin the buffer; then brelse().
log_write_append(p) ==
    /\ sys = "up" /\ pc[p] = "append"
    /\ lh' = IF \E i \in 1..Len(lh) : lh[i] = cur[p] THEN lh ELSE Append(lh, cur[p])
    /\ dirty' = dirty \cup {cur[p]}
    /\ wrote' = [wrote EXCEPT ![p] = @ \cup {cur[p]}]
    /\ cur' = [cur EXCEPT ![p] = NoBlock]
    /\ pc' = [pc EXCEPT ![p] = "op"]
    /\ UNCHANGED <<outstanding, committing, head, disk, cache, tail, sys>>

\* end_op() up to release(): the last system call to end becomes the committer.
\* commit() then skips the four writes when nothing was logged.
end_op(p) ==
    /\ sys = "up" /\ pc[p] = "op"
    /\ outstanding' = outstanding - 1
    /\ wrote' = [wrote EXCEPT ![p] = {}]
    /\ IF committing
         THEN sys' = "log.committing" /\ UNCHANGED <<committing, pc>>
         ELSE /\ UNCHANGED sys
              /\ IF outstanding' = 0
                   THEN /\ committing' = TRUE
                        /\ pc' = [pc EXCEPT ![p] = IF lh = << >> THEN "end_commit" ELSE "write_log"]
                   ELSE /\ UNCHANGED committing
                        /\ pc' = Wakeup([pc EXCEPT ![p] = "idle"])
    /\ UNCHANGED <<lh, head, disk, cache, dirty, cur, tail>>

\* bwrite(b) with data v: the driver writes the block and clears B_DIRTY.
Bwrite(b, v) ==
    /\ cache' = [cache EXCEPT ![b] = v]
    /\ disk' = [disk EXCEPT ![b] = v]
    /\ dirty' = dirty \ {b}

write_log_HeadFirst(p) ==
    /\ sys = "up" /\ pc[p] = "write_log"
    /\ \/ /\ tail < Len(lh)
          /\ Bwrite(tail + 1, View(lh[tail + 1]))
          /\ tail' = tail + 1
          /\ head' = lh
          /\ UNCHANGED pc
       \/ /\ tail = Len(lh)
          /\ tail' = 0
          /\ pc' = [pc EXCEPT ![p] = "install"]
          /\ UNCHANGED <<head, cache, disk, dirty>>
    /\ UNCHANGED <<outstanding, committing, lh, cur, wrote, sys>>

\* One iteration of write_log(): cache block to log block.
write_log(p) ==
    /\ sys = "up" /\ pc[p] = "write_log"
    /\ \/ /\ tail < Len(lh)
          /\ Bwrite(tail + 1, View(lh[tail + 1]))
          /\ tail' = tail + 1
          /\ UNCHANGED pc
       \/ /\ tail = Len(lh)
          /\ tail' = 0
          /\ pc' = [pc EXCEPT ![p] = "write_head"]
          /\ UNCHANGED <<cache, disk, dirty>>
    /\ UNCHANGED <<outstanding, committing, lh, head, cur, wrote, sys>>

\* write_head(): the real commit.
write_head(p) ==
    /\ sys = "up" /\ pc[p] = "write_head"
    /\ head' = lh
    /\ pc' = [pc EXCEPT ![p] = "install"]
    /\ UNCHANGED <<outstanding, committing, lh, disk, cache, dirty, cur, wrote, tail, sys>>

\* One iteration of install_trans(): log block to home location.
InstallOne ==
    /\ tail < Len(lh)
    /\ Bwrite(lh[tail + 1], View(tail + 1))
    /\ tail' = tail + 1

install_trans_OneShort(p) ==
    /\ sys = "up" /\ pc[p] = "install"
    /\ \/ tail + 1 < Len(lh) /\ InstallOne /\ UNCHANGED pc
       \/ /\ tail + 1 >= Len(lh)
          /\ tail' = 0
          /\ pc' = [pc EXCEPT ![p] = "erase"]
          /\ UNCHANGED <<cache, disk, dirty>>
    /\ UNCHANGED <<outstanding, committing, lh, head, cur, wrote, sys>>

install_trans(p) ==
    /\ sys = "up" /\ pc[p] = "install"
    /\ \/ InstallOne /\ UNCHANGED pc
       \/ /\ tail = Len(lh)
          /\ tail' = 0
          /\ pc' = [pc EXCEPT ![p] = "erase"]
          /\ UNCHANGED <<cache, disk, dirty>>
    /\ UNCHANGED <<outstanding, committing, lh, head, cur, wrote, sys>>

\* log.lh.n = 0; write_head(): erase the transaction from the log.
erase(p) ==
    /\ sys = "up" /\ pc[p] = "erase"
    /\ lh' = << >> /\ head' = << >>
    /\ pc' = [pc EXCEPT ![p] = "end_commit"]
    /\ UNCHANGED <<outstanding, committing, disk, cache, dirty, cur, wrote, tail, sys>>

end_commit_NoWakeup(p) ==
    /\ sys = "up" /\ pc[p] = "end_commit"
    /\ committing' = FALSE
    /\ pc' = [pc EXCEPT ![p] = "idle"]
    /\ UNCHANGED <<outstanding, lh, head, disk, cache, dirty, cur, wrote, tail, sys>>

\* The tail of end_op(): let the waiting system calls in.
end_commit(p) ==
    /\ sys = "up" /\ pc[p] = "end_commit"
    /\ committing' = FALSE
    /\ pc' = Wakeup([pc EXCEPT ![p] = "idle"])
    /\ UNCHANGED <<outstanding, lh, head, disk, cache, dirty, cur, wrote, tail, sys>>

\* bget() recycles a buffer that is neither referenced nor B_DIRTY.
evict(b) ==
    /\ sys = "up" /\ cache[b] # Absent
    /\ b \notin dirty /\ \A p \in Proc : cur[p] # b
    /\ cache' = [cache EXCEPT ![b] = Absent]
    /\ UNCHANGED <<outstanding, committing, lh, head, disk, dirty, pc, cur, wrote, tail, sys>>

\* Power failure, or the reset after a panic: memory is lost.
crash ==
    /\ outstanding' = 0 /\ committing' = FALSE
    /\ lh' = << >>
    /\ cache' = [b \in DataBlock |-> Absent]
    /\ dirty' = {}
    /\ pc' = [p \in Proc |-> "idle"]
    /\ cur' = [p \in Proc |-> NoBlock]
    /\ wrote' = [p \in Proc |-> {}]
    /\ tail' = 0
    /\ sys' = "read_head"
    /\ UNCHANGED <<head, disk>>

\* recover_from_log(), called by initlog() before any system call runs.
recover_read_head ==
    /\ sys = "read_head"
    /\ lh' = head
    /\ sys' = "install"
    /\ UNCHANGED <<outstanding, committing, head, disk, cache, dirty, pc, cur, wrote, tail>>

recover_install ==
    /\ sys = "install"
    /\ \/ InstallOne /\ UNCHANGED sys
       \/ /\ tail = Len(lh)
          /\ tail' = 0
          /\ sys' = "erase"
          /\ UNCHANGED <<cache, disk, dirty>>
    /\ UNCHANGED <<outstanding, committing, lh, head, pc, cur, wrote>>

recover_erase ==
    /\ sys = "erase"
    /\ lh' = << >> /\ head' = << >>
    /\ sys' = "up"
    /\ UNCHANGED <<outstanding, committing, disk, cache, dirty, pc, cur, wrote, tail>>

Recover == recover_read_head \/ recover_install \/ recover_erase
commit(p) == write_log(p) \/ write_head(p) \/ install_trans(p) \/ erase(p) \/ end_commit(p)

Next ==
    \/ \E p \in Proc : begin_op(p) \/ log_write_check(p) \/ log_write_append(p) \/ end_op(p) \/ commit(p)
    \/ \E p \in Proc, b \in Home, v \in Val : modify(p, b, v)
    \/ \E b \in DataBlock : evict(b)
    \/ Recover
    \/ crash

Spec == Init /\ [][Next]_vars

\* A process inside the kernel keeps running (the scheduler is round robin and
\* the disk answers); a system call makes finitely many writes.
Fairness ==
    /\ \A p \in Proc :
        /\ WF_vars(pc[p] = "begin" /\ begin_op(p))
        /\ WF_vars(log_write_check(p) \/ log_write_append(p))
        /\ SF_vars(end_op(p))
        /\ WF_vars(commit(p))
    /\ WF_vars(Recover)

FairSpec == Spec /\ Fairness
-----------------------------------------------------------------------------
(* Properties *)

TypeOK ==
    /\ outstanding \in Nat
    /\ committing \in BOOLEAN
    /\ lh \in Seq(Home) /\ head \in Seq(Home)
    /\ disk \in [DataBlock -> Val]
    /\ cache \in [DataBlock -> Val \cup {Absent}]
    /\ dirty \subseteq Home
    /\ pc \in [Proc -> Pc]
    /\ cur \in [Proc -> Home \cup {NoBlock}]
    /\ wrote \in [Proc -> SUBSET Home]
    /\ tail \in Nat
    /\ sys \in {"read_head", "install", "erase", "up"} \cup Panics

\* What recovery would make of the disk as it is: home blocks, overlaid with
\* the log blocks the header on disk names.
Recovered ==
    [b \in Home |-> IF \E i \in 1..Len(head) : head[i] = b
                     THEN disk[CHOOSE i \in 1..Len(head) : head[i] = b]
                     ELSE disk[b]]

Current == [b \in Home |-> View(b)]

Tx == INSTANCE TxDisk WITH
        Block <- Home,
        stable <- Recovered,
        current <- IF Recovering THEN Recovered ELSE Current,
        open <- OpSet

\* Crash atomicity: whatever the interleaving of system calls, commit steps,
\* evictions and crashes (also during recovery), the logged disk behaves as one
\* on which transactions become durable atomically between system calls.
CrashAtomic == Tx!Spec

\* When no system call is active and no commit is running, all the writes of
\* the finished system calls are durable: end_op() of the last one of a group
\* does not return before.
QuiescentDurable ==
    sys = "up" /\ outstanding = 0 /\ ~committing => Recovered = Current

\* commit() runs alone: one committer, and no system call inside its
\* transaction while it runs ("there is never any reasoning required about
\* whether a commit might write an uncommitted system call's updates").
CommitExclusive ==
    /\ committing => \A p \in Proc : ~InOp(p)
    /\ \A p, q \in Proc : Committer(p) /\ Committer(q) => p = q

\* A process asleep in begin_op() has somebody left to wake it.
NoLostWakeup ==
    sys = "up" /\ (\E p \in Proc : pc[p] = "asleep") => committing \/ outstanding > 0

\* The panics that guard the protocol between system calls and the log
\* (log_write() outside a transaction, end_op() during a commit) never fire.
NoProtocolPanic == sys \notin {"log_write outside of trans", "log.committing"}

\* What begin_op(), end_op() and commit() keep true of the log between them: its
\* types, a commit that runs alone, and no panic over the protocol.
LogConsistent == TypeOK /\ CommitExclusive /\ NoProtocolPanic

\* The transaction being committed fits the log's data blocks on disk, as the
\* test of log_write() against log.size - 1 is there to ensure.
LogInRegion == Len(lh) <= NLOG - 1

\* A process asleep in begin_op() is woken, unless the kernel panics.
SleeperWoken ==
    \A p \in Proc : pc[p] = "asleep" ~> (pc[p] # "asleep" \/ sys \in Panics)
=============================================================================
