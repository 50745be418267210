# TLA+ models of xv6 and its course labs

The repository holds the xv6 kernel (`code/xv6-public/`) and a set of labs that
change it. This directory models the parts of both in which state is shared
between processes, CPUs, interrupts or crashes, and the algorithms they rest on.
TLC checks every model on small instances; TLAPS proves the main safety
properties of the scheduler, the process table, pipes, the buffer cache, the log
and two labs' primitives for every value of the constants.

File names without a directory are those of `code/xv6-public/`.

Contents: 1 the system and the modules, 2 how each module follows the code,
3 the runs, 4 fairness, 5 mutants, 6 proofs, 7 where code and documentation
disagree, 8 hazards, 9 what is not modelled.

## 1. The system and the modules

Every CPU runs `scheduler()` or a process; a process enters the kernel by a
system call, a fault or an interrupt. Kernel data is protected by spin locks,
which turn interrupts off, and by sleep locks, which give the CPU up. Everything
that waits does so with `sleep()` and `wakeup()`. The file system is a stack:
system calls, inodes and directories, transactions, the buffer cache, the disk
driver. Pipes and the console are the other things a descriptor can name.
Memory is handed out by `kalloc.c` and mapped by `vm.c`; `exec.c` builds an address
space from a file. `mkfs.c` builds the disk image on the host. `init.c` starts the
shell, `sh.c` everything else.

| Part | Source | Module | Abstract specification | Proofs |
|---|---|---|---|---|
| spin and sleep locks, context switch, sleep/wakeup | spinlock.c, sleeplock.c, proc.c, trap.c | `Sched` | | `SchedProofs` |
| fork, exit, wait, kill | proc.c, trap.c | `ProcTable` | | `ProcTableProofs` |
| pipes | pipe.c, file.c | `Pipe` | `PipeFifo` | `PipeProofs` |
| buffer cache, IDE driver | bio.c, ide.c | `Bcache` | `BlockStore` | `BcacheSteps`, `BcacheProofs` |
| write-ahead log, recovery | log.c | `Log` | `TxDisk` | `LogSteps`, `LogProofs` |
| inode cache, directories, their system calls | fs.c, sysfile.c | `FsOps` | | |
| contents of files, block allocation | fs.c, file.c, lab 10 | `FileData`, `BlockMap` | `FileBytes` | |
| open files and descriptors, ends of pipes | file.c, sysfile.c, pipe.c | `FileTable` | | |
| shell and init | sh.c, init.c | `Shell` | | |
| physical pages, address spaces, exec | kalloc.c, vm.c, exec.c, proc.c | `Memory` | | |
| console | console.c | `Console` | `Typed` | |
| disk image | mkfs.c, lab 10 | `Mkfs`, `BlockMap` | | |
| user allocator | umalloc.c | `Umalloc` | | |
| clock, sleep(n), scheduling policies | labs 05 and 06, getptable of lab 04 | `Policies` | | |
| mailboxes | lab-messages | `Mailbox` | | `ProcTableProofs` |
| semaphores | lab-threads | `Semaphore` | | `SchedProofs` |

`MCLog`, `MCPipe`, `MCFsOps`, `MCFileData`, `MCShell`, `MCMemory` and `MCServices` give the
constants of these modules their values for a run. `PROJECT.json` names for every
definition the lines it models.

Each model takes from the layer below the promise that layer's own module
establishes:

- `Sched` shows that `sleep()` is atomic with respect to the lock passed to it, that
  a sleep lock has one holder and that a RUNNABLE process runs. The others treat
  "asleep" as a place a process is in, take a sleep lock in one step, and assume
  fairness of a process that can run.
- `Bcache` implements `BlockStore`, one locked copy of every block. `Log` keeps the
  one thing that shows through: a buffer may be evicted unless it is `B_DIRTY`.
- `Log` implements `TxDisk`, a disk on which a group of system calls becomes durable
  at once. `FsOps` and `FileData` therefore have no crashes: a crash takes them
  back to a state between system calls. `FileData` counts what a transaction logs.
- `Pipe` implements `PipeFifo`; `Shell` uses a pipe as that bounded queue, by its length.
- `Shell` runs on the operators of `FileTable`; `FileData` and `Mkfs` share `BlockMap`, the
  kernel's way to a block.

## 2. How each module follows the code

Actions have the names of the functions they model. A function that sleeps, drops
its lock or allocates is several actions, named after it and the point reached; a
`pc` says which comes next. Definitions such as `exit_NoReparent`, in front of the
definition they resemble, are plausible mistakes in that function: no
specification uses them, and section 5 does.

**Sched.** `lock` (`ptable.lock` and the `lk` of a sleep lock), `ncli`, `intena`, `fl_if`
and `cproc` per CPU, `spc` and `scan` (where its scheduler is), `state`, `chan`, `pc`, the
`saved` flag of `sched()`, `intr` (what a timer interrupt interrupted) and the sleep
lock's `locked`. `acquire()` is `pushcli` and `xchg`, so that others run while it
spins; `Acquires` and `Releases` give, for every call site, the lock and where
control goes next. `run`, `sched`, `sleeping`, `tidy`, `wakeup1`, `runnable`, `test` and
`clear` are the code between such calls. Timer interrupts arrive wherever
interrupts are on, also between `popcli()` and the next instruction, and preempt
through `yield()`. `pushcli()` is one step although it reads the flags before
`cli()`: an interrupt in between returns with the flags it found, and `mycpu()` is
called after `cli()`. The panics of `acquire()`, `release()`, `popcli()` and
`sched()` are there; those of `mycpu()`, of `sleep()` without a process or a lock and of
a zombie that runs on are not.

**ProcTable.** `state`, `pid`, `parent`, `killed` per entry, and whether it holds a
`kstack`, a `pgdir`, `files`. `fork()` is `allocproc`, `allocproc_kstack` or
`allocproc_fails`, `fork_copy` or `fork_fails`, `fork_runnable`, without the lock in
between; `exit()` is `exit_close` and, under the lock, `exit`; `wait()` is `sys_wait`, then
`wait_reap`, `wait_fails` or `wait_sleep`. RUNNABLE also stands for RUNNING. `named` is
a history variable.

**Pipe.** The ring, `nread` and `nwrite` modulo `UINT`, both `open` flags, and the
references that `fileclose()` counts. A step is what runs under `p->lock` from one
`sleep()` to the next.

**Bcache.** The LRU list, the fields of every buffer, the driver's queue and whether
the controller is busy; `bget_hit`, `bget_miss`, `bread`, `bwrite`, `brelse`, `iderw`,
`iderw_woken`, `ideintr`. Ports and status bits are reduced to started, done, failed.
`DiskError` says whether the controller reports read errors.

**Log.** `lh` and `head` are the header in memory and on disk, `disk` and `cache` the
blocks on disk and in buffers, `dirty` what `log_write()` pinned. `log_write_check` and
`log_write_append` are the halves of `log_write()`, whose first tests run without
the lock. `commit()` writes one block per step; `crash` is possible at every step,
also during recovery. A call may log up to `OPBLOCKS` blocks, which need not be the
`MAXOPBLOCKS` that `begin_op()` reserves (section 7).

**FsOps.** `dinode` and `dirents` on disk, `inode` the cache, `holder` the inode locks, `th`
the locals of the call each process is in, `cwd` and `ofile`. `open`, `close`, `mkdir`,
`mknod`, `link`, `unlink` and `chdir`, with every error path that holds a reference or
a lock. A step takes one inode lock or runs between two.

**FileData.** The bitmap, the blocks (bytes or block numbers), `addrs` and `size` of every
inode, open files with offsets. `bmap`, `writei`, `readi`, `itrunc`, `balloc` are operators;
`filewrite` cuts a write into pieces, each its own transaction and its own step.
`Piece` also counts the distinct blocks a piece logs: bitmap, data, the block of
block numbers and the inode. `geo` is the layout of xv6 or one of lab 10's kernels.
`result` is what a read returned.

**FileTable, Shell.** `FileTable` has `filealloc`, `filedup`, `fileclose`, `fdalloc`, `dup`,
`close`, `open`, `pipe` and `pipealloc` as operators on the kernel's tables, each with
its failures. In `Shell` a process is the list of calls it has still to make, as
`runcmd()` makes them; a failing call jumps to what the code does then. `main` reads
a command and forks, `main_eof` is ^D; a `fork1()` that fails ends the process that
called it, sh included. `init_fork` and `init_wait` are init's loop, which starts sh again and exits, a kernel panic, when its `fork()` fails.

**Memory.** The free pages, and per process its state `pstate`, kernel stack, page
directory with what it points to, size, and the system call it is in with its
locals. Each `kalloc()` is a step, so processes compete for the last page. `fork`,
`exec`, `sbrk`, `exit` and `wait` with every `bad:` label. Addresses wrap as uints do.

**Console.** The ring with indices modulo `WRAP`, readers, kills, the cursor.
`consoleintr`, `consoleintr_kill`, `consoleintr_erase`, `consoleread`, `consolewrite`.

**Mkfs, Umalloc.** `main_file`, `main_read`, `main_done` with `iappend` of xv6 and of two of
lab 10's kernels; `malloc` (with `morecore`), `free`, and the program's own `sbrk()`.

**Policies.** The table with the fields the policies compare, `ticks`, `timer` (how far
CPU 0's clock interrupt has got: it takes `ptable.lock` three times and others go
on in between), `run`, and `scan`, the place of lab 05's `scheduler()` on each CPU. That
scheduler goes on behind the entry it ran, and holds `ptable.lock` from the switch
back to the next choice (`scheduler_again`). The six policies of lab 06 are
`ready_DEFAULT`, `ready_PRIORITY`, `ready_FCFS`, `ready_CFS`, `ready_SML`, `ready_LOTTERY`. `behind`
is a history variable.

**Mailbox, Semaphore.** `sendmsg` tests for a full queue before the lock; the model
stops at the first copy past the queue. The semaphore takes any ints, and a
`sem_init()` of one in use returns with its lock held. `put`, `got`, `minus` and
`missed` are history variables.

## 3. The runs

Times are for two workers. A run's properties are listed in its `.cfg`.

| Run | Instance | What it shows |
|---|---|---|
| `log` | 2 processes, 2 home blocks, LOGSIZE 3, MAXOPBLOCKS 1, calls of up to 2 blocks, region of 4 | The log implements `TxDisk` (`CrashAtomic`): a crash keeps all of a group or nothing, also when recovery is interrupted. When nothing runs, what a crash would leave is what readers see (`QuiescentDurable`). Commit runs alone and no protocol panic fires (`LogConsistent`). Nobody sleeps in `begin_op()` without a reason (`NoLostWakeup`), and sleepers are woken (`SleeperWoken`). 1.5 min |
| `log_overrun` | 3 processes, 3 home blocks, region of LOGSIZE blocks as mkfs makes it | `LogInRegion` is violated, section 7 |
| `sched_live` | 1 CPU, 3 processes | Round robin reaches every process (`RunnableRuns`); sleepers are woken (`SleeperWakes`). 40 s |
| `proc` | 4 entries, 4 pids, `kill()` of 0, 3 and 4 | Distinct pids, live parents, no vain sleep in `wait()` (`TableConsistent`); no leak on any path (`NoLeak`); killed processes exit (`KilledExits`); init reaps what it inherits (`OrphanReaped`). 2.5 min |
| `pipe` | 2 writers, 1 reader, PIPESIZE 2, counters modulo 4, texts of 1 and 3 bytes | The ring implements `PipeFifo` (`FifoSpec`); the page is freed once, after its last user, and nobody sleeps in vain (`PipeSafe`); sleepers are woken (`SleeperWoken`). 2 min |
| `bcache` | 2 processes, 3 blocks, 2 buffers, 1 pinned block | The cache implements `BlockStore` (`StoreSpec`); one buffer per block, exact reference counts (`CacheConsistent`); `bread()` returns the last contents (`BreadReturnsContents`); requests complete (`RequestCompletes`). 2 min |
| `fs` | 2 processes, 3 inodes, 1 name: one works on files, the other on directories | Nothing in use or named is free (`FsConsistent`); the inode cache never disagrees with the disk (`WriteThrough`). 2 min |
| `fs_deadlock` | 2 processes on the root and one name | `NoLockCycle` is violated, section 7 |
| `memory` | two parts, below | `MemorySound`, `ImageSound`, `LostOnlyByCopyuvm`, `ImageHandedOver`; `SchedSafe`, `NoLostWakeup`, `InterruptsRestored`. 2 min |
| `services` | seven parts, below | one or two properties per part. 2.5 min |
| `shell` | 6 entries, or 4 beside two programs that hold files; 5 files, 5 descriptors, 2 pipes | Every open file is counted exactly (`FilesCounted`); a prompt comes back (`PromptReturns`). 1.5 min |
| `write_reservation` | xv6's MAXOPBLOCKS 10 and NDIRECT 12, blocks of 2 bytes | `PieceWithinReservation` is violated, section 7 |

**memory.** The first state chooses `part`; the parts share no variable, so the run
explores their sum. *Memory*: two table entries, 14 pages, 2 page tables of 2
entries, programs that load, fail early, fail late, fill the address space or do
not fit, `sbrk()` of -2, -1, 3 and of the whole address space. A page has one owner; a
page is lost only where `copyuvm()` cannot map it; outside `sbrk()` an image is its
size's worth of pages; what `fork()` and `exec()` hand over is complete. The
exception in `ImageSound` is a process that gave all its memory back with
`sbrk(-sz)`: its next call faults in the kernel. *Scheduling*: two CPUs, three
processes, one sleep lock, as in the theorems of `SchedProofs`.

**services.** Also a sum of parts:

| Part | Instance | Shows |
|---|---|---|
| console | 2 readers, ring of 2, indices modulo 4, a letter, newline and ^D, screen of 2 x 2 | `ConsoleConsistent` (r, w, e in order across the wrap, no reader asleep with a line ready, cursor on the screen); `DeliversLines`: implements `Typed` |
| mkfs | 4 inodes, 26 blocks, xv6 and two of lab 10's layouts | `ImageReadable`: the kernel's `bmap()` finds what mkfs wrote, up to the second level of lab 10 |
| umalloc | 8 units, requests of 2 and 5, `morecore()` of 3 | `HeapSound`: the free list goes round once, in order, joined, without overlaps |
| files | 2 inodes, 2 open files, blocks of 2 bytes, pieces of 2 blocks, writes of 6 bytes, reads of 5; four layouts; a disk of 7 blocks, so that it fills | `ReadsWhatWasWritten`: implements `FileBytes`; `BlocksListedOnce`: a block is marked iff it is in one place of one list |
| mailbox | 3 processes, queue of 2 | `MailDelivered`: in order; a sync sender waits for its own message |
| semaphore | 3 threads, values -1, 0, 1, counts -1, 1, 2 | `SemaphoreExact`: gives out what was put; no sleep through a value it could take, except across a change that calls no `wakeup()` |
| clock | 2 entries, 2 CPUs, 2 ticks, lab 05 and the six policies of lab 06 | `ClockSound`: statistics add up, due sleepers are woken; `ChoiceHolds`: who has been ready ever since the choice had no better claim |

### Bounds, and why they are enough

- `log`: two calls make a group commit with a third arriving, since a process that
  ended may begin again; two blocks allow absorption and a partial transaction; a
  call of 2 blocks outgrows its reservation of 1, as the code's calls can.
- `sched_live`, `memory`: two CPUs give every race of acquire, sleep and wakeup and
  every migration; three processes are a holder, a waiter and one that runs meanwhile.
- `proc`: four entries hold init, a parent, a child and a grandchild, so that a zombie
  can be inherited; entries are reused. `MAXPID` bounds the pids.
- `pipe`: a text of 3 in a ring of 2 blocks half way; counters modulo 4 wrap within
  two fills, and 4 is a multiple of 2 as 2^32 is of 512.
- `bcache`: more blocks than buffers forces recycling; one pinned block makes it
  skip dirty buffers and lets the cache run out. `MaxPinned` bounds the pinned blocks.
- `fs`: under one name, things are created, linked, removed and entered at once;
  three inodes allow a directory in a directory.
- `memory`: 14 pages are enough for two processes but not for two processes and an
  `exec()`, so every allocation fails in some behaviour.
- `files`: the layouts have 1 to 3 direct and 2 listed blocks. Pieces of 4 bytes with
  writes of 6 and reads of 5 start and end inside blocks, cross from direct to listed
  blocks, and end at the maximal size, one byte before and beyond it.
- `shell`: three-stage pipelines, lists with a redirection, background lists. Five open
  files and five descriptors per process make `pipe()` and `open()` fail.
- `services`, clock: `MAXTICKS` stops the clock; two ticks give a wakeup and a yield.
  `MAXVALUE` bounds the semaphore.

### Views

`memory` and `services` use a VIEW, which says when two states need only one of them
explored. Physical pages are interchangeable, and so are disk blocks: the view keeps
shapes and counts. Interchangeable too are the two CPUs of `Sched`, the inodes and
open files of `FileData`, and the threads of `Semaphore`: the view keeps how many
look alike. Of a table entry in `Policies` it keeps what its policy compares. No
property of these runs tells states apart that their view identifies, and no
liveness property is checked under a view. `log_overrun` uses symmetry.

### Deadlock

Checked in `log`, `log_overrun`, `sched_live`, `proc`, `pipe`, `bcache` and `memory`. Off
where the system may stop: the `fs` runs (`NoLockCycle`, panics), `write_reservation`,
`services` (a kernel panic, a full mailbox, a semaphore whose lock is kept) and `shell`
(nobody types, or init has exited). In `memory` a panicked kernel repeats its state, so
that the check is about the scheduling part.

## 4. Fairness

- `Sched` derives the fairness of processes from that of CPUs: a CPU executes what is
  on it (WF of `Step`), a pending timer interrupt is taken when the CPU accepts
  interrupts (SF), between two interrupts a process gets some of its own code run
  (SF of a step outside the handler), a critical section ends (SF). It is checked on
  one CPU: spin locks promise nothing between CPUs, so that on two a CPU may lose
  every race for `ptable.lock`.
- The other modules assume weak fairness of a process inside the kernel, which is
  what `RunnableRuns` gives, and of the disk.
- `Log`: a system call ends (SF of `end_op`, since it may go on writing for a while).
- `ProcTable`: a killed process enters the kernel, as the next timer interrupt makes
  it (WF of its `exit_close`); init comes back to its `wait()`, as its loop does (SF).
- `Pipe`: a program goes on using its ends or closes them (WF of `Program`).
- `Shell`: while some process can run, one does (WF of `System`). Users need not type.

Nothing is assumed of a program's own calls to `fork()`, `kill()` or `exit()`.

## 5. Mutants

For every property of a passing run PROJECT.json names a changed version of one
definition, with which TLC finds the property violated: a missing wakeup
(`clear_NoWakeup`, `end_commit_NoWakeup`), a swapped order (`write_log_HeadFirst`,
`pipeclose_FreeFirst`), a dropped test (`Free_IgnoreDirty`, `iput_NoRefCheck`), a leak on an
error path (`fork_fails_NoKfree`, `pipealloc_leaks`, `exec_bad_leaks`), an off-by-one
(`Space_OffByOne`, `IsDirect_le`, `install_trans_OneShort`), an `if` for a `while`
(`test_and_take_if`), an end of a pipe left open (`runcmd_pipe_open`).

## 6. Proofs

The theorems hold for every value of the constants that satisfies the `ASSUME` of
the module: sizes are positive, the set of processes of `Log` and `Bcache` is finite,
`None` and `Absent` are nothing else, `LOGSIZE >= MAXOPBLOCKS`, and for pipes `UINT` is a
multiple of `PIPESIZE` greater than it. TLC evaluates these on every run.

| Module | Theorems |
|---|---|
| `LogProofs` (steps in `LogSteps`) | `TypeCorrect`, `CommitIsExclusive`, `WakeupNotLost`, `ProtocolPanicFree`, `LogIsConsistent`, `QuiescentIsDurable`, `CrashIsAtomic` |
| `SchedProofs` | `SchedIsSafe`, `InterruptsAreRestored`, `NoWakeupIsLost`; `SemaphoreIsExact` |
| `ProcTableProofs` | `TypeCorrect`, `PidsUnique`, `ParentsLive`, `WakeupNotLost`, `TableIsConsistent`, `NothingLeaks`; `MailIsDelivered` |
| `PipeProofs` | `PipeIsSafe`, `PipeIsFifo` |
| `BcacheProofs` (steps in `BcacheSteps`) | `CacheIsConsistent`, `BreadIsRight`, `CacheIsStore` |

**Log.** Two inductive invariants. `Control`: `log.outstanding` is the number of
processes inside a transaction, only a committer sets `committing`, recovery runs
alone, no block is logged twice. It is needed because `end_op()` decides to
commit from that counter. `Durable` is `Clean` (a buffer neither dirty nor being
modified agrees with the disk), `Pinned` (dirty buffers are those of the transaction
not yet installed), `Header` (the header on disk names the transaction exactly from
`write_head()` to its erasure) and `Loop`. `QuiescentIsDurable` follows from these.
`CrashIsAtomic`, the refinement of `TxDisk`, needs in addition `Copied` (what
`write_log()` and `install_trans()` have copied so far), and that only holds while no
transaction outgrows the log on disk: its hypothesis is `[]LogInRegion`. The
code does not guarantee that hypothesis (`log_overrun`), so it is part of the theorem.
`TxStep` has one case per action: a step of the log is a step of `TxDisk` or none;
the disk changes at `write_head()`.

**Sched.** `IInv` adds to `SchedSafe`: `LocksInv` (the lock fields say which thread is
between an acquire and its release, `ncli` counts those locks), `OffCpuInv` (a process
off the CPUs waits in `sched()`, or has never run), `HandlerInv` (`intr` and the flag
`sched()` saved for it), `FlagInv` (the flag of the process on a CPU is in `intena`
while locks are held, else in `fl_if`), `WakeupInv` (on a free sleep lock nobody sleeps
or is about to, unless a releaser is on its way to `wakeup1()`). `SchedSafe` alone is not
inductive: that `sched()` finds one lock held and interrupts off depends on every
caller, that the scheduler may release what a process acquired on `LocksInv`.

**ProcTable.** `IInv` adds to the properties: `Pids` (every pid is below `nextpid`); `Forks` (a
process inside `fork()` owns an EMBRYO entry that no other has; the code works on it
without the lock, so nothing else keeps others away); `Tree` (init does not exit, an
UNUSED entry has no parent, an EMBRYO's parent is the one about to make it RUNNABLE);
`Sleepers`; `Resources`. One lemma per conjunct with one case per action; `ExitEffect` and
`KillEffect` state once what those do to others.

**Pipe.** `PipeIInv`: who is in the pipe holds the end it uses, an end somebody holds is
open, one process at a time closes an end, the page is freed exactly when both are
closed, and `NoLostWakeup`. `PipeIsFifo` maps the bytes between `nread` and `nwrite` to
`PipeFifo`'s queue; that a counter that wraps still names the right slot needs `UINT` to
be a multiple of `PIPESIZE` (`CounterIndex`, `Wrapped`).

**Bcache.** `CacheInv` adds to `CacheConsistent`: `UseInv`, `HolderInv` (the lock is held from
`acquiresleep()` to `releasesleep()`), `FlagsInv` (`B_VALID` and `B_DIRTY` say what is left to
do for the holder). `ContentInv` (a valid, unchanged buffer has the block's contents) needs
a disk without read errors, hence `~DiskError` in `BreadIsRight` and `CacheIsStore`.

**Semaphore, Mailbox.** `SemaphoreExact` with its types is inductive. `MailIInv` adds to
`MailDelivered` that the indices are ordered and which slot each waiter waits for.

Only model-checked: liveness (`SleeperWoken`, `RunnableRuns`, `SleeperWakes`, `KilledExits`,
`OrphanReaped`, `RequestCompletes`, `PromptReturns`), which is outside the prover;
`FileData`, `Mkfs` and `Umalloc`, whose properties rest on recursion over data, and with them
the refinement of `FileBytes`; `Console` with its refinement of `Typed`; `FsOps`, `Memory`,
`Policies`, `FileTable` and `Shell`.

## 7. Where the code and its documentation disagree

Three disagreements have a run, in which TLC finds the property violated:

- `log_overrun`, `LogInRegion`: `log_write()` compares `log.lh.n` with `log.size - 1` before
  it takes the lock (log.c:218). mkfs gives the log LOGSIZE blocks including the
  header (mkfs.c:25), one fewer than `begin_op()` reserves for, so two calls can both
  pass the test, and the second block is written past the log.
- `fs_deadlock`, `NoLockCycle`: `create()` and `sys_unlink()` put the parent with the child
  locked, and `iput()` locks the parent again (fs.c:335); a lookup in between holds
  the parent and wants the child. fs.c:150 says the separation of `iget()` and `ilock()`
  helps avoid deadlock.
- `write_reservation`, `PieceWithinReservation`: `filewrite()` makes its pieces as large
  as LOGSIZE allows (file.c:133), thirteen blocks, and such a piece logs sixteen.
  `begin_op()` reserves MAXOPBLOCKS, ten, "max # of blocks any FS op writes"
  (param.h:10). Two such writes at once can reach `panic("too big a transaction")`.

Others are stated in the modules as the documentation has them, and do not hold.
They are not among the runs:

- `ProcTable!KilledByPid`: "Kill the process with the given pid" (proc.c:476). `kill()` does
  not look at the state of the entry: `kill(0)` marks an UNUSED one, and the next
  process in it is born killed.
- `FsOps!LastPutFrees`: "If that was the last reference and the inode has no links to it,
  free the inode" (fs.c:328). `iput()` reads `ref` and decrements it in two critical
  sections; two calls at once both see 2, and neither frees.
- `Mkfs!SameStructures`: lab 10's README (line 19) wants the structures of `iappend()` to be
  those of `bmap()`. On the second level they differ, and the kernel does not find
  what mkfs wrote.
- `Policies!LotteryWinner`: lab 06's README says of the holder of the ticket drawn that it
  "will be the lottery winner". The loop stops at another process. If the tickets of
  the ready processes sum to nothing, the CPU idles.
- `Policies!ListsEveryProcess`: lab 04's README (line 16). `getptable()` stops at the first
  unused entry.
- `Mailbox!StaysInQueue`: lab-messages' README (line 51) has MAILBOX_MSG_QUEUE as the most
  messages in a mailbox. `index + 1 % MAILBOX_MSG_QUEUE` (proc.c:587) is `index + 1`, so
  the message after that many is copied past the queue.

Observed while modelling:

- A removed directory that is still somebody's current one keeps its ".." entry,
  which no longer counts as a link; once the parent is removed too, ".." leads to a
  free inode and `ilock()` panics. The properties of `fs` are claimed up to that panic.
- The parent that `nameiparent()` returns is unlocked and may be removed before
  `create()` locks it (sysfile.c:249): the new name is lost with the directory.
- `link(x, "d/.")`: `dirlink()` puts the directory it has locked (fs.c:561) and waits for itself.
- `ideintr()` sets B_VALID after a failed read (ide.c:118).
- A writer killed while the pipe is full returns without `wakeup(&p->nread)` (pipe.c:86),
  although it has written: a disjunct of the pipe's `NoLostWakeup`.
- When sh exits while background commands fill the process table, init's `fork()` fails
  and init exits, which panics the kernel: the exception in `PromptReturns`.
- A process that has given all its memory back panics the kernel with its next call.
- `sem_init()` of an active semaphore returns with its lock held; a `sem_wait()` of a
  negative count raises the value and wakes nobody.
- Lab 06: a process made between `ticks++` and `update_statistics()` is charged one tick
  more than it lived; SML compares with `<= 7` where its README says "< 7".
- Lab 05: since the scan goes on behind the process it ran, equal priorities do not
  share the CPU: with priorities 5, 10, 5 in entries 1, 2, 3 the third may never run.

## 8. Hazards

PROJECT.json lists, by line, what in this code is hard to test: unlocked tests, state
used after a lock was dropped, crashes between two writes, counters at their wrap,
tables at their limit, failures half way. Each names the properties that would catch
it going wrong, or says why none does.

## 9. Not modelled

- Boot code, interrupt controllers, the serial port, the keyboard tables: they program
  hardware, once or without shared state. The string library and `memide.c`.
- Text: the parser of the shell, `printf`, labs 01 to 03, `dd`, `sort`, `tree`, the
  disassembler, the checks of system-call arguments, `fstat()`.
- Lab 07 rewrites a path before the `exec()` that `Memory` has. Lab 08 (lazy allocation)
  would need a second version of every action of `Memory`. Lab 09 counts in one scan.
- Shared memory: needs page tables shared between the address spaces of `Memory`. The
  replacement policies of lab-diskpaging: RANDOM ignores reference counts, so that nothing
  `Bcache` promises is left. `clone()` and `join()`: `exit()` frees the stacks of threads that
  may be running. The further schedulers of `opt/` are sequential choices under
  `ptable.lock`, as in labs 05 and 06. The network card is driven by registers.
- NINODE, whose limit is a panic of `iget()`; a negative argument of `sleep()`.
- Reordering of memory accesses: the locks use `xchg` and fences, and what is read
  without a lock is read in one step.
- Overflow of pids, link counts and reference counts, which are unbounded here.
