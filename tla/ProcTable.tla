----------------------------- MODULE ProcTable -----------------------------
(* The life of processes: allocproc(), fork(), exit(), wait(), kill() of       *)
(* proc.c and the checks of p->killed in trap().  A step is a region under     *)
(* ptable.lock, or the code between two of them.  Which RUNNABLE process runs, *)
(* and that sleep() and wakeup1() are atomic under the lock, is Sched's        *)
(* subject: here RUNNABLE also stands for RUNNING.                             *)
EXTENDS Integers, FiniteSets

CONSTANTS
    NPROC,     \* entries of ptable.proc; entry 1 is initproc
    MAXPID,    \* bound on the pids handed out in a run
    Targets    \* the arguments programs pass to kill()

ASSUME ProcConstants == NPROC \in Nat \ {0} /\ MAXPID \in Nat \ {0} /\ Targets \subseteq Int

Slot == 1..NPROC
initproc == 1
NULL == 0

VARIABLES
    state, pid, parent, killed,   \* fields of the entries of ptable.proc
    kstack, pgdir, files,   \* the entry holds a kernel stack, page tables, open files and cwd
    nextpid,
    pc,        \* where each process is
    np,        \* the local variable np of fork()
    panicked,
    named      \* history: this process's pid was given to kill(), or its program faulted

vars == <<state, pid, parent, killed, kstack, pgdir, files, nextpid, pc, np, panicked, named>>

Init ==
    /\ state = [p \in Slot |-> IF p = initproc THEN "RUNNABLE" ELSE "UNUSED"]
    /\ pid = [p \in Slot |-> IF p = initproc THEN 1 ELSE 0]
    /\ parent = [p \in Slot |-> NULL]
    /\ killed = [p \in Slot |-> FALSE]
    /\ kstack = [p \in Slot |-> p = initproc]
    /\ pgdir = [p \in Slot |-> p = initproc]
    /\ files = [p \in Slot |-> p = initproc]
    /\ nextpid = 2
    /\ pc = [p \in Slot |-> "user"]
    /\ np = [p \in Slot |-> NULL]
    /\ panicked = FALSE
    /\ named = [p \in Slot |-> FALSE]

At(p, l) == ~panicked /\ state[p] = "RUNNABLE" /\ pc[p] = l

-----------------------------------------------------------------------------
(* fork() *)

\* allocproc() under the lock: the first UNUSED entry.  With none, fork()
\* returns -1 and changes nothing.
allocproc(p, c) ==
    /\ At(p, "user") /\ ~killed[p]
    /\ state[c] = "UNUSED" /\ \A d \in 1..c-1 : state[d] # "UNUSED"
    /\ nextpid <= MAXPID
    /\ state' = [state EXCEPT ![c] = "EMBRYO"]
    /\ pid' = [pid EXCEPT ![c] = nextpid]
    /\ nextpid' = nextpid + 1
    /\ np' = [np EXCEPT ![p] = c]
    /\ pc' = [pc EXCEPT ![p] = "kalloc"]
    /\ named' = [named EXCEPT ![c] = FALSE]
    /\ UNCHANGED <<parent, killed, kstack, pgdir, files, panicked>>

\* The rest of allocproc(), without the lock: the kernel stack, which kalloc()
\* may not have.
allocproc_kstack(p) ==
    /\ At(p, "kalloc")
    /\ kstack' = [kstack EXCEPT ![np[p]] = TRUE]
    /\ pc' = [pc EXCEPT ![p] = "copyuvm"]
    /\ UNCHANGED <<state, pid, parent, killed, pgdir, files, nextpid, np, panicked, named>>

allocproc_fails(p) ==
    /\ At(p, "kalloc")
    /\ kstack' = [kstack EXCEPT ![np[p]] = FALSE]
    /\ state' = [state EXCEPT ![np[p]] = "UNUSED"]
    /\ pc' = [pc EXCEPT ![p] = "user"]
    /\ np' = [np EXCEPT ![p] = NULL]
    /\ UNCHANGED <<pid, parent, killed, pgdir, files, nextpid, panicked, named>>

\* fork() from copyuvm() to the copy of the files.
fork_copy(p) ==
    /\ At(p, "copyuvm")
    /\ pgdir' = [pgdir EXCEPT ![np[p]] = TRUE]
    /\ parent' = [parent EXCEPT ![np[p]] = p]
    /\ files' = [files EXCEPT ![np[p]] = TRUE]
    /\ pc' = [pc EXCEPT ![p] = "runnable"]
    /\ UNCHANGED <<state, pid, killed, kstack, nextpid, np, panicked, named>>

fork_fails_NoKfree(p) ==
    /\ At(p, "copyuvm")
    /\ state' = [state EXCEPT ![np[p]] = "UNUSED"]
    /\ pc' = [pc EXCEPT ![p] = "user"]
    /\ np' = [np EXCEPT ![p] = NULL]
    /\ UNCHANGED <<pid, parent, killed, kstack, pgdir, files, nextpid, panicked, named>>

\* copyuvm() out of memory.
fork_fails(p) ==
    /\ At(p, "copyuvm")
    /\ kstack' = [kstack EXCEPT ![np[p]] = FALSE]
    /\ state' = [state EXCEPT ![np[p]] = "UNUSED"]
    /\ pc' = [pc EXCEPT ![p] = "user"]
    /\ np' = [np EXCEPT ![p] = NULL]
    /\ UNCHANGED <<pid, parent, killed, pgdir, files, nextpid, panicked, named>>

fork_runnable(p) ==
    /\ At(p, "runnable")
    /\ state' = [state EXCEPT ![np[p]] = "RUNNABLE"]
    /\ pc' = [pc EXCEPT ![p] = "user", ![np[p]] = "user"]
    /\ np' = [np EXCEPT ![p] = NULL]
    /\ UNCHANGED <<pid, parent, killed, kstack, pgdir, files, nextpid, panicked, named>>
-----------------------------------------------------------------------------
(* exit(), wait(), kill() *)

\* exit() up to the lock, called by the program or by trap() for a killed one.
exit_close(p) ==
    /\ At(p, "user")
    /\ panicked' = (p = initproc)
    /\ files' = [files EXCEPT ![p] = FALSE]
    /\ pc' = [pc EXCEPT ![p] = "zombie"]
    /\ UNCHANGED <<state, pid, parent, killed, kstack, pgdir, nextpid, np, named>>

Child(p) == {c \in Slot : parent[c] = p}
Zombies(p) == {c \in Child(p) : state[c] = "ZOMBIE"}

\* wakeup1() on the channels chans; wait() sleeps on the process itself.
wakeup1(s, chans) == [q \in Slot |-> IF s[q] = "SLEEPING" /\ q \in chans THEN "RUNNABLE" ELSE s[q]]

exit_NoReparent(p) ==
    /\ At(p, "zombie")
    /\ state' = [wakeup1(state, {parent[p]}) EXCEPT ![p] = "ZOMBIE"]
    /\ UNCHANGED <<parent, pid, killed, kstack, pgdir, files, nextpid, pc, np, panicked, named>>

exit_NoInitWakeup(p) ==
    /\ At(p, "zombie")
    /\ state' = [wakeup1(state, {parent[p]}) EXCEPT ![p] = "ZOMBIE"]
    /\ parent' = [c \in Slot |-> IF c \in Child(p) THEN initproc ELSE parent[c]]
    /\ UNCHANGED <<pid, killed, kstack, pgdir, files, nextpid, pc, np, panicked, named>>

\* exit() under the lock: wake the parent, pass the children to init.
exit(p) ==
    /\ At(p, "zombie")
    /\ state' = [wakeup1(state, {parent[p]} \cup {q \in {initproc} : Zombies(p) # {}})
                    EXCEPT ![p] = "ZOMBIE"]
    /\ parent' = [c \in Slot |-> IF c \in Child(p) THEN initproc ELSE parent[c]]
    /\ UNCHANGED <<pid, killed, kstack, pgdir, files, nextpid, pc, np, panicked, named>>

sys_wait(p) ==
    /\ At(p, "user") /\ ~killed[p]
    /\ pc' = [pc EXCEPT ![p] = "wait"]
    /\ UNCHANGED <<state, pid, parent, killed, kstack, pgdir, files, nextpid, np, panicked, named>>

\* wait(), when the scan finds a zombie child.
wait_reap(p, c) ==
    /\ At(p, "wait")
    /\ c \in Zombies(p) /\ \A d \in 1..c-1 : d \notin Zombies(p)
    /\ state' = [state EXCEPT ![c] = "UNUSED"]
    /\ pid' = [pid EXCEPT ![c] = 0]
    /\ parent' = [parent EXCEPT ![c] = NULL]
    /\ killed' = [killed EXCEPT ![c] = FALSE]
    /\ kstack' = [kstack EXCEPT ![c] = FALSE]
    /\ pgdir' = [pgdir EXCEPT ![c] = FALSE]
    /\ pc' = [pc EXCEPT ![p] = "user"]
    /\ named' = [named EXCEPT ![c] = FALSE]
    /\ UNCHANGED <<files, nextpid, np, panicked>>

\* wait(), when it finds none: no children, or killed, and it returns -1.
wait_fails(p) ==
    /\ At(p, "wait") /\ Zombies(p) = {}
    /\ Child(p) = {} \/ killed[p]
    /\ pc' = [pc EXCEPT ![p] = "user"]
    /\ UNCHANGED <<state, pid, parent, killed, kstack, pgdir, files, nextpid, np, panicked, named>>

\* Otherwise it sleeps, and scans again when woken.
wait_sleep(p) ==
    /\ At(p, "wait") /\ Zombies(p) = {}
    /\ Child(p) # {} /\ ~killed[p]
    /\ state' = [state EXCEPT ![p] = "SLEEPING"]
    /\ UNCHANGED <<pid, parent, killed, kstack, pgdir, files, nextpid, pc, np, panicked, named>>

kill_NoWake(p, x) ==
    /\ At(p, "user") /\ ~killed[p]
    /\ \E q \in Slot :
         /\ pid[q] = x /\ \A d \in 1..q-1 : pid[d] # x
         /\ killed' = [killed EXCEPT ![q] = TRUE]
         /\ named' = [named EXCEPT ![q] = state[q] # "UNUSED"]
    /\ UNCHANGED <<state, pid, parent, kstack, pgdir, files, nextpid, pc, np, panicked>>

\* kill(x): the first entry of the table with that pid, whatever its state.
kill(p, x) ==
    /\ At(p, "user") /\ ~killed[p]
    /\ \E q \in Slot :
         /\ pid[q] = x /\ \A d \in 1..q-1 : pid[d] # x
         /\ killed' = [killed EXCEPT ![q] = TRUE]
         /\ named' = [named EXCEPT ![q] = state[q] # "UNUSED"]
         /\ state' = [state EXCEPT ![q] = IF @ = "SLEEPING" THEN "RUNNABLE" ELSE @]
    /\ UNCHANGED <<pid, parent, kstack, pgdir, files, nextpid, pc, np, panicked>>

\* trap(): a program that faults in user space is killed.
fault(p) ==
    /\ At(p, "user") /\ ~killed[p]
    /\ killed' = [killed EXCEPT ![p] = TRUE]
    /\ named' = [named EXCEPT ![p] = TRUE]
    /\ UNCHANGED <<state, pid, parent, kstack, pgdir, files, nextpid, pc, np, panicked>>

\* panic() disables interrupts and spins.
panic == panicked /\ UNCHANGED vars
-----------------------------------------------------------------------------
\* The steps of a process inside the kernel.
Kernel(p) ==
    \/ allocproc_kstack(p) \/ allocproc_fails(p)
    \/ fork_copy(p) \/ fork_fails(p) \/ fork_runnable(p)
    \/ exit(p) \/ wait_fails(p) \/ wait_sleep(p)
    \/ \E c \in Slot : wait_reap(p, c)

Next ==
    \/ \E p \in Slot :
         \/ Kernel(p) \/ exit_close(p) \/ sys_wait(p) \/ fault(p)
         \/ \E c \in Slot : allocproc(p, c)
         \/ \E x \in Targets : kill(p, x)
    \/ panic

Spec == Init /\ [][Next]_vars

\* The scheduler runs every process (Sched!RunnableRuns); a killed process traps
\* on the next tick at the latest; init.c always comes back to its wait().
FairSpec ==
    /\ Spec
    /\ \A p \in Slot : WF_vars(Kernel(p)) /\ WF_vars(killed[p] /\ exit_close(p))
    /\ SF_vars(sys_wait(initproc))
-----------------------------------------------------------------------------
(* Properties *)

TypeOK ==
    /\ state \in [Slot -> {"UNUSED", "EMBRYO", "RUNNABLE", "SLEEPING", "ZOMBIE"}]
    /\ pid \in [Slot -> 0..MAXPID] /\ nextpid \in 1..MAXPID + 1
    /\ parent \in [Slot -> Slot \cup {NULL}] /\ np \in [Slot -> Slot \cup {NULL}]
    /\ killed \in [Slot -> BOOLEAN] /\ kstack \in [Slot -> BOOLEAN]
    /\ pgdir \in [Slot -> BOOLEAN] /\ files \in [Slot -> BOOLEAN]
    /\ pc \in [Slot -> {"user", "kalloc", "copyuvm", "runnable", "zombie", "wait"}]
    /\ panicked \in BOOLEAN
    /\ named \in [Slot -> BOOLEAN]

Live(p) == state[p] # "UNUSED"

\* Two processes in the table never have the same pid, zombies and half-built
\* children included (allocproc() with nextpid, wait()).
UniquePids == \A p, q \in Slot : Live(p) /\ Live(q) /\ pid[p] = pid[q] => p = q

\* Every process that can run or has exited has a parent that is still there to
\* wait() for it: exit() passes the children on before the parent's entry can
\* be reaped and reused.
ParentLive ==
    \A p \in Slot \ {initproc} :
        state[p] \in {"RUNNABLE", "SLEEPING", "ZOMBIE"}
            => parent[p] # NULL /\ state[parent[p]] \in {"RUNNABLE", "SLEEPING"}

\* A process asleep in wait() has something to wait for: a child, none of them
\* exited already, and no kill() it has not noticed.
NoLostWakeup ==
    \A p \in Slot : state[p] = "SLEEPING" => Child(p) # {} /\ Zombies(p) = {} /\ ~killed[p]

\* What fork(), exit(), wait() and kill() keep true of ptable: distinct pids, a
\* parent for every process, and nobody asleep in wait() without a reason.
TableConsistent == TypeOK /\ UniquePids /\ ParentLive /\ NoLostWakeup

\* An entry back in the pool has given up its kernel stack, page tables and
\* files on every path (fork() failing at either allocation, exit() and wait()),
\* and a process keeps its stack and page tables until it is reaped.
NoLeak ==
    \A p \in Slot :
        /\ state[p] = "UNUSED" => ~kstack[p] /\ ~pgdir[p] /\ ~files[p]
        /\ state[p] \in {"RUNNABLE", "SLEEPING", "ZOMBIE"} => kstack[p] /\ pgdir[p]
        /\ state[p] = "ZOMBIE" => ~files[p]

\* "Kill the process with the given pid" (proc.c:476): a process is marked
\* killed only if kill() was called with its own pid, or its program faulted.
KilledByPid == \A p \in Slot : Live(p) /\ killed[p] => named[p]

\* A killed process exits, wherever it was, even asleep in wait().
KilledExits ==
    \A p \in Slot :
        killed[p] /\ state[p] \in {"RUNNABLE", "SLEEPING"} ~> state[p] \in {"ZOMBIE", "UNUSED"} \/ panicked

\* An exited process that init inherited, or that is init's own child, is reaped.
OrphanReaped ==
    \A p \in Slot : state[p] = "ZOMBIE" /\ parent[p] = initproc ~> state[p] = "UNUSED" \/ panicked
=============================================================================
