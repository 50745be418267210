------------------------------- MODULE Sched -------------------------------
(* Context switching, spin locks and sleep/wakeup: spinlock.c, sleeplock.c    *)
(* and scheduler(), sched(), yield(), sleep(), wakeup() of proc.c.  Every CPU  *)
(* runs its scheduler or one process; the processes take and release one sleep *)
(* lock (as ilock() and bread() do), and timer interrupts arrive whenever the  *)
(* CPU accepts them.  A step is one call of acquire() or release() (acquire()  *)
(* split at the spin), or the code between two such calls.                     *)
EXTENDS Integers

CONSTANTS CPU, NPROC, None

Proc == 1..NPROC

VARIABLES
    lock,      \* lk->locked and lk->cpu of ptable.lock and of the sleep lock's lk
    ncli, intena, fl_if,   \* cpu->ncli, cpu->intena, and FL_IF of the CPU's eflags
    spin,      \* the CPU is between pushcli() and xchg in acquire()
    cproc,     \* cpu->proc, also whose kernel stack the CPU runs on
    spc, scan, \* where scheduler() is, and the next table entry it looks at
    state, chan, pc,    \* p->state, p->chan, and where each process is
    saved,     \* the local variable intena of sched()
    intr,      \* the place a timer interrupt interrupted, or None
    locked,    \* the sleep lock's locked field
    panic

vars == <<lock, ncli, intena, fl_if, spin, cproc, spc, scan, state, chan, pc, saved, intr, locked, panic>>

\* Where a CPU is; a panic on one CPU stops them all.
At(c) == IF panic # "no" THEN "frozen"
         ELSE IF cproc[c] = None THEN spc[c] ELSE pc[cproc[c]]

Acquires_NoRetest ==
    [scheduler    |-> <<"ptable", "scan">>,
     acquiresleep |-> <<"lk", "test">>,
     sleep        |-> <<"ptable", "release_lk">>,
     sleep_relock |-> <<"lk", "acquiresleep_end">>,
     releasesleep |-> <<"lk", "clear">>,
     wakeup       |-> <<"ptable", "wakeup1">>,
     yield        |-> <<"ptable", "runnable">>]

\* The calls of acquire(): the lock each takes, and where control goes next.
Acquires ==
    [scheduler    |-> <<"ptable", "scan">>,
     acquiresleep |-> <<"lk", "test">>,
     sleep        |-> <<"ptable", "release_lk">>,
     sleep_relock |-> <<"lk", "test">>,
     releasesleep |-> <<"lk", "clear">>,
     wakeup       |-> <<"ptable", "wakeup1">>,
     yield        |-> <<"ptable", "runnable">>]

\* The calls of release().
Releases ==
    [scheduler_end    |-> <<"ptable", "sti">>,
     acquiresleep_end |-> <<"lk", "critical">>,
     release_lk       |-> <<"lk", "sleeping">>,
     tidied           |-> <<"ptable", "sleep_relock">>,
     wakeup_end       |-> <<"ptable", "releasesleep_end">>,
     releasesleep_end |-> <<"lk", "user">>,
     yield_end        |-> <<"ptable", "iret">>,
     forkret          |-> <<"ptable", "iret">>]

SchedulerAt == {"sti", "scheduler", "scan", "scheduler_end"}
ProcAt == {"user", "test", "sleeping", "tidy", "critical", "clear", "wakeup1", "runnable", "iret"}
            \cup ((DOMAIN Acquires \cup DOMAIN Releases) \ SchedulerAt)

ASSUME SchedConstants ==
    /\ NPROC \in Nat \ {0}
    /\ None \notin CPU /\ None \notin Proc /\ None \notin ProcAt
-----------------------------------------------------------------------------
\* A process starts in forkret(), holding ptable.lock from the scheduler.
Init ==
    /\ lock = [l \in {"ptable", "lk"} |-> None]
    /\ ncli = [c \in CPU |-> 0] /\ intena = [c \in CPU |-> FALSE]
    /\ fl_if = [c \in CPU |-> FALSE] /\ spin = [c \in CPU |-> FALSE]
    /\ cproc = [c \in CPU |-> None]
    /\ spc = [c \in CPU |-> "sti"] /\ scan = [c \in CPU |-> 1]
    /\ state = [p \in Proc |-> "RUNNABLE"] /\ chan = [p \in Proc |-> FALSE]
    /\ pc = [p \in Proc |-> "forkret"]
    /\ saved = [p \in Proc |-> FALSE]
    /\ intr = [p \in Proc |-> None]
    /\ locked = FALSE
    /\ panic = "no"

Goto(c, l) ==
    IF cproc[c] = None
      THEN spc' = [spc EXCEPT ![c] = l] /\ UNCHANGED pc
      ELSE pc' = [pc EXCEPT ![cproc[c]] = l] /\ UNCHANGED spc

holding(c, l) == lock[l] = c

\* acquire(): pushcli() and the check, then the spin on xchg.
pushcli(c) ==
    /\ At(c) \in DOMAIN Acquires /\ ~spin[c]
    /\ intena' = [intena EXCEPT ![c] = IF ncli[c] = 0 THEN fl_if[c] ELSE @]
    /\ ncli' = [ncli EXCEPT ![c] = @ + 1]
    /\ fl_if' = [fl_if EXCEPT ![c] = FALSE]
    /\ spin' = [spin EXCEPT ![c] = TRUE]
    /\ panic' = IF holding(c, Acquires[At(c)][1]) THEN "acquire" ELSE panic
    /\ UNCHANGED <<lock, cproc, spc, scan, state, chan, pc, saved, intr, locked>>

xchg(c) ==
    /\ At(c) \in DOMAIN Acquires /\ spin[c]
    /\ lock[Acquires[At(c)][1]] = None
    /\ lock' = [lock EXCEPT ![Acquires[At(c)][1]] = c]
    /\ spin' = [spin EXCEPT ![c] = FALSE]
    /\ Goto(c, Acquires[At(c)][2])
    /\ UNCHANGED <<ncli, intena, fl_if, cproc, scan, state, chan, saved, intr, locked, panic>>

\* release() and popcli(), with their panics.
release(c) ==
    /\ At(c) \in DOMAIN Releases
    /\ lock' = [lock EXCEPT ![Releases[At(c)][1]] = None]
    /\ ncli' = [ncli EXCEPT ![c] = @ - 1]
    /\ fl_if' = [fl_if EXCEPT ![c] = ncli[c] = 1 /\ intena[c]]
    /\ panic' = IF ~holding(c, Releases[At(c)][1]) THEN "release"
                ELSE IF fl_if[c] THEN "popcli-interruptible"
                ELSE IF ncli[c] < 1 THEN "popcli" ELSE panic
    /\ Goto(c, Releases[At(c)][2])
    /\ UNCHANGED <<intena, spin, cproc, scan, state, chan, saved, intr, locked>>

-----------------------------------------------------------------------------
(* The scheduler of a CPU *)

sti(c) ==
    /\ At(c) = "sti"
    /\ fl_if' = [fl_if EXCEPT ![c] = TRUE]
    /\ spc' = [spc EXCEPT ![c] = "scheduler"]
    /\ scan' = [scan EXCEPT ![c] = 1]
    /\ UNCHANGED <<lock, ncli, intena, spin, cproc, state, chan, pc, saved, intr, locked, panic>>

Runnable(from) == {p \in from..NPROC : state[p] = "RUNNABLE"}

run_NoRestore(c) ==
    /\ At(c) = "scan"
    /\ \E p \in Runnable(scan[c]) :
         /\ \A q \in Runnable(scan[c]) : p <= q
         /\ cproc' = [cproc EXCEPT ![c] = p]
         /\ state' = [state EXCEPT ![p] = "RUNNING"]
         /\ scan' = [scan EXCEPT ![c] = p + 1]
    /\ UNCHANGED <<lock, ncli, intena, fl_if, spin, spc, chan, pc, saved, intr, locked, panic>>

run_Restart(c) ==
    /\ At(c) = "scan"
    /\ \E p \in Runnable(scan[c]) :
         /\ \A q \in Runnable(scan[c]) : p <= q
         /\ cproc' = [cproc EXCEPT ![c] = p]
         /\ state' = [state EXCEPT ![p] = "RUNNING"]
         /\ scan' = [scan EXCEPT ![c] = 1]
         /\ intena' = [intena EXCEPT ![c] = IF pc[p] = "forkret" THEN @ ELSE saved[p]]
    /\ UNCHANGED <<lock, ncli, fl_if, spin, spc, chan, pc, saved, intr, locked, panic>>

\* The loop over the table: the next RUNNABLE process runs, on its own kernel
\* stack and with ptable.lock still held; or the pass ends.
run(c) ==
    /\ At(c) = "scan"
    /\ \E p \in Runnable(scan[c]) :
         /\ \A q \in Runnable(scan[c]) : p <= q
         /\ cproc' = [cproc EXCEPT ![c] = p]
         /\ state' = [state EXCEPT ![p] = "RUNNING"]
         /\ scan' = [scan EXCEPT ![c] = p + 1]
         /\ intena' = [intena EXCEPT ![c] = IF pc[p] = "forkret" THEN @ ELSE saved[p]]
    /\ UNCHANGED <<lock, ncli, fl_if, spin, spc, chan, pc, saved, intr, locked, panic>>

pass_done(c) ==
    /\ At(c) = "scan" /\ Runnable(scan[c]) = {}
    /\ spc' = [spc EXCEPT ![c] = "scheduler_end"]
    /\ UNCHANGED <<lock, ncli, intena, fl_if, spin, cproc, scan, state, chan, pc, saved, intr, locked, panic>>

\* sched(): its checks, then swtch() to the CPU's scheduler, in which the
\* process stays until it resumes at l with its state changed to s.
sched(c, s, l) ==
    LET p == cproc[c] IN
    /\ panic' = IF ~holding(c, "ptable") THEN "sched-ptable.lock"
                ELSE IF ncli[c] # 1 THEN "sched-locks"
                ELSE IF s = "RUNNING" THEN "sched-running"
                ELSE IF fl_if[c] THEN "sched-interruptible" ELSE panic
    /\ state' = [state EXCEPT ![p] = s]
    /\ saved' = [saved EXCEPT ![p] = intena[c]]
    /\ pc' = [pc EXCEPT ![p] = l]
    /\ cproc' = [cproc EXCEPT ![c] = None]
    /\ UNCHANGED <<lock, ncli, intena, fl_if, spin, spc, scan, intr, locked>>

-----------------------------------------------------------------------------
(* What the processes do *)

\* A process calls acquiresleep(), or releasesleep() after its critical section.
call(c) ==
    /\ At(c) \in {"user", "critical"}
    /\ Goto(c, IF At(c) = "user" THEN "acquiresleep" ELSE "releasesleep")
    /\ UNCHANGED <<lock, ncli, intena, fl_if, spin, cproc, scan, state, chan, saved, intr, locked, panic>>

\* while(lk->locked) sleep(lk, &lk->lk); lk->locked = 1;
test(c) ==
    /\ At(c) = "test"
    /\ locked' = TRUE
    /\ Goto(c, IF locked THEN "sleep" ELSE "acquiresleep_end")
    /\ UNCHANGED <<lock, ncli, intena, fl_if, spin, cproc, scan, state, chan, saved, intr, panic>>

\* p->chan = chan; p->state = SLEEPING; sched();
sleeping(c) ==
    /\ At(c) = "sleeping"
    /\ chan' = [chan EXCEPT ![cproc[c]] = TRUE]
    /\ sched(c, "SLEEPING", "tidy")

\* p->chan = 0
tidy(c) ==
    /\ At(c) = "tidy"
    /\ chan' = [chan EXCEPT ![cproc[c]] = FALSE]
    /\ Goto(c, "tidied")
    /\ UNCHANGED <<lock, ncli, intena, fl_if, spin, cproc, scan, state, saved, intr, locked, panic>>

clear_NoWakeup(c) ==
    /\ At(c) = "clear"
    /\ locked' = FALSE
    /\ Goto(c, "releasesleep_end")
    /\ UNCHANGED <<lock, ncli, intena, fl_if, spin, cproc, scan, state, chan, saved, intr, panic>>

\* releasesleep(): lk->locked = 0, then wakeup(lk).
clear(c) ==
    /\ At(c) = "clear"
    /\ locked' = FALSE
    /\ Goto(c, "wakeup")
    /\ UNCHANGED <<lock, ncli, intena, fl_if, spin, cproc, scan, state, chan, saved, intr, panic>>

Wake(s) == [p \in Proc |-> IF s[p] = "SLEEPING" /\ chan[p] THEN "RUNNABLE" ELSE s[p]]
wakeup1(c) ==
    /\ At(c) = "wakeup1"
    /\ state' = Wake(state)
    /\ Goto(c, "wakeup_end")
    /\ UNCHANGED <<lock, ncli, intena, fl_if, spin, cproc, scan, chan, saved, intr, locked, panic>>

\* yield(): myproc()->state = RUNNABLE; sched();
runnable(c) ==
    /\ At(c) = "runnable"
    /\ sched(c, "RUNNABLE", "yield_end")
    /\ UNCHANGED chan

\* trap() on a timer interrupt: accepted when the CPU's interrupts are on, in
\* user or kernel code; interrupts stay off until the handler returns.
timer(c) ==
    /\ fl_if[c] /\ cproc[c] # None /\ At(c) # "frozen"
    /\ LET p == cproc[c] IN
         /\ intr' = [intr EXCEPT ![p] = pc[p]]
         /\ pc' = [pc EXCEPT ![p] = "yield"]
    /\ fl_if' = [fl_if EXCEPT ![c] = FALSE]
    /\ UNCHANGED <<lock, ncli, intena, spin, cproc, spc, scan, state, chan, saved, locked, panic>>

\* The iret of trapret: back to the interrupted code, or to user space after
\* forkret(), with interrupts on as the trap frame says.
iret(c) ==
    /\ At(c) = "iret"
    /\ LET p == cproc[c] IN
         /\ pc' = [pc EXCEPT ![p] = IF intr[p] = None THEN "user" ELSE intr[p]]
         /\ intr' = [intr EXCEPT ![p] = None]
    /\ fl_if' = [fl_if EXCEPT ![c] = TRUE]
    /\ UNCHANGED <<lock, ncli, intena, spin, cproc, spc, scan, state, chan, saved, locked, panic>>

\* kill() on a sleeping process: it runs although nobody released the lock.
kill(p) ==
    /\ panic = "no" /\ lock["ptable"] = None /\ state[p] = "SLEEPING"
    /\ state' = [state EXCEPT ![p] = "RUNNABLE"]
    /\ UNCHANGED <<lock, ncli, intena, fl_if, spin, cproc, spc, scan, chan, pc, saved, intr, locked, panic>>

Step(c) ==
    \/ pushcli(c) \/ xchg(c) \/ release(c)
    \/ sti(c) \/ run(c) \/ pass_done(c)
    \/ test(c) \/ sleeping(c) \/ tidy(c) \/ clear(c) \/ wakeup1(c) \/ runnable(c) \/ iret(c)

Next ==
    \/ \E c \in CPU : Step(c) \/ call(c) \/ timer(c)
    \/ \E p \in Proc : kill(p)

Spec == Init /\ [][Next]_vars

\* A CPU runs what is on it; a timer interrupt that stays pending is taken when
\* the CPU accepts interrupts; between two ticks a process gets some code run;
\* a critical section ends.
FairSpec ==
    /\ Spec
    /\ \A c \in CPU :
        /\ WF_vars(Step(c))
        /\ SF_vars(timer(c))
        /\ \A p \in Proc : /\ SF_vars(cproc[c] = p /\ intr[p] = None /\ Step(c))
                           /\ SF_vars(cproc[c] = p /\ pc[p] = "critical" /\ call(c))
-----------------------------------------------------------------------------
(* Properties *)

TypeOK ==
    /\ lock \in [{"ptable", "lk"} -> CPU \cup {None}]
    /\ ncli \in [CPU -> 0..2] /\ intena \in [CPU -> BOOLEAN]
    /\ fl_if \in [CPU -> BOOLEAN] /\ spin \in [CPU -> BOOLEAN]
    /\ cproc \in [CPU -> Proc \cup {None}]
    /\ spc \in [CPU -> SchedulerAt] /\ scan \in [CPU -> 1..NPROC + 1]
    /\ state \in [Proc -> {"RUNNABLE", "RUNNING", "SLEEPING"}] /\ chan \in [Proc -> BOOLEAN]
    /\ pc \in [Proc -> ProcAt] /\ saved \in [Proc -> BOOLEAN]
    /\ intr \in [Proc -> ProcAt \cup {None}]
    /\ locked \in BOOLEAN

\* None of the kernel's panics fires: acquire() of a lock this CPU holds,
\* release() of one it does not, an unbalanced popcli(), or sched() without
\* ptable.lock, with another lock, in state RUNNING or with interrupts on.
NoPanic == panic = "no"

\* A process runs on one CPU at a time, two CPUs never share a kernel stack,
\* and a process that is not on a CPU is not RUNNING (scheduler(), sched()).
OneCpu ==
    /\ \A c, d \in CPU : cproc[c] = cproc[d] /\ cproc[c] # None => c = d
    /\ \A p \in Proc : state[p] = "RUNNING" <=> \E c \in CPU : cproc[c] = p

\* Where a process is, looking through an interrupt it is handling.
Place(p) == IF intr[p] = None THEN pc[p] ELSE intr[p]
Holds(p) == Place(p) \in {"acquiresleep_end", "critical", "releasesleep", "clear"}

\* acquiresleep() gives the sleep lock to one process at a time, across
\* sleeping, preemption and migration, and locked says whether it is taken.
SleepLockExclusive ==
    /\ \A p, q \in Proc : Holds(p) /\ Holds(q) => p = q
    /\ locked <=> \E p \in Proc : Holds(p)

\* What spin locks, sched() and sleep locks guarantee together: no panic, one
\* CPU per process and one holder per sleep lock.
SchedSafe == TypeOK /\ NoPanic /\ OneCpu /\ SleepLockExclusive

\* sleep() misses no wakeup(): a process asleep on a lock that is free has a
\* releaser that is still going to call wakeup1().
NoLostWakeup ==
    ~locked /\ (\E p \in Proc : state[p] = "SLEEPING")
        => \E q \in Proc : Place(q) \in {"wakeup", "wakeup1"}

\* pushcli()/popcli() and the intena saved by sched() give every thread its own
\* interrupt flag back, whatever ran in between and whichever CPU it resumes
\* on: off with any lock held or in a handler, on otherwise.
InterruptsRestored ==
    \A c \in CPU :
        /\ fl_if[c] => ncli[c] = 0
        /\ cproc[c] # None /\ ncli[c] = 0 /\ At(c) # "iret"
             => (fl_if[c] <=> intr[cproc[c]] = None)

\* scheduler() is round robin: a process that is RUNNABLE gets the CPU.
RunnableRuns == \A p \in Proc : state[p] = "RUNNABLE" ~> state[p] = "RUNNING"

\* A process asleep on the sleep lock is woken.
SleeperWakes == \A p \in Proc : state[p] = "SLEEPING" ~> state[p] # "SLEEPING"
=============================================================================
