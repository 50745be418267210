---------------------------- MODULE SchedProofs ----------------------------
(* Proofs about Sched: no panic of the locking code, one CPU per process, one  *)
(* holder per sleep lock, the interrupt flag and the wakeup protocol, for any  *)
(* number of CPUs and processes; and the semaphores that a lab builds on       *)
(* sleep() and wakeup().                                                       *)
EXTENDS Sched, Semaphore, TLAPS

\* Where the thread of CPU c is.
Loc(c) == IF cproc[c] = None THEN spc[c] ELSE pc[cproc[c]]

\* The places at which a thread holds ptable.lock, and the sleep lock's lk.
HasPtable == {"scan", "scheduler_end", "release_lk", "sleeping", "tidy", "tidied", "wakeup1",
              "wakeup_end", "runnable", "yield_end", "forkret"}
HasLk == {"test", "sleep", "release_lk", "acquiresleep_end", "clear", "wakeup", "wakeup1",
          "wakeup_end", "releasesleep_end"}

Depth(l) == (IF l \in HasPtable THEN 1 ELSE 0) + (IF l \in HasLk THEN 1 ELSE 0)

\* The lock fields say which thread holds them, and ncli counts the locks held
\* and the acquire() in progress.
LocksInv ==
    \A c \in CPU :
        /\ lock["ptable"] = c <=> Loc(c) \in HasPtable
        /\ lock["lk"] = c <=> Loc(c) \in HasLk
        /\ ncli[c] = Depth(Loc(c)) + (IF spin[c] THEN 1 ELSE 0)
        /\ spin[c] => Loc(c) \in DOMAIN Acquires
        /\ cproc[c] # None => spc[c] = "scan"

OnCpu(p) == \E c \in CPU : cproc[c] = p

\* A process off the CPUs waits in sched(), or has never run.
OffCpuInv ==
    \A p \in Proc :
        /\ ~OnCpu(p) => pc[p] \in {"tidy", "yield_end", "forkret"}
        /\ state[p] = "SLEEPING" => pc[p] = "tidy" /\ chan[p]

\* Code that runs with interrupts on.
Interruptible == {"user", "acquiresleep", "sleep_relock", "critical", "releasesleep", "iret"}

\* What the timer interrupt's handler interrupted, and the flag sched() saved
\* for a process off the CPUs: on, unless it is in the handler.
HandlerInv ==
    \A p \in Proc :
        /\ pc[p] \in {"yield", "runnable", "yield_end"} => intr[p] # None
        /\ pc[p] \notin {"yield", "runnable", "yield_end", "iret"} => intr[p] = None
        /\ intr[p] \in Interruptible \cup {None}
        /\ ~OnCpu(p) /\ pc[p] # "forkret" => (saved[p] <=> intr[p] = None)

\* The flag of the process on a CPU is in intena while locks are held, and in
\* fl_if otherwise.
FlagInv ==
    \A c \in CPU :
        /\ fl_if[c] => ncli[c] = 0
        /\ cproc[c] # None /\ ncli[c] > 0 /\ Loc(c) # "forkret"
             => (intena[c] <=> intr[cproc[c]] = None)
        /\ cproc[c] # None /\ ncli[c] = 0 /\ Loc(c) # "iret"
             => (fl_if[c] <=> intr[cproc[c]] = None)
        /\ cproc[c] # None /\ fl_if[c] => intr[cproc[c]] = None

\* On a free lock nobody sleeps or is about to, unless a releaser is on its way
\* to wakeup1().
WakeupInv ==
    \/ locked
    \/ \A p \in Proc : state[p] # "SLEEPING" /\ pc[p] \notin {"sleep", "release_lk", "sleeping"}
    \/ \E q \in Proc : pc[q] \in {"wakeup", "wakeup1"}

IInv ==
    /\ SchedSafe
    /\ LocksInv
    /\ OffCpuInv
    /\ HandlerInv
    /\ FlagInv
    /\ WakeupInv
-----------------------------------------------------------------------------
\* What each acquire() takes and where it leads, as alternatives.
LEMMA AcquireCases ==
    ASSUME NEW l \in DOMAIN Acquires
    PROVE  \/ l = "scheduler"    /\ Acquires[l][1] = "ptable" /\ Acquires[l][2] = "scan"
           \/ l = "acquiresleep" /\ Acquires[l][1] = "lk"     /\ Acquires[l][2] = "test"
           \/ l = "sleep"        /\ Acquires[l][1] = "ptable" /\ Acquires[l][2] = "release_lk"
           \/ l = "sleep_relock" /\ Acquires[l][1] = "lk"     /\ Acquires[l][2] = "test"
           \/ l = "releasesleep" /\ Acquires[l][1] = "lk"     /\ Acquires[l][2] = "clear"
           \/ l = "wakeup"       /\ Acquires[l][1] = "ptable" /\ Acquires[l][2] = "wakeup1"
           \/ l = "yield"        /\ Acquires[l][1] = "ptable" /\ Acquires[l][2] = "runnable"
BY DEF Acquires

\* The same for each release().
LEMMA ReleaseCases ==
    ASSUME NEW l \in DOMAIN Releases
    PROVE  \/ l = "scheduler_end"    /\ Releases[l][1] = "ptable" /\ Releases[l][2] = "sti"
           \/ l = "acquiresleep_end" /\ Releases[l][1] = "lk"     /\ Releases[l][2] = "critical"
           \/ l = "release_lk"       /\ Releases[l][1] = "lk"     /\ Releases[l][2] = "sleeping"
           \/ l = "tidied"           /\ Releases[l][1] = "ptable" /\ Releases[l][2] = "sleep_relock"
           \/ l = "wakeup_end"       /\ Releases[l][1] = "ptable" /\ Releases[l][2] = "releasesleep_end"
           \/ l = "releasesleep_end" /\ Releases[l][1] = "lk"     /\ Releases[l][2] = "user"
           \/ l = "yield_end"        /\ Releases[l][1] = "ptable" /\ Releases[l][2] = "iret"
           \/ l = "forkret"          /\ Releases[l][1] = "ptable" /\ Releases[l][2] = "iret"
BY DEF Releases

\* The places of the scheduler and of a process, written out.
LEMMA Places ==
    /\ SchedulerAt = {"sti", "scheduler", "scan", "scheduler_end"}
    /\ ProcAt = {"user", "test", "sleeping", "tidy", "critical", "clear", "wakeup1", "runnable", "iret",
                 "acquiresleep", "sleep", "sleep_relock", "releasesleep", "wakeup", "yield",
                 "acquiresleep_end", "release_lk", "tidied", "wakeup_end", "releasesleep_end",
                 "yield_end", "forkret"}
    /\ DOMAIN Acquires = {"scheduler", "acquiresleep", "sleep", "sleep_relock", "releasesleep", "wakeup", "yield"}
BY Zenon DEF SchedulerAt, ProcAt, Acquires, Releases

\* Without a panic the guards of the actions speak of the thread's place.
LEMMA AtIsLoc == ASSUME NoPanic, NEW c \in CPU PROVE At(c) = Loc(c)
BY Zenon DEF NoPanic, At, Loc

\* A jump of one thread leaves the others where they are.
LEMMA GotoLoc ==
    ASSUME TypeOK, OneCpu, NEW c \in CPU, NEW l, Goto(c, l), cproc' = cproc
    PROVE  Loc(c)' = l /\ \A d \in CPU : d # c => Loc(d)' = Loc(d)
BY SchedConstants DEF TypeOK, OneCpu, Goto, Loc

\* Who holds the sleep lock, when a step leaves every process where it is.
LEMMA SameHolders == ASSUME IInv, UNCHANGED <<pc, intr, locked>> PROVE SleepLockExclusive'
<1>1. \A p \in Proc : Holds(p)' <=> Holds(p) BY Zenon DEF Holds, Place
<1> QED BY <1>1, Zenon DEF IInv, SchedSafe, SleepLockExclusive

\* A step that changes nothing keeps the inductive invariant.
LEMMA StutterIInv == ASSUME IInv, UNCHANGED vars PROVE IInv'
<1>1. TypeOK' BY Zenon DEF vars, IInv, SchedSafe, TypeOK
<1>2. NoPanic' /\ OneCpu' BY Zenon DEF vars, IInv, SchedSafe, NoPanic, OneCpu
<1>3. SleepLockExclusive' BY SameHolders, Zenon DEF vars
<1>4. LocksInv' BY DEF vars, IInv, LocksInv, Loc
<1>5. OffCpuInv' BY Zenon DEF vars, IInv, OffCpuInv, OnCpu
<1>6. HandlerInv' /\ FlagInv' BY Zenon DEF vars, IInv, HandlerInv, FlagInv, OnCpu, Loc
<1>7. WakeupInv' BY Zenon DEF vars, IInv, WakeupInv
<1> QED BY Zenon, <1>1, <1>2, <1>3, <1>4, <1>5, <1>6, <1>7 DEF IInv, SchedSafe

\* What runs where, when a step leaves it alone.
LEMMA SameCpus == ASSUME IInv, UNCHANGED <<cproc, state, panic>> PROVE NoPanic' /\ OneCpu'
BY Zenon DEF IInv, SchedSafe, NoPanic, OneCpu

\* A trap, or the return from one: p on CPU c goes to l, and i is what it is
\* interrupted from.
Trap(c, p, l, i, f) ==
    /\ intr' = [intr EXCEPT ![p] = i] /\ pc' = [pc EXCEPT ![p] = l] /\ fl_if' = [fl_if EXCEPT ![c] = f]
    /\ UNCHANGED <<lock, ncli, intena, spin, cproc, spc, scan, state, chan, saved, locked, panic>>

\* It happens where no lock is held, and leaves the place under it alone.
LEMMA TrapIInv ==
    ASSUME IInv, NEW c \in CPU, NEW p \in Proc, cproc[c] = p,
           NEW l \in ProcAt, NEW i \in Interruptible \cup {None}, NEW f \in BOOLEAN, Trap(c, p, l, i, f),
           ncli[c] = 0, ~spin[c], pc[p] \notin HasPtable \cup HasLk, l \notin HasPtable \cup HasLk,
           (l = "yield" /\ i # None /\ ~f) \/ (l # "yield" /\ i = None /\ f),
           (IF i = None THEN l ELSE i) = Place(p) \/ (Place(p) = "iret" /\ i = None /\ l = "user")
    PROVE  IInv'
<1> USE SchedConstants, Places
<1>t. TypeOK /\ OneCpu /\ p # None BY Zenon DEF IInv, SchedSafe, Proc
<1>u. UNCHANGED <<lock, ncli, intena, spin, cproc, spc, scan, state, chan, saved, locked, panic>> BY Zenon DEF Trap
<1>x. /\ pc'[p] = l /\ intr'[p] = i /\ \A q \in Proc : q # p => pc'[q] = pc[q] /\ intr'[q] = intr[q]
      /\ fl_if'[c] = f /\ \A d \in CPU : d # c => fl_if'[d] = fl_if[d]
  BY <1>t DEF TypeOK, Trap
<1>d. \A d \in CPU : d # c /\ cproc[d] # None => cproc[d] \in Proc /\ cproc[d] # p
  BY <1>t DEF TypeOK, OneCpu
<1>z. /\ Loc(c)' = l /\ Loc(c) = pc[p] /\ \A d \in CPU : d # c => Loc(d)' = Loc(d)
      /\ OnCpu(p) /\ \A q \in Proc : OnCpu(q)' <=> OnCpu(q)
  BY Zenon, <1>d, <1>t, <1>u, <1>x DEF Loc, OnCpu
<1>1. TypeOK' BY Zenon, <1>t DEF TypeOK, Trap, Interruptible
<1>2. NoPanic' /\ OneCpu' BY Zenon, <1>u, SameCpus
<1>3. SleepLockExclusive'
  <2>1. (Holds(p)' <=> Holds(p)) /\ \A q \in Proc : q # p => (Holds(q)' <=> Holds(q))
    BY Zenon, <1>t, <1>x DEF Holds, Place
  <2> QED BY <1>u, <2>1 DEF IInv, SchedSafe, SleepLockExclusive
<1>4. LocksInv'
  <2>1. Depth(l) = 0 /\ Depth(pc[p]) = 0 BY DEF Depth
  <2> QED BY <1>t, <1>u, <1>z, <2>1 DEF IInv, LocksInv
<1>5. OffCpuInv'
  <2>1. state[p] = "RUNNING" BY Zenon, <1>t DEF OneCpu
  <2> QED BY <1>u, <1>x, <1>z, <2>1 DEF IInv, OffCpuInv
<1>6. HandlerInv'
  <2>1. l \notin {"runnable", "yield_end"} BY Zenon DEF HasPtable
  <2> QED BY <1>u, <1>x, <1>z, <2>1 DEF IInv, HandlerInv
<1>7. FlagInv' BY <1>d, <1>u, <1>x, <1>z DEF IInv, FlagInv
<1>8. WakeupInv'
  <2>1. \A q \in Proc : /\ pc'[q] \in {"wakeup", "wakeup1"} <=> pc[q] \in {"wakeup", "wakeup1"}
                        /\ pc'[q] \in {"sleep", "release_lk", "sleeping"} <=> pc[q] \in {"sleep", "release_lk", "sleeping"}
    BY Zenon, <1>x DEF HasPtable, HasLk
  <2> QED BY Zenon, <1>u, <2>1 DEF IInv, WakeupInv
<1> QED BY Zenon, <1>1, <1>2, <1>3, <1>4, <1>5, <1>6, <1>7, <1>8 DEF IInv, SchedSafe

\* The timer interrupts the process that a CPU runs.
LEMMA TimerIInv == ASSUME IInv, NEW c \in CPU, timer(c) PROVE IInv'
<1> USE SchedConstants, Places
<1> DEFINE p == cproc[c]
<1>0. p \in Proc /\ p # None /\ Loc(c) = pc[p] /\ ncli[c] = 0 /\ fl_if[c]
  BY DEF IInv, SchedSafe, Loc, TypeOK, FlagInv, timer
<1>1. Trap(c, p, "yield", pc[p], FALSE) BY Zenon DEF timer, Trap
<1>2. intr[p] = None /\ pc[p] \in ProcAt BY Zenon, <1>0 DEF IInv, FlagInv, SchedSafe, TypeOK
<1>3. pc[p] \notin HasPtable /\ pc[p] \notin HasLk /\ ~spin[c]
  <2>1. Depth(Loc(c)) \in 0..2 BY DEF Depth
  <2>2. Depth(Loc(c)) = 0 /\ ~spin[c] BY <1>0, <2>1 DEF IInv, LocksInv, SchedSafe, TypeOK
  <2> QED BY <1>0, <2>2 DEF Depth
<1>4. pc[p] \in Interruptible
  <2>1. pc[p] # "yield" BY Zenon, <1>0, <1>2 DEF IInv, HandlerInv
  <2> QED BY Zenon, <1>2, <1>3, <2>1 DEF Interruptible, HasPtable, HasLk
<1>5. pc[p] # None /\ "yield" \notin HasPtable \cup HasLk /\ Place(p) = pc[p]
  BY Zenon, <1>2, <1>4 DEF Interruptible, HasPtable, HasLk, Place
<1> HIDE DEF p
<1>6. cproc[c] = p BY Zenon DEF p
<1> QED BY <1>0, <1>1, <1>2, <1>3, <1>4, <1>5, <1>6, TrapIInv, Zenon

\* The return from the timer interrupt.
LEMMA IretIInv == ASSUME IInv, NEW c \in CPU, iret(c) PROVE IInv'
<1> USE SchedConstants, Places
<1> DEFINE p == cproc[c]  l == IF intr[p] = None THEN "user" ELSE intr[p]
<1>0. p \in Proc /\ p # None /\ Loc(c) = pc[p] /\ Loc(c) = "iret"
  BY AtIsLoc DEF IInv, SchedSafe, Loc, TypeOK, iret
<1>1. Trap(c, p, l, None, TRUE) BY Zenon DEF iret, Trap
<1>2. l \in Interruptible /\ (intr[p] # None => l = intr[p]) /\ (intr[p] = None => l = "user")
  <2>1. intr[p] \in Interruptible \cup {None} BY Zenon, <1>0 DEF IInv, HandlerInv
  <2>2. "user" \in Interruptible BY Zenon DEF Interruptible
  <2> QED BY Zenon, <2>1, <2>2
<1> HIDE DEF l
<1>3. Depth("iret") = 0 /\ "iret" \notin HasPtable \cup HasLk /\ l \notin HasPtable \cup HasLk /\ l # "yield" /\ l \in ProcAt
  BY <1>2 DEF Depth, HasPtable, HasLk, Interruptible
<1>4. ncli[c] = 0 /\ ~spin[c] BY <1>0, <1>3 DEF IInv, SchedSafe, TypeOK, LocksInv
<1>5. l = Place(p) \/ (Place(p) = "iret" /\ l = "user") BY Zenon, <1>0, <1>2 DEF Place
<1> HIDE DEF p
<1>6. cproc[c] = p BY Zenon DEF p
<1>7. /\ None \in Interruptible \cup {None} /\ TRUE \in BOOLEAN
      /\ ("iret" \notin HasPtable \cup HasLk) = (pc[p] \notin HasPtable \cup HasLk)
      /\ (IF None = None THEN l ELSE None) = l
  BY Zenon, <1>0
<1> QED BY <1>0, <1>1, <1>3, <1>4, <1>5, <1>6, <1>7, TrapIInv, Zenon

\* sched(), from sleep() or from yield(): the CPU goes back to its scheduler.
LEMMA SchedIInv ==
    ASSUME IInv, NEW c \in CPU, NEW s, NEW l, sched(c, s, l),
           \/ Loc(c) = "sleeping" /\ s = "SLEEPING" /\ l = "tidy" /\ chan' = [chan EXCEPT ![cproc[c]] = TRUE]
           \/ Loc(c) = "runnable" /\ s = "RUNNABLE" /\ l = "yield_end" /\ UNCHANGED chan
    PROVE  IInv'
<1> USE SchedConstants, Places
<1>t. TypeOK /\ OneCpu BY Zenon DEF IInv, SchedSafe
<1>v. PICK p \in Proc : cproc[c] = p BY <1>t DEF Loc, TypeOK
<1>0. p # None /\ Loc(c) = pc[p] /\ spc[c] = "scan" BY Zenon, <1>v DEF IInv, Loc, LocksInv, Proc
<1> USE <1>0, <1>v
<1>c. lock["ptable"] = c /\ lock["lk"] # c /\ ncli[c] = 1 /\ ~spin[c] /\ ~fl_if[c]
  <2>1. Depth(Loc(c)) = 1 BY DEF Depth, HasPtable, HasLk
  <2> QED BY <1>t, <2>1 DEF IInv, TypeOK, LocksInv, FlagInv, HasPtable, HasLk
<1>e. /\ state' = [state EXCEPT ![p] = s] /\ saved' = [saved EXCEPT ![p] = intena[c]]
      /\ pc' = [pc EXCEPT ![p] = l] /\ cproc' = [cproc EXCEPT ![c] = None]
  BY Zenon DEF sched
<1>u. UNCHANGED <<lock, ncli, intena, fl_if, spin, spc, scan, intr, locked, panic>> BY Zenon, <1>c DEF sched, holding
<1>l. \/ pc[p] = "sleeping" /\ s = "SLEEPING" /\ l = "tidy" /\ chan' = [chan EXCEPT ![p] = TRUE]
      \/ pc[p] = "runnable" /\ s = "RUNNABLE" /\ l = "yield_end" /\ UNCHANGED chan
  BY Zenon
<1>w. /\ cproc'[c] = None /\ \A d \in CPU : d # c => cproc'[d] = cproc[d] /\ cproc[d] # p
      /\ pc'[p] = l /\ \A q \in Proc : q # p => pc'[q] = pc[q]
      /\ state'[p] = s /\ saved'[p] = intena[c]
      /\ \A q \in Proc : q # p => state'[q] = state[q] /\ saved'[q] = saved[q]
  BY <1>e, <1>t DEF TypeOK, OneCpu
<1>a. /\ Loc(c)' = "scan" /\ \A d \in CPU : d # c => Loc(d)' = Loc(d)
      /\ \A q \in Proc : OnCpu(q)' <=> OnCpu(q) /\ q # p
  BY <1>t, <1>u, <1>w DEF TypeOK, Loc, OnCpu
<1>1. TypeOK'
  <2>1. /\ state' \in [Proc -> {"RUNNABLE", "RUNNING", "SLEEPING"}] /\ saved' \in [Proc -> BOOLEAN]
        /\ pc' \in [Proc -> ProcAt] /\ cproc' \in [CPU -> Proc \cup {None}]
    BY Zenon, <1>e, <1>l, <1>t DEF TypeOK
  <2>2. chan' \in [Proc -> BOOLEAN] BY <1>l, <1>t, Zenon DEF TypeOK
  <2> QED BY Zenon, <1>t, <1>u, <2>1, <2>2 DEF TypeOK
<1>2. NoPanic' /\ OneCpu'
  <2>1. \A q \in Proc : state'[q] = "RUNNING" <=> OnCpu(q)'
    BY <1>a, <1>l, <1>t, <1>w DEF OneCpu, OnCpu
  <2> QED BY <1>t, <1>u, <1>w, <2>1 DEF IInv, SchedSafe, NoPanic, OneCpu, OnCpu
<1>3. SleepLockExclusive'
  <2>1. \A q \in Proc : q # p => (Holds(q)' <=> Holds(q)) BY Zenon, <1>u, <1>w DEF Holds, Place
  <2>2. Holds(p)' <=> Holds(p) BY Zenon, <1>l, <1>u, <1>w DEF Holds, Place, IInv, HandlerInv
  <2> QED BY Zenon, <1>u, <2>1, <2>2 DEF IInv, SchedSafe, SleepLockExclusive
<1>4. LocksInv'
  <2>1. "scan" \in HasPtable /\ "scan" \notin HasLk /\ Depth("scan") = 1 BY DEF HasPtable, HasLk, Depth
  <2> QED BY <1>a, <1>c, <1>u, <1>w, <2>1 DEF IInv, LocksInv
<1>5. OffCpuInv'
  <2>1. s = "SLEEPING" => l = "tidy" /\ chan'[p] BY Zenon, <1>l, <1>t DEF TypeOK
  <2>2. \A q \in Proc : q # p => chan'[q] = chan[q] BY Zenon, <1>l, <1>t DEF TypeOK
  <2> QED BY <1>a, <1>l, <1>w, <2>1, <2>2 DEF IInv, OffCpuInv
<1>6. HandlerInv'
  <2>1. intena[c] <=> intr[p] = None BY <1>c DEF IInv, FlagInv
  <2> QED BY <1>a, <1>l, <1>u, <1>w, <2>1 DEF IInv, HandlerInv
<1>7. FlagInv' BY <1>a, <1>u, <1>w DEF IInv, FlagInv
<1>8. WakeupInv' BY <1>l, <1>u, <1>w DEF IInv, WakeupInv
<1> QED BY Zenon, <1>1, <1>2, <1>3, <1>4, <1>5, <1>6, <1>7, <1>8 DEF IInv, SchedSafe

\* scheduler() picks a process and switches to it.
LEMMA RunIInv == ASSUME IInv, NEW c \in CPU, run(c) PROVE IInv'
<1> USE SchedConstants, Places
<1>t. TypeOK /\ OneCpu BY Zenon DEF IInv, SchedSafe
<1>0. Loc(c) = "scan" /\ cproc[c] = None /\ spc[c] = "scan"
  BY <1>t, AtIsLoc DEF IInv, SchedSafe, run, Loc, TypeOK
<1>r. PICK p \in Runnable(scan[c]) :
         /\ cproc' = [cproc EXCEPT ![c] = p]
         /\ state' = [state EXCEPT ![p] = "RUNNING"]
         /\ scan' = [scan EXCEPT ![c] = p + 1]
         /\ intena' = [intena EXCEPT ![c] = IF pc[p] = "forkret" THEN @ ELSE saved[p]]
         /\ UNCHANGED <<lock, ncli, fl_if, spin, spc, chan, pc, saved, intr, locked, panic>>
  BY Zenon DEF run
<1>p. p \in Proc /\ state[p] = "RUNNABLE" /\ p # None /\ p + 1 \in 1..NPROC + 1
  BY <1>t DEF Runnable, Proc, TypeOK
<1>q. ~OnCpu(p) /\ pc[p] \in {"tidy", "yield_end", "forkret"}
  BY Zenon, <1>p, <1>t DEF IInv, OneCpu, OffCpuInv, OnCpu
<1>x. /\ UNCHANGED <<lock, ncli, fl_if, spin, spc, chan, pc, saved, intr, locked, panic>>
      /\ cproc'[c] = p /\ \A d \in CPU : d # c => cproc'[d] = cproc[d] /\ intena'[d] = intena[d]
      /\ state'[p] = "RUNNING" /\ \A q \in Proc : q # p => state'[q] = state[q]
      /\ intena'[c] = IF pc[p] = "forkret" THEN intena[c] ELSE saved[p]
  BY <1>p, <1>r, <1>t DEF TypeOK
<1>a. /\ Loc(c)' = pc[p] /\ \A d \in CPU : d # c => Loc(d)' = Loc(d)
      /\ \A q \in Proc : OnCpu(q)' <=> OnCpu(q) \/ q = p
  BY <1>0, <1>p, <1>x DEF Loc, OnCpu
<1>b. Depth("scan") = 1 /\ Depth(pc[p]) = 1 BY <1>q DEF Depth, HasPtable, HasLk
<1>c. ncli[c] = 1 /\ ~fl_if[c] /\ ~spin[c] /\ lock["ptable"] = c /\ lock["lk"] # c
  BY <1>0, <1>b, <1>t DEF IInv, TypeOK, LocksInv, FlagInv, HasPtable, HasLk
<1>1. TypeOK' BY Zenon, <1>p, <1>r, <1>t DEF TypeOK
<1>2. NoPanic' /\ OneCpu'
  <2>1. \A d, e \in CPU : cproc'[d] = cproc'[e] /\ cproc'[d] # None => d = e
    BY <1>q, <1>t, <1>x DEF OneCpu, OnCpu
  <2>2. \A q \in Proc : state'[q] = "RUNNING" <=> OnCpu(q)'
    BY <1>a, <1>t, <1>x DEF OneCpu, OnCpu
  <2> QED BY Zenon, <1>x, <2>1, <2>2 DEF IInv, SchedSafe, NoPanic, OneCpu, OnCpu
<1>3. SleepLockExclusive' BY <1>x DEF IInv, SchedSafe, SleepLockExclusive, Holds, Place
<1>4. LocksInv'
  <2>1. pc[p] \in HasPtable /\ pc[p] \notin HasLk BY Zenon, <1>q DEF HasPtable, HasLk
  <2> QED BY <1>0, <1>a, <1>b, <1>c, <1>x, <2>1 DEF IInv, LocksInv
<1>5. OffCpuInv' BY Zenon, <1>a, <1>x DEF IInv, OffCpuInv
<1>6. HandlerInv' BY Zenon, <1>a, <1>x DEF IInv, HandlerInv
<1>7. FlagInv'
  <2>1. pc[p] # "forkret" => (saved[p] <=> intr[p] = None) BY Zenon, <1>p, <1>q DEF IInv, HandlerInv
  <2> QED BY <1>a, <1>c, <1>x, <2>1 DEF IInv, FlagInv
<1>8. WakeupInv' BY Zenon, <1>x DEF IInv, WakeupInv
<1> QED BY Zenon, <1>1, <1>2, <1>3, <1>4, <1>5, <1>6, <1>7, <1>8 DEF IInv, SchedSafe

\* The places of a process that has acquired the sleep lock, and those of the
\* timer interrupt's handler and of forkret().
Holding == {"acquiresleep_end", "critical", "releasesleep", "clear"}
Handler == {"yield", "runnable", "yield_end", "iret", "forkret"}

\* Process p of CPU c goes to l with the spin locks it has, outside Handler.
Move(c, p, l) ==
    /\ pc[p] \notin Handler /\ pc[p] \notin DOMAIN Acquires /\ l \notin Handler
    /\ l \in HasPtable <=> pc[p] \in HasPtable
    /\ l \in HasLk <=> pc[p] \in HasLk
    /\ pc' = [pc EXCEPT ![p] = l]
    /\ UNCHANGED <<lock, ncli, intena, fl_if, spin, cproc, spc, scan, saved, intr, panic>>

\* What it does to the sleep lock: nothing, or it takes it, or lets it go.
Hold(p, l) ==
    \/ locked' = locked /\ (l \in Holding <=> pc[p] \in Holding)
    \/ locked' = TRUE /\ ~locked /\ l \in Holding
    \/ locked' = FALSE /\ pc[p] \in Holding /\ l \notin Holding

\* And to the processes: it may wake some, and sets its own chan.
Waken(p) ==
    /\ state' \in [Proc -> {"RUNNABLE", "RUNNING", "SLEEPING"}] /\ chan' \in [Proc -> BOOLEAN]
    /\ \A q \in Proc : /\ state'[q] = "RUNNING" <=> state[q] = "RUNNING"
                       /\ state'[q] = "SLEEPING" => state[q] = "SLEEPING"
                       /\ q # p => chan'[q] = chan[q]

\* It neither goes to sleep nor has anybody to wake.
Quiet(p, l) ==
    /\ locked' = locked
    /\ {pc[p], l} \cap {"sleep", "release_lk", "sleeping", "wakeup", "wakeup1"} = {}

\* A process that goes on inside the sleep lock code keeps the invariant.
LEMMA MoveIInv ==
    ASSUME IInv, NEW c \in CPU, NEW p \in Proc, cproc[c] = p, NEW l \in ProcAt,
           Move(c, p, l), Hold(p, l), Waken(p), WakeupInv' \/ Quiet(p, l)
    PROVE  IInv'
<1> USE SchedConstants, Places
<1>t. TypeOK /\ OneCpu /\ p # None BY Zenon DEF IInv, SchedSafe, Proc
<1>u. UNCHANGED <<lock, ncli, intena, fl_if, spin, cproc, spc, scan, saved, intr, panic>> BY Zenon DEF Move
<1>x. /\ pc'[p] = l /\ \A q \in Proc : q # p => pc'[q] = pc[q]
      /\ OnCpu(p) /\ \A q \in Proc : OnCpu(q)' <=> OnCpu(q)
  BY Zenon, <1>t, <1>u DEF TypeOK, Move, OnCpu
<1>z. Loc(c)' = l /\ Loc(c) = pc[p] /\ \A d \in CPU : d # c => Loc(d)' = Loc(d)
  BY <1>t, <1>u, <1>x DEF Loc, TypeOK, OneCpu
<1>i. intr[p] = None BY Zenon DEF IInv, HandlerInv, Move, Handler
<1>1. TypeOK'
  <2>1. pc' \in [Proc -> ProcAt] BY Zenon, <1>t DEF TypeOK, Move
  <2>2. locked' \in BOOLEAN BY <1>t, Zenon DEF TypeOK, Hold
  <2> QED BY Zenon, <1>t, <1>u, <2>1, <2>2 DEF TypeOK, Waken
<1>2. NoPanic' /\ OneCpu' BY <1>t, <1>u DEF IInv, SchedSafe, NoPanic, OneCpu, Waken
<1>3. SleepLockExclusive'
  <2>1. \A q \in Proc : q # p => (Holds(q)' <=> Holds(q)) BY Zenon, <1>u, <1>x DEF Holds, Place
  <2>2. (Holds(p)' <=> l \in Holding) /\ (Holds(p) <=> pc[p] \in Holding)
    BY Zenon, <1>i, <1>u, <1>x DEF Holds, Place, Holding
  <2> QED BY <2>1, <2>2 DEF IInv, SchedSafe, SleepLockExclusive, Hold
<1>4. LocksInv'
  <2>1. Depth(l) = Depth(pc[p]) /\ ~spin[c] BY Zenon, <1>z DEF Depth, Move, IInv, LocksInv
  <2> QED BY <1>u, <1>z, <2>1 DEF IInv, LocksInv, Move
<1>5. OffCpuInv'
  <2>1. state[p] # "SLEEPING" BY Zenon, <1>t DEF OneCpu
  <2> QED BY <1>x, <2>1 DEF IInv, OffCpuInv, Waken
<1>6. HandlerInv' BY <1>i, <1>u, <1>x DEF IInv, HandlerInv, Move, Handler
<1>7. FlagInv'
  <2>1. Loc(c)' \notin {"iret", "forkret"} /\ Loc(c) \notin {"iret", "forkret"} BY Zenon, <1>z DEF Move, Handler
  <2> QED BY Zenon, <1>u, <1>z, <2>1 DEF IInv, FlagInv
<1>8. ASSUME Quiet(p, l) PROVE WakeupInv'
  <2>1. \A q \in Proc : /\ pc'[q] \in {"wakeup", "wakeup1"} <=> pc[q] \in {"wakeup", "wakeup1"}
                        /\ pc'[q] \in {"sleep", "release_lk", "sleeping"} <=> pc[q] \in {"sleep", "release_lk", "sleeping"}
    BY <1>8, <1>x, Zenon DEF Quiet
  <2> QED BY Zenon, <1>8, <2>1 DEF Quiet, IInv, WakeupInv, Waken
<1> QED BY <1>1, <1>2, <1>3, <1>4, <1>5, <1>6, <1>7, <1>8, Zenon DEF IInv, SchedSafe

\* A process calls acquiresleep(), or releasesleep() with the lock held.
LEMMA CallIInv == ASSUME IInv, NEW c \in CPU, call(c) PROVE IInv'
<1> USE SchedConstants, Places
<1>0. PICK p \in Proc : cproc[c] = p /\ Loc(c) = pc[p] /\ Loc(c) \in {"user", "critical"}
  BY AtIsLoc DEF IInv, SchedSafe, call, Loc, TypeOK
<1> DEFINE l == IF pc[p] = "user" THEN "acquiresleep" ELSE "releasesleep"
<1>1. Goto(c, l) BY Zenon, <1>0, AtIsLoc DEF call, IInv, SchedSafe
<1>l. l \in ProcAt /\ ((pc[p] = "user" /\ l = "acquiresleep") \/ (pc[p] = "critical" /\ l = "releasesleep"))
  BY Zenon, <1>0
<1> HIDE DEF l
<1>2. Move(c, p, l) BY Zenon, <1>0, <1>1, <1>l DEF Move, Handler, HasPtable, HasLk, Goto, call
<1>3. Hold(p, l) /\ Quiet(p, l) BY Zenon, <1>l DEF Hold, Holding, Quiet, call
<1>4. Waken(p) BY Zenon DEF Waken, call, IInv, SchedSafe, TypeOK
<1> QED BY <1>0, <1>l, <1>2, <1>3, <1>4, MoveIInv, Zenon

\* The test of lk->locked.
LEMMA TestIInv == ASSUME IInv, NEW c \in CPU, test(c) PROVE IInv'
<1> USE SchedConstants, Places
<1>0. PICK p \in Proc : cproc[c] = p /\ Loc(c) = pc[p] /\ Loc(c) = "test"
  BY AtIsLoc DEF IInv, SchedSafe, test, Loc, TypeOK
<1>1. PICK l \in ProcAt : Goto(c, l) /\ ((locked /\ l = "sleep") \/ (~locked /\ l = "acquiresleep_end"))
  BY Zenon DEF test
<1>2. Move(c, p, l) BY Zenon, <1>0, <1>1 DEF Move, Handler, HasPtable, HasLk, Goto, test
<1>3. Hold(p, l) BY <1>0, <1>1, Zenon DEF Hold, Holding, test, IInv, SchedSafe, TypeOK
<1>4. Waken(p) BY Zenon DEF Waken, test, IInv, SchedSafe, TypeOK
<1>5. WakeupInv' BY Zenon DEF WakeupInv, test
<1> QED BY <1>0, <1>2, <1>3, <1>4, <1>5, MoveIInv, Zenon

\* sleep() clears chan after sched().
LEMMA TidyIInv == ASSUME IInv, NEW c \in CPU, tidy(c) PROVE IInv'
<1> USE SchedConstants, Places
<1>0. PICK p \in Proc : cproc[c] = p /\ Loc(c) = pc[p] /\ Loc(c) = "tidy"
  BY AtIsLoc DEF IInv, SchedSafe, tidy, Loc, TypeOK
<1>1. Move(c, p, "tidied") BY Zenon, <1>0 DEF Move, Handler, HasPtable, HasLk, Goto, tidy
<1>2. Hold(p, "tidied") /\ Quiet(p, "tidied") BY Zenon, <1>0 DEF Hold, Holding, Quiet, tidy
<1>3. Waken(p)
  <2>1. chan' = [chan EXCEPT ![p] = FALSE] /\ state' = state BY Zenon, <1>0 DEF tidy
  <2> QED BY <2>1, Zenon DEF Waken, IInv, SchedSafe, TypeOK
<1>4. "tidied" \in ProcAt BY Zenon
<1> QED BY <1>0, <1>1, <1>2, <1>3, <1>4, MoveIInv, Zenon

\* releasesleep() clears lk->locked.
LEMMA ClearIInv == ASSUME IInv, NEW c \in CPU, clear(c) PROVE IInv'
<1> USE SchedConstants, Places
<1>0. PICK p \in Proc : cproc[c] = p /\ Loc(c) = pc[p] /\ Loc(c) = "clear"
  BY AtIsLoc DEF IInv, SchedSafe, clear, Loc, TypeOK
<1>1. Move(c, p, "wakeup") BY Zenon, <1>0 DEF Move, Handler, HasPtable, HasLk, Goto, clear
<1>2. Hold(p, "wakeup") BY Zenon, <1>0 DEF Hold, Holding, clear
<1>3. Waken(p) BY Zenon DEF Waken, clear, IInv, SchedSafe, TypeOK
<1>4. pc'[p] = "wakeup" BY Zenon, <1>1 DEF Move, IInv, SchedSafe, TypeOK
<1>5. WakeupInv' BY Zenon, <1>4 DEF WakeupInv
<1>6. "wakeup" \in ProcAt BY Zenon
<1> QED BY <1>0, <1>1, <1>2, <1>3, <1>5, <1>6, MoveIInv, Zenon

\* wakeup1() makes every sleeper runnable.
LEMMA Wakeup1IInv == ASSUME IInv, NEW c \in CPU, wakeup1(c) PROVE IInv'
<1> USE SchedConstants, Places
<1>0. PICK p \in Proc : cproc[c] = p /\ Loc(c) = pc[p] /\ Loc(c) = "wakeup1"
  BY AtIsLoc DEF IInv, SchedSafe, wakeup1, Loc, TypeOK
<1>1. Move(c, p, "wakeup_end") BY Zenon, <1>0 DEF Move, Handler, HasPtable, HasLk, Goto, wakeup1
<1>2. Hold(p, "wakeup_end") BY Zenon, <1>0 DEF Hold, Holding, wakeup1
<1>w. \A q \in Proc : state'[q] = IF state[q] = "SLEEPING" THEN "RUNNABLE" ELSE state[q]
  BY Zenon DEF wakeup1, Wake, IInv, OffCpuInv
<1>3. Waken(p)
  <2>1. state' \in [Proc -> {"RUNNABLE", "RUNNING", "SLEEPING"}] BY Zenon DEF wakeup1, Wake, IInv, SchedSafe, TypeOK
  <2> QED BY Zenon, <1>w, <2>1 DEF Waken, wakeup1, IInv, SchedSafe, TypeOK
<1>4. WakeupInv'
  <2>1. lock["lk"] = c /\ lock["ptable"] = c BY Zenon, <1>0 DEF IInv, LocksInv, HasPtable, HasLk
  <2>2. \A q \in Proc : OnCpu(q) => pc[q] \notin {"sleep", "release_lk", "sleeping"}
    BY <1>0, <2>1 DEF IInv, LocksInv, OnCpu, Loc, HasPtable, HasLk
  <2>3. \A q \in Proc : pc'[q] \notin {"sleep", "release_lk", "sleeping"}
    BY <1>1, <2>2 DEF Move, IInv, OffCpuInv, SchedSafe, TypeOK
  <2>4. \A q \in Proc : state'[q] # "SLEEPING" BY Zenon, <1>w
  <2> QED BY Zenon, <2>3, <2>4 DEF WakeupInv
<1>5. "wakeup_end" \in ProcAt BY Zenon
<1> QED BY <1>0, <1>1, <1>2, <1>3, <1>4, <1>5, MoveIInv, Zenon
-----------------------------------------------------------------------------
(* The steps that take and release spin locks.                                *)

\* A thread that only moves within the locking code or the scheduler goes to a
\* place of the same kind: the sleep lock, the handler and the sleepers stay as
\* they are.
SameKind(l, m) ==
    /\ l \in Holding <=> m \in Holding
    /\ m \in {"yield", "runnable", "yield_end"} => l \in {"yield", "runnable", "yield_end"}
    /\ m \notin {"yield", "runnable", "yield_end", "iret"} => l \notin {"yield", "runnable", "yield_end", "iret"}
    /\ m # "forkret"
    /\ m \in {"wakeup", "wakeup1"} <=> l \in {"wakeup", "wakeup1"}
    /\ m \in {"sleep", "release_lk", "sleeping"} <=> l \in {"sleep", "release_lk", "sleeping"}
    /\ l \in SchedulerAt => m \in SchedulerAt
    /\ l \in ProcAt => m \in ProcAt

\* Where the threads are after it.
Landed(c, l) ==
    /\ Loc(c)' = l /\ \A d \in CPU : d # c => Loc(d)' = Loc(d)
    /\ pc' \in [Proc -> ProcAt] /\ spc' \in [CPU -> SchedulerAt]
    /\ \A d \in CPU : cproc[d] # None => spc'[d] = spc[d]

\* Such a jump keeps everything but the locks and the interrupt flag.
LEMMA JumpStep ==
    ASSUME IInv, NEW c \in CPU, NEW l, Goto(c, l), SameKind(Loc(c), l),
           UNCHANGED <<cproc, state, chan, saved, intr, locked>>
    PROVE  Landed(c, l) /\ SleepLockExclusive' /\ OffCpuInv' /\ HandlerInv' /\ WakeupInv'
<1> USE SchedConstants, Places
<1>t. TypeOK /\ OneCpu BY Zenon DEF IInv, SchedSafe
<1>1. cproc[c] # None => cproc[c] \in Proc /\ Loc(c) = pc[cproc[c]] /\ pc' = [pc EXCEPT ![cproc[c]] = l] /\ spc' = spc
  BY <1>t DEF Goto, Loc, TypeOK
<1>2. cproc[c] = None => pc' = pc /\ Loc(c) = spc[c] /\ spc' = [spc EXCEPT ![c] = l] BY Zenon DEF Goto, Loc
<1>3. /\ \A q \in Proc : pc'[q] = IF cproc[c] = q THEN l ELSE pc[q]
      /\ \A q \in Proc : cproc[c] = q => pc[q] = Loc(c) /\ OnCpu(q)
      /\ \A q \in Proc : OnCpu(q)' <=> OnCpu(q)
  BY <1>1, <1>2, <1>t DEF TypeOK, Proc, OnCpu
<1>4. Landed(c, l)
  <2>1. Loc(c)' = l /\ \A d \in CPU : d # c => Loc(d)' = Loc(d) BY Zenon, <1>t, GotoLoc
  <2> QED BY <1>1, <1>2, <1>t, <2>1 DEF TypeOK, SameKind, Landed
<1>5. SleepLockExclusive'
  <2>1. \A q \in Proc : Holds(q)' <=> Holds(q) BY <1>3 DEF Holds, Place, SameKind, Holding
  <2> QED BY Zenon, <2>1 DEF IInv, SchedSafe, SleepLockExclusive
<1>6. OffCpuInv'
  <2>1. \A q \in Proc : cproc[c] = q => state[q] # "SLEEPING" BY Zenon, <1>t DEF OneCpu
  <2> QED BY Zenon, <1>3, <2>1 DEF IInv, OffCpuInv
<1>7. HandlerInv' BY <1>3 DEF IInv, HandlerInv, SameKind
<1>8. WakeupInv'
  <2>1. \A q \in Proc : /\ pc'[q] \in {"wakeup", "wakeup1"} <=> pc[q] \in {"wakeup", "wakeup1"}
                        /\ pc'[q] \in {"sleep", "release_lk", "sleeping"} <=> pc[q] \in {"sleep", "release_lk", "sleeping"}
    BY <1>3, Zenon DEF SameKind
  <2> QED BY Zenon, <2>1 DEF IInv, WakeupInv
<1> QED BY Zenon, <1>4, <1>5, <1>6, <1>7, <1>8

\* A jump of a scheduler thread to a place with the same locks keeps the lock
\* fields right.
LEMMA LandedLocks ==
    ASSUME IInv, NEW c \in CPU, NEW l, Landed(c, l), UNCHANGED <<lock, ncli, spin, cproc>>,
           Depth(l) = Depth(Loc(c)), l \in HasPtable <=> Loc(c) \in HasPtable,
           l \in HasLk <=> Loc(c) \in HasLk, ~spin[c]
    PROVE  LocksInv'
<1>1. ASSUME NEW d \in CPU
      PROVE  /\ lock'["ptable"] = d <=> Loc(d)' \in HasPtable
             /\ lock'["lk"] = d <=> Loc(d)' \in HasLk
             /\ ncli'[d] = Depth(Loc(d)') + (IF spin'[d] THEN 1 ELSE 0)
             /\ spin'[d] => Loc(d)' \in DOMAIN Acquires
             /\ cproc'[d] # None => spc'[d] = "scan"
  <2>1. CASE d = c BY <2>1, Zenon DEF IInv, LocksInv, Landed
  <2>2. CASE d # c
    <3>1. Loc(d)' = Loc(d) /\ (cproc[d] # None => spc'[d] = spc[d]) BY <2>2, Zenon DEF Landed
    <3> QED BY <3>1, Zenon DEF IInv, LocksInv
  <2> QED BY <2>1, <2>2, Zenon
<1> QED BY <1>1, Zenon DEF LocksInv

\* And the interrupt flag, which only this CPU's scheduler may have set.
LEMMA LandedFlags ==
    ASSUME IInv, NEW c \in CPU, NEW l, Landed(c, l), UNCHANGED <<ncli, intena, cproc, intr>>,
           cproc[c] = None, fl_if'[c] => ncli[c] = 0, \A d \in CPU : d # c => fl_if'[d] = fl_if[d]
    PROVE  FlagInv'
<1>1. ASSUME NEW d \in CPU
      PROVE  /\ fl_if'[d] => ncli'[d] = 0
             /\ cproc'[d] # None /\ ncli'[d] > 0 /\ Loc(d)' # "forkret"
                  => (intena'[d] <=> intr'[cproc'[d]] = None)
             /\ cproc'[d] # None /\ ncli'[d] = 0 /\ Loc(d)' # "iret"
                  => (fl_if'[d] <=> intr'[cproc'[d]] = None)
             /\ cproc'[d] # None /\ fl_if'[d] => intr'[cproc'[d]] = None
  <2>1. CASE d = c BY <2>1, Zenon DEF IInv, FlagInv, Landed
  <2>2. CASE d # c BY <2>2, Zenon DEF IInv, FlagInv, Landed
  <2> QED BY <2>1, <2>2, Zenon
<1> QED BY <1>1, Zenon DEF FlagInv

\* acquire() gets the lock, or spins.
LEMMA XchgIInv == ASSUME IInv, NEW c \in CPU, xchg(c) PROVE IInv'
<1> USE SchedConstants, Places
<1> DEFINE k == Acquires[Loc(c)][1]  l == Acquires[Loc(c)][2]
<1>t. TypeOK /\ At(c) = Loc(c) BY Zenon, AtIsLoc DEF IInv, SchedSafe
<1>b. /\ Loc(c) \in DOMAIN Acquires /\ spin[c] /\ lock[k] = None /\ Goto(c, l)
      /\ lock' = [lock EXCEPT ![k] = c] /\ spin' = [spin EXCEPT ![c] = FALSE]
  BY Zenon, <1>t DEF xchg
<1>u. UNCHANGED <<ncli, intena, fl_if, cproc, scan, state, chan, saved, intr, locked, panic>> BY Zenon DEF xchg
<1>c. \/ Loc(c) = "scheduler" /\ k = "ptable" /\ l = "scan"
      \/ Loc(c) = "acquiresleep" /\ k = "lk" /\ l = "test"
      \/ Loc(c) = "sleep" /\ k = "ptable" /\ l = "release_lk"
      \/ Loc(c) = "sleep_relock" /\ k = "lk" /\ l = "test"
      \/ Loc(c) = "releasesleep" /\ k = "lk" /\ l = "clear"
      \/ Loc(c) = "wakeup" /\ k = "ptable" /\ l = "wakeup1"
      \/ Loc(c) = "yield" /\ k = "ptable" /\ l = "runnable"
  BY Zenon, <1>b, AcquireCases
<1> HIDE DEF k, l
<1>d. Depth(l) = Depth(Loc(c)) + 1 /\ Depth(Loc(c)) \in 0..1 /\ Loc(c) # "forkret" BY <1>c DEF Depth, HasPtable, HasLk
<1>a. Landed(c, l) /\ SleepLockExclusive' /\ OffCpuInv' /\ HandlerInv' /\ WakeupInv'
  <2>1. SameKind(Loc(c), l) BY Zenon, <1>c DEF SameKind, Holding
  <2> QED BY Zenon, <1>b, <1>u, <2>1, JumpStep
<1>x. /\ spin'[c] = FALSE /\ \A d \in CPU : d # c => spin'[d] = spin[d]
      /\ lock'[k] = c /\ \A m \in {"ptable", "lk"} : m # k => lock'[m] = lock[m]
  BY <1>b, <1>c, <1>t DEF TypeOK
<1>1. TypeOK' BY Zenon, <1>a, <1>b, <1>c, <1>t, <1>u DEF TypeOK, Landed
<1>2. NoPanic' /\ OneCpu' BY Zenon, <1>u, SameCpus
<1>3. LocksInv'
  <2>1. \A d \in CPU : (lock["ptable"] = d <=> Loc(d) \in HasPtable)' /\ (lock["lk"] = d <=> Loc(d) \in HasLk)'
    BY <1>a, <1>b, <1>c, <1>x DEF IInv, LocksInv, HasPtable, HasLk, Landed
  <2> QED BY <1>a, <1>b, <1>d, <1>u, <1>x, <2>1 DEF IInv, LocksInv, Landed
<1>4. FlagInv'
  <2>1. ncli[c] > 0 BY <1>b, <1>d DEF IInv, LocksInv
  <2> QED BY <1>a, <1>d, <1>t, <1>u, <2>1 DEF IInv, FlagInv, TypeOK, Landed
<1> QED BY Zenon, <1>1, <1>2, <1>3, <1>4, <1>a DEF IInv, SchedSafe

\* release() of either lock, with its popcli().
LEMMA ReleaseIInv == ASSUME IInv, NEW c \in CPU, release(c) PROVE IInv'
<1> USE SchedConstants, Places
<1> DEFINE k == Releases[Loc(c)][1]  l == Releases[Loc(c)][2]
<1>t. TypeOK /\ At(c) = Loc(c) BY Zenon, AtIsLoc DEF IInv, SchedSafe
<1>b. Loc(c) \in DOMAIN Releases /\ lock' = [lock EXCEPT ![k] = None] /\ Goto(c, l) BY Zenon, <1>t DEF release
<1>e. ncli' = [ncli EXCEPT ![c] = @ - 1] /\ fl_if' = [fl_if EXCEPT ![c] = ncli[c] = 1 /\ intena[c]] BY Zenon DEF release
<1>u. UNCHANGED <<intena, spin, cproc, scan, state, chan, saved, intr, locked>> BY Zenon DEF release
<1>p. panic' = IF ~holding(c, k) THEN "release"
               ELSE IF fl_if[c] THEN "popcli-interruptible"
               ELSE IF ncli[c] < 1 THEN "popcli" ELSE panic
  BY Zenon, <1>t DEF release
<1>c. \/ Loc(c) = "scheduler_end" /\ k = "ptable" /\ l = "sti"
      \/ Loc(c) = "acquiresleep_end" /\ k = "lk" /\ l = "critical"
      \/ Loc(c) = "release_lk" /\ k = "lk" /\ l = "sleeping"
      \/ Loc(c) = "tidied" /\ k = "ptable" /\ l = "sleep_relock"
      \/ Loc(c) = "wakeup_end" /\ k = "ptable" /\ l = "releasesleep_end"
      \/ Loc(c) = "releasesleep_end" /\ k = "lk" /\ l = "user"
      \/ Loc(c) = "yield_end" /\ k = "ptable" /\ l = "iret"
      \/ Loc(c) = "forkret" /\ k = "ptable" /\ l = "iret"
  BY Zenon, <1>b, ReleaseCases
<1> HIDE DEF k, l
<1>a. Landed(c, l) /\ SleepLockExclusive' /\ OffCpuInv' /\ HandlerInv' /\ WakeupInv'
  <2>1. SameKind(Loc(c), l) BY Zenon, <1>c DEF SameKind, Holding
  <2> QED BY Zenon, <1>b, <1>u, <2>1, JumpStep
<1>d. /\ Depth(l) = Depth(Loc(c)) - 1 /\ Depth(Loc(c)) \in 1..2
      /\ Loc(c) = "forkret" => Depth(Loc(c)) = 1 /\ l = "iret"
  BY <1>c DEF Depth, HasPtable, HasLk
<1>g. lock[k] = c /\ ~spin[c] BY Zenon, <1>c DEF IInv, LocksInv, HasPtable, HasLk
<1>h. ncli[c] = Depth(Loc(c)) /\ ncli[c] \in 1..2 /\ ~fl_if[c]
  BY <1>d, <1>g, <1>t DEF IInv, TypeOK, LocksInv, FlagInv
<1>x. /\ ncli'[c] = ncli[c] - 1 /\ \A d \in CPU : d # c => ncli'[d] = ncli[d]
      /\ lock'[k] = None /\ \A m \in {"ptable", "lk"} : m # k => lock'[m] = lock[m]
  BY Zenon, <1>b, <1>c, <1>e, <1>t DEF TypeOK
<1>y. (fl_if'[c] <=> ncli[c] = 1 /\ intena[c]) /\ \A d \in CPU : d # c => fl_if'[d] = fl_if[d]
  BY <1>e, <1>t, Zenon DEF TypeOK
<1>1. TypeOK'
  <2>1. ncli' \in [CPU -> 0..2] /\ fl_if' \in [CPU -> BOOLEAN] BY <1>e, <1>h, <1>t DEF TypeOK
  <2>2. lock' \in [{"ptable", "lk"} -> CPU \cup {None}] BY <1>b, <1>t, Zenon DEF TypeOK
  <2> QED BY Zenon, <1>a, <1>t, <1>u, <2>1, <2>2 DEF TypeOK, Landed
<1>2. NoPanic' /\ OneCpu'
  <2>1. panic' = panic BY <1>g, <1>h, <1>p DEF holding
  <2> QED BY Zenon, <1>u, <2>1, SameCpus
<1>3. LocksInv'
  <2>1. \A d \in CPU : (lock["ptable"] = d <=> Loc(d) \in HasPtable)' /\ (lock["lk"] = d <=> Loc(d) \in HasLk)'
    BY <1>a, <1>c, <1>g, <1>x DEF IInv, LocksInv, HasPtable, HasLk, Landed
  <2> QED BY <1>a, <1>d, <1>g, <1>h, <1>u, <1>x, <2>1 DEF IInv, LocksInv, Landed
<1>4. FlagInv'
  <2>1. cproc[c] # None => IF Loc(c) = "forkret" THEN intr[cproc[c]] = None ELSE intena[c] <=> intr[cproc[c]] = None
    BY <1>h, <1>t DEF IInv, FlagInv, HandlerInv, Loc, TypeOK
  <2> QED BY <1>a, <1>d, <1>h, <1>u, <1>x, <1>y, <2>1 DEF IInv, FlagInv, Landed
<1> QED BY Zenon, <1>1, <1>2, <1>3, <1>4, <1>a DEF IInv, SchedSafe

\* acquire() turns interrupts off first, and panics on a lock it holds.
LEMMA PushcliIInv == ASSUME IInv, NEW c \in CPU, pushcli(c) PROVE IInv'
<1> USE SchedConstants, Places
<1>t. TypeOK /\ At(c) = Loc(c) BY Zenon, AtIsLoc DEF IInv, SchedSafe
<1>u. UNCHANGED <<lock, cproc, spc, scan, state, chan, pc, saved, intr, locked>> BY Zenon DEF pushcli
<1>b. /\ Loc(c) \in DOMAIN Acquires /\ ~spin[c]
      /\ intena' = [intena EXCEPT ![c] = IF ncli[c] = 0 THEN fl_if[c] ELSE @]
      /\ ncli' = [ncli EXCEPT ![c] = @ + 1]
      /\ fl_if' = [fl_if EXCEPT ![c] = FALSE] /\ spin' = [spin EXCEPT ![c] = TRUE]
  BY Zenon, <1>t DEF pushcli
<1>c. /\ Loc(c) \notin {"forkret", "iret"} /\ Depth(Loc(c)) \in 0..1
      /\ lock[Acquires[Loc(c)][1]] # c
  BY <1>b, AcquireCases DEF Depth, HasPtable, HasLk, IInv, LocksInv
<1>d. ncli[c] = Depth(Loc(c)) BY <1>b, <1>c DEF IInv, LocksInv
<1>x. /\ ncli'[c] = ncli[c] + 1 /\ \A d \in CPU : d # c => ncli'[d] = ncli[d]
      /\ spin'[c] /\ \A d \in CPU : d # c => spin'[d] = spin[d]
      /\ ~fl_if'[c] /\ \A d \in CPU : d # c => fl_if'[d] = fl_if[d]
      /\ intena'[c] = (IF ncli[c] = 0 THEN fl_if[c] ELSE intena[c])
      /\ \A d \in CPU : d # c => intena'[d] = intena[d]
  BY <1>b, <1>t DEF TypeOK
<1>z. \A d \in CPU : Loc(d)' = Loc(d) BY <1>u, Zenon DEF Loc
<1>1. TypeOK' BY <1>b, <1>c, <1>d, <1>t, <1>u DEF TypeOK
<1>2. NoPanic' /\ OneCpu'
  <2>1. panic' = panic BY Zenon, <1>c, <1>t DEF pushcli, holding
  <2> QED BY Zenon, <1>u, <2>1, SameCpus
<1>3. SleepLockExclusive' BY <1>u, SameHolders, Zenon
<1>4. LocksInv' BY <1>b, <1>c, <1>d, <1>u, <1>x, <1>z DEF IInv, LocksInv
<1>5. OffCpuInv' /\ HandlerInv' BY Zenon, <1>u DEF IInv, OffCpuInv, HandlerInv, OnCpu
<1>6. FlagInv' BY <1>c, <1>d, <1>t, <1>u, <1>x, <1>z DEF IInv, FlagInv, TypeOK
<1>7. WakeupInv' BY Zenon, <1>u DEF IInv, WakeupInv
<1> QED BY Zenon, <1>1, <1>2, <1>3, <1>4, <1>5, <1>6, <1>7 DEF IInv, SchedSafe

\* scheduler() enables interrupts.
LEMMA StiIInv == ASSUME IInv, NEW c \in CPU, sti(c) PROVE IInv'
<1> USE SchedConstants
<1>t. TypeOK /\ Loc(c) = "sti" /\ cproc[c] = None BY AtIsLoc, Places DEF IInv, SchedSafe, sti, Loc, TypeOK
<1>u. UNCHANGED <<lock, ncli, intena, spin, cproc, state, chan, pc, saved, intr, locked, panic>> BY Zenon DEF sti
<1>a. Landed(c, "scheduler") /\ SleepLockExclusive' /\ OffCpuInv' /\ HandlerInv' /\ WakeupInv'
  <2>1. SameKind(Loc(c), "scheduler") BY Zenon, <1>t, Places DEF SameKind, Holding
  <2>2. Goto(c, "scheduler") BY Zenon, <1>t DEF sti, Goto
  <2> QED BY <1>u, <2>1, <2>2, JumpStep, Zenon
<1>b. /\ Depth("sti") = 0 /\ Depth("scheduler") = 0
      /\ {"sti", "scheduler"} \cap (HasPtable \cup HasLk) = {} /\ "sti" \notin DOMAIN Acquires
  BY Places DEF Depth, HasPtable, HasLk
<1>1. TypeOK' BY <1>a, <1>t DEF TypeOK, Landed, sti
<1>2. NoPanic' /\ OneCpu' BY Zenon, <1>u, SameCpus
<1>c. ~spin[c] BY <1>b, <1>t, Zenon DEF IInv, LocksInv
<1>3. LocksInv'
  <2>1. /\ Depth("scheduler") = Depth(Loc(c))
        /\ "scheduler" \in HasPtable <=> Loc(c) \in HasPtable
        /\ "scheduler" \in HasLk <=> Loc(c) \in HasLk
    BY <1>b, <1>t, Zenon
  <2> QED BY <1>a, <1>c, <1>u, <2>1, LandedLocks, Zenon
<1>4. FlagInv'
  <2>1. ncli[c] = Depth(Loc(c)) + 0 BY <1>c, Zenon DEF IInv, LocksInv
  <2>2. ncli[c] = 0 BY <1>b, <1>t, <2>1
  <2>3. \A d \in CPU : d # c => fl_if'[d] = fl_if[d] BY <1>t, Zenon DEF sti, TypeOK
  <2> QED BY <1>a, <1>t, <1>u, <2>2, <2>3, LandedFlags, Zenon
<1> QED BY Zenon, <1>1, <1>2, <1>3, <1>4, <1>a DEF IInv, SchedSafe

\* scheduler() ends a pass over the table.
LEMMA PassDoneIInv == ASSUME IInv, NEW c \in CPU, pass_done(c) PROVE IInv'
<1> USE SchedConstants
<1>t. TypeOK /\ Loc(c) = "scan" /\ cproc[c] = None BY AtIsLoc, Places DEF IInv, SchedSafe, pass_done, Loc, TypeOK
<1>u. UNCHANGED <<lock, ncli, intena, fl_if, spin, cproc, scan, state, chan, pc, saved, intr, locked, panic>>
  BY Zenon DEF pass_done
<1>a. Landed(c, "scheduler_end") /\ SleepLockExclusive' /\ OffCpuInv' /\ HandlerInv' /\ WakeupInv'
  <2>1. SameKind(Loc(c), "scheduler_end") BY Zenon, <1>t, Places DEF SameKind, Holding
  <2>2. Goto(c, "scheduler_end") BY Zenon, <1>t DEF pass_done, Goto
  <2> QED BY <1>u, <2>1, <2>2, JumpStep, Zenon
<1>b. /\ Depth("scan") = Depth("scheduler_end") /\ {"scan", "scheduler_end"} \subseteq HasPtable
      /\ {"scan", "scheduler_end"} \cap HasLk = {}
  BY Zenon DEF Depth, HasPtable, HasLk
<1>c. ~spin[c] BY Zenon, <1>t, Places DEF IInv, LocksInv
<1>1. TypeOK' BY Zenon, <1>a, <1>t, <1>u DEF TypeOK, Landed
<1>2. NoPanic' /\ OneCpu' BY Zenon, <1>u, SameCpus
<1>3. LocksInv'
  <2>1. /\ Depth("scheduler_end") = Depth(Loc(c))
        /\ "scheduler_end" \in HasPtable <=> Loc(c) \in HasPtable
        /\ "scheduler_end" \in HasLk <=> Loc(c) \in HasLk
    BY <1>b, <1>t, Zenon
  <2> QED BY <1>a, <1>c, <1>u, <2>1, LandedLocks, Zenon
<1>4. FlagInv'
  <2>1. fl_if'[c] => ncli[c] = 0 BY <1>u, Zenon DEF IInv, FlagInv
  <2> QED BY <1>a, <1>t, <1>u, <2>1, LandedFlags, Zenon
<1> QED BY Zenon, <1>1, <1>2, <1>3, <1>4, <1>a DEF IInv, SchedSafe

\* kill() makes a sleeper runnable.
LEMMA KillIInv == ASSUME IInv, NEW p \in Proc, kill(p) PROVE IInv'
<1> USE SchedConstants
<1>t. TypeOK BY Zenon DEF IInv, SchedSafe
<1>u. UNCHANGED <<lock, ncli, intena, fl_if, spin, cproc, spc, scan, chan, pc, saved, intr, locked, panic>>
  BY Zenon DEF kill
<1>x. state[p] = "SLEEPING" /\ state'[p] = "RUNNABLE" /\ \A q \in Proc : q # p => state'[q] = state[q]
  BY Zenon, <1>t DEF TypeOK, kill
<1>1. TypeOK'
  <2>1. state' \in [Proc -> {"RUNNABLE", "RUNNING", "SLEEPING"}] BY <1>t, Zenon DEF TypeOK, kill
  <2> QED BY <1>t, <1>u, <2>1, Zenon DEF TypeOK
<1>2. NoPanic' /\ OneCpu'
  <2>1. \A q \in Proc : state'[q] = "RUNNING" <=> state[q] = "RUNNING" BY <1>x, Zenon
  <2> QED BY <1>u, <2>1, Zenon DEF IInv, SchedSafe, NoPanic, OneCpu
<1>3. SleepLockExclusive' BY <1>u, SameHolders, Zenon
<1>4. LocksInv' /\ FlagInv'
  <2>1. \A c \in CPU : Loc(c)' = Loc(c) BY <1>u, Zenon DEF Loc
  <2>2. LocksInv' BY <1>u, <2>1, Zenon DEF IInv, LocksInv
  <2>3. FlagInv' BY <1>u, <2>1, Zenon DEF IInv, FlagInv
  <2> QED BY <2>2, <2>3
<1>5. OffCpuInv' /\ HandlerInv' BY Zenon, <1>u, <1>x DEF IInv, OffCpuInv, HandlerInv, OnCpu
<1>6. WakeupInv' BY Zenon, <1>u, <1>x DEF IInv, WakeupInv
<1> QED BY Zenon, <1>1, <1>2, <1>3, <1>4, <1>5, <1>6 DEF IInv, SchedSafe

\* Every step keeps the inductive invariant.
LEMMA NextIInv == IInv /\ [Next]_vars => IInv'
<1> SUFFICES ASSUME IInv, [Next]_vars PROVE IInv' BY Zenon
<1>1. ASSUME NEW c \in CPU, sleeping(c) PROVE IInv'
  <2>1. Loc(c) = "sleeping" BY Zenon, <1>1, AtIsLoc DEF sleeping, IInv, SchedSafe
  <2> QED BY <1>1, <2>1, SchedIInv, Zenon DEF sleeping
<1>2. ASSUME NEW c \in CPU, runnable(c) PROVE IInv'
  <2>1. Loc(c) = "runnable" BY Zenon, <1>2, AtIsLoc DEF runnable, IInv, SchedSafe
  <2> QED BY <1>2, <2>1, SchedIInv, Zenon DEF runnable
<1>3. ASSUME NEW c \in CPU, Step(c) PROVE IInv'
  BY Zenon, <1>1, <1>2, <1>3, PushcliIInv, XchgIInv, ReleaseIInv, StiIInv, RunIInv, PassDoneIInv,
     TestIInv, TidyIInv, ClearIInv, Wakeup1IInv, IretIInv DEF Step
<1> QED BY Zenon, <1>3, StutterIInv, CallIInv, TimerIInv, KillIInv DEF Next

\* It holds at boot.
LEMMA InitIInv == Init => IInv
<1> USE SchedConstants, Places DEF Init
<1> SUFFICES ASSUME Init PROVE IInv BY Zenon
<1> USE DEF Init
<1>1. TypeOK
  <2>1. 1 \in 1..NPROC + 1 /\ 0 \in 0..2 OBVIOUS
  <2>2. lock \in [{"ptable", "lk"} -> CPU \cup {None}] BY Zenon
  <2>3. intena \in [CPU -> BOOLEAN] /\ fl_if \in [CPU -> BOOLEAN] /\ spin \in [CPU -> BOOLEAN] BY Zenon
  <2>4. ncli \in [CPU -> 0..2] /\ scan \in [CPU -> 1..NPROC + 1] BY Zenon, <2>1
  <2>5. cproc \in [CPU -> Proc \cup {None}] /\ spc \in [CPU -> SchedulerAt] BY Zenon
  <2>6. /\ state \in [Proc -> {"RUNNABLE", "RUNNING", "SLEEPING"}] /\ chan \in [Proc -> BOOLEAN]
        /\ pc \in [Proc -> ProcAt] /\ saved \in [Proc -> BOOLEAN]
        /\ intr \in [Proc -> ProcAt \cup {None}] /\ locked \in BOOLEAN
    BY Zenon
  <2> QED BY Zenon, <2>2, <2>3, <2>4, <2>5, <2>6 DEF TypeOK
<1>2. NoPanic /\ OneCpu BY Zenon DEF NoPanic, OneCpu
<1>3. SleepLockExclusive BY Zenon DEF SleepLockExclusive, Holds, Place
<1>4. LocksInv
  <2>1. \A c \in CPU : Loc(c) = "sti" BY Zenon DEF Loc
  <2>2. lock["ptable"] = None /\ lock["lk"] = None BY Zenon
  <2>3. Depth("sti") = 0 /\ "sti" \notin HasPtable /\ "sti" \notin HasLk BY DEF Depth, HasPtable, HasLk
  <2>4. \A c \in CPU : ncli[c] = 0 /\ ~spin[c] /\ cproc[c] = None /\ c # None BY Zenon
  <2> HIDE DEF Init
  <2>5. \A c \in CPU : ncli[c] = Depth(Loc(c)) + (IF spin[c] THEN 1 ELSE 0)
    <3> SUFFICES ASSUME NEW c \in CPU PROVE ncli[c] = Depth(Loc(c)) + (IF spin[c] THEN 1 ELSE 0) BY Zenon
    <3>1. Depth(Loc(c)) = 0 BY Zenon, <2>1, <2>3
    <3>2. (IF spin[c] THEN 1 ELSE 0) = 0 BY Zenon, <2>4
    <3>3. ncli[c] = 0 BY Zenon, <2>4
    <3> QED BY <3>1, <3>2, <3>3
  <2> QED BY Zenon, <2>1, <2>2, <2>3, <2>4, <2>5 DEF LocksInv
<1>5. OffCpuInv BY Zenon DEF OffCpuInv
<1>6. HandlerInv /\ FlagInv BY Zenon DEF HandlerInv, FlagInv, Interruptible, Loc, OnCpu
<1>7. WakeupInv BY Zenon DEF WakeupInv
<1> QED BY Zenon, <1>1, <1>2, <1>3, <1>4, <1>5, <1>6, <1>7 DEF IInv, SchedSafe

\* It holds always.
LEMMA SpecIInv == Spec => []IInv
BY InitIInv, NextIInv, PTL DEF Spec

\* The locking code of spinlock.c, sched() and sleeplock.c never panics, a
\* process never runs on two CPUs and a sleep lock never has two holders, for
\* any number of CPUs and processes and any interrupts.
THEOREM SchedIsSafe == Spec => []SchedSafe
<1>1. IInv => SchedSafe BY Zenon DEF IInv
<1> QED BY <1>1, SpecIInv, PTL

\* pushcli(), popcli() and sched()'s intena leave every thread with its own
\* interrupt flag.
THEOREM InterruptsAreRestored == Spec => []InterruptsRestored
<1>1. IInv => InterruptsRestored BY AtIsLoc, Zenon DEF IInv, SchedSafe, FlagInv, HandlerInv, InterruptsRestored
<1> QED BY <1>1, SpecIInv, PTL

\* sleep() takes ptable.lock before it lets lk go, so no wakeup() is missed.
THEOREM NoWakeupIsLost == Spec => []NoLostWakeup
<1>1. IInv => NoLostWakeup
  <2> SUFFICES ASSUME IInv, ~locked, NEW p \in Proc, state[p] = "SLEEPING"
               PROVE  \E q \in Proc : Place(q) \in {"wakeup", "wakeup1"}
    BY Zenon DEF NoLostWakeup
  <2>1. PICK q \in Proc : pc[q] \in {"wakeup", "wakeup1"} BY Zenon DEF IInv, WakeupInv
  <2>2. Place(q) = pc[q] BY Zenon, <2>1 DEF IInv, HandlerInv, Place
  <2> QED BY <2>1, <2>2, Zenon
<1> QED BY <1>1, SpecIInv, PTL
-----------------------------------------------------------------------------
(* The semaphore, for any set of threads and any ints passed to its calls: it  *)
(* gives out what was put in, and no thread sleeps through it.                 *)

SemTypeOK ==
  /\ active \in BOOLEAN /\ held \in BOOLEAN /\ minus \in BOOLEAN
  /\ value \in Int /\ put \in Int /\ got \in Int
  /\ tpc \in [Thread -> {"user", "asleep", "woken"}]
  /\ want \in [Thread -> Int]
  /\ missed \subseteq Thread

SemIInv == SemTypeOK /\ SemaphoreExact

\* A semaphore that is not in use is empty, and nobody waits for it.
LEMMA SemInitial == SemInit => SemIInv
<1> SUFFICES ASSUME SemInit PROVE SemIInv
  BY Zenon
<1>1. SemTypeOK
  <2>1. 0 \in Int
    OBVIOUS
  <2> QED
    BY <2>1, Zenon DEF SemInit, SemTypeOK
<1>2. SemaphoreExact
  BY DEF SemInit, SemaphoreExact
<1> QED
  BY Zenon, <1>1, <1>2 DEF SemIInv

\* The test of sem_wait(): it takes count and leaves the value at zero or more,
\* or sleeps because there is less than count.
LEMMA SemTestStep ==
  ASSUME SemIInv, NEW t \in Thread, NEW count \in Int, tpc[t] # "asleep",
         test_and_take(t, count), want' \in [Thread -> Int], want'[t] = count,
         \A s \in Thread \ {t} : want'[s] = want[s],
         UNCHANGED <<active, held, put, minus>>
  PROVE  SemIInv'
<1>1. /\ value \in Int /\ put \in Int /\ got \in Int /\ value = put - got /\ (value < 0 => minus)
      /\ tpc \in [Thread -> {"user", "asleep", "woken"}]
      /\ missed \subseteq Thread
      /\ \A s \in Thread : tpc[s] = "asleep" => value < want[s] \/ s \in missed
  BY Zenon DEF SemIInv, SemTypeOK, SemaphoreExact
<1>2. CASE value >= count
  <2>1. /\ tpc' = [tpc EXCEPT ![t] = "user"] /\ value' = value - count /\ got' = got + count
        /\ missed' = IF count < 0 THEN missed \cup Sleeping ELSE missed
    BY Zenon, <1>2 DEF test_and_take, sem_take
  <2>2. value' \in Int /\ got' \in Int /\ value' = put - got' /\ ~(value' < 0)
    BY <1>1, <1>2, <2>1
  <2>3. tpc' \in [Thread -> {"user", "asleep", "woken"}]
    BY Zenon, <1>1, <2>1
  <2>4. missed' \subseteq Thread
    BY Zenon, <1>1, <2>1 DEF Sleeping
  <2>5. ASSUME NEW s \in Thread, tpc'[s] = "asleep" PROVE value' < want'[s] \/ s \in missed'
    <3>1. s # t /\ tpc[s] = "asleep" /\ want'[s] = want[s] /\ want[s] \in Int
      BY Zenon, <1>1, <2>1, <2>5 DEF SemIInv, SemTypeOK
    <3>2. CASE count < 0
      BY Zenon, <2>1, <3>1, <3>2 DEF Sleeping
    <3>3. CASE ~(count < 0)
      <4>1. missed' = missed
        BY Zenon, <2>1, <3>3
      <4>2. value < want[s] => value' < want[s]
        BY <1>1, <2>1, <3>1, <3>3
      <4> QED
        BY Zenon, <1>1, <3>1, <4>1, <4>2
    <3> QED
      BY Zenon, <3>2, <3>3
  <2> QED
    BY Zenon, <2>2, <2>3, <2>4, <2>5 DEF SemIInv, SemTypeOK, SemaphoreExact
<1>3. CASE ~(value >= count)
  <2>1. tpc' = [tpc EXCEPT ![t] = "asleep"] /\ value' = value /\ got' = got /\ missed' = missed
    BY Zenon, <1>3 DEF test_and_take
  <2>2. value < count
    BY <1>1, <1>3
  <2>3. tpc' \in [Thread -> {"user", "asleep", "woken"}]
    BY Zenon, <1>1, <2>1
  <2>4. ASSUME NEW s \in Thread, tpc'[s] = "asleep" PROVE value' < want'[s] \/ s \in missed'
    BY Zenon, <1>1, <2>1, <2>2, <2>4
  <2> QED
    BY Zenon, <1>1, <2>1, <2>3, <2>4 DEF SemIInv, SemTypeOK, SemaphoreExact
<1> QED
  BY Zenon, <1>2, <1>3

\* Every step keeps the types, the count and the reason of every sleeper.
LEMMA SemStep == SemIInv /\ [SemNext]_semvars => SemIInv'
<1> SUFFICES ASSUME SemIInv, [SemNext]_semvars PROVE SemIInv'
  BY Zenon
<1>1. ASSUME NEW t \in Thread, NEW v \in Values, sem_init(t, v) PROVE SemIInv'
  <2>1. /\ active' \in BOOLEAN /\ held' \in BOOLEAN /\ missed' \subseteq Thread
        /\ tpc' = tpc /\ want' = want
    BY Zenon, <1>1 DEF sem_init, SemIInv, SemTypeOK, Sleeping
  <2>2. CASE active
    BY Zenon, <1>1, <2>1, <2>2 DEF sem_init, SemIInv, SemTypeOK, SemaphoreExact
  <2>3. CASE ~active
    <3>1. value' = v /\ put' = v /\ got' = 0 /\ minus' = (v < 0) /\ missed' = Sleeping
      BY Zenon, <1>1, <2>3 DEF sem_init
    <3>2. v \in Int /\ 0 \in Int /\ v = v - 0 /\ (v < 0) \in BOOLEAN
      BY SemAssumption
    <3> QED
      BY Zenon, <2>1, <3>1, <3>2 DEF SemIInv, SemTypeOK, SemaphoreExact, Sleeping
  <2> QED
    BY Zenon, <2>2, <2>3
<1>2. ASSUME NEW t \in Thread, sem_destroy(t) PROVE SemIInv'
  BY Zenon, <1>2 DEF sem_destroy, SemIInv, SemTypeOK, SemaphoreExact
<1>3. ASSUME NEW t \in Thread, NEW count \in Counts, sem_wait(t, count) PROVE SemIInv'
  <2>1. count \in Int
    BY Zenon, SemAssumption
  <2>2. /\ tpc[t] # "asleep" /\ test_and_take(t, count) /\ UNCHANGED <<active, held, put, minus>>
        /\ want' = [want EXCEPT ![t] = count]
    BY Zenon, <1>3 DEF sem_wait, acquired
  <2>3. /\ want' \in [Thread -> Int] /\ want'[t] = count
        /\ \A s \in Thread \ {t} : want'[s] = want[s]
    BY Zenon, <2>1, <2>2 DEF SemIInv, SemTypeOK
  <2> QED
    BY Zenon, <2>1, <2>2, <2>3, SemTestStep
<1>4. ASSUME NEW t \in Thread, NEW count \in Counts, sem_signal(t, count) PROVE SemIInv'
  <2>1. count \in Int /\ value \in Int /\ put \in Int /\ got \in Int /\ value = put - got
    BY Zenon, SemAssumption DEF SemIInv, SemTypeOK, SemaphoreExact
  <2>2. value' = value + count /\ put' = put + count /\ got' = got /\ minus' = (minus \/ count < 0)
    BY Zenon, <1>4 DEF sem_signal
  <2>3. /\ value' \in Int /\ put' \in Int /\ value' = put' - got'
        /\ (value' < 0 => value < 0 \/ count < 0)
    BY <2>1, <2>2
  <2>4. /\ active' = active /\ held' = held /\ want' = want /\ missed' = {}
        /\ tpc' \in [Thread -> {"user", "asleep", "woken"}]
        /\ \A s \in Thread : tpc'[s] # "asleep"
    BY Zenon, <1>4 DEF sem_signal, SemIInv, SemTypeOK
  <2> QED
    BY Zenon, <2>2, <2>3, <2>4 DEF SemIInv, SemTypeOK, SemaphoreExact
<1>5. ASSUME NEW t \in Thread, sem_wait_woken(t) PROVE SemIInv'
  <2>1. /\ tpc[t] # "asleep" /\ test_and_take(t, want[t]) /\ UNCHANGED <<active, held, put, minus>>
        /\ want' = want /\ want \in [Thread -> Int] /\ want[t] \in Int
    BY Zenon, <1>5 DEF sem_wait_woken, acquired, SemIInv, SemTypeOK
  <2> QED
    BY Zenon, <2>1, SemTestStep
<1>6. ASSUME NEW t \in Thread, kill_thread(t) PROVE SemIInv'
  BY Zenon, <1>6 DEF kill_thread, SemIInv, SemTypeOK, SemaphoreExact
<1>7. CASE UNCHANGED semvars
  BY Zenon, <1>7 DEF semvars, SemIInv, SemTypeOK, SemaphoreExact
<1> QED
  BY <1>1, <1>2, <1>3, <1>4, <1>5, <1>6, <1>7, Zenon DEF SemNext

\* lab-threads: whatever ints the threads pass, a semaphore gives out what was
\* put into it, goes below zero only by a negative argument of sem_init() or
\* sem_signal(), and nobody sleeps while there is enough, except after a change
\* of the value without a wakeup().
THEOREM SemaphoreIsExact == SemSpec => []SemaphoreExact
<1>1. SemIInv => SemaphoreExact
  BY Zenon DEF SemIInv
<1> QED
  BY SemInitial, SemStep, <1>1, PTL DEF SemSpec
=============================================================================
