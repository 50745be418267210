------------------------------ MODULE Policies ------------------------------
(* The clock and the scheduling policies of labs 05 and 06: the scheduler  *)
(* of lab 05, which compares priorities while it scans the table, and      *)
(* ready_process() of the six policies of lab 06; the statistics that some *)
(* of those read and lab 06's clock interrupt keeps; and the system calls  *)
(* that wait for the clock or change what the policies look at.            *)
(*                                                                         *)
(* A step is a critical section of ptable.lock.  The clock interrupt on    *)
(* CPU 0 takes that lock three times (statistics, wakeup, yield) and other *)
(* CPUs go on in between; it holds tickslock up to the second.             *)
(*                                                                         *)
(* Who is whose child, and on which channel other than ticks a process     *)
(* sleeps, is left open: ProcTable and Sched are about those.              *)
EXTENDS Integers, FiniteSets, FiniteSetsExt

CONSTANTS
  NPROC,        \* entries of the table; 1 is init's
  NCPU,
  MAX_TICKETS,
  Priorities,   \* arguments of setpriority()
  TicketArgs,   \* arguments of settickets()
  SleepTicks,   \* arguments of sleep()
  MAXTICKS      \* bound: the clock stops there

ASSUME PoliciesAssumption ==
  /\ {NPROC, NCPU, MAX_TICKETS} \subseteq Nat \ {0}
  /\ SleepTicks \subseteq Nat /\ MAXTICKS \in Nat

VARIABLES
  policy,  \* the kernel: "LAB05", or lab 06 built with this SCHEDPOLICY
  ticks,
  timer,   \* where the clock interrupt on CPU 0 is
  pt,      \* ptable.proc; due is the tick sys_sleep() waits for, 0 outside it
  run,     \* cpus[c].proc, 0 for none
  scan,    \* the entry where scheduler() of lab 05 is on each CPU, 0 before the first
  behind   \* history: those ready ever since CPU 0 chose the process it runs

clockvars == <<policy, ticks, timer, pt, run, scan, behind>>

PSlot == 1 .. NPROC
CpuId == 0 .. NCPU - 1
In(st) == {s \in PSlot : pt[s].st = st}

Unused == [st |-> "UNUSED", priority |-> 0, ntickets |-> 0, ctime |-> 0,
           stime |-> 0, retime |-> 0, rutime |-> 0, due |-> 0]

(* The values random(max) can return.                                      *)
random(max) == IF max <= 0 THEN {1} ELSE 0 .. max - 1

Fresh(old, r) ==
  [old EXCEPT !.st = "EMBRYO", !.priority = 10, !.ntickets = r + 1, !.ctime = ticks,
              !.stime = 0, !.retime = 0, !.rutime = 0]

PoliciesInit ==
  /\ policy \in {"LAB05", "DEFAULT", "PRIORITY", "FCFS", "CFS", "SML", "LOTTERY"}
  /\ ticks = 0
  /\ timer = "off"
  /\ pt = [s \in PSlot |-> IF s = 1 THEN [Unused EXCEPT !.st = "RUNNABLE", !.priority = 10,
                                                       !.ntickets = 2]
                           ELSE Unused]
  /\ run = [c \in CpuId |-> 0]
  /\ scan = [c \in CpuId |-> 0]
  /\ behind = {}

-----------------------------------------------------------------------------
(* ready_process(): the first of the runnable with the least key, or a     *)
(* choice by a random number n.                                            *)
First(S, key) ==
  CHOOSE s \in S : \A t \in S : key[s] < key[t] \/ (key[s] = key[t] /\ s <= t)

Nth(S, n) == CHOOSE s \in S : Cardinality({t \in S : t < s}) = n % Cardinality(S)

ready_DEFAULT(n) == First(In("RUNNABLE"), [s \in PSlot |-> (s - 1 - n) % NPROC])

ready_PRIORITY == First(In("RUNNABLE"), [s \in PSlot |-> pt[s].priority])

ready_FCFS == First(In("RUNNABLE"), [s \in PSlot |-> pt[s].ctime])

ready_CFS == First(In("RUNNABLE"), [s \in PSlot |-> pt[s].rutime])

(* The queue of a process: high, mid or low.                               *)
Queue(s) == IF pt[s].priority <= 7 THEN 1 ELSE IF pt[s].priority <= 14 THEN 2 ELSE 3

ready_SML(n) ==
  LET first == Min({Queue(s) : s \in In("RUNNABLE")})
  IN Nth({s \in In("RUNNABLE") : Queue(s) = first}, n)

lotteryTotal == MapThenSumSet(LAMBDA s : pt[s].ntickets, In("RUNNABLE"))

(* The loop never leaves early: whatever ticket is drawn, the last of the  *)
(* runnable is what it ends with.                                          *)
ready_LOTTERY == IF lotteryTotal > 0 THEN Max(In("RUNNABLE")) ELSE 0

(* Lab 05: the first runnable process from where the scan is, unless some  *)
(* process has a higher priority: then the first of the highest.           *)
Ahead(c) == {s \in In("RUNNABLE") : s > scan[c]}

ready_LAB05(c) ==
  LET p == Min(Ahead(c))
      highP == ready_PRIORITY
  IN IF pt[highP].priority < pt[p].priority THEN highP ELSE p

ready_process(n) ==
  IF In("RUNNABLE") = {} THEN 0
  ELSE CASE policy = "DEFAULT"  -> ready_DEFAULT(n)
         [] policy = "PRIORITY" -> ready_PRIORITY
         [] policy = "FCFS"     -> ready_FCFS
         [] policy = "CFS"      -> ready_CFS
         [] policy = "SML"      -> ready_SML(n)
         [] policy = "LOTTERY"  -> ready_LOTTERY

-----------------------------------------------------------------------------
(* Those still ready, and what LAB05, PRIORITY and SML compare as it was.  *)
Remember ==
  behind' = {q \in behind : /\ run'[0] = run[0]
                            /\ pt'[q].st = "RUNNABLE"
                            /\ \A s \in {q, run[0]} : pt'[s].priority = pt[s].priority}

(* CPU c is not in the clock interrupt; it runs process p.                 *)
Free(c) == c = 0 => timer = "off"
Runs(c, p) == Free(c) /\ run[c] = p /\ p # 0

(* A process that leaves CPU c gives ptable.lock to the scan of lab 05,    *)
(* which keeps it up to its next choice or the end of the table.           *)
Scans(c) == run[c] = 0 /\ scan[c] # 0
ptable_free == \A c \in CpuId : ~Scans(c)

(* Process p is in user space, about to make a system call.                *)
User(c, p) == Runs(c, p) /\ pt[p].due = 0 /\ ptable_free

Become(c, st) ==
  /\ ptable_free
  /\ pt' = [pt EXCEPT ![run[c]].st = st]
  /\ run' = [run EXCEPT ![c] = 0]
  /\ Remember

Switch(c, p) ==
  /\ Free(c) /\ run[c] = 0
  /\ pt' = [pt EXCEPT ![p].st = "RUNNING"]
  /\ run' = [run EXCEPT ![c] = p]
  /\ IF c = 0 THEN behind' = In("RUNNABLE") \ {p} ELSE Remember
  /\ UNCHANGED <<policy, ticks, timer>>

scheduler(c, n) ==
  /\ policy # "LAB05" /\ ready_process(n) # 0
  /\ Switch(c, ready_process(n))
  /\ UNCHANGED scan

(* The scan of lab 05 goes on behind the process it chose, wherever that   *)
(* is, and begins again at the end of the table.                           *)
scheduler_LAB05(c) ==
  /\ policy = "LAB05" /\ Ahead(c) # {}
  /\ \A d \in CpuId \ {c} : ~Scans(d)
  /\ Switch(c, ready_LAB05(c))
  /\ scan' = [scan EXCEPT ![c] = ready_LAB05(c)]

scheduler_again(c) ==
  /\ Scans(c) /\ Ahead(c) = {}
  /\ scan' = [scan EXCEPT ![c] = 0]
  /\ UNCHANGED <<policy, ticks, timer, pt, run, behind>>

(* The clock interrupt: on CPU 0 it counts, on every CPU it preempts.      *)
timer_count ==
  /\ timer = "off" /\ ~Scans(0)
  /\ ticks < MAXTICKS
  /\ ticks' = ticks + 1
  /\ timer' = "counted"
  /\ UNCHANGED <<policy, scan, pt, run, behind>>

Counted(e) ==
  [e EXCEPT !.stime = IF e.st = "SLEEPING" THEN @ + 1 ELSE @,
            !.retime = IF e.st = "RUNNABLE" THEN @ + 1 ELSE @,
            !.rutime = IF e.st = "RUNNING" THEN @ + 1 ELSE @]

update_statistics ==
  /\ timer = "counted" /\ policy # "LAB05"
  /\ pt' = [s \in PSlot |-> Counted(pt[s])]
  /\ timer' = "updated"
  /\ UNCHANGED <<policy, scan, ticks, run, behind>>

\* mutant: only the sleepers whose time has come are woken, and those a tick too late
TickSleepers_late == {s \in In("SLEEPING") : pt[s].due # 0 /\ pt[s].due < ticks}

TickSleepers == {s \in In("SLEEPING") : pt[s].due # 0}

timer_wakeup ==
  /\ timer = IF policy = "LAB05" THEN "counted" ELSE "updated"
  /\ ptable_free
  /\ pt' = [s \in PSlot |-> IF s \in TickSleepers THEN [pt[s] EXCEPT !.st = "RUNNABLE"] ELSE pt[s]]
  /\ timer' = "woken"
  /\ UNCHANGED <<policy, scan, ticks, run>>
  /\ Remember

\* mutant: the interrupt on CPU 0 returns without yield()
timer_return_keeps ==
  /\ timer = "woken"
  /\ timer' = "off"
  /\ UNCHANGED <<policy, scan, ticks, pt, run, behind>>

timer_return ==
  /\ timer = "woken"
  /\ timer' = "off"
  /\ \/ run[0] = 0 /\ UNCHANGED <<pt, run, behind>>
     \/ run[0] # 0 /\ Become(0, "RUNNABLE")
     \/ run[0] \notin {0, 1} /\ Become(0, "ZOMBIE")       \* killed, in user space
  /\ UNCHANGED <<policy, scan, ticks>>

yield(c) ==
  /\ c # 0 /\ run[c] # 0
  /\ Become(c, "RUNNABLE")
  /\ UNCHANGED <<policy, scan, ticks, timer>>

-----------------------------------------------------------------------------
(* System calls of the process p on CPU c.                                 *)
sleep(c) ==
  /\ \E p \in PSlot : User(c, p)
  /\ Become(c, "SLEEPING")
  /\ UNCHANGED <<policy, scan, ticks, timer>>

wakeup(W) ==
  /\ ptable_free /\ W # {} /\ \A s \in W : pt[s].due = 0
  /\ pt' = [s \in PSlot |-> IF s \in W THEN [pt[s] EXCEPT !.st = "RUNNABLE"] ELSE pt[s]]
  /\ UNCHANGED <<policy, scan, ticks, timer, run>>
  /\ Remember

kill(c, s) ==
  /\ \E p \in PSlot : User(c, p)
  /\ pt[s].st = "SLEEPING"
  /\ pt' = [pt EXCEPT ![s].st = "RUNNABLE"]
  /\ UNCHANGED <<policy, scan, ticks, timer, run>>
  /\ Remember

tickslock_free == timer \in {"off", "woken"}

sys_sleep(c, n) ==
  /\ tickslock_free
  /\ n > 0
  /\ \E p \in PSlot :
       /\ User(c, p)
       /\ pt' = [pt EXCEPT ![p].due = ticks + n, ![p].st = "SLEEPING"]
  /\ run' = [run EXCEPT ![c] = 0]
  /\ Remember
  /\ UNCHANGED <<policy, scan, ticks, timer>>

sys_sleep_again(c) ==
  /\ tickslock_free
  /\ \E p \in PSlot : Runs(c, p) /\ ticks < pt[p].due
  /\ Become(c, "SLEEPING")
  /\ UNCHANGED <<policy, scan, ticks, timer>>

(* The time has come, or the process has been killed.                      *)
sys_sleep_return(c) ==
  /\ tickslock_free
  /\ \E p \in PSlot : Runs(c, p) /\ pt[p].due # 0 /\ pt' = [pt EXCEPT ![p].due = 0]
  /\ UNCHANGED <<policy, scan, ticks, timer, run, behind>>

allocproc(c, r) ==
  /\ \E p \in PSlot : User(c, p)
  /\ In("UNUSED") # {}
  /\ r \in random(ticks % MAX_TICKETS)
  /\ LET s == Min(In("UNUSED")) IN pt' = [pt EXCEPT ![s] = Fresh(pt[s], r)]
  /\ UNCHANGED <<policy, scan, ticks, timer, run, behind>>

(* fork() completes, or fails and gives the entry back.                    *)
fork(c, s, st) ==
  /\ \E p \in PSlot : User(c, p)
  /\ pt[s].st = "EMBRYO"
  /\ pt' = [pt EXCEPT ![s].st = st]
  /\ UNCHANGED <<policy, scan, ticks, timer, run, behind>>

exit(c) ==
  /\ \E p \in PSlot \ {1} : User(c, p)
  /\ Become(c, "ZOMBIE")
  /\ UNCHANGED <<policy, scan, ticks, timer>>

wait(c, s) ==
  /\ \E p \in PSlot : User(c, p)
  /\ pt[s].st = "ZOMBIE"
  /\ pt' = [pt EXCEPT ![s].st = "UNUSED"]
  /\ UNCHANGED <<policy, scan, ticks, timer, run, behind>>

setpriority(c, s, v) ==
  /\ \E p \in PSlot : User(c, p)
  /\ pt' = [pt EXCEPT ![s].priority = v]
  /\ UNCHANGED <<policy, scan, ticks, timer, run>>
  /\ Remember

settickets(c, s, v) ==
  /\ policy # "LAB05"
  /\ \E p \in PSlot : User(c, p)
  /\ pt' = [pt EXCEPT ![s].ntickets = v]
  /\ UNCHANGED <<policy, scan, ticks, timer, run, behind>>

(* The entries getptable() copies: where it meets an unused one it counts  *)
(* on without moving on.                                                   *)
getptable(nproc) == {s \in PSlot : s <= nproc /\ \A t \in 1 .. s : pt[t].st # "UNUSED"}

PoliciesNext ==
  \/ timer_count \/ update_statistics \/ timer_wakeup \/ timer_return
  \/ \E W \in SUBSET In("SLEEPING") : wakeup(W)
  \/ \E c \in CpuId :
       \/ \E n \in 0 .. NPROC - 1 : scheduler(c, n)
       \/ scheduler_LAB05(c) \/ scheduler_again(c)
       \/ \E n \in SleepTicks : sys_sleep(c, n)
       \/ \E r \in 0 .. MAX_TICKETS : allocproc(c, r)
       \/ \E s \in PSlot :
            \/ kill(c, s) \/ wait(c, s)
            \/ \E st \in {"RUNNABLE", "UNUSED"} : fork(c, s, st)
            \/ \E v \in Priorities : setpriority(c, s, v)
            \/ \E v \in TicketArgs : settickets(c, s, v)
       \/ yield(c) \/ sleep(c) \/ exit(c) \/ sys_sleep_again(c) \/ sys_sleep_return(c)

PoliciesSpec == PoliciesInit /\ [][PoliciesNext]_clockvars

-----------------------------------------------------------------------------
(* The clock ticks that update_statistics() has counted.                   *)
Updates == IF timer = "counted" THEN ticks - 1 ELSE ticks
Times(s) == pt[s].stime + pt[s].retime + pt[s].rutime
Alive == In("SLEEPING") \cup In("RUNNABLE") \cup In("RUNNING")

(* Lab 06: the statistics add up although interrupts, forks and switches   *)
(* on other CPUs fall between ticks++ and update_statistics(): init is     *)
(* charged for every tick once, and no process for more than the ticks     *)
(* since its ctime and the one during which it may have been created.      *)
TimesAddUp ==
  policy # "LAB05" =>
  /\ Times(1) = Updates
  /\ \A s \in Alive : Times(s) <= Updates - pt[s].ctime + 1

(* A process that has been ready ever since CPU 0 chose another one had no *)
(* better claim under the policy, and under CFS it has not fallen behind   *)
(* by more than the tick that ends the other's turn.                       *)
ChoiceHolds ==
  \A q \in behind :
    LET p == run[0]
        turn == IF timer \in {"updated", "woken"} THEN 1 ELSE 0
    IN /\ policy = "FCFS" => pt[p].ctime <= pt[q].ctime
       /\ policy = "CFS" => pt[p].rutime <= pt[q].rutime + turn
       /\ policy \in {"PRIORITY", "LAB05"} => pt[p].priority <= pt[q].priority
       /\ policy = "SML" => Queue(p) <= Queue(q)

(* A process in sys_sleep() whose time has come does not sleep on: it is   *)
(* ready or running, or the interrupt that counted the last tick has its   *)
(* wakeup() still to do.                                                   *)
DueIsWoken ==
  \A s \in In("SLEEPING") : pt[s].due # 0 /\ ticks >= pt[s].due => timer \in {"counted", "updated"}

(* What the clock interrupt does for processes on every CPU is complete:   *)
(* it charges each for each tick, and wakes each whose time has come.      *)
ClockSound == TimesAddUp /\ DueIsWoken

(* The process that LOTTERY runs is the one that holds the ticket drawn,   *)
(* as lab 06's README says.  The code does not keep to it.                 *)
LotteryWinner ==
  [][\A c \in CpuId, n \in 0 .. MAX_TICKETS :
       policy = "LOTTERY" /\ n < lotteryTotal /\ scheduler(c, n) =>
         LET upto(s) == MapThenSumSet(LAMBDA t : pt[t].ntickets, {t \in In("RUNNABLE") : t <= s})
         IN run'[c] = Min({s \in In("RUNNABLE") : upto(s) > n})]_clockvars

(* getptable() reports every process, as lab 04's README says.  The code   *)
(* stops at the first unused entry.                                        *)
ListsEveryProcess == getptable(NPROC) = PSlot \ In("UNUSED")
=============================================================================
