-------------------------- MODULE ProcTableProofs --------------------------
(* Proofs about proc.c: the mailboxes that a lab adds to it, and the process   *)
(* table.                                                                      *)
EXTENDS Mailbox, ProcTable, TLAPS

(* The mailbox, for any number of processes and any size of the queue:         *)
(* messages leave in the order they came, and a sync sender waits for its own  *)
(* message and no longer.                                                      *)

Slots == 0 .. MAILBOX_MSG_QUEUE - 1
Asleep == {"asleep_sent", "asleep_receiving"}
Where == {"user", "sending", "sent", "receiving"} \cup Asleep

MailTypeOK ==
  /\ queue \in [Slots -> Talker \cup {NoMessage}]
  /\ send_index \in Nat /\ recv_index \in Nat /\ qsize \in Int
  /\ sync \in [Slots -> {0, 1}]
  /\ mpc \in [Talker -> Where]
  /\ msync \in [Talker -> {0, 1}]
  /\ mslot \in [Talker -> Slots]
  /\ posted \in Seq(Talker) /\ received \in Seq(Talker \cup {NoMessage})

(* The queue holds what was posted; what is below recv_index is received.  *)
Ordered ==
  /\ send_index <= MAILBOX_MSG_QUEUE
  /\ recv_index <= send_index /\ qsize = send_index - recv_index
  /\ Len(posted) = send_index /\ Len(received) = recv_index
  /\ \A x \in 1 .. send_index : queue[x - 1] = posted[x]
  /\ \A x \in 1 .. recv_index : received[x] = posted[x]

(* Where a process is in its call tells what became of its last message.   *)
Waiting(t) ==
  /\ mpc[t] \in {"sent", "asleep_sent"} =>
       /\ mslot[t] < send_index
       /\ sync[mslot[t]] = 1 <=> recv_index <= mslot[t]
  /\ mpc[t] = "asleep_sent" => sync[mslot[t]] = 1
  /\ mpc[t] \in {"user", "receiving", "asleep_receiving"} /\ msync[t] = 1 => mslot[t] < recv_index
  /\ mpc[t] = "asleep_receiving" => qsize = 0 /\ t \notin mkilled

MailIInv == MailTypeOK /\ Ordered /\ \A t \in Talker : Waiting(t)

\* wakeup(): nobody is asleep afterwards, and the others are where they were.
LEMMA AwakeEffect ==
  ASSUME MailTypeOK, NEW t \in Talker
  PROVE  /\ Awake(t) \in Where \ Asleep
         /\ mpc[t] \notin Asleep => Awake(t) = mpc[t]
         /\ mpc[t] = "asleep_sent" => Awake(t) = "sent"
         /\ mpc[t] = "asleep_receiving" => Awake(t) = "receiving"
  BY Zenon DEF MailTypeOK, Awake, Asleep, Where

\* An empty mailbox.
LEMMA MailInitial == MailboxInit => MailIInv
<1> SUFFICES ASSUME MailboxInit PROVE MailIInv
  BY Zenon
<1> USE MailboxAssumption DEF MailboxInit
<1>1. MailTypeOK
  BY DEF MailTypeOK, Slots, Where
<1>2. Ordered
  BY DEF Ordered
<1>3. ASSUME NEW t \in Talker PROVE Waiting(t)
  BY DEF Waiting
<1> QED
  BY Zenon, <1>1, <1>2, <1>3 DEF MailIInv

\* sendmsg() before the lock changes nothing but the caller.
LEMMA SendStep ==
  ASSUME MailIInv, NEW t \in Talker, NEW s \in {0, 1}, sendmsg(t, s)
  PROVE  MailIInv'
<1> USE DEF MailIInv, sendmsg, boxvars, AtCall
<1>1. MailTypeOK'
  BY Zenon DEF MailTypeOK, Where
<1>2. Ordered'
  BY Zenon DEF Ordered
<1>3. ASSUME NEW r \in Talker PROVE Waiting(r)'
  BY Zenon DEF Waiting, MailTypeOK
<1> QED
  BY Zenon, <1>1, <1>2, <1>3

\* Under the lock the message becomes the last of the queue, and its sender
\* waits for it if it is sync.
LEMMA SendLockedStep ==
  ASSUME MailIInv, NEW t \in Talker, sendmsg_locked(t)
  PROVE  MailIInv'
<1> USE DEF MailIInv
<1>1. send_index \in Slots
  BY MailboxAssumption DEF MailTypeOK, Slots, Where, Asleep, sendmsg_locked
<1>2. MailTypeOK'
  <2>1. sync' \in [Slots -> {0, 1}]
    BY Zenon, <1>1 DEF MailTypeOK, sendmsg_locked
  <2>2. queue' \in [Slots -> Talker \cup {NoMessage}] /\ mslot' \in [Talker -> Slots]
    BY Zenon, <1>1 DEF MailTypeOK, sendmsg_locked
  <2>3. mpc' \in [Talker -> Where]
    BY Zenon, AwakeEffect DEF sendmsg_locked, Where, Asleep, MailTypeOK
  <2>4. /\ send_index' \in Nat /\ recv_index' \in Nat /\ qsize' \in Int /\ msync' = msync
        /\ posted' \in Seq(Talker) /\ received' = received
    BY DEF MailTypeOK, sendmsg_locked
  <2> QED
    BY Zenon, <2>1, <2>2, <2>3, <2>4 DEF MailTypeOK
<1>3. Ordered'
  <2>1. /\ send_index' = send_index + 1 /\ qsize' = qsize + 1 /\ recv_index' = recv_index
        /\ send_index < MAILBOX_MSG_QUEUE /\ received' = received
        /\ posted' = Append(posted, t) /\ queue' = [queue EXCEPT ![send_index] = t]
    BY Zenon DEF sendmsg_locked
  <2>2. ASSUME NEW x \in 1 .. send_index' PROVE queue'[x - 1] = posted'[x]
    <3>0. x - 1 \in Slots /\ (x - 1 = send_index <=> x = send_index')
      BY <1>1, <2>1, MailboxAssumption DEF MailTypeOK, Slots
    <3>1. queue'[x - 1] = IF x = send_index' THEN t ELSE queue[x - 1]
      BY Zenon, <2>1, <3>0 DEF MailTypeOK
    <3>2. posted'[x] = IF x = send_index' THEN t ELSE posted[x]
      BY <2>1 DEF MailTypeOK, Ordered
    <3> QED
      BY <2>1, <3>1, <3>2 DEF MailTypeOK, Ordered
  <2>3. \A x \in 1 .. recv_index' : received'[x] = posted'[x]
    BY <2>1 DEF MailTypeOK, Ordered
  <2>4. Len(posted') = send_index'
    BY <2>1 DEF MailTypeOK, Ordered
  <2> QED
    BY <2>1, <2>2, <2>3, <2>4, MailboxAssumption DEF MailTypeOK, Ordered
<1>4. ASSUME NEW r \in Talker PROVE Waiting(r)'
  <2>1. CASE r = t
    <3>1. /\ mpc'[r] = IF msync[r] = 1 THEN "asleep_sent" ELSE "user"
          /\ mslot'[r] = send_index /\ sync'[send_index] = msync[r]
      BY Zenon, <1>1, <2>1, AwakeEffect DEF MailTypeOK, sendmsg_locked
    <3>2. msync' = msync /\ send_index' = send_index + 1 /\ recv_index' = recv_index
      BY Zenon DEF sendmsg_locked
    <3> QED
      BY <3>1, <3>2 DEF Waiting, MailTypeOK, Ordered
  <2>2. CASE r # t
    <3>1. mpc'[r] = Awake(r) /\ mslot'[r] = mslot[r] /\ mslot[r] \in Slots
      BY Zenon, <2>2, AwakeEffect DEF MailTypeOK, sendmsg_locked
    <3>2. mslot[r] < send_index => sync'[mslot[r]] = sync[mslot[r]]
      BY <3>1, <1>1 DEF MailTypeOK, Slots, sendmsg_locked
    <3>3. msync' = msync /\ send_index' = send_index + 1 /\ recv_index' = recv_index
      BY Zenon DEF sendmsg_locked
    <3> QED
      BY <3>1, <3>2, <3>3, AwakeEffect DEF Waiting, MailTypeOK, Slots, Asleep, Where
  <2> QED
    BY Zenon, <2>1, <2>2
<1> QED
  BY Zenon, <1>2, <1>3, <1>4

\* A sync sender that is woken tests its own slot.
LEMMA SendWokenStep ==
  ASSUME MailIInv, NEW t \in Talker, sendmsg_woken(t)
  PROVE  MailIInv'
<1> USE DEF MailIInv, sendmsg_woken, boxvars, AtCall
<1>1. MailTypeOK'
  BY Zenon DEF MailTypeOK, Asleep, Where
<1>2. Ordered'
  BY Zenon DEF Ordered
<1>3. ASSUME NEW r \in Talker PROVE Waiting(r)'
  BY DEF Waiting, MailTypeOK, Slots, Where, Asleep
<1> QED
  BY Zenon, <1>1, <1>2, <1>3

\* recvmsg() up to its sleep().
LEMMA RecvWaitStep ==
  ASSUME MailIInv, NEW t \in Talker, recvmsg(t) \/ recvmsg_empty(t)
  PROVE  MailIInv'
<1> USE DEF MailIInv, recvmsg, recvmsg_empty, boxvars, AtCall
<1>1. MailTypeOK'
  BY Zenon DEF MailTypeOK, Asleep, Where
<1>2. Ordered'
  BY Zenon DEF Ordered
<1>3. ASSUME NEW r \in Talker PROVE Waiting(r)'
  BY DEF Waiting, MailTypeOK
<1> QED
  BY Zenon, <1>1, <1>2, <1>3

\* recvmsg() takes the oldest message, and wakes its sender if it waits.
LEMMA RecvTakeStep ==
  ASSUME MailIInv, NEW t \in Talker, recvmsg_take(t)
  PROVE  MailIInv'
<1> USE DEF MailIInv
<1>1. recv_index \in Slots /\ recv_index < send_index
  BY MailboxAssumption DEF MailTypeOK, Slots, Ordered, recvmsg_take
<1>2. MailTypeOK'
  <2>1. mpc' \in [Talker -> Where]
    BY Zenon, AwakeEffect DEF MailTypeOK, Asleep, Where, recvmsg_take
  <2> QED
    BY <1>1, <2>1 DEF MailTypeOK, recvmsg_take
<1>3. Ordered'
  <2>1. queue[recv_index] = posted[recv_index + 1]
    BY <1>1 DEF MailTypeOK, Ordered
  <2>2. /\ recv_index' = recv_index + 1 /\ qsize' = qsize - 1
        /\ received' = Append(received, queue[recv_index])
        /\ UNCHANGED <<queue, send_index, posted>>
    BY Zenon DEF recvmsg_take
  <2>3. queue[recv_index] \in Talker \cup {NoMessage}
    BY Zenon, <1>1 DEF MailTypeOK
  <2>4. Len(received') = recv_index' /\ \A x \in 1 .. recv_index' : received'[x] = posted'[x]
    <3>1. /\ received \in Seq(Talker \cup {NoMessage}) /\ Len(received) = recv_index
          /\ recv_index \in Nat /\ \A x \in 1 .. recv_index : received[x] = posted[x]
      BY Zenon DEF Ordered, MailTypeOK
    <3> QED
      BY <2>1, <2>2, <2>3, <3>1
  <2>5. /\ send_index <= MAILBOX_MSG_QUEUE /\ qsize = send_index - recv_index
        /\ Len(posted) = send_index /\ \A x \in 1 .. send_index : queue[x - 1] = posted[x]
        /\ send_index \in Nat /\ recv_index \in Nat
    BY Zenon DEF Ordered, MailTypeOK
  <2>6. recv_index' <= send_index' /\ qsize' = send_index' - recv_index'
    BY <1>1, <2>2, <2>5
  <2> QED
    BY Zenon, <2>2, <2>4, <2>5, <2>6 DEF Ordered
<1>4. ASSUME NEW r \in Talker PROVE Waiting(r)'
  <2>1. /\ mslot[r] \in Slots /\ recv_index' = recv_index + 1 /\ mslot' = mslot /\ msync' = msync
        /\ send_index' = send_index /\ qsize # 0
        /\ sync'[mslot[r]] = IF mslot[r] = recv_index THEN 0 ELSE sync[mslot[r]]
    BY Zenon, <1>1 DEF MailTypeOK, recvmsg_take
  <2>2. CASE r = t
    BY <2>1, <2>2 DEF Waiting, MailTypeOK, Slots, AtCall, recvmsg_take
  <2>3. CASE r # t /\ sync[recv_index] = 1
    <3>1. mpc'[r] = Awake(r)
      BY Zenon, <2>3 DEF recvmsg_take
    <3> QED
      BY <2>1, <3>1, AwakeEffect DEF Waiting, MailTypeOK, Slots, Asleep, Where
  <2>4. CASE r # t /\ sync[recv_index] # 1
    <3>1. mpc'[r] = mpc[r]
      BY Zenon, <2>4 DEF recvmsg_take
    <3> QED
      BY <2>1, <2>4, <3>1 DEF Waiting, MailTypeOK, Slots
  <2> QED
    BY Zenon, <2>2, <2>3, <2>4
<1> QED
  BY Zenon, <1>2, <1>3, <1>4

\* kill() wakes the process; it goes back to the loop it slept in.
LEMMA KillTalkerStep ==
  ASSUME MailIInv, NEW t \in Talker, kill_talker(t)
  PROVE  MailIInv'
<1> USE DEF MailIInv, kill_talker, boxvars
<1>1. MailTypeOK'
  BY Zenon, AwakeEffect DEF MailTypeOK, Asleep, Where
<1>2. Ordered'
  BY Zenon DEF Ordered
<1>3. ASSUME NEW r \in Talker PROVE Waiting(r)'
  BY Zenon, AwakeEffect DEF Waiting, MailTypeOK, Asleep, Where
<1> QED
  BY Zenon, <1>1, <1>2, <1>3

\* What the property says follows from the invariant.
LEMMA MailPromised ==
  ASSUME MailIInv
  PROVE  MailDelivered
<1> USE DEF MailIInv
<1>1. received = SubSeq(posted, 1, recv_index)
  <2>1. /\ recv_index \in Nat /\ recv_index <= Len(posted)
        /\ posted \in Seq(Talker) /\ received \in Seq(Talker \cup {NoMessage})
        /\ Len(received) = recv_index
        /\ \A x \in 1 .. recv_index : received[x] = posted[x]
    BY Zenon DEF MailTypeOK, Ordered
  <2> QED
    BY <2>1
<1>2. qsize = Len(posted) - Len(received)
  BY Zenon DEF Ordered
<1>3. ASSUME NEW t \in Talker
      PROVE  /\ mpc[t] = "asleep_receiving" => qsize = 0 /\ t \notin mkilled
             /\ mpc[t] = "asleep_sent" => mslot[t] >= recv_index
             /\ mpc[t] = "sent" /\ sync[mslot[t]] = 0 => mslot[t] < recv_index
             /\ mpc[t] = "user" /\ msync[t] = 1 => mslot[t] < recv_index
  BY DEF Waiting, MailTypeOK, Slots
<1> QED
  BY <1>1, <1>2, <1>3, Zenon DEF MailDelivered

\* In lab-messages, whatever the number of processes and the size of the queue,
\* messages leave a mailbox in the order they came, none twice, a sync sender
\* waits exactly as long as its message is in the queue, and nobody sleeps
\* through a wakeup, up to the first message past the end of the queue.
THEOREM MailIsDelivered == MailboxSpec => []MailDelivered
<1>1. MailboxInit => MailIInv
  BY Zenon, MailInitial
<1>2. MailIInv /\ [MailboxNext]_mailvars => MailIInv'
  <2> SUFFICES ASSUME MailIInv, [MailboxNext]_mailvars PROVE MailIInv'
    BY Zenon
  <2>1. ASSUME NEW t \in Talker, sendmsg_overrun(t) PROVE MailIInv'
    BY Zenon, <2>1 DEF MailIInv, MailTypeOK, Ordered, Waiting, sendmsg_overrun
  <2>2. CASE UNCHANGED mailvars
    BY Zenon, <2>2 DEF MailIInv, MailTypeOK, Ordered, Waiting, mailvars
  <2> QED
    BY Zenon, <2>1, <2>2, SendStep, SendLockedStep, SendWokenStep, RecvWaitStep, RecvTakeStep, KillTalkerStep
       DEF MailboxNext
<1>3. MailIInv => MailDelivered
  BY Zenon, MailPromised
<1> QED
  BY <1>1, <1>2, <1>3, PTL DEF MailboxSpec
-----------------------------------------------------------------------------
(* The process table, for every size of the table, every number of pids and    *)
(* every kill().                                                               *)

\* What the safety properties rest on.
Forking(p) == pc[p] \in {"kalloc", "copyuvm", "runnable"}

\* The pids handed out so far.
Pids == UniquePids /\ \A p \in Slot : pid[p] < nextpid

\* A fork() in progress owns an EMBRYO entry of its own, at the stage of its pc.
Building(p) ==
    /\ state[p] = "RUNNABLE"
    /\ np[p] \in Slot /\ state[np[p]] = "EMBRYO"
    /\ kstack[np[p]] <=> pc[p] # "kalloc"
    /\ pgdir[np[p]] <=> pc[p] = "runnable"
    /\ files[np[p]] <=> pc[p] = "runnable"
    /\ pc[p] = "runnable" => parent[np[p]] = p
    /\ pc[p] # "runnable" => parent[np[p]] = NULL

Forks ==
    /\ \A p \in Slot : Forking(p) => Building(p)
    /\ \A p, q \in Slot : Forking(p) /\ Forking(q) /\ np[p] = np[q] => p = q

\* The tree of processes: init is its root and never exits, an entry outside
\* the tree has no parent, and only a fork() about to finish has attached one.
Tree ==
    /\ state[initproc] \in {"RUNNABLE", "SLEEPING"}
    /\ pc[initproc] = "zombie" => panicked
    /\ parent[initproc] = NULL
    /\ ParentLive
    /\ \A p \in Slot :
         /\ parent[p] # p
         /\ state[p] = "UNUSED" => parent[p] = NULL
         /\ state[p] = "EMBRYO" /\ parent[p] # NULL => pc[parent[p]] = "runnable" /\ np[parent[p]] = p

Sleepers == NoLostWakeup /\ \A p \in Slot : state[p] = "SLEEPING" => pc[p] = "wait"

Resources == NoLeak /\ \A p \in Slot : state[p] = "RUNNABLE" /\ pc[p] = "zombie" => ~files[p]

IInv == TypeOK /\ Pids /\ Forks /\ Tree /\ Sleepers /\ Resources

\* exit() under the lock: only sleepers are woken, and none that has lost its
\* last child or gained a zombie stays asleep.
LEMMA ExitEffect ==
    ASSUME IInv, NEW p \in Slot, exit(p)
    PROVE  /\ p # initproc /\ state[p] = "RUNNABLE" /\ pc[p] = "zombie" /\ state'[p] = "ZOMBIE"
           /\ \A q \in Slot \ {p} :
                \/ state'[q] = state[q]
                \/ state[q] = "SLEEPING" /\ state'[q] = "RUNNABLE"
           /\ \A q \in Slot : state'[q] = "SLEEPING" =>
                q # parent[p] /\ (q = initproc => Zombies(p) = {})
           /\ parent' = [c \in Slot |-> IF parent[c] = p THEN initproc ELSE parent[c]]
<1> USE ProcConstants DEF Slot, initproc, NULL, IInv, TypeOK, exit, At
<1>1. p # initproc
  BY Zenon DEF Tree
<1>2. /\ state'[p] = "ZOMBIE"
      /\ \A q \in Slot \ {p} :
           \/ state'[q] = state[q]
           \/ state[q] = "SLEEPING" /\ state'[q] = "RUNNABLE"
      /\ \A q \in Slot : state'[q] = "SLEEPING" =>
           q # parent[p] /\ (q = initproc => Zombies(p) = {})
  BY Zenon DEF wakeup1
<1>3. parent' = [c \in Slot |-> IF parent[c] = p THEN initproc ELSE parent[c]]
  BY Zenon DEF Child
<1> QED
  BY <1>1, <1>2, <1>3, Zenon

\* kill() marks one entry and wakes it.
LEMMA KillEffect ==
    ASSUME IInv, NEW p \in Slot, NEW x \in Targets, kill(p, x)
    PROVE  /\ \A q \in Slot :
                \/ state'[q] = state[q] /\ (state[q] = "SLEEPING" => killed'[q] = killed[q])
                \/ state[q] = "SLEEPING" /\ state'[q] = "RUNNABLE"
           /\ UNCHANGED <<pid, parent, kstack, pgdir, files, nextpid, pc, np, panicked>>
<1> USE ProcConstants DEF Slot, IInv, TypeOK
<1>1. PICK q \in Slot :
         /\ killed' = [killed EXCEPT ![q] = TRUE]
         /\ state' = [state EXCEPT ![q] = IF @ = "SLEEPING" THEN "RUNNABLE" ELSE @]
  BY Zenon DEF kill
<1>2. UNCHANGED <<pid, parent, kstack, pgdir, files, nextpid, pc, np, panicked>>
  BY Zenon DEF kill
<1> QED
  BY <1>1, <1>2, Zenon

-----------------------------------------------------------------------------
\* Each step that returns an entry to UNUSED has freed what it held.
LEMMA ResourcesStep ==
    ASSUME IInv, [Next]_vars
    PROVE  Resources'
<1> USE ProcConstants DEF Slot, initproc, NULL
<1>0. CASE UNCHANGED vars
  BY Zenon, <1>0 DEF IInv, Resources, NoLeak, TypeOK, Forks, Forking, Building, vars
<1>1. ASSUME NEW p \in Slot, \/ Kernel(p) \/ exit_close(p) \/ sys_wait(p) \/ fault(p)
                               \/ \E c \in Slot : allocproc(p, c)
                               \/ \E x \in Targets : kill(p, x)
      PROVE  Resources'
  <2>1. CASE \E c \in Slot : allocproc(p, c)
    BY <2>1 DEF IInv, Resources, NoLeak, TypeOK, Forks, Forking, Building, allocproc, At
  <2>2. CASE allocproc_kstack(p)
    BY <2>2 DEF IInv, Resources, NoLeak, TypeOK, Forks, Forking, Building, allocproc_kstack, At
  <2>3. CASE allocproc_fails(p)
    BY <2>3 DEF IInv, Resources, NoLeak, TypeOK, Forks, Forking, Building, allocproc_fails, At
  <2>4. CASE fork_copy(p)
    BY <2>4 DEF IInv, Resources, NoLeak, TypeOK, Forks, Forking, Building, fork_copy, At
  <2>5. CASE fork_fails(p)
    BY <2>5 DEF IInv, Resources, NoLeak, TypeOK, Forks, Forking, Building, fork_fails, At
  <2>6. CASE fork_runnable(p)
    BY <2>6 DEF IInv, Resources, NoLeak, TypeOK, Forks, Forking, Building, fork_runnable, At
  <2>7. CASE exit_close(p)
    BY <2>7 DEF IInv, Resources, NoLeak, TypeOK, Forks, Forking, Building, exit_close, At
  <2>8. CASE exit(p)
    <3>0. /\ p # initproc /\ state[p] = "RUNNABLE" /\ pc[p] = "zombie" /\ state'[p] = "ZOMBIE"
          /\ \A q \in Slot \ {p} :
               \/ state'[q] = state[q]
               \/ state[q] = "SLEEPING" /\ state'[q] = "RUNNABLE"
          /\ \A q \in Slot : state'[q] = "SLEEPING" =>
               q # parent[p] /\ (q = initproc => Zombies(p) = {})
          /\ parent' = [c \in Slot |-> IF parent[c] = p THEN initproc ELSE parent[c]]
      BY <2>8, ExitEffect
    <3>1. UNCHANGED <<pid, killed, kstack, pgdir, files, nextpid, pc, np, panicked>>
      BY Zenon, <2>8 DEF exit
    <3> QED
      BY <3>0, <3>1 DEF IInv, Resources, NoLeak, Sleepers, TypeOK
  <2>9. CASE sys_wait(p)
    BY <2>9 DEF IInv, Resources, NoLeak, TypeOK, Forks, Forking, Building, sys_wait, At
  <2>10. CASE \E c \in Slot : wait_reap(p, c)
    BY <2>10 DEF IInv, Resources, NoLeak, TypeOK, Forks, Forking, Building, wait_reap, At, Zombies, Child
  <2>11. CASE wait_fails(p)
    BY <2>11 DEF IInv, Resources, NoLeak, TypeOK, Forks, Forking, Building, wait_fails, At, Child, Zombies
  <2>12. CASE wait_sleep(p)
    BY <2>12 DEF IInv, Resources, NoLeak, TypeOK, Forks, Forking, Building, wait_sleep, At, Child, Zombies
  <2>13. CASE \E x \in Targets : kill(p, x)
    <3>0. /\ \A q \in Slot :
               \/ state'[q] = state[q] /\ (state[q] = "SLEEPING" => killed'[q] = killed[q])
               \/ state[q] = "SLEEPING" /\ state'[q] = "RUNNABLE"
          /\ UNCHANGED <<pid, parent, kstack, pgdir, files, nextpid, pc, np, panicked>>
      BY Zenon, <2>13, KillEffect
    <3> QED
      BY <3>0 DEF IInv, Resources, NoLeak, Sleepers, TypeOK
  <2>14. CASE fault(p)
    BY Zenon, <2>14 DEF IInv, Resources, NoLeak, TypeOK, Forks, Forking, Building, fault, At
  <2> QED
    BY Zenon, <1>1, <2>1, <2>2, <2>3, <2>4, <2>5, <2>6, <2>7, <2>8, <2>9, <2>10, <2>11, <2>12, <2>13, <2>14 DEF Kernel
<1>2. CASE panic
  BY Zenon, <1>2, <1>0 DEF panic
<1> QED
  BY Zenon, <1>0, <1>1, <1>2 DEF Next

\* No step leaves a process asleep in wait() with a zombie, without a child, or
\* with a kill() unnoticed.
LEMMA SleepersStep ==
    ASSUME IInv, [Next]_vars
    PROVE  Sleepers'
<1> USE ProcConstants DEF Slot, initproc, NULL
<1>0. CASE UNCHANGED vars
  BY <1>0 DEF IInv, Sleepers, NoLostWakeup, Child, Zombies, TypeOK, Forks, Forking, Building, Tree, ParentLive, vars
<1>1. ASSUME NEW p \in Slot, \/ Kernel(p) \/ exit_close(p) \/ sys_wait(p) \/ fault(p)
                               \/ \E c \in Slot : allocproc(p, c)
                               \/ \E x \in Targets : kill(p, x)
      PROVE  Sleepers'
  <2>1. CASE \E c \in Slot : allocproc(p, c)
    <3>0. PICK c \in Slot : allocproc(p, c)
      BY Zenon, <2>1
    <3>1. SUFFICES ASSUME NEW q \in Slot, state'[q] = "SLEEPING"
                   PROVE  Child(q)' # {} /\ Zombies(q)' = {} /\ ~killed'[q] /\ pc'[q] = "wait"
      BY Zenon DEF Sleepers, NoLostWakeup
    <3>2. state[q] = "SLEEPING" /\ q # p
      BY Zenon, <3>0, <3>1 DEF allocproc, At, IInv, TypeOK
    <3>3. Child(q)' = Child(q) /\ Zombies(q)' \subseteq Zombies(q)
      BY Zenon, <3>0 DEF allocproc, Child, Zombies, IInv, TypeOK
    <3> QED
      BY Zenon, <3>0, <3>2, <3>3 DEF allocproc, IInv, Sleepers, NoLostWakeup, TypeOK
  <2>2. CASE allocproc_kstack(p)
    <3>1. SUFFICES ASSUME NEW q \in Slot, state'[q] = "SLEEPING"
                   PROVE  Child(q)' # {} /\ Zombies(q)' = {} /\ ~killed'[q] /\ pc'[q] = "wait"
      BY Zenon DEF Sleepers, NoLostWakeup
    <3>2. state[q] = "SLEEPING" /\ killed'[q] = killed[q] /\ pc'[q] = pc[q]
      BY <2>2, <3>1 DEF allocproc_kstack, At, IInv, TypeOK, Forks, Forking, Building
    <3>3. Child(q)' = Child(q) /\ Zombies(q)' \subseteq Zombies(q)
      BY <2>2 DEF allocproc_kstack, At, Child, Zombies, IInv, TypeOK, Forks, Forking, Building
    <3> QED
      BY Zenon, <3>2, <3>3 DEF IInv, Sleepers, NoLostWakeup
  <2>3. CASE allocproc_fails(p)
    <3>1. SUFFICES ASSUME NEW q \in Slot, state'[q] = "SLEEPING"
                   PROVE  Child(q)' # {} /\ Zombies(q)' = {} /\ ~killed'[q] /\ pc'[q] = "wait"
      BY Zenon DEF Sleepers, NoLostWakeup
    <3>2. state[q] = "SLEEPING" /\ killed'[q] = killed[q] /\ pc'[q] = pc[q]
      BY <2>3, <3>1 DEF allocproc_fails, At, IInv, TypeOK, Forks, Forking, Building
    <3>3. Child(q)' = Child(q) /\ Zombies(q)' \subseteq Zombies(q)
      BY <2>3 DEF allocproc_fails, At, Child, Zombies, IInv, TypeOK, Forks, Forking, Building
    <3> QED
      BY Zenon, <3>2, <3>3 DEF IInv, Sleepers, NoLostWakeup
  <2>4. CASE fork_copy(p)
    <3>1. SUFFICES ASSUME NEW q \in Slot, state[q] = "SLEEPING"
                   PROVE  Child(q)' # {} /\ Zombies(q)' = {} /\ ~killed'[q] /\ pc'[q] = "wait"
      BY Zenon, <2>4 DEF fork_copy, Sleepers, NoLostWakeup
    <3>2. np[p] \in Slot /\ parent[np[p]] = NULL /\ state[np[p]] = "EMBRYO" /\ q # p /\ q # NULL
      BY <2>4, <3>1 DEF fork_copy, At, IInv, Forks, Forking, Building
    <3>3. Child(q)' = Child(q) /\ Zombies(q)' = Zombies(q)
      BY <2>4, <3>2 DEF fork_copy, Child, Zombies, IInv, TypeOK
    <3> QED
      BY <2>4, <3>1, <3>2, <3>3 DEF fork_copy, IInv, Sleepers, NoLostWakeup, TypeOK
  <2>5. CASE fork_fails(p)
    <3>1. SUFFICES ASSUME NEW q \in Slot, state'[q] = "SLEEPING"
                   PROVE  Child(q)' # {} /\ Zombies(q)' = {} /\ ~killed'[q] /\ pc'[q] = "wait"
      BY Zenon DEF Sleepers, NoLostWakeup
    <3>2. state[q] = "SLEEPING" /\ killed'[q] = killed[q] /\ pc'[q] = pc[q]
      BY <2>5, <3>1 DEF fork_fails, At, IInv, TypeOK, Forks, Forking, Building
    <3>3. Child(q)' = Child(q) /\ Zombies(q)' \subseteq Zombies(q)
      BY <2>5 DEF fork_fails, At, Child, Zombies, IInv, TypeOK, Forks, Forking, Building
    <3> QED
      BY Zenon, <3>2, <3>3 DEF IInv, Sleepers, NoLostWakeup
  <2>6. CASE fork_runnable(p)
    <3>1. SUFFICES ASSUME NEW q \in Slot, state'[q] = "SLEEPING"
                   PROVE  Child(q)' # {} /\ Zombies(q)' = {} /\ ~killed'[q] /\ pc'[q] = "wait"
      BY Zenon DEF Sleepers, NoLostWakeup
    <3>2. state[q] = "SLEEPING" /\ killed'[q] = killed[q] /\ pc'[q] = pc[q]
      BY <2>6, <3>1 DEF fork_runnable, At, IInv, TypeOK, Forks, Forking, Building
    <3>3. Child(q)' = Child(q) /\ Zombies(q)' \subseteq Zombies(q)
      BY <2>6 DEF fork_runnable, At, Child, Zombies, IInv, TypeOK, Forks, Forking, Building
    <3> QED
      BY Zenon, <3>2, <3>3 DEF IInv, Sleepers, NoLostWakeup
  <2>7. CASE exit_close(p)
    <3>1. SUFFICES ASSUME NEW q \in Slot, state'[q] = "SLEEPING"
                   PROVE  Child(q)' # {} /\ Zombies(q)' = {} /\ ~killed'[q] /\ pc'[q] = "wait"
      BY Zenon DEF Sleepers, NoLostWakeup
    <3>2. state[q] = "SLEEPING" /\ killed'[q] = killed[q] /\ pc'[q] = pc[q]
      BY <2>7, <3>1 DEF exit_close, At, IInv, TypeOK, Forks, Forking, Building
    <3>3. Child(q)' = Child(q) /\ Zombies(q)' \subseteq Zombies(q)
      BY <2>7 DEF exit_close, At, Child, Zombies, IInv, TypeOK, Forks, Forking, Building
    <3> QED
      BY Zenon, <3>2, <3>3 DEF IInv, Sleepers, NoLostWakeup
  <2>8. CASE exit(p)
    <3>0. /\ p # initproc /\ state[p] = "RUNNABLE" /\ pc[p] = "zombie" /\ state'[p] = "ZOMBIE"
          /\ \A q \in Slot \ {p} :
               \/ state'[q] = state[q]
               \/ state[q] = "SLEEPING" /\ state'[q] = "RUNNABLE"
          /\ \A q \in Slot : state'[q] = "SLEEPING" =>
               q # parent[p] /\ (q = initproc => Zombies(p) = {})
          /\ parent' = [c \in Slot |-> IF parent[c] = p THEN initproc ELSE parent[c]]
      BY <2>8, ExitEffect
    <3>1. UNCHANGED <<pid, killed, kstack, pgdir, files, nextpid, pc, np, panicked>>
      BY Zenon, <2>8 DEF exit
    <3>2. SUFFICES ASSUME NEW q \in Slot, state'[q] = "SLEEPING"
                   PROVE  Child(q)' # {} /\ Zombies(q)' = {} /\ ~killed'[q] /\ pc'[q] = "wait"
      BY Zenon DEF Sleepers, NoLostWakeup
    <3>3. state[q] = "SLEEPING" /\ q # p /\ q # parent[p] /\ (q = initproc => Zombies(p) = {})
      BY Zenon, <3>0, <3>2
    <3>4. Child(q) \subseteq Child(q)'
      BY Zenon, <3>0, <3>3 DEF Child, IInv, TypeOK
    <3>5. Zombies(q)' \subseteq Zombies(q) \cup (IF q = initproc THEN Zombies(p) ELSE {})
      BY <3>0, <3>3 DEF Child, Zombies, IInv, TypeOK, Tree
    <3> QED
      BY Zenon, <3>1, <3>3, <3>4, <3>5 DEF IInv, Sleepers, NoLostWakeup
  <2>9. CASE sys_wait(p)
    <3>1. SUFFICES ASSUME NEW q \in Slot, state'[q] = "SLEEPING"
                   PROVE  Child(q)' # {} /\ Zombies(q)' = {} /\ ~killed'[q] /\ pc'[q] = "wait"
      BY Zenon DEF Sleepers, NoLostWakeup
    <3>2. state[q] = "SLEEPING" /\ killed'[q] = killed[q] /\ pc'[q] = pc[q]
      BY <2>9, <3>1 DEF sys_wait, At, IInv, TypeOK, Forks, Forking, Building
    <3>3. Child(q)' = Child(q) /\ Zombies(q)' \subseteq Zombies(q)
      BY <2>9 DEF sys_wait, At, Child, Zombies, IInv, TypeOK, Forks, Forking, Building
    <3> QED
      BY Zenon, <3>2, <3>3 DEF IInv, Sleepers, NoLostWakeup
  <2>10. CASE \E c \in Slot : wait_reap(p, c)
    <3>0. PICK c \in Slot : wait_reap(p, c)
      BY Zenon, <2>10
    <3>1. /\ state[c] = "ZOMBIE" /\ parent[c] = p /\ state[p] = "RUNNABLE"
          /\ state' = [state EXCEPT ![c] = "UNUSED"] /\ parent' = [parent EXCEPT ![c] = NULL]
          /\ killed' = [killed EXCEPT ![c] = FALSE] /\ pc' = [pc EXCEPT ![p] = "user"]
      BY Zenon, <3>0 DEF wait_reap, At, Zombies, Child
    <3>2. SUFFICES ASSUME NEW q \in Slot, state'[q] = "SLEEPING"
                   PROVE  Child(q)' # {} /\ Zombies(q)' = {} /\ ~killed'[q] /\ pc'[q] = "wait"
      BY Zenon DEF Sleepers, NoLostWakeup
    <3>3. state[q] = "SLEEPING" /\ q # c /\ q # p
      BY Zenon, <3>1, <3>2 DEF IInv, TypeOK
    <3>4. killed'[q] = killed[q] /\ pc'[q] = pc[q]
      BY Zenon, <3>1, <3>3 DEF IInv, TypeOK
    <3>5. Child(q)' = Child(q)
      BY <3>1, <3>3 DEF Child, IInv, TypeOK
    <3>6. Zombies(q)' \subseteq Zombies(q)
      BY <3>1, <3>5 DEF Zombies, IInv, TypeOK
    <3> QED
      BY Zenon, <3>3, <3>4, <3>5, <3>6 DEF IInv, Sleepers, NoLostWakeup
  <2>11. CASE wait_fails(p)
    <3>1. SUFFICES ASSUME NEW q \in Slot, state'[q] = "SLEEPING"
                   PROVE  Child(q)' # {} /\ Zombies(q)' = {} /\ ~killed'[q] /\ pc'[q] = "wait"
      BY Zenon DEF Sleepers, NoLostWakeup
    <3>2. state[q] = "SLEEPING" /\ killed'[q] = killed[q] /\ pc'[q] = pc[q]
      BY <2>11, <3>1 DEF wait_fails, At, IInv, TypeOK, Forks, Forking, Building
    <3>3. Child(q)' = Child(q) /\ Zombies(q)' \subseteq Zombies(q)
      BY <2>11 DEF wait_fails, At, Child, Zombies, IInv, TypeOK, Forks, Forking, Building
    <3> QED
      BY Zenon, <3>2, <3>3 DEF IInv, Sleepers, NoLostWakeup
  <2>12. CASE wait_sleep(p)
    BY <2>12 DEF IInv, Sleepers, NoLostWakeup, Child, Zombies, TypeOK, Forks, Forking, Building, Tree, ParentLive, wait_sleep, At
  <2>13. CASE \E x \in Targets : kill(p, x)
    <3>0. /\ \A q \in Slot :
               \/ state'[q] = state[q] /\ (state[q] = "SLEEPING" => killed'[q] = killed[q])
               \/ state[q] = "SLEEPING" /\ state'[q] = "RUNNABLE"
          /\ UNCHANGED <<pid, parent, kstack, pgdir, files, nextpid, pc, np, panicked>>
      BY Zenon, <2>13, KillEffect
    <3>1. SUFFICES ASSUME NEW q \in Slot, state'[q] = "SLEEPING"
                   PROVE  Child(q)' # {} /\ Zombies(q)' = {} /\ ~killed'[q] /\ pc'[q] = "wait"
      BY Zenon DEF Sleepers, NoLostWakeup
    <3>2. state[q] = "SLEEPING" /\ killed'[q] = killed[q]
      BY Zenon, <3>0, <3>1
    <3>3. Child(q)' = Child(q) /\ Zombies(q)' \subseteq Zombies(q)
      BY Zenon, <3>0 DEF Child, Zombies
    <3> QED
      BY Zenon, <3>0, <3>2, <3>3 DEF IInv, Sleepers, NoLostWakeup
  <2>14. CASE fault(p)
    <3>1. SUFFICES ASSUME NEW q \in Slot, state'[q] = "SLEEPING"
                   PROVE  Child(q)' # {} /\ Zombies(q)' = {} /\ ~killed'[q] /\ pc'[q] = "wait"
      BY Zenon DEF Sleepers, NoLostWakeup
    <3>2. /\ state[p] = "RUNNABLE" /\ killed' = [killed EXCEPT ![p] = TRUE]
          /\ UNCHANGED <<state, parent, pc>>
      BY Zenon, <2>14 DEF fault, At
    <3>3. state[q] = "SLEEPING" /\ killed'[q] = killed[q]
      BY <3>1, <3>2, Zenon DEF IInv, TypeOK
    <3>4. Child(q)' = Child(q) /\ Zombies(q)' = Zombies(q)
      BY Zenon, <3>2 DEF Child, Zombies
    <3> QED
      BY Zenon, <3>2, <3>3, <3>4 DEF IInv, Sleepers, NoLostWakeup
  <2> QED
    BY Zenon, <1>1, <2>1, <2>2, <2>3, <2>4, <2>5, <2>6, <2>7, <2>8, <2>9, <2>10, <2>11, <2>12, <2>13, <2>14 DEF Kernel
<1>2. CASE panic
  BY Zenon, <1>2, <1>0 DEF panic
<1> QED
  BY Zenon, <1>0, <1>1, <1>2 DEF Next

\* No step takes away the EMBRYO entry that another process's fork() is building.
LEMMA ForksStep ==
    ASSUME IInv, [Next]_vars
    PROVE  Forks'
<1> USE ProcConstants DEF Slot, initproc, NULL
<1>0. CASE UNCHANGED vars
  BY <1>0 DEF IInv, Forks, Forking, Building, TypeOK, vars
<1>1. ASSUME NEW p \in Slot, \/ Kernel(p) \/ exit_close(p) \/ sys_wait(p) \/ fault(p)
                               \/ \E c \in Slot : allocproc(p, c)
                               \/ \E x \in Targets : kill(p, x)
      PROVE  Forks'
  <2>1. CASE \E c \in Slot : allocproc(p, c)
    <3>0. PICK c \in Slot : allocproc(p, c)
      BY Zenon, <2>1
    <3>1. /\ state[c] = "UNUSED" /\ state[p] = "RUNNABLE" /\ pc[p] = "user"
          /\ state' = [state EXCEPT ![c] = "EMBRYO"] /\ np' = [np EXCEPT ![p] = c]
          /\ pc' = [pc EXCEPT ![p] = "kalloc"] /\ UNCHANGED <<parent, kstack, pgdir, files>>
      BY Zenon, <3>0 DEF allocproc, At
    <3>2. parent[c] = NULL /\ ~kstack[c] /\ ~pgdir[c] /\ ~files[c]
      BY Zenon, <3>1 DEF IInv, Tree, Resources, NoLeak
    <3>3. ASSUME NEW q \in Slot, q # p, Forking(q)'
          PROVE  Forking(q) /\ Building(q)' /\ np'[q] = np[q]
      BY <3>1, <3>3 DEF IInv, TypeOK, Forks, Forking, Building
    <3>4. Building(p)' /\ np'[p] = c
      BY <3>1, <3>2 DEF IInv, TypeOK, Building
    <3>5. \A q \in Slot : Forking(q) => np[q] # c
      BY Zenon, <3>1 DEF IInv, Forks, Building
    <3> QED
      BY Zenon, <3>3, <3>4, <3>5 DEF IInv, Forks
  <2>2. CASE allocproc_kstack(p)
    <3>1. Forking(p) /\ Building(p)
      BY Zenon, <2>2 DEF allocproc_kstack, At, IInv, Forks, Forking
    <3>2. ASSUME NEW q \in Slot, q # p, Forking(q)'
          PROVE  Forking(q) /\ np[q] # np[p] /\ np'[q] = np[q]
      BY <2>2, <3>1, <3>2 DEF allocproc_kstack, At, IInv, TypeOK, Forks, Forking, Building
    <3>3. ASSUME NEW q \in Slot, q # p, Forking(q)'
          PROVE  Building(q)'
      <4>1. Building(q) /\ np[q] # np[p] /\ np'[q] = np[q] /\ q # np[p]
        BY <3>1, <3>2, <3>3 DEF IInv, Forks, Building
      <4> QED
        BY <2>2, <3>1, <3>3, <4>1 DEF allocproc_kstack, At, IInv, TypeOK, Building
    <3>4. Forking(p)' => Building(p)'
      BY Zenon, <2>2, <3>1 DEF allocproc_kstack, At, IInv, TypeOK, Building, Forking
    <3>5. Forking(p)' => np'[p] = np[p]
      BY Zenon, <2>2 DEF allocproc_kstack, At, IInv, TypeOK, Forking
    <3> QED
      BY Zenon, <3>1, <3>2, <3>3, <3>4, <3>5 DEF IInv, Forks
  <2>3. CASE allocproc_fails(p)
    <3>1. Forking(p) /\ Building(p)
      BY Zenon, <2>3 DEF allocproc_fails, At, IInv, Forks, Forking
    <3>2. ASSUME NEW q \in Slot, q # p, Forking(q)'
          PROVE  Forking(q) /\ np[q] # np[p] /\ np'[q] = np[q]
      BY <2>3, <3>1, <3>2 DEF allocproc_fails, At, IInv, TypeOK, Forks, Forking, Building
    <3>3. ASSUME NEW q \in Slot, q # p, Forking(q)'
          PROVE  Building(q)'
      <4>1. Building(q) /\ np[q] # np[p] /\ np'[q] = np[q] /\ q # np[p]
        BY Zenon, <3>1, <3>2, <3>3 DEF IInv, Forks, Building
      <4> QED
        BY <2>3, <3>1, <3>3, <4>1 DEF allocproc_fails, At, IInv, TypeOK, Building
    <3>4. Forking(p)' => Building(p)'
      BY Zenon, <2>3, <3>1 DEF allocproc_fails, At, IInv, TypeOK, Building, Forking
    <3>5. Forking(p)' => np'[p] = np[p]
      BY Zenon, <2>3 DEF allocproc_fails, At, IInv, TypeOK, Forking
    <3> QED
      BY Zenon, <3>1, <3>2, <3>3, <3>4, <3>5 DEF IInv, Forks
  <2>4. CASE fork_copy(p)
    <3>1. Forking(p) /\ Building(p)
      BY Zenon, <2>4 DEF fork_copy, At, IInv, Forks, Forking
    <3>2. ASSUME NEW q \in Slot, q # p, Forking(q)'
          PROVE  Forking(q) /\ np[q] # np[p] /\ np'[q] = np[q]
      BY <2>4, <3>1, <3>2 DEF fork_copy, At, IInv, TypeOK, Forks, Forking, Building
    <3>3. ASSUME NEW q \in Slot, q # p, Forking(q)'
          PROVE  Building(q)'
      <4>1. Building(q) /\ np[q] # np[p] /\ np'[q] = np[q] /\ q # np[p]
        BY Zenon, <3>1, <3>2, <3>3 DEF IInv, Forks, Building
      <4> QED
        BY <2>4, <3>1, <3>3, <4>1 DEF fork_copy, At, IInv, TypeOK, Building
    <3>4. Forking(p)' => Building(p)'
      BY <2>4, <3>1 DEF fork_copy, At, IInv, TypeOK, Building, Forking
    <3>5. Forking(p)' => np'[p] = np[p]
      BY Zenon, <2>4 DEF fork_copy, At, IInv, TypeOK, Forking
    <3> QED
      BY Zenon, <3>1, <3>2, <3>3, <3>4, <3>5 DEF IInv, Forks
  <2>5. CASE fork_fails(p)
    <3>1. Forking(p) /\ Building(p)
      BY Zenon, <2>5 DEF fork_fails, At, IInv, Forks, Forking
    <3>2. ASSUME NEW q \in Slot, q # p, Forking(q)'
          PROVE  Forking(q) /\ np[q] # np[p] /\ np'[q] = np[q]
      BY <2>5, <3>1, <3>2 DEF fork_fails, At, IInv, TypeOK, Forks, Forking, Building
    <3>3. ASSUME NEW q \in Slot, q # p, Forking(q)'
          PROVE  Building(q)'
      <4>1. Building(q) /\ np[q] # np[p] /\ np'[q] = np[q] /\ q # np[p]
        BY Zenon, <3>1, <3>2, <3>3 DEF IInv, Forks, Building
      <4> QED
        BY <2>5, <3>1, <3>3, <4>1 DEF fork_fails, At, IInv, TypeOK, Building
    <3>4. Forking(p)' => Building(p)'
      BY <2>5, <3>1 DEF fork_fails, At, IInv, TypeOK, Building, Forking
    <3>5. Forking(p)' => np'[p] = np[p]
      BY Zenon, <2>5 DEF fork_fails, At, IInv, TypeOK, Forking
    <3> QED
      BY Zenon, <3>1, <3>2, <3>3, <3>4, <3>5 DEF IInv, Forks
  <2>6. CASE fork_runnable(p)
    <3>1. Forking(p) /\ Building(p)
      BY Zenon, <2>6 DEF fork_runnable, At, IInv, Forks, Forking
    <3>2. ASSUME NEW q \in Slot, q # p, Forking(q)'
          PROVE  Forking(q) /\ np[q] # np[p] /\ np'[q] = np[q]
      BY <2>6, <3>1, <3>2 DEF fork_runnable, At, IInv, TypeOK, Forks, Forking, Building
    <3>3. ASSUME NEW q \in Slot, q # p, Forking(q)'
          PROVE  Building(q)'
      <4>1. Building(q) /\ np[q] # np[p] /\ np'[q] = np[q] /\ q # np[p]
        BY Zenon, <3>1, <3>2, <3>3 DEF IInv, Forks, Building
      <4> QED
        BY <2>6, <3>1, <3>3, <4>1 DEF fork_runnable, At, IInv, TypeOK, Building
    <3>4. Forking(p)' => Building(p)'
      BY <2>6, <3>1 DEF fork_runnable, At, IInv, TypeOK, Building, Forking
    <3>5. Forking(p)' => np'[p] = np[p]
      BY Zenon, <2>6 DEF fork_runnable, At, IInv, TypeOK, Forking
    <3> QED
      BY Zenon, <3>1, <3>2, <3>3, <3>4, <3>5 DEF IInv, Forks
  <2>7. CASE exit_close(p)
    BY <2>7 DEF IInv, Forks, Forking, Building, TypeOK, exit_close, At
  <2>8. CASE exit(p)
    BY <2>8 DEF IInv, Forks, Forking, Building, TypeOK, exit, At, wakeup1, Child, Zombies
  <2>9. CASE sys_wait(p)
    BY <2>9 DEF IInv, Forks, Forking, Building, TypeOK, sys_wait, At
  <2>10. CASE \E c \in Slot : wait_reap(p, c)
    <3>0. PICK c \in Slot : wait_reap(p, c)
      BY Zenon, <2>10
    <3>1. /\ state[c] = "ZOMBIE" /\ state[p] = "RUNNABLE" /\ pc[p] = "wait"
          /\ state' = [state EXCEPT ![c] = "UNUSED"] /\ parent' = [parent EXCEPT ![c] = NULL]
          /\ kstack' = [kstack EXCEPT ![c] = FALSE] /\ pgdir' = [pgdir EXCEPT ![c] = FALSE]
          /\ pc' = [pc EXCEPT ![p] = "user"] /\ UNCHANGED <<files, np>>
      BY Zenon, <3>0 DEF wait_reap, At, Zombies
    <3>3. ASSUME NEW q \in Slot, q # p, Forking(q)'
          PROVE  Forking(q) /\ Building(q)' /\ np'[q] = np[q]
      BY <3>1, <3>3 DEF IInv, TypeOK, Forks, Forking, Building
    <3>4. ~Forking(p)'
      BY Zenon, <3>1 DEF IInv, TypeOK, Forking
    <3> QED
      BY Zenon, <3>3, <3>4 DEF IInv, Forks
  <2>11. CASE wait_fails(p)
    BY <2>11 DEF IInv, Forks, Forking, Building, TypeOK, wait_fails, At, Child, Zombies
  <2>12. CASE wait_sleep(p)
    BY <2>12 DEF IInv, Forks, Forking, Building, TypeOK, wait_sleep, At
  <2>13. CASE \E x \in Targets : kill(p, x)
    <3>0. /\ \A q \in Slot :
               \/ state'[q] = state[q] /\ (state[q] = "SLEEPING" => killed'[q] = killed[q])
               \/ state[q] = "SLEEPING" /\ state'[q] = "RUNNABLE"
          /\ UNCHANGED <<pid, parent, kstack, pgdir, files, nextpid, pc, np, panicked>>
      BY Zenon, <2>13, KillEffect
    <3> QED
      BY <3>0 DEF IInv, Forks, Forking, Building, TypeOK
  <2>14. CASE fault(p)
    BY <2>14 DEF IInv, Forks, Forking, Building, TypeOK, fault, At
  <2> QED
    BY Zenon, <1>1, <2>1, <2>2, <2>3, <2>4, <2>5, <2>6, <2>7, <2>8, <2>9, <2>10, <2>11, <2>12, <2>13, <2>14 DEF Kernel
<1>2. CASE panic
  BY Zenon, <1>2, <1>0 DEF panic
<1> QED
  BY Zenon, <1>0, <1>1, <1>2 DEF Next

\* Parents stay live: exit() passes the children on before wait() can free the
\* parent, and only a process whose fork() is about to finish has an EMBRYO child.
LEMMA TreeStep ==
    ASSUME IInv, [Next]_vars
    PROVE  Tree'
<1> USE ProcConstants DEF Slot, initproc, NULL
<1>0. CASE UNCHANGED vars
  BY Zenon, <1>0 DEF IInv, Tree, ParentLive, TypeOK, Forks, Forking, Building, vars
<1>1. ASSUME NEW p \in Slot, \/ Kernel(p) \/ exit_close(p) \/ sys_wait(p) \/ fault(p)
                               \/ \E c \in Slot : allocproc(p, c)
                               \/ \E x \in Targets : kill(p, x)
      PROVE  Tree'
  <2>1. CASE \E c \in Slot : allocproc(p, c)
    BY <2>1 DEF IInv, Tree, ParentLive, TypeOK, Forks, Forking, Building, allocproc, At
  <2>2. CASE allocproc_kstack(p)
    BY <2>2 DEF IInv, Tree, ParentLive, TypeOK, Forks, Forking, Building, allocproc_kstack, At
  <2>3. CASE allocproc_fails(p)
    BY <2>3 DEF IInv, Tree, ParentLive, TypeOK, Forks, Forking, Building, allocproc_fails, At
  <2>4. CASE fork_copy(p)
    BY <2>4 DEF IInv, Tree, ParentLive, TypeOK, Forks, Forking, Building, fork_copy, At
  <2>5. CASE fork_fails(p)
    BY <2>5 DEF IInv, Tree, ParentLive, TypeOK, Forks, Forking, Building, fork_fails, At
  <2>6. CASE fork_runnable(p)
    BY <2>6 DEF IInv, Tree, ParentLive, TypeOK, Forks, Forking, Building, fork_runnable, At
  <2>7. CASE exit_close(p)
    <3>1. /\ pc' = [pc EXCEPT ![p] = "zombie"] /\ panicked' = (p = initproc)
          /\ UNCHANGED <<state, parent, np>> /\ pc[p] = "user"
      BY Zenon, <2>7 DEF exit_close, At
    <3>2. pc'[initproc] = "zombie" => panicked'
      <4>1. CASE p = initproc
        BY <3>1, <4>1, Zenon
      <4>2. CASE p # initproc
        <5>1. pc[initproc] # "zombie"
          BY Zenon, <2>7 DEF IInv, Tree, exit_close, At
        <5> QED
          BY <3>1, <4>2, <5>1 DEF IInv, TypeOK
      <4> QED
        BY Zenon, <4>1, <4>2
    <3> QED
      BY <3>1, <3>2 DEF IInv, Tree, ParentLive, TypeOK
  <2>8. CASE exit(p)
    <3>0. /\ p # initproc /\ state[p] = "RUNNABLE" /\ pc[p] = "zombie" /\ state'[p] = "ZOMBIE"
          /\ \A q \in Slot \ {p} :
               \/ state'[q] = state[q]
               \/ state[q] = "SLEEPING" /\ state'[q] = "RUNNABLE"
          /\ \A q \in Slot : state'[q] = "SLEEPING" =>
               q # parent[p] /\ (q = initproc => Zombies(p) = {})
          /\ parent' = [c \in Slot |-> IF parent[c] = p THEN initproc ELSE parent[c]]
      BY <2>8, ExitEffect
    <3>1. UNCHANGED <<pid, killed, kstack, pgdir, files, nextpid, pc, np, panicked>>
      BY Zenon, <2>8 DEF exit
    <3>2. parent'[initproc] = NULL /\ state'[initproc] \in {"RUNNABLE", "SLEEPING"}
      BY <3>0 DEF IInv, Tree, TypeOK
    <3>3. ParentLive'
      <4>1. SUFFICES ASSUME NEW q \in Slot \ {initproc}, state'[q] \in {"RUNNABLE", "SLEEPING", "ZOMBIE"}
                     PROVE  parent'[q] # NULL /\ state'[parent'[q]] \in {"RUNNABLE", "SLEEPING"}
        BY Zenon DEF ParentLive
      <4>2. parent[q] # NULL /\ state[parent[q]] \in {"RUNNABLE", "SLEEPING"}
        BY Zenon, <3>0, <4>1 DEF IInv, Tree, ParentLive
      <4>3. CASE parent[q] = p
        BY <3>0, <3>2, <4>3
      <4>4. CASE parent[q] # p
        BY Zenon, <3>0, <4>2, <4>4 DEF IInv, TypeOK
      <4> QED
        BY Zenon, <4>3, <4>4
    <3>4. ASSUME NEW q \in Slot
          PROVE  /\ parent'[q] # q
                 /\ state'[q] = "UNUSED" => parent'[q] = NULL
                 /\ state'[q] = "EMBRYO" /\ parent'[q] # NULL
                      => pc'[parent'[q]] = "runnable" /\ np'[parent'[q]] = q
      BY <3>0, <3>1 DEF IInv, Tree, TypeOK
    <3> QED
      BY Zenon, <3>1, <3>2, <3>3, <3>4 DEF IInv, Tree
  <2>9. CASE sys_wait(p)
    BY <2>9 DEF IInv, Tree, ParentLive, TypeOK, Forks, Forking, Building, sys_wait, At
  <2>10. CASE \E c \in Slot : wait_reap(p, c)
    <3>0. PICK c \in Slot : wait_reap(p, c)
      BY Zenon, <2>10
    <3>1. /\ state[c] = "ZOMBIE" /\ pc[p] = "wait"
          /\ state' = [state EXCEPT ![c] = "UNUSED"] /\ parent' = [parent EXCEPT ![c] = NULL]
          /\ pc' = [pc EXCEPT ![p] = "user"] /\ UNCHANGED <<np, panicked>>
      BY Zenon, <3>0 DEF wait_reap, At, Zombies
    <3> QED
      BY <3>1 DEF IInv, Tree, ParentLive, TypeOK
  <2>11. CASE wait_fails(p)
    BY <2>11 DEF IInv, Tree, ParentLive, TypeOK, Forks, Forking, Building, wait_fails, At, Child, Zombies
  <2>12. CASE wait_sleep(p)
    BY <2>12 DEF IInv, Tree, ParentLive, TypeOK, Forks, Forking, Building, wait_sleep, At, Child, Zombies
  <2>13. CASE \E x \in Targets : kill(p, x)
    BY <2>13 DEF IInv, Tree, ParentLive, TypeOK, Forks, Forking, Building, kill, At
  <2>14. CASE fault(p)
    BY <2>14 DEF IInv, Tree, ParentLive, TypeOK, Forks, Forking, Building, fault, At
  <2> QED
    BY Zenon, <1>1, <2>1, <2>2, <2>3, <2>4, <2>5, <2>6, <2>7, <2>8, <2>9, <2>10, <2>11, <2>12, <2>13, <2>14 DEF Kernel
<1>2. CASE panic
  BY Zenon, <1>2, <1>0 DEF panic
<1> QED
  BY Zenon, <1>0, <1>1, <1>2 DEF Next

\* Every step of fork(), exit(), wait() and kill() keeps the types.
LEMMA TypeStep ==
    ASSUME IInv, [Next]_vars
    PROVE  TypeOK'
<1> USE ProcConstants DEF Slot, initproc, NULL
<1>0. CASE UNCHANGED vars
  BY Zenon, <1>0 DEF IInv, TypeOK, vars
<1>1. ASSUME NEW p \in Slot, \/ Kernel(p) \/ exit_close(p) \/ sys_wait(p) \/ fault(p)
                               \/ \E c \in Slot : allocproc(p, c)
                               \/ \E x \in Targets : kill(p, x)
      PROVE  TypeOK'
  <2>1. CASE \E c \in Slot : allocproc(p, c)
    BY <2>1 DEF IInv, TypeOK, allocproc, At
  <2>2. CASE allocproc_kstack(p)
    BY <2>2, Zenon DEF IInv, TypeOK, allocproc_kstack, At
  <2>3. CASE allocproc_fails(p)
    BY <2>3, Zenon DEF IInv, TypeOK, allocproc_fails, At
  <2>4. CASE fork_copy(p)
    BY <2>4, Zenon DEF IInv, TypeOK, fork_copy, At
  <2>5. CASE fork_fails(p)
    BY <2>5, Zenon DEF IInv, TypeOK, fork_fails, At
  <2>6. CASE fork_runnable(p)
    BY <2>6, Zenon DEF IInv, TypeOK, fork_runnable, At
  <2>7. CASE exit_close(p)
    BY Zenon, <2>7 DEF IInv, TypeOK, exit_close, At
  <2>8. CASE exit(p)
    BY <2>8 DEF IInv, TypeOK, exit, At, wakeup1, Child, Zombies
  <2>9. CASE sys_wait(p)
    BY Zenon, <2>9 DEF IInv, TypeOK, sys_wait, At
  <2>10. CASE \E c \in Slot : wait_reap(p, c)
    BY <2>10 DEF IInv, TypeOK, wait_reap, At, Zombies, Child
  <2>11. CASE wait_fails(p)
    BY Zenon, <2>11 DEF IInv, TypeOK, wait_fails, At, Child, Zombies
  <2>12. CASE wait_sleep(p)
    BY Zenon, <2>12 DEF IInv, TypeOK, wait_sleep, At, Child, Zombies
  <2>13. CASE \E x \in Targets : kill(p, x)
    <3>1. PICK x \in Targets : kill(p, x)
      BY Zenon, <2>13
    <3>2. PICK q \in Slot :
             /\ killed' = [killed EXCEPT ![q] = TRUE]
             /\ named' = [named EXCEPT ![q] = state[q] # "UNUSED"]
             /\ state' = [state EXCEPT ![q] = IF @ = "SLEEPING" THEN "RUNNABLE" ELSE @]
      BY <3>1, Zenon DEF kill
    <3>3. UNCHANGED <<pid, parent, kstack, pgdir, files, nextpid, pc, np, panicked>>
      BY Zenon, <3>1 DEF kill
    <3> QED
      BY Zenon, <3>2, <3>3 DEF IInv, TypeOK
  <2>14. CASE fault(p)
    BY Zenon, <2>14 DEF IInv, TypeOK, fault, At
  <2> QED
    BY Zenon, <1>1, <2>1, <2>2, <2>3, <2>4, <2>5, <2>6, <2>7, <2>8, <2>9, <2>10, <2>11, <2>12, <2>13, <2>14 DEF Kernel
<1>2. CASE panic
  BY Zenon, <1>2, <1>0 DEF panic
<1> QED
  BY Zenon, <1>0, <1>1, <1>2 DEF Next

\* Only allocproc() writes a pid into a live entry, and it is above all others.
LEMMA PidsStep ==
    ASSUME IInv, [Next]_vars
    PROVE  Pids'
<1> USE ProcConstants DEF Slot, initproc, NULL
<1>0. CASE UNCHANGED vars
  BY <1>0 DEF IInv, Pids, UniquePids, Live, TypeOK, vars
<1>1. ASSUME NEW p \in Slot, \/ Kernel(p) \/ exit_close(p) \/ sys_wait(p) \/ fault(p)
                               \/ \E c \in Slot : allocproc(p, c)
                               \/ \E x \in Targets : kill(p, x)
      PROVE  Pids'
  <2>1. CASE \E c \in Slot : allocproc(p, c)
    <3>0. PICK c \in Slot : allocproc(p, c)
      BY Zenon, <2>1
    <3>1. /\ state' = [state EXCEPT ![c] = "EMBRYO"] /\ pid' = [pid EXCEPT ![c] = nextpid]
          /\ nextpid' = nextpid + 1
      BY Zenon, <3>0 DEF allocproc
    <3> QED
      BY <3>1 DEF IInv, Pids, UniquePids, Live, TypeOK
  <2>2. CASE allocproc_kstack(p)
    BY Zenon, <2>2 DEF IInv, Pids, UniquePids, Live, TypeOK, allocproc_kstack, At
  <2>3. CASE allocproc_fails(p)
    BY Zenon, <2>3 DEF IInv, Pids, UniquePids, Live, TypeOK, allocproc_fails, At
  <2>4. CASE fork_copy(p)
    BY Zenon, <2>4 DEF IInv, Pids, UniquePids, Live, TypeOK, fork_copy, At
  <2>5. CASE fork_fails(p)
    BY Zenon, <2>5 DEF IInv, Pids, UniquePids, Live, TypeOK, fork_fails, At
  <2>6. CASE fork_runnable(p)
    <3>1. /\ state' = [state EXCEPT ![np[p]] = "RUNNABLE"] /\ UNCHANGED <<pid, nextpid>>
          /\ np[p] \in Slot /\ state[np[p]] = "EMBRYO"
      BY Zenon, <2>6 DEF IInv, Forks, Forking, Building, fork_runnable, At
    <3> QED
      BY <3>1 DEF IInv, Pids, UniquePids, Live, TypeOK
  <2>7. CASE exit_close(p)
    BY Zenon, <2>7 DEF IInv, Pids, UniquePids, Live, TypeOK, exit_close, At
  <2>8. CASE exit(p)
    BY <2>8, Zenon DEF IInv, Pids, UniquePids, Live, TypeOK, exit, At, wakeup1, Child, Zombies
  <2>9. CASE sys_wait(p)
    BY Zenon, <2>9 DEF IInv, Pids, UniquePids, Live, TypeOK, sys_wait, At
  <2>10. CASE \E c \in Slot : wait_reap(p, c)
    <3>0. PICK c \in Slot : wait_reap(p, c)
      BY Zenon, <2>10
    <3>1. /\ state' = [state EXCEPT ![c] = "UNUSED"] /\ pid' = [pid EXCEPT ![c] = 0]
          /\ UNCHANGED nextpid
      BY Zenon, <3>0 DEF wait_reap
    <3> QED
      BY <3>1 DEF IInv, Pids, UniquePids, Live, TypeOK
  <2>11. CASE wait_fails(p)
    BY Zenon, <2>11 DEF IInv, Pids, UniquePids, Live, TypeOK, wait_fails, At, Child, Zombies
  <2>12. CASE wait_sleep(p)
    BY <2>12 DEF IInv, Pids, UniquePids, Live, TypeOK, wait_sleep, At, Child, Zombies
  <2>13. CASE \E x \in Targets : kill(p, x)
    <3>0. /\ \A q \in Slot :
               \/ state'[q] = state[q] /\ (state[q] = "SLEEPING" => killed'[q] = killed[q])
               \/ state[q] = "SLEEPING" /\ state'[q] = "RUNNABLE"
          /\ UNCHANGED <<pid, parent, kstack, pgdir, files, nextpid, pc, np, panicked>>
      BY Zenon, <2>13, KillEffect
    <3> QED
      BY <3>0, Zenon DEF IInv, Pids, UniquePids, Live, TypeOK
  <2>14. CASE fault(p)
    BY Zenon, <2>14 DEF IInv, Pids, UniquePids, Live, TypeOK, fault, At
  <2> QED
    BY Zenon, <1>1, <2>1, <2>2, <2>3, <2>4, <2>5, <2>6, <2>7, <2>8, <2>9, <2>10, <2>11, <2>12, <2>13, <2>14 DEF Kernel
<1>2. CASE panic
  BY Zenon, <1>2, <1>0 DEF panic
<1> QED
  BY Zenon, <1>0, <1>1, <1>2 DEF Next
-----------------------------------------------------------------------------
\* userinit() leaves a table with init alone in it.
LEMMA InitIInv == Init => IInv
<1> SUFFICES ASSUME Init PROVE IInv
  BY Zenon
<1> USE ProcConstants DEF Slot, initproc, NULL, Init
<1>1. TypeOK
  <2>1. 1 \in 0..MAXPID /\ 2 \in 1..MAXPID + 1 /\ 0 \in 0..MAXPID
    OBVIOUS
  <2> QED
    BY <2>1, Zenon DEF TypeOK
<1>2. Pids
  BY DEF Pids, UniquePids, Live
<1>3. Forks /\ Tree
  BY DEF Forks, Forking, Building, Tree, ParentLive
<1>4. Sleepers /\ Resources
  BY Zenon DEF Sleepers, NoLostWakeup, Resources, NoLeak
<1> QED
  BY Zenon, <1>1, <1>2, <1>3, <1>4 DEF IInv

\* The invariant of the process table is inductive.
LEMMA IInvariant == Spec => []IInv
<1>1. IInv /\ [Next]_vars => IInv'
  BY Zenon, TypeStep, PidsStep, ForksStep, TreeStep, SleepersStep, ResourcesStep DEF IInv
<1> QED
  BY InitIInv, <1>1, PTL DEF Spec

\* Type correctness of the process table under fork(), exit(), wait() and kill().
THEOREM TypeCorrect == Spec => []TypeOK
<1>1. IInv => TypeOK
  BY Zenon DEF IInv
<1> QED
  BY <1>1, IInvariant, PTL

\* allocproc() and wait() never leave two live entries with one pid.
THEOREM PidsUnique == Spec => []UniquePids
<1>1. IInv => UniquePids
  BY Zenon DEF IInv, Pids
<1> QED
  BY <1>1, IInvariant, PTL

\* exit() leaves no process whose parent cannot wait() for it any more.
THEOREM ParentsLive == Spec => []ParentLive
<1>1. IInv => ParentLive
  BY Zenon DEF IInv, Tree
<1> QED
  BY <1>1, IInvariant, PTL

\* The scan of wait() under ptable.lock and the wakeups of exit() and kill()
\* leave nobody asleep who should not be.
THEOREM WakeupNotLost == Spec => []NoLostWakeup
<1>1. IInv => NoLostWakeup
  BY Zenon DEF IInv, Sleepers
<1> QED
  BY <1>1, IInvariant, PTL

\* The process table is consistent for any NPROC and any number of forks.
THEOREM TableIsConsistent == Spec => []TableConsistent
<1>1. IInv => TableConsistent
  BY Zenon DEF IInv, Pids, Tree, Sleepers, TableConsistent
<1> QED
  BY <1>1, IInvariant, PTL

\* fork() on either failing path, exit() and wait() free what the entry held.
THEOREM NothingLeaks == Spec => []NoLeak
<1>1. IInv => NoLeak
  BY Zenon DEF IInv, Resources
<1> QED
  BY <1>1, IInvariant, PTL
=============================================================================
