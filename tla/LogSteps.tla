------------------------------ MODULE LogSteps ------------------------------
(* Proofs about the steps of the write-ahead log of log.c: what a transaction  *)
(* leaves in the log, in the header and at home while it commits, crashes and  *)
(* recovers, and that every step maps to one of TxDisk.                        *)
EXTENDS Log, TLAPS

NoDup(s) == \A i, j \in 1..Len(s) : s[i] = s[j] => i = j

\* What makes the control invariants inductive: log.outstanding counts the
\* system calls in progress, only a committer sets log.committing, nothing is
\* left in the log between transactions, and a recovering kernel runs nothing.
Control ==
    /\ TypeOK
    /\ NoDup(lh) /\ NoDup(head)
    /\ outstanding = Cardinality(OpSet)
    /\ committing => OpSet = {}
    /\ \A p \in Proc : Committer(p) => committing
    /\ \A p, q \in Proc : Committer(p) /\ Committer(q) => p = q
    /\ Recovering => ~committing /\ \A p \in Proc : pc[p] = "idle"
    /\ ~Recovering /\ outstanding = 0 /\ ~committing => lh = << >>
    /\ \A p \in Proc : pc[p] = "end_commit" => lh = << >>
    /\ (\E p \in Proc : pc[p] = "asleep") => committing \/ outstanding > 0
    /\ NoProtocolPanic
    /\ \A p \in Proc : cur[p] # NoBlock <=> pc[p] \in {"mod", "append"}

\* Home locations lie among the blocks after the header.
LEMMA HomeData == Home \subseteq DataBlock
  BY LogConstants DEF Home, DataBlock

\* bread() of a block in range returns a block value.
LEMMA ViewType ==
    ASSUME TypeOK, NEW b \in DataBlock
    PROVE  View(b) \in Val
  BY Zenon DEF TypeOK, View

\* Where in commit() somebody is.
Writing == \E p \in Proc : pc[p] = "write_log"
Heading == \E p \in Proc : pc[p] = "write_head"
Installing == \E p \in Proc : pc[p] = "install"
Erasing == \E p \in Proc : pc[p] = "erase"

Coherent(b) == cache[b] = Absent \/ cache[b] = disk[b]
Logged(b) == \E i \in 1..Len(lh) : lh[i] = b

\* A buffer that is neither B_DIRTY nor being modified agrees with the disk.
Clean == \A b \in DataBlock : b \notin dirty /\ (\A p \in Proc : cur[p] # b) => Coherent(b)

\* B_DIRTY marks blocks of the transaction that are not installed yet.
Pinned ==
    /\ \A b \in dirty : Logged(b)
    /\ Installing => \A i \in 1..tail : lh[i] \notin dirty
    /\ Erasing \/ Recovering => dirty = {}

\* The header on disk names the transaction from write_head() to its erasure.
Header ==
    /\ Installing \/ Erasing \/ sys \in {"install", "erase"} => head = lh
    /\ ~Recovering /\ ~Installing /\ ~Erasing => head = << >>
    /\ sys = "read_head" => lh = << >>

Loop ==
    /\ tail <= Len(lh)
    /\ sys # "install" /\ ~Writing /\ ~Installing => tail = 0

Durable == Clean /\ Pinned /\ Header /\ Loop

\* What write_log() has copied, and what install_trans() has.
Copied ==
    /\ Writing => \A i \in 1..tail : disk[i] = View(lh[i])
    /\ Heading \/ Installing \/ Erasing =>
         \A i \in 1..Len(lh) : disk[i] = View(lh[i])
    /\ Installing \/ sys = "install" => \A i \in 1..tail : disk[lh[i]] = disk[i]
    /\ Erasing \/ sys = "erase" => \A i \in 1..Len(lh) : disk[lh[i]] = disk[i]

Stored == Durable /\ Copied

Phases == {"write_log", "write_head", "install", "erase"}
SamePhase == (Writing' <=> Writing) /\ (Heading' <=> Heading) /\ (Installing' <=> Installing) /\ (Erasing' <=> Erasing)

\* The one that commits is alone in it, and nobody commits during a system call.
LEMMA Alone ==
    ASSUME Control, NEW p \in Proc
    PROVE  /\ Committer(p) => /\ (Writing <=> pc[p] = "write_log") /\ (Heading <=> pc[p] = "write_head")
                               /\ (Installing <=> pc[p] = "install") /\ (Erasing <=> pc[p] = "erase")
           /\ InOp(p) => ~Writing /\ ~Heading /\ ~Installing /\ ~Erasing
<1>1. \A q \in Proc : pc[q] \in Phases => Committer(q)
  BY Zenon DEF Phases, Committer
<1>2. ASSUME Committer(p)
      PROVE  /\ (Writing <=> pc[p] = "write_log") /\ (Heading <=> pc[p] = "write_head")
             /\ (Installing <=> pc[p] = "install") /\ (Erasing <=> pc[p] = "erase")
  <2>1. \A q \in Proc : pc[q] \in Phases => q = p
    BY Zenon, <1>1, <1>2 DEF Control
  <2> QED
    BY Zenon, <2>1 DEF Phases, Writing, Heading, Installing, Erasing
<1>3. ASSUME InOp(p) PROVE ~Writing /\ ~Heading /\ ~Installing /\ ~Erasing
  <2>1. \A q \in Proc : pc[q] \notin Phases
    BY Zenon, <1>1, <1>3 DEF Control, OpSet
  <2> QED
    BY Zenon, <2>1 DEF Phases, Writing, Heading, Installing, Erasing
<1> QED
  BY Zenon, <1>2, <1>3

\* Where a process goes when it alone may be in commit().
LEMMA Moved ==
    ASSUME Control, NEW p \in Proc, Committer(p) \/ InOp(p), NEW t, pc' = [pc EXCEPT ![p] = t]
    PROVE  /\ (Writing' <=> t = "write_log") /\ (Heading' <=> t = "write_head")
           /\ (Installing' <=> t = "install") /\ (Erasing' <=> t = "erase")
<1>1. pc'[p] = t /\ \A q \in Proc : q # p => pc'[q] = pc[q]
  BY Zenon DEF Control, TypeOK
<1>2. \A q \in Proc : pc[q] \in Phases => Committer(q)
  BY Zenon DEF Phases, Committer
<1>3. \A q \in Proc : q # p => pc[q] \notin Phases
  BY Zenon, <1>2 DEF Control, OpSet
<1> QED
  BY Zenon, <1>1, <1>3 DEF Phases, Writing, Heading, Installing, Erasing

\* Nobody enters or leaves a phase of commit().
LEMMA SamePhases ==
    ASSUME \A q \in Proc : pc'[q] = pc[q] \/ (pc[q] \notin Phases /\ pc'[q] \notin Phases)
    PROVE  SamePhase
  BY Zenon DEF SamePhase, Phases, Writing, Heading, Installing, Erasing

\* Nobody is in commit() during recovery, nor after a crash.
LEMMA NoPhase ==
    ASSUME Control
    PROVE  /\ Recovering => ~Writing /\ ~Heading /\ ~Installing /\ ~Erasing
           /\ (\A p \in Proc : pc'[p] = "idle") => ~Writing' /\ ~Heading' /\ ~Installing' /\ ~Erasing'
  BY Zenon DEF Control, Writing, Heading, Installing, Erasing

\* A step that moves nobody in or out of commit() and leaves the log alone.
LEMMA SameStored ==
    ASSUME Durable, UNCHANGED <<lh, head, disk, cache, dirty, cur, tail>>,
           sys' = sys \/ (sys = "up" /\ ~Recovering'), SamePhase
    PROVE  Durable' /\ (Copied => Copied')
<1>1. /\ sys' \in {"install", "erase"} => sys' = sys
      /\ sys' = "install" <=> sys = "install"
      /\ sys' = "erase" <=> sys = "erase"
      /\ sys' = "read_head" <=> sys = "read_head"
      /\ Recovering' <=> Recovering
  BY Zenon DEF Recovering
<1>3. Clean'
  BY Zenon DEF Durable, Clean, Coherent
<1>4. Pinned'
  BY Zenon, <1>1 DEF SamePhase, Durable, Pinned, Logged
<1>5. Header'
  BY Zenon, <1>1 DEF SamePhase, Durable, Header
<1>6. Loop'
  BY Zenon, <1>1 DEF SamePhase, Durable, Loop
<1>7. Copied => Copied'
  BY Zenon, <1>1 DEF SamePhase, Copied, View
<1> QED
  BY Zenon, <1>3, <1>4, <1>5, <1>6, <1>7 DEF Durable

\* The steps of system calls outside commit().
LEMMA DurableCall ==
    ASSUME Control, Durable, NEW p \in Proc,
           begin_op(p) \/ log_write_check(p) \/ end_commit(p)
    PROVE  Durable' /\ (Copied => Copied')
<1>0. pc \in [Proc -> Pc]
  BY Zenon DEF Control, TypeOK
<1>1. \A q \in Proc : pc'[q] = pc[q] \/ (pc[q] \notin Phases /\ pc'[q] \notin Phases)
  BY Zenon, <1>0 DEF begin_op, log_write_check, end_commit, Wakeup, Phases
<1>2. UNCHANGED <<lh, head, disk, cache, dirty, cur, tail>>
  BY Zenon DEF begin_op, log_write_check, end_commit
<1>3. sys' = sys \/ (sys = "up" /\ ~Recovering')
  BY Zenon DEF begin_op, log_write_check, LogWriteChecks, end_commit, Recovering
<1> QED
  BY Zenon, <1>1, <1>2, <1>3, SamePhases, SameStored

\* end_op(): the last one enters commit() with its counter at zero.
LEMMA DurableEnd ==
    ASSUME Control, Durable, NEW p \in Proc, end_op(p)
    PROVE  Durable' /\ (Copied => Copied')
<1>0. pc \in [Proc -> Pc] /\ InOp(p) /\ sys = "up"
  BY Zenon DEF Control, TypeOK, end_op, InOp
<1>1. UNCHANGED <<lh, head, disk, cache, dirty, cur, tail, sys>>
  BY Zenon, <1>0 DEF end_op, Control, OpSet
<1>2. ~Writing /\ ~Heading /\ ~Installing /\ ~Erasing
  BY Zenon, <1>0, Alone
<1>3. CASE outstanding' = 0 /\ lh # << >>
  <2>1. pc' = [pc EXCEPT ![p] = "write_log"]
    BY Zenon, <1>0, <1>3 DEF end_op, Control, OpSet
  <2>2. Writing' /\ ~Heading' /\ ~Installing' /\ ~Erasing'
    BY Zenon, <2>1, <1>0, Moved
  <2>3. ~Recovering /\ ~Recovering'
    BY Zenon, <1>0, <1>1 DEF Recovering
  <2>4. tail = 0
    BY Zenon, <1>0, <1>2 DEF Durable, Loop
  <2> QED
    BY <1>0, <1>1, <1>2, <2>2, <2>3, <2>4
    DEF Durable, Clean, Coherent, Pinned, Logged, Header, Loop, Copied
<1>4. CASE ~(outstanding' = 0 /\ lh # << >>)
  <2>1. \A q \in Proc : pc'[q] = pc[q] \/ (pc[q] \notin Phases /\ pc'[q] \notin Phases)
    BY Zenon, <1>0, <1>4 DEF end_op, Control, OpSet, Wakeup, Phases
  <2> QED
    BY Zenon, <1>1, <2>1, SamePhases, SameStored
<1> QED
  BY Zenon, <1>3, <1>4

\* bread() and a modification, up to log_write().
LEMMA DurableModify ==
    ASSUME Control, Durable, NEW p \in Proc, NEW b \in Home, NEW v \in Val, modify(p, b, v)
    PROVE  Durable' /\ Copied'
<1>0. /\ pc \in [Proc -> Pc] /\ cur \in [Proc -> Home \cup {NoBlock}] /\ InOp(p) /\ sys = "up" /\ sys' = "up"
      /\ cache \in [DataBlock -> Val \cup {Absent}]
      /\ cur[p] = NoBlock
  BY Zenon DEF Control, TypeOK, modify, InOp
<1>1. ~Writing /\ ~Heading /\ ~Installing /\ ~Erasing
  BY Zenon, <1>0, Alone
<1>2. ~Writing' /\ ~Heading' /\ ~Installing' /\ ~Erasing'
  <2>1. \A q \in Proc : pc'[q] = pc[q] \/ (pc[q] \notin Phases /\ pc'[q] \notin Phases)
    BY Zenon, <1>0 DEF modify, Phases
  <2> QED
    BY Zenon, <1>1, <2>1, SamePhases DEF SamePhase
<1>3. ~Recovering /\ ~Recovering'
  BY Zenon, <1>0 DEF Recovering
<1>4. Clean'
  <2> SUFFICES ASSUME NEW d \in DataBlock, d \notin dirty', \A q \in Proc : cur'[q] # d
               PROVE  Coherent(d)'
    BY Zenon DEF Clean
  <2>1. d # b
    BY Zenon, <1>0 DEF modify
  <2>2. \A q \in Proc : cur[q] # d
    BY <1>0, LogConstants DEF modify, DataBlock, NoBlock
  <2>3. Coherent(d)
    BY Zenon, <2>2 DEF modify, Durable, Clean
  <2> QED
    BY Zenon, <1>0, <2>1, <2>3 DEF modify, Coherent
<1>5. Pinned' /\ Header' /\ Loop'
  BY Zenon, <1>0, <1>1, <1>2, <1>3 DEF modify, Durable, Pinned, Logged, Header, Loop
<1>6. Copied'
  BY Zenon, <1>0, <1>2 DEF Copied
<1> QED
  BY Zenon, <1>4, <1>5, <1>6 DEF Durable

\* log_write() pins the buffer it appends.
LEMMA DurableAppend ==
    ASSUME Control, Durable, NEW p \in Proc, log_write_append(p)
    PROVE  Durable' /\ Copied'
<1>0. /\ pc \in [Proc -> Pc] /\ cur \in [Proc -> Home \cup {NoBlock}] /\ InOp(p) /\ sys = "up" /\ sys' = "up"
      /\ lh \in Seq(Home) /\ cur[p] \in Home
  BY Zenon DEF Control, TypeOK, log_write_append, InOp
<1>1. ~Writing /\ ~Heading /\ ~Installing /\ ~Erasing
  BY Zenon, <1>0, Alone
<1>2. ~Writing' /\ ~Heading' /\ ~Installing' /\ ~Erasing'
  <2>1. \A q \in Proc : pc'[q] = pc[q] \/ (pc[q] \notin Phases /\ pc'[q] \notin Phases)
    BY Zenon, <1>0 DEF log_write_append, Phases
  <2> QED
    BY Zenon, <1>1, <2>1, SamePhases DEF SamePhase
<1>3. ~Recovering /\ ~Recovering'
  BY Zenon, <1>0 DEF Recovering
<1>4. Clean'
  BY Zenon, <1>0 DEF log_write_append, Durable, Clean, Coherent
<1>5. tail = 0 /\ tail' = 0 /\ head = << >> /\ head' = << >>
  BY Zenon, <1>0, <1>1, <1>3 DEF log_write_append, Durable, Header, Loop
<1>6. \A d \in dirty' : Logged(d)'
  <2> SUFFICES ASSUME NEW d \in dirty' PROVE \E i \in 1..Len(lh') : lh'[i] = d
    BY Zenon DEF Logged
  <2>1. CASE \E i \in 1..Len(lh) : lh[i] = cur[p]
    BY Zenon, <2>1 DEF log_write_append, Durable, Pinned, Logged
  <2>2. CASE ~\E i \in 1..Len(lh) : lh[i] = cur[p]
    <3>1. lh' = Append(lh, cur[p])
      BY Zenon, <2>2 DEF log_write_append
    <3>2. Len(lh') = Len(lh) + 1 /\ lh'[Len(lh) + 1] = cur[p] /\ \A i \in 1..Len(lh) : lh'[i] = lh[i]
      BY <3>1, <1>0
    <3>3. d = cur[p] \/ \E i \in 1..Len(lh) : lh[i] = d
      BY Zenon DEF log_write_append, Durable, Pinned, Logged
    <3> QED
      BY <3>2, <3>3, <1>0
  <2> QED
    BY Zenon, <2>1, <2>2
<1>7. Pinned' /\ Header' /\ Loop'
  BY <1>0, <1>2, <1>3, <1>5, <1>6 DEF Pinned, Header, Loop, log_write_append
<1>8. Copied'
  BY Zenon, <1>0, <1>2 DEF Copied
<1> QED
  BY Zenon, <1>4, <1>7, <1>8 DEF Durable

\* bwrite() of one block: it is clean, the others are as they were.
LEMMA Written ==
    ASSUME Control, Clean, NEW d \in DataBlock, NEW v \in Val, Bwrite(d, v), cur' = cur
    PROVE  /\ Clean'
           /\ disk'[d] = v /\ cache'[d] = v
           /\ \A e \in DataBlock : e # d => disk'[e] = disk[e] /\ cache'[e] = cache[e]
<1>1. disk \in [DataBlock -> Val] /\ cache \in [DataBlock -> Val \cup {Absent}]
  BY Zenon DEF Control, TypeOK
<1>2. /\ disk'[d] = v /\ cache'[d] = v /\ dirty' = dirty \ {d}
      /\ \A e \in DataBlock : e # d => disk'[e] = disk[e] /\ cache'[e] = cache[e]
  BY Zenon, <1>1 DEF Bwrite
<1> QED
  BY Zenon, <1>2 DEF Clean, Coherent

\* A block of the log's region is never B_DIRTY nor being modified.
LEMMA RegionClean ==
    ASSUME Control, Clean, NEW d \in DataBlock, d < NLOG
    PROVE  View(d) = disk[d]
<1>1. d \in Nat \ {0} /\ d \notin Home
  BY LogConstants DEF Home, DataBlock
<1>2. d \notin dirty /\ \A p \in Proc : cur[p] # d
  BY Zenon, <1>1 DEF Control, TypeOK, NoBlock
<1> QED
  BY Zenon, <1>2 DEF Clean, Coherent, View

\* A transaction has no more blocks than there are home locations.
Short == Len(lh) <= NHOME

\* The blocks of a transaction, in the log and at home.
LEMMA Places ==
    ASSUME Control, Short, NEW i \in 1..Len(lh)
    PROVE  /\ i \in DataBlock /\ lh[i] \in DataBlock /\ lh[i] \in Home
           /\ LogInRegion => i < NLOG /\ \A j \in 1..Len(lh) : lh[j] # i
<1>1. lh \in Seq(Home) /\ NoDup(lh)
  BY Zenon DEF Control, TypeOK
<1>2. Len(lh) <= NHOME /\ Len(lh) \in Nat
  BY <1>1 DEF Short
<1>3. i \in DataBlock /\ lh[i] \in Home
  BY <1>1, <1>2, LogConstants DEF DataBlock
<1>4. ASSUME LogInRegion PROVE i < NLOG /\ \A j \in 1..Len(lh) : lh[j] # i
  BY <1>1, <1>2, <1>4, LogConstants DEF LogInRegion, Home
<1> QED
  BY Zenon, <1>3, <1>4, HomeData

\* One iteration of install_trans().
LEMMA Installed ==
    ASSUME Control, Short, Durable, InstallOne, cur' = cur, lh' = lh
    PROVE  /\ tail + 1 \in 1..Len(lh) /\ tail' = tail + 1 /\ Clean'
           /\ dirty' = dirty \ {lh[tail + 1]}
           /\ LogInRegion =>
                /\ disk'[lh[tail + 1]] = disk[tail + 1] /\ cache'[lh[tail + 1]] = disk[tail + 1]
                /\ \A i \in DataBlock : i # lh[tail + 1] => disk'[i] = disk[i] /\ cache'[i] = cache[i]
<1>1. tail \in Nat /\ Len(lh) \in Nat /\ tail < Len(lh)
  BY DEF Control, TypeOK, InstallOne
<1>2. tail + 1 \in 1..Len(lh)
  BY <1>1
<1>3. tail + 1 \in DataBlock /\ lh[tail + 1] \in DataBlock /\ (LogInRegion => tail + 1 < NLOG)
  BY Zenon, <1>2, Places
<1>4. View(tail + 1) \in Val
  BY Zenon, <1>3, ViewType DEF Control
<1>5. Bwrite(lh[tail + 1], View(tail + 1)) /\ tail' = tail + 1
  BY Zenon DEF InstallOne
<1>6. LogInRegion => View(tail + 1) = disk[tail + 1]
  BY Zenon, <1>3, RegionClean DEF Durable
<1>7. /\ Clean'
      /\ disk'[lh[tail + 1]] = View(tail + 1) /\ cache'[lh[tail + 1]] = View(tail + 1)
      /\ \A e \in DataBlock : e # lh[tail + 1] => disk'[e] = disk[e] /\ cache'[e] = cache[e]
  BY Zenon, <1>3, <1>4, <1>5, Written DEF Durable
<1>8. dirty' = dirty \ {lh[tail + 1]}
  BY Zenon, <1>5 DEF Bwrite
<1> QED
  BY Zenon, <1>2, <1>5, <1>6, <1>7, <1>8

\* write_log(): the log blocks fill up, the home blocks stay as they are.
LEMMA DurableWriteLog ==
    ASSUME Control, Short, Durable, NEW p \in Proc, write_log(p)
    PROVE  Durable' /\ (Copied /\ LogInRegion => Copied')
<1>0. /\ Committer(p) /\ pc[p] = "write_log" /\ sys = "up" /\ sys' = "up"
      /\ UNCHANGED <<lh, head, cur>> /\ tail \in Nat /\ Len(lh) \in Nat
  BY DEF Control, TypeOK, write_log, Committer
<1>1. Writing /\ ~Heading /\ ~Installing /\ ~Erasing
  BY Zenon, <1>0, Alone
<1>2. ~Recovering /\ ~Recovering'
  BY Zenon, <1>0 DEF Recovering
<1>3. CASE tail < Len(lh)
  <2>1. Bwrite(tail + 1, View(lh[tail + 1])) /\ tail' = tail + 1 /\ pc' = pc
    BY <1>0, <1>3 DEF write_log
  <2>2. Writing' /\ ~Heading' /\ ~Installing' /\ ~Erasing'
    BY Zenon, <1>1, <2>1 DEF Writing, Heading, Installing, Erasing
  <2>3. tail + 1 \in 1..Len(lh)
    BY <1>0, <1>3
  <2>4. tail + 1 \in DataBlock /\ lh[tail + 1] \in DataBlock
    BY Zenon, <2>3, Places
  <2>5. View(lh[tail + 1]) \in Val
    BY Zenon, <2>4, ViewType DEF Control
  <2>6. /\ Clean' /\ disk'[tail + 1] = View(lh[tail + 1])
        /\ \A e \in DataBlock : e # tail + 1 => disk'[e] = disk[e] /\ cache'[e] = cache[e]
    BY Zenon, <1>0, <2>1, <2>4, <2>5, Written DEF Durable
  <2>7. dirty' \subseteq dirty
    BY Zenon, <2>1 DEF Bwrite
  <2>8. Pinned'
    BY Zenon, <1>0, <1>2, <2>2, <2>7 DEF Pinned, Durable, Logged
  <2>9. Header' /\ Loop'
    BY <1>0, <1>1, <1>2, <2>1, <2>2, <2>3 DEF Header, Loop, Durable
  <2>10. ASSUME Copied, LogInRegion PROVE Copied'
    <3>1. ASSUME NEW i \in 1..tail' PROVE disk'[i] = View(lh[i])'
      <4>1. i \in 1..Len(lh)
        BY <2>1, <2>3, <1>0
      <4>2. i \in DataBlock /\ lh[i] \in DataBlock /\ lh[i] # tail + 1
        BY Zenon, <2>3, <2>10, <4>1, Places
      <4>3. View(lh[i])' = View(lh[i])
        BY Zenon, <1>0, <2>6, <4>2 DEF View
      <4>4. i # tail + 1 => disk[i] = View(lh[i]) /\ disk'[i] = disk[i]
        BY <1>0, <1>1, <2>1, <2>6, <2>10, <4>2 DEF Copied
      <4> QED
        BY Zenon, <2>6, <4>3, <4>4
    <3> QED
      BY Zenon, <1>0, <2>2, <3>1 DEF Copied
  <2> QED
    BY Zenon, <2>6, <2>8, <2>9, <2>10 DEF Durable
<1>4. CASE ~(tail < Len(lh))
  <2>1. tail = Len(lh) /\ tail' = 0 /\ UNCHANGED <<cache, disk, dirty>>
        /\ pc' = [pc EXCEPT ![p] = "write_head"]
    BY Zenon, <1>4 DEF write_log
  <2>2. ~Writing' /\ Heading' /\ ~Installing' /\ ~Erasing'
    BY Zenon, <1>0, <2>1, Moved
  <2>3. Clean' /\ Pinned'
    BY Zenon, <1>0, <1>2, <2>1, <2>2 DEF Durable, Clean, Coherent, Pinned, Logged
  <2>4. Header' /\ Loop'
    BY <1>0, <1>1, <1>2, <2>1, <2>2 DEF Durable, Header, Loop
  <2>5. Copied => Copied'
    BY Zenon, <1>0, <1>1, <2>1, <2>2 DEF Copied, View
  <2> QED
    BY Zenon, <2>3, <2>4, <2>5 DEF Durable
<1> QED
  BY Zenon, <1>3, <1>4

\* write_head() and the erasure.
LEMMA DurableHead ==
    ASSUME Control, Durable, NEW p \in Proc, write_head(p) \/ erase(p)
    PROVE  Durable' /\ (Copied => Copied')
<1>0. /\ Committer(p) /\ sys = "up" /\ sys' = "up"
      /\ UNCHANGED <<disk, cache, dirty, cur, tail>> /\ tail \in Nat
  BY Zenon DEF Control, TypeOK, write_head, erase, Committer
<1>2. ~Recovering /\ ~Recovering'
  BY Zenon, <1>0 DEF Recovering
<1>3. Clean'
  BY Zenon, <1>0 DEF Durable, Clean, Coherent
<1>4. CASE write_head(p)
  <2>1. pc[p] = "write_head" /\ lh' = lh /\ head' = lh /\ pc' = [pc EXCEPT ![p] = "install"]
    BY Zenon, <1>4 DEF write_head
  <2>2. ~Writing /\ Heading /\ ~Installing /\ ~Erasing
    BY Zenon, <1>0, <2>1, Alone
  <2>3. ~Writing' /\ ~Heading' /\ Installing' /\ ~Erasing'
    BY Zenon, <1>0, <2>1, Moved
  <2>4. tail = 0
    BY Zenon, <1>0, <2>2 DEF Durable, Loop
  <2>5. Pinned' /\ Header' /\ Loop'
    BY <1>0, <1>2, <2>1, <2>3, <2>4 DEF Durable, Pinned, Logged, Header, Loop
  <2>6. Copied => Copied'
    BY <1>0, <2>1, <2>2, <2>3, <2>4 DEF Copied, View
  <2> QED
    BY Zenon, <1>3, <2>5, <2>6 DEF Durable
<1>5. CASE erase(p)
  <2>1. pc[p] = "erase" /\ lh' = << >> /\ head' = << >> /\ pc' = [pc EXCEPT ![p] = "end_commit"]
    BY Zenon, <1>5 DEF erase
  <2>2. ~Writing /\ ~Heading /\ ~Installing /\ Erasing
    BY Zenon, <1>0, <2>1, Alone
  <2>3. ~Writing' /\ ~Heading' /\ ~Installing' /\ ~Erasing'
    <3>1. "end_commit" # "write_log" /\ "end_commit" # "write_head" /\ "end_commit" # "install" /\ "end_commit" # "erase"
      BY Zenon
    <3> QED
      BY <1>0, <2>1, <3>1, Moved, Zenon
  <2>4. tail = 0 /\ dirty = {}
    BY Zenon, <1>0, <2>2 DEF Durable, Loop, Pinned
  <2>5. Pinned' /\ Header' /\ Loop' /\ Copied'
    BY <1>0, <1>2, <2>1, <2>3, <2>4 DEF Pinned, Logged, Header, Loop, Copied
  <2> QED
    BY Zenon, <1>3, <2>5 DEF Durable
<1> QED
  BY Zenon, <1>4, <1>5

\* The transaction with one more block installed.
LEMMA CopiedOneMore ==
    ASSUME Control, Short, Durable, InstallOne, cur' = cur, lh' = lh, LogInRegion,
           \A i \in 1..tail : disk[lh[i]] = disk[i]
    PROVE  /\ \A i \in 1..tail' : disk'[lh'[i]] = disk'[i]
           /\ (\A i \in 1..Len(lh) : disk[i] = View(lh[i])) =>
                \A i \in 1..Len(lh') : disk'[i] = View(lh[i])'
<1>1. /\ tail + 1 \in 1..Len(lh) /\ tail' = tail + 1
      /\ disk'[lh[tail + 1]] = disk[tail + 1] /\ cache'[lh[tail + 1]] = disk[tail + 1]
      /\ \A i \in DataBlock : i # lh[tail + 1] => disk'[i] = disk[i] /\ cache'[i] = cache[i]
  BY Zenon, Installed
<1>2. tail \in Nat /\ Len(lh) \in Nat
  BY DEF Control, TypeOK
<1>3. \A i \in 1..Len(lh) : i \in DataBlock /\ lh[i] \in DataBlock /\ \A j \in 1..Len(lh) : lh[j] # i
  BY Zenon, Places
<1>4. \A i \in 1..Len(lh) : i # tail + 1 => lh[i] # lh[tail + 1]
  BY Zenon, <1>1 DEF Control, NoDup
<1>5. ASSUME NEW i \in 1..Len(lh)
      PROVE  /\ disk'[i] = disk[i]
             /\ i # tail + 1 => disk'[lh[i]] = disk[lh[i]] /\ cache'[lh[i]] = cache[lh[i]]
  BY Zenon, <1>1, <1>3, <1>4
<1>6. ASSUME NEW i \in 1..tail' PROVE disk'[lh'[i]] = disk'[i]
  <2>1. i \in 1..Len(lh) /\ (i # tail + 1 => i \in 1..tail)
    BY <1>1, <1>2
  <2> QED
    BY <1>1, <1>5, <2>1
<1>7. ASSUME \A i \in 1..Len(lh) : disk[i] = View(lh[i]), NEW i \in 1..Len(lh')
      PROVE  disk'[i] = View(lh[i])'
  <2>1. CASE i = tail + 1
    BY Zenon, <1>1, <1>5, <2>1 DEF View
  <2>2. CASE i # tail + 1
    BY Zenon, <1>5, <1>7, <2>2 DEF View
  <2> QED
    BY Zenon, <2>1, <2>2
<1> QED
  BY Zenon, <1>6, <1>7

\* install_trans(), called by commit().
LEMMA DurableInstall ==
    ASSUME Control, Short, Durable, NEW p \in Proc, install_trans(p)
    PROVE  Durable' /\ (Copied /\ LogInRegion => Copied')
<1>0. /\ Committer(p) /\ pc[p] = "install" /\ sys = "up" /\ sys' = "up"
      /\ UNCHANGED <<lh, head, cur>> /\ tail \in Nat /\ Len(lh) \in Nat
  BY DEF Control, TypeOK, install_trans, Committer
<1>1. ~Writing /\ ~Heading /\ Installing /\ ~Erasing
  BY Zenon, <1>0, Alone
<1>2. ~Recovering /\ ~Recovering'
  BY Zenon, <1>0 DEF Recovering
<1>3. CASE InstallOne /\ UNCHANGED pc
  <2>1. /\ tail + 1 \in 1..Len(lh) /\ tail' = tail + 1 /\ Clean'
        /\ dirty' = dirty \ {lh[tail + 1]}
    BY Zenon, <1>0, <1>3, Installed
  <2>2. ~Writing' /\ ~Heading' /\ Installing' /\ ~Erasing'
    BY Zenon, <1>1, <1>3 DEF Writing, Heading, Installing, Erasing
  <2>3. \A i \in 1..tail' : lh'[i] \notin dirty'
    BY <1>0, <1>1, <2>1 DEF Durable, Pinned
  <2>4. Pinned'
    BY Zenon, <1>0, <1>2, <2>1, <2>2, <2>3 DEF Durable, Pinned, Logged
  <2>5. Header' /\ Loop'
    BY <1>0, <1>1, <1>2, <2>1, <2>2 DEF Durable, Header, Loop
  <2>6. ASSUME Copied, LogInRegion PROVE Copied'
    <3>1. /\ \A i \in 1..tail' : disk'[lh'[i]] = disk'[i]
          /\ \A i \in 1..Len(lh') : disk'[i] = View(lh[i])'
      BY Zenon, <1>0, <1>1, <1>3, <2>6, CopiedOneMore DEF Copied
    <3> QED
      BY Zenon, <1>0, <2>2, <3>1 DEF Copied
  <2> QED
    BY Zenon, <2>1, <2>4, <2>5, <2>6 DEF Durable
<1>4. CASE ~(InstallOne /\ UNCHANGED pc)
  <2>1. tail = Len(lh) /\ tail' = 0 /\ UNCHANGED <<cache, disk, dirty>>
        /\ pc' = [pc EXCEPT ![p] = "erase"]
    BY Zenon, <1>4 DEF install_trans
  <2>2. ~Writing' /\ ~Heading' /\ ~Installing' /\ Erasing'
    BY Zenon, <1>0, <2>1, Moved
  <2>3. dirty = {}
    BY Zenon, <1>0, <1>1, <2>1 DEF Durable, Pinned, Logged
  <2>4. Clean' /\ Pinned'
    BY Zenon, <1>0, <1>2, <2>1, <2>2, <2>3 DEF Durable, Clean, Coherent, Pinned, Logged
  <2>5. Header' /\ Loop'
    BY <1>0, <1>1, <1>2, <2>1, <2>2 DEF Durable, Header, Loop
  <2>6. Copied => Copied'
    BY Zenon, <1>0, <1>1, <2>1, <2>2 DEF Copied, View
  <2> QED
    BY Zenon, <2>4, <2>5, <2>6 DEF Durable
<1> QED
  BY Zenon, <1>3, <1>4

\* install_trans(), called by recover_from_log().
LEMMA DurableRecoverInstall ==
    ASSUME Control, Short, Durable, recover_install
    PROVE  Durable' /\ (Copied /\ LogInRegion => Copied')
<1>0. /\ sys = "install" /\ UNCHANGED <<lh, head, cur, pc>> /\ tail \in Nat /\ Len(lh) \in Nat
      /\ Recovering
  BY DEF Control, TypeOK, recover_install, Recovering
<1>1. ~Writing /\ ~Heading /\ ~Installing /\ ~Erasing
  BY Zenon, <1>0, NoPhase
<1>2. ~Writing' /\ ~Heading' /\ ~Installing' /\ ~Erasing'
  BY Zenon, <1>0, <1>1 DEF Writing, Heading, Installing, Erasing
<1>3. dirty = {} /\ head = lh
  BY Zenon, <1>0 DEF Durable, Pinned, Header
<1>4. CASE InstallOne /\ UNCHANGED sys
  <2>1. /\ tail + 1 \in 1..Len(lh) /\ tail' = tail + 1 /\ Clean'
        /\ dirty' = dirty \ {lh[tail + 1]}
    BY Zenon, <1>0, <1>4, Installed
  <2>2. dirty' = {}
    BY Zenon, <1>3, <2>1
  <2>3. Pinned' /\ Header' /\ Loop'
    BY <1>0, <1>2, <1>3, <1>4, <2>1, <2>2 DEF Pinned, Header, Loop, Recovering
  <2>4. ASSUME Copied, LogInRegion PROVE Copied'
    <3>1. \A i \in 1..tail' : disk'[lh'[i]] = disk'[i]
      BY Zenon, <1>0, <1>4, <2>4, CopiedOneMore DEF Copied
    <3> QED
      BY Zenon, <1>0, <1>2, <1>4, <3>1 DEF Copied
  <2> QED
    BY Zenon, <2>1, <2>3, <2>4 DEF Durable
<1>5. CASE ~(InstallOne /\ UNCHANGED sys)
  <2>1. tail = Len(lh) /\ tail' = 0 /\ sys' = "erase" /\ UNCHANGED <<cache, disk, dirty>>
    BY Zenon, <1>5 DEF recover_install
  <2>2. Clean' /\ Pinned' /\ Header' /\ Loop'
    BY <1>0, <1>2, <1>3, <2>1 DEF Durable, Clean, Coherent, Pinned, Header, Loop, Recovering
  <2>3. Copied => Copied'
    BY Zenon, <1>0, <1>2, <2>1 DEF Copied
  <2> QED
    BY Zenon, <2>2, <2>3 DEF Durable
<1> QED
  BY Zenon, <1>4, <1>5

\* Crashes, and the two ends of recovery.
LEMMA DurableCrash ==
    ASSUME Control, Durable, crash \/ recover_read_head \/ recover_erase
    PROVE  Durable' /\ Copied'
<1>1. \A p \in Proc : pc'[p] = "idle"
  BY Zenon DEF Control, Recovering, crash, recover_read_head, recover_erase
<1>2. ~Writing' /\ ~Heading' /\ ~Installing' /\ ~Erasing'
  BY Zenon, <1>1, NoPhase
<1>3. lh \in Seq(Home) /\ head \in Seq(Home) /\ Len(head) \in Nat
  BY DEF Control, TypeOK
<1>4. CASE crash
  <2>1. /\ lh' = << >> /\ cache' = [b \in DataBlock |-> Absent] /\ dirty' = {} /\ tail' = 0
        /\ sys' = "read_head"
    BY Zenon, <1>4 DEF crash
  <2>2. Clean' /\ Copied'
    BY Zenon, <1>2, <2>1 DEF Clean, Coherent, Copied
  <2>3. Pinned' /\ Header' /\ Loop'
    BY <1>2, <2>1 DEF Pinned, Header, Loop, Recovering
  <2> QED
    BY Zenon, <2>2, <2>3 DEF Durable
<1>5. CASE recover_read_head
  <2>1. lh' = head /\ sys = "read_head" /\ sys' = "install" /\ UNCHANGED <<head, disk, cache, dirty, cur, tail>>
    BY Zenon, <1>5 DEF recover_read_head
  <2>2. ~Writing /\ ~Installing /\ Recovering
    BY Zenon, <2>1, NoPhase DEF Recovering
  <2>3. tail = 0 /\ dirty = {}
    BY Zenon, <2>1, <2>2 DEF Durable, Loop, Pinned
  <2>4. Clean' /\ Copied'
    BY <1>2, <2>1, <2>3 DEF Durable, Clean, Coherent, Copied
  <2>5. Pinned' /\ Header' /\ Loop'
    BY <1>2, <1>3, <2>1, <2>3 DEF Pinned, Header, Loop, Recovering
  <2> QED
    BY Zenon, <2>4, <2>5 DEF Durable
<1>6. CASE recover_erase
  <2>1. lh' = << >> /\ head' = << >> /\ sys = "erase" /\ sys' = "up" /\ UNCHANGED <<disk, cache, dirty, cur, tail>>
    BY Zenon, <1>6 DEF recover_erase
  <2>2. ~Writing /\ ~Installing /\ Recovering
    BY Zenon, <2>1, NoPhase DEF Recovering
  <2>3. tail = 0 /\ dirty = {}
    BY Zenon, <2>1, <2>2 DEF Durable, Loop, Pinned
  <2>4. Clean' /\ Copied'
    BY Zenon, <1>2, <2>1, <2>3 DEF Durable, Clean, Coherent, Copied
  <2>5. Pinned' /\ Header' /\ Loop'
    BY <1>2, <2>1, <2>3 DEF Pinned, Header, Loop, Recovering
  <2> QED
    BY Zenon, <2>4, <2>5 DEF Durable
<1> QED
  BY Zenon, <1>4, <1>5, <1>6

\* bget() recycles clean buffers only.
LEMMA DurableEvict ==
    ASSUME Control, Short, Durable, NEW b \in DataBlock, evict(b)
    PROVE  Durable' /\ (Copied => Copied')
<1>1. cache \in [DataBlock -> Val \cup {Absent}] /\ Coherent(b) /\ cache[b] # Absent
  BY Zenon DEF Control, TypeOK, Durable, Clean, evict
<1>2. \A d \in DataBlock : Coherent(d) => Coherent(d)'
  BY Zenon, <1>1 DEF evict, Coherent
<1>3. \A d \in DataBlock : View(d)' = View(d)
  BY Zenon, <1>1 DEF evict, View, Coherent
<1>4. \A i \in 1..Len(lh) : lh[i] \in DataBlock
  BY Zenon, Places
<1>5. UNCHANGED <<lh, head, disk, dirty, cur, tail, sys, pc>>
  BY Zenon DEF evict
<1>6. SamePhase /\ (Recovering' <=> Recovering)
  BY Zenon, <1>5 DEF SamePhase, Writing, Heading, Installing, Erasing, Recovering
<1>7. Clean'
  <2> SUFFICES ASSUME NEW d \in DataBlock, d \notin dirty', \A p \in Proc : cur'[p] # d
               PROVE  Coherent(d)'
    BY Zenon DEF Clean
  <2>1. Coherent(d)
    BY Zenon, <1>5 DEF Durable, Clean
  <2> QED
    BY Zenon, <1>2, <2>1
<1>8. Pinned' /\ Header' /\ Loop'
  BY Zenon, <1>5, <1>6 DEF SamePhase, Durable, Pinned, Logged, Header, Loop
<1>9. \A i \in 1..Len(lh) : View(lh[i])' = View(lh[i])
  BY Zenon, <1>3, <1>4, <1>5 DEF View
<1>10. Copied => Copied'
  <2>1. tail <= Len(lh) /\ tail \in Nat /\ Len(lh) \in Nat
    BY DEF Control, TypeOK, Durable, Loop
  <2>2. \A i \in 1..tail : View(lh[i])' = View(lh[i])
    BY <1>9, <2>1
  <2> QED
    BY Zenon, <1>5, <1>6, <1>9, <2>2 DEF SamePhase, Copied
<1> QED
  BY Zenon, <1>7, <1>8, <1>10 DEF Durable

\* Every step keeps what the log stores, and what it has copied as long as the
\* transaction fits the log's region.
LEMMA DurableStep ==
    ASSUME Control, Short, Durable, [Next]_vars
    PROVE  Durable' /\ (Copied /\ LogInRegion => Copied')
<1>1. ASSUME NEW p \in Proc, commit(p) PROVE Durable' /\ (Copied /\ LogInRegion => Copied')
  BY Zenon, <1>1, DurableWriteLog, DurableHead, DurableInstall, DurableCall DEF commit
<1>2. ASSUME NEW p \in Proc, begin_op(p) \/ log_write_check(p) \/ log_write_append(p) \/ end_op(p)
      PROVE  Durable' /\ (Copied /\ LogInRegion => Copied')
  BY Zenon, <1>2, DurableCall, DurableAppend, DurableEnd
<1>3. ASSUME NEW p \in Proc, NEW b \in Home, NEW v \in Val, modify(p, b, v)
      PROVE  Durable' /\ Copied'
  BY Zenon, <1>3, DurableModify
<1>4. ASSUME NEW b \in DataBlock, evict(b) PROVE Durable' /\ (Copied => Copied')
  BY Zenon, <1>4, DurableEvict
<1>5. ASSUME Recover \/ crash PROVE Durable' /\ (Copied /\ LogInRegion => Copied')
  BY Zenon, <1>5, DurableCrash, DurableRecoverInstall DEF Recover
<1>6. ASSUME UNCHANGED vars PROVE Durable' /\ (Copied => Copied')
  <2>1. SamePhase /\ UNCHANGED <<lh, head, disk, cache, dirty, cur, tail, sys>>
    BY Zenon, <1>6 DEF vars, SamePhase, Writing, Heading, Installing, Erasing
  <2> QED
    BY Zenon, <2>1, SameStored
<1> QED
  BY Zenon, <1>1, <1>2, <1>3, <1>4, <1>5, <1>6 DEF Next

\* A freshly made disk satisfies both.
LEMMA InitDurable == Init => Durable /\ Copied
<1> SUFFICES ASSUME Init PROVE Durable /\ Copied
  BY Zenon
<1>1. ~Writing /\ ~Heading /\ ~Installing /\ ~Erasing
  BY Zenon DEF Init, Writing, Heading, Installing, Erasing
<1>2. Clean /\ Copied
  BY Zenon, <1>1 DEF Init, Clean, Coherent, Copied
<1>3. Pinned /\ Header /\ Loop
  BY <1>1 DEF Init, Pinned, Header, Loop, Recovering
<1> QED
  BY Zenon, <1>2, <1>3 DEF Durable

\* Recovered, as a function of the header and the blocks on disk.
Over(h, d) ==
    [b \in Home |-> IF \E i \in 1..Len(h) : h[i] = b
                     THEN d[CHOOSE i \in 1..Len(h) : h[i] = b]
                     ELSE d[b]]

\* Recovered before and after a step.
LEMMA RecoveredOver == Recovered = Over(head, disk) /\ Recovered' = Over(head', disk')
  BY Zenon DEF Recovered, Over

\* What Over holds at a home block: the logged copy, or the block itself.
LEMMA OverAt ==
    ASSUME NEW h, NoDup(h), NEW d, NEW b \in Home
    PROVE  /\ \A i \in 1..Len(h) : h[i] = b => Over(h, d)[b] = d[i]
           /\ (\A i \in 1..Len(h) : h[i] # b) => Over(h, d)[b] = d[b]
<1>1. ASSUME NEW i \in 1..Len(h), h[i] = b PROVE Over(h, d)[b] = d[i]
  <2> DEFINE k == CHOOSE j \in 1..Len(h) : h[j] = b
  <2>1. k \in 1..Len(h) /\ h[k] = b
    BY <1>1, Zenon
  <2>2. k = i
    BY <1>1, <2>1, Zenon DEF NoDup
  <2>3. Over(h, d)[b] = d[k]
    BY <1>1, Zenon DEF Over
  <2> QED
    BY <2>2, <2>3, Zenon
<1>2. ASSUME \A i \in 1..Len(h) : h[i] # b PROVE Over(h, d)[b] = d[b]
  BY <1>2, Zenon DEF Over
<1> QED
  BY Zenon, <1>1, <1>2

\* Two such functions are equal when they agree at every home block.
LEMMA OverEqual ==
    ASSUME NEW h, NEW d, NEW g, NEW e, \A b \in Home : Over(h, d)[b] = Over(g, e)[b]
    PROVE  Over(h, d) = Over(g, e)
<1>1. Over(h, d) = [b \in Home |-> Over(h, d)[b]] /\ Over(g, e) = [b \in Home |-> Over(g, e)[b]]
  BY Zenon DEF Over
<1> QED
  BY <1>1, Zenon

\* Only the log blocks in use and the home blocks outside the log count.
LEMMA OverSame ==
    ASSUME NEW h, NoDup(h), NEW d, NEW e,
           \A i \in 1..Len(h) : d[i] = e[i],
           \A b \in Home : (\A i \in 1..Len(h) : h[i] # b) => d[b] = e[b]
    PROVE  Over(h, d) = Over(h, e)
<1>1. ASSUME NEW b \in Home PROVE Over(h, d)[b] = Over(h, e)[b]
  BY OverAt
<1> QED
  BY <1>1, OverEqual

\* When every block of the log is installed, erasing it changes nothing.
LEMMA OverDone ==
    ASSUME NEW h, NoDup(h), NEW d, \A i \in 1..Len(h) : d[h[i]] = d[i]
    PROVE  \A b \in Home : Over(h, d)[b] = d[b]
  BY OverAt

\* An empty header leaves the home blocks as they are.
LEMMA OverEmpty ==
    ASSUME NEW d
    PROVE  \A b \in Home : Over(<< >>, d)[b] = d[b]
<1>1. NoDup(<< >>) /\ Len(<< >>) = 0
  BY DEF NoDup
<1>2. \A i \in 1..Len(<< >>) : FALSE
  BY <1>1
<1> SUFFICES ASSUME NEW b \in Home PROVE Over(<< >>, d)[b] = d[b]
  BY Zenon
<1> QED
  BY <1>1, <1>2, OverAt

\* Whoever reads between transactions reads what is durable.
LEMMA QuiescentRead ==
    ASSUME Control, Durable, ~Recovering \/ sys = "erase", lh = << >> \/ sys = "erase", OpSet = {}
    PROVE  \A b \in Home : View(b) = disk[b]
<1>1. dirty = {}
  BY DEF Durable, Pinned, Logged, Recovering
<1>2. \A p \in Proc : cur[p] = NoBlock
  BY Zenon DEF Control, OpSet, InOp
<1>3. \A b \in Home : b \in DataBlock /\ b # NoBlock
  BY HomeData, LogConstants DEF Home, NoBlock
<1> QED
  BY Zenon, <1>1, <1>2, <1>3 DEF Durable, Clean, Coherent, View

\* What a reader sees, as Tx is given it.
Shown == IF Recovering THEN Recovered ELSE Current

\* A step that changes nothing TxDisk can see.
LEMMA Stutter ==
    ASSUME Recovered' = Recovered, Shown' = Shown, OpSet' = OpSet
    PROVE  UNCHANGED Tx!vars
  BY Zenon DEF Shown, Tx!vars

\* Steps that touch neither the disk nor the cache.
LEMMA SameDisk ==
    ASSUME UNCHANGED <<head, disk, cache>>, Recovering' <=> Recovering
    PROVE  Recovered' = Recovered /\ Shown' = Shown
<1>1. Recovered' = Recovered
  BY Zenon DEF Recovered
<1>2. Current' = Current
  BY Zenon DEF Current, View
<1> QED
  BY Zenon, <1>1, <1>2 DEF Shown

\* begin_op(), log_write(), end_op() and the end of commit() change no contents.
LEMMA TxCall ==
    ASSUME Control, NEW p \in Proc,
           begin_op(p) \/ log_write_check(p) \/ log_write_append(p) \/ end_op(p) \/ end_commit(p)
    PROVE  [Tx!Next]_(Tx!vars)
<1>0. pc \in [Proc -> Pc]
  BY Zenon DEF Control, TypeOK
<1>1. Recovered' = Recovered /\ Shown' = Shown
  <2>1. UNCHANGED <<head, disk, cache>>
    BY Zenon DEF begin_op, log_write_check, log_write_append, end_op, end_commit
  <2>2. Recovering' <=> Recovering
    BY Zenon DEF begin_op, log_write_check, LogWriteChecks, log_write_append, end_op, end_commit, Recovering
  <2> QED
    BY Zenon, <2>1, <2>2, SameDisk
<1>2. \/ OpSet' = OpSet
      \/ p \notin OpSet /\ OpSet' = OpSet \cup {p}
      \/ p \in OpSet /\ OpSet' = OpSet \ {p}
  <2>1. CASE begin_op(p)
    BY Zenon, <1>0, <2>1 DEF begin_op, OpSet, InOp
  <2>2. CASE log_write_check(p) \/ log_write_append(p) \/ end_commit(p)
    BY Zenon, <1>0, <2>2 DEF log_write_check, log_write_append, end_commit, Wakeup, OpSet, InOp
  <2>3. CASE end_op(p)
    BY Zenon, <1>0, <2>3 DEF Control, end_op, Wakeup, OpSet, InOp
  <2> QED
    BY Zenon, <2>1, <2>2, <2>3
<1>3. CASE OpSet' = OpSet
  BY Zenon, <1>1, <1>3, Stutter
<1>4. CASE p \notin OpSet /\ OpSet' = OpSet \cup {p}
  BY Zenon, <1>1, <1>4 DEF Shown, Tx!Next, Tx!Begin
<1>5. CASE p \in OpSet /\ OpSet' = OpSet \ {p}
  BY Zenon, <1>1, <1>5 DEF Shown, Tx!Next, Tx!End
<1> QED
  BY Zenon, <1>2, <1>3, <1>4, <1>5

\* Changing a buffer inside a system call is a write of the abstract disk.
LEMMA TxModify ==
    ASSUME Control, NEW p \in Proc, NEW b \in Home, NEW v \in Val, modify(p, b, v)
    PROVE  Tx!Next
<1>0. /\ pc \in [Proc -> Pc] /\ cache \in [DataBlock -> Val \cup {Absent}]
      /\ b \in DataBlock /\ v # Absent
  BY Zenon, HomeData, LogConstants DEF Control, TypeOK
<1>1. Recovered' = Recovered
  BY Zenon DEF Recovered, modify
<1>2. OpSet' = OpSet /\ p \in OpSet
  BY Zenon, <1>0 DEF OpSet, InOp, modify
<1>3. Current' = [Current EXCEPT ![b] = v]
  BY Zenon, <1>0, HomeData DEF Current, View, modify
<1>4. ~Recovering /\ ~Recovering'
  BY Zenon DEF modify, Recovering
<1> QED
  BY Zenon, <1>1, <1>2, <1>3, <1>4 DEF Tx!Next, Tx!Write

\* Evicting a clean buffer changes nothing that a reader sees.
LEMMA TxEvict ==
    ASSUME Control, Durable, NEW b \in DataBlock, evict(b)
    PROVE  UNCHANGED Tx!vars
<1>1. cache \in [DataBlock -> Val \cup {Absent}] /\ Coherent(b) /\ cache[b] # Absent
  BY Zenon DEF Control, TypeOK, Durable, Clean, evict
<1>2. \A d \in Home : View(d)' = View(d)
  BY Zenon, <1>1, HomeData DEF evict, View, Coherent
<1>3. Current' = Current
  BY Zenon, <1>2 DEF Current
<1>4. Recovered' = Recovered /\ ~Recovering /\ ~Recovering' /\ OpSet' = OpSet
  BY Zenon DEF Recovered, evict, Recovering, OpSet, InOp
<1> QED
  BY Zenon, <1>3, <1>4, Stutter DEF Shown

\* A committer finds no system call in progress, before and after its step.
LEMMA CommitAlone ==
    ASSUME Control, NEW p \in Proc, commit(p)
    PROVE  /\ OpSet = {} /\ OpSet' = {} /\ ~Recovering /\ ~Recovering'
           /\ Committer(p)
<1>0. pc \in [Proc -> Pc]
  BY Zenon DEF Control, TypeOK
<1>1. Committer(p) /\ sys = "up" /\ sys' = "up"
  BY Zenon DEF commit, write_log, write_head, install_trans, erase, end_commit, Committer
<1>2. OpSet = {}
  BY Zenon, <1>1 DEF Control
<1>3. \A q \in Proc : InOp(q)' => InOp(q)
  BY Zenon, <1>0 DEF commit, write_log, write_head, install_trans, erase, end_commit, Wakeup, InOp
<1> QED
  BY Zenon, <1>1, <1>2, <1>3 DEF OpSet, Recovering

\* write_log() fills the log's region, which the empty header does not name.
LEMMA TxWriteLog ==
    ASSUME Control, Short, Durable, LogInRegion, NEW p \in Proc, write_log(p)
    PROVE  UNCHANGED Tx!vars
<1>1. OpSet' = OpSet /\ ~Recovering /\ ~Recovering' /\ Committer(p)
  BY Zenon, CommitAlone DEF commit
<1>2. pc[p] = "write_log" /\ head' = head /\ cur' = cur /\ tail \in Nat /\ Len(lh) \in Nat
  BY DEF write_log, Control, TypeOK
<1>3. head = << >>
  <2>1. ~Installing /\ ~Erasing
    BY Zenon, <1>1, <1>2, Alone
  <2> QED
    BY Zenon, <1>1, <2>1 DEF Durable, Header
<1>4. \A b \in Home : disk'[b] = disk[b] /\ cache'[b] = cache[b]
  <2>1. CASE tail < Len(lh)
    <3>1. tail + 1 \in 1..Len(lh) /\ Bwrite(tail + 1, View(lh[tail + 1]))
      BY <1>2, <2>1 DEF write_log
    <3>2. tail + 1 \in DataBlock /\ lh[tail + 1] \in DataBlock /\ tail + 1 < NLOG
      BY Zenon, <3>1, Places
    <3>3. View(lh[tail + 1]) \in Val
      BY Zenon, <3>2, ViewType DEF Control
    <3>4. \A e \in DataBlock : e # tail + 1 => disk'[e] = disk[e] /\ cache'[e] = cache[e]
      BY Zenon, <1>2, <3>1, <3>2, <3>3, Written DEF Durable
    <3>5. \A b \in Home : b \in DataBlock /\ b # tail + 1
      BY <1>2, <3>2, HomeData, LogConstants DEF Home
    <3> QED
      BY Zenon, <3>4, <3>5
  <2>2. CASE ~(tail < Len(lh))
    BY Zenon, <2>2 DEF write_log
  <2> QED
    BY Zenon, <2>1, <2>2
<1>5. Recovered' = Recovered
  <2>1. \A b \in Home : Over(head', disk')[b] = Over(head, disk)[b]
    BY Zenon, <1>2, <1>3, <1>4, OverEmpty
  <2> QED
    BY <2>1, RecoveredOver, OverEqual
<1>6. Current' = Current
  BY Zenon, <1>4 DEF Current, View
<1> QED
  BY Zenon, <1>1, <1>5, <1>6, Stutter DEF Shown

\* write_head() makes exactly what readers see durable: the commit.
LEMMA TxWriteHead ==
    ASSUME Control, Durable, Copied, NEW p \in Proc, write_head(p)
    PROVE  Tx!Next
<1>1. OpSet = {} /\ OpSet' = {} /\ ~Recovering /\ ~Recovering' /\ Committer(p)
  BY Zenon, CommitAlone DEF commit
<1>2. pc[p] = "write_head" /\ head' = lh /\ UNCHANGED <<lh, disk, cache>>
  BY Zenon DEF write_head
<1>3. \A i \in 1..Len(lh) : disk[i] = View(lh[i])
  BY Zenon, <1>1, <1>2, Alone DEF Copied
<1>4. ASSUME NEW b \in Home, \A i \in 1..Len(lh) : lh[i] # b PROVE disk[b] = View(b)
  <2>1. b \in DataBlock /\ b # NoBlock
    BY HomeData, LogConstants DEF Home, NoBlock
  <2>2. b \notin dirty
    BY Zenon, <1>4 DEF Durable, Pinned, Logged
  <2>3. \A q \in Proc : cur[q] = NoBlock
    BY Zenon, <1>1 DEF Control, OpSet, InOp
  <2> QED
    BY <2>1, <2>2, <2>3 DEF Durable, Clean, Coherent, View
<1>5. \A b \in Home : Recovered'[b] = View(b)
  <2>1. NoDup(lh)
    BY Zenon DEF Control
  <2>2. ASSUME NEW b \in Home PROVE Over(lh, disk)[b] = View(b)
    BY <1>3, <1>4, <2>1, OverAt
  <2> QED
    BY Zenon, <1>2, <2>2, RecoveredOver
<1>6. Recovered' = Current
  <2>1. Recovered' = [b \in Home |-> Recovered'[b]]
    BY Zenon DEF Recovered
  <2> QED
    BY Zenon, <1>5, <2>1 DEF Current
<1>7. Current' = Current
  BY Zenon, <1>2 DEF Current, View
<1> QED
  BY Zenon, <1>1, <1>6, <1>7 DEF Tx!Next, Tx!Commit

\* A block on its way home: recovery would put it there too.
LEMMA RecoveredInstall ==
    ASSUME Control, Short, Durable, LogInRegion, InstallOne, UNCHANGED <<cur, lh, head>>, head = lh
    PROVE  Recovered' = Recovered
<1>1. /\ tail + 1 \in 1..Len(lh)
      /\ \A i \in DataBlock : i # lh[tail + 1] => disk'[i] = disk[i]
  BY Zenon, Installed
<1>2. \A i \in 1..Len(lh) : i \in DataBlock /\ i # lh[tail + 1]
  BY Zenon, <1>1, Places
<1>3. \A i \in 1..Len(lh) : disk[i] = disk'[i]
  BY Zenon, <1>1, <1>2
<1>4. \A b \in Home : (\A i \in 1..Len(lh) : lh[i] # b) => disk[b] = disk'[b]
  BY Zenon, <1>1, HomeData
<1>5. NoDup(lh)
  BY Zenon DEF Control
<1>6. Over(lh, disk) = Over(lh, disk')
  BY Zenon, <1>3, <1>4, <1>5, OverSame
<1> QED
  BY Zenon, <1>6, RecoveredOver

\* install_trans() in commit() writes home what readers already see.
LEMMA TxInstall ==
    ASSUME Control, Short, Durable, Copied, LogInRegion, NEW p \in Proc, install_trans(p)
    PROVE  UNCHANGED Tx!vars
<1>1. OpSet' = OpSet /\ ~Recovering /\ ~Recovering' /\ Committer(p)
  BY Zenon, CommitAlone DEF commit
<1>2. pc[p] = "install" /\ UNCHANGED <<lh, head, cur>>
  BY Zenon DEF install_trans
<1>3. Installing
  BY Zenon, <1>2 DEF Installing
<1>4. CASE InstallOne
  <2>1. Recovered' = Recovered
    BY Zenon, <1>2, <1>3, <1>4, RecoveredInstall DEF Durable, Header
  <2>2. /\ tail + 1 \in 1..Len(lh) /\ disk'[lh[tail + 1]] = disk[tail + 1]
        /\ cache'[lh[tail + 1]] = disk[tail + 1]
        /\ \A i \in DataBlock : i # lh[tail + 1] => disk'[i] = disk[i] /\ cache'[i] = cache[i]
    BY Zenon, <1>2, <1>4, Installed
  <2>3. disk[tail + 1] = View(lh[tail + 1])
    BY Zenon, <1>3, <2>2 DEF Copied
  <2>4. \A b \in Home : View(b)' = View(b)
    BY Zenon, <2>2, <2>3, HomeData DEF View
  <2>5. Current' = Current
    BY Zenon, <2>4 DEF Current
  <2> QED
    BY Zenon, <1>1, <2>1, <2>5, Stutter DEF Shown
<1>5. CASE ~InstallOne
  <2>1. UNCHANGED <<head, cache, disk>>
    BY Zenon, <1>5 DEF install_trans
  <2> QED
    BY Zenon, <1>1, <2>1, SameDisk, Stutter
<1> QED
  BY Zenon, <1>4, <1>5

\* The erasure of an installed transaction.
LEMMA RecoveredErase ==
    ASSUME Control, head = lh, head' = << >>, disk' = disk, \A i \in 1..Len(lh) : disk[lh[i]] = disk[i]
    PROVE  Recovered' = Recovered /\ \A b \in Home : Recovered[b] = disk[b]
<1>1. NoDup(lh)
  BY Zenon DEF Control
<1>2. \A b \in Home : Over(lh, disk)[b] = disk[b]
  BY <1>1, OverDone
<1>3. \A b \in Home : Over(<< >>, disk)[b] = Over(lh, disk)[b]
  BY Zenon, <1>2, OverEmpty
<1>4. Over(<< >>, disk) = Over(lh, disk)
  BY <1>3, OverEqual
<1> QED
  BY Zenon, <1>2, <1>4, RecoveredOver

\* Erasing the header leaves the committed contents, which are at home by now.
LEMMA TxErase ==
    ASSUME Control, Durable, Copied, NEW p \in Proc, erase(p)
    PROVE  UNCHANGED Tx!vars
<1>1. OpSet' = OpSet /\ ~Recovering /\ ~Recovering'
  BY Zenon, CommitAlone DEF commit
<1>2. Erasing /\ head' = << >> /\ UNCHANGED <<disk, cache>>
  BY Zenon DEF erase, Erasing
<1>3. Recovered' = Recovered
  BY Zenon, <1>2, RecoveredErase DEF Durable, Header, Copied
<1>4. Current' = Current
  BY Zenon, <1>2 DEF Current, View
<1> QED
  BY Zenon, <1>1, <1>3, <1>4, Stutter DEF Shown

\* A crash undoes what is not durable; recovery changes nothing more, even when
\* it is cut short and starts again.
LEMMA TxRecover ==
    ASSUME Control, Short, Durable, Copied, LogInRegion, Recover \/ crash
    PROVE  [Tx!Next]_(Tx!vars)
<1>1. CASE crash
  <2>1. OpSet' = {} /\ Recovering' /\ UNCHANGED <<head, disk>>
    BY Zenon, <1>1 DEF crash, OpSet, InOp, Recovering
  <2>2. Recovered' = Recovered
    BY <2>1, RecoveredOver, Zenon
  <2> QED
    BY Zenon, <2>1, <2>2 DEF Tx!Next, Tx!Crash
<1>2. ASSUME Recover PROVE Recovering /\ OpSet' = OpSet /\ pc' = pc /\ cur' = cur
  BY Zenon, <1>2 DEF Recover, recover_read_head, recover_install, recover_erase, OpSet, InOp, Recovering
<1>3. CASE recover_read_head
  <2>1. Recovering' /\ UNCHANGED <<head, disk, cache>>
    BY Zenon, <1>3 DEF recover_read_head, Recovering
  <2> QED
    BY Zenon, <1>2, <1>3, <2>1, SameDisk, Stutter DEF Recover
<1>4. CASE recover_install
  <2>1. Recovering' /\ sys = "install" /\ UNCHANGED <<head, lh, cur>>
    BY Zenon, <1>4 DEF recover_install, Recovering
  <2>2. Recovered' = Recovered
    <3>1. CASE InstallOne
      BY Zenon, <2>1, <3>1, RecoveredInstall DEF Durable, Header
    <3>2. CASE ~InstallOne
      BY <1>4, <3>2, RecoveredOver, Zenon DEF recover_install
    <3> QED
      BY Zenon, <3>1, <3>2
  <2> QED
    BY Zenon, <1>2, <1>4, <2>1, <2>2, Stutter DEF Shown, Recover
<1>5. CASE recover_erase
  <2>1. sys = "erase" /\ sys' = "up" /\ head' = << >> /\ UNCHANGED <<disk, cache>>
    BY Zenon, <1>5 DEF recover_erase
  <2>2. Recovered' = Recovered /\ \A b \in Home : Recovered[b] = disk[b]
    BY Zenon, <2>1, RecoveredErase DEF Durable, Header, Copied
  <2>3. OpSet = {}
    BY Zenon, <1>2, <1>5 DEF Control, Recover, OpSet, InOp
  <2>4. \A b \in Home : View(b) = disk[b]
    BY Zenon, <2>1, <2>3, QuiescentRead
  <2>5. Current' = [b \in Home |-> Recovered[b]]
    BY Zenon, <2>1, <2>2, <2>4 DEF Current, View
  <2>6. Recovered = [b \in Home |-> Recovered[b]]
    BY Zenon DEF Recovered
  <2>7. ~Recovering'
    BY Zenon, <2>1 DEF Recovering
  <2> QED
    BY Zenon, <1>2, <1>5, <2>2, <2>5, <2>6, <2>7, Stutter DEF Shown, Recover
<1> QED
  BY Zenon, <1>1, <1>3, <1>4, <1>5 DEF Recover

\* Every step of the log, its crashes and its recovery maps to a step of TxDisk.
LEMMA TxStep ==
    ASSUME Control, Short, Durable, Copied, LogInRegion, [Next]_vars
    PROVE  [Tx!Next]_(Tx!vars)
<1>1. ASSUME NEW p \in Proc, commit(p) PROVE [Tx!Next]_(Tx!vars)
  BY Zenon, <1>1, TxWriteLog, TxWriteHead, TxInstall, TxErase, TxCall DEF commit
<1>2. ASSUME NEW p \in Proc, begin_op(p) \/ log_write_check(p) \/ log_write_append(p) \/ end_op(p)
      PROVE  [Tx!Next]_(Tx!vars)
  BY Zenon, <1>2, TxCall
<1>3. ASSUME NEW p \in Proc, NEW b \in Home, NEW v \in Val, modify(p, b, v) PROVE Tx!Next
  BY Zenon, <1>3, TxModify
<1>4. ASSUME NEW b \in DataBlock, evict(b) PROVE UNCHANGED Tx!vars
  BY Zenon, <1>4, TxEvict
<1>5. CASE UNCHANGED vars
  <2>1. UNCHANGED <<head, disk, cache>> /\ (Recovering' <=> Recovering) /\ OpSet' = OpSet
    BY Zenon, <1>5 DEF vars, Recovering, OpSet, InOp
  <2> QED
    BY Zenon, <2>1, SameDisk, Stutter
<1> QED
  BY Zenon, <1>1, <1>2, <1>3, <1>4, <1>5, TxRecover DEF Next

\* The first recovery starts from the initial contents.
LEMMA TxInitial == Init => Tx!Init
<1> SUFFICES ASSUME Init PROVE Tx!Init
  BY Zenon
<1>1. Recovering /\ OpSet = {} /\ head = << >> /\ disk = [b \in DataBlock |-> InitVal]
  BY Zenon DEF Init, Recovering, OpSet, InOp
<1>2. \A b \in Home : Recovered[b] = InitVal
  BY Zenon, <1>1, RecoveredOver, OverEmpty, HomeData
<1>3. Recovered = [b \in Home |-> Recovered[b]]
  BY Zenon DEF Recovered
<1>4. Recovered = [b \in Home |-> InitVal]
  BY Zenon, <1>2, <1>3
<1> QED
  BY Zenon, <1>1, <1>4 DEF Tx!Init
-----------------------------------------------------------------------------
(* The steps that neither enter nor leave a system call keep the types and the *)
(* control invariants.                                                         *)

\* log.outstanding counts a process inside a system call.
Counted == \A p \in Proc : InOp(p) => outstanding \in Nat /\ outstanding >= 1

\* A write of one block keeps the types of the cache and the disk.
LEMMA BwriteType ==
    ASSUME TypeOK, NEW b, NEW v \in Val, Bwrite(b, v)
    PROVE  /\ cache' \in [DataBlock -> Val \cup {Absent}]
           /\ disk' \in [DataBlock -> Val]
           /\ dirty' \subseteq Home
  BY Zenon DEF TypeOK, Bwrite

\* One iteration of install_trans() keeps the types.
LEMMA InstallType ==
    ASSUME TypeOK, Short, InstallOne
    PROVE  /\ cache' \in [DataBlock -> Val \cup {Absent}]
           /\ disk' \in [DataBlock -> Val]
           /\ dirty' \subseteq Home
           /\ tail' \in Nat
<1>1. tail + 1 \in DataBlock
  BY LogConstants DEF TypeOK, InstallOne, DataBlock, Short
<1> QED
  BY <1>1, ViewType, BwriteType DEF InstallOne, TypeOK

\* wakeup(&log) keeps every process at some place.
LEMMA WakeupType ==
    ASSUME NEW f \in [Proc -> Pc]
    PROVE  Wakeup(f) \in [Proc -> Pc]
<1>1. "begin" \in Pc
  BY Zenon DEF Pc
<1> QED
  BY <1>1, Zenon DEF Wakeup

\* Every step keeps the types; only the log's loops need more than TypeOK.
LEMMA TypeStep ==
    ASSUME Control, Short, Counted, [Next]_vars
    PROVE  TypeOK'
<1> TypeOK
  BY Zenon DEF Control
<1> USE DEF TypeOK
<1>1. ASSUME NEW p \in Proc, begin_op(p) PROVE TypeOK'
  BY <1>1 DEF begin_op, Pc
<1>2. ASSUME NEW p \in Proc, log_write_check(p) PROVE TypeOK'
  BY Zenon, <1>2 DEF log_write_check, LogWriteChecks, Pc, Panics
<1>3. ASSUME NEW p \in Proc, log_write_append(p) PROVE TypeOK'
  <2>1. cur[p] \in Home
    BY Zenon, <1>3 DEF Control, log_write_append
  <2>2. lh' \in Seq(Home)
    BY <1>3, <2>1 DEF log_write_append
  <2> QED
    BY Zenon, <1>3, <2>1, <2>2 DEF log_write_append, Pc
<1>4. ASSUME NEW p \in Proc, end_op(p) PROVE TypeOK'
  <2>1. outstanding' \in Nat
    BY <1>4 DEF end_op, InOp, Counted
  <2>2. pc' \in [Proc -> Pc]
    BY <1>4, WakeupType, Zenon DEF end_op, Pc
  <2> QED
    BY Zenon, <1>4, <2>1, <2>2 DEF end_op, Panics
<1>5. ASSUME NEW p \in Proc, write_log(p) PROVE TypeOK'
  BY <1>5, ViewType, BwriteType, HomeData DEF write_log, Pc
<1>6. ASSUME NEW p \in Proc, write_head(p) PROVE TypeOK'
  BY Zenon, <1>6 DEF write_head, Pc
<1>7. ASSUME NEW p \in Proc, install_trans(p) PROVE TypeOK'
  BY <1>7, InstallType DEF install_trans, Pc
<1>8. ASSUME NEW p \in Proc, erase(p) PROVE TypeOK'
  BY <1>8 DEF erase, Pc
<1>9. ASSUME NEW p \in Proc, end_commit(p) PROVE TypeOK'
  BY <1>9, WakeupType, Zenon DEF end_commit, Pc
<1>10. ASSUME NEW p \in Proc, NEW b \in Home, NEW v \in Val, modify(p, b, v) PROVE TypeOK'
  BY <1>10, Zenon DEF modify, Pc
<1>11. ASSUME NEW b \in DataBlock, evict(b) PROVE TypeOK'
  BY Zenon, <1>11 DEF evict
<1>12. ASSUME recover_read_head PROVE TypeOK'
  BY Zenon, <1>12 DEF recover_read_head
<1>13. ASSUME recover_install PROVE TypeOK'
  BY <1>13, InstallType DEF recover_install
<1>14. ASSUME recover_erase PROVE TypeOK'
  BY <1>14 DEF recover_erase
<1>15. ASSUME crash PROVE TypeOK'
  <2>1. lh' \in Seq(Home)
    BY <1>15 DEF crash
  <2> QED
    BY <1>15, <2>1, Zenon DEF crash, Pc
<1>16. ASSUME UNCHANGED vars PROVE TypeOK'
  BY Zenon, <1>16 DEF vars
<1> QED
  BY <1>1, <1>2, <1>3, <1>4, <1>5, <1>6, <1>7, <1>8, <1>9, <1>10, <1>11,
     <1>12, <1>13, <1>14, <1>15, <1>16, Zenon DEF Next, commit, Recover

\* A step that keeps every process where it is, as far as the control
\* invariants can tell, keeps them.
SamePlaces ==
    /\ \A p \in Proc :
        /\ InOp(p)' = InOp(p) /\ Committer(p)' = Committer(p)
        /\ (pc'[p] = "asleep") = (pc[p] = "asleep")
        /\ (pc'[p] = "idle") = (pc[p] = "idle")
        /\ (pc'[p] = "end_commit" => lh' = << >>)
        /\ (cur'[p] # NoBlock <=> pc'[p] \in {"mod", "append"})
    /\ UNCHANGED <<outstanding, committing, sys>>

\* A step after which every process is at the same kind of place keeps Control.
LEMMA SameControl ==
    ASSUME Control, TypeOK', SamePlaces, NoDup(lh'), NoDup(head'),
           ~Recovering /\ outstanding = 0 /\ ~committing => lh' = lh
    PROVE  Control'
<1>1. OpSet' = OpSet
  BY Zenon DEF OpSet, SamePlaces
<1>2. NoDup(lh)' /\ NoDup(head)'
  BY Zenon DEF NoDup
<1> QED
  BY Zenon, <1>1, <1>2 DEF Control, Recovering, NoProtocolPanic, SamePlaces

\* Every other action keeps Control.
LEMMA ControlQuiet ==
    ASSUME Control, Counted, TypeOK', [Next]_vars
    PROVE  \/ Control'
           \/ \E p \in Proc : begin_op(p) \/ end_op(p)
           \/ crash
<1> TypeOK
  BY Zenon DEF Control
<1>0. /\ pc \in [Proc -> Pc] /\ cur \in [Proc -> Home \cup {NoBlock}]
      /\ outstanding \in Nat /\ committing \in BOOLEAN
      /\ lh \in Seq(Home) /\ head \in Seq(Home)
  BY Zenon DEF TypeOK
<1> USE <1>0
<1>2. ASSUME NEW p \in Proc, log_write_check(p) PROVE Control'
  <2>1. ~(outstanding < 1)
    BY <1>2 DEF Counted, log_write_check, InOp
  <2>2. OpSet' = OpSet
    BY Zenon, <1>2 DEF log_write_check, OpSet, InOp
  <2>3. NoDup(lh)' /\ NoDup(head)'
    BY <1>2 DEF Control, log_write_check, NoDup
  <2>4. sys' \in {"up", "too big a transaction"} /\ sys = "up"
    BY <1>2, <2>1, Zenon DEF log_write_check, LogWriteChecks
  <2>5. \A q \in Proc : /\ Committer(q)' = Committer(q)
                        /\ pc'[q] = "asleep" <=> pc[q] = "asleep"
                        /\ pc'[q] \in {"mod", "append"} <=> pc[q] \in {"mod", "append"}
    BY <1>2 DEF log_write_check, Committer
  <2> QED
    BY Zenon, <1>2, <2>2, <2>3, <2>4, <2>5 DEF Control, log_write_check, Recovering, NoProtocolPanic
<1>3. ASSUME NEW p \in Proc, log_write_append(p) PROVE Control'
  <2>1. cur[p] \in Home
    BY Zenon, <1>3 DEF Control, log_write_append
  <2>2. NoDup(lh')
    BY <1>3, <2>1 DEF log_write_append, NoDup, Control
  <2>3. outstanding >= 1
    BY <1>3, Zenon DEF Counted, log_write_append, InOp
  <2>4. NoDup(head')
    BY <1>3 DEF log_write_append, Control, NoDup
  <2>5. \A q \in Proc : cur'[q] # NoBlock <=> pc'[q] \in {"mod", "append"}
    BY Zenon, <1>3 DEF log_write_append, Control
  <2>6. \A q \in Proc : pc[q] # "end_commit" /\ pc'[q] # "end_commit"
    BY <1>3 DEF log_write_append, Control, Committer, InOp, OpSet
  <2> QED
    <3>1. SamePlaces
      BY <1>3, <2>5, <2>6 DEF log_write_append, InOp, Committer, SamePlaces
    <3> QED
      BY <2>2, <2>3, <2>4, <3>1, SameControl
<1>5. ASSUME NEW p \in Proc, write_log(p) PROVE Control'
  <2>1. SamePlaces
    BY <1>5 DEF Control, write_log, InOp, Committer, SamePlaces
  <2>2. NoDup(lh') /\ NoDup(head')
    BY <1>5 DEF Control, write_log, NoDup
  <2> QED
    BY <1>5, <2>1, <2>2, SameControl DEF Control, write_log, Committer
<1>6. ASSUME NEW p \in Proc, write_head(p) PROVE Control'
  <2>1. SamePlaces
    BY <1>6 DEF Control, write_head, InOp, Committer, SamePlaces
  <2>2. NoDup(lh') /\ NoDup(head')
    BY <1>6 DEF Control, write_head, NoDup
  <2> QED
    BY <1>6, <2>1, <2>2, SameControl DEF Control, write_head, Committer
<1>7. ASSUME NEW p \in Proc, install_trans(p) PROVE Control'
  <2>1. SamePlaces
    BY <1>7 DEF Control, install_trans, InOp, Committer, SamePlaces
  <2>2. NoDup(lh') /\ NoDup(head')
    BY <1>7 DEF Control, install_trans, NoDup
  <2> QED
    BY <1>7, <2>1, <2>2, SameControl DEF Control, install_trans, Committer
<1>8. ASSUME NEW p \in Proc, erase(p) PROVE Control'
  <2>1. SamePlaces
    BY <1>8 DEF Control, erase, InOp, Committer, SamePlaces
  <2>2. NoDup(lh') /\ NoDup(head')
    BY <1>8 DEF Control, erase, NoDup
  <2> QED
    BY <1>8, <2>1, <2>2, SameControl DEF Control, erase, Committer
<1>9. ASSUME NEW p \in Proc, end_commit(p) PROVE Control'
  <2>1. committing /\ OpSet = {}
    BY Zenon, <1>9 DEF Control, end_commit, Committer
  <2>2. OpSet' = OpSet
    BY Zenon, <1>9 DEF end_commit, OpSet, InOp, Wakeup
  <2>3. \A q \in Proc : ~Committer(q)' /\ pc'[q] # "asleep"
    BY <1>9 DEF Control, end_commit, Wakeup, Committer
  <2>4. NoDup(lh)' /\ NoDup(head)'
    BY <1>9 DEF Control, end_commit, NoDup
  <2>5. lh = << >>
    BY Zenon, <1>9 DEF Control, end_commit
  <2>6. \A q \in Proc : cur'[q] # NoBlock <=> pc'[q] \in {"mod", "append"}
    BY Zenon, <1>9 DEF Control, end_commit, Wakeup
  <2> QED
    BY <1>9, <2>1, <2>2, <2>3, <2>4, <2>5, <2>6, Zenon DEF Control, end_commit, Recovering, NoProtocolPanic
<1>10. ASSUME NEW p \in Proc, NEW b \in Home, NEW v \in Val, modify(p, b, v) PROVE Control'
  <2>1. b # NoBlock
    BY LogConstants DEF Home, NoBlock
  <2>2. SamePlaces
    BY <1>10, <2>1 DEF Control, modify, InOp, Committer, SamePlaces
  <2>3. NoDup(lh') /\ NoDup(head')
    BY <1>10 DEF Control, modify, NoDup
  <2> QED
    BY <1>10, <2>2, <2>3, SameControl DEF modify
<1>11. ASSUME NEW b \in DataBlock, evict(b) PROVE Control'
  <2>1. SamePlaces
    BY <1>11 DEF Control, evict, InOp, Committer, SamePlaces
  <2>2. NoDup(lh') /\ NoDup(head')
    BY <1>11 DEF Control, evict, NoDup
  <2> QED
    BY Zenon, <1>11, <2>1, <2>2, SameControl DEF Control, evict, Committer
<1>12. ASSUME recover_read_head PROVE Control'
  <2>1. OpSet' = OpSet
    BY Zenon, <1>12 DEF recover_read_head, OpSet, InOp
  <2> QED
    BY <1>12, <2>1 DEF Control, recover_read_head, Committer, Recovering, NoProtocolPanic, NoDup
<1>13. ASSUME recover_install PROVE Control'
  <2>1. OpSet' = OpSet
    BY Zenon, <1>13 DEF recover_install, OpSet, InOp
  <2>2. NoDup(lh)' /\ NoDup(head)'
    BY <1>13 DEF Control, recover_install, NoDup
  <2> QED
    BY <1>13, <2>1, <2>2 DEF Control, recover_install, Committer, Recovering, NoProtocolPanic
<1>14. ASSUME recover_erase PROVE Control'
  <2>1. OpSet' = OpSet
    BY Zenon, <1>14 DEF recover_erase, OpSet, InOp
  <2> QED
    BY <1>14, <2>1 DEF Control, recover_erase, Committer, Recovering, NoProtocolPanic, NoDup
<1>16. ASSUME UNCHANGED vars PROVE Control'
  <2>1. SamePlaces
    BY Zenon, <1>16 DEF vars, Control, InOp, Committer, SamePlaces
  <2>2. NoDup(lh') /\ NoDup(head')
    BY <1>16 DEF vars, Control, NoDup
  <2> QED
    BY Zenon, <1>16, <2>1, <2>2, SameControl DEF vars
<1> QED
  BY <1>2, <1>3, <1>5, <1>6, <1>7, <1>8, <1>9, <1>10, <1>11, <1>12, <1>13, <1>14, <1>16 DEF Next, commit, Recover
=============================================================================
