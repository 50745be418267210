----------------------------- MODULE LogProofs -----------------------------
(* What holds of the write-ahead log of log.c, for every number of processes,  *)
(* blocks and values and every log geometry: the system calls in progress are  *)
(* counted, commits run alone, and with the steps of LogSteps every crash is   *)
(* atomic.                                                                     *)
EXTENDS LogSteps, FiniteSetTheorems

\* A log without duplicates is no longer than the number of home blocks, so
\* that every log block written or read is a block of the disk.
LEMMA LogBound ==
    ASSUME NEW s \in Seq(Home), NoDup(s)
    PROVE  Len(s) <= NHOME
<1>1. IsFiniteSet(Home) /\ Cardinality(Home) = NHOME
  <2> DEFINE last == NLOG + NHOME - 1
  <2>1. NLOG \in Int /\ last \in Int /\ (IF NLOG > last THEN 0 ELSE last - NLOG + 1) = NHOME
    BY LogConstants
  <2>2. Home = NLOG .. last
    BY Zenon DEF Home
  <2> HIDE DEF last
  <2> QED
    BY <2>1, <2>2, FS_Interval, Zenon
<1>4. IsFiniteSet(1..Len(s)) /\ Cardinality(1..Len(s)) = Len(s)
  <2>1. 1 \in Int /\ Len(s) \in Int /\ (IF 1 > Len(s) THEN 0 ELSE Len(s) - 1 + 1) = Len(s)
    OBVIOUS
  <2> QED
    BY <2>1, FS_Interval, Zenon
<1>2. s \in Injection(1..Len(s), Home)
  BY DEF Injection, IsInjective, NoDup
<1>3. Cardinality(1..Len(s)) <= Cardinality(Home)
  BY Zenon, <1>1, <1>2, FS_Injection
<1> QED
  BY Zenon, <1>1, <1>3, <1>4

\* The system calls in progress can be counted.
LEMMA OpSetFinite == IsFiniteSet(OpSet) /\ Cardinality(OpSet) \in Nat
  BY LogConstants, FS_Subset, FS_CardinalityType DEF OpSet

\* A process inside a system call is counted by log.outstanding.
LEMMA InOpCounted ==
    ASSUME Control, NEW p \in Proc, InOp(p)
    PROVE  outstanding \in Nat /\ outstanding >= 1
<1>1. p \in OpSet
  BY Zenon DEF OpSet, InOp
<1> QED
  BY <1>1, OpSetFinite, FS_EmptySet DEF Control

\* A freshly made disk, recovered, with no system call running.
LEMMA InitControl == Init => Control
<1> SUFFICES ASSUME Init PROVE Control
  BY Zenon
<1>1. OpSet = {}
  BY Zenon DEF Init, OpSet, InOp
<1>2. outstanding = Cardinality(OpSet)
  BY Zenon, <1>1, FS_EmptySet DEF Init
<1>3. TypeOK
  <2>1. lh \in Seq(Home) /\ head \in Seq(Home)
    BY DEF Init
  <2>2. disk \in [DataBlock -> Val] /\ cache \in [DataBlock -> Val \cup {Absent}]
    BY Zenon, LogConstants DEF Init
  <2>3. cur \in [Proc -> Home \cup {NoBlock}] /\ wrote \in [Proc -> SUBSET Home]
    BY Zenon DEF Init
  <2>4. outstanding \in Nat /\ committing \in BOOLEAN /\ tail \in Nat /\ dirty \subseteq Home
    BY Zenon DEF Init
  <2>5. pc \in [Proc -> Pc]
    BY Zenon DEF Init, Pc
  <2> QED
    BY <2>1, <2>2, <2>3, <2>4, <2>5 DEF Init, TypeOK
<1> QED
  BY <1>1, <1>2, <1>3 DEF Init, Control, NoDup, Committer, Recovering, NoProtocolPanic, NoBlock

\* Every block of a transaction is another home block.
LEMMA ControlShort == Control => Short
  BY LogBound DEF Control, TypeOK, Short

\* Every action of the log and every crash keeps Control.
LEMMA ControlStep ==
    ASSUME Control, [Next]_vars
    PROVE  Control'
<1> TypeOK /\ TypeOK'
  BY InOpCounted, ControlShort, TypeStep, Zenon DEF Control, Counted
<1>0. /\ pc \in [Proc -> Pc] /\ cur \in [Proc -> Home \cup {NoBlock}]
      /\ outstanding \in Nat /\ committing \in BOOLEAN
      /\ lh \in Seq(Home) /\ head \in Seq(Home)
  BY Zenon DEF TypeOK
<1> USE <1>0
<1>1. ASSUME NEW p \in Proc, begin_op(p) PROVE Control'
  <2>1. CASE MustWait
    <3>1. committing \/ outstanding > 0
      BY <1>1, <2>1, LogConstants DEF Control, begin_op, MustWait, Recovering
    <3>2. OpSet' = OpSet
      BY Zenon, <1>1, <2>1 DEF begin_op, OpSet, InOp
    <3> QED
      BY <1>1, <2>1, <3>1, <3>2
      DEF Control, begin_op, Committer, Recovering, NoProtocolPanic, NoDup
  <2>2. CASE ~MustWait
    <3>1. OpSet' = OpSet \cup {p} /\ p \notin OpSet
      BY Zenon, <1>1, <2>2 DEF begin_op, OpSet, InOp
    <3>2. outstanding' = Cardinality(OpSet')
      BY <1>1, <2>2, <3>1, OpSetFinite, FS_AddElement, Zenon DEF begin_op, Control
    <3>3. ~committing /\ outstanding' > 0
      BY <1>1, <2>2 DEF begin_op, MustWait
    <3> QED
      BY <1>1, <2>2, <3>2, <3>3
      DEF Control, begin_op, Committer, Recovering, NoProtocolPanic, NoDup
  <2> QED
    BY Zenon, <2>1, <2>2
<1>2. ASSUME NEW p \in Proc, end_op(p) PROVE Control'
  <2>1. ~committing
    BY Zenon, <1>2 DEF Control, end_op, OpSet, InOp
  <2>2. \A q \in Proc : /\ InOp(q)' <=> InOp(q) /\ q # p
                        /\ Committer(q)' <=> (Committer(q) \/ (q = p /\ outstanding' = 0))
                        /\ cur'[q] # NoBlock <=> pc'[q] \in {"mod", "append"}
    BY <1>2, <2>1 DEF Control, end_op, Wakeup, InOp, Committer
  <2>3. OpSet' = OpSet \ {p} /\ p \in OpSet
    BY Zenon, <1>2, <2>2 DEF OpSet, end_op, InOp
  <2>4. outstanding' = Cardinality(OpSet')
    BY <1>2, <2>3, OpSetFinite, FS_RemoveElement, Zenon DEF end_op, Control
  <2>5. committing' = (outstanding' = 0)
    BY <1>2, <2>1, Zenon DEF end_op, Control
  <2>6. committing' => OpSet' = {}
    BY <2>4, <2>5, OpSetFinite, FS_EmptySet, FS_RemoveElement, <2>3, Zenon
  <2> QED
    BY <1>2, <2>1, <2>2, <2>4, <2>5, <2>6
    DEF Control, end_op, Wakeup, Recovering, NoProtocolPanic, NoDup
<1>3. ASSUME crash PROVE Control'
  <2>1. OpSet' = {}
    BY Zenon, <1>3 DEF crash, OpSet, InOp
  <2>2. outstanding' = Cardinality(OpSet')
    BY <1>3, <2>1, FS_EmptySet DEF crash
  <2>3. NoDup(lh)' /\ NoDup(head)'
    BY <1>3 DEF Control, crash, NoDup
  <2> QED
    BY <1>3, <2>1, <2>2, <2>3 DEF Control, crash, Committer, Recovering, NoProtocolPanic, NoBlock
<1> QED
  BY <1>1, <1>2, <1>3, InOpCounted, ControlQuiet, Zenon DEF Counted

\* Control holds from the first recovery on.
LEMMA ControlInvariant == Spec => []Control
<1>1. Init => Control
  BY Zenon, InitControl
<1>2. Control /\ [Next]_vars => Control'
  BY Zenon, ControlStep
<1> QED
  BY <1>1, <1>2, PTL DEF Spec

\* Every variable keeps its type.
THEOREM TypeCorrect == Spec => []TypeOK
<1>1. Control => TypeOK
  BY Zenon DEF Control
<1> QED
  BY <1>1, ControlInvariant, PTL

\* commit() runs alone, whatever the number of processes: no system call is
\* inside its transaction while it writes, and there is one committer.
THEOREM CommitIsExclusive == Spec => []CommitExclusive
<1>1. Control => CommitExclusive
  BY DEF Control, CommitExclusive, OpSet
<1> QED
  BY <1>1, ControlInvariant, PTL

\* A process asleep in begin_op() always has a committer or a system call in
\* progress left to wake it.
THEOREM WakeupNotLost == Spec => []NoLostWakeup
<1>1. Control => NoLostWakeup
  BY DEF Control, NoLostWakeup
<1> QED
  BY <1>1, ControlInvariant, PTL

\* log_write() is never called outside a transaction and end_op() never finds
\* a commit running.
THEOREM ProtocolPanicFree == Spec => []NoProtocolPanic
<1>1. Control => NoProtocolPanic
  BY Zenon DEF Control
<1> QED
  BY <1>1, ControlInvariant, PTL

\* The log's types, the exclusion of the committer and the absence of protocol
\* panics hold together, for any number of processes and blocks.
THEOREM LogIsConsistent == Spec => []LogConsistent
<1>1. TypeOK /\ CommitExclusive /\ NoProtocolPanic => LogConsistent
  BY Zenon DEF LogConsistent
<1> QED
  BY <1>1, TypeCorrect, CommitIsExclusive, ProtocolPanicFree, PTL

\* Durable holds from the first recovery on.
LEMMA DurableInvariant == Spec => []Durable
<1>1. Init => Durable
  BY Zenon, InitDurable
<1>2. Control /\ Durable /\ [Next]_vars => Durable'
  BY Zenon, DurableStep, ControlShort
<1> QED
  BY <1>1, <1>2, ControlInvariant, PTL DEF Spec


\* Durability: when the last system call of a group has returned from end_op()
\* and none is active, what readers see is what a crash would leave.
THEOREM QuiescentIsDurable == Spec => []QuiescentDurable
<1>1. Control /\ Durable => QuiescentDurable
  <2> SUFFICES ASSUME Control, Durable, sys = "up", outstanding = 0, ~committing PROVE Recovered = Current
    BY Zenon DEF QuiescentDurable
  <2>1. OpSet = {} /\ lh = << >> /\ ~Recovering
    BY OpSetFinite, FS_EmptySet, Zenon DEF Control, Recovering
  <2>2. \A p \in Proc : ~Committer(p)
    BY Zenon DEF Control
  <2>3. head = << >>
    BY Zenon, <2>1, <2>2 DEF Durable, Header, Installing, Erasing, Committer
  <2>4. \A b \in Home : Recovered[b] = View(b)
    BY <2>1, <2>3, RecoveredOver, OverEmpty, QuiescentRead
  <2>5. Recovered = [b \in Home |-> Recovered[b]]
    BY Zenon DEF Recovered
  <2> QED
    BY Zenon, <2>4, <2>5 DEF Current
<1> QED
  BY <1>1, ControlInvariant, DurableInvariant, PTL

\* Crash atomicity: as long as no transaction outgrows the log on disk, the
\* system calls of any number of processes, their commits, evictions, crashes
\* and recoveries implement the disk of atomic transactions of TxDisk.
THEOREM CrashIsAtomic == Spec /\ []LogInRegion => CrashAtomic
<1>1. Init => Durable /\ Copied /\ Tx!Init
  BY Zenon, InitDurable, TxInitial
<1>2. Control /\ Durable /\ Copied /\ LogInRegion /\ [Next]_vars => Copied'
  BY Zenon, DurableStep, ControlShort
<1>3. Control /\ Durable /\ Copied /\ LogInRegion /\ [Next]_vars => [Tx!Next]_(Tx!vars)
  BY Zenon, TxStep, ControlShort
<1> QED
  BY <1>1, <1>2, <1>3, ControlInvariant, DurableInvariant, PTL DEF Spec, CrashAtomic, Tx!Spec
=============================================================================
