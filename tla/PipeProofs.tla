----------------------------- MODULE PipeProofs -----------------------------
(***************************************************************************)
(* Proofs about Pipe, for any processes, any size of the ring and any      *)
(* modulus of its counters: the pipe's page is used only while the pipe    *)
(* exists, nobody sleeps in it in vain, and it implements PipeFifo.        *)
(***************************************************************************)
EXTENDS Pipe, SequenceTheorems, TLAPS

Places == {"user", "pipewrite", "piperead", "close_read", "close_write"}

(* Who is in the pipe holds the end it uses; an end that somebody holds is *)
(* open, and so is one that is being closed, by one process.               *)
Ends ==
    /\ wref # {} => writeopen
    /\ rref # {} => readopen
    /\ \A p \in Proc :
        /\ pc[p] = "pipewrite" => p \in wref
        /\ pc[p] = "piperead" => p \in rref
        /\ pc[p] = "close_write" => wref = {} /\ writeopen
        /\ pc[p] = "close_read" => rref = {} /\ readopen
        /\ asleep[p] = "nread" => pc[p] = "piperead"
        /\ asleep[p] = "nwrite" => pc[p] = "pipewrite"
    /\ \A p, q \in Proc : pc[p] = pc[q] /\ pc[p] \in {"close_write", "close_read"} => p = q

PipeIInv ==
    /\ TypeOK /\ buf \in [Proc -> Seq(Byte)]
    /\ freed <=> ~readopen /\ ~writeopen
    /\ Ends
    /\ NoLostWakeup

\* What the property says follows from the invariant: in a freed pipe there is
\* no end to hold, so nobody is in it.
LEMMA PipePromised ==
  ASSUME PipeIInv
  PROVE  PipeSafe
<1>1. ASSUME freed, NEW p \in Proc PROVE pc[p] = "user" /\ asleep[p] = "no"
  <2>1. ~readopen /\ ~writeopen /\ rref = {} /\ wref = {}
    BY Zenon, <1>1 DEF PipeIInv, Ends
  <2>2. pc[p] \in Places /\ asleep[p] \in {"no", "nread", "nwrite"}
    BY Zenon DEF PipeIInv, TypeOK, Places
  <2>3. pc[p] = "user"
    BY <2>1, <2>2, Zenon DEF PipeIInv, Ends, Places
  <2> QED
    BY Zenon, <2>2, <2>3 DEF PipeIInv, Ends
<1> QED
  BY Zenon, <1>1 DEF PipeIInv, PipeSafe, NoUseAfterFree

\* The counters modulo UINT measure how full the ring is, across their wrap.
LEMMA Filled ==
  ASSUME NEW a \in 0 .. UINT - 1, NEW b \in 0 .. UINT - 1, NEW n \in Nat,
         ((b - a) % UINT) + n <= PIPESIZE
  PROVE  /\ (b + n) % UINT \in 0 .. UINT - 1
         /\ (((b + n) % UINT) - a) % UINT = ((b - a) % UINT) + n
<1> USE PipeConstants
<1>1. UINT \in Nat \ {0} /\ PIPESIZE < UINT /\ n < UINT
  <2>1. (b - a) % UINT \in 0 .. UINT - 1
    OBVIOUS
  <2> QED
    BY <2>1
<1>2. CASE a <= b
  <2>1. (b - a) % UINT = b - a
    BY <1>2, <1>1
  <2>2. CASE b + n < UINT
    BY <1>1, <1>2, <2>1, <2>2
  <2>3. CASE b + n >= UINT
    <3>1. (b + n) % UINT = b + n - UINT
      BY <1>1, <2>3
    <3> QED
      BY <1>1, <1>2, <2>1, <2>3, <3>1
  <2> QED
    BY <1>1, <2>2, <2>3
<1>3. CASE a > b
  <2>1. (b - a) % UINT = b - a + UINT
    BY <1>3, <1>1
  <2>2. b + n < UINT
    BY <1>1, <1>3, <2>1
  <2> QED
    BY <1>1, <1>3, <2>1, <2>2
<1> QED
  BY <1>2, <1>3

\* Reading n of the bytes leaves the others.
LEMMA Drained ==
  ASSUME NEW a \in 0 .. UINT - 1, NEW b \in 0 .. UINT - 1, NEW n \in Nat,
         n <= (b - a) % UINT
  PROVE  /\ (a + n) % UINT \in 0 .. UINT - 1
         /\ (b - ((a + n) % UINT)) % UINT = ((b - a) % UINT) - n
<1> USE PipeConstants
<1>1. UINT \in Nat \ {0} /\ n < UINT
  <2>1. (b - a) % UINT \in 0 .. UINT - 1
    OBVIOUS
  <2> QED
    BY <2>1
<1>2. CASE a <= b
  <2>1. (b - a) % UINT = b - a
    BY <1>2, <1>1
  <2>2. a + n < UINT
    BY <1>1, <1>2, <2>1
  <2> QED
    BY <1>1, <1>2, <2>1, <2>2
<1>3. CASE a > b
  <2>1. (b - a) % UINT = b - a + UINT
    BY <1>3, <1>1
  <2>2. CASE a + n < UINT
    BY <1>1, <1>3, <2>1, <2>2
  <2>3. CASE a + n >= UINT
    <3>1. (a + n) % UINT = a + n - UINT
      BY <1>1, <2>3
    <3> QED
      BY <1>1, <1>3, <2>1, <2>3, <3>1
  <2> QED
    BY <1>1, <2>2, <2>3
<1> QED
  BY <1>2, <1>3

\* A new pipe: empty, with both ends open.
LEMMA PipeInitial == Init => PipeIInv
<1> SUFFICES ASSUME Init PROVE PipeIInv
  BY Zenon
<1>1. Used \in 0 .. PIPESIZE /\ 0 \in 0 .. UINT - 1
  BY PipeConstants DEF Init, Used
<1>2. TypeOK
  <2>1. data \in [Index -> Byte \cup {0}]
    BY Zenon DEF Init
  <2>2. rref \subseteq Proc /\ wref \subseteq Proc
    BY Zenon DEF Init, Proc
  <2> QED
    BY <1>1, <2>1, <2>2, Zenon DEF Init, TypeOK
<1>3. buf \in [Proc -> Seq(Byte)]
  BY DEF Init
<1>4. (freed <=> ~readopen /\ ~writeopen) /\ Ends
  BY Zenon DEF Init, Ends
<1>5. NoLostWakeup
  BY Zenon DEF Init, NoLostWakeup
<1> QED
  BY Zenon, <1>2, <1>3, <1>4, <1>5 DEF PipeIInv

\* write() and read() only go from the program to the kernel.
LEMMA CallStep ==
  ASSUME PipeIInv, NEW p \in Proc, sys_write(p) \/ sys_read(p)
  PROVE  PipeIInv'
<1>1. /\ data' = data /\ nread' = nread /\ nwrite' = nwrite /\ readopen' = readopen
      /\ writeopen' = writeopen /\ freed' = freed /\ rref' = rref /\ wref' = wref
      /\ asleep' = asleep /\ killed' = killed
  BY Zenon DEF sys_write, sys_read
<1>2. /\ pc[p] = "user" /\ asleep[p] = "no"
      /\ \/ p \in wref /\ pc' = [pc EXCEPT ![p] = "pipewrite"]
         \/ p \in rref /\ pc' = [pc EXCEPT ![p] = "piperead"]
  BY Zenon DEF sys_write, sys_read, At
<1>3. TypeOK'
  BY <1>1, <1>2, Zenon DEF PipeIInv, TypeOK, Used
<1>4. buf' \in [Proc -> Seq(Byte)]
  BY Zenon, PipeConstants DEF PipeIInv, sys_write, sys_read
<1>5. Ends'
  BY <1>1, <1>2 DEF PipeIInv, Ends, TypeOK
<1>6. (freed <=> ~readopen /\ ~writeopen)' /\ NoLostWakeup'
  BY Zenon, <1>1 DEF PipeIInv, NoLostWakeup, Used
<1> QED
  BY Zenon, <1>3, <1>4, <1>5, <1>6 DEF PipeIInv

\* fileclose() takes a reference away; the last one to go closes the end.
LEMMA FilecloseStep ==
  ASSUME PipeIInv, NEW p \in Proc, NEW w \in BOOLEAN, fileclose(p, w)
  PROVE  PipeIInv'
<1>1. /\ data' = data /\ nread' = nread /\ nwrite' = nwrite /\ readopen' = readopen
      /\ writeopen' = writeopen /\ freed' = freed /\ buf' = buf
      /\ asleep' = asleep /\ killed' = killed
  BY Zenon DEF fileclose
<1>2. pc[p] = "user" /\ asleep[p] = "no"
  BY Zenon DEF fileclose, At
<1>3. \/ /\ p \in wref /\ wref' = wref \ {p} /\ rref' = rref
         /\ pc' = [pc EXCEPT ![p] = IF wref = {p} THEN "close_write" ELSE "user"]
      \/ /\ p \in rref /\ rref' = rref \ {p} /\ wref' = wref
         /\ pc' = [pc EXCEPT ![p] = IF rref = {p} THEN "close_read" ELSE "user"]
  BY <1>2, Zenon DEF fileclose
<1>4. TypeOK'
  BY <1>1, <1>3, Zenon DEF PipeIInv, TypeOK, Used
<1>5. Ends'
  BY <1>1, <1>2, <1>3 DEF PipeIInv, Ends, TypeOK
<1>6. (freed <=> ~readopen /\ ~writeopen)' /\ NoLostWakeup'
  BY Zenon, <1>1 DEF PipeIInv, NoLostWakeup, Used
<1> QED
  BY Zenon, <1>1, <1>4, <1>5, <1>6 DEF PipeIInv

\* wakeup(): who slept on chan is awake, the others are as they were.
LEMMA WakeupEffect ==
  ASSUME TypeOK, NEW chan \in {"nread", "nwrite"}
  PROVE  /\ wakeup(chan) \in [Proc -> {"no", "nread", "nwrite"}]
         /\ \A p \in Proc : wakeup(chan)[p] # "no" => wakeup(chan)[p] = asleep[p] /\ asleep[p] # chan
  BY Zenon DEF wakeup, TypeOK

\* pipeclose() closes the end nobody holds any more, and frees the page if it
\* was the other one that was open last.
LEMMA PipecloseStep ==
  ASSUME PipeIInv, NEW p \in Proc, NEW w \in BOOLEAN, pipeclose(p, w)
  PROVE  PipeIInv'
<1>1. /\ data' = data /\ nread' = nread /\ nwrite' = nwrite
      /\ rref' = rref /\ wref' = wref /\ killed' = killed /\ buf' = buf
      /\ pc' = [pc EXCEPT ![p] = "user"] /\ asleep[p] = "no"
      /\ freed' = (~readopen' /\ ~writeopen')
  BY Zenon DEF pipeclose, At
<1>2. \/ /\ pc[p] = "close_write" /\ ~writeopen' /\ readopen' = readopen /\ wref = {}
         /\ asleep' = wakeup("nread")
      \/ /\ pc[p] = "close_read" /\ ~readopen' /\ writeopen' = writeopen /\ rref = {}
         /\ asleep' = wakeup("nwrite")
  <2>1. CASE w
    BY Zenon, <2>1 DEF pipeclose, At, PipeIInv, Ends, TypeOK
  <2>2. CASE ~w
    BY Zenon, <2>2 DEF pipeclose, At, PipeIInv, Ends, TypeOK
  <2> QED
    BY Zenon, <2>1, <2>2
<1>3. /\ asleep' \in [Proc -> {"no", "nread", "nwrite"}]
      /\ \A q \in Proc : asleep'[q] # "no" => asleep'[q] = asleep[q]
  BY Zenon, <1>2, WakeupEffect DEF PipeIInv
<1>4. TypeOK'
  <2>1. readopen' \in BOOLEAN /\ writeopen' \in BOOLEAN /\ freed' \in BOOLEAN
    BY Zenon DEF pipeclose
  <2> QED
    BY <1>1, <1>3, <2>1, Zenon DEF PipeIInv, TypeOK, Used
<1>5. Ends'
  <2>1. \A q \in Proc : q # p => pc'[q] = pc[q] /\ ~(pc[q] = pc[p])
    BY Zenon, <1>1, <1>2 DEF PipeIInv, Ends, TypeOK
  <2>2. pc'[p] = "user" /\ asleep'[p] = "no"
    BY Zenon, <1>1, <1>3 DEF PipeIInv, TypeOK
  <2> QED
    BY <1>1, <1>2, <1>3, <2>1, <2>2 DEF PipeIInv, Ends, TypeOK
<1>6. NoLostWakeup'
  BY <1>1, <1>2, <1>3, WakeupEffect DEF PipeIInv, NoLostWakeup, Used
<1>7. (freed <=> ~readopen /\ ~writeopen)'
  BY <1>1, Zenon
<1> QED
  BY Zenon, <1>1, <1>4, <1>5, <1>6, <1>7 DEF PipeIInv

\* kill() wakes the process, which goes back to the loop it slept in.
LEMMA KillStep ==
  ASSUME PipeIInv, NEW p \in Proc, kill(p)
  PROVE  PipeIInv'
<1>1. /\ data' = data /\ nread' = nread /\ nwrite' = nwrite /\ readopen' = readopen
      /\ writeopen' = writeopen /\ freed' = freed /\ rref' = rref /\ wref' = wref
      /\ pc' = pc /\ buf' = buf
  BY Zenon DEF kill
<1>2. killed' = [killed EXCEPT ![p] = TRUE] /\ asleep' = [asleep EXCEPT ![p] = "no"]
  BY Zenon DEF kill
<1>3. TypeOK'
  BY Zenon, <1>1, <1>2 DEF PipeIInv, TypeOK, Used
<1>4. Ends'
  BY Zenon, <1>1, <1>2 DEF PipeIInv, Ends, TypeOK
<1>5. NoLostWakeup'
  <2>1. killed'[p]
    BY Zenon, <1>2 DEF PipeIInv, TypeOK
  <2>2. \A q \in Proc : asleep'[q] # "no" => asleep'[q] = asleep[q] /\ killed'[q] = killed[q]
    BY <1>2, Zenon DEF PipeIInv, TypeOK
  <2> QED
    BY Zenon, <1>1, <2>1, <2>2 DEF PipeIInv, NoLostWakeup, Used
<1>6. (freed <=> ~readopen /\ ~writeopen)'
  BY Zenon, <1>1 DEF PipeIInv
<1> QED
  BY Zenon, <1>1, <1>3, <1>4, <1>5, <1>6 DEF PipeIInv

\* A reader that finds nothing sleeps, or returns because it is killed.
LEMMA ReadEmptyStep ==
  ASSUME PipeIInv, NEW p \in Proc, piperead_empty(p)
  PROVE  PipeIInv'
<1>1. /\ data' = data /\ nread' = nread /\ nwrite' = nwrite /\ readopen' = readopen
      /\ writeopen' = writeopen /\ freed' = freed /\ rref' = rref /\ wref' = wref
      /\ killed' = killed /\ buf' = buf
  BY Zenon DEF piperead_empty
<1>2. /\ pc[p] = "piperead" /\ asleep[p] = "no" /\ nread = nwrite /\ writeopen
      /\ \/ pc' = [pc EXCEPT ![p] = "user"] /\ asleep' = asleep
         \/ ~killed[p] /\ asleep' = [asleep EXCEPT ![p] = "nread"] /\ pc' = pc
  BY Zenon DEF piperead_empty, At
<1>3. TypeOK'
  BY <1>1, <1>2, Zenon DEF PipeIInv, TypeOK, Used
<1>4. Ends'
  BY <1>1, <1>2 DEF PipeIInv, Ends, TypeOK
<1>5. NoLostWakeup'
  <2>1. Used' = Used /\ Used = 0
    BY <1>1, <1>2, PipeConstants DEF PipeIInv, TypeOK, Used
  <2> QED
    BY <1>1, <1>2, <2>1 DEF PipeIInv, NoLostWakeup, TypeOK
<1>6. (freed <=> ~readopen /\ ~writeopen)'
  BY Zenon, <1>1 DEF PipeIInv
<1> QED
  BY Zenon, <1>1, <1>3, <1>4, <1>5, <1>6 DEF PipeIInv

\* piperead() takes bytes out and wakes the writers.
LEMMA ReadStep ==
  ASSUME PipeIInv, NEW p \in Proc, NEW n \in 1 .. MAXN, piperead(p, n)
  PROVE  PipeIInv'
<1> DEFINE m == Least(n, Used)
<1>1. /\ data' = data /\ nwrite' = nwrite /\ readopen' = readopen
      /\ writeopen' = writeopen /\ freed' = freed /\ rref' = rref /\ wref' = wref
      /\ killed' = killed /\ buf' = buf
      /\ pc[p] = "piperead" /\ asleep[p] = "no" /\ pc' = [pc EXCEPT ![p] = "user"]
      /\ asleep' = wakeup("nwrite") /\ nread' = (nread + m) % UINT
  BY Zenon DEF piperead, At
<1>2. m \in Nat /\ m <= Used /\ Used \in Nat /\ Used <= PIPESIZE
  BY PipeConstants DEF PipeIInv, TypeOK, Least
<1>3. nread' \in 0 .. UINT - 1 /\ Used' = Used - m
  <2> HIDE DEF m
  <2> QED
    BY <1>1, <1>2, Drained DEF PipeIInv, TypeOK, Used
<1>4. /\ asleep' \in [Proc -> {"no", "nread", "nwrite"}]
      /\ \A q \in Proc : asleep'[q] # "no" => asleep'[q] = asleep[q] /\ asleep[q] # "nwrite"
  BY Zenon, <1>1, WakeupEffect DEF PipeIInv
<1> HIDE DEF m
<1>5. TypeOK'
  <2>1. Used' \in 0 .. PIPESIZE
    BY <1>2, <1>3, PipeConstants
  <2>2. pc' \in [Proc -> Places] /\ rref' \subseteq Proc /\ wref' \subseteq Proc
    BY Zenon, <1>1 DEF PipeIInv, TypeOK, Places
  <2> QED
    BY <1>1, <1>3, <1>4, <2>1, <2>2, Zenon DEF PipeIInv, TypeOK, Places
<1>6. Ends'
  <2>1. pc'[p] = "user" /\ asleep'[p] = "no" /\ \A q \in Proc : q # p => pc'[q] = pc[q]
    BY Zenon, <1>1, <1>4 DEF PipeIInv, TypeOK
  <2> QED
    BY <1>1, <1>4, <2>1 DEF PipeIInv, Ends, TypeOK
<1>7. NoLostWakeup'
  <2>1. Used = 0 => Used' = 0
    BY <1>2, <1>3
  <2> QED
    BY <1>1, <1>4, <2>1 DEF PipeIInv, NoLostWakeup
<1>8. (freed <=> ~readopen /\ ~writeopen)'
  BY Zenon, <1>1 DEF PipeIInv
<1> QED
  BY Zenon, <1>1, <1>5, <1>6, <1>7, <1>8 DEF PipeIInv

\* pipewrite() puts in what fits; it returns with everything written, or fails
\* because nobody can read or it is killed, or sleeps with the pipe full.
LEMMA WriteStep ==
  ASSUME PipeIInv, NEW p \in Proc, pipewrite(p)
  PROVE  PipeIInv'
<1> DEFINE n == Least(Len(buf[p]), Space)
           done == n = Len(buf[p])
           fail == ~done /\ (~readopen \/ killed[p])
<1>1. /\ nread' = nread /\ readopen' = readopen /\ writeopen' = writeopen /\ freed' = freed
      /\ rref' = rref /\ wref' = wref /\ killed' = killed
      /\ pc[p] = "pipewrite" /\ asleep[p] = "no"
      /\ nwrite' = (nwrite + n) % UINT
  BY Zenon DEF pipewrite, At
<1>2. /\ Used \in Nat /\ Used <= PIPESIZE /\ Space = PIPESIZE - Used /\ Space \in Nat
      /\ buf[p] \in Seq(Byte) /\ Len(buf[p]) \in Nat
      /\ n \in Nat /\ n <= Space /\ n <= Len(buf[p]) /\ (n = Space \/ done)
  <2>1. Used \in Nat /\ Used <= PIPESIZE /\ Space = PIPESIZE - Used /\ Space \in Nat
    BY PipeConstants DEF PipeIInv, TypeOK, Space
  <2>2. buf[p] \in Seq(Byte) /\ Len(buf[p]) \in Nat
    BY DEF PipeIInv
  <2> QED
    BY <2>1, <2>2 DEF Least
<1>3. /\ data' \in [Index -> Byte \cup {0}]
      /\ buf' \in [Proc -> Seq(Byte)]
  <2>1. data' = [k \in Index |-> IF (k - nwrite) % PIPESIZE < n THEN buf[p][((k - nwrite) % PIPESIZE) + 1]
                                 ELSE data[k]]
    BY Zenon DEF pipewrite
  <2>2. \A k \in Index : (k - nwrite) % PIPESIZE \in Nat
    BY PipeConstants DEF Index, PipeIInv, TypeOK
  <2>3. \A i \in Nat : i < n => buf[p][i + 1] \in Byte
    BY <1>2
  <2>4. SubSeq(buf[p], n + 1, Len(buf[p])) \in Seq(Byte) /\ <<>> \in Seq(Byte)
    BY <1>2
  <2>5. buf' = [buf EXCEPT ![p] = IF fail THEN <<>> ELSE SubSeq(buf[p], n + 1, Len(buf[p]))]
    BY Zenon DEF pipewrite
  <2> HIDE DEF n, fail
  <2>6. buf' \in [Proc -> Seq(Byte)]
    BY Zenon, <2>4, <2>5 DEF PipeIInv
  <2> QED
    BY Zenon, <2>1, <2>2, <2>3, <2>6 DEF PipeIInv, TypeOK
<1>4. nwrite' \in 0 .. UINT - 1 /\ Used' = Used + n
  <2> HIDE DEF n
  <2>1. ((nwrite - nread) % UINT) + n <= PIPESIZE
    <3>1. Used + n <= PIPESIZE
      BY <1>2, PipeConstants
    <3> QED
      BY Zenon, <3>1 DEF Used
  <2> QED
    BY Zenon, <1>1, <1>2, <2>1, Filled DEF PipeIInv, TypeOK, Used
<1>5. \/ /\ pc' = [pc EXCEPT ![p] = "user"] /\ asleep' = wakeup("nread")
      \/ /\ pc' = [pc EXCEPT ![p] = "user"] /\ asleep' = asleep /\ (~readopen \/ killed[p])
      \/ /\ pc' = pc /\ asleep' = [wakeup("nread") EXCEPT ![p] = "nwrite"]
         /\ n = Space /\ readopen /\ ~killed[p]
  <2>1. CASE done
    BY Zenon, <2>1 DEF pipewrite
  <2>2. CASE fail
    BY <2>2, Zenon DEF pipewrite
  <2>3. CASE ~done /\ ~fail
    <3>1. asleep' = [wakeup("nread") EXCEPT ![p] = "nwrite"]
      BY Zenon, <2>3 DEF pipewrite
    <3>2. pc' = [pc EXCEPT ![p] = pc[p]]
      BY <2>3, Zenon DEF pipewrite
    <3> QED
      BY Zenon, <1>2, <2>3, <3>1, <3>2 DEF PipeIInv, TypeOK
  <2> QED
    BY Zenon, <2>1, <2>2, <2>3
<1> HIDE DEF n
<1>6. /\ asleep' \in [Proc -> {"no", "nread", "nwrite"}]
      /\ pc' \in [Proc -> Places]
      /\ \A q \in Proc : q # p => /\ pc'[q] = pc[q]
                                  /\ asleep'[q] # "no" => asleep'[q] = asleep[q]
      /\ \/ pc'[p] = "user" /\ asleep'[p] = "no"
         \/ pc'[p] = "pipewrite" /\ asleep'[p] = "nwrite"
  <2>1. /\ pc \in [Proc -> Places] /\ asleep \in [Proc -> {"no", "nread", "nwrite"}]
        /\ wakeup("nread") \in [Proc -> {"no", "nread", "nwrite"}]
        /\ \A q \in Proc : wakeup("nread")[q] # "no" => wakeup("nread")[q] = asleep[q]
        /\ wakeup("nread")[p] = "no"
    BY Zenon, <1>1, WakeupEffect DEF PipeIInv, TypeOK, Places
  <2> HIDE DEF n
  <2>2. CASE pc' = [pc EXCEPT ![p] = "user"] /\ asleep' = wakeup("nread")
    BY Zenon, <2>1, <2>2 DEF Places
  <2>3. CASE pc' = [pc EXCEPT ![p] = "user"] /\ asleep' = asleep
    BY Zenon, <1>1, <2>1, <2>3 DEF Places
  <2>4. CASE pc' = pc /\ asleep' = [wakeup("nread") EXCEPT ![p] = "nwrite"]
    BY Zenon, <1>1, <2>1, <2>4 DEF Places
  <2> QED
    BY <1>5, <2>2, <2>3, <2>4, Zenon
<1>7. TypeOK'
  <2>1. Used' \in 0 .. PIPESIZE
    BY <1>2, <1>4, PipeConstants
  <2> QED
    BY <1>1, <1>3, <1>4, <1>6, <2>1, Zenon DEF PipeIInv, TypeOK, Places
<1>8. Ends'
  <2>1. ASSUME NEW q \in Proc
        PROVE  /\ pc'[q] = "pipewrite" => q \in wref'
               /\ pc'[q] = "piperead" => q \in rref'
               /\ pc'[q] = "close_write" => wref' = {} /\ writeopen'
               /\ pc'[q] = "close_read" => rref' = {} /\ readopen'
               /\ asleep'[q] = "nread" => pc'[q] = "piperead"
               /\ asleep'[q] = "nwrite" => pc'[q] = "pipewrite"
    <3>1. CASE q = p
      BY Zenon, <1>1, <1>6, <3>1 DEF PipeIInv, Ends
    <3>2. CASE q # p
      BY Zenon, <1>1, <1>6, <3>2 DEF PipeIInv, Ends
    <3> QED
      BY Zenon, <3>1, <3>2
  <2>2. ASSUME NEW q \in Proc, NEW r \in Proc, pc'[q] = pc'[r],
               pc'[q] \in {"close_write", "close_read"}
        PROVE  q = r
    <3>1. pc'[p] \notin {"close_write", "close_read"}
      BY Zenon, <1>6
    <3>2. q # p /\ r # p
      BY Zenon, <2>2, <3>1
    <3> QED
      BY Zenon, <1>6, <2>2, <3>2 DEF PipeIInv, Ends
  <2>3. (wref # {} => writeopen)' /\ (rref # {} => readopen)'
    BY Zenon, <1>1 DEF PipeIInv, Ends
  <2> QED
    BY Zenon, <2>1, <2>2, <2>3 DEF Ends
<1>9. NoLostWakeup'
  <2>1. Used = PIPESIZE => Used' = PIPESIZE
    BY <1>2, <1>4, PipeConstants
  <2>2. n = Space => Used' = PIPESIZE
    BY <1>2, <1>4, PipeConstants
  <2>3. ASSUME NEW q \in Proc, asleep'[q] = "nread"
        PROVE  writeopen' /\ ~killed'[q] /\ \E r \in Proc : killed'[r]
    <3>1. /\ wakeup("nread")[q] # "nread" /\ [wakeup("nread") EXCEPT ![p] = "nwrite"][q] # "nread"
          /\ asleep' = asleep /\ (~readopen \/ killed[p])
      BY <1>5, <2>3, WakeupEffect, Zenon DEF PipeIInv, TypeOK
    <3>2. q \in rref /\ readopen
      BY Zenon, <2>3, <3>1 DEF PipeIInv, Ends
    <3>3. killed[p]
      BY <3>1, <3>2, Zenon
    <3> QED
      BY Zenon, <1>1, <2>3, <3>1, <3>3 DEF PipeIInv, NoLostWakeup
  <2>4. ASSUME NEW q \in Proc, asleep'[q] = "nwrite"
        PROVE  Used' = PIPESIZE /\ readopen' /\ ~killed'[q]
    <3>1. CASE q = p
      BY Zenon, <1>1, <1>5, <1>6, <2>2, <2>4, <3>1 DEF PipeIInv, TypeOK
    <3>2. CASE q # p
      BY Zenon, <1>1, <1>6, <2>1, <2>4, <3>2 DEF PipeIInv, NoLostWakeup
    <3> QED
      BY Zenon, <3>1, <3>2
  <2> QED
    BY Zenon, <2>3, <2>4 DEF NoLostWakeup
<1>10. (freed <=> ~readopen /\ ~writeopen)'
  BY Zenon, <1>1 DEF PipeIInv
<1> QED
  BY Zenon, <1>3, <1>7, <1>8, <1>9, <1>10 DEF PipeIInv

\* The invariant holds of every reachable state: one step per action.
LEMMA PipeHasInvariant == Spec => []PipeIInv
<1>1. Init => PipeIInv
  BY Zenon, PipeInitial
<1>2. PipeIInv /\ [Next]_vars => PipeIInv'
  <2> SUFFICES ASSUME PipeIInv, [Next]_vars PROVE PipeIInv'
    BY Zenon
  <2>1. CASE UNCHANGED vars
    BY Zenon, <2>1 DEF PipeIInv, TypeOK, Ends, NoLostWakeup, Used, vars
  <2>2. CASE Done
    BY Zenon, <2>1, <2>2 DEF Done
  <2>3. ASSUME NEW p \in Proc, Kernel(p) \/ Program(p) \/ kill(p) PROVE PipeIInv'
    BY Zenon, <2>3, WriteStep, ReadEmptyStep, ReadStep, PipecloseStep, CallStep, FilecloseStep, KillStep
       DEF Kernel, Program
  <2> QED
    BY Zenon, <2>1, <2>2, <2>3 DEF Next
<1> QED
  BY <1>1, <1>2, PTL DEF Spec

\* Whatever the processes that share a pipe, the size of its ring and the
\* interleaving, its page is freed once both ends are closed and never used
\* after, its counters measure its contents across their wrap, and whoever
\* sleeps in it has a reason to.
THEOREM PipeIsSafe == Spec => []PipeSafe
<1>1. PipeIInv => PipeSafe
  BY Zenon, PipePromised
<1> QED
  BY <1>1, PipeHasInvariant, PTL
-----------------------------------------------------------------------------
(* The ring and its two counters are a bounded queue of bytes, for any sizes   *)
(* with UINT a multiple of PIPESIZE, which is what the wrap of the counters    *)
(* rests on.                                                                   *)

\* Adding a multiple of the ring's size does not change an index.
LEMMA SameIndex ==
  ASSUME NEW x \in Int, NEW y \in Int, NEW q \in Int, x = y + PIPESIZE * q
  PROVE  x % PIPESIZE = y % PIPESIZE
<1> DEFINE d == y \div PIPESIZE  r == y % PIPESIZE
<1>1. PIPESIZE \in Nat \ {0}
  BY Zenon, PipeConstants
<1>2. y = PIPESIZE * d + r /\ d \in Int /\ r \in 0 .. PIPESIZE - 1
  BY <1>1
<1> HIDE DEF d, r
<1>3. x = PIPESIZE * (d + q) + r
  BY <1>1, <1>2
<1>4. x % PIPESIZE = r
  BY <1>1, <1>2, <1>3
<1> QED
  BY Zenon, <1>4 DEF r

\* A counter modulo UINT gives the index that the count itself would give.
LEMMA CounterIndex ==
  ASSUME NEW x \in Int, NEW j \in Int
  PROVE  ((x % UINT) + j) % PIPESIZE = (x + j) % PIPESIZE
<1> DEFINE d == x \div UINT  c == UINT \div PIPESIZE
<1>1. PIPESIZE \in Nat \ {0} /\ UINT \in Nat \ {0} /\ UINT % PIPESIZE = 0
  BY PipeConstants
<1>2. x = UINT * d + (x % UINT) /\ d \in Int /\ x % UINT \in Int
  BY <1>1
<1>3. UINT = PIPESIZE * c /\ c \in Int
  BY <1>1
<1> HIDE DEF d, c
<1>4. UINT * d = PIPESIZE * (c * d)
  BY <1>1, <1>2, <1>3
<1>5. x + j = ((x % UINT) + j) + PIPESIZE * (c * d) /\ c * d \in Int
  BY <1>1, <1>2, <1>3, <1>4
<1> QED
  BY <1>2, <1>5, SameIndex

\* Where the i-th byte of the queue is, seen from nwrite.
LEMMA FromTheEnd ==
  ASSUME NEW a \in 0 .. UINT - 1, NEW b \in 0 .. UINT - 1, NEW i \in Int
  PROVE  (((a + i) % PIPESIZE) - b) % PIPESIZE = (i - ((b - a) % UINT)) % PIPESIZE
<1> DEFINE k == (a + i) % PIPESIZE  q == (a + i) \div PIPESIZE
           u == (b - a) % UINT      d == (b - a) \div UINT
           c == UINT \div PIPESIZE
<1>1. PIPESIZE \in Nat \ {0} /\ UINT \in Nat \ {0} /\ a \in Int /\ b \in Int
  BY PipeConstants
<1>2. a + i = PIPESIZE * q + k /\ q \in Int /\ k \in Int
  BY <1>1
<1>3. b - a = UINT * d + u /\ d \in Int /\ u \in Int
  BY <1>1
<1>4. UINT = PIPESIZE * c /\ c \in Int
  BY <1>1, PipeConstants
<1> HIDE DEF k, q, u, d, c
<1>5. UINT * d = PIPESIZE * (c * d) /\ c * d \in Int
  BY <1>1, <1>3, <1>4
<1>6. (k - b) % PIPESIZE = (a + i - b) % PIPESIZE
  <2>1. a + i - b = (k - b) + PIPESIZE * q
    <3>1. PIPESIZE * q \in Int
      BY <1>1, <1>2
    <3> QED
      BY <1>1, <1>2, <3>1
  <2>2. a + i - b \in Int /\ k - b \in Int
    BY <1>1, <1>2
  <2> QED
    BY <1>2, <2>1, <2>2, SameIndex, Zenon
<1>7. (i - u) % PIPESIZE = (a + i - b) % PIPESIZE
  <2>1. i - u = (a + i - b) + PIPESIZE * (c * d)
    <3>1. PIPESIZE * (c * d) \in Int /\ b - a = PIPESIZE * (c * d) + u
      BY <1>1, <1>3, <1>5
    <3> QED
      BY <1>1, <1>3, <3>1
  <2>2. a + i - b \in Int /\ i - u \in Int
    BY <1>1, <1>3
  <2> QED
    BY <1>5, <2>1, <2>2, SameIndex, Zenon
<1> QED
  BY Zenon, <1>6, <1>7 DEF k, u

\* The u bytes from index a on, as a sequence.
Bytes(d, a, u) == [i \in 1 .. u |-> d[(a + i - 1) % PIPESIZE]]

\* The bytes between the counters are a sequence, the queue of PipeFifo.
LEMMA BytesType ==
  ASSUME NEW d \in [Index -> Byte \cup {0}], NEW a \in Nat, NEW u \in Nat
  PROVE  /\ \A i \in Int : (a + i - 1) % PIPESIZE \in Index
         /\ Bytes(d, a, u) \in Seq(Byte \cup {0}) /\ Len(Bytes(d, a, u)) = u
         /\ \A i \in 1 .. u : Bytes(d, a, u)[i] = d[(a + i - 1) % PIPESIZE]
<1>1. ASSUME NEW i \in Int PROVE (a + i - 1) % PIPESIZE \in Index
  <2>1. a + i - 1 \in Int /\ PIPESIZE \in Nat \ {0}
    BY PipeConstants
  <2> QED
    BY <2>1 DEF Index
<1>2. Bytes(d, a, u) \in [1 .. u -> Byte \cup {0}]
  BY <1>1 DEF Bytes
<1>3. Bytes(d, a, u) \in Seq(Byte \cup {0})
  BY <1>2, SeqDef
<1>4. Len(Bytes(d, a, u)) = u
  BY <1>2, <1>3, LenProperties
<1> QED
  BY Zenon, <1>1, <1>3, <1>4 DEF Bytes

\* An index short of the ring by less than its size.
LEMMA Wrapped ==
  ASSUME NEW x \in Int, -PIPESIZE <= x, x < 0
  PROVE  x % PIPESIZE = x + PIPESIZE
  BY PipeConstants

\* pipewrite() appends the bytes that fit, and leaves the others in place.
LEMMA WriteAppends ==
  ASSUME PipeIInv, NEW p \in Proc, pipewrite(p), NEW n, n = Least(Len(buf[p]), Space),
         TypeOK'
  PROVE  /\ n \in 0 .. PIPESIZE - Len(Contents)
         /\ SubSeq(buf[p], 1, n) \in [1 .. n -> Byte]
         /\ Contents' = Contents \o SubSeq(buf[p], 1, n)
         /\ n = 0 => Contents' = Contents
<1> DEFINE s == SubSeq(buf[p], 1, n)
           B == Byte \cup {0}
<1>1. /\ buf[p] \in Seq(Byte) /\ data \in [Index -> B] /\ data' \in [Index -> B]
      /\ nread \in 0 .. UINT - 1 /\ nwrite \in 0 .. UINT - 1 /\ nread \in Nat /\ nwrite \in Nat
  BY PipeConstants DEF PipeIInv, TypeOK
<1>2. Used \in Nat /\ Used <= PIPESIZE /\ PIPESIZE \in Nat \ {0} /\ Len(buf[p]) \in Nat
  BY <1>1, PipeConstants DEF PipeIInv, TypeOK
<1>3. n \in Nat /\ n <= PIPESIZE - Used /\ n <= Len(buf[p])
  BY <1>2 DEF Least, Space
<1>4. /\ nread' = nread /\ nwrite' = (nwrite + n) % UINT
      /\ data' = [k \in Index |-> IF (k - nwrite) % PIPESIZE < n THEN buf[p][((k - nwrite) % PIPESIZE) + 1]
                                  ELSE data[k]]
  BY Zenon DEF pipewrite
<1>5. /\ s \in Seq(Byte) /\ s \in Seq(B) /\ Len(s) = n /\ s \in [1 .. n -> Byte]
      /\ \A i \in 1 .. n : s[i] = buf[p][i]
  <2>1. \A i \in 1 .. n : buf[p][i] \in Byte
    BY <1>1, <1>3
  <2>2. s \in Seq(Byte) /\ Len(s) = n /\ \A i \in 1 .. n : s[i] = buf[p][i]
    BY <1>3, <2>1, SubSeqProperties
  <2> QED
    BY <2>2, LenProperties, SeqMonotonic, Zenon
<1>6. Used' = Used + n
  <2>1. ((nwrite - nread) % UINT) + n <= PIPESIZE
    <3>1. Used + n <= PIPESIZE
      BY <1>2, <1>3
    <3> QED
      BY Zenon, <3>1 DEF Used
  <2> QED
    BY Zenon, <1>1, <1>3, <1>4, <2>1, Filled DEF Used
<1>7. Contents = Bytes(data, nread, Used) /\ Contents' = Bytes(data', nread, Used + n)
  BY <1>4, <1>6 DEF Contents, Bytes
<1>8. /\ Contents \in Seq(B) /\ Len(Contents) = Used
      /\ \A i \in Int : (nread + i - 1) % PIPESIZE \in Index
      /\ \A i \in 1 .. Used : Contents[i] = data[(nread + i - 1) % PIPESIZE]
  <2>1. /\ Bytes(data, nread, Used) \in Seq(B) /\ Len(Bytes(data, nread, Used)) = Used
        /\ \A i \in 1 .. Used : Bytes(data, nread, Used)[i] = data[(nread + i - 1) % PIPESIZE]
    BY <1>1, <1>2, BytesType, Zenon
  <2>2. \A i \in Int : (nread + i - 1) % PIPESIZE \in Index
    BY <1>1, <1>2, BytesType, Zenon
  <2> QED
    BY <1>7, <2>1, <2>2, Zenon
<1>9. /\ Contents' \in Seq(B) /\ Len(Contents') = Used + n
      /\ \A i \in 1 .. Used + n : Contents'[i] = data'[(nread + i - 1) % PIPESIZE]
  <2>1. Used + n \in Nat
    BY <1>2, <1>3
  <2> QED
    BY <1>1, <1>7, <2>1, BytesType, Zenon
<1> HIDE DEF s, B
<1>10. ASSUME NEW i \in 1 .. Used + n
       PROVE  Contents'[i] = IF i <= Used THEN Contents[i] ELSE s[i - Used]
  <2> DEFINE k == (nread + i - 1) % PIPESIZE
             j == (k - nwrite) % PIPESIZE
  <2>1. i \in Int /\ i - 1 \in Int /\ (i - 1) - Used \in Int
    BY <1>2, <1>3
  <2>2. k \in Index /\ Contents'[i] = data'[k] /\ (i <= Used => Contents[i] = data[k])
    BY <1>2, <1>3, <1>8, <1>9, <2>1
  <2>3. j = ((i - 1) - Used) % PIPESIZE
    <3>1. (nread + (i - 1)) % PIPESIZE = k
      BY Zenon, <1>1, <2>1
    <3> QED
      BY Zenon, <1>1, <2>1, <3>1, FromTheEnd DEF Used
  <2>4. data'[k] = IF j < n THEN buf[p][j + 1] ELSE data[k]
    BY Zenon, <1>4, <2>2
  <2> HIDE DEF j, k
  <2>5. CASE i <= Used
    <3>1. -PIPESIZE <= (i - 1) - Used /\ (i - 1) - Used < 0
      BY <1>2, <2>1, <2>5
    <3>2. j = (i - 1) - Used + PIPESIZE
      BY Zenon, <2>1, <2>3, <3>1, Wrapped
    <3>3. j >= n /\ j \in Int
      BY <1>2, <1>3, <2>1, <3>2
    <3> QED
      BY <1>3, <2>2, <2>4, <2>5, <3>3
  <2>6. CASE i > Used
    <3>1. (i - 1) - Used \in 0 .. PIPESIZE - 1
      BY <1>2, <1>3, <2>1, <2>6
    <3>2. j = (i - 1) - Used
      BY <1>2, <2>3, <3>1
    <3>3. j < n /\ j + 1 = i - Used /\ i - Used \in 1 .. n /\ ~(i <= Used)
      BY <1>2, <1>3, <2>1, <2>6, <3>2
    <3> QED
      BY Zenon, <1>5, <2>2, <2>4, <3>3
  <2> QED
    BY <1>2, <2>1, <2>5, <2>6
<1>11. Contents' = Contents \o s
  <2>1. /\ Contents \in Seq(B) /\ Len(Contents) = Used
        /\ Contents' \in Seq(B) /\ Len(Contents') = Used + n
    BY Zenon, <1>8, <1>9
  <2>2. /\ Contents \o s \in Seq(B) /\ Len(Contents \o s) = Used + n
        /\ \A i \in 1 .. Used + n : (Contents \o s)[i] = IF i <= Used THEN Contents[i] ELSE s[i - Used]
    BY <1>5, <2>1, ConcatProperties
  <2>3. \A i \in 1 .. Len(Contents') : Contents'[i] = (Contents \o s)[i]
    BY Zenon, <1>10, <2>1, <2>2
  <2> QED
    BY Zenon, <2>1, <2>2, <2>3, SeqEqual
<1>12. n \in 0 .. PIPESIZE - Len(Contents)
  BY <1>2, <1>3, <1>8
<1>13. ASSUME n = 0 PROVE Contents' = Contents
  <2>1. s = <<>> /\ Contents \in Seq(B)
    BY Zenon, <1>5, <1>13, <1>8, EmptySeq
  <2> QED
    BY Zenon, <1>11, <2>1, ConcatEmptySeq
<1> QED
  BY Zenon, <1>5, <1>11, <1>12, <1>13 DEF s

\* Dropping the first m elements of a sequence.
LEMMA DropFirst ==
  ASSUME NEW S, NEW q \in Seq(S), NEW m \in 0 .. Len(q)
  PROVE  /\ SubSeq(q, m + 1, Len(q)) \in Seq(S)
         /\ Len(SubSeq(q, m + 1, Len(q))) = Len(q) - m
         /\ \A i \in 1 .. Len(q) - m : SubSeq(q, m + 1, Len(q))[i] = q[m + i]
  OBVIOUS

\* The counters are equal when there is nothing between them.
LEMMA EmptyRing ==
  ASSUME NEW a \in 0 .. UINT - 1, NEW b \in 0 .. UINT - 1, (b - a) % UINT = 0
  PROVE  a = b
<1>1. UINT \in Nat \ {0}
  BY PipeConstants
<1>2. CASE a <= b
  BY <1>1, <1>2
<1>3. CASE a > b
  <2>1. (b - a) % UINT = b - a + UINT
    BY <1>1, <1>3
  <2> QED
    BY <1>1, <1>3, <2>1
<1> QED
  BY <1>1, <1>2, <1>3

\* piperead() returns the first bytes of the queue and leaves the others.
LEMMA ReadRemoves ==
  ASSUME PipeIInv, NEW p \in Proc, NEW n \in 1 .. MAXN, piperead(p, n),
         NEW m, m = Least(n, Used)
  PROVE  /\ m \in 0 .. Len(Contents)
         /\ ret' = SubSeq(Contents, 1, m)
         /\ Contents' = SubSeq(Contents, m + 1, Len(Contents))
<1> DEFINE B == Byte \cup {0}
<1>1. /\ data \in [Index -> B] /\ nread \in Nat /\ Used \in Nat
      /\ nread \in 0 .. UINT - 1 /\ nwrite \in 0 .. UINT - 1
  BY PipeConstants DEF PipeIInv, TypeOK
<1>2. m \in Nat /\ m <= Used
  BY <1>1, PipeConstants DEF Least
<1>3. /\ data' = data /\ nwrite' = nwrite /\ nread' = (nread + m) % UINT
      /\ ret' = SubSeq(Contents, 1, m)
  BY Zenon DEF piperead
<1>4. nread' \in Nat /\ Used' = Used - m /\ Used - m \in Nat
  <2>1. m <= (nwrite - nread) % UINT
    BY Zenon, <1>2 DEF Used
  <2>2. nread' \in 0 .. UINT - 1 /\ Used' = Used - m
    BY <1>1, <1>2, <1>3, <2>1, Drained DEF Used
  <2> QED
    BY <1>1, <1>2, <2>2, PipeConstants
<1>5. Contents = Bytes(data, nread, Used) /\ Contents' = Bytes(data, nread', Used - m)
  BY Zenon, <1>3, <1>4 DEF Contents, Bytes
<1>6. /\ Contents \in Seq(B) /\ Len(Contents) = Used
      /\ \A i \in 1 .. Used : Contents[i] = data[(nread + i - 1) % PIPESIZE]
  BY <1>1, <1>5, BytesType, Zenon
<1>7. /\ Contents' \in Seq(B) /\ Len(Contents') = Used - m
      /\ \A i \in 1 .. Used - m : Contents'[i] = data[(nread' + i - 1) % PIPESIZE]
  BY <1>1, <1>4, <1>5, BytesType, Zenon
<1> HIDE DEF B
<1>8. /\ SubSeq(Contents, m + 1, Used) \in Seq(B)
      /\ Len(SubSeq(Contents, m + 1, Used)) = Used - m
      /\ \A i \in 1 .. Used - m : SubSeq(Contents, m + 1, Used)[i] = Contents[m + i]
  <2>1. m \in 0 .. Len(Contents) /\ Contents \in Seq(B)
    BY <1>1, <1>2, <1>6
  <2>2. /\ SubSeq(Contents, m + 1, Len(Contents)) \in Seq(B)
        /\ Len(SubSeq(Contents, m + 1, Len(Contents))) = Len(Contents) - m
        /\ \A i \in 1 .. Len(Contents) - m : SubSeq(Contents, m + 1, Len(Contents))[i] = Contents[m + i]
    BY <2>1, DropFirst, Zenon
  <2> QED
    BY Zenon, <1>6, <2>2
<1>9. ASSUME NEW i \in 1 .. Used - m PROVE Contents'[i] = Contents[m + i]
  <2>1. i \in Int /\ i - 1 \in Int /\ nread + m \in Int /\ m + i \in 1 .. Used
    BY <1>1, <1>2
  <2>2. (nread' + (i - 1)) % PIPESIZE = ((nread + m) + (i - 1)) % PIPESIZE
    BY <1>3, <2>1, CounterIndex, Zenon
  <2>3. nread' + (i - 1) = nread' + i - 1 /\ (nread + m) + (i - 1) = nread + (m + i) - 1
    BY <1>1, <1>2, <1>4, <2>1
  <2>4. Contents'[i] = data[(nread' + i - 1) % PIPESIZE]
    BY Zenon, <1>7
  <2>5. Contents[m + i] = data[(nread + (m + i) - 1) % PIPESIZE]
    BY Zenon, <1>6, <2>1
  <2> QED
    BY Zenon, <2>2, <2>3, <2>4, <2>5
<1> QED
  <2>1. Contents' = SubSeq(Contents, m + 1, Used)
    <3>1. \A i \in 1 .. Len(Contents') : Contents'[i] = SubSeq(Contents, m + 1, Used)[i]
      BY <1>7, <1>8, <1>9, Zenon
    <3> QED
      BY <1>7, <1>8, <3>1, SeqEqual, Zenon
  <2> QED
    BY <1>1, <1>2, <1>3, <1>6, <2>1

\* A new pipe is an empty queue.
LEMMA FifoInitial == Init => Fifo!Init
<1> SUFFICES ASSUME Init PROVE Fifo!Init
  BY Zenon
<1>1. Used = 0
  BY PipeConstants DEF Init, Used
<1>2. Contents = <<>>
  BY <1>1 DEF Contents
<1> QED
  BY Zenon, <1>2 DEF Init, Fifo!Init

\* Every step of the pipe is one of the queue's, or leaves the queue as it is.
LEMMA FifoStep ==
  ASSUME PipeIInv, PipeIInv', [Next]_vars
  PROVE  [Fifo!Next]_(Fifo!vars)
<1>1. ASSUME data' = data, nread' = nread, nwrite' = nwrite
      PROVE  Contents' = Contents /\ Used' = Used
  BY Zenon, <1>1 DEF Contents, Used
<1>2. ASSUME NEW p \in Proc, pipewrite(p) PROVE [Fifo!Next]_(Fifo!vars)
  <2> DEFINE n == Least(Len(buf[p]), Space)
  <2>1. /\ n \in 0 .. PIPESIZE - Len(Contents)
        /\ SubSeq(buf[p], 1, n) \in [1 .. n -> Byte]
        /\ Contents' = Contents \o SubSeq(buf[p], 1, n)
        /\ n = 0 => Contents' = Contents
    BY Zenon, <1>2, WriteAppends DEF PipeIInv
  <2>2. readopen' = readopen /\ writeopen' = writeopen /\ ret' = ret /\ writeopen
    BY Zenon, <1>2 DEF pipewrite, At, PipeIInv, Ends
  <2> HIDE DEF n
  <2>3. CASE n = 0
    BY Zenon, <2>1, <2>2, <2>3 DEF Fifo!vars
  <2>4. CASE n # 0
    <3>1. n \in 1 .. PIPESIZE - Len(Contents)
      BY <2>1, <2>4
    <3>2. Fifo!Write
      BY <2>1, <2>2, <3>1, Zenon DEF Fifo!Write
    <3> QED
      BY Zenon, <3>2 DEF Fifo!Next
  <2> QED
    BY Zenon, <2>3, <2>4
<1>3. ASSUME NEW p \in Proc, NEW n \in 1 .. MAXN, piperead(p, n) PROVE [Fifo!Next]_(Fifo!vars)
  <2> DEFINE m == Least(n, Used)
  <2>1. /\ m \in 0 .. Len(Contents) /\ ret' = SubSeq(Contents, 1, m)
        /\ Contents' = SubSeq(Contents, m + 1, Len(Contents))
    BY Zenon, <1>3, ReadRemoves
  <2>2. /\ readopen' = readopen /\ writeopen' = writeopen /\ readopen
        /\ (nread # nwrite \/ ~writeopen)
    BY Zenon, <1>3 DEF piperead, At, PipeIInv, Ends
  <2>3. CASE m # 0
    <3> HIDE DEF m
    <3>1. m \in 1 .. Len(Contents)
      BY <2>1, <2>3
    <3>2. Fifo!Read
      BY <2>1, <2>2, <3>1, Zenon DEF Fifo!Read
    <3> QED
      BY Zenon, <3>2 DEF Fifo!Next
  <2>4. CASE m = 0
    <3>1. Used = 0
      <4>1. n \in Nat /\ n > 0 /\ Used \in Nat
        BY PipeConstants DEF PipeIInv, TypeOK
      <4> QED
        BY <2>4, <4>1 DEF Least
    <3>2. nread = nwrite
      BY Zenon, <3>1, EmptyRing DEF Used, PipeIInv, TypeOK
    <3>3. Contents = <<>>
      BY <3>1 DEF Contents
    <3> HIDE DEF m
    <3>4. ret' = <<>> /\ Contents' = <<>>
      BY <2>1, <2>4, <3>3
    <3>5. Fifo!EndOfFile
      BY Zenon, <2>2, <3>2, <3>3, <3>4 DEF Fifo!EndOfFile
    <3> QED
      BY Zenon, <3>5 DEF Fifo!Next
  <2> QED
    BY Zenon, <2>3, <2>4
<1>4. ASSUME NEW p \in Proc, piperead_empty(p) PROVE [Fifo!Next]_(Fifo!vars)
  <2>1. /\ Contents' = Contents /\ readopen' = readopen /\ writeopen' = writeopen /\ readopen
        /\ ret' = ret \/ ret' = <<-1>>
    BY Zenon, <1>1, <1>4 DEF piperead_empty, At, PipeIInv, Ends
  <2> QED
    BY Zenon, <2>1 DEF Fifo!Next, Fifo!Interrupted, Fifo!vars
<1>5. ASSUME NEW p \in Proc, NEW w \in BOOLEAN, pipeclose(p, w) PROVE [Fifo!Next]_(Fifo!vars)
  <2>1. Contents' = Contents /\ ret' = ret
    BY Zenon, <1>1, <1>5 DEF pipeclose
  <2>2. \/ writeopen /\ writeopen' = FALSE /\ readopen' = readopen
        \/ readopen /\ readopen' = FALSE /\ writeopen' = writeopen
    <3>1. CASE w
      BY Zenon, <1>5, <3>1 DEF pipeclose, At, PipeIInv, Ends, TypeOK
    <3>2. CASE ~w
      BY Zenon, <1>5, <3>2 DEF pipeclose, At, PipeIInv, Ends, TypeOK
    <3> QED
      BY <3>1, <3>2, Zenon
  <2> QED
    BY Zenon, <2>1, <2>2 DEF Fifo!Next, Fifo!CloseRead, Fifo!CloseWrite
<1>6. ASSUME NEW p \in Proc, Program(p) \/ kill(p) PROVE [Fifo!Next]_(Fifo!vars)
  <2>1. /\ data' = data /\ nread' = nread /\ nwrite' = nwrite
        /\ readopen' = readopen /\ writeopen' = writeopen /\ ret' = ret
    BY Zenon, <1>6 DEF Program, sys_write, sys_read, fileclose, kill
  <2> QED
    BY Zenon, <1>1, <2>1 DEF Fifo!vars
<1>7. CASE UNCHANGED vars
  BY Zenon, <1>1, <1>7 DEF vars, Fifo!vars
<1>8. CASE Done
  BY Zenon, <1>7, <1>8 DEF Done
<1> QED
  BY Zenon, <1>2, <1>3, <1>4, <1>5, <1>6, <1>7, <1>8 DEF Next, Kernel

\* Whatever the processes and the sizes, the pipe's ring behaves as a bounded
\* queue of bytes: what is read is what was written, in order, across the wrap
\* of nread and nwrite and of the index, and 0 is returned only at the end.
THEOREM PipeIsFifo == Spec => FifoSpec
<1>1. PipeIInv /\ PipeIInv' /\ [Next]_vars => [Fifo!Next]_(Fifo!vars)
  BY Zenon, FifoStep
<1> QED
  BY <1>1, FifoInitial, PipeHasInvariant, PTL DEF Spec, FifoSpec, Fifo!Spec
=============================================================================
