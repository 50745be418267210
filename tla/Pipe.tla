-------------------------------- MODULE Pipe --------------------------------
(* A pipe between processes that share its two ends: pipe.c, with fileclose()  *)
(* of file.c, which takes the last reference away before it calls pipeclose(). *)
(* A step is what runs under p->lock from one sleep() to the next.             *)
EXTENDS Integers, Sequences, FiniteSets

CONSTANTS
    Readers, Writers,   \* the processes that start with each end open
    Byte,
    PIPESIZE,
    UINT,      \* 2^32: nread and nwrite are counters modulo this
    Text,      \* what programs write in one call: sequences of bytes
    MAXN       \* bound on the n of one read

ASSUME PipeConstants ==
    /\ PIPESIZE \in Nat \ {0} /\ MAXN \in Nat \ {0} /\ Byte \subseteq Nat
    /\ Text \subseteq Seq(Byte) /\ <<>> \notin Text
    /\ UINT \in Nat /\ UINT > PIPESIZE /\ UINT % PIPESIZE = 0

Proc == Readers \cup Writers
Index == 0..PIPESIZE - 1

VARIABLES
    data, nread, nwrite, readopen, writeopen,   \* struct pipe
    freed,     \* kfree() of the pipe's page
    rref, wref,   \* f->ref of the two ends, as the processes that hold them
    pc, asleep, killed,
    buf,       \* what a writer has still to write
    ret        \* what the last read returned: the bytes, <<-1>> for an error

vars == <<data, nread, nwrite, readopen, writeopen, freed, rref, wref, pc, asleep, killed, buf, ret>>

Init ==
    /\ data = [k \in Index |-> 0]
    /\ nread = 0 /\ nwrite = 0
    /\ readopen = TRUE /\ writeopen = TRUE
    /\ freed = FALSE
    /\ rref = Readers /\ wref = Writers
    /\ pc = [p \in Proc |-> "user"]
    /\ asleep = [p \in Proc |-> "no"]
    /\ killed = [p \in Proc |-> FALSE]
    /\ buf = [p \in Proc |-> <<>>]
    /\ ret = <<>>

At(p, l) == pc[p] = l /\ asleep[p] = "no"

Used == (nwrite - nread) % UINT
Space_OffByOne == PIPESIZE + 1 - Used
Space == PIPESIZE - Used

wakeup(chan) == [p \in Proc |-> IF asleep[p] = chan THEN "no" ELSE asleep[p]]

Least(a, b) == IF a < b THEN a ELSE b
-----------------------------------------------------------------------------
\* write() by a process that has the write end; trap() checks killed first.
sys_write(p) ==
    /\ At(p, "user") /\ p \in wref /\ ~killed[p]
    /\ \E s \in Text : buf' = [buf EXCEPT ![p] = s]
    /\ pc' = [pc EXCEPT ![p] = "pipewrite"]
    /\ UNCHANGED <<data, nread, nwrite, readopen, writeopen, freed, rref, wref, asleep, killed, ret>>

pipewrite_NoWakeup(p) ==
    LET n == Least(Len(buf[p]), Space)
        done == n = Len(buf[p])
        fail == ~done /\ (~readopen \/ killed[p])
    IN
    /\ At(p, "pipewrite")
    /\ data' = [k \in Index |-> LET i == (k - nwrite) % PIPESIZE
                                IN  IF i < n THEN buf[p][i + 1] ELSE data[k]]
    /\ nwrite' = (nwrite + n) % UINT
    /\ buf' = [buf EXCEPT ![p] = IF fail THEN <<>> ELSE SubSeq(@, n + 1, Len(@))]
    /\ pc' = [pc EXCEPT ![p] = IF done \/ fail THEN "user" ELSE @]
    /\ asleep' = IF done THEN wakeup("nread")
                 ELSE IF fail THEN asleep
                 ELSE [asleep EXCEPT ![p] = "nwrite"]
    /\ UNCHANGED <<nread, readopen, writeopen, freed, rref, wref, killed, ret>>

\* pipewrite(): the bytes that fit, then return, or fail, or sleep on nwrite.
pipewrite(p) ==
    LET n == Least(Len(buf[p]), Space)
        done == n = Len(buf[p])
        fail == ~done /\ (~readopen \/ killed[p])
    IN
    /\ At(p, "pipewrite")
    /\ data' = [k \in Index |-> LET i == (k - nwrite) % PIPESIZE
                                IN  IF i < n THEN buf[p][i + 1] ELSE data[k]]
    /\ nwrite' = (nwrite + n) % UINT
    /\ buf' = [buf EXCEPT ![p] = IF fail THEN <<>> ELSE SubSeq(@, n + 1, Len(@))]
    /\ pc' = [pc EXCEPT ![p] = IF done \/ fail THEN "user" ELSE @]
    /\ asleep' = IF done THEN wakeup("nread")
                 ELSE IF fail THEN asleep
                 ELSE [wakeup("nread") EXCEPT ![p] = "nwrite"]
    /\ UNCHANGED <<nread, readopen, writeopen, freed, rref, wref, killed, ret>>

sys_read(p) ==
    /\ At(p, "user") /\ p \in rref /\ ~killed[p]
    /\ pc' = [pc EXCEPT ![p] = "piperead"]
    /\ UNCHANGED <<data, nread, nwrite, readopen, writeopen, freed, rref, wref, asleep, killed, buf, ret>>

Contents == [i \in 1..Used |-> data[(nread + i - 1) % PIPESIZE]]

\* piperead() that finds nothing to read from a pipe with a writer.
piperead_empty(p) ==
    /\ At(p, "piperead") /\ nread = nwrite /\ writeopen
    /\ IF killed[p]
         THEN /\ pc' = [pc EXCEPT ![p] = "user"]
              /\ ret' = <<-1>>
              /\ UNCHANGED asleep
         ELSE /\ asleep' = [asleep EXCEPT ![p] = "nread"]
              /\ UNCHANGED <<pc, ret>>
    /\ UNCHANGED <<data, nread, nwrite, readopen, writeopen, freed, rref, wref, killed, buf>>

\* piperead() that copies what there is, at most n bytes.
piperead(p, n) ==
    LET m == Least(n, Used) IN
    /\ At(p, "piperead") /\ (nread # nwrite \/ ~writeopen)
    /\ ret' = SubSeq(Contents, 1, m)
    /\ nread' = (nread + m) % UINT
    /\ asleep' = wakeup("nwrite")
    /\ pc' = [pc EXCEPT ![p] = "user"]
    /\ UNCHANGED <<data, nwrite, readopen, writeopen, freed, rref, wref, killed, buf>>
-----------------------------------------------------------------------------
\* fileclose() of one end, by close() or exit(): the last one to hold it goes on
\* to pipeclose() after ftable.lock is released.
fileclose(p, w) ==
    /\ At(p, "user") /\ p \in (IF w THEN wref ELSE rref)
    /\ wref' = IF w THEN wref \ {p} ELSE wref
    /\ rref' = IF w THEN rref ELSE rref \ {p}
    /\ pc' = [pc EXCEPT ![p] = IF w /\ wref = {p} THEN "close_write"
                               ELSE IF ~w /\ rref = {p} THEN "close_read" ELSE @]
    /\ UNCHANGED <<data, nread, nwrite, readopen, writeopen, freed, asleep, killed, buf, ret>>

pipeclose_FreeFirst(p, w) ==
    /\ At(p, IF w THEN "close_write" ELSE "close_read")
    /\ writeopen' = (writeopen /\ ~w) /\ readopen' = (readopen /\ w)
    /\ asleep' = wakeup(IF w THEN "nread" ELSE "nwrite")
    /\ freed' = (rref = {} /\ wref = {})
    /\ pc' = [pc EXCEPT ![p] = "user"]
    /\ UNCHANGED <<data, nread, nwrite, rref, wref, killed, buf, ret>>

pipeclose(p, w) ==
    /\ At(p, IF w THEN "close_write" ELSE "close_read")
    /\ writeopen' = (writeopen /\ ~w) /\ readopen' = (readopen /\ w)
    /\ asleep' = wakeup(IF w THEN "nread" ELSE "nwrite")
    /\ freed' = (~readopen' /\ ~writeopen')
    /\ pc' = [pc EXCEPT ![p] = "user"]
    /\ UNCHANGED <<data, nread, nwrite, rref, wref, killed, buf, ret>>

\* kill(): a process asleep in the pipe wakes and finds killed set.
kill(p) ==
    /\ ~killed[p]
    /\ killed' = [killed EXCEPT ![p] = TRUE]
    /\ asleep' = [asleep EXCEPT ![p] = "no"]
    /\ UNCHANGED <<data, nread, nwrite, readopen, writeopen, freed, rref, wref, pc, buf, ret>>

Kernel(p) ==
    \/ pipewrite(p) \/ piperead_empty(p)
    \/ \E n \in 1..MAXN : piperead(p, n)
    \/ \E w \in BOOLEAN : pipeclose(p, w)

\* The program's next call on an end it holds.
Program(p) == sys_write(p) \/ sys_read(p) \/ \E w \in BOOLEAN : fileclose(p, w)

\* Every program has closed its ends and gone.
Done == rref = {} /\ wref = {} /\ (\A p \in Proc : pc[p] = "user") /\ UNCHANGED vars

Next == (\E p \in Proc : Kernel(p) \/ Program(p) \/ kill(p)) \/ Done

Spec == Init /\ [][Next]_vars

\* The scheduler runs every process; a program goes on using the ends it holds,
\* or exits and closes them.
FairSpec == Spec /\ \A p \in Proc : WF_vars(Kernel(p)) /\ WF_vars(Program(p))
-----------------------------------------------------------------------------
(* Properties *)

TypeOK ==
    /\ data \in [Index -> Byte \cup {0}]
    /\ nread \in 0..UINT - 1 /\ nwrite \in 0..UINT - 1 /\ Used \in 0..PIPESIZE
    /\ readopen \in BOOLEAN /\ writeopen \in BOOLEAN /\ freed \in BOOLEAN
    /\ rref \subseteq Proc /\ wref \subseteq Proc
    /\ pc \in [Proc -> {"user", "pipewrite", "piperead", "close_read", "close_write"}]
    /\ asleep \in [Proc -> {"no", "nread", "nwrite"}]
    /\ killed \in [Proc -> BOOLEAN]

\* The pipe is a bounded queue of bytes whatever the interleaving of readers,
\* writers and closers, and across the wrap of nread and nwrite.
Fifo == INSTANCE PipeFifo WITH queue <- Contents, ropen <- readopen, wopen <- writeopen

FifoSpec == Fifo!Spec

\* pipewrite(), piperead() and pipeclose() never run on a pipe whose page has
\* been freed, and it is freed once both ends are closed.
NoUseAfterFree ==
    /\ freed <=> ~readopen /\ ~writeopen
    /\ freed => \A p \in Proc : pc[p] = "user" /\ asleep[p] = "no"

\* A process asleep in the pipe has a reason: a writer a full pipe that some
\* process can read, a reader one that some process can write and that is
\* empty (a writer that is killed in a full pipe returns without the wakeup).
NoLostWakeup ==
    \A p \in Proc :
        /\ asleep[p] = "nread" => writeopen /\ ~killed[p] /\ (Used = 0 \/ \E q \in Proc : killed[q])
        /\ asleep[p] = "nwrite" => Used = PIPESIZE /\ readopen /\ ~killed[p]

\* The pipe is used only while it exists, and nobody sleeps in it in vain.
PipeSafe == TypeOK /\ NoUseAfterFree /\ NoLostWakeup

\* A reader or writer asleep in the pipe is woken, as long as the programs on
\* the other end use it or go away.
SleeperWoken == \A p \in Proc : asleep[p] # "no" ~> asleep[p] = "no"
=============================================================================
