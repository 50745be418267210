----------------------------- MODULE PipeFifo -----------------------------
(* What a pipe promises: a bounded queue of bytes, read in the order written.  *)
(* A reader gets end of file only when the queue is empty and no writer is     *)
(* left; nothing goes through a pipe whose ends are both closed.               *)
EXTENDS Integers, Sequences

CONSTANTS Byte, PIPESIZE

VARIABLES queue, ropen, wopen, ret

vars == <<queue, ropen, wopen, ret>>

Init ==
    /\ queue = <<>>
    /\ ropen = TRUE /\ wopen = TRUE
    /\ ret = <<>>

Write ==
    /\ wopen
    /\ \E n \in 1..PIPESIZE - Len(queue) : \E s \in [1..n -> Byte] : queue' = queue \o s
    /\ UNCHANGED <<ropen, wopen, ret>>

Read ==
    /\ ropen
    /\ \E n \in 1..Len(queue) :
         /\ ret' = SubSeq(queue, 1, n)
         /\ queue' = SubSeq(queue, n + 1, Len(queue))
    /\ UNCHANGED <<ropen, wopen>>

EndOfFile ==
    /\ ropen /\ ~wopen /\ queue = <<>>
    /\ ret' = <<>>
    /\ UNCHANGED <<queue, ropen, wopen>>

\* A read that a kill() interrupted returns no data and takes none.
Interrupted ==
    /\ ropen
    /\ ret' = <<-1>>
    /\ UNCHANGED <<queue, ropen, wopen>>

CloseRead == ropen /\ ropen' = FALSE /\ UNCHANGED <<queue, wopen, ret>>
CloseWrite == wopen /\ wopen' = FALSE /\ UNCHANGED <<queue, ropen, ret>>

Next == Write \/ Read \/ EndOfFile \/ Interrupted \/ CloseRead \/ CloseWrite

Spec == Init /\ [][Next]_vars
=============================================================================
