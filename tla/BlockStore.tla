----------------------------- MODULE BlockStore -----------------------------
(* What the buffer cache and the disk driver promise together: one copy of     *)
(* each block, that a process locks, sees as the last one to hold it left it,  *)
(* may change, and unlocks.                                                    *)
EXTENDS Integers

CONSTANTS Proc, Block, Val, InitVal, None

VARIABLES content, owner

vars == <<content, owner>>

Init == content = [n \in Block |-> InitVal] /\ owner = [n \in Block |-> None]

Lock(p, n) == owner[n] = None /\ owner' = [owner EXCEPT ![n] = p] /\ UNCHANGED content

Write(p, n, v) == owner[n] = p /\ content' = [content EXCEPT ![n] = v] /\ UNCHANGED owner

Unlock(p, n) == owner[n] = p /\ owner' = [owner EXCEPT ![n] = None] /\ UNCHANGED content

Next ==
    \E p \in Proc, n \in Block : Lock(p, n) \/ Unlock(p, n) \/ \E v \in Val : Write(p, n, v)

Spec == Init /\ [][Next]_vars
=============================================================================
