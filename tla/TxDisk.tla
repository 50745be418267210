------------------------------- MODULE TxDisk -------------------------------
(* What the log promises the file system: a disk on which the writes of a      *)
(* system call become durable all together, together with those of the system *)
(* calls it overlapped, and on which a crash undoes what is not yet durable.   *)
CONSTANTS Proc, Block, Val, InitVal

VARIABLES
    stable,    \* what a crash and a recovery would leave
    current,   \* what a reader sees now
    open       \* processes between begin_op() and end_op()

vars == <<stable, current, open>>

Init ==
    /\ stable = [b \in Block |-> InitVal]
    /\ current = stable
    /\ open = {}

Begin(p) == p \notin open /\ open' = open \cup {p} /\ UNCHANGED <<stable, current>>

Write(p) ==
    /\ p \in open
    /\ \E b \in Block, v \in Val : current' = [current EXCEPT ![b] = v]
    /\ UNCHANGED <<stable, open>>

End(p) == p \in open /\ open' = open \ {p} /\ UNCHANGED <<stable, current>>

\* Only between system calls: no system call is ever half on disk.
Commit == open = {} /\ stable' = current /\ UNCHANGED <<current, open>>

Crash == current' = stable /\ open' = {} /\ UNCHANGED stable

Next == Commit \/ Crash \/ \E p \in Proc : Begin(p) \/ Write(p) \/ End(p)

Spec == Init /\ [][Next]_vars
=============================================================================
