------------------------------ MODULE MCMemory ------------------------------
(* Small instances of memory and of scheduling, one of which the first     *)
(* state chooses: the two models share no variable, so a run explores      *)
(* their sum, not their product.                                           *)
EXTENDS Sched, Memory

CONSTANTS c1, c2

VARIABLE part

(* Two processes that compete for a handful of pages.                      *)
Seg(end, fails) == [end |-> end, fails |-> fails]
MCProgram == {<<Seg(2, "no")>>, <<Seg(1, "no"), Seg(3, "late")>>, <<Seg(3, "early")>>,
              <<Seg(KERNBASE - 1, "no")>>, <<Seg(KERNBASE, "no")>>}
MCSbrkArg == {-2, -1, 3, -KERNBASE}

MCInit == part \in {"memory", "sched"} /\ MemInit /\ Init

(* A panic stops the kernel, so that only scheduling must go on.           *)
MCNext ==
  \/ part = "memory" /\ MemNext /\ UNCHANGED <<part, vars>>
  \/ part = "sched" /\ Next /\ UNCHANGED <<part, memvars>>
  \/ part = "memory" /\ UNCHANGED <<part, vars, memvars>>

MCSpec == MCInit /\ [][MCNext]_<<part, vars, memvars>>

(* Physical pages are interchangeable: two states are the same when the    *)
(* address spaces have the same shape and as many pages are free and as    *)
(* many lost, which also says whether some page is held twice.             *)
Shape(t) == <<t.dir # Null, Cardinality(t.ktab), {d \in DOMAIN t.tab : t.tab[d] # Null},
              Mapped(t), t.noU>>
PageCounts ==
  <<Cardinality(free), Cardinality(Lost), pstate, sz, panicked,
    [p \in Slot |-> <<kstack[p] # Null, Shape(vm[p]), Shape(k[p].t),
                      [k[p] EXCEPT !.t = Null, !.mem = (@ # Null)]>>]>>

(* So are the two CPUs: a state is the same as the one with c and d        *)
(* exchanged.                                                              *)
CpuLook(c) == <<ncli[c], intena[c], fl_if[c], spin[c], cproc[c], spc[c], scan[c],
                {l \in DOMAIN lock : lock[l] = c}>>
CpuLooks == {<<CpuLook(c1), CpuLook(c2)>>, <<CpuLook(c2), CpuLook(c1)>>}

Seen == IF part = "memory" THEN PageCounts
        ELSE <<CpuLooks, state, chan, pc, saved, intr, locked, panic>>
=============================================================================
