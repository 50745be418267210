------------------------------- MODULE Memory -------------------------------
(***************************************************************************)
(* Physical pages and address spaces of xv6: kalloc.c, the user half of    *)
(* vm.c, and the callers that can run out of memory half-way: fork(),      *)
(* growproc() and exec().                                                  *)
(*                                                                         *)
(* Every kalloc() is a step of its own, so processes on different CPUs     *)
(* compete for the last pages in any order.  A run of kfree()s (freevm,    *)
(* deallocuvm, the bad: labels) is one step: a page handed back early      *)
(* only lets another process allocate sooner, and that is the order in     *)
(* which the allocation comes after the whole run.                         *)
(*                                                                         *)
(* Addresses are byte numbers with a small PGSIZE; KERNBASE is the end of  *)
(* the user half and, as on the machine, half of the range of a uint.      *)
(***************************************************************************)
EXTENDS Integers, Sequences, FiniteSets, FiniteSetsExt

CONSTANTS NFRAME,     \* physical pages freed by kinit1() and kinit2()
          Slot,       \* entries of the process table
          init,       \* initproc
          NPDE, NPTE, \* directory entries of the user half, entries of a page table
          PGSIZE,
          NKTAB,      \* page tables needed for the kernel's mappings (kmap[])
          Program,    \* what exec() may be asked to load: the loadable segments
          ArgBytes,   \* sizes of the argument strings and vector
          SbrkArg     \* arguments of sbrk()

ASSUME MemoryAssumption ==
  /\ {NPDE, NPTE, PGSIZE, NKTAB, NFRAME} \subseteq Nat \ {0}
  /\ NFRAME >= 4 + NKTAB
  /\ init \in Slot
  /\ SbrkArg \subseteq Int
  /\ ArgBytes \subseteq Nat

VARIABLES free,    \* kmem.freelist, as a set: the order of the list does not matter
          pstate,  \* p->state, as far as memory is concerned
          kstack,  \* p->kstack
          vm,      \* p->pgdir with everything it points to
          sz,      \* p->sz
          k,       \* the system call p is in, with its locals
          panicked

memvars == <<free, pstate, kstack, vm, sz, k, panicked>>

Frame == 1 .. NFRAME
Null == 0
KERNBASE == NPDE * NPTE * PGSIZE
Uint(x) == x % (2 * KERNBASE)
PGROUNDUP(a) == ((a + PGSIZE - 1) \div PGSIZE) * PGSIZE
Page == 0 .. NPDE * NPTE - 1
VPN(a) == a \div PGSIZE
PDX(v) == v \div NPTE

(* A page directory: its own page, the kernel's page tables, the user page *)
(* tables, the pages these map, and which of them are mapped without PTE_U.*)
NoDir == [dir |-> Null, ktab |-> {}, tab |-> [d \in 0 .. NPDE - 1 |-> Null],
          pte |-> [v \in Page |-> Null], noU |-> {}]
Mapped(t) == {v \in Page : t.pte[v] # Null}
FramesOf(t) == ({t.dir} \cup t.ktab \cup {t.tab[d] : d \in 0 .. NPDE - 1}
                \cup {t.pte[v] : v \in Page}) \ {Null}

(* The mapped pages in the range that deallocuvm(t, oldsz, newsz) frees.   *)
deallocuvm(t, oldsz, newsz) ==
  {v \in Mapped(t) : PGROUNDUP(newsz) <= v * PGSIZE /\ v * PGSIZE < oldsz}
\* mutant: deallocuvm() forgets *pte = 0
Unmap_keeps(t, vs) == t

Unmap(t, vs) == [t EXCEPT !.pte = [v \in Page |-> IF v \in vs THEN Null ELSE t.pte[v]],
                          !.noU = t.noU \ vs]

(* call: the system call; pc: its next kalloc(); t: the directory being    *)
(* built; a, lim: the loop over pages; nsz, segs, ip: exec()'s size, the   *)
(* segments it has not loaded, and whether it holds the inode and its      *)
(* transaction; mem: the page it has just allocated.                       *)
User == [call |-> "none", pc |-> "user", t |-> NoDir, a |-> 0, lim |-> 0, nsz |-> 0,
         segs |-> <<>>, ip |-> FALSE, mem |-> Null, child |-> init]

MemInit ==
  /\ free = (5 + NKTAB) .. NFRAME
  /\ pstate = [p \in Slot |-> IF p = init THEN "live" ELSE "unused"]
  /\ kstack = [p \in Slot |-> IF p = init THEN 1 ELSE Null]
  /\ vm = [p \in Slot |-> IF p = init
                          THEN [NoDir EXCEPT !.dir = 2, !.tab[0] = 3, !.pte[0] = 4,
                                             !.ktab = 5 .. 4 + NKTAB]
                          ELSE NoDir]
  /\ sz = [p \in Slot |-> IF p = init THEN PGSIZE ELSE 0]
  /\ k = [p \in Slot |-> User]
  /\ panicked = FALSE

kalloc == CHOOSE f \in free : TRUE

In(p, pc) == ~panicked /\ pstate[p] = "live" /\ k[p].pc = pc
InUser(p) == In(p, "user")
Panic == panicked' = TRUE /\ UNCHANGED <<free, pstate, kstack, vm, sz, k>>

(***************************************************************************)
(* Entering fork(), exec() and sbrk().  Their arguments, and the strings   *)
(* exec() copies, are read through the user's page table.                  *)
(***************************************************************************)
allocproc(p, c) ==
  /\ InUser(p)
  /\ pstate[c] = "unused"
  /\ pstate' = [pstate EXCEPT ![c] = "embryo"]
  /\ k' = [k EXCEPT ![p] = [User EXCEPT !.call = "fork", !.pc = "kstack", !.child = c]]
  /\ UNCHANGED <<free, kstack, vm, sz, panicked>>

exec(p, prog) ==
  /\ InUser(p)
  /\ k' = [k EXCEPT ![p] = [User EXCEPT !.call = "exec", !.pc = "dir", !.segs = prog,
                                        !.ip = TRUE]]
  /\ UNCHANGED <<free, pstate, kstack, vm, sz, panicked>>

growproc_grow(p, n) ==
  /\ InUser(p)
  /\ n > 0
  /\ LET newsz == Uint(sz[p] + n) IN
       /\ newsz < KERNBASE
       /\ k' = [k EXCEPT ![p] = [User EXCEPT !.call = "sbrk", !.pc = "page", !.lim = newsz,
                                             !.a = PGROUNDUP(sz[p])]]
  /\ UNCHANGED <<free, pstate, kstack, vm, sz, panicked>>

(* sz + n may wrap, and then nothing is freed.  When it is 0 the pages are *)
(* freed, but growproc() takes the 0 for a failure and leaves sz alone.    *)
growproc_shrink(p, n) ==
  /\ InUser(p)
  /\ n < 0
  /\ LET newsz == Uint(sz[p] + n)
         vs == deallocuvm(vm[p], sz[p], newsz)
     IN /\ newsz < sz[p]
        /\ free' = free \cup {vm[p].pte[v] : v \in vs}
        /\ vm' = [vm EXCEPT ![p] = Unmap(@, vs)]
        /\ sz' = [sz EXCEPT ![p] = IF newsz = 0 THEN @ ELSE newsz]
  /\ UNCHANGED <<pstate, kstack, k, panicked>>

fetchint_faults(p) == InUser(p) /\ Mapped(vm[p]) = {} /\ Panic

(***************************************************************************)
(* What a failed kalloc() undoes.  freevm(t) frees FramesOf(t).            *)
(***************************************************************************)
fork_bad(p, also) ==
  /\ free' = free \cup FramesOf(k[p].t) \cup also \cup ({kstack[k[p].child]} \ {Null})
  /\ kstack' = [kstack EXCEPT ![k[p].child] = Null]
  /\ pstate' = [pstate EXCEPT ![k[p].child] = "unused"]
  /\ k' = [k EXCEPT ![p] = User]
  /\ UNCHANGED <<vm, sz, panicked>>

\* mutant: allocuvm() does not kfree() the page it could not map
exec_bad_leaks(p, also) ==
  /\ free' = free \cup FramesOf(k[p].t)
  /\ k' = [k EXCEPT ![p] = User]
  /\ UNCHANGED <<pstate, kstack, vm, sz, panicked>>

exec_bad(p, also) ==
  /\ free' = free \cup FramesOf(k[p].t) \cup also
  /\ k' = [k EXCEPT ![p] = User]
  /\ UNCHANGED <<pstate, kstack, vm, sz, panicked>>

\* mutant: allocuvm() fails without deallocuvm()
allocuvm_bad_keeps(p, also) ==
  /\ free' = free \cup also
  /\ k' = [k EXCEPT ![p] = User]
  /\ UNCHANGED <<pstate, kstack, vm, sz, panicked>>

allocuvm_bad(p, also) ==
  LET vs == deallocuvm(vm[p], k[p].lim, sz[p]) IN
  /\ free' = free \cup {vm[p].pte[v] : v \in vs} \cup also
  /\ vm' = [vm EXCEPT ![p] = Unmap(@, vs)]
  /\ k' = [k EXCEPT ![p] = User]
  /\ UNCHANGED <<pstate, kstack, sz, panicked>>

(* copyuvm() does not give back the page that mappages() could not map.    *)
setupkvm_bad(p, also) ==
  \/ k[p].call = "fork" /\ fork_bad(p, {})
  \/ k[p].call = "exec" /\ exec_bad(p, also)

Bad(p, also) ==
  \/ setupkvm_bad(p, also)
  \/ k[p].call = "sbrk" /\ allocuvm_bad(p, also)

(***************************************************************************)
(* fork()'s kernel stack, then setupkvm() for fork() and exec().           *)
(***************************************************************************)
kstack_alloc(p) ==
  /\ In(p, "kstack")
  /\ \/ free = {} /\ fork_bad(p, {})
     \/ /\ free # {}
        /\ kstack' = [kstack EXCEPT ![k[p].child] = kalloc]
        /\ free' = free \ {kalloc}
        /\ k' = [k EXCEPT ![p].pc = "dir"]
        /\ UNCHANGED <<pstate, vm, sz, panicked>>

setupkvm_dir(p) ==
  /\ In(p, "dir")
  /\ \/ free = {} /\ setupkvm_bad(p, {})
     \/ /\ free # {}
        /\ free' = free \ {kalloc}
        /\ k' = [k EXCEPT ![p].t.dir = kalloc, ![p].pc = "ktab"]
        /\ UNCHANGED <<pstate, kstack, vm, sz, panicked>>

setupkvm_mappages(p) ==
  /\ In(p, "ktab")
  /\ \/ free = {} /\ setupkvm_bad(p, {})
     \/ /\ free # {}
        /\ free' = free \ {kalloc}
        /\ LET t == [k[p].t EXCEPT !.ktab = @ \cup {kalloc}] IN
             k' = [k EXCEPT ![p].t = t,
                            ![p].lim = IF k[p].call = "fork" THEN sz[p] ELSE 0,
                            ![p].pc = CASE Cardinality(t.ktab) < NKTAB -> "ktab"
                                        [] k[p].call = "fork" -> "page"
                                        [] OTHER -> "seg"]
        /\ UNCHANGED <<pstate, kstack, vm, sz, panicked>>

(***************************************************************************)
(* The loops of allocuvm() and copyuvm(): a page, then its mapping, which  *)
(* may need a page table.  sbrk() works on the process's own directory.    *)
(***************************************************************************)
Dir(p) == IF k[p].call = "sbrk" THEN vm[p] ELSE k[p].t

page(p) ==
  /\ In(p, "page")
  /\ k[p].a < k[p].lim
  /\ \/ k[p].call = "fork" /\ VPN(k[p].a) \notin Mapped(vm[p]) /\ Panic
     \/ /\ k[p].call = "fork" => VPN(k[p].a) \in Mapped(vm[p])
        /\ \/ free = {} /\ Bad(p, {})
           \/ /\ free # {}
              /\ free' = free \ {kalloc}
              /\ k' = [k EXCEPT ![p].mem = kalloc, ![p].pc = "map"]
              /\ UNCHANGED <<pstate, kstack, vm, sz, panicked>>

\* mutant: copyuvm() maps with PTE_W|PTE_U instead of the parent's flags
Map_user(p, t) ==
  LET v == VPN(k[p].a)
      t2 == [t EXCEPT !.pte[v] = k[p].mem]
      next == [k[p] EXCEPT !.mem = Null, !.a = @ + PGSIZE, !.pc = "page"]
  IN /\ panicked' = (v \in Mapped(t))
     /\ IF k[p].call = "sbrk"
        THEN vm' = [vm EXCEPT ![p] = t2] /\ k' = [k EXCEPT ![p] = next]
        ELSE UNCHANGED vm /\ k' = [k EXCEPT ![p] = [next EXCEPT !.t = t2]]
     /\ UNCHANGED <<pstate, kstack, sz>>

(* mappages() of one page: t is the directory, with its page table there.  *)
Map(p, t) ==
  LET v == VPN(k[p].a)
      t2 == [t EXCEPT !.pte[v] = k[p].mem,
                      !.noU = IF k[p].call = "fork" /\ v \in vm[p].noU THEN @ \cup {v} ELSE @]
      next == [k[p] EXCEPT !.mem = Null, !.a = @ + PGSIZE, !.pc = "page"]
  IN /\ panicked' = (v \in Mapped(t))      \* panic("remap")
     /\ IF k[p].call = "sbrk"
        THEN vm' = [vm EXCEPT ![p] = t2] /\ k' = [k EXCEPT ![p] = next]
        ELSE UNCHANGED vm /\ k' = [k EXCEPT ![p] = [next EXCEPT !.t = t2]]
     /\ UNCHANGED <<pstate, kstack, sz>>

mappages(p) ==
  LET d == PDX(VPN(k[p].a)) IN
  /\ In(p, "map")
  /\ \/ Dir(p).tab[d] # Null /\ UNCHANGED free /\ Map(p, Dir(p))
     \/ Dir(p).tab[d] = Null /\ free = {} /\ Bad(p, {k[p].mem})
     \/ /\ Dir(p).tab[d] = Null
        /\ free # {}
        /\ free' = free \ {kalloc}
        /\ Map(p, [Dir(p) EXCEPT !.tab[d] = kalloc])

LoopDone(p, call) == In(p, "page") /\ k[p].a >= k[p].lim /\ k[p].call = call

fork_done(p) ==
  /\ LoopDone(p, "fork")
  /\ vm' = [vm EXCEPT ![k[p].child] = k[p].t]
  /\ sz' = [sz EXCEPT ![k[p].child] = sz[p]]
  /\ pstate' = [pstate EXCEPT ![k[p].child] = "live"]
  /\ k' = [k EXCEPT ![p] = User]
  /\ UNCHANGED <<free, kstack, panicked>>

growproc_done(p) ==
  /\ LoopDone(p, "sbrk")
  /\ sz' = [sz EXCEPT ![p] = k[p].lim]
  /\ k' = [k EXCEPT ![p] = User]
  /\ UNCHANGED <<free, pstate, kstack, vm, panicked>>

(***************************************************************************)
(* exec(): the segments one after the other, then the stack and its guard  *)
(* page, the arguments, and the commit.  A segment ends at vaddr + memsz;  *)
(* "early" and "late" are the checks and short reads that make exec() give *)
(* up before and after allocuvm() of that segment.                         *)
(***************************************************************************)
Stay == UNCHANGED <<free, pstate, kstack, vm, sz, panicked>>

exec_segment(p) ==
  /\ In(p, "seg")
  /\ k[p].segs # <<>>
  /\ LET s == Head(k[p].segs) IN
     \/ s.fails = "early" /\ exec_bad(p, {})
     \/ s.fails # "early" /\ s.end >= KERNBASE /\ exec_bad(p, {})
     \/ /\ s.fails # "early" /\ s.end < KERNBASE
        /\ k' = [k EXCEPT ![p].pc = "page", ![p].a = PGROUNDUP(k[p].nsz),
                          ![p].lim = IF s.end < k[p].nsz THEN k[p].nsz ELSE s.end]
        /\ Stay

(* allocuvm() returns the new size, or the old one when it is larger; a    *)
(* size of 0 counts as a failure.  loaduvm() needs the pages to be there.  *)
exec_loaduvm(p) ==
  /\ LoopDone(p, "exec")
  /\ k[p].ip
  /\ \/ (k[p].lim = 0 \/ Head(k[p].segs).fails = "late") /\ exec_bad(p, {})
     \/ /\ k[p].lim # 0 /\ Head(k[p].segs).fails # "late"
        /\ k' = [k EXCEPT ![p].nsz = k[p].lim, ![p].segs = Tail(@), ![p].pc = "seg"]
        /\ panicked' = (\E v \in Page : v * PGSIZE < Head(k[p].segs).end /\ v \notin Mapped(k[p].t))
        /\ UNCHANGED <<free, pstate, kstack, vm, sz>>

exec_stack(p) ==
  /\ In(p, "seg")
  /\ k[p].segs = <<>>
  /\ LET base == PGROUNDUP(k[p].nsz)
         top == Uint(base + 2 * PGSIZE)
     IN \/ top >= KERNBASE /\ exec_bad(p, {})
        \/ /\ top < KERNBASE
           /\ k' = [k EXCEPT ![p].ip = FALSE, ![p].nsz = top, ![p].a = base, ![p].lim = top,
                             ![p].pc = "page"]
           /\ Stay

clearpteu(p) ==
  /\ LoopDone(p, "exec")
  /\ ~k[p].ip
  /\ k' = [k EXCEPT ![p].t.noU = @ \cup {VPN(k[p].nsz - 2 * PGSIZE)}, ![p].pc = "args"]
  /\ Stay

(* Can copyout() write the n bytes below the top of the new stack?         *)
copyout(t, top, n) ==
  /\ n <= top
  /\ \A v \in Page : (v + 1) * PGSIZE > top - n /\ v * PGSIZE < top
                       => v \in Mapped(t) \ t.noU

exec_args(p, n) ==
  /\ In(p, "args")
  /\ ~copyout(k[p].t, k[p].nsz, n)
  /\ exec_bad(p, {})

exec_commit(p, n) ==
  /\ In(p, "args")
  /\ copyout(k[p].t, k[p].nsz, n)
  /\ vm' = [vm EXCEPT ![p] = k[p].t]
  /\ sz' = [sz EXCEPT ![p] = k[p].nsz]
  /\ free' = free \cup FramesOf(vm[p])
  /\ k' = [k EXCEPT ![p] = User]
  /\ UNCHANGED <<pstate, kstack, panicked>>

(* exit() keeps the stack and the address space; wait() frees them.        *)
exit(p) ==
  /\ InUser(p)
  /\ p # init
  /\ pstate' = [pstate EXCEPT ![p] = "zombie"]
  /\ UNCHANGED <<free, kstack, vm, sz, k, panicked>>

wait(p, c) ==
  /\ InUser(p)
  /\ pstate[c] = "zombie"
  /\ free' = free \cup FramesOf(vm[c]) \cup {kstack[c]}
  /\ kstack' = [kstack EXCEPT ![c] = Null]
  /\ vm' = [vm EXCEPT ![c] = NoDir]
  /\ pstate' = [pstate EXCEPT ![c] = "unused"]
  /\ UNCHANGED <<sz, k, panicked>>

MemNext == \E p \in Slot :
  \/ \E c \in Slot : allocproc(p, c) \/ wait(p, c)
  \/ \E prog \in Program : exec(p, prog)
  \/ \E n \in SbrkArg : growproc_grow(p, n) \/ growproc_shrink(p, n)
  \/ \E n \in ArgBytes : exec_args(p, n) \/ exec_commit(p, n)
  \/ fetchint_faults(p) \/ kstack_alloc(p) \/ setupkvm_dir(p) \/ setupkvm_mappages(p)
  \/ page(p) \/ mappages(p) \/ fork_done(p) \/ growproc_done(p)
  \/ exec_segment(p) \/ exec_loaduvm(p) \/ exec_stack(p) \/ clearpteu(p) \/ exit(p)

MemSpec == MemInit /\ [][MemNext]_memvars

-----------------------------------------------------------------------------
DirOK(t) ==
  /\ t.dir \in Frame \cup {Null}
  /\ t.ktab \subseteq Frame
  /\ t.tab \in [0 .. NPDE - 1 -> Frame \cup {Null}]
  /\ t.pte \in [Page -> Frame \cup {Null}]
  /\ t.noU \subseteq Page

(* The types of the variables.                                             *)
MemTypeOK ==
  /\ free \subseteq Frame
  /\ pstate \in [Slot -> {"unused", "embryo", "live", "zombie"}]
  /\ kstack \in [Slot -> Frame \cup {Null}]
  /\ sz \in [Slot -> 0 .. KERNBASE]
  /\ panicked \in BOOLEAN
  /\ \A p \in Slot : /\ DirOK(vm[p]) /\ DirOK(k[p].t)
                     /\ k[p].mem \in Frame \cup {Null}
                     /\ {k[p].a, k[p].lim, k[p].nsz} \subseteq 0 .. KERNBASE + PGSIZE
                     /\ k[p].pc \in {"user", "kstack", "dir", "ktab", "page", "map", "seg", "args"}

(* The pages in somebody's hands, and the number of hands.                 *)
Held == UNION {FramesOf(vm[p]) \cup FramesOf(k[p].t) \cup ({kstack[p], k[p].mem} \ {Null}) :
               p \in Slot}
Slots(t) == Cardinality({d \in 0 .. NPDE - 1 : t.tab[d] # Null}) + Cardinality(Mapped(t))
            + Cardinality(t.ktab) + Cardinality({t.dir} \ {Null})
Lost == Frame \ (free \cup Held)

(* However allocations, failures and frees of several processes interleave,*)
(* no page is free while it is in use, and none is used in two places: not *)
(* in two address spaces, not as a page table and a user page.             *)
OneOwner ==
  /\ free \cap Held = {}
  /\ Cardinality(Held) =
       MapThenSumSet(LAMBDA p : Slots(vm[p]) + Slots(k[p].t) + Cardinality({kstack[p]} \ {Null})
                                + Cardinality({k[p].mem} \ {Null}), Slot)

(* Every page kalloc() hands out is in at most one place, and the          *)
(* variables that name pages have their types.                             *)
MemorySound == MemTypeOK /\ OneOwner

(* A page is lost (on no list and in no hand) only when mappages() fails   *)
(* in copyuvm(): every other error path gives back all it had taken.       *)
LostOnlyByCopyuvm ==
  [][Lost' # Lost => \E p \in Slot : k[p].call = "fork" /\ k[p].pc = "map" /\ free = {}]_memvars

(* Outside sbrk() a process has exactly the pages below its size, and      *)
(* during an sbrk() that grows it those it has come to; a failed call      *)
(* leaves no hole and no surplus.  The exception is a process that has     *)
(* given all its memory back with sbrk(-sz).                               *)
Hollow(p) == 0 \notin Mapped(vm[p])
ImageMatchesSize ==
  \A p \in Slot :
    pstate[p] = "live" /\ ~Hollow(p) =>
      Mapped(vm[p]) = {v \in Page : v * PGSIZE < (IF k[p].call = "sbrk" THEN k[p].a ELSE sz[p])}

(* fork(), exec(), sbrk(), exit() and wait() do not panic ("remap",        *)
(* "copyuvm: page not present", "loaduvm: address should exist", a kernel  *)
(* page fault on the user's arguments), except on behalf of a process      *)
(* that has given all its memory back.                                     *)
PanicsOnlyWhenHollow == panicked => \E p \in Slot : pstate[p] = "live" /\ Hollow(p)

(* An image is its size's worth of pages, so the kernel never trips over   *)
(* a hole in one: a panic comes with a process without memory.             *)
ImageSound == ImageMatchesSize /\ PanicsOnlyWhenHollow

(* A child gets the pages of its parent, with the same size and the same   *)
(* inaccessible page, although the parent's image was copied page by page. *)
Copied(c) ==
  \E p \in Slot : /\ k[p].call = "fork" /\ k[p].child = c
                  /\ Mapped(vm'[c]) = Mapped(vm[p])
                  /\ vm'[c].noU = vm[p].noU
                  /\ sz'[c] = sz[p]

(* A program that exec() has just committed has a guard page right below   *)
(* its stack, so its arguments did not reach the program's own pages.      *)
Guarded(p) ==
  LET top == VPN(sz'[p]) IN
  /\ top - 2 \in vm'[p].noU
  /\ top - 1 \in Mapped(vm'[p]) \ vm'[p].noU

(* The image that fork() or exec() hands over, built page by page while    *)
(* others allocate and free, is complete: the parent's, or the program's   *)
(* with a guarded stack.                                                   *)
ImageHandedOver ==
  [][\A p \in Slot : /\ pstate[p] = "embryo" /\ pstate'[p] = "live" => Copied(p)
                     /\ k[p].call = "exec" /\ vm'[p] # vm[p] => Guarded(p)]_memvars
=============================================================================
