------------------------------ MODULE Umalloc ------------------------------
(***************************************************************************)
(* The user library's malloc() and free(): a circular list of free blocks  *)
(* in the order of their addresses, searched from freep.  Addresses and    *)
(* sizes are in units of a Header; base, the list's head, is below the     *)
(* heap, at 0.  The program may also call sbrk() itself.                   *)
(***************************************************************************)
EXTENDS Integers, FiniteSets, FiniteSetsExt

CONSTANTS HEAP,        \* units the process may grow to
          NALLOC,      \* 4096 in morecore()
          Units        \* the sizes asked for, header included

ASSUME UmallocAssumption == NALLOC > 0 /\ 0 \notin Units

VARIABLES ptr, hsize,  \* s.ptr and s.size of the header at an address
          freep, brk,
          taken        \* the blocks malloc() has given out

heapvars == <<ptr, hsize, freep, brk, taken>>

base == 0
Null == -1
Addr == 0 .. HEAP

(* The blocks met from p on: h's list, followed k times.                   *)
Ring(h, p) == LET f[k \in 0 .. HEAP + 1] == IF k = 0 THEN p ELSE h.ptr[f[k - 1]] IN f
FirstAt(ring, P(_)) == ring[Min({k \in DOMAIN ring : P(ring[k])})]

Adjoins_never(h, a, b) == FALSE   \* mutant: blocks are not joined
Adjoins(h, a, b) == a + h.hsize[a] = b

free_block(h, bp) ==
  LET Between(p) == bp > p /\ bp < h.ptr[p]
      AtEnd(p) == p >= h.ptr[p] /\ (bp > p \/ bp < h.ptr[p])
      p == FirstAt(Ring(h, h.freep), LAMBDA q : Between(q) \/ AtEnd(q))
      next == h.ptr[p]
      upper == Adjoins(h, bp, next)
      s == IF upper THEN h.hsize[bp] + h.hsize[next] ELSE h.hsize[bp]
      to == IF upper THEN h.ptr[next] ELSE next
      lower == Adjoins(h, p, bp)
  IN [h EXCEPT !.hsize = [@ EXCEPT ![bp] = s, ![p] = IF lower THEN @ + s ELSE @],
               !.ptr = [@ EXCEPT ![bp] = to, ![p] = IF lower THEN to ELSE bp],
               !.freep = p]

(* The walk of malloc(): its first block that is large enough, with the    *)
(* one before it, looking once round from freep.                           *)
Fits(h, nunits) == {k \in 1 .. HEAP + 1 : h.hsize[Ring(h, h.freep)[k]] >= nunits}

Carve(h, nunits) ==
  LET k == Min(Fits(h, nunits))
      prevp == Ring(h, h.freep)[k - 1]
      p == Ring(h, h.freep)[k]
      rest == h.hsize[p] - nunits
  IN IF rest = 0
     THEN [h EXCEPT !.ptr[prevp] = h.ptr[p], !.freep = prevp, !.got = p]
     ELSE [h EXCEPT !.hsize = [@ EXCEPT ![p] = rest, ![p + rest] = nunits], !.freep = prevp, !.got = p + rest]

Heap == [ptr |-> ptr, hsize |-> hsize, freep |-> freep, got |-> Null]

Becomes(h) == ptr' = h.ptr /\ hsize' = h.hsize /\ freep' = h.freep

UmallocInit ==
  /\ ptr = [a \in Addr |-> Null] /\ hsize = [a \in Addr |-> 0]
  /\ freep = Null /\ brk = 1
  /\ taken = {}

malloc(nunits) ==
  LET h0 == IF freep # Null THEN Heap
            ELSE [Heap EXCEPT !.ptr[base] = base, !.hsize[base] = 0, !.freep = base]
      nu == IF nunits < NALLOC THEN NALLOC ELSE nunits
      h1 == free_block([h0 EXCEPT !.hsize[brk] = nu], brk)
      g == IF Fits(h0, nunits) # {} THEN h0 ELSE h1
      more == Fits(h0, nunits) = {}
  IN IF more /\ brk + nu > HEAP + 1
     THEN Becomes(h0) /\ UNCHANGED <<brk, taken>>              \* sbrk() failed
     ELSE /\ Becomes(Carve(g, nunits))
          /\ brk' = IF more THEN brk + nu ELSE brk
          /\ taken' = taken \cup {Carve(g, nunits).got}

free(bp) ==
  /\ bp \in taken
  /\ Becomes(free_block(Heap, bp))
  /\ taken' = taken \ {bp}
  /\ UNCHANGED brk

sbrk_user ==
  /\ brk <= HEAP
  /\ brk' = brk + 1
  /\ UNCHANGED <<ptr, hsize, freep, taken>>

UmallocNext ==
  \/ \E u \in Units : malloc(u)
  \/ \E bp \in taken : free(bp)
  \/ sbrk_user

UmallocSpec == UmallocInit /\ [][UmallocNext]_heapvars
-----------------------------------------------------------------------------
FreeList == IF freep = Null THEN {} ELSE {Ring(Heap, freep)[k] : k \in 0 .. HEAP + 1}
Extent(a) == a .. a + hsize[a] - 1

(* umalloc.c: whatever the order of malloc(), free() and sbrk(), the list  *)
(* goes once round base and the free blocks in the order of addresses, no  *)
(* two blocks, free or given out, overlap or pass the heap, and free       *)
(* blocks that touch have been joined.                                     *)
HeapSound ==
  /\ freep # Null =>
       /\ base \in FreeList
       /\ Cardinality({a \in FreeList : ptr[a] <= a}) = 1
  /\ \A a, b \in FreeList \cup taken :
       a # b => /\ Extent(a) \cap Extent(b) = {}
                /\ a \in FreeList /\ b \in FreeList => a + hsize[a] # b
  /\ \A a \in FreeList \cup taken : Extent(a) \subseteq 0 .. brk - 1
  /\ FreeList \cap taken = {}
=============================================================================
