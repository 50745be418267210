---------------------------- MODULE BcacheSteps -----------------------------
(* Proofs about Bcache: its inductive invariant, and that the steps of a       *)
(* buffer's holder and of the IDE driver keep it and map to steps of           *)
(* BlockStore.                                                                 *)
EXTENDS Bcache, TLAPS

Holding == {"have", "modified", "iderw", "iowait"}
InQueue(b) == \E i \in 1..Len(idequeue) : idequeue[i] = b

\* A process that is in bread() or has a buffer has one that is on a block.
UseInv ==
    \A p \in Proc :
        /\ pc[p] = "idle" <=> cur[p] = None
        /\ cur[p] # None => blockno[cur[p]] # None

\* b->lock is held from acquiresleep() to releasesleep().
HolderInv ==
    \A b \in Buf, p \in Proc : holder[b] = p <=> cur[p] = b /\ pc[p] \in Holding

\* B_VALID and B_DIRTY say what is left to do for the buffer's holder.
FlagsInv ==
    /\ \A b \in Buf : (dirty[b] => valid[b]) /\ (valid[b] => blockno[b] # None)
    /\ \A p \in Proc :
        /\ pc[p] \in {"have", "modified"} => valid[cur[p]]
        /\ pc[p] = "iderw" => ~valid[cur[p]] \/ dirty[cur[p]]
        /\ pc[p] = "iowait" /\ InQueue(cur[p]) => ~valid[cur[p]] \/ dirty[cur[p]]
        /\ pc[p] = "iowait" /\ ~InQueue(cur[p]) => valid[cur[p]] /\ ~dirty[cur[p]] /\ ~asleep[p]

CacheInv == CacheConsistent /\ UseInv /\ HolderInv /\ FlagsInv

\* A valid buffer that nobody has changed since has the block's contents, and
\* a write under way has put them on the disk.
ContentInv ==
    /\ \A b \in Buf : valid[b] /\ ~dirty[b] /\ (\A p \in Proc : cur[p] = b => pc[p] # "modified")
                         => data[b] = disk[blockno[b]]
    /\ idequeue # <<>> /\ dirty[idequeue[1]] => disk[blockno[idequeue[1]]] = data[idequeue[1]]
-----------------------------------------------------------------------------
\* The request queue as indices and entries.
LEMMA QueueFacts ==
    ASSUME TypeOK
    PROVE  /\ DOMAIN idequeue = 1..Len(idequeue) /\ Len(idequeue) \in Nat
           /\ \A i \in 1..Len(idequeue) : idequeue[i] \in Buf
           /\ idequeue = <<>> <=> Len(idequeue) = 0
BY DEF TypeOK

\* The queue is empty when its length is 0.
LEMMA EmptyQueue == ASSUME NEW q \in Seq(Buf) PROVE q = <<>> <=> Len(q) = 0
OBVIOUS

\* A step that changes nothing keeps the invariants.
LEMMA StutterInv == ASSUME CacheInv, UNCHANGED vars PROVE CacheInv' /\ (ContentInv => ContentInv')
<1>1. TypeOK' BY Zenon DEF vars, CacheInv, CacheConsistent, TypeOK
<1>2. OneBuffer' /\ PanicOnlyWhenFull' BY Zenon DEF vars, CacheInv, CacheConsistent, OneBuffer, PanicOnlyWhenFull
<1>3. RefsCounted' /\ ListWhole' BY Zenon DEF vars, CacheInv, CacheConsistent, Counted, RefsCounted, Users, ListWhole
<1>4. QueueSound' BY Zenon DEF vars, CacheInv, CacheConsistent, Counted, QueueSound
<1>5. UseInv' /\ HolderInv' BY Zenon DEF vars, CacheInv, UseInv, HolderInv
<1>6. FlagsInv' BY Zenon DEF vars, CacheInv, FlagsInv, InQueue
<1>7. ContentInv => ContentInv' BY Zenon DEF vars, ContentInv
<1> QED BY Zenon, <1>1, <1>2, <1>3, <1>4, <1>5, <1>6, <1>7 DEF CacheInv, CacheConsistent, Counted

\* What a process at label l may rely on.
LEMMA AtFacts ==
    ASSUME CacheInv, NEW p \in Proc, pc[p] # "idle"
    PROVE  /\ cur[p] \in Buf /\ blockno[cur[p]] \in Block
           /\ pc[p] \in Holding => \A q \in Proc : cur[q] = cur[p] /\ pc[q] \in Holding => q = p
BY BcacheConstants DEF CacheInv, CacheConsistent, TypeOK, UseInv, HolderInv

\* The buffer of a process that holds it and does not wait for the disk has no
\* request in the queue.
LEMMA NotQueued ==
    ASSUME CacheInv, NEW p \in Proc, pc[p] \in {"have", "modified", "iderw"} PROVE ~InQueue(cur[p])
<1>1. TypeOK BY Zenon DEF CacheInv, CacheConsistent
<1>2. DOMAIN idequeue = 1..Len(idequeue) BY Zenon, <1>1, QueueFacts
<1> SUFFICES ASSUME NEW i \in DOMAIN idequeue, idequeue[i] = cur[p] PROVE FALSE BY Zenon, <1>2 DEF InQueue
<1>3. PICK q \in Proc : pc[q] = "iowait" /\ cur[q] = cur[p]
  BY Zenon DEF CacheInv, CacheConsistent, Counted, QueueSound
<1> QED BY Zenon, <1>3, AtFacts DEF Holding

\* What holds of the buffers' blocks, references and list until one of them changes.
LEMMA SameBufs ==
    ASSUME CacheInv, ~panic, UNCHANGED <<lru, blockno, refcnt, cur, panic>>
    PROVE  OneBuffer' /\ RefsCounted' /\ ListWhole' /\ PanicOnlyWhenFull'
<1>1. OneBuffer' BY Zenon DEF OneBuffer, CacheInv, CacheConsistent
<1>2. RefsCounted' BY Zenon DEF CacheInv, CacheConsistent, Counted, RefsCounted, Users
<1>3. ListWhole' BY Zenon DEF CacheInv, CacheConsistent, Counted, ListWhole
<1>4. PanicOnlyWhenFull' BY Zenon DEF PanicOnlyWhenFull
<1> QED BY Zenon, <1>1, <1>2, <1>3, <1>4

\* A step of p that changes nothing but where p is, and maybe who holds a buffer or its data.
LEMMA FlagsKept ==
    ASSUME CacheInv, NEW p \in Proc, UNCHANGED <<blockno, valid, dirty, idequeue, cur, asleep>>,
           \A q \in Proc : q # p => pc'[q] = pc[q],
           pc'[p] \in {"have", "modified"} => valid[cur[p]],
           pc'[p] = "iderw" => ~valid[cur[p]] \/ dirty[cur[p]],
           pc'[p] # "iowait"
    PROVE  FlagsInv'
<1>1. \A b \in Buf : (dirty'[b] => valid'[b]) /\ (valid'[b] => blockno'[b] # None) BY Zenon DEF CacheInv, FlagsInv
<1>2. ASSUME NEW q \in Proc
      PROVE  /\ pc'[q] \in {"have", "modified"} => valid'[cur'[q]]
             /\ pc'[q] = "iderw" => ~valid'[cur'[q]] \/ dirty'[cur'[q]]
  BY Zenon DEF CacheInv, FlagsInv
<1>3. ASSUME NEW q \in Proc
      PROVE  /\ pc'[q] = "iowait" /\ InQueue(cur[q])' => ~valid'[cur'[q]] \/ dirty'[cur'[q]]
             /\ pc'[q] = "iowait" /\ ~InQueue(cur[q])' => valid'[cur'[q]] /\ ~dirty'[cur'[q]] /\ ~asleep'[q]
  BY Zenon DEF CacheInv, FlagsInv, InQueue
<1> QED BY Zenon, <1>1, <1>2, <1>3 DEF FlagsInv

\* log_write() and bwrite() set B_DIRTY on the buffer of their caller.
LEMMA DirtyInv ==
    ASSUME CacheInv, NEW p \in Proc, log_write(p) \/ bwrite(p) PROVE CacheInv' /\ (ContentInv => ContentInv')
<1> USE BcacheConstants
<1> DEFINE b == cur[p]
<1>0. /\ pc[p] \in {"have", "modified"} /\ dirty' = [dirty EXCEPT ![b] = TRUE]
      /\ ~panic /\ UNCHANGED <<lru, blockno, refcnt, valid, data, holder, idequeue, disk, busy, cur, asleep, panic>>
  BY Zenon DEF log_write, bwrite, At
<1>l. PICK l \in {"have", "iderw"} : pc' = [pc EXCEPT ![p] = l] BY Zenon DEF log_write, bwrite, Goto
<1>e. ~panic /\ UNCHANGED <<lru, blockno, refcnt, valid, data, holder, idequeue, disk, busy, cur, asleep, panic>> BY Zenon, <1>0
<1>t. TypeOK BY Zenon DEF CacheInv, CacheConsistent
<1>a. b \in Buf /\ ~InQueue(b) /\ valid[b] BY Zenon, <1>0, AtFacts, NotQueued DEF CacheInv, FlagsInv
<1>d. dirty'[b] /\ \A c \in Buf : c # b => dirty'[c] = dirty[c] BY Zenon, <1>0, <1>a, <1>t DEF TypeOK
<1> HIDE DEF b
<1>o. \A q \in Proc : q # p => pc'[q] = pc[q] BY Zenon, <1>l, <1>t DEF TypeOK
<1>m. pc'[p] = l /\ l \in {"have", "iderw"} /\ pc[p] \in {"have", "modified"} BY Zenon, <1>0, <1>l, <1>t DEF TypeOK
<1>1. TypeOK' BY <1>0, <1>l, <1>t, Zenon DEF TypeOK
<1>2. OneBuffer' /\ RefsCounted' /\ ListWhole' /\ PanicOnlyWhenFull' BY Zenon, <1>e, SameBufs
<1>3. QueueSound' BY <1>e, <1>o, <1>m DEF CacheInv, CacheConsistent, Counted, QueueSound
<1>4. UseInv' BY Zenon, <1>e, <1>o, <1>m DEF CacheInv, UseInv
<1>5. HolderInv' BY <1>e, <1>o, <1>m DEF CacheInv, HolderInv, Holding
<1>6. FlagsInv'
  <2>2. \A c \in Buf : (dirty'[c] => valid'[c]) /\ (valid'[c] => blockno'[c] # None)
    BY <1>e, <1>a, <1>d, Zenon DEF CacheInv, FlagsInv
  <2>3. \A q \in Proc : q # p /\ pc[q] # "idle" => cur[q] \in Buf
    BY Zenon, AtFacts
  <2>4. \A q \in Proc : q # p /\ pc[q] \in Holding => cur[q] # b
    BY Zenon, <1>m, AtFacts DEF Holding, b
  <2>5. \A q \in Proc : q # p =>
        /\ pc'[q] \in {"have", "modified"} => valid'[cur'[q]]
        /\ pc'[q] = "iderw" => ~valid'[cur'[q]] \/ dirty'[cur'[q]]
        /\ pc'[q] = "iowait" /\ InQueue(cur[q])' => ~valid'[cur'[q]] \/ dirty'[cur'[q]]
        /\ pc'[q] = "iowait" /\ ~InQueue(cur[q])' => valid'[cur'[q]] /\ ~dirty'[cur'[q]] /\ ~asleep'[q]
    <3>1. \A q \in Proc : q # p /\ pc[q] \in Holding => dirty'[cur[q]] = dirty[cur[q]]
      BY <1>d, <2>3, <2>4, Zenon DEF Holding
    <3>2. \A q \in Proc : InQueue(cur[q])' <=> InQueue(cur[q]) BY Zenon, <1>e DEF InQueue
    <3> SUFFICES ASSUME NEW q \in Proc, q # p
                 PROVE  /\ pc[q] \in {"have", "modified"} => valid[cur[q]]
                        /\ pc[q] = "iderw" => ~valid[cur[q]] \/ dirty'[cur[q]]
                        /\ pc[q] = "iowait" /\ InQueue(cur[q]) => ~valid[cur[q]] \/ dirty'[cur[q]]
                        /\ pc[q] = "iowait" /\ ~InQueue(cur[q]) => valid[cur[q]] /\ ~dirty'[cur[q]] /\ ~asleep[q]
      BY Zenon, <1>e, <1>o, <3>2
    <3>3. pc[q] \in Holding => dirty'[cur[q]] = dirty[cur[q]] BY <3>1, ZenonT(30)
    <3>4. /\ pc[q] \in {"have", "modified"} => valid[cur[q]]
          /\ pc[q] = "iderw" => ~valid[cur[q]] \/ dirty[cur[q]]
          /\ pc[q] = "iowait" /\ InQueue(cur[q]) => ~valid[cur[q]] \/ dirty[cur[q]]
          /\ pc[q] = "iowait" /\ ~InQueue(cur[q]) => valid[cur[q]] /\ ~dirty[cur[q]] /\ ~asleep[q]
      BY Zenon DEF CacheInv, FlagsInv
    <3> QED BY <3>3, <3>4, Zenon DEF Holding
  <2> QED BY Zenon, <1>e, <1>a, <1>d, <1>m, <2>2, <2>5 DEF FlagsInv, b
<1>7. ASSUME ContentInv PROVE ContentInv'
  <2>1. idequeue # <<>> => idequeue[1] \in Buf /\ idequeue[1] # b
    BY <1>a, <1>t, QueueFacts DEF InQueue
  <2> QED BY <1>e, <1>d, <1>m, <1>o, <1>7, <2>1 DEF ContentInv, b
<1> QED BY Zenon, <1>1, <1>2, <1>3, <1>4, <1>5, <1>6, <1>7 DEF CacheInv, CacheConsistent, Counted

\* iderw() queues the buffer, and starts it if it is the first.
LEMMA IderwInv == ASSUME CacheInv, NEW p \in Proc, iderw(p) PROVE CacheInv' /\ (ContentInv => ContentInv')
<1> USE BcacheConstants
<1> DEFINE b == cur[p]
<1>z. ~panic /\ pc[p] = "iderw" BY Zenon DEF iderw, At
<1>t. TypeOK BY Zenon DEF CacheInv, CacheConsistent
<1>a. b \in Buf /\ blockno[b] \in Block /\ ~InQueue(b) BY Zenon, <1>z, AtFacts, NotQueued
<1>f. ~valid[b] \/ dirty[b] BY Zenon, <1>z DEF CacheInv, FlagsInv
<1>0. /\ idequeue' = Append(idequeue, b)
      /\ IF idequeue = <<>> THEN busy' = TRUE /\ disk' = IF dirty[b] THEN [disk EXCEPT ![blockno[b]] = data[b]] ELSE disk
         ELSE UNCHANGED <<disk, busy>>
      /\ asleep' = [asleep EXCEPT ![p] = TRUE]
      /\ pc' = [pc EXCEPT ![p] = "iowait"]
      /\ UNCHANGED <<panic, lru, blockno, refcnt, valid, dirty, data, holder, cur>>
  BY Zenon, <1>f DEF iderw, idestart, Goto
<1> HIDE DEF b
<1>o. \A q \in Proc : q # p => pc'[q] = pc[q] /\ asleep'[q] = asleep[q] BY Zenon, <1>0, <1>t DEF TypeOK
<1>m. pc'[p] = "iowait" BY Zenon, <1>0, <1>t DEF TypeOK
<1>q. /\ idequeue \in Seq(Buf) /\ Len(idequeue) \in Nat /\ Len(idequeue') = Len(idequeue) + 1
      /\ DOMAIN idequeue = 1..Len(idequeue) /\ DOMAIN idequeue' = 1..(Len(idequeue) + 1)
      /\ \A i \in 1..Len(idequeue) : idequeue'[i] = idequeue[i]
      /\ idequeue'[Len(idequeue) + 1] = b
  BY <1>0, <1>a, <1>t DEF TypeOK
<1>i. \A c \in Buf : InQueue(c)' <=> InQueue(c) \/ c = b
  <2> SUFFICES ASSUME NEW c \in Buf PROVE InQueue(c)' <=> InQueue(c) \/ c = b BY Zenon
  <2>1. InQueue(c)' <=> \E i \in 1..(Len(idequeue) + 1) : idequeue'[i] = c BY Zenon, <1>q DEF InQueue
  <2> QED BY <1>q, <2>1 DEF InQueue
<1>1. TypeOK'
  <2>1. idequeue' \in Seq(Buf) BY <1>0, <1>a, <1>t DEF TypeOK
  <2>2. busy' \in BOOLEAN BY <1>0, <1>t, Zenon DEF TypeOK
  <2>3. disk' = disk \/ disk' = [disk EXCEPT ![blockno[b]] = data[b]] BY Zenon, <1>0
  <2>4. disk' \in [Block -> Val] BY <1>a, <1>t, <2>3, Zenon DEF TypeOK
  <2> QED BY Zenon, <1>0, <1>t, <2>1, <2>2, <2>4 DEF TypeOK
<1>2. OneBuffer' /\ RefsCounted' /\ ListWhole' /\ PanicOnlyWhenFull' BY Zenon, <1>z, <1>0, SameBufs
<1>3. QueueSound'
  <2>0. /\ \A i, j \in 1..Len(idequeue) : idequeue[i] = idequeue[j] => i = j
        /\ \A i \in 1..Len(idequeue) : \E r \in Proc : pc[r] = "iowait" /\ cur[r] = idequeue[i]
        /\ busy <=> idequeue # <<>>
    BY Zenon, <1>q DEF CacheInv, CacheConsistent, Counted, QueueSound
  <2>1. \A i \in 1..Len(idequeue) : idequeue[i] # b BY Zenon, <1>a DEF InQueue
  <2>2. \A i, j \in 1..(Len(idequeue) + 1) : idequeue'[i] = idequeue'[j] => i = j
    BY <1>q, <2>0, <2>1
  <2>3. \A i \in 1..Len(idequeue) : \E r \in Proc : pc'[r] = "iowait" /\ cur'[r] = idequeue'[i]
    <3>1. \A r \in Proc : pc[r] = "iowait" => r # p BY Zenon, <1>z
    <3> QED BY <1>0, <1>o, <1>q, <2>0, <3>1
  <2>4. pc'[p] = "iowait" /\ cur'[p] = idequeue'[Len(idequeue) + 1] BY Zenon, <1>0, <1>m, <1>q DEF b
  <2>5. \A i \in 1..(Len(idequeue) + 1) : i \in 1..Len(idequeue) \/ i = Len(idequeue) + 1 BY <1>q
  <2>6. \A i \in 1..(Len(idequeue) + 1) : \E r \in Proc : pc'[r] = "iowait" /\ cur'[r] = idequeue'[i]
    BY Zenon, <2>3, <2>4, <2>5
  <2>7. busy' /\ idequeue' # <<>> BY <1>0, <1>q, <2>0
  <2> QED BY Zenon, <1>q, <2>2, <2>6, <2>7 DEF QueueSound
<1>4. UseInv' BY Zenon, <1>z, <1>0, <1>o, <1>m DEF CacheInv, UseInv
<1>5. HolderInv' BY <1>z, <1>0, <1>o, <1>m DEF CacheInv, HolderInv, Holding
<1>6. FlagsInv'
  <2>1. \A r \in Proc : r # p /\ pc[r] \in Holding => cur[r] \in Buf /\ cur[r] # b
    BY Zenon, <1>z, AtFacts DEF Holding, b
  <2>2. \A r \in Proc : r # p =>
        /\ pc'[r] \in {"have", "modified"} => valid'[cur'[r]]
        /\ pc'[r] = "iderw" => ~valid'[cur'[r]] \/ dirty'[cur'[r]]
        /\ pc'[r] = "iowait" /\ InQueue(cur[r])' => ~valid'[cur'[r]] \/ dirty'[cur'[r]]
        /\ pc'[r] = "iowait" /\ ~InQueue(cur[r])' => valid'[cur'[r]] /\ ~dirty'[cur'[r]] /\ ~asleep'[r]
    <3>1. \A r \in Proc : r # p /\ pc[r] = "iowait" => (InQueue(cur[r])' <=> InQueue(cur[r]))
      <4>1. \A r \in Proc : cur'[r] = cur[r] BY Zenon, <1>0
      <4> QED BY Zenon, <4>1, <1>i, <2>1 DEF Holding
    <3> QED BY Zenon, <1>0, <1>o, <3>1 DEF CacheInv, FlagsInv
  <2>3. InQueue(cur[p])'
    <3>1. cur'[p] = b BY Zenon, <1>0 DEF b
    <3> QED BY Zenon, <1>i, <1>a, <3>1
  <2>4. \A c \in Buf : (dirty'[c] => valid'[c]) /\ (valid'[c] => blockno'[c] # None)
    BY Zenon, <1>0 DEF CacheInv, FlagsInv
  <2>5. ~valid'[cur'[p]] \/ dirty'[cur'[p]] BY Zenon, <1>0, <1>f DEF b
  <2> QED BY Zenon, <1>m, <2>2, <2>3, <2>4, <2>5 DEF FlagsInv
<1>7. ASSUME ContentInv PROVE ContentInv'
  <2>1. \A c \in Buf : c # b /\ valid[c] => blockno[c] \in Block /\ blockno[c] # blockno[b]
    BY <1>a, <1>t DEF CacheInv, CacheConsistent, OneBuffer, FlagsInv, TypeOK
  <2>2. \A c \in Buf : c # b /\ valid[c] => disk'[blockno[c]] = disk[blockno[c]]
    BY Zenon, <1>0, <1>t, <2>1 DEF TypeOK
  <2>3. \A c \in Buf : valid'[c] /\ ~dirty'[c] /\ (\A r \in Proc : cur'[r] = c => pc'[r] # "modified")
                         => data'[c] = disk'[blockno'[c]]
    BY <1>z, <1>0, <1>f, <1>o, <1>m, <1>7, <2>2 DEF ContentInv
  <2>4. dirty'[idequeue'[1]] => disk'[blockno'[idequeue'[1]]] = data'[idequeue'[1]]
    <3>1. CASE idequeue = <<>>
      <4>1. idequeue'[1] = b BY <1>q, <3>1
      <4> QED BY <1>0, <1>a, <1>t, <3>1, <4>1 DEF TypeOK
    <3>2. CASE idequeue # <<>>
      <4>1. idequeue'[1] = idequeue[1] BY <1>q, <3>2
      <4> QED BY Zenon, <1>0, <1>7, <3>2, <4>1 DEF ContentInv
    <3> QED BY Zenon, <3>1, <3>2
  <2> QED BY Zenon, <2>3, <2>4 DEF ContentInv
<1> QED BY Zenon, <1>1, <1>2, <1>3, <1>4, <1>5, <1>6, <1>7 DEF CacheInv, CacheConsistent, Counted

\* ideintr() finishes the first request, wakes its process and starts the next.
LEMMA IdeintrInv ==
    ASSUME CacheInv, NEW ok \in BOOLEAN, ideintr(ok) PROVE CacheInv' /\ (ContentInv /\ ok => ContentInv')
<1> USE BcacheConstants
<1> DEFINE b == idequeue[1]  n == Len(idequeue)
<1>t. TypeOK BY Zenon DEF CacheInv, CacheConsistent
<1>z. ~panic /\ busy BY Zenon DEF ideintr
<1>s. /\ \A i, j \in 1..n : idequeue[i] = idequeue[j] => i = j
      /\ \A i \in 1..n : idequeue[i] \in Buf /\ \E r \in Proc : pc[r] = "iowait" /\ cur[r] = idequeue[i]
      /\ n \in Nat /\ n # 0 /\ idequeue # <<>>
  BY Zenon, <1>t, <1>z, QueueFacts DEF CacheInv, CacheConsistent, Counted, QueueSound
<1>h. Head(idequeue) = b BY <1>t, <1>s DEF TypeOK
<1>0. /\ idequeue' = Tail(idequeue)
      /\ data' = IF ~dirty[b] /\ ok THEN [data EXCEPT ![b] = disk[blockno[b]]] ELSE data
      /\ valid' = [valid EXCEPT ![b] = TRUE]
      /\ dirty' = [dirty EXCEPT ![b] = FALSE]
      /\ asleep' = [p \in Proc |-> asleep[p] /\ cur[p] # b]
      /\ IF n > 1
           THEN /\ busy' = TRUE
                /\ disk' = IF dirty[idequeue[2]] THEN [disk EXCEPT ![blockno[idequeue[2]]] = data[idequeue[2]]] ELSE disk
           ELSE busy' = FALSE /\ UNCHANGED disk
      /\ UNCHANGED <<lru, blockno, refcnt, holder, pc, cur, panic>>
  BY Zenon, <1>h DEF ideintr, idestart
<1>u. UNCHANGED <<lru, blockno, refcnt, holder, pc, cur, panic>> BY Zenon DEF ideintr
<1>k. \A i \in 1..n : blockno[idequeue[i]] \in Block
  BY Zenon, <1>s, AtFacts
<1>a. b \in Buf /\ blockno[b] \in Block BY <1>s, <1>k
<1>y. disk \in [Block -> Val] /\ blockno \in [Buf -> Block \cup {None}] BY Zenon, <1>t DEF TypeOK
<1>q. /\ Len(idequeue') = n - 1 /\ DOMAIN idequeue' = 1..(n - 1) /\ DOMAIN idequeue = 1..n
      /\ \A i \in 1..(n - 1) : idequeue'[i] = idequeue[i + 1]
      /\ idequeue' \in Seq(Buf)
  BY <1>0, <1>s, <1>t DEF TypeOK
<1>v. /\ valid'[b] /\ ~dirty'[b]
      /\ \A c \in Buf : c # b => valid'[c] = valid[c] /\ dirty'[c] = dirty[c] /\ data'[c] = data[c]
      /\ \A p \in Proc : asleep'[p] <=> asleep[p] /\ cur[p] # b
  BY <1>0, <1>a, <1>t, Zenon DEF TypeOK
<1> HIDE DEF b, n
<1>i. \A c \in Buf : InQueue(c)' <=> InQueue(c) /\ c # b
  <2> SUFFICES ASSUME NEW c \in Buf PROVE InQueue(c)' <=> InQueue(c) /\ c # b BY Zenon
  <2>1. InQueue(c)' <=> \E i \in 1..(n - 1) : idequeue[i + 1] = c BY Zenon, <1>q DEF InQueue
  <2>2. InQueue(c) <=> \E i \in 1..n : idequeue[i] = c BY Zenon DEF InQueue, n
  <2>3. ASSUME NEW i \in 1..(n - 1) PROVE i + 1 \in 1..n /\ idequeue[i + 1] # b
    <3>1. i + 1 \in 1..n /\ 1 \in 1..n /\ i + 1 # 1 BY <1>s
    <3> QED BY Zenon, <1>s, <3>1 DEF b
  <2>4. ASSUME NEW i \in 1..n, idequeue[i] # b PROVE i - 1 \in 1..(n - 1) /\ idequeue[(i - 1) + 1] = idequeue[i]
    <3>1. i # 1 BY Zenon, <2>4 DEF b
    <3>2. i - 1 \in 1..(n - 1) /\ (i - 1) + 1 = i BY <1>s, <3>1
    <3> QED BY Zenon, <3>2
  <2> QED BY Zenon, <2>1, <2>2, <2>3, <2>4
<1>1. TypeOK'
  <2>1. disk' \in [Block -> Val] /\ busy' \in BOOLEAN
    <3>1. n > 1 => idequeue[2] \in Buf /\ blockno[idequeue[2]] \in Block BY <1>s, <1>k
    <3>2. busy' \in BOOLEAN BY <1>0, Zenon
    <3>3. disk' = disk \/ (n > 1 /\ disk' = [disk EXCEPT ![blockno[idequeue[2]]] = data[idequeue[2]]]) BY Zenon, <1>0
    <3>4. n > 1 => data[idequeue[2]] \in Val BY Zenon, <1>t, <3>1 DEF TypeOK
    <3>5. disk' \in [Block -> Val] BY <1>t, <3>3, <3>4, Zenon DEF TypeOK
    <3> QED BY Zenon, <3>2, <3>5
  <2>2. data' \in [Buf -> Val] BY Zenon, <1>0, <1>a, <1>t DEF TypeOK
  <2>3. asleep' \in [Proc -> BOOLEAN] BY Zenon, <1>0, <1>t DEF TypeOK
  <2> QED BY <1>0, <1>q, <1>t, <2>1, <2>2, <2>3, Zenon DEF TypeOK
<1>2. OneBuffer' /\ RefsCounted' /\ ListWhole' /\ PanicOnlyWhenFull' BY Zenon, <1>z, <1>u, SameBufs
<1>3. QueueSound'
  <2>1. \A i \in 1..(n - 1) : i + 1 \in 1..n /\ idequeue'[i] = idequeue[i + 1] BY <1>q, <1>s
  <2>2. \A i, j \in 1..(n - 1) : idequeue'[i] = idequeue'[j] => i = j
    <3> SUFFICES ASSUME NEW i \in 1..(n - 1), NEW j \in 1..(n - 1), idequeue'[i] = idequeue'[j] PROVE i = j BY Zenon
    <3>1. i + 1 = j + 1 BY <2>1, <1>s
    <3> QED BY <3>1
  <2>3. \A i \in 1..(n - 1) : \E r \in Proc : pc'[r] = "iowait" /\ cur'[r] = idequeue'[i]
    <3> SUFFICES ASSUME NEW i \in 1..(n - 1) PROVE \E r \in Proc : pc'[r] = "iowait" /\ cur'[r] = idequeue'[i] BY Zenon
    <3>1. PICK r \in Proc : pc[r] = "iowait" /\ cur[r] = idequeue[i + 1] BY Zenon, <1>s, <2>1
    <3> QED BY <1>0, <2>1, <3>1, Zenon
  <2>4. busy' <=> idequeue' # <<>>
    <3>1. idequeue' # <<>> <=> n - 1 # 0 BY <1>q, EmptyQueue, Zenon
    <3>2. busy' <=> n > 1 BY Zenon, <1>0
    <3> QED BY <3>1, <3>2, <1>s
  <2> QED BY Zenon, <1>q, <2>2, <2>3, <2>4 DEF QueueSound
<1>4. UseInv' BY Zenon, <1>u DEF CacheInv, UseInv
<1>5. HolderInv' BY Zenon, <1>u DEF CacheInv, HolderInv
<1>6. FlagsInv'
  <2>0. \A c \in Buf : (dirty[c] => valid[c]) /\ (valid[c] => blockno[c] # None) BY Zenon DEF CacheInv, FlagsInv
  <2>1. \A c \in Buf : (dirty'[c] => valid'[c]) /\ (valid'[c] => blockno'[c] # None)
    BY Zenon, <1>u, <1>a, <1>v, <2>0
  <2>2. \A r \in Proc : pc[r] \in {"have", "modified", "iderw", "iowait"} => cur[r] \in Buf BY Zenon, AtFacts
  <2>3. \A r \in Proc : pc[r] \in {"have", "modified", "iderw"} => cur[r] # b
    <3>1. InQueue(b)
      <4>1. 1 \in 1..n BY <1>s
      <4> QED BY Zenon, <4>1 DEF InQueue, b, n
    <3> QED BY Zenon, <3>1, NotQueued
  <2>4. \A r \in Proc : pc[r] = "iowait" =>
           (InQueue(cur[r])' <=> InQueue(cur[r]) /\ cur[r] # b)
    <3>1. \A r \in Proc : cur'[r] = cur[r] BY Zenon, <1>u
    <3> QED BY Zenon, <1>i, <2>2, <3>1
  <2>5. \A r \in Proc :
        /\ pc'[r] \in {"have", "modified"} => valid'[cur'[r]]
        /\ pc'[r] = "iderw" => ~valid'[cur'[r]] \/ dirty'[cur'[r]]
    BY <1>u, <1>v, <2>2, <2>3 DEF CacheInv, FlagsInv
  <2>6. \A r \in Proc :
           /\ pc'[r] = "iowait" /\ InQueue(cur[r])' => ~valid'[cur'[r]] \/ dirty'[cur'[r]]
           /\ pc'[r] = "iowait" /\ ~InQueue(cur[r])' => valid'[cur'[r]] /\ ~dirty'[cur'[r]] /\ ~asleep'[r]
    BY <1>u, <1>v, <2>2, <2>4 DEF CacheInv, FlagsInv
  <2> QED BY Zenon, <2>1, <2>5, <2>6 DEF FlagsInv
<1>7. ASSUME ContentInv, ok PROVE ContentInv'
  <2> DEFINE d == idequeue[2]
  <2>0. n > 1 => d \in Buf /\ blockno[d] \in Block /\ d # b BY <1>s, <1>k DEF b
  <2>d. disk' = disk \/ (n > 1 /\ disk' = [disk EXCEPT ![blockno[d]] = data[d]]) BY Zenon, <1>0
  <2>1. \A c \in Buf : valid[c] \/ c = b => blockno[c] \in Block
    BY Zenon, <1>a, <1>y DEF CacheInv, FlagsInv
  <2>2. \A c \in Buf : (valid[c] \/ c = b) /\ (n > 1 => c # d) => disk'[blockno[c]] = disk[blockno[c]]
    <3> SUFFICES ASSUME NEW c \in Buf, valid[c] \/ c = b, n > 1 => c # d
                 PROVE  disk'[blockno[c]] = disk[blockno[c]]
      BY Zenon
    <3>1. n > 1 => blockno[c] # blockno[d]
      BY Zenon, <2>0, <2>1 DEF CacheInv, CacheConsistent, OneBuffer
    <3> QED BY Zenon, <1>y, <2>0, <2>1, <2>d, <3>1
  <2>3. data'[b] = disk[blockno[b]]
    BY <1>0, <1>a, <1>s, <1>t, <1>7, Zenon DEF ContentInv, TypeOK, b
  <2>4. n > 1 => ~valid[d] \/ dirty[d]
    <3> SUFFICES ASSUME n > 1 PROVE ~valid[d] \/ dirty[d] BY Zenon
    <3>1. 2 \in 1..n BY <1>s
    <3>2. PICK r \in Proc : pc[r] = "iowait" /\ cur[r] = d BY Zenon, <1>s, <3>1
    <3>3. InQueue(d) BY Zenon, <3>1 DEF InQueue, n
    <3> QED BY Zenon, <3>2, <3>3 DEF CacheInv, FlagsInv
  <2>5. \A c \in Buf : valid'[c] /\ ~dirty'[c] /\ (\A r \in Proc : cur'[r] = c => pc'[r] # "modified")
                         => data'[c] = disk'[blockno'[c]]
    <3> SUFFICES ASSUME NEW c \in Buf, valid'[c], ~dirty'[c], \A r \in Proc : cur'[r] = c => pc'[r] # "modified"
                 PROVE  data'[c] = disk'[blockno'[c]]
      BY Zenon
    <3>1. CASE c = b BY Zenon, <1>u, <2>0, <2>2, <2>3, <3>1
    <3>2. CASE c # b
      <4>1. n > 1 => c # d BY Zenon, <1>v, <2>0, <2>4, <3>2
      <4>2. data[c] = disk[blockno[c]] BY <1>u, <1>v, <1>7, <3>2, Zenon DEF ContentInv
      <4> QED BY Zenon, <1>u, <1>v, <2>2, <3>2, <4>1, <4>2
    <3> QED BY Zenon, <3>1, <3>2
  <2>6. idequeue' # <<>> /\ dirty'[idequeue'[1]] => disk'[blockno'[idequeue'[1]]] = data'[idequeue'[1]]
    <3> SUFFICES ASSUME idequeue' # <<>>, dirty'[idequeue'[1]]
                 PROVE  disk'[blockno'[idequeue'[1]]] = data'[idequeue'[1]]
      BY Zenon
    <3>1. n - 1 # 0 BY <1>q
    <3>2. n > 1 /\ 1 \in 1..(n - 1) BY <1>s, <3>1
    <3>3. idequeue'[1] = idequeue[1 + 1] BY Zenon, <1>q, <3>2
    <3>4. idequeue'[1] = d BY <3>3
    <3>5. dirty[d] /\ data'[d] = data[d] BY Zenon, <1>v, <2>0, <3>2, <3>4
    <3> HIDE DEF d
    <3>6. disk' = [disk EXCEPT ![blockno[d]] = data[d]] BY Zenon, <1>0, <3>2, <3>5 DEF d
    <3> QED BY Zenon, <1>u, <1>y, <2>0, <3>2, <3>4, <3>5, <3>6
  <2> QED BY <2>5, <2>6, Zenon DEF ContentInv
<1> QED BY Zenon, <1>1, <1>2, <1>3, <1>4, <1>5, <1>6, <1>7 DEF CacheInv, CacheConsistent, Counted

\* A process that iderw() put to sleep goes on when its request is done.
LEMMA WokenInv ==
    ASSUME CacheInv, NEW p \in Proc, iderw_woken(p) PROVE CacheInv' /\ (ContentInv => ContentInv')
<1> USE BcacheConstants
<1> DEFINE b == cur[p]
<1>0. /\ ~panic /\ pc[p] = "iowait" /\ ~asleep[p]
      /\ UNCHANGED <<lru, blockno, refcnt, valid, dirty, data, holder, idequeue, disk, busy, cur, panic>>
  BY Zenon DEF iderw_woken, At
<1>c. \/ valid[b] /\ ~dirty[b] /\ pc' = [pc EXCEPT ![p] = "have"] /\ UNCHANGED asleep
      \/ ~(valid[b] /\ ~dirty[b]) /\ asleep' = [asleep EXCEPT ![p] = TRUE] /\ UNCHANGED pc
  BY Zenon DEF iderw_woken, Goto
<1>t. TypeOK BY Zenon DEF CacheInv, CacheConsistent
<1>a. b \in Buf BY Zenon, <1>0, AtFacts
<1> HIDE DEF b
<1>o. \A q \in Proc : q # p => pc'[q] = pc[q] /\ asleep'[q] = asleep[q] BY <1>c, <1>t DEF TypeOK
<1>m. \/ valid[b] /\ ~dirty[b] /\ pc'[p] = "have"
      \/ ~(valid[b] /\ ~dirty[b]) /\ pc'[p] = "iowait"
  BY Zenon, <1>0, <1>c, <1>t DEF TypeOK
<1>q. valid[b] /\ ~dirty[b] => ~InQueue(b) BY Zenon, <1>0 DEF CacheInv, FlagsInv, b
<1>1. TypeOK' BY <1>0, <1>c, <1>t, Zenon DEF TypeOK
<1>2. OneBuffer' /\ RefsCounted' /\ ListWhole' /\ PanicOnlyWhenFull' BY Zenon, <1>0, SameBufs
<1>3. QueueSound'
  <2>1. \A i \in DOMAIN idequeue : valid[b] /\ ~dirty[b] => idequeue[i] # b
    BY Zenon, <1>q, <1>t, QueueFacts DEF InQueue
  <2> QED BY <1>0, <1>o, <1>m, <2>1 DEF CacheInv, CacheConsistent, Counted, QueueSound, b
<1>4. UseInv' BY Zenon, <1>0, <1>o, <1>m DEF CacheInv, UseInv
<1>5. HolderInv' BY <1>0, <1>o, <1>m DEF CacheInv, HolderInv, Holding
<1>6. FlagsInv' BY <1>0, <1>o, <1>m, SMTT(30) DEF CacheInv, FlagsInv, InQueue, b
<1>7. ContentInv => ContentInv' BY <1>0, <1>o, <1>m DEF ContentInv
<1> QED BY Zenon, <1>1, <1>2, <1>3, <1>4, <1>5, <1>6, <1>7 DEF CacheInv, CacheConsistent, Counted

\* A holder changes the data of its buffer, and has to bwrite() it.
LEMMA ModifyInv ==
    ASSUME CacheInv, NEW p \in Proc, NEW v \in Val, modify(p, v) PROVE CacheInv' /\ (ContentInv => ContentInv')
<1> USE BcacheConstants
<1> DEFINE b == cur[p]
<1>0. /\ ~panic /\ pc[p] = "have"
      /\ pc' = [pc EXCEPT ![p] = "modified"] /\ data' = [data EXCEPT ![b] = v]
      /\ UNCHANGED <<lru, blockno, refcnt, valid, dirty, holder, idequeue, disk, busy, cur, asleep, panic>>
  BY Zenon DEF modify, At, Goto
<1>t. TypeOK BY Zenon DEF CacheInv, CacheConsistent
<1>a. b \in Buf /\ ~InQueue(b) BY Zenon, <1>0, AtFacts, NotQueued
<1> HIDE DEF b
<1>o. \A q \in Proc : q # p => pc'[q] = pc[q] BY Zenon, <1>0, <1>t DEF TypeOK
<1>m. pc'[p] = "modified" BY Zenon, <1>0, <1>t DEF TypeOK
<1>d. \A c \in Buf : c # b => data'[c] = data[c] BY Zenon, <1>0, <1>t DEF TypeOK
<1>1. TypeOK' BY Zenon, <1>0, <1>a, <1>t DEF TypeOK
<1>2. OneBuffer' /\ RefsCounted' /\ ListWhole' /\ PanicOnlyWhenFull' BY Zenon, <1>0, SameBufs
<1>3. QueueSound' BY <1>0, <1>o, <1>m DEF CacheInv, CacheConsistent, Counted, QueueSound
<1>4. UseInv' BY Zenon, <1>0, <1>o, <1>m DEF CacheInv, UseInv
<1>5. HolderInv' BY <1>0, <1>o, <1>m, SMTT(30) DEF CacheInv, HolderInv, Holding
<1>6. FlagsInv'
  <2>1. pc'[p] # "iowait" /\ pc'[p] # "iderw" /\ (pc'[p] \in {"have", "modified"} => valid[cur[p]])
    BY Zenon, <1>0, <1>m DEF CacheInv, FlagsInv
  <2> QED BY Zenon, <1>0, <1>o, <2>1, FlagsKept
<1>7. ASSUME ContentInv PROVE ContentInv'
  <2>1. idequeue # <<>> => idequeue[1] \in Buf /\ idequeue[1] # b
    BY <1>a, <1>t, QueueFacts, SMTT(30) DEF InQueue
  <2> QED BY <1>0, <1>d, <1>m, <1>o, <1>7, <2>1 DEF ContentInv, b
<1> QED BY Zenon, <1>1, <1>2, <1>3, <1>4, <1>5, <1>6, <1>7 DEF CacheInv, CacheConsistent, Counted

\* bread() with the lock held: the buffer is valid, or has to be read.
LEMMA BreadInv == ASSUME CacheInv, NEW p \in Proc, bread(p) PROVE CacheInv' /\ (ContentInv => ContentInv')
<1> USE BcacheConstants
<1> DEFINE b == cur[p]  l == IF valid[b] THEN "have" ELSE "iderw"
<1>0. /\ ~panic /\ pc[p] = "acquiresleep" /\ holder[b] = None
      /\ pc' = [pc EXCEPT ![p] = l] /\ holder' = [holder EXCEPT ![b] = p]
      /\ UNCHANGED <<lru, blockno, refcnt, valid, dirty, data, idequeue, disk, busy, cur, asleep, panic>>
  BY Zenon DEF bread, At, Goto
<1>t. TypeOK BY Zenon DEF CacheInv, CacheConsistent
<1>a. b \in Buf BY Zenon, <1>0, AtFacts
<1>l. l \in {"have", "iderw"} /\ (l = "have" <=> valid[b]) BY Zenon
<1> HIDE DEF b, l
<1>o. \A q \in Proc : q # p => pc'[q] = pc[q] BY <1>0, <1>t, SMTT(30) DEF TypeOK
<1>m. pc'[p] = l BY Zenon, <1>0, <1>t DEF TypeOK
<1>h. holder'[b] = p /\ \A c \in Buf : c # b => holder'[c] = holder[c] BY Zenon, <1>0, <1>a, <1>t DEF TypeOK
<1>1. TypeOK' BY Zenon, <1>0, <1>a, <1>l, <1>t DEF TypeOK
<1>2. OneBuffer' /\ RefsCounted' /\ ListWhole' /\ PanicOnlyWhenFull' BY Zenon, <1>0, SameBufs
<1>3. QueueSound' BY <1>0, <1>o, <1>m, SMTT(30) DEF CacheInv, CacheConsistent, Counted, QueueSound
<1>4. UseInv' BY <1>0, <1>l, <1>o, <1>m, SMTT(30) DEF CacheInv, UseInv
<1>5. HolderInv' BY <1>0, <1>a, <1>h, <1>l, <1>o, <1>m, SMTT(30) DEF CacheInv, HolderInv, Holding, b
<1>6. FlagsInv'
  <2>1. pc'[p] \notin {"modified", "iowait"} /\ (pc'[p] = "have" <=> valid[cur[p]]) BY Zenon, <1>l, <1>m DEF b
  <2> QED BY Zenon, <1>0, <1>o, <2>1, FlagsKept
<1>7. ContentInv => ContentInv' BY <1>0, <1>l, <1>o, <1>m DEF ContentInv
<1> QED BY Zenon, <1>1, <1>2, <1>3, <1>4, <1>5, <1>6, <1>7 DEF CacheInv, CacheConsistent, Counted

\* brelse() releases the sleep lock first.
LEMMA ReleasesleepInv ==
    ASSUME CacheInv, NEW p \in Proc, releasesleep(p) PROVE CacheInv' /\ (ContentInv => ContentInv')
<1> USE BcacheConstants
<1> DEFINE b == cur[p]
<1>0. /\ ~panic /\ pc[p] = "have"
      /\ pc' = [pc EXCEPT ![p] = "brelse"] /\ holder' = [holder EXCEPT ![b] = None]
      /\ UNCHANGED <<lru, blockno, refcnt, valid, dirty, data, idequeue, disk, busy, cur, asleep, panic>>
  BY Zenon DEF releasesleep, At, Goto
<1>t. TypeOK BY Zenon DEF CacheInv, CacheConsistent
<1>a. b \in Buf /\ holder[b] = p BY Zenon, <1>0, AtFacts DEF CacheInv, HolderInv, Holding
<1> HIDE DEF b
<1>o. \A q \in Proc : q # p => pc'[q] = pc[q] BY Zenon, <1>0, <1>t DEF TypeOK
<1>m. pc'[p] = "brelse" BY Zenon, <1>0, <1>t DEF TypeOK
<1>h. holder'[b] = None /\ \A c \in Buf : c # b => holder'[c] = holder[c] BY Zenon, <1>0, <1>a, <1>t DEF TypeOK
<1>1. TypeOK' BY Zenon, <1>0, <1>a, <1>t DEF TypeOK
<1>2. OneBuffer' /\ RefsCounted' /\ ListWhole' /\ PanicOnlyWhenFull' BY Zenon, <1>0, SameBufs
<1>3. QueueSound' BY <1>0, <1>o, <1>m, SMTT(30) DEF CacheInv, CacheConsistent, Counted, QueueSound
<1>4. UseInv' BY Zenon, <1>0, <1>o, <1>m DEF CacheInv, UseInv
<1>5. HolderInv' BY <1>0, <1>a, <1>h, <1>o, <1>m, SMTT(30) DEF CacheInv, HolderInv, Holding, b
<1>6. FlagsInv'
  <2>1. pc'[p] # "iowait" /\ pc'[p] # "iderw" /\ (pc'[p] \in {"have", "modified"} => valid[cur[p]])
    BY Zenon, <1>0, <1>m DEF CacheInv, FlagsInv
  <2> QED BY Zenon, <1>0, <1>o, <2>1, FlagsKept
<1>7. ContentInv => ContentInv' BY <1>0, <1>o, <1>m DEF ContentInv
<1> QED BY Zenon, <1>1, <1>2, <1>3, <1>4, <1>5, <1>6, <1>7 DEF CacheInv, CacheConsistent, Counted

\* brelse() keeps every buffer on the list.
LEMMA MoveToHeadWhole ==
    ASSUME TypeOK, ListWhole, NEW b \in Buf
    PROVE  MoveToHead(b) \in [Buf -> Buf] /\ {MoveToHead(b)[i] : i \in Buf} = Buf
<1> USE BcacheConstants DEF Buf
<1>1. \A i \in Buf : i = 1 \/ i - 1 \in Buf OBVIOUS
<1>2. MoveToHead(b) \in [Buf -> Buf] BY <1>1, Zenon DEF MoveToHead, TypeOK
<1>3. ASSUME NEW x \in Buf PROVE \E i \in Buf : MoveToHead(b)[i] = x
  <2>1. PICK k \in Buf : lru[k] = x BY Zenon DEF ListWhole
  <2>2. CASE x = b
    <3>1. 1 \in Buf /\ MoveToHead(b)[1] = b BY DEF MoveToHead
    <3> QED BY Zenon, <2>2, <3>1
  <2>3. CASE x # b /\ \E j \in k..NBUF : lru[j] = b
    <3>1. PICK j \in k..NBUF : lru[j] = b BY Zenon, <2>3
    <3>2. j # k BY Zenon, <2>1, <2>3, <3>1
    <3>3. k + 1 \in Buf /\ k + 1 # 1 /\ j \in (k + 1)..NBUF BY <3>1, <3>2
    <3>4. MoveToHead(b)[k + 1] = lru[k + 1 - 1] BY <3>1, <3>3 DEF MoveToHead
    <3>5. k + 1 - 1 = k OBVIOUS
    <3> QED BY Zenon, <2>1, <3>3, <3>4, <3>5
  <2>4. CASE x # b /\ ~(\E j \in k..NBUF : lru[j] = b)
    <3>1. CASE k # 1 BY Zenon, <2>1, <2>4, <3>1 DEF MoveToHead
    <3>2. CASE k = 1
      <4>1. PICK j \in Buf : lru[j] = b BY Zenon DEF ListWhole
      <4>2. j \in k..NBUF BY Zenon, <3>2
      <4> QED BY Zenon, <2>4, <4>1, <4>2
    <3> QED BY Zenon, <3>1, <3>2
  <2> QED BY Zenon, <2>2, <2>3, <2>4
<1> DEFINE f == MoveToHead(b)
<1>4. f \in [Buf -> Buf] /\ \A x \in Buf : \E i \in Buf : f[i] = x BY <1>2, <1>3, Zenon
<1> HIDE DEF f, Buf
<1>5. {f[i] : i \in Buf} = Buf BY Zenon, <1>4
<1> QED BY Zenon, <1>2, <1>5 DEF f

\* A buffer's count is 0 when no process has it. Follows from CacheInv (BcacheProofs).
InUse == \A b \in Buf : refcnt[b] = 0 <=> \A q \in Proc : cur[q] # b
-----------------------------------------------------------------------------
\* With one buffer per block, that buffer says what the block holds and who has
\* it; before a step and after it.
LEMMA Mapping ==
    ASSUME CacheInv, CacheInv', NEW n \in Block
    PROVE  /\ \A b \in Buf : blockno[b] = n =>
                  /\ Content(n) = IF valid[b] THEN data[b] ELSE disk[n]
                  /\ Owner(n) = IF valid[b] THEN holder[b] ELSE None
           /\ (\A b \in Buf : blockno[b] # n) => Content(n) = disk[n] /\ Owner(n) = None
           /\ \A b \in Buf : blockno'[b] = n =>
                  /\ Content(n)' = IF valid'[b] THEN data'[b] ELSE disk'[n]
                  /\ Owner(n)' = IF valid'[b] THEN holder'[b] ELSE None
           /\ (\A b \in Buf : blockno'[b] # n) => Content(n)' = disk'[n] /\ Owner(n)' = None
<1>0. n # None BY Zenon, BcacheConstants
<1>1. ASSUME NEW b \in Buf, blockno[b] = n
      PROVE  /\ Content(n) = IF valid[b] THEN data[b] ELSE disk[n]
             /\ Owner(n) = IF valid[b] THEN holder[b] ELSE None
  <2>1. Cached(n) = {b} BY Zenon, <1>0, <1>1 DEF CacheInv, CacheConsistent, OneBuffer, Cached
  <2>2. valid[b] => (CHOOSE c \in {b} : valid[c]) = b BY Zenon
  <2>3. valid[b] /\ holder[b] # None => (CHOOSE c \in {b} : holder[c] # None /\ valid[c]) = b BY Zenon
  <2> QED BY Zenon, <2>1, <2>2, <2>3 DEF Content, Owner
<1>2. ASSUME NEW b \in Buf, blockno'[b] = n
      PROVE  /\ Content(n)' = IF valid'[b] THEN data'[b] ELSE disk'[n]
             /\ Owner(n)' = IF valid'[b] THEN holder'[b] ELSE None
  <2>1. Cached(n)' = {b} BY Zenon, <1>0, <1>2 DEF CacheInv, CacheConsistent, OneBuffer, Cached
  <2>2. valid'[b] => (CHOOSE c \in {b} : valid'[c]) = b BY Zenon
  <2>3. valid'[b] /\ holder'[b] # None => (CHOOSE c \in {b} : holder'[c] # None /\ valid'[c]) = b BY Zenon
  <2> QED BY Zenon, <2>1, <2>2, <2>3 DEF Content, Owner
<1>3. (\A b \in Buf : blockno[b] # n) => Content(n) = disk[n] /\ Owner(n) = None
  BY Zenon DEF Content, Owner, Cached
<1>4. (\A b \in Buf : blockno'[b] # n) => Content(n)' = disk'[n] /\ Owner(n)' = None
  BY Zenon DEF Content, Owner, Cached
<1> QED BY Zenon, <1>1, <1>2, <1>3, <1>4

\* Equal contents and owners are the same abstract store.
LEMMA SameStore ==
    ASSUME \A n \in Block : Content(n)' = Content(n) /\ Owner(n)' = Owner(n) PROVE UNCHANGED Store!vars
BY Zenon DEF Store!vars

\* Steps on other state of the cache leave the store as it is.
LEMMA QuietStep ==
    ASSUME UNCHANGED <<blockno, valid, data, disk, holder>> PROVE UNCHANGED Store!vars
<1>1. \A n \in Block : Content(n)' = Content(n) /\ Owner(n)' = Owner(n) BY Zenon DEF Content, Owner, Cached
<1> QED BY Zenon, <1>1, SameStore

\* The other steps touch one buffer b and keep every buffer's block: what they
\* do to the store they do to b's block.
LEMMA OneBlock ==
    ASSUME CacheInv, CacheInv', NEW b \in Buf, UNCHANGED blockno, blockno[b] \in Block,
           \A c \in Buf : c # b => valid'[c] = valid[c] /\ data'[c] = data[c] /\ holder'[c] = holder[c],
           \A n \in Block : disk'[n] = disk[n] \/ \E c \in Buf : blockno[c] = n /\ valid[c] /\ valid'[c]
    PROVE  \A n \in Block : n # blockno[b] => Content(n)' = Content(n) /\ Owner(n)' = Owner(n)
<1> SUFFICES ASSUME NEW n \in Block, n # blockno[b] PROVE Content(n)' = Content(n) /\ Owner(n)' = Owner(n) BY Zenon
<1>1. CASE \A c \in Buf : blockno[c] # n
  <2>1. disk'[n] = disk[n] BY <1>1
  <2>2. Content(n) = disk[n] /\ Owner(n) = None BY Zenon, <1>1, Mapping
  <2>3. Content(n)' = disk'[n] /\ Owner(n)' = None BY Zenon, <1>1, Mapping
  <2> QED BY Zenon, <2>1, <2>2, <2>3
<1>2. CASE \E c \in Buf : blockno[c] = n
  <2>1. PICK c \in Buf : blockno[c] = n BY Zenon, <1>2
  <2>2. c # b /\ blockno'[c] = n BY Zenon, <2>1
  <2>3. /\ Content(n) = IF valid[c] THEN data[c] ELSE disk[n]
        /\ Owner(n) = IF valid[c] THEN holder[c] ELSE None
    BY Zenon, <2>1, Mapping
  <2>4. /\ Content(n)' = IF valid'[c] THEN data'[c] ELSE disk'[n]
        /\ Owner(n)' = IF valid'[c] THEN holder'[c] ELSE None
    BY Zenon, <2>2, Mapping
  <2>5. valid[c] \/ disk'[n] = disk[n]
    BY <2>1, BcacheConstants DEF CacheInv, CacheConsistent, OneBuffer
  <2> QED BY <2>2, <2>3, <2>4, <2>5
<1> QED BY Zenon, <1>1, <1>2

\* A step that changes one block's owner or content as the store may.
LEMMA StoreChange ==
    ASSUME NEW p \in Proc, NEW m \in Block,
           \A n \in Block : n # m => Content(n)' = Content(n) /\ Owner(n)' = Owner(n),
           \/ Content(m)' = Content(m) /\ Owner(m) = None /\ Owner(m)' = p
           \/ Content(m)' = Content(m) /\ Owner(m) = p /\ Owner(m)' = None
           \/ Content(m)' \in Val /\ Owner(m) = p /\ Owner(m)' = p
    PROVE  Store!Next
<1> DEFINE C == [n \in Block |-> Content(n)]  O == [n \in Block |-> Owner(n)]
           C1 == [n \in Block |-> Content(n)'] O1 == [n \in Block |-> Owner(n)']
<1>1. CASE Content(m)' = Content(m) /\ Owner(m) = None /\ Owner(m)' = p
  <2>1. O[m] = None /\ O1 = [O EXCEPT ![m] = p] /\ C1 = C BY <1>1, Zenon
  <2>2. Store!Lock(p, m) BY Zenon, <2>1 DEF Store!Lock
  <2> QED BY Zenon, <2>2 DEF Store!Next
<1>2. CASE Content(m)' = Content(m) /\ Owner(m) = p /\ Owner(m)' = None
  <2>1. O[m] = p /\ O1 = [O EXCEPT ![m] = None] /\ C1 = C BY <1>2, Zenon
  <2>2. Store!Unlock(p, m) BY Zenon, <2>1 DEF Store!Unlock
  <2> QED BY Zenon, <2>2 DEF Store!Next
<1>3. CASE Content(m)' \in Val /\ Owner(m) = p /\ Owner(m)' = p
  <2>1. O[m] = p /\ O1 = O /\ C1 = [C EXCEPT ![m] = Content(m)'] BY <1>3, Zenon
  <2>2. Store!Write(p, m, Content(m)') BY Zenon, <2>1 DEF Store!Write
  <2> QED BY Zenon, <1>3, <2>2 DEF Store!Next
<1> QED BY Zenon, <1>1, <1>2, <1>3

\* Taking, changing and releasing a locked buffer is opening, writing and closing its block.
LEMMA BreadStep ==
    ASSUME CacheInv, CacheInv', NEW p \in Proc, bread(p) \/ releasesleep(p) \/ \E v \in Val : modify(p, v)
    PROVE  [Store!Next]_(Store!vars)
<1> USE BcacheConstants
<1>t. TypeOK BY Zenon DEF CacheInv, CacheConsistent
<1>z. pc[p] # "idle" BY Zenon DEF bread, releasesleep, modify, At
<1>a. PICK b \in Buf, m \in Block : b = cur[p] /\ m = blockno[b] BY Zenon, <1>z, AtFacts
<1>u. UNCHANGED <<blockno, valid, disk>> BY Zenon DEF bread, releasesleep, modify
<1>o. \A c \in Buf : c # b => valid'[c] = valid[c] /\ data'[c] = data[c] /\ holder'[c] = holder[c]
  BY <1>a, <1>t DEF bread, releasesleep, modify, TypeOK
<1>s. \A n \in Block : n # m => Content(n)' = Content(n) /\ Owner(n)' = Owner(n)
  BY Zenon, <1>a, <1>u, <1>o, OneBlock
<1>b. Content(m) = (IF valid[b] THEN data[b] ELSE disk[m]) /\ Owner(m) = (IF valid[b] THEN holder[b] ELSE None)
  BY Zenon, <1>a, Mapping
<1>c. Content(m)' = (IF valid'[b] THEN data'[b] ELSE disk'[m]) /\ Owner(m)' = (IF valid'[b] THEN holder'[b] ELSE None)
  BY Zenon, <1>a, <1>u, Mapping
<1>1. CASE bread(p)
  <2>1. holder[b] = None /\ holder'[b] = p /\ data' = data BY Zenon, <1>1, <1>a, <1>t DEF bread, TypeOK
  <2>2. CASE valid[b]
    <3>1. Content(m)' = Content(m) /\ Owner(m) = None /\ Owner(m)' = p BY Zenon, <1>u, <1>b, <1>c, <2>1, <2>2
    <3> QED BY Zenon, <1>a, <1>s, <3>1, StoreChange
  <2>3. CASE ~valid[b]
    <3>1. Content(m)' = Content(m) /\ Owner(m)' = Owner(m) BY Zenon, <1>u, <1>b, <1>c, <2>3
    <3> QED BY Zenon, <1>s, <3>1, SameStore
  <2> QED BY Zenon, <2>2, <2>3
<1>2. CASE releasesleep(p)
  <2>0. pc[p] = "have" BY Zenon, <1>2 DEF releasesleep, At
  <2>1. valid[b] /\ holder[b] = p BY <1>a, <2>0 DEF CacheInv, FlagsInv, HolderInv, Holding
  <2>2. holder'[b] = None /\ data' = data BY Zenon, <1>2, <1>a, <1>t DEF releasesleep, TypeOK
  <2>3. Content(m)' = Content(m) /\ Owner(m) = p /\ Owner(m)' = None BY Zenon, <1>u, <1>b, <1>c, <2>1, <2>2
  <2> QED BY Zenon, <1>a, <1>s, <2>3, StoreChange
<1>3. CASE \E v \in Val : modify(p, v)
  <2>p. PICK v \in Val : modify(p, v) BY Zenon, <1>3
  <2>0. pc[p] = "have" BY Zenon, <2>p DEF modify, At
  <2>1. valid[b] /\ holder[b] = p BY <1>a, <2>0 DEF CacheInv, FlagsInv, HolderInv, Holding
  <2>2. data'[b] = v /\ holder' = holder BY Zenon, <2>p, <1>a, <1>t DEF modify, TypeOK
  <2>3. Content(m)' \in Val /\ Owner(m) = p /\ Owner(m)' = p BY Zenon, <1>u, <1>b, <1>c, <2>1, <2>2, <2>p
  <2> QED BY Zenon, <1>a, <1>s, <2>3, StoreChange
<1> QED BY Zenon, <1>1, <1>2, <1>3

\* A write reaches the disk under a valid buffer, so nobody sees it happen.
LEMMA IderwStep ==
    ASSUME CacheInv, CacheInv', NEW p \in Proc, iderw(p) PROVE UNCHANGED Store!vars
<1> USE BcacheConstants
<1>t. TypeOK BY Zenon DEF CacheInv, CacheConsistent
<1>z. pc[p] # "idle" BY Zenon DEF iderw, At
<1>a. PICK b \in Buf, m \in Block : b = cur[p] /\ m = blockno[b] BY Zenon, <1>z, AtFacts
<1>u. UNCHANGED <<blockno, valid, data, holder>> BY Zenon DEF iderw
<1>d. disk' = disk \/ (dirty[b] /\ disk' = [disk EXCEPT ![m] = data[b]]) BY Zenon, <1>a DEF iderw, idestart
<1>e. dirty[b] => valid[b] BY Zenon, <1>a DEF CacheInv, FlagsInv
<1>f. \A n \in Block : n # m => disk'[n] = disk[n] BY Zenon, <1>a, <1>d, <1>t DEF TypeOK
<1>g. valid[b] \/ disk'[m] = disk[m] BY Zenon, <1>d, <1>e
<1>s. \A n \in Block : n # m => Content(n)' = Content(n) /\ Owner(n)' = Owner(n)
  <2>1. \A n \in Block : disk'[n] = disk[n] \/ \E c \in Buf : blockno[c] = n /\ valid[c] /\ valid'[c]
    BY Zenon, <1>a, <1>f, <1>g, <1>u
  <2>2. \A c \in Buf : c # b => valid'[c] = valid[c] /\ data'[c] = data[c] /\ holder'[c] = holder[c] BY Zenon, <1>u
  <2> QED BY <1>a, <1>u, <2>1, <2>2, OneBlock
<1>b. Content(m) = (IF valid[b] THEN data[b] ELSE disk[m]) /\ Owner(m) = (IF valid[b] THEN holder[b] ELSE None)
  BY Zenon, <1>a, Mapping
<1>c. Content(m)' = (IF valid'[b] THEN data'[b] ELSE disk'[m]) /\ Owner(m)' = (IF valid'[b] THEN holder'[b] ELSE None)
  BY Zenon, <1>a, <1>u, Mapping
<1>1. Content(m)' = Content(m) /\ Owner(m)' = Owner(m) BY <1>b, <1>c, <1>u, <1>g
<1> QED BY Zenon, <1>s, <1>1, SameStore

\* The interrupt that ends a read gives the reader the block.
LEMMA IdeintrStep ==
    ASSUME CacheInv, CacheInv', ideintr(TRUE) PROVE [Store!Next]_(Store!vars)
<1> USE BcacheConstants
<1> DEFINE d == idequeue[2]
<1>t. TypeOK BY Zenon DEF CacheInv, CacheConsistent
<1>s. /\ \A i \in 1..Len(idequeue) : idequeue[i] \in Buf /\ \E r \in Proc : pc[r] = "iowait" /\ cur[r] = idequeue[i]
      /\ Len(idequeue) \in Nat /\ Len(idequeue) # 0
  BY Zenon, <1>t, QueueFacts DEF CacheInv, CacheConsistent, Counted, QueueSound, ideintr
<1>r. PICK r \in Proc : pc[r] = "iowait" /\ cur[r] = idequeue[1] BY <1>s
<1>a. PICK b \in Buf, m \in Block : b = idequeue[1] /\ m = blockno[b] BY Zenon, <1>s, <1>r, AtFacts
<1>p. pc[r] = "iowait" /\ cur[r] = b BY Zenon, <1>r, <1>a
<1>d. Len(idequeue) > 1 => d \in Buf /\ blockno[d] \in Block
  <2>1. ASSUME Len(idequeue) > 1 PROVE d \in Buf /\ \E q \in Proc : pc[q] = "iowait" /\ cur[q] = d BY <1>s, <2>1
  <2> QED BY Zenon, <2>1, AtFacts
<1>0. /\ data' = IF ~dirty[b] THEN [data EXCEPT ![b] = disk[m]] ELSE data
      /\ valid' = [valid EXCEPT ![b] = TRUE]
      /\ IF Len(idequeue) > 1
           THEN disk' = IF dirty[d] THEN [disk EXCEPT ![blockno[d]] = data[d]] ELSE disk
           ELSE UNCHANGED disk
      /\ UNCHANGED <<blockno, holder>>
  BY <1>t, <1>s, <1>a DEF ideintr, idestart, TypeOK
<1>h. holder[b] = r BY <1>a, <1>p DEF CacheInv, HolderInv, Holding
<1>v. valid'[b] /\ \A c \in Buf : c # b => valid'[c] = valid[c] /\ data'[c] = data[c] BY Zenon, <1>0, <1>a, <1>t DEF TypeOK
<1>w. \A c \in Buf : dirty[c] => valid[c] BY Zenon DEF CacheInv, FlagsInv
<1>e. \A n \in Block : disk'[n] = disk[n] \/ \E c \in Buf : blockno[c] = n /\ valid[c] /\ valid'[c]
  <2> SUFFICES ASSUME NEW n \in Block, disk'[n] # disk[n] PROVE \E c \in Buf : blockno[c] = n /\ valid[c] /\ valid'[c] BY Zenon
  <2>1. Len(idequeue) > 1 /\ dirty[d] /\ blockno[d] = n BY Zenon, <1>0, <1>d, <1>t DEF TypeOK
  <2> QED BY Zenon, <1>d, <1>v, <1>w, <2>1
<1>o. \A n \in Block : n # m => Content(n)' = Content(n) /\ Owner(n)' = Owner(n)
  <2>1. \A c \in Buf : c # b => valid'[c] = valid[c] /\ data'[c] = data[c] /\ holder'[c] = holder[c] BY Zenon, <1>0, <1>v
  <2> QED BY <1>a, <1>0, <1>e, <2>1, OneBlock, ZenonT(30)
<1>b. Content(m) = (IF valid[b] THEN data[b] ELSE disk[m]) /\ Owner(m) = (IF valid[b] THEN holder[b] ELSE None)
  BY Zenon, <1>a, Mapping
<1>c. Content(m)' = data'[b] /\ Owner(m)' = r
  <2>1. Content(m)' = (IF valid'[b] THEN data'[b] ELSE disk'[m]) /\ Owner(m)' = (IF valid'[b] THEN holder'[b] ELSE None)
    BY <1>a, <1>0, Mapping
  <2> QED BY Zenon, <2>1, <1>v, <1>0, <1>h
<1>1. CASE dirty[b]
  <2>1. valid[b] /\ data' = data BY Zenon, <1>0, <1>1, <1>w, <1>a
  <2>2. Content(m)' = Content(m) /\ Owner(m)' = Owner(m) BY Zenon, <1>b, <1>c, <1>h, <2>1
  <2> QED BY Zenon, <1>o, <2>2, SameStore
<1>2. CASE ~dirty[b]
  <2>1. ~valid[b]
    <3>1. InQueue(b) BY <1>s, <1>t, <1>a, QueueFacts DEF InQueue
    <3> QED BY Zenon, <1>2, <1>p, <3>1 DEF CacheInv, FlagsInv
  <2>2. data'[b] = disk[m] BY Zenon, <1>0, <1>2, <1>a, <1>t DEF TypeOK
  <2>3. Content(m)' = Content(m) /\ Owner(m) = None /\ Owner(m)' = r BY Zenon, <1>b, <1>c, <2>1, <2>2
  <2> QED BY Zenon, <1>a, <1>o, <2>3, StoreChange
<1> QED BY Zenon, <1>1, <1>2

\* Recycling drops a copy that the disk has too.
LEMMA RecycleStep ==
    ASSUME CacheInv, CacheInv', ContentInv, NEW p \in Proc, NEW n \in Block, bget_miss(p, n),
           InUse
    PROVE  UNCHANGED Store!vars
<1> USE BcacheConstants
<1>t. TypeOK BY Zenon DEF CacheInv, CacheConsistent
<1>1. CASE Free = {}
  <2>1. UNCHANGED <<blockno, valid, data, disk, holder>> BY Zenon, <1>1 DEF bget_miss
  <2> QED BY Zenon, <2>1, QuietStep
<1>2. CASE Free # {}
  <2>0. PICK b \in Buf :
        /\ Recycle(b)
        /\ blockno' = [blockno EXCEPT ![b] = n]
        /\ valid' = [valid EXCEPT ![b] = FALSE]
        /\ UNCHANGED <<data, holder, disk>>
    BY Zenon, <1>2 DEF bget_miss
  <2>a. refcnt[b] = 0 /\ ~dirty[b] BY Zenon, <2>0 DEF Recycle, Free
  <2>b. \A q \in Proc : cur[q] # b BY Zenon, <2>a DEF InUse
  <2>c. holder[b] = None BY <2>b, <1>t DEF CacheInv, HolderInv, TypeOK
  <2>d. valid[b] => data[b] = disk[blockno[b]] BY Zenon, <2>a, <2>b DEF ContentInv
  <2>e. blockno'[b] = n /\ ~valid'[b] /\ \A c \in Buf : c # b => blockno'[c] = blockno[c] /\ valid'[c] = valid[c]
    BY Zenon, <2>0, <1>t DEF TypeOK
  <2>f. \A c \in Buf : blockno[c] # n BY Zenon DEF bget_miss, Cached
  <2>1. ASSUME NEW m \in Block PROVE Content(m)' = Content(m) /\ Owner(m)' = Owner(m)
    <3>1. CASE m = n
      <4>1. Content(m) = disk[m] /\ Owner(m) = None BY Zenon, <2>f, <3>1, Mapping
      <4>2. Content(m)' = disk'[m] /\ Owner(m)' = None BY Zenon, <2>e, <3>1, Mapping
      <4> QED BY Zenon, <2>0, <4>1, <4>2
    <3>2. CASE m # n /\ m = blockno[b]
      <4>1. Content(m) = disk[m] /\ Owner(m) = None
        <5>1. /\ Content(m) = IF valid[b] THEN data[b] ELSE disk[m]
              /\ Owner(m) = IF valid[b] THEN holder[b] ELSE None
          BY Zenon, <3>2, Mapping
        <5> QED BY Zenon, <2>c, <2>d, <3>2, <5>1
      <4>2. \A c \in Buf : blockno'[c] # m
        BY Zenon, <2>e, <3>2 DEF CacheInv, CacheConsistent, OneBuffer
      <4>3. Content(m)' = disk'[m] /\ Owner(m)' = None BY Zenon, <4>2, Mapping
      <4> QED BY Zenon, <2>0, <4>1, <4>3
    <3>3. CASE m # n /\ m # blockno[b]
      <4>1. CASE \A c \in Buf : blockno[c] # m
        <5>1. \A c \in Buf : blockno'[c] # m BY Zenon, <2>e, <3>3, <4>1
        <5> QED BY Zenon, <2>0, <4>1, <5>1, Mapping
      <4>2. CASE \E c \in Buf : blockno[c] = m
        <5>1. PICK c \in Buf : blockno[c] = m BY Zenon, <4>2
        <5>2. blockno'[c] = m /\ valid'[c] = valid[c] BY Zenon, <2>e, <3>3, <5>1
        <5>3. /\ Content(m) = IF valid[c] THEN data[c] ELSE disk[m]
              /\ Owner(m) = IF valid[c] THEN holder[c] ELSE None
          BY Zenon, <5>1, Mapping
        <5>4. /\ Content(m)' = IF valid'[c] THEN data'[c] ELSE disk'[m]
              /\ Owner(m)' = IF valid'[c] THEN holder'[c] ELSE None
          BY Zenon, <5>2, Mapping
        <5> QED BY Zenon, <2>0, <5>2, <5>3, <5>4
      <4> QED BY Zenon, <4>1, <4>2
    <3> QED BY Zenon, <3>1, <3>2, <3>3
  <2> QED BY Zenon, <2>1, SameStore
<1> QED BY Zenon, <1>1, <1>2

\* Every step of the cache and the driver maps to a step of BlockStore.
LEMMA StoreStep ==
    ASSUME CacheInv, CacheInv', ContentInv, ~DiskError, [Next]_vars,
           InUse
    PROVE  [Store!Next]_(Store!vars)
<1>1. ASSUME NEW p \in Proc, brelse(p) \/ log_write(p) \/ bwrite(p) \/ iderw_woken(p) PROVE UNCHANGED Store!vars
  <2>1. UNCHANGED <<blockno, valid, data, disk, holder>> BY Zenon, <1>1 DEF brelse, log_write, bwrite, iderw_woken
  <2> QED BY Zenon, <2>1, QuietStep
<1>2. ASSUME NEW p \in Proc, Step(p) PROVE [Store!Next]_(Store!vars)
  BY Zenon, <1>1, <1>2, BreadStep, IderwStep DEF Step
<1>3. ASSUME NEW p \in Proc, NEW n \in Block, bget_hit(p, n) PROVE UNCHANGED Store!vars
  <2>1. UNCHANGED <<blockno, valid, data, disk, holder>> BY Zenon, <1>3 DEF bget_hit
  <2> QED BY Zenon, <2>1, QuietStep
<1>4. ASSUME NEW p \in Proc, NEW n \in Block, bget_miss(p, n) PROVE UNCHANGED Store!vars
  BY Zenon, <1>4, RecycleStep
<1>5. ASSUME NEW p \in Proc, NEW v \in Val, modify(p, v) PROVE [Store!Next]_(Store!vars)
  BY Zenon, <1>5, BreadStep
<1>6. CASE Interrupt
  <2>1. ideintr(TRUE) BY <1>6, Zenon DEF Interrupt
  <2> QED BY Zenon, <2>1, IdeintrStep
<1>7. CASE UNCHANGED vars
  <2>1. UNCHANGED <<blockno, valid, data, disk, holder>> BY Zenon, <1>7 DEF vars
  <2> QED BY Zenon, <2>1, QuietStep
<1> QED BY Zenon, <1>2, <1>3, <1>4, <1>5, <1>6, <1>7 DEF Next, stopped

\* At boot the store has the contents of the disk and nobody has a block open.
LEMMA StoreInitial == Init => Store!Init
<1> SUFFICES ASSUME Init PROVE Store!Init BY Zenon
<1>1. \A n \in Block : Content(n) = InitVal /\ Owner(n) = None
  BY Zenon, BcacheConstants DEF Init, Content, Owner, Cached
<1> QED BY Zenon, <1>1 DEF Store!Init
=============================================================================
