---------------------------- MODULE BcacheProofs ----------------------------
(* Proofs about Bcache: the steps that count references keep the invariant,    *)
(* and so the cache's bookkeeping and what bread() returns are right and the   *)
(* cache implements BlockStore, for any number of processes, blocks and        *)
(* buffers.                                                                    *)
EXTENDS BcacheSteps, FiniteSetTheorems

\* b->refcnt is the number of processes that use b, and no more than there are.
CountsRight == RefsCounted /\ \A b \in Buf : refcnt[b] \in 0..Cardinality(Proc)
-----------------------------------------------------------------------------
\* bget() of a cached block keeps the invariants.
LEMMA BgetHitInv ==
    ASSUME CacheInv, NEW p \in Proc, NEW n \in Block, bget_hit(p, n), CountsRight' PROVE CacheInv' /\ (ContentInv => ContentInv')
<1> USE BcacheConstants
<1>p. PICK b \in Cached(n) :
      /\ refcnt' = [refcnt EXCEPT ![b] = @ + 1] /\ cur' = [cur EXCEPT ![p] = b]
  BY Zenon DEF bget_hit
<1>0. /\ ~panic /\ pc[p] = "idle" /\ pc' = [pc EXCEPT ![p] = "acquiresleep"]
      /\ UNCHANGED <<lru, blockno, valid, dirty, data, holder, idequeue, disk, busy, asleep, panic>>
  BY Zenon DEF bget_hit, At, Goto
<1>u. UNCHANGED <<lru, blockno, valid, dirty, data, holder, idequeue, disk, busy, asleep, panic>> BY Zenon, <1>0
<1>a. b \in Buf /\ blockno[b] = n /\ n # None /\ b # None /\ cur[p] = None
  BY <1>0, <1>p DEF Cached, CacheInv, UseInv, Buf
<1>t. TypeOK BY Zenon DEF CacheInv, CacheConsistent
<1>o. \A q \in Proc : q # p => pc'[q] = pc[q] /\ cur'[q] = cur[q] BY Zenon, <1>0, <1>p, <1>t DEF TypeOK
<1>m. pc'[p] = "acquiresleep" /\ cur'[p] = b /\ pc[p] = "idle" BY Zenon, <1>0, <1>p, <1>t DEF TypeOK
<1>1. TypeOK'
  <2>1. refcnt' \in [Buf -> 0..Cardinality(Proc)] BY <1>p, <1>t, Zenon DEF TypeOK, CountsRight
  <2> QED BY <1>0, <1>p, <1>a, <1>t, <2>1 DEF TypeOK
<1>2. OneBuffer' BY Zenon, <1>u DEF OneBuffer, CacheInv, CacheConsistent
<1>3. Counted'
  <2>1. RefsCounted' BY Zenon DEF CountsRight
  <2>2. QueueSound' BY <1>u, <1>o, <1>m DEF CacheInv, CacheConsistent, Counted, QueueSound
  <2>3. ListWhole' BY Zenon, <1>u DEF CacheInv, CacheConsistent, Counted, ListWhole
  <2> QED BY Zenon, <2>1, <2>2, <2>3 DEF Counted
<1>4. PanicOnlyWhenFull' BY Zenon, <1>0 DEF PanicOnlyWhenFull
<1>5. UseInv' BY <1>u, <1>a, <1>o, <1>m DEF CacheInv, UseInv
<1>6. HolderInv' BY <1>u, <1>a, <1>o, <1>m DEF CacheInv, HolderInv, Holding
<1>7. FlagsInv' BY <1>u, <1>a, <1>o, <1>m DEF CacheInv, FlagsInv, InQueue
<1>8. ContentInv => ContentInv' BY <1>u, <1>a, <1>o, <1>m DEF ContentInv
<1> QED BY <1>1, <1>2, <1>3, <1>4, <1>5, <1>6, <1>7, <1>8 DEF CacheInv, CacheConsistent

\* bget() that recycles a buffer keeps them: nobody uses it and it is not dirty.
LEMMA BgetMissInv ==
    ASSUME CacheInv, NEW p \in Proc, NEW n \in Block, bget_miss(p, n), InUse, CountsRight' PROVE CacheInv' /\ (ContentInv => ContentInv')
<1> USE BcacheConstants
<1>t. TypeOK BY Zenon DEF CacheInv, CacheConsistent
<1>g. ~panic /\ pc[p] = "idle" /\ Cached(n) = {} /\ cur[p] = None /\ n # None
  BY Zenon DEF bget_miss, At, CacheInv, UseInv
<1>1. CASE Free = {}
  <2>0. panic' /\ UNCHANGED <<lru, blockno, refcnt, valid, dirty, data, holder, idequeue, disk, busy, pc, cur, asleep>>
    BY Zenon, <1>1 DEF bget_miss
  <2>1. TypeOK' BY Zenon, <2>0, <1>t, <1>1 DEF TypeOK, bget_miss
  <2>2. OneBuffer' BY Zenon, <2>0 DEF OneBuffer, CacheInv, CacheConsistent
  <2>3. Counted'
    BY <2>0 DEF CacheInv, CacheConsistent, Counted, RefsCounted, Users, QueueSound, ListWhole
  <2>4. PanicOnlyWhenFull'
    <3>1. \A b \in Buf : dirty[b] \/ \E q \in Proc : cur[q] = b /\ pc[q] # "idle"
      <4> SUFFICES ASSUME NEW b \in Buf, ~dirty[b] PROVE \E q \in Proc : cur[q] = b /\ pc[q] # "idle" BY Zenon
      <4>1. refcnt[b] # 0 BY Zenon, <1>1 DEF Free
      <4> QED BY <4>1 DEF InUse, CacheInv, UseInv, Buf
    <3>2. \A q \in Proc : pc[q] # "idle" => cur[q] \in Buf BY <1>t DEF CacheInv, UseInv, TypeOK
    <3>3. Buf = {b \in Buf : dirty[b]} \cup {cur[r] : r \in {q \in Proc : pc[q] # "idle"}}
      BY <3>1, <3>2
    <3> QED BY Zenon, <2>0, <3>3 DEF PanicOnlyWhenFull
  <2>5. UseInv' /\ HolderInv' BY Zenon, <2>0 DEF CacheInv, UseInv, HolderInv
  <2>6. FlagsInv' BY Zenon, <2>0 DEF CacheInv, FlagsInv, InQueue
  <2>7. ContentInv => ContentInv' BY Zenon, <2>0 DEF ContentInv
  <2> QED BY <2>1, <2>2, <2>3, <2>4, <2>5, <2>6, <2>7 DEF CacheInv, CacheConsistent
<1>2. CASE Free # {}
  <2>p. PICK b \in Buf :
        /\ Recycle(b)
        /\ blockno' = [blockno EXCEPT ![b] = n]
        /\ valid' = [valid EXCEPT ![b] = FALSE]
        /\ dirty' = [dirty EXCEPT ![b] = FALSE]
        /\ refcnt' = [refcnt EXCEPT ![b] = 1]
        /\ cur' = [cur EXCEPT ![p] = b]
        /\ pc' = [pc EXCEPT ![p] = "acquiresleep"]
        /\ UNCHANGED <<panic, lru, data, holder, idequeue, disk, busy, asleep>>
    BY Zenon, <1>2 DEF bget_miss, Goto
  <2>u. UNCHANGED <<panic, lru, data, holder, idequeue, disk, busy, asleep>> BY Zenon, <2>p
  <2>a. refcnt[b] = 0 /\ ~dirty[b] /\ b # None BY Zenon, <2>p DEF Recycle, Free, Buf
  <2>b. \A q \in Proc : cur[q] # b BY Zenon, <2>a DEF InUse
  <2>o. \A q \in Proc : q # p => pc'[q] = pc[q] /\ cur'[q] = cur[q] BY Zenon, <2>p, <1>t DEF TypeOK
  <2>m. pc'[p] = "acquiresleep" /\ cur'[p] = b BY Zenon, <2>p, <1>t DEF TypeOK
  <2>c. \A c \in Buf : c # b => /\ blockno'[c] = blockno[c] /\ refcnt'[c] = refcnt[c]
                                /\ valid'[c] = valid[c] /\ dirty'[c] = dirty[c]
    BY Zenon, <2>p, <1>t DEF TypeOK
  <2>d. blockno'[b] = n /\ ~valid'[b] /\ ~dirty'[b] /\ refcnt'[b] = 1 BY Zenon, <2>p, <1>t DEF TypeOK
  <2>e. \A c \in Buf : blockno[c] # n BY Zenon, <1>g DEF Cached
  <2>q. \A i \in DOMAIN idequeue : idequeue[i] \in Buf /\ idequeue[i] # b
    BY Zenon, <2>b, <1>t, QueueFacts DEF CacheInv, CacheConsistent, Counted, QueueSound
  <2>2. TypeOK'
    <3>1. refcnt' \in [Buf -> 0..Cardinality(Proc)] BY <2>p, <1>t, Zenon DEF TypeOK, CountsRight
    <3> QED BY Zenon, <2>p, <1>t, <3>1 DEF TypeOK
  <2>3. OneBuffer' BY <2>c, <2>d, <2>e DEF OneBuffer, CacheInv, CacheConsistent
  <2>4. Counted'
    <3>1. QueueSound' BY <2>u, <1>g, <2>o, <2>m DEF CacheInv, CacheConsistent, Counted, QueueSound
    <3>2. ListWhole' BY Zenon, <2>u DEF CacheInv, CacheConsistent, Counted, ListWhole
    <3> QED BY Zenon, <3>1, <3>2 DEF Counted, CountsRight
  <2>5. PanicOnlyWhenFull' BY Zenon, <2>u, <1>g DEF PanicOnlyWhenFull
  <2>6. UseInv'
    <3>1. \A q \in Proc : q # p /\ cur[q] # None => cur[q] \in Buf /\ cur[q] # b BY Zenon, <2>b, <1>t DEF TypeOK
    <3>2. pc'[p] # "idle" /\ cur'[p] # None /\ blockno'[cur'[p]] # None BY Zenon, <1>g, <2>a, <2>d, <2>m
    <3> SUFFICES ASSUME NEW q \in Proc
                 PROVE  (pc'[q] = "idle" <=> cur'[q] = None) /\ (cur'[q] # None => blockno'[cur'[q]] # None)
      BY Zenon DEF UseInv
    <3>3. CASE q # p BY <2>c, <2>o, <3>1, <3>3 DEF CacheInv, UseInv
    <3> QED BY Zenon, <3>2, <3>3
  <2>7. HolderInv'
    <3> SUFFICES ASSUME NEW c \in Buf, NEW q \in Proc
                 PROVE  holder'[c] = q <=> cur'[q] = c /\ pc'[q] \in Holding
      BY Zenon DEF HolderInv
    <3>1. holder[c] = q <=> cur[q] = c /\ pc[q] \in Holding BY Zenon DEF CacheInv, HolderInv
    <3>2. holder'[c] = holder[c] BY Zenon, <2>u
    <3> QED BY Zenon, <1>g, <2>o, <2>m, <3>1, <3>2 DEF Holding
  <2>8. FlagsInv'
    <3>1. \A q \in Proc : q # p /\ pc[q] # "idle" => cur[q] \in Buf /\ cur[q] # b
      BY Zenon, <2>b, AtFacts
    <3>2. \A c \in Buf : (dirty'[c] => valid'[c]) /\ (valid'[c] => blockno'[c] # None)
      BY <2>c, <2>d DEF CacheInv, FlagsInv
    <3>3. \A c \in Buf : InQueue(c)' <=> InQueue(c) BY Zenon, <2>u DEF InQueue
    <3> QED BY <2>u, <2>c, <2>o, <2>m, <3>1, <3>2, <3>3 DEF CacheInv, FlagsInv
  <2>9. ContentInv => ContentInv'
    <3> SUFFICES ASSUME ContentInv PROVE ContentInv' BY Zenon
    <3>1. \A c \in Buf : valid'[c] => c # b BY Zenon, <2>d
    <3>2. idequeue # <<>> => idequeue[1] \in Buf /\ idequeue[1] # b
      BY <2>q, <1>t, QueueFacts
    <3> QED BY <2>u, <1>g, <2>c, <2>o, <2>m, <3>1, <3>2 DEF ContentInv
  <2> QED BY <2>2, <2>3, <2>4, <2>5, <2>6, <2>7, <2>8, <2>9 DEF CacheInv, CacheConsistent
<1> QED BY Zenon, <1>1, <1>2

\* The users of a buffer can be counted.
LEMMA UsersCount ==
    ASSUME NEW S \in SUBSET Proc
    PROVE  IsFiniteSet(S) /\ Cardinality(S) \in 0..Cardinality(Proc) /\ (Cardinality(S) = 0 <=> S = {})
<1>1. IsFiniteSet(S) /\ Cardinality(S) <= Cardinality(Proc) BY Zenon, BcacheConstants, FS_Subset
<1>2. Cardinality(S) \in Nat /\ Cardinality(Proc) \in Nat BY Zenon, <1>1, BcacheConstants, FS_CardinalityType
<1>3. Cardinality(S) = 0 <=> S = {} BY Zenon, <1>1, FS_EmptySet
<1> QED BY <1>1, <1>2, <1>3

\* refcnt is 0 exactly when nobody uses the buffer.
LEMMA CacheInUse == ASSUME CacheInv PROVE InUse
<1> SUFFICES ASSUME NEW b \in Buf PROVE refcnt[b] = 0 <=> \A q \in Proc : cur[q] # b BY Zenon DEF InUse
<1>1. refcnt[b] = Cardinality(Users(b)) BY Zenon DEF CacheInv, CacheConsistent, Counted, RefsCounted
<1> QED BY Zenon, <1>1, UsersCount DEF Users

\* The users of a buffer after a step.
LEMMA UsersNext ==
    ASSUME \A c \in Buf : refcnt'[c] = Cardinality(Users(c)') PROVE CountsRight'
BY UsersCount, Zenon DEF CountsRight, RefsCounted, Users

\* bget() of a cached block counts its caller.
LEMMA BgetHitCounts ==
    ASSUME CacheInv, NEW p \in Proc, NEW n \in Block, bget_hit(p, n) PROVE CountsRight'
<1> USE BcacheConstants
<1>p. PICK b \in Cached(n) : refcnt' = [refcnt EXCEPT ![b] = @ + 1] /\ cur' = [cur EXCEPT ![p] = b]
  BY Zenon DEF bget_hit
<1>0. pc[p] = "idle" BY Zenon DEF bget_hit, At
<1>a. b \in Buf /\ b # None /\ cur[p] = None BY Zenon, <1>0, <1>p DEF Cached, CacheInv, UseInv, Buf
<1>t. TypeOK BY Zenon DEF CacheInv, CacheConsistent
<1>o. \A q \in Proc : q # p => cur'[q] = cur[q] BY Zenon, <1>p, <1>t DEF TypeOK
<1>m. cur'[p] = b BY Zenon, <1>p, <1>t DEF TypeOK
<1> SUFFICES ASSUME NEW c \in Buf PROVE refcnt'[c] = Cardinality(Users(c)') BY Zenon, UsersNext
<1>1. refcnt[c] = Cardinality(Users(c)) BY Zenon DEF CacheInv, CacheConsistent, Counted, RefsCounted
<1>2. CASE c = b
  <2>1. Users(c)' = Users(c) \cup {p} BY Zenon, <1>o, <1>m, <1>2 DEF Users
  <2>2. p \notin Users(c) BY Zenon, <1>a, <1>2 DEF Users
  <2>3. Cardinality(Users(c) \cup {p}) = Cardinality(Users(c)) + 1
    BY <2>2, UsersCount, FS_AddElement, Zenon DEF Users
  <2> QED BY <1>p, <1>1, <1>2, <2>1, <2>3, <1>a, <1>t DEF TypeOK
<1>3. CASE c # b
  <2>1. Users(c)' = Users(c) BY Zenon, <1>o, <1>m, <1>a, <1>3 DEF Users, Buf
  <2> QED BY <1>p, <1>1, <1>3, <2>1, <1>t DEF TypeOK
<1> QED BY Zenon, <1>2, <1>3

\* bget() that recycles a buffer counts its caller.
LEMMA BgetMissCounts ==
    ASSUME CacheInv, NEW p \in Proc, NEW n \in Block, bget_miss(p, n) PROVE CountsRight'
<1> USE BcacheConstants
<1>t. TypeOK BY Zenon DEF CacheInv, CacheConsistent
<1>g. cur[p] = None BY Zenon DEF bget_miss, At, CacheInv, UseInv
<1>1. CASE Free = {}
  <2>1. UNCHANGED <<refcnt, cur>> BY Zenon, <1>1 DEF bget_miss
  <2> QED BY Zenon, <2>1, UsersNext DEF CacheInv, CacheConsistent, Counted, RefsCounted, Users
<1>2. CASE Free # {}
  <2>p. PICK b \in Buf : Recycle(b) /\ refcnt' = [refcnt EXCEPT ![b] = 1] /\ cur' = [cur EXCEPT ![p] = b]
    BY Zenon, <1>2 DEF bget_miss
  <2>b. \A q \in Proc : cur[q] # b BY <2>p, CacheInUse DEF InUse, Recycle, Free
  <2>o. \A q \in Proc : q # p => cur'[q] = cur[q] BY Zenon, <2>p, <1>t DEF TypeOK
  <2>m. cur'[p] = b BY Zenon, <2>p, <1>t DEF TypeOK
  <2> SUFFICES ASSUME NEW c \in Buf PROVE refcnt'[c] = Cardinality(Users(c)') BY Zenon, UsersNext
  <2>1. CASE c = b
    <3>1. Users(c)' = {p} BY <2>b, <2>o, <2>m, <2>1 DEF Users
    <3> QED BY <2>1, <3>1, <2>p, <1>t, FS_Singleton, Zenon DEF TypeOK
  <2>2. CASE c # b
    <3>1. Users(c)' = Users(c) BY <1>g, <2>o, <2>m, <2>2 DEF Users, Buf
    <3> QED BY <2>2, <3>1, <2>p, <1>t DEF TypeOK, CacheInv, CacheConsistent, Counted, RefsCounted
  <2> QED BY Zenon, <2>1, <2>2
<1> QED BY Zenon, <1>1, <1>2

\* brelse() counts its caller no more.
LEMMA BrelseCounts == ASSUME CacheInv, NEW p \in Proc, brelse(p) PROVE CountsRight'
<1> USE BcacheConstants
<1> DEFINE b == cur[p]
<1>0. pc[p] = "brelse" /\ refcnt' = [refcnt EXCEPT ![b] = @ - 1] /\ cur' = [cur EXCEPT ![p] = None]
  BY Zenon DEF brelse, At
<1>t. TypeOK BY Zenon DEF CacheInv, CacheConsistent
<1>a. b \in Buf BY Zenon, <1>0, AtFacts
<1>u. p \in Users(b) BY Zenon DEF Users
<1> HIDE DEF b
<1>o. \A q \in Proc : q # p => cur'[q] = cur[q] BY Zenon, <1>0, <1>t DEF TypeOK
<1>m. cur'[p] = None BY Zenon, <1>0, <1>t DEF TypeOK
<1> SUFFICES ASSUME NEW c \in Buf PROVE refcnt'[c] = Cardinality(Users(c)') BY Zenon, UsersNext
<1>1. refcnt[c] = Cardinality(Users(c)) BY Zenon DEF CacheInv, CacheConsistent, Counted, RefsCounted
<1>2. CASE c = b
  <2>1. Users(c)' = Users(c) \ {p} BY <1>o, <1>m, <1>2 DEF Users, Buf
  <2>2. Cardinality(Users(c) \ {p}) = Cardinality(Users(c)) - 1
    BY <1>u, <1>2, UsersCount, FS_RemoveElement, ZenonT(30) DEF Users
  <2> QED BY <1>0, <1>1, <1>2, <2>1, <2>2, <1>t DEF TypeOK
<1>3. CASE c # b
  <2>1. Users(c)' = Users(c) BY Zenon, <1>o, <1>m, <1>3 DEF Users, Buf, b
  <2> QED BY <1>0, <1>1, <1>3, <2>1, <1>t DEF TypeOK
<1> QED BY Zenon, <1>2, <1>3

\* brelse() keeps the invariants.
LEMMA BrelseInv == ASSUME CacheInv, NEW p \in Proc, brelse(p), CountsRight' PROVE CacheInv' /\ (ContentInv => ContentInv')
<1> USE BcacheConstants
<1> DEFINE b == cur[p]
<1>0. /\ ~panic /\ pc[p] = "brelse"
      /\ pc' = [pc EXCEPT ![p] = "idle"] /\ refcnt' = [refcnt EXCEPT ![b] = @ - 1]
      /\ lru' = IF refcnt[b] = 1 THEN MoveToHead(b) ELSE lru
      /\ cur' = [cur EXCEPT ![p] = None]
      /\ UNCHANGED <<blockno, valid, dirty, data, holder, idequeue, disk, busy, asleep, panic>>
  BY Zenon DEF brelse, At, Goto
<1>e. ~panic /\ pc[p] = "brelse"
      /\ UNCHANGED <<blockno, valid, dirty, data, holder, idequeue, disk, busy, asleep, panic>>
  BY Zenon, <1>0
<1>t. TypeOK BY Zenon DEF CacheInv, CacheConsistent
<1>a. b \in Buf BY Zenon, <1>0, AtFacts
<1> HIDE DEF b
<1>o. \A q \in Proc : q # p => pc'[q] = pc[q] /\ cur'[q] = cur[q] BY Zenon, <1>0, <1>t DEF TypeOK
<1>m. pc'[p] = "idle" /\ cur'[p] = None BY Zenon, <1>0, <1>t DEF TypeOK
<1>l. ListWhole' /\ lru' \in [Buf -> Buf]
  <2>1. ListWhole BY Zenon DEF CacheInv, CacheConsistent, Counted
  <2>2. CASE refcnt[b] = 1
    <3>1. lru' = MoveToHead(b) BY Zenon, <1>0, <2>2
    <3>2. MoveToHead(b) \in [Buf -> Buf] /\ {MoveToHead(b)[i] : i \in Buf} = Buf
      BY <1>a, <1>t, <2>1, MoveToHeadWhole, Zenon
    <3> QED BY <3>1, <3>2 DEF ListWhole
  <2>3. CASE refcnt[b] # 1 BY <1>0, <1>t, <2>1, <2>3 DEF ListWhole, TypeOK
  <2> QED BY <2>2, <2>3
<1>1. TypeOK'
  <2>1. refcnt' \in [Buf -> 0..Cardinality(Proc)] BY <1>0, <1>t, Zenon DEF TypeOK, CountsRight
  <2> QED BY Zenon, <1>0, <1>l, <1>t, <2>1 DEF TypeOK
<1>2. OneBuffer' BY Zenon, <1>e DEF OneBuffer, CacheInv, CacheConsistent
<1>3. Counted'
  <2>1. QueueSound' BY <1>e, <1>o, <1>m DEF CacheInv, CacheConsistent, Counted, QueueSound
  <2> QED BY Zenon, <1>l, <2>1 DEF Counted, CountsRight
<1>4. PanicOnlyWhenFull' BY Zenon, <1>e DEF PanicOnlyWhenFull
<1>5. UseInv' BY <1>e, <1>o, <1>m DEF CacheInv, UseInv
<1>6. HolderInv' BY <1>e, <1>o, <1>m DEF CacheInv, HolderInv, Holding, Buf
<1>7. FlagsInv' BY <1>e, <1>o, <1>m DEF CacheInv, FlagsInv, InQueue
<1>8. ASSUME ContentInv PROVE ContentInv'
  <2>1. ASSUME NEW c \in Buf, valid[c], ~dirty[c], \A q \in Proc : cur'[q] = c => pc'[q] # "modified"
        PROVE  data[c] = disk[blockno[c]]
    <3>1. \A q \in Proc : cur[q] = c => pc[q] # "modified" BY Zenon, <1>e, <1>o, <2>1
    <3> QED BY Zenon, <1>8, <2>1, <3>1 DEF ContentInv
  <2> QED BY Zenon, <1>e, <1>8, <2>1 DEF ContentInv
<1> QED BY <1>1, <1>2, <1>3, <1>4, <1>5, <1>6, <1>7, <1>8 DEF CacheInv, CacheConsistent

\* The empty cache satisfies them.
LEMMA InitInv == Init => CacheInv /\ ContentInv
<1> SUFFICES ASSUME Init PROVE CacheInv /\ ContentInv BY Zenon
<1> USE BcacheConstants DEF Init
<1>1. TypeOK
  <2>1. lru \in [Buf -> Buf] BY DEF Buf
  <2>2. 0 \in 0..Cardinality(Proc) BY Zenon, UsersCount
  <2>3. idequeue \in Seq(Buf) OBVIOUS
  <2> QED BY <2>1, <2>2, <2>3, Zenon DEF TypeOK
<1>2. OneBuffer BY Zenon DEF OneBuffer
<1>3. Counted
  <2>1. RefsCounted
    <3> SUFFICES ASSUME NEW b \in Buf PROVE Cardinality(Users(b)) = 0 BY Zenon DEF RefsCounted
    <3>1. Users(b) = {} BY Zenon DEF Buf, Users
    <3> QED BY Zenon, <3>1, FS_EmptySet
  <2>2. ListWhole
    <3>1. \A b \in Buf : NBUF + 1 - b \in Buf /\ lru[NBUF + 1 - b] = b BY DEF Buf
    <3>2. \A i \in Buf : lru[i] \in Buf BY Zenon, <1>1 DEF TypeOK
    <3> QED BY <3>1, <3>2, Zenon DEF ListWhole
  <2>3. QueueSound
    <3>1. DOMAIN idequeue = {} OBVIOUS
    <3> QED BY Zenon, <3>1 DEF QueueSound
  <2> QED BY Zenon, <2>1, <2>2, <2>3 DEF Counted
<1>4. PanicOnlyWhenFull BY Zenon DEF PanicOnlyWhenFull
<1>5. UseInv /\ HolderInv BY Zenon DEF UseInv, HolderInv, Holding, Buf
<1>6. FlagsInv /\ ContentInv BY Zenon DEF FlagsInv, ContentInv
<1> QED BY <1>1, <1>2, <1>3, <1>4, <1>5, <1>6 DEF CacheInv, CacheConsistent

\* Every step keeps them; the contents only while the disk reports no error.
LEMMA NextInv ==
    ASSUME CacheInv, [Next]_vars
    PROVE  CacheInv' /\ (ContentInv /\ ~DiskError => ContentInv')
<1> USE BcacheConstants
<1>1. ASSUME NEW p \in Proc, Step(p) PROVE CacheInv' /\ (ContentInv => ContentInv')
  BY <1>1, BreadInv, DirtyInv, ReleasesleepInv, BrelseInv, BrelseCounts, IderwInv, WokenInv DEF Step
<1>2. ASSUME NEW p \in Proc, NEW n \in Block, bget_hit(p, n) \/ bget_miss(p, n)
      PROVE  CacheInv' /\ (ContentInv => ContentInv')
  BY <1>2, BgetHitInv, BgetHitCounts, BgetMissInv, BgetMissCounts, CacheInUse
<1>3. CASE Interrupt
  <2>1. PICK ok \in {TRUE} \cup {~DiskError} : ideintr(ok) BY <1>3, Zenon DEF Interrupt
  <2>2. ok \in BOOLEAN /\ (~DiskError => ok) BY <2>1, Zenon
  <2> QED BY Zenon, <2>1, <2>2, IdeintrInv
<1> QED BY <1>1, <1>2, <1>3, StutterInv, ModifyInv DEF Next, stopped

\* The bookkeeping holds always.
LEMMA SpecCacheInv == Spec => []CacheInv
<1>1. Init => CacheInv BY Zenon, InitInv
<1>2. CacheInv /\ [Next]_vars => CacheInv' BY Zenon, NextInv
<1> QED BY <1>1, <1>2, PTL DEF Spec

\* The cache keeps one buffer per block, counts every use of a buffer, loses
\* none, and panics only when all are in use, for any processes, blocks and
\* buffers, and also when reads fail.
THEOREM CacheIsConsistent == Spec => []CacheConsistent
<1>1. CacheInv => CacheConsistent BY Zenon DEF CacheInv
<1> QED BY <1>1, SpecCacheInv, PTL

\* Without disk errors the contents hold always too.
LEMMA SpecContentInv == ASSUME ~DiskError PROVE Spec => [](CacheInv /\ ContentInv)
<1>1. Init => CacheInv /\ ContentInv BY Zenon, InitInv
<1>2. (CacheInv /\ ContentInv) /\ [Next]_vars => (CacheInv /\ ContentInv)' BY Zenon, NextInv
<1> QED BY <1>1, <1>2, PTL DEF Spec

\* On a disk without read errors, the buffer bread() returns holds what is on
\* the disk, until its holder changes it.
THEOREM BreadIsRight == ASSUME ~DiskError PROVE Spec => []BreadReturnsContents
<1>1. CacheInv /\ ContentInv => BreadReturnsContents
  <2> SUFFICES ASSUME CacheInv, ContentInv, NEW p \in Proc, pc[p] = "have", ~dirty[cur[p]]
               PROVE  data[cur[p]] = disk[blockno[cur[p]]]
    BY Zenon DEF BreadReturnsContents
  <2>1. cur[p] \in Buf /\ valid[cur[p]] BY Zenon, AtFacts DEF CacheInv, FlagsInv
  <2>2. \A q \in Proc : cur[q] = cur[p] => pc[q] # "modified" BY Zenon, AtFacts DEF Holding
  <2> QED BY Zenon, <2>1, <2>2 DEF ContentInv
<1> QED BY <1>1, SpecContentInv, PTL

\* On a disk without read errors the buffer cache and the IDE driver together
\* implement one locked copy of each block: hits, misses, recycling, queued
\* requests and interrupts never show, for any processes, blocks and buffers.
THEOREM CacheIsStore == ASSUME ~DiskError PROVE Spec => StoreSpec
<1>1. (CacheInv /\ ContentInv) /\ (CacheInv /\ ContentInv)' /\ [Next]_vars => [Store!Next]_(Store!vars)
  BY Zenon, CacheInUse, StoreStep
<1> QED BY <1>1, StoreInitial, SpecContentInv, PTL DEF Spec, StoreSpec, Store!Spec
=============================================================================
