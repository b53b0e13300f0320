---------------------------- MODULE Kmalloc_proofs ---------------------------
(***************************************************************************)
(* The invariants of Kmalloc for any pages, classes and sizes: every       *)
(* operation keeps the inductive invariant of Slabs_proofs.                *)
(***************************************************************************)
EXTENDS Slabs_proofs

-----------------------------------------------------------------------------
(* The invariant, action by action *)

LEMMA InitStep == Init => KInv
  <1> SUFFICES ASSUME Init PROVE KInv
    OBVIOUS
  <1>1. NULL \notin Pages /\ NULL \notin Classes /\ MIN_SLABS \in Nat
    BY KmallocAssumption
  <1> DEFINE S == SpaceOf(back, bitmap)
  <1>4. S \in [Classes -> SUBSET Pages] /\ \A c \in Classes : S[c] = {}
    BY <1>1 DEF Init, SpaceOf
  <1> HIDE DEF S
  <1>5. /\ links \in Links
        /\ \A c \in Classes : links.head[c] = NULL /\ links.current[c] = NULL
        /\ \A p \in Pages : ~links.listed[p] /\ links.next[p] = NULL /\ links.prev[p] = NULL
    BY DEF Init, Links
  <1>6. ASSUME NEW c \in Classes PROVE ListOf(links, c, S[c])
    <2> DEFINE at == [i \in Nat |-> NULL]
    <2>1. Chain(at, 0, {}, links.next, links.prev, NULL) /\ links.head[c] = at[0]
      BY <1>5, ChainEmpty, Zenon
    <2> HIDE DEF at
    <2> QED
      BY <1>4, <2>1 DEF ListOf
  <1>8. LiveOk(live, back, bitmap)
    BY DEF Init, LiveOk
  <1>9. CountsOk
    BY <1>1, FS_EmptySet, Zenon DEF Init, Slabs, LiveIn, CountsOk
  <1> QED
    BY <1>4, <1>5, <1>6, <1>8, <1>9, FS_EmptySet, Zenon DEF KInv, S, Init, Types, SlabsOk,
       Lists, CurrentOk

\* A step that changes nothing the invariant reads but what the PMM has free.
LEMMA PmmStep ==
    ASSUME KInv, pmm_free' \in SUBSET Pages, initialized' \in BOOLEAN, initialized => initialized',
           \A p \in Pages : back[p] # NULL => p \notin pmm_free',
           UNCHANGED <<back, bitmap, free_count, links, total_allocated, slab_count, live>>
    PROVE  KInv'
  <1>1. Types'
    BY DEF KInv, Types
  <1>2. SlabsOk(back, bitmap, free_count, pmm_free')
    BY DEF KInv, SlabsOk
  <1>3. CountsOk'
    BY Zenon DEF KInv, CountsOk, Slabs, LiveIn
  <1> QED
    BY <1>1, <1>2, <1>3, Zenon DEF KInv

LEMMA AllocStep ==
    ASSUME NEW size \in Sizes, NEW alignment \in Alignments
    PROVE  KInv /\ alloc(size, alignment) => KInv'
  <1> SUFFICES ASSUME KInv, alloc(size, alignment) PROVE KInv'
    OBVIOUS
  <1> DEFINE c == size_class(size)
             s == links.current[c]
             l == [links EXCEPT !.current[c] = s]
             S == SpaceOf(back, bitmap)
  <1>1. c \in Classes /\ size \in Nat /\ size <= object_size(c) /\ initialized
    BY SizeClass DEF alloc, accepted
  <1>3. /\ s # NULL /\ alloc_from_slab(c, s, bitmap[s], free_count[s], l, size)
        /\ UNCHANGED <<initialized, pmm_free, back, slab_count>>
    BY <1>1, CurrentSlab DEF alloc
  <1>4. s \in Pages /\ back[s] = c
    BY <1>1, <1>3, CurrentSlab
  <1> HIDE DEF c, s, l
  <1>5. /\ Types /\ back' \in [Pages -> Classes \cup {NULL}] /\ back'[s] = c
        /\ [bitmap EXCEPT ![s] = bitmap[s]] = bitmap
        /\ [free_count EXCEPT ![s] = free_count[s]] = free_count
    BY <1>3, <1>4 DEF KInv, Types
  <1>6. bitmap[s] \in SUBSET ObjectSlots(c)
    BY <1>1, <1>4, KmallocAssumption DEF KInv, SlabsOk
  <1>7. HasSpace(back, bitmap, free_count, pmm_free, l, c, s)
    <2>1. Lists(links, S) /\ CurrentOk(links, S)
      BY DEF KInv
    <2>2. Lists(l, S) /\ l.current[c] = s /\ \A d \in Classes : d # c => l.current[d] = links.current[d]
      <3>1. MakesCurrent(links, c, s, l)
        BY Zenon DEF MakesCurrent, l
      <3> QED
        BY <1>1, <1>4, <2>1, <3>1, SetCurrent
    <2> QED
      BY <2>1, <2>2 DEF HasSpace, KInv, CurrentOk
  <1>10. /\ bitmap' \in [Pages -> SUBSET Nat] /\ free_count' \in [Pages -> Nat]
         /\ SlabsOk(back', bitmap', free_count', pmm_free')
         /\ Lists(links', SpaceOf(back', bitmap'))
         /\ CurrentOk(links', SpaceOf(back', bitmap'))
         /\ LiveOk(live', back', bitmap')
         /\ bitmap'[s] # ObjectSlots(c)
         /\ \A p \in Pages : p # s => bitmap'[p] = bitmap[p]
         /\ \E o \in [ptr : Nat, size : Nat] :
              o \notin live /\ live' = live \cup {o} /\ PageOf(o.ptr) = s
    BY <1>1, <1>3, <1>4, <1>5, <1>6, <1>7, AllocFromSlab
  <1>11. PICK o \in [ptr : Nat, size : Nat] :
              o \notin live /\ live' = live \cup {o} /\ PageOf(o.ptr) = s
    BY <1>10
  <1>12. /\ IsFiniteSet(live')
         /\ \A d \in Classes : Cardinality(LiveIn(d)') =
              IF d = c THEN Cardinality(LiveIn(d)) + 1 ELSE Cardinality(LiveIn(d))
    BY <1>1, <1>3, <1>4, <1>11, OneMore, Zenon DEF KInv, Types
  <1>13. /\ total_allocated' \in [Classes -> Nat]
         /\ \A d \in Classes : total_allocated'[d] =
              IF d = c THEN total_allocated[d] + 1 ELSE total_allocated[d]
    BY <1>1, <1>3 DEF alloc_from_slab, KInv, Types
  <1>15. CountsOk'
    <2>1. ASSUME NEW d \in Classes
          PROVE  (\E p \in Slabs(d) : bitmap'[p] = ObjectSlots(d)) => slab_count[d] <= MIN_SLABS
      BY <1>4, <1>10, Zenon DEF KInv, CountsOk, Slabs
    <2> QED
      BY <1>3, <1>12, <1>13, <2>1 DEF CountsOk, Slabs, KInv
  <1> QED
    BY <1>1, <1>3, <1>10, <1>11, <1>12, <1>13, <1>15 DEF KInv, Types

\* The new slab before an object is taken from it.
LEMMA NewSlab ==
    ASSUME KInv, NEW c \in Classes, NEW p \in pmm_free, WithSpace(c) = {},
           NEW bk, bk = [back EXCEPT ![p] = c],
           NEW bm, bm = [bitmap EXCEPT ![p] = ObjectSlots(c)],
           NEW fc, fc = [free_count EXCEPT ![p] = objects_per_slab(c) - 1],
           NEW m, m = link_slab(links, c, p), NEW l, MakesCurrent(m, c, p, l)
    PROVE  back[p] = NULL /\ HasSpace(bk, bm, fc, pmm_free \ {p}, l, c, p)
  <1> DEFINE S == SpaceOf(back, bitmap)
             T == SpaceOf(bk, bm)
  <1>0. /\ p \in Pages /\ NULL \notin Pages /\ NULL \notin Classes
        /\ ObjectSlots(c) \in SUBSET Nat /\ ObjectSlots(c) # {}
        /\ objects_per_slab(c) - 1 = Cardinality(ObjectSlots(c))
    BY KmallocAssumption, ObjectSlotsFinite DEF KInv, Types
  <1>1. back[p] = NULL
    BY <1>0 DEF KInv, SlabsOk
  <1>2. /\ bm[p] = ObjectSlots(c) /\ fc[p] = Cardinality(ObjectSlots(c)) /\ bk[p] = c
        /\ \A q \in Pages : q # p => /\ bm[q] = bitmap[q] /\ fc[q] = free_count[q]
                                     /\ bk[q] = back[q]
    BY <1>0 DEF KInv, Types
  <1>3. SlabsOk(bk, bm, fc, pmm_free \ {p})
    BY <1>2 DEF SlabsOk, KInv
  <1>4. /\ S \in [Classes -> SUBSET Pages] /\ T \in [Classes -> SUBSET Pages]
        /\ \A d \in Classes, q \in Pages : q \in S[d] <=> back[q] = d /\ bitmap[q] # {}
        /\ \A d \in Classes, q \in Pages : q \in T[d] <=> bk[q] = d /\ bm[q] # {}
    BY SpaceMember DEF SpaceOf
  <1>5. Lists(links, S) /\ CurrentOk(links, S)
    BY DEF KInv
  <1> HIDE DEF S, T
  <1>6. \A d \in Classes : p \notin S[d]
    BY <1>0, <1>1, <1>4
  <1>7. T = [S EXCEPT ![c] = @ \cup {p}]
    <2> DEFINE U == [S EXCEPT ![c] = @ \cup {p}]
    <2>1. /\ U \in [Classes -> SUBSET Pages]
          /\ \A d \in Classes, q \in Pages :
               q \in U[d] <=> q \in S[d] \/ (d = c /\ q = p)
      BY <1>0, <1>4
    <2> HIDE DEF U
    <2>2. ASSUME NEW d \in Classes, NEW q \in Pages PROVE q \in T[d] <=> q \in U[d]
      BY <1>0, <1>2, <1>4, <1>6, <2>1
    <2>3. T = U
      BY <1>4, <2>1, <2>2, SameFamily
    <2> QED
      BY <2>3 DEF U
  <1>8. Lists(m, [S EXCEPT ![c] = @ \cup {p}]) /\ m.current = links.current
    BY <1>0, <1>5, <1>6, LinkSlab
  <1>11. /\ Lists(l, T)
         /\ l.current[c] = p /\ \A d \in Classes : d # c => l.current[d] = m.current[d]
    BY <1>0, <1>7, <1>8, SetCurrent
  <1>13. \A d \in Classes : d # c => IF l.current[d] = NULL THEN T[d] = {}
                                     ELSE l.current[d] \in T[d]
    BY <1>4, <1>5, <1>7, <1>8, <1>11 DEF CurrentOk
  <1>14. LiveOk(live, bk, bm)
    BY <1>1, <1>2 DEF KInv, LiveOk
  <1> QED
    BY <1>1, <1>3, <1>11, <1>13, <1>14, Zenon DEF HasSpace, T

LEMMA AllocNewSlabStep ==
    ASSUME NEW size \in Sizes, NEW alignment \in Alignments, NEW p \in Pages
    PROVE  KInv /\ alloc_new_slab(size, alignment, p) => KInv'
  <1> SUFFICES ASSUME KInv, alloc_new_slab(size, alignment, p) PROVE KInv'
    OBVIOUS
  <1> DEFINE c == size_class(size)
             l == [link_slab(links, c, p) EXCEPT !.current[c] = p]
  <1>1. c \in Classes /\ size \in Nat /\ size <= object_size(c) /\ initialized
    BY SizeClass DEF alloc_new_slab, accepted
  <1>2. /\ p \in pmm_free /\ current_slab_with_space(c) = NULL
        /\ alloc_from_slab(c, p, ObjectSlots(c), objects_per_slab(c) - 1, l, size)
        /\ pmm_free' = pmm_free \ {p} /\ back' = [back EXCEPT ![p] = c]
        /\ slab_count' = [slab_count EXCEPT ![c] = @ + 1] /\ UNCHANGED initialized
    BY Zenon DEF alloc_new_slab
  <1>3. WithSpace(c) = {}
    BY <1>1, <1>2, CurrentSlab
  <1> HIDE DEF c
  <1>4. /\ back[p] = NULL
        /\ HasSpace(back', [bitmap EXCEPT ![p] = ObjectSlots(c)],
                    [free_count EXCEPT ![p] = objects_per_slab(c) - 1], pmm_free', l, c, p)
    BY <1>1, <1>2, <1>3, NewSlab, Zenon DEF MakesCurrent
  <1> HIDE DEF l
  <1>5. /\ back' \in [Pages -> Classes \cup {NULL}] /\ back'[p] = c
        /\ \A q \in Pages : q # p => back'[q] = back[q]
    BY <1>1, <1>2 DEF KInv, Types
  <1>6. /\ bitmap' \in [Pages -> SUBSET Nat] /\ free_count' \in [Pages -> Nat]
        /\ SlabsOk(back', bitmap', free_count', pmm_free')
        /\ Lists(links', SpaceOf(back', bitmap'))
        /\ CurrentOk(links', SpaceOf(back', bitmap'))
        /\ LiveOk(live', back', bitmap')
        /\ bitmap'[p] # ObjectSlots(c)
        /\ \A q \in Pages : q # p => bitmap'[q] = bitmap[q]
        /\ \E o \in [ptr : Nat, size : Nat] :
             o \notin live /\ live' = live \cup {o} /\ PageOf(o.ptr) = p
    BY <1>1, <1>2, <1>4, <1>5, AllocFromSlab, Zenon DEF KInv
  <1>7. PICK o \in [ptr : Nat, size : Nat] :
             o \notin live /\ live' = live \cup {o} /\ PageOf(o.ptr) = p
    BY <1>6
  <1>8. /\ IsFiniteSet(live')
        /\ \A d \in Classes : Cardinality(LiveIn(d)') =
             IF d = c THEN Cardinality(LiveIn(d)) + 1 ELSE Cardinality(LiveIn(d))
    BY <1>1, <1>4, <1>5, <1>7, LivePages, KmallocAssumption, OneMore, Zenon DEF KInv, Types
  <1>9. /\ total_allocated' \in [Classes -> Nat] /\ slab_count' \in [Classes -> Nat]
        /\ \A d \in Classes : total_allocated'[d] =
             IF d = c THEN total_allocated[d] + 1 ELSE total_allocated[d]
        /\ \A d \in Classes : slab_count'[d] = IF d = c THEN slab_count[d] + 1 ELSE slab_count[d]
    BY <1>1, <1>2 DEF alloc_from_slab, KInv, Types
  <1>11. \A d \in Classes : Slabs(d)' = IF d = c THEN Slabs(d) \cup {p} ELSE Slabs(d)
    BY <1>4, <1>5, KmallocAssumption, Zenon DEF Slabs
  <1>12. ASSUME NEW d \in Classes
         PROVE  slab_count'[d] = Cardinality(Slabs(d)')
    <2>1. Slabs(d) \in SUBSET Pages /\ p \notin Slabs(d)
      BY <1>4, KmallocAssumption DEF Slabs
    <2>3. Cardinality(Slabs(d) \cup {p}) = Cardinality(Slabs(d)) + 1
      BY <2>1, FS_AddElement, FS_Subset, KmallocAssumption, Zenon
    <2> QED
      BY <1>9, <1>11, <2>3, Zenon DEF KInv, CountsOk
  <1>13. ASSUME NEW d \in Classes, NEW q \in Slabs(d)', bitmap'[q] = ObjectSlots(d)
         PROVE  slab_count'[d] <= MIN_SLABS
    <2>2. q \in Slabs(d) /\ q \in Pages /\ bitmap[q] = ObjectSlots(d)
      BY <1>5, <1>6, <1>11, <1>13 DEF Slabs
    <2> QED
      BY <1>3, <1>9, <2>2, ObjectSlotsFinite DEF KInv, CountsOk, WithSpace
  <1> QED
    BY <1>1, <1>2, <1>5, <1>6, <1>7, <1>8, <1>9, <1>12, <1>13 DEF KInv, Types, CountsOk

LEMMA OutOfMemoryStep ==
    ASSUME NEW size \in Sizes, NEW alignment \in Alignments
    PROVE  KInv /\ alloc_out_of_memory(size, alignment) => KInv'
  <1> SUFFICES ASSUME KInv, alloc_out_of_memory(size, alignment) PROVE KInv'
    OBVIOUS
  <1> DEFINE c == size_class(size)
  <1>1. c \in Classes
    BY SizeClass DEF alloc_out_of_memory, accepted
  <1>2. /\ current_slab_with_space(c) = NULL
        /\ links' = [links EXCEPT !.current[c] = NULL]
        /\ UNCHANGED <<initialized, pmm_free, back, bitmap, free_count, total_allocated,
                       slab_count, live>>
    BY Zenon DEF alloc_out_of_memory
  <1> HIDE DEF c
  <1>4. links' = links
    BY <1>1, <1>2, LinksFields, CurrentSlab DEF KInv, Lists, Links
  <1> QED
    BY <1>2, <1>4, PmmStep DEF KInv, Types, SlabsOk

\* The slot a live object lies in.
InSlot(o, c, p, slot) ==
    /\ c \in Classes /\ p \in Pages /\ back[p] = c
    /\ slot \in ObjectSlots(c) /\ slot \notin bitmap[p]
    /\ IsObject(o, c, p, slot) /\ PageOf(o.ptr) = p

LEMMA LiveSlot ==
    ASSUME KInv, NEW o \in live
    PROVE  \E c, p, slot : InSlot(o, c, p, slot)
  <1>1. PICK p \in Pages : back[p] # NULL /\ \E slot \in ObjectSlots(back[p]) \ bitmap[p] :
                              IsObject(o, back[p], p, slot)
    BY DEF KInv, LiveOk
  <1>2. PICK slot \in ObjectSlots(back[p]) \ bitmap[p] : IsObject(o, back[p], p, slot)
    BY <1>1
  <1>3. back[p] \in Classes
    BY <1>1 DEF KInv, Types
  <1> QED
    BY <1>2, <1>3, Address DEF InSlot, IsObject

\* Kmalloc::free of a live object passes every check, in the pool of its slab.
LEMMA FreeOk ==
    ASSUME KInv, NEW o \in live, NEW c, NEW p, NEW slot, InSlot(o, c, p, slot)
    PROVE  /\ probe(o.ptr) = c /\ free_result(o.ptr) = "Ok"
           /\ (o.ptr - p * PAGE_SIZE - usable_start(c)) \div object_size(c) = slot
  <1> DEFINE base == p * PAGE_SIZE + usable_start(c)
  <1>0. /\ c \in Classes /\ p \in Pages /\ slot \in ObjectSlots(c) /\ PageOf(o.ptr) = p
        /\ back[p] = c /\ slot \notin bitmap[p] /\ o.ptr = object_addr(c, p, slot)
    BY DEF InSlot, IsObject
  <1>1. /\ slot \in Nat \ {0} /\ slot < objects_per_slab(c) /\ object_addr(c, p, slot) \in Nat
        /\ object_addr(c, p, slot) >= base
        /\ (object_addr(c, p, slot) - base) % object_size(c) = 0
        /\ (object_addr(c, p, slot) - base) \div object_size(c) = slot
    BY <1>0, Address
  <1>2. /\ o.ptr \in Nat /\ o.ptr >= base /\ (o.ptr - base) % object_size(c) = 0
        /\ (o.ptr - base) \div object_size(c) = slot
    BY <1>0, <1>1
  <1>3. objects_per_slab(c) \in Nat /\ usable_start(c) \in Nat /\ PAGE_SIZE \in Nat /\ p \in Nat
    BY <1>0, Layout, KmallocAssumption
  <1>4. pool_free_result(c, o.ptr) = "Ok"
    BY <1>0, <1>1, <1>2, <1>3 DEF pool_free_result
  <1>9. probe(o.ptr) = c
    BY <1>0, <1>4, KmallocAssumption DEF probe, pool_free_result, lowest, Classes
  <1>12. o.ptr - p * PAGE_SIZE - usable_start(c) = o.ptr - base
    BY <1>2, <1>3
  <1> QED
    BY <1>0, <1>2, <1>4, <1>9, <1>12, KmallocAssumption DEF free_result, KInv, Types

LEMMA OneLess ==
    ASSUME IsFiniteSet(live), NEW c \in Classes, NEW o \in live, live' = live \ {o},
           back[PageOf(o.ptr)] = c,
           \A q \in live' : back'[PageOf(q.ptr)] = back[PageOf(q.ptr)]
    PROVE  /\ IsFiniteSet(live')
           /\ \A d \in Classes :
                /\ Cardinality(LiveIn(d)) \in Nat
                /\ d = c => Cardinality(LiveIn(d)) > 0
                /\ Cardinality(LiveIn(d)') =
                     IF d = c THEN Cardinality(LiveIn(d)) - 1 ELSE Cardinality(LiveIn(d))
  <1>2. ASSUME NEW d \in Classes
        PROVE  /\ Cardinality(LiveIn(d)) \in Nat
               /\ d = c => Cardinality(LiveIn(d)) > 0
               /\ Cardinality(LiveIn(d)') =
                    IF d = c THEN Cardinality(LiveIn(d)) - 1 ELSE Cardinality(LiveIn(d))
    <2>1. /\ LiveIn(d)' = IF d = c THEN LiveIn(d) \ {o} ELSE LiveIn(d)
          /\ d = c => o \in LiveIn(d)
      BY DEF LiveIn
    <2>4. /\ Cardinality(LiveIn(d)) \in Nat
          /\ o \in LiveIn(d) => /\ Cardinality(LiveIn(d) \ {o}) = Cardinality(LiveIn(d)) - 1
                                /\ Cardinality(LiveIn(d) \ {o}) \in Nat
      BY FS_RemoveElement, FS_CardinalityType, FS_Subset, Zenon DEF LiveIn
    <2> QED
      BY <2>1, <2>4
  <1> QED
    BY <1>2, FS_RemoveElement

\* What a slab has once its slot is free again.
FreesSlot(p, slot, bm, fc) ==
    /\ bm = [bitmap EXCEPT ![p] = @ \cup {slot}]
    /\ fc = [free_count EXCEPT ![p] = @ + 1]

LEMMA FreedSlot ==
    ASSUME KInv, NEW o \in live, NEW c, NEW p, NEW slot, InSlot(o, c, p, slot),
           NEW bm, NEW fc, FreesSlot(p, slot, bm, fc)
    PROVE  /\ bm \in [Pages -> SUBSET Nat] /\ fc \in [Pages -> Nat]
           /\ bm[p] = bitmap[p] \cup {slot} /\ bm[p] \subseteq ObjectSlots(c)
           /\ fc[p] = free_count[p] + 1 /\ fc[p] = Cardinality(bm[p])
           /\ free_count[p] = 0 <=> bitmap[p] = {}
           /\ \A q \in Pages : q # p => bm[q] = bitmap[q] /\ fc[q] = free_count[q]
           /\ fc[p] = objects_per_slab(c) - 1 <=> bm[p] = ObjectSlots(c)
  <1>0. /\ c \in Classes /\ p \in Pages /\ back[p] = c /\ slot \in ObjectSlots(c)
        /\ slot \notin bitmap[p]
    BY DEF InSlot
  <1>1. /\ ObjectSlots(c) \in SUBSET Nat /\ IsFiniteSet(ObjectSlots(c))
        /\ Cardinality(ObjectSlots(c)) = objects_per_slab(c) - 1
    BY <1>0, ObjectSlotsFinite
  <1>2. /\ bm \in [Pages -> SUBSET Nat] /\ fc \in [Pages -> Nat]
        /\ bm[p] = bitmap[p] \cup {slot} /\ fc[p] = free_count[p] + 1
        /\ \A q \in Pages : q # p => bm[q] = bitmap[q] /\ fc[q] = free_count[q]
    BY <1>0, <1>1 DEF FreesSlot, KInv, Types
  <1>3. bitmap[p] \subseteq ObjectSlots(c) /\ free_count[p] = Cardinality(bitmap[p])
    BY <1>0, KmallocAssumption DEF KInv, SlabsOk
  <1>4. IsFiniteSet(bitmap[p])
    BY <1>1, <1>3, FS_Subset
  <1>6. Cardinality(bitmap[p] \cup {slot}) = Cardinality(bitmap[p]) + 1
    BY <1>0, <1>4, FS_AddElement, Zenon
  <1>5. fc[p] = Cardinality(bm[p])
    BY <1>2, <1>3, <1>6
  <1>7. bm[p] \subseteq ObjectSlots(c)
    BY <1>0, <1>2, <1>3
  <1>8. fc[p] = objects_per_slab(c) - 1 <=> bm[p] = ObjectSlots(c)
    BY <1>1, <1>5, <1>7, FS_Subset
  <1> QED
    BY <1>2, <1>3, <1>4, <1>5, <1>7, <1>8, FS_EmptySet

\* Slab p keeps its back pointer or its slots are all free.
KeepsSlab(c, p, bk, bm) ==
    /\ \A q \in Pages : q # p => bk[q] = back[q]
    /\ bk[p] = back[p] \/ bm[p] = ObjectSlots(c)

\* The other live objects stay where they are.
LEMMA OthersLive ==
    ASSUME KInv, NEW o \in live, NEW c, NEW p, NEW slot, InSlot(o, c, p, slot),
           NEW bm, NEW fc, FreesSlot(p, slot, bm, fc),
           NEW bk, KeepsSlab(c, p, bk, bm)
    PROVE  /\ LiveOk(live \ {o}, bk, bm)
           /\ \A q \in live \ {o} : bk[PageOf(q.ptr)] = back[PageOf(q.ptr)]
  <1>0. /\ c \in Classes /\ p \in Pages /\ back[p] = c /\ o.ptr = object_addr(c, p, slot)
        /\ NULL \notin Classes
    BY KmallocAssumption DEF InSlot, IsObject
  <1>1. /\ bm[p] = bitmap[p] \cup {slot}
        /\ \A q \in Pages : q # p => bm[q] = bitmap[q]
    BY FreedSlot
  <1>2. ASSUME NEW x \in live \ {o}
        PROVE  /\ \E r \in Pages : /\ bk[r] # NULL
                                   /\ \E t \in ObjectSlots(bk[r]) \ bm[r] : IsObject(x, bk[r], r, t)
               /\ bk[PageOf(x.ptr)] = back[PageOf(x.ptr)]
    BY <1>0, <1>1, LiveSlot DEF InSlot, IsObject, KInv, LiveOk, KeepsSlab
  <1> QED
    BY <1>2 DEF LiveOk, KInv

\* The lists, when the page of a slab without objects goes back to the PMM.
LEMMA Reclaimed ==
    ASSUME KInv, NEW o \in live, NEW c, NEW p, NEW slot, InSlot(o, c, p, slot),
           NEW bm, NEW fc, FreesSlot(p, slot, bm, fc),
           NEW bk \in [Pages -> Classes \cup {NULL}], bk[p] = NULL,
           \A q \in Pages : q # p => bk[q] = back[q],
           NEW m, m = unlink_slab(links, c, p)
    PROVE  /\ SlabsOk(bk, bm, fc, pmm_free \cup {p})
           /\ Lists(m, SpaceOf(bk, bm)) /\ CurrentOk(m, SpaceOf(bk, bm))
  <1> DEFINE S == SpaceOf(back, bitmap)
             T == SpaceOf(bk, bm)
  <1>0. c \in Classes /\ p \in Pages /\ back[p] = c /\ NULL \notin Classes
    BY KmallocAssumption DEF InSlot
  <1>1. \A q \in Pages : q # p => bm[q] = bitmap[q] /\ fc[q] = free_count[q]
    BY FreedSlot
  <1>2. SlabsOk(bk, bm, fc, pmm_free \cup {p})
    BY <1>0, <1>1 DEF KInv, SlabsOk
  <1>3. /\ S \in [Classes -> SUBSET Pages]
        /\ \A d \in Classes, q \in Pages : q \in S[d] <=> back[q] = d /\ bitmap[q] # {}
    BY DEF SpaceOf
  <1>4. /\ T \in [Classes -> SUBSET Pages]
        /\ \A d \in Classes, q \in Pages : q \in T[d] <=> bk[q] = d /\ bm[q] # {}
    BY DEF SpaceOf
  <1>5. Lists(links, S) /\ CurrentOk(links, S)
    BY DEF KInv
  <1> HIDE DEF S, T
  <1>6. T = [S EXCEPT ![c] = @ \ {p}]
    <2> DEFINE U == [S EXCEPT ![c] = @ \ {p}]
    <2>1. /\ U \in [Classes -> SUBSET Pages]
          /\ \A d \in Classes, q \in Pages : q \in U[d] <=> q \in S[d] /\ ~(d = c /\ q = p)
      BY <1>0, <1>3
    <2> HIDE DEF U
    <2>2. ASSUME NEW d \in Classes, NEW q \in Pages PROVE q \in T[d] <=> q \in U[d]
      BY <1>0, <1>1, <1>3, <1>4, <2>1
    <2>3. T = U
      BY <1>3, <1>4, <2>1, <2>2, SameFamily
    <2> QED
      BY <2>3 DEF U
  <1>7. /\ T[c] = S[c] \ {p} /\ \A d \in Classes : d # c => T[d] = S[d]
    BY <1>0, <1>3, <1>6
  <1>8. CASE p \in S[c]
    <2>1. /\ Lists(m, [S EXCEPT ![c] = @ \ {p}])
          /\ m.current[c] = IF links.current[c] = p THEN m.head[c] ELSE links.current[c]
          /\ \A d \in Classes : d # c => m.current[d] = links.current[d]
      <3>1. Lists(links, S) /\ c \in Classes
        BY <1>0, <1>5
      <3> QED
        BY <1>8, <3>1, UnlinkSlab
    <2>2. Lists(m, T)
      BY <1>6, <2>1
    <2>4. ASSUME NEW d \in Classes
          PROVE  IF m.current[d] = NULL THEN T[d] = {} ELSE m.current[d] \in T[d]
      BY <1>0, <1>4, <1>5, <1>7, <1>8, <2>1, <2>2, ListHead, KmallocAssumption, Z3 DEF
         CurrentOk
    <2> QED
      BY <1>2, <2>2, <2>4 DEF T, CurrentOk
  <1>9. CASE p \notin S[c]
    <2>1. ~links.listed[p]
      BY <1>0, <1>3, <1>5, <1>9 DEF Lists
    <2>3. T = S
      BY <1>3, <1>4, <1>7, <1>9, SameFamily
    <2> QED
      BY <1>2, <1>5, <2>1, <2>3, Zenon DEF T, unlink_slab
  <1> QED
    BY <1>8, <1>9

\* The lists, when the slab stays with its pool.
LEMMA Relinked ==
    ASSUME KInv, NEW o \in live, NEW c, NEW p, NEW slot, InSlot(o, c, p, slot),
           NEW bm, NEW fc, FreesSlot(p, slot, bm, fc), NEW m, m = relink(c, p)
    PROVE  /\ SlabsOk(back, bm, fc, pmm_free)
           /\ Lists(m, SpaceOf(back, bm)) /\ CurrentOk(m, SpaceOf(back, bm))
  <1> DEFINE S == SpaceOf(back, bitmap)
             T == SpaceOf(back, bm)
  <1>0. c \in Classes /\ p \in Pages /\ back[p] = c /\ NULL \notin Classes /\ NULL \notin Pages
    BY KmallocAssumption DEF InSlot
  <1>1. /\ \A q \in Pages : q # p => bm[q] = bitmap[q] /\ fc[q] = free_count[q]
        /\ bm[p] = bitmap[p] \cup {slot} /\ bm[p] \subseteq ObjectSlots(c)
        /\ fc[p] = Cardinality(bm[p])
        /\ free_count[p] = 0 <=> bitmap[p] = {}
    BY FreedSlot
  <1>2. SlabsOk(back, bm, fc, pmm_free)
    BY <1>0, <1>1, Zenon DEF SlabsOk, KInv
  <1>3. /\ S \in [Classes -> SUBSET Pages]
        /\ \A d \in Classes, q \in Pages : q \in S[d] <=> back[q] = d /\ bitmap[q] # {}
    BY DEF SpaceOf
  <1>4. /\ T \in [Classes -> SUBSET Pages]
        /\ \A d \in Classes, q \in Pages : q \in T[d] <=> back[q] = d /\ bm[q] # {}
    BY DEF SpaceOf
  <1>5. Lists(links, S) /\ CurrentOk(links, S)
    BY DEF KInv
  <1> HIDE DEF S, T
  <1>6. CASE free_count[p] = 0
    <2> DEFINE k == link_slab(links, c, p)
               U == [S EXCEPT ![c] = @ \cup {p}]
    <2>1. \A d \in Classes : p \notin S[d]
      BY <1>0, <1>1, <1>3, <1>6
    <2>2. /\ U \in [Classes -> SUBSET Pages]
          /\ \A d \in Classes, q \in Pages : q \in U[d] <=> q \in S[d] \/ (d = c /\ q = p)
      BY <1>0, <1>3
    <2>3. U[c] = S[c] \cup {p} /\ \A d \in Classes : d # c => U[d] = S[d]
      BY <1>0, <1>3
    <2>4. Lists(k, U) /\ k.current = links.current
      BY <1>0, <1>5, <2>1, LinkSlab
    <2>5. MakesCurrent(k, c, p, m)
      BY <1>6, Zenon DEF relink, MakesCurrent
    <2> HIDE DEF k, U
    <2>6. ASSUME NEW d \in Classes, NEW q \in Pages PROVE q \in T[d] <=> q \in U[d]
      BY <1>0, <1>1, <1>3, <1>4, <2>1, <2>2
    <2>8. /\ Lists(m, U) /\ m.current[c] = p
          /\ \A d \in Classes : d # c => m.current[d] = k.current[d]
      BY <1>0, <2>4, <2>5, SetCurrent
    <2>9. ASSUME NEW d \in Classes
          PROVE  IF m.current[d] = NULL THEN U[d] = {} ELSE m.current[d] \in U[d]
      BY <1>0, <1>5, <2>3, <2>4, <2>8 DEF CurrentOk
    <2> QED
      BY <1>2, <1>4, <2>2, <2>6, <2>8, <2>9, SameFamily DEF T, CurrentOk
  <1>7. CASE free_count[p] # 0
    BY <1>0, <1>1, <1>2, <1>3, <1>4, <1>5, <1>7, SameFamily DEF relink, T
  <1> QED
    BY <1>6, <1>7

LEMMA DropStep ==
    ASSUME NEW o \in live
    PROVE  KInv /\ drop(o) => KInv'
  <1> SUFFICES ASSUME KInv, drop(o) PROVE KInv'
    OBVIOUS
  <1>1. PICK c, p, slot : InSlot(o, c, p, slot)
    BY LiveSlot
  <1>2. /\ c \in Classes /\ p \in Pages /\ back[p] = c /\ PageOf(o.ptr) = p
        /\ NULL \notin Classes /\ NULL \notin Pages
    BY <1>1, KmallocAssumption DEF InSlot
  <1>3. /\ probe(o.ptr) = c /\ free_result(o.ptr) = "Ok"
        /\ (o.ptr - p * PAGE_SIZE - usable_start(c)) \div object_size(c) = slot
    BY <1>1, FreeOk
  <1>4. pool_free(c, o.ptr) /\ live' = live \ {o} /\ initialized' = initialized
    BY <1>3 DEF drop
  <1>5. /\ FreesSlot(p, slot, bitmap', free_count')
        /\ total_allocated' = [total_allocated EXCEPT ![c] = @ - 1]
    BY <1>2, <1>3, <1>4, Zenon DEF pool_free, FreesSlot
  <1>6. /\ reclaimable(c, p) =>
             /\ links' = unlink_slab(links, c, p)
             /\ slab_count' = [slab_count EXCEPT ![c] = @ - 1]
             /\ back' = [back EXCEPT ![p] = NULL]
             /\ pmm_free' = pmm_free \cup {p}
        /\ ~reclaimable(c, p) =>
             links' = relink(c, p) /\ UNCHANGED <<slab_count, back, pmm_free>>
    BY <1>2, <1>4, Zenon DEF pool_free
  <1>7. /\ bitmap' \in [Pages -> SUBSET Nat] /\ free_count' \in [Pages -> Nat]
        /\ bitmap'[p] \subseteq ObjectSlots(c) /\ free_count'[p] = free_count[p] + 1
        /\ \A q \in Pages : q # p => bitmap'[q] = bitmap[q] /\ free_count'[q] = free_count[q]
        /\ free_count'[p] = objects_per_slab(c) - 1 <=> bitmap'[p] = ObjectSlots(c)
    BY <1>1, <1>5, FreedSlot
  <1>8. reclaimable(c, p) <=> bitmap'[p] = ObjectSlots(c) /\ slab_count[c] > MIN_SLABS
    BY <1>7 DEF reclaimable
  <1>9. /\ back' \in [Pages -> Classes \cup {NULL}]
        /\ \A q \in Pages : q # p => back'[q] = back[q]
        /\ back'[p] = back[p] \/ bitmap'[p] = ObjectSlots(c)
    BY <1>2, <1>6, <1>8 DEF KInv, Types
  <1>10. /\ LiveOk(live', back', bitmap')
         /\ \A q \in live' : back'[PageOf(q.ptr)] = back[PageOf(q.ptr)]
    <2>2. /\ LiveOk(live \ {o}, back', bitmap')
          /\ \A q \in live \ {o} : back'[PageOf(q.ptr)] = back[PageOf(q.ptr)]
      BY <1>1, <1>5, <1>9, OthersLive DEF KeepsSlab
    <2> QED
      BY <1>4, <2>2
  <1>11. /\ SlabsOk(back', bitmap', free_count', pmm_free')
         /\ Lists(links', SpaceOf(back', bitmap'))
         /\ CurrentOk(links', SpaceOf(back', bitmap'))
    <2>1. CASE reclaimable(c, p)
      <3>1. back'[p] = NULL /\ pmm_free' = pmm_free \cup {p} /\ links' = unlink_slab(links, c, p)
        BY <1>2, <1>6, <2>1 DEF KInv, Types
      <3> QED
        BY <1>1, <1>5, <1>9, <3>1, Reclaimed
    <2>2. CASE ~reclaimable(c, p)
      BY <1>1, <1>5, <1>6, <2>2, Relinked
    <2> QED
      BY <2>1, <2>2
  <1>12. /\ IsFiniteSet(live')
         /\ \A d \in Classes :
              /\ Cardinality(LiveIn(d)) \in Nat
              /\ d = c => Cardinality(LiveIn(d)) > 0
              /\ Cardinality(LiveIn(d)') =
                   IF d = c THEN Cardinality(LiveIn(d)) - 1 ELSE Cardinality(LiveIn(d))
    BY <1>2, <1>4, <1>10, OneLess, Zenon DEF KInv, Types
  <1>13. /\ total_allocated' \in [Classes -> Nat]
         /\ \A d \in Classes : total_allocated'[d] = Cardinality(LiveIn(d)')
    BY <1>2, <1>5, <1>12 DEF KInv, CountsOk, Types
  <1>14. ASSUME NEW d \in Classes
         PROVE  slab_count'[d] \in Nat /\ slab_count'[d] = Cardinality(Slabs(d)')
    <2>1. slab_count[d] = Cardinality(Slabs(d)) /\ slab_count[d] \in Nat
      BY DEF KInv, CountsOk, Types
    <2>2. CASE d = c /\ reclaimable(c, p)
      <3>1. Slabs(d) \in SUBSET Pages /\ p \in Slabs(d) /\ Slabs(d)' = Slabs(d) \ {p}
        BY <1>2, <1>6, <1>9, <2>2 DEF Slabs, KInv, Types
      <3>3. /\ Cardinality(Slabs(d) \ {p}) = Cardinality(Slabs(d)) - 1
            /\ Cardinality(Slabs(d) \ {p}) \in Nat
        BY <3>1, FS_RemoveElement, FS_CardinalityType, FS_Subset, KmallocAssumption
      <3> QED
        BY <1>6, <2>1, <2>2, <3>1, <3>3 DEF KInv, Types
    <2>3. CASE d # c \/ ~reclaimable(c, p)
      <3>1. Slabs(d)' = Slabs(d)
        BY <1>2, <1>6, <1>9, <2>3 DEF Slabs, KInv, Types
      <3> QED
        BY <1>6, <2>1, <2>3, <3>1 DEF KInv, Types
    <2> QED
      BY <2>2, <2>3
  <1>15. ASSUME NEW d \in Classes, NEW q \in Slabs(d)', bitmap'[q] = ObjectSlots(d)
         PROVE  slab_count'[d] <= MIN_SLABS
    <2>1. q \in Pages /\ back'[q] = d
      BY DEF Slabs
    <2>2. /\ slab_count[d] \in Nat /\ slab_count'[d] \in Nat /\ slab_count'[d] <= slab_count[d]
          /\ MIN_SLABS \in Nat
      BY <1>6, <1>14, KmallocAssumption DEF KInv, Types
    <2>3. CASE q # p
      <3>1. q \in Slabs(d) /\ bitmap[q] = ObjectSlots(d)
        BY <1>7, <1>9, <1>15, <2>1, <2>3 DEF Slabs
      <3> QED
        BY <2>2, <3>1 DEF KInv, CountsOk
    <2>4. CASE q = p
      BY <1>2, <1>6, <1>8, <1>15, <2>1, <2>2, <2>4 DEF KInv, Types
    <2> QED
      BY <2>3, <2>4
  <1>17. Types'
    BY <1>2, <1>4, <1>6, <1>7, <1>9, <1>12, <1>13, <1>14 DEF KInv, Types
  <1> QED
    BY <1>10, <1>11, <1>13, <1>14, <1>15, <1>17 DEF KInv, CountsOk


-----------------------------------------------------------------------------
(* Theorems *)

LEMMA NextStep == KInv /\ [Next]_vars => KInv'
  <1> SUFFICES ASSUME KInv, [Next]_vars PROVE KInv'
    OBVIOUS
  <1>1. CASE UNCHANGED vars
    BY <1>1, PmmStep DEF vars, KInv, Types, SlabsOk
  <1>2. CASE init
    BY <1>2, PmmStep DEF init, KInv, Types, SlabsOk
  <1>3. ASSUME NEW size \in Sizes, NEW alignment \in Alignments, alloc(size, alignment)
        PROVE  KInv'
    BY <1>3, AllocStep
  <1>4. ASSUME NEW size \in Sizes, NEW alignment \in Alignments, NEW p \in Pages,
               alloc_new_slab(size, alignment, p)
        PROVE  KInv'
    BY <1>4, AllocNewSlabStep
  <1>5. ASSUME NEW size \in Sizes, NEW alignment \in Alignments,
               alloc_out_of_memory(size, alignment)
        PROVE  KInv'
    BY <1>5, OutOfMemoryStep
  <1>6. ASSUME NEW o \in live, drop(o) PROVE KInv'
    BY <1>6, DropStep
  <1>7. ASSUME NEW p \in Pages, pmm_alloc_elsewhere(p) PROVE KInv'
    BY <1>7, PmmStep DEF pmm_alloc_elsewhere, KInv, Types, SlabsOk
  <1>8. ASSUME NEW p \in Pages, pmm_free_elsewhere(p) PROVE KInv'
    BY <1>8, PmmStep DEF pmm_free_elsewhere, KInv, Types, SlabsOk
  <1> QED
    BY <1>1, <1>2, <1>3, <1>4, <1>5, <1>6, <1>7, <1>8 DEF Next

\* The inductive invariant: slabs and their counts, the partial lists, the slots
\* of the live objects.
THEOREM Invariant == Spec => []KInv
  BY InitStep, NextStep, PTL DEF Spec

\* link_slab and unlink_slab keep, for every pool, one doubly linked list of
\* exactly its slabs with a free slot, `current` among them, for any number of
\* pages, pools and objects.
THEOREM PartialListsExact == Spec => []PartialListExact
  <1>1. KInv => PartialListExact
    <2> SUFFICES ASSUME KInv PROVE PartialListExact
      OBVIOUS
    <2> DEFINE S == SpaceOf(back, bitmap)
    <2>1. Lists(links, S) /\ CurrentOk(links, S)
      BY DEF KInv
    <2>2. S \in [Classes -> SUBSET Pages] /\ \A c \in Classes : S[c] = WithSpace(c)
      BY DEF SpaceOf, WithSpace, Slabs
    <2> HIDE DEF S
    <2>3. ASSUME NEW c \in Classes
          PROVE  DoublyLinked(WithSpace(c), links.head[c], links.next, links.prev, NULL)
      BY <2>1, <2>2, KmallocAssumption, ChainIsDoublyLinked DEF Lists, ListOf
    <2>4. ASSUME NEW p \in Pages \ UNION {WithSpace(c) : c \in Classes}
          PROVE  ~links.listed[p] /\ links.next[p] = NULL /\ links.prev[p] = NULL
      BY <2>1, <2>2 DEF Lists
    <2> QED
      BY <2>1, <2>2, <2>3, <2>4 DEF PartialListExact, CurrentOk
  <1> QED
    BY <1>1, Invariant, PTL

\* Every live allocation is aligned to a cache line, fits in its slot of a slab
\* the PMM does not have, and shares no byte with another.
THEOREM LiveAllocationsUsable == Spec => []AllocationsUsable
  <1>1. ASSUME KInv, NEW o \in live, NEW c, NEW p, NEW slot, InSlot(o, c, p, slot)
        PROVE  /\ c \in Classes /\ p \in Pages /\ back[p] = c /\ PageOf(o.ptr) = p
               /\ o.ptr \in Nat /\ o.size \in Nat /\ o.size <= object_size(c)
               /\ slot \in Nat /\ object_size(c) \in Nat /\ usable_start(c) \in Nat
               /\ o.ptr = p * PAGE_SIZE + usable_start(c) + slot * object_size(c)
               /\ o.ptr % CACHE_LINE_SIZE = 0
               /\ o.ptr >= p * PAGE_SIZE + BACK_POINTER_SIZE + object_size(c)
               /\ o.ptr + object_size(c) <= p * PAGE_SIZE + PAGE_SIZE
    BY <1>1, Address, Layout DEF InSlot, IsObject, KInv, Types
  <1>2. ASSUME KInv, NEW o \in live
        PROVE  LET base == PageOf(o.ptr) * PAGE_SIZE IN
               /\ o.ptr % CACHE_LINE_SIZE = 0
               /\ back[PageOf(o.ptr)] # NULL /\ PageOf(o.ptr) \notin pmm_free
               /\ o.ptr >= base + BACK_POINTER_SIZE + object_size(back[PageOf(o.ptr)])
               /\ o.ptr + o.size <= base + PAGE_SIZE
    <2>1. PICK c, p, slot : InSlot(o, c, p, slot)
      BY <1>2, LiveSlot
    <2>2. /\ c \in Classes /\ p \in Pages /\ back[p] = c /\ PageOf(o.ptr) = p
          /\ o.ptr \in Nat /\ o.size \in Nat /\ object_size(c) \in Nat
          /\ o.size <= object_size(c)
          /\ o.ptr % CACHE_LINE_SIZE = 0
          /\ o.ptr >= p * PAGE_SIZE + BACK_POINTER_SIZE + object_size(c)
          /\ o.ptr + object_size(c) <= p * PAGE_SIZE + PAGE_SIZE
      BY <1>1, <1>2, <2>1
    <2>4. p * PAGE_SIZE \in Nat /\ PAGE_SIZE \in Nat
      BY <2>2, KmallocAssumption
    <2>5. o.ptr + o.size <= p * PAGE_SIZE + PAGE_SIZE
      BY <2>2, <2>4
    <2> QED
      BY <1>2, <2>2, <2>5, KmallocAssumption, Zenon DEF KInv, SlabsOk
  <1>3. ASSUME KInv, NEW o \in live, NEW q \in live, o # q
        PROVE  o.ptr # q.ptr /\ (o.ptr < q.ptr => o.ptr + o.size <= q.ptr)
    <2>1. PICK c, p, slot : InSlot(o, c, p, slot)
      BY <1>3, LiveSlot
    <2>2. PICK d, r, t : InSlot(q, d, r, t)
      BY <1>3, LiveSlot
    <2>3. /\ c \in Classes /\ p \in Pages /\ back[p] = c
          /\ o.ptr \in Nat /\ o.size \in Nat /\ o.size <= object_size(c)
          /\ slot \in Nat /\ object_size(c) \in Nat /\ usable_start(c) \in Nat
          /\ o.ptr = p * PAGE_SIZE + usable_start(c) + slot * object_size(c)
          /\ o.ptr + object_size(c) <= p * PAGE_SIZE + PAGE_SIZE
      BY <1>1, <1>3, <2>1
    <2>4. /\ d \in Classes /\ r \in Pages /\ back[r] = d /\ q.ptr \in Nat
          /\ t \in Nat /\ object_size(d) \in Nat /\ usable_start(d) \in Nat
          /\ q.ptr = r * PAGE_SIZE + usable_start(d) + t * object_size(d)
          /\ q.ptr + object_size(d) <= r * PAGE_SIZE + PAGE_SIZE
      BY <1>1, <1>3, <2>2
    <2>5. p \in Nat /\ r \in Nat /\ PAGE_SIZE \in Nat /\ p * PAGE_SIZE \in Nat
          /\ r * PAGE_SIZE \in Nat /\ slot * object_size(c) \in Nat /\ t * object_size(d) \in Nat
      <3>2. \A x, y \in Nat : x * y \in Nat
        OBVIOUS
      <3> QED
        BY <2>3, <2>4, <3>2, KmallocAssumption, Zenon
    <2>7. ASSUME o.ptr < q.ptr PROVE o.ptr + o.size <= q.ptr
      <3>1. CASE p = r
        <4>4. (slot + 1) * object_size(c) = slot * object_size(c) + object_size(c)
          BY <2>3
        <4> QED
          BY <2>3, <2>4, <2>5, <2>7, <3>1, <4>4
      <3>2. CASE p < r
        <4> QED
          <5> DEFINE x == p * PAGE_SIZE
                     y == r * PAGE_SIZE
          <5>2. /\ x \in Nat /\ y \in Nat /\ q.ptr >= y /\ x + PAGE_SIZE <= y
                /\ o.ptr + object_size(c) <= x + PAGE_SIZE
            BY <2>3, <2>4, <2>5, <3>2
          <5> HIDE DEF x, y
          <5> QED
            BY <2>3, <2>4, <2>5, <5>2
      <3>3. CASE r < p
        <4> QED
          <5> DEFINE x == p * PAGE_SIZE
                     y == r * PAGE_SIZE
                     e == slot * object_size(c)
          <5>1. /\ x \in Nat /\ y \in Nat /\ e \in Nat /\ y + PAGE_SIZE <= x
                /\ q.ptr + object_size(d) <= y + PAGE_SIZE
                /\ o.ptr = x + usable_start(c) + e
            BY <2>3, <2>4, <2>5, <3>3
          <5> HIDE DEF x, y, e
          <5> QED
            BY <2>3, <2>4, <2>5, <2>7, <5>1
      <3> QED
        BY <2>5, <3>1, <3>2, <3>3
    <2> QED
      BY <1>3, <2>7 DEF KInv, LiveOk
  <1>4. KInv => AllocationsUsable
    BY <1>2, <1>3 DEF AllocationsUsable
  <1> QED
    BY <1>4, Invariant, PTL

\* Kmalloc::free of a live allocation answers Ok, so the result Drop discards is
\* never an error.
THEOREM DropsAlwaysSucceed == Spec => []DropsSucceed
  <1>1. ASSUME KInv, NEW o \in live PROVE free_result(o.ptr) = "Ok"
    BY <1>1, LiveSlot, FreeOk
  <1>2. KInv => DropsSucceed
    BY <1>1 DEF DropsSucceed
  <1> QED
    BY <1>2, Invariant, PTL

\* Beyond MIN_SLABS no pool keeps a slab without live objects, and the counts
\* that decide it are exact.
THEOREM EmptySlabsAreReturned == Spec => []EmptySlabsReturned
  <1>1. KInv => EmptySlabsReturned
    BY DEF EmptySlabsReturned, KInv, CountsOk, SlabsOk
  <1> QED
    BY <1>1, Invariant, PTL
=============================================================================
