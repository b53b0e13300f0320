------------------------------ MODULE Kmalloc ------------------------------
(***************************************************************************)
(* The kernel object allocator of allocator/mod.rs: one slab pool per size *)
(* class over pages of the PMM.  A slab is a page; it holds an encoded     *)
(* back pointer, its header in slot 0, and objects in the other slots.     *)
(* Every operation runs under KMALLOC_LOCK and is one action.              *)
(*                                                                         *)
(* A back pointer that validates against pool c is modelled as back[p] = c *)
(* (the cookies of the pools are taken to be distinct); the poison written *)
(* when a page leaves its pool is NULL.                                    *)
(***************************************************************************)
EXTENDS Integers, FiniteSets, Sequences, LinkedLists

CONSTANTS
    Pages,               \* page numbers of the pages the PMM can hand out
    ClassSizes,          \* object sizes of the pools, in the order free probes
    Sizes, Alignments,   \* requests: sizes and alignments asked for
    PAGE_SIZE, CACHE_LINE_SIZE, BACK_POINTER_SIZE, BITMAP_BYTES,
    MIN_SLABS,
    NULL

Classes == DOMAIN ClassSizes
MAX_CLASS == ClassSizes[Len(ClassSizes)]

-----------------------------------------------------------------------------
(* Layout of a slab *)

align_up(value, alignment) == ((value + alignment - 1) \div alignment) * alignment

object_align(c) == CACHE_LINE_SIZE
object_size(c) == align_up(ClassSizes[c], object_align(c))
usable_start(c) == align_up(BACK_POINTER_SIZE, object_align(c))

\* Mutant: the space of the header and the back pointer is not subtracted.
objects_per_slab_whole_page(c) == PAGE_SIZE \div object_size(c)

\* The largest number of slots that leaves room for the bitmap.
objects_per_slab(c) ==
    LET start == usable_start(c)
        fits == {n \in 0..(PAGE_SIZE - start) \div object_size(c) :
                    start + n * object_size(c) + BITMAP_BYTES <= PAGE_SIZE}
    IN IF start >= PAGE_SIZE \/ fits = {} THEN 0
       ELSE CHOOSE n \in fits : \A m \in fits : m <= n

ObjectSlots(c) == 1..objects_per_slab(c) - 1

\* Cache lines do not cross pages, and try_new accepts the classes.
ASSUME KmallocAssumption ==
    /\ IsFiniteSet(Pages)
    /\ Pages \subseteq Nat
    /\ Sizes \subseteq Nat
    /\ ClassSizes \in Seq(Nat \ {0}) /\ ClassSizes # <<>>
    /\ PAGE_SIZE \in Nat \ {0} /\ CACHE_LINE_SIZE \in Nat \ {0}
    /\ PAGE_SIZE % CACHE_LINE_SIZE = 0
    /\ BACK_POINTER_SIZE \in Nat /\ BITMAP_BYTES \in Nat
    /\ MIN_SLABS \in Nat
    /\ \A c \in Classes : objects_per_slab(c) > 1
    /\ NULL \notin Pages
    /\ NULL \notin Classes

object_addr(c, page, slot) ==
    page * PAGE_SIZE + usable_start(c) + slot * object_size(c)

VARIABLES
    initialized,
    pmm_free,                     \* pages the PMM has free
    back, bitmap, free_count,     \* per page: back pointer, free slots, their number
    links,                        \* the partial lists: next, prev, listed per page,
                                  \* head and current per class
    total_allocated, slab_count,  \* per class: the counters
    live                          \* the KernelAllocations, [ptr, size]

vars == <<initialized, pmm_free, back, bitmap, free_count, links,
          total_allocated, slab_count, live>>

Init ==
    /\ initialized = FALSE
    /\ pmm_free = Pages
    /\ back = [p \in Pages |-> NULL]
    /\ bitmap = [p \in Pages |-> {}]
    /\ free_count = [p \in Pages |-> 0]
    /\ links = [next |-> [p \in Pages |-> NULL], prev |-> [p \in Pages |-> NULL],
                listed |-> [p \in Pages |-> FALSE],
                head |-> [c \in Classes |-> NULL], current |-> [c \in Classes |-> NULL]]
    /\ total_allocated = [c \in Classes |-> 0]
    /\ slab_count = [c \in Classes |-> 0]
    /\ live = {}

-----------------------------------------------------------------------------
(* The partial list of a pool *)

link_slab(l, c, s) ==
    LET h == l.head[c]
        fresh == [l EXCEPT !.next[s] = h, !.prev[s] = NULL,
                           !.listed[s] = TRUE, !.head[c] = s]
    IN IF h = NULL THEN fresh ELSE [fresh EXCEPT !.prev[h] = s]

\* Mutant: the pool goes on allocating from the slab it unlinked.
unlink_slab_keeps_current(l, c, s) ==
    LET p == l.prev[s]
        n == l.next[s]
        back1 == IF p = NULL THEN [l EXCEPT !.head[c] = n] ELSE [l EXCEPT !.next[p] = n]
        both == IF n = NULL THEN back1 ELSE [back1 EXCEPT !.prev[n] = p]
    IN IF ~l.listed[s] THEN l
       ELSE [both EXCEPT !.prev[s] = NULL, !.next[s] = NULL, !.listed[s] = FALSE]

unlink_slab(l, c, s) ==
    LET p == l.prev[s]
        n == l.next[s]
        back1 == IF p = NULL THEN [l EXCEPT !.head[c] = n] ELSE [l EXCEPT !.next[p] = n]
        both == IF n = NULL THEN back1 ELSE [back1 EXCEPT !.prev[n] = p]
    IN IF ~l.listed[s] THEN l
       ELSE [both EXCEPT !.prev[s] = NULL, !.next[s] = NULL, !.listed[s] = FALSE,
                         !.current[c] = IF @ = s THEN both.head[c] ELSE @]

lowest(slots) == CHOOSE n \in slots : \A m \in slots : n <= m

\* The first slab with a free slot from s along next, or NULL.
first_with_space(s) ==
    LET at == Walk(s, links.next, NULL)
        hits == {n \in 0..Cardinality(Pages) : at[n] # NULL /\ free_count[at[n]] > 0}
    IN IF hits = {} THEN NULL ELSE at[lowest(hits)]

\* The slab current_slab_with_space leaves in `current`: a null `current` stays
\* null even when the list is not empty.
current_slab_with_space(c) ==
    LET cur == links.current[c] IN
    IF cur = NULL THEN NULL
    ELSE IF free_count[cur] > 0 THEN cur
    ELSE first_with_space(links.head[c])

-----------------------------------------------------------------------------
(* Operations *)

init ==
    /\ ~initialized
    /\ initialized' = TRUE
    /\ UNCHANGED <<pmm_free, back, bitmap, free_count, links, total_allocated,
                   slab_count, live>>

\* The first class that is large enough.
size_class(size) ==
    CHOOSE c \in Classes :
        ClassSizes[c] >= size /\ \A d \in Classes : ClassSizes[d] >= size => c <= d

accepted(size, alignment) ==
    /\ initialized
    /\ alignment # 0 /\ CACHE_LINE_SIZE % alignment = 0
    /\ size <= MAX_CLASS

\* alloc_from_slab on slab s of pool c, whose header holds `slots` and `count`.
alloc_from_slab(c, s, slots, count, l, size) ==
    LET slot == lowest(slots) IN
    /\ count > 0 /\ slots # {}
    /\ bitmap' = [bitmap EXCEPT ![s] = slots \ {slot}]
    /\ free_count' = [free_count EXCEPT ![s] = count - 1]
    /\ links' = IF count = 1 THEN unlink_slab(l, c, s) ELSE l
    /\ total_allocated' = [total_allocated EXCEPT ![c] = @ + 1]
    /\ live' = live \cup {[ptr |-> object_addr(c, s, slot), size |-> size]}

\* Pool::alloc when some slab has space.
alloc(size, alignment) ==
    /\ accepted(size, alignment)
    /\ LET c == size_class(size)
           s == current_slab_with_space(c)
       IN /\ s # NULL
          /\ alloc_from_slab(c, s, bitmap[s], free_count[s],
                             [links EXCEPT !.current[c] = s], size)
    /\ UNCHANGED <<initialized, pmm_free, back, slab_count>>

\* Pool::alloc when it takes a new page p from the PMM.
alloc_new_slab(size, alignment, p) ==
    /\ accepted(size, alignment)
    /\ p \in pmm_free
    /\ LET c == size_class(size) IN
       /\ current_slab_with_space(c) = NULL
       /\ pmm_free' = pmm_free \ {p}
       /\ back' = [back EXCEPT ![p] = c]
       /\ slab_count' = [slab_count EXCEPT ![c] = @ + 1]
       /\ alloc_from_slab(c, p, ObjectSlots(c), objects_per_slab(c) - 1,
                          [link_slab(links, c, p) EXCEPT !.current[c] = p], size)
    /\ UNCHANGED initialized

\* Pool::alloc when the PMM has no page: OutOfMemory, but `current` has moved.
alloc_out_of_memory(size, alignment) ==
    /\ accepted(size, alignment)
    /\ pmm_free = {}
    /\ LET c == size_class(size) IN
       /\ current_slab_with_space(c) = NULL
       /\ links' = [links EXCEPT !.current[c] = NULL]
    /\ UNCHANGED <<initialized, pmm_free, back, bitmap, free_count, total_allocated,
                   slab_count, live>>

PageOf(ptr) == ptr \div PAGE_SIZE

\* What Pool::free of pool c answers, checks in the order of the code.
pool_free_result(c, ptr) ==
    LET p == PageOf(ptr)
        base == p * PAGE_SIZE + usable_start(c)
        slot == (ptr - base) \div object_size(c)
    IN IF back[p] # c THEN "InvalidSlab"
       ELSE IF ptr < base THEN "OutOfBounds"
       ELSE IF (ptr - base) % object_size(c) # 0 THEN "MisalignedPointer"
       ELSE IF slot = 0 THEN "MetadataSlot"
       ELSE IF slot >= objects_per_slab(c) THEN "OutOfBounds"
       ELSE IF slot \in bitmap[p] THEN "DoubleFree"
       ELSE "Ok"

\* The first pool whose answer is not InvalidSlab, or NULL.
probe(ptr) ==
    LET hits == {c \in Classes : pool_free_result(c, ptr) # "InvalidSlab"}
    IN IF hits = {} THEN NULL ELSE lowest(hits)

\* What Kmalloc::free answers.
free_result(ptr) ==
    IF ~initialized THEN "NotInitialized"
    ELSE IF probe(ptr) = NULL THEN "InvalidSlab"
    ELSE pool_free_result(probe(ptr), ptr)

\* Mutant: one more empty slab is kept.
reclaimable_beyond_two(c, p) ==
    free_count[p] + 1 = objects_per_slab(c) - 1 /\ slab_count[c] > MIN_SLABS + 1

\* Does one more free slot make slab p empty, and is it not the last of its pool?
reclaimable(c, p) ==
    free_count[p] + 1 = objects_per_slab(c) - 1 /\ slab_count[c] > MIN_SLABS

\* Mutant: a slab that was full is linked but not made current.
relink_not_current(c, p) == IF free_count[p] = 0 THEN link_slab(links, c, p) ELSE links

\* A slab that was full goes back on the list and becomes current.
relink(c, p) ==
    IF free_count[p] = 0 THEN [link_slab(links, c, p) EXCEPT !.current[c] = p]
    ELSE links

\* Pool::free of the object at ptr, in pool c, once the checks have passed.
pool_free(c, ptr) ==
    LET p == PageOf(ptr)
        slot == (ptr - p * PAGE_SIZE - usable_start(c)) \div object_size(c)
    IN /\ bitmap' = [bitmap EXCEPT ![p] = @ \cup {slot}]
       /\ free_count' = [free_count EXCEPT ![p] = @ + 1]
       /\ total_allocated' = [total_allocated EXCEPT ![c] = @ - 1]
       /\ IF reclaimable(c, p)
          THEN /\ links' = unlink_slab(links, c, p)
               /\ slab_count' = [slab_count EXCEPT ![c] = @ - 1]
               /\ back' = [back EXCEPT ![p] = NULL]
               /\ pmm_free' = pmm_free \cup {p}
          ELSE /\ links' = relink(c, p)
               /\ UNCHANGED <<slab_count, back, pmm_free>>

\* Drop of KernelAllocation: the result of free is discarded.
drop(o) ==
    /\ live' = live \ {o}
    /\ IF free_result(o.ptr) = "Ok" THEN pool_free(probe(o.ptr), o.ptr)
       ELSE UNCHANGED <<pmm_free, back, bitmap, free_count, links, total_allocated,
                        slab_count>>
    /\ UNCHANGED initialized

\* Other users of the PMM take and return pages.
pmm_alloc_elsewhere(p) ==
    /\ p \in pmm_free
    /\ pmm_free' = pmm_free \ {p}
    /\ UNCHANGED <<initialized, back, bitmap, free_count, links, total_allocated,
                   slab_count, live>>

pmm_free_elsewhere(p) ==
    /\ p \notin pmm_free /\ back[p] = NULL
    /\ pmm_free' = pmm_free \cup {p}
    /\ UNCHANGED <<initialized, back, bitmap, free_count, links, total_allocated,
                   slab_count, live>>

Next ==
    \/ init
    \/ \E size \in Sizes, alignment \in Alignments :
           \/ alloc(size, alignment)
           \/ \E p \in Pages : alloc_new_slab(size, alignment, p)
           \/ alloc_out_of_memory(size, alignment)
    \/ \E o \in live : drop(o)
    \/ \E p \in Pages : pmm_alloc_elsewhere(p) \/ pmm_free_elsewhere(p)

Spec == Init /\ [][Next]_vars

-----------------------------------------------------------------------------
Slabs(c) == {p \in Pages : back[p] = c}
WithSpace(c) == {p \in Slabs(c) : bitmap[p] # {}}

\* link_slab and unlink_slab keep, for every pool, one doubly linked list of
\* exactly the slabs with a free slot; a full slab carries no links, also when
\* it is given back to the PMM while unlinked.  `current` is one of them, and
\* null only when every slab is full: otherwise alloc would take pages without
\* end.
PartialListExact ==
    /\ \A c \in Classes :
          /\ DoublyLinked(WithSpace(c), links.head[c], links.next, links.prev, NULL)
          /\ IF links.current[c] = NULL THEN WithSpace(c) = {}
             ELSE links.current[c] \in WithSpace(c)
    /\ \A p \in Pages \ UNION {WithSpace(c) : c \in Classes} :
          ~links.listed[p] /\ links.next[p] = NULL /\ links.prev[p] = NULL

\* Live allocations are aligned, as large as asked for, inside the object slots
\* of a slab page the PMM does not take for free, and no two share a byte.
AllocationsUsable ==
    /\ \A o \in live :
        LET base == PageOf(o.ptr) * PAGE_SIZE IN
        /\ o.ptr % CACHE_LINE_SIZE = 0
        /\ back[PageOf(o.ptr)] # NULL /\ PageOf(o.ptr) \notin pmm_free
        /\ o.ptr >= base + BACK_POINTER_SIZE + object_size(back[PageOf(o.ptr)])
        /\ o.ptr + o.size <= base + PAGE_SIZE
    /\ \A o, q \in live :
        o # q => o.ptr # q.ptr /\ (o.ptr < q.ptr => o.ptr + o.size <= q.ptr)

\* Dropping a live allocation succeeds, whichever pools free probes before the
\* right one; drop throws the error away, so a failure would be a silent leak.
DropsSucceed == \A o \in live : free_result(o.ptr) = "Ok"

\* The live allocations that lie in slabs of pool c.
LiveIn(c) == {o \in live : back[PageOf(o.ptr)] = c}

\* Beyond MIN_SLABS no pool keeps a slab without live objects: once its objects
\* are dropped, in whatever order, their memory is back with the PMM. The counts
\* that free decides this by agree with what they count.
EmptySlabsReturned ==
    /\ \A c \in Classes :
         /\ (\E p \in Slabs(c) : bitmap[p] = ObjectSlots(c)) => slab_count[c] <= MIN_SLABS
         /\ slab_count[c] = Cardinality(Slabs(c))
         /\ total_allocated[c] = Cardinality(LiveIn(c))
    /\ \A p \in Pages : back[p] # NULL => free_count[p] = Cardinality(bitmap[p])
=============================================================================
