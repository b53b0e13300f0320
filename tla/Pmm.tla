-------------------------------- MODULE Pmm --------------------------------
(***************************************************************************)
(* The physical page allocator of pmm/mod.rs once it is initialized: the   *)
(* page metadata, the doubly linked free list threaded through it, single  *)
(* pages and contiguous runs, and the values that own them (AllocatedPage, *)
(* PageRun, and pages handed over by physical address).                    *)
(*                                                                         *)
(* Every operation runs under PMM_LOCK and is one action.  Addresses are   *)
(* in units small enough for PAGE_SIZE to be a small power of two.         *)
(***************************************************************************)
EXTENDS Integers, FiniteSets, Sequences, LinkedLists

CONSTANTS
    Arenas,         \* sequence of [base, page_count], as init leaves them
    ReservedPages,  \* handles of the pages init marked Reserved
    PAGE_SIZE,
    USIZE_BITS,
    NONE,           \* PageHandle::NONE, and Option::None
    MaxCount,       \* bound: longest run asked for
    MaxLog2         \* bound: largest alignment_log2 asked for

Handles == UNION {{a} \X (0..Arenas[a].page_count - 1) : a \in DOMAIN Arenas}

ArenaEnd(a) == Arenas[a].base + Arenas[a].page_count * PAGE_SIZE

ASSUME PmmAssumption ==
    /\ PAGE_SIZE \in Nat \ {0} /\ USIZE_BITS \in Nat /\ MaxCount \in Nat /\ MaxLog2 \in Nat
    /\ Arenas \in Seq([base : Nat, page_count : Nat])
    /\ \A a \in DOMAIN Arenas : Arenas[a].base % PAGE_SIZE = 0
    /\ \A a, b \in DOMAIN Arenas :
           a # b => ArenaEnd(a) <= Arenas[b].base \/ ArenaEnd(b) <= Arenas[a].base
    /\ ReservedPages \subseteq Handles
    /\ NONE \notin Handles

VARIABLES
    state,            \* per page: Page.state
    contiguous_head,  \* per page: Page.contiguous_head
    links,            \* free_head, free_tail and the pages' list fields
    free_pages,       \* the counter
    owned             \* the live AllocatedPage, PageRun and leaked pages

vars == <<state, contiguous_head, links, free_pages, owned>>

Owner(kind, head, count) == [kind |-> kind, head |-> head, count |-> count]

-----------------------------------------------------------------------------
(* Addresses *)

contains_page(a, h) == h # NONE /\ h[1] = a /\ h[2] < Arenas[a].page_count

page_to_physical(h) == Arenas[h[1]].base + h[2] * PAGE_SIZE

physical_to_page(a, physical) ==
    IF physical % PAGE_SIZE # 0 \/ physical < Arenas[a].base
       \/ (physical - Arenas[a].base) \div PAGE_SIZE >= Arenas[a].page_count
    THEN NONE
    ELSE <<a, (physical - Arenas[a].base) \div PAGE_SIZE>>

lowest(S) == CHOOSE n \in S : \A m \in S : n <= m

\* The page of the first arena that contains the address.
page_for_physical(physical) ==
    LET hits == {a \in DOMAIN Arenas : physical_to_page(a, physical) # NONE}
    IN IF hits = {} THEN NONE ELSE physical_to_page(lowest(hits), physical)

-----------------------------------------------------------------------------
(* The free list *)

\* Mutant: the old tail keeps pointing at nothing.
push_free_unlinked(l, h) ==
    [l EXCEPT !.prev[h] = l.tail, !.next[h] = NONE, !.tail = h,
              !.head = IF l.tail = NONE THEN h ELSE @]

push_free(l, h) ==
    LET fresh == [l EXCEPT !.prev[h] = l.tail, !.next[h] = NONE, !.tail = h]
    IN IF l.tail = NONE
       THEN [fresh EXCEPT !.head = h]
       ELSE [fresh EXCEPT !.next[l.tail] = h]

remove_free(l, h) ==
    LET p == l.prev[h]
        n == l.next[h]
        back == IF p = NONE THEN [l EXCEPT !.head = n] ELSE [l EXCEPT !.next[p] = n]
        both == IF n = NONE THEN [back EXCEPT !.tail = p] ELSE [back EXCEPT !.prev[n] = p]
    IN [both EXCEPT !.prev[h] = NONE, !.next[h] = NONE]

\* The page i pages after head; the pages of a run.
Nth(head, i) == <<head[1], head[2] + i>>
Run(head, count) == {Nth(head, i) : i \in 0..(count - 1)}

\* remove_free, and push_free, on the pages of a run in index order.
remove_each(l, head, count) ==
    LET after[n \in 0..count] ==
            IF n = 0 THEN l ELSE remove_free(after[n - 1], Nth(head, n - 1))
    IN after[count]

push_each(l, head, count) ==
    LET after[n \in 0..count] ==
            IF n = 0 THEN l ELSE push_free(after[n - 1], Nth(head, n - 1))
    IN after[count]

EmptyList ==
    [head |-> NONE, tail |-> NONE,
     prev |-> [h \in Handles |-> NONE], next |-> [h \in Handles |-> NONE]]

\* push_free on the pages of arena a that are not Reserved, in index order.
push_unreserved(l, a, count) ==
    LET after[n \in 0..count] ==
            IF n = 0 THEN l
            ELSE IF <<a, n - 1>> \in ReservedPages THEN after[n - 1]
            ELSE push_free(after[n - 1], <<a, n - 1>>)
    IN after[count]

build_free_list ==
    LET after[a \in 0..Len(Arenas)] ==
            IF a = 0 THEN EmptyList
            ELSE push_unreserved(after[a - 1], a, Arenas[a].page_count)
    IN after[Len(Arenas)]

Init ==
    /\ state = [h \in Handles |-> IF h \in ReservedPages THEN "Reserved" ELSE "Free"]
    /\ contiguous_head = [h \in Handles |-> FALSE]
    /\ links = build_free_list
    /\ free_pages = Cardinality(Handles \ ReservedPages)
    /\ owned = {}

-----------------------------------------------------------------------------
(* Contiguous runs *)

Alignment(log2) == IF 2^log2 < PAGE_SIZE THEN PAGE_SIZE ELSE 2^log2

NoRun == [start |-> NONE, length |-> 0]

\* Mutant: a run that starts on an unaligned page keeps growing.
scan_page_unaligned(s, h, count, alignment) ==
    IF s.length >= count THEN s
    ELSE IF state[h] # "Free" THEN NoRun
    ELSE [start |-> IF s.start = NONE THEN h ELSE s.start, length |-> s.length + 1]

\* One iteration of the scan: the run grows, starts at an aligned free page, or
\* is given up at a page that is not free.  The scan ends with a run of count
\* pages.
scan_page(s, h, count, alignment) ==
    IF s.length >= count THEN s
    ELSE IF state[h] # "Free" THEN NoRun
    ELSE IF s.start = NONE /\ page_to_physical(h) % alignment # 0 THEN s
    ELSE [start |-> IF s.start = NONE THEN h ELSE s.start, length |-> s.length + 1]

scan_arena(a, count, alignment) ==
    LET scan[n \in 0..Arenas[a].page_count] ==
            IF n = 0 THEN NoRun ELSE scan_page(scan[n - 1], <<a, n - 1>>, count, alignment)
        s == scan[Arenas[a].page_count]
    IN IF Arenas[a].page_count >= count /\ s.length >= count THEN s.start ELSE NONE

\* The head of the run alloc_contiguous takes, or NONE.
find_run(count, log2) ==
    LET heads == [a \in DOMAIN Arenas |-> scan_arena(a, count, Alignment(log2))]
        hits == {a \in DOMAIN Arenas : heads[a] # NONE}
    IN IF count = 0 \/ log2 >= USIZE_BITS \/ hits = {} THEN NONE ELSE heads[lowest(hits)]

\* What free_contiguous answers, checks in the order of the code.
free_contiguous_result(head, count) ==
    LET a == head[1]
        end == head[2] + count
        bad == {i \in head[2]..(end - 1) : \/ state[<<a, i>>] # "Allocated"
                                           \/ i # head[2] /\ contiguous_head[<<a, i>>]}
    IN IF count = 0 THEN "Ok"
       ELSE IF ~contains_page(a, head) THEN "AddressNotInArena"
       ELSE IF ~contiguous_head[head] THEN "NotContiguousHead"
       ELSE IF end > Arenas[a].page_count THEN "AddressNotInArena"
       ELSE IF bad = {} THEN "Ok"
       ELSE IF state[<<a, lowest(bad)>>] # "Allocated" THEN "NotAllocated"
       ELSE "InvalidPageState"

-----------------------------------------------------------------------------
(* Operations *)

\* Take the pages of a run off the free list.
Take(head, count) ==
    /\ links' = remove_each(links, head, count)
    /\ state' = [h \in Handles |-> IF h \in Run(head, count) THEN "Allocated" ELSE state[h]]
    /\ free_pages' = free_pages - count

\* Mutant: the run's head keeps its flag.
free_page_keeps_flag(head, count) ==
    /\ \A h \in Run(head, count) : state[h] = "Allocated"
    /\ links' = push_each(links, head, count)
    /\ state' = [h \in Handles |-> IF h \in Run(head, count) THEN "Free" ELSE state[h]]
    /\ UNCHANGED contiguous_head
    /\ free_pages' = free_pages + count

\* free_page on each page of a run in turn.  A page that is not Allocated panics:
\* see ReleasesSucceed.
free_page(head, count) ==
    /\ \A h \in Run(head, count) : state[h] = "Allocated"
    /\ links' = push_each(links, head, count)
    /\ state' = [h \in Handles |-> IF h \in Run(head, count) THEN "Free" ELSE state[h]]
    /\ contiguous_head' =
           [h \in Handles |-> h \notin Run(head, count) /\ contiguous_head[h]]
    /\ free_pages' = free_pages + count

alloc_page ==
    /\ links.head # NONE
    /\ Take(links.head, 1)
    /\ owned' = owned \cup {Owner("page", links.head, 1)}
    /\ UNCHANGED contiguous_head

alloc_contiguous(count, log2) ==
    LET head == find_run(count, log2) IN
    /\ head # NONE
    /\ Take(head, count)
    /\ contiguous_head' = [contiguous_head EXCEPT ![head] = TRUE]
    /\ owned' = owned \cup {Owner("run", head, count)}

\* Mutant: the AllocatedPage is not forgotten, and dropped as well.
leak_physical_twice(o) ==
    /\ o.kind = "page"
    /\ owned' = owned \cup {Owner("leaked", o.head, 1)}
    /\ UNCHANGED <<state, contiguous_head, links, free_pages>>

\* AllocatedPage::leak_physical: the page now belongs to whoever has its address.
leak_physical(o) ==
    /\ o.kind = "page"
    /\ owned' = (owned \ {o}) \cup {Owner("leaked", o.head, 1)}
    /\ UNCHANGED <<state, contiguous_head, links, free_pages>>

\* Drop of AllocatedPage.
drop_page(o) ==
    /\ o.kind = "page"
    /\ free_page(o.head, 1)
    /\ owned' = owned \ {o}

free_physical_page(o) ==
    LET h == page_for_physical(page_to_physical(o.head)) IN
    /\ o.kind = "leaked"
    /\ h # NONE
    /\ free_page(h, 1)
    /\ owned' = owned \ {o}

\* Drop of PageRun: the result of free_contiguous is discarded.
drop_run(o) ==
    /\ o.kind = "run"
    /\ IF free_contiguous_result(o.head, o.count) = "Ok"
       THEN free_page(o.head, o.count)
       ELSE UNCHANGED <<state, contiguous_head, links, free_pages>>
    /\ owned' = owned \ {o}

Next ==
    \/ alloc_page
    \/ \E count \in 0..MaxCount, log2 \in 0..MaxLog2 : alloc_contiguous(count, log2)
    \/ \E o \in owned :
           leak_physical(o) \/ drop_page(o) \/ free_physical_page(o) \/ drop_run(o)

Spec == Init /\ [][Next]_vars

-----------------------------------------------------------------------------
InState(s) == {h \in Handles : state[h] = s}

\* push_free, pop_free and remove_free keep one list: from free_head along
\* next_free it visits every Free page once and ends at free_tail, previous_free
\* leads back the same way, no other page carries links, and free_pages is its
\* length.  In particular alloc_page returns None only when no
\* page is free.
FreeListExact ==
    LET free == InState("Free") IN
    /\ DoublyLinked(free, links.head, links.next, links.prev, NONE)
    /\ links.tail = EndOf(free, links.head, links.next, NONE)
    /\ \A h \in Handles \ free : links.prev[h] = NONE /\ links.next[h] = NONE
    /\ free_pages = Cardinality(free)

\* Every Allocated page has exactly one owner, across AllocatedPage, PageRun and
\* leaked pages: none is owned twice and none is lost.  The pages init reserved
\* stay Reserved, and nobody's.
OneOwnerPerPage ==
    \A h \in Handles :
        /\ state[h] = "Reserved" <=> h \in ReservedPages
        /\ Cardinality({o \in owned : h \in Run(o.head, o.count)})
             = IF state[h] = "Allocated" THEN 1 ELSE 0

\* Releasing any live owner works: free_page does not panic, an address leads
\* back to its page, and the result PageRun's drop throws away is Ok.  The head
\* flags are those of the live runs and of no other page.
ReleasesSucceed ==
    /\ \A o \in owned :
        /\ o.kind # "run" => state[o.head] = "Allocated"
        /\ o.kind = "leaked" => page_for_physical(page_to_physical(o.head)) = o.head
        /\ o.kind = "run" => free_contiguous_result(o.head, o.count) = "Ok"
    /\ \A h \in Handles :
        contiguous_head[h] <=> \E o \in owned : o.kind = "run" /\ o.head = h

\* The runs alloc_contiguous may take.
FreeRuns(count, log2) ==
    {h \in Handles :
        /\ h[2] + count <= Arenas[h[1]].page_count
        /\ page_to_physical(h) % Alignment(log2) = 0
        /\ \A g \in Run(h, count) : state[g] = "Free"}

Before(g, h) == g[1] < h[1] \/ (g[1] = h[1] /\ g[2] <= h[2])

\* The one-pass scan of alloc_contiguous finds the first aligned free run of the
\* first arena that has one, and returns None only when there is none: giving up
\* a run at a busy page skips no candidate.
FirstFit ==
    \A count \in 1..MaxCount, log2 \in 0..MaxLog2 :
        log2 < USIZE_BITS =>
            LET runs == FreeRuns(count, log2)
                found == find_run(count, log2)
            IN IF runs = {} THEN found = NONE
               ELSE found \in runs /\ \A h \in runs : Before(found, h)
=============================================================================
