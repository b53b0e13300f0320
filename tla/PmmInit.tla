------------------------------ MODULE PmmInit ------------------------------
(***************************************************************************)
(* PhysicalMemoryManager::init of pmm/mod.rs: from the hardware snapshot   *)
(* to the arenas, the reserved ranges and the state of every page.  The    *)
(* caller halts on every error, so errors are not told apart.              *)
(***************************************************************************)
EXTENDS HardwareInfo, FiniteSets

CONSTANTS
    Dtbs,                \* device trees to boot from
    Kernels,             \* [start, end] of the kernel image
    PAGE_SIZE,
    KERNEL_RESERVE_PAD,
    PAGE_ENTRY_SIZE      \* size_of::<Page>()

VARIABLES
    dtb, kernel,   \* inputs of the boot
    info,          \* the HardwareInfo
    pc,            \* the next step of init
    i,             \* index of the loop at that step
    ranges,        \* reserved_ranges[..reserved_count]
    arenas,        \* arenas[..arena_count], each with its metadata's place
    state,         \* per arena: the states of its pages
    total_pages,
    requested      \* history: the addresses record_reserved was given

vars == <<dtb, kernel, info, pc, i, ranges, arenas, state, total_pages, requested>>

align_down(a) == (a \div PAGE_SIZE) * PAGE_SIZE
align_up(a) == LET b == checked_add(a, PAGE_SIZE - 1)
               IN IF b = NONE THEN NONE ELSE align_down(b)

DivCeil(a, b) == (a + b - 1) \div b

Addresses(start, stop) == start..(stop - 1)

ranges_overlap(ls, le, rs, re) == ls < re /\ rs < le

ranges_overlap_or_touch(ls, le, rs, re) == ls <= re /\ rs <= le

MinOf(a, b) == IF a < b THEN a ELSE b
MaxOf(a, b) == IF a > b THEN a ELSE b

\* Mutant: only the ends are checked, not the overlaps.
validate_memory_regions_ends_only(regions) == \A r \in ToSet(regions) : end(r) # NONE

validate_memory_regions(regions) ==
    /\ \A r \in ToSet(regions) : end(r) # NONE
    /\ \A l, r \in DOMAIN regions :
           l < r => ~ranges_overlap(regions[l].base, end(regions[l]),
                                    regions[r].base, end(regions[r]))

\* Mutant: the merged range ends where the new one does.
absorb_keeps_end(acc, existing) ==
    IF ranges_overlap_or_touch(acc.start, acc.end, existing.start, existing.end)
    THEN [acc EXCEPT !.start = MinOf(@, existing.start)]
    ELSE [acc EXCEPT !.kept = Append(@, existing)]

\* One iteration of record_reserved: an existing range that meets the new one
\* grows it and is removed.
absorb(acc, existing) ==
    IF ranges_overlap_or_touch(acc.start, acc.end, existing.start, existing.end)
    THEN [acc EXCEPT !.start = MinOf(@, existing.start), !.end = MaxOf(@, existing.end)]
    ELSE [acc EXCEPT !.kept = Append(@, existing)]

\* The ranges after record_reserved, or NONE for TooManyReservedRanges.
record_reserved(rs, start, stop) ==
    IF stop <= start THEN rs
    ELSE LET acc == FoldLeft(absorb, [start |-> start, end |-> stop, kept |-> <<>>], rs)
         IN IF Len(acc.kept) >= MAX_RESERVED_REGIONS THEN NONE
            ELSE Append(acc.kept, [start |-> acc.start, end |-> acc.end])

-----------------------------------------------------------------------------
Init ==
    /\ dtb \in Dtbs
    /\ kernel \in Kernels
    /\ info = from_fdt(dtb)
    /\ pc = "validate"
    /\ i = 1
    /\ ranges = <<>>
    /\ arenas = <<>>
    /\ state = <<>>
    /\ total_pages = 0
    /\ requested = {}

inputs == <<dtb, kernel, info>>
pages == <<arenas, state, total_pages>>

Fail ==
    /\ pc' = "error"
    /\ UNCHANGED <<i, ranges, requested>>
    /\ UNCHANGED pages
    /\ UNCHANGED inputs

\* record_reserved(start, stop)?, then go on at pc'.
Reserve(start, stop, next, index) ==
    LET rs == record_reserved(ranges, start, stop) IN
    IF rs = NONE THEN Fail
    ELSE /\ ranges' = rs
         /\ requested' = requested \cup Addresses(start, stop)
         /\ pc' = next
         /\ i' = index
         /\ UNCHANGED pages
         /\ UNCHANGED inputs

Skip(next, index) ==
    /\ pc' = next
    /\ i' = index
    /\ UNCHANGED <<ranges, requested>>
    /\ UNCHANGED pages
    /\ UNCHANGED inputs

validate ==
    /\ pc = "validate"
    /\ IF info.dropped_reserved_regions # 0 \/ ~validate_memory_regions(info.memory_regions)
       THEN Fail ELSE Skip("kernel", 1)

reserve_kernel ==
    /\ pc = "kernel"
    /\ LET padded == checked_add(kernel.start, KERNEL_RESERVE_PAD) IN
       IF padded = NONE THEN Fail
       ELSE Reserve(kernel.start, MaxOf(kernel.end, padded), "device_tree", 1)

reserve_device_tree ==
    /\ pc = "device_tree"
    /\ IF dtb.phys = 0 \/ dtb.size = 0 THEN Skip("firmware", 1)
       ELSE LET blob_end == checked_add(dtb.phys, dtb.size)
                stop == IF blob_end = NONE THEN NONE ELSE align_up(blob_end)
            IN IF stop = NONE THEN Fail ELSE Reserve(dtb.phys, stop, "firmware", 1)

reserve_firmware_regions ==
    /\ pc = "firmware"
    /\ IF i > Len(info.reserved_regions) THEN Skip("arena", 1)
       ELSE LET region == info.reserved_regions[i] IN
            IF region.size = 0 THEN Skip("firmware", i + 1)
            ELSE IF end(region) = NONE THEN Fail
            ELSE Reserve(region.base, end(region), "firmware", i + 1)

-----------------------------------------------------------------------------
overlapping_reserved_range(start, stop) ==
    LET hits == {r \in ToSet(ranges) : ranges_overlap(start, stop, r.start, r.end)}
    IN IF hits = {} THEN NONE
       ELSE CHOOSE r \in hits : \A other \in hits : other.start <= r.start

\* Mutant: the search leaves out the page below the range it met.
next_candidate_skips(overlap) == align_down(overlap.start) - PAGE_SIZE

\* Where the next candidate ends: below the range the last one overlapped.
next_candidate(overlap) == align_down(overlap.start)

\* The start of the metadata, or NONE: the candidate moves down until it meets
\* no reserved range or leaves the arena.
find_metadata_range(base, page_count, metadata_pages) ==
    LET bytes == metadata_pages * PAGE_SIZE
        place[start \in 0..AddressLimit] ==
            LET overlap == overlapping_reserved_range(start, start + bytes) IN
            IF overlap = NONE THEN start
            ELSE LET new_end == next_candidate(overlap) IN
                 IF new_end < base + bytes THEN NONE ELSE place[new_end - bytes]
    IN IF metadata_pages = 0 \/ metadata_pages > page_count THEN NONE
       ELSE place[base + page_count * PAGE_SIZE - bytes]

\* The arena of a region: NONE when init skips it, BAD when init fails.
NewArena(region) ==
    LET base == align_up(region.base) IN
    IF base = NONE \/ end(region) = NONE THEN BAD
    ELSE LET count == IF base >= end(region) THEN 0
                      ELSE (align_down(end(region)) - base) \div PAGE_SIZE
             metadata == DivCeil(count * PAGE_ENTRY_SIZE, PAGE_SIZE)
         IN IF count = 0 THEN NONE
            ELSE IF metadata >= count THEN BAD
            ELSE LET at == find_metadata_range(base, count, metadata) IN
                 IF at = NONE THEN BAD
                 ELSE [base |-> base, page_count |-> count,
                       metadata |-> at, metadata_pages |-> metadata]

MetadataEnd(a) == a.metadata + a.metadata_pages * PAGE_SIZE

init_arena ==
    /\ pc = "arena"
    /\ i <= Len(info.memory_regions)
    /\ Len(arenas) < MAX_MEMORY_ARENAS
    /\ LET a == NewArena(info.memory_regions[i]) IN
       IF a = NONE THEN Skip("arena", i + 1)
       ELSE IF a = BAD THEN Fail
       ELSE LET rs == record_reserved(ranges, a.metadata, MetadataEnd(a))
                first == (a.metadata - a.base) \div PAGE_SIZE
            IN IF rs = NONE THEN Fail
               ELSE /\ ranges' = rs
                    /\ requested' = requested \cup Addresses(a.metadata, MetadataEnd(a))
                    /\ arenas' = Append(arenas, a)
                    /\ state' = Append(state, [n \in 0..a.page_count - 1 |->
                            IF n \in first..first + a.metadata_pages - 1
                            THEN "Reserved" ELSE "Free"])
                    /\ total_pages' = total_pages + a.page_count - a.metadata_pages
                    /\ i' = i + 1
                    /\ UNCHANGED pc
                    /\ UNCHANGED inputs

\* The pages of arena a that mark_reserved_ranges reserves because of range r.
marked(a, r) ==
    IF r.end <= a.base \/ r.start >= a.base + a.page_count * PAGE_SIZE THEN {}
    ELSE LET start == MaxOf(r.start, a.base)
             stop == MinOf(r.end, a.base + a.page_count * PAGE_SIZE)
         IN ((start - a.base) \div PAGE_SIZE)..(DivCeil(stop - a.base, PAGE_SIZE) - 1)

is_reserved(physical) ==
    \E r \in ToSet(ranges) : physical >= r.start /\ physical < r.end

\* The rest of init: mark_reserved_ranges, and the states build_free_list sets.
finish ==
    /\ pc = "arena"
    /\ i > Len(info.memory_regions) \/ Len(arenas) >= MAX_MEMORY_ARENAS
    /\ IF arenas = <<>> THEN Fail
       ELSE /\ state' = [a \in DOMAIN arenas |-> [n \in DOMAIN state[a] |->
                    IF \/ state[a][n] = "Reserved"
                       \/ \E r \in ToSet(ranges) : n \in marked(arenas[a], r)
                       \/ is_reserved(arenas[a].base + n * PAGE_SIZE)
                    THEN "Reserved" ELSE "Free"]]
            /\ pc' = "initialized"
            /\ UNCHANGED <<i, ranges, requested, arenas, total_pages>>
            /\ UNCHANGED inputs

Next ==
    \/ validate \/ reserve_kernel \/ reserve_device_tree
    \/ reserve_firmware_regions \/ init_arena \/ finish

Spec == Init /\ [][Next]_vars

-----------------------------------------------------------------------------
\* Merging and removing ranges neither loses a reserved address nor reserves one
\* that nobody asked for.  record_reserved merges in one pass over the array,
\* without starting again when the range has grown: still no two ranges overlap
\* or touch, and they fit the array.
RangesExact ==
    /\ Len(ranges) <= MAX_RESERVED_REGIONS
    /\ UNION {Addresses(r.start, r.end) : r \in ToSet(ranges)} = requested
    /\ \A l, r \in DOMAIN ranges :
        l # r => ~ranges_overlap_or_touch(ranges[l].start, ranges[l].end,
                                          ranges[r].start, ranges[r].end)

\* find_metadata_range puts an arena's metadata inside the arena, page aligned,
\* over no reservation made before, and as high as these allow: its loop skips
\* no place where the metadata would fit.
MetadataPlacedHighest ==
    [][Len(arenas') > Len(arenas) =>
        LET a == Last(arenas')
            fits == {s \in a.base..a.base + (a.page_count - a.metadata_pages) * PAGE_SIZE :
                        /\ s % PAGE_SIZE = 0
                        /\ Addresses(s, s + a.metadata_pages * PAGE_SIZE)
                              \cap requested = {}}
        IN a.metadata \in fits /\ \A s \in fits : s <= a.metadata]_vars

PageAddresses(a, n) ==
    Addresses(a.base + n * PAGE_SIZE, a.base + (n + 1) * PAGE_SIZE)

\* What the device tree and the linker declare to be in use.
Declared ==
    LET block == dtb.reservation_block
        listed == {j \in DOMAIN block : \A k \in 1..j : block[k] # Terminator}
        entries == {block[j] : j \in listed} \cup ToSet(Readable(dtb.reserved_memory))
    IN UNION {Addresses(e.base, e.base + e.size) : e \in entries}
       \cup Addresses(kernel.start, kernel.end)
       \cup IF dtb.phys = 0 THEN {} ELSE Addresses(dtb.phys, dtb.phys + dtb.size)

\* End to end: once init has succeeded no free page holds a byte of the kernel
\* image, of the device tree, of a reservation the device tree declares (however
\* many, in whichever list) or of page metadata.  And nothing else is withheld:
\* a page that overlaps no recorded range is free.
FreePagesExact ==
    pc = "initialized" =>
        \A a \in DOMAIN arenas : \A n \in DOMAIN state[a] :
            IF state[a][n] = "Free"
            THEN PageAddresses(arenas[a], n)
                   \cap (Declared \cup UNION {Addresses(b.metadata, MetadataEnd(b)) :
                                                b \in ToSet(arenas)}) = {}
            ELSE PageAddresses(arenas[a], n) \cap requested # {}

\* What the allocator of module Pmm assumes of the arenas: whole pages, no page
\* in two arenas, and only RAM of the device tree.
ArenasWellFormed ==
    \A a, b \in DOMAIN arenas :
        /\ arenas[a].base % PAGE_SIZE = 0
        /\ \A n \in DOMAIN state[a] :
               /\ \E r \in ToSet(dtb.memory) : r # BAD
                    /\ PageAddresses(arenas[a], n) \subseteq Addresses(r.base, r.base + r.size)
               /\ a # b => \A m \in DOMAIN state[b] :
                    PageAddresses(arenas[a], n) \cap PageAddresses(arenas[b], m) = {}
=============================================================================
