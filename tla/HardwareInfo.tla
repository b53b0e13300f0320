---------------------------- MODULE HardwareInfo ----------------------------
(***************************************************************************)
(* hwinfo/mod.rs: the memory and reservation lists boot extracts from the  *)
(* device tree into arrays of fixed size.  A device tree is                *)
(*   [memory, reservation_block, reserved_memory, phys, size]              *)
(* where the first three are sequences of [base, size] entries; an entry   *)
(* the parser cannot read is BAD, and the reservation block is meant to    *)
(* end with the entry 0, 0.                                                *)
(***************************************************************************)
EXTENDS Integers, Sequences, SequencesExt

CONSTANTS
    MAX_MEMORY_ARENAS,
    MAX_RESERVED_REGIONS,
    AddressLimit,   \* 2 ^ 64: addresses and sizes are below it
    NONE,           \* Option::None
    BAD             \* an entry that does not parse

Terminator == [base |-> 0, size |-> 0]

checked_add(a, b) == IF a + b < AddressLimit THEN a + b ELSE NONE

saturating_add(a, b) == IF a + b < AddressLimit THEN a + b ELSE AddressLimit - 1

\* MemoryRegion::end
end(region) == checked_add(region.base, region.size)

empty ==
    [memory_regions |-> <<>>, dropped_memory_regions |-> 0, total_memory |-> 0,
     reserved_regions |-> <<>>, dropped_reserved_regions |-> 0]

push_memory_region(info, region) ==
    IF Len(info.memory_regions) >= MAX_MEMORY_ARENAS
    THEN [info EXCEPT !.dropped_memory_regions = @ + 1]
    ELSE [info EXCEPT !.memory_regions = Append(@, region),
                      !.total_memory = saturating_add(@, region.size)]

\* Mutant: a full array drops the region silently.
push_reserved_region_silent(info, region) ==
    IF Len(info.reserved_regions) >= MAX_RESERVED_REGIONS
    THEN info
    ELSE [info EXCEPT !.reserved_regions = Append(@, region)]

push_reserved_region(info, region) ==
    IF Len(info.reserved_regions) >= MAX_RESERVED_REGIONS
    THEN [info EXCEPT !.dropped_reserved_regions = @ + 1]
    ELSE [info EXCEPT !.reserved_regions = Append(@, region)]

\* One round of the insertion sort: the key moves left past smaller regions.
insert_by_size(sorted, key) ==
    LET stop == SelectLastInSeq(sorted, LAMBDA r : r.size >= key.size)
    IN InsertAt(sorted, stop + 1, key)

sort_regions_by_size(regions) == FoldLeft(insert_by_size, <<>>, regions)

Readable(entries) == SelectSeq(entries, LAMBDA e : e # BAD)

collect_memory_regions(info, dtb) ==
    LET pushed == FoldLeft(push_memory_region, info, Readable(dtb.memory))
    IN [pushed EXCEPT !.memory_regions = sort_regions_by_size(@)]

\* Entries up to the terminator; a block without one counts as a dropped region.
collect_memory_reservation_block(info, dtb) ==
    LET block == dtb.reservation_block
        last == SelectInSeq(block, LAMBDA e : e = Terminator)
        pushed == FoldLeft(push_reserved_region, info,
                           SubSeq(block, 1, IF last = 0 THEN Len(block) ELSE last - 1))
    IN IF last = 0 THEN [pushed EXCEPT !.dropped_reserved_regions = @ + 1] ELSE pushed

collect_reserved_memory_node(info, dtb) ==
    FoldLeft(push_reserved_region, info, Readable(dtb.reserved_memory))

from_fdt(dtb) ==
    LET withMemory == collect_memory_regions(empty, dtb)
        withBlock == collect_memory_reservation_block(withMemory, dtb)
    IN collect_reserved_memory_node(withBlock, dtb)

max_memory_end(info) ==
    LET ends == {end(r) : r \in ToSet(info.memory_regions)} \ {NONE}
    IN IF ends = {} THEN 0 ELSE Max(ends)
=============================================================================
