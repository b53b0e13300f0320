----------------------------- MODULE Aarch64Mmu -----------------------------
(***************************************************************************)
(* arch/aarch64/mmu.rs: three levels of tables, a root for each half of    *)
(* the address space, and the operations on them.                          *)
(*                                                                         *)
(* Addresses are numbers, at a scale that the constants set. A set of      *)
(* tables is a function from the physical address of each table page to    *)
(* its entries; an operation that changes it returns the new one. A        *)
(* descriptor is its output address and the names of the bits that are     *)
(* set in it.                                                              *)
(***************************************************************************)
EXTENDS Integers, FiniteSets, TLC

CONSTANTS
    PAGE_SIZE,
    ENTRIES_PER_PAGE_TABLE,
    DEVICE_TREE_BLOB_MAX_SIZE,
    ADDRESS_SPACE,          \* 2^64 of the real machine
    OPERAND_SPACE,          \* 2^48: what is left of an address in a TLBI operand
    KERNEL_PHYSICAL_LOAD,
    NONE

BLOCK_2M == PAGE_SIZE * ENTRIES_PER_PAGE_TABLE
BLOCK_1G == BLOCK_2M * ENTRIES_PER_PAGE_TABLE
MINIMUM_PHYSMAP_SIZE == BLOCK_1G
MAX_PHYSMAP_ENTRIES == ENTRIES_PER_PAGE_TABLE - 1
MAX_BOOT_BLOCKS == ENTRIES_PER_PAGE_TABLE

\* 2^39 bytes, the reach of one root table.
HALF == BLOCK_1G * ENTRIES_PER_PAGE_TABLE
KERNEL_VIRTUAL_BASE == ADDRESS_SPACE - HALF

\* The two root tables lie in the kernel's image.
LOW_TABLE == KERNEL_PHYSICAL_LOAD + PAGE_SIZE
HIGH_TABLE == KERNEL_PHYSICAL_LOAD + 2 * PAGE_SIZE

Indices == 0..(ENTRIES_PER_PAGE_TABLE - 1)

physical_to_virtual(address) == (address + KERNEL_VIRTUAL_BASE) % ADDRESS_SPACE

kernel_stack_region_base ==
    KERNEL_VIRTUAL_BASE + (ENTRIES_PER_PAGE_TABLE - 1) * BLOCK_1G

is_canonical(address) == address < HALF \/ address >= KERNEL_VIRTUAL_BASE

is_page_aligned(address) == address % PAGE_SIZE = 0

l1(address) == (address \div BLOCK_1G) % ENTRIES_PER_PAGE_TABLE
l2(address) == (address \div BLOCK_2M) % ENTRIES_PER_PAGE_TABLE
l3(address) == (address \div PAGE_SIZE) % ENTRIES_PER_PAGE_TABLE

-----------------------------------------------------------------------------
INVALID == [out |-> NONE, bits |-> {}]

is_valid(entry) == "VALID" \in entry.bits
is_table(entry) == is_valid(entry) /\ "TABLE_OR_PAGE" \in entry.bits

table_entry(next_table) == [out |-> next_table, bits |-> {"VALID", "TABLE_OR_PAGE"}]

\* The bits that permissions set in a descriptor.
apply_permissions(permissions) ==
    (IF "writable" \in permissions THEN {} ELSE {"READ_ONLY"})
      \cup (IF "user_accessible" \in permissions
            THEN {"USER_ACCESSIBLE", "NON_GLOBAL"} ELSE {"USER_EXECUTE_NEVER"})
      \cup (IF "executable" \in permissions
            THEN {} ELSE {"PRIVILEGED_EXECUTE_NEVER", "USER_EXECUTE_NEVER"})

\* from_mapping: size decides the descriptor's type, memory its attributes.
from_mapping(address, size, memory, permissions) ==
    [out |-> address,
     bits |-> {"VALID", memory}
                \cup (IF size = PAGE_SIZE THEN {"TABLE_OR_PAGE"} ELSE {})
                \cup apply_permissions(permissions)]

kernel_block(address) ==
    from_mapping(address, BLOCK_1G, "Normal", {"writable", "executable"})

device_block(address) == from_mapping(address, BLOCK_1G, "Device", {"writable"})

empty == [i \in Indices |-> INVALID]

-----------------------------------------------------------------------------
div_ceil(a, b) == (a + b - 1) \div b

\* The gigabytes that init maps; dtb is 0 when the loader passed none.
start_gb(dtb) ==
    (IF dtb # 0 /\ dtb < KERNEL_PHYSICAL_LOAD THEN dtb ELSE KERNEL_PHYSICAL_LOAD)
      \div BLOCK_1G

end_gb(dtb) ==
    LET kernel_end == KERNEL_PHYSICAL_LOAD + MINIMUM_PHYSMAP_SIZE
        dtb_end == IF dtb = 0 THEN KERNEL_PHYSICAL_LOAD
                   ELSE dtb + DEVICE_TREE_BLOB_MAX_SIZE
    IN  div_ceil(IF dtb_end > kernel_end THEN dtb_end ELSE kernel_end, BLOCK_1G)

\* validate_boot_range panics on the others.
validate_boot_range(dtb) ==
    /\ start_gb(dtb) <= end_gb(dtb)
    /\ end_gb(dtb) <= MAX_BOOT_BLOCKS

boot_table(dtb) ==
    [gb \in Indices |->
       CASE gb = 0 -> device_block(0)
         [] gb # 0 /\ gb \in start_gb(dtb)..(end_gb(dtb) - 1) -> kernel_block(gb * BLOCK_1G)
         [] OTHER -> INVALID]

\* init: both halves map the same blocks, and PHYSMAP_END_GB becomes end_gb(dtb).
init(dtb) == LOW_TABLE :> boot_table(dtb) @@ HIGH_TABLE :> boot_table(dtb)

\* Mutant: a gigabyte that the last bank ends inside of is left out.
new_end_rounded_down(max_end) ==
    IF max_end \div BLOCK_1G < MAX_PHYSMAP_ENTRIES
    THEN max_end \div BLOCK_1G ELSE MAX_PHYSMAP_ENTRIES

new_end(max_end) ==
    IF div_ceil(max_end, BLOCK_1G) < MAX_PHYSMAP_ENTRIES
    THEN div_ceil(max_end, BLOCK_1G) ELSE MAX_PHYSMAP_ENTRIES

\* The tables that expand_physmap leaves; PHYSMAP_END_GB is `current`.
expand_physmap(tables, current, max_end) ==
    [tables EXCEPT ![HIGH_TABLE] =
       [gb \in Indices |-> IF gb # 0 /\ gb \in current..(new_end(max_end) - 1)
                           THEN kernel_block(gb * BLOCK_1G) ELSE @[gb]]]

remove_identity_mapping(tables) == [tables EXCEPT ![LOW_TABLE] = empty]

-----------------------------------------------------------------------------
\* The leaf descriptor for an address and the size of what it maps, for the
\* walks below: the descriptor of the first level that has no table.
leaf(tables, root, address) ==
    LET e1 == tables[root][l1(address)]
        e2 == tables[e1.out][l2(address)]
        e3 == tables[e2.out][l3(address)]
    IN  IF ~is_table(e1) THEN [entry |-> e1, size |-> BLOCK_1G]
        ELSE IF ~is_table(e2) THEN [entry |-> e2, size |-> BLOCK_2M]
        ELSE [entry |-> e3, size |-> PAGE_SIZE]

translate(tables, root, address) ==
    IF ~is_canonical(address) \/ ~is_valid(leaf(tables, root, address).entry)
    THEN NONE
    ELSE leaf(tables, root, address).entry.out
           + (address % leaf(tables, root, address).size)

\* The checks that map_page and map_page_with_alloc begin with.
map_argument_error(virtual_address, physical_address) ==
    IF ~is_page_aligned(virtual_address) \/ ~is_page_aligned(physical_address)
    THEN "NotAligned"
    ELSE IF ~is_canonical(virtual_address) THEN "NotCanonical" ELSE "Ok"

\* The step from one level to the next in map_page and unmap_page.
next_level_error(entry, missing) ==
    IF is_table(entry) THEN "Ok"
    ELSE IF is_valid(entry) THEN "SuperpageConflict" ELSE missing

\* The error of descending to the last level, or "Ok".
descend_error(tables, root, address, missing) ==
    LET e1 == tables[root][l1(address)]
        e2 == tables[e1.out][l2(address)]
    IN  IF next_level_error(e1, missing) # "Ok" THEN next_level_error(e1, missing)
        ELSE next_level_error(e2, missing)

last_table(tables, root, address) ==
    tables[tables[root][l1(address)].out][l2(address)].out

page_entry(physical_address, permissions) ==
    from_mapping(physical_address, PAGE_SIZE, "Normal", permissions)

set_leaf(tables, root, address, entry) ==
    [tables EXCEPT ![last_table(tables, root, address)][l3(address)] = entry]

\* Mutant: an entry that is in use is replaced.
map_page_replacing(tables, root, virtual_address, physical_address, permissions) ==
    LET argument == map_argument_error(virtual_address, physical_address)
        descent == descend_error(tables, root, virtual_address, "TableNotPresent")
    IN  IF argument # "Ok" THEN [result |-> argument, tables |-> tables]
        ELSE IF descent # "Ok" THEN [result |-> descent, tables |-> tables]
        ELSE [result |-> "Ok",
              tables |-> set_leaf(tables, root, virtual_address,
                                  page_entry(physical_address, permissions))]

\* map_page: the result, and the tables it leaves.
map_page(tables, root, virtual_address, physical_address, permissions) ==
    LET argument == map_argument_error(virtual_address, physical_address)
        descent == descend_error(tables, root, virtual_address, "TableNotPresent")
        table == last_table(tables, root, virtual_address)
    IN  IF argument # "Ok" THEN [result |-> argument, tables |-> tables]
        ELSE IF descent # "Ok" THEN [result |-> descent, tables |-> tables]
        ELSE IF is_valid(tables[table][l3(virtual_address)])
             THEN [result |-> "AlreadyMapped", tables |-> tables]
        ELSE [result |-> "Ok",
              tables |-> set_leaf(tables, root, virtual_address,
                                  page_entry(physical_address, permissions))]

\* One level of map_page_with_alloc, on a record of the result so far, the
\* tables and the pages that allocate_table draws on, the lowest first.
with_table(s, table, index) ==
    LET entry == s.tables[table][index]
        next == CHOOSE f \in s.free : \A g \in s.free : f <= g
    IN  IF s.result # "Ok" THEN s
        ELSE IF is_valid(entry)
        THEN IF is_table(entry) THEN s ELSE [s EXCEPT !.result = "SuperpageConflict"]
        ELSE IF s.free = {} THEN [s EXCEPT !.result = "OutOfMemory"]
        ELSE [result |-> "Ok",
              tables |-> next :> empty
                           @@ [s.tables EXCEPT ![table][index] = table_entry(next)],
              free |-> s.free \ {next}]

\* map_page_with_alloc on such a record. Tables allocated before a failure stay.
map_page_with_alloc(s, root, virtual_address, physical_address, permissions) ==
    LET s1 == with_table(s, root, l1(virtual_address))
        s2 == with_table(s1, s1.tables[root][l1(virtual_address)].out,
                         l2(virtual_address))
        argument == map_argument_error(virtual_address, physical_address)
    IN  IF argument # "Ok" THEN [s EXCEPT !.result = argument]
        ELSE IF s1.result # "Ok" THEN s1
        ELSE IF s2.result # "Ok" THEN s2
        ELSE IF is_valid(s2.tables[last_table(s2.tables, root, virtual_address)]
                           [l3(virtual_address)])
             THEN [s2 EXCEPT !.result = "AlreadyMapped"]
        ELSE [s2 EXCEPT !.tables = set_leaf(s2.tables, root, virtual_address,
                                            page_entry(physical_address, permissions))]

map_kernel_page_with_alloc(s, virtual_address, physical_address, permissions) ==
    map_page_with_alloc(s, HIGH_TABLE, virtual_address, physical_address, permissions)

unmap_page(tables, root, virtual_address) ==
    LET descent == descend_error(tables, root, virtual_address, "NotMapped")
        table == last_table(tables, root, virtual_address)
    IN  IF ~is_canonical(virtual_address) THEN [result |-> "NotCanonical", tables |-> tables]
        ELSE IF descent # "Ok" THEN [result |-> descent, tables |-> tables]
        ELSE IF ~is_valid(tables[table][l3(virtual_address)])
             THEN [result |-> "NotMapped", tables |-> tables]
        ELSE [result |-> "Ok", tables |-> set_leaf(tables, root, virtual_address, INVALID)]

unmap_kernel_page(tables, virtual_address) ==
    unmap_page(tables, HIGH_TABLE, virtual_address)

-----------------------------------------------------------------------------
\* The TLB is a set of [page, out, bits]: the address of a page, where it led
\* when the walker cached it, and the descriptor's bits.

\* Mutant: nothing is invalidated.
flush_local_nothing(tlb) == tlb

flush_local(tlb) == {}

\* TLBI VALE1IS drops the page that its operand names. The mask keeps bits 12 to
\* 47 of the address, and zeroes bits 48 to 55, which the operand also holds.
flush_address(tlb, address) ==
    LET operand == (address % OPERAND_SPACE) \div PAGE_SIZE
    IN  {t \in tlb : t.page # operand * PAGE_SIZE}

\* The roots the walker starts from: TTBR0 for the low half, TTBR1 for the high.
root_for(address) == IF address < HALF THEN LOW_TABLE ELSE HIGH_TABLE
=============================================================================
