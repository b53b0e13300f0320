----------------------------- MODULE Riscv64Mmu -----------------------------
(***************************************************************************)
(* arch/riscv64/mmu.rs: four levels of Sv48 tables under one root, in the  *)
(* same terms as Aarch64Mmu.                                               *)
(***************************************************************************)
EXTENDS Integers, FiniteSets, TLC

CONSTANTS
    PAGE_SIZE,
    ENTRIES_PER_PAGE_TABLE,
    DEVICE_TREE_BLOB_MAX_SIZE,
    ADDRESS_SPACE,          \* 2^64 of the real machine
    KERNEL_PHYSICAL_LOAD,
    NONE

MEGAPAGE == PAGE_SIZE * ENTRIES_PER_PAGE_TABLE
GIGAPAGE == MEGAPAGE * ENTRIES_PER_PAGE_TABLE
TERAPAGE == GIGAPAGE * ENTRIES_PER_PAGE_TABLE       \* 2^39 bytes
LOWER_CANONICAL_LIMIT == TERAPAGE * (ENTRIES_PER_PAGE_TABLE \div 2)
KERNEL_VIRTUAL_BASE == ADDRESS_SPACE - LOWER_CANONICAL_LIMIT
MINIMUM_PHYSMAP_SIZE == GIGAPAGE
MAX_PHYSMAP_ENTRIES == ENTRIES_PER_PAGE_TABLE - 1
MAX_BOOT_GIGAPAGES == ENTRIES_PER_PAGE_TABLE

\* The three static tables lie in the kernel's image.
ROOT_TABLE == KERNEL_PHYSICAL_LOAD + PAGE_SIZE
IDENTITY_L2_TABLE == KERNEL_PHYSICAL_LOAD + 2 * PAGE_SIZE
PHYSMAP_L2_TABLE == KERNEL_PHYSICAL_LOAD + 3 * PAGE_SIZE

Indices == 0..(ENTRIES_PER_PAGE_TABLE - 1)

physical_to_virtual(address) == (address + KERNEL_VIRTUAL_BASE) % ADDRESS_SPACE

kernel_stack_region_base ==
    KERNEL_VIRTUAL_BASE + (ENTRIES_PER_PAGE_TABLE - 1) * GIGAPAGE

is_canonical(address) == address < LOWER_CANONICAL_LIMIT \/ address >= KERNEL_VIRTUAL_BASE

is_page_aligned(address) == address % PAGE_SIZE = 0

vpn3(address) == (address \div TERAPAGE) % ENTRIES_PER_PAGE_TABLE
vpn2(address) == (address \div GIGAPAGE) % ENTRIES_PER_PAGE_TABLE
vpn1(address) == (address \div MEGAPAGE) % ENTRIES_PER_PAGE_TABLE
vpn0(address) == (address \div PAGE_SIZE) % ENTRIES_PER_PAGE_TABLE

KERNEL_VPN3 == vpn3(KERNEL_VIRTUAL_BASE)

-----------------------------------------------------------------------------
INVALID == [out |-> NONE, bits |-> {}]

is_valid(entry) == "VALID" \in entry.bits
is_leaf(entry) == entry.bits \cap {"READABLE", "WRITABLE", "EXECUTABLE"} # {}
is_branch(entry) == is_valid(entry) /\ ~is_leaf(entry)

branch(table) == [out |-> table, bits |-> {"VALID"}]

apply_permissions(permissions) ==
    (IF "writable" \in permissions THEN {"WRITABLE"} ELSE {})
      \cup (IF "executable" \in permissions THEN {"EXECUTABLE"} ELSE {})
      \cup (IF "user_accessible" \in permissions THEN {"USER"} ELSE {"GLOBAL"})

from_mapping(address, permissions) ==
    [out |-> address, bits |-> {"VALID", "READABLE"} \cup apply_permissions(permissions)]

kernel_leaf(address, executable) ==
    from_mapping(address, {"writable"} \cup IF executable THEN {"executable"} ELSE {})

empty == [i \in Indices |-> INVALID]

-----------------------------------------------------------------------------
div_ceil(a, b) == (a + b - 1) \div b

\* The gigabytes that init maps; dtb is 0 when the loader passed none.
start_gb(dtb) ==
    (IF dtb # 0 /\ dtb < KERNEL_PHYSICAL_LOAD THEN dtb ELSE KERNEL_PHYSICAL_LOAD)
      \div GIGAPAGE

end_gb(dtb) ==
    LET kernel_end == KERNEL_PHYSICAL_LOAD + MINIMUM_PHYSMAP_SIZE
        dtb_end == IF dtb = 0 THEN KERNEL_PHYSICAL_LOAD
                   ELSE dtb + DEVICE_TREE_BLOB_MAX_SIZE
    IN  div_ceil(IF dtb_end > kernel_end THEN dtb_end ELSE kernel_end, GIGAPAGE)

\* validate_boot_range panics on the others.
validate_boot_range(dtb) ==
    /\ start_gb(dtb) <= end_gb(dtb)
    /\ end_gb(dtb) <= MAX_BOOT_GIGAPAGES

boot_table(dtb) ==
    [gb \in Indices |->
       CASE gb = 0 -> kernel_leaf(0, FALSE)
         [] gb # 0 /\ gb \in start_gb(dtb)..(end_gb(dtb) - 1) -> kernel_leaf(gb * GIGAPAGE, TRUE)
         [] OTHER -> INVALID]

\* init: a branch for each half, and PHYSMAP_END_GB becomes end_gb(dtb).
init(dtb) ==
    ROOT_TABLE :> [i \in Indices |-> CASE i = 0 -> branch(IDENTITY_L2_TABLE)
                                       [] i = KERNEL_VPN3 -> branch(PHYSMAP_L2_TABLE)
                                       [] OTHER -> INVALID]
      @@ IDENTITY_L2_TABLE :> boot_table(dtb)
      @@ PHYSMAP_L2_TABLE :> boot_table(dtb)

new_end(max_end) ==
    IF div_ceil(max_end, GIGAPAGE) < MAX_PHYSMAP_ENTRIES
    THEN div_ceil(max_end, GIGAPAGE) ELSE MAX_PHYSMAP_ENTRIES

\* The tables that expand_physmap leaves; PHYSMAP_END_GB is `current`.
expand_physmap(tables, current, max_end) ==
    [tables EXCEPT ![PHYSMAP_L2_TABLE] =
       [gb \in Indices |-> IF gb # 0 /\ gb \in current..(new_end(max_end) - 1)
                           THEN kernel_leaf(gb * GIGAPAGE, TRUE) ELSE @[gb]]]

remove_identity_mapping(tables) == [tables EXCEPT ![ROOT_TABLE][0] = INVALID]

-----------------------------------------------------------------------------
\* The leaf for an address and the size of what it maps, for the walks
\* below: the entry of the first level that has no branch.
leaf(tables, root, address) ==
    LET e3 == tables[root][vpn3(address)]
        e2 == tables[e3.out][vpn2(address)]
        e1 == tables[e2.out][vpn1(address)]
        e0 == tables[e1.out][vpn0(address)]
    IN  IF ~is_branch(e3) THEN [entry |-> e3, size |-> TERAPAGE]
        ELSE IF ~is_branch(e2) THEN [entry |-> e2, size |-> GIGAPAGE]
        ELSE IF ~is_branch(e1) THEN [entry |-> e1, size |-> MEGAPAGE]
        ELSE [entry |-> e0, size |-> PAGE_SIZE]

translate(tables, root, address) ==
    IF ~is_canonical(address) \/ ~is_valid(leaf(tables, root, address).entry)
    THEN NONE
    ELSE leaf(tables, root, address).entry.out
           + (address % leaf(tables, root, address).size)

\* The checks that map_page and map_page_with_alloc begin with.
map_argument_error(virtual_address, physical_address) ==
    IF ~is_page_aligned(virtual_address) \/ ~is_page_aligned(physical_address)
    THEN "NotAligned"
    ELSE IF ~is_canonical(virtual_address) THEN "NotCanonical" ELSE "Ok"

\* The step from one level to the next in map_page and unmap_page.
next_level_error(entry, missing) ==
    IF is_branch(entry) THEN "Ok"
    ELSE IF is_valid(entry) THEN "SuperpageConflict" ELSE missing

\* The error of descending to the last level, or "Ok".
descend_error(tables, root, address, missing) ==
    LET e3 == tables[root][vpn3(address)]
        e2 == tables[e3.out][vpn2(address)]
        e1 == tables[e2.out][vpn1(address)]
    IN  IF next_level_error(e3, missing) # "Ok" THEN next_level_error(e3, missing)
        ELSE IF next_level_error(e2, missing) # "Ok" THEN next_level_error(e2, missing)
        ELSE next_level_error(e1, missing)

last_table(tables, root, address) ==
    LET l2_table == tables[root][vpn3(address)].out
        l1_table == tables[l2_table][vpn2(address)].out
    IN  tables[l1_table][vpn1(address)].out

set_leaf(tables, root, address, entry) ==
    [tables EXCEPT ![last_table(tables, root, address)][vpn0(address)] = entry]

\* map_page: the result, and the tables it leaves.
map_page(tables, root, virtual_address, physical_address, permissions) ==
    LET argument == map_argument_error(virtual_address, physical_address)
        descent == descend_error(tables, root, virtual_address, "TableNotPresent")
        table == last_table(tables, root, virtual_address)
    IN  IF argument # "Ok" THEN [result |-> argument, tables |-> tables]
        ELSE IF descent # "Ok" THEN [result |-> descent, tables |-> tables]
        ELSE IF is_valid(tables[table][vpn0(virtual_address)])
             THEN [result |-> "AlreadyMapped", tables |-> tables]
        ELSE [result |-> "Ok",
              tables |-> set_leaf(tables, root, virtual_address,
                                  from_mapping(physical_address, permissions))]

\* One level of map_page_with_alloc, on a record of the result so far, the
\* tables and the pages that allocate_table draws on, the lowest first.
with_table(s, table, index) ==
    LET entry == s.tables[table][index]
        next == CHOOSE f \in s.free : \A g \in s.free : f <= g
    IN  IF s.result # "Ok" THEN s
        ELSE IF is_valid(entry)
        THEN IF is_branch(entry) THEN s ELSE [s EXCEPT !.result = "SuperpageConflict"]
        ELSE IF s.free = {} THEN [s EXCEPT !.result = "OutOfMemory"]
        ELSE [result |-> "Ok",
              tables |-> next :> empty
                           @@ [s.tables EXCEPT ![table][index] = branch(next)],
              free |-> s.free \ {next}]

\* map_page_with_alloc on such a record. Tables allocated before a failure stay.
map_page_with_alloc(s, root, virtual_address, physical_address, permissions) ==
    LET s3 == with_table(s, root, vpn3(virtual_address))
        l2_table == s3.tables[root][vpn3(virtual_address)].out
        s2 == with_table(s3, l2_table, vpn2(virtual_address))
        l1_table == s2.tables[l2_table][vpn2(virtual_address)].out
        s1 == with_table(s2, l1_table, vpn1(virtual_address))
        argument == map_argument_error(virtual_address, physical_address)
    IN  IF argument # "Ok" THEN [s EXCEPT !.result = argument]
        ELSE IF s3.result # "Ok" THEN s3
        ELSE IF s2.result # "Ok" THEN s2
        ELSE IF s1.result # "Ok" THEN s1
        ELSE IF is_valid(s1.tables[last_table(s1.tables, root, virtual_address)]
                           [vpn0(virtual_address)])
             THEN [s1 EXCEPT !.result = "AlreadyMapped"]
        ELSE [s1 EXCEPT !.tables = set_leaf(s1.tables, root, virtual_address,
                                            from_mapping(physical_address, permissions))]

map_kernel_page_with_alloc(s, virtual_address, physical_address, permissions) ==
    map_page_with_alloc(s, ROOT_TABLE, virtual_address, physical_address, permissions)

unmap_page(tables, root, virtual_address) ==
    LET descent == descend_error(tables, root, virtual_address, "NotMapped")
        table == last_table(tables, root, virtual_address)
    IN  IF ~is_canonical(virtual_address) THEN [result |-> "NotCanonical", tables |-> tables]
        ELSE IF descent # "Ok" THEN [result |-> descent, tables |-> tables]
        ELSE IF ~is_valid(tables[table][vpn0(virtual_address)])
             THEN [result |-> "NotMapped", tables |-> tables]
        ELSE [result |-> "Ok", tables |-> set_leaf(tables, root, virtual_address, INVALID)]

unmap_kernel_page(tables, virtual_address) ==
    unmap_page(tables, ROOT_TABLE, virtual_address)

-----------------------------------------------------------------------------
flush_all(tlb) == {}

\* SFENCE.VMA with an address and x0 for the address space: the page's leaf, in
\* all address spaces, global or not.
flush_address(tlb, address) == {t \in tlb : t.page # address}

\* Translation starts at the one root.
root_for(address) == ROOT_TABLE
=============================================================================
