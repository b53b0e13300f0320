----------------------------- MODULE KernelStack ----------------------------
(***************************************************************************)
(* KernelStack of task/mod.rs over the page tables of either architecture, *)
(* through hal::mmu, beside the TLB. A stack is a run of physical pages    *)
(* mapped above a guard page in a slot of the stack region. Creating one   *)
(* maps page by page and undoes itself when a page cannot be mapped;       *)
(* dropping one unmaps page by page and then frees the run.                *)
(*                                                                         *)
(* Stacks are created and dropped by one thread at a time. The hardware    *)
(* caches and evicts translations between any two of its steps. The PMM    *)
(* is the set of pages it has; its other users take and return pages       *)
(* between two calls.                                                      *)
(***************************************************************************)
EXTENDS Integers, FiniteSets, TLC

CONSTANTS
    Arches,                     \* the architectures to check
    PAGE_SIZE,
    ENTRIES_PER_PAGE_TABLE,
    DEVICE_TREE_BLOB_MAX_SIZE,
    ADDRESS_SPACE,
    OPERAND_SPACE,
    AARCH64_LOAD, RISCV64_LOAD, \* KERNEL_PHYSICAL_LOAD
    FRAMES,                     \* how many pages the PMM starts with
    KERNEL_STACK_REGION_SIZE,
    TLB_ENTRIES,                \* bound on cached translations
    NONE

ASSUME KernelStackAssumption ==
    /\ Arches \subseteq {"aarch64", "riscv64"}
    /\ OPERAND_SPACE < ADDRESS_SPACE
    /\ ADDRESS_SPACE % OPERAND_SPACE = 0
    /\ KERNEL_STACK_REGION_SIZE <= PAGE_SIZE * ENTRIES_PER_PAGE_TABLE ^ 2

VARIABLES
    arch,
    tables,             \* the page tables, by physical address
    tlb,
    free,               \* pages the PMM has
    elsewhere,          \* pages its other users have
    NEXT_STACK_SLOT,
    stacks,             \* the live stacks
    op                  \* the create or drop in progress

svars == <<arch, tables, tlb, free, elsewhere, NEXT_STACK_SLOT, stacks, op>>

A == INSTANCE Aarch64Mmu WITH KERNEL_PHYSICAL_LOAD <- AARCH64_LOAD
R == INSTANCE Riscv64Mmu WITH KERNEL_PHYSICAL_LOAD <- RISCV64_LOAD

-----------------------------------------------------------------------------
(* hal::mmu *)

KERNEL_PHYSICAL_LOAD == IF arch = "aarch64" THEN AARCH64_LOAD ELSE RISCV64_LOAD

kernel_stack_region_base ==
    IF arch = "aarch64" THEN A!kernel_stack_region_base ELSE R!kernel_stack_region_base

physical_to_virtual(address) ==
    IF arch = "aarch64" THEN A!physical_to_virtual(address)
                        ELSE R!physical_to_virtual(address)

KERNEL_READ_WRITE == {"writable"}

\* Mutant: allocate_page_table drops the page instead of leaking it.
map_kernel_stack_page_unleaked(virtual_address, physical_address) ==
    LET s == [result |-> "Ok", tables |-> tables, free |-> free]
        mapped == IF arch = "aarch64"
                  THEN A!map_kernel_page_with_alloc(s, virtual_address, physical_address,
                                                    KERNEL_READ_WRITE)
                  ELSE R!map_kernel_page_with_alloc(s, virtual_address, physical_address,
                                                    KERNEL_READ_WRITE)
    IN  [mapped EXCEPT !.free = free]

\* The result, the tables and the PMM's pages after map_kernel_stack_page.
map_kernel_stack_page(virtual_address, physical_address) ==
    LET s == [result |-> "Ok", tables |-> tables, free |-> free]
    IN  IF arch = "aarch64"
        THEN A!map_kernel_page_with_alloc(s, virtual_address, physical_address,
                                          KERNEL_READ_WRITE)
        ELSE R!map_kernel_page_with_alloc(s, virtual_address, physical_address,
                                          KERNEL_READ_WRITE)

unmap_kernel_stack_page(virtual_address) ==
    IF arch = "aarch64" THEN A!unmap_kernel_page(tables, virtual_address)
                        ELSE R!unmap_kernel_page(tables, virtual_address)

flush_address(address) ==
    IF arch = "aarch64" THEN A!flush_address(tlb, address)
                        ELSE R!flush_address(tlb, address)

\* What the hardware walker finds for an address, and what an address leads to.
walk(address) ==
    IF arch = "aarch64" THEN A!leaf(tables, A!root_for(address), address)
                        ELSE R!leaf(tables, R!root_for(address), address)

translate(address) ==
    IF arch = "aarch64" THEN A!translate(tables, A!root_for(address), address)
                        ELSE R!translate(tables, R!root_for(address), address)

-----------------------------------------------------------------------------
(* task::KernelStack *)

KERNEL_STACK_PAGES == 2
KERNEL_STACK_GUARD_SIZE == PAGE_SIZE
KERNEL_STACK_SLOT_SIZE == KERNEL_STACK_GUARD_SIZE + KERNEL_STACK_PAGES * PAGE_SIZE
MAX_KERNEL_STACK_SLOTS == KERNEL_STACK_REGION_SIZE \div KERNEL_STACK_SLOT_SIZE

Idle == [step |-> "idle"]

\* A stack: its lowest mapped address, and the first page of its run.
Stack(base, pages) == [base |-> base, pages |-> pages]

Offsets == {i * PAGE_SIZE : i \in 0..(KERNEL_STACK_PAGES - 1)}

\* The pages of a run.
RunPages(stack) == {stack.pages + offset : offset \in Offsets}

\* alloc_contiguous: the first runs of enough pages that are free.
Runs == {f \in free : \A offset \in Offsets : f + offset \in free}

slot_base(slot) ==
    kernel_stack_region_base + slot * KERNEL_STACK_SLOT_SIZE + KERNEL_STACK_GUARD_SIZE


\* The slot that create_mapped takes.
next_slot == NEXT_STACK_SLOT

\* create_mapped takes a slot, then a run of pages. The counter's own wrap, after
\* 2^64 calls, is out of reach: the model stops it one past the last slot.
create_mapped ==
    /\ op = Idle
    /\ NEXT_STACK_SLOT <= MAX_KERNEL_STACK_SLOTS
    /\ NEXT_STACK_SLOT' = NEXT_STACK_SLOT + 1
    /\ IF next_slot >= MAX_KERNEL_STACK_SLOTS \/ Runs = {}
       THEN UNCHANGED <<free, op>>      \* RegionExhausted, OutOfMemory
       ELSE LET pages == CHOOSE f \in Runs : \A g \in Runs : f <= g
                stack == Stack(slot_base(next_slot), pages)
            IN  /\ free' = free \ RunPages(stack)
                /\ op' = [step |-> "map", stack |-> stack, index |-> 0]
    /\ UNCHANGED <<arch, tables, tlb, elsewhere, stacks>>

\* Mutant: the failed call frees its pages without unmapping them.
rollback_skipped(index) == 0

\* The number of pages that rollback_stack_mapping has to unmap.
rollback(index) == index

\* One turn of create_mapped's loop. On the last page the stack is done.
map_stack_page ==
    /\ op.step = "map"
    /\ LET address == op.stack.base + op.index * PAGE_SIZE
           mapped == map_kernel_stack_page(address, op.stack.pages + op.index * PAGE_SIZE)
       IN  /\ tables' = mapped.tables
           /\ free' = mapped.free
           /\ IF mapped.result # "Ok"
              THEN /\ op' = [op EXCEPT !.step = "unmap", !.index = rollback(op.index)]
                   /\ UNCHANGED <<tlb, stacks>>
              ELSE /\ tlb' = flush_address(address)
                   /\ IF op.index + 1 = KERNEL_STACK_PAGES
                      THEN op' = Idle /\ stacks' = stacks \cup {op.stack}
                      ELSE op' = [op EXCEPT !.index = @ + 1] /\ UNCHANGED stacks
    /\ UNCHANGED <<arch, elsewhere, NEXT_STACK_SLOT>>

\* One turn of rollback_stack_mapping's loop, from the highest page down. Errors
\* are ignored.
rollback_stack_mapping ==
    /\ op.step = "unmap"
    /\ op.index > 0
    /\ LET address == op.stack.base + (op.index - 1) * PAGE_SIZE
           unmapped == unmap_kernel_stack_page(address)
       IN  /\ tables' = unmapped.tables
           /\ tlb' = IF unmapped.result = "Ok" THEN flush_address(address) ELSE tlb
    /\ op' = [op EXCEPT !.index = @ - 1]
    /\ UNCHANGED <<arch, free, elsewhere, NEXT_STACK_SLOT, stacks>>

\* The drop of the stack's PageRun, after its unmapping.
drop_pages ==
    /\ op.step = "unmap"
    /\ op.index = 0
    /\ free' = free \cup RunPages(op.stack)
    /\ op' = Idle
    /\ UNCHANGED <<arch, tables, tlb, elsewhere, NEXT_STACK_SLOT, stacks>>

\* KernelStack::drop
drop(stack) ==
    /\ op = Idle
    /\ stack \in stacks
    /\ stacks' = stacks \ {stack}
    /\ op' = [step |-> "unmap", stack |-> stack, index |-> KERNEL_STACK_PAGES]
    /\ UNCHANGED <<arch, tables, tlb, free, elsewhere, NEXT_STACK_SLOT>>

pmm_take_elsewhere(page) ==
    /\ op = Idle
    /\ page \in free
    /\ free' = free \ {page}
    /\ elsewhere' = elsewhere \cup {page}
    /\ UNCHANGED <<arch, tables, tlb, NEXT_STACK_SLOT, stacks, op>>

pmm_return_elsewhere(page) ==
    /\ op = Idle
    /\ page \in elsewhere
    /\ free' = free \cup {page}
    /\ elsewhere' = elsewhere \ {page}
    /\ UNCHANGED <<arch, tables, tlb, NEXT_STACK_SLOT, stacks, op>>

-----------------------------------------------------------------------------
(* The TLB *)

\* What the walker caches for a page: where it leads, and with which rights. A
\* RISC-V hart may also cache that a page has no leaf.
Cached(page) ==
    [page |-> page, out |-> translate(page), bits |-> walk(page).entry.bits]

tlb_fill(page) ==
    /\ \A t \in tlb : t.page # page
    /\ Cardinality(tlb) < TLB_ENTRIES
    /\ translate(page) # NONE \/ (arch = "riscv64" /\ walk(page).size = PAGE_SIZE)
    /\ tlb' = tlb \cup {Cached(page)}
    /\ UNCHANGED <<arch, tables, free, elsewhere, NEXT_STACK_SLOT, stacks, op>>

tlb_evict(t) ==
    /\ t \in tlb
    /\ tlb' = tlb \ {t}
    /\ UNCHANGED <<arch, tables, free, elsewhere, NEXT_STACK_SLOT, stacks, op>>

-----------------------------------------------------------------------------
\* The pages of the stack region up to the end of its last slot.
RegionPages ==
    {kernel_stack_region_base + i * PAGE_SIZE :
       i \in 0..(KERNEL_STACK_REGION_SIZE \div PAGE_SIZE - 1)}

\* The pages that are mapped, as pairs of address and physical page: those of
\* the live stacks, and of the stack in progress as far as it got.
Mapped ==
    {<<s.base + offset, s.pages + offset>> : s \in stacks, offset \in Offsets}
      \cup (IF op = Idle THEN {}
            ELSE {<<op.stack.base + i * PAGE_SIZE, op.stack.pages + i * PAGE_SIZE>> :
                    i \in 0..(op.index - 1)})

\* The bits that let the kernel read and write and nobody execute.
StackBits ==
    IF arch = "aarch64"
    THEN {"VALID", "TABLE_OR_PAGE", "Normal", "PRIVILEGED_EXECUTE_NEVER",
          "USER_EXECUTE_NEVER"}
    ELSE {"VALID", "READABLE", "WRITABLE", "GLOBAL"}

\* A device tree just below the end of the physical address space makes
\* mmu::init map the region's gigabyte as memory.
RegionTaken ==
    LET first == walk(kernel_stack_region_base)
    IN  first.entry.out # NONE /\ first.size = PAGE_SIZE * ENTRIES_PER_PAGE_TABLE ^ 2

\* The stack region maps the pages of the live stacks to their runs, for the
\* kernel to read and write and not to execute, and nothing else: the guard page
\* below each stack faults, and neither a failed create_mapped nor a drop leaves
\* a page behind. Where memory took the region, no page of a stack is mapped.
TranslationExact ==
    IF RegionTaken THEN Mapped = {} ELSE \A page \in RegionPages :
        IF \E m \in Mapped : m[1] = page
        THEN /\ <<page, translate(page)>> \in Mapped
             /\ walk(page).entry.bits = StackBits
        ELSE translate(page) = NONE

\* The pages the PMM started with.
Frames == {KERNEL_PHYSICAL_LOAD + ENTRIES_PER_PAGE_TABLE * PAGE_SIZE + i * PAGE_SIZE :
             i \in 0..(FRAMES - 1)}

\* The pages of the runs that stacks own.
OwnedByStacks ==
    UNION {RunPages(s) : s \in stacks}
      \cup IF op = Idle THEN {} ELSE RunPages(op.stack)

\* How many entries of all tables name a page as their next table.
References(page) ==
    Cardinality({<<t, i>> \in (DOMAIN tables) \X (0..(ENTRIES_PER_PAGE_TABLE - 1)) :
                    /\ tables[t][i].out = page
                    /\ IF arch = "aarch64" THEN A!is_table(tables[t][i])
                                           ELSE R!is_branch(tables[t][i])})

\* Every page is in one place: with the PMM, with another user, in the run of one
\* stack, or a page table that exactly one entry leads to. Failures on the way,
\* which keep the tables they allocated, lose no page.
FramesAccounted ==
    LET places == <<free, elsewhere, OwnedByStacks, DOMAIN tables>>
    IN  \A page \in Frames :
            /\ Cardinality({i \in 1..4 : page \in places[i]}) = 1
            /\ page \in DOMAIN tables => References(page) = 1

\* unmap_page's flush, as the comments there require: a page of a dropped stack is
\* given back only when the CPU can no longer reach it through the stack's address.
NoFreedPageCached ==
    ~RegionTaken =>
        \A t \in tlb : t.page \in RegionPages /\ t.out # NONE => t.out \in OwnedByStacks

=============================================================================
