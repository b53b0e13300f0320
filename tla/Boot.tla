-------------------------------- MODULE Boot --------------------------------
(***************************************************************************)
(* From the first instruction to the first kernel stack: _start on every   *)
(* hart, phys_init with the MMU off, the jump into the high half,          *)
(* virt_init, and kernel_main up to the idle thread's stack; then stacks   *)
(* come and go.                                                            *)
(*                                                                         *)
(* The loader passes the address of a device tree, or 0, and the device    *)
(* tree lists banks of memory. What each step needs from the modules that  *)
(* model it elsewhere (PmmInit, Kmalloc) is its success or failure.        *)
(***************************************************************************)
EXTENDS KernelStack

CONSTANTS
    Harts,
    Aff0,           \* the low byte of each core's mpidr_el1
    DtbOffsets,     \* device trees, as offsets from 0; 0 is none
    Banks           \* the sets of banks [base, end) that device trees list

ASSUME BootAssumption ==
    /\ Aff0 \in [Harts -> Nat]
    /\ \A g, h \in Harts : Aff0[g] = Aff0[h] => g = h
    /\ DtbOffsets \subseteq Nat
    /\ \A banks \in Banks : banks # {}

VARIABLES
    hart,           \* how far each hart is
    cpu,            \* the addresses each hart uses, and whether its MMU is on
    BOOT_HART_CLAIM,
    PHYSMAP_END_GB,
    dtb,
    banks

bvars == <<hart, cpu, BOOT_HART_CLAIM, PHYSMAP_END_GB, dtb, banks>>
vars == <<svars, bvars>>

GIGABYTE == PAGE_SIZE * ENTRIES_PER_PAGE_TABLE ^ 2

\* Physical addresses of what the CPU uses: code, stack, trap vectors, the global
\* pointer (RISC-V) and the UART (ARM64; on RISC-V the firmware prints).
Code == KERNEL_PHYSICAL_LOAD
StackTop == KERNEL_PHYSICAL_LOAD + 4 * PAGE_SIZE
Vectors == KERNEL_PHYSICAL_LOAD
GlobalPointer == IF arch = "riscv64" THEN KERNEL_PHYSICAL_LOAD + 4 * PAGE_SIZE ELSE NONE
Uart == IF arch = "aarch64" THEN GIGABYTE \div 2 ELSE NONE

StaticTables ==
    IF arch = "aarch64" THEN {A!LOW_TABLE, A!HIGH_TABLE}
    ELSE {R!ROOT_TABLE, R!IDENTITY_L2_TABLE, R!PHYSMAP_L2_TABLE}

Reset == [mmu |-> FALSE, pc |-> Code, sp |-> NONE, vector |-> NONE, gp |-> NONE,
          uart |-> Uart]

Init ==
    /\ arch \in Arches
    /\ tables = [t \in StaticTables |-> A!empty]
    /\ tlb = {} /\ free = Frames /\ elsewhere = {}
    /\ NEXT_STACK_SLOT = 0 /\ stacks = {} /\ op = Idle
    /\ hart = [h \in Harts |-> "start"]
    /\ cpu = [h \in Harts |-> Reset]
    /\ BOOT_HART_CLAIM = 0
    /\ PHYSMAP_END_GB = 0
    /\ dtb \in DtbOffsets
    /\ banks \in Banks

Go(h, from, to) == hart[h] = from /\ hart' = [hart EXCEPT ![h] = to]

-----------------------------------------------------------------------------
\* Whether _start lets a hart on: the core whose mpidr_el1 ends in 0, or the hart
\* whose amoadd found 0.
claimed(h) == IF arch = "aarch64" THEN Aff0[h] = 0 ELSE BOOT_HART_CLAIM = 0

_start(h) ==
    /\ Go(h, "start", IF claimed(h) THEN "bss" ELSE "parked")
    /\ BOOT_HART_CLAIM' = IF arch = "riscv64" THEN BOOT_HART_CLAIM + 1 ELSE BOOT_HART_CLAIM
    /\ cpu' = [cpu EXCEPT ![h].gp = GlobalPointer,
                          ![h].sp = IF claimed(h) THEN StackTop ELSE NONE]
    /\ UNCHANGED <<svars, PHYSMAP_END_GB, dtb, banks>>

\* Mutant: the claim is cleared with the other statics.
claim_in_bss == 0

\* BOOT_HART_CLAIM is in .data.boot, which the loop over the BSS leaves alone.
claim_after_bss == BOOT_HART_CLAIM

\* The loop over the BSS: the static tables and counters become 0.
zero_bss(h) ==
    /\ Go(h, "bss", "phys_init")
    /\ tables' = [t \in DOMAIN tables |-> IF t \in StaticTables THEN A!empty ELSE tables[t]]
    /\ NEXT_STACK_SLOT' = 0
    /\ PHYSMAP_END_GB' = 0
    /\ BOOT_HART_CLAIM' = claim_after_bss
    /\ UNCHANGED <<arch, tlb, free, elsewhere, stacks, op, cpu, dtb, banks>>

validate_boot_range ==
    IF arch = "aarch64" THEN A!validate_boot_range(dtb) ELSE R!validate_boot_range(dtb)

\* phys_init: trap::init, then mmu::init, or its panic.
phys_init(h) ==
    /\ Go(h, "phys_init", IF validate_boot_range THEN "jump" ELSE "halted")
    /\ IF validate_boot_range
       THEN /\ tables' = IF arch = "aarch64" THEN A!init(dtb) ELSE R!init(dtb)
            /\ PHYSMAP_END_GB' =
                 IF arch = "aarch64" THEN A!end_gb(dtb) ELSE R!end_gb(dtb)
            /\ tlb' = IF arch = "aarch64" THEN A!flush_local(tlb) ELSE R!flush_all(tlb)
            /\ cpu' = [cpu EXCEPT ![h].vector = Vectors, ![h].mmu = TRUE]
       ELSE /\ cpu' = [cpu EXCEPT ![h].vector = Vectors]
            /\ UNCHANGED <<tables, PHYSMAP_END_GB, tlb>>
    /\ UNCHANGED <<arch, free, elsewhere, NEXT_STACK_SLOT, stacks, op,
                   BOOT_HART_CLAIM, dtb, banks>>

\* The end of _start: SP and PC move to the high half.
jump(h) ==
    /\ Go(h, "jump", "virt_init")
    /\ cpu' = [cpu EXCEPT ![h].sp = physical_to_virtual(StackTop),
                          ![h].pc = physical_to_virtual(Code)]
    /\ UNCHANGED <<svars, BOOT_HART_CLAIM, PHYSMAP_END_GB, dtb, banks>>

\* Mutant: the trap vectors are not installed again.
high_cpu_old_vector(c) ==
    [c EXCEPT !.gp = IF arch = "riscv64" THEN physical_to_virtual(GlobalPointer) ELSE @,
              !.uart = IF arch = "aarch64" THEN physical_to_virtual(Uart) ELSE @]

\* trap::init, mmu::post_mmu_init and console::post_mmu_init.
high_cpu(c) ==
    [c EXCEPT !.vector = physical_to_virtual(Vectors),
              !.gp = IF arch = "riscv64" THEN physical_to_virtual(GlobalPointer) ELSE @,
              !.uart = IF arch = "aarch64" THEN physical_to_virtual(Uart) ELSE @]

virt_init(h) ==
    /\ Go(h, "virt_init", "read")
    /\ cpu' = [cpu EXCEPT ![h] = high_cpu(@)]
    /\ UNCHANGED <<svars, BOOT_HART_CLAIM, PHYSMAP_END_GB, dtb, banks>>

\* read_hardware_info: no device tree, or one that is misaligned, has another
\* magic, is too large or malformed, ends the boot.
read_hardware_info(h) ==
    /\ \/ dtb # 0 /\ Go(h, "read", "expand")
       \/ Go(h, "read", "halted")
    /\ UNCHANGED <<svars, cpu, BOOT_HART_CLAIM, PHYSMAP_END_GB, dtb, banks>>

max_memory_end == CHOOSE e \in {b[2] : b \in banks} : \A b \in banks : b[2] <= e

\* expand_physmap, which flushes when it has mapped something.
expand_physmap(h) ==
    LET end == IF arch = "aarch64" THEN A!new_end(max_memory_end)
                                   ELSE R!new_end(max_memory_end)
    IN  /\ Go(h, "expand", "remove")
        /\ tables' =
             IF arch = "aarch64" THEN A!expand_physmap(tables, PHYSMAP_END_GB, max_memory_end)
             ELSE R!expand_physmap(tables, PHYSMAP_END_GB, max_memory_end)
        /\ IF end > PHYSMAP_END_GB
           THEN /\ PHYSMAP_END_GB' = end
                /\ tlb' = IF arch = "aarch64" THEN A!flush_local(tlb) ELSE R!flush_all(tlb)
           ELSE UNCHANGED <<PHYSMAP_END_GB, tlb>>
        /\ UNCHANGED <<arch, free, elsewhere, NEXT_STACK_SLOT, stacks, op, cpu,
                       BOOT_HART_CLAIM, dtb, banks>>

remove_identity_mapping(h) ==
    /\ Go(h, "remove", "pmm")
    /\ tables' = IF arch = "aarch64" THEN A!remove_identity_mapping(tables)
                                     ELSE R!remove_identity_mapping(tables)
    /\ tlb' = IF arch = "aarch64" THEN A!flush_local(tlb) ELSE R!flush_all(tlb)
    /\ UNCHANGED <<arch, free, elsewhere, NEXT_STACK_SLOT, stacks, op, cpu,
                   BOOT_HART_CLAIM, PHYSMAP_END_GB, dtb, banks>>

\* pmm::init and the allocator's probe, which end the boot when they fail. The
\* pages they take for themselves are not among `free`.
pmm_init(h) ==
    /\ Go(h, "pmm", "stack") \/ Go(h, "pmm", "halted")
    /\ UNCHANGED <<svars, cpu, BOOT_HART_CLAIM, PHYSMAP_END_GB, dtb, banks>>

-----------------------------------------------------------------------------
\* The idle thread's stack: kernel_main halts when it cannot be created.
idle_stack(h) ==
    /\ create_mapped
    /\ Go(h, "stack", IF op' = Idle THEN "halted" ELSE "stacking")
    /\ UNCHANGED <<cpu, BOOT_HART_CLAIM, PHYSMAP_END_GB, dtb, banks>>

StackStep == map_stack_page \/ rollback_stack_mapping \/ drop_pages

idle_stack_step(h) ==
    /\ StackStep
    /\ Go(h, "stacking", CASE op' # Idle -> "stacking"
                           [] op' = Idle /\ stacks' # {} -> "up"
                           [] OTHER -> "halted")
    /\ UNCHANGED <<cpu, BOOT_HART_CLAIM, PHYSMAP_END_GB, dtb, banks>>

\* Later stacks: a thread's, which is dropped when the thread cannot be added.
\* The idle thread keeps its own.
later_stacks(h) ==
    /\ hart[h] = "up"
    /\ \/ create_mapped
       \/ StackStep
       \/ \E s \in stacks : s.base # slot_base(0) /\ drop(s)
       \/ \E page \in free : pmm_take_elsewhere(page)
       \/ \E page \in elsewhere : pmm_return_elsewhere(page)
    /\ UNCHANGED bvars

\* The pages whose translations the model lets the boot hart cache: one of the
\* kernel in each half, and those of the stack region.
CachedPages ==
    {KERNEL_PHYSICAL_LOAD, physical_to_virtual(KERNEL_PHYSICAL_LOAD)} \cup RegionPages

walker ==
    /\ \E h \in Harts : cpu[h].mmu
    /\ (\E page \in CachedPages : tlb_fill(page)) \/ (\E t \in tlb : tlb_evict(t))
    /\ UNCHANGED bvars

Next ==
    \/ \E h \in Harts :
         \/ _start(h) \/ zero_bss(h) \/ phys_init(h) \/ jump(h)
         \/ virt_init(h) \/ read_hardware_info(h) \/ expand_physmap(h)
         \/ remove_identity_mapping(h) \/ pmm_init(h)
         \/ idle_stack(h) \/ idle_stack_step(h) \/ later_stacks(h)
    \/ walker

Spec == Init /\ [][Next]_vars

-----------------------------------------------------------------------------
\* _start lets one hart on, however late another one wakes up: the statics are
\* zeroed once, and nobody else runs on the boot stack.
OneBootHart ==
    \A g, h \in Harts : hart[g] \notin {"start", "parked"}
                          /\ hart[h] \notin {"start", "parked"} => g = h

\* Where an address leads on a hart, through its TLB when it is cached there.
Reaches(h, address, physical) ==
    address # NONE =>
        IF cpu[h].mmu
        THEN /\ translate(address) = physical
             /\ \A t \in tlb : t.page = address - (address % PAGE_SIZE) =>
                                 t.out = physical - (physical % PAGE_SIZE)
        ELSE address = physical

\* The walker's right to fetch instructions at an address.
Executable(address) ==
    IF arch = "aarch64"
    THEN "PRIVILEGED_EXECUTE_NEVER" \notin walk(address).entry.bits
    ELSE "EXECUTABLE" \in walk(address).entry.bits

\* At every point of the boot, what the boot hart uses is where it looks for it:
\* its code, stack, trap vectors, global pointer and UART, through the switch to
\* the high half and the removal of the identity mapping, and, while it reads it,
\* all that a device tree can be.
CpuReachesKernel ==
    \A h \in Harts :
        /\ Reaches(h, cpu[h].pc, Code)
        /\ Reaches(h, cpu[h].sp, StackTop)
        /\ Reaches(h, cpu[h].vector, Vectors)
        /\ Reaches(h, cpu[h].gp, GlobalPointer)
        /\ Reaches(h, cpu[h].uart, Uart)
        /\ cpu[h].mmu => Executable(cpu[h].pc) /\ Executable(cpu[h].vector)
        /\ hart[h] = "read" /\ dtb # 0 =>
             \A i \in 0..(DEVICE_TREE_BLOB_MAX_SIZE - 1) :
                Reaches(h, physical_to_virtual(dtb + i), dtb + i)

\* Once virt_init has removed the identity mapping no low address leads anywhere,
\* not through the TLB either: a null dereference traps.
NullTraps ==
    (\E h \in Harts : hart[h] \in {"pmm", "stack", "stacking", "up"}) =>
        /\ \A gb \in 0..(ENTRIES_PER_PAGE_TABLE - 1) : translate(gb * GIGABYTE) = NONE
        /\ \A t \in tlb : t.page # KERNEL_PHYSICAL_LOAD

\* When the PMM starts to use memory, the physmap reaches every bank from the
\* first gigabyte that init mapped up to the stack region, as normal memory.
PhysmapCoversRam ==
    (\E h \in Harts : hart[h] \in {"pmm", "stack", "stacking", "up"}) =>
        \A gb \in 1..(ENTRIES_PER_PAGE_TABLE - 2) :
            LET first == IF arch = "aarch64" THEN A!start_gb(dtb) ELSE R!start_gb(dtb)
                address == physical_to_virtual(gb * GIGABYTE)
            IN  /\ gb >= first
                /\ \E b \in banks : b[1] < (gb + 1) * GIGABYTE /\ b[2] > gb * GIGABYTE
                => /\ translate(address) = gb * GIGABYTE
                   /\ "Device" \notin walk(address).entry.bits

\* map_page, for a tree whose tables are all there, does what map_page_with_alloc
\* does to it, and reports a missing table where that would allocate one.
MapsAgree ==
    \A page \in RegionPages :
        LET root == IF arch = "aarch64" THEN A!HIGH_TABLE ELSE R!ROOT_TABLE
            plain == IF arch = "aarch64"
                     THEN A!map_page(tables, root, page, 0, KERNEL_READ_WRITE)
                     ELSE R!map_page(tables, root, page, 0, KERNEL_READ_WRITE)
            allocating == map_kernel_stack_page(page, 0)
        IN  IF plain.result = "TableNotPresent"
            THEN free # {} => DOMAIN allocating.tables # DOMAIN tables
            ELSE plain.result = allocating.result /\ plain.tables = allocating.tables
=============================================================================
