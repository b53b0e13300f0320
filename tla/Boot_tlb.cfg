CONSTANTS
    Arches = {"aarch64"}
    PAGE_SIZE = 2
    ENTRIES_PER_PAGE_TABLE = 8
    DEVICE_TREE_BLOB_MAX_SIZE = 8
    ADDRESS_SPACE = 32768
    OPERAND_SPACE = 8192
    AARCH64_LOAD = 132
    RISCV64_LOAD = 272
    FRAMES = 7
    KERNEL_STACK_REGION_SIZE = 24
    TLB_ENTRIES = 1
    NONE = NONE
    Harts <- MCHarts
    Aff0 <- MCAff0
    DtbOffsets <- MCDtbOffsets
    Banks <- MCBanks
SPECIFICATION Spec
CHECK_DEADLOCK FALSE
INVARIANT NoFreedPageCached
