CONSTANTS
    Dtbs <- MCDtbs
    Kernels <- MCKernels
    MAX_MEMORY_ARENAS = 2
    MAX_RESERVED_REGIONS = 4
    AddressLimit = 32
    PAGE_SIZE = 2
    KERNEL_RESERVE_PAD = 2
    PAGE_ENTRY_SIZE = 1
    NONE = NONE
    BAD = BAD
SPECIFICATION Spec
CHECK_DEADLOCK FALSE
INVARIANTS
    RangesExact
    FreePagesExact
    ArenasWellFormed
PROPERTY MetadataPlacedHighest
