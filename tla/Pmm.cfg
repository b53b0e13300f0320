CONSTANTS
    Arenas <- MCArenas
    ReservedPages <- MCReservedPages
    PAGE_SIZE = 2
    USIZE_BITS = 3
    NONE = NONE
    MaxCount = 3
    MaxLog2 = 3
SPECIFICATION Spec
INVARIANTS FreeListExact OneOwnerPerPage ReleasesSucceed FirstFit
