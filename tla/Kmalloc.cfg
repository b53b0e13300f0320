CONSTANTS
    Pages = {1, 2, 3}
    ClassSizes <- MCClassSizes
    Sizes = {0, 4, 5, 9}
    Alignments = {0, 2, 3}
    PAGE_SIZE = 24
    CACHE_LINE_SIZE = 4
    BACK_POINTER_SIZE = 1
    BITMAP_BYTES = 1
    MIN_SLABS = 1
    NULL = NULL
SPECIFICATION Spec
INVARIANTS
    PartialListExact
    AllocationsUsable
    DropsSucceed
    EmptySlabsReturned
