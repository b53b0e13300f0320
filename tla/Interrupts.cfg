CONSTANTS
    Frequencies = {0, 1, 2, 5}
    TICK_RATE_HZ = 2
    U64_MAX = 9
    Starts = {0, 3, 9}
    MAX_SPINS = 2
    Rejecting = TRUE
    Controllers = {"none", "GicV2", "GicV2 without cpu interface", "GicV3",
                   "GicV3 without redistributor", "riscv64"}
    WAKE_RETRY_BUDGET = 2
CHECK_DEADLOCK FALSE
SPECIFICATION Spec
INVARIANTS NoDrift DeadlineIsNext NothingLeftActive
PROPERTY IntervalsCounted
