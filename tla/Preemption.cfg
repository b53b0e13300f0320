CONSTANTS
    THREADS = 4
    MAX_ID = 6
    MAX_RUNTIME = 12
    SCHED_TIME_SLICE_NS = 2
    SCHED_BASE_WEIGHT = 2
    SCHED_MIN_WEIGHT = 1
    Weights = {2, 4}
    Elapsed = {1, 2}
    Blocking = FALSE
    ThreadsUnmask = TRUE
SPECIFICATION PSpec
INVARIANTS CpuRunsCurrent ExecutionsPreserved BoundedLag BoundedWait
