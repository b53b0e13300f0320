CONSTANTS
    THREADS = 3
    MAX_ID = 5
    MAX_RUNTIME = 11
    SCHED_TIME_SLICE_NS = 2
    SCHED_BASE_WEIGHT = 2
    SCHED_MIN_WEIGHT = 1
    Weights = {2, 4}
    Elapsed = {0, 1, 2}
    Blocking = TRUE
SPECIFICATION Spec
INVARIANTS OneRunning RunnableAboveFloor ProcessListExact
