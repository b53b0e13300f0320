CONSTANTS
    CPUs = {c1, c2}
    M = 6
SPECIFICATION FairSpec
INVARIANTS
    TypeOK
    MutualExclusion
    AssertionsHold
    NoSelfDeadlock
    InterruptsRestored
    TicketsAccountedFor
PROPERTIES ImplementsFifoLock TicketServed
