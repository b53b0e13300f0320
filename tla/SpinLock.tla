------------------------------ MODULE SpinLock ------------------------------
(***************************************************************************)
(* The ticket spin lock of sync/mod.rs, with the interrupt masking its     *)
(* guard performs.  The lock word is one AtomicU32: the low half is the    *)
(* owner ticket, the high half the next ticket.  The two halves are two    *)
(* variables here, and every atomic operation on the word is one action.   *)
(*                                                                         *)
(* Each CPU runs a thread context that a trap context can interrupt        *)
(* whenever interrupts are enabled.  Both use the same lock through the    *)
(* same code, which is why the guard masks interrupts.                     *)
(***************************************************************************)
EXTENDS Integers, FiniteSets

CONSTANTS
    CPUs,   \* the CPUs that share the lock
    M       \* number of tickets a half of the lock word can name: 2^16

Contexts == CPUs \X {"thread", "trap"}

\* One ticket per context can be outstanding; the lock word needs room for them
\* and for the one ticket that a wrap of the owner half can lose.
ASSUME LockAssumption ==
    /\ M \in Nat
    /\ IsFiniteSet(Contexts)
    /\ Cardinality(Contexts) + 1 < M

None == M   \* not a ticket

VARIABLES
    owner,    \* low half of TicketLock.state
    next,     \* high half of TicketLock.state
    held,     \* SpinLock.held, the debug flag
    irq,      \* per CPU: interrupts enabled
    pc,       \* per context: the next operation of the lock code
    ticket,   \* per context: `ticket` of acquire, `current` of try_acquire
    irqWas,   \* per context: irq_was_enabled of the guard
    lost      \* history: the ticket skipped by the owner half's wrap, or None

vars == <<owner, next, held, irq, pc, ticket, irqWas, lost>>

cpu(p) == p[1]
Thread(c) == <<c, "thread">>
Trap(c) == <<c, "trap">>

\* A trap suspends the thread it interrupted until it returns.
Running(p) == p = Thread(cpu(p)) => pc[Trap(cpu(p))] = "off"

\* Contexts that have taken a ticket and not yet released the lock.
Ticketed == {"spin", "set_held", "critical", "release"}
Out == {p \in Contexts : pc[p] \in Ticketed}

\* Contexts the lock has admitted.
Admitted == {"set_held", "critical", "release"}

At(p, label) == pc[p] = label /\ Running(p)
Goto(p, label) == pc' = [pc EXCEPT ![p] = label]

-----------------------------------------------------------------------------
Init ==
    /\ owner = 0
    /\ next = 0
    /\ held = FALSE
    /\ irq = [c \in CPUs |-> TRUE]
    /\ pc = [p \in Contexts |-> IF p[2] = "thread" THEN "idle" ELSE "off"]
    /\ ticket = [p \in Contexts |-> 0]
    /\ irqWas = [p \in Contexts |-> FALSE]
    /\ lost = None

\* Mutant: the state is read after masking.
disable_then_read(p) ==
    /\ irqWas' = [irqWas EXCEPT ![p] = FALSE]
    /\ irq' = [irq EXCEPT ![cpu(p)] = FALSE]

\* Mutant: interrupts stay enabled.
disable_nothing(p) ==
    /\ irqWas' = [irqWas EXCEPT ![p] = irq[cpu(p)]]
    /\ UNCHANGED irq

\* cpu::disable_interrupts returns whether they were enabled.
disable_interrupts(p) ==
    /\ irqWas' = [irqWas EXCEPT ![p] = irq[cpu(p)]]
    /\ irq' = [irq EXCEPT ![cpu(p)] = FALSE]

\* SpinLock::guard up to the call of acquire.
guard(p) ==
    /\ At(p, "idle")
    /\ disable_interrupts(p)
    /\ Goto(p, "acquire")
    /\ UNCHANGED <<owner, next, held, ticket, lost>>

\* SpinLock::try_guard up to the load in try_acquire.
try_guard(p) ==
    /\ At(p, "idle")
    /\ disable_interrupts(p)
    /\ Goto(p, "try_load")
    /\ UNCHANGED <<owner, next, held, ticket, lost>>

\* Mutant: the half grows out of its 16 bits.
NextTicket_wide == next + 1

NextTicket == IF next = M - 1 THEN 0 ELSE next + 1

\* Mutant: the ticket is read back after the addition.
acquire_reads_new(p) ==
    /\ At(p, "acquire")
    /\ ticket' = [ticket EXCEPT ![p] = NextTicket]
    /\ next' = NextTicket
    /\ Goto(p, IF owner = NextTicket THEN "set_held" ELSE "spin")
    /\ UNCHANGED <<owner, held, irq, irqWas, lost>>

\* fetch_add(1 << 16): the carry out of the high half leaves the word.
acquire(p) ==
    /\ At(p, "acquire")
    /\ ticket' = [ticket EXCEPT ![p] = next]
    /\ next' = NextTicket
    /\ Goto(p, IF owner = next THEN "set_held" ELSE "spin")
    /\ UNCHANGED <<owner, held, irq, irqWas, lost>>

\* Mutant: tickets compared by order instead of equality.
spin_at_or_past(p) ==
    /\ At(p, "spin")
    /\ owner >= ticket[p]
    /\ Goto(p, "set_held")
    /\ UNCHANGED <<owner, next, held, irq, ticket, irqWas, lost>>

\* One load of the polling loop: leave it when the owner half is our ticket.
spin(p) ==
    /\ At(p, "spin")
    /\ owner = ticket[p]
    /\ Goto(p, "set_held")
    /\ UNCHANGED <<owner, next, held, irq, ticket, irqWas, lost>>

spin_wait(p) ==
    /\ At(p, "spin")
    /\ owner # ticket[p]
    /\ UNCHANGED vars

\* try_acquire: the load, and the early return when the halves differ.
try_load(p) ==
    /\ At(p, "try_load")
    /\ ticket' = [ticket EXCEPT ![p] = next]
    /\ Goto(p, IF owner = next THEN "try_cas" ELSE "restore")
    /\ UNCHANGED <<owner, next, held, irq, irqWas, lost>>

\* Mutant: a store instead of the compare_exchange.
try_store(p) ==
    /\ At(p, "try_cas")
    /\ next' = IF ticket[p] = M - 1 THEN 0 ELSE ticket[p] + 1
    /\ Goto(p, "set_held")
    /\ UNCHANGED <<owner, held, irq, ticket, irqWas, lost>>

\* try_acquire: compare_exchange on the whole word.
try_cas(p) ==
    /\ At(p, "try_cas")
    /\ IF owner = ticket[p] /\ next = ticket[p]
       THEN next' = NextTicket /\ Goto(p, "set_held")
       ELSE next' = next /\ Goto(p, "restore")
    /\ UNCHANGED <<owner, held, irq, ticket, irqWas, lost>>

set_held(p) ==
    /\ At(p, "set_held")
    /\ held' = TRUE
    /\ Goto(p, "critical")
    /\ UNCHANGED <<owner, next, irq, ticket, irqWas, lost>>

\* SpinLock::unlock up to the call of release; the assertion on `held` is in
\* AssertionsHold.
unlock(p) ==
    /\ At(p, "critical")
    /\ held' = FALSE
    /\ Goto(p, "release")
    /\ UNCHANGED <<owner, next, irq, ticket, irqWas, lost>>

\* fetch_add(1) on the whole word: the carry out of the owner half goes into the
\* next half, so the ticket `next` named is never handed out.
release(p) ==
    /\ At(p, "release")
    /\ IF owner = M - 1
       THEN owner' = 0 /\ next' = NextTicket /\ lost' = next
       ELSE owner' = owner + 1 /\ UNCHANGED <<next, lost>>
    /\ Goto(p, "restore")
    /\ UNCHANGED <<held, irq, ticket, irqWas>>

\* Mutant: the debug flag is cleared after the lock was released.
restore_clears_held(p) ==
    /\ At(p, "restore")
    /\ irq' = [irq EXCEPT ![cpu(p)] = @ \/ irqWas[p]]
    /\ held' = FALSE
    /\ Goto(p, "idle")
    /\ UNCHANGED <<owner, next, ticket, irqWas, lost>>

\* restore_interrupts, of the guard's drop or of the failed try_guard.
restore(p) ==
    /\ At(p, "restore")
    /\ irq' = [irq EXCEPT ![cpu(p)] = @ \/ irqWas[p]]
    /\ Goto(p, "idle")
    /\ UNCHANGED <<owner, next, held, ticket, irqWas, lost>>

\* The hardware takes an interrupt: it masks interrupts and runs the handler.
Interrupt(c) ==
    /\ irq[c]
    /\ pc[Trap(c)] = "off"
    /\ irq' = [irq EXCEPT ![c] = FALSE]
    /\ Goto(Trap(c), "idle")
    /\ UNCHANGED <<owner, next, held, ticket, irqWas, lost>>

\* eret / sret restores the interrupt state the trap interrupted.
TrapReturn(c) ==
    /\ pc[Trap(c)] = "idle"
    /\ irq' = [irq EXCEPT ![c] = TRUE]
    /\ Goto(Trap(c), "off")
    /\ UNCHANGED <<owner, next, held, ticket, irqWas, lost>>

\* What a context does once it has entered the lock code.
Step(p) ==
    \/ acquire(p) \/ spin(p) \/ spin_wait(p) \/ try_load(p) \/ try_cas(p)
    \/ set_held(p) \/ unlock(p) \/ release(p) \/ restore(p)

Next ==
    \/ \E p \in Contexts : guard(p) \/ try_guard(p) \/ Step(p)
    \/ \E c \in CPUs : Interrupt(c) \/ TrapReturn(c)

\* A CPU keeps executing inside the lock code, and critical sections end.
Fairness == \A p \in Contexts : WF_vars(Step(p))

Spec == Init /\ [][Next]_vars
FairSpec == Spec /\ Fairness

-----------------------------------------------------------------------------
TypeOK ==
    /\ owner \in 0..M-1
    /\ next \in 0..M-1
    /\ held \in BOOLEAN
    /\ irq \in [CPUs -> BOOLEAN]
    /\ pc \in [Contexts -> Ticketed \cup {"off", "idle", "acquire", "try_load",
                                          "try_cas", "restore"}]
    /\ ticket \in [Contexts -> 0..M-1]
    /\ irqWas \in [Contexts -> BOOLEAN]
    /\ lost \in 0..M

\* At most one context is between acquire and release, on any CPU, in a thread
\* or in a trap: what every user of SpinLock::guard relies on.
MutualExclusion ==
    \A p, q \in Contexts : pc[p] \in Admitted /\ pc[q] \in Admitted => p = q

\* The debug assertions of unlock and of release never fire: `held` is a plain
\* flag other CPUs write too, and the halves move while the lock is held.
AssertionsHold ==
    \A p \in Contexts :
        /\ pc[p] = "critical" => held
        /\ pc[p] = "release" => owner # next

\* A trap handler never waits for a lock that the thread it interrupted holds
\* or queues for; it would wait forever.
NoSelfDeadlock ==
    \A c \in CPUs : pc[Trap(c)] # "off" => Thread(c) \notin Out

\* Dropping a guard puts back the interrupt state it found: a thread outside the
\* lock code can be interrupted, a trap handler never is, whichever way either
\* left guard or try_guard.
InterruptsRestored ==
    \A c \in CPUs :
        IF pc[Trap(c)] = "off"
        THEN pc[Thread(c)] = "idle" => irq[c]
        ELSE ~irq[c]

\* How far a ticket is from being served.
Distance(t) == IF t >= owner THEN t - owner ELSE t - owner + M

\* As long as no ticket was lost, the distance between the halves is the number
\* of contexts that hold a ticket: no ticket is handed out twice or skipped.
TicketsAccountedFor ==
    lost = None => Distance(next) = Cardinality(Out)

\* Every context that drew a ticket is eventually admitted, unless the owner
\* half has wrapped and a ticket was lost.
TicketServed ==
    \A p \in Contexts : pc[p] = "spin" ~> pc[p] = "critical" \/ lost # None

\* The comment in acquire: wrapping is valid while fewer than 2^16 tickets are
\* outstanding.  A valid wrap leaves a lock nobody claims free.
WrappingIsValid == Out = {} => owner = next

\* The contexts with a ticket, in the order of their tickets.
Queue ==
    [i \in 1..Cardinality(Out) |->
        CHOOSE p \in Out :
            Cardinality({q \in Out : Distance(ticket[q]) < Distance(ticket[p])})
              = i - 1]

Holder ==
    IF \E p \in Contexts : pc[p] \in Admitted
    THEN CHOOSE p \in Contexts : pc[p] \in Admitted
    ELSE <<>>

Fifo == INSTANCE FifoLock WITH
            Nobody <- <<>>, queue <- Queue, holder <- Holder

\* The lock implements FifoLock: admission in the order of asking, also across
\* the wrap of either half.
ImplementsFifoLock == Fifo!Spec
=============================================================================
