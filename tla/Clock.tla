-------------------------------- MODULE Clock -------------------------------
(***************************************************************************)
(* The tick of clock/mod.rs and runtime/clock.rs, and the hardware timer   *)
(* it programs: a counter that never stops, and a compare value that makes *)
(* the timer interrupt pending while the counter is at or past it.         *)
(*                                                                         *)
(* Interrupts has the paths into the handler and out of it. The handler    *)
(* runs with interrupts masked, so the counter is all that moves between   *)
(* its reading of the time and its programming of the next deadline.       *)
(***************************************************************************)
EXTENDS Integers

CONSTANTS
    Frequencies,    \* what timer::frequency reports, 0 for none
    TICK_RATE_HZ,
    U64_MAX,        \* the width of counter and deadlines
    Starts,         \* counter values at boot
    MAX_SPINS,      \* max_spins of wait_for_first_tick
    Rejecting       \* whether the firmware may reject a deadline

ASSUME ClockAssumption ==
    /\ Frequencies \subseteq Nat
    /\ TICK_RATE_HZ \in Nat \ {0}
    /\ U64_MAX \in Nat
    /\ Starts \subseteq 0..U64_MAX
    /\ MAX_SPINS \in Nat
    /\ Rejecting \in BOOLEAN

VARIABLES
    frequency,
    counter,              \* timer::now
    compare,              \* the programmed deadline
    TICKS_PER_INTERVAL, NEXT_TICK, TICK_COUNT,
    irq,                  \* interrupts are unmasked
    handler,              \* where handle_timer_irq is
    boot,                 \* where kernel_main is
    spins,
    first,                \* history: the deadline that init chose
    seen                  \* history: the time the handler read

cvars == <<frequency, counter, compare, TICKS_PER_INTERVAL, NEXT_TICK, TICK_COUNT,
           irq, handler, boot, spins, first, seen>>

statics == <<TICKS_PER_INTERVAL, NEXT_TICK, TICK_COUNT>>

ClockInit ==
    /\ frequency \in Frequencies
    /\ counter \in Starts
    /\ compare = U64_MAX
    /\ TICKS_PER_INTERVAL = 0 /\ NEXT_TICK = 0 /\ TICK_COUNT = 0
    /\ irq = FALSE
    /\ handler = "idle"
    /\ boot = "init"
    /\ spins = 0
    /\ first = 0
    /\ seen = 0

ticks_per_interval == frequency \div TICK_RATE_HZ

\* clock::init: the statics are stored, then the deadline is programmed.
init ==
    /\ boot = "init"
    /\ frequency >= TICK_RATE_HZ
    /\ counter + ticks_per_interval <= U64_MAX
    /\ TICKS_PER_INTERVAL' = ticks_per_interval
    /\ NEXT_TICK' = counter + ticks_per_interval
    /\ TICK_COUNT' = 0
    /\ first' = NEXT_TICK'
    /\ \/ compare' = NEXT_TICK' /\ boot' = "enable"
       \/ Rejecting /\ UNCHANGED compare /\ boot' = "halted"
    /\ UNCHANGED <<frequency, counter, irq, handler, spins, seen>>

\* MissingFrequency, InvalidFrequency, DeadlineOverflow.
init_fails ==
    /\ boot = "init"
    /\ \/ frequency < TICK_RATE_HZ
       \/ counter + ticks_per_interval > U64_MAX
    /\ boot' = "halted"
    /\ UNCHANGED <<frequency, counter, compare, statics, irq, handler, spins, first, seen>>

\* timer::enable
enable ==
    /\ boot = "enable"
    /\ irq' = TRUE
    /\ boot' = "wait"
    /\ UNCHANGED <<frequency, counter, compare, statics, handler, spins, first, seen>>

\* One turn of wait_for_first_tick, which an interrupt suspends.
wait_for_first_tick ==
    /\ boot = "wait"
    /\ irq
    /\ IF spins < MAX_SPINS
       THEN IF TICK_COUNT # 0 THEN boot' = "up" /\ spins' = 0
                              ELSE spins' = spins + 1 /\ UNCHANGED boot
       ELSE boot' = "halted" /\ UNCHANGED spins
    /\ UNCHANGED <<frequency, counter, compare, statics, irq, handler, first, seen>>

-----------------------------------------------------------------------------
\* Mutant: the count of missed intervals is one short.
missed_one_short(now, deadline) ==
    IF deadline <= now THEN (now - deadline) \div TICKS_PER_INTERVAL ELSE 0

\* advance_tick_state: the intervals that ended besides the one that was due.
missed(now, deadline) ==
    IF deadline <= now THEN (now - deadline) \div TICKS_PER_INTERVAL + 1 ELSE 0

\* Mutant: the next deadline is counted from the time of the handler.
next_tick_from_now(now) == now + TICKS_PER_INTERVAL

\* advance_tick_state: the next deadline, past U64_MAX where the code has None.
next_tick(now) ==
    LET deadline == NEXT_TICK + TICKS_PER_INTERVAL
    IN  deadline + missed(now, deadline) * TICKS_PER_INTERVAL

\* handle_timer_irq up to the store of NEXT_TICK; task::tick is in Preemption.
handle_timer_irq ==
    /\ handler = "entered"
    /\ TICKS_PER_INTERVAL # 0
    /\ next_tick(counter) <= U64_MAX
    /\ TICK_COUNT' = TICK_COUNT + 1 + missed(counter, NEXT_TICK + TICKS_PER_INTERVAL)
    /\ NEXT_TICK' = next_tick(counter)
    /\ seen' = counter
    /\ handler' = "programming"
    /\ UNCHANGED <<frequency, counter, compare, TICKS_PER_INTERVAL, irq, boot, spins, first>>

\* The clock is not set up, or the next deadline is out of range: the handler
\* returns and the interrupt stays pending.
handle_timer_irq_returns ==
    /\ handler = "entered"
    /\ TICKS_PER_INTERVAL = 0 \/ next_tick(counter) > U64_MAX
    /\ handler' = "done"
    /\ UNCHANGED <<frequency, counter, compare, statics, irq, boot, spins, first, seen>>

\* timer::set_deadline
set_deadline ==
    /\ handler = "programming"
    /\ compare' = NEXT_TICK
    /\ handler' = "done"
    /\ seen' = 0
    /\ UNCHANGED <<frequency, counter, statics, irq, boot, spins, first>>

\* The firmware rejects the deadline: the handler halts the CPU with interrupts
\* masked.
set_deadline_rejected ==
    /\ Rejecting
    /\ handler = "programming"
    /\ handler' = "halted"
    /\ UNCHANGED <<frequency, counter, compare, statics, irq, boot, spins, first, seen>>

\* Time passes, also while the handler runs.
counter_advances ==
    /\ counter < U64_MAX
    /\ counter' = counter + 1
    /\ UNCHANGED <<frequency, compare, statics, irq, handler, boot, spins, first, seen>>

-----------------------------------------------------------------------------
\* No drift: each deadline is a whole number of intervals after the first, and
\* that number is TICK_COUNT, however late and however often the handler ran.
NoDrift == NEXT_TICK = first + TICK_COUNT * TICKS_PER_INTERVAL
=============================================================================
