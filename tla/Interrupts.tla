----------------------------- MODULE Interrupts -----------------------------
(***************************************************************************)
(* The path of the timer interrupt: the controllers of                     *)
(* arch/*/interrupt.rs, the trap handlers of runtime/trap.rs and the       *)
(* handler of Clock between them, from kernel_main's call of               *)
(* interrupt::init on.                                                     *)
(*                                                                         *)
(* On ARM64 the GIC signals, the CPU traps, acknowledges and, when the     *)
(* handler is done, writes the end of the interrupt. A GIC may still       *)
(* signal a timer whose deadline has just been moved (lag). On RISC-V the  *)
(* hart traps with a cause. Devices that firmware left enabled interrupt   *)
(* at any time.                                                            *)
(***************************************************************************)
EXTENDS Clock

CONSTANTS
    Controllers,            \* the controllers a device tree may name
    WAKE_RETRY_BUDGET

ASSUME InterruptsAssumption ==
    /\ Controllers \subseteq {"none", "GicV2", "GicV2 without cpu interface", "GicV3",
                              "GicV3 without redistributor", "riscv64"}
    /\ WAKE_RETRY_BUDGET \in Nat

VARIABLES
    controller,
    vectored,           \* the hart has the vectored mode that trap::init asks for
    lag, line,          \* whether the GIC sees the timer late, and what it sees
    device,             \* a device interrupts
    setup,              \* where interrupt::init is
    registers,          \* what the code has switched on
    asleep, polls,      \* GICR_WAKER.ChildrenAsleep, and how often it was read
    GIC_READY,
    active,             \* INTIDs acknowledged and not ended
    trap                \* where the trap handler is

ivars == <<controller, vectored, lag, line, device, setup, registers,
           asleep, polls, GIC_READY, active, trap>>
platform == <<controller, vectored, lag>>
vars == <<cvars, ivars>>

TIMER == "timer"        \* TIMER_PPI, or the supervisor timer's cause
DEVICE == "device"      \* any other INTID or cause
SPECIAL == "special"    \* INTIDs 1020 to 1023
NOTHING == "nothing"    \* None

IsGic == controller # "riscv64"

Init ==
    /\ ClockInit
    /\ controller \in Controllers
    /\ vectored \in IF IsGic THEN {TRUE} ELSE BOOLEAN
    /\ lag \in IF IsGic THEN BOOLEAN ELSE {FALSE}
    /\ line = FALSE
    /\ device = FALSE
    /\ setup = "init"
    /\ registers = {}
    /\ asleep = (controller = "GicV3")
    /\ polls = 0
    /\ GIC_READY = FALSE
    /\ active = {}
    /\ trap = "none"

-----------------------------------------------------------------------------
(* Setting up the controller *)

\* What GicV2::init switches on, and GicV3::init before its wake handshake.
init_registers_v2 == {"GICD_CONTROL", "GICC_PRIORITY_MASK", "GICC_CONTROL"}
init_registers_v3 == {"SRE", "ARE_NS", "ENABLE_G1NS"}

init_registers ==
    CASE controller = "GicV2" -> init_registers_v2
      [] controller = "GicV3" -> init_registers_v3
      [] OTHER -> {}

\* interrupt::init: without a controller, or without the part of it that the CPU
\* uses, it panics. A GICv3's redistributor has to wake up first.
interrupt_init ==
    /\ setup = "init"
    /\ registers' = init_registers
    /\ setup' = CASE controller \in {"GicV2", "riscv64"} -> "ready"
                  [] controller = "GicV3" -> "wake"
                  [] OTHER -> "panicked"
    /\ GIC_READY' = (controller = "GicV2")
    /\ UNCHANGED <<cvars, platform, line, device, asleep, polls, active, trap>>

\* One turn of GicV3::init's wake handshake; then the CPU interface is set up.
wake_poll ==
    /\ setup = "wake"
    /\ IF polls < WAKE_RETRY_BUDGET /\ asleep
       THEN polls' = polls + 1 /\ UNCHANGED <<setup, registers, GIC_READY>>
       ELSE IF polls < WAKE_RETRY_BUDGET
       THEN /\ setup' = "ready"
            /\ registers' = registers \cup {"ICC_PMR", "ICC_IGRPEN1"}
            /\ GIC_READY' = TRUE
            /\ polls' = 0
       ELSE setup' = "panicked" /\ UNCHANGED <<polls, registers, GIC_READY>>
    /\ UNCHANGED <<cvars, platform, line, device, asleep, active, trap>>

redistributor_wakes ==
    /\ setup = "wake"
    /\ asleep' = FALSE
    /\ UNCHANGED <<cvars, platform, line, device, setup, registers, polls, GIC_READY,
                   active, trap>>

\* GicV2::enable_timer_interrupt.
timer_registers_v2 == {"PRIORITY", "SET_ENABLE"}

\* Mutant: the timer's interrupt stays in the group it was reset to.
timer_registers_v3_ungrouped == {"PRIORITY", "SET_ENABLE"}

\* GicV3::enable_timer_interrupt.
timer_registers_v3 == {"IGROUPR0", "PRIORITY", "SET_ENABLE"}

\* with_gic: nothing is done before the GIC is set up.
with_gic(v2, v3) == IF ~GIC_READY THEN {} ELSE IF controller = "GicV2" THEN v2 ELSE v3

\* enable_timer_interrupt and enable_local_timer.
timer_registers ==
    IF IsGic THEN with_gic(timer_registers_v2, timer_registers_v3) \cup {"CNTP_CTL"}
             ELSE {"STIE"}

clock_init ==
    /\ setup = "ready"
    /\ init \/ init_fails
    /\ UNCHANGED ivars

timer_enable ==
    /\ enable
    /\ registers' = registers \cup timer_registers
    /\ UNCHANGED <<platform, line, device, setup, asleep, polls, GIC_READY, active, trap>>

-----------------------------------------------------------------------------
(* The hardware *)

\* What has to be switched on for a controller to pass the timer's interrupt on.
Required ==
    CASE controller = "GicV2" -> {"GICD_CONTROL", "GICC_PRIORITY_MASK", "GICC_CONTROL",
                                  "SET_ENABLE", "CNTP_CTL"}
      [] controller = "GicV3" -> {"SRE", "ARE_NS", "ENABLE_G1NS", "ICC_PMR", "ICC_IGRPEN1",
                                  "IGROUPR0", "SET_ENABLE", "CNTP_CTL"}
      [] OTHER -> {"STIE"}

Level == counter >= compare /\ Required \subseteq registers

\* The interrupts that are signalled. While one is active no other is.
Signals ==
    IF active # {} THEN {}
    ELSE (IF (lag /\ line) \/ (~lag /\ Level) THEN {TIMER} ELSE {})
           \cup (IF device THEN {DEVICE} ELSE {})

\* The GIC notices that the timer's level has changed.
line_follows ==
    /\ lag
    /\ line # Level
    /\ line' = Level
    /\ UNCHANGED <<cvars, platform, device, setup, registers, asleep, polls, GIC_READY,
                   active, trap>>

device_interrupts ==
    /\ setup = "ready"
    /\ device' = TRUE
    /\ UNCHANGED <<cvars, platform, line, setup, registers, asleep, polls, GIC_READY,
                   active, trap>>

-----------------------------------------------------------------------------
(* The trap *)

clock_rest == <<frequency, counter, compare, statics, boot, spins, first, seen>>
gic_rest == <<platform, line, device, setup, registers, asleep, polls, GIC_READY>>

\* The CPU traps, with interrupts masked, into handle_fast_interrupt.
irq_entry_aarch64 ==
    /\ IsGic
    /\ irq
    /\ Signals # {}
    /\ irq' = FALSE
    /\ trap' = "acknowledge"
    /\ UNCHANGED <<clock_rest, handler, gic_rest, active>>

\* What acknowledge returns: nothing before the GIC is set up, and a special INTID
\* when the signal went away.
acknowledge ==
    IF ~GIC_READY THEN {NOTHING} ELSE IF Signals = {} THEN {SPECIAL} ELSE Signals

\* Mutant: the special INTIDs are taken for interrupts.
is_gic_special_interrupt_none(intid) == FALSE

is_gic_special_interrupt(intid) == intid = SPECIAL

\* intid == TIMER_PPI
is_timer(intid) == intid = TIMER

\* end_of_interrupt, on the set of active INTIDs. What a GIC does when told of the
\* end of an interrupt that is not active is unpredictable.
end_of_interrupt(ids, intid) == IF intid \in ids THEN ids \ {intid} ELSE {"UNPREDICTABLE"}

\* handle_timer_interrupt of aarch64 up to its call of handle_timer_irq; when it
\* returns false, handle_fast_interrupt halts.
handle_timer_interrupt_aarch64 ==
    /\ trap = "acknowledge"
    /\ \E intid \in acknowledge :
         LET ids == active \cup ({intid} \cap {TIMER, DEVICE})
         IN  IF intid = NOTHING \/ is_gic_special_interrupt(intid)
             THEN trap' = "halted" /\ active' = ids /\ UNCHANGED handler
             ELSE IF is_timer(intid)
             THEN trap' = "timer" /\ active' = ids /\ handler' = "entered"
             ELSE /\ trap' = "halted"
                  /\ active' = end_of_interrupt(ids, intid)
                  /\ UNCHANGED handler
    /\ UNCHANGED <<clock_rest, irq, gic_rest>>

\* The vector table: slot 5 leads to the fast entry, which knows the cause.
fast_entry(cause) == vectored /\ cause = TIMER

\* The cause that handle_timer_interrupt of riscv64 is given: None from the fast
\* entry, the decoded one from the full entry.
given_cause(cause) == IF fast_entry(cause) THEN NOTHING ELSE cause

\* A hart traps: handle_fast_interrupt, or handle_kernel_interrupt, which panics
\* when handle_timer_interrupt returns false.
irq_entry_riscv64 ==
    /\ ~IsGic
    /\ irq
    /\ \E cause \in Signals :
         IF given_cause(cause) \in {NOTHING, TIMER}
         THEN trap' = "timer" /\ handler' = "entered"
         ELSE trap' = "halted" /\ UNCHANGED handler
    /\ irq' = FALSE
    /\ UNCHANGED <<clock_rest, gic_rest, active>>

handle_timer_irq_step ==
    /\ \/ handle_timer_irq \/ handle_timer_irq_returns
       \/ set_deadline
       \/ ~IsGic /\ set_deadline_rejected
    /\ UNCHANGED ivars

\* What handle_timer_interrupt leaves active when handle_timer_irq has returned.
ended == IF IsGic THEN end_of_interrupt(active, TIMER) ELSE active

\* The rest of the trap: the end of the interrupt, preempt_from_trap (Preemption
\* has it) and the return, which unmasks interrupts.
trap_return ==
    /\ trap = "timer"
    /\ handler = "done"
    /\ active' = ended
    /\ trap' = "none"
    /\ handler' = "idle"
    /\ irq' = TRUE
    /\ UNCHANGED <<clock_rest, gic_rest>>

-----------------------------------------------------------------------------
boot_waits == wait_for_first_tick /\ UNCHANGED ivars

\* The time before interrupt::init has returned is in Starts.
time_passes == setup = "ready" /\ counter_advances /\ UNCHANGED ivars

Next ==
    \/ interrupt_init \/ wake_poll \/ redistributor_wakes
    \/ clock_init \/ timer_enable \/ boot_waits
    \/ line_follows \/ device_interrupts \/ time_passes
    \/ irq_entry_aarch64 \/ handle_timer_interrupt_aarch64
    \/ irq_entry_riscv64 \/ handle_timer_irq_step \/ trap_return

\* Time passes, the GIC sees the timer's level in the end, and the CPU goes on:
\* it takes a signalled interrupt and runs its handler.
Fairness ==
    /\ WF_vars(time_passes) /\ WF_vars(line_follows)
    /\ WF_vars(interrupt_init) /\ WF_vars(wake_poll)
    /\ WF_vars(clock_init) /\ WF_vars(timer_enable)
    /\ WF_vars(irq_entry_aarch64) /\ WF_vars(handle_timer_interrupt_aarch64)
    /\ WF_vars(irq_entry_riscv64) /\ WF_vars(handle_timer_irq_step) /\ WF_vars(trap_return)

Spec == Init /\ [][Next]_vars /\ Fairness

-----------------------------------------------------------------------------
\* The handler leaves the first deadline of the grid that is after the time it
\* read: it does not ask for one that has ended, nor for one that the counter
\* never reaches, and it skips none, unless the GIC signalled an interval that had
\* been counted. Outside the handler the timer is armed for it.
DeadlineIsNext ==
    /\ handler \in {"programming", "halted"} =>
         /\ NEXT_TICK > seen
         /\ ~lag => NEXT_TICK - TICKS_PER_INTERVAL <= seen
    /\ boot \notin {"init", "halted"} /\ handler \in {"idle", "done"} => compare = NEXT_TICK
    /\ NEXT_TICK <= U64_MAX

\* Every interrupt that the kernel acknowledges it also ends, once, when the
\* handler is done and also when it is about to halt: none stays active to block
\* the next, and the end is never written for a special INTID.
NothingLeftActive ==
    active = IF IsGic /\ trap = "timer" THEN {TIMER} ELSE {}

\* On every platform that has a working controller, each interval that ends is
\* eventually counted: the registers that the setup programs let the interrupt
\* through, the handlers recognise it by its INTID, its cause or its vector, and each
\* end of an interrupt makes way for the next. Not, though, once the firmware
\* rejected a deadline, the interrupt of a device, or one for a deadline that has
\* been moved, halted the kernel, or the handler found that the next deadline no
\* longer fits the counter.
IntervalsCounted ==
    \A t \in 0..U64_MAX :
        (boot \in {"wait", "up"} /\ counter = t)
            ~> \/ first + TICK_COUNT * TICKS_PER_INTERVAL > t
               \/ handler = "halted"
               \/ trap = "halted" /\ (device \/ lag)
               \/ handler = "done" /\ counter >= compare /\ next_tick(counter) > U64_MAX
=============================================================================
