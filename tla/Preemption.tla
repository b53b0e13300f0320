----------------------------- MODULE Preemption -----------------------------
(***************************************************************************)
(* The scheduler composed with the CPU it schedules: the boot code of      *)
(* main.rs, the timer trap of runtime/trap.rs and runtime/clock.rs, and    *)
(* the two context switches of context.rs, on the one CPU the kernel runs  *)
(* on.                                                                     *)
(*                                                                         *)
(* An execution is what a stack and a set of registers stand for: the boot *)
(* code (Boot) or the code of a thread (its id).  A Context record holds   *)
(* one execution.  The trap masks interrupts, so its two uses of the       *)
(* scheduler are two steps nothing comes between.                          *)
(***************************************************************************)
EXTENDS Scheduler

CONSTANT
    ThreadsUnmask   \* the entry code of a spawned thread unmasks interrupts

\* elapsed_ticks is a u64, as virtual runtimes are; weights are u32, less than
\* 10 ms times the base weight, so that no tick charges nothing.
ASSUME PreemptionAssumption ==
    /\ Elapsed \subseteq 0..MAX_RUNTIME
    /\ Elapsed \ {0} # {}
    /\ Weights # {}
    /\ \A w \in Weights \cup {SCHED_MIN_WEIGHT} :
          w <= SCHED_TIME_SLICE_NS * SCHED_BASE_WEIGHT

Boot == 0
Executions == 0..MAX_ID

VARIABLES
    cpu,        \* the execution on the CPU
    irq,        \* interrupts are unmasked
    in_trap,    \* the CPU is in the timer trap
    boot,       \* where the boot code is
    context,    \* [id -> the execution in that thread's Context]; 0: boot_context
    trapped,    \* the executions that were suspended inside a trap
    waited      \* history: per slot, the timer interrupts since it last ran

cpuVars == <<cpu, irq, in_trap, boot, context, trapped, waited>>
allVars == <<vars, cpuVars>>

PInit ==
    /\ Init
    /\ cpu = Boot
    /\ irq = FALSE
    /\ in_trap = FALSE
    /\ boot = "start"
    /\ context = [id \in Executions |-> Boot]
    /\ trapped = {}
    /\ waited = [i \in Slots |-> 0]

\* kernel_main up to timer::enable: the scheduler is set up with the idle
\* thread's context, then interrupts are unmasked.
start ==
    /\ boot = "start"
    /\ init_with_idle_thread
    /\ context' = [context EXCEPT ![next_thread_id] = next_thread_id]
    /\ irq' = TRUE
    /\ boot' = "booting"
    /\ UNCHANGED <<cpu, in_trap, trapped, waited>>

\* The boot code, or a thread other than the idle one, calls spawn.
Spawner ==
    /\ ~in_trap
    /\ cpu = Boot => boot = "booting"
    /\ cpu # idle

run_spawn(weight) ==
    /\ Spawner
    /\ spawn(weight)
    /\ context' = [context EXCEPT ![next_thread_id] = next_thread_id]
    /\ UNCHANGED <<cpu, irq, in_trap, boot, trapped, waited>>

run_spawn_table_full ==
    /\ Spawner
    /\ spawn_table_full
    /\ UNCHANGED cpuVars

\* enter_idle up to the drop of the guard, which unmasks interrupts again.
enter_idle ==
    /\ ~in_trap
    /\ cpu = Boot
    /\ boot = "booting"
    /\ enter_idle_contexts
    /\ boot' = "entering"
    /\ UNCHANGED <<cpu, irq, in_trap, context, trapped, waited>>

\* switch_context saves the boot code and loads the idle thread's context.
\* Interrupts are as that context says: Context::new says enabled.
switch_context ==
    /\ ~in_trap
    /\ cpu = Boot
    /\ boot = "entering"
    /\ context' = [context EXCEPT ![Boot] = cpu]
    /\ cpu' = context[idle]
    /\ irq' = TRUE
    /\ boot' = "left"
    /\ UNCHANGED <<vars, in_trap, trapped, waited>>

\* Charging no longer tells the threads apart; waits are counted until then.
Saturated ==
    \E i \in Occupied :
        ~threads[i].idle /\ threads[i].virtual_runtime = MAX_RUNTIME

\* A timer interrupt: the hardware masks interrupts, handle_timer_irq ticks.
timer_interrupt(elapsed) ==
    /\ irq
    /\ ~in_trap
    /\ tick(elapsed)
    /\ irq' = FALSE
    /\ in_trap' = TRUE
    /\ waited' = [i \in Slots |->
           IF i \in Candidates /\ ~Saturated THEN waited[i] + 1 ELSE waited[i]]
    /\ UNCHANGED <<cpu, boot, context, trapped>>

\* preempt_from_trap finds nothing to switch to; eret or sret unmasks interrupts.
trap_return ==
    /\ in_trap
    /\ preempt_not_needed
    /\ irq' = TRUE
    /\ in_trap' = FALSE
    /\ UNCHANGED <<cpu, boot, context, trapped, waited>>

\* Mutant: the outgoing state goes to the incoming thread's context.
saved_in_next == [context EXCEPT ![current'] = cpu]

\* The outgoing state goes to the previous thread's context.
saved == [context EXCEPT ![current] = cpu]

\* Mutant: the scheduler switches threads, the trap does not switch contexts.
switch_context_forgotten ==
    /\ in_trap
    /\ preempt_contexts
    /\ current' # current
    /\ irq' = TRUE
    /\ in_trap' = FALSE
    /\ waited' = [waited EXCEPT ![slot(current')] = 0]
    /\ UNCHANGED <<cpu, boot, context, trapped>>

\* switch_context_from_trap leaves interrupts alone.  An execution that was
\* suspended in a trap goes on to its eret or sret, which unmasks them.  One that
\* never ran goes to its trampoline with interrupts masked.  The thread that made
\* a tick ask for a switch is still ready, so schedule finds another thread.
switch_context_from_trap ==
    /\ in_trap
    /\ preempt_contexts
    /\ current' # current
    /\ context' = saved
    /\ cpu' = context[current']
    /\ irq' = (cpu' \in trapped)
    /\ trapped' = (trapped \cup {cpu}) \ {cpu'}
    /\ in_trap' = FALSE
    /\ waited' = [waited EXCEPT ![slot(current')] = 0]
    /\ UNCHANGED boot

\* cpu::enable_interrupts, called by a thread's entry code.
enable_interrupts ==
    /\ ThreadsUnmask
    /\ ~in_trap
    /\ cpu # Boot
    /\ ~irq
    /\ irq' = TRUE
    /\ UNCHANGED <<vars, cpu, in_trap, boot, context, trapped, waited>>

PNext ==
    \/ start
    \/ \E weight \in Weights : run_spawn(weight)
    \/ run_spawn_table_full
    \/ enter_idle \/ switch_context
    \/ \E elapsed \in Elapsed : timer_interrupt(elapsed)
    \/ trap_return \/ switch_context_from_trap
    \/ enable_interrupts

PSpec == PInit /\ [][PNext]_allVars

-----------------------------------------------------------------------------
\* The code on the CPU is the current thread's, except that the boot code runs
\* in the idle thread's place until enter_idle's switch, which always loads the
\* context the idle thread was created with: a spawn, tick or switch is charged to
\* the thread that makes it.
CpuRunsCurrent ==
    initialized => cpu = current \/ (cpu = Boot /\ current = idle /\ boot # "left")

\* No execution is lost or duplicated by the switches: each spawned thread is on
\* the CPU or in its own context, and the boot code, which is saved in the idle
\* thread's context when a trap preempts it, is on the CPU or in one context.
ExecutionsPreserved ==
    initialized =>
        /\ \A i \in Occupied : ~threads[i].idle /\ cpu # threads[i].id =>
               context[threads[i].id] = threads[i].id
        /\ cpu # Boot => context[IF boot = "left" THEN Boot ELSE idle] = Boot

\* What one tick can charge to a spawned thread.
Charges == {(SCHED_TIME_SLICE_NS * e * SCHED_BASE_WEIGHT) \div w :
               e \in Elapsed \ {0}, w \in Weights}
MaxCharge == CHOOSE c \in Charges : \A d \in Charges : d <= c
MinCharge == CHOOSE c \in Charges : \A d \in Charges : c <= d

\* Fair shares: the virtual runtimes of two spawned threads never differ by more
\* than one charge, whatever their weights and whenever they were spawned.
BoundedLag ==
    \A i, j \in Occupied :
        ~threads[i].idle /\ ~threads[j].idle =>
            threads[i].virtual_runtime <= threads[j].virtual_runtime + MaxCharge

\* No starvation: a spawned thread that is ready runs after a number of ticks
\* that only depends on how many threads there are and on their weights, however
\* many are spawned meanwhile, as long as no virtual runtime has saturated.
BoundedWait ==
    ~Saturated =>
        \A i \in Occupied : ~threads[i].idle =>
            waited[i] <= (THREADS - 2) * (MaxCharge \div MinCharge + 1) + 1

\* "The final `eret` or `sret` restores the interrupted context's IRQ state": a
\* trap is only taken with interrupts unmasked, so they are unmasked after it.
TrapRestoresIrq == ~in_trap /\ boot # "start" => irq
=============================================================================
