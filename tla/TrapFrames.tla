----------------------------- MODULE TrapFrames -----------------------------
(***************************************************************************)
(* The registers of the executions that share the CPU: the trap entries of *)
(* arch/*/trap.rs, the context switches of arch/*/context.rs and the       *)
(* frames and contexts they save registers in.                             *)
(*                                                                         *)
(* A trap frame holds some registers, the Rust handlers preserve others as *)
(* their calling convention says, and a context holds what a handler that  *)
(* switches stacks has to find again. A register that all three miss, or   *)
(* that is read back from the wrong place, is lost only when another       *)
(* execution has used it in between.                                       *)
(*                                                                         *)
(* A register's value is who put it there and what it is. Registers that   *)
(* the code always treats alike are one register here. gp and tp of        *)
(* RISC-V are the same for all executions.                                 *)
(***************************************************************************)
EXTENDS Naturals, Sequences

CONSTANTS
    Arches,     \* the architectures
    Threads     \* the threads that are spawned

ASSUME TrapFramesAssumption ==
    /\ Arches \subseteq {"aarch64", "riscv64"}
    /\ Threads \cap {"boot", "idle"} = {}

\* The boot code, the idle thread and the spawned threads.
Executions == {"boot", "idle"} \cup Threads

VARIABLES
    arch,
    vectored_entry, \* the hart has the vectored mode that trap::init asks for
    cpu,            \* the CPU's registers
    exception,      \* ELR_EL1 and SPSR_EL1, or sepc and sstatus.SPIE
    on,             \* the execution the scheduler has put on the CPU
    in_trap,        \* a trap handler runs for it
    stack,          \* [execution -> the frames on its stack]
    context,        \* [execution -> its Context]
    interrupted     \* history: [execution -> its registers at its last trap]

machine == <<arch, vectored_entry>>
tvars == <<machine, cpu, exception, on, in_trap, stack, context, interrupted>>

-----------------------------------------------------------------------------
(* Registers *)

general ==
    IF arch = "aarch64" THEN {"x0", "x1-x17", "x18", "x19", "x20", "x21-x28", "x29", "x30"}
    ELSE {"ra", "t0-t6", "a0", "a1-a7", "s0", "s1", "s2", "s3-s11"}

link == IF arch = "aarch64" THEN "x30" ELSE "ra"
argument == IF arch = "aarch64" THEN "x0" ELSE "a0"

\* What a function preserves under AAPCS64 and under the RISC-V psABI.
callee_saved ==
    IF arch = "aarch64" THEN {"x19", "x20", "x21-x28", "x29"}
    ELSE {"s0", "s1", "s2", "s3-s11"}

\* The fields of Context; irq_enabled is 1 in every context that is made.
context_registers == callee_saved \cup {link, "sp"}

\* The registers in an IrqFrame, besides the exception registers.
irq_frame_registers ==
    IF arch = "aarch64" THEN {"x0", "x1-x17", "x18", "x30"} ELSE {"ra", "t0-t6", "a0", "a1-a7"}

\* The registers that a full TrapFrame is restored from.
trap_frame_registers == general

\* The frame of a timer interrupt: slot 5 of the RISC-V vector table leads to the
\* fast entry, and a hart without that mode uses the full one for everything.
frame_registers ==
    IF arch = "aarch64" \/ vectored_entry THEN irq_frame_registers ELSE trap_frame_registers

Value(who, what) == <<who, what>>

\* Where `ret` leads when the link register says so.
TRAMPOLINE == Value("kernel", "trampoline")
HANDLER == Value("kernel", "handler")
JUNK == Value("handler", "junk")
ZERO == Value("kernel", "zero")

Status(who, irq) == [flags |-> who, irq |-> irq]

\* The registers of an execution that has been running.
Own(e) ==
    [r \in general \cup {"sp", "pc", "status"} |->
        CASE r = "sp" -> [of |-> e, depth |-> 0]
          [] r = "status" -> Status(e, TRUE)
          [] OTHER -> Value(e, r)]

TInit ==
    /\ arch \in Arches
    /\ vectored_entry \in IF arch = "aarch64" THEN {TRUE} ELSE BOOLEAN
    /\ on = "boot"
    /\ cpu = Own("boot")
    /\ exception = [pc |-> JUNK, status |-> Status("firmware", FALSE)]
    /\ in_trap = FALSE
    /\ stack = [e \in Executions |-> <<>>]
    /\ context = [e \in Executions |-> <<>>]
    /\ interrupted = [e \in Executions |-> <<>>]

-----------------------------------------------------------------------------
(* Threads *)

\* The registers set_entry_data passes the entry point and its argument in.
entry_register == IF arch = "aarch64" THEN "x19" ELSE "s1"
data_register == IF arch = "aarch64" THEN "x20" ELSE "s2"

\* create_thread_with_stack: Context::new with set_entry_data.
new_context(e) ==
    [r \in context_registers |->
        CASE r = link -> TRAMPOLINE
          [] r = "sp" -> [of |-> e, depth |-> 0]
          [] r = entry_register -> Value(e, "entry")
          [] r = data_register -> Value(e, "argument")
          [] OTHER -> ZERO]

\* The execution on the CPU gives a thread its context: kernel_main the idle
\* thread, and any other than the idle thread a spawned one.
create_thread(e) ==
    /\ ~in_trap
    /\ cpu.pc # TRAMPOLINE
    /\ context[e] = <<>>
    /\ IF e = "idle" THEN on = "boot" ELSE e \in Threads /\ on # "idle" /\ context["idle"] # <<>>
    /\ context' = [context EXCEPT ![e] = new_context(e)]
    /\ UNCHANGED <<machine, cpu, exception, on, in_trap, stack, interrupted>>

\* bullfinch_thread_trampoline.
trampoline ==
    /\ ~in_trap
    /\ cpu.pc = TRAMPOLINE
    /\ cpu' = [cpu EXCEPT ![argument] = cpu[data_register], !.pc = cpu[entry_register]]
    /\ UNCHANGED <<machine, exception, on, in_trap, stack, context, interrupted>>

\* A thread that has started uses all its registers, and its code unmasks
\* interrupts if they are masked.
thread_runs ==
    /\ ~in_trap
    /\ cpu.pc = Value(on, "entry")
    /\ cpu' = Own(on)
    /\ UNCHANGED <<machine, exception, on, in_trap, stack, context, interrupted>>

-----------------------------------------------------------------------------
(* Traps *)

\* The frame that the entry code stores, with the exception registers of the trap.
saved_frame(trapped) ==
    [r \in frame_registers \cup {"pc", "status"} |->
        IF r \in {"pc", "status"} THEN trapped[r] ELSE cpu[r]]

\* A timer interrupt, which kernel_main enables after it has made the idle thread.
\* The CPU sets the exception registers and masks interrupts, the entry code pushes
\* the frame and calls the handler, and the handler leaves what it need not
\* preserve with values of its own.
irq_entry ==
    /\ ~in_trap
    /\ context["idle"] # <<>>
    /\ cpu.status.irq
    /\ exception' = [pc |-> cpu.pc, status |-> cpu.status]
    /\ stack' = [stack EXCEPT ![cpu.sp.of] = SubSeq(@, 1, cpu.sp.depth)
                                                \o <<saved_frame(exception')>>]
    /\ cpu' = [r \in DOMAIN cpu |->
                 CASE r \in callee_saved -> cpu[r]
                   [] r = "sp" -> [cpu.sp EXCEPT !.depth = @ + 1]
                   [] r \in {link, "pc"} -> HANDLER
                   [] r = "status" -> Status("handler", FALSE)
                   [] OTHER -> JUNK]
    /\ in_trap' = TRUE
    /\ interrupted' = [interrupted EXCEPT ![on] = cpu]
    /\ UNCHANGED <<machine, on, context>>

\* Whose Context holds what is saved for an execution: the boot code runs in the
\* idle thread's place.
ContextOf(e) == IF e = "boot" THEN "idle" ELSE e

\* What bullfinch_switch_context and its variant for traps store for the old
\* execution, and the registers that loading another context leaves.
saved_context == [r \in context_registers |-> cpu[r]]

loaded(new, status) ==
    [r \in DOMAIN cpu |->
        CASE r \in context_registers -> new[r]
          [] r = "pc" -> new[link]
          [] r = "status" -> status
          [] OTHER -> JUNK]

\* preempt_from_trap. The scheduler picks a spawned thread, which Preemption
\* establishes; switch_context_from_trap leaves interrupts masked.
switch_context_from_trap(next) ==
    /\ in_trap
    /\ next \in Threads \ {on}
    /\ context[next] # <<>>
    /\ context' = [context EXCEPT ![ContextOf(on)] = saved_context]
    /\ cpu' = loaded(context[next], cpu.status)
    /\ on' = next
    /\ in_trap' = (context[next][link] = HANDLER)
    /\ UNCHANGED <<machine, exception, stack, interrupted>>

\* enter_idle: kernel_main's code leaves for the idle thread, with interrupts as
\* irq_enabled of Context::new says. They may come before the trampoline has run.
switch_context ==
    /\ ~in_trap
    /\ on = "boot"
    /\ context["idle"] # <<>>
    /\ context' = [context EXCEPT !["boot"] = saved_context]
    /\ cpu' = loaded(context["idle"], Status("boot", TRUE))
    /\ on' = "idle"
    /\ UNCHANGED <<machine, exception, in_trap, stack, interrupted>>

\* Mutant: the exception registers are not reloaded.
exception_return_stale(frame) == exception

\* The exception registers that eret or sret uses.
exception_return(frame) == [pc |-> frame.pc, status |-> frame.status]

\* The handler returns to the entry code, which restores the frame that its stack
\* pointer leads to and returns from the trap.
trap_exit ==
    /\ in_trap
    /\ LET frame == stack[cpu.sp.of][cpu.sp.depth]
       IN  /\ exception' = exception_return(frame)
           /\ cpu' = [r \in DOMAIN cpu |->
                        CASE r \in frame_registers -> frame[r]
                          [] r = "sp" -> [cpu.sp EXCEPT !.depth = @ - 1]
                          [] r \in {"pc", "status"} -> exception'[r]
                          [] OTHER -> cpu[r]]
    /\ in_trap' = FALSE
    /\ stack' = [stack EXCEPT ![cpu.sp.of] = SubSeq(@, 1, cpu.sp.depth - 1)]
    /\ UNCHANGED <<machine, on, context, interrupted>>

TNext ==
    \/ \E e \in Executions : create_thread(e)
    \/ trampoline \/ thread_runs
    \/ irq_entry \/ trap_exit
    \/ switch_context \/ \E next \in Executions : switch_context_from_trap(next)

TSpec == TInit /\ [][TNext]_tvars

-----------------------------------------------------------------------------
\* Every trap returns to the instruction it interrupted with every register as it
\* was, however many other executions the entry code and the context switches put
\* on the CPU meanwhile, also when it interrupted a thread that had not left its
\* trampoline. A new thread starts at its entry point with its argument, on its
\* own empty stack.
RegistersPreserved ==
    [][ /\ in_trap /\ ~in_trap' /\ on' = on => cpu' = interrupted[on]
        /\ ~in_trap /\ cpu.pc = TRAMPOLINE /\ cpu'.pc # TRAMPOLINE /\ ~in_trap' =>
             /\ cpu'.pc = Value(on, "entry")
             /\ cpu'[argument] = Value(on, "argument")
             /\ cpu'.sp = [of |-> on, depth |-> 0] ]_tvars
=============================================================================
