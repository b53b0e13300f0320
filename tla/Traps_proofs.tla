----------------------------- MODULE Traps_proofs ----------------------------
(***************************************************************************)
(* The theorems on the two models of a trap.                               *)
(*                                                                         *)
(* TrapFrames: RegistersPreserved, for any set of threads, on both         *)
(* architectures and with either entry. Interrupts are masked in a trap,   *)
(* so that a stack has one frame at most. The frame and the registers that *)
(* a handler preserves are all registers; the latter are in the CPU while  *)
(* the handler runs, and in the context of an execution that was switched  *)
(* away from inside it.                                                    *)
(*                                                                         *)
(* Interrupts: the safety invariants of Clock and Interrupts, for any      *)
(* timer frequency, tick rate, counter width and starting time, and every  *)
(* controller.                                                             *)
(***************************************************************************)
EXTENDS TrapFrames, Interrupts, SequenceTheorems, TLAPS

Registers == general \cup {"sp", "pc", "status"}

-----------------------------------------------------------------------------
(* The inductive invariant of TrapFrames *)

\* The registers of an execution outside a trap. One that is about to run the
\* trampoline has what set_entry_data gave it.
Outside(e, regs) ==
    /\ regs = [r \in Registers |-> regs[r]]
    /\ regs["sp"] = [of |-> e, depth |-> 0]
    /\ regs["pc"] = TRAMPOLINE =>
         /\ regs[entry_register] = Value(e, "entry")
         /\ regs[data_register] = Value(e, "argument")

\* The frame of the trap that interrupted an execution.
FrameOf(e) == [r \in frame_registers \cup {"pc", "status"} |-> interrupted[e][r]]

\* What is left of an execution in its trap: its frame, and, in the CPU or in a
\* context, the registers that the handler preserves.
Inside(e, regs) ==
    /\ Outside(e, interrupted[e])
    /\ stack[e] = <<FrameOf(e)>>
    /\ regs["sp"] = [of |-> e, depth |-> 1]
    /\ regs[link] = HANDLER
    /\ \A r \in callee_saved : regs[r] = interrupted[e][r]

\* A thread that is not on the CPU: not created, not yet entered, or in a trap.
Waiting(e) ==
    \/ stack[e] = <<>> /\ (context[e] = <<>> \/ context[e] = new_context(e))
    \/ context[e] # <<>> /\ Inside(e, context[e])

TInv ==
    /\ on \in Executions
    /\ context = [e \in Executions |-> context[e]]
    /\ stack = [e \in Executions |-> stack[e]]
    /\ interrupted = [e \in Executions |-> interrupted[e]]
    /\ cpu = [r \in Registers |-> cpu[r]]
    /\ in_trap \in BOOLEAN
    /\ in_trap => Inside(on, cpu)
    /\ ~in_trap => Outside(on, cpu) /\ stack[on] = <<>>
    /\ \A e \in Threads \ {on} : Waiting(e)
    /\ on = "boot" => /\ stack["idle"] = <<>>
                      /\ context["idle"] = <<>> \/ context["idle"] = new_context("idle")

-----------------------------------------------------------------------------
(* The registers *)

\* Frame and calling convention together keep every register.
LEMMA Covered ==
    /\ frame_registers \cup callee_saved = general
    /\ link \in general /\ link \notin callee_saved
    /\ argument \in general
    /\ entry_register \in callee_saved /\ data_register \in callee_saved
    /\ entry_register # data_register
    /\ {"sp", "pc", "status"} \cap general = {}
    /\ context_registers = callee_saved \cup {link, "sp"}
  BY DEF frame_registers, callee_saved, general, irq_frame_registers, trap_frame_registers,
         link, argument, entry_register, data_register, context_registers

\* The machine never changes, and neither do the sets of registers.
LEMMA SameMachine ==
    ASSUME UNCHANGED machine
    PROVE  /\ frame_registers' = frame_registers /\ callee_saved' = callee_saved
           /\ general' = general /\ Registers' = Registers
           /\ link' = link /\ argument' = argument
           /\ entry_register' = entry_register /\ data_register' = data_register
           /\ context_registers' = context_registers
           /\ \A e : new_context(e)' = new_context(e)
  BY DEF machine, frame_registers, callee_saved, general, irq_frame_registers,
         trap_frame_registers, link, argument, entry_register, data_register,
         context_registers, Registers, new_context

LEMMA Labels ==
    /\ TRAMPOLINE # HANDLER
    /\ \A e : Value(e, "entry") # TRAMPOLINE
    /\ \A e : Value(e, "pc") # TRAMPOLINE
  BY DEF TRAMPOLINE, HANDLER, Value

\* A thread's first context leads to its trampoline.
LEMMA NewContext ==
    ASSUME NEW e
    PROVE  /\ new_context(e)[link] = TRAMPOLINE
           /\ new_context(e)["sp"] = [of |-> e, depth |-> 0]
           /\ new_context(e)[entry_register] = Value(e, "entry")
           /\ new_context(e)[data_register] = Value(e, "argument")
  <1>1. "sp" # link /\ entry_register \notin {link, "sp"} /\ data_register \notin {link, "sp"}
    BY Covered
  <1> QED
    BY <1>1, Covered DEF new_context

-----------------------------------------------------------------------------
(* One lemma for each action *)

\* What RegistersPreserved says of a step.
Kept ==
    /\ in_trap /\ ~in_trap' /\ on' = on => cpu' = interrupted[on]
    /\ ~in_trap /\ cpu.pc = TRAMPOLINE /\ cpu'.pc # TRAMPOLINE /\ ~in_trap' =>
         /\ cpu'.pc = Value(on, "entry")
         /\ cpu'[argument] = Value(on, "argument")
         /\ cpu'.sp = [of |-> on, depth |-> 0]

LEMMA Initially == TInit => TInv
  <1> SUFFICES ASSUME TInit PROVE TInv
    OBVIOUS
  <1>1. "boot" \in Executions /\ "idle" \in Executions /\ Threads \subseteq Executions
    BY DEF Executions
  <1>2. /\ cpu = [r \in Registers |-> cpu[r]]
        /\ cpu["sp"] = [of |-> "boot", depth |-> 0]
        /\ cpu["pc"] = Value("boot", "pc")
    BY DEF TInit, Own, Registers
  <1>3. Outside("boot", cpu)
    BY <1>2, Labels DEF Outside
  <1>4. \A e \in Executions : stack[e] = <<>> /\ context[e] = <<>>
    BY DEF TInit
  <1>5. \A e \in Threads : Waiting(e)
    BY <1>1, <1>4 DEF Waiting
  <1>6. /\ context = [e \in Executions |-> context[e]]
        /\ stack = [e \in Executions |-> stack[e]]
        /\ interrupted = [e \in Executions |-> interrupted[e]]
    BY DEF TInit
  <1>7. on = "boot" /\ in_trap = FALSE
    BY DEF TInit
  <1> QED
    BY <1>1, <1>2, <1>3, <1>4, <1>5, <1>6, <1>7 DEF TInv

LEMMA FrameSame ==
    ASSUME NEW e, UNCHANGED machine, interrupted'[e] = interrupted[e], Outside(e, interrupted[e])
    PROVE  FrameOf(e)' = FrameOf(e) /\ Outside(e, interrupted[e])'
  BY SameMachine DEF FrameOf, Outside

\* A step that changes neither stacks, frames nor contexts of those that wait.
LEMMA WaitingSame ==
    ASSUME NEW e, Waiting(e), UNCHANGED machine,
           stack'[e] = stack[e], context'[e] = context[e], interrupted'[e] = interrupted[e]
    PROVE  Waiting(e)'
  <1>1. new_context(e)' = new_context(e)
    BY SameMachine
  <1>2. CASE stack[e] = <<>> /\ (context[e] = <<>> \/ context[e] = new_context(e))
    BY <1>1, <1>2 DEF Waiting
  <1>3. CASE context[e] # <<>> /\ Inside(e, context[e])
    <2>1. FrameOf(e)' = FrameOf(e) /\ Outside(e, interrupted[e])'
      BY <1>3, FrameSame DEF Inside
    <2>2. Inside(e, context[e])'
      BY <1>3, <2>1, SameMachine DEF Inside
    <2> QED
      BY <1>3, <2>2 DEF Waiting
  <1> QED
    BY <1>2, <1>3 DEF Waiting

\* Outside a trap, a step that only changes the CPU's registers.
LEMMA CpuStep ==
    ASSUME TInv, ~in_trap, UNCHANGED <<machine, on, in_trap, stack, context, interrupted>>,
           Outside(on, cpu')
    PROVE  TInv'
  <1>1. \A e \in Threads \ {on'} : Waiting(e)'
    BY WaitingSame DEF TInv
  <1>2. Outside(on, cpu)'
    BY SameMachine DEF Outside
  <1>3. cpu' = [r \in Registers' |-> cpu'[r]]
    BY SameMachine DEF Outside
  <1>4. new_context("idle")' = new_context("idle")
    BY SameMachine
  <1> QED
    BY <1>1, <1>2, <1>3, <1>4 DEF TInv

LEMMA TrampolineStep == TInv /\ trampoline => TInv' /\ Kept
  <1> SUFFICES ASSUME TInv, trampoline PROVE TInv' /\ Kept
    OBVIOUS
  <1>1. Outside(on, cpu) /\ cpu["pc"] = TRAMPOLINE /\ ~in_trap /\ ~in_trap'
    BY DEF TInv, trampoline
  <1>2. /\ cpu = [r \in Registers |-> cpu[r]]
        /\ cpu["sp"] = [of |-> on, depth |-> 0]
        /\ cpu[entry_register] = Value(on, "entry")
        /\ cpu[data_register] = Value(on, "argument")
    BY <1>1 DEF Outside
  <1>3. /\ argument \in Registers /\ "pc" \in Registers /\ "sp" \in Registers
        /\ argument # "pc" /\ argument # "sp"
    BY Covered DEF Registers
  <1>4. /\ cpu' = [r \in Registers |-> cpu'[r]]
        /\ cpu'["pc"] = Value(on, "entry")
        /\ cpu'[argument] = Value(on, "argument")
        /\ cpu'["sp"] = [of |-> on, depth |-> 0]
    BY <1>2, <1>3 DEF trampoline
  <1>5. Outside(on, cpu')
    BY <1>4, Labels DEF Outside
  <1>6. TInv'
    BY <1>1, <1>5, CpuStep DEF trampoline
  <1> QED
    BY <1>1, <1>4, <1>6 DEF Kept

LEMMA ThreadRunsStep == TInv /\ thread_runs => TInv' /\ Kept
  <1> SUFFICES ASSUME TInv, thread_runs PROVE TInv' /\ Kept
    OBVIOUS
  <1>1. ~in_trap /\ cpu["pc"] # TRAMPOLINE /\ cpu' = Own(on)
    BY Labels DEF thread_runs
  <1>2. /\ cpu' = [r \in Registers |-> cpu'[r]]
        /\ cpu'["pc"] = Value(on, "pc")
        /\ cpu'["sp"] = [of |-> on, depth |-> 0]
    BY <1>1 DEF Own, Registers
  <1>3. Outside(on, cpu')
    BY <1>2, Labels DEF Outside
  <1>4. TInv'
    BY <1>1, <1>3, CpuStep DEF thread_runs
  <1> QED
    BY <1>1, <1>4 DEF Kept

LEMMA CreateStep == \A e \in Executions : TInv /\ create_thread(e) => TInv' /\ Kept
  <1> SUFFICES ASSUME NEW e \in Executions, TInv, create_thread(e) PROVE TInv' /\ Kept
    OBVIOUS
  <1>1. /\ ~in_trap /\ context[e] = <<>> /\ e \in Threads \cup {"idle"}
        /\ UNCHANGED <<machine, cpu, on, in_trap, stack, interrupted>>
        /\ cpu["pc"] # TRAMPOLINE
    BY DEF create_thread
  <1>2. /\ context' = [x \in Executions |-> context'[x]]
        /\ context'[e] = new_context(e)
        /\ \A x \in Executions : x # e => context'[x] = context[x]
    BY DEF create_thread, TInv
  <1>3. Threads \subseteq Executions /\ "idle" \in Executions
    BY DEF Executions
  <1>4. ASSUME NEW x \in Threads \ {on} PROVE Waiting(x)'
    <2>1. Waiting(x)
      BY DEF TInv
    <2>2. CASE x # e
      BY <1>1, <1>2, <1>3, <2>1, <2>2, WaitingSame
    <2>3. CASE x = e
      <3>1. new_context(e)' = new_context(e)
        BY <1>1, SameMachine
      <3> QED
        BY <1>1, <1>2, <2>1, <2>3, <3>1 DEF Waiting
    <2> QED
      BY <2>2, <2>3
  <1>5. Outside(on, cpu)'
    BY <1>1, SameMachine DEF TInv, Outside
  <1>6. on = "boot" => \/ context'["idle"] = <<>>
                       \/ context'["idle"] = new_context("idle")'
    <2>1. new_context("idle")' = new_context("idle")
      BY <1>1, SameMachine
    <2> QED
      BY <1>2, <1>3, <2>1 DEF TInv
  <1>7. Registers' = Registers
    BY <1>1, SameMachine
  <1>8. TInv'
    BY <1>1, <1>2, <1>4, <1>5, <1>6, <1>7 DEF TInv
  <1> QED
    BY <1>1, <1>8 DEF Kept

LEMMA FirstFrame ==
    ASSUME NEW frame
    PROVE  SubSeq(<<>>, 1, 0) \o <<frame>> = <<frame>>
  <1>1. <<>> \in Seq({frame}) /\ <<frame>> \in Seq({frame})
    OBVIOUS
  <1>2. SubSeq(<<>>, 1, 0) = <<>>
    BY <1>1, SubSeqEmpty
  <1> QED
    BY <1>1, <1>2, ConcatEmptySeq

LEMMA LastFrame ==
    ASSUME NEW frame
    PROVE  SubSeq(<<frame>>, 1, 0) = <<>>
  BY SubSeqEmpty

\* A trap's entry makes the only frame on its stack.
LEMMA EntryStep == TInv /\ irq_entry => TInv' /\ Kept
  <1> SUFFICES ASSUME TInv, irq_entry PROVE TInv' /\ Kept
    OBVIOUS
  <1>1. /\ ~in_trap /\ in_trap' = TRUE /\ on' = on /\ on \in Executions
        /\ UNCHANGED <<machine, context>>
    BY DEF TInv, irq_entry
  <1>2. Outside(on, cpu) /\ stack[on] = <<>> /\ cpu = [r \in Registers |-> cpu[r]]
    BY <1>1 DEF TInv
  <1>3. cpu.sp = [of |-> on, depth |-> 0]
    BY <1>2 DEF Outside
  <1>4. /\ interrupted' = [e \in Executions |-> interrupted'[e]]
        /\ interrupted'[on] = cpu
        /\ \A e \in Executions : e # on => interrupted'[e] = interrupted[e]
    BY <1>1 DEF TInv, irq_entry
  <1>5. saved_frame(exception') = FrameOf(on)'
    <2>1. exception'["pc"] = cpu["pc"] /\ exception'["status"] = cpu["status"]
      BY DEF irq_entry
    <2>2. \A r \in frame_registers \cup {"pc", "status"} :
              (IF r \in {"pc", "status"} THEN exception'[r] ELSE cpu[r]) = interrupted'[on'][r]
      BY <1>1, <1>4, <2>1
    <2>3. frame_registers' = frame_registers
      BY <1>1, SameMachine
    <2> QED
      BY <1>1, <2>2, <2>3 DEF saved_frame, FrameOf
  <1>6. /\ stack' = [e \in Executions |-> stack'[e]]
        /\ stack'[on] = <<FrameOf(on)'>>
        /\ \A e \in Executions : e # on => stack'[e] = stack[e]
    <2>0. cpu.sp.of = on /\ cpu.sp.depth = 0
      BY <1>3
    <2>1. stack' = [stack EXCEPT ![on] = SubSeq(@, 1, 0) \o <<FrameOf(on)'>>]
      BY <1>5, <2>0, Zenon DEF irq_entry
    <2>2. SubSeq(stack[on], 1, 0) \o <<FrameOf(on)'>> = <<FrameOf(on)'>>
      BY <1>2, FirstFrame
    <2> QED
      BY <1>1, <2>1, <2>2 DEF TInv
  <1>7. /\ cpu' = [r \in Registers |-> cpu'[r]]
        /\ \A r \in callee_saved : cpu'[r] = cpu[r]
        /\ cpu'["sp"] = [of |-> on, depth |-> 1]
        /\ cpu'[link] = HANDLER
    <2>1. DOMAIN cpu = Registers
      BY <1>2
    <2>2. callee_saved \subseteq Registers /\ link \in Registers /\ "sp" \in Registers
      BY Covered DEF Registers
    <2>3. /\ {"sp", "pc", "status", link} \cap callee_saved = {}
          /\ link \notin {"sp", "pc", "status"}
      BY Covered
    <2>4. [cpu.sp EXCEPT !.depth = @ + 1] = [of |-> on, depth |-> 1]
      BY <1>3
    <2> DEFINE entered(r) == CASE r \in callee_saved -> cpu[r]
                               [] r = "sp" -> [cpu.sp EXCEPT !.depth = @ + 1]
                               [] r \in {link, "pc"} -> HANDLER
                               [] r = "status" -> Status("handler", FALSE)
                               [] OTHER -> JUNK
    <2>5. cpu' = [r \in Registers |-> entered(r)]
      BY <2>1, Zenon DEF irq_entry
    <2>6. \A r \in callee_saved : entered(r) = cpu[r]
      BY <2>3
    <2>7. entered("sp") = [of |-> on, depth |-> 1] /\ entered(link) = HANDLER
      BY <2>3, <2>4
    <2> HIDE DEF entered
    <2> QED
      BY <2>2, <2>5, <2>6, <2>7
  <1>8. Inside(on, cpu)'
    <2>1. Outside(on, interrupted[on])'
      BY <1>1, <1>2, <1>4, SameMachine DEF Outside
    <2> QED
      BY <1>1, <1>4, <1>6, <1>7, <2>1, SameMachine DEF Inside
  <1>9. ASSUME NEW e \in Threads \ {on} PROVE Waiting(e)'
    <2>1. Waiting(e) /\ e \in Executions
      BY DEF TInv, Executions
    <2> QED
      BY <1>1, <1>4, <1>6, <2>1, WaitingSame
  <1>10. on = "boot" => /\ stack'["idle"] = <<>>
                        /\ \/ context'["idle"] = <<>>
                           \/ context'["idle"] = new_context("idle")'
    <2>1. new_context("idle")' = new_context("idle") /\ "idle" \in Executions
      BY <1>1, SameMachine DEF Executions
    <2> QED
      BY <1>1, <1>6, <2>1 DEF TInv
  <1>11. Registers' = Registers
    BY <1>1, SameMachine
  <1>12. TInv'
    BY <1>1, <1>4, <1>6, <1>7, <1>8, <1>9, <1>10, <1>11 DEF TInv
  <1> QED
    BY <1>1, <1>12 DEF Kept

\* A trap's exit brings back all registers: from the frame, or from the CPU.
LEMMA ExitStep == TInv /\ trap_exit => TInv' /\ Kept
  <1> SUFFICES ASSUME TInv, trap_exit PROVE TInv' /\ Kept
    OBVIOUS
  <1>1. /\ in_trap /\ in_trap' = FALSE /\ on' = on /\ on \in Executions
        /\ UNCHANGED <<machine, on, context, interrupted>>
    BY DEF TInv, trap_exit
  <1>2. Inside(on, cpu) /\ cpu = [r \in Registers |-> cpu[r]]
    BY <1>1 DEF TInv
  <1>3. /\ cpu.sp = [of |-> on, depth |-> 1]
        /\ stack[on] = <<FrameOf(on)>>
        /\ Outside(on, interrupted[on])
        /\ \A r \in callee_saved : cpu[r] = interrupted[on][r]
    BY <1>2 DEF Inside
  <1> DEFINE frame == stack[cpu.sp.of][cpu.sp.depth]
  <1>4. frame = FrameOf(on)
    BY <1>3
  <1>5. \A r \in frame_registers \cup {"pc", "status"} : FrameOf(on)[r] = interrupted[on][r]
    BY DEF FrameOf
  <1>6. exception'["pc"] = interrupted[on]["pc"] /\ exception'["status"] = interrupted[on]["status"]
    BY <1>4, <1>5 DEF trap_exit, exception_return
  <1>7. [cpu.sp EXCEPT !.depth = @ - 1] = interrupted[on]["sp"]
    BY <1>3 DEF Outside
  <1> DEFINE restored(r) == CASE r \in frame_registers -> frame[r]
                              [] r = "sp" -> [cpu.sp EXCEPT !.depth = @ - 1]
                              [] r \in {"pc", "status"} -> exception'[r]
                              [] OTHER -> cpu[r]
  <1>8. /\ cpu' = [r \in Registers |-> cpu'[r]]
        /\ \A r \in Registers : cpu'[r] = restored(r)
    <2>1. DOMAIN cpu = Registers
      BY <1>2
    <2>2. cpu' = [r \in Registers |-> restored(r)]
      BY <2>1, Zenon DEF trap_exit
    <2> HIDE DEF restored
    <2> QED
      BY <2>2
  <1>9. ASSUME NEW r \in Registers PROVE cpu'[r] = interrupted[on][r]
    <2>1. cpu'[r] = restored(r)
      BY <1>8
    <2>2. frame_registers \cap {"sp", "pc", "status"} = {}
      BY Covered
    <2>3. CASE r \in frame_registers
      BY <1>4, <1>5, <2>1, <2>2, <2>3
    <2>4. CASE r = "sp"
      BY <1>7, <2>1, <2>2, <2>4
    <2>5. CASE r \in {"pc", "status"}
      BY <1>6, <2>1, <2>2, <2>5
    <2>6. CASE r \notin frame_registers \cup {"sp", "pc", "status"}
      <3>1. r \in callee_saved
        BY <2>6, Covered DEF Registers
      <3> QED
        BY <1>3, <2>1, <2>6, <3>1
    <2> QED
      BY <2>3, <2>4, <2>5, <2>6
  <1>10. cpu' = interrupted[on]
    <2>1. interrupted[on] = [r \in Registers |-> interrupted[on][r]]
      BY <1>3 DEF Outside
    <2> QED
      BY <1>8, <1>9, <2>1
  <1>11. /\ stack' = [e \in Executions |-> stack'[e]]
         /\ stack'[on] = <<>>
         /\ \A e \in Executions : e # on => stack'[e] = stack[e]
    <2>0. cpu.sp.of = on /\ cpu.sp.depth - 1 = 0
      BY <1>3
    <2>1. stack' = [stack EXCEPT ![on] = SubSeq(@, 1, 0)]
      BY <2>0, Zenon DEF trap_exit
    <2>2. SubSeq(stack[on], 1, 0) = <<>>
      BY <1>3, LastFrame
    <2> QED
      BY <1>1, <2>1, <2>2 DEF TInv
  <1>12. Outside(on, cpu)'
    BY <1>1, <1>3, <1>10, SameMachine DEF Outside
  <1>13. ASSUME NEW e \in Threads \ {on} PROVE Waiting(e)'
    <2>1. Waiting(e) /\ e \in Executions
      BY DEF TInv, Executions
    <2> QED
      BY <1>1, <1>11, <2>1, WaitingSame
  <1>14. on = "boot" => /\ stack'["idle"] = <<>>
                        /\ \/ context'["idle"] = <<>>
                           \/ context'["idle"] = new_context("idle")'
    <2>1. new_context("idle")' = new_context("idle") /\ "idle" \in Executions
      BY <1>1, SameMachine DEF Executions
    <2> QED
      BY <1>1, <1>11, <2>1 DEF TInv
  <1>15. Registers' = Registers
    BY <1>1, SameMachine
  <1>16. TInv'
    BY <1>1, <1>8, <1>11, <1>12, <1>13, <1>14, <1>15 DEF TInv
  <1> QED
    BY <1>1, <1>10, <1>16 DEF Kept

\* Loading a context loads its registers, and continues at its link register.
LEMMA Loaded ==
    ASSUME NEW new, NEW status, cpu = [r \in Registers |-> cpu[r]]
    PROVE  /\ loaded(new, status) = [r \in Registers |-> loaded(new, status)[r]]
           /\ \A r \in context_registers : loaded(new, status)[r] = new[r]
           /\ loaded(new, status)["pc"] = new[link]
  <1> DEFINE value(r) == CASE r \in context_registers -> new[r]
                           [] r = "pc" -> new[link]
                           [] r = "status" -> status
                           [] OTHER -> JUNK
  <1>1. DOMAIN cpu = Registers
    OBVIOUS
  <1>2. loaded(new, status) = [r \in Registers |-> value(r)]
    BY <1>1, Zenon DEF loaded
  <1>3. /\ context_registers \subseteq Registers /\ "pc" \in Registers
        /\ {"pc", "status"} \cap context_registers = {}
    BY Covered DEF Registers
  <1>4. (\A r \in context_registers : value(r) = new[r]) /\ value("pc") = new[link]
    BY <1>3
  <1> HIDE DEF value
  <1> QED
    BY <1>2, <1>3, <1>4

\* A thread that is entered for the first time is about to run its trampoline.
LEMMA Entered ==
    ASSUME NEW e, NEW status, cpu = [r \in Registers |-> cpu[r]]
    PROVE  /\ Outside(e, loaded(new_context(e), status))
           /\ loaded(new_context(e), status)["pc"] = TRAMPOLINE
  <1> DEFINE c == loaded(new_context(e), status)
  <1>1. /\ c = [r \in Registers |-> c[r]]
        /\ \A r \in context_registers : c[r] = new_context(e)[r]
        /\ c["pc"] = new_context(e)[link]
    BY Loaded
  <1>2. /\ "sp" \in context_registers
        /\ entry_register \in context_registers /\ data_register \in context_registers
    BY Covered
  <1> HIDE DEF c
  <1>3. Outside(e, c) /\ c["pc"] = TRAMPOLINE
    BY <1>1, <1>2, NewContext DEF Outside
  <1> QED
    BY <1>3 DEF c

LEMMA EnterIdleStep == TInv /\ switch_context => TInv' /\ Kept
  <1> SUFFICES ASSUME TInv, switch_context PROVE TInv' /\ Kept
    OBVIOUS
  <1>1. /\ ~in_trap /\ ~in_trap' /\ in_trap' \in BOOLEAN /\ on = "boot" /\ on' = "idle"
        /\ UNCHANGED <<machine, stack, interrupted>>
    BY DEF TInv, switch_context
  <1>2. /\ context["idle"] = new_context("idle") /\ stack["idle"] = <<>>
        /\ cpu = [r \in Registers |-> cpu[r]]
    BY <1>1 DEF TInv, switch_context
  <1>3. cpu' = loaded(new_context("idle"), Status("boot", TRUE))
    BY <1>2 DEF switch_context
  <1>4. Outside("idle", cpu') /\ cpu'["pc"] = TRAMPOLINE
    BY <1>2, <1>3, Entered
  <1>5. /\ context' = [e \in Executions |-> context'[e]]
        /\ \A e \in Executions : e # "boot" => context'[e] = context[e]
    BY DEF switch_context, TInv
  <1>6. ASSUME NEW e \in Threads \ {"idle"} PROVE Waiting(e)'
    <2>1. e # "boot" /\ e \in Executions
      BY TrapFramesAssumption DEF Executions
    <2>2. Waiting(e)
      BY <1>1, <2>1 DEF TInv
    <2> QED
      BY <1>1, <1>5, <2>1, <2>2, WaitingSame
  <1>7. Outside(on, cpu)'
    BY <1>1, <1>4, SameMachine DEF Outside
  <1>8. cpu' = [r \in Registers' |-> cpu'[r]]
    BY <1>1, <1>4, SameMachine DEF Outside
  <1>9. "idle" \in Executions
    BY DEF Executions
  <1>10. TInv'
    BY <1>1, <1>2, <1>5, <1>6, <1>7, <1>8, <1>9 DEF TInv
  <1> QED
    BY <1>1, <1>4, <1>10 DEF Kept

\* A switch inside a trap leaves the old execution in its trap, and continues the
\* new one in its own, or at its trampoline.
LEMMA SwitchStep ==
    \A next \in Executions : TInv /\ switch_context_from_trap(next) => TInv' /\ Kept
  <1> SUFFICES ASSUME NEW next \in Executions, TInv, switch_context_from_trap(next)
               PROVE  TInv' /\ Kept
    OBVIOUS
  <1>1. /\ in_trap /\ next \in Threads /\ next # on /\ on' = next /\ context[next] # <<>>
        /\ in_trap' = (context[next][link] = HANDLER)
        /\ UNCHANGED <<machine, stack, interrupted>>
    BY DEF switch_context_from_trap
  <1>2. /\ Inside(on, cpu) /\ on \in Executions /\ Waiting(next)
        /\ cpu = [r \in Registers |-> cpu[r]]
    BY <1>1 DEF TInv
  <1>3. cpu' = loaded(context[next], cpu.status)
    BY DEF switch_context_from_trap
  <1>4. /\ context' = [e \in Executions |-> context'[e]]
        /\ context'[ContextOf(on)] = saved_context
        /\ \A e \in Executions : e # ContextOf(on) => context'[e] = context[e]
    BY <1>2 DEF switch_context_from_trap, TInv, ContextOf, Executions
  <1>5. Threads \subseteq Executions /\ "boot" \notin Threads /\ "idle" \notin Threads
    BY TrapFramesAssumption DEF Executions
  <1>6. ASSUME NEW e \in Threads \ {next} PROVE Waiting(e)'
    <2>1. CASE e # on
      <3>1. e # ContextOf(on)
        BY <1>5, <2>1 DEF ContextOf
      <3>2. Waiting(e)
        BY <2>1 DEF TInv
      <3> QED
        BY <1>1, <1>4, <1>5, <3>1, <3>2, WaitingSame
    <2>2. CASE e = on
      <3>1. context'[on] = saved_context
        BY <1>4, <1>5, <2>2 DEF ContextOf
      <3>2. /\ "sp" \in context_registers /\ link \in context_registers
            /\ callee_saved \subseteq context_registers
        BY Covered
      <3>3. DOMAIN saved_context = context_registers
            /\ \A r \in context_registers : saved_context[r] = cpu[r]
        BY DEF saved_context
      <3>4. saved_context # <<>>
        <4>1. DOMAIN <<>> = {}
          OBVIOUS
        <4> QED
          BY <3>2, <3>3, <4>1
      <3>5. /\ FrameOf(e)' = FrameOf(e) /\ Outside(e, interrupted[e])'
            /\ stack'[e] = <<FrameOf(e)>>
        BY <1>1, <1>2, <2>2, FrameSame DEF Inside
      <3>6. Inside(e, context[e])'
        BY <1>1, <1>2, <2>2, <3>1, <3>2, <3>3, <3>5, SameMachine DEF Inside
      <3> QED
        BY <2>2, <3>1, <3>4, <3>6 DEF Waiting
    <2> QED
      BY <2>1, <2>2
  <1>7. Registers' = Registers /\ cpu' = [r \in Registers |-> cpu'[r]]
    BY <1>1, <1>2, <1>3, Loaded, SameMachine
  <1>8. CASE stack[next] = <<>> /\ context[next] = new_context(next)
    <2>1. ~in_trap'
      BY <1>1, <1>8, NewContext, Labels
    <2>2. Outside(next, cpu')
      BY <1>2, <1>3, <1>8, Entered
    <2>3. Outside(on, cpu)'
      BY <1>1, <2>2, SameMachine DEF Outside
    <2>4. TInv'
      BY <1>1, <1>4, <1>5, <1>6, <1>7, <1>8, <2>1, <2>3 DEF TInv
    <2> QED
      BY <1>1, <2>4 DEF Kept
  <1>9. CASE Inside(next, context[next])
    <2>1. in_trap' = TRUE
      BY <1>1, <1>9 DEF Inside
    <2>2. /\ FrameOf(next)' = FrameOf(next) /\ Outside(next, interrupted[next])'
          /\ stack'[next] = <<FrameOf(next)>>
      BY <1>1, <1>9, FrameSame DEF Inside
    <2>3. /\ "sp" \in context_registers /\ link \in context_registers
          /\ callee_saved \subseteq context_registers
      BY Covered
    <2>4. \A r \in context_registers : cpu'[r] = context[next][r]
      BY <1>2, <1>3, Loaded
    <2>5. Inside(next, cpu)'
      BY <1>1, <1>9, <2>2, <2>3, <2>4, SameMachine DEF Inside
    <2>6. Inside(on, cpu)'
      BY <1>1, <2>5 DEF Inside, Outside, FrameOf
    <2>7. TInv'
      BY <1>1, <1>4, <1>5, <1>6, <1>7, <2>1, <2>6 DEF TInv
    <2> QED
      BY <1>1, <2>7 DEF Kept
  <1> QED
    BY <1>1, <1>2, <1>8, <1>9 DEF Waiting

-----------------------------------------------------------------------------
LEMMA Steps == TInv /\ [TNext]_tvars => TInv' /\ [Kept]_tvars
  <1> SUFFICES ASSUME TInv, [TNext]_tvars PROVE TInv' /\ [Kept]_tvars
    OBVIOUS
  <1>1. CASE UNCHANGED tvars
    <2>1. /\ UNCHANGED <<machine, cpu, on, in_trap, stack, context, interrupted>>
      BY <1>1 DEF tvars
    <2>2. \A e \in Threads \ {on'} : Waiting(e)'
      BY <2>1, WaitingSame DEF TInv
    <2>3. CASE ~in_trap
      <3>1. Outside(on, cpu')
        BY <2>1, <2>3 DEF TInv
      <3> QED
        BY <1>1, <2>1, <2>3, <3>1, CpuStep
    <2>4. CASE in_trap
      <3>1. Inside(on, cpu)
        BY <2>4 DEF TInv
      <3>2. Inside(on, cpu)'
        BY <2>1, <3>1, SameMachine DEF Inside, Outside, FrameOf
      <3>3. Registers' = Registers /\ new_context("idle")' = new_context("idle")
        BY <2>1, SameMachine
      <3>4. TInv'
        BY <2>1, <2>2, <2>4, <3>2, <3>3 DEF TInv
      <3> QED
        BY <1>1, <3>4
    <2> QED
      BY <1>1, <2>3, <2>4
  <1>2. CASE TNext
    BY <1>2, CreateStep, TrampolineStep, ThreadRunsStep, EntryStep, ExitStep, EnterIdleStep,
       SwitchStep DEF TNext
  <1> QED
    BY <1>1, <1>2

\* Where the registers of every execution are: the inductive invariant.
THEOREM Located == TSpec => []TInv
  BY Initially, Steps, PTL DEF TSpec

\* No register is lost, however many threads trap and switch in between: a trap
\* returns with all registers as it found them, and a thread's trampoline calls its
\* entry point with its argument on its own stack.
THEOREM Preserved == TSpec => RegistersPreserved
  BY Initially, Steps, PTL DEF TSpec, RegistersPreserved, Kept

-----------------------------------------------------------------------------
(* The inductive invariant of Interrupts *)

Types ==
    /\ frequency \in Nat /\ counter \in Nat
    /\ TICKS_PER_INTERVAL \in Nat /\ NEXT_TICK \in Nat /\ TICK_COUNT \in Nat
    /\ first \in Nat /\ seen \in Nat
    /\ boot \in {"init", "enable", "wait", "up", "halted"}

\* Interrupts are masked while a trap is handled and before timer::enable, and the
\* clock's handler runs inside a trap.
Masked ==
    /\ irq \in BOOLEAN
    /\ irq => trap = "none"
    /\ handler # "idle" <=> trap = "timer"
    /\ boot \in {"init", "enable"} => ~irq /\ trap = "none"
    /\ trap = "acknowledge" => IsGic
    /\ ~IsGic => ~lag

\* An interrupt can come, or has come.
Started == boot \in {"enable", "wait", "up"} \/ irq \/ trap # "none"

\* The timer is armed for NEXT_TICK whenever an interrupt can come or has come,
\* but while the handler moves the deadline.
Armed == Started /\ handler \in {"idle", "entered", "done"} => compare = NEXT_TICK

\* A handler that a controller without lag has called is not early.
Due == ~lag /\ handler = "entered" => NEXT_TICK <= counter

Moved ==
    /\ handler \in {"programming", "halted"} =>
         /\ NEXT_TICK > seen
         /\ ~lag => NEXT_TICK - TICKS_PER_INTERVAL <= seen
    /\ NEXT_TICK <= U64_MAX

IInv == Types /\ Masked /\ Armed /\ Due /\ Moved /\ NoDrift /\ NothingLeftActive

-----------------------------------------------------------------------------
(* advance_tick_state *)

\* The multiple of the interval that is added takes the deadline past the time, by
\* at most one interval when the old deadline was due.
LEMMA AdvancePastNow ==
    ASSUME NEW now \in Nat, NEW deadline \in Nat,
           TICKS_PER_INTERVAL \in Nat \ {0}
    PROVE  LET m == missed(now, deadline)
               d == deadline + m * TICKS_PER_INTERVAL
           IN  /\ m \in Nat
               /\ d \in Nat
               /\ d > now
               /\ deadline <= now => d - TICKS_PER_INTERVAL <= now
               /\ deadline > now => d = deadline
  <1> DEFINE T == TICKS_PER_INTERVAL
             q == (now - deadline) \div T
             r == (now - deadline) % T
  <1>1. CASE deadline <= now
    <2>1. now - deadline \in Nat
      BY <1>1
    <2>2. q \in Nat /\ r \in Nat /\ r < T /\ now - deadline = q * T + r
      BY <2>1
    <2>3. missed(now, deadline) = q + 1
      BY <1>1 DEF missed
    <2> HIDE DEF q, r
    <2>4. (q + 1) * T = q * T + T /\ q * T \in Nat
      BY <2>2
    <2> QED
      BY <1>1, <2>2, <2>3, <2>4
  <1>2. CASE deadline > now
    <2>1. missed(now, deadline) = 0
      BY <1>2 DEF missed
    <2> QED
      BY <1>2, <2>1
  <1> QED
    BY <1>1, <1>2

-----------------------------------------------------------------------------
(* The invariant, action by action *)

\* What the invariant reads.
Read == <<frequency, counter, compare, statics, irq, handler, boot, first, seen,
          controller, lag, active, trap>>

LEMMA InitStep == Init => IInv
  <1> SUFFICES ASSUME Init PROVE IInv
    OBVIOUS
  <1> USE DEF Init, ClockInit
  <1>1. Types
    BY ClockAssumption DEF Types
  <1>2. Masked
    BY DEF Masked, IsGic
  <1>3. Armed /\ Due
    BY DEF Armed, Due, Started
  <1>4. Moved /\ NoDrift
    BY ClockAssumption DEF Moved, NoDrift
  <1>5. NothingLeftActive
    BY DEF NothingLeftActive
  <1> QED
    BY <1>1, <1>2, <1>3, <1>4, <1>5 DEF IInv

LEMMA Stutter == IInv /\ UNCHANGED Read => IInv'
  BY DEF IInv, Types, Masked, Started, Armed, Due, Moved, NoDrift, NothingLeftActive,
         IsGic, Read, statics

\* clock::init and its failures.
LEMMA ClockInitStep == IInv /\ clock_init => IInv'
  <1> SUFFICES ASSUME IInv, clock_init PROVE IInv'
    OBVIOUS
  <1>0. /\ boot = "init" /\ irq = FALSE /\ trap = "none" /\ handler = "idle"
        /\ UNCHANGED <<frequency, counter, irq, handler, seen, controller, lag, active, trap>>
    BY DEF IInv, Masked, clock_init, init, init_fails, ivars
  <1>1. CASE init
    <2>1. ticks_per_interval \in Nat
      BY ClockAssumption DEF IInv, Types, ticks_per_interval
    <2>2. /\ TICKS_PER_INTERVAL' = ticks_per_interval
          /\ NEXT_TICK' = counter + ticks_per_interval
          /\ counter + ticks_per_interval <= U64_MAX
          /\ TICK_COUNT' = 0 /\ first' = NEXT_TICK'
          /\ \/ compare' = NEXT_TICK' /\ boot' = "enable"
             \/ boot' = "halted"
      BY <1>1 DEF init
    <2>3. Types'
      BY <1>0, <2>1, <2>2 DEF IInv, Types
    <2>4. Masked'
      BY <1>0, <2>2 DEF IInv, Masked, IsGic
    <2>5. Armed' /\ Due'
      BY <1>0, <2>2 DEF Armed, Due, Started
    <2>6. Moved' /\ NoDrift'
      BY <1>0, <2>1, <2>2, <2>3 DEF Moved, NoDrift, Types
    <2>7. NothingLeftActive'
      BY <1>0 DEF IInv, NothingLeftActive, IsGic
    <2> QED
      BY <2>3, <2>4, <2>5, <2>6, <2>7 DEF IInv
  <1>2. CASE init_fails
    BY <1>0, <1>2 DEF init_fails, statics, IInv, Types, Masked, Started, Armed, Due, Moved,
                      NoDrift, NothingLeftActive, IsGic
  <1> QED
    BY <1>1, <1>2 DEF clock_init

LEMMA EnableStep == IInv /\ timer_enable => IInv'
  BY DEF timer_enable, enable, statics, platform, IInv, Types, Masked, Started, Armed, Due,
         Moved, NoDrift, NothingLeftActive, IsGic

LEMMA WaitStep == IInv /\ boot_waits => IInv'
  BY DEF boot_waits, wait_for_first_tick, statics, ivars, IInv, Types, Masked, Started, Armed,
         Due, Moved, NoDrift, NothingLeftActive, IsGic

LEMMA TimeStep == IInv /\ time_passes => IInv'
  BY DEF time_passes, counter_advances, statics, ivars, IInv, Types, Masked, Started, Armed,
         Due, Moved, NoDrift, NothingLeftActive, IsGic

\* A timer interrupt that is signalled without lag has ended its interval.
LEMMA SignalIsDue ==
    ASSUME IInv, TIMER \in Signals, ~lag, Started, handler = "idle"
    PROVE  NEXT_TICK <= counter
  <1>1. Level
    BY DEF Signals, TIMER, DEVICE
  <1> QED
    BY <1>1 DEF Level, IInv, Types, Armed

LEMMA GicEntryStep == IInv /\ irq_entry_aarch64 => IInv'
  BY DEF irq_entry_aarch64, clock_rest, gic_rest, platform, statics, IInv, Types, Masked,
         Started, Armed, Due, Moved, NoDrift, NothingLeftActive, IsGic

\* acknowledge, and the dispatch on the INTID.
LEMMA DispatchStep == IInv /\ handle_timer_interrupt_aarch64 => IInv'
  <1> SUFFICES ASSUME IInv, handle_timer_interrupt_aarch64 PROVE IInv'
    OBVIOUS
  <1>0. /\ trap = "acknowledge" /\ IsGic /\ handler = "idle" /\ active = {} /\ irq = FALSE
        /\ UNCHANGED <<clock_rest, irq, controller, lag>>
    BY DEF IInv, Masked, NothingLeftActive, handle_timer_interrupt_aarch64, gic_rest, platform
  <1>1. PICK intid \in acknowledge :
          LET ids == active \cup ({intid} \cap {TIMER, DEVICE})
          IN  IF intid = NOTHING \/ is_gic_special_interrupt(intid)
              THEN trap' = "halted" /\ active' = ids /\ UNCHANGED handler
              ELSE IF is_timer(intid)
              THEN trap' = "timer" /\ active' = ids /\ handler' = "entered"
              ELSE /\ trap' = "halted"
                   /\ active' = end_of_interrupt(ids, intid)
                   /\ UNCHANGED handler
    BY DEF handle_timer_interrupt_aarch64
  <1>2. \/ trap' = "halted" /\ active' = {} /\ handler' = "idle"
        \/ /\ trap' = "timer" /\ active' = {TIMER} /\ handler' = "entered"
           /\ TIMER \in Signals
    <2>1. intid \in {NOTHING, SPECIAL} \cup Signals
      BY DEF acknowledge
    <2>2. intid \in {NOTHING, SPECIAL, TIMER, DEVICE}
      BY <2>1 DEF Signals
    <2>3. CASE intid = NOTHING
      BY <1>0, <1>1, <2>3 DEF NOTHING, TIMER, DEVICE
    <2>4. CASE intid = SPECIAL
      BY <1>0, <1>1, <2>4 DEF SPECIAL, TIMER, DEVICE, is_gic_special_interrupt
    <2>5. CASE intid = TIMER
      BY <1>0, <1>1, <2>1, <2>5
         DEF NOTHING, SPECIAL, TIMER, DEVICE, is_gic_special_interrupt, is_timer
    <2>6. CASE intid = DEVICE
      BY <1>0, <1>1, <2>6
         DEF NOTHING, SPECIAL, TIMER, DEVICE, is_gic_special_interrupt, is_timer, end_of_interrupt
    <2> QED
      BY <2>2, <2>3, <2>4, <2>5, <2>6
  <1>3. handler' = "entered" /\ ~lag => NEXT_TICK <= counter
    BY <1>0, <1>2, SignalIsDue DEF Started
  <1>4. Types' /\ Moved' /\ NoDrift'
    BY <1>0, <1>2 DEF clock_rest, statics, IInv, Types, Moved, NoDrift
  <1>5. Masked' /\ Armed'
    BY <1>0, <1>2 DEF clock_rest, statics, IInv, Masked, Started, Armed, IsGic
  <1>6. Due'
    BY <1>0, <1>3 DEF clock_rest, statics, Due
  <1>7. NothingLeftActive'
    BY <1>0, <1>2 DEF NothingLeftActive, IsGic
  <1> QED
    BY <1>4, <1>5, <1>6, <1>7 DEF IInv

\* The trap of a hart.
LEMMA HartStep == IInv /\ irq_entry_riscv64 => IInv'
  <1> SUFFICES ASSUME IInv, irq_entry_riscv64 PROVE IInv'
    OBVIOUS
  <1>0. /\ trap = "none" /\ ~IsGic /\ ~lag /\ handler = "idle" /\ irq /\ irq' = FALSE
        /\ boot \notin {"init", "enable"}
        /\ UNCHANGED <<clock_rest, controller, lag, active>>
    BY DEF IInv, Masked, irq_entry_riscv64, gic_rest, platform
  <1>1. \/ trap' = "halted" /\ handler' = "idle"
        \/ trap' = "timer" /\ handler' = "entered" /\ TIMER \in Signals
    <2>1. PICK cause \in Signals :
            IF given_cause(cause) \in {NOTHING, TIMER}
            THEN trap' = "timer" /\ handler' = "entered"
            ELSE trap' = "halted" /\ UNCHANGED handler
      BY DEF irq_entry_riscv64
    <2>2. given_cause(cause) \in {NOTHING, TIMER} => cause = TIMER
      BY <2>1 DEF given_cause, fast_entry, Signals, NOTHING, TIMER, DEVICE
    <2> QED
      BY <1>0, <2>1, <2>2
  <1>2. handler' = "entered" => NEXT_TICK <= counter
    BY <1>0, <1>1, SignalIsDue DEF Started
  <1>3. Types' /\ Moved' /\ NoDrift'
    BY <1>0, <1>1 DEF clock_rest, statics, IInv, Types, Moved, NoDrift
  <1>4. Masked' /\ Armed'
    BY <1>0, <1>1 DEF clock_rest, statics, IInv, Masked, Started, Armed, IsGic
  <1>5. Due'
    BY <1>0, <1>2 DEF clock_rest, statics, Due
  <1>6. NothingLeftActive'
    BY <1>0 DEF IInv, NothingLeftActive, IsGic
  <1> QED
    BY <1>3, <1>4, <1>5, <1>6 DEF IInv

\* handle_timer_irq, its early returns and the programming of the deadline.
LEMMA HandlerStep == IInv /\ handle_timer_irq_step => IInv'
  <1> SUFFICES ASSUME IInv, handle_timer_irq_step PROVE IInv'
    OBVIOUS
  <1>0. UNCHANGED <<frequency, counter, irq, boot, first, TICKS_PER_INTERVAL,
                    controller, lag, active, trap>>
    BY DEF handle_timer_irq_step, handle_timer_irq, handle_timer_irq_returns, set_deadline,
           set_deadline_rejected, statics, ivars
  <1>1. CASE handle_timer_irq
    <2> DEFINE T == TICKS_PER_INTERVAL
               due == NEXT_TICK + T
               m == missed(counter, due)
    <2>0. /\ handler = "entered" /\ handler' = "programming" /\ T # 0
          /\ NEXT_TICK' = due + m * T /\ TICK_COUNT' = TICK_COUNT + 1 + m
          /\ NEXT_TICK' <= U64_MAX /\ seen' = counter
      BY <1>1 DEF handle_timer_irq, next_tick
    <2>1. T \in Nat \ {0} /\ due \in Nat /\ counter \in Nat
      BY <2>0 DEF IInv, Types
    <2>2. /\ m \in Nat /\ due + m * T \in Nat /\ due + m * T > counter
          /\ due <= counter => (due + m * T) - T <= counter
          /\ due > counter => due + m * T = due
      BY <2>1, AdvancePastNow
    <2> HIDE DEF m
    <2>3. Types'
      BY <1>0, <2>0, <2>2 DEF IInv, Types
    <2>4. Masked' /\ Armed' /\ Due'
      BY <1>0, <2>0 DEF IInv, Masked, Armed, Due, IsGic
    <2>5. Moved'
      <3>1. ~lag => NEXT_TICK' - T <= counter
        BY <2>0, <2>1, <2>2 DEF IInv, Due, Types
      <3> QED
        BY <1>0, <2>0, <2>2, <3>1 DEF Moved
    <2>6. NoDrift'
      <3>1. /\ NEXT_TICK = first + TICK_COUNT * T
            /\ TICK_COUNT \in Nat /\ first \in Nat
        BY DEF IInv, NoDrift, Types
      <3>2. (TICK_COUNT + 1 + m) * T = TICK_COUNT * T + T + m * T
        BY <2>1, <2>2, <3>1
      <3>3. TICK_COUNT * T \in Nat /\ m * T \in Nat
        BY <2>1, <2>2, <3>1
      <3> QED
        BY <1>0, <2>0, <2>1, <3>1, <3>2, <3>3 DEF NoDrift
    <2>7. NothingLeftActive'
      BY <1>0 DEF IInv, NothingLeftActive, IsGic
    <2> QED
      BY <2>3, <2>4, <2>5, <2>6, <2>7 DEF IInv
  <1>2. CASE handle_timer_irq_returns \/ set_deadline \/ set_deadline_rejected
    BY <1>0, <1>2 DEF handle_timer_irq_returns, set_deadline, set_deadline_rejected, statics,
                      IInv, Types, Masked, Started, Armed, Due, Moved, NoDrift,
                      NothingLeftActive, IsGic
  <1> QED
    BY <1>1, <1>2 DEF handle_timer_irq_step

LEMMA ReturnStep == IInv /\ trap_return => IInv'
  <1> SUFFICES ASSUME IInv, trap_return PROVE IInv'
    OBVIOUS
  <1>0. /\ trap = "timer" /\ handler = "done" /\ trap' = "none" /\ handler' = "idle" /\ irq'
        /\ UNCHANGED <<clock_rest, controller, lag>> /\ active' = ended
    BY DEF trap_return, gic_rest, platform
  <1>1. NothingLeftActive'
    BY <1>0 DEF IInv, NothingLeftActive, ended, end_of_interrupt, IsGic
  <1>2. Types' /\ Due' /\ Moved' /\ NoDrift'
    BY <1>0 DEF clock_rest, statics, IInv, Types, Due, Moved, NoDrift
  <1>3. irq' = TRUE
    BY DEF trap_return
  <1>4. Masked' /\ Armed'
    BY <1>0, <1>3 DEF clock_rest, statics, IInv, Masked, Started, Armed, IsGic
  <1> QED
    BY <1>1, <1>2, <1>4 DEF IInv

LEMMA NextStep == IInv /\ [Next]_vars => IInv'
  <1> SUFFICES ASSUME IInv, [Next]_vars PROVE IInv'
    OBVIOUS
  <1>1. CASE \/ interrupt_init \/ wake_poll \/ redistributor_wakes
             \/ line_follows \/ device_interrupts \/ UNCHANGED vars
    <2>1. UNCHANGED Read
      BY <1>1 DEF interrupt_init, wake_poll, redistributor_wakes, line_follows,
                  device_interrupts, vars, cvars, ivars, platform, statics, Read
    <2> QED
      BY <2>1, Stutter
  <1> QED
    BY <1>1, ClockInitStep, EnableStep, WaitStep, TimeStep, GicEntryStep, DispatchStep, HartStep,
       HandlerStep, ReturnStep DEF Next

-----------------------------------------------------------------------------
\* The inductive invariant of the timer's interrupt path: outside the handler the
\* timer is armed for the deadline that clock/mod.rs stores.
THEOREM Path == Spec => []IInv
  BY InitStep, NextStep, PTL DEF Spec

\* The deadlines that handle_timer_irq stores never drift from the grid that
\* clock::init chose, whatever the frequency and however late the handler runs.
THEOREM Grid == Spec => []NoDrift
  BY Path, PTL DEF IInv

\* advance_tick_state chooses the first deadline after the time it read, one that
\* fits the counter, and outside the handler the timer is armed for it.
THEOREM Deadline == Spec => []DeadlineIsNext
  <1>1. IInv => DeadlineIsNext
    <2> SUFFICES ASSUME IInv PROVE DeadlineIsNext
      OBVIOUS
    <2>1. boot \notin {"init", "halted"} => boot \in {"enable", "wait", "up"}
      BY DEF IInv, Types
    <2> QED
      BY <2>1 DEF IInv, Armed, Started, Moved, DeadlineIsNext
  <1> QED
    BY <1>1, Path, PTL

\* Whatever the controller, each interrupt that handle_timer_interrupt acknowledges
\* is ended once, before the trap returns or halts.
THEOREM Ended == Spec => []NothingLeftActive
  BY Path, PTL DEF IInv
=============================================================================
