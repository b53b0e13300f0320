-------------------------- MODULE Preemption_proofs -------------------------
(***************************************************************************)
(* The scheduler on its CPU, for any size of the thread table, any weights *)
(* and any tick: the CPU runs the thread the scheduler thinks it runs, no  *)
(* execution is lost, and the shares stay fair.                            *)
(*                                                                         *)
(* Without the test-only block_current a spawned thread always competes,   *)
(* so that the CPU never comes back to the idle thread, or to boot code,   *)
(* that a spawned thread has taken it from.                                *)
(***************************************************************************)
EXTENDS Preemption, Scheduler_proofs

\* The code that is on the CPU, and where the other executions are.
Saved ==
    /\ context \in [Executions -> Executions]
    /\ boot = "start" <=> ~initialized
    /\ IF initialized
       THEN /\ cpu = current \/ (cpu = Boot /\ current = 1 /\ boot # "left")
            /\ cpu = 1 => boot = "left"
            /\ cpu = Boot => context[1] = 1
            /\ \A i \in 2..thread_count : cpu # i => context[i] = i
            /\ cpu # Boot => context[IF boot = "left" THEN Boot ELSE 1] = Boot
       ELSE cpu = Boot /\ context[Boot] = Boot /\ need_reschedule = FALSE

\* Outside the trap the current thread is the one that has run least, and the
\* floor is its runtime; before the first switch to a spawned thread all runtimes
\* are 0. In the trap a switch is due exactly when another thread is at the floor.
Shares ==
    /\ \A i \in 2..thread_count :
          /\ threads[i].weight \in Weights
          /\ threads[i].state # "Blocked"
          /\ threads[i].virtual_runtime <= min_virtual_runtime + MaxCharge
    /\ initialized /\ current = 1 =>
          \A i \in 2..thread_count : threads[i].virtual_runtime = 0
    /\ ~initialized \/ current = 1 => min_virtual_runtime = 0
    /\ initialized /\ current # 1 /\ ~need_reschedule =>
          threads[current].virtual_runtime = min_virtual_runtime
    /\ need_reschedule =>
          /\ in_trap
          /\ \E i \in 2..thread_count :
                i # current /\ threads[i].virtual_runtime = min_virtual_runtime

PInv == IInv /\ Saved /\ Shares

-----------------------------------------------------------------------------
(* What a tick can charge *)

LEMMA Products ==
    \A a, b, c \in Nat : a * b \in Nat /\ (a <= b => a * c <= b * c /\ c * a <= c * b)
  OBVIOUS

LEMMA ChargeType ==
    ASSUME NEW e \in Elapsed, NEW w \in Weights
    PROVE  /\ (SCHED_TIME_SLICE_NS * e * SCHED_BASE_WEIGHT) \div w \in Nat
           /\ (SCHED_TIME_SLICE_NS * e * SCHED_BASE_WEIGHT) \div w
                 <= SCHED_TIME_SLICE_NS * MAX_RUNTIME * SCHED_BASE_WEIGHT
  <1> DEFINE x == SCHED_TIME_SLICE_NS * e * SCHED_BASE_WEIGHT
             y == SCHED_TIME_SLICE_NS * MAX_RUNTIME * SCHED_BASE_WEIGHT
             q == x \div w
             r == x % w
  <1>1. e \in Nat /\ e <= MAX_RUNTIME /\ w \in Nat \ {0}
    BY PreemptionAssumption, SchedulerAssumption
  <1> DEFINE u == SCHED_TIME_SLICE_NS * e
             v == SCHED_TIME_SLICE_NS * MAX_RUNTIME
  <1>a. SCHED_TIME_SLICE_NS \in Nat /\ SCHED_BASE_WEIGHT \in Nat /\ MAX_RUNTIME \in Nat
    BY SchedulerAssumption
  <1>b. u \in Nat /\ v \in Nat /\ u <= v
    BY <1>1, <1>a, Products
  <1> HIDE DEF u, v
  <1>c. u * SCHED_BASE_WEIGHT \in Nat /\ v * SCHED_BASE_WEIGHT \in Nat
        /\ u * SCHED_BASE_WEIGHT <= v * SCHED_BASE_WEIGHT
    BY <1>a, <1>b, Products
  <1>d. x = u * SCHED_BASE_WEIGHT /\ y = v * SCHED_BASE_WEIGHT
    BY DEF u, v
  <1> HIDE DEF x, y
  <1>2. x \in Nat /\ y \in Nat /\ x <= y
    BY <1>c, <1>d
  <1>3. w \in Nat /\ w > 0
    BY <1>1
  <1>4. q \in Nat /\ r \in Nat /\ r < w /\ x = q * w + r
    BY <1>2, <1>3
  <1> HIDE DEF q, r
  <1>5. q * w >= q
    BY <1>1, <1>4
  <1>6. q <= x
    <2>1. q * w \in Nat
      BY <1>1, <1>4
    <2> QED
      BY <1>2, <1>4, <1>5, <2>1
  <1>7. q \in Nat /\ q <= y
    BY <1>2, <1>4, <1>6
  <1> QED
    BY <1>7 DEF q, x, y

\* MaxCharge is the largest charge.
LEMMA MaxChargeIsMax == MaxCharge \in Nat /\ \A c \in Charges : c <= MaxCharge
  <1> DEFINE top == SCHED_TIME_SLICE_NS * MAX_RUNTIME * SCHED_BASE_WEIGHT
             rest == {top - c : c \in Charges}
  <1>1. top \in Nat
    <2>1. SCHED_TIME_SLICE_NS * MAX_RUNTIME \in Nat /\ SCHED_BASE_WEIGHT \in Nat
      BY SchedulerAssumption, Products
    <2> QED
      BY <2>1, Products
  <1>2. \A c \in Charges : c \in Nat /\ c <= top
    BY ChargeType DEF Charges
  <1>3. Charges # {}
    <2>1. PICK e \in Elapsed \ {0}, w \in Weights : TRUE
      BY PreemptionAssumption
    <2>2. (SCHED_TIME_SLICE_NS * e * SCHED_BASE_WEIGHT) \div w \in Charges
      BY DEF Charges
    <2> QED
      BY <2>2
  <1> HIDE DEF top
  <1>4. rest \in SUBSET Nat /\ rest # {}
    BY <1>1, <1>2, <1>3
  <1>5. PICK x \in rest : \A y \in rest : x <= y
    BY <1>4, LeastNatural
  <1>6. PICK c \in Charges : x = top - c
    BY <1>5
  <1>7. ASSUME NEW d \in Charges PROVE d <= c
    <2>1. x <= top - d
      BY <1>5
    <2> QED
      BY <1>1, <1>2, <1>6, <2>1
  <1>8. MaxCharge \in Charges /\ \A d \in Charges : d <= MaxCharge
    BY <1>6, <1>7 DEF MaxCharge
  <1> QED
    BY <1>2, <1>8

LEMMA ChargedBounded ==
    ASSUME Types, Table, NEW i \in 1..thread_count, threads[i].weight \in Weights,
           NEW elapsed \in Elapsed \ {0}
    PROVE  charged(i, elapsed) <= threads[i].virtual_runtime + MaxCharge
  <1> DEFINE c == (SCHED_TIME_SLICE_NS * elapsed * SCHED_BASE_WEIGHT) \div threads[i].weight
  <1>1. c \in Charges
    BY DEF Charges
  <1>2. c \in Nat /\ c <= MaxCharge /\ MaxCharge \in Nat
    BY <1>1, ChargeType, MaxChargeIsMax
  <1>3. threads[i].virtual_runtime \in 0..MAX_RUNTIME
    BY SchedulerAssumption DEF Types, Slots, Thread
  <1> HIDE DEF c
  <1>4. charged(i, elapsed) = IF threads[i].virtual_runtime + c > MAX_RUNTIME
                              THEN MAX_RUNTIME ELSE threads[i].virtual_runtime + c
    BY DEF charged, c
  <1> QED
    BY <1>2, <1>3, <1>4, SchedulerAssumption

-----------------------------------------------------------------------------
(* The invariant, action by action *)

\* What the numbers of a state of the invariant are.
LEMMA Ranges ==
    ASSUME IInv
    PROVE  /\ Slots = 1..THREADS /\ THREADS \in Nat /\ MAX_ID \in Nat /\ THREADS < MAX_ID
           /\ thread_count \in 0..THREADS
           /\ min_virtual_runtime \in Nat
           /\ \A i \in 1..thread_count :
                 /\ threads[i].virtual_runtime \in Nat
                 /\ threads[i] \in Thread
           /\ initialized => idle = 1 /\ current \in 1..thread_count /\ thread_count \in 1..THREADS
           /\ Executions = 0..MAX_ID /\ Boot = 0
  <1>1. /\ Slots = 1..THREADS /\ THREADS \in Nat /\ MAX_ID \in Nat /\ THREADS < MAX_ID
        /\ Executions = 0..MAX_ID /\ Boot = 0
    BY SchedulerAssumption DEF Slots, Executions, Boot
  <1>2. /\ thread_count \in 0..THREADS
        /\ min_virtual_runtime \in Nat
        /\ threads \in [Slots -> Thread]
    BY <1>1, SchedulerAssumption DEF IInv, Types
  <1>3. \A i \in 1..thread_count : threads[i] \in Thread
    BY <1>1, <1>2
  <1>4. \A t \in Thread : t.virtual_runtime \in Nat
    BY SchedulerAssumption DEF Thread
  <1>5. initialized => idle = 1 /\ current \in 1..thread_count /\ thread_count \in 1..THREADS
    BY <1>2 DEF IInv, Current
  <1> QED
    BY <1>1, <1>2, <1>3, <1>4, <1>5

LEMMA RunAboveFloor ==
    ASSUME PInv
    PROVE  \A i \in 2..thread_count : threads[i].virtual_runtime >= min_virtual_runtime
  <1>1. \A i \in 2..thread_count : threads[i].state # "Blocked"
    BY DEF PInv, Shares
  <1>2. Floor
    BY DEF PInv, IInv
  <1> QED
    BY <1>1, <1>2 DEF Floor

LEMMA PInitStep == PInit => PInv
  <1> SUFFICES ASSUME PInit PROVE PInv
    OBVIOUS
  <1>1. IInv
    BY InitStep DEF PInit
  <1>2. Saved
    BY <1>1, Ranges DEF PInit, Init, Saved
  <1>3. Shares
    BY <1>1, Ranges DEF PInit, Init, Shares
  <1> QED
    BY <1>1, <1>2, <1>3 DEF PInv

LEMMA StartStep == PInv /\ start => PInv'
  <1> SUFFICES ASSUME PInv, start PROVE PInv'
    OBVIOUS
  <1>1. IInv' /\ ~initialized /\ initialized' /\ cpu = Boot /\ cpu' = cpu /\ need_reschedule = FALSE
    BY InitIdleStep DEF PInv, Saved, start, init_with_idle_thread
  <1>2. /\ next_thread_id = 1 /\ current' = 1 /\ thread_count' = 1
        /\ UNCHANGED <<min_virtual_runtime, need_reschedule>>
    BY <1>1, SchedulerAssumption
       DEF PInv, IInv, Types, Table, Current, start, init_with_idle_thread
  <1>3. Saved'
    <2>1. 1 \in Executions /\ Boot = 0 /\ boot' = "booting"
      BY Ranges DEF PInv, start
    <2>2. context' = [context EXCEPT ![1] = 1] /\ context \in [Executions -> Executions]
      BY <1>2 DEF PInv, Saved, start
    <2>3. context' \in [Executions -> Executions] /\ context'[1] = 1
      BY <2>1, <2>2
    <2> QED
      BY <1>1, <1>2, <2>1, <2>3 DEF Saved, Boot
  <1>4. Shares'
    BY <1>1, <1>2 DEF PInv, Shares
  <1> QED
    BY <1>1, <1>3, <1>4 DEF PInv

LEMMA SpawnEffect ==
    ASSUME PInv, NEW weight \in Weights, run_spawn(weight)
    PROVE  LET n == thread_count + 1 IN
           /\ IInv' /\ initialized /\ ~in_trap /\ ~need_reschedule
           /\ UNCHANGED <<cpu, in_trap, boot, current, idle, min_virtual_runtime,
                          need_reschedule, initialized, waited>>
           /\ thread_count' = n /\ n \in Slots /\ n \in 2..MAX_ID
           /\ context' = [context EXCEPT ![n] = n]
           /\ threads'[n].weight = weight /\ threads'[n].state = "Ready"
           /\ threads'[n].virtual_runtime = min_virtual_runtime
           /\ \A i \in 1..thread_count : threads'[i] = threads[i]
  <1> DEFINE n == thread_count + 1
  <1>0. /\ IInv /\ IInv' /\ initialized /\ ~in_trap /\ ~need_reschedule
        /\ UNCHANGED <<cpu, in_trap, boot, current, idle, min_virtual_runtime,
                       need_reschedule, initialized, waited>>
        /\ thread_count' = n
    BY SpawnStep DEF PInv, Shares, run_spawn, spawn, Spawner
  <1>1. thread_count < THREADS /\ next_thread_id = n
        /\ threads' = [threads EXCEPT ![n] = NewThread(weight, start_runtime, FALSE)]
    BY <1>0, SpawnSlot DEF IInv, Table, run_spawn
  <1>2. n \in Slots /\ n \in 2..MAX_ID
    BY <1>0, <1>1, Ranges
  <1>3. /\ threads'[n].weight = weight /\ threads'[n].state = "Ready"
        /\ threads'[n].virtual_runtime = min_virtual_runtime
        /\ \A i \in 1..thread_count : threads'[i] = threads[i]
    BY <1>0, <1>1, <1>2, Ranges DEF IInv, Types, NewThread, start_runtime
  <1>4. context' = [context EXCEPT ![n] = n]
    BY <1>1 DEF run_spawn
  <1> QED
    BY <1>0, <1>2, <1>3, <1>4

LEMMA RunSpawnStep == ASSUME NEW weight \in Weights PROVE PInv /\ run_spawn(weight) => PInv'
  <1> SUFFICES ASSUME PInv, run_spawn(weight) PROVE PInv'
    OBVIOUS
  <1> DEFINE n == thread_count + 1
  <1>0. /\ IInv /\ IInv' /\ initialized /\ ~in_trap /\ ~need_reschedule
        /\ UNCHANGED <<cpu, in_trap, boot, current, idle, min_virtual_runtime,
                       need_reschedule, initialized>>
        /\ thread_count' = n
    BY SpawnEffect DEF PInv
  <1>2. n \in Slots /\ n \in 2..MAX_ID
    BY SpawnEffect
  <1>3. /\ threads'[n].weight = weight /\ threads'[n].state = "Ready"
        /\ threads'[n].virtual_runtime = min_virtual_runtime
        /\ \A i \in 1..thread_count : threads'[i] = threads[i]
    BY SpawnEffect
  <1>4. Saved'
    <2>1. context' = [context EXCEPT ![n] = n]
      BY SpawnEffect
    <2>2. cpu \in 0..thread_count
      <3>1. cpu = current \/ cpu = 0
        BY <1>0, Ranges DEF PInv, Saved
      <3>2. current \in 1..thread_count /\ thread_count \in Nat
        BY <1>0, Ranges
      <3> QED
        BY <3>1, <3>2
    <2>3. n \in Executions /\ Boot = 0 /\ context \in [Executions -> Executions]
          /\ 1 \in Executions /\ 2..thread_count \subseteq Executions /\ Boot \in Executions
      BY <1>0, <1>2, Ranges DEF PInv, Saved
    <2>4. /\ context' \in [Executions -> Executions]
          /\ context'[n] = n /\ \A i \in Executions : i # n => context'[i] = context[i]
      BY <2>1, <2>3
    <2>5. \A i \in 2..n : cpu # i => context'[i] = i
      <3>1. \A i \in 2..thread_count : cpu # i => context[i] = i
        BY <1>0 DEF PInv, Saved
      <3>2. \A i \in 2..n : i = n \/ i \in 2..thread_count
        BY <1>0, Ranges
      <3> QED
        BY <2>3, <2>4, <3>1, <3>2
    <2>6. context'[1] = context[1] /\ context'[Boot] = context[Boot]
      BY <1>2, <2>3, <2>4
    <2> QED
      BY <1>0, <2>4, <2>5, <2>6 DEF PInv, Saved
  <1>5. Shares'
    <2>1. ASSUME NEW i \in 2..n
          PROVE  /\ threads'[i].weight \in Weights
                 /\ threads'[i].state # "Blocked"
                 /\ threads'[i].virtual_runtime <= min_virtual_runtime + MaxCharge
                 /\ current = 1 => threads'[i].virtual_runtime = 0
      <3>1. CASE i = n
        BY <1>0, <1>3, <3>1, Ranges, MaxChargeIsMax DEF PInv, Shares
      <3>2. CASE i # n
        <4>1. i \in 2..thread_count
          BY <1>0, <3>2, Ranges
        <4> QED
          BY <1>0, <1>3, <4>1 DEF PInv, Shares
      <3> QED
        BY <3>1, <3>2
    <2>2. current # 1 => threads'[current].virtual_runtime = min_virtual_runtime
      BY <1>0, <1>3, Ranges DEF PInv, Shares
    <2> QED
      BY <1>0, <2>1, <2>2 DEF PInv, Shares
  <1> QED
    BY <1>0, <1>4, <1>5 DEF PInv

LEMMA SpawnFullStep == PInv /\ run_spawn_table_full => PInv'
  <1> SUFFICES ASSUME PInv, run_spawn_table_full PROVE PInv'
    OBVIOUS
  <1>1. IInv'
    BY TableFullStep DEF PInv, run_spawn_table_full
  <1>2. UNCHANGED <<cpuVars, threads, current, idle, min_virtual_runtime, need_reschedule,
                    initialized, thread_count>>
    BY DEF run_spawn_table_full, spawn_table_full
  <1>3. Saved'
    BY <1>2 DEF PInv, Saved, cpuVars
  <1>4. Shares'
    BY <1>2 DEF PInv, Shares, cpuVars
  <1> QED
    BY <1>1, <1>3, <1>4 DEF PInv

LEMMA RestStep == PInv /\ UNCHANGED vars /\ UNCHANGED <<cpu, boot, context>>
                    /\ (in_trap' = in_trap \/ ~need_reschedule) => PInv'
  <1> SUFFICES ASSUME PInv, UNCHANGED vars, UNCHANGED <<cpu, boot, context>>,
                      in_trap' = in_trap \/ ~need_reschedule
               PROVE  PInv'
    OBVIOUS
  <1>1. IInv'
    BY Stutter DEF PInv
  <1>2. UNCHANGED <<threads, current, idle, min_virtual_runtime, need_reschedule,
                    initialized, thread_count>>
    BY DEF vars
  <1>3. Saved'
    BY <1>2 DEF PInv, Saved
  <1>4. Shares'
    BY <1>2 DEF PInv, Shares
  <1> QED
    BY <1>1, <1>3, <1>4 DEF PInv

LEMMA EnteringStep == PInv /\ enter_idle => PInv'
  <1> SUFFICES ASSUME PInv, enter_idle PROVE PInv'
    OBVIOUS
  <1>0. /\ IInv /\ IInv' /\ initialized /\ initialized' /\ current = 1 /\ idle = 1
        /\ boot = "booting" /\ boot' = "entering"
        /\ UNCHANGED <<cpu, in_trap, context, current, idle, min_virtual_runtime,
                       need_reschedule, thread_count>>
        /\ threads' = [threads EXCEPT ![slot(idle)].state = "Running"]
    BY EnterIdleStep, Ranges DEF PInv, enter_idle, enter_idle_contexts
  <1>1. slot(idle) = 1
    BY <1>0, SlotIsId, Ranges DEF IInv
  <1>2. \A i \in 2..thread_count : threads'[i] = threads[i]
    BY <1>0, <1>1, Ranges DEF IInv, Types
  <1>3. Saved'
    BY <1>0 DEF PInv, Saved
  <1>4. Shares'
    BY <1>0, <1>2 DEF PInv, Shares
  <1> QED
    BY <1>0, <1>3, <1>4 DEF PInv

LEMMA LeaveBootStep == PInv /\ switch_context => PInv'
  <1> SUFFICES ASSUME PInv, switch_context PROVE PInv'
    OBVIOUS
  <1>0. /\ IInv /\ UNCHANGED vars /\ in_trap' = in_trap
        /\ cpu = Boot /\ boot = "entering" /\ boot' = "left" /\ initialized
        /\ context' = [context EXCEPT ![Boot] = cpu] /\ cpu' = context[idle]
    BY DEF PInv, Saved, switch_context
  <1>1. /\ Boot = 0 /\ Boot \in Executions /\ 2..thread_count \subseteq Executions
        /\ idle = 1 /\ current \in 1..thread_count
    BY <1>0, Ranges
  <1>2. context[1] = 1 /\ current = 1 /\ context \in [Executions -> Executions]
    BY <1>0, <1>1 DEF PInv, Saved
  <1>3. /\ context' \in [Executions -> Executions] /\ context'[Boot] = Boot
        /\ \A i \in 2..thread_count : context'[i] = context[i]
    BY <1>0, <1>1, <1>2
  <1>4. Saved'
    BY <1>0, <1>1, <1>2, <1>3 DEF PInv, Saved, vars
  <1>5. IInv'
    BY <1>0, Stutter
  <1>6. Shares'
    BY <1>0 DEF PInv, Shares, vars
  <1> QED
    BY <1>4, <1>5, <1>6 DEF PInv

\* The threads that compete are those that are spawned and not current.
LEMMA Others ==
    ASSUME PInv, initialized
    PROVE  /\ Candidates = (2..thread_count) \ {current}
           /\ Candidates # {} =>
                /\ best_ready_thread \in Candidates
                /\ \A i \in Candidates : threads[best_ready_thread].virtual_runtime
                                          <= threads[i].virtual_runtime
  <1>1. \A i \in 2..thread_count : threads[i].state = "Ready" <=> i # current
    BY Ranges DEF PInv, IInv, Current, Shares, Thread, State
  <1>2. Candidates = (2..thread_count) \ {current}
    BY <1>1, CandidateSlots DEF PInv, IInv
  <1>3. \A i \in Candidates : threads[i].virtual_runtime \in Nat
    BY <1>2, Ranges DEF PInv
  <1> QED
    BY <1>2, <1>3, BestIsFirst DEF PInv, IInv, Before

\* What a timer interrupt does to the threads' runtimes, and when it asks for a switch.
LEMMA TimerEffect ==
    ASSUME PInv, NEW elapsed \in Elapsed, timer_interrupt(elapsed)
    PROVE  LET runtime == charged(current, elapsed)
               best == threads[best_ready_thread].virtual_runtime
           IN  /\ IInv' /\ initialized /\ ~in_trap /\ in_trap' /\ ~need_reschedule /\ elapsed # 0
               /\ UNCHANGED <<cpu, boot, context, current, idle, initialized, thread_count>>
               /\ current \in 1..thread_count
               /\ \A i \in 2..thread_count :
                     /\ threads'[i].weight = threads[i].weight
                     /\ threads'[i].state = threads[i].state
                     /\ threads'[i].virtual_runtime =
                            IF i = current THEN runtime ELSE threads[i].virtual_runtime
               /\ runtime \in 0..MAX_RUNTIME /\ runtime >= threads[current].virtual_runtime
               /\ Candidates = (2..thread_count) \ {current}
               /\ Candidates # {} =>
                    /\ best_ready_thread \in Candidates
                    /\ best \in Nat
                    /\ \A i \in Candidates : best <= threads[i].virtual_runtime
               /\ need_reschedule' <=> Candidates # {} /\ runtime > best
               /\ LET floor == IF Candidates = {} THEN IF current = 1 THEN 0 ELSE runtime
                               ELSE IF current = 1 \/ best < runtime THEN best ELSE runtime
                  IN  min_virtual_runtime' =
                        IF floor > min_virtual_runtime THEN floor ELSE min_virtual_runtime
  <1> DEFINE runtime == charged(current, elapsed)
             best == threads[best_ready_thread].virtual_runtime
             floor == next_min(runtime, threads[current].idle)
  <1>0. /\ IInv /\ IInv' /\ initialized /\ ~in_trap /\ in_trap' /\ ~need_reschedule /\ elapsed # 0
        /\ UNCHANGED <<cpu, boot, context, current, idle, initialized, thread_count>>
        /\ tick(elapsed)
    BY TickStep DEF PInv, Shares, timer_interrupt, tick
  <1>1. current \in 1..thread_count /\ current \in Slots /\ slot(current) = current
    BY <1>0, Ranges, SlotIsId DEF IInv
  <1>2. /\ threads' = [threads EXCEPT ![current].virtual_runtime = runtime]
        /\ need_reschedule' <=> outrun(runtime)
        /\ min_virtual_runtime' =
               IF floor > min_virtual_runtime THEN floor ELSE min_virtual_runtime
    BY <1>0, <1>1 DEF tick
  <1>3. \A i \in 2..thread_count :
          /\ threads'[i].weight = threads[i].weight
          /\ threads'[i].state = threads[i].state
          /\ threads'[i].virtual_runtime =
                 IF i = current THEN runtime ELSE threads[i].virtual_runtime
    <2>1. /\ threads'[current] = [threads[current] EXCEPT !.virtual_runtime = runtime]
          /\ \A i \in Slots : i # current => threads'[i] = threads[i]
      BY <1>0, <1>1, <1>2 DEF IInv, Types
    <2>2. threads[current] \in Thread /\ 2..thread_count \subseteq Slots
      BY <1>0, <1>1, Ranges
    <2> HIDE DEF runtime
    <2>3. /\ threads'[current].weight = threads[current].weight
          /\ threads'[current].state = threads[current].state
          /\ threads'[current].virtual_runtime = runtime
      BY <2>1, <2>2 DEF Thread
    <2> QED
      BY <2>1, <2>2, <2>3
  <1>4. runtime \in 0..MAX_RUNTIME /\ runtime >= threads[current].virtual_runtime
    <2>1. elapsed \in Nat
      BY SchedulerAssumption
    <2> QED
      BY <1>0, <1>1, <2>1, ChargedGrows, SchedulerAssumption DEF IInv
  <1>5. threads[current].idle <=> current = 1
    BY <1>1, <1>0, Ranges DEF IInv, Table
  <1>6. floor = IF Candidates = {} THEN IF current = 1 THEN 0 ELSE runtime
                ELSE IF current = 1 \/ best < runtime THEN best ELSE runtime
    BY <1>5 DEF next_min
  <1>7. outrun(runtime) <=> Candidates # {} /\ runtime > best
    BY DEF outrun
  <1>8. /\ Candidates = (2..thread_count) \ {current}
        /\ Candidates # {} =>
             /\ best_ready_thread \in Candidates
             /\ best \in Nat
             /\ \A i \in Candidates : best <= threads[i].virtual_runtime
    BY <1>0, Others, Ranges DEF PInv
  <1> HIDE DEF runtime, best, floor
  <1> QED
    BY <1>0, <1>1, <1>2, <1>3, <1>4, <1>6, <1>7, <1>8 DEF runtime, best, floor

LEMMA TimerStep == ASSUME NEW elapsed \in Elapsed PROVE PInv /\ timer_interrupt(elapsed) => PInv'
  <1> SUFFICES ASSUME PInv, timer_interrupt(elapsed) PROVE PInv'
    OBVIOUS
  <1> DEFINE runtime == charged(current, elapsed)
             best == threads[best_ready_thread].virtual_runtime
             floor == IF Candidates = {} THEN IF current = 1 THEN 0 ELSE runtime
                      ELSE IF current = 1 \/ best < runtime THEN best ELSE runtime
  <1>0. /\ IInv /\ IInv' /\ initialized /\ ~in_trap /\ in_trap' /\ ~need_reschedule /\ elapsed # 0
        /\ UNCHANGED <<cpu, boot, context, current, idle, initialized, thread_count>>
    BY TimerEffect DEF PInv
  <1>1. current \in 1..thread_count
    BY TimerEffect
  <1>2. /\ need_reschedule' <=> Candidates # {} /\ runtime > best
        /\ min_virtual_runtime' =
               IF floor > min_virtual_runtime THEN floor ELSE min_virtual_runtime
    BY TimerEffect
  <1>3. \A i \in 2..thread_count :
          /\ threads'[i].weight = threads[i].weight
          /\ threads'[i].state = threads[i].state
          /\ threads'[i].virtual_runtime =
                 IF i = current THEN runtime ELSE threads[i].virtual_runtime
    BY TimerEffect
  <1>4. runtime \in Nat /\ runtime >= threads[current].virtual_runtime
    BY TimerEffect, SchedulerAssumption
  <1>6. floor = IF Candidates = {} THEN IF current = 1 THEN 0 ELSE runtime
                ELSE IF current = 1 \/ best < runtime THEN best ELSE runtime
    OBVIOUS
  <1>8. /\ Candidates = (2..thread_count) \ {current}
        /\ Candidates # {} =>
             /\ best_ready_thread \in Candidates
             /\ best \in Nat
             /\ \A i \in Candidates : best <= threads[i].virtual_runtime
    BY TimerEffect
  <1>9. /\ min_virtual_runtime \in Nat /\ MaxCharge \in Nat
        /\ \A i \in 2..thread_count :
             /\ threads[i].virtual_runtime \in Nat
             /\ threads[i].virtual_runtime >= min_virtual_runtime
             /\ threads[i].virtual_runtime <= min_virtual_runtime + MaxCharge
    <2>1. min_virtual_runtime \in Nat /\ MaxCharge \in Nat
      BY <1>0, Ranges, MaxChargeIsMax
    <2>2. \A i \in 2..thread_count : threads[i].virtual_runtime \in Nat
      BY <1>0, Ranges
    <2>3. \A i \in 2..thread_count : threads[i].virtual_runtime >= min_virtual_runtime
      BY RunAboveFloor
    <2>4. \A i \in 2..thread_count : threads[i].virtual_runtime <= min_virtual_runtime + MaxCharge
      BY DEF PInv, Shares
    <2> QED
      BY <2>1, <2>2, <2>3, <2>4
  <1> HIDE DEF runtime, best, floor
  <1>10. CASE current = 1
    <2>1. /\ min_virtual_runtime = 0 /\ \A i \in 2..thread_count : threads[i].virtual_runtime = 0
      BY <1>0, <1>10 DEF PInv, Shares
    <2>2. Candidates # {} => best = 0
      BY <1>8, <2>1 DEF best
    <2>3. min_virtual_runtime' = 0
      BY <1>2, <1>6, <1>10, <2>1, <2>2
    <2>4. need_reschedule' => best_ready_thread \in 2..thread_count /\ best_ready_thread # current
      BY <1>2, <1>8
    <2>5. \A i \in 2..thread_count :
            threads'[i].virtual_runtime = 0
            /\ threads'[i].virtual_runtime <= min_virtual_runtime' + MaxCharge
      BY <1>3, <1>9, <1>10, <2>1, <2>3
    <2>6. need_reschedule' => threads'[best_ready_thread].virtual_runtime = min_virtual_runtime'
      BY <2>3, <2>4, <2>5
    <2>7. Shares'
      BY <1>0, <1>3, <1>10, <2>3, <2>4, <2>5, <2>6 DEF PInv, Shares
    <2>8. Saved'
      BY <1>0 DEF PInv, Saved
    <2> QED
      BY <1>0, <2>7, <2>8 DEF PInv
  <1>11. CASE current # 1
    <2>1. /\ current \in 2..thread_count
          /\ threads[current].virtual_runtime = min_virtual_runtime
      <3>1. current \in 1..thread_count /\ thread_count \in Nat
        BY <1>0, <1>1, Ranges
      <3>2. threads[current].virtual_runtime = min_virtual_runtime
        BY <1>0, <1>11 DEF PInv, Shares
      <3> QED
        BY <1>11, <3>1, <3>2
    <2>2. runtime <= min_virtual_runtime + MaxCharge
      BY <1>0, <1>1, <2>1, ChargedBounded DEF PInv, IInv, Shares, runtime
    <2>3. CASE Candidates # {} /\ runtime > best
      <3>1. best_ready_thread \in 2..thread_count /\ best_ready_thread # current
        BY <1>8, <2>3
      <3>2. best >= min_virtual_runtime
        BY <1>9, <3>1 DEF best
      <3>3. min_virtual_runtime' = best
        BY <1>2, <1>6, <1>8, <1>9, <1>11, <2>3, <3>2
      <3>4. threads'[best_ready_thread].virtual_runtime = min_virtual_runtime'
        BY <1>3, <3>1, <3>3 DEF best
      <3>5. \A i \in 2..thread_count :
              threads'[i].virtual_runtime <= min_virtual_runtime' + MaxCharge
        BY <1>3, <1>4, <1>8, <1>9, <2>2, <2>3, <3>2, <3>3
      <3>6. need_reschedule'
        BY <1>2, <2>3
      <3> QED
        BY <1>0, <1>3, <1>11, <3>1, <3>4, <3>5, <3>6 DEF PInv, Saved, Shares
    <2>4. CASE Candidates = {} \/ ~(runtime > best)
      <3>1. ~need_reschedule' /\ min_virtual_runtime' = runtime
        BY <1>2, <1>4, <1>6, <1>8, <1>9, <1>11, <2>1, <2>4
      <3>2. \A i \in 2..thread_count :
              threads'[i].virtual_runtime <= min_virtual_runtime' + MaxCharge
        BY <1>3, <1>4, <1>9, <2>1, <2>2, <3>1
      <3> QED
        BY <1>0, <1>3, <1>11, <2>1, <3>1, <3>2 DEF PInv, Saved, Shares
    <2> QED
      BY <2>3, <2>4
  <1> QED
    BY <1>10, <1>11

\* The trap's switch is to a spawned thread, one that has run least.
LEMMA SwitchEffect ==
    ASSUME PInv, switch_context_from_trap
    PROVE  /\ IInv' /\ initialized /\ need_reschedule' = FALSE /\ ~in_trap'
           /\ UNCHANGED <<boot, idle, min_virtual_runtime, initialized, thread_count>>
           /\ context' = [context EXCEPT ![current] = cpu] /\ cpu' = context[current']
           /\ current' \in 2..thread_count /\ current' # current
           /\ waited' = [waited EXCEPT ![current'] = 0]
           /\ threads[current'].virtual_runtime = min_virtual_runtime
           /\ \A i \in 2..thread_count :
                 /\ threads'[i].weight = threads[i].weight
                 /\ threads'[i].virtual_runtime = threads[i].virtual_runtime
                 /\ threads'[i].state # "Blocked"
  <1>0. /\ IInv /\ IInv' /\ initialized /\ need_reschedule /\ current' # current
        /\ need_reschedule' = FALSE /\ boot' = boot /\ ~in_trap'
        /\ schedule(threads, Candidates)
        /\ UNCHANGED <<idle, min_virtual_runtime, initialized, thread_count>>
        /\ context' = [context EXCEPT ![current] = cpu] /\ cpu' = context[current']
    BY PreemptStep DEF PInv, switch_context_from_trap, preempt_contexts, saved
  <1>1. PICK k \in 2..thread_count :
          k # current /\ threads[k].virtual_runtime = min_virtual_runtime
    BY <1>0 DEF PInv, Shares
  <1>2. /\ current \in 1..thread_count /\ current \in Slots /\ 1..thread_count \subseteq Slots
        /\ min_virtual_runtime \in Nat /\ Boot = 0
        /\ \A i \in 2..thread_count : threads[i].virtual_runtime \in Nat
                                      /\ threads[i].virtual_runtime >= min_virtual_runtime
    <2>1. /\ current \in 1..thread_count /\ current \in Slots /\ 1..thread_count \subseteq Slots
          /\ min_virtual_runtime \in Nat /\ Boot = 0
      BY <1>0, Ranges
    <2>2. \A i \in 2..thread_count : threads[i].virtual_runtime \in Nat
      BY <1>0, Ranges
    <2>3. \A i \in 2..thread_count : threads[i].virtual_runtime >= min_virtual_runtime
      BY RunAboveFloor
    <2> QED
      BY <2>1, <2>2, <2>3
  <1>3. /\ best_ready_thread \in 2..thread_count /\ best_ready_thread # current
        /\ threads[best_ready_thread].virtual_runtime = min_virtual_runtime
        /\ Candidates # {}
    <2>1. Candidates = (2..thread_count) \ {current} /\ k \in Candidates
      BY <1>0, <1>1, Others
    <2>2. /\ best_ready_thread \in Candidates
          /\ threads[best_ready_thread].virtual_runtime <= threads[k].virtual_runtime
      BY <1>0, <2>1, Others
    <2> QED
      BY <1>1, <1>2, <2>1, <2>2
  <1>4. threads[best_ready_thread].id = best_ready_thread
    <2>1. /\ thread_count \in 0..THREADS /\ best_ready_thread \in Slots
          /\ best_ready_thread <= thread_count
      BY <1>0, <1>2, <1>3, Ranges
    <2> QED
      BY <1>0, <2>1 DEF IInv, Table
  <1>5. /\ current' = best_ready_thread
        /\ threads' = [i \in Slots |->
                         IF i = slot(current) /\ threads[i].state = "Running"
                         THEN [threads[i] EXCEPT !.state = "Ready"]
                         ELSE IF i = slot(best_ready_thread)
                              THEN [threads[i] EXCEPT !.state = "Running"]
                              ELSE threads[i]]
    BY <1>0, <1>3, <1>4 DEF schedule
  <1>6. ASSUME NEW i \in 2..thread_count
        PROVE  /\ threads'[i].weight = threads[i].weight
               /\ threads'[i].virtual_runtime = threads[i].virtual_runtime
               /\ threads'[i].state # "Blocked"
    <2>1. i \in Slots /\ threads[i] \in Thread /\ threads[i].state # "Blocked"
      BY <1>0, <1>2, Ranges DEF PInv, Shares
    <2>2. \/ threads'[i] = [threads[i] EXCEPT !.state = "Ready"]
          \/ threads'[i] = [threads[i] EXCEPT !.state = "Running"]
          \/ threads'[i] = threads[i]
      BY <1>5, <2>1
    <2> QED
      BY <2>1, <2>2 DEF Thread
  <1>7. slot(current') = current'
    <2>1. current' \in 1..thread_count
      BY <1>0, <1>2, <1>3, <1>5, Ranges
    <2> QED
      BY <1>0, <2>1, SlotIsId DEF IInv
  <1>8. waited' = [waited EXCEPT ![current'] = 0]
    BY <1>7 DEF switch_context_from_trap
  <1> QED
    BY <1>0, <1>3, <1>5, <1>6, <1>8

LEMMA SwitchStep == PInv /\ switch_context_from_trap => PInv'
  <1> SUFFICES ASSUME PInv, switch_context_from_trap PROVE PInv'
    OBVIOUS
  <1>0. /\ IInv /\ IInv' /\ initialized /\ current' # current
        /\ need_reschedule' = FALSE /\ boot' = boot
        /\ UNCHANGED <<idle, min_virtual_runtime, initialized, thread_count>>
        /\ context' = [context EXCEPT ![current] = cpu] /\ cpu' = context[current']
    BY SwitchEffect DEF PInv
  <1>2. /\ current \in 1..thread_count /\ current \in Slots /\ 1..thread_count \subseteq Slots
        /\ Boot = 0
    BY <1>0, Ranges
  <1>3. current' \in 2..thread_count /\ threads[current'].virtual_runtime = min_virtual_runtime
    BY SwitchEffect
  <1>6. \A i \in 2..thread_count :
           /\ threads'[i].weight = threads[i].weight
           /\ threads'[i].virtual_runtime = threads[i].virtual_runtime
           /\ threads'[i].state # "Blocked"
    BY SwitchEffect
  <1>7. Shares'
    BY <1>0, <1>3, <1>6 DEF PInv, Shares
  <1>8. Saved'
    <2>a. /\ context \in [Executions -> Executions]
          /\ cpu = current \/ (cpu = Boot /\ current = 1 /\ boot # "left")
          /\ cpu = 1 => boot = "left"
          /\ \A i \in 2..thread_count : cpu # i => context[i] = i
          /\ cpu # Boot /\ boot = "left" => context[Boot] = Boot
          /\ cpu # Boot /\ boot # "left" => context[1] = Boot
      BY <1>0 DEF PInv, Saved
    <2>0. cpu \in 0..thread_count /\ 0..thread_count \subseteq Executions
      BY <1>0, <1>2, <2>a, Ranges
    <2>1. cpu' = current' /\ current' \in 2..thread_count
      BY <1>0, <1>2, <1>3, <2>a
    <2>2. /\ context' \in [Executions -> Executions] /\ context'[current] = cpu
          /\ \A i \in 0..thread_count : i # current => context'[i] = context[i]
      BY <1>0, <1>2, <2>a, <2>0
    <2>3. \A i \in 2..thread_count : cpu' # i => context'[i] = i
      BY <1>2, <2>a, <2>1, <2>2
    <2>4. context'[IF boot = "left" THEN Boot ELSE 1] = Boot
      <3>0. /\ Boot \in 0..thread_count /\ Boot # current
            /\ 1 \in 0..thread_count
        BY <1>0, <1>2, Ranges
      <3>1. ASSUME boot = "left" PROVE context'[Boot] = Boot
        <4>1. cpu # Boot
          BY <2>a, <3>0, <3>1
        <4> QED
          BY <2>a, <2>2, <3>0, <3>1, <4>1
      <3>2. ASSUME boot # "left" PROVE context'[1] = Boot
        <4>1. CASE current = 1
          <5>1. cpu = Boot
            BY <2>a, <3>2, <4>1
          <5> QED
            BY <2>2, <4>1, <5>1
        <4>2. CASE current # 1
          <5>1. cpu # Boot
            BY <2>a, <3>0, <4>2
          <5> QED
            BY <2>a, <2>2, <3>0, <3>2, <4>2, <5>1
        <4> QED
          BY <4>1, <4>2
      <3> QED
        BY <3>1, <3>2
    <2>5. boot # "start"
      BY <1>0 DEF PInv, Saved
    <2> QED
      BY <1>0, <1>2, <2>1, <2>2, <2>3, <2>4, <2>5 DEF Saved, Boot
  <1> QED
    BY <1>0, <1>7, <1>8 DEF PInv

LEMMA PNextStep == PInv /\ [PNext]_allVars => PInv'
  <1> SUFFICES ASSUME PInv, [PNext]_allVars PROVE PInv'
    OBVIOUS
  <1>1. CASE trap_return
    <2>1. ~need_reschedule
      BY <1>1 DEF trap_return, preempt_not_needed, PInv, Saved
    <2> QED
      BY <1>1, <2>1, RestStep DEF trap_return, preempt_not_needed
  <1>2. CASE enable_interrupts \/ UNCHANGED allVars
    BY <1>2, RestStep DEF enable_interrupts, allVars, cpuVars
  <1> QED
    BY <1>1, <1>2, StartStep, RunSpawnStep, SpawnFullStep, EnteringStep, LeaveBootStep,
       TimerStep, SwitchStep DEF PNext

-----------------------------------------------------------------------------
(* How long a ready thread waits *)

\* No tick charges nothing: weights are u32, a slice at the base weight is more.
LEMMA ChargePositive ==
    ASSUME NEW e \in Elapsed \ {0}, NEW w \in Weights \cup {SCHED_MIN_WEIGHT}
    PROVE  (SCHED_TIME_SLICE_NS * e * SCHED_BASE_WEIGHT) \div w \in Nat \ {0}
  <1> DEFINE u == SCHED_TIME_SLICE_NS * e
             x == SCHED_TIME_SLICE_NS * e * SCHED_BASE_WEIGHT
             y == SCHED_TIME_SLICE_NS * SCHED_BASE_WEIGHT
             q == x \div w
             r == x % w
  <1>1. /\ e \in Nat /\ 1 <= e /\ w \in Nat /\ w > 0 /\ w <= y
        /\ SCHED_TIME_SLICE_NS \in Nat /\ SCHED_BASE_WEIGHT \in Nat
    BY PreemptionAssumption, SchedulerAssumption
  <1>2. u \in Nat /\ SCHED_TIME_SLICE_NS * 1 <= u
    BY <1>1, Products
  <1>3. SCHED_TIME_SLICE_NS <= u
    BY <1>1, <1>2
  <1>4. x = u * SCHED_BASE_WEIGHT
    OBVIOUS
  <1> HIDE DEF u
  <1>5. u * SCHED_BASE_WEIGHT \in Nat /\ y \in Nat /\ y <= u * SCHED_BASE_WEIGHT
    BY <1>1, <1>2, <1>3, Products
  <1> HIDE DEF x, y
  <1>6. x \in Nat /\ w <= x
    BY <1>1, <1>4, <1>5
  <1>7. q \in Nat /\ r \in Nat /\ r < w /\ x = q * w + r
    BY <1>1, <1>6
  <1> HIDE DEF q, r
  <1>8. q # 0
    BY <1>1, <1>6, <1>7
  <1> QED
    BY <1>7, <1>8 DEF q, x

LEMMA MinChargeIsMin ==
    /\ MinCharge \in Nat \ {0} /\ MinCharge <= MaxCharge
    /\ \A c \in Charges : MinCharge <= c
  <1>1. Charges \subseteq Nat \ {0}
    BY ChargePositive DEF Charges
  <1>2. Charges # {}
    <2>1. PICK e \in Elapsed \ {0}, w \in Weights : TRUE
      BY PreemptionAssumption
    <2>2. (SCHED_TIME_SLICE_NS * e * SCHED_BASE_WEIGHT) \div w \in Charges
      BY DEF Charges
    <2> QED
      BY <2>2
  <1>3. PICK c \in Charges : \A d \in Charges : c <= d
    BY <1>1, <1>2, LeastNatural
  <1>4. MinCharge \in Charges /\ \A d \in Charges : MinCharge <= d
    BY <1>3 DEF MinCharge
  <1> QED
    BY <1>1, <1>4, MaxChargeIsMax

\* While a thread waits, another one that starts behind it by no more than
\* MaxCharge can be charged this often before it is ahead.
Rounds == MaxCharge \div MinCharge + 1

\* A charge that starts between 0 and MaxCharge passes one of the multiples of
\* MinCharge up to Rounds.
LEMMA NextRound ==
    ASSUME NEW d \in 0..MaxCharge
    PROVE  /\ Rounds \in Nat
           /\ \E k \in 1..Rounds : d < k * MinCharge /\ k * MinCharge <= d + MinCharge
  <1> DEFINE m == MinCharge
             a == d \div m
             b == MaxCharge \div m
             r == d % m
             s == MaxCharge % m
  <1>1. m \in Nat /\ m > 0 /\ d \in Nat /\ MaxCharge \in Nat /\ d <= MaxCharge
    BY MinChargeIsMin, MaxChargeIsMax
  <1> HIDE DEF m
  <1>2. /\ a \in Nat /\ r \in Nat /\ r < m /\ d = a * m + r
        /\ b \in Nat /\ s \in Nat /\ s < m /\ MaxCharge = b * m + s
    BY <1>1
  <1>3. Rounds = b + 1
    BY DEF Rounds, m
  <1> HIDE DEF a, b, r, s
  <1>4. a <= b
    <2> SUFFICES ASSUME b + 1 <= a PROVE FALSE
      BY <1>2
    <2>1. (b + 1) * m <= a * m
      BY <1>1, <1>2, Products
    <2>2. (b + 1) * m = b * m + m /\ b * m \in Nat /\ a * m \in Nat
      BY <1>1, <1>2
    <2> QED
      BY <1>1, <1>2, <2>1, <2>2
  <1>5. (a + 1) * m = a * m + m /\ a * m \in Nat
    BY <1>1, <1>2
  <1>6. d < (a + 1) * m /\ (a + 1) * m <= d + m
    BY <1>1, <1>2, <1>5
  <1>7. a + 1 \in 1..Rounds /\ Rounds \in Nat
    BY <1>2, <1>3, <1>4
  <1> QED
    BY <1>6, <1>7 DEF m

\* The rounds that the other threads are through, as seen from thread i.
Passed(runtime, n, i) ==
    {t \in ((2..n) \ {i}) \X (1..Rounds) :
        t[2] * MinCharge + runtime[i] <= runtime[t[1]] + MaxCharge}

LEMMA PassedBounded ==
    ASSUME NEW runtime, NEW n \in Nat, NEW i \in 2..n
    PROVE  /\ IsFiniteSet(Passed(runtime, n, i))
           /\ Cardinality(Passed(runtime, n, i)) <= (n - 2) * Rounds
           /\ Cardinality(Passed(runtime, n, i)) \in Nat
  <1> DEFINE A == (2..n) \ {i}
             B == 1..Rounds
  <1>1. Rounds \in Nat
    <2>1. 0 \in 0..MaxCharge
      BY MaxChargeIsMax
    <2> QED
      BY <2>1, NextRound
  <1>2. IsFiniteSet(2..n) /\ Cardinality(2..n) = n - 1
    BY FS_Interval
  <1>3. IsFiniteSet(A) /\ Cardinality(A) = n - 2
    <2>1. i \in 2..n
      OBVIOUS
    <2>2. IsFiniteSet(A) /\ Cardinality(A) = Cardinality(2..n) - 1
      BY <1>2, <2>1, FS_RemoveElement, Zenon
    <2> QED
      BY <1>2, <2>2
  <1>4. IsFiniteSet(B) /\ Cardinality(B) = Rounds
    BY <1>1, FS_Interval
  <1>5. IsFiniteSet(A \X B) /\ Cardinality(A \X B) = (n - 2) * Rounds
    BY <1>3, <1>4, FS_Product
  <1>6. Passed(runtime, n, i) \subseteq A \X B
    BY DEF Passed
  <1> HIDE DEF A, B
  <1>7. IsFiniteSet(Passed(runtime, n, i))
        /\ Cardinality(Passed(runtime, n, i)) <= Cardinality(A \X B)
    BY <1>5, <1>6, FS_Subset
  <1> QED
    BY <1>5, <1>7, FS_CardinalityType

\* Nothing is taken back while i waits, also when threads are spawned.
LEMMA PassedGrows ==
    ASSUME NEW n \in Nat, NEW m \in Nat, n <= m, NEW i \in 2..n,
           NEW r, NEW s, s[i] = r[i], r[i] \in Nat,
           \A j \in 2..n : r[j] \in Nat /\ s[j] \in Nat /\ r[j] <= s[j]
    PROVE  /\ Passed(r, n, i) \subseteq Passed(s, m, i)
           /\ Cardinality(Passed(r, n, i)) <= Cardinality(Passed(s, m, i))
  <1>1. Passed(r, n, i) \subseteq Passed(s, m, i)
    <2> SUFFICES ASSUME NEW t \in Passed(r, n, i) PROVE t \in Passed(s, m, i)
      OBVIOUS
    <2>1. t \in ((2..n) \ {i}) \X (1..Rounds)
          /\ t[2] * MinCharge + r[i] <= r[t[1]] + MaxCharge
      BY DEF Passed
    <2>2. t \in ((2..m) \ {i}) \X (1..Rounds) /\ t[1] \in 2..n /\ t[2] \in 1..Rounds
      BY <2>1
    <2>3. t[2] \in Nat /\ MinCharge \in Nat /\ MaxCharge \in Nat
      BY <2>2, MinChargeIsMin, MaxChargeIsMax
    <2> DEFINE x == t[2] * MinCharge
    <2>4. x \in Nat
      BY <2>3, Products
    <2> HIDE DEF x
    <2>5. x + r[i] <= r[t[1]] + MaxCharge
      BY <2>1 DEF x
    <2>6. x + s[i] <= s[t[1]] + MaxCharge
      BY <2>2, <2>3, <2>4, <2>5
    <2> QED
      BY <2>2, <2>6 DEF Passed, x
  <1>2. IsFiniteSet(Passed(s, m, i))
    <2>1. i \in 2..m
      OBVIOUS
    <2> QED
      BY <2>1, PassedBounded
  <1> QED
    BY <1>1, <1>2, FS_Subset

\* A charge to a thread that is not ahead of i takes it through another round.
LEMMA PassedOneMore ==
    ASSUME NEW n \in Nat, NEW i \in 2..n, NEW c \in 2..n, c # i,
           NEW r, NEW s, s[i] = r[i],
           \A j \in 2..n : r[j] \in Nat /\ s[j] \in Nat /\ r[j] <= s[j],
           r[c] <= r[i], r[i] <= r[c] + MaxCharge, r[c] + MinCharge <= s[c]
    PROVE  Cardinality(Passed(r, n, i)) + 1 <= Cardinality(Passed(s, n, i))
  <1> DEFINE d == r[c] + MaxCharge - r[i]
  <1>0. /\ MinCharge \in Nat /\ MaxCharge \in Nat /\ r[c] \in Nat /\ r[i] \in Nat
        /\ s[c] \in Nat /\ s[i] \in Nat
    BY MinChargeIsMin, MaxChargeIsMax
  <1>1. d \in 0..MaxCharge
    BY <1>0
  <1>2. PICK k \in 1..Rounds : d < k * MinCharge /\ k * MinCharge <= d + MinCharge
    BY <1>1, NextRound
  <1> DEFINE x == k * MinCharge
             t == <<c, k>>
  <1>3. x \in Nat
    BY <1>0, <1>2, Products
  <1>4. d < x /\ x <= d + MinCharge
    BY <1>2
  <1> HIDE DEF x
  <1>5. ~(x + r[i] <= r[c] + MaxCharge)
    BY <1>0, <1>3, <1>4
  <1>6. x + s[i] <= s[c] + MaxCharge
    BY <1>0, <1>3, <1>4
  <1>7. t \in ((2..n) \ {i}) \X (1..Rounds) /\ t[1] = c /\ t[2] = k
    OBVIOUS
  <1>8. t \notin Passed(r, n, i) /\ t \in Passed(s, n, i)
    BY <1>5, <1>6, <1>7 DEF Passed, x
  <1> HIDE DEF t
  <1>9. Passed(r, n, i) \cup {t} \subseteq Passed(s, n, i)
    BY <1>0, <1>8, PassedGrows
  <1>10. IsFiniteSet(Passed(r, n, i)) /\ IsFiniteSet(Passed(s, n, i))
    BY PassedBounded
  <1>11. Cardinality(Passed(r, n, i) \cup {t}) = Cardinality(Passed(r, n, i)) + 1
    BY <1>8, <1>10, FS_AddElement
  <1> QED
    BY <1>9, <1>10, <1>11, FS_Subset

Runtimes == [i \in Slots |-> threads[i].virtual_runtime]

\* A thread has waited for one tick at most that the boot code's idle thread was
\* charged for, and for the rounds that the other threads have got through.
Waits ==
    /\ waited \in [Slots -> Nat]
    /\ \A i \in Slots \ (2..thread_count) : waited[i] = 0
    /\ initialized /\ current # 1 => waited[current] = 0
    /\ ~initialized \/ current = 1 =>
          \A i \in Slots : waited[i] <= IF in_trap THEN 1 ELSE 0
    /\ initialized /\ current = 1 /\ in_trap /\ thread_count > 1 => need_reschedule
    /\ ~Saturated =>
          \A i \in 2..thread_count :
              waited[i] <= Cardinality(Passed(Runtimes, thread_count, i)) + 1

\* Runtimes do not come back from the largest.
LEMMA StaySaturated ==
    ASSUME PInv, PInv', thread_count <= thread_count',
           \A i \in 2..thread_count :
               threads[i].virtual_runtime <= threads'[i].virtual_runtime,
           ~Saturated'
    PROVE  /\ ~Saturated
           /\ \A i \in 2..thread_count' : threads'[i].virtual_runtime < MAX_RUNTIME
  <1>0. /\ thread_count \in 0..THREADS /\ thread_count' \in 0..THREADS /\ THREADS \in Nat
        /\ Slots = 1..THREADS /\ threads' \in [Slots -> Thread] /\ Table'
        /\ MAX_RUNTIME \in Nat
    BY SchedulerAssumption DEF PInv, IInv, Types, Slots
  <1>1. /\ \A i \in 2..thread_count' : i \in Slots /\ threads'[i].id = i
                                       /\ (threads'[i].idle <=> i = 1)
        /\ \A i \in 2..thread_count' : threads'[i].virtual_runtime \in 0..MAX_RUNTIME
    <2>1. \A i \in 2..thread_count' : i \in Slots /\ i <= thread_count'
      BY <1>0
    <2>2. \A t \in Thread : t.virtual_runtime \in 0..MAX_RUNTIME
      BY DEF Thread
    <2>3. \A i \in 2..thread_count' : threads'[i].virtual_runtime \in 0..MAX_RUNTIME
      BY <1>0, <2>1, <2>2
    <2>4. \A i \in 2..thread_count' : threads'[i].id = i
      BY <1>0, <2>1 DEF Table
    <2>5. \A i \in 2..thread_count' : threads'[i].idle <=> i = 1
      BY <1>0, <2>1 DEF Table
    <2> QED
      BY <2>1, <2>3, <2>4, <2>5
  <1>2. \A i \in 2..thread_count' : i \in Occupied' /\ ~threads'[i].idle
    BY <1>0, <1>1 DEF Occupied
  <1>3. \A i \in 2..thread_count' : threads'[i].virtual_runtime # MAX_RUNTIME
    BY <1>2 DEF Saturated
  <1>4. \A i \in 2..thread_count' : threads'[i].virtual_runtime < MAX_RUNTIME
    BY <1>0, <1>1, <1>3
  <1>5. ASSUME Saturated PROVE FALSE
    <2>1. PICK i \in Occupied : ~threads[i].idle /\ threads[i].virtual_runtime = MAX_RUNTIME
      BY <1>5 DEF Saturated
    <2>2. i \in 2..thread_count
      <3>1. i \in 1..thread_count
        BY OccupiedPrefix DEF PInv, IInv
      <3>2. i # 1
        BY <2>1, <3>1, Ranges DEF PInv, IInv, Table
      <3> QED
        BY <1>0, <3>1, <3>2
    <2> QED
      BY <1>0, <1>1, <1>4, <2>1, <2>2
  <1> QED
    BY <1>4, <1>5

LEMMA RuntimesRead ==
    ASSUME PInv, PInv', thread_count <= thread_count'
    PROVE  /\ thread_count \in Nat /\ thread_count' \in Nat
           /\ \A i \in 2..thread_count :
                 /\ Runtimes[i] = threads[i].virtual_runtime
                 /\ Runtimes'[i] = threads'[i].virtual_runtime
                 /\ Runtimes[i] \in Nat /\ Runtimes'[i] \in Nat
                 /\ i \in 2..thread_count'
           /\ 2..thread_count' \subseteq Slots
           /\ \A i \in 2..thread_count' : i \in 2..thread_count \/ i \in Slots \ (2..thread_count)
  <1>1. /\ thread_count \in 0..THREADS /\ thread_count' \in 0..THREADS /\ THREADS \in Nat
        /\ Slots = 1..THREADS
        /\ threads \in [Slots -> Thread] /\ threads' \in [Slots -> Thread]
    BY SchedulerAssumption DEF PInv, IInv, Types, Slots
  <1>2. \A t \in Thread : t.virtual_runtime \in Nat
    BY SchedulerAssumption DEF Thread
  <1>3. \A i \in 2..thread_count : i \in Slots /\ i \in 2..thread_count'
    BY <1>1
  <1>4. \A i \in 2..thread_count : threads[i] \in Thread /\ threads'[i] \in Thread
    BY <1>1, <1>3
  <1>5. \A i \in 2..thread_count : /\ Runtimes[i] = threads[i].virtual_runtime
                                   /\ Runtimes'[i] = threads'[i].virtual_runtime
    BY <1>3 DEF Runtimes
  <1> QED
    BY <1>1, <1>2, <1>3, <1>4, <1>5

\* No step but a tick makes a thread wait longer.
LEMMA RestWaits ==
    ASSUME PInv, PInv', Waits, thread_count <= thread_count',
           \A i \in 2..thread_count :
               threads'[i].virtual_runtime = threads[i].virtual_runtime,
           waited' \in [Slots -> Nat],
           \A i \in Slots : waited'[i] <= waited[i]
    PROVE  /\ \A i \in Slots \ (2..thread_count') : waited'[i] = 0
           /\ ~Saturated' =>
                 \A i \in 2..thread_count' :
                     waited'[i] <= Cardinality(Passed(Runtimes', thread_count', i)) + 1
  <1>1. waited \in [Slots -> Nat] /\ \A i \in Slots \ (2..thread_count) : waited[i] = 0
    BY DEF Waits
  <1>2. \A i \in Slots \ (2..thread_count) : waited'[i] = 0
    BY <1>1
  <1>3. \A i \in Slots \ (2..thread_count') : waited'[i] = 0
    BY <1>2, RuntimesRead
  <1>4. ASSUME ~Saturated', NEW i \in 2..thread_count'
        PROVE  waited'[i] <= Cardinality(Passed(Runtimes', thread_count', i)) + 1
    <2>0. Cardinality(Passed(Runtimes', thread_count', i)) \in Nat
      BY PassedBounded, RuntimesRead
    <2>1. CASE i \in 2..thread_count
      <3>1. ~Saturated
        <4>1. \A j \in 2..thread_count :
                threads[j].virtual_runtime <= threads'[j].virtual_runtime
          BY RuntimesRead
        <4> QED
          BY <1>4, <4>1, StaySaturated
      <3>2. waited[i] <= Cardinality(Passed(Runtimes, thread_count, i)) + 1
        BY <2>1, <3>1 DEF Waits
      <3>3. /\ thread_count \in Nat /\ thread_count' \in Nat
            /\ Runtimes'[i] = Runtimes[i] /\ Runtimes[i] \in Nat
            /\ \A j \in 2..thread_count : Runtimes[j] \in Nat /\ Runtimes'[j] \in Nat
                                          /\ Runtimes[j] <= Runtimes'[j]
        BY <2>1, RuntimesRead
      <3>4. Cardinality(Passed(Runtimes, thread_count, i))
              <= Cardinality(Passed(Runtimes', thread_count', i))
        BY <2>1, <3>3, PassedGrows
      <3>5. Cardinality(Passed(Runtimes, thread_count, i)) \in Nat
        BY <2>1, <3>3, PassedBounded
      <3>6. i \in Slots /\ waited[i] \in Nat /\ waited'[i] \in Nat
        BY <1>1, <1>4, RuntimesRead
      <3> QED
        BY <2>0, <3>2, <3>4, <3>5, <3>6
    <2>2. CASE i \notin 2..thread_count
      BY <1>2, <1>4, <2>0, <2>2, RuntimesRead
    <2> QED
      BY <2>1, <2>2
  <1> QED
    BY <1>3, <1>4

LEMMA ChargedAtLeast ==
    ASSUME Types, Table, NEW i \in 1..thread_count, NEW elapsed \in Elapsed \ {0}
    PROVE  /\ charged(i, elapsed) > 0
           /\ threads[i].weight \in Weights /\ charged(i, elapsed) < MAX_RUNTIME =>
                 threads[i].virtual_runtime + MinCharge <= charged(i, elapsed)
  <1> DEFINE c == (SCHED_TIME_SLICE_NS * elapsed * SCHED_BASE_WEIGHT) \div threads[i].weight
  <1>1. /\ threads[i].virtual_runtime \in Nat
        /\ threads[i].weight \in Weights \cup {SCHED_MIN_WEIGHT}
    BY SchedulerAssumption DEF Types, Table, Slots, Thread
  <1>2. c \in Nat \ {0}
    BY <1>1, ChargePositive
  <1>3. threads[i].weight \in Weights => c \in Charges
    BY DEF Charges
  <1>4. MAX_RUNTIME \in Nat \ {0} /\ MinCharge \in Nat
    BY MinChargeIsMin, PreemptionAssumption, SchedulerAssumption
  <1> HIDE DEF c
  <1>5. charged(i, elapsed) = IF threads[i].virtual_runtime + c > MAX_RUNTIME
                              THEN MAX_RUNTIME ELSE threads[i].virtual_runtime + c
    BY DEF charged, c
  <1>6. threads[i].weight \in Weights => MinCharge <= c
    BY <1>3, MinChargeIsMin
  <1> QED
    BY <1>1, <1>2, <1>4, <1>5, <1>6

LEMMA TimerWaits ==
    ASSUME PInv, PInv', Waits, NEW elapsed \in Elapsed, timer_interrupt(elapsed)
    PROVE  Waits'
  <1> DEFINE runtime == charged(current, elapsed)
  <1>0. /\ initialized /\ ~in_trap /\ in_trap' /\ ~need_reschedule /\ elapsed # 0
        /\ UNCHANGED <<current, initialized, thread_count>>
        /\ current \in 1..thread_count /\ Candidates = (2..thread_count) \ {current}
        /\ thread_count \in Nat /\ 1..thread_count \subseteq Slots
    BY TimerEffect, Ranges DEF PInv
  <1>1. /\ waited' = [i \in Slots |->
             IF i \in Candidates /\ ~Saturated THEN waited[i] + 1 ELSE waited[i]]
        /\ waited \in [Slots -> Nat] /\ \A i \in Slots \ (2..thread_count) : waited[i] = 0
    BY DEF timer_interrupt, Waits
  <1>2. waited' \in [Slots -> Nat] /\ \A i \in Slots \ (2..thread_count') : waited'[i] = 0
    BY <1>0, <1>1
  <1>3. current # 1 => waited'[current] = 0
    BY <1>0, <1>1 DEF Waits
  <1>4. current = 1 => \A i \in Slots : waited[i] = 0
    BY <1>0, <1>1 DEF Waits
  <1>5. current = 1 => \A i \in Slots : waited'[i] <= 1
    BY <1>1, <1>4
  <1>6. ASSUME current = 1, thread_count > 1 PROVE need_reschedule'
    <2>1. /\ Candidates # {} /\ best_ready_thread \in 2..thread_count
          /\ need_reschedule' <=> runtime > threads[best_ready_thread].virtual_runtime
      BY <1>0, <1>6, TimerEffect
    <2>2. threads[best_ready_thread].virtual_runtime = 0
      BY <1>0, <1>6, <2>1 DEF PInv, Shares
    <2>3. runtime > 0
      BY <1>0, ChargedAtLeast DEF PInv, IInv
    <2> QED
      BY <2>1, <2>2, <2>3
  <1>7. ASSUME ~Saturated', NEW i \in 2..thread_count'
        PROVE  waited'[i] <= Cardinality(Passed(Runtimes', thread_count', i)) + 1
    <2>1. \A j \in 2..thread_count :
            /\ threads'[j].virtual_runtime =
                  IF j = current THEN runtime ELSE threads[j].virtual_runtime
            /\ threads[j].virtual_runtime <= threads'[j].virtual_runtime
      BY <1>0, TimerEffect, Ranges DEF PInv
    <2>2. ~Saturated /\ \A j \in 2..thread_count : threads'[j].virtual_runtime < MAX_RUNTIME
      BY <1>0, <1>7, <2>1, StaySaturated
    <2>3. /\ i \in 2..thread_count /\ i \in Slots /\ waited[i] \in Nat /\ waited'[i] \in Nat
          /\ waited'[i] = IF i = current THEN waited[i] ELSE waited[i] + 1
      BY <1>0, <1>1, <1>7, <2>2
    <2>4. Cardinality(Passed(Runtimes', thread_count, i)) \in Nat
          /\ Cardinality(Passed(Runtimes, thread_count, i)) \in Nat
      BY <1>0, <2>3, PassedBounded
    <2>5. CASE i = current
      <3>1. waited'[i] = 0
        BY <1>3, <2>3, <2>5
      <3> QED
        BY <1>0, <2>4, <3>1
    <2>6. CASE i # current /\ current = 1
      <3>1. waited'[i] = 1
        BY <1>4, <2>3, <2>6
      <3> QED
        BY <1>0, <2>4, <3>1
    <2>7. CASE i # current /\ current # 1
      <3>0. current \in 2..thread_count
        BY <1>0, <2>7
      <3>1. waited[i] <= Cardinality(Passed(Runtimes, thread_count, i)) + 1
        BY <2>2, <2>3 DEF Waits
      <3>2. \A j \in 2..thread_count :
              /\ Runtimes[j] = threads[j].virtual_runtime
              /\ Runtimes'[j] = threads'[j].virtual_runtime
              /\ Runtimes[j] \in Nat /\ Runtimes'[j] \in Nat /\ Runtimes[j] <= Runtimes'[j]
        BY <1>0, <2>1, RuntimesRead
      <3>3. Runtimes'[i] = Runtimes[i] /\ Runtimes'[current] = runtime
        BY <2>1, <2>3, <2>7, <3>0, <3>2
      <3>4. Runtimes[current] <= Runtimes[i] /\ Runtimes[i] <= Runtimes[current] + MaxCharge
        <4>1. threads[current].virtual_runtime = min_virtual_runtime
          BY <1>0, <2>7 DEF PInv, Shares
        <4>2. threads[i].virtual_runtime >= min_virtual_runtime
          BY <2>3, RunAboveFloor
        <4>3. threads[i].virtual_runtime <= min_virtual_runtime + MaxCharge
          BY <2>3 DEF PInv, Shares
        <4> QED
          BY <2>3, <3>0, <3>2, <4>1, <4>2, <4>3
      <3>5. Runtimes[current] + MinCharge <= Runtimes'[current]
        <4>1. runtime < MAX_RUNTIME
          BY <2>1, <2>2, <3>0
        <4>2. threads[current].weight \in Weights
          BY <3>0 DEF PInv, Shares
        <4>3. threads[current].virtual_runtime + MinCharge <= runtime
          BY <1>0, <4>1, <4>2, ChargedAtLeast DEF PInv, IInv
        <4> QED
          BY <3>0, <3>2, <3>3, <4>3
      <3>6. Cardinality(Passed(Runtimes, thread_count, i)) + 1
              <= Cardinality(Passed(Runtimes', thread_count, i))
        BY <1>0, <2>3, <2>7, <3>0, <3>2, <3>3, <3>4, <3>5, PassedOneMore
      <3> QED
        BY <1>0, <2>3, <2>4, <2>7, <3>1, <3>6
    <2> QED
      BY <2>5, <2>6, <2>7
  <1> QED
    BY <1>0, <1>2, <1>3, <1>5, <1>6, <1>7 DEF Waits

LEMMA WaitsNext == PInv /\ PInv' /\ Waits /\ [PNext]_allVars => Waits'
  <1> SUFFICES ASSUME PInv, PInv', Waits, [PNext]_allVars PROVE Waits'
    OBVIOUS
  <1>0. waited \in [Slots -> Nat] /\ \A i \in Slots : waited[i] \in Nat /\ waited[i] <= waited[i]
    BY DEF Waits
  <1>1. ASSUME UNCHANGED <<thread_count, current, initialized, need_reschedule, waited>>,
               \A i \in 2..thread_count :
                   threads'[i].virtual_runtime = threads[i].virtual_runtime,
               in_trap' = in_trap \/ (in_trap /\ ~in_trap' /\ ~(initialized /\ need_reschedule))
        PROVE  Waits'
    <2>1. thread_count \in 0..THREADS /\ THREADS \in Nat
      BY Ranges DEF PInv
    <2>2. /\ \A i \in Slots \ (2..thread_count') : waited'[i] = 0
          /\ ~Saturated' =>
               \A i \in 2..thread_count' :
                   waited'[i] <= Cardinality(Passed(Runtimes', thread_count', i)) + 1
      BY <1>0, <1>1, <2>1, RestWaits
    <2>3. ASSUME in_trap # in_trap', ~initialized \/ current = 1
          PROVE  \A i \in Slots : waited[i] = 0
      <3>1. ~(thread_count > 1)
        <4>1. ~initialized => thread_count = 0
          BY DEF PInv, IInv, Current
        <4> QED
          BY <1>1, <2>1, <2>3, <4>1 DEF Waits
      <3>2. 2..thread_count = {}
        BY <2>1, <3>1
      <3> QED
        BY <3>2 DEF Waits
    <2>4. ~initialized \/ current = 1 =>
            \A i \in Slots : waited[i] <= IF in_trap' THEN 1 ELSE 0
      BY <1>0, <1>1, <2>3 DEF Waits
    <2>5. initialized /\ current # 1 => waited[current] = 0
      BY DEF Waits
    <2>6. initialized /\ current = 1 /\ in_trap' /\ thread_count > 1 => need_reschedule
      BY <1>1 DEF Waits
    <2> QED
      BY <1>0, <1>1, <2>2, <2>4, <2>5, <2>6 DEF Waits
  <1>2. CASE start
    <2>1. /\ ~initialized /\ initialized' /\ current' = 1 /\ thread_count = 0 /\ thread_count' = 1
          /\ in_trap' = in_trap /\ waited' = waited
      BY <1>2, SchedulerAssumption
         DEF PInv, IInv, Types, Table, Current, start, init_with_idle_thread
    <2>2. 2..thread_count = {} /\ 2..thread_count' = {}
      BY <2>1
    <2>3. \A i \in Slots : waited[i] <= IF in_trap THEN 1 ELSE 0
      BY <2>1 DEF Waits
    <2>4. \A i \in Slots : waited[i] = 0
      BY <2>2 DEF Waits
    <2> QED
      BY <1>0, <2>1, <2>2, <2>3, <2>4 DEF Waits
  <1>3. CASE \E weight \in Weights : run_spawn(weight)
    <2>1. PICK weight \in Weights : run_spawn(weight)
      BY <1>3
    <2>2. /\ initialized /\ ~in_trap /\ thread_count' = thread_count + 1
          /\ UNCHANGED <<in_trap, current, initialized, waited>>
          /\ \A i \in 1..thread_count : threads'[i] = threads[i]
      BY <2>1, SpawnEffect
    <2>3. thread_count <= thread_count' /\ 2..thread_count \subseteq 1..thread_count
      BY <2>2, Ranges DEF PInv
    <2>4. /\ \A i \in Slots \ (2..thread_count') : waited'[i] = 0
          /\ ~Saturated' =>
               \A i \in 2..thread_count' :
                   waited'[i] <= Cardinality(Passed(Runtimes', thread_count', i)) + 1
      BY <1>0, <2>2, <2>3, RestWaits
    <2>5. initialized /\ current # 1 => waited[current] = 0
      BY DEF Waits
    <2>6. current = 1 => \A i \in Slots : waited[i] <= IF in_trap THEN 1 ELSE 0
      BY DEF Waits
    <2> QED
      BY <1>0, <2>2, <2>4, <2>5, <2>6 DEF Waits
  <1>4. CASE switch_context_from_trap
    <2>1. /\ initialized /\ ~in_trap' /\ UNCHANGED <<initialized, thread_count>>
          /\ current' \in 2..thread_count /\ waited' = [waited EXCEPT ![current'] = 0]
          /\ \A i \in 2..thread_count :
                threads'[i].virtual_runtime = threads[i].virtual_runtime
      BY <1>4, SwitchEffect
    <2>2. current' \in Slots /\ current' # 1 /\ thread_count <= thread_count'
      BY <2>1, Ranges DEF PInv
    <2>3. /\ waited' \in [Slots -> Nat] /\ waited'[current'] = 0
          /\ \A i \in Slots : waited'[i] <= waited[i]
      BY <1>0, <2>1, <2>2
    <2>4. /\ \A i \in Slots \ (2..thread_count') : waited'[i] = 0
          /\ ~Saturated' =>
               \A i \in 2..thread_count' :
                   waited'[i] <= Cardinality(Passed(Runtimes', thread_count', i)) + 1
      BY <2>1, <2>2, <2>3, RestWaits
    <2> QED
      BY <2>1, <2>2, <2>3, <2>4 DEF Waits
  <1>5. CASE run_spawn_table_full
    BY <1>1, <1>5 DEF run_spawn_table_full, spawn_table_full, cpuVars
  <1>6. CASE enter_idle
    <2>1. /\ UNCHANGED <<thread_count, current, initialized, need_reschedule, waited, in_trap>>
          /\ threads' = [threads EXCEPT ![slot(idle)].state = "Running"] /\ idle = 1 /\ initialized
      BY <1>6, Ranges DEF PInv, enter_idle, enter_idle_contexts
    <2>2. slot(idle) = 1
      BY <2>1, SlotIsId, Ranges DEF PInv, IInv
    <2>3. \A i \in 2..thread_count : threads'[i] = threads[i]
      BY <2>1, <2>2, Ranges DEF PInv, IInv, Types
    <2> QED
      BY <1>1, <2>1, <2>3
  <1>7. CASE switch_context \/ enable_interrupts \/ UNCHANGED allVars
    BY <1>1, <1>7 DEF switch_context, enable_interrupts, allVars, cpuVars, vars
  <1>8. CASE trap_return
    <2>1. /\ UNCHANGED vars /\ waited' = waited
          /\ in_trap /\ ~in_trap' /\ ~(initialized /\ need_reschedule)
      BY <1>8 DEF trap_return, preempt_not_needed
    <2> QED
      BY <1>1, <2>1 DEF vars
  <1> QED
    BY <1>2, <1>3, <1>4, <1>5, <1>6, <1>7, <1>8, TimerWaits DEF PNext

-----------------------------------------------------------------------------
\* The invariant of the scheduler and its CPU; IInv, and with it what
\* Scheduler_proofs shows of the table, is part of it.
THEOREM Composed == PSpec => []PInv
  BY PInitStep, PNextStep, PTL DEF PSpec

\* What a tick charges and a spawn or a switch changes is the thread whose code is
\* on the CPU, for any number of threads: task/mod.rs's `current` is never stale.
THEOREM RunsCurrent == PSpec => []CpuRunsCurrent
  <1>1. PInv => CpuRunsCurrent
    BY Ranges DEF PInv, Saved, CpuRunsCurrent
  <1> QED
    BY <1>1, Composed, PTL

\* The context switches of context.rs lose and duplicate no execution, in whatever
\* order they, the boot code and the traps come.
THEOREM NothingLost == PSpec => []ExecutionsPreserved
  <1>1. PInv => ExecutionsPreserved
    <2> SUFFICES ASSUME PInv, initialized PROVE ExecutionsPreserved
      BY DEF ExecutionsPreserved
    <2>1. Occupied = 1..thread_count /\ idle = 1
      BY OccupiedPrefix, Ranges DEF PInv, IInv
    <2>2. \A i \in Occupied : threads[i].id = i /\ (threads[i].idle <=> i = 1)
      BY <2>1, Ranges DEF PInv, IInv, Table
    <2>3. \A i \in Occupied : ~threads[i].idle => i \in 2..thread_count
      BY <2>1, <2>2, Ranges DEF PInv
    <2> QED
      BY <2>1, <2>2, <2>3 DEF PInv, Saved, ExecutionsPreserved
  <1> QED
    BY <1>1, Composed, PTL

\* Fair shares for any number of threads and any weights: by their virtual runtimes
\* no spawned thread is ahead of another by more than the largest charge of a tick.
THEOREM FairShares == PSpec => []BoundedLag
  <1>1. PInv => BoundedLag
    <2> SUFFICES ASSUME PInv, NEW i \in Occupied, NEW j \in Occupied,
                        ~threads[i].idle, ~threads[j].idle
                 PROVE  threads[i].virtual_runtime <= threads[j].virtual_runtime + MaxCharge
      BY DEF BoundedLag
    <2>1. \A k \in Occupied : k \in 1..thread_count /\ (threads[k].idle <=> k = 1)
      BY OccupiedPrefix, Ranges DEF PInv, IInv, Table
    <2>2. i \in 2..thread_count /\ j \in 2..thread_count
      BY <2>1, Ranges DEF PInv
    <2>3. /\ threads[i].virtual_runtime \in Nat /\ threads[j].virtual_runtime \in Nat
          /\ min_virtual_runtime \in Nat /\ MaxCharge \in Nat
      BY <2>2, Ranges, MaxChargeIsMax DEF PInv
    <2>4. /\ threads[i].virtual_runtime <= min_virtual_runtime + MaxCharge
          /\ threads[j].virtual_runtime >= min_virtual_runtime
      BY <2>2 DEF PInv, IInv, Floor, Shares
    <2> QED
      BY <2>3, <2>4
  <1> QED
    BY <1>1, Composed, PTL

\* No starvation, for any number of threads and any weights: a spawned thread waits
\* for a bounded number of ticks, for it takes every other thread no more than
\* Rounds charges to get ahead of it, also one that is spawned meanwhile.
THEOREM NoStarvation == PSpec => []BoundedWait
  <1>1. PInit => Waits
    <2>1. PInit => thread_count = 0
      BY DEF PInit, Init
    <2>2. PInit => waited = [i \in Slots |-> 0] /\ initialized = FALSE
      BY DEF PInit, Init
    <2> QED
      BY <2>1, <2>2 DEF Waits
  <1>2. PInv /\ Waits => BoundedWait
    <2> SUFFICES ASSUME PInv, Waits, ~Saturated, NEW i \in Occupied, ~threads[i].idle
                 PROVE  waited[i] <= (THREADS - 2) * (MaxCharge \div MinCharge + 1) + 1
      BY DEF BoundedWait
    <2>1. /\ i \in 1..thread_count /\ thread_count \in 0..THREADS /\ THREADS \in Nat
          /\ i \in Slots
      BY OccupiedPrefix, Ranges DEF PInv, IInv
    <2>2. Rounds \in Nat
      <3>1. 0 \in 0..MaxCharge
        BY MaxChargeIsMax
      <3> QED
        BY <3>1, NextRound
    <2>3. i \in 2..thread_count
      BY <2>1, Ranges DEF PInv, IInv, Table
    <2>4. waited[i] <= Cardinality(Passed(Runtimes, thread_count, i)) + 1
      BY <2>3 DEF Waits
    <2>5. /\ Cardinality(Passed(Runtimes, thread_count, i)) <= (thread_count - 2) * Rounds
          /\ Cardinality(Passed(Runtimes, thread_count, i)) \in Nat
      BY <2>1, <2>3, PassedBounded
    <2>6. thread_count - 2 \in Nat /\ THREADS - 2 \in Nat /\ thread_count - 2 <= THREADS - 2
      BY <2>1, <2>3
    <2>7. /\ (thread_count - 2) * Rounds <= (THREADS - 2) * Rounds
          /\ (thread_count - 2) * Rounds \in Nat /\ (THREADS - 2) * Rounds \in Nat
      BY <2>2, <2>6, Products
    <2>8. waited[i] \in Nat
      BY <2>1 DEF Waits
    <2>9. waited[i] <= (THREADS - 2) * Rounds + 1
      BY <2>4, <2>5, <2>7, <2>8
    <2> QED
      BY <2>9 DEF Rounds
  <1> QED
    BY <1>1, <1>2, WaitsNext, PInitStep, PNextStep, PTL DEF PSpec
=============================================================================
