------------------------------ MODULE Scheduler -----------------------------
(***************************************************************************)
(* The fair scheduler of task/mod.rs.  Every operation runs under          *)
(* SCHEDULER_LOCK and is one action.                                       *)
(*                                                                         *)
(* The thread table has one record per slot; a vacant slot has id 0.       *)
(* init_with_idle_thread makes the only process there is, the kernel's,    *)
(* and no operation removes a thread.  block_current and wake are compiled *)
(* for tests only: Blocking says whether they are there.                   *)
(***************************************************************************)
EXTENDS Integers, FiniteSets

CONSTANTS
    THREADS,              \* slots of the table: MAX_TASKS
    MAX_ID,               \* largest thread id: u32::MAX
    MAX_RUNTIME,          \* largest virtual runtime: u64::MAX
    SCHED_TIME_SLICE_NS,
    SCHED_BASE_WEIGHT,
    SCHED_MIN_WEIGHT,
    Weights,              \* weights given to spawn
    Elapsed,              \* elapsed_ticks given to tick
    Blocking

Slots == 1..THREADS

ASSUME SchedulerAssumption ==
    /\ THREADS \in Nat \ {0}
    /\ MAX_ID \in Nat
    /\ THREADS < MAX_ID
    /\ MAX_RUNTIME \in Nat
    /\ SCHED_TIME_SLICE_NS \in Nat \ {0}
    /\ SCHED_BASE_WEIGHT \in Nat \ {0}
    /\ SCHED_MIN_WEIGHT \in Nat \ {0}
    /\ Weights \subseteq Nat \ {0}
    /\ Elapsed \subseteq Nat
    /\ Blocking \in BOOLEAN

VARIABLES
    threads,              \* [slot -> thread]
    next_thread_id,
    current,              \* id of the running thread, 0 before init
    idle,                 \* id of the idle thread, 0 before init
    min_virtual_runtime,
    need_reschedule,
    initialized,
    first_thread,         \* head of the kernel process's thread list
    thread_count

vars == <<threads, next_thread_id, current, idle, min_virtual_runtime,
          need_reschedule, initialized, first_thread, thread_count>>

State == {"Ready", "Running", "Blocked"}

Thread == [id : 0..MAX_ID, state : State, weight : Nat,
           virtual_runtime : 0..MAX_RUNTIME, process_next : 0..MAX_ID,
           idle : BOOLEAN]

Vacant == [id |-> 0, state |-> "Ready", weight |-> 0, virtual_runtime |-> 0,
           process_next |-> 0, idle |-> FALSE]

Occupied == {i \in Slots : threads[i].id # 0}

\* Scheduler::thread and thread_mut: the first slot with the id.
slot(id) ==
    CHOOSE i \in Slots :
        /\ threads[i].id = id
        /\ \A j \in Slots : j < i => threads[j].id # id

-----------------------------------------------------------------------------
Init ==
    /\ threads = [i \in Slots |-> Vacant]
    /\ next_thread_id = 1
    /\ current = 0
    /\ idle = 0
    /\ min_virtual_runtime = 0
    /\ need_reschedule = FALSE
    /\ initialized = FALSE
    /\ first_thread = 0
    /\ thread_count = 0

\* Thread::new, and add_thread of the process.
NewThread(weight, runtime, is_idle) ==
    [id |-> next_thread_id, state |-> "Ready", weight |-> weight,
     virtual_runtime |-> runtime, process_next |-> first_thread,
     idle |-> is_idle]

\* Mutant: the counter is not advanced.
NextId_same == next_thread_id

\* wrapping_add(1).max(1)
NextId == IF next_thread_id = MAX_ID THEN 1 ELSE next_thread_id + 1

\* The idle thread starts as the current one.
init_with_idle_thread ==
    /\ ~initialized
    /\ threads' = [threads EXCEPT ![1] =
           [NewThread(SCHED_MIN_WEIGHT, 0, TRUE) EXCEPT !.state = "Running"]]
    /\ first_thread' = next_thread_id
    /\ thread_count' = 1
    /\ next_thread_id' = NextId
    /\ idle' = next_thread_id
    /\ current' = next_thread_id
    /\ initialized' = TRUE
    /\ UNCHANGED <<min_virtual_runtime, need_reschedule>>

\* Mutant: a new thread starts at zero however far the others have run.
start_runtime_zero == 0

start_runtime == min_virtual_runtime

\* add_thread puts the new thread at the head of its process's list.
enlist == next_thread_id

\* KernelProcess::spawn: insert_thread takes the first vacant slot.
spawn(weight) ==
    /\ initialized
    /\ \E i \in Slots :
          /\ i \notin Occupied
          /\ \A j \in Slots : j < i => j \in Occupied
          /\ threads' = [threads EXCEPT ![i] =
                             NewThread(weight, start_runtime, FALSE)]
    /\ first_thread' = enlist
    /\ thread_count' = thread_count + 1
    /\ next_thread_id' = NextId
    /\ UNCHANGED <<current, idle, min_virtual_runtime, need_reschedule, initialized>>

\* ThreadTableFull: the id is used up all the same.
spawn_table_full ==
    /\ initialized
    /\ Occupied = Slots
    /\ next_thread_id' = NextId
    /\ UNCHANGED <<threads, current, idle, min_virtual_runtime, need_reschedule,
                   initialized, first_thread, thread_count>>

-----------------------------------------------------------------------------
\* The threads best_ready_thread chooses from.
Candidates == {i \in Occupied : threads[i].state = "Ready" /\ ~threads[i].idle}

\* min_by_key on (virtual_runtime, id).
Before(i, j) ==
    \/ threads[i].virtual_runtime < threads[j].virtual_runtime
    \/ /\ threads[i].virtual_runtime = threads[j].virtual_runtime
       /\ threads[i].id <= threads[j].id

\* Mutant: the oldest ready thread, however much it has run.
best_ready_thread_oldest ==
    CHOOSE i \in Candidates : \A j \in Candidates : threads[i].id <= threads[j].id

best_ready_thread == CHOOSE i \in Candidates : \A j \in Candidates : Before(i, j)

\* The virtual runtime of slot i after elapsed ticks: the weighted time is
\* clamped to a u64, the sum saturates.
charged(i, elapsed) ==
    LET sum == threads[i].virtual_runtime
                 + (SCHED_TIME_SLICE_NS * elapsed * SCHED_BASE_WEIGHT)
                     \div threads[i].weight
    IN  IF sum > MAX_RUNTIME THEN MAX_RUNTIME ELSE sum

\* The smallest runtime of the threads that compete for the CPU; the idle
\* thread does not.
next_min(runtime, is_idle) ==
    IF Candidates = {} THEN IF is_idle THEN 0 ELSE runtime
    ELSE LET best == threads[best_ready_thread].virtual_runtime
         IN  IF is_idle \/ best < runtime THEN best ELSE runtime

outrun(runtime) ==
    /\ Candidates # {}
    /\ runtime > threads[best_ready_thread].virtual_runtime

tick(elapsed) ==
    /\ initialized
    /\ elapsed # 0
    /\ LET i == slot(current)
           runtime == charged(i, elapsed)
           floor == next_min(runtime, threads[i].idle)
       IN  /\ threads' = [threads EXCEPT ![i].virtual_runtime = runtime]
           /\ need_reschedule' = (need_reschedule \/ outrun(runtime))
           /\ min_virtual_runtime' =
                  IF floor > min_virtual_runtime THEN floor ELSE min_virtual_runtime
    /\ UNCHANGED <<next_thread_id, current, idle, initialized, first_thread,
                   thread_count>>

\* tick(0) and tick before init change nothing.
tick_ignored(elapsed) ==
    /\ elapsed = 0 \/ ~initialized
    /\ UNCHANGED vars

\* Mutant: the previous thread stays Running.
schedule_keeps_running(table, runnable) ==
    LET next == IF runnable = {} THEN idle ELSE table[best_ready_thread].id
    IN  IF next = current
        THEN threads' = table /\ UNCHANGED current
        ELSE /\ threads' = [table EXCEPT ![slot(next)].state = "Running"]
             /\ current' = next

\* The state changes of schedule: table is the thread table it finds.
schedule(table, runnable) ==
    LET next == IF runnable = {} THEN idle ELSE table[best_ready_thread].id
    IN  IF next = current
        THEN threads' = table /\ UNCHANGED current
        ELSE /\ threads' =
                   [i \in Slots |->
                      IF i = slot(current) /\ table[i].state = "Running"
                      THEN [table[i] EXCEPT !.state = "Ready"]
                      ELSE IF i = slot(next)
                           THEN [table[i] EXCEPT !.state = "Running"]
                           ELSE table[i]]
             /\ current' = next

\* preempt_contexts, and maybe_reschedule, which does the same to the state.
preempt_contexts ==
    /\ initialized
    /\ need_reschedule
    /\ need_reschedule' = FALSE
    /\ schedule(threads, Candidates)
    /\ UNCHANGED <<next_thread_id, idle, min_virtual_runtime, initialized,
                   first_thread, thread_count>>

\* No rescheduling is due.
preempt_not_needed ==
    /\ ~(initialized /\ need_reschedule)
    /\ UNCHANGED vars

\* enter_idle_contexts, called by the boot code, which runs as the idle thread.
enter_idle_contexts ==
    /\ initialized
    /\ current = idle
    /\ threads' = [threads EXCEPT ![slot(idle)].state = "Running"]
    /\ current' = idle
    /\ UNCHANGED <<next_thread_id, idle, min_virtual_runtime, need_reschedule,
                   initialized, first_thread, thread_count>>

\* The running thread blocks; the idle thread does not.
block_current ==
    /\ Blocking
    /\ initialized
    /\ current # idle
    /\ schedule([threads EXCEPT ![slot(current)].state = "Blocked"], Candidates)
    /\ UNCHANGED <<next_thread_id, idle, min_virtual_runtime, need_reschedule,
                   initialized, first_thread, thread_count>>

\* Mutant: a thread wakes with the runtime it blocked with.
woken_unchanged(i) == threads[i].virtual_runtime

\* A woken thread is not paid for the time it was blocked.
woken(i) ==
    IF threads[i].virtual_runtime < min_virtual_runtime
    THEN min_virtual_runtime ELSE threads[i].virtual_runtime

wake(i) ==
    /\ Blocking
    /\ i \in Occupied
    /\ threads[i].state = "Blocked"
    /\ threads' = [threads EXCEPT ![i].state = "Ready",
                                  ![i].virtual_runtime = woken(i)]
    /\ UNCHANGED <<next_thread_id, current, idle, min_virtual_runtime,
                   need_reschedule, initialized, first_thread, thread_count>>

Next ==
    \/ init_with_idle_thread
    \/ \E weight \in Weights : spawn(weight)
    \/ spawn_table_full
    \/ \E elapsed \in Elapsed : tick(elapsed) \/ tick_ignored(elapsed)
    \/ preempt_contexts \/ preempt_not_needed
    \/ enter_idle_contexts
    \/ block_current
    \/ \E i \in Slots : wake(i)

Spec == Init /\ [][Next]_vars

-----------------------------------------------------------------------------
\* An id names one thread, although the id counter wraps and failed spawns use
\* ids up: slot(id) finds the thread the id was given to.
IdsUnique ==
    \A i, j \in Occupied : threads[i].id = threads[j].id => i = j

\* Exactly the thread `current` names is Running, whatever order ticks, switches,
\* spawns, blocks and wakes come in.
OneRunning ==
    initialized =>
        \A i \in Occupied : threads[i].state = "Running" <=> threads[i].id = current

\* No thread that competes for the CPU is behind min_virtual_runtime: a thread
\* that is spawned or wakes there starts level with the one furthest behind, and
\* neither monopolises the CPU nor waits for the others to catch up.
RunnableAboveFloor ==
    \A i \in Occupied :
        threads[i].state # "Blocked" /\ ~threads[i].idle =>
            threads[i].virtual_runtime >= min_virtual_runtime

\* The kernel process's list, whose links are ids, starts at first_thread and
\* visits every thread of the table once, newest first; IdsUnique is part of it,
\* for add_thread links the threads by what NextId hands out.
ProcessListExact ==
    /\ IdsUnique
    /\ thread_count = Cardinality(Occupied)
    /\ first_thread # 0 => \E i \in Occupied : threads[i].id = first_thread
    /\ first_thread = 0 <=> Occupied = {}
    /\ \A i \in Occupied :
          /\ threads[i].process_next # 0 =>
                \E j \in Occupied : j < i /\ threads[j].id = threads[i].process_next
          /\ Cardinality({j \in Occupied : threads[j].process_next = threads[i].id})
               = IF threads[i].id = first_thread THEN 0 ELSE 1
=============================================================================
