-------------------------- MODULE Scheduler_proofs --------------------------
(***************************************************************************)
(* The safety invariants of Scheduler, for any size of the thread table,   *)
(* any weights and any tick, with and without the test-only operations.    *)
(*                                                                         *)
(* Ids wrap, but no thread is removed and the table is smaller than the    *)
(* range of ids, so that the thread in slot i has id i: the list of the    *)
(* process is the table read backwards, and slot(id) is the identity.      *)
(***************************************************************************)
EXTENDS Scheduler, FiniteSetTheorems, WellFoundedInduction, TLAPS

\* A nonempty set of natural numbers has a least element.
LEMMA LeastNatural ==
    ASSUME NEW T \in SUBSET Nat, T # {}
    PROVE  \E x \in T : \A y \in T : x <= y
  <1> DEFINE Less == {ss \in Nat \X Nat : ss[1] < ss[2]}
  <1>1. IsWellFoundedOn(Less, Nat)
    BY NatLessThanWellFounded, Zenon DEF OpToRel
  <1> HIDE DEF Less
  <1>2. PICK x \in T : \A y \in T : ~(<<y, x>> \in Less)
    BY <1>1, WFMin, Zenon
  <1>3. \A y \in T : ~(y < x)
    BY <1>2 DEF Less
  <1> QED
    BY <1>3

-----------------------------------------------------------------------------
(* The inductive invariant *)

Types ==
    /\ threads \in [Slots -> Thread]
    /\ next_thread_id \in 1..MAX_ID
    /\ min_virtual_runtime \in 0..MAX_RUNTIME
    /\ need_reschedule \in BOOLEAN
    /\ initialized \in BOOLEAN
    /\ thread_count \in 0..THREADS

\* Slots fill up in order, and the counter of ids runs ahead of them by one until
\* the table is full.
Table ==
    /\ first_thread = thread_count
    /\ thread_count < THREADS => next_thread_id = thread_count + 1
    /\ \A i \in Slots :
          IF i <= thread_count
          THEN /\ threads[i].id = i
               /\ threads[i].process_next = i - 1
               /\ threads[i].idle <=> i = 1
               /\ threads[i].weight \in Weights \cup {SCHED_MIN_WEIGHT}
          ELSE threads[i] = Vacant

\* The idle thread is the first, and never blocks.
Current ==
    IF initialized
    THEN /\ idle = 1
         /\ current \in 1..thread_count
         /\ threads[1].state # "Blocked"
         /\ \A i \in 1..thread_count : threads[i].state = "Running" <=> i = current
    ELSE thread_count = 0

Floor ==
    \A i \in 2..thread_count :
        threads[i].state # "Blocked" => threads[i].virtual_runtime >= min_virtual_runtime

IInv == Types /\ Table /\ Current /\ Floor

-----------------------------------------------------------------------------
(* What the operators return in a state of the invariant *)

LEMMA OccupiedPrefix ==
    ASSUME Types, Table
    PROVE  Occupied = 1..thread_count
  BY SchedulerAssumption DEF Types, Table, Occupied, Slots, Vacant

\* slot finds the thread whose id it is given: the slot of that number.
LEMMA SlotIsId ==
    ASSUME Types, Table, NEW id \in 1..thread_count
    PROVE  slot(id) = id
  <1>1. id \in Slots /\ threads[id].id = id
    BY SchedulerAssumption DEF Types, Table, Slots
  <1>2. \A j \in Slots : threads[j].id = id => j = id
    BY SchedulerAssumption DEF Types, Table, Slots, Vacant
  <1> QED
    BY <1>1, <1>2 DEF slot, Slots

\* The ready threads that compete are exactly those of the table after the first.
LEMMA CandidateSlots ==
    ASSUME Types, Table
    PROVE  Candidates = {i \in 2..thread_count : threads[i].state = "Ready"}
  <1>1. \A i \in 1..thread_count : threads[i].idle <=> i = 1
    BY SchedulerAssumption DEF Types, Table, Slots
  <1> QED
    BY <1>1, OccupiedPrefix, SchedulerAssumption DEF Types, Candidates

\* best_ready_thread is the candidate that has run least, by id among equals.
LEMMA BestIsFirst ==
    ASSUME Types, Table, Candidates # {}
    PROVE  /\ best_ready_thread \in Candidates
           /\ \A j \in Candidates : Before(best_ready_thread, j)
  <1> DEFINE Runtimes == {threads[i].virtual_runtime : i \in Candidates}
  <1>0. /\ Candidates \subseteq 2..thread_count
        /\ \A i \in Candidates : threads[i].virtual_runtime \in Nat /\ threads[i].id = i
    <2>1. \A i \in 1..thread_count : threads[i].virtual_runtime \in Nat /\ threads[i].id = i
      BY SchedulerAssumption DEF Types, Table, Slots, Thread
    <2> QED
      BY <2>1, CandidateSlots, SchedulerAssumption DEF Types
  <1>1. Runtimes \subseteq Nat /\ Runtimes # {}
    BY <1>0
  <1>2. PICK least \in Runtimes : \A r \in Runtimes : least <= r
    BY <1>1, LeastNatural
  <1> DEFINE First == {i \in Candidates : threads[i].virtual_runtime = least}
  <1>3. First \subseteq Nat /\ First # {}
    <2>1. Candidates \subseteq Nat
      BY <1>0, SchedulerAssumption DEF Types
    <2>2. \E i \in Candidates : threads[i].virtual_runtime = least
      BY <1>2
    <2> QED
      BY <2>1, <2>2
  <1>4. PICK i \in First : \A j \in First : i <= j
    BY <1>3, LeastNatural
  <1>5. \A j \in Candidates : Before(i, j)
    BY <1>0, <1>2, <1>4 DEF Before
  <1> QED
    BY <1>4, <1>5 DEF best_ready_thread

\* A tick never takes runtime away, nor past the largest.
LEMMA ChargedGrows ==
    ASSUME Types, Table, NEW i \in 1..thread_count, NEW elapsed \in Nat
    PROVE  /\ charged(i, elapsed) \in 0..MAX_RUNTIME
           /\ charged(i, elapsed) >= threads[i].virtual_runtime
  <1> DEFINE work == SCHED_TIME_SLICE_NS * elapsed * SCHED_BASE_WEIGHT
             runtime == threads[i].virtual_runtime
             weight == threads[i].weight
  <1>1. /\ runtime \in 0..MAX_RUNTIME
        /\ weight \in Nat \ {0}
    BY SchedulerAssumption DEF Types, Table, Slots, Thread
  <1>2. work \in Nat
    BY SchedulerAssumption
  <1> HIDE DEF work, weight, runtime
  <1>3. work \div weight \in Nat
    BY <1>1, <1>2
  <1>4. charged(i, elapsed) = IF runtime + (work \div weight) > MAX_RUNTIME
                              THEN MAX_RUNTIME ELSE runtime + (work \div weight)
    BY DEF charged, work, weight, runtime
  <1>5. /\ charged(i, elapsed) \in 0..MAX_RUNTIME
        /\ charged(i, elapsed) >= runtime
    BY <1>1, <1>3, <1>4, SchedulerAssumption
  <1> QED
    BY <1>5 DEF runtime

-----------------------------------------------------------------------------
(* Steps that only change the state and the runtime of threads *)

\* The thread keeps its identity.
Same(t, u) ==
    /\ t.id = u.id /\ t.weight = u.weight
    /\ t.process_next = u.process_next /\ t.idle = u.idle

LEMMA SameSelf == \A t : Same(t, t)
  BY Zenon DEF Same

\* A change of state is such a step.
LEMMA SetState ==
    ASSUME NEW t \in Thread, NEW s \in State, NEW u, u = [t EXCEPT !.state = s]
    PROVE  /\ u \in Thread /\ u.state = s
           /\ Same(u, t) /\ u.virtual_runtime = t.virtual_runtime
  <1>1. u \in Thread /\ u.state = s
    BY SMTT(30) DEF Thread
  <1>2. u.id = t.id /\ u.weight = t.weight /\ u.virtual_runtime = t.virtual_runtime
    BY SMTT(30) DEF Thread
  <1>3. u.process_next = t.process_next /\ u.idle = t.idle
    BY SMTT(30) DEF Thread
  <1> QED
    BY <1>1, <1>2, <1>3, Zenon DEF Same

\* Such a step preserves the structure of the table.
LEMMA SameTable ==
    ASSUME Types, Table,
           threads' \in [Slots -> Thread],
           \A i \in 1..thread_count : Same(threads'[i], threads[i]),
           \A i \in Slots : i > thread_count => threads'[i] = threads[i],
           UNCHANGED <<next_thread_id, first_thread, thread_count>>
    PROVE  Table'
  <1>1. \A i \in Slots : i <= thread_count =>
          /\ threads'[i].id = i
          /\ threads'[i].process_next = i - 1
          /\ threads'[i].weight \in Weights \cup {SCHED_MIN_WEIGHT}
    BY SchedulerAssumption DEF Types, Table, Same, Slots
  <1>2. \A i \in Slots : i <= thread_count => (threads'[i].idle <=> i = 1)
    <2>1. \A i \in Slots : i <= thread_count =>
            threads'[i].idle = threads[i].idle /\ (threads[i].idle <=> i = 1)
      BY SchedulerAssumption DEF Types, Table, Same, Slots
    <2> QED
      BY <2>1, Zenon
  <1>3. \A i \in Slots : ~(i <= thread_count) => threads'[i] = Vacant
    BY SchedulerAssumption DEF Types, Table, Slots
  <1> QED
    BY <1>1, <1>2, <1>3 DEF Table

\* schedule, called with the table as it is or with the current thread blocked:
\* one thread comes out running, and no thread changes but in its state.
LEMMA ScheduleStep ==
    ASSUME IInv, initialized,
           NEW table \in [Slots -> Thread],
           \A i \in Slots : i # current => table[i] = threads[i],
           Same(table[current], threads[current]),
           table[current].virtual_runtime = threads[current].virtual_runtime,
           \/ table[current].state = "Running"
           \/ table[current].state = "Blocked" /\ current # 1,
           schedule(table, Candidates)
    PROVE  /\ threads' \in [Slots -> Thread]
           /\ \A i \in 1..thread_count : Same(threads'[i], threads[i])
           /\ \A i \in Slots : i > thread_count => threads'[i] = threads[i]
           /\ current' \in 1..thread_count
           /\ threads'[1].state # "Blocked"
           /\ \A i \in 1..thread_count : threads'[i].state = "Running" <=> i = current'
           /\ \A i \in 1..thread_count :
                 /\ threads'[i].virtual_runtime = threads[i].virtual_runtime
                 /\ threads[i].state = "Blocked" => threads'[i].state = "Blocked"
  <1> DEFINE next == IF Candidates = {} THEN idle ELSE table[best_ready_thread].id
  <1>0. /\ thread_count \in 1..THREADS /\ Slots = 1..THREADS
        /\ 1..thread_count \subseteq Slots
        /\ idle = 1 /\ current \in 1..thread_count
        /\ threads[1].state # "Blocked"
        /\ \A i \in 1..thread_count : threads[i].id = i
        /\ \A i \in 1..thread_count : threads[i].state = "Running" <=> i = current
    BY SchedulerAssumption DEF IInv, Types, Table, Current, Slots
  <1>1. /\ next \in 1..thread_count
        /\ next # current => next = 1 \/ threads[next].state = "Ready"
        /\ next = current => current = 1
    <2>1. CASE Candidates = {}
      BY <1>0, <2>1
    <2>2. CASE Candidates # {}
      <3>1. best_ready_thread \in 2..thread_count /\ threads[best_ready_thread].state = "Ready"
        BY <2>2, BestIsFirst, CandidateSlots DEF IInv
      <3>2. best_ready_thread # current
        BY <3>1, <1>0
      <3>3. table[best_ready_thread].id = best_ready_thread
        BY <3>1, <3>2, <1>0
      <3> QED
        BY <3>1, <3>2, <3>3, <2>2
    <2> QED
      BY <2>1, <2>2
  <1>2. slot(current) = current /\ slot(next) = next
    BY <1>0, <1>1, SlotIsId DEF IInv
  <1>3. CASE next = current
    <2>1. threads' = table /\ current' = current
      BY <1>3 DEF schedule
    <2>2. table[current].state = "Running"
      BY <1>1, <1>3
    <2> QED
      BY <1>0, <1>1, <1>3, <2>1, <2>2 DEF Same
  <1>4. CASE next # current
    <2>1. /\ current' = next
          /\ threads' = [i \in Slots |->
                           IF i = current /\ table[i].state = "Running"
                           THEN [table[i] EXCEPT !.state = "Ready"]
                           ELSE IF i = next THEN [table[i] EXCEPT !.state = "Running"]
                           ELSE table[i]]
      BY <1>2, <1>4 DEF schedule
    <2> HIDE DEF next
    <2>2. /\ threads'[current].state \in {"Ready", "Blocked"}
          /\ threads'[current].state = "Blocked" => current # 1
          /\ Same(threads'[current], threads[current])
          /\ threads'[current].virtual_runtime = threads[current].virtual_runtime
          /\ threads'[current] \in Thread
      <3>1. table[current] \in Thread /\ current \in Slots /\ "Ready" \in State
        BY <1>0 DEF State
      <3>2. CASE table[current].state = "Running"
        <4>1. threads'[current] = [table[current] EXCEPT !.state = "Ready"]
          BY <2>1, <3>1, <3>2
        <4>2. /\ threads'[current] \in Thread /\ threads'[current].state = "Ready"
              /\ Same(threads'[current], table[current])
              /\ threads'[current].virtual_runtime = table[current].virtual_runtime
          BY <3>1, <4>1, SetState
        <4>3. Same(threads'[current], threads[current])
          BY <4>2, Zenon DEF Same
        <4> QED
          BY <4>2, <4>3
      <3>3. CASE table[current].state = "Blocked" /\ current # 1
        <4>1. threads'[current] = table[current]
          BY <1>4, <2>1, <3>1, <3>3
        <4> QED
          BY <3>1, <3>3, <4>1
      <3> QED
        BY <3>2, <3>3
    <2>3. /\ threads'[next] = [threads[next] EXCEPT !.state = "Running"]
          /\ threads'[next].state = "Running"
          /\ Same(threads'[next], threads[next])
          /\ threads'[next].virtual_runtime = threads[next].virtual_runtime
          /\ threads'[next] \in Thread
      <3>1. next \in Slots /\ threads[next] \in Thread /\ "Running" \in State
        BY <1>0, <1>1 DEF IInv, Types, State
      <3>2. threads'[next] = [threads[next] EXCEPT !.state = "Running"]
        BY <1>4, <2>1, <3>1
      <3> QED
        BY <3>1, <3>2, SetState
    <2>4. \A i \in Slots : i # current /\ i # next => threads'[i] = threads[i]
      BY <1>0, <2>1
    <2>5. threads' \in [Slots -> Thread]
      BY <2>1, <2>2, <2>3, <2>4, <1>0 DEF IInv, Types
    <2>6. \A i \in 1..thread_count :
            /\ Same(threads'[i], threads[i])
            /\ threads'[i].virtual_runtime = threads[i].virtual_runtime
      BY <1>0, <2>2, <2>3, <2>4, SameSelf
    <2>7. \A i \in Slots : i > thread_count => threads'[i] = threads[i]
      BY <1>0, <1>1, <2>4
    <2>8. \A i \in 1..thread_count : threads'[i].state = "Running" <=> i = current'
      <3>1. threads'[current].state # "Running" /\ threads'[next].state = "Running"
        BY <2>2, <2>3
      <3>2. \A i \in 1..thread_count : i # current /\ i # next => threads'[i].state # "Running"
        BY <1>0, <2>4
      <3> QED
        BY <1>4, <2>1, <3>1, <3>2
    <2>9. threads'[1].state # "Blocked"
      <3>1. CASE current = 1
        BY <3>1, <2>2
      <3>2. CASE next = 1
        BY <3>2, <2>3
      <3>3. CASE current # 1 /\ next # 1
        BY <3>3, <1>0, <2>4
      <3> QED
        BY <3>1, <3>2, <3>3
    <2>10. \A i \in 1..thread_count : threads[i].state = "Blocked" => threads'[i].state = "Blocked"
      <3>1. threads[next].state # "Blocked" /\ threads[current].state # "Blocked"
        BY <1>0, <1>1, <1>4
      <3> QED
        BY <1>0, <2>4, <3>1
    <2> QED
      BY <1>1, <2>1, <2>5, <2>6, <2>7, <2>8, <2>9, <2>10
  <1> QED
    BY <1>3, <1>4

-----------------------------------------------------------------------------
(* The invariant, action by action *)

LEMMA InitStep == Init => IInv
  <1> SUFFICES ASSUME Init PROVE IInv
    OBVIOUS
  <1>1. Types
    <2>1. Vacant \in Thread
      BY SchedulerAssumption DEF Thread, State, Vacant
    <2>2. threads \in [Slots -> Thread]
      BY <2>1 DEF Init
    <2>3. 1 \in 1..MAX_ID /\ 0 \in 0..MAX_RUNTIME /\ 0 \in 0..THREADS
      BY SchedulerAssumption
    <2> QED
      BY <2>2, <2>3 DEF Init, Types
  <1>2. Table
    BY SchedulerAssumption DEF Init, Table, Slots
  <1>3. Current /\ Floor
    BY DEF Init, Current, Floor
  <1> QED
    BY <1>1, <1>2, <1>3 DEF IInv

\* The counter of ids stays in range, and does not wrap before the table is full.
LEMMA NextIdType ==
    ASSUME Types, Table
    PROVE  /\ NextId \in 1..MAX_ID
           /\ thread_count < THREADS => NextId = thread_count + 2
  BY SchedulerAssumption DEF Types, Table, NextId

LEMMA InitIdleStep == IInv /\ init_with_idle_thread => IInv'
  <1> SUFFICES ASSUME IInv, init_with_idle_thread PROVE IInv'
    OBVIOUS
  <1> DEFINE new == [NewThread(SCHED_MIN_WEIGHT, 0, TRUE) EXCEPT !.state = "Running"]
  <1>0. /\ ~initialized /\ thread_count = 0 /\ next_thread_id = 1 /\ first_thread = 0
        /\ thread_count' = 1 /\ THREADS \in Nat \ {0} /\ 1 \in Slots /\ Slots = 1..THREADS
        /\ NextId = 2 /\ 2 \in 1..MAX_ID
    BY SchedulerAssumption DEF IInv, Types, Table, Current, init_with_idle_thread, Slots, NextId
  <1>1. /\ new.id = 1 /\ new.process_next = 0 /\ new.idle = TRUE
        /\ new.weight = SCHED_MIN_WEIGHT /\ new.state = "Running" /\ new \in Thread
    <2>1. NewThread(SCHED_MIN_WEIGHT, 0, TRUE) \in Thread
      BY <1>0, SchedulerAssumption DEF NewThread, Thread, State
    <2>2. new \in Thread /\ new.state = "Running"
      BY <2>1 DEF Thread, State
    <2>3. new.id = 1 /\ new.process_next = 0 /\ new.weight = SCHED_MIN_WEIGHT
      BY <1>0 DEF NewThread
    <2>4. new.idle = TRUE
      BY Zenon DEF NewThread
    <2> QED
      BY <2>2, <2>3, <2>4
  <1>2. threads' = [threads EXCEPT ![1] = new]
    BY DEF init_with_idle_thread
  <1> HIDE DEF new
  <1>3. Types'
    <2>1. threads' \in [Slots -> Thread]
      BY <1>0, <1>1, <1>2 DEF IInv, Types
    <2>2. /\ next_thread_id' = 2 /\ initialized' = TRUE
          /\ UNCHANGED <<min_virtual_runtime, need_reschedule>>
      BY <1>0 DEF init_with_idle_thread
    <2> QED
      BY <2>1, <2>2, <1>0 DEF IInv, Types
  <1>4. Table'
    <2>1. \A i \in Slots : i # 1 => threads'[i] = Vacant
      BY <1>0, <1>2 DEF IInv, Types, Table
    <2>2. threads'[1] = new
      BY <1>0, <1>2 DEF IInv, Types
    <2>3. threads'[1].idle
      BY <2>2, <1>1
    <2>4. first_thread' = 1 /\ next_thread_id' = 2
      BY <1>0 DEF init_with_idle_thread
    <2> QED
      BY <2>1, <2>2, <2>3, <2>4, <1>0, <1>1, SchedulerAssumption DEF Table
  <1>5. Current' /\ Floor'
    BY <1>0, <1>1, <1>2 DEF IInv, Types, Current, Floor, init_with_idle_thread
  <1> QED
    BY <1>3, <1>4, <1>5 DEF IInv

\* spawn takes the slot after the last that is occupied.
LEMMA SpawnSlot ==
    ASSUME IInv, NEW weight, spawn(weight)
    PROVE  /\ thread_count < THREADS
           /\ threads' = [threads EXCEPT ![thread_count + 1] =
                              NewThread(weight, start_runtime, FALSE)]
  <1>1. /\ Occupied = 1..thread_count /\ Slots = 1..THREADS
        /\ thread_count \in 0..THREADS /\ THREADS \in Nat
    BY OccupiedPrefix, SchedulerAssumption DEF IInv, Types, Slots
  <1>2. PICK i \in Slots :
          /\ i \notin Occupied
          /\ \A j \in Slots : j < i => j \in Occupied
          /\ threads' = [threads EXCEPT ![i] = NewThread(weight, start_runtime, FALSE)]
    BY DEF spawn
  <1>3. i = thread_count + 1
    BY <1>1, <1>2
  <1> QED
    BY <1>1, <1>2, <1>3

LEMMA SpawnStep == ASSUME NEW weight \in Weights PROVE IInv /\ spawn(weight) => IInv'
  <1> SUFFICES ASSUME IInv, spawn(weight) PROVE IInv'
    OBVIOUS
  <1> DEFINE n == thread_count + 1
             new == NewThread(weight, start_runtime, FALSE)
  <1>0. /\ initialized /\ Slots = 1..THREADS /\ THREADS \in Nat
        /\ thread_count \in 1..THREADS
        /\ weight \in Nat \ {0}
        /\ Occupied = 1..thread_count
    BY OccupiedPrefix, SchedulerAssumption DEF IInv, Types, Current, Slots, spawn
  <1>1. thread_count < THREADS /\ threads' = [threads EXCEPT ![n] = new]
    BY SpawnSlot
  <1>2. /\ next_thread_id = n /\ first_thread = thread_count
        /\ first_thread' = n /\ thread_count' = n
        /\ next_thread_id' = NextId
        /\ UNCHANGED <<current, idle, min_virtual_runtime, need_reschedule, initialized>>
    BY <1>0, <1>1 DEF IInv, Table, spawn, enlist
  <1>3. /\ new.id = n /\ new.process_next = n - 1 /\ new.idle = FALSE
        /\ new.weight = weight /\ new.state = "Ready"
        /\ new.virtual_runtime = min_virtual_runtime /\ new \in Thread
    BY <1>0, <1>1, <1>2, SchedulerAssumption
       DEF NewThread, Thread, State, IInv, Types, start_runtime
  <1>4. n \in Slots /\ n \in 2..THREADS
    BY <1>0, <1>1
  <1> HIDE DEF new
  <1>5. threads'[n] = new /\ \A i \in Slots : i # n => threads'[i] = threads[i]
    BY <1>1, <1>4 DEF IInv, Types
  <1>6. Types'
    BY <1>0, <1>1, <1>2, <1>3, <1>4, NextIdType DEF IInv, Types
  <1>7. Table'
    <2>1. thread_count' < THREADS => next_thread_id' = thread_count' + 1
      BY <1>0, <1>1, <1>2, NextIdType DEF IInv
    <2>2. \A i \in Slots : i <= n =>
            /\ threads'[i].id = i
            /\ threads'[i].process_next = i - 1
            /\ threads'[i].weight \in Weights \cup {SCHED_MIN_WEIGHT}
      <3>1. threads'[n].id = n /\ threads'[n].process_next = n - 1 /\ threads'[n].weight \in Weights
        BY <1>0, <1>3, <1>5
      <3>2. \A i \in Slots : i <= thread_count =>
              /\ threads'[i].id = i
              /\ threads'[i].process_next = i - 1
              /\ threads'[i].weight \in Weights \cup {SCHED_MIN_WEIGHT}
        <4>1. \A i \in Slots : i <= thread_count => threads'[i] = threads[i]
          BY <1>0, <1>5
        <4> QED
          BY <4>1 DEF IInv, Table
      <3>3. \A i \in Slots : i <= n => i = n \/ i <= thread_count
        BY <1>0
      <3> QED
        BY <3>1, <3>2, <3>3
    <2>3. \A i \in Slots : i <= n => (threads'[i].idle <=> i = 1)
      <3>1. threads'[n].idle = FALSE /\ n # 1
        BY <1>0, <1>3, <1>5
      <3>2. \A i \in Slots : i <= n /\ i # n =>
              threads'[i].idle = threads[i].idle /\ (threads[i].idle <=> i = 1)
        BY <1>0, <1>5 DEF IInv, Table
      <3> QED
        BY <3>1, <3>2, Zenon
    <2>4. \A i \in Slots : ~(i <= n) => threads'[i] = Vacant
      BY <1>0, <1>5 DEF IInv, Table
    <2> QED
      BY <2>1, <2>2, <2>3, <2>4, <1>2, Zenon DEF Table
  <1>8. Current'
    BY <1>0, <1>2, <1>3, <1>4, <1>5 DEF IInv, Current
  <1>9. Floor'
    BY <1>0, <1>2, <1>3, <1>4, <1>5, SchedulerAssumption DEF IInv, Types, Floor
  <1> QED
    BY <1>6, <1>7, <1>8, <1>9 DEF IInv

LEMMA TableFullStep == IInv /\ spawn_table_full => IInv'
  <1> SUFFICES ASSUME IInv, spawn_table_full PROVE IInv'
    OBVIOUS
  <1>1. thread_count = THREADS
    BY OccupiedPrefix, SchedulerAssumption DEF IInv, Types, Slots, spawn_table_full
  <1>2. Types'
    BY NextIdType DEF IInv, Types, spawn_table_full
  <1>3. Table'
    BY <1>1, SchedulerAssumption DEF IInv, Types, Table, spawn_table_full
  <1> QED
    BY <1>2, <1>3 DEF IInv, Current, Floor, spawn_table_full

\* A tick raises the floor at most to the runtime of the thread furthest behind.
LEMMA TickStep == ASSUME NEW elapsed \in Elapsed PROVE IInv /\ tick(elapsed) => IInv'
  <1> SUFFICES ASSUME IInv, tick(elapsed) PROVE IInv'
    OBVIOUS
  <1> DEFINE runtime == charged(current, elapsed)
             floor == next_min(runtime, threads[current].idle)
  <1>0. /\ initialized /\ Slots = 1..THREADS /\ THREADS \in Nat
        /\ thread_count \in 1..THREADS /\ current \in 1..thread_count /\ current \in Slots
        /\ elapsed \in Nat /\ MAX_RUNTIME \in Nat
        /\ min_virtual_runtime \in 0..MAX_RUNTIME
        /\ \A i \in 1..thread_count : threads[i].virtual_runtime \in 0..MAX_RUNTIME
    BY SchedulerAssumption DEF IInv, Types, Current, Slots, tick, Thread
  <1>1. slot(current) = current
    BY <1>0, SlotIsId DEF IInv
  <1>2. /\ threads' = [threads EXCEPT ![current].virtual_runtime = runtime]
        /\ need_reschedule' = (need_reschedule \/ outrun(runtime))
        /\ min_virtual_runtime' =
               IF floor > min_virtual_runtime THEN floor ELSE min_virtual_runtime
        /\ UNCHANGED <<next_thread_id, current, idle, initialized, first_thread,
                       thread_count>>
    BY <1>1 DEF tick
  <1>3. runtime \in 0..MAX_RUNTIME /\ runtime >= threads[current].virtual_runtime
    BY <1>0, ChargedGrows DEF IInv
  <1>4. /\ threads'[current] = [threads[current] EXCEPT !.virtual_runtime = runtime]
        /\ \A i \in Slots : i # current => threads'[i] = threads[i]
    BY <1>0, <1>2 DEF IInv, Types
  <1>5. threads[current].idle <=> current = 1
    BY <1>0 DEF IInv, Table
  <1>6. \A i \in Candidates : i \in 2..thread_count /\ threads[i].state = "Ready"
                              /\ threads[i].virtual_runtime \in 0..MAX_RUNTIME
    BY <1>0, CandidateSlots DEF IInv
  <1>7. /\ floor \in 0..MAX_RUNTIME
        /\ \A i \in Candidates : floor <= threads[i].virtual_runtime
        /\ current # 1 => floor <= runtime
    <2>1. CASE Candidates = {}
      BY <2>1, <1>0, <1>3, <1>5 DEF next_min
    <2>2. CASE Candidates # {}
      <3> DEFINE best == threads[best_ready_thread].virtual_runtime
      <3>1. best \in 0..MAX_RUNTIME /\ \A i \in Candidates : best <= threads[i].virtual_runtime
        BY <2>2, <1>0, <1>6, BestIsFirst DEF IInv, Before
      <3>2. floor = IF current = 1 \/ best < runtime THEN best ELSE runtime
        BY <2>2, <1>5 DEF next_min
      <3> HIDE DEF best, floor, runtime
      <3> QED
        BY <3>1, <3>2, <1>0, <1>3, <1>6
    <2> QED
      BY <2>1, <2>2
  <1> HIDE DEF runtime, floor
  <1>8. threads' \in [Slots -> Thread]
    <2>1. threads'[current] \in Thread
      BY <1>0, <1>3, <1>4 DEF IInv, Types, Thread
    <2> QED
      BY <2>1, <1>0, <1>2, <1>4 DEF IInv, Types
  <1>9. Types'
    BY <1>0, <1>2, <1>7, <1>8 DEF IInv, Types
  <1>10. \A i \in 1..thread_count : Same(threads'[i], threads[i])
                                    /\ threads'[i].state = threads[i].state
    <2>1. Same(threads'[current], threads[current]) /\ threads'[current].state = threads[current].state
      <3>1. threads[current] \in Thread
        BY <1>0 DEF IInv, Types
      <3>2. /\ threads'[current].id = threads[current].id
            /\ threads'[current].weight = threads[current].weight
            /\ threads'[current].process_next = threads[current].process_next
            /\ threads'[current].state = threads[current].state
        BY <3>1, <1>4 DEF Thread
      <3>3. threads'[current].idle = threads[current].idle
        BY <3>1, <1>4, Zenon DEF Thread
      <3> QED
        BY <3>2, <3>3 DEF Same
    <2> QED
      <3> SUFFICES ASSUME NEW i \in 1..thread_count, i # current
                   PROVE  Same(threads'[i], threads[i]) /\ threads'[i].state = threads[i].state
        BY <2>1
      <3>1. threads'[i] = threads[i]
        BY <1>0, <1>4
      <3> QED
        BY <3>1, SameSelf
  <1>11. Table'
    BY <1>0, <1>2, <1>4, <1>8, <1>10, SameTable DEF IInv
  <1>12. Current'
    BY <1>0, <1>2, <1>10 DEF IInv, Current
  <1>13. Floor'
    <2> SUFFICES ASSUME NEW i \in 2..thread_count, threads'[i].state # "Blocked"
                 PROVE  threads'[i].virtual_runtime >= min_virtual_runtime'
      BY <1>2 DEF Floor
    <2>1. threads[i].virtual_runtime >= min_virtual_runtime
      BY <1>0, <1>10 DEF IInv, Floor
    <2>2. CASE i = current
      <3>1. threads'[i].virtual_runtime = runtime
        BY <2>2, <1>0, <1>4 DEF IInv, Types, Thread
      <3> QED
        BY <2>1, <2>2, <3>1, <1>0, <1>2, <1>3, <1>7
    <2>3. CASE i # current
      <3>1. i \in Candidates
        <4>1. threads[i].state = "Ready"
          BY <2>3, <1>0, <1>10 DEF IInv, Types, Thread, State, Current
        <4> QED
          BY <4>1, CandidateSlots DEF IInv
      <3>2. threads'[i].virtual_runtime = threads[i].virtual_runtime
        BY <2>3, <1>0, <1>4
      <3> QED
        BY <2>1, <3>1, <3>2, <1>0, <1>2, <1>6, <1>7
    <2> QED
      BY <2>2, <2>3
  <1> QED
    BY <1>9, <1>11, <1>12, <1>13 DEF IInv

LEMMA PreemptStep == IInv /\ preempt_contexts => IInv'
  <1> SUFFICES ASSUME IInv, preempt_contexts PROVE IInv'
    OBVIOUS
  <1>0. /\ initialized /\ schedule(threads, Candidates) /\ need_reschedule' = FALSE
        /\ UNCHANGED <<next_thread_id, idle, min_virtual_runtime, initialized,
                       first_thread, thread_count>>
    BY DEF preempt_contexts
  <1>1. threads[current].state = "Running" /\ threads \in [Slots -> Thread]
    BY <1>0 DEF IInv, Types, Current
  <1>2. Same(threads[current], threads[current])
    BY DEF Same
  <1>3. /\ threads' \in [Slots -> Thread]
        /\ \A i \in 1..thread_count : Same(threads'[i], threads[i])
        /\ \A i \in Slots : i > thread_count => threads'[i] = threads[i]
        /\ current' \in 1..thread_count
        /\ threads'[1].state # "Blocked"
        /\ \A i \in 1..thread_count : threads'[i].state = "Running" <=> i = current'
        /\ \A i \in 1..thread_count :
              /\ threads'[i].virtual_runtime = threads[i].virtual_runtime
              /\ threads[i].state = "Blocked" => threads'[i].state = "Blocked"
    BY <1>0, <1>1, <1>2, ScheduleStep
  <1>4. Types'
    BY <1>0, <1>3 DEF IInv, Types
  <1>5. Table'
    BY <1>0, <1>3, SameTable DEF IInv
  <1>6. Current'
    BY <1>0, <1>3 DEF IInv, Current
  <1>7. Floor'
    BY <1>0, <1>3, SchedulerAssumption DEF IInv, Floor, Types
  <1> QED
    BY <1>4, <1>5, <1>6, <1>7 DEF IInv

LEMMA BlockStep == IInv /\ block_current => IInv'
  <1> SUFFICES ASSUME IInv, block_current PROVE IInv'
    OBVIOUS
  <1> DEFINE table == [threads EXCEPT ![current].state = "Blocked"]
  <1>0. /\ initialized /\ schedule(table, Candidates) /\ current # 1
        /\ UNCHANGED <<next_thread_id, idle, min_virtual_runtime, need_reschedule,
                       initialized, first_thread, thread_count>>
    <2>0. initialized /\ current # idle
      BY DEF block_current
    <2>2. idle = 1 /\ slot(current) = current
      BY <2>0, SlotIsId DEF IInv, Current
    <2>1. schedule(table, Candidates)
      BY <2>2, Zenon DEF block_current
    <2> QED
      BY <2>0, <2>1, <2>2, Zenon DEF block_current
  <1>1. current \in Slots /\ threads[current] \in Thread
    BY <1>0, SchedulerAssumption DEF IInv, Types, Current, Slots
  <1>2. /\ table[current] = [threads[current] EXCEPT !.state = "Blocked"]
        /\ \A i \in Slots : i # current => table[i] = threads[i]
    BY <1>1 DEF IInv, Types
  <1>4. /\ table[current] \in Thread
        /\ table[current].state = "Blocked"
        /\ table[current].virtual_runtime = threads[current].virtual_runtime
        /\ Same(table[current], threads[current])
    <2>1. "Blocked" \in State
      BY DEF State
    <2> QED
      BY <1>1, <1>2, <2>1, SetState
  <1>3. table \in [Slots -> Thread]
    BY <1>1, <1>2, <1>4 DEF IInv, Types
  <1> HIDE DEF table
  <1>6. /\ threads' \in [Slots -> Thread]
        /\ \A i \in 1..thread_count : Same(threads'[i], threads[i])
        /\ \A i \in Slots : i > thread_count => threads'[i] = threads[i]
        /\ current' \in 1..thread_count
        /\ threads'[1].state # "Blocked"
        /\ \A i \in 1..thread_count : threads'[i].state = "Running" <=> i = current'
        /\ \A i \in 1..thread_count :
              /\ threads'[i].virtual_runtime = threads[i].virtual_runtime
              /\ threads[i].state = "Blocked" => threads'[i].state = "Blocked"
    BY <1>0, <1>2, <1>3, <1>4, ScheduleStep
  <1>7. Types'
    BY <1>0, <1>6 DEF IInv, Types
  <1>8. Table'
    BY <1>0, <1>6, SameTable DEF IInv
  <1>9. Current'
    BY <1>0, <1>6 DEF IInv, Current
  <1>10. Floor'
    BY <1>0, <1>6, SchedulerAssumption DEF IInv, Floor, Types
  <1> QED
    BY <1>7, <1>8, <1>9, <1>10 DEF IInv

LEMMA Stutter == IInv /\ UNCHANGED vars => IInv'
  BY DEF IInv, Types, Table, Current, Floor, vars

LEMMA EnterIdleStep == IInv /\ enter_idle_contexts => IInv'
  <1> SUFFICES ASSUME IInv, enter_idle_contexts PROVE IInv'
    OBVIOUS
  <1>1. initialized /\ current = 1 /\ idle = 1 /\ 1 \in 1..thread_count /\ 1 \in Slots
    BY SchedulerAssumption DEF enter_idle_contexts, IInv, Types, Current, Slots
  <1>2. slot(idle) = 1
    BY <1>1, SlotIsId DEF IInv
  <1>3. threads[1].state = "Running" /\ threads[1] \in Thread
    BY <1>1 DEF IInv, Types, Current
  <1>4. threads' = threads
    <2>1. [threads[1] EXCEPT !.state = "Running"] = threads[1]
      BY <1>3 DEF Thread
    <2> QED
      BY <1>1, <1>2, <2>1 DEF enter_idle_contexts, IInv, Types
  <1> QED
    BY <1>1, <1>4, Stutter DEF enter_idle_contexts, vars

\* A woken thread is lifted to the floor.
LEMMA WakeStep == ASSUME NEW i \in Slots PROVE IInv /\ wake(i) => IInv'
  <1> SUFFICES ASSUME IInv, wake(i) PROVE IInv'
    OBVIOUS
  <1>0. /\ i \in 1..thread_count /\ threads[i].state = "Blocked" /\ threads[i] \in Thread
        /\ Slots = 1..THREADS /\ thread_count \in 0..THREADS /\ THREADS \in Nat
        /\ MAX_RUNTIME \in Nat /\ min_virtual_runtime \in 0..MAX_RUNTIME
        /\ UNCHANGED <<next_thread_id, current, idle, min_virtual_runtime,
                       need_reschedule, initialized, first_thread, thread_count>>
    BY OccupiedPrefix, SchedulerAssumption DEF IInv, Types, wake, Slots
  <1>1. /\ initialized /\ i # current /\ i # 1
        /\ current \in 1..thread_count
    BY <1>0 DEF IInv, Types, Current
  <1>2. /\ threads'[i] = [threads[i] EXCEPT !.state = "Ready", !.virtual_runtime = woken(i)]
        /\ \A j \in Slots : j # i => threads'[j] = threads[j]
        /\ threads' = [threads EXCEPT ![i] = [threads[i] EXCEPT !.state = "Ready",
                                                                !.virtual_runtime = woken(i)]]
    BY <1>0 DEF IInv, Types, wake
  <1>3. woken(i) \in 0..MAX_RUNTIME /\ woken(i) >= min_virtual_runtime
    BY <1>0 DEF woken, Thread
  <1>4. /\ threads'[i] \in Thread /\ threads'[i].state = "Ready"
        /\ threads'[i].virtual_runtime = woken(i)
        /\ Same(threads'[i], threads[i])
    <2> DEFINE ready == [threads[i] EXCEPT !.state = "Ready"]
    <2>1. ready \in Thread /\ ready.state = "Ready"
      BY <1>0 DEF Thread, State
    <2>2. Same(ready, threads[i])
      BY <1>0, Zenon DEF Thread, Same
    <2>3. threads'[i] = [ready EXCEPT !.virtual_runtime = woken(i)]
      BY <1>2
    <2> HIDE DEF ready
    <2>4. /\ threads'[i] \in Thread /\ threads'[i].state = "Ready"
          /\ threads'[i].virtual_runtime = woken(i)
      BY <1>3, <2>1, <2>3 DEF Thread
    <2>5. Same(threads'[i], ready)
      BY <2>1, <2>3, Zenon DEF Thread, Same
    <2> QED
      BY <2>2, <2>4, <2>5, Zenon DEF Same
  <1>6. threads' \in [Slots -> Thread]
    BY <1>2, <1>4 DEF IInv, Types
  <1>7. Types'
    BY <1>0, <1>6 DEF IInv, Types
  <1>8. \A j \in 1..thread_count : Same(threads'[j], threads[j])
    BY <1>0, <1>2, <1>4, SameSelf
  <1>9. Table'
    BY <1>0, <1>2, <1>6, <1>8, SameTable DEF IInv
  <1>10. Current'
    BY <1>0, <1>1, <1>2, <1>4 DEF IInv, Current
  <1>11. Floor'
    BY <1>0, <1>2, <1>3, <1>4 DEF IInv, Floor
  <1> QED
    BY <1>7, <1>9, <1>10, <1>11 DEF IInv

-----------------------------------------------------------------------------
(* The theorems *)

\* The invariant is inductive.
THEOREM Invariant == Spec => []IInv
  <1>1. IInv /\ [Next]_vars => IInv'
    <2> SUFFICES ASSUME IInv, [Next]_vars PROVE IInv'
      OBVIOUS
    <2>1. CASE init_with_idle_thread
      BY <2>1, InitIdleStep
    <2>2. CASE \E weight \in Weights : spawn(weight)
      BY <2>2, SpawnStep
    <2>3. CASE spawn_table_full
      BY <2>3, TableFullStep
    <2>4. CASE \E elapsed \in Elapsed : tick(elapsed)
      BY <2>4, TickStep
    <2>5. CASE preempt_contexts
      BY <2>5, PreemptStep
    <2>6. CASE enter_idle_contexts
      BY <2>6, EnterIdleStep
    <2>7. CASE block_current
      BY <2>7, BlockStep
    <2>8. CASE \E i \in Slots : wake(i)
      BY <2>8, WakeStep
    <2>9. CASE UNCHANGED vars
      BY <2>9, Stutter
    <2> QED
      BY <2>1, <2>2, <2>3, <2>4, <2>5, <2>6, <2>7, <2>8, <2>9
         DEF Next, tick_ignored, preempt_not_needed
  <1> QED
    BY <1>1, InitStep, PTL DEF Spec

\* Exactly the thread that `current` names is Running, in any order of ticks,
\* reschedules, spawns, blocks and wakes.
THEOREM Running == Spec => []OneRunning
  <1>1. IInv => OneRunning
    <2> SUFFICES ASSUME IInv, initialized, NEW i \in Occupied
                 PROVE  threads[i].state = "Running" <=> threads[i].id = current
      BY DEF OneRunning
    <2>1. i \in 1..thread_count /\ i \in Slots
      BY OccupiedPrefix DEF IInv, Occupied
    <2>2. threads[i].id = i
      BY <2>1 DEF IInv, Types, Table
    <2> QED
      BY <2>1, <2>2 DEF IInv, Current
  <1> QED
    BY <1>1, Invariant, PTL

\* No thread that competes for the CPU is behind min_virtual_runtime, for any
\* weights, ticks of any length and runtimes up to saturation.
THEOREM AboveFloor == Spec => []RunnableAboveFloor
  <1>1. IInv => RunnableAboveFloor
    <2> SUFFICES ASSUME IInv, NEW i \in Occupied,
                        threads[i].state # "Blocked", ~threads[i].idle
                 PROVE  threads[i].virtual_runtime >= min_virtual_runtime
      BY DEF RunnableAboveFloor
    <2>1. i \in 1..thread_count /\ i \in Slots
      BY OccupiedPrefix DEF IInv, Occupied
    <2>2. i # 1
      BY <2>1 DEF IInv, Types, Table
    <2> QED
      BY <2>1, <2>2, SchedulerAssumption DEF IInv, Types, Floor
  <1> QED
    BY <1>1, Invariant, PTL

\* The process's list visits every thread once, newest first, and ids stay unique,
\* although the counter of ids wraps while the table is full.
THEOREM ListExact == Spec => []ProcessListExact
  <1>1. IInv => ProcessListExact
    <2> SUFFICES ASSUME IInv PROVE ProcessListExact
      OBVIOUS
    <2> DEFINE n == thread_count
    <2>0. /\ n \in Nat /\ 1..n \subseteq Slots /\ Occupied = 1..n /\ first_thread = n
          /\ \A i \in 1..n : threads[i].id = i /\ threads[i].process_next = i - 1
      BY OccupiedPrefix, SchedulerAssumption DEF IInv, Types, Table, Slots
    <2> HIDE DEF n
    <2>1. IdsUnique
      BY <2>0 DEF IdsUnique
    <2>2. thread_count = Cardinality(Occupied)
      BY <2>0, FS_Interval DEF n
    <2>3. /\ first_thread # 0 => \E i \in Occupied : threads[i].id = first_thread
          /\ first_thread = 0 <=> Occupied = {}
      <3>1. n # 0 => n \in 1..n
        BY <2>0
      <3>2. n = 0 => 1..n = {}
        BY <2>0
      <3> QED
        BY <2>0, <3>1, <3>2
    <2>4. ASSUME NEW i \in Occupied
          PROVE  /\ threads[i].process_next # 0 =>
                       \E j \in Occupied : j < i /\ threads[j].id = threads[i].process_next
                 /\ Cardinality({j \in Occupied : threads[j].process_next = threads[i].id})
                      = IF threads[i].id = first_thread THEN 0 ELSE 1
      <3>1. i \in 1..n /\ threads[i].id = i /\ threads[i].process_next = i - 1
        BY <2>0
      <3>2. threads[i].process_next # 0 =>
              \E j \in Occupied : j < i /\ threads[j].id = threads[i].process_next
        <4>1. i - 1 # 0 => i - 1 \in 1..n /\ i - 1 < i
          BY <2>0, <3>1
        <4> QED
          BY <2>0, <3>1, <4>1
      <3> DEFINE after == {j \in Occupied : threads[j].process_next = threads[i].id}
      <3>3. CASE i = n
        <4>1. after = {}
          BY <2>0, <3>1, <3>3
        <4> QED
          BY <2>0, <3>1, <3>2, <3>3, <4>1, FS_EmptySet
      <3>4. CASE i # n
        <4>1. after = {i + 1}
          BY <2>0, <3>1, <3>4
        <4> QED
          BY <2>0, <3>1, <3>2, <3>4, <4>1, FS_Singleton
      <3> QED
        BY <3>3, <3>4
    <2> QED
      BY <2>1, <2>2, <2>3, <2>4 DEF ProcessListExact
  <1> QED
    BY <1>1, Invariant, PTL
=============================================================================
