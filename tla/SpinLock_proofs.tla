-------------------------- MODULE SpinLock_proofs --------------------------
(***************************************************************************)
(* The safety invariants of SpinLock, and that it implements FifoLock, for *)
(* any finite set of CPUs and any width of the tickets that has room for   *)
(* them.                                                                   *)
(*                                                                         *)
(* For the refinement: a context's place in the queue is the number of     *)
(* tickets that are closer to the owner half than its own. A new ticket is *)
(* the farthest of all, so it leaves every place as it is; a release moves *)
(* all places up by one, also when it wraps the owner half.                *)
(***************************************************************************)
EXTENDS SpinLock, FiniteSetTheorems, SequenceTheorems, TLAPS

Lost == IF lost = None THEN 0 ELSE 1

\* The tickets that are out are distinct and lie between the halves; who was
\* admitted holds the ticket of the owner half.
Tickets ==
    /\ \A p, q \in Contexts : pc[p] \in Ticketed /\ pc[q] \in Ticketed
                                /\ ticket[p] = ticket[q] => p = q
    /\ \A p \in Contexts : pc[p] \in Ticketed => Distance(ticket[p]) < Distance(next)
    /\ \A p \in Contexts : pc[p] \in Admitted => ticket[p] = owner

\* The distance of the halves counts the tickets that are out, and the lost one.
Counted == Distance(next) = Cardinality(Out) + Lost

\* The owner half never gets past a lost ticket, so it wraps only once.
LostAhead ==
    lost # None =>
        /\ owner <= lost
        /\ lost < M - 1
        /\ Distance(lost) < Distance(next)
        /\ \A p \in Contexts : pc[p] \in Ticketed => ticket[p] # lost

Flag == \A p \in Contexts : pc[p] = "critical" => held

\* Interrupts are enabled exactly while a thread is outside the lock code, and
\* each guard remembers that.
Masking ==
    \A c \in CPUs :
        /\ pc[Thread(c)] # "off"
        /\ IF pc[Trap(c)] = "off"
           THEN irq[c] = (pc[Thread(c)] = "idle")
           ELSE pc[Thread(c)] = "idle" /\ irq[c] = FALSE
        /\ pc[Thread(c)] # "idle" => irqWas[Thread(c)]
        /\ pc[Trap(c)] \notin {"off", "idle"} => ~irqWas[Trap(c)]

IInv == TypeOK /\ Tickets /\ Counted /\ LostAhead /\ Flag /\ Masking

-----------------------------------------------------------------------------
(* Contexts and how many can hold a ticket. *)

\* A context is the thread or the trap of its CPU, never both.
LEMMA ContextCases ==
    /\ \A c \in CPUs : /\ Thread(c) \in Contexts /\ cpu(Thread(c)) = c
                       /\ Trap(c) \in Contexts /\ cpu(Trap(c)) = c
                       /\ \A d \in CPUs : Thread(c) # Trap(d)
    /\ \A p \in Contexts : /\ cpu(p) \in CPUs
                           /\ p = Thread(cpu(p)) \/ p = Trap(cpu(p))
  BY DEF Contexts, Thread, Trap, cpu

\* One more ticket than are out: still at most one per context.
LEMMA AddOne ==
    ASSUME NEW S \in SUBSET Contexts, NEW p \in Contexts, p \notin S
    PROVE  /\ Cardinality(S) \in Nat
           /\ Cardinality(S \cup {p}) = Cardinality(S) + 1
           /\ Cardinality(S) + 1 < M - 1
  <1>1. IsFiniteSet(Contexts) /\ IsFiniteSet(S)
    BY LockAssumption, FS_Subset
  <1>2. Cardinality(S) \in Nat /\ Cardinality(Contexts) \in Nat
    BY <1>1, FS_CardinalityType
  <1>3. Cardinality(S \cup {p}) = Cardinality(S) + 1
    BY <1>1, FS_AddElement
  <1>4. Cardinality(S \cup {p}) <= Cardinality(Contexts)
    BY <1>1, FS_Subset
  <1> QED BY <1>2, <1>3, <1>4, LockAssumption

\* One ticket less.
LEMMA RemoveOne ==
    ASSUME NEW S \in SUBSET Contexts, NEW p \in S
    PROVE  /\ Cardinality(S) \in Nat
           /\ Cardinality(S \ {p}) = Cardinality(S) - 1
  <1>1. IsFiniteSet(S)
    BY LockAssumption, FS_Subset
  <1> QED BY <1>1, FS_CardinalityType, FS_RemoveElement

-----------------------------------------------------------------------------
(* What a step does to the tickets. *)

\* A step that moves neither half and hands out no ticket.
Quiet ==
    /\ UNCHANGED <<owner, next, lost>>
    /\ \A p \in Contexts :
           /\ pc'[p] \in Ticketed <=> pc[p] \in Ticketed
           /\ pc[p] \in Ticketed => ticket'[p] = ticket[p]
           /\ pc'[p] \in Admitted => pc[p] \in Admitted \/ ticket'[p] = owner

LEMMA QuietStep ==
    ASSUME IInv, Quiet
    PROVE  Tickets' /\ Counted' /\ LostAhead'
  <1>1. Out' = Out
    BY DEF Quiet, Out
  <1>2. \A t : Distance(t)' = Distance(t)
    BY DEF Quiet, Distance
  <1>3. \A p \in Contexts : pc'[p] \in Ticketed => /\ pc[p] \in Ticketed
                                                   /\ ticket'[p] = ticket[p]
    BY DEF Quiet
  <1>4. Admitted \subseteq Ticketed
    BY DEF Admitted, Ticketed
  <1>5. Tickets'
    BY <1>3, <1>4 DEF IInv, Tickets, Quiet, Distance
  <1>6. Counted'
    BY <1>1 DEF IInv, Counted, Quiet, Distance, Lost
  <1>7. LostAhead'
    BY <1>3 DEF IInv, LostAhead, Quiet, Distance
  <1> QED BY <1>5, <1>6, <1>7

\* acquire and the compare_exchange of try_acquire hand out the ticket `next`.
LEMMA TicketStep ==
    ASSUME IInv, NEW p \in Contexts, pc[p] \notin Ticketed,
           NEW l \in {"spin", "set_held"}, Goto(p, l),
           next' = NextTicket, ticket' = [ticket EXCEPT ![p] = next],
           UNCHANGED <<owner, lost>>,
           l = "set_held" => owner = next
    PROVE  Tickets' /\ Counted' /\ LostAhead'
  <1> USE LockAssumption
  <1>0. /\ owner \in 0..M-1 /\ next \in 0..M-1 /\ ticket \in [Contexts -> 0..M-1]
        /\ lost \in 0..M /\ M \in Nat
    BY DEF IInv, TypeOK
  <1>1. /\ pc'[p] = l /\ ticket'[p] = next /\ l \in Ticketed
        /\ \A q \in Contexts : q # p => pc'[q] = pc[q] /\ ticket'[q] = ticket[q]
    BY DEF IInv, TypeOK, Goto, Ticketed
  <1>2. Out' = Out \cup {p} /\ p \notin Out /\ Out \subseteq Contexts
    BY <1>1 DEF Out
  <1>3. /\ Cardinality(Out) \in Nat
        /\ Cardinality(Out') = Cardinality(Out) + 1
        /\ Cardinality(Out) + 1 < M - 1
    BY <1>2, AddOne
  <1>4. Distance(next) < M - 1
    BY <1>3 DEF IInv, Counted, Lost
  <1>5. Distance(next)' = Distance(next) + 1
    BY <1>0, <1>4 DEF Distance, NextTicket
  <1>6. \A t \in 0..M-1 : (Distance(t) < Distance(next) => t # next)
                          /\ (IF t >= owner' THEN t - owner' ELSE t - owner' + M) = Distance(t)
    BY <1>0 DEF Distance
  <1>7. Counted'
    BY <1>0, <1>3, <1>5 DEF IInv, Counted, Lost, None
  <1>8. LostAhead'
    <2>1. SUFFICES ASSUME lost # None
                   PROVE  /\ owner <= lost /\ lost < M - 1
                          /\ Distance(lost) < Distance(next)'
                          /\ \A q \in Contexts : pc'[q] \in Ticketed => ticket'[q] # lost
      BY DEF LostAhead, Distance, None
    <2>2. /\ owner <= lost /\ lost < M - 1 /\ Distance(lost) < Distance(next)
          /\ \A q \in Contexts : pc[q] \in Ticketed => ticket[q] # lost
      BY <2>1 DEF IInv, LostAhead
    <2>3. next # lost
      BY <2>2, <1>0 DEF Distance
    <2>4. Distance(lost) < Distance(next)'
      BY <2>2, <1>0, <1>5 DEF Distance
    <2> QED BY <2>2, <2>3, <2>4, <1>1
  <1>9. Tickets'
    <2>1. \A q \in Contexts : pc'[q] \in Ticketed /\ q # p =>
              pc[q] \in Ticketed /\ ticket'[q] = ticket[q] /\ ticket'[q] # next
      BY <1>0, <1>1, <1>6 DEF IInv, Tickets
    <2>2. \A q \in Contexts : pc'[q] \in Ticketed =>
              Distance(ticket[q])' < Distance(next)'
      <3>1. TAKE q \in Contexts
      <3>2. CASE q = p
        BY <3>2, <1>0, <1>1, <1>5 DEF Distance
      <3>3. CASE q # p
        BY <3>3, <2>1, <1>0, <1>5 DEF Distance, IInv, Tickets
      <3> QED BY <3>2, <3>3
    <2>3. \A q \in Contexts : pc'[q] \in Admitted => ticket'[q] = owner'
      BY <1>1 DEF IInv, Tickets, Admitted
    <2>4. \A q, r \in Contexts : pc'[q] \in Ticketed /\ pc'[r] \in Ticketed
                                 /\ ticket'[q] = ticket'[r] => q = r
      BY <1>1, <2>1 DEF IInv, Tickets
    <2> QED BY <2>2, <2>3, <2>4 DEF Tickets
  <1> QED BY <1>7, <1>8, <1>9

\* release takes the ticket of the owner half out, and the carry of the owner
\* half loses the ticket `next`.
LEMMA ReleaseStep ==
    ASSUME IInv, NEW p \in Contexts, release(p)
    PROVE  Tickets' /\ Counted' /\ LostAhead'
  <1> USE LockAssumption
  <1>0. /\ owner \in 0..M-1 /\ next \in 0..M-1 /\ ticket \in [Contexts -> 0..M-1]
        /\ lost \in 0..M /\ M \in Nat
    BY DEF IInv, TypeOK
  <1>1. /\ pc[p] = "release" /\ pc[p] \in Ticketed /\ pc[p] \in Admitted
        /\ pc'[p] = "restore" /\ pc'[p] \notin Ticketed /\ ticket' = ticket
        /\ \A q \in Contexts : q # p => pc'[q] = pc[q]
    BY DEF IInv, TypeOK, release, At, Goto, Ticketed, Admitted
  <1>2. ticket[p] = owner /\ Distance(owner) < Distance(next)
    BY <1>1 DEF IInv, Tickets
  <1>3. Out' = Out \ {p} /\ p \in Out /\ Out \subseteq Contexts
    BY <1>1 DEF Out
  <1>4. Cardinality(Out) \in Nat /\ Cardinality(Out') = Cardinality(Out) - 1
    BY <1>3, RemoveOne
  <1>5. \A q \in Contexts : pc'[q] \in Ticketed =>
            /\ q # p /\ pc[q] \in Ticketed /\ ticket[q] # owner
            /\ Distance(ticket[q]) < Distance(next)
    BY <1>1, <1>2 DEF IInv, Tickets
  <1>6. \A q \in Contexts : pc'[q] \notin Admitted
    BY <1>1, <1>5 DEF IInv, Tickets, Admitted, Ticketed
  <1>7. \A q, r \in Contexts : pc'[q] \in Ticketed /\ pc'[r] \in Ticketed
                               /\ ticket'[q] = ticket'[r] => q = r
    BY <1>1, <1>5 DEF IInv, Tickets
  <1>8. CASE owner = M - 1
    <2>1. owner' = 0 /\ next' = NextTicket /\ lost' = next
      BY <1>8 DEF release
    <2>2. lost = None
      BY <1>0, <1>8 DEF IInv, LostAhead
    <2>3. next # M - 1 /\ next' = next + 1 /\ Distance(next) = next + 1
      BY <1>0, <1>2, <1>8, <2>1 DEF Distance, NextTicket
    <2>4. Distance(next)' = next + 1
      BY <1>0, <2>1, <2>3 DEF Distance
    <2>5. Counted'
      BY <1>0, <1>4, <2>1, <2>2, <2>3, <2>4 DEF IInv, Counted, Lost, None
    <2>6. \A q \in Contexts : pc'[q] \in Ticketed => ticket[q] < next
      BY <1>0, <1>5, <1>8, <2>3 DEF Distance
    <2>7. LostAhead'
      BY <1>0, <1>1, <2>1, <2>3, <2>6 DEF LostAhead, Distance, None
    <2>8. \A q \in Contexts : pc'[q] \in Ticketed => Distance(ticket[q])' < Distance(next)'
      BY <1>0, <1>1, <2>1, <2>3, <2>6 DEF Distance
    <2> QED BY <1>6, <1>7, <2>5, <2>7, <2>8 DEF Tickets
  <1>9. CASE owner # M - 1
    <2>1. owner' = owner + 1 /\ next' = next /\ lost' = lost
      BY <1>9 DEF release
    <2>2. \A t \in 0..M-1 : t # owner =>
              (IF t >= owner + 1 THEN t - (owner + 1) ELSE t - (owner + 1) + M)
                 = Distance(t) - 1
      BY <1>0, <1>9 DEF Distance
    <2>3. next # owner
      BY <1>0, <1>2 DEF Distance
    <2>4. Distance(next)' = Distance(next) - 1
      BY <1>0, <2>1, <2>2, <2>3 DEF Distance
    <2>5. Counted'
      BY <1>0, <1>4, <2>1, <2>4 DEF IInv, Counted, Lost, None
    <2>6. LostAhead'
      <3>1. SUFFICES ASSUME lost # None
                     PROVE  /\ owner' <= lost /\ lost < M - 1
                            /\ Distance(lost)' < Distance(next)'
                            /\ \A q \in Contexts : pc'[q] \in Ticketed => ticket'[q] # lost
        BY <2>1 DEF LostAhead, Distance, None
      <3>2. /\ owner <= lost /\ lost < M - 1 /\ Distance(lost) < Distance(next)
            /\ \A q \in Contexts : pc[q] \in Ticketed => ticket[q] # lost
        BY <3>1 DEF IInv, LostAhead
      <3>3. lost # owner
        BY <1>1, <1>2, <3>2
      <3>4. Distance(lost)' = Distance(lost) - 1
        BY <1>0, <2>1, <2>2, <3>2, <3>3 DEF Distance
      <3> QED BY <1>0, <1>1, <1>5, <2>1, <2>4, <3>2, <3>3, <3>4 DEF Distance
    <2>7. \A q \in Contexts : pc'[q] \in Ticketed => Distance(ticket[q])' < Distance(next)'
      <3>1. SUFFICES ASSUME NEW q \in Contexts, pc'[q] \in Ticketed
                     PROVE  Distance(ticket[q])' < Distance(next)'
        OBVIOUS
      <3>2. Distance(ticket[q])' = Distance(ticket[q]) - 1
        BY <1>0, <1>1, <1>5, <2>1, <2>2, <3>1 DEF Distance
      <3> QED BY <1>0, <1>5, <2>4, <3>1, <3>2 DEF Distance
    <2> QED BY <1>6, <1>7, <2>5, <2>6, <2>7 DEF Tickets
  <1> QED BY <1>8, <1>9

-----------------------------------------------------------------------------
(* What a step does to the interrupts. *)

\* A step inside the lock code moves only the program counter.
LEMMA MaskedStep ==
    ASSUME IInv, NEW p \in Contexts, pc[p] \notin {"off", "idle"},
           NEW l, l \notin {"off", "idle"}, Goto(p, l), UNCHANGED <<irq, irqWas>>
    PROVE  Masking'
  <1>1. pc'[p] = l /\ \A q \in Contexts : q # p => pc'[q] = pc[q]
    BY DEF IInv, TypeOK, Goto
  <1>2. SUFFICES ASSUME NEW c \in CPUs
                 PROVE  /\ pc'[Thread(c)] # "off"
                        /\ pc'[Trap(c)] = "off" <=> pc[Trap(c)] = "off"
                        /\ pc'[Trap(c)] = "idle" <=> pc[Trap(c)] = "idle"
                        /\ pc'[Thread(c)] = "idle" <=> pc[Thread(c)] = "idle"
    BY DEF IInv, Masking, Thread, Trap
  <1> QED BY <1>1, ContextCases DEF IInv, Masking

\* guard and try_guard mask interrupts and remember what they found.
LEMMA EnterStep ==
    ASSUME IInv, NEW p \in Contexts, At(p, "idle"), disable_interrupts(p),
           NEW l, l \notin {"off", "idle"}, Goto(p, l)
    PROVE  Masking'
  <1>1. /\ pc[p] = "idle" /\ pc'[p] = l /\ irqWas'[p] = irq[cpu(p)] /\ irq'[cpu(p)] = FALSE
        /\ \A q \in Contexts : q # p => pc'[q] = pc[q] /\ irqWas'[q] = irqWas[q]
        /\ \A c \in CPUs : c # cpu(p) => irq'[c] = irq[c]
    BY ContextCases DEF IInv, TypeOK, At, Goto, disable_interrupts
  <1>2. p = Thread(cpu(p)) => pc[Trap(cpu(p))] = "off"
    BY DEF At, Running
  <1>3. SUFFICES ASSUME NEW c \in CPUs
                 PROVE  /\ pc'[Thread(c)] # "off"
                        /\ IF pc'[Trap(c)] = "off"
                           THEN irq'[c] = (pc'[Thread(c)] = "idle")
                           ELSE pc'[Thread(c)] = "idle" /\ irq'[c] = FALSE
                        /\ pc'[Thread(c)] # "idle" => irqWas'[Thread(c)]
                        /\ pc'[Trap(c)] \notin {"off", "idle"} => ~irqWas'[Trap(c)]
    BY DEF Masking, Thread, Trap
  <1>4. CASE c # cpu(p)
    <2>1. Thread(c) # p /\ Trap(c) # p
      BY <1>4, ContextCases
    <2> QED BY <1>1, <1>4, <2>1, ContextCases DEF IInv, Masking
  <1>5. CASE c = cpu(p) /\ p = Thread(c)
    BY <1>1, <1>2, <1>5, ContextCases DEF IInv, Masking
  <1>6. CASE c = cpu(p) /\ p = Trap(c)
    <2>1. /\ Thread(c) # p /\ Thread(c) \in Contexts
          /\ pc'[Thread(c)] = pc[Thread(c)] /\ irqWas'[Thread(c)] = irqWas[Thread(c)]
      BY <1>1, <1>6, ContextCases
    <2>2. pc[Thread(c)] = "idle" /\ irq[c] = FALSE
      BY <1>1, <1>6 DEF IInv, Masking
    <2> QED
      BY <1>1, <1>6, <2>1, <2>2
  <1> QED BY <1>4, <1>5, <1>6, ContextCases

\* Leaving the lock code puts back what was found.
LEMMA RestoreStep ==
    ASSUME IInv, NEW p \in Contexts, restore(p)
    PROVE  Masking'
  <1>1. /\ pc[p] = "restore" /\ pc'[p] = "idle" /\ irqWas' = irqWas
        /\ irq'[cpu(p)] = (irq[cpu(p)] \/ irqWas[p])
        /\ \A q \in Contexts : q # p => pc'[q] = pc[q]
        /\ \A c \in CPUs : c # cpu(p) => irq'[c] = irq[c]
    BY ContextCases DEF IInv, TypeOK, At, Goto, restore
  <1>2. /\ p = Thread(cpu(p)) => pc[Trap(cpu(p))] = "off"
        /\ irq \in [CPUs -> BOOLEAN] /\ irqWas \in [Contexts -> BOOLEAN]
    BY DEF restore, At, Running, IInv, TypeOK
  <1>3. SUFFICES ASSUME NEW c \in CPUs
                 PROVE  /\ pc'[Thread(c)] # "off"
                        /\ IF pc'[Trap(c)] = "off"
                           THEN irq'[c] = (pc'[Thread(c)] = "idle")
                           ELSE pc'[Thread(c)] = "idle" /\ irq'[c] = FALSE
                        /\ pc'[Thread(c)] # "idle" => irqWas'[Thread(c)]
                        /\ pc'[Trap(c)] \notin {"off", "idle"} => ~irqWas'[Trap(c)]
    BY DEF Masking, Thread, Trap
  <1>4. CASE c # cpu(p)
    <2>1. Thread(c) # p /\ Trap(c) # p
      BY <1>4, ContextCases
    <2> QED BY <1>1, <1>4, <2>1, ContextCases DEF IInv, Masking
  <1>5. CASE c = cpu(p) /\ p = Thread(c)
    BY <1>1, <1>2, <1>5, ContextCases DEF IInv, Masking
  <1>6. CASE c = cpu(p) /\ p = Trap(c)
    BY <1>1, <1>2, <1>6, ContextCases DEF IInv, Masking
  <1> QED BY <1>4, <1>5, <1>6, ContextCases

\* A trap begins while interrupts are enabled, and ends by enabling them.
LEMMA TrapStep ==
    ASSUME IInv, NEW c \in CPUs, Interrupt(c) \/ TrapReturn(c)
    PROVE  Masking'
  <1>1. /\ \A q \in Contexts : q # Trap(c) => pc'[q] = pc[q]
        /\ \A d \in CPUs : d # c => irq'[d] = irq[d]
        /\ irqWas' = irqWas
        /\ \/ /\ irq[c] /\ pc[Trap(c)] = "off"
              /\ pc'[Trap(c)] = "idle" /\ irq'[c] = FALSE
           \/ /\ pc[Trap(c)] = "idle"
              /\ pc'[Trap(c)] = "off" /\ irq'[c] = TRUE
    BY ContextCases DEF IInv, TypeOK, Goto, Interrupt, TrapReturn
  <1>2. SUFFICES ASSUME NEW d \in CPUs
                 PROVE  /\ pc'[Thread(d)] # "off"
                        /\ IF pc'[Trap(d)] = "off"
                           THEN irq'[d] = (pc'[Thread(d)] = "idle")
                           ELSE pc'[Thread(d)] = "idle" /\ irq'[d] = FALSE
                        /\ pc'[Thread(d)] # "idle" => irqWas'[Thread(d)]
                        /\ pc'[Trap(d)] \notin {"off", "idle"} => ~irqWas'[Trap(d)]
    BY DEF Masking, Thread, Trap
  <1>3. CASE d # c
    <2>1. Trap(d) # Trap(c) /\ Thread(d) # Trap(c)
      BY <1>3, ContextCases
    <2> QED BY <1>1, <1>3, <2>1, ContextCases DEF IInv, Masking
  <1>4. CASE d = c
    BY <1>1, <1>4, ContextCases DEF IInv, Masking
  <1> QED BY <1>3, <1>4

-----------------------------------------------------------------------------
(* The invariant is inductive. *)

LEMMA Initially == Init => IInv
  <1> SUFFICES ASSUME Init PROVE IInv
    OBVIOUS
  <1> USE LockAssumption
  <1>0. M \in Nat /\ M > 0
    <2>1. Cardinality(Contexts) \in Nat
      BY FS_CardinalityType
    <2> QED BY <2>1
  <1>1. \A p \in Contexts : pc[p] \in {"idle", "off"}
    BY DEF Init, Contexts
  <1>2. TypeOK
    <2>1. irq \in [CPUs -> BOOLEAN] /\ irqWas \in [Contexts -> BOOLEAN] /\ held \in BOOLEAN
      BY Zenon DEF Init
    <2>2. pc \in [Contexts -> {"idle", "off"}]
      BY DEF Init
    <2> QED BY <1>0, <2>1, <2>2 DEF Init, TypeOK, None
  <1>3. Tickets
    BY <1>1 DEF Tickets, Ticketed, Admitted
  <1>4. Out = {}
    BY <1>1 DEF Out, Ticketed
  <1>5. Counted
    BY <1>0, <1>4, FS_EmptySet DEF Init, Counted, Distance, Lost
  <1>6. LostAhead
    BY DEF Init, LostAhead
  <1>7. Flag
    BY <1>1 DEF Flag
  <1>8. Masking
    <2>1. \A c \in CPUs : irq[c] = TRUE /\ pc[Thread(c)] = "idle" /\ pc[Trap(c)] = "off"
      BY ContextCases DEF Init, Thread, Trap
    <2> QED BY <2>1 DEF Masking
  <1> QED BY <1>2, <1>3, <1>5, <1>6, <1>7, <1>8 DEF IInv

LEMMA TypeStep == TypeOK /\ Next => TypeOK'
  <1> SUFFICES ASSUME TypeOK, Next PROVE TypeOK'
    OBVIOUS
  <1> USE LockAssumption DEF TypeOK, Goto, At, Ticketed
  <1>1. NextTicket \in 0..M-1
    BY DEF NextTicket
  <1>2. ASSUME NEW p \in Contexts, guard(p) \/ try_guard(p) PROVE TypeOK'
    <2>1. irq[cpu(p)] \in BOOLEAN
      BY ContextCases
    <2>2. irq' \in [CPUs -> BOOLEAN] /\ irqWas' \in [Contexts -> BOOLEAN]
      BY <1>2, <2>1 DEF guard, try_guard, disable_interrupts
    <2> QED BY <1>2, <2>2 DEF guard, try_guard
  <1>3. ASSUME NEW p \in Contexts, acquire(p) \/ try_load(p) \/ try_cas(p) PROVE TypeOK'
    BY <1>1, <1>3 DEF acquire, try_load, try_cas
  <1>4. ASSUME NEW p \in Contexts, spin(p) \/ spin_wait(p) \/ set_held(p) \/ unlock(p)
        PROVE  TypeOK'
    BY <1>4 DEF spin, spin_wait, set_held, unlock, vars
  <1>5. ASSUME NEW p \in Contexts, release(p) PROVE TypeOK'
    BY <1>1, <1>5 DEF release
  <1>6. ASSUME NEW p \in Contexts, restore(p) PROVE TypeOK'
    <2>1. irq' \in [CPUs -> BOOLEAN]
      BY <1>6, ContextCases DEF restore
    <2> QED BY <1>6, <2>1 DEF restore
  <1>7. ASSUME NEW c \in CPUs, Interrupt(c) \/ TrapReturn(c) PROVE TypeOK'
    BY <1>7, ContextCases DEF Interrupt, TrapReturn
  <1> QED BY <1>2, <1>3, <1>4, <1>5, <1>6, <1>7 DEF Next, Step

\* Only the holder clears the debug flag.
LEMMA FlagStep == IInv /\ Next => Flag'
  <1> SUFFICES ASSUME IInv, Next PROVE Flag'
    OBVIOUS
  <1> USE DEF IInv, TypeOK, Flag, Goto, At
  <1>1. ASSUME NEW p \in Contexts, set_held(p) PROVE Flag'
    BY <1>1 DEF set_held
  <1>2. ASSUME NEW p \in Contexts, unlock(p) PROVE Flag'
    <2>1. \A q \in Contexts : pc[q] = "critical" => q = p
      BY <1>2 DEF unlock, Tickets, Admitted, Ticketed
    <2> QED BY <1>2, <2>1 DEF unlock
  <1>3. ASSUME NEW p \in Contexts,
               \/ guard(p) \/ try_guard(p) \/ acquire(p) \/ spin(p) \/ spin_wait(p)
               \/ try_load(p) \/ try_cas(p) \/ release(p) \/ restore(p)
        PROVE  Flag'
    BY <1>3 DEF guard, try_guard, acquire, spin, spin_wait, try_load, try_cas, release,
                restore, vars
  <1>4. ASSUME NEW c \in CPUs, Interrupt(c) \/ TrapReturn(c) PROVE Flag'
    BY <1>4 DEF Interrupt, TrapReturn
  <1> QED BY <1>1, <1>2, <1>3, <1>4 DEF Next, Step

LEMMA Inductive == IInv /\ [Next]_vars => IInv'
  <1> SUFFICES ASSUME IInv, [Next]_vars PROVE IInv'
    OBVIOUS
  <1> DEFINE Rest == Tickets' /\ Counted' /\ LostAhead' /\ Masking'
  <1>0. pc \in [Contexts -> Ticketed \cup {"off", "idle", "acquire", "try_load",
                                           "try_cas", "restore"}]
    BY DEF IInv, TypeOK
  <1>1. ASSUME NEW p \in Contexts, guard(p) \/ try_guard(p) PROVE Rest
    <2>1. Quiet
      BY <1>0, <1>1 DEF guard, try_guard, At, Goto, Quiet, Ticketed, Admitted
    <2>2. Masking'
      BY <1>1, EnterStep DEF guard, try_guard
    <2> QED BY <2>1, <2>2, QuietStep
  <1>2. ASSUME NEW p \in Contexts, acquire(p) PROVE Rest
    <2>1. Masking'
      BY <1>2, MaskedStep DEF acquire, At
    <2>2. PICK l \in {"spin", "set_held"} : Goto(p, l) /\ (l = "set_held" => owner = next)
      BY <1>2 DEF acquire
    <2>3. pc[p] \notin Ticketed
      BY <1>2 DEF acquire, At, Ticketed
    <2> QED BY <1>2, <2>1, <2>2, <2>3, TicketStep DEF acquire
  <1>3. ASSUME NEW p \in Contexts, spin(p) \/ set_held(p) \/ unlock(p) PROVE Rest
    <2>1. Quiet
      BY <1>0, <1>3 DEF spin, set_held, unlock, At, Goto, Quiet, Ticketed, Admitted
    <2>2. Masking'
      BY <1>3, MaskedStep DEF spin, set_held, unlock, At
    <2> QED BY <2>1, <2>2, QuietStep
  <1>4. ASSUME NEW p \in Contexts, try_load(p) PROVE Rest
    <2>1. Quiet
      BY <1>0, <1>4 DEF IInv, TypeOK, try_load, At, Goto, Quiet, Ticketed, Admitted
    <2>2. Masking'
      BY <1>4, MaskedStep DEF try_load, At
    <2> QED BY <2>1, <2>2, QuietStep
  <1>5. ASSUME NEW p \in Contexts, try_cas(p) PROVE Rest
    <2>1. Masking'
      BY <1>5, MaskedStep DEF try_cas, At
    <2>2. pc[p] \notin Ticketed /\ ticket' = ticket /\ UNCHANGED <<owner, lost>>
      BY <1>5 DEF try_cas, At, Ticketed
    <2>3. CASE owner = ticket[p] /\ next = ticket[p]
      <3>1. ticket' = [ticket EXCEPT ![p] = next]
        BY <2>2, <2>3 DEF IInv, TypeOK
      <3>2. next' = NextTicket /\ Goto(p, "set_held") /\ owner = next
        BY <1>5, <2>3 DEF try_cas
      <3> QED BY <2>1, <2>2, <3>1, <3>2, TicketStep
    <2>4. CASE ~(owner = ticket[p] /\ next = ticket[p])
      <3>1. Quiet
        BY <1>0, <1>5, <2>4 DEF try_cas, At, Goto, Quiet, Ticketed, Admitted
      <3> QED BY <2>1, <3>1, QuietStep
    <2> QED BY <2>3, <2>4
  <1>6. ASSUME NEW p \in Contexts, release(p) PROVE Rest
    <2>1. Masking'
      BY <1>6, MaskedStep DEF release, At
    <2> QED BY <1>6, <2>1, ReleaseStep
  <1>7. ASSUME NEW p \in Contexts, restore(p) PROVE Rest
    <2>1. Quiet
      BY <1>0, <1>7 DEF restore, At, Goto, Quiet, Ticketed, Admitted
    <2> QED BY <1>7, <2>1, QuietStep, RestoreStep
  <1>8. ASSUME NEW c \in CPUs, Interrupt(c) \/ TrapReturn(c) PROVE Rest
    <2>1. Quiet
      BY <1>0, <1>8 DEF Interrupt, TrapReturn, Goto, Quiet, Ticketed, Admitted
    <2> QED BY <1>8, <2>1, QuietStep, TrapStep
  <1>9. ASSUME UNCHANGED vars PROVE Rest
    BY <1>9 DEF IInv, vars, Tickets, Counted, LostAhead, Masking, Distance, Lost, Out
  <1>10. Rest
    BY <1>1, <1>2, <1>3, <1>4, <1>5, <1>6, <1>7, <1>8, <1>9 DEF Next, Step, spin_wait
  <1>11. TypeOK' /\ Flag'
    <2>1. CASE Next
      BY <2>1, TypeStep, FlagStep DEF IInv
    <2>2. CASE UNCHANGED vars
      BY <2>2 DEF IInv, TypeOK, Flag, vars
    <2> QED BY <2>1, <2>2
  <1> QED BY <1>10, <1>11 DEF IInv

THEOREM Invariant == Spec => []IInv
  BY Initially, Inductive, PTL DEF Spec

-----------------------------------------------------------------------------
\* The lock word, the flag and the interrupt masks keep their types.
THEOREM TypeCorrect == Spec => []TypeOK
  BY Invariant, PTL DEF IInv

\* At most one context, thread or trap, on any number of CPUs, is between acquire
\* and release, also after the owner half's wrap has lost a ticket.
THEOREM Exclusion == Spec => []MutualExclusion
  <1>1. IInv => MutualExclusion
    BY DEF IInv, Tickets, MutualExclusion, Admitted, Ticketed
  <1> QED BY <1>1, Invariant, PTL

\* The debug assertions of unlock and of release never fire.
THEOREM Assertions == Spec => []AssertionsHold
  <1>1. IInv => AssertionsHold
    BY DEF IInv, TypeOK, Tickets, Flag, AssertionsHold, Admitted, Ticketed, Distance
  <1> QED BY <1>1, Invariant, PTL

\* No trap handler waits for a lock of the thread it interrupted.
THEOREM SelfDeadlockFree == Spec => []NoSelfDeadlock
  <1>1. IInv => NoSelfDeadlock
    BY ContextCases DEF IInv, Masking, NoSelfDeadlock, Out, Ticketed
  <1> QED BY <1>1, Invariant, PTL

\* Guards nest with traps: each puts back the interrupt state it found.
THEOREM Restored == Spec => []InterruptsRestored
  <1>1. IInv => InterruptsRestored
    BY DEF IInv, Masking, InterruptsRestored
  <1> QED BY <1>1, Invariant, PTL

\* Until a wrap, the distance of the halves is the number of tickets out.
THEOREM Accounting == Spec => []TicketsAccountedFor
  <1>1. IInv => TicketsAccountedFor
    <2>1. SUFFICES ASSUME IInv, lost = None PROVE Distance(next) = Cardinality(Out)
      BY DEF TicketsAccountedFor
    <2>2. Cardinality(Out) \in Nat
      <3>1. IsFiniteSet(Out)
        BY LockAssumption, FS_Subset DEF Out
      <3> QED BY <3>1, FS_CardinalityType
    <2> QED BY <2>1, <2>2 DEF IInv, Counted, Lost
  <1> QED BY <1>1, Invariant, PTL


-----------------------------------------------------------------------------
(* Counting what is smaller enumerates a finite set *)

Smaller(S, d, p) == {q \in S : d[q] < d[p]}

LEMMA Ranks ==
    ASSUME NEW S, IsFiniteSet(S), NEW d \in [S -> Nat],
           \A p, q \in S : d[p] = d[q] => p = q
    PROVE  /\ \A p, q \in S :
                 Cardinality(Smaller(S, d, p)) = Cardinality(Smaller(S, d, q)) => p = q
           /\ \A k \in 0..Cardinality(S) - 1 :
                 \E p \in S : Cardinality(Smaller(S, d, p)) = k
  <1> DEFINE n == Cardinality(S)
             rank == [p \in S |-> Cardinality(Smaller(S, d, p))]
  <1>1. n \in Nat
    BY FS_CardinalityType
  <1>2. ASSUME NEW p \in S
        PROVE  IsFiniteSet(Smaller(S, d, p)) /\ rank[p] \in Nat /\ rank[p] < n
    <2>1. Smaller(S, d, p) \in SUBSET S /\ p \notin Smaller(S, d, p)
      BY DEF Smaller
    <2>2. IsFiniteSet(Smaller(S, d, p)) /\ rank[p] <= n /\ rank[p] # n
      BY <2>1, FS_Subset
    <2> QED
      BY <1>1, <2>2, FS_CardinalityType
  <1>3. ASSUME NEW p \in S, NEW q \in S, d[p] < d[q] PROVE rank[p] < rank[q]
    <2>1. /\ Smaller(S, d, p) \in SUBSET Smaller(S, d, q)
          /\ p \in Smaller(S, d, q) /\ p \notin Smaller(S, d, p)
      BY <1>3 DEF Smaller
    <2>2. rank[p] <= rank[q] /\ rank[p] # rank[q]
      BY <1>2, <2>1, FS_Subset
    <2> QED
      BY <1>2, <2>2
  <1>4. ASSUME NEW p \in S, NEW q \in S, rank[p] = rank[q] PROVE p = q
    <2>1. ~(d[p] < d[q]) /\ ~(d[q] < d[p])
      BY <1>2, <1>3, <1>4
    <2> QED
      BY <2>1
  <1>5. ASSUME NEW k \in 0..n - 1, \A p \in S : rank[p] # k PROVE FALSE
    <2> DEFINE T == (0..n - 1) \ {k}
    <2>1. IsFiniteSet(T) /\ Cardinality(T) = n - 1
      <3>1. IsFiniteSet(0..n - 1) /\ Cardinality(0..n - 1) = n
        <4> HIDE DEF n
        <4>1. 0 \in Int /\ n - 1 \in Int
          BY <1>1
        <4>2. /\ IsFiniteSet(0..n - 1)
              /\ Cardinality(0..n - 1) = IF 0 > n - 1 THEN 0 ELSE (n - 1) - 0 + 1
          BY <4>1, FS_Interval
        <4> QED
          BY <1>1, <4>2
      <3> HIDE DEF n
      <3>2. /\ IsFiniteSet(T)
            /\ Cardinality(T) = IF k \in 0..n - 1 THEN Cardinality(0..n - 1) - 1
                                ELSE Cardinality(0..n - 1)
        BY <3>1, FS_RemoveElement
      <3> QED
        BY <1>1, <1>5, <3>1, <3>2
    <2>2. rank \in [S -> T]
      BY <1>1, <1>2, <1>5
    <2>3. Cardinality(T) < Cardinality(S)
      BY <1>1, <2>1
    <2> HIDE DEF T, rank, n
    <2>4. \E p, q \in S : p # q /\ rank[p] = rank[q]
      BY <2>1, <2>2, <2>3, FS_PigeonHole
    <2> QED
      BY <1>4, <2>4
  <1> QED
    BY <1>4, <1>5

-----------------------------------------------------------------------------
(* The refinement mapping in a state of the invariant *)

\* The contexts that are to be served before p, and p's place after them.
Nearer(p) == {q \in Out : Distance(ticket[q]) < Distance(ticket[p])}
Place == [p \in Out |-> Cardinality(Nearer(p))]

\* Queue lists the contexts that hold a ticket, each at its place.
InOrder ==
    /\ Cardinality(Out) \in Nat
    /\ Queue \in [1..Cardinality(Out) -> Out]
    /\ \A i \in 1..Cardinality(Out) : Place[Queue[i]] = i - 1
    /\ \A p, q \in Out : Place[p] = Place[q] => p = q

LEMMA QueueOrder == IInv => InOrder
  <1> SUFFICES ASSUME IInv PROVE InOrder
    OBVIOUS
  <1> DEFINE d == [p \in Out |-> Distance(ticket[p])]
             n == Cardinality(Out)
  <1>1. IsFiniteSet(Out) /\ n \in Nat
    BY LockAssumption, FS_Subset, FS_CardinalityType DEF Out
  <1>2. /\ owner \in 0..M-1 /\ M \in Nat /\ \A p \in Out : ticket[p] \in 0..M-1
        /\ \A p, q \in Out : ticket[p] = ticket[q] => p = q
    BY LockAssumption DEF IInv, TypeOK, Tickets, Out
  <1>3. \A p \in Out : Distance(ticket[p]) \in Nat
    BY <1>2 DEF Distance
  <1>4. \A p, q \in Out : Distance(ticket[p]) = Distance(ticket[q]) => p = q
    BY <1>2 DEF Distance
  <1>5. d \in [Out -> Nat] /\ \A p, q \in Out : d[p] = d[q] => p = q
    BY <1>3, <1>4
  <1>6. \A p \in Out : Smaller(Out, d, p) = Nearer(p)
    BY DEF Smaller, Nearer
  <1>7. \A p \in Out : Place[p] = Cardinality(Smaller(Out, d, p))
    BY <1>6 DEF Place
  <1> HIDE DEF d
  <1>8. /\ \A p, q \in Out : Place[p] = Place[q] => p = q
        /\ \A k \in 0..n - 1 : \E p \in Out : Place[p] = k
    BY <1>1, <1>5, <1>7, Ranks
  <1> DEFINE Nth(i) == CHOOSE p \in Out : Cardinality(Nearer(p)) = i - 1
  <1>9. Queue = [i \in 1..n |-> Nth(i)]
    BY DEF Queue, Nearer
  <1>10. ASSUME NEW i \in 1..n PROVE Nth(i) \in Out /\ Place[Nth(i)] = i - 1
    <2>1. i - 1 \in 0..n - 1
      BY <1>1
    <2>2. \E p \in Out : Cardinality(Nearer(p)) = i - 1
      BY <1>8, <2>1 DEF Place
    <2> QED
      BY <2>2 DEF Place
  <1> HIDE DEF Nth
  <1>11. Queue \in [1..n -> Out] /\ \A i \in 1..n : Queue[i] = Nth(i)
    BY <1>10, <1>9
  <1> QED
    BY <1>1, <1>8, <1>10, <1>11 DEF InOrder

LEMMA QueueOrderNext == IInv' => InOrder'
  BY QueueOrder, PTL

\* Holder is the context that was admitted.
LEMMA HolderIs ==
    IInv => /\ \A p \in Contexts : pc[p] \in Admitted => Holder = p
            /\ (\A p \in Contexts : pc[p] \notin Admitted) => Holder = <<>>
  BY DEF IInv, Tickets, Holder, Admitted, Ticketed

LEMMA HolderIsNext ==
    IInv' => /\ \A p \in Contexts : pc'[p] \in Admitted => Holder' = p
             /\ (\A p \in Contexts : pc'[p] \notin Admitted) => Holder' = <<>>
  BY DEF IInv, Tickets, Holder, Admitted, Ticketed

-----------------------------------------------------------------------------
(* Steps of the lock are steps of the queue *)

LEMMA FifoInit == Init => Fifo!Init
  <1> SUFFICES ASSUME Init PROVE Fifo!Init
    OBVIOUS
  <1>1. \A p \in Contexts : pc[p] \notin Ticketed /\ pc[p] \notin Admitted
    BY DEF Init, Contexts, Ticketed, Admitted
  <1>2. Out = {}
    BY <1>1 DEF Out
  <1>3. Cardinality(Out) = 0
    BY <1>2, FS_EmptySet
  <1>4. Queue = <<>>
    <2>1. 1..Cardinality(Out) = {}
      BY <1>3
    <2> QED
      BY <2>1 DEF Queue
  <1>5. Holder = <<>>
    BY <1>1 DEF Holder
  <1> QED
    BY <1>4, <1>5 DEF Fifo!Init

\* A step that hands out no ticket and takes none in leaves the queue.
LEMMA QueueSame ==
    ASSUME IInv, IInv', Quiet
    PROVE  Queue' = Queue
  <1>1. Out' = Out
    BY DEF Quiet, Out
  <1>2. \A p \in Out : Distance(ticket[p])' = Distance(ticket[p])
    BY DEF Quiet, Out, Distance
  <1>3. ASSUME NEW p \in Out PROVE Place'[p] = Place[p]
    <2>1. Nearer(p)' = Nearer(p)
      BY <1>1, <1>2 DEF Nearer
    <2> QED
      BY <1>1, <2>1 DEF Place
  <1>4. InOrder /\ InOrder'
    BY QueueOrder, QueueOrderNext
  <1> DEFINE n == Cardinality(Out)
  <1>5. n \in Nat /\ Queue \in [1..n -> Out] /\ Queue' \in [1..n -> Out]
    BY <1>1, <1>4 DEF InOrder
  <1>6. ASSUME NEW i \in 1..n PROVE Queue'[i] = Queue[i]
    <2>1. Place[Queue[i]] = i - 1
      BY <1>4 DEF InOrder
    <2>2. Place'[Queue'[i]] = i - 1
      BY <1>1, <1>4 DEF InOrder
    <2> QED
      BY <1>3, <1>4, <1>5, <2>1, <2>2 DEF InOrder
  <1> HIDE DEF n
  <1> QED
    BY <1>5, <1>6

\* The ticket `next` is farther than all that are out: its context goes last.
LEMMA QueueAppend ==
    ASSUME IInv, IInv', NEW p \in Contexts, pc[p] \notin Ticketed, pc'[p] \in Ticketed,
           ticket'[p] = next, owner' = owner,
           \A q \in Contexts : q # p => pc'[q] = pc[q] /\ ticket'[q] = ticket[q]
    PROVE  /\ p \notin Out
           /\ Queue' = Append(Queue, p)
  <1> DEFINE n == Cardinality(Out)
  <1>1. p \notin Out /\ Out' = Out \cup {p} /\ Out \subseteq Contexts
    BY DEF Out
  <1>2. n \in Nat /\ Cardinality(Out') = n + 1
    BY <1>1, AddOne
  <1>3. InOrder /\ InOrder'
    BY QueueOrder, QueueOrderNext
  <1>4. /\ \A q \in Out : Distance(ticket[q])' = Distance(ticket[q])
        /\ Distance(ticket[p])' = Distance(next)
    BY <1>1 DEF Distance
  <1>5. /\ \A q \in Out : Distance(ticket[q]) < Distance(next)
        /\ Distance(next) \in Int /\ \A q \in Out : Distance(ticket[q]) \in Int
    BY <1>1, LockAssumption DEF IInv, TypeOK, Tickets, Out, Distance
  <1>6. ASSUME NEW q \in Out PROVE Place'[q] = Place[q]
    <2>1. Nearer(q)' = Nearer(q)
      BY <1>1, <1>4, <1>5 DEF Nearer
    <2> QED
      BY <1>1, <2>1 DEF Place
  <1>7. Place'[p] = n
    <2>1. Nearer(p)' = Out
      BY <1>1, <1>4, <1>5 DEF Nearer
    <2> QED
      BY <1>1, <2>1 DEF Place
  <1>8. Queue \in [1..n -> Out] /\ Queue' \in [1..n + 1 -> Out']
    BY <1>2, <1>3 DEF InOrder
  <1>9. ASSUME NEW i \in 1..n PROVE Queue'[i] = Queue[i]
    <2>1. Place[Queue[i]] = i - 1
      BY <1>3 DEF InOrder
    <2>2. i \in 1..n + 1 /\ i - 1 # n
      BY <1>2
    <2>3. Place'[Queue'[i]] = i - 1
      BY <1>2, <1>3, <2>2 DEF InOrder
    <2>4. Queue'[i] \in Out
      BY <1>1, <1>7, <1>8, <2>2, <2>3
    <2> QED
      BY <1>3, <1>6, <1>8, <2>1, <2>3, <2>4 DEF InOrder
  <1>10. Queue'[n + 1] = p
    <2>1. n + 1 \in 1..n + 1
      BY <1>2
    <2>2. Place'[Queue'[n + 1]] = (n + 1) - 1
      BY <1>2, <1>3, <2>1 DEF InOrder
    <2>3. Place'[Queue'[n + 1]] = n
      BY <1>2, <2>2
    <2>4. Queue'[n + 1] \in Out' /\ p \in Out'
      BY <1>1, <1>8, <2>1
    <2> QED
      BY <1>3, <1>7, <2>3, <2>4 DEF InOrder
  <1> HIDE DEF n
  <1>11. /\ Append(Queue, p) \in [1..n + 1 -> Contexts]
         /\ Append(Queue, p)[n + 1] = p
         /\ \A i \in 1..n : Append(Queue, p)[i] = Queue[i]
    <2>1. Queue \in Seq(Contexts) /\ Len(Queue) = n
      BY <1>1, <1>2, <1>8
    <2>2. /\ Append(Queue, p) \in Seq(Contexts)
          /\ Len(Append(Queue, p)) = n + 1
          /\ \A i \in 1..n : Append(Queue, p)[i] = Queue[i]
          /\ Append(Queue, p)[n + 1] = p
      BY <2>1, AppendProperties
    <2>3. Append(Queue, p) \in [1..n + 1 -> Contexts]
      BY <1>2, <2>2, LenProperties
    <2> QED
      BY <2>2, <2>3
  <1>12. \A i \in 1..n + 1 : i \in 1..n \/ i = n + 1
    BY <1>2
  <1>13. \A i \in 1..n + 1 : Queue'[i] = Append(Queue, p)[i]
    BY <1>9, <1>10, <1>11, <1>12
  <1>14. Queue' = Append(Queue, p)
    <2>1. Queue' \in [1..n + 1 -> Contexts] /\ n + 1 \in Nat
      BY <1>1, <1>2, <1>8
    <2> QED
      BY <1>11, <1>13, <2>1
  <1> QED
    BY <1>1, <1>14

\* release takes the first context out of the queue.
LEMMA QueueTail ==
    ASSUME IInv, IInv', NEW p \in Contexts, release(p)
    PROVE  Queue # <<>> /\ Queue' = Tail(Queue)
  <1> USE LockAssumption
  <1> DEFINE n == Cardinality(Out)
  <1>0. /\ owner \in 0..M-1 /\ next \in 0..M-1 /\ ticket \in [Contexts -> 0..M-1] /\ M \in Nat
    BY DEF IInv, TypeOK
  <1>1. /\ pc[p] \in Ticketed /\ pc'[p] \notin Ticketed /\ ticket' = ticket /\ ticket[p] = owner
        /\ \A q \in Contexts : q # p => pc'[q] = pc[q]
    BY DEF IInv, TypeOK, Tickets, release, At, Goto, Ticketed, Admitted
  <1>2. Out' = Out \ {p} /\ p \in Out /\ Out \subseteq Contexts
    BY <1>1 DEF Out
  <1>3. n \in Nat /\ Cardinality(Out') = n - 1 /\ n - 1 \in Nat
    <2>1. n \in Nat /\ Cardinality(Out') = n - 1
      BY <1>2, RemoveOne
    <2>2. Cardinality(Out') \in Nat
      BY QueueOrderNext DEF InOrder
    <2> QED
      BY <2>1, <2>2
  <1>4. InOrder /\ InOrder'
    BY QueueOrder, QueueOrderNext
  <1>5. \A q \in Out' : ticket[q] # owner /\ ticket[q] \in 0..M-1
    BY <1>0, <1>1, <1>2 DEF IInv, Tickets, Out
  <1>6. owner' = IF owner = M - 1 THEN 0 ELSE owner + 1
    BY DEF release
  <1>7. \A q \in Out' : Distance(ticket[q])' = Distance(ticket[q]) - 1
                        /\ Distance(ticket[q]) \in Nat
    BY <1>0, <1>1, <1>5, <1>6 DEF Distance
  <1>8. Distance(ticket[p]) = 0 /\ \A q \in Out' : Distance(ticket[q]) > 0
    BY <1>0, <1>1, <1>5 DEF Distance
  <1>9. ASSUME NEW q \in Out' PROVE Place'[q] = Place[q] - 1
    <2>1. Nearer(q)' = Nearer(q) \ {p} /\ p \in Nearer(q) /\ Nearer(q) \in SUBSET Contexts
      BY <1>2, <1>7, <1>8 DEF Nearer
    <2>2. Cardinality(Nearer(q)') = Cardinality(Nearer(q)) - 1
      BY <2>1, RemoveOne
    <2> QED
      BY <1>2, <2>2 DEF Place
  <1>10. Queue \in [1..n -> Out] /\ Queue' \in [1..n - 1 -> Out']
    BY <1>3, <1>4 DEF InOrder
  <1>11. ASSUME NEW i \in 1..n - 1 PROVE Queue'[i] = Queue[i + 1]
    <2>1. i + 1 \in 1..n /\ i \in Int
      BY <1>3
    <2>2. Place[Queue[i + 1]] = (i + 1) - 1
      BY <1>4, <2>1 DEF InOrder
    <2>3. Place'[Queue'[i]] = i - 1
      BY <1>3, <1>4 DEF InOrder
    <2>4. Queue'[i] \in Out' /\ Queue'[i] \in Out
      BY <1>2, <1>10
    <2>5. Place[Queue'[i]] \in Nat
      <3>1. ASSUME NEW q \in Out PROVE Place[q] \in Nat
        <4>1. IsFiniteSet(Nearer(q))
          <5>1. Nearer(q) \in SUBSET Contexts
            BY <1>2 DEF Nearer
          <5> QED
            BY <5>1, FS_Subset
        <4> QED
          BY <4>1, FS_CardinalityType DEF Place
      <3> QED
        BY <2>4, <3>1
    <2>6. Place[Queue'[i]] = Place[Queue[i + 1]]
      BY <1>9, <2>1, <2>2, <2>3, <2>4, <2>5
    <2> QED
      BY <1>4, <1>10, <2>1, <2>4, <2>6 DEF InOrder
  <1> HIDE DEF n
  <1>12. Queue \in Seq(Out) /\ Len(Queue) = n /\ Queue # <<>>
    BY <1>3, <1>10
  <1>13. /\ Tail(Queue) \in Seq(Out) /\ Len(Tail(Queue)) = n - 1
         /\ \A i \in 1..n - 1 : Tail(Queue)[i] = Queue[i + 1]
    BY <1>3, <1>12, HeadTailProperties
  <1>14. Tail(Queue) \in [1..n - 1 -> Out] /\ Queue' \in [1..n - 1 -> Out]
    <2>1. Tail(Queue) \in [1..n - 1 -> Out]
      BY <1>13, LenProperties
    <2>2. Queue' \in [1..n - 1 -> Out]
      BY <1>2, <1>10
    <2> QED
      BY <2>1, <2>2
  <1>15. \A i \in 1..n - 1 : Queue'[i] = Tail(Queue)[i]
    BY <1>11, <1>13
  <1>16. Queue' = Tail(Queue)
    BY <1>3, <1>14, <1>15
  <1> QED
    BY <1>12, <1>16

\* acquire, and try_acquire when its compare_exchange succeeds, ask; who finds
\* its own ticket in the owner half is alone and is admitted at once.
LEMMA AskStep ==
    ASSUME IInv, IInv', NEW p \in Contexts, pc[p] \notin Ticketed, ticket'[p] = next,
           NEW l \in {"spin", "set_held"}, Goto(p, l), l = "set_held" => owner = next,
           owner' = owner, \A q \in Contexts : q # p => ticket'[q] = ticket[q]
    PROVE  Fifo!Next
  <1>1. /\ pc'[p] = l /\ pc'[p] \in Ticketed
        /\ \A q \in Contexts : q # p => pc'[q] = pc[q]
    BY DEF IInv, TypeOK, Goto, Ticketed
  <1>2. p \notin Out /\ Queue' = Append(Queue, p)
    BY <1>1, QueueAppend
  <1>3. InOrder
    BY QueueOrder
  <1>4. \A i \in DOMAIN Queue : Queue[i] # p
    BY <1>2, <1>3 DEF InOrder
  <1>5. CASE l = "set_held"
    <2>1. Distance(next) = 0
      BY <1>5, LockAssumption DEF IInv, TypeOK, Distance
    <2>2. Cardinality(Out) = 0
      BY <1>3, <2>1 DEF IInv, Counted, Lost, InOrder
    <2>3. Queue = <<>>
      BY <1>3, <2>2 DEF InOrder
    <2>4. Holder' = p
      BY <1>1, <1>5, HolderIsNext DEF Admitted
    <2>5. Fifo!Ask(p)
      BY <1>2, <1>4, <2>3, <2>4 DEF Fifo!Ask
    <2> QED
      BY <2>5 DEF Fifo!Next
  <1>6. CASE l = "spin"
    <2>1. pc[p] \notin Admitted /\ pc'[p] \notin Admitted
      BY <1>1, <1>6 DEF Admitted, Ticketed
    <2>2. Holder' = Holder
      BY <1>1, <2>1 DEF Holder
    <2>3. Fifo!AskAndWait(p)
      BY <1>2, <1>4, <2>2 DEF Fifo!AskAndWait
    <2> QED
      BY <2>3 DEF Fifo!Next
  <1> QED
    BY <1>5, <1>6

\* The polling loop is left by the first of the queue, when nobody holds the lock.
LEMMA AdmitStep ==
    ASSUME IInv, IInv', Quiet, NEW p \in Contexts, spin(p)
    PROVE  Fifo!Next
  <1>1. /\ pc[p] = "spin" /\ pc'[p] = "set_held" /\ ticket[p] = owner
        /\ \A q \in Contexts : q # p => pc'[q] = pc[q]
    BY DEF IInv, TypeOK, spin, At, Goto
  <1>2. p \in Out /\ \A q \in Contexts : pc[q] \notin Admitted
    BY <1>1 DEF IInv, Tickets, Out, Ticketed, Admitted
  <1>3. Holder = <<>> /\ Holder' = p
    BY <1>1, <1>2, HolderIs, HolderIsNext DEF Admitted
  <1>4. InOrder
    BY QueueOrder
  <1>5. Place[p] = 0
    <2>1. /\ Distance(ticket[p]) = 0
          /\ \A q \in Out : Distance(ticket[q]) \in Nat
      BY <1>1, LockAssumption DEF IInv, TypeOK, Distance, Out
    <2>2. Nearer(p) = {}
      BY <2>1 DEF Nearer
    <2> QED
      BY <1>2, <2>2, FS_EmptySet DEF Place
  <1>6. Cardinality(Out) # 0
    <2>1. IsFiniteSet(Out)
      BY LockAssumption, FS_Subset DEF Out
    <2> QED
      BY <1>2, <2>1, FS_EmptySet
  <1>7. 1 \in 1..Cardinality(Out)
    BY <1>4, <1>6 DEF InOrder
  <1>8. Queue[1] = p
    BY <1>2, <1>4, <1>5, <1>7 DEF InOrder
  <1>9. Queue # <<>> /\ Head(Queue) = p
    BY <1>4, <1>7, <1>8 DEF InOrder
  <1>10. Queue' = Queue
    BY QueueSame
  <1>11. Fifo!Admit
    BY <1>3, <1>9, <1>10 DEF Fifo!Admit
  <1> QED
    BY <1>11 DEF Fifo!Next

LEMMA LeaveStep ==
    ASSUME IInv, IInv', NEW p \in Contexts, release(p)
    PROVE  Fifo!Next
  <1>1. /\ pc[p] \in Admitted /\ pc'[p] \notin Admitted
        /\ \A q \in Contexts : q # p => pc'[q] = pc[q]
    BY DEF IInv, TypeOK, release, At, Goto, Admitted
  <1>2. \A q \in Contexts : pc'[q] \notin Admitted
    BY <1>1 DEF IInv, Tickets, Admitted, Ticketed
  <1>3. Holder = p /\ Holder' = <<>>
    BY <1>1, <1>2, HolderIs, HolderIsNext
  <1>4. p # <<>>
    BY DEF Contexts
  <1>5. Queue' = Tail(Queue)
    BY QueueTail
  <1>6. Fifo!Leave
    BY <1>3, <1>4, <1>5 DEF Fifo!Leave
  <1> QED
    BY <1>6 DEF Fifo!Next

\* Every other step is invisible: it admits nobody.
LEMMA Stutter ==
    ASSUME IInv, IInv', Quiet,
           \A p \in Contexts : pc'[p] \in Admitted <=> pc[p] \in Admitted
    PROVE  UNCHANGED Fifo!vars
  <1>1. Queue' = Queue
    BY QueueSame
  <1>2. Holder' = Holder
    BY DEF Holder
  <1> QED
    BY <1>1, <1>2 DEF Fifo!vars

LEMMA StepImplements == IInv /\ IInv' /\ [Next]_vars => [Fifo!Next]_(Fifo!vars)
  <1> SUFFICES ASSUME IInv, IInv', [Next]_vars PROVE Fifo!Next \/ UNCHANGED Fifo!vars
    OBVIOUS
  <1> DEFINE Seen == Fifo!Next \/ UNCHANGED Fifo!vars
             Unseen == /\ Quiet
                       /\ \A p \in Contexts : pc'[p] \in Admitted <=> pc[p] \in Admitted
  <1>0. /\ pc \in [Contexts -> Ticketed \cup {"off", "idle", "acquire", "try_load",
                                              "try_cas", "restore"}]
        /\ ticket \in [Contexts -> 0..M-1]
    BY DEF IInv, TypeOK
  <1>1. ASSUME NEW p \in Contexts, guard(p) \/ try_guard(p) PROVE Unseen
    BY <1>0, <1>1 DEF guard, try_guard, At, Goto, Quiet, Ticketed, Admitted
  <1>2. ASSUME NEW p \in Contexts, acquire(p) PROVE Seen
    <2>1. PICK l \in {"spin", "set_held"} : Goto(p, l) /\ (l = "set_held" => owner = next)
      BY <1>2 DEF acquire
    <2>2. /\ pc[p] \notin Ticketed /\ ticket'[p] = next /\ owner' = owner
          /\ \A q \in Contexts : q # p => ticket'[q] = ticket[q]
      BY <1>0, <1>2 DEF acquire, At, Ticketed
    <2> QED
      BY <2>1, <2>2, AskStep
  <1>3. ASSUME NEW p \in Contexts, spin(p) PROVE Seen
    <2>1. Quiet
      BY <1>0, <1>3 DEF spin, At, Goto, Quiet, Ticketed, Admitted
    <2> QED
      BY <1>3, <2>1, AdmitStep
  <1>4. ASSUME NEW p \in Contexts, set_held(p) \/ unlock(p) \/ restore(p) PROVE Unseen
    BY <1>0, <1>4 DEF set_held, unlock, restore, At, Goto, Quiet, Ticketed, Admitted
  <1>5. ASSUME NEW p \in Contexts, try_load(p) PROVE Unseen
    BY <1>0, <1>5 DEF try_load, At, Goto, Quiet, Ticketed, Admitted
  <1>6. ASSUME NEW p \in Contexts, try_cas(p) PROVE Seen \/ Unseen
    <2>1. CASE owner = ticket[p] /\ next = ticket[p]
      <3>1. /\ pc[p] \notin Ticketed /\ ticket'[p] = next /\ owner' = owner
            /\ \A q \in Contexts : q # p => ticket'[q] = ticket[q]
            /\ Goto(p, "set_held") /\ owner = next
        BY <1>6, <2>1 DEF try_cas, At, Ticketed
      <3> QED
        BY <3>1, AskStep
    <2>2. CASE ~(owner = ticket[p] /\ next = ticket[p])
      BY <1>0, <1>6, <2>2 DEF try_cas, At, Goto, Quiet, Ticketed, Admitted
    <2> QED
      BY <2>1, <2>2
  <1>7. ASSUME NEW p \in Contexts, release(p) PROVE Seen
    BY <1>7, LeaveStep
  <1>8. ASSUME NEW c \in CPUs, Interrupt(c) \/ TrapReturn(c) PROVE Unseen
    BY <1>0, <1>8 DEF Interrupt, TrapReturn, Goto, Quiet, Ticketed, Admitted
  <1>9. ASSUME UNCHANGED vars PROVE Unseen
    BY <1>9 DEF vars, Quiet
  <1>10. Unseen => Seen
    BY Stutter
  <1> HIDE DEF Seen, Unseen
  <1>11. Seen
    BY <1>1, <1>2, <1>3, <1>4, <1>5, <1>6, <1>7, <1>8, <1>9, <1>10 DEF Next, Step, spin_wait
  <1> QED
    BY <1>11 DEF Seen

\* The ticket lock admits contexts one at a time in the order in which they took
\* their tickets, for every number of CPUs, with guard and try_guard mixed, in
\* threads and in traps, and across the wrap of either half of the word.
THEOREM Refinement == Spec => ImplementsFifoLock
  BY FifoInit, StepImplements, Invariant, PTL DEF Spec, ImplementsFifoLock, Fifo!Spec
=============================================================================
