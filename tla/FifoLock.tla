------------------------------ MODULE FifoLock ------------------------------
(***************************************************************************)
(* What the spin lock promises: contexts are admitted one at a time, in    *)
(* the order in which they asked.                                          *)
(***************************************************************************)
EXTENDS Sequences

CONSTANTS
    Contexts,   \* who may ask for the lock
    Nobody      \* not a context

VARIABLES
    queue,      \* contexts that asked, first come first
    holder      \* the context admitted, or Nobody

vars == <<queue, holder>>

Init == queue = <<>> /\ holder = Nobody

\* Ask, and be admitted at once when nobody else has asked.
Ask(p) ==
    /\ \A i \in DOMAIN queue : queue[i] # p
    /\ queue' = Append(queue, p)
    /\ holder' = IF queue = <<>> THEN p ELSE holder

\* As Ask, but not admitted yet.
AskAndWait(p) ==
    /\ \A i \in DOMAIN queue : queue[i] # p
    /\ queue' = Append(queue, p)
    /\ UNCHANGED holder

Admit ==
    /\ holder = Nobody
    /\ queue # <<>>
    /\ holder' = Head(queue)
    /\ UNCHANGED queue

Leave ==
    /\ holder # Nobody
    /\ holder' = Nobody
    /\ queue' = Tail(queue)

Next == Admit \/ Leave \/ \E p \in Contexts : Ask(p) \/ AskAndWait(p)

Spec == Init /\ [][Next]_vars
=============================================================================
