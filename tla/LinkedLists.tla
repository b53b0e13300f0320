---------------------------- MODULE LinkedLists ----------------------------
(***************************************************************************)
(* Doubly linked lists threaded through the elements, as the free list of  *)
(* the PMM and the partial lists of the slab pools are: `next` and `prev`  *)
(* give every element its neighbours, `null` ends the list on both sides.  *)
(***************************************************************************)
EXTENDS Integers, FiniteSets

\* The element that is n steps from `first` along `next`.
Walk(first, next, null) ==
    LET at[n \in Nat] == IF n = 0 THEN first
                         ELSE IF at[n - 1] = null THEN null ELSE next[at[n - 1]]
    IN at

\* From `head` along `next` the list visits every element of S once and ends, and
\* `prev` leads from every element to the one before it.
DoublyLinked(S, head, next, prev, null) ==
    LET at == Walk(head, next, null)
        size == Cardinality(S)
    IN /\ {at[n] : n \in 0..(size - 1)} = S
       /\ at[size] = null
       /\ \A n \in 0..(size - 1) : prev[at[n]] = IF n = 0 THEN null ELSE at[n - 1]

\* The last element of such a list.
EndOf(S, head, next, null) ==
    IF S = {} THEN null ELSE Walk(head, next, null)[Cardinality(S) - 1]
=============================================================================
