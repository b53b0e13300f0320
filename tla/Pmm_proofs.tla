---------------------------- MODULE Pmm_proofs ----------------------------
(***************************************************************************)
(* Proofs about Pmm, for every list of arenas and every set of reserved    *)
(* pages: the free list is one doubly linked list of exactly the free      *)
(* pages, every allocated page has one owner, every release succeeds, and  *)
(* the scan for a run is first-fit.                                        *)
(***************************************************************************)
EXTENDS Pmm, LinkedLists_proofs

-----------------------------------------------------------------------------
(* Pages and runs *)

LEMMA ArenaTypes ==
    ASSUME NEW a \in DOMAIN Arenas
    PROVE  /\ a \in Nat \ {0} /\ a <= Len(Arenas) /\ Len(Arenas) \in Nat
           /\ Arenas[a].base \in Nat /\ Arenas[a].page_count \in Nat
           /\ PAGE_SIZE \in Nat \ {0} /\ Arenas[a].base % PAGE_SIZE = 0
  <1>1. Arenas \in Seq([base : Nat, page_count : Nat])
    BY PmmAssumption
  <1>2. DOMAIN Arenas = 1..Len(Arenas) /\ Len(Arenas) \in Nat
    BY <1>1
  <1>3. Arenas[a] \in [base : Nat, page_count : Nat]
    <2> DEFINE R == [base : Nat, page_count : Nat]
    <2>1. Arenas \in Seq(R) /\ a \in 1..Len(Arenas)
      BY <1>1, <1>2
    <2> HIDE DEF R
    <2>2. Arenas[a] \in R
      BY <2>1
    <2> QED
      BY <2>2 DEF R
  <1> QED
    BY <1>2, <1>3, PmmAssumption

LEMMA HandleIs ==
    ASSUME NEW h
    PROVE  h \in Handles <=> \E a \in DOMAIN Arenas : \E i \in Nat :
                                i < Arenas[a].page_count /\ h = <<a, i>>
  <1>1. ASSUME h \in Handles
        PROVE  \E a \in DOMAIN Arenas : \E i \in Nat : i < Arenas[a].page_count /\ h = <<a, i>>
    BY <1>1, ArenaTypes DEF Handles
  <1>2. ASSUME NEW a \in DOMAIN Arenas, NEW i \in Nat, i < Arenas[a].page_count, h = <<a, i>>
        PROVE  h \in Handles
    BY <1>2, ArenaTypes DEF Handles
  <1> QED
    BY <1>1, <1>2

LEMMA HandleParts ==
    ASSUME NEW h \in Handles
    PROVE  /\ h = <<h[1], h[2]>> /\ h[1] \in DOMAIN Arenas /\ h[2] \in Nat
           /\ h[2] < Arenas[h[1]].page_count
  <1>1. PICK a \in DOMAIN Arenas : \E i \in Nat : i < Arenas[a].page_count /\ h = <<a, i>>
    BY HandleIs
  <1> QED
    BY <1>1

\* A run that ends inside its arena.
InArena(head, count) ==
    head \in Handles /\ count \in Nat /\ head[2] + count <= Arenas[head[1]].page_count

LEMMA RunPages ==
    ASSUME NEW head, NEW count, InArena(head, count)
    PROVE  /\ \A i \in 0..(count - 1) : Nth(head, i) \in Handles /\ Nth(head, i) \in Run(head, count)
           /\ \A i, j \in 0..(count - 1) : Nth(head, i) = Nth(head, j) => i = j
           /\ Run(head, count) \subseteq Handles
           /\ \A h \in Run(head, count) : \E i \in 0..(count - 1) : h = Nth(head, i)
           /\ Nth(head, 0) = head
           /\ \A h \in Run(head, count) : h[1] = head[1] /\ h[2] >= head[2] /\ h[2] < head[2] + count
           /\ \A h \in Handles : h[1] = head[1] /\ h[2] >= head[2] /\ h[2] < head[2] + count
                                   => h \in Run(head, count)
  <1>1. /\ head \in Handles /\ count \in Nat /\ head[2] + count <= Arenas[head[1]].page_count
        /\ head = <<head[1], head[2]>> /\ head[1] \in DOMAIN Arenas /\ head[2] \in Nat
        /\ Arenas[head[1]].page_count \in Nat
    BY HandleParts, ArenaTypes DEF InArena
  <1>2. ASSUME NEW i \in 0..(count - 1) PROVE Nth(head, i) \in Handles
    BY <1>1, HandleIs DEF Nth
  <1>4. \A i \in 0..(count - 1) : /\ Nth(head, i) \in Run(head, count)
                                  /\ Nth(head, i)[1] = head[1] /\ Nth(head, i)[2] = head[2] + i
    BY DEF Run, Nth
  <1>5. \A h \in Run(head, count) : \E i \in 0..(count - 1) : h = Nth(head, i)
    BY DEF Run
  <1>6. ASSUME NEW h \in Run(head, count)
        PROVE  h \in Handles /\ h[1] = head[1] /\ h[2] >= head[2] /\ h[2] < head[2] + count
    BY <1>1, <1>2, <1>4, <1>5
  <1>7. ASSUME NEW h \in Handles, h[1] = head[1], h[2] >= head[2], h[2] < head[2] + count
        PROVE  h \in Run(head, count)
    <2>1. h = <<h[1], h[2]>> /\ h[2] \in Nat
      BY HandleParts
    <2>2. h[2] - head[2] \in 0..(count - 1) /\ h[2] = head[2] + (h[2] - head[2])
      BY <1>1, <1>7, <2>1
    <2> QED
      BY <1>4, <1>7, <2>1, <2>2 DEF Nth
  <1> QED
    BY <1>1, <1>2, <1>4, <1>5, <1>6, <1>7 DEF Nth

-----------------------------------------------------------------------------
(* The free list *)

Links == [head : Handles \cup {NONE}, tail : Handles \cup {NONE},
          prev : [Handles -> Handles \cup {NONE}], next : [Handles -> Handles \cup {NONE}]]

\* The list l has the n pages of S, and no other page has links.
FreeList(l, S, n) ==
    /\ l \in Links /\ S \in SUBSET Handles
    /\ \E at : /\ Chain(at, n, S, l.next, l.prev, NONE)
               /\ l.head = at[0] /\ l.tail = IF n = 0 THEN NONE ELSE at[n - 1]
    /\ \A h \in Handles \ S : l.prev[h] = NONE /\ l.next[h] = NONE

LEMMA EmptyListIs == FreeList(EmptyList, {}, 0)
  <1>3. [i \in Nat |-> NONE][0] = NONE /\ EmptyList.head = NONE /\ EmptyList.tail = NONE
    BY DEF EmptyList
  <1> QED
    BY <1>3, ChainEmpty, Zenon DEF FreeList, EmptyList, Links

LEMMA PushFields ==
    ASSUME NEW l \in Links, NEW h \in Handles, NEW m, m = push_free(l, h)
    PROVE  /\ m \in Links
           /\ m.tail = h /\ m.head = IF l.tail = NONE THEN h ELSE l.head
           /\ \A t \in Handles : m.next[t] = IF t = l.tail THEN h ELSE
                                             IF t = h THEN NONE ELSE l.next[t]
           /\ \A t \in Handles : m.prev[t] = IF t = h THEN l.tail ELSE l.prev[t]
  <1> DEFINE fresh == [l EXCEPT !.prev[h] = l.tail, !.next[h] = NONE, !.tail = h]
  <1>1. /\ l.head \in Handles \cup {NONE} /\ l.tail \in Handles \cup {NONE}
        /\ l.prev \in [Handles -> Handles \cup {NONE}]
        /\ l.next \in [Handles -> Handles \cup {NONE}] /\ NONE \notin Handles
    BY PmmAssumption DEF Links
  <1>2. /\ fresh \in Links /\ fresh.tail = h /\ fresh.head = l.head
        /\ fresh.next = [l.next EXCEPT ![h] = NONE] /\ fresh.prev = [l.prev EXCEPT ![h] = l.tail]
    BY <1>1, Zenon DEF Links
  <1> HIDE DEF fresh
  <1>3. CASE l.tail = NONE
    <2>1. m = [fresh EXCEPT !.head = h]
      BY <1>3, Zenon DEF push_free, fresh
    <2> HIDE <2>1
    <2> QED
      BY <1>1, <1>2, <1>3, <2>1 DEF Links
  <1>4. CASE l.tail # NONE
    <2>2. /\ m \in Links /\ m.tail = fresh.tail /\ m.head = fresh.head
          /\ m.next = [fresh.next EXCEPT ![l.tail] = h] /\ m.prev = fresh.prev
      BY <1>1, <1>2, <1>4, Zenon DEF Links, push_free, fresh
    <2> QED
      BY <1>1, <1>2, <1>4, <2>2
  <1> QED
    BY <1>3, <1>4



LEMMA PushFree ==
    ASSUME NEW l, NEW S, NEW n, FreeList(l, S, n), NEW h \in Handles \ S,
           NEW m, m = push_free(l, h)
    PROVE  FreeList(m, S \cup {h}, n + 1)
  <1>0. l \in Links /\ S \in SUBSET Handles /\ NONE \notin Handles /\ h # NONE
    BY PmmAssumption DEF FreeList
  <1>1. PICK at : /\ Chain(at, n, S, l.next, l.prev, NONE)
                  /\ l.head = at[0] /\ l.tail = IF n = 0 THEN NONE ELSE at[n - 1]
    BY DEF FreeList
  <1>2. /\ m \in Links
        /\ m.tail = h /\ m.head = IF l.tail = NONE THEN h ELSE l.head
        /\ \A t \in Handles : m.next[t] = IF t = l.tail THEN h ELSE
                                          IF t = h THEN NONE ELSE l.next[t]
        /\ \A t \in Handles : m.prev[t] = IF t = h THEN l.tail ELSE l.prev[t]
    BY <1>0, PushFields
  <1>3. n \in Nat /\ (n = 0 <=> S = {}) /\ (n # 0 => at[n - 1] \in S)
    BY <1>1, ChainElements DEF Chain
  <1>4. l.tail # h /\ (l.tail = NONE <=> n = 0)
    BY <1>0, <1>1, <1>3
  <1>5. NewLast(h, at, n, S, l.next, l.prev, m.next, m.prev, NONE)
    BY <1>0, <1>1, <1>2, <1>3, <1>4 DEF NewLast
  <1> DEFINE at1 == [at EXCEPT ![n] = h]
  <1>6. Chain(at1, n + 1, S \cup {h}, m.next, m.prev, NONE)
    BY <1>1, <1>5, ChainAppend
  <1>7. m.head = at1[0] /\ m.tail = at1[n] /\ n + 1 # 0 /\ n + 1 - 1 = n
    BY <1>1, <1>2, <1>3, <1>4 DEF Chain
  <1> HIDE DEF at1
  <1> QED
    BY <1>0, <1>1, <1>2, <1>3, <1>4, <1>6, <1>7 DEF FreeList

LEMMA RemoveFields ==
    ASSUME NEW l \in Links, NEW h \in Handles, NEW m, m = remove_free(l, h)
    PROVE  LET p == l.prev[h]
               n == l.next[h]
           IN  /\ m \in Links
               /\ m.head = IF p = NONE THEN n ELSE l.head
               /\ m.tail = IF n = NONE THEN p ELSE l.tail
               /\ \A t \in Handles : m.next[t] = IF t = h THEN NONE ELSE
                                                 IF t = p THEN n ELSE l.next[t]
               /\ \A t \in Handles : m.prev[t] = IF t = h THEN NONE ELSE
                                                 IF t = n THEN p ELSE l.prev[t]
  <1> DEFINE p == l.prev[h]
             n == l.next[h]
             back == IF p = NONE THEN [l EXCEPT !.head = n] ELSE [l EXCEPT !.next[p] = n]
             both == IF n = NONE THEN [back EXCEPT !.tail = p] ELSE [back EXCEPT !.prev[n] = p]
  <1>1. /\ l.head \in Handles \cup {NONE} /\ l.tail \in Handles \cup {NONE}
        /\ l.prev \in [Handles -> Handles \cup {NONE}]
        /\ l.next \in [Handles -> Handles \cup {NONE}] /\ NONE \notin Handles
        /\ p \in Handles \cup {NONE} /\ n \in Handles \cup {NONE}
    BY PmmAssumption DEF Links
  <1>2. m = [both EXCEPT !.prev[h] = NONE, !.next[h] = NONE]
    BY Zenon DEF remove_free
  <1> HIDE DEF p, n
  <1>3. /\ back \in Links /\ back.tail = l.tail /\ back.prev = l.prev
        /\ back.head = IF p = NONE THEN n ELSE l.head
        /\ \A t \in Handles : back.next[t] = IF t = p THEN n ELSE l.next[t]
    BY <1>1 DEF Links
  <1> HIDE DEF back
  <1>4. /\ both \in Links /\ both.head = back.head /\ both.next = back.next
        /\ both.tail = IF n = NONE THEN p ELSE l.tail
        /\ \A t \in Handles : both.prev[t] = IF t = n THEN p ELSE l.prev[t]
    BY <1>1, <1>3 DEF Links
  <1> HIDE DEF both
  <1>5. /\ m \in Links /\ m.head = both.head /\ m.tail = both.tail
        /\ m.next = [both.next EXCEPT ![h] = NONE] /\ m.prev = [both.prev EXCEPT ![h] = NONE]
    <2>2. /\ m.head = both.head /\ m.tail = both.tail
          /\ m.next = [both.next EXCEPT ![h] = NONE] /\ m.prev = [both.prev EXCEPT ![h] = NONE]
          /\ m = [head |-> m.head, tail |-> m.tail, prev |-> m.prev, next |-> m.next]
      BY <1>2, <1>4, Zenon DEF Links
    <2> HIDE <1>2
    <2> QED
      BY <1>4, <2>2 DEF Links
  <1> HIDE <1>2
  <1> QED
    BY <1>3, <1>4, <1>5 DEF p, n, Links

LEMMA RemoveFree ==
    ASSUME NEW l, NEW S, NEW n, FreeList(l, S, n), NEW h \in S,
           NEW m, m = remove_free(l, h)
    PROVE  n \in Nat \ {0} /\ FreeList(m, S \ {h}, n - 1)
  <1> DEFINE p == l.prev[h]
             q == l.next[h]
             T == S \ {h}
  <1>0. l \in Links /\ S \in SUBSET Handles /\ NONE \notin Handles /\ h \in Handles
    BY PmmAssumption DEF FreeList
  <1>1. PICK at : /\ Chain(at, n, S, l.next, l.prev, NONE)
                  /\ l.head = at[0] /\ l.tail = IF n = 0 THEN NONE ELSE at[n - 1]
    BY DEF FreeList
  <1>2. /\ m \in Links
        /\ m.head = IF p = NONE THEN q ELSE l.head
        /\ m.tail = IF q = NONE THEN p ELSE l.tail
        /\ \A t \in Handles : m.next[t] = IF t = h THEN NONE ELSE IF t = p THEN q ELSE l.next[t]
        /\ \A t \in Handles : m.prev[t] = IF t = h THEN NONE ELSE IF t = q THEN p ELSE l.prev[t]
    BY <1>0, RemoveFields
  <1>3. PICK k \in 0..(n - 1) : at[k] = h
    BY <1>1, ChainElements
  <1>4. n \in Nat /\ k \in Nat /\ k < n
    BY <1>1, <1>3 DEF Chain
  <1>5. /\ q = at[k + 1] /\ p = IF k = 0 THEN NONE ELSE at[k - 1]
        /\ \A i \in Nat : at[i] = NONE <=> n <= i
    BY <1>1, <1>3, <1>4 DEF Chain
  <1> DEFINE at1 == [i \in Nat |-> IF i < k THEN at[i] ELSE at[i + 1]]
  <1>6. Chain(at1, n - 1, T, m.next, m.prev, NONE)
    BY <1>0, <1>1, <1>2, <1>3, ChainRemove
  <1>7. m.head = at1[0]
    BY <1>1, <1>2, <1>4, <1>5
  <1>8. m.tail = IF n - 1 = 0 THEN NONE ELSE at1[n - 2]
    BY <1>1, <1>2, <1>4, <1>5
  <1> HIDE DEF at1
  <1>9. \A t \in Handles \ T : m.prev[t] = NONE /\ m.next[t] = NONE
    <2>2. (p \in S \/ p = NONE) /\ (q \in S \/ q = NONE)
      BY <1>1, <1>4, <1>5 DEF Chain
    <2> QED
      BY <1>0, <1>2, <2>2 DEF FreeList
  <1> QED
    BY <1>0, <1>2, <1>4, <1>6, <1>7, <1>8, <1>9 DEF FreeList


-----------------------------------------------------------------------------
(* The loops over the pages of a run *)

LEMMA RemoveEach ==
    ASSUME NEW l, NEW S, NEW n, FreeList(l, S, n),
           NEW head, NEW count, InArena(head, count), Run(head, count) \subseteq S
    PROVE  FreeList(remove_each(l, head, count), S \ Run(head, count), n - count)
  <1> DEFINE Step(f) == [i \in 0..count |-> IF i = 0 THEN l
                                            ELSE remove_free(f[i - 1], Nth(head, i - 1))]
             w == CHOOSE f : f = Step(f)
             step == [i \in Nat |-> [m \in Links |->
                        IF i < count THEN remove_free(m, Nth(head, i)) ELSE m]]
  <1>0. l \in Links /\ S \in SUBSET Handles /\ count \in Nat
    BY DEF FreeList, InArena
  <1>1. /\ \A i \in 0..(count - 1) : Nth(head, i) \in Handles /\ Nth(head, i) \in Run(head, count)
        /\ \A i, j \in 0..(count - 1) : Nth(head, i) = Nth(head, j) => i = j
        /\ \A h \in Run(head, count) : \E i \in 0..(count - 1) : h = Nth(head, i)
    BY RunPages
  <1>2. Steps(step, Links)
    BY <1>0, <1>1, RemoveFields DEF Steps
  <1>3. \A i \in 0..(count - 1), m \in Links : step[i][m] = remove_free(m, Nth(head, i))
    BY <1>0
  <1> HIDE DEF step
  <1>4. PICK f : Iteration(f, count, l, step, Links)
    BY <1>0, <1>2, Loop
  <1>5. f = Step(f)
    BY <1>0, <1>3, <1>4 DEF Iteration
  <1>6. w = Step(w)
    BY <1>5, Zenon
  <1>7. remove_each(l, head, count) = w[count]
    BY Zenon DEF remove_each
  <1> HIDE DEF w
  <1>8. w[0] = l /\ \A i \in Nat : i < count => w[i + 1] = remove_free(w[i], Nth(head, i))
    BY <1>0, <1>6
  <1> HIDE DEF Step
  <1> DEFINE Rest(i) == {s \in S : \A j \in 0..(i - 1) : s # Nth(head, j)}
             Good == {i \in Nat : i <= count => FreeList(w[i], Rest(i), n - i)}
  <1>9. 0 \in Good
    BY <1>8 DEF FreeList, Chain
  <1>10. ASSUME NEW i \in Nat, i \in Good PROVE i + 1 \in Good
    <2> SUFFICES ASSUME i + 1 <= count PROVE FreeList(w[i + 1], Rest(i + 1), n - (i + 1))
      OBVIOUS
    <2>1. FreeList(w[i], Rest(i), n - i) /\ w[i + 1] = remove_free(w[i], Nth(head, i))
      BY <1>0, <1>8, <1>10
    <2>2. Nth(head, i) \in Rest(i)
      BY <1>0, <1>1
    <2>3. Rest(i + 1) = Rest(i) \ {Nth(head, i)}
      OBVIOUS
    <2> HIDE DEF Rest, Good
    <2>5. (n - i) - 1 = n - (i + 1)
      BY DEF FreeList, Chain
    <2> QED
      BY <2>1, <2>2, <2>3, <2>5, RemoveFree
  <1>11. count \in Good
    BY <1>0, <1>9, <1>10, Induction, Zenon
  <1> QED
    BY <1>0, <1>1, <1>7, <1>11


LEMMA PushEach ==
    ASSUME NEW l, NEW S, NEW n, FreeList(l, S, n),
           NEW head, NEW count, InArena(head, count), Run(head, count) \cap S = {}
    PROVE  FreeList(push_each(l, head, count), S \cup Run(head, count), n + count)
  <1> DEFINE Step(f) == [i \in 0..count |-> IF i = 0 THEN l
                                            ELSE push_free(f[i - 1], Nth(head, i - 1))]
             w == CHOOSE f : f = Step(f)
             step == [i \in Nat |-> [m \in Links |->
                        IF i < count THEN push_free(m, Nth(head, i)) ELSE m]]
  <1>0. l \in Links /\ S \in SUBSET Handles /\ count \in Nat
    BY DEF FreeList, InArena
  <1>1. /\ \A i \in 0..(count - 1) : Nth(head, i) \in Handles /\ Nth(head, i) \in Run(head, count)
        /\ \A i, j \in 0..(count - 1) : Nth(head, i) = Nth(head, j) => i = j
        /\ \A h \in Run(head, count) : \E i \in 0..(count - 1) : h = Nth(head, i)
    BY RunPages
  <1>2. Steps(step, Links)
    BY <1>0, <1>1, PushFields DEF Steps
  <1>3. \A i \in 0..(count - 1), m \in Links : step[i][m] = push_free(m, Nth(head, i))
    BY <1>0
  <1> HIDE DEF step
  <1>4. PICK f : Iteration(f, count, l, step, Links)
    BY <1>0, <1>2, Loop
  <1>5. f = Step(f)
    BY <1>0, <1>3, <1>4 DEF Iteration
  <1>6. w = Step(w)
    BY <1>5, Zenon
  <1>7. push_each(l, head, count) = w[count]
    BY Zenon DEF push_each
  <1> HIDE DEF w
  <1>8. w[0] = l /\ \A i \in Nat : i < count => w[i + 1] = push_free(w[i], Nth(head, i))
    BY <1>0, <1>6
  <1> HIDE DEF Step
  <1> DEFINE Grown(i) == S \cup {Nth(head, j) : j \in 0..(i - 1)}
             Good == {i \in Nat : i <= count => FreeList(w[i], Grown(i), n + i)}
  <1>9. 0 \in Good
    BY <1>8 DEF FreeList, Chain
  <1>10. ASSUME NEW i \in Nat, i \in Good PROVE i + 1 \in Good
    <2> SUFFICES ASSUME i + 1 <= count PROVE FreeList(w[i + 1], Grown(i + 1), n + (i + 1))
      OBVIOUS
    <2>1. FreeList(w[i], Grown(i), n + i) /\ w[i + 1] = push_free(w[i], Nth(head, i))
      BY <1>0, <1>8, <1>10
    <2>2. Nth(head, i) \in Handles \ Grown(i)
      BY <1>0, <1>1
    <2>3. Grown(i + 1) = Grown(i) \cup {Nth(head, i)}
      OBVIOUS
    <2> HIDE DEF Grown, Good
    <2>5. (n + i) + 1 = n + (i + 1)
      BY DEF FreeList, Chain
    <2> QED
      BY <2>1, <2>2, <2>3, <2>5, PushFree
  <1>11. count \in Good
    BY <1>0, <1>9, <1>10, Induction, Zenon
  <1> QED
    BY <1>0, <1>7, <1>11 DEF Run

-----------------------------------------------------------------------------
(* The list build_free_list builds *)

\* The loop of build_free_list over the pages of arena a.
BuildStep(w, i, a) ==
    w[i + 1] = IF <<a, i>> \in ReservedPages THEN w[i] ELSE push_free(w[i], <<a, i>>)

LEMMA PushUnreservedSteps ==
    ASSUME NEW l \in Links, NEW a \in DOMAIN Arenas, NEW count, count = Arenas[a].page_count
    PROVE  \E w : /\ push_unreserved(l, a, count) = w[count] /\ w[0] = l
                  /\ \A i \in Nat : i < count => BuildStep(w, i, a)
  <1> DEFINE Page(m, i) == IF <<a, i>> \in ReservedPages THEN m ELSE push_free(m, <<a, i>>)
             Step(f) == [i \in 0..count |->
                            IF i = 0 THEN l
                            ELSE IF <<a, i - 1>> \in ReservedPages THEN f[i - 1]
                            ELSE push_free(f[i - 1], <<a, i - 1>>)]
             w == CHOOSE f : f = Step(f)
             step == [i \in Nat |-> [m \in Links |-> IF i < count THEN Page(m, i) ELSE m]]
  <1>0. count \in Nat
    BY ArenaTypes
  <1>1. ASSUME NEW i \in Nat, i < count, NEW m \in Links PROVE Page(m, i) \in Links
    BY <1>1, HandleIs, PushFields
  <1>2. Steps(step, Links)
    BY <1>1 DEF Steps
  <1>3. \A i \in 0..(count - 1), m \in Links : step[i][m] = Page(m, i)
    BY <1>0
  <1> HIDE DEF step
  <1>4. PICK f : Iteration(f, count, l, step, Links)
    BY <1>0, <1>2, Loop
  <1>5. f = Step(f)
    BY <1>0, <1>3, <1>4, Z3 DEF Iteration
  <1>6. w = Step(w)
    BY <1>5, Zenon
  <1>7. push_unreserved(l, a, count) = w[count]
    BY Zenon DEF push_unreserved
  <1> HIDE DEF w
  <1>8. w[0] = l
    BY <1>0, <1>6
  <1>9. ASSUME NEW i \in Nat, i < count PROVE BuildStep(w, i, a)
    BY <1>0, <1>6, <1>9 DEF BuildStep
  <1> QED
    BY <1>7, <1>8, <1>9


LEMMA PushUnreservedType ==
    ASSUME NEW l \in Links, NEW a \in DOMAIN Arenas
    PROVE  push_unreserved(l, a, Arenas[a].page_count) \in Links
  <1> DEFINE count == Arenas[a].page_count
  <1>1. PICK w : /\ push_unreserved(l, a, count) = w[count] /\ w[0] = l
                 /\ \A i \in Nat : i < count => BuildStep(w, i, a)
    BY PushUnreservedSteps
  <1>2. count \in Nat
    BY ArenaTypes
  <1> DEFINE Good == {i \in Nat : i <= count => w[i] \in Links}
  <1>3. 0 \in Good
    BY <1>1
  <1>4. ASSUME NEW i \in Nat, i \in Good PROVE i + 1 \in Good
    <2> SUFFICES ASSUME i < count PROVE w[i + 1] \in Links
      BY <1>2
    <2>1. w[i] \in Links /\ BuildStep(w, i, a)
      BY <1>1, <1>2, <1>4
    <2> QED
      BY <2>1, PushFields, HandleIs DEF BuildStep
  <1> HIDE DEF Good, count
  <1>5. count \in Good
    BY <1>2, <1>3, <1>4, Induction
  <1> QED
    BY <1>1, <1>2, <1>5 DEF Good, count

\* The pages of arena a below page i that init did not reserve.
Unreserved(a, i) == {h \in Handles : h[1] = a /\ h[2] < i /\ h \notin ReservedPages}

LEMMA PushUnreserved ==
    ASSUME NEW l, NEW S, NEW n, FreeList(l, S, n), NEW a \in DOMAIN Arenas,
           \A h \in S : h[1] # a
    PROVE  \E k : FreeList(push_unreserved(l, a, Arenas[a].page_count),
                           S \cup Unreserved(a, Arenas[a].page_count), k)
  <1> DEFINE count == Arenas[a].page_count
  <1>0. l \in Links /\ S \in SUBSET Handles /\ count \in Nat
    BY ArenaTypes DEF FreeList
  <1>1. PICK w : /\ push_unreserved(l, a, count) = w[count] /\ w[0] = l
                 /\ \A i \in Nat : i < count => BuildStep(w, i, a)
    BY <1>0, PushUnreservedSteps
  <1> DEFINE Ok(i) == \E k : FreeList(w[i], S \cup Unreserved(a, i), k)
             Good == {i \in Nat : i <= count => Ok(i)}
  <1>2. \A h \in Handles : h = <<h[1], h[2]>> /\ h[2] \in Nat
    BY HandleParts
  <1>3. 0 \in Good
    <2>1. S \cup Unreserved(a, 0) = S
      BY <1>2 DEF Unreserved
    <2> QED
      BY <1>1, <2>1
  <1>4. ASSUME NEW i \in Nat, i \in Good PROVE i + 1 \in Good
    <2> HIDE DEF Ok
    <2> SUFFICES ASSUME i < count PROVE Ok(i + 1)
      BY <1>0
    <2> USE DEF Ok
    <2>1. PICK k : FreeList(w[i], S \cup Unreserved(a, i), k)
      BY <1>0, <1>4
    <2>2. BuildStep(w, i, a)
      BY <1>1
    <2>3. /\ <<a, i>> \in Handles /\ <<a, i>>[1] = a /\ <<a, i>>[2] = i
          /\ \A h \in Handles : h[1] = a /\ h[2] = i => h = <<a, i>>
      BY <1>2, HandleIs
    <2>4. CASE <<a, i>> \in ReservedPages
      <3>1. Unreserved(a, i + 1) = Unreserved(a, i)
        BY <1>2, <2>3, <2>4 DEF Unreserved
      <3> QED
        BY <2>1, <2>2, <2>4, <3>1 DEF BuildStep
    <2>5. CASE <<a, i>> \notin ReservedPages
      BY <1>2, <2>1, <2>2, <2>3, <2>5, PushFree DEF Unreserved, BuildStep
    <2> QED
      BY <2>4, <2>5, Zenon
  <1> HIDE DEF Good, Ok, count
  <1>5. count \in Good
    BY <1>0, <1>3, <1>4, Induction
  <1> QED
    BY <1>0, <1>1, <1>5 DEF Ok, count, Good

LEMMA BuildFreeList == \E n : FreeList(build_free_list, Handles \ ReservedPages, n)
  <1> DEFINE N == Len(Arenas)
             Push(m, a) == push_unreserved(m, a, Arenas[a].page_count)
             Step(f) == [a \in 0..N |-> IF a = 0 THEN EmptyList
                                        ELSE push_unreserved(f[a - 1], a, Arenas[a].page_count)]
             w == CHOOSE f : f = Step(f)
             step == [a \in Nat |-> [m \in Links |-> IF a < N THEN Push(m, a + 1) ELSE m]]
  <1>0. N \in Nat /\ DOMAIN Arenas = 1..N /\ EmptyList \in Links
    BY PmmAssumption, EmptyListIs DEF FreeList
  <1>1. ASSUME NEW a \in Nat, a < N, NEW m \in Links PROVE Push(m, a + 1) \in Links
    BY <1>0, <1>1, PushUnreservedType
  <1>2. Steps(step, Links)
    BY <1>1 DEF Steps
  <1>3. \A a \in 0..(N - 1), m \in Links : step[a][m] = Push(m, a + 1)
    BY <1>0
  <1> HIDE DEF step
  <1>4. PICK f : Iteration(f, N, EmptyList, step, Links)
    BY <1>0, <1>2, Loop
  <1>5. f = Step(f)
    <2>1. /\ f \in [0..N -> Links] /\ f[0] = EmptyList
          /\ \A i \in 0..(N - 1) : f[i + 1] = step[i][f[i]]
      BY <1>4 DEF Iteration
    <2>2. ASSUME NEW a \in 0..N, a # 0 PROVE f[a] = Push(f[a - 1], a)
      BY <1>0, <1>3, <2>1, <2>2
    <2> QED
      BY <2>1, <2>2
  <1>6. w = Step(w)
    BY <1>5, Zenon
  <1>7. build_free_list = w[N]
    BY Zenon DEF build_free_list
  <1> HIDE DEF w
  <1>8. w[0] = EmptyList /\ \A a \in Nat : a < N => w[a + 1] = Push(w[a], a + 1)
    BY <1>0, <1>6
  <1> HIDE DEF Step
  <1> DEFINE Upto(a) == {h \in Handles : h[1] <= a /\ h \notin ReservedPages}
             Ok(a) == \E n : FreeList(w[a], Upto(a), n)
             Good == {a \in Nat : a <= N => Ok(a)}
  <1>9. \A h \in Handles : h[1] \in 1..N /\ h[2] < Arenas[h[1]].page_count
    BY <1>0, HandleParts
  <1>10. 0 \in Good
    <2>1. Upto(0) = {}
      BY <1>9
    <2> QED
      BY <1>8, <2>1, EmptyListIs, Zenon
  <1>11. ASSUME NEW a \in Nat, a \in Good PROVE a + 1 \in Good
    <2> HIDE DEF Ok
    <2> SUFFICES ASSUME a < N PROVE Ok(a + 1)
      BY <1>0
    <2>0. Ok(a)
      BY <1>0, <1>11
    <2> USE DEF Ok
    <2>1. PICK n : FreeList(w[a], Upto(a), n)
      BY <2>0, Zenon
    <2>2. a + 1 \in DOMAIN Arenas /\ \A h \in Upto(a) : h[1] # a + 1
      BY <1>0, <1>9
    <2>3. Upto(a) \cup Unreserved(a + 1, Arenas[a + 1].page_count) = Upto(a + 1)
      BY <1>9 DEF Unreserved
    <2> HIDE DEF Upto
    <2>4. \E k : FreeList(Push(w[a], a + 1),
                          Upto(a) \cup Unreserved(a + 1, Arenas[a + 1].page_count), k)
      BY <2>1, <2>2, PushUnreserved, Zenon
    <2> QED
      BY <1>8, <2>3, <2>4, Zenon
  <1>12. N \in Good
    BY <1>0, <1>10, <1>11, Induction, Zenon
  <1>13. Upto(N) = Handles \ ReservedPages
    BY <1>9
  <1> QED
    <2> HIDE DEF Ok
    <2>1. Ok(N)
      BY <1>0, <1>12
    <2> USE DEF Ok
    <2> QED
      BY <1>7, <1>13, <2>1, Zenon


-----------------------------------------------------------------------------
(* The scan for a run *)

\* Page j of arena a is free; it is where a run may start.
IsFree(a, j) == state[<<a, j>>] = "Free"
Aligned(a, j, alignment) == page_to_physical(<<a, j>>) % alignment = 0

\* A busy page among the pages i .. j - 1.
Busy(a, i, j) == \E x \in Nat : i <= x /\ x < j /\ ~IsFree(a, x)

\* What the scan knows of the pages below n while it has found no run: every
\* aligned page before the start of its run has a busy page behind it, and none
\* starts a run of count free pages.
Searching(s, n, a, count, alignment) ==
    /\ s.length < count
    /\ \A i \in Nat : i + count <= n /\ Aligned(a, i, alignment) => Busy(a, i, i + count)
    /\ s.start = NONE =>
          s.length = 0 /\ \A i \in Nat : i < n /\ Aligned(a, i, alignment) => Busy(a, i, n)
    /\ s.start # NONE =>
          \E j \in Nat : /\ j < n /\ s.start = <<a, j>> /\ s.length = n - j
                         /\ Aligned(a, j, alignment)
                         /\ \A x \in Nat : j <= x /\ x < n => IsFree(a, x)
                         /\ \A i \in Nat : i < j /\ Aligned(a, i, alignment) => Busy(a, i, n)

\* The run that starts on page j is the first.
FirstRun(j, a, count, alignment) ==
    /\ j + count <= Arenas[a].page_count
    /\ Aligned(a, j, alignment)
    /\ \A x \in Nat : j <= x /\ x < j + count => IsFree(a, x)
    /\ \A i \in Nat : i < j /\ Aligned(a, i, alignment) => Busy(a, i, i + count)

Found(s, a, count, alignment) ==
    /\ s.length >= count
    /\ \E j \in Nat : s.start = <<a, j>> /\ FirstRun(j, a, count, alignment)

LEMMA BusyFacts ==
    ASSUME NEW a, NEW i \in Nat, NEW j \in Nat
    PROVE  /\ \A k \in Nat : j <= k /\ Busy(a, i, j) => Busy(a, i, k)
           /\ i <= j /\ ~IsFree(a, j) => Busy(a, i, j + 1)
           /\ Busy(a, i, j) => ~(\A x \in Nat : i <= x /\ x < j => IsFree(a, x))
           /\ (\A x \in Nat : i <= x /\ x < j => IsFree(a, x)) \/ Busy(a, i, j)
           /\ IsFree(a, j) /\ Busy(a, i, j + 1) => Busy(a, i, j)
  <1>1. ASSUME NEW k \in Nat, j <= k, Busy(a, i, j) PROVE Busy(a, i, k)
    BY <1>1 DEF Busy
  <1>2. ASSUME i <= j, ~IsFree(a, j) PROVE Busy(a, i, j + 1)
    BY <1>2 DEF Busy
  <1>5. ASSUME IsFree(a, j), Busy(a, i, j + 1) PROVE Busy(a, i, j)
    BY <1>5 DEF Busy
  <1> QED
    BY <1>1, <1>2, <1>5 DEF Busy


LEMMA ScanStep ==
    ASSUME NEW a \in DOMAIN Arenas, NEW count \in Nat \ {0}, NEW alignment, NEW n \in Nat,
           n < Arenas[a].page_count, NEW s, Searching(s, n, a, count, alignment),
           NEW t, t = scan_page(s, <<a, n>>, count, alignment)
    PROVE  Searching(t, n + 1, a, count, alignment) \/ Found(t, a, count, alignment)
  <1> DEFINE Al(i) == Aligned(a, i, alignment)
             B(i, j) == Busy(a, i, j)
  <1>1. /\ \A i, j, k \in Nat : j <= k /\ B(i, j) => B(i, k)
        /\ \A i, j \in Nat : i <= j /\ ~IsFree(a, j) => B(i, j + 1)
    BY BusyFacts, Zenon
  <1>2. /\ s.length < count
        /\ \A i \in Nat : i + count <= n /\ Al(i) => B(i, i + count)
        /\ s.start = NONE => s.length = 0 /\ \A i \in Nat : i < n /\ Al(i) => B(i, n)
        /\ s.start # NONE =>
             \E j \in Nat : /\ j < n /\ s.start = <<a, j>> /\ s.length = n - j /\ Al(j)
                            /\ \A x \in Nat : j <= x /\ x < n => IsFree(a, x)
                            /\ \A i \in Nat : i < j /\ Al(i) => B(i, n)
    BY Zenon DEF Searching
  <1>3. s.length \in Int /\ ~(s.length >= count)
    BY <1>2
  <1>4. <<a, n>> \in Handles /\ <<a, n>> # NONE /\ Arenas[a].page_count \in Nat
    BY HandleIs, ArenaTypes, PmmAssumption, Zenon
  <1>5. CASE ~IsFree(a, n)
    BY <1>1, <1>2, <1>3, <1>5 DEF scan_page, IsFree, NoRun, Searching
  <1>6. CASE IsFree(a, n) /\ s.start = NONE /\ ~Al(n)
    BY <1>1, <1>2, <1>3, <1>6 DEF scan_page, IsFree, Aligned, Searching
  <1>7. CASE IsFree(a, n) /\ s.start = NONE /\ Al(n)
    <2>2. t.start = <<a, n>> /\ t.length = 1
      BY <1>2, <1>3, <1>7 DEF scan_page, IsFree, Aligned
    <2>4. CASE count = 1
      BY <1>2, <1>4, <1>7, <2>2, <2>4 DEF FirstRun, Found
    <2>5. CASE count # 1
      BY <1>1, <1>2, <1>4, <1>7, <2>2, <2>5 DEF Searching
    <2> QED
      BY <2>4, <2>5
  <1>8. CASE IsFree(a, n) /\ s.start # NONE
    BY <1>1, <1>2, <1>3, <1>4, <1>8 DEF scan_page, IsFree, FirstRun, Found, Searching
  <1> QED
    BY <1>5, <1>6, <1>7, <1>8


\* The scan of an arena ends with the first run, or there is none.
NoFreeRun(a, count, alignment) ==
    \A i \in Nat : i + count <= Arenas[a].page_count /\ Aligned(a, i, alignment)
                      => Busy(a, i, i + count)

FirstRunAt(r, a, count, alignment) ==
    \E j \in Nat : r = <<a, j>> /\ FirstRun(j, a, count, alignment)

LEMMA ScanArena ==
    ASSUME NEW a \in DOMAIN Arenas, NEW count \in Nat \ {0}, NEW alignment
    PROVE  LET r == scan_arena(a, count, alignment)
           IN  \/ r = NONE /\ NoFreeRun(a, count, alignment)
               \/ FirstRunAt(r, a, count, alignment)
  <1> DEFINE N == Arenas[a].page_count
             Scans == [start : Handles \cup {NONE}, length : Nat]
             Page(s, i) == scan_page(s, <<a, i>>, count, alignment)
             Step(f) == [i \in 0..N |-> IF i = 0 THEN NoRun
                                        ELSE scan_page(f[i - 1], <<a, i - 1>>, count, alignment)]
             w == CHOOSE f : f = Step(f)
             step == [i \in Nat |-> [s \in Scans |-> IF i < N THEN Page(s, i) ELSE s]]
  <1>0. N \in Nat /\ NoRun \in Scans
    BY ArenaTypes DEF NoRun
  <1>1. ASSUME NEW i \in Nat, i < N, NEW s \in Scans PROVE Page(s, i) \in Scans
    BY <1>1, HandleIs DEF scan_page, NoRun
  <1> HIDE DEF Scans
  <1>2. Steps(step, Scans)
    BY <1>1 DEF Steps
  <1>3. \A i \in 0..(N - 1), s \in Scans : step[i][s] = Page(s, i)
    BY <1>0
  <1> HIDE DEF step
  <1>4. PICK f : Iteration(f, N, NoRun, step, Scans)
    BY <1>0, <1>2, Loop
  <1>5. f = Step(f)
    BY <1>0, <1>3, <1>4 DEF Iteration
  <1>6. w = Step(w)
    BY <1>5, Zenon
  <1>7. scan_arena(a, count, alignment) =
           IF N >= count /\ w[N].length >= count THEN w[N].start ELSE NONE
    BY Zenon DEF scan_arena
  <1> HIDE DEF w
  <1>8. w[0] = NoRun /\ \A i \in Nat : i < N => w[i + 1] = Page(w[i], i)
    BY <1>0, <1>6
  <1> HIDE DEF Step
  <1> DEFINE Ok(i) == \/ Searching(w[i], i, a, count, alignment)
                      \/ Found(w[i], a, count, alignment)
             Good == {i \in Nat : i <= N => Ok(i)}
  <1>9. 0 \in Good
    BY <1>8 DEF NoRun, Searching
  <1>10. ASSUME NEW i \in Nat, i \in Good PROVE i + 1 \in Good
    <2> HIDE DEF Ok
    <2> SUFFICES ASSUME i < N PROVE Ok(i + 1)
      BY <1>0
    <2>1. Ok(i) /\ w[i + 1] = Page(w[i], i)
      BY <1>0, <1>8, <1>10
    <2> USE DEF Ok
    <2>2. CASE Searching(w[i], i, a, count, alignment)
      BY <2>1, <2>2, ScanStep
    <2>3. CASE Found(w[i], a, count, alignment)
      BY <2>1, <2>3 DEF Found, scan_page
    <2> QED
      BY <2>1, <2>2, <2>3
  <1> HIDE DEF Ok
  <1>11. Ok(N)
    <2>1. N \in Good
      BY <1>0, <1>9, <1>10, Induction, Zenon
    <2> QED
      BY <1>0, <2>1
  <1>12. CASE Searching(w[N], N, a, count, alignment)
    BY <1>0, <1>7, <1>12 DEF Searching, NoFreeRun
  <1>13. CASE Found(w[N], a, count, alignment)
    BY <1>0, <1>7, <1>13 DEF Found, FirstRun, FirstRunAt
  <1> QED
    BY <1>11, <1>12, <1>13 DEF Ok

LEMMA LowestOf ==
    ASSUME NEW S \in SUBSET Nat, S # {}
    PROVE  lowest(S) \in S /\ \A m \in S : lowest(S) <= m
  <1> QED
    BY Least, Zenon DEF lowest


\* The run that FreeRuns allows at page i of arena a.
LEMMA FreeRunsAt ==
    ASSUME NEW a \in DOMAIN Arenas, NEW i \in Nat, NEW count \in Nat \ {0}, NEW log2
    PROVE  <<a, i>> \in FreeRuns(count, log2) <=>
              /\ i + count <= Arenas[a].page_count
              /\ Aligned(a, i, Alignment(log2))
              /\ \A x \in Nat : i <= x /\ x < i + count => IsFree(a, x)
  <1> DEFINE h == <<a, i>>
  <1>0. Arenas[a].page_count \in Nat /\ h[1] = a /\ h[2] = i
    BY ArenaTypes
  <1>1. ASSUME i + count <= Arenas[a].page_count
        PROVE  /\ h \in Handles
               /\ (\A g \in Run(h, count) : state[g] = "Free") <=>
                     \A x \in Nat : i <= x /\ x < i + count => IsFree(a, x)
    BY <1>0, <1>1, HandleIs, RunPages DEF InArena, Nth, IsFree
  <1> HIDE DEF h
  <1> QED
    BY <1>0, <1>1 DEF Aligned, h, FreeRuns

LEMMA FindRun ==
    ASSUME NEW count \in Nat \ {0}, NEW log2 \in Nat, log2 < USIZE_BITS
    PROVE  LET runs == FreeRuns(count, log2)
               found == find_run(count, log2)
           IN  IF runs = {} THEN found = NONE
               ELSE found \in runs /\ \A h \in runs : Before(found, h)
  <1> DEFINE runs == FreeRuns(count, log2)
             found == find_run(count, log2)
             al == Alignment(log2)
             r(a) == scan_arena(a, count, al)
             hits == {a \in DOMAIN Arenas : r(a) # NONE}
  <1>1. /\ count # 0 /\ ~(log2 >= USIZE_BITS) /\ NONE \notin Handles
    BY PmmAssumption
  <1>2. found = IF hits = {} THEN NONE ELSE r(lowest(hits))
    BY <1>1, ArenaTypes, LowestOf, Zenon DEF find_run
  <1>3. ASSUME NEW a \in DOMAIN Arenas
        PROVE  \/ r(a) = NONE /\ NoFreeRun(a, count, al)
               \/ FirstRunAt(r(a), a, count, al)
    BY ScanArena
  <1> HIDE DEF r, found, al
  <1>4. ASSUME NEW a \in DOMAIN Arenas, a \notin hits, NEW i \in Nat
        PROVE  <<a, i>> \notin runs
    <2>2. NoFreeRun(a, count, al)
      BY <1>1, <1>3, <1>4, FreeRunsAt DEF FirstRunAt, FirstRun, al, FreeRuns
    <2>3. ASSUME <<a, i>> \in runs PROVE FALSE
      <3>1. /\ i + count <= Arenas[a].page_count /\ Aligned(a, i, al)
            /\ \A x \in Nat : i <= x /\ x < i + count => IsFree(a, x)
        BY <2>3, FreeRunsAt DEF al
      <3>2. Busy(a, i, i + count) /\ i + count \in Nat
        BY <2>2, <3>1 DEF NoFreeRun
      <3> QED
        BY <3>1, <3>2, BusyFacts, Zenon
    <2> QED
      BY <2>3
  <1>5. \A h \in runs : h \in Handles /\ h = <<h[1], h[2]>> /\ h[1] \in DOMAIN Arenas /\ h[2] \in Nat
    BY HandleParts DEF FreeRuns
  <1>6. CASE hits = {}
    BY <1>2, <1>4, <1>5, <1>6 DEF found
  <1>7. CASE hits # {}
    <2> DEFINE b == lowest(hits)
    <2>1. hits \in SUBSET Nat /\ hits \in SUBSET DOMAIN Arenas
      BY ArenaTypes
    <2>2. b \in hits /\ \A m \in hits : b <= m
      BY <1>7, <2>1, LowestOf
    <2>3. b \in DOMAIN Arenas /\ b \in Nat /\ r(b) # NONE
      BY <2>1, <2>2
    <2>4. found = r(b)
      BY <1>2, <1>7
    <2> HIDE DEF b
    <2>5. PICK j \in Nat : r(b) = <<b, j>> /\ FirstRun(j, b, count, al)
      BY <1>3, <2>3 DEF FirstRunAt
    <2>7. ASSUME NEW h \in runs PROVE Before(<<b, j>>, h)
      <3>1. h = <<h[1], h[2]>> /\ h[1] \in DOMAIN Arenas /\ h[2] \in Nat
        BY <1>5
      <3>4. CASE b < h[1]
        BY <3>4 DEF Before
      <3>5. CASE b = h[1]
        <4> DEFINE i == h[2]
        <4>2. /\ i + count <= Arenas[b].page_count /\ Aligned(b, i, al)
              /\ \A x \in Nat : i <= x /\ x < i + count => IsFree(b, x)
          BY <2>3, <3>1, <3>5, FreeRunsAt DEF al
        <4>4. ~(i < j)
          <5>1. i + count \in Nat
            BY <3>1
          <5> HIDE DEF i
          <5> QED
            BY <2>3, <2>5, <3>1, <4>2, <5>1, BusyFacts, Zenon DEF i, FirstRun
        <4> QED
          BY <3>1, <3>5, <4>4 DEF Before
      <3> QED
        BY <1>4, <2>1, <2>2, <2>3, <3>1, <3>4, <3>5
    <2> QED
      BY <2>3, <2>4, <2>5, <2>7, FreeRunsAt DEF found, FirstRun, al
  <1> QED
    BY <1>6, <1>7


-----------------------------------------------------------------------------
(* Addresses *)

LEMMA Scaled ==
    ASSUME NEW i \in Nat, NEW j \in Nat, NEW m \in Nat \ {0}
    PROVE  /\ i * m \in Nat
           /\ i <= j => i * m <= j * m
           /\ (i + 1) * m = i * m + m
           /\ (i + j) * m = i * m + j * m
  <1> QED
    OBVIOUS

\* Among the arenas, an address of a page of arena a is one of a alone.
LEMMA PhysicalToPage ==
    ASSUME NEW h \in Handles, NEW b \in DOMAIN Arenas
    PROVE  physical_to_page(b, page_to_physical(h)) = IF b = h[1] THEN h ELSE NONE
  <1> DEFINE a == h[1]
             i == h[2]
             base == Arenas[a].base
             baseb == Arenas[b].base
             pc == Arenas[a].page_count
             pcb == Arenas[b].page_count
             p == page_to_physical(h)
             ip == i * PAGE_SIZE
             pcp == pc * PAGE_SIZE
             pcbp == pcb * PAGE_SIZE
  <1>1. /\ h = <<a, i>> /\ a \in DOMAIN Arenas /\ i \in Nat /\ i < pc
        /\ base \in Nat /\ pc \in Nat /\ PAGE_SIZE \in Nat \ {0} /\ base % PAGE_SIZE = 0
        /\ baseb \in Nat /\ pcb \in Nat
    BY HandleParts, ArenaTypes
  <1>2. p = base + ip
    BY DEF page_to_physical
  <1>3. a # b => base + pcp <= baseb \/ baseb + pcbp <= base
    BY <1>1, PmmAssumption DEF ArenaEnd
  <1>4. /\ ip \in Nat /\ pcp \in Nat /\ pcbp \in Nat /\ ip + PAGE_SIZE <= pcp
    <2>1. i + 1 \in Nat /\ i + 1 <= pc
      BY <1>1
    <2> QED
      BY <1>1, <2>1, Scaled, Z3
  <1>5. p % PAGE_SIZE = 0
    <2> DEFINE q == base \div PAGE_SIZE
    <2>1. q \in Nat /\ base = q * PAGE_SIZE + 0
      BY <1>1, Divided
    <2> HIDE DEF q
    <2>3. q + i \in Nat
      BY <1>1, <2>1
    <2> QED
      BY <1>1, <1>2, <2>1, <2>3, Scaled, Multiple
  <1>6. ip \div PAGE_SIZE = i
    BY <1>1, <1>4, Quotient
  <1>7. CASE b = a
    BY <1>1, <1>2, <1>4, <1>5, <1>6, <1>7 DEF physical_to_page, p
  <1>8. CASE b # a
    <2> HIDE DEF ip, p, pcp, pcbp
    <2>1. CASE p < baseb
      BY <1>8, <2>1 DEF physical_to_page, p
    <2>2. CASE ~(p < baseb)
      <3> DEFINE d == p - baseb
                 q == d \div PAGE_SIZE
                 qp == q * PAGE_SIZE
      <3>1. d \in Nat /\ pcbp <= d
        BY <1>1, <1>2, <1>3, <1>4, <1>8, <2>2
      <3> HIDE DEF d
      <3>2. q \in Nat /\ d % PAGE_SIZE \in 0..(PAGE_SIZE - 1) /\ d = qp + (d % PAGE_SIZE)
        BY <1>1, <3>1, Divided
      <3> HIDE DEF q
      <3>4. ~(q >= pcb) => qp + PAGE_SIZE <= pcbp
        <4>1. ~(q >= pcb) => q + 1 \in Nat /\ q + 1 <= pcb
          BY <1>1, <3>2
        <4> QED
          BY <1>1, <3>2, <4>1, Scaled DEF pcbp
      <3>5. qp \in Nat
        BY <1>1, <3>2, Scaled
      <3> HIDE DEF qp
      <3> QED
        BY <1>1, <1>4, <1>8, <3>1, <3>2, <3>4, <3>5 DEF p, physical_to_page, q, d
    <2> QED
      BY <2>1, <2>2
  <1> QED
    BY <1>7, <1>8

LEMMA PageForPhysical ==
    ASSUME NEW h \in Handles
    PROVE  page_for_physical(page_to_physical(h)) = h
  <1> DEFINE p == page_to_physical(h)
             hits == {a \in DOMAIN Arenas : physical_to_page(a, p) # NONE}
  <1>1. h # NONE /\ h[1] \in DOMAIN Arenas
    BY PmmAssumption, HandleParts
  <1>2. \A b \in DOMAIN Arenas : physical_to_page(b, p) = IF b = h[1] THEN h ELSE NONE
    BY PhysicalToPage
  <1>3. hits = {h[1]}
    BY <1>1, <1>2
  <1> HIDE DEF hits, p
  <1> QED
    BY <1>1, <1>2, <1>3, LowestOf, ArenaTypes, Zenon DEF p, page_for_physical


-----------------------------------------------------------------------------
(* The inductive invariant *)

States == {"Free", "Allocated", "Reserved"}
Owners == [kind : {"page", "run", "leaked"}, head : Handles, count : Nat \ {0}]

Types ==
    /\ state \in [Handles -> States]
    /\ contiguous_head \in [Handles -> BOOLEAN]
    /\ owned \in SUBSET Owners

PagesOf(o) == Run(o.head, o.count)

\* A run lies in one arena, and everything else is one page.
OwnerOk(o) == InArena(o.head, o.count) /\ (o.kind # "run" => o.count = 1)

\* The owners own the Allocated pages, each of them once.
OwnersOk(own, st) ==
    /\ \A o \in own : OwnerOk(o) /\ \A h \in PagesOf(o) : st[h] = "Allocated"
    /\ \A o, p \in own : \A h \in Handles : h \in PagesOf(o) /\ h \in PagesOf(p) => o = p
    /\ \A h \in Handles : st[h] = "Allocated" => \E o \in own : h \in PagesOf(o)

\* The head flags are those of the runs.
FlagsOk(own, flag) == \A h \in Handles : flag[h] <=> \E o \in own : o.kind = "run" /\ o.head = h

ReservedOk(st) == \A h \in Handles : st[h] = "Reserved" <=> h \in ReservedPages

PInv ==
    /\ Types
    /\ FreeList(links, InState("Free"), free_pages)
    /\ ReservedOk(state)
    /\ OwnersOk(owned, state)
    /\ FlagsOk(owned, contiguous_head)

LEMMA InitStep == Init => PInv
  <1> SUFFICES ASSUME Init PROVE PInv
    OBVIOUS
  <1>0. /\ state = [h \in Handles |-> IF h \in ReservedPages THEN "Reserved" ELSE "Free"]
        /\ contiguous_head = [h \in Handles |-> FALSE]
        /\ links = build_free_list
        /\ free_pages = Cardinality(Handles \ ReservedPages)
        /\ owned = {}
    BY DEF Init
  <1>1. \A h \in Handles : state[h] = IF h \in ReservedPages THEN "Reserved" ELSE "Free"
    BY <1>0
  <1>3. InState("Free") = Handles \ ReservedPages
    BY <1>1 DEF InState
  <1>4. PICK n : FreeList(links, InState("Free"), n)
    BY <1>0, <1>3, BuildFreeList
  <1>5. PICK at : Chain(at, n, InState("Free"), links.next, links.prev, NONE)
    BY <1>4 DEF FreeList
  <1> QED
    BY <1>0, <1>1, <1>3, <1>4, <1>5, ChainLength DEF PInv, Types, States, Owners, ReservedOk,
       OwnersOk, FlagsOk

LEMMA OnePage ==
    ASSUME NEW h \in Handles
    PROVE  InArena(h, 1) /\ Run(h, 1) = {h}
  <1>2. InArena(h, 1)
    BY HandleParts, ArenaTypes DEF InArena
  <1> QED
    BY <1>2, RunPages DEF Run

LEMMA OwnerFacts ==
    ASSUME Types, OwnersOk(owned, state), NEW o \in owned
    PROVE  /\ o \in Owners /\ OwnerOk(o) /\ o.head \in Handles /\ o.count \in Nat \ {0}
           /\ o.head \in PagesOf(o) /\ PagesOf(o) \in SUBSET Handles
           /\ \A h \in PagesOf(o) : state[h] = "Allocated"
  <1>1. /\ o \in Owners /\ OwnerOk(o) /\ o.head \in Handles /\ o.count \in Nat \ {0}
        /\ \A h \in PagesOf(o) : state[h] = "Allocated"
    BY DEF Types, OwnersOk, Owners
  <1> QED
    BY <1>1, RunPages DEF PagesOf, OwnerOk

\* A new owner of free pages.
LEMMA TakeOwner ==
    ASSUME Types, ReservedOk(state), OwnersOk(owned, state),
           NEW o \in Owners, OwnerOk(o), PagesOf(o) \in SUBSET InState("Free"),
           NEW st, st = [h \in Handles |-> IF h \in PagesOf(o) THEN "Allocated" ELSE state[h]]
    PROVE  /\ st \in [Handles -> States] /\ ReservedOk(st)
           /\ OwnersOk(owned \cup {o}, st)
           /\ {h \in Handles : st[h] = "Free"} = InState("Free") \ PagesOf(o)
  <1>1. \A h \in Handles : st[h] = IF h \in PagesOf(o) THEN "Allocated" ELSE state[h]
    OBVIOUS
  <1>2. \A h \in PagesOf(o) : h \in Handles /\ state[h] = "Free" /\ st[h] = "Allocated"
    BY <1>1 DEF InState
  <1>6. \A p \in owned : /\ OwnerOk(p) /\ PagesOf(p) \in SUBSET Handles
                         /\ \A h \in PagesOf(p) : state[h] = "Allocated"
    BY OwnerFacts
  <1> QED
    BY <1>1, <1>2, <1>6 DEF Types, States, ReservedOk, InState, OwnersOk

\* The owner releases its pages.
LEMMA ReleaseOwner ==
    ASSUME Types, ReservedOk(state), OwnersOk(owned, state), NEW o \in owned,
           NEW st, st = [h \in Handles |-> IF h \in PagesOf(o) THEN "Free" ELSE state[h]]
    PROVE  /\ st \in [Handles -> States] /\ ReservedOk(st)
           /\ OwnersOk(owned \ {o}, st)
           /\ {h \in Handles : st[h] = "Free"} = InState("Free") \cup PagesOf(o)
           /\ PagesOf(o) \cap InState("Free") = {}
  <1>1. \A h \in Handles : st[h] = IF h \in PagesOf(o) THEN "Free" ELSE state[h]
    OBVIOUS
  <1>2. \A h \in PagesOf(o) : h \in Handles /\ state[h] = "Allocated" /\ st[h] = "Free"
    BY <1>1, OwnerFacts
  <1> QED
    BY <1>1, <1>2, OwnerFacts DEF Types, States, ReservedOk, InState, OwnersOk


\* The flags after a release are those of the runs that remain.
LEMMA ReleaseFlags ==
    ASSUME Types, OwnersOk(owned, state), FlagsOk(owned, contiguous_head), NEW o \in owned,
           NEW fl, fl = [h \in Handles |-> h \notin PagesOf(o) /\ contiguous_head[h]]
    PROVE  fl \in [Handles -> BOOLEAN] /\ FlagsOk(owned \ {o}, fl)
  <1>1. \A h \in Handles : fl[h] <=> h \notin PagesOf(o) /\ contiguous_head[h]
    BY Zenon
  <1>6. ASSUME NEW h \in Handles
        PROVE  fl[h] <=> \E p \in owned \ {o} : p.kind = "run" /\ p.head = h
    BY <1>1, OwnerFacts DEF OwnersOk, FlagsOk
  <1> QED
    BY <1>6 DEF FlagsOk

\* Taking the pages of a new owner off the free list.
LEMMA TakeStep ==
    ASSUME PInv, NEW o \in Owners, OwnerOk(o), PagesOf(o) \in SUBSET InState("Free"),
           Take(o.head, o.count), owned' = owned \cup {o},
           contiguous_head' \in [Handles -> BOOLEAN], FlagsOk(owned \cup {o}, contiguous_head')
    PROVE  PInv'
  <1>1. /\ Types /\ FreeList(links, InState("Free"), free_pages) /\ ReservedOk(state)
        /\ OwnersOk(owned, state) /\ FlagsOk(owned, contiguous_head)
    BY DEF PInv
  <1>2. /\ links' = remove_each(links, o.head, o.count)
        /\ state' = [h \in Handles |-> IF h \in PagesOf(o) THEN "Allocated" ELSE state[h]]
        /\ free_pages' = free_pages - o.count
    BY DEF Take, PagesOf
  <1>3. /\ state' \in [Handles -> States] /\ ReservedOk(state')
        /\ OwnersOk(owned \cup {o}, state')
        /\ {h \in Handles : state'[h] = "Free"} = InState("Free") \ PagesOf(o)
    BY <1>1, <1>2, TakeOwner
  <1>4. FreeList(links', InState("Free") \ PagesOf(o), free_pages')
    BY <1>1, <1>2, RemoveEach DEF OwnerOk, PagesOf
  <1>9. ReservedOk(state)' /\ OwnersOk(owned, state)' /\ FlagsOk(owned, contiguous_head)'
    BY <1>3 DEF ReservedOk, OwnersOk, FlagsOk
  <1> QED
    BY <1>1, <1>3, <1>4, <1>9, Zenon DEF PInv, FreeList, InState, Types

\* free_page on the pages of an owner.
LEMMA ReleaseStep ==
    ASSUME PInv, NEW o \in owned, free_page(o.head, o.count), owned' = owned \ {o}
    PROVE  PInv'
  <1>1. /\ Types /\ FreeList(links, InState("Free"), free_pages) /\ ReservedOk(state)
        /\ OwnersOk(owned, state) /\ FlagsOk(owned, contiguous_head)
    BY DEF PInv
  <1>2. /\ links' = push_each(links, o.head, o.count)
        /\ state' = [h \in Handles |-> IF h \in PagesOf(o) THEN "Free" ELSE state[h]]
        /\ contiguous_head' = [h \in Handles |-> h \notin PagesOf(o) /\ contiguous_head[h]]
        /\ free_pages' = free_pages + o.count
    BY DEF free_page, PagesOf
  <1>3. /\ state' \in [Handles -> States] /\ ReservedOk(state')
        /\ OwnersOk(owned \ {o}, state')
        /\ {h \in Handles : state'[h] = "Free"} = InState("Free") \cup PagesOf(o)
        /\ PagesOf(o) \cap InState("Free") = {}
    BY <1>1, <1>2, ReleaseOwner
  <1>4. contiguous_head' \in [Handles -> BOOLEAN] /\ FlagsOk(owned \ {o}, contiguous_head')
    BY <1>1, <1>2, ReleaseFlags
  <1>5. FreeList(links', InState("Free") \cup PagesOf(o), free_pages')
    BY <1>1, <1>2, <1>3, OwnerFacts, PushEach DEF OwnerOk, PagesOf
  <1>10. ReservedOk(state)' /\ OwnersOk(owned, state)' /\ FlagsOk(owned, contiguous_head)'
    BY <1>3, <1>4 DEF ReservedOk, OwnersOk, FlagsOk
  <1> QED
    BY <1>1, <1>3, <1>4, <1>5, <1>10, Zenon DEF PInv, FreeList, InState, Types

LEMMA AllocPageStep == PInv /\ alloc_page => PInv'
  <1> SUFFICES ASSUME PInv, alloc_page PROVE PInv'
    OBVIOUS
  <1> DEFINE o == Owner("page", links.head, 1)
  <1>1. /\ Types /\ FreeList(links, InState("Free"), free_pages) /\ ReservedOk(state)
        /\ OwnersOk(owned, state) /\ FlagsOk(owned, contiguous_head)
    BY DEF PInv
  <1>2. /\ links.head # NONE /\ Take(links.head, 1) /\ owned' = owned \cup {o}
        /\ contiguous_head' = contiguous_head
    BY DEF alloc_page
  <1>3. links.head \in InState("Free")
    BY <1>1, <1>2, ChainElements DEF FreeList
  <1>4. links.head \in Handles
    BY <1>3 DEF InState
  <1>5. o.kind = "page" /\ o.head = links.head /\ o.count = 1 /\ o \in Owners
    BY <1>4 DEF Owner, Owners
  <1> HIDE DEF o
  <1> QED
    BY <1>1, <1>2, <1>3, <1>4, <1>5, TakeStep, OnePage DEF OwnerOk, PagesOf, Types, FlagsOk

LEMMA AllocContiguousStep ==
    ASSUME PInv, NEW count \in 0..MaxCount, NEW log2 \in 0..MaxLog2, alloc_contiguous(count, log2)
    PROVE  PInv'
  <1> DEFINE head == find_run(count, log2)
             o == Owner("run", head, count)
  <1>1. /\ Types /\ FreeList(links, InState("Free"), free_pages) /\ ReservedOk(state)
        /\ OwnersOk(owned, state) /\ FlagsOk(owned, contiguous_head)
    BY DEF PInv
  <1>2. /\ head # NONE /\ Take(head, count) /\ owned' = owned \cup {o}
        /\ contiguous_head' = [contiguous_head EXCEPT ![head] = TRUE]
    BY Zenon DEF alloc_contiguous
  <1>3. count \in Nat \ {0} /\ log2 \in Nat /\ log2 < USIZE_BITS
    BY <1>2, PmmAssumption DEF find_run
  <1>4. head \in FreeRuns(count, log2)
    BY <1>2, <1>3, FindRun
  <1> HIDE DEF head
  <1>5. /\ head \in Handles /\ InArena(head, count)
        /\ \A g \in Run(head, count) : state[g] = "Free"
    BY <1>3, <1>4 DEF FreeRuns, InArena
  <1>6. o.kind = "run" /\ o.head = head /\ o.count = count /\ o \in Owners
    BY <1>3, <1>5 DEF Owner, Owners
  <1> HIDE DEF o
  <1> QED
    BY <1>1, <1>2, <1>5, <1>6, TakeStep, RunPages DEF OwnerOk, PagesOf, InState, Types, FlagsOk


LEMMA LeakStep ==
    ASSUME PInv, NEW o \in owned, leak_physical(o)
    PROVE  PInv'
  <1> DEFINE q == Owner("leaked", o.head, 1)
             own == (owned \ {o}) \cup {q}
  <1>1. /\ Types /\ FreeList(links, InState("Free"), free_pages) /\ ReservedOk(state)
        /\ OwnersOk(owned, state) /\ FlagsOk(owned, contiguous_head)
    BY DEF PInv
  <1>2. /\ o.kind = "page" /\ owned' = own /\ state' = state
        /\ contiguous_head' = contiguous_head /\ links' = links /\ free_pages' = free_pages
    BY DEF leak_physical
  <1>3. OwnerOk(o) /\ o.head \in Handles /\ o.count = 1 /\ InArena(o.head, 1)
    BY <1>1, <1>2, OwnerFacts DEF OwnerOk
  <1>4. /\ q.kind = "leaked" /\ q.head = o.head /\ q.count = 1 /\ q \in Owners
    BY <1>3 DEF Owner, Owners
  <1> HIDE DEF q
  <1>6. OwnersOk(own, state)
    BY <1>1, <1>3, <1>4 DEF OwnersOk, OwnerOk, PagesOf
  <1>7. FlagsOk(own, contiguous_head)
    BY <1>1, <1>2, <1>4 DEF FlagsOk
  <1>8. own \in SUBSET Owners
    BY <1>1, <1>4 DEF Types
  <1> HIDE DEF own
  <1>11. ReservedOk(state)' /\ OwnersOk(owned, state)' /\ FlagsOk(owned, contiguous_head)'
    BY <1>1, <1>2, <1>6, <1>7 DEF ReservedOk, OwnersOk, FlagsOk
  <1> QED
    BY <1>1, <1>2, <1>8, <1>11, Zenon DEF PInv, Types, FreeList, InState

\* free_contiguous accepts every live run.
LEMMA FreeContiguousOk ==
    ASSUME Types, OwnersOk(owned, state), FlagsOk(owned, contiguous_head),
           NEW o \in owned, o.kind = "run"
    PROVE  free_contiguous_result(o.head, o.count) = "Ok"
  <1> DEFINE head == o.head
             count == o.count
             a == head[1]
             end == head[2] + count
             bad == {i \in head[2]..(end - 1) : \/ state[<<a, i>>] # "Allocated"
                                                \/ i # head[2] /\ contiguous_head[<<a, i>>]}
  <1>1. /\ InArena(head, count) /\ head \in Handles /\ count \in Nat \ {0}
        /\ \A h \in PagesOf(o) : state[h] = "Allocated"
    BY OwnerFacts DEF OwnerOk
  <1>2. /\ head[1] \in DOMAIN Arenas /\ head[2] \in Nat /\ head[2] < Arenas[a].page_count
        /\ Arenas[a].page_count \in Nat /\ end <= Arenas[a].page_count /\ head # NONE
    BY <1>1, HandleParts, ArenaTypes, PmmAssumption, Zenon DEF InArena
  <1>3. contains_page(a, head)
    BY <1>2 DEF contains_page
  <1>5. ASSUME NEW i \in head[2]..(end - 1)
        PROVE  state[<<a, i>>] = "Allocated" /\ (i # head[2] => ~contiguous_head[<<a, i>>])
    BY <1>1, <1>2, HandleIs, RunPages, OwnerFacts DEF PagesOf, FlagsOk, OwnersOk
  <1>6. bad = {}
    BY <1>5
  <1>7. free_contiguous_result(head, count) =
           IF count = 0 THEN "Ok"
           ELSE IF ~contains_page(a, head) THEN "AddressNotInArena"
           ELSE IF ~contiguous_head[head] THEN "NotContiguousHead"
           ELSE IF end > Arenas[a].page_count THEN "AddressNotInArena"
           ELSE IF bad = {} THEN "Ok"
           ELSE IF state[<<a, lowest(bad)>>] # "Allocated" THEN "NotAllocated"
           ELSE "InvalidPageState"
    BY Zenon DEF free_contiguous_result
  <1>8. ~(end > Arenas[a].page_count)
    BY <1>1, <1>2
  <1> HIDE DEF bad, end, a
  <1> QED
    BY <1>1, <1>3, <1>6, <1>7, <1>8 DEF FlagsOk

LEMMA NextStep == PInv /\ [Next]_vars => PInv'
  <1> SUFFICES ASSUME PInv, [Next]_vars PROVE PInv'
    OBVIOUS
  <1>1. Types /\ OwnersOk(owned, state) /\ FlagsOk(owned, contiguous_head)
    BY DEF PInv
  <1>2. CASE alloc_page
    BY <1>2, AllocPageStep
  <1>3. ASSUME NEW count \in 0..MaxCount, NEW log2 \in 0..MaxLog2, alloc_contiguous(count, log2)
        PROVE  PInv'
    BY <1>3, AllocContiguousStep
  <1>4. ASSUME NEW o \in owned, leak_physical(o) PROVE PInv'
    BY <1>4, LeakStep
  <1>5. ASSUME NEW o \in owned, drop_page(o) PROVE PInv'
    BY <1>1, <1>5, OwnerFacts, ReleaseStep DEF OwnerOk, drop_page
  <1>6. ASSUME NEW o \in owned, free_physical_page(o) PROVE PInv'
    BY <1>1, <1>6, OwnerFacts, PageForPhysical, ReleaseStep DEF OwnerOk, free_physical_page
  <1>7. ASSUME NEW o \in owned, drop_run(o) PROVE PInv'
    BY <1>1, <1>7, FreeContiguousOk, ReleaseStep DEF drop_run
  <1>8. CASE UNCHANGED vars
    <2>1. /\ state' = state /\ contiguous_head' = contiguous_head /\ links' = links
          /\ free_pages' = free_pages /\ owned' = owned
      BY <1>8 DEF vars
    <2>3. Types' /\ ReservedOk(state)' /\ OwnersOk(owned, state)' /\ FlagsOk(owned, contiguous_head)'
      BY <2>1 DEF PInv, Types, ReservedOk, OwnersOk, FlagsOk
    <2> QED
      BY <2>1, <2>3 DEF PInv, FreeList, InState
  <1> QED
    BY <1>2, <1>3, <1>4, <1>5, <1>6, <1>7, <1>8 DEF Next

-----------------------------------------------------------------------------
(* Theorems *)

\* The inductive invariant: in every reachable state the links form the chain of
\* the Free pages, free_pages long, the owners partition the Allocated pages into
\* runs inside one arena, and the head flags are those of the live runs.
THEOREM Invariant == Spec => []PInv
  BY InitStep, NextStep, PTL DEF Spec

\* For every list of arenas, however many pages are allocated and in whatever order
\* they are released: push_free, pop_free and remove_free keep one doubly linked
\* list of exactly the Free pages, and free_pages is its length.
THEOREM FreeListIsExact == Spec => []FreeListExact
  <1>1. PInv => FreeListExact
    BY ChainIsDoublyLinked, ChainLength DEF PInv, FreeList, FreeListExact
  <1> QED
    BY <1>1, Invariant, PTL

\* Every Allocated page has exactly one owner, Free pages have none, and the pages
\* init reserved stay Reserved and nobody's.
THEOREM EveryPageHasOneOwner == Spec => []OneOwnerPerPage
  <1>1. PInv => OneOwnerPerPage
    <2> SUFFICES ASSUME PInv, NEW h \in Handles
                 PROVE  /\ state[h] = "Reserved" <=> h \in ReservedPages
                        /\ Cardinality({o \in owned : h \in Run(o.head, o.count)})
                             = IF state[h] = "Allocated" THEN 1 ELSE 0
      BY DEF OneOwnerPerPage
    <2> DEFINE its == {o \in owned : h \in Run(o.head, o.count)}
    <2>1. ReservedOk(state) /\ OwnersOk(owned, state)
      BY DEF PInv
    <2>3. /\ \A o \in its : state[h] = "Allocated"
          /\ \A o, p \in its : o = p
          /\ state[h] = "Allocated" => its # {}
      BY <2>1 DEF OwnersOk, PagesOf
    <2> HIDE DEF its
    <2>4. CASE state[h] = "Allocated"
      BY <2>1, <2>3, <2>4, FS_Singleton DEF ReservedOk, its
    <2>5. CASE state[h] # "Allocated"
      BY <2>1, <2>3, <2>5, FS_EmptySet DEF ReservedOk, its
    <2> QED
      BY <2>4, <2>5
  <1> QED
    BY <1>1, Invariant, PTL

\* Releasing any live owner works: free_page finds its page Allocated, the address
\* of a leaked page leads back to that page, whichever arena it is in, and the
\* result that PageRun's drop throws away is Ok.
THEOREM ReleasesAlwaysSucceed == Spec => []ReleasesSucceed
  <1>1. PInv => ReleasesSucceed
    BY OwnerFacts, PageForPhysical, FreeContiguousOk DEF PInv, ReleasesSucceed, FlagsOk
  <1> QED
    BY <1>1, Invariant, PTL

\* The one-pass scan is first-fit: alloc_contiguous takes the first aligned free run
\* of the first arena that has one, and returns None only when there is none.
THEOREM ScanIsFirstFit == Spec => []FirstFit
  <1>1. FirstFit
    <2> SUFFICES ASSUME NEW count \in 1..MaxCount, NEW log2 \in 0..MaxLog2, log2 < USIZE_BITS
                 PROVE  LET runs == FreeRuns(count, log2)
                            found == find_run(count, log2)
                        IN  IF runs = {} THEN found = NONE
                            ELSE found \in runs /\ \A h \in runs : Before(found, h)
      BY Zenon DEF FirstFit
    <2>1. count \in Nat \ {0} /\ log2 \in Nat
      BY PmmAssumption
    <2> QED
      BY <2>1, FindRun, Zenon
  <1> QED
    BY <1>1, PTL
=============================================================================
