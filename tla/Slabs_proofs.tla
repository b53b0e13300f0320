----------------------------- MODULE Slabs_proofs ----------------------------
(***************************************************************************)
(* The inductive invariant of Kmalloc, for any pages, classes and sizes,   *)
(* and what the operators that its operations are made of do to it: the    *)
(* layout of a slab, the partial lists, and taking a slot.                 *)
(***************************************************************************)
EXTENDS Kmalloc, LinkedLists_proofs

LEMMA Lowest ==
    ASSUME NEW S \in SUBSET Nat, S # {}
    PROVE  lowest(S) \in S
  BY Least, Zenon DEF lowest

LEMMA AlignUp ==
    ASSUME NEW value \in Nat, NEW a \in Nat \ {0}
    PROVE  \E k \in Nat : align_up(value, a) = k * a /\ k * a \in Nat /\ k * a >= value
  <1> DEFINE sum == value + a - 1
             k == sum \div a
  <1>2. k \in Nat /\ sum % a < a /\ sum = k * a + (sum % a) /\ sum % a \in Nat
    BY Divided
  <1>3. k * a \in Nat
    BY <1>2
  <1>4. k * a >= value
    BY <1>2, <1>3
  <1> QED
    BY <1>2, <1>3, <1>4, Zenon DEF align_up

-----------------------------------------------------------------------------
(* The layout of a slab *)

\* Objects are whole cache lines, as large as their class, and slots end before
\* the page does.
LEMMA Layout ==
    ASSUME NEW c \in Classes
    PROVE  /\ ClassSizes[c] \in Nat \ {0}
           /\ object_size(c) \in Nat \ {0} /\ object_size(c) >= ClassSizes[c]
           /\ usable_start(c) \in Nat /\ usable_start(c) >= BACK_POINTER_SIZE
           /\ objects_per_slab(c) \in Nat /\ objects_per_slab(c) > 1
           /\ usable_start(c) + objects_per_slab(c) * object_size(c) <= PAGE_SIZE
           /\ \E k \in Nat : object_size(c) = k * CACHE_LINE_SIZE
           /\ \E k \in Nat : usable_start(c) = k * CACHE_LINE_SIZE
  <1> DEFINE start == usable_start(c)
             size == object_size(c)
             fits == {n \in 0..(PAGE_SIZE - start) \div size :
                        start + n * size + BITMAP_BYTES <= PAGE_SIZE}
  <1>1. ClassSizes[c] \in Nat /\ ClassSizes[c] # 0
    BY KmallocAssumption DEF Classes
  <1>0. CACHE_LINE_SIZE \in Nat \ {0} /\ BACK_POINTER_SIZE \in Nat
    BY KmallocAssumption
  <1>2. PICK k \in Nat : size = k * CACHE_LINE_SIZE /\ size \in Nat /\ size >= ClassSizes[c]
    BY <1>0, <1>1, AlignUp, Zenon DEF object_size, object_align
  <1>3. PICK j \in Nat : start = j * CACHE_LINE_SIZE /\ start \in Nat /\ start >= BACK_POINTER_SIZE
    BY <1>0, AlignUp, Zenon DEF usable_start, object_align
  <1>4. size \in Nat \ {0}
    BY <1>1, <1>2
  <1>6. /\ ~(start >= PAGE_SIZE \/ fits = {})
        /\ objects_per_slab(c) = CHOOSE n \in fits : \A m \in fits : m <= n
    BY KmallocAssumption, Z3 DEF objects_per_slab
  <1> HIDE DEF size, start
  <1>7. (PAGE_SIZE - start) \div size \in Nat
    BY <1>3, <1>4, <1>6, KmallocAssumption, Divided
  <1>8. fits \in SUBSET Nat /\ \A n \in fits : n <= (PAGE_SIZE - start) \div size
    BY <1>7
  <1>10. objects_per_slab(c) \in fits
    BY <1>6, <1>7, <1>8, Greatest, Zenon
  <1>11. /\ objects_per_slab(c) \in Nat
         /\ start + objects_per_slab(c) * size <= PAGE_SIZE
    BY <1>3, <1>4, <1>7, <1>10, KmallocAssumption
  <1> QED
    BY <1>1, <1>2, <1>3, <1>4, <1>11, KmallocAssumption, Zenon DEF size, start

\* An object's address leads back to its page and its slot, is aligned, and its
\* slot lies between the header and the end of the page.
LEMMA Address ==
    ASSUME NEW c \in Classes, NEW p \in Pages, NEW slot \in ObjectSlots(c)
    PROVE  LET ptr == object_addr(c, p, slot)
               base == p * PAGE_SIZE + usable_start(c)
           IN  /\ slot \in Nat \ {0} /\ slot < objects_per_slab(c)
               /\ ptr \in Nat
               /\ ptr = base + slot * object_size(c)
               /\ PageOf(ptr) = p
               /\ ptr >= base
               /\ (ptr - base) % object_size(c) = 0
               /\ (ptr - base) \div object_size(c) = slot
               /\ ptr % CACHE_LINE_SIZE = 0
               /\ ptr >= p * PAGE_SIZE + BACK_POINTER_SIZE + object_size(c)
               /\ ptr + object_size(c) <= p * PAGE_SIZE + PAGE_SIZE
  <1> DEFINE start == usable_start(c)
             size == object_size(c)
             count == objects_per_slab(c)
             ptr == object_addr(c, p, slot)
  <1>1. /\ size \in Nat \ {0} /\ start \in Nat /\ count \in Nat
        /\ start + count * size <= PAGE_SIZE /\ start >= BACK_POINTER_SIZE
    BY Layout
  <1>2. p \in Nat /\ PAGE_SIZE \in Nat \ {0} /\ CACHE_LINE_SIZE \in Nat \ {0}
        /\ BACK_POINTER_SIZE \in Nat
    BY KmallocAssumption
  <1>3. slot \in Nat \ {0} /\ slot < count
    BY <1>1 DEF ObjectSlots
  <1>4. ptr = p * PAGE_SIZE + start + slot * size
    BY Zenon DEF object_addr
  <1>5. PICK k1 \in Nat, k2 \in Nat, k3 \in Nat :
            size = k1 * CACHE_LINE_SIZE /\ start = k2 * CACHE_LINE_SIZE
              /\ PAGE_SIZE = k3 * CACHE_LINE_SIZE
    <2>1. PAGE_SIZE \div CACHE_LINE_SIZE \in Nat
          /\ PAGE_SIZE = (PAGE_SIZE \div CACHE_LINE_SIZE) * CACHE_LINE_SIZE + 0
      BY KmallocAssumption, Divided, Zenon
    <2>2. \E k3 \in Nat : PAGE_SIZE = k3 * CACHE_LINE_SIZE
      BY <1>2, <2>1
    <2> QED
      BY <2>2, Layout, Zenon
  <1> HIDE DEF start, size, count, ptr
  <1>6. /\ slot * size \in Nat /\ count * size \in Nat /\ p * PAGE_SIZE \in Nat
        /\ slot * size >= size /\ (slot + 1) * size <= count * size
        /\ (slot + 1) * size = slot * size + size
    BY <1>1, <1>2, <1>3
  <1>7. /\ start + slot * size \in 0..(PAGE_SIZE - 1)
        /\ start + slot * size + size <= PAGE_SIZE
    BY <1>1, <1>2, <1>6
  <1>8. ptr = p * PAGE_SIZE + (start + slot * size) /\ ptr \in Nat
    BY <1>1, <1>4, <1>6
  <1>9. ptr \div PAGE_SIZE = p
    BY <1>2, <1>7, <1>8, Quotient, Z3
  <1>11. (slot * size + 0) % size = 0 /\ (slot * size + 0) \div size = slot
    BY <1>1, <1>3, Quotient
  <1>12. ptr % CACHE_LINE_SIZE = 0
    BY <1>2, <1>3, <1>4, <1>5, Multiple
  <1>13. /\ ptr >= p * PAGE_SIZE + BACK_POINTER_SIZE + size
         /\ ptr + size <= p * PAGE_SIZE + PAGE_SIZE
         /\ ptr >= p * PAGE_SIZE + start
    BY <1>1, <1>2, <1>6, <1>7, <1>8
  <1> QED
    BY <1>1, <1>3, <1>4, <1>6, <1>8, <1>9, <1>11, <1>12, <1>13 DEF start, size, count, ptr,
       PageOf

-----------------------------------------------------------------------------
(* The partial lists *)

Links ==
    [next : [Pages -> Pages \cup {NULL}], prev : [Pages -> Pages \cup {NULL}],
     listed : [Pages -> BOOLEAN],
     head : [Classes -> Pages \cup {NULL}], current : [Classes -> Pages \cup {NULL}]]

LEMMA LinksFields ==
    ASSUME NEW l \in Links
    PROVE  /\ l.next \in [Pages -> Pages \cup {NULL}] /\ l.prev \in [Pages -> Pages \cup {NULL}]
           /\ l.listed \in [Pages -> BOOLEAN]
           /\ l.head \in [Classes -> Pages \cup {NULL}]
           /\ l.current \in [Classes -> Pages \cup {NULL}]
  BY DEF Links

\* What link_slab writes.
LEMMA LinkSlabFields ==
    ASSUME NEW l \in Links, NEW c \in Classes, NEW s \in Pages, NEW m, m = link_slab(l, c, s)
    PROVE  LET h == l.head[c]
           IN  /\ m \in Links
               /\ \A t \in Pages : m.next[t] = IF t = s THEN h ELSE l.next[t]
               /\ \A t \in Pages : m.prev[t] = IF t = h THEN s ELSE
                                               IF t = s THEN NULL ELSE l.prev[t]
               /\ m.listed[s] /\ \A t \in Pages : t # s => m.listed[t] = l.listed[t]
               /\ m.head[c] = s /\ \A d \in Classes : d # c => m.head[d] = l.head[d]
               /\ m.current = l.current
  <1> DEFINE h == l.head[c]
             fresh == [l EXCEPT !.next[s] = h, !.prev[s] = NULL,
                                !.listed[s] = TRUE, !.head[c] = s]
  <1>1. h \in Pages \cup {NULL} /\ NULL \notin Pages
    BY LinksFields, KmallocAssumption
  <1>2. m = IF h = NULL THEN fresh ELSE [fresh EXCEPT !.prev[h] = s]
    BY Zenon DEF link_slab
  <1>3. /\ fresh.next = [l.next EXCEPT ![s] = h]
        /\ fresh.prev = [l.prev EXCEPT ![s] = NULL]
        /\ fresh.listed = [l.listed EXCEPT ![s] = TRUE]
        /\ fresh.head = [l.head EXCEPT ![c] = s]
        /\ fresh.current = l.current
        /\ fresh \in Links
    BY <1>1, Zenon DEF Links
  <1> HIDE DEF fresh, h
  <1>4. /\ \A t \in Pages : fresh.next[t] = IF t = s THEN h ELSE l.next[t]
        /\ \A t \in Pages : fresh.prev[t] = IF t = s THEN NULL ELSE l.prev[t]
        /\ fresh.head[c] = s /\ \A d \in Classes : d # c => fresh.head[d] = l.head[d]
    BY <1>3, LinksFields
  <1>7. fresh.listed[s] /\ \A t \in Pages : t # s => fresh.listed[t] = l.listed[t]
    BY <1>3, LinksFields
  <1>5. CASE h = NULL
    <2>1. m = fresh
      BY <1>2, <1>5
    <2>3. /\ m.next = fresh.next /\ m.listed = fresh.listed /\ m.head = fresh.head
          /\ m.current = fresh.current /\ m \in Links
      BY <1>3, <2>1
    <2> HIDE <2>1
    <2>5. /\ m.head[c] = s /\ \A d \in Classes : d # c => m.head[d] = l.head[d]
          /\ m.current = l.current
      BY <1>3, <1>4, <2>3
    <2> QED
      BY <1>1, <1>4, <1>5, <1>7, <2>1, <2>3, <2>5 DEF h
  <1>6. CASE h # NULL
    <2>1. h \in Pages /\ m = [fresh EXCEPT !.prev[h] = s]
      BY <1>1, <1>2, <1>6
    <2>2. /\ m.next = fresh.next /\ m.listed = fresh.listed /\ m.head = fresh.head
          /\ m.current = fresh.current
          /\ m.prev = [fresh.prev EXCEPT ![h] = s]
          /\ m \in Links
      <3>1. [fresh.prev EXCEPT ![h] = s] \in [Pages -> Pages \cup {NULL}]
        BY <1>3, <2>1, LinksFields
      <3>2. m = [next |-> fresh.next, prev |-> [fresh.prev EXCEPT ![h] = s],
                 listed |-> fresh.listed, head |-> fresh.head, current |-> fresh.current]
        BY <1>3, <2>1, Zenon DEF Links
      <3> QED
        BY <1>3, <3>1, <3>2, LinksFields DEF Links
    <2> HIDE <2>1
    <2>4. /\ \A t \in Pages : m.next[t] = IF t = s THEN h ELSE l.next[t]
          /\ m.listed[s] /\ \A t \in Pages : t # s => m.listed[t] = l.listed[t]
      BY <1>4, <1>7, <2>2
    <2>5. /\ m.head[c] = s /\ \A d \in Classes : d # c => m.head[d] = l.head[d]
          /\ m.current = l.current
      BY <1>3, <1>4, <2>2
    <2> QED
      BY <1>3, <1>4, <2>2, <2>4, <2>5, LinksFields DEF h
  <1> QED
    BY <1>5, <1>6

\* What unlink_slab writes.
LEMMA UnlinkSlabFields ==
    ASSUME NEW l \in Links, NEW c \in Classes, NEW s \in Pages, l.listed[s],
           NEW m, m = unlink_slab(l, c, s)
    PROVE  LET p == l.prev[s]
               n == l.next[s]
           IN  /\ m \in Links
               /\ \A t \in Pages : m.next[t] = IF t = s THEN NULL ELSE
                                               IF t = p THEN n ELSE l.next[t]
               /\ \A t \in Pages : m.prev[t] = IF t = s THEN NULL ELSE
                                               IF t = n THEN p ELSE l.prev[t]
               /\ ~m.listed[s] /\ \A t \in Pages : t # s => m.listed[t] = l.listed[t]
               /\ m.head[c] = IF p = NULL THEN n ELSE l.head[c]
               /\ m.current[c] = IF l.current[c] = s THEN m.head[c] ELSE l.current[c]
               /\ \A d \in Classes : d # c => m.head[d] = l.head[d] /\ m.current[d] = l.current[d]
  <1> DEFINE p == l.prev[s]
             n == l.next[s]
             back1 == IF p = NULL THEN [l EXCEPT !.head[c] = n] ELSE [l EXCEPT !.next[p] = n]
             both == IF n = NULL THEN back1 ELSE [back1 EXCEPT !.prev[n] = p]
             done == [both EXCEPT !.prev[s] = NULL, !.next[s] = NULL, !.listed[s] = FALSE,
                                  !.current[c] = IF @ = s THEN both.head[c] ELSE @]
  <1>0. /\ p \in Pages \cup {NULL} /\ n \in Pages \cup {NULL}
        /\ NULL \notin Pages
    BY LinksFields, KmallocAssumption
  <1>1. m = done
    BY Zenon DEF unlink_slab
  <1>2. /\ back1 \in Links
        /\ back1.prev = l.prev /\ back1.listed = l.listed /\ back1.current = l.current
        /\ back1.head = [l.head EXCEPT ![c] = IF p = NULL THEN n ELSE @]
        /\ \A t \in Pages : back1.next[t] = IF t = p THEN n ELSE l.next[t]
    <2> HIDE DEF p, n
    <2>1. CASE p = NULL
      BY <1>0, <2>1 DEF Links
    <2>2. CASE p # NULL
      BY <1>0, <2>2, LinksFields DEF Links
    <2> QED
      BY <2>1, <2>2
  <1> HIDE DEF back1
  <1>3. /\ both \in Links
        /\ both.next = back1.next /\ both.listed = l.listed /\ both.current = l.current
        /\ both.head = back1.head
        /\ \A t \in Pages : both.prev[t] = IF t = n THEN p ELSE l.prev[t]
    <2> HIDE DEF p, n
    <2>1. CASE n = NULL
      BY <1>0, <1>2, <2>1
    <2>2. CASE n # NULL
      <3>1. [l.prev EXCEPT ![n] = p] \in [Pages -> Pages \cup {NULL}]
        BY <1>0, <2>2, LinksFields
      <3>2. both = [next |-> back1.next, prev |-> [l.prev EXCEPT ![n] = p],
                    listed |-> l.listed, head |-> back1.head, current |-> l.current]
        BY <1>2, <2>2 DEF Links
      <3>3. both \in Links
        BY <1>2, <3>1, <3>2, LinksFields, Zenon DEF Links
      <3> QED
        BY <1>0, <2>2, <3>2, <3>3, LinksFields
    <2> QED
      BY <2>1, <2>2
  <1> HIDE DEF both, p, n
  <1>11. /\ done \in Links
        /\ done.next = [both.next EXCEPT ![s] = NULL]
        /\ done.prev = [both.prev EXCEPT ![s] = NULL]
        /\ done.listed = [both.listed EXCEPT ![s] = FALSE]
        /\ done.head = both.head
        /\ done.current = [both.current EXCEPT ![c] = IF @ = s THEN both.head[c] ELSE @]
    BY <1>3, LinksFields, Zenon DEF Links
  <1> HIDE DEF done
  <1>5. /\ m \in Links
        /\ m.next = [both.next EXCEPT ![s] = NULL]
        /\ m.prev = [both.prev EXCEPT ![s] = NULL]
        /\ m.listed = [both.listed EXCEPT ![s] = FALSE]
        /\ m.head = both.head
        /\ m.current = [both.current EXCEPT ![c] = IF @ = s THEN both.head[c] ELSE @]
    BY <1>1, <1>11
  <1> HIDE <1>1
  <1> QED
    BY <1>2, <1>3, <1>5, LinksFields DEF p, n

ListOf(l, c, S) ==
    \E at, n : Chain(at, n, S, l.next, l.prev, NULL) /\ l.head[c] = at[0]

\* The list of every pool c is S[c], and no slab is in two of them.
Lists(l, S) ==
    /\ l \in Links
    /\ S \in [Classes -> SUBSET Pages]
    /\ \A c \in Classes : ListOf(l, c, S[c])
    /\ \A c, d \in Classes : c # d => S[c] \cap S[d] = {}
    /\ \A p \in Pages : l.listed[p] <=> \E c \in Classes : p \in S[c]
    /\ \A p \in Pages : ~l.listed[p] => l.next[p] = NULL /\ l.prev[p] = NULL

LEMMA SameFamily ==
    ASSUME NEW S \in [Classes -> SUBSET Pages], NEW T \in [Classes -> SUBSET Pages],
           \A c \in Classes, p \in Pages : p \in S[c] <=> p \in T[c]
    PROVE  S = T
  <1>1. ASSUME NEW c \in Classes PROVE S[c] = T[c]
    OBVIOUS
  <1> QED
    BY <1>1

LEMMA ListHead ==
    ASSUME NEW l, NEW S, Lists(l, S), NEW c \in Classes
    PROVE  IF S[c] = {} THEN l.head[c] = NULL ELSE l.head[c] \in S[c]
  <1>1. PICK at, n : Chain(at, n, S[c], l.next, l.prev, NULL) /\ l.head[c] = at[0]
    BY DEF Lists, ListOf
  <1> QED
    BY <1>1, ChainElements

MakesCurrent(l, c, s, m) == m = [l EXCEPT !.current[c] = s]

\* `current` is not part of the lists.
LEMMA SetCurrent ==
    ASSUME NEW l, NEW S, Lists(l, S), NEW c \in Classes, NEW s \in Pages \cup {NULL},
           NEW m, MakesCurrent(l, c, s, m)
    PROVE  /\ Lists(m, S)
           /\ m.current[c] = s /\ \A d \in Classes : d # c => m.current[d] = l.current[d]
  <1>1. /\ m \in Links
        /\ m.next = l.next /\ m.prev = l.prev /\ m.listed = l.listed /\ m.head = l.head
        /\ m.current = [l.current EXCEPT ![c] = s]
    BY Zenon DEF Lists, Links, MakesCurrent
  <1>2. ASSUME NEW d \in Classes PROVE ListOf(m, d, S[d])
    BY <1>1 DEF Lists, ListOf
  <1> QED
    BY <1>1, <1>2, LinksFields DEF Lists

\* link_slab puts a slab in front of the list of its pool.
LEMMA LinkSlab ==
    ASSUME NEW l, NEW S, Lists(l, S), NEW c \in Classes,
           NEW s \in Pages, \A d \in Classes : s \notin S[d],
           NEW m, m = link_slab(l, c, s)
    PROVE  Lists(m, [S EXCEPT ![c] = @ \cup {s}]) /\ m.current = l.current
  <1> DEFINE T == [S EXCEPT ![c] = @ \cup {s}]
             h == l.head[c]
  <1>0. l \in Links /\ S \in [Classes -> SUBSET Pages] /\ NULL \notin Pages
    BY KmallocAssumption DEF Lists
  <1>1. /\ m \in Links
        /\ \A t \in Pages : m.next[t] = IF t = s THEN h ELSE l.next[t]
        /\ \A t \in Pages : m.prev[t] = IF t = h THEN s ELSE IF t = s THEN NULL ELSE l.prev[t]
        /\ m.listed[s] /\ \A t \in Pages : t # s => m.listed[t] = l.listed[t]
        /\ m.head[c] = s /\ \A d \in Classes : d # c => m.head[d] = l.head[d]
        /\ m.current = l.current
    BY <1>0, LinkSlabFields
  <1>2. IF S[c] = {} THEN h = NULL ELSE h \in S[c] /\ h \in Pages
    BY <1>0, ListHead
  <1> HIDE DEF h
  <1>4. \A t \in Pages : m.prev[t] = IF t = s THEN NULL ELSE IF t = h THEN s ELSE l.prev[t]
    BY <1>0, <1>1, <1>2
  <1>5. T \in [Classes -> SUBSET Pages] /\ T[c] = S[c] \cup {s} /\ \A d \in Classes : d # c => T[d] = S[d]
    BY <1>0
  <1> HIDE DEF T
  <1>6. ListOf(m, c, T[c])
    <2>1. PICK at, n : Chain(at, n, S[c], l.next, l.prev, NULL) /\ h = at[0]
      BY DEF Lists, ListOf, h
    <2> DEFINE at1 == [i \in Nat |-> IF i = 0 THEN s ELSE at[i - 1]]
    <2>4. Chain(at1, n + 1, S[c] \cup {s}, m.next, m.prev, NULL)
      <3>1. NewFirst(s, at[0], S[c], l.next, l.prev, m.next, m.prev, NULL)
        BY <1>0, <1>1, <1>4, <2>1 DEF NewFirst
      <3>2. Chain(at, n, S[c], l.next, l.prev, NULL)
        BY <2>1
      <3> QED
        BY <3>1, <3>2, ChainPrepend, Zenon
    <2>5. at1[0] = s
      OBVIOUS
    <2> HIDE DEF at1
    <2> QED
      BY <1>1, <1>5, <2>4, <2>5 DEF ListOf
  <1>7. ASSUME NEW d \in Classes, d # c PROVE ListOf(m, d, T[d])
    BY <1>0, <1>1, <1>2, <1>4, <1>5, <1>7, ChainFrame DEF Lists, ListOf
  <1>10. ASSUME NEW p \in Pages, ~m.listed[p] PROVE m.next[p] = NULL /\ m.prev[p] = NULL
    BY <1>0, <1>1, <1>2, <1>4, <1>10 DEF Lists
  <1>11. \A d \in Classes : ListOf(m, d, T[d])
    BY <1>6, <1>7
  <1>12. Lists(m, T)
    BY <1>1, <1>5, <1>10, <1>11 DEF Lists
  <1> QED
    BY <1>1, <1>12 DEF T

\* unlink_slab takes a slab out of the list of its pool.
LEMMA UnlinkSlab ==
    ASSUME NEW l, NEW S, Lists(l, S), NEW c \in Classes, NEW s \in S[c],
           NEW m, m = unlink_slab(l, c, s)
    PROVE  /\ Lists(m, [S EXCEPT ![c] = @ \ {s}])
           /\ m.current[c] = IF l.current[c] = s THEN m.head[c] ELSE l.current[c]
           /\ \A d \in Classes : d # c => m.current[d] = l.current[d]
  <1> DEFINE T == [S EXCEPT ![c] = @ \ {s}]
             p == l.prev[s]
             n == l.next[s]
  <1>0. l \in Links /\ S \in [Classes -> SUBSET Pages] /\ NULL \notin Pages /\ s \in Pages
    BY KmallocAssumption DEF Lists
  <1>2. /\ m \in Links
        /\ \A t \in Pages : m.next[t] = IF t = s THEN NULL ELSE IF t = p THEN n ELSE l.next[t]
        /\ \A t \in Pages : m.prev[t] = IF t = s THEN NULL ELSE IF t = n THEN p ELSE l.prev[t]
        /\ ~m.listed[s] /\ \A t \in Pages : t # s => m.listed[t] = l.listed[t]
        /\ m.head[c] = IF p = NULL THEN n ELSE l.head[c]
        /\ m.current[c] = IF l.current[c] = s THEN m.head[c] ELSE l.current[c]
        /\ \A d \in Classes : d # c => m.head[d] = l.head[d] /\ m.current[d] = l.current[d]
    BY <1>0, UnlinkSlabFields DEF Lists
  <1>4. PICK at, len : Chain(at, len, S[c], l.next, l.prev, NULL) /\ l.head[c] = at[0]
    BY DEF Lists, ListOf
  <1>5. PICK k \in 0..(len - 1) : at[k] = s
    BY <1>4, ChainElements
  <1>6. /\ len \in Nat /\ k \in Nat /\ n = at[k + 1] /\ p = IF k = 0 THEN NULL ELSE at[k - 1]
        /\ \A i \in Nat : i < len => at[i] \in S[c] /\ at[i] # NULL
        /\ p \in S[c] \cup {NULL} /\ n \in S[c] \cup {NULL}
    BY <1>4, <1>5 DEF Chain
  <1>7. T \in [Classes -> SUBSET Pages] /\ T[c] = S[c] \ {s} /\ \A d \in Classes : d # c => T[d] = S[d]
    BY <1>0
  <1> HIDE DEF T, p, n
  <1>8. ListOf(m, c, T[c])
    <2> DEFINE at1 == [i \in Nat |-> IF i < k THEN at[i] ELSE at[i + 1]]
    <2>2. Chain(at1, len - 1, S[c] \ {at[k]}, m.next, m.prev, NULL)
      BY <1>0, <1>2, <1>4, <1>5, ChainRemove DEF p, n
    <2>5. m.head[c] = at1[0]
      BY <1>2, <1>4, <1>5, <1>6
    <2> HIDE DEF at1
    <2> QED
      BY <1>5, <1>7, <2>2, <2>5, Zenon DEF ListOf
  <1>9. ASSUME NEW d \in Classes, d # c PROVE ListOf(m, d, T[d])
    BY <1>0, <1>2, <1>6, <1>7, <1>9, ChainFrame DEF Lists, ListOf, p, n
  <1>12. ASSUME NEW q \in Pages, ~m.listed[q] PROVE m.next[q] = NULL /\ m.prev[q] = NULL
    BY <1>0, <1>2, <1>6, <1>12 DEF p, n, Lists
  <1>13. \A d \in Classes : ListOf(m, d, T[d])
    BY <1>8, <1>9
  <1>14. \A x, y \in Classes : x # y => T[x] \cap T[y] = {}
    BY <1>7 DEF Lists
  <1>15. \A q \in Pages : m.listed[q] <=> \E d \in Classes : q \in T[d]
    BY <1>0, <1>2, <1>7 DEF Lists
  <1>16. Lists(m, T)
    BY <1>2, <1>7, <1>12, <1>13, <1>14, <1>15, Zenon DEF Lists
  <1> QED
    BY <1>2, <1>16 DEF T

-----------------------------------------------------------------------------
(* The inductive invariant, on the fields it relates *)

Types ==
    /\ initialized \in BOOLEAN
    /\ pmm_free \in SUBSET Pages
    /\ back \in [Pages -> Classes \cup {NULL}]
    /\ bitmap \in [Pages -> SUBSET Nat]
    /\ free_count \in [Pages -> Nat]
    /\ total_allocated \in [Classes -> Nat] /\ slab_count \in [Classes -> Nat]
    /\ live \in SUBSET [ptr : Nat, size : Nat] /\ IsFiniteSet(live)
    /\ live # {} => initialized

\* A slab is not free to the PMM, and its header counts its free slots.
SlabsOk(bk, bm, count, free) ==
    \A p \in Pages : bk[p] # NULL =>
        p \notin free /\ bm[p] \subseteq ObjectSlots(bk[p]) /\ count[p] = Cardinality(bm[p])

\* The slabs with space, by pool.
SpaceOf(bk, bm) == [c \in Classes |-> {p \in Pages : bk[p] = c /\ bm[p] # {}}]

CurrentOk(l, S) ==
    \A c \in Classes : IF l.current[c] = NULL THEN S[c] = {} ELSE l.current[c] \in S[c]

\* o is the object in a slot of slab p of pool c.
IsObject(o, c, p, slot) == o.ptr = object_addr(c, p, slot) /\ o.size <= object_size(c)

\* Every live object is in a slot of a slab, one that its bitmap does not offer,
\* and no two are in the same.
LiveOk(objects, bk, bm) ==
    /\ \A o \in objects : \E p \in Pages :
          bk[p] # NULL /\ \E slot \in ObjectSlots(bk[p]) \ bm[p] : IsObject(o, bk[p], p, slot)
    /\ \A o, q \in objects : o.ptr = q.ptr => o = q

CountsOk ==
    \A c \in Classes :
        /\ slab_count[c] = Cardinality(Slabs(c))
        /\ total_allocated[c] = Cardinality(LiveIn(c))
        /\ (\E p \in Slabs(c) : bitmap[p] = ObjectSlots(c)) => slab_count[c] <= MIN_SLABS

KInv ==
    /\ Types
    /\ SlabsOk(back, bitmap, free_count, pmm_free)
    /\ Lists(links, SpaceOf(back, bitmap))
    /\ CurrentOk(links, SpaceOf(back, bitmap))
    /\ LiveOk(live, back, bitmap)
    /\ CountsOk

-----------------------------------------------------------------------------
(* What the operators return *)

LEMMA ObjectSlotsFinite ==
    ASSUME NEW c \in Classes
    PROVE  /\ ObjectSlots(c) \in SUBSET Nat /\ IsFiniteSet(ObjectSlots(c))
           /\ Cardinality(ObjectSlots(c)) = objects_per_slab(c) - 1
           /\ ObjectSlots(c) # {}
           /\ \A S \in SUBSET ObjectSlots(c) :
                 /\ IsFiniteSet(S) /\ Cardinality(S) \in Nat
                 /\ Cardinality(S) = 0 <=> S = {}
                 /\ Cardinality(S) = objects_per_slab(c) - 1 <=> S = ObjectSlots(c)
  <1> DEFINE n == objects_per_slab(c)
  <1>1. n \in Nat /\ n > 1
    BY Layout
  <1>2. ObjectSlots(c) = 1..(n - 1)
    BY DEF ObjectSlots
  <1> HIDE DEF n
  <1>3. IsFiniteSet(ObjectSlots(c)) /\ Cardinality(ObjectSlots(c)) = n - 1
    BY <1>1, <1>2, FS_Interval
  <1>5. ASSUME NEW S \in SUBSET ObjectSlots(c)
        PROVE  /\ IsFiniteSet(S) /\ Cardinality(S) \in Nat
               /\ Cardinality(S) = 0 <=> S = {}
               /\ Cardinality(S) = n - 1 <=> S = ObjectSlots(c)
    BY <1>3, FS_Subset, FS_CardinalityType, FS_EmptySet
  <1> QED
    BY <1>1, <1>2, <1>3, <1>5 DEF n

LEMMA SizeClass ==
    ASSUME NEW size \in Sizes, size <= MAX_CLASS
    PROVE  /\ size_class(size) \in Classes
           /\ size \in Nat /\ size <= object_size(size_class(size))
  <1> DEFINE Large == {c \in Classes : ClassSizes[c] >= size}
  <1>1. /\ Classes = 1..Len(ClassSizes) /\ Len(ClassSizes) \in Nat \ {0} /\ size \in Nat
        /\ \A c \in Classes : ClassSizes[c] \in Nat
    BY KmallocAssumption DEF Classes
  <1>2. Len(ClassSizes) \in Large
    BY <1>1 DEF MAX_CLASS
  <1>3. Large \in SUBSET Nat
    BY <1>1
  <1>4. PICK c \in Large : \A d \in Large : c <= d
    BY <1>2, <1>3, Least, Zenon
  <1>6. size_class(size) \in Classes /\ ClassSizes[size_class(size)] >= size
    BY <1>4 DEF size_class
  <1>7. /\ object_size(size_class(size)) \in Nat
        /\ object_size(size_class(size)) >= ClassSizes[size_class(size)]
    BY <1>6, Layout
  <1> QED
    BY <1>1, <1>6, <1>7

\* `current` has space if there is any, so that the list is never searched.
LEMMA CurrentSlab ==
    ASSUME KInv, NEW c \in Classes
    PROVE  /\ current_slab_with_space(c) = links.current[c]
           /\ links.current[c] = NULL => WithSpace(c) = {}
           /\ links.current[c] # NULL =>
                /\ links.current[c] \in WithSpace(c)
                /\ links.current[c] \in Pages /\ back[links.current[c]] = c
  <1> DEFINE cur == links.current[c]
  <1>1. IF cur = NULL THEN WithSpace(c) = {} ELSE cur \in WithSpace(c)
    BY DEF KInv, CurrentOk, SpaceOf, WithSpace, Slabs
  <1>2. CASE cur = NULL
    BY <1>1, <1>2 DEF current_slab_with_space
  <1>3. CASE cur # NULL
    <2>1. cur \in Pages /\ back[cur] = c /\ bitmap[cur] # {}
      BY <1>1, <1>3 DEF WithSpace, Slabs
    <2>2. bitmap[cur] \subseteq ObjectSlots(c) /\ free_count[cur] = Cardinality(bitmap[cur])
      BY <2>1, KmallocAssumption, Zenon DEF KInv, SlabsOk
    <2> HIDE DEF cur
    <2> QED
      BY <1>1, <1>3, <2>1, <2>2, ObjectSlotsFinite DEF current_slab_with_space, cur
  <1> QED
    BY <1>2, <1>3

\* Two objects at one address are in one slot.
LEMMA AddressInjective ==
    ASSUME NEW c \in Classes, NEW p \in Pages, NEW slot \in ObjectSlots(c),
           NEW d \in Classes, NEW r \in Pages, NEW t \in ObjectSlots(d),
           object_addr(c, p, slot) = object_addr(d, r, t)
    PROVE  p = r /\ (c = d => slot = t)
  <1> DEFINE x == object_addr(c, p, slot)
             y == object_addr(d, r, t)
  <1> QED
    BY Address

-----------------------------------------------------------------------------
(* Taking a slot *)

\* The state is right in all but its counts, and s is the current slab of pool c.
HasSpace(bk, bm, fc, free, l, c, s) ==
    /\ SlabsOk(bk, bm, fc, free)
    /\ Lists(l, SpaceOf(bk, bm))
    /\ l.current[c] = s
    /\ \A d \in Classes : d # c => IF l.current[d] = NULL THEN SpaceOf(bk, bm)[d] = {}
                                   ELSE l.current[d] \in SpaceOf(bk, bm)[d]
    /\ LiveOk(live, bk, bm)

\* alloc_from_slab once the slab of pool c holds `slots`.
LEMMA AllocFromSlab ==
    ASSUME Types, NEW c \in Classes, NEW s \in Pages, NEW slots \in SUBSET ObjectSlots(c),
           NEW count, NEW l, NEW size \in Nat, size <= object_size(c),
           back' \in [Pages -> Classes \cup {NULL}], back'[s] = c,
           HasSpace(back', [bitmap EXCEPT ![s] = slots], [free_count EXCEPT ![s] = count],
                    pmm_free', l, c, s),
           alloc_from_slab(c, s, slots, count, l, size)
    PROVE  /\ bitmap' \in [Pages -> SUBSET Nat] /\ free_count' \in [Pages -> Nat]
           /\ SlabsOk(back', bitmap', free_count', pmm_free')
           /\ Lists(links', SpaceOf(back', bitmap'))
           /\ CurrentOk(links', SpaceOf(back', bitmap'))
           /\ LiveOk(live', back', bitmap')
           /\ bitmap'[s] # ObjectSlots(c)
           /\ \A p \in Pages : p # s => bitmap'[p] = bitmap[p]
           /\ \E o \in [ptr : Nat, size : Nat] :
                o \notin live /\ live' = live \cup {o} /\ PageOf(o.ptr) = s
  <1> DEFINE bm == [bitmap EXCEPT ![s] = slots]
             fc == [free_count EXCEPT ![s] = count]
             slot == lowest(slots)
             rest == slots \ {slot}
             S == SpaceOf(back', bm)
             T == SpaceOf(back', bitmap')
             o == [ptr |-> object_addr(c, s, slot), size |-> size]
  <1>1. /\ count > 0 /\ slots # {}
        /\ bitmap' = [bitmap EXCEPT ![s] = rest]
        /\ free_count' = [free_count EXCEPT ![s] = count - 1]
        /\ links' = IF count = 1 THEN unlink_slab(l, c, s) ELSE l
        /\ live' = live \cup {o}
    BY DEF alloc_from_slab
  <1>2. /\ ObjectSlots(c) \in SUBSET Nat
        /\ slot \in slots
    BY <1>1, ObjectSlotsFinite, Lowest
  <1>3. bm \in [Pages -> SUBSET Nat] /\ bm[s] = slots /\ fc[s] = count
        /\ \A p \in Pages : p # s => bm[p] = bitmap[p] /\ fc[p] = free_count[p]
    BY <1>2 DEF Types
  <1>0. /\ SlabsOk(back', bm, fc, pmm_free')
        /\ Lists(l, SpaceOf(back', bm))
        /\ l.current[c] = s
        /\ \A d \in Classes : d # c => IF l.current[d] = NULL THEN SpaceOf(back', bm)[d] = {}
                                       ELSE l.current[d] \in SpaceOf(back', bm)[d]
        /\ LiveOk(live, back', bm)
    BY Zenon DEF HasSpace
  <1> HIDE DEF bm, fc
  <1>4. count = Cardinality(slots) /\ count \in Nat /\ s \notin pmm_free'
    BY <1>0, <1>3, KmallocAssumption, ObjectSlotsFinite DEF SlabsOk
  <1>5. /\ rest \subseteq ObjectSlots(c)
        /\ Cardinality(rest) = count - 1
        /\ count = 1 <=> rest = {}
    <2>2. Cardinality(rest) = count - 1
      BY <1>2, <1>4, FS_RemoveElement, ObjectSlotsFinite
    <2> QED
      BY <1>4, <2>2, ObjectSlotsFinite
  <1> HIDE DEF slot, rest, o
  <1>6. /\ bitmap' \in [Pages -> SUBSET Nat] /\ free_count' \in [Pages -> Nat]
        /\ bitmap'[s] = rest /\ free_count'[s] = count - 1
        /\ \A p \in Pages : p # s => bitmap'[p] = bitmap[p] /\ free_count'[p] = free_count[p]
    BY <1>1, <1>2, <1>4, <1>5 DEF Types
  <1>7. SlabsOk(back', bitmap', free_count', pmm_free')
    BY <1>0, <1>3, <1>4, <1>5, <1>6 DEF SlabsOk
  <1>8. /\ \A d \in Classes, p \in Pages : p \in S[d] <=> back'[p] = d /\ bm[p] # {}
        /\ \A d \in Classes, p \in Pages : p \in T[d] <=> back'[p] = d /\ bitmap'[p] # {}
        /\ S \in [Classes -> SUBSET Pages] /\ T \in [Classes -> SUBSET Pages]
    BY DEF SpaceOf
  <1> HIDE DEF S, T
  <1>9. s \in S[c] /\ \A d \in Classes : d # c => s \notin S[d]
    BY <1>1, <1>3, <1>8
  <1>10. Lists(l, S) /\ \A d \in Classes : d # c => IF l.current[d] = NULL THEN S[d] = {}
                                                    ELSE l.current[d] \in S[d]
    BY <1>0 DEF S
  <1>11. Lists(links', T) /\ CurrentOk(links', T)
    <2>1. CASE count = 1
      <3>1. T = [S EXCEPT ![c] = @ \ {s}]
        <4>1. \A d \in Classes, p \in Pages :
                p \in T[d] <=> IF d = c THEN p \in S[c] /\ p # s ELSE p \in S[d]
          BY <1>3, <1>5, <1>6, <1>8, <1>9, <2>1
        <4> DEFINE U == [S EXCEPT ![c] = @ \ {s}]
        <4>2. /\ U \in [Classes -> SUBSET Pages]
              /\ \A d \in Classes, p \in Pages :
                   p \in U[d] <=> IF d = c THEN p \in S[c] /\ p # s ELSE p \in S[d]
          BY <1>8
        <4> HIDE DEF U
        <4>3. T = U
          BY <1>8, <4>1, <4>2, SameFamily
        <4> QED
          BY <4>3 DEF U
      <3>3. /\ Lists(links', [S EXCEPT ![c] = @ \ {s}])
            /\ links'.current[c] = IF l.current[c] = s THEN links'.head[c] ELSE l.current[c]
            /\ \A d \in Classes : d # c => links'.current[d] = l.current[d]
        BY <1>1, <1>9, <1>10, <2>1, UnlinkSlab, Z3
      <3>4. Lists(links', T)
        BY <3>1, <3>3
      <3>7. \A d \in Classes : d # c => T[d] = S[d]
        BY <1>8, <3>1
      <3>9. ASSUME NEW d \in Classes
            PROVE  IF links'.current[d] = NULL THEN T[d] = {} ELSE links'.current[d] \in T[d]
        BY <1>0, <1>8, <1>10, <3>3, <3>4, <3>7, ListHead, KmallocAssumption
      <3> QED
        BY <3>4, <3>9 DEF CurrentOk
    <2>2. CASE count # 1
      <3>1. T = S
        BY <1>1, <1>3, <1>5, <1>6, <1>8, <2>2, SameFamily
      <3> QED
        BY <1>0, <1>1, <1>9, <1>10, <2>2, <3>1, KmallocAssumption DEF CurrentOk
    <2> QED
      BY <2>1, <2>2
  <1>12. /\ IsObject(o, c, s, slot) /\ o \in [ptr : Nat, size : Nat]
         /\ slot \in ObjectSlots(c) /\ slot \notin rest
         /\ PageOf(o.ptr) = s /\ o.ptr = object_addr(c, s, slot)
    BY <1>2, Address DEF rest, o, IsObject
  <1>13. ASSUME NEW q \in live
         PROVE  /\ q.ptr # o.ptr
                /\ \E p \in Pages : /\ back'[p] # NULL
                                    /\ \E t \in ObjectSlots(back'[p]) \ bitmap'[p] :
                                          IsObject(q, back'[p], p, t)
    BY <1>0, <1>2, <1>3, <1>6, <1>12, AddressInjective DEF LiveOk, IsObject, rest
  <1>14. LiveOk(live', back', bitmap')
    <2>1. ASSUME NEW q \in live'
          PROVE  \E p \in Pages : /\ back'[p] # NULL
                                  /\ \E t \in ObjectSlots(back'[p]) \ bitmap'[p] :
                                        IsObject(q, back'[p], p, t)
      <3>1. CASE q \in live
        BY <1>13, <3>1
      <3>2. CASE q = o
        BY <1>6, <1>12, <3>2, KmallocAssumption
      <3> QED
        BY <1>1, <3>1, <3>2
    <2>2. ASSUME NEW q \in live', NEW r \in live', q.ptr = r.ptr PROVE q = r
      BY <1>0, <1>1, <1>13, <2>2 DEF LiveOk
    <2> QED
      BY <2>1, <2>2 DEF LiveOk
  <1> QED
    BY <1>1, <1>6, <1>7, <1>11, <1>12, <1>13, <1>14 DEF S, T

\* Live objects are in slabs.
LEMMA LivePages ==
    ASSUME KInv, NEW o \in live
    PROVE  PageOf(o.ptr) \in Pages /\ back[PageOf(o.ptr)] \in Classes
  <1>1. PICK p \in Pages : back[p] # NULL /\ \E slot \in ObjectSlots(back[p]) \ bitmap[p] :
                              IsObject(o, back[p], p, slot)
    BY DEF KInv, LiveOk
  <1>2. PICK slot \in ObjectSlots(back[p]) : o.ptr = object_addr(back[p], p, slot)
    BY <1>1 DEF IsObject
  <1>3. back[p] \in Classes
    BY <1>1 DEF KInv, Types
  <1> QED
    BY <1>2, <1>3, Address

\* One more live object, in pool c.
LEMMA OneMore ==
    ASSUME IsFiniteSet(live), NEW c \in Classes, NEW o, o \notin live, live' = live \cup {o},
           back'[PageOf(o.ptr)] = c,
           \A q \in live : back'[PageOf(q.ptr)] = back[PageOf(q.ptr)]
    PROVE  /\ IsFiniteSet(live')
           /\ \A d \in Classes : Cardinality(LiveIn(d)') =
                IF d = c THEN Cardinality(LiveIn(d)) + 1 ELSE Cardinality(LiveIn(d))
  <1>2. ASSUME NEW d \in Classes
        PROVE  Cardinality(LiveIn(d)') =
                 IF d = c THEN Cardinality(LiveIn(d)) + 1 ELSE Cardinality(LiveIn(d))
    <2>2. LiveIn(d) \in SUBSET live /\ o \notin LiveIn(d)
      BY DEF LiveIn
    <2>4. Cardinality(LiveIn(d) \cup {o}) = Cardinality(LiveIn(d)) + 1
      BY <2>2, FS_AddElement, FS_Subset
    <2> QED
      BY <2>4 DEF LiveIn
  <1> QED
    BY <1>2, FS_AddElement

\* What SpaceOf says of a page.
LEMMA SpaceMember ==
    ASSUME NEW bk, NEW bm
    PROVE  /\ SpaceOf(bk, bm) \in [Classes -> SUBSET Pages]
           /\ \A c \in Classes, p \in Pages :
                 p \in SpaceOf(bk, bm)[c] <=> bk[p] = c /\ bm[p] # {}
  BY DEF SpaceOf
=============================================================================
