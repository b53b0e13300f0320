------------------------- MODULE LinkedLists_proofs -------------------------
(***************************************************************************)
(* What the proofs about the allocators share: least elements, induction   *)
(* and division on the natural numbers, and the operations on doubly       *)
(* linked lists.                                                           *)
(***************************************************************************)
EXTENDS LinkedLists, FiniteSetTheorems, WellFoundedInduction, TLAPS

-----------------------------------------------------------------------------
(* Natural numbers *)

\* Every nonempty set of natural numbers has a least element.
LEMMA Least ==
    ASSUME NEW T \in SUBSET Nat, T # {}
    PROVE  \E x \in T : \A y \in T : x <= y
  <1> DEFINE Less == {ss \in Nat \X Nat : ss[1] < ss[2]}
  <1>1. IsWellFoundedOn(Less, Nat)
    BY NatLessThanWellFounded, Zenon DEF OpToRel
  <1> HIDE DEF Less
  <1>2. PICK x \in T : \A y \in T : ~(<<y, x>> \in Less)
    BY <1>1, WFMin, Zenon
  <1>3. \A y \in T : ~(y < x)
    BY <1>2 DEF Less
  <1> QED
    BY <1>3

\* Induction over the natural numbers, on a set.
LEMMA Induction ==
    ASSUME NEW S, 0 \in S, \A n \in Nat : n \in S => n + 1 \in S
    PROVE  Nat \subseteq S
  <1> DEFINE T == Nat \ S
  <1> SUFFICES ASSUME T # {} PROVE FALSE
    OBVIOUS
  <1>1. PICK n \in T : \A m \in T : n <= m
    BY Least
  <1>2. n # 0 /\ n - 1 \in Nat /\ n - 1 \in S
    BY <1>1
  <1> QED
    BY <1>2

\* A set of natural numbers that is bounded has a greatest element.
LEMMA Greatest ==
    ASSUME NEW S \in SUBSET Nat, S # {}, NEW bound \in Nat, \A n \in S : n <= bound
    PROVE  \E n \in S : \A m \in S : m <= n
  <1> DEFINE T == {bound - n : n \in S}
  <1>1. T \subseteq Nat /\ T # {}
    <2>1. \A n \in S : bound - n \in Nat
      OBVIOUS
    <2> QED
      BY <2>1
  <1>2. PICK t \in T : \A u \in T : t <= u
    BY <1>1, Least
  <1>3. PICK n \in S : t = bound - n
    OBVIOUS
  <1>4. ASSUME NEW m \in S PROVE m <= n
    BY <1>2, <1>3
  <1> QED
    BY <1>4

-----------------------------------------------------------------------------
(* Division *)

LEMMA Quotient ==
    ASSUME NEW q \in Int, NEW b \in Nat \ {0}, NEW r \in 0..(b - 1)
    PROVE  (q * b + r) \div b = q /\ (q * b + r) % b = r
  OBVIOUS

LEMMA Divided ==
    ASSUME NEW a \in Nat, NEW b \in Nat \ {0}
    PROVE  /\ a \div b \in Nat /\ a % b \in 0..(b - 1)
           /\ a = (a \div b) * b + (a % b)
  OBVIOUS

LEMMA Multiple ==
    ASSUME NEW k \in Nat, NEW m \in Nat \ {0}
    PROVE  (k * m) % m = 0
  <1>1. (k * m + 0) % m = 0
    BY Quotient
  <1> QED
    BY <1>1

-----------------------------------------------------------------------------
(* Doubly linked lists *)

\* The list is at[0], ..., at[n - 1]; beyond its end at is null.
Chain(at, n, S, next, prev, null) ==
    /\ n \in Nat /\ at \in [Nat -> S \cup {null}] /\ null \notin S
    /\ \A i \in Nat : at[i] = null <=> n <= i
    /\ \A s \in S : \E i \in Nat : at[i] = s
    /\ \A i, j \in Nat : i < n /\ at[i] = at[j] => i = j
    /\ \A i \in Nat : i < n => next[at[i]] = at[i + 1]
    /\ \A i \in Nat : i < n => prev[at[i]] = IF i = 0 THEN null ELSE at[i - 1]

LEMMA ChainEmpty ==
    ASSUME NEW next, NEW prev, NEW null
    PROVE  Chain([i \in Nat |-> null], 0, {}, next, prev, null)
  BY DEF Chain

\* The elements are the positions below n.
LEMMA ChainElements ==
    ASSUME NEW at, NEW n, NEW S, NEW next, NEW prev, NEW null,
           Chain(at, n, S, next, prev, null)
    PROVE  /\ \A i \in 0..(n - 1) : at[i] \in S
           /\ \A s \in S : \E i \in 0..(n - 1) : at[i] = s
           /\ S = {} <=> n = 0
           /\ S = {} <=> at[0] = null
           /\ at[0] # null => at[0] \in S /\ prev[at[0]] = null
  <1>1. \A i \in 0..(n - 1) : at[i] \in S
    BY DEF Chain
  <1>2. ASSUME NEW s \in S PROVE \E i \in 0..(n - 1) : at[i] = s
    <2>1. PICK i \in Nat : at[i] = s
      BY DEF Chain
    <2>2. ~(n <= i)
      BY <2>1 DEF Chain
    <2> QED
      BY <2>1, <2>2 DEF Chain
  <1>3. n \in Nat /\ (at[0] = null <=> n = 0)
    BY DEF Chain
  <1>4. n # 0 => prev[at[0]] = null
    BY DEF Chain
  <1> QED
    BY <1>1, <1>2, <1>3, <1>4

\* Links of other elements do not matter.
LEMMA ChainFrame ==
    ASSUME NEW at, NEW n, NEW S, NEW next, NEW prev, NEW null,
           Chain(at, n, S, next, prev, null),
           NEW next1, NEW prev1,
           \A s \in S : next1[s] = next[s] /\ prev1[s] = prev[s]
    PROVE  Chain(at, n, S, next1, prev1, null)
  <1>1. \A i \in Nat : i < n => at[i] \in S
    BY DEF Chain
  <1> QED
    BY <1>1 DEF Chain

\* next1 and prev1 have s before the first element.
NewFirst(s, first, S, next, prev, next1, prev1, null) ==
    /\ s \notin S /\ s # null
    /\ next1[s] = first /\ prev1[s] = null
    /\ \A t \in S : next1[t] = next[t]
    /\ \A t \in S : prev1[t] = IF t = first THEN s ELSE prev[t]

LEMMA ChainPrepend ==
    ASSUME NEW at, NEW n, NEW S, NEW next, NEW prev, NEW null,
           Chain(at, n, S, next, prev, null),
           NEW s, NEW next1, NEW prev1,
           NewFirst(s, at[0], S, next, prev, next1, prev1, null)
    PROVE  Chain([i \in Nat |-> IF i = 0 THEN s ELSE at[i - 1]], n + 1,
                 S \cup {s}, next1, prev1, null)
  <1> DEFINE at1 == [i \in Nat |-> IF i = 0 THEN s ELSE at[i - 1]]
             T == S \cup {s}
  <1>0. /\ s \notin S /\ s # null /\ next1[s] = at[0] /\ prev1[s] = null
        /\ \A t \in S : next1[t] = next[t]
        /\ \A t \in S : prev1[t] = IF t = at[0] THEN s ELSE prev[t]
    BY DEF NewFirst
  <1>1. n \in Nat /\ \A i \in Nat : (i < n => at[i] \in S) /\ at[i] \in S \cup {null}
    BY DEF Chain
  <1>2. at1[0] = s /\ \A i \in Nat : i # 0 => at1[i] = at[i - 1] /\ i - 1 \in Nat
    OBVIOUS
  <1>3. at1 \in [Nat -> T \cup {null}] /\ null \notin T
    BY <1>0, <1>1 DEF Chain
  <1> HIDE DEF at1
  <1>4. \A i \in Nat : at1[i] = null <=> n + 1 <= i
    BY <1>0, <1>1, <1>2 DEF Chain
  <1>5. ASSUME NEW t \in T PROVE \E i \in Nat : at1[i] = t
    <2>1. CASE t = s
      BY <1>2, <2>1
    <2>2. CASE t \in S
      <3>1. PICK i \in Nat : at[i] = t
        BY <2>2 DEF Chain
      <3>2. at1[i + 1] = t
        BY <1>2, <3>1
      <3> QED
        BY <3>2
    <2> QED
      BY <2>1, <2>2
  <1>6. ASSUME NEW i \in Nat, NEW j \in Nat, i < n + 1, at1[i] = at1[j] PROVE i = j
    <2>1. CASE i = 0
      BY <1>0, <1>1, <1>2, <1>6, <2>1
    <2>2. CASE i # 0
      <3>1. i - 1 \in Nat /\ i - 1 < n /\ at1[i] = at[i - 1] /\ at[i - 1] \in S
        BY <1>1, <1>2, <1>6, <2>2
      <3>2. j # 0
        BY <1>0, <1>2, <1>6, <3>1
      <3>3. j - 1 \in Nat /\ at[j - 1] = at[i - 1]
        BY <1>2, <1>6, <3>1, <3>2
      <3>4. i - 1 = j - 1
        BY <3>1, <3>3 DEF Chain
      <3> QED
        BY <3>4
    <2> QED
      BY <2>1, <2>2
  <1>7. ASSUME NEW i \in Nat, i < n + 1
        PROVE  /\ next1[at1[i]] = at1[i + 1]
               /\ prev1[at1[i]] = IF i = 0 THEN null ELSE at1[i - 1]
    <2>1. CASE i = 0
      BY <1>0, <1>2, <2>1
    <2>2. CASE i # 0
      <3> DEFINE k == i - 1
      <3>1. k \in Nat /\ k < n /\ at1[i] = at[k] /\ at[k] \in S /\ at1[i + 1] = at[k + 1]
        BY <1>1, <1>2, <1>7, <2>2
      <3>2. next[at[k]] = at[k + 1] /\ prev[at[k]] = IF k = 0 THEN null ELSE at[k - 1]
        BY <3>1 DEF Chain
      <3>3. at[k] = at[0] <=> k = 0
        BY <3>1 DEF Chain
      <3>4. at1[k] = IF k = 0 THEN s ELSE at[k - 1]
        BY <1>2, <3>1
      <3> QED
        BY <1>0, <2>2, <3>1, <3>2, <3>3, <3>4
    <2> QED
      BY <2>1, <2>2
  <1>8. n + 1 \in Nat
    BY <1>1
  <1> HIDE DEF T
  <1> QED
    BY <1>3, <1>4, <1>5, <1>6, <1>7, <1>8 DEF Chain, at1, T

\* next1 and prev1 have s after the last of the n elements.
NewLast(s, at, n, S, next, prev, next1, prev1, null) ==
    /\ s \notin S /\ s # null
    /\ next1[s] = null /\ prev1[s] = IF n = 0 THEN null ELSE at[n - 1]
    /\ \A t \in S : prev1[t] = prev[t]
    /\ \A t \in S : next1[t] = IF t = at[n - 1] THEN s ELSE next[t]

\* A new last element.
LEMMA ChainAppend ==
    ASSUME NEW at, NEW n, NEW S, NEW next, NEW prev, NEW null,
           Chain(at, n, S, next, prev, null),
           NEW s, NEW next1, NEW prev1,
           NewLast(s, at, n, S, next, prev, next1, prev1, null)
    PROVE  Chain([at EXCEPT ![n] = s], n + 1, S \cup {s}, next1, prev1, null)
  <1> DEFINE at1 == [at EXCEPT ![n] = s]
             T == S \cup {s}
  <1>   /\ s \notin S /\ s # null
        /\ next1[s] = null /\ prev1[s] = IF n = 0 THEN null ELSE at[n - 1]
        /\ \A t \in S : prev1[t] = prev[t]
        /\ \A t \in S : next1[t] = IF t = at[n - 1] THEN s ELSE next[t]
    BY DEF NewLast
  <1>1. n \in Nat /\ \A i \in Nat : (i < n => at[i] \in S) /\ (at[i] = null <=> n <= i)
    BY DEF Chain
  <1>2. at1[n] = s /\ \A i \in Nat : i # n => at1[i] = at[i]
    BY <1>1 DEF Chain
  <1>3. at1 \in [Nat -> T \cup {null}] /\ null \notin T
    BY <1>1 DEF Chain
  <1> HIDE DEF at1
  <1>4. \A i \in Nat : at1[i] = null <=> n + 1 <= i
    BY <1>1, <1>2
  <1>5. ASSUME NEW t \in T PROVE \E i \in Nat : at1[i] = t
    <2>1. CASE t = s
      BY <1>1, <1>2, <2>1
    <2>2. CASE t \in S
      <3>1. PICK i \in 0..(n - 1) : at[i] = t
        BY <2>2, ChainElements
      <3>2. i \in Nat /\ at1[i] = t
        BY <1>1, <1>2, <3>1
      <3> QED
        BY <3>2
    <2> QED
      BY <2>1, <2>2
  <1>6. ASSUME NEW i \in Nat, NEW j \in Nat, i < n + 1, at1[i] = at1[j] PROVE i = j
    <2>1. CASE i = n
      BY <1>1, <1>2, <1>3, <1>6, <2>1
    <2>2. CASE i # n
      <3>1. i < n /\ at1[i] = at[i] /\ at[i] \in S
        BY <1>1, <1>2, <1>6, <2>2
      <3>2. j # n
        BY <1>2, <1>6, <3>1
      <3>3. at[i] = at[j]
        BY <1>2, <1>6, <3>1, <3>2
      <3> QED
        BY <3>1, <3>3 DEF Chain
    <2> QED
      BY <2>1, <2>2
  <1>7. ASSUME NEW i \in Nat, i < n + 1
        PROVE  /\ next1[at1[i]] = at1[i + 1]
               /\ prev1[at1[i]] = IF i = 0 THEN null ELSE at1[i - 1]
    <2>1. CASE i = n
      <3>1. at1[n + 1] = null
        BY <1>1, <1>4
      <3>2. n # 0 => n - 1 \in Nat /\ at1[n - 1] = at[n - 1]
        BY <1>1, <1>2
      <3> QED
        BY <1>2, <2>1, <3>1, <3>2
    <2>2. CASE i # n
      <3>1. i < n /\ at1[i] = at[i] /\ at[i] \in S
        BY <1>1, <1>2, <1>7, <2>2
      <3>2. next[at[i]] = at[i + 1] /\ prev[at[i]] = IF i = 0 THEN null ELSE at[i - 1]
        BY <3>1 DEF Chain
      <3>3. i # 0 => at1[i - 1] = at[i - 1]
        BY <1>1, <1>2, <3>1
      <3>4. at[i] = at[n - 1] <=> i = n - 1
        <4>1. n - 1 \in Nat /\ n - 1 < n
          BY <1>1, <3>1
        <4> QED
          BY <3>1, <4>1 DEF Chain
      <3>5. at1[i + 1] = IF i = n - 1 THEN s ELSE at[i + 1]
        BY <1>1, <1>2, <3>1
      <3> QED
        BY <3>1, <3>2, <3>3, <3>4, <3>5
    <2> QED
      BY <2>1, <2>2
  <1>8. n + 1 \in Nat
    BY <1>1
  <1> HIDE DEF T
  <1> QED
    BY <1>3, <1>4, <1>5, <1>6, <1>7, <1>8 DEF Chain, at1, T

\* An element leaves: its neighbours become neighbours of each other.
LEMMA ChainRemove ==
    ASSUME NEW at, NEW n, NEW S, NEW next, NEW prev, NEW null,
           Chain(at, n, S, next, prev, null),
           NEW k \in 0..(n - 1),
           NEW next1, NEW prev1,
           \A t \in S \ {at[k]} : next1[t] = IF t = prev[at[k]] THEN next[at[k]] ELSE next[t],
           \A t \in S \ {at[k]} : prev1[t] = IF t = next[at[k]] THEN prev[at[k]] ELSE prev[t]
    PROVE  Chain([i \in Nat |-> IF i < k THEN at[i] ELSE at[i + 1]], n - 1,
                 S \ {at[k]}, next1, prev1, null)
  <1> DEFINE at1 == [i \in Nat |-> IF i < k THEN at[i] ELSE at[i + 1]]
             T == S \ {at[k]}
             f(i) == IF i < k THEN i ELSE i + 1
  <1>1. n \in Nat /\ \A i \in Nat : (i < n => at[i] \in S) /\ (at[i] = null <=> n <= i)
        /\ k \in Nat /\ k < n
    BY DEF Chain
  <1>2. \A i \in Nat : at1[i] = at[f(i)] /\ f(i) \in Nat /\ f(i) # k
                       /\ (f(i) < n <=> i < n - 1)
    BY <1>1
  <1>3. \A i, j \in Nat : i < n /\ at[i] = at[j] => i = j
    BY DEF Chain
  <1>4. \A i \in Nat : at[f(i)] # at[k]
    BY <1>1, <1>2, <1>3
  <1>5. at1 \in [Nat -> T \cup {null}] /\ null \notin T
    <2>1. \A i \in Nat : at1[i] \in T \cup {null}
      <3> HIDE DEF f, at1
      <3>1. \A i \in Nat : at[i] \in S \cup {null}
        BY DEF Chain
      <3> QED
        BY <1>2, <1>4, <3>1
    <2> QED
      BY <2>1 DEF Chain
  <1>6. \A i \in Nat : at1[i] = null <=> n - 1 <= i
    <2> HIDE DEF f, at1
    <2> QED
      BY <1>1, <1>2
  <1>7. ASSUME NEW t \in T PROVE \E i \in Nat : at1[i] = t
    <2>1. PICK i \in 0..(n - 1) : at[i] = t /\ i # k
      BY ChainElements
    <2>2. CASE i < k
      BY <1>1, <2>1, <2>2
    <2>3. CASE i > k
      <3>1. i - 1 \in Nat /\ f(i - 1) = i
        BY <1>1, <2>1, <2>3
      <3>2. at1[i - 1] = t
        BY <1>2, <2>1, <3>1
      <3> QED
        BY <3>1, <3>2
    <2> QED
      BY <1>1, <2>1, <2>2, <2>3
  <1>8. ASSUME NEW i \in Nat, NEW j \in Nat, i < n - 1, at1[i] = at1[j] PROVE i = j
    <2>1. f(i) = f(j)
      <3> HIDE DEF f, at1
      <3> QED
        BY <1>2, <1>3, <1>8
    <2> QED
      BY <1>1, <2>1
  <1>9. at[k] \in S /\ next[at[k]] = at[k + 1]
        /\ prev[at[k]] = IF k = 0 THEN null ELSE at[k - 1]
    BY <1>1 DEF Chain
  <1>10. ASSUME NEW i \in Nat, i < n - 1
         PROVE  /\ next1[at1[i]] = at1[i + 1]
                /\ prev1[at1[i]] = IF i = 0 THEN null ELSE at1[i - 1]
    <2> DEFINE m == f(i)
    <2>1. m \in Nat /\ m < n /\ m # k /\ at1[i] = at[m]
      BY <1>2, <1>10
    <2>2. at[m] \in T
      BY <1>1, <1>4, <2>1
    <2>3. /\ next[at[m]] = at[m + 1] /\ m + 1 \in Nat
          /\ prev[at[m]] = IF m = 0 THEN null ELSE at[m - 1]
      BY <2>1 DEF Chain
    <2>4. at[m] = prev[at[k]] <=> m + 1 = k
      <3>1. CASE k = 0
        BY <1>1, <1>9, <2>1, <3>1
      <3>2. CASE k # 0
        <4>1. k - 1 \in Nat /\ prev[at[k]] = at[k - 1]
          BY <1>1, <1>9, <3>2
        <4> HIDE DEF m
        <4>2. at[m] = at[k - 1] <=> m = k - 1
          BY <1>3, <2>1, <4>1
        <4> QED
          BY <1>1, <2>1, <4>1, <4>2
      <3> QED
        BY <3>1, <3>2
    <2>5. at[m] = next[at[k]] <=> m = k + 1
      <3> HIDE DEF m
      <3> QED
        BY <1>1, <1>3, <1>9, <2>1
    <2>6. next1[at[m]] = IF m + 1 = k THEN at[k + 1] ELSE at[m + 1]
      <3> HIDE DEF m
      <3> QED
        BY <1>9, <2>2, <2>3, <2>4
    <2>7. prev1[at[m]] = IF m = k + 1 THEN (IF k = 0 THEN null ELSE at[k - 1])
                         ELSE IF m = 0 THEN null ELSE at[m - 1]
      <3> HIDE DEF m
      <3> QED
        BY <1>9, <2>2, <2>3, <2>5
    <2>8. at1[i + 1] = IF i + 1 < k THEN at[i + 1] ELSE at[i + 2]
      OBVIOUS
    <2>9. i # 0 => at1[i - 1] = IF i - 1 < k THEN at[i - 1] ELSE at[i]
      OBVIOUS
    <2>10. next1[at1[i]] = at1[i + 1]
      <3> HIDE DEF at1
      <3> QED
        BY <1>1, <2>1, <2>6, <2>8
    <2>11. prev1[at1[i]] = IF i = 0 THEN null ELSE at1[i - 1]
      <3> HIDE DEF at1
      <3> QED
        BY <1>1, <2>1, <2>7, <2>9
    <2> QED
      BY <2>10, <2>11
  <1>11. n - 1 \in Nat
    BY <1>1
  <1> HIDE DEF T
  <1> QED
    BY <1>5, <1>6, <1>7, <1>8, <1>10, <1>11 DEF Chain, at1, T

\* Walking the list meets its elements in order.
LEMMA ChainWalk ==
    ASSUME NEW at, NEW n, NEW S, NEW next, NEW prev, NEW null,
           Chain(at, n, S, next, prev, null)
    PROVE  \A i \in Nat : Walk(at[0], next, null)[i] = at[i]
  <1> DEFINE Step(f) == [i \in Nat |-> IF i = 0 THEN at[0]
                                       ELSE IF f[i - 1] = null THEN null ELSE next[f[i - 1]]]
             w == Walk(at[0], next, null)
  <1>1. at = Step(at)
    <2>1. \A i \in Nat : at[i] = Step(at)[i]
      <3> SUFFICES ASSUME NEW i \in Nat, i # 0
                   PROVE  at[i] = IF at[i - 1] = null THEN null ELSE next[at[i - 1]]
        OBVIOUS
      <3>1. i - 1 \in Nat /\ n \in Nat
        BY DEF Chain
      <3>2. CASE i - 1 < n
        BY <3>1, <3>2 DEF Chain
      <3>3. CASE ~(i - 1 < n)
        BY <3>1, <3>3 DEF Chain
      <3> QED
        BY <3>2, <3>3
    <2>2. at \in [Nat -> S \cup {null}]
      BY DEF Chain
    <2> QED
      BY <2>1, <2>2
  <1>2. w = Step(w)
    <2>1. w = CHOOSE f : f = Step(f)
      BY Zenon DEF Walk
    <2> HIDE DEF w, Step
    <2> QED
      BY <1>1, <2>1, Zenon
  <1> HIDE DEF w
  <1> DEFINE Good == {i \in Nat : w[i] = at[i]}
  <1>3. 0 \in Good
    <2>1. w[0] = at[0]
      BY <1>2
    <2> QED
      BY <2>1
  <1>4. ASSUME NEW i \in Nat, i \in Good PROVE i + 1 \in Good
    <2>1. w[i + 1] = IF w[i] = null THEN null ELSE next[w[i]]
      BY <1>2
    <2>2. at[i + 1] = IF at[i] = null THEN null ELSE next[at[i]]
      BY <1>1
    <2> QED
      BY <1>4, <2>1, <2>2
  <1> HIDE DEF Good
  <1>5. Nat \subseteq Good
    BY <1>3, <1>4, Induction
  <1> QED
    BY <1>5 DEF Good, w

\* Its length is the number of its elements.
LEMMA ChainLength ==
    ASSUME NEW at, NEW n, NEW S, NEW next, NEW prev, NEW null,
           Chain(at, n, S, next, prev, null)
    PROVE  n \in Nat /\ IsFiniteSet(S) /\ Cardinality(S) = n
  <1> DEFINE f == [i \in 1..n |-> at[i - 1]]
  <1>1. n \in Nat
    BY DEF Chain
  <1>2. f \in [1..n -> S]
    BY <1>1, ChainElements
  <1>3. ASSUME NEW i \in 1..n, NEW j \in 1..n, f[i] = f[j] PROVE i = j
    BY <1>1, <1>3 DEF Chain
  <1>4. ASSUME NEW s \in S PROVE \E i \in 1..n : f[i] = s
    <2>1. PICK i \in 0..(n - 1) : at[i] = s
      BY ChainElements
    <2>2. i + 1 \in 1..n /\ f[i + 1] = s
      BY <1>1, <2>1
    <2> QED
      BY <2>2
  <1>5. ExistsBijection(1..n, S)
    BY <1>2, <1>3, <1>4 DEF ExistsBijection, Bijection, Injection, Surjection, IsInjective
  <1>6. IsFiniteSet(S)
    BY <1>1, <1>5, FS_NatBijection
  <1> HIDE DEF f
  <1> QED
    BY <1>1, <1>5, <1>6, FS_CountingElements

\* What the list is to a reader who only walks it.
LEMMA ChainIsDoublyLinked ==
    ASSUME NEW at, NEW n, NEW S, NEW next, NEW prev, NEW null,
           Chain(at, n, S, next, prev, null)
    PROVE  /\ DoublyLinked(S, at[0], next, prev, null)
           /\ EndOf(S, at[0], next, null) = IF n = 0 THEN null ELSE at[n - 1]
  <1> DEFINE w == Walk(at[0], next, null)
  <1>1. \A i \in Nat : w[i] = at[i]
    BY ChainWalk
  <1>2. n \in Nat /\ Cardinality(S) = n
    BY ChainLength
  <1>3. (S = {} <=> n = 0) /\ \A i \in 0..(n - 1) : i \in Nat /\ i < n /\ (i # 0 => i - 1 \in Nat)
    BY <1>2, ChainElements
  <1> HIDE DEF w
  <1>4. {w[i] : i \in 0..(n - 1)} = S
    BY <1>1, <1>3, ChainElements
  <1>5. w[n] = null
    BY <1>1, <1>2 DEF Chain
  <1>6. \A i \in 0..(n - 1) : prev[w[i]] = IF i = 0 THEN null ELSE w[i - 1]
    BY <1>1, <1>3 DEF Chain
  <1>7. n # 0 => w[n - 1] = at[n - 1]
    BY <1>1, <1>2
  <1> QED
    BY <1>2, <1>3, <1>4, <1>5, <1>6, <1>7 DEF DoublyLinked, EndOf, w


-----------------------------------------------------------------------------
(* Recursive functions *)

\* A function on A for every number.
Steps(step, A) == step \in [Nat -> [A -> A]]

\* The first n steps from x.
Iteration(f, n, x, step, A) ==
    f \in [0..n -> A] /\ f[0] = x /\ \A i \in 0..(n - 1) : f[i + 1] = step[i][f[i]]

\* A loop of n steps: the recursive function that describes it exists.
LEMMA Loop ==
    ASSUME NEW A, NEW x \in A, NEW step, Steps(step, A), NEW n \in Nat
    PROVE  \E f : Iteration(f, n, x, step, A)
  <1> DEFINE S == {i \in Nat : \E f : Iteration(f, i, x, step, A)}
  <1>1. 0 \in S
    <2>1. Iteration([i \in 0..0 |-> x], 0, x, step, A)
      BY DEF Iteration
    <2> QED
      BY <2>1
  <1>2. ASSUME NEW i \in Nat, i \in S PROVE i + 1 \in S
    <2>1. PICK f : Iteration(f, i, x, step, A)
      BY <1>2
    <2>2. f \in [0..i -> A] /\ f[0] = x /\ \A j \in 0..(i - 1) : f[j + 1] = step[j][f[j]]
      BY <2>1 DEF Iteration
    <2> DEFINE g == [j \in 0..(i + 1) |-> IF j = i + 1 THEN step[i][f[i]] ELSE f[j]]
    <2>3. step[i] \in [A -> A] /\ f[i] \in A
      BY <2>2 DEF Steps
    <2>4. step[i][f[i]] \in A
      BY <2>3
    <2>5. g \in [0..(i + 1) -> A]
      BY <2>2, <2>4
    <2>6. g[i + 1] = step[i][f[i]] /\ \A j \in 0..i : g[j] = f[j]
      OBVIOUS
    <2> HIDE DEF g
    <2>7. \A j \in 0..i : g[j + 1] = step[j][g[j]]
      BY <2>2, <2>6
    <2>8. Iteration(g, i + 1, x, step, A)
      BY <2>2, <2>5, <2>6, <2>7 DEF Iteration
    <2> QED
      BY <2>8
  <1> HIDE DEF S
  <1>3. n \in S
    BY <1>1, <1>2, Induction
  <1> QED
    BY <1>3 DEF S
=============================================================================
