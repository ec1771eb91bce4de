----------------------------- MODULE DataInduction -----------------------------
(***************************************************************************)
(* Induction over the data of the models. An induction theorem that takes  *)
(* a predicate cannot be instantiated by the provers, one that takes a set *)
(* can: a property of n is then the set of the n that have it. It follows  *)
(* from the well-foundedness of < on the natural numbers.                  *)
(***************************************************************************)
EXTENDS Integers, WellFoundedInduction, TLAPS

LEMMA SmallerIsRelated ==
  \A m, n \in Nat : m < n => <<m, n>> \in OpToRel(<, Nat)
BY SMT DEF OpToRel

\* A set of natural numbers that is not empty has a least element.
LEMMA LeastNatural ==
  ASSUME NEW S \in SUBSET Nat, S # {}
  PROVE  \E n \in S : \A m \in S : n <= m
<1>1. PICK n \in S : \A m \in S : <<m, n>> \notin OpToRel(<, Nat)
  BY WFMin, NatLessThanWellFounded, Zenon
<1>2. \A m \in S : ~(m < n)
  BY <1>1, SmallerIsRelated
<1> QED
  BY <1>2

\* A set that holds 0 and the successor of all it holds, holds every number
\* up to n.
LEMMA InductionUpTo ==
  ASSUME NEW n \in Nat, NEW S, 0 \in S, \A k \in 0 .. n - 1 : k \in S => k + 1 \in S
  PROVE  0 .. n \subseteq S
<1>1. SUFFICES ASSUME (0 .. n) \ S # {} PROVE FALSE
  OBVIOUS
<1> DEFINE Left == (0 .. n) \ S
<1>2. Left \in SUBSET Nat /\ Left # {}
  BY <1>1
<1> HIDE DEF Left
<1>3. PICK k \in Left : \A m \in Left : k <= m
  BY <1>2, LeastNatural
<1>4. k \in 0 .. n /\ k # 0 /\ k \notin S
  BY DEF Left
<1>5. k - 1 \in S
  BY <1>3, <1>4 DEF Left
<1> QED
  BY <1>4, <1>5

\* t[k] is what a loop carries along after k turns.
Carries(t, n, first, step) ==
  t[0] = first /\ \A k \in 1 .. n : t[k] = step[k][t[k - 1]]

\* What a loop carries along exists, for every number of turns: the recursive
\* function that says how has a value.
LEMMA Loop ==
  ASSUME NEW n \in Nat, NEW S, NEW first \in S, NEW step \in [1 .. n -> [S -> S]]
  PROVE  \E t \in [0 .. n -> S] : Carries(t, n, first, step)
<1> DEFINE Run(t, m) == Carries(t, m, first, step)
           R == {m \in 0 .. n : \E t \in [0 .. m -> S] : Run(t, m)}
<1>1. 0 \in R
  <2> DEFINE t == [k \in 0 .. 0 |-> first]
  <2>1. t \in [0 .. 0 -> S] /\ Run(t, 0)
    BY DEF Carries
  <2> HIDE DEF t, Run
  <2> QED
    BY <2>1
<1>2. ASSUME NEW m \in 0 .. n - 1, m \in R PROVE m + 1 \in R
  <2>1. PICK t \in [0 .. m -> S] : Run(t, m)
    BY <1>2
  <2>2. t[m] \in S /\ m + 1 \in 1 .. n
    OBVIOUS
  <2> DEFINE new == step[m + 1][t[m]]
  <2>3. new \in S
    BY <2>2
  <2> HIDE DEF new
  <2> DEFINE u == [k \in 0 .. m + 1 |-> IF k <= m THEN t[k] ELSE new]
  <2>4. u \in [0 .. m + 1 -> S]
    BY <2>3
  <2>5. u[m + 1] = new /\ u[0] = t[0]
        /\ \A k \in 1 .. m : u[k] = t[k] /\ u[k - 1] = t[k - 1]
    OBVIOUS
  <2>6. Run(u, m + 1)
    <3>1. u[m + 1] = step[m + 1][u[m]]
      BY DEF new
    <3>2. \A k \in 1 .. m + 1 : k \in 1 .. m \/ (k = m + 1 /\ k - 1 = m)
      OBVIOUS
    <3> HIDE DEF u
    <3> QED
      BY <2>1, <2>5, <3>1, <3>2 DEF Carries
  <2> HIDE DEF u, Run
  <2>7. \E v \in [0 .. m + 1 -> S] : Run(v, m + 1)
    BY <2>4, <2>6
  <2>8. m + 1 \in 0 .. n
    OBVIOUS
  <2> QED
    BY <2>7, <2>8
<1> HIDE DEF R
<1>3. 0 .. n \subseteq R
  BY <1>1, <1>2, InductionUpTo
<1>4. n \in R
  BY <1>3
<1> QED
  BY <1>4 DEF R

-----------------------------------------------------------------------------

\* An order of n things, and one in which f does not decrease.
Orders(n) ==
  {p \in [1 .. n -> 1 .. n] : /\ \A i, j \in 1 .. n : p[i] = p[j] => i = j
                            /\ \A v \in 1 .. n : \E i \in 1 .. n : p[i] = v}

Ascends(f, p, n) == \A i, j \in 1 .. n : i < j => f[p[i]] <= f[p[j]]

\* The order p of the first n, with n + 1 in place k.
Insert(p, n, k) ==
  [i \in 1 .. n + 1 |-> IF i < k THEN p[i] ELSE IF i = k THEN n + 1 ELSE p[i - 1]]

LEMMA InsertOrders ==
  ASSUME NEW n \in Nat, NEW p \in Orders(n), NEW k \in 1 .. n + 1
  PROVE  Insert(p, n, k) \in Orders(n + 1)
<1> DEFINE q == Insert(p, n, k)
<1>1. \A i \in 1 .. n : p[i] \in 1 .. n
  BY DEF Orders
<1>2. \A i, j \in 1 .. n : p[i] = p[j] => i = j
  BY DEF Orders
<1>3. ASSUME NEW i \in 1 .. n + 1
      PROVE  \/ i < k /\ i \in 1 .. n /\ q[i] = p[i] /\ q[i] \in 1 .. n
             \/ i = k /\ q[i] = n + 1
             \/ i > k /\ i - 1 \in 1 .. n /\ q[i] = p[i - 1] /\ q[i] \in 1 .. n
  BY <1>1 DEF Insert
<1>4. q \in [1 .. n + 1 -> 1 .. n + 1]
  <2>1. q = [i \in 1 .. n + 1 |-> q[i]]
    BY DEF Insert
  <2> HIDE DEF q
  <2>2. \A i \in 1 .. n + 1 : q[i] \in 1 .. n + 1
    BY <1>3
  <2> QED
    BY <2>1, <2>2
<1> HIDE DEF q
<1>5. ASSUME NEW i \in 1 .. n + 1, NEW j \in 1 .. n + 1, q[i] = q[j] PROVE i = j
  <2>1. CASE i = k
    BY <1>3, <1>5, <2>1
  <2>2. CASE j = k
    BY <1>3, <1>5, <2>2
  <2>3. CASE i < k /\ j < k
    BY <1>2, <1>3, <1>5, <2>3
  <2>4. CASE i > k /\ j > k
    BY <1>2, <1>3, <1>5, <2>4
  <2>5. CASE i < k /\ j > k
    <3>1. i = j - 1
      BY <1>2, <1>3, <1>5, <2>5
    <3> QED
      BY <2>5, <3>1
  <2>6. CASE i > k /\ j < k
    <3>1. i - 1 = j
      BY <1>2, <1>3, <1>5, <2>6
    <3> QED
      BY <2>6, <3>1
  <2> QED
    BY <2>1, <2>2, <2>3, <2>4, <2>5, <2>6
<1>6. ASSUME NEW v \in 1 .. n + 1 PROVE \E i \in 1 .. n + 1 : q[i] = v
  <2>1. CASE v = n + 1
    <3>1. ~(k < k) /\ ~(k > k)
      OBVIOUS
    <3>2. q[k] = n + 1
      BY <1>3, <3>1
    <3> QED
      BY <2>1, <3>2
  <2>2. CASE v \in 1 .. n
    <3>1. PICK i \in 1 .. n : p[i] = v
      BY <2>2 DEF Orders
    <3>2. CASE i < k
      BY <1>3, <3>1, <3>2
    <3>3. CASE i >= k
      <4>1. i + 1 \in 1 .. n + 1 /\ i + 1 > k /\ (i + 1) - 1 = i
        BY <3>3
      <4>2. q[i + 1] = p[i]
        BY <1>3, <4>1
      <4> QED
        BY <3>1, <4>1, <4>2
    <3> QED
      BY <3>2, <3>3
  <2> QED
    BY <2>1, <2>2
<1> QED
  BY <1>4, <1>5, <1>6 DEF Orders, q

LEMMA InsertAscends ==
  ASSUME NEW n \in Nat, NEW p \in Orders(n), NEW k \in 1 .. n + 1,
         NEW f \in [1 .. n + 1 -> Int], Ascends(f, p, n),
         \A i \in 1 .. n : i < k => f[p[i]] <= f[n + 1],
         \A i \in 1 .. n : i >= k => f[n + 1] <= f[p[i]]
  PROVE  Ascends(f, Insert(p, n, k), n + 1)
<1> DEFINE q == Insert(p, n, k)
<1>1. \A i \in 1 .. n : p[i] \in 1 .. n /\ f[p[i]] \in Int
  BY DEF Orders
<1>2. ASSUME NEW i \in 1 .. n + 1
      PROVE  \/ i < k /\ i \in 1 .. n /\ f[q[i]] = f[p[i]]
             \/ i = k /\ f[q[i]] = f[n + 1]
             \/ i > k /\ i - 1 \in 1 .. n /\ f[q[i]] = f[p[i - 1]]
  BY DEF Insert
<1> HIDE DEF q
<1>3. ASSUME NEW i \in 1 .. n + 1, NEW j \in 1 .. n + 1, i < j
      PROVE  f[q[i]] <= f[q[j]]
  <2>1. \A a, b \in 1 .. n : a < b => f[p[a]] <= f[p[b]]
    BY DEF Ascends
  <2>2. CASE i < k /\ j < k
    BY <1>2, <1>3, <2>1, <2>2
  <2>3. CASE i < k /\ j = k
    BY <1>2, <2>3
  <2>4. CASE i < k /\ j > k
    <3>1. i \in 1 .. n /\ j - 1 \in 1 .. n /\ (i = j - 1 \/ i < j - 1)
      BY <2>4
    <3>2. f[q[i]] = f[p[i]] /\ f[q[j]] = f[p[j - 1]]
      BY <1>2, <2>4
    <3>3. CASE i = j - 1
      BY <1>1, <3>1, <3>2, <3>3
    <3>4. CASE i < j - 1
      BY <2>1, <3>1, <3>2, <3>4
    <3> QED
      BY <3>1, <3>3, <3>4
  <2>5. CASE i = k
    <3>1. j > k /\ j - 1 \in 1 .. n /\ j - 1 >= k
      BY <1>3, <2>5
    <3>2. f[q[i]] = f[n + 1] /\ f[q[j]] = f[p[j - 1]]
      BY <1>2, <2>5, <3>1
    <3> QED
      BY <3>1, <3>2
  <2>6. CASE i > k
    <3>1. i - 1 \in 1 .. n /\ j - 1 \in 1 .. n /\ i - 1 < j - 1 /\ j > k
      BY <1>3, <2>6
    <3>2. f[q[i]] = f[p[i - 1]] /\ f[q[j]] = f[p[j - 1]]
      BY <1>2, <2>6, <3>1
    <3> QED
      BY <2>1, <3>1, <3>2
  <2> QED
    BY <2>2, <2>3, <2>4, <2>5, <2>6
<1> QED
  BY <1>3 DEF Ascends, q

\* Numbers can be sorted, however many they are, by insertion.
LEMMA SortingOrder ==
  ASSUME NEW n \in Nat, NEW f \in [1 .. n -> Int]
  PROVE  \E p \in Orders(n) : Ascends(f, p, n)
<1> DEFINE Sortable(m) == \E p \in Orders(m) : Ascends(f, p, m)
           S == {m \in 0 .. n : Sortable(m)}
<1>1. 0 \in S
  <2>1. 1 .. 0 = {}
    OBVIOUS
  <2> DEFINE p == [i \in 1 .. 0 |-> i]
  <2>2. p \in Orders(0) /\ Ascends(f, p, 0)
    BY <2>1 DEF Orders, Ascends
  <2> HIDE DEF p
  <2> QED
    BY <2>2
<1>2. ASSUME NEW m \in 0 .. n - 1, m \in S PROVE m + 1 \in S
  <2>1. PICK p \in Orders(m) : Ascends(f, p, m)
    BY <1>2
  <2>2. \A i \in 1 .. m : p[i] \in 1 .. m
    BY DEF Orders
  <2>3. /\ m \in Nat /\ m + 1 \in 0 .. n
        /\ f[m + 1] \in Int /\ \A i \in 1 .. m : f[p[i]] \in Int
    BY <2>2
  <2> DEFINE above == {i \in 1 .. m : f[m + 1] < f[p[i]]}
  <2>4. PICK k \in 1 .. m + 1 : /\ \A i \in 1 .. m : i < k => f[p[i]] <= f[m + 1]
                                /\ \A i \in 1 .. m : i >= k => f[m + 1] <= f[p[i]]
    <3>1. CASE above = {}
      <4>1. m + 1 \in 1 .. m + 1
        BY <2>3
      <4>2. ASSUME NEW i \in 1 .. m PROVE f[p[i]] <= f[m + 1]
        <5>1. ~(f[m + 1] < f[p[i]])
          BY <3>1
        <5>2. f[m + 1] \in Int /\ f[p[i]] \in Int
          BY <2>3
        <5> QED
          BY <5>1, <5>2
      <4>3. \A i \in 1 .. m : ~(i >= m + 1)
        BY <2>3
      <4> QED
        BY <4>1, <4>2, <4>3
    <3>2. CASE above # {}
      <4>1. PICK k \in above : \A i \in above : k <= i
        <5>1. above \in SUBSET Nat
          OBVIOUS
        <5> HIDE DEF above
        <5> QED
          BY <3>2, <5>1, LeastNatural
      <4>2. k \in 1 .. m + 1 /\ k \in 1 .. m /\ f[m + 1] < f[p[k]]
        BY <4>1
      <4>3. ASSUME NEW i \in 1 .. m, i < k PROVE f[p[i]] <= f[m + 1]
        BY <2>3, <4>1, <4>3
      <4>4. ASSUME NEW i \in 1 .. m, i >= k PROVE f[m + 1] <= f[p[i]]
        <5>1. f[p[k]] <= f[p[i]]
          <6>1. i = k \/ k < i
            BY <4>2, <4>4
          <6> QED
            BY <2>1, <2>3, <4>2, <6>1 DEF Ascends
        <5> QED
          BY <2>3, <4>2, <5>1
      <4> QED
        BY <4>2, <4>3, <4>4
    <3> QED
      BY <3>1, <3>2
  <2>5. Insert(p, m, k) \in Orders(m + 1)
    BY <2>3, InsertOrders
  <2>6. Ascends(f, Insert(p, m, k), m + 1)
    <3> DEFINE g == [i \in 1 .. m + 1 |-> f[i]]
    <3>1. g \in [1 .. m + 1 -> Int] /\ \A i \in 1 .. m + 1 : g[i] = f[i]
      BY <2>3
    <3>2. \A i \in 1 .. m : g[p[i]] = f[p[i]] /\ g[m + 1] = f[m + 1]
      BY <2>2, <2>3
    <3> HIDE DEF g
    <3>3. Ascends(g, p, m)
      BY <2>1, <3>2 DEF Ascends
    <3>4. Ascends(g, Insert(p, m, k), m + 1)
      BY <2>3, <2>4, <3>1, <3>2, <3>3, InsertAscends
    <3>5. \A i \in 1 .. m + 1 : Insert(p, m, k)[i] \in 1 .. m + 1
      BY <2>5 DEF Orders
    <3> QED
      BY <3>1, <3>4, <3>5 DEF Ascends
  <2> HIDE DEF Sortable
  <2>7. Sortable(m + 1)
    BY <2>5, <2>6 DEF Sortable
  <2> QED
    BY <2>3, <2>7
<1> HIDE DEF S, Sortable
<1>3. 0 .. n \subseteq S
  BY <1>1, <1>2, InductionUpTo
<1>4. n \in S
  BY <1>3
<1> QED
  BY <1>4 DEF S, Sortable
=============================================================================
