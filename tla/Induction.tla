----------------------------- MODULE Induction -----------------------------
(***************************************************************************)
(* Induction over the natural numbers, and what it takes to reason about a *)
(* function that is defined by recursion over them, stated about sets and  *)
(* functions.                                                              *)
(***************************************************************************)
EXTENDS Integers, FiniteSets, FiniteSetTheorems, WellFoundedInduction, TLAPS

(* Every set of natural numbers that is not empty has a least one.         *)
LEMMA LeastIn ==
  ASSUME NEW S, S \subseteq Nat, S # {}
  PROVE  \E n \in S : \A m \in S : n <= m
<1>1. PICK n \in S : \A m \in S : <<m, n>> \notin OpToRel(<, Nat)
  BY NatLessThanWellFounded, WFMin
<1>2. \A m \in S : n <= m
  <2> SUFFICES ASSUME NEW m \in S PROVE n <= m
    OBVIOUS
  <2>1. m \in Nat /\ n \in Nat
    OBVIOUS
  <2>2. ~(m < n)
    BY <1>1, <2>1 DEF OpToRel
  <2> QED
    BY <2>1, <2>2
<1> QED
  BY <1>2

LEMMA InductionOver ==
  ASSUME NEW S, 0 \in S, \A n \in Nat : n \in S => n + 1 \in S
  PROVE  \A n \in Nat : n \in S
<1> SUFFICES ASSUME NEW k \in Nat, k \notin S
             PROVE  FALSE
  OBVIOUS
<1> DEFINE T == Nat \ S
<1>1. T \subseteq Nat /\ T # {}
  OBVIOUS
<1>2. PICK n \in T : \A m \in T : n <= m
  BY <1>1, LeastIn
<1>3. n # 0 /\ n - 1 \in Nat /\ ~(n <= n - 1)
  OBVIOUS
<1>4. n - 1 \in S /\ (n - 1) + 1 = n
  BY <1>2, <1>3
<1> QED
  BY <1>3, <1>4

LEMMA RecursionExists ==
  ASSUME NEW D, NEW base \in D, NEW step \in [D -> D]
  PROVE  \E f \in [Nat -> D] : f[0] = base /\ \A n \in Nat \ {0} : f[n] = step[f[n - 1]]
<1> DEFINE Up(n) == {g \in [0..n -> D] : g[0] = base /\ \A i \in 1..n : g[i] = step[g[i - 1]]}
<1> DEFINE S == {n \in Nat : Up(n) # {}}
<1>1. 0 \in S
  <2>1. [i \in 0..0 |-> base] \in Up(0)
    OBVIOUS
  <2> QED
    BY <2>1
<1>2. ASSUME NEW n \in Nat, n \in S PROVE n + 1 \in S
  <2>1. PICK g \in Up(n) : TRUE
    BY <1>2
  <2> DEFINE h == [i \in 0..(n + 1) |-> IF i = n + 1 THEN step[g[n]] ELSE g[i]]
  <2>2. h \in [0..(n + 1) -> D]
    OBVIOUS
  <2>3. h[0] = base
    OBVIOUS
  <2>4. \A i \in 1..(n + 1) : h[i] = step[h[i - 1]]
    OBVIOUS
  <2>5. h \in Up(n + 1)
    BY <2>2, <2>3, <2>4
  <2> QED
    BY <2>5
<1>3. \A n \in Nat : Up(n) # {}
  <2> HIDE DEF Up
  <2>1. \A n \in Nat : n \in S => n + 1 \in S
    BY <1>2
  <2> HIDE DEF S
  <2>2. \A n \in Nat : n \in S
    BY <1>1, <2>1, InductionOver
  <2> QED
    BY <2>2 DEF S
<1>4. ASSUME NEW n \in Nat, NEW m \in Nat, m <= n, NEW g \in Up(n), NEW h \in Up(m)
      PROVE  \A i \in 0..m : g[i] = h[i]
  <2> DEFINE E == {i \in Nat : i <= m => g[i] = h[i]}
  <2>1. 0 \in E
    OBVIOUS
  <2>2. ASSUME NEW i \in Nat, i \in E PROVE i + 1 \in E
    <3>1. CASE i + 1 <= m
      <4>1. g[i] = h[i] /\ i + 1 \in 1..m /\ i + 1 \in 1..n /\ (i + 1) - 1 = i
        BY <1>4, <2>2, <3>1
      <4> QED
        BY <4>1
    <3> QED
      BY <3>1
  <2>3. \A i \in Nat : i \in E
    <3> HIDE DEF E
    <3> QED
      BY <2>1, <2>2, InductionOver
  <2> QED
    BY <2>3
<1> DEFINE G(n) == CHOOSE g \in Up(n) : TRUE
<1>5. \A n \in Nat : G(n) \in Up(n)
  BY <1>3
<1> DEFINE f == [n \in Nat |-> G(n)[n]]
<1>6. f \in [Nat -> D]
  <2> SUFFICES ASSUME NEW n \in Nat PROVE G(n)[n] \in D
    OBVIOUS
  <2>1. G(n) \in [0..n -> D]
    BY <1>5
  <2> QED
    BY <2>1
<1>7. ASSUME NEW n \in Nat
      PROVE  f[n] = IF n = 0 THEN base ELSE step[f[n - 1]]
  <2>1. G(n) \in Up(n)
    BY <1>5
  <2>2. CASE n = 0
    BY <2>1, <2>2
  <2>3. CASE n # 0
    <3>1. n - 1 \in Nat /\ n - 1 <= n /\ n - 1 \in 0..(n - 1) /\ n \in 1..n
      BY <2>3
    <3>2. G(n - 1) \in Up(n - 1)
      BY <1>5, <3>1
    <3>3. G(n)[n - 1] = G(n - 1)[n - 1]
      <4> HIDE DEF Up, G
      <4> QED
        BY <1>4, <2>1, <3>1, <3>2
    <3>4. G(n)[n] = step[G(n)[n - 1]]
      BY <2>1, <3>1
    <3> HIDE DEF G, Up
    <3> QED
      BY <2>3, <3>1, <3>3, <3>4
  <2> QED
    BY <2>2, <2>3
<1> QED
  <2> HIDE DEF G, Up
  <2>1. f[0] = base /\ \A n \in Nat \ {0} : f[n] = step[f[n - 1]]
    BY <1>7
  <2> HIDE DEF f
  <2> QED
    BY <1>6, <2>1

(* A function defined by recursion exists, and is what its equations say.  *)
LEMMA RecursiveFunctionExists ==
  ASSUME NEW D, NEW base \in D, NEW step \in [D -> D]
  PROVE  \E f : f = [n \in Nat |-> IF n = 0 THEN base ELSE step[f[n - 1]]]
<1>1. PICK f \in [Nat -> D] : f[0] = base /\ \A n \in Nat \ {0} : f[n] = step[f[n - 1]]
  BY RecursionExists
<1> QED
  BY <1>1

LEMMA RecursiveFunction ==
  ASSUME NEW D, NEW base \in D, NEW step \in [D -> D], NEW f,
         f = [n \in Nat |-> IF n = 0 THEN base ELSE step[f[n - 1]]]
  PROVE  f \in [Nat -> D] /\ f[0] = base /\ \A n \in Nat : f[n + 1] = step[f[n]]
<1>1. f[0] = base
  OBVIOUS
<1>2. ASSUME NEW n \in Nat PROVE f[n + 1] = step[f[n]]
  <2>1. n + 1 \in Nat /\ n + 1 # 0 /\ (n + 1) - 1 = n
    OBVIOUS
  <2> QED
    BY <2>1
<1> DEFINE E == {n \in Nat : f[n] \in D}
<1>3. 0 \in E
  BY <1>1
<1>4. ASSUME NEW n \in Nat, n \in E PROVE n + 1 \in E
  BY <1>2, <1>4
<1>5. \A n \in Nat : n \in E
  <2> HIDE DEF E
  <2> QED
    BY <1>3, <1>4, InductionOver
<1>6. f \in [Nat -> D]
  BY <1>5
<1> QED
  BY <1>1, <1>2, <1>6

(* The same for a recursion that goes down by more than one step.          *)
GoesDown(D, base, step, down) ==
  /\ base \in D /\ step \in [D -> D]
  /\ down \in [Nat -> Nat] /\ \A n \in Nat \ {0} : down[n] < n

LEMMA RecursionDown ==
  ASSUME NEW D, NEW base, NEW step, NEW down, GoesDown(D, base, step, down)
  PROVE  \E f \in [Nat -> D] : f = [n \in Nat |-> IF n = 0 THEN base ELSE step[f[down[n]]]]
<1> DEFINE E == [Nat -> D]
<1> DEFINE b == [n \in Nat |-> base]
<1> DEFINE s == [g \in E |-> [n \in Nat |-> IF n = 0 THEN base ELSE step[g[down[n]]]]]
<1>1. b \in E
  BY DEF GoesDown
<1>2. s \in [E -> E]
  BY DEF GoesDown
<1>3. PICK A \in [Nat -> E] : A[0] = b /\ \A k \in Nat : A[k + 1] = s[A[k]]
  <2> HIDE DEF E, b, s
  <2>1. PICK A : A = [n \in Nat |-> IF n = 0 THEN b ELSE s[A[n - 1]]]
    BY <1>1, <1>2, RecursiveFunctionExists
  <2>2. A \in [Nat -> E] /\ A[0] = b /\ \A k \in Nat : A[k + 1] = s[A[k]]
    BY <1>1, <1>2, <2>1, RecursiveFunction
  <2> QED
    BY <2>2
<1> USE DEF GoesDown
<1>4. /\ \A k, n \in Nat : A[k][n] \in D
      /\ \A k \in Nat : A[k][0] = base
      /\ \A k \in Nat, n \in Nat \ {0} : A[k + 1][n] = step[A[k][down[n]]]
  <2>1. \A k \in Nat : A[k] \in E
    BY <1>3
  <2>2. \A k \in Nat : A[k + 1] = [n \in Nat |-> IF n = 0 THEN base ELSE step[A[k][down[n]]]]
    BY <1>3, <2>1
  <2>3. A[0][0] = base
    BY <1>3
  <2>4. \A k \in Nat : k = 0 \/ (k - 1 \in Nat /\ (k - 1) + 1 = k)
    OBVIOUS
  <2>5. ASSUME NEW k \in Nat PROVE A[k][0] = base
    <3>1. CASE k = 0
      BY <2>3, <3>1
    <3>2. CASE k # 0
      <4> DEFINE j == k - 1
      <4>1. j \in Nat /\ j + 1 = k
        BY <2>4, <3>2
      <4> HIDE DEF j
      <4>2. A[j + 1][0] = base
        BY <2>2, <4>1
      <4> QED
        BY <4>1, <4>2
    <3> QED
      BY <3>1, <3>2
  <2>6. ASSUME NEW k \in Nat, NEW n \in Nat \ {0}
        PROVE  A[k + 1][n] = step[A[k][down[n]]]
    <3>1. n \in Nat /\ n # 0
      OBVIOUS
    <3>2. A[k + 1] = [i \in Nat |-> IF i = 0 THEN base ELSE step[A[k][down[i]]]]
      BY <2>2
    <3>3. A[k + 1][n] = IF n = 0 THEN base ELSE step[A[k][down[n]]]
      BY <3>1, <3>2, Zenon
    <3> QED
      BY <3>1, <3>3
  <2> QED
    BY <2>1, <2>5, <2>6
<1> HIDE DEF b, s, E
(* After so many rounds a value does not change any more.                  *)
<1> DEFINE S == {k \in Nat : \A n \in 0..k : A[k + 1][n] = A[k][n]}
<1>5. \A k \in Nat : k \in S
  <2>1. 0 \in S
    BY <1>4
  <2>2. ASSUME NEW k \in Nat, k \in S PROVE k + 1 \in S
    <3> SUFFICES ASSUME NEW n \in 0..(k + 1) PROVE A[(k + 1) + 1][n] = A[k + 1][n]
      OBVIOUS
    <3>1. CASE n = 0
      BY <1>4, <3>1
    <3>2. CASE n # 0
      <4>1. down[n] \in 0..k
        <5>1. n \in Nat \ {0} /\ down[n] \in Nat /\ down[n] < n
          BY <3>2
        <5> DEFINE e == down[n]
        <5> HIDE DEF e
        <5>2. e \in 0..k
          BY <5>1 DEF e
        <5> QED
          BY <5>2 DEF e
      <4>2. A[k + 1][down[n]] = A[k][down[n]]
        BY <2>2, <4>1
      <4>3. n \in Nat \ {0} /\ k + 1 \in Nat
        BY <3>2
      <4>4. A[(k + 1) + 1][n] = step[A[k + 1][down[n]]] /\ A[k + 1][n] = step[A[k][down[n]]]
        BY <1>4, <4>3
      <4> QED
        BY <4>2, <4>4
    <3> QED
      BY <3>1, <3>2
  <2> HIDE DEF S
  <2> QED
    BY <2>1, <2>2, InductionOver
<1> DEFINE T == {k \in Nat : \A n \in 0..k : A[k][n] = A[n][n]}
<1>6. \A k \in Nat : k \in T
  <2>1. 0 \in T
    OBVIOUS
  <2>2. ASSUME NEW k \in Nat, k \in T PROVE k + 1 \in T
    <3> SUFFICES ASSUME NEW n \in 0..(k + 1) PROVE A[k + 1][n] = A[n][n]
      OBVIOUS
    <3>1. CASE n = k + 1
      BY <3>1
    <3>2. CASE n \in 0..k
      BY <1>5, <2>2, <3>2
    <3> QED
      BY <3>1, <3>2
  <2> HIDE DEF T
  <2> QED
    BY <2>1, <2>2, InductionOver
<1> DEFINE f == [n \in Nat |-> A[n][n]]
<1>7. f \in [Nat -> D]
  BY <1>4
<1>8. ASSUME NEW n \in Nat PROVE f[n] = IF n = 0 THEN base ELSE step[f[down[n]]]
  <2>1. CASE n = 0
    BY <1>4, <2>1
  <2>2. CASE n # 0
    <3>1. down[n] \in Nat /\ down[n] \in 0..(n - 1) /\ n - 1 \in Nat /\ (n - 1) + 1 = n
      <4>1. n \in Nat \ {0} /\ down[n] \in Nat /\ down[n] < n
        BY <2>2
      <4> DEFINE e == down[n]
      <4> HIDE DEF e
      <4>2. e \in Nat /\ e \in 0..(n - 1) /\ n - 1 \in Nat /\ (n - 1) + 1 = n
        BY <4>1 DEF e
      <4> QED
        BY <4>2 DEF e
    <3>2. A[n - 1][down[n]] = A[down[n]][down[n]]
      BY <1>6, <3>1
    <3>3. A[(n - 1) + 1][n] = step[A[n - 1][down[n]]]
      BY <1>4, <2>2, <3>1
    <3> QED
      BY <2>2, <3>1, <3>2, <3>3
  <2> QED
    BY <2>1, <2>2
<1>9. f = [n \in Nat |-> f[n]]
  OBVIOUS
<1> HIDE DEF f
<1> QED
  BY <1>7, <1>8, <1>9, Zenon

(* The same for a recursion of so many steps, which may differ.            *)
IsRun(f, m, D, base, step) ==
  f \in [0..m -> D] /\ f[0] = base /\ \A n \in 1..m : f[n] = step[<<n, f[n - 1]>>]

LEMMA RecursionTo ==
  ASSUME NEW m \in Nat, NEW D, NEW base \in D,
         NEW step, \A n \in 1..m, d \in D : step[<<n, d>>] \in D
  PROVE  \E f : IsRun(f, m, D, base, step)
<1> DEFINE E == Nat \X D
<1> DEFINE b == <<0, base>>
<1> DEFINE s == [p \in E |-> IF p[1] < m THEN <<p[1] + 1, step[<<p[1] + 1, p[2]>>]>> ELSE p]
<1>1. b \in E
  OBVIOUS
<1>2. s \in [E -> E]
  <2> SUFFICES ASSUME NEW p \in E PROVE s[p] \in E
    OBVIOUS
  <2>1. CASE p[1] < m
    <3>1. p[1] + 1 \in 1..m /\ p[2] \in D
      BY <2>1
    <3>2. step[<<p[1] + 1, p[2]>>] \in D
      BY <3>1
    <3> QED
      BY <2>1, <3>1, <3>2
  <2> QED
    BY <2>1
<1>3. PICK h \in [Nat -> E] : h[0] = b /\ \A n \in Nat : h[n + 1] = s[h[n]]
  <2> HIDE DEF E, b, s
  <2>1. PICK h : h = [n \in Nat |-> IF n = 0 THEN b ELSE s[h[n - 1]]]
    BY <1>1, <1>2, RecursiveFunctionExists
  <2>2. h \in [Nat -> E] /\ h[0] = b /\ \A n \in Nat : h[n + 1] = s[h[n]]
    BY <1>1, <1>2, <2>1, RecursiveFunction
  <2> QED
    BY <2>2
<1> DEFINE S == {n \in Nat : n <= m => h[n][1] = n}
<1>4. 0 \in S
  BY <1>3
<1>5. ASSUME NEW n \in Nat, n \in S PROVE n + 1 \in S
  <2>1. CASE n + 1 <= m
    <3>1. h[n] \in E /\ h[n][1] = n /\ n < m
      BY <1>3, <1>5, <2>1
    <3>2. h[n + 1] = s[h[n]]
      BY <1>3
    <3> QED
      BY <3>1, <3>2
  <2> QED
    BY <2>1
<1>6. \A n \in 0..m : h[n] \in E /\ h[n][1] = n
  <2>1. \A n \in Nat : n \in S
    <3> HIDE DEF S
    <3> QED
      BY <1>4, <1>5, InductionOver
  <2> QED
    BY <1>3, <2>1
<1> DEFINE f == [n \in 0..m |-> h[n][2]]
<1>7. f \in [0..m -> D] /\ f[0] = base
  BY <1>3, <1>6
<1>8. ASSUME NEW n \in 1..m PROVE f[n] = step[<<n, f[n - 1]>>]
  <2>1. n - 1 \in 0..m /\ n - 1 < m /\ n \in Nat \ {0} /\ (n - 1) + 1 = n /\ n \in 0..m
    OBVIOUS
  <2>2. h[n] = s[h[n - 1]] /\ h[n - 1] \in E /\ h[n - 1][1] = n - 1
    <3> HIDE DEF s
    <3>1. n - 1 \in Nat /\ h[(n - 1) + 1] = s[h[n - 1]]
      BY <1>3, <2>1
    <3> QED
      BY <1>6, <2>1, <3>1
  <2>3. h[n] = <<n, step[<<n, h[n - 1][2]>>]>>
    BY <2>1, <2>2
  <2> QED
    BY <2>1, <2>3
<1> HIDE DEF f
<1> QED
  BY <1>7, <1>8 DEF IsRun

(* What only grows, within a finite set, comes to rest after as many steps *)
(* as the set has elements.                                                *)
LEMMA ComesToRest ==
  ASSUME NEW U, IsFiniteSet(U),
         NEW step \in [SUBSET U -> SUBSET U], \A S \in SUBSET U : S \subseteq step[S],
         NEW f \in [Nat -> SUBSET U], \A n \in Nat : f[n + 1] = step[f[n]]
  PROVE  step[f[Cardinality(U)]] = f[Cardinality(U)]
<1> DEFINE P == {n \in Nat : step[f[n]] = f[n] \/ Cardinality(f[n]) >= n}
<1>1. \A n \in Nat : IsFiniteSet(f[n]) /\ Cardinality(f[n]) \in Nat
  BY FS_Subset, FS_CardinalityType
<1>2. 0 \in P
  BY <1>1
<1>3. ASSUME NEW n \in Nat, n \in P PROVE n + 1 \in P
  <2>1. f[n + 1] = step[f[n]] /\ f[n] \in SUBSET U /\ f[n] \subseteq f[n + 1] /\ n + 1 \in Nat
    OBVIOUS
  <2>2. CASE step[f[n]] = f[n]
    BY <2>1, <2>2
  <2>3. CASE step[f[n]] # f[n]
    <3>1. Cardinality(f[n]) < Cardinality(f[n + 1])
      <4>1. IsFiniteSet(f[n + 1]) /\ Cardinality(f[n]) <= Cardinality(f[n + 1])
            /\ (Cardinality(f[n + 1]) = Cardinality(f[n]) => f[n + 1] = f[n])
        BY <1>1, <2>1, FS_Subset
      <4>2. Cardinality(f[n]) \in Nat /\ Cardinality(f[n + 1]) \in Nat
        BY <1>1, <2>1
      <4>3. f[n] # f[n + 1]
        BY <2>1, <2>3
      <4> QED
        BY <4>1, <4>2, <4>3
    <3>2. Cardinality(f[n]) >= n
      BY <1>3, <2>3
    <3> QED
      BY <1>1, <2>1, <3>1, <3>2
  <2> QED
    BY <2>2, <2>3
<1> DEFINE c == Cardinality(U)
<1>4. c \in Nat /\ c \in P
  <2>1. c \in Nat
    BY FS_CardinalityType
  <2> HIDE DEF P
  <2>2. \A n \in Nat : n \in P
    BY <1>2, <1>3, InductionOver
  <2> QED
    BY <2>1, <2>2
<1>5. CASE Cardinality(f[c]) >= c
  <2>1. f[c] \subseteq U /\ Cardinality(f[c]) <= Cardinality(U)
        /\ (Cardinality(U) = Cardinality(f[c]) => U = f[c])
    BY <1>4, FS_Subset
  <2>2. f[c] = U
    <3>1. Cardinality(f[c]) \in Nat /\ Cardinality(U) \in Nat
      BY <1>1, <1>4
    <3> QED
      BY <1>5, <2>1, <3>1
  <2>3. f[c] \subseteq step[f[c]] /\ step[f[c]] \subseteq U
    BY <1>4
  <2> QED
    BY <2>2, <2>3
<1> QED
  BY <1>4, <1>5

(* A function that takes such steps until nothing changes exists, too, and *)
(* what it gives is within the set and at rest.                            *)
IsRest(f, U, step) == f = [S \in SUBSET U |-> IF step[S] = S THEN S ELSE f[step[S]]]

LEMMA RestExists ==
  ASSUME NEW U, IsFiniteSet(U),
         NEW step \in [SUBSET U -> SUBSET U], \A S \in SUBSET U : S \subseteq step[S]
  PROVE  /\ \E f : IsRest(f, U, step)
         /\ \A f : IsRest(f, U, step) =>
              \A S \in SUBSET U : /\ f[S] \in SUBSET U /\ S \subseteq f[S]
                                  /\ step[f[S]] = f[S]
<1> DEFINE c == Cardinality(U)
<1> DEFINE Rec(h, S) == h = [n \in Nat |-> IF n = 0 THEN S ELSE step[h[n - 1]]]
<1> DEFINE H(S) == CHOOSE h : Rec(h, S)
<1>1. ASSUME NEW S \in SUBSET U
      PROVE  H(S) \in [Nat -> SUBSET U] /\ H(S)[0] = S /\ \A n \in Nat : H(S)[n + 1] = step[H(S)[n]]
  <2>1. \E h : Rec(h, S)
    <3> DEFINE D == SUBSET U
    <3>1. S \in D /\ step \in [D -> D]
      OBVIOUS
    <3> HIDE DEF D
    <3> QED
      BY <3>1, RecursiveFunctionExists
  <2>2. Rec(H(S), S)
    <3> HIDE DEF Rec
    <3> QED
      BY <2>1
  <2> DEFINE h == H(S)
  <2> HIDE DEF H
  <2>3. h = [n \in Nat |-> IF n = 0 THEN S ELSE step[h[n - 1]]]
    BY <2>2
  <2> HIDE DEF h
  <2> DEFINE D == SUBSET U
  <2>4. S \in D /\ step \in [D -> D]
    OBVIOUS
  <2> HIDE DEF D
  <2>5. h \in [Nat -> D] /\ h[0] = S /\ \A n \in Nat : h[n + 1] = step[h[n]]
    BY <2>3, <2>4, RecursiveFunction
  <2> QED
    BY <2>5 DEF D, h
<1> HIDE DEF H
<1>2. c \in Nat
  BY FS_CardinalityType
<1>3. ASSUME NEW S \in SUBSET U PROVE step[H(S)[c]] = H(S)[c]
  <2> DEFINE h == H(S)
  <2>1. h \in [Nat -> SUBSET U] /\ \A n \in Nat : h[n + 1] = step[h[n]]
    BY <1>1
  <2> HIDE DEF h
  <2>2. step[h[Cardinality(U)]] = h[Cardinality(U)]
    BY <2>1, ComesToRest
  <2> QED
    BY <2>2 DEF h
<1>4. ASSUME NEW S \in SUBSET U, step[S] = S PROVE H(S)[c] = S
  <2> DEFINE E == {n \in Nat : H(S)[n] = S}
  <2>1. 0 \in E /\ \A n \in Nat : n \in E => n + 1 \in E
    BY <1>1, <1>4
  <2>2. \A n \in Nat : n \in E
    <3> HIDE DEF E
    <3> QED
      BY <2>1, InductionOver
  <2> QED
    BY <1>2, <2>2
<1>5. ASSUME NEW S \in SUBSET U PROVE H(step[S])[c] = H(S)[c]
  <2> DEFINE E == {n \in Nat : H(step[S])[n] = H(S)[n + 1]}
  <2>1. 0 \in E
    <3>1. H(S)[0 + 1] = step[H(S)[0]] /\ H(S)[0] = S /\ H(step[S])[0] = step[S]
      BY <1>1
    <3> QED
      BY <3>1
  <2>2. ASSUME NEW n \in Nat, n \in E PROVE n + 1 \in E
    <3>1. H(step[S])[n + 1] = step[H(step[S])[n]] /\ H(S)[(n + 1) + 1] = step[H(S)[n + 1]]
      BY <1>1
    <3> QED
      BY <2>2, <3>1
  <2>3. \A n \in Nat : n \in E
    <3> HIDE DEF E
    <3> QED
      BY <2>1, <2>2, InductionOver
  <2>4. H(S)[c + 1] = step[H(S)[c]]
    BY <1>1, <1>2
  <2> QED
    BY <1>2, <1>3, <2>3, <2>4
<1>6. \E f : IsRest(f, U, step)
  <2> DEFINE f == [S \in SUBSET U |-> H(S)[c]]
  <2>1. ASSUME NEW S \in SUBSET U PROVE f[S] = IF step[S] = S THEN S ELSE f[step[S]]
    BY <1>4, <1>5
  <2>2. f = [S \in SUBSET U |-> IF step[S] = S THEN S ELSE f[step[S]]]
    <3> HIDE DEF f
    <3>1. f = [S \in SUBSET U |-> f[S]]
      BY DEF f
    <3> QED
      BY <2>1, <3>1
  <2> HIDE DEF f
  <2> QED
    BY <2>2 DEF IsRest
<1>7. ASSUME NEW f, IsRest(f, U, step), NEW S \in SUBSET U
      PROVE  f[S] \in SUBSET U /\ S \subseteq f[S] /\ step[f[S]] = f[S]
  <2>1. \A T \in SUBSET U : f[T] = IF step[T] = T THEN T ELSE f[step[T]]
    BY <1>7 DEF IsRest
  <2>2. \A T \in SUBSET U : f[step[T]] = f[T]
    BY <2>1
  <2> DEFINE E == {n \in Nat : f[H(S)[n]] = f[S] /\ S \subseteq H(S)[n]}
  <2>3. 0 \in E
    BY <1>1
  <2>4. ASSUME NEW n \in Nat, n \in E PROVE n + 1 \in E
    <3>1. H(S)[n + 1] = step[H(S)[n]] /\ H(S)[n] \in SUBSET U
      BY <1>1
    <3> QED
      BY <2>2, <2>4, <3>1
  <2>5. \A n \in Nat : n \in E
    <3> HIDE DEF E
    <3> QED
      BY <2>3, <2>4, InductionOver
  <2>6. f[H(S)[c]] = f[S] /\ S \subseteq H(S)[c] /\ H(S)[c] \in SUBSET U
    BY <1>1, <1>2, <2>5
  <2>7. f[H(S)[c]] = H(S)[c]
    BY <1>3, <2>1, <2>6
  <2> QED
    BY <1>3, <2>6, <2>7
<1> QED
  BY <1>6, <1>7
=============================================================================
