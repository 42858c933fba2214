---------------------------- MODULE MpCall_proofs ----------------------------
(***************************************************************************)
(* What the operators of MpCall compute, for every integer: powers, digits *)
(* and bits, divisors.                                                     *)
(***************************************************************************)
EXTENDS MpCall, TLAPS, FiniteSetTheorems

(* Induction over a set of natural numbers: the least that is not in it.   *)
LEMMA LeastElement ==
  ASSUME NEW T, T \subseteq Nat, T # {}
  PROVE  \E x \in T : \A y \in T : x <= y
<1>. DEFINE R == {ss \in Nat \X Nat : ss[1] < ss[2]}
<1>1. IsWellFoundedOn(R, Nat)
  BY NatLessThanWellFounded DEF OpToRel
<1>2. \E x \in T : \A y \in T : ~ (<< y, x >> \in R)
  <2>. HIDE DEF R
  <2>. QED
    BY <1>1, WFMin
<1>3. \A x, y \in T : ~ (<< y, x >> \in R) => x <= y
  <2>1. \A x, y \in Nat : ~ (y < x) => x <= y
    OBVIOUS
  <2>2. \A x, y \in T : << y, x >> \in R <=> y < x
    OBVIOUS
  <2>. QED
    BY <2>1, <2>2
<1>. QED
  BY <1>2, <1>3

LEMMA Below ==
  ASSUME NEW S, \A n \in Nat : (\A m \in 0 .. n - 1 : m \in S) => n \in S
  PROVE  \A n \in Nat : n \in S
<1>. DEFINE T == Nat \ S
<1>1. CASE T # {}
  <2>1. PICK n \in T : \A m \in T : n <= m
    <3>. HIDE DEF T
    <3>1. T \subseteq Nat
      BY DEF T
    <3>. QED
      BY <1>1, <3>1, LeastElement
  <2>2. \A m \in 0 .. n - 1 : m \in S
    BY <2>1
  <2>. QED
    BY <2>1, <2>2
<1>. QED
  BY <1>1

LEMMA Successor ==
  ASSUME NEW S, 0 \in S, \A n \in Nat : n \in S => n + 1 \in S
  PROVE  \A n \in Nat : n \in S
<1>1. ASSUME NEW n \in Nat, \A m \in 0 .. n - 1 : m \in S PROVE n \in S
  <2>1. CASE n # 0
    <3>1. n - 1 \in 0 .. n - 1 /\ n - 1 \in Nat /\ (n - 1) + 1 = n
      BY <2>1
    <3>. QED
      BY <1>1, <3>1
  <2>. QED
    BY <2>1
<1>. QED
  BY <1>1, Below

(* A recursive definition over natural numbers, each value given by that   *)
(* at a smaller one, has a solution.                                       *)
Solves(f, D, Z, first, prev, next, n) ==
  \A m \in D : m <= n => f[m] = IF m \in Z THEN first[m] ELSE next[<< m, f[prev[m]] >>]

LEMMA SolutionsAgree ==
  ASSUME NEW D \in SUBSET Nat, NEW V, NEW Z, NEW first, NEW prev \in [D -> D], NEW next,
         \A m \in D \ Z : prev[m] < m,
         NEW f, NEW g, NEW i \in Nat, NEW j \in Nat,
         Solves(f, D, Z, first, prev, next, i), Solves(g, D, Z, first, prev, next, j)
  PROVE  \A m \in D : m <= i /\ m <= j => f[m] = g[m]
<1>. DEFINE S == {n \in Nat : n \in D /\ n <= i /\ n <= j => f[n] = g[n]}
<1>1. ASSUME NEW n \in Nat, \A m \in 0 .. n - 1 : m \in S PROVE n \in S
  <2>. SUFFICES ASSUME n \in D, n <= i, n <= j PROVE f[n] = g[n]
    OBVIOUS
  <2>1. CASE n \in Z
    BY <2>1 DEF Solves
  <2>2. CASE n \notin Z
    <3>1. prev[n] \in D /\ prev[n] \in Nat /\ prev[n] < n
      BY <2>2
    <3>2. prev[n] \in 0 .. n - 1 /\ prev[n] <= i /\ prev[n] <= j
      BY <3>1
    <3>3. f[prev[n]] = g[prev[n]]
      BY <1>1, <3>1, <3>2
    <3>. QED
      BY <2>2, <3>3 DEF Solves
  <2>. QED
    BY <2>1, <2>2
<1>2. \A n \in Nat : n \in S
  <2>. HIDE DEF S
  <2>. QED
    BY <1>1, Below
<1>. QED
  BY <1>2

Descends(D, Z, prev) == \A m \in D \ Z : prev[m] < m
SolvesAll(f, D, Z, first, prev, next) ==
  \A m \in D : f[m] = IF m \in Z THEN first[m] ELSE next[<< m, f[prev[m]] >>]

LEMMA RecursionSolved ==
  ASSUME NEW D \in SUBSET Nat, NEW V, NEW Z, NEW first \in [D -> V], NEW prev \in [D -> D],
         NEW next \in [D \X V -> V], Descends(D, Z, prev)
  PROVE  \E f \in [D -> V] : SolvesAll(f, D, Z, first, prev, next)
<1>. USE DEF Descends
<1>. DEFINE Sol(f, n) == Solves(f, D, Z, first, prev, next, n)
            S == {n \in Nat : \E f \in [D -> V] : Sol(f, n)}
<1>1. 0 \in S
  <2>1. \A m \in D : m <= 0 => m \in Z
    <3>1. \A m \in D : m \in Nat /\ prev[m] \in Nat
      OBVIOUS
    <3>. QED
      BY <3>1
  <2>2. Sol(first, 0)
    BY <2>1 DEF Solves
  <2>. QED
    BY <2>2
<1>2. ASSUME NEW n \in Nat, n \in S PROVE n + 1 \in S
  <2>1. PICK g \in [D -> V] : Sol(g, n)
    BY <1>2
  <2>. DEFINE h == [m \in D |-> IF m \in Z THEN first[m] ELSE next[<< m, g[prev[m]] >>]]
  <2>2. h \in [D -> V]
    OBVIOUS
  <2>3. ASSUME NEW m \in D, m <= n + 1, m \notin Z PROVE h[prev[m]] = g[prev[m]]
    <3>1. prev[m] \in D /\ prev[m] <= n
      <4>1. m \in Nat /\ prev[m] \in Nat /\ prev[m] < m
        BY <2>3
      <4>. QED
        BY <2>3, <4>1
    <3>. QED
      BY <2>1, <3>1 DEF Solves
  <2>4. Sol(h, n + 1)
    BY <2>3 DEF Solves
  <2>. HIDE DEF h
  <2>. QED
    BY <2>2, <2>4
<1>3. \A n \in Nat : n \in S
  <2>. HIDE DEF S
  <2>. QED
    BY <1>1, <1>2, Successor
<1>. DEFINE Upto(n) == CHOOSE f \in [D -> V] : Sol(f, n)
            f == [m \in D |-> Upto(m)[m]]
<1>4. \A n \in Nat : Upto(n) \in [D -> V] /\ Sol(Upto(n), n)
  <2>. HIDE DEF Sol
  <2>. QED
    BY <1>3
<1>. HIDE DEF Upto, S
<1>5. \A m \in D : m \in Nat /\ f[m] = Upto(m)[m] /\ f[m] \in V
  BY <1>4
<1>6. ASSUME NEW m \in D
      PROVE  f[m] = IF m \in Z THEN first[m] ELSE next[<< m, f[prev[m]] >>]
  <2>1. f[m] = IF m \in Z THEN first[m] ELSE next[<< m, Upto(m)[prev[m]] >>]
    BY <1>4, <1>5 DEF Solves
  <2>2. CASE m \notin Z
    <3>1. prev[m] \in D /\ prev[m] \in Nat /\ prev[m] <= m /\ m \in Nat
      <4>1. m \in D \ Z /\ prev[m] \in D
        BY <2>2
      <4>2. prev[m] < m /\ m \in Nat /\ prev[m] \in Nat
        BY <4>1
      <4>. QED
        BY <4>1, <4>2
    <3>2. Upto(m)[prev[m]] = Upto(prev[m])[prev[m]]
      BY <1>4, <3>1, SolutionsAgree
    <3>. QED
      BY <1>5, <2>1, <2>2, <3>1, <3>2
  <2>. QED
    BY <2>1, <2>2
<1>. QED
  BY <1>5, <1>6 DEF SolvesAll

-----------------------------------------------------------------------------
(* The powers of two, counted as the subsets of an interval.               *)
LEMMA TwoToSuccessor ==
  ASSUME NEW n \in Nat
  PROVE  2 ^ n \in Nat /\ 2 ^ (n + 1) = 2 ^ n + 2 ^ n
<1>. DEFINE S == SUBSET (1 .. n)
            H == {X \cup {n + 1} : X \in S}
            f == [X \in S |-> X \cup {n + 1}]
<1>1. IsFiniteSet(1 .. n) /\ Cardinality(1 .. n) = n
  BY FS_Interval
<1>2. IsFiniteSet(1 .. (n + 1)) /\ Cardinality(1 .. (n + 1)) = n + 1
  BY FS_Interval
<1>3. IsFiniteSet(S) /\ Cardinality(S) = 2 ^ n /\ Cardinality(S) \in Nat
  BY <1>1, FS_SUBSET, FS_CardinalityType
<1>4. Cardinality(SUBSET (1 .. (n + 1))) = 2 ^ (n + 1)
  BY <1>2, FS_SUBSET
<1>5. \A X \in S : n + 1 \notin X
  OBVIOUS
<1>6. f \in Bijection(S, H)
  <2>1. f \in [S -> H]
    OBVIOUS
  <2>2. \A X, Y \in S : f[X] = f[Y] => X = Y
    <3>1. ASSUME NEW X \in S, NEW Y \in S, X \cup {n + 1} = Y \cup {n + 1} PROVE X = Y
      <4>1. \A e : e \in X <=> e \in Y
        BY <1>5, <3>1
      <4>. QED
        BY <4>1
    <3>. QED
      BY <3>1
  <2>3. \A Y \in H : \E X \in S : f[X] = Y
    OBVIOUS
  <2>. HIDE DEF f, S, H
  <2>4. DOMAIN f = S
    BY <2>1
  <2>5. IsInjective(f)
    BY <2>2, <2>4 DEF IsInjective
  <2>. QED
    BY <2>1, <2>3, <2>5 DEF Bijection, Injection, Surjection
<1>7. IsFiniteSet(H) /\ Cardinality(H) = Cardinality(S)
  <2>. HIDE DEF f, S, H
  <2>1. ExistsBijection(S, H)
    BY <1>6 DEF ExistsBijection
  <2>. QED
    BY <1>3, <2>1, FS_Bijection
<1>8. S \cap H = {}
  BY <1>5
<1>9. S \cup H = SUBSET (1 .. (n + 1))
  <2>1. ASSUME NEW X \in SUBSET (1 .. (n + 1)) PROVE X \in S \cup H
    <3>1. X \ {n + 1} \in S
      OBVIOUS
    <3>2. CASE n + 1 \in X
      <4>1. X = (X \ {n + 1}) \cup {n + 1}
        BY <3>2
      <4>. QED
        BY <3>1, <4>1
    <3>3. CASE n + 1 \notin X
      BY <3>1, <3>3
    <3>. QED
      BY <3>2, <3>3
  <2>2. \A X \in S \cup H : X \subseteq 1 .. (n + 1)
    OBVIOUS
  <2>. QED
    BY <2>1, <2>2
<1>10. Cardinality(S \cup H) = Cardinality(S) + Cardinality(H) - 0
  <2>. HIDE DEF S, H
  <2>1. Cardinality(S \cap H) = 0
    BY <1>8, FS_EmptySet
  <2>. QED
    BY <1>3, <1>7, <2>1, FS_Union
<1>. QED
  <2>. HIDE DEF S, H
  <2>1. Cardinality(S \cup H) = 2 ^ (n + 1)
    BY <1>4, <1>9
  <2>. QED
    BY <1>3, <1>7, <1>10, <2>1

LEMMA TwoTo ==
  /\ 2 ^ 0 = 1 /\ 2 ^ 1 = 2
  /\ \A n \in Nat : 2 ^ n \in Nat /\ 2 ^ n > 0 /\ 2 ^ (n + 1) = 2 * 2 ^ n
<1>1. 2 ^ 0 = 1 /\ 2 ^ 1 = 2
  OBVIOUS
<1>. DEFINE S == {n \in Nat : 2 ^ n > 0}
<1>2. \A n \in Nat : n \in S => n + 1 \in S
  BY TwoToSuccessor
<1>3. 0 \in S
  BY <1>1
<1>4. \A n \in Nat : n \in S
  <2>. HIDE DEF S
  <2>. QED
    BY <1>2, <1>3, Successor
<1>. QED
  BY <1>1, <1>4, TwoToSuccessor

LEMMA TwoToSum ==
  ASSUME NEW m \in Nat, NEW n \in Nat
  PROVE  2 ^ (m + n) = 2 ^ m * 2 ^ n
<1>. DEFINE S == {k \in Nat : 2 ^ (m + k) = 2 ^ m * 2 ^ k}
<1>1. 0 \in S
  BY TwoTo
<1>2. ASSUME NEW k \in Nat, k \in S PROVE k + 1 \in S
  <2>1. m + (k + 1) = (m + k) + 1 /\ m + k \in Nat
    OBVIOUS
  <2>2. 2 ^ (m + (k + 1)) = 2 * (2 ^ m * 2 ^ k)
    BY <1>2, <2>1, TwoTo
  <2>3. 2 * (2 ^ m * 2 ^ k) = 2 ^ m * (2 * 2 ^ k)
    BY TwoTo
  <2>. QED
    BY <2>2, <2>3, TwoTo
<1>3. \A k \in Nat : k \in S
  <2>. HIDE DEF S
  <2>. QED
    BY <1>1, <1>2, Successor
<1>. QED
  BY <1>3

LEMMA TwoToMonotone ==
  ASSUME NEW m \in Nat, NEW n \in Nat, m <= n
  PROVE  /\ 2 ^ m <= 2 ^ n
         /\ n - m \in Nat /\ 2 ^ (n - m) \in Nat /\ 2 ^ n = 2 ^ m * 2 ^ (n - m)
<1>1. n - m \in Nat /\ m + (n - m) = n
  OBVIOUS
<1>2. 2 ^ n = 2 ^ m * 2 ^ (n - m)
  BY <1>1, TwoToSum
<1>3. \A a, b \in Nat : b > 0 => a <= a * b
  OBVIOUS
<1>. QED
  BY <1>1, <1>2, <1>3, TwoTo

-----------------------------------------------------------------------------
(* Power multiplies.                                                       *)
LEMMA PowerFacts ==
  ASSUME NEW n \in Int
  PROVE  /\ Power(n, 0) = 1
         /\ \A e \in Nat : Power(n, e) \in Int /\ Power(n, e + 1) = Power(n, e) * n
<1>. DEFINE first == [k \in Nat |-> 1]
            prev == [k \in Nat |-> IF k = 0 THEN 0 ELSE k - 1]
            next == [p \in Nat \X Int |-> p[2] * n]
            P(p) == p = [k \in Nat |-> IF k = 0 THEN 1 ELSE p[k - 1] * n]
            p0 == CHOOSE p : P(p)
<1>1. PICK f \in [Nat -> Int] : SolvesAll(f, Nat, {0}, first, prev, next)
  <2>1. first \in [Nat -> Int] /\ prev \in [Nat -> Nat] /\ next \in [Nat \X Int -> Int]
    OBVIOUS
  <2>2. Descends(Nat, {0}, prev)
    BY DEF Descends
  <2>3. Nat \in SUBSET Nat
    OBVIOUS
  <2>. HIDE DEF first, prev, next
  <2>. QED
    BY <2>1, <2>2, <2>3, RecursionSolved
<1>2. ASSUME NEW k \in Nat PROVE f[k] = IF k = 0 THEN 1 ELSE f[k - 1] * n
  <2>1. CASE k = 0
    BY <1>1, <2>1 DEF SolvesAll
  <2>2. CASE k # 0
    <3>1. prev[k] = k - 1 /\ k - 1 \in Nat /\ f[k - 1] \in Int
      BY <2>2
    <3>2. f[k] = next[<< k, f[k - 1] >>]
      BY <1>1, <2>2, <3>1 DEF SolvesAll
    <3>. QED
      BY <2>2, <3>1, <3>2
  <2>. QED
    BY <2>1, <2>2
<1>3. P(f)
  BY <1>2
<1>4. P(p0)
  <2>. HIDE DEF P
  <2>. QED
    BY <1>3
<1>. HIDE DEF p0
<1>5. \A k \in Nat : p0[k] = IF k = 0 THEN 1 ELSE p0[k - 1] * n
  BY <1>4
<1>6. p0[0] = 1 /\ \A k \in Nat : p0[k + 1] = p0[k] * n
  BY <1>5
<1>. DEFINE S == {k \in Nat : p0[k] \in Int}
<1>7. \A k \in Nat : k \in S
  <2>1. 0 \in S /\ \A k \in Nat : k \in S => k + 1 \in S
    BY <1>6
  <2>. HIDE DEF S
  <2>. QED
    BY <2>1, Successor
<1>8. \A e \in Nat : Power(n, e) = p0[e]
  <2>1. \A e \in Nat : Power(n, e) = IF e <= 0 THEN 1 ELSE p0[e]
    BY DEF Power, p0
  <2>2. \A e \in Nat : e <= 0 => e = 0
    OBVIOUS
  <2>. QED
    BY <1>6, <2>1, <2>2
<1>. QED
  BY <1>6, <1>7, <1>8

LEMMA PowerPositive ==
  ASSUME NEW n \in Nat, n > 0, NEW e \in Nat
  PROVE  Power(n, e) > 0
<1>. DEFINE S == {k \in Nat : Power(n, k) > 0}
<1>1. \A a, b \in Int : a > 0 /\ b > 0 => a * b > 0
  OBVIOUS
<1>2. 0 \in S /\ \A k \in Nat : k \in S => k + 1 \in S
  BY <1>1, PowerFacts
<1>. HIDE DEF S
<1>3. \A k \in Nat : k \in S
  BY <1>2, Successor
<1>. QED
  BY <1>3 DEF S

LEMMA SmallPowers ==
  ASSUME NEW n \in Int
  PROVE  Power(n, 1) = n /\ Power(n, 2) = n * n
<1>1. Power(n, 0 + 1) = 1 * n /\ Power(n, 1 + 1) = Power(n, 1) * n
  BY PowerFacts
<1>. QED
  BY <1>1

LEMMA PowerSum ==
  ASSUME NEW n \in Int, NEW i \in Nat, NEW j \in Nat
  PROVE  Power(n, i + j) = Power(n, i) * Power(n, j)
<1>. DEFINE S == {k \in Nat : Power(n, i + k) = Power(n, i) * Power(n, k)}
<1>1. 0 \in S
  BY PowerFacts
<1>2. ASSUME NEW k \in Nat, k \in S PROVE k + 1 \in S
  <2>1. i + (k + 1) = (i + k) + 1 /\ i + k \in Nat
    OBVIOUS
  <2>2. Power(n, i + (k + 1)) = (Power(n, i) * Power(n, k)) * n
    BY <1>2, <2>1, PowerFacts
  <2>3. (Power(n, i) * Power(n, k)) * n = Power(n, i) * (Power(n, k) * n)
    BY PowerFacts
  <2>. QED
    BY <2>2, <2>3, PowerFacts
<1>. HIDE DEF S
<1>3. \A k \in Nat : k \in S
  BY <1>1, <1>2, Successor
<1>. QED
  BY <1>3 DEF S

-----------------------------------------------------------------------------
(* Magnitudes and signs.                                                   *)
LEMMA MagnitudeProperties ==
  ASSUME NEW n \in Int
  PROVE  /\ Magnitude(n) \in Nat /\ Sgn(n) \in {-1, 1}
         /\ n = Sgn(n) * Magnitude(n)
         /\ Magnitude(n) = (IF n < 0 THEN - n ELSE n)
         /\ (Magnitude(n) = 0 <=> n = 0)
BY DEF Magnitude, Sgn

(* mp_cnt_lsb counts the factors of two.                                   *)
LEMMA CntLsbFacts ==
  ASSUME NEW n \in Nat
  PROVE  /\ mp_cnt_lsb(n) \in Nat
         /\ mp_cnt_lsb(n) = IF n % 2 = 1 \/ n = 0 THEN 0 ELSE 1 + mp_cnt_lsb(n \div 2)
<1>. DEFINE Z == {m \in Nat : m % 2 = 1 \/ m = 0}
            first == [m \in Nat |-> 0]
            prev == [m \in Nat |-> m \div 2]
            next == [p \in Nat \X Nat |-> 1 + p[2]]
            P(p) == p = [m \in Nat |-> IF m % 2 = 1 \/ m = 0 THEN 0 ELSE 1 + p[m \div 2]]
            p0 == CHOOSE p : P(p)
<1>1. PICK f \in [Nat -> Nat] : SolvesAll(f, Nat, Z, first, prev, next)
  <2>1. first \in [Nat -> Nat] /\ prev \in [Nat -> Nat] /\ next \in [Nat \X Nat -> Nat]
    OBVIOUS
  <2>2. Descends(Nat, Z, prev)
    BY DEF Descends
  <2>3. Nat \in SUBSET Nat
    OBVIOUS
  <2>. HIDE DEF first, prev, next, Z
  <2>. QED
    BY <2>1, <2>2, <2>3, RecursionSolved
<1>2. ASSUME NEW k \in Nat PROVE f[k] = IF k % 2 = 1 \/ k = 0 THEN 0 ELSE 1 + f[k \div 2]
  <2>1. prev[k] = k \div 2 /\ k \div 2 \in Nat /\ f[k \div 2] \in Nat /\ first[k] = 0
    OBVIOUS
  <2>2. next[<< k, f[k \div 2] >>] = 1 + f[k \div 2]
    BY <2>1
  <2>3. k \in Z <=> k % 2 = 1 \/ k = 0
    OBVIOUS
  <2>. HIDE DEF first, prev, next, Z
  <2>. QED
    BY <1>1, <2>1, <2>2, <2>3 DEF SolvesAll
<1>3. P(f)
  BY <1>2
<1>4. P(p0)
  <2>. HIDE DEF P
  <2>. QED
    BY <1>3
<1>. HIDE DEF p0
<1>5. \A k \in Nat : p0[k] = IF k % 2 = 1 \/ k = 0 THEN 0 ELSE 1 + p0[k \div 2]
  BY <1>4
<1>. DEFINE S == {k \in Nat : p0[k] \in Nat}
<1>6. ASSUME NEW k \in Nat, \A m \in 0 .. k - 1 : m \in S PROVE k \in S
  <2>1. CASE k % 2 = 1 \/ k = 0
    <3>1. p0[k] = 0
      BY <1>5, <2>1
    <3>. QED
      BY <3>1
  <2>2. CASE ~ (k % 2 = 1 \/ k = 0)
    <3>1. k \div 2 \in 0 .. k - 1
      BY <2>2
    <3>2. p0[k \div 2] \in Nat
      BY <1>6, <3>1
    <3>3. p0[k] = 1 + p0[k \div 2]
      BY <1>5, <2>2
    <3>. QED
      BY <3>2, <3>3
  <2>. QED
    BY <2>1, <2>2
<1>. HIDE DEF S
<1>7. \A k \in Nat : k \in S
  BY <1>6, Below
<1>8. \A k \in Nat : mp_cnt_lsb(k) = p0[k]
  <2>1. \A k \in Nat : Magnitude(k) = k
    BY DEF Magnitude, Sgn
  <2>. QED
    BY <2>1 DEF mp_cnt_lsb, p0
<1>9. n \div 2 \in Nat
  OBVIOUS
<1>. QED
  BY <1>5, <1>7, <1>8, <1>9 DEF S

LEMMA CntLsb ==
  ASSUME NEW n \in Nat, n > 0
  PROVE  /\ mp_cnt_lsb(n) \in Nat
         /\ \E m \in Nat : m % 2 = 1 /\ n = m * 2 ^ mp_cnt_lsb(n)
<1>. DEFINE S == {k \in Nat : k > 0 => \E m \in Nat : m % 2 = 1 /\ k = m * 2 ^ mp_cnt_lsb(k)}
<1>1. ASSUME NEW k \in Nat, \A m \in 0 .. k - 1 : m \in S PROVE k \in S
  <2>1. CASE k % 2 = 1 \/ k = 0
    <3>1. mp_cnt_lsb(k) = 0 /\ k = k * 2 ^ 0
      BY <2>1, CntLsbFacts, TwoTo
    <3>. QED
      BY <2>1, <3>1
  <2>2. CASE ~ (k % 2 = 1 \/ k = 0)
    <3>. DEFINE h == k \div 2
                e == mp_cnt_lsb(h)
    <3>1. h \in 0 .. k - 1 /\ h \in Nat /\ h > 0 /\ k = 2 * h
      BY <2>2
    <3>2. mp_cnt_lsb(k) = 1 + e /\ e \in Nat
      BY <2>2, <3>1, CntLsbFacts
    <3>3. PICK m \in Nat : m % 2 = 1 /\ h = m * 2 ^ e
      BY <1>1, <3>1
    <3>. HIDE DEF e, h
    <3>4. k = m * 2 ^ (e + 1)
      <4>1. 2 ^ (e + 1) = 2 * 2 ^ e /\ 2 ^ e \in Nat
        BY <3>2, TwoTo
      <4>2. 2 * (m * 2 ^ e) = m * (2 * 2 ^ e)
        BY <4>1
      <4>. QED
        BY <3>1, <3>3, <4>1, <4>2
    <3>5. 1 + e = e + 1
      BY <3>2
    <3>. QED
      BY <3>2, <3>3, <3>4, <3>5
  <2>. QED
    BY <2>1, <2>2
<1>. HIDE DEF S
<1>2. \A k \in Nat : k \in S
  BY <1>1, Below
<1>. QED
  BY <1>2, CntLsbFacts DEF S

-----------------------------------------------------------------------------
(* Division with remainder, and divisors.                                  *)
LEMMA SmallMultiple ==
  ASSUME NEW d \in Nat, NEW k \in Int, - d < d * k, d * k < d
  PROVE  k = 0
<1>1. k >= 1 => d * k >= d
  <2>1. \A a \in Nat, b \in Nat : a * (b + 1) = a * b + a /\ a * b >= 0
    OBVIOUS
  <2>2. k >= 1 => k - 1 \in Nat /\ (k - 1) + 1 = k
    OBVIOUS
  <2>. QED
    BY <2>1, <2>2
<1>2. k <= -1 => d * k <= - d
  <2>1. \A a \in Nat, b \in Nat : a * (- b - 1) = - (a * b) - a /\ a * b >= 0
    OBVIOUS
  <2>2. k <= -1 => - k - 1 \in Nat /\ - (- k - 1) - 1 = k
    OBVIOUS
  <2>. QED
    BY <2>1, <2>2
<1>. QED
  BY <1>1, <1>2

LEMMA Division ==
  ASSUME NEW n \in Int, NEW d \in Nat, d > 0
  PROVE  /\ n \div d \in Int /\ n % d \in 0 .. d - 1
         /\ n = d * (n \div d) + (n % d)
OBVIOUS

LEMMA DivisionUnique ==
  ASSUME NEW d \in Nat, d > 0, NEW q \in Int, NEW r \in 0 .. d - 1
  PROVE  (d * q + r) \div d = q /\ (d * q + r) % d = r
<1>. DEFINE n == d * q + r
            p == n \div d
            s == n % d
<1>1. n \in Int /\ p \in Int /\ s \in 0 .. d - 1 /\ n = d * p + s
  BY Division
<1>2. d * q + r = d * p + s
  BY <1>1
<1>. HIDE DEF n, p, s
<1>3. d * (q - p) = d * q - d * p
  BY <1>1
<1>4. q - p = 0
  <2>1. d * (q - p) = s - r /\ q - p \in Int
    BY <1>1, <1>2, <1>3
  <2>2. - d < s - r /\ s - r < d
    BY <1>1
  <2>. QED
    BY <2>1, <2>2, SmallMultiple
<1>5. p = q /\ s = r
  BY <1>1, <1>2, <1>4
<1>. QED
  BY <1>5 DEF n, p, s

LEMMA IntegerProducts ==
  /\ \A x, y \in Int : x * y \in Int /\ 0 * x = 0 /\ x * 1 = x /\ 1 * x = x /\ x * y = y * x
  /\ \A x, y \in Nat : x * y \in Nat
  /\ \A x, y, z \in Int : (x - y) * z = x * z - y * z /\ (x + y) * z = x * z + y * z
                            /\ (x * y) * z = x * (y * z)
OBVIOUS

(* Products of natural numbers keep their order.                           *)
LEMMA MonotoneProduct ==
  /\ \A x, y, z \in Nat : x <= y => x * z <= y * z
  /\ \A x, y, z \in Nat : z > 0 /\ x * z <= y * z => x <= y
  /\ \A x, y, z \in Nat : z > 0 /\ x * z < y * z => x < y
  /\ \A x, y, z \in Nat : z > 0 /\ x < y => x * z < y * z
<1>1. ASSUME NEW x \in Nat, NEW y \in Nat, NEW z \in Nat, x <= y PROVE x * z <= y * z
  <2>1. y - x \in Nat /\ (y - x) * z \in Nat /\ (y - x) * z = y * z - x * z
    BY <1>1
  <2>2. x * z \in Int /\ y * z \in Int
    OBVIOUS
  <2>. QED
    BY <2>1, <2>2
<1>2. ASSUME NEW x \in Nat, NEW y \in Nat, NEW z \in Nat, z > 0, x < y PROVE x * z < y * z
  <2>1. y - x - 1 \in Nat /\ (y - x - 1) * z \in Nat /\ (y - x - 1) * z = y * z - x * z - z
    BY <1>2
  <2>2. x * z \in Int /\ y * z \in Int
    OBVIOUS
  <2>. QED
    BY <1>2, <2>1, <2>2
<1>3. ASSUME NEW x \in Nat, NEW y \in Nat, NEW z \in Nat, z > 0, x * z <= y * z PROVE x <= y
  <2>1. y < x => y * z < x * z
    BY <1>2, <1>3
  <2>2. x * z \in Int /\ y * z \in Int
    OBVIOUS
  <2>. QED
    BY <1>3, <2>1, <2>2
<1>4. ASSUME NEW x \in Nat, NEW y \in Nat, NEW z \in Nat, z > 0, x * z < y * z PROVE x < y
  <2>1. y <= x => y * z <= x * z
    BY <1>1, <1>4
  <2>2. x * z \in Int /\ y * z \in Int
    OBVIOUS
  <2>. QED
    BY <1>4, <2>1, <2>2
<1>. QED
  BY <1>1, <1>2, <1>3, <1>4

(* n div d is the greatest k such that d * k does not exceed n.            *)
LEMMA Greatest ==
  ASSUME NEW n \in Nat, NEW d \in Nat, d > 0
  PROVE  /\ n \div d \in Nat /\ (n \div d) * d \in Nat
         /\ (n \div d) * d <= n /\ n < (n \div d + 1) * d
         /\ \A k \in Nat : k <= n \div d <=> k * d <= n
<1>. DEFINE q == n \div d
            r == n % d
            p == q * d
<1>1. q \in Nat /\ r \in 0 .. d - 1 /\ n = p + r
  BY Division
<1>. HIDE DEF q, r
<1>2. p \in Nat /\ (q + 1) * d = p + d
  BY <1>1
<1>3. ASSUME NEW k \in Nat, k <= q PROVE k * d <= p
  BY <1>1, <1>3, MonotoneProduct
<1>4. ASSUME NEW k \in Nat, k > q PROVE p + d <= k * d
  <2>1. q + 1 <= k /\ q + 1 \in Nat
    BY <1>1, <1>4
  <2>2. (q + 1) * d <= k * d
    BY <2>1, MonotoneProduct
  <2>. QED
    BY <1>2, <2>2
<1>. HIDE DEF p
<1>5. p <= n /\ n < p + d
  BY <1>1, <1>2
<1>6. ASSUME NEW k \in Nat PROVE k <= q <=> k * d <= n
  <2>1. k * d \in Int
    OBVIOUS
  <2>2. CASE k <= q
    BY <1>2, <1>3, <1>5, <2>1, <2>2
  <2>3. CASE k > q
    BY <1>1, <1>2, <1>4, <1>5, <2>1, <2>3
  <2>. QED
    BY <1>1, <2>2, <2>3
<1>7. q \in Nat /\ p \in Nat /\ p <= n /\ n < (q + 1) * d
  BY <1>1, <1>2, <1>5
<1>. QED
  BY <1>6, <1>7 DEF p, q

LEMMA DividesMeans ==
  ASSUME NEW d \in Nat, d > 0, NEW n \in Int
  PROVE  Divides(d, n) <=> \E q \in Int : n = d * q
<1>1. ASSUME NEW q \in Int, n = d * q PROVE n % d = 0
  <2>1. n = d * q + 0 /\ 0 \in 0 .. d - 1
    BY <1>1
  <2>. QED
    BY <2>1, DivisionUnique
<1>2. n % d = 0 => n = d * (n \div d) /\ n \div d \in Int
  BY Division
<1>. QED
  BY <1>1, <1>2 DEF Divides

LEMMA DividesSum ==
  ASSUME NEW d \in Nat, d > 0, NEW m \in Int, NEW n \in Int, Divides(d, m), Divides(d, n)
  PROVE  Divides(d, m + n) /\ Divides(d, m - n)
<1>1. PICK p \in Int : m = d * p
  BY DividesMeans
<1>2. PICK q \in Int : n = d * q
  BY DividesMeans
<1>3. d * p + d * q = d * (p + q) /\ p + q \in Int /\ d * p - d * q = d * (p - q) /\ p - q \in Int
  OBVIOUS
<1>4. m + n \in Int /\ m - n \in Int
  OBVIOUS
<1>. QED
  BY <1>1, <1>2, <1>3, <1>4, DividesMeans

LEMMA DividesProduct ==
  ASSUME NEW d \in Nat, d > 0, NEW m \in Int, NEW x \in Int, Divides(d, m)
  PROVE  Divides(d, m * x) /\ Divides(d, x * m)
<1>1. PICK p \in Int : m = d * p
  BY DividesMeans
<1>2. (d * p) * x = d * (p * x) /\ x * (d * p) = d * (p * x) /\ p * x \in Int
  OBVIOUS
<1>3. m * x \in Int /\ x * m \in Int
  OBVIOUS
<1>. QED
  BY <1>1, <1>2, <1>3, DividesMeans

LEMMA DividesItself ==
  ASSUME NEW d \in Nat, d > 0
  PROVE  Divides(d, d) /\ Divides(d, 0) /\ Divides(1, d)
<1>1. d = d * 1 /\ 0 = d * 0 /\ d = 1 * d
  OBVIOUS
<1>. QED
  BY <1>1, DividesMeans

LEMMA DividesMagnitude ==
  ASSUME NEW d \in Nat, d > 0, NEW n \in Int
  PROVE  Divides(d, Magnitude(n)) <=> Divides(d, n)
<1>1. Magnitude(n) = n * 1 \/ Magnitude(n) = n * (-1)
  BY MagnitudeProperties
<1>2. n = Magnitude(n) * 1 \/ n = Magnitude(n) * (-1)
  BY MagnitudeProperties
<1>. QED
  BY <1>1, <1>2, DividesProduct, MagnitudeProperties

LEMMA DivisorBound ==
  ASSUME NEW d \in Nat, d > 0, NEW n \in Int, n # 0, Divides(d, n)
  PROVE  d <= Magnitude(n)
<1>1. PICK q \in Int : Magnitude(n) = d * q
  BY DividesMeans, DividesMagnitude, MagnitudeProperties
<1>2. Magnitude(n) > 0
  BY MagnitudeProperties
<1>3. q > 0
  <2>1. \A a \in Nat, b \in Nat : a * (- b) <= 0
    OBVIOUS
  <2>2. q <= 0 => - q \in Nat /\ - (- q) = q
    OBVIOUS
  <2>. QED
    BY <1>1, <1>2, <2>1, <2>2
<1>4. \A a \in Nat, b \in Nat : b > 0 => a <= a * b
  OBVIOUS
<1>. QED
  BY <1>1, <1>3, <1>4

-----------------------------------------------------------------------------
(* Greatest common divisors.                                               *)
Common(d, m, n) == Divides(d, m) /\ Divides(d, n)

LEMMA GcdMeans ==
  ASSUME NEW m \in Int, NEW n \in Int, m # 0 \/ n # 0, NEW g \in Int
  PROVE  IsGcd(g, m, n) <=>
           g > 0 /\ Common(g, m, n) /\ \A d \in Nat : d > 0 /\ Common(d, m, n) => d <= g
<1>1. ASSUME NEW d \in Nat, d > 0, Common(d, m, n) PROVE d <= Magnitude(m) + Magnitude(n)
  <2>1. m # 0 => d <= Magnitude(m)
    BY <1>1, DivisorBound DEF Common
  <2>2. n # 0 => d <= Magnitude(n)
    BY <1>1, DivisorBound DEF Common
  <2>. QED
    BY <2>1, <2>2, MagnitudeProperties
<1>2. Magnitude(m) + Magnitude(n) \in Int
  BY MagnitudeProperties
<1>3. ASSUME IsGcd(g, m, n), NEW d \in Nat, d > 0, Common(d, m, n) PROVE d <= g
  <2>1. d > g => d \in g + 1 .. Magnitude(m) + Magnitude(n)
    BY <1>1, <1>2, <1>3
  <2>. QED
    BY <1>3, <2>1 DEF IsGcd, Common
<1>4. ASSUME g > 0, Common(g, m, n), \A d \in Nat : d > 0 /\ Common(d, m, n) => d <= g
      PROVE  IsGcd(g, m, n)
  <2>1. \A d \in g + 1 .. Magnitude(m) + Magnitude(n) : d \in Nat /\ d > 0 /\ d > g
    BY <1>2, <1>4
  <2>. QED
    BY <1>4, <2>1 DEF IsGcd, Common
<1>. QED
  BY <1>3, <1>4 DEF IsGcd, Common

LEMMA GcdExists ==
  ASSUME NEW m \in Int, NEW n \in Int, m # 0 \/ n # 0
  PROVE  \E g \in Nat : g > 0 /\ IsGcd(g, m, n)
<1>. DEFINE bound == Magnitude(m) + Magnitude(n)
            T == {k \in Nat : \E d \in Nat : d > 0 /\ Common(d, m, n) /\ d + k = bound}
<1>1. bound \in Nat /\ bound > 0
  BY MagnitudeProperties
<1>2. ASSUME NEW d \in Nat, d > 0, Common(d, m, n) PROVE d <= bound
  <2>1. m # 0 => d <= Magnitude(m)
    BY <1>2, DivisorBound DEF Common
  <2>2. n # 0 => d <= Magnitude(n)
    BY <1>2, DivisorBound DEF Common
  <2>. QED
    BY <2>1, <2>2, MagnitudeProperties
<1>3. Common(1, m, n)
  BY DividesMeans, m = 1 * m, n = 1 * n DEF Common
<1>. HIDE DEF bound
<1>4. T # {} /\ T \subseteq Nat
  <2>1. bound - 1 \in Nat /\ 1 + (bound - 1) = bound
    BY <1>1
  <2>. QED
    BY <1>3, <2>1
<1>5. PICK k \in T : \A j \in T : k <= j
  <2>. HIDE DEF T
  <2>. QED
    BY <1>4, LeastElement
<1>6. PICK g \in Nat : g > 0 /\ Common(g, m, n) /\ g + k = bound
  OBVIOUS
<1>7. ASSUME NEW d \in Nat, d > 0, Common(d, m, n) PROVE d <= g
  <2>1. bound - d \in Nat /\ d + (bound - d) = bound
    BY <1>1, <1>2, <1>7
  <2>2. k <= bound - d
    BY <1>5, <1>7, <2>1
  <2>. QED
    BY <1>1, <1>6, <2>2
<1>. QED
  BY <1>6, <1>7, GcdMeans

LEMMA GcdUnique ==
  ASSUME NEW m \in Int, NEW n \in Int, NEW g \in Int, NEW h \in Int,
         IsGcd(g, m, n), IsGcd(h, m, n)
  PROVE  g = h
<1>1. CASE m = 0 /\ n = 0
  BY <1>1 DEF IsGcd
<1>2. CASE m # 0 \/ n # 0
  <2>1. g > 0 /\ h > 0 /\ Common(g, m, n) /\ Common(h, m, n)
    BY <1>2, GcdMeans
  <2>2. g <= h /\ h <= g
    BY <1>2, <2>1, GcdMeans
  <2>. QED
    BY <2>2
<1>. QED
  BY <1>1, <1>2

(* Pairs with the same common divisors have the same greatest one.         *)
LEMMA SameGcd ==
  ASSUME NEW m \in Int, NEW n \in Int, NEW p \in Int, NEW q \in Int, NEW g \in Int,
         \A d \in Nat : d > 0 => (Common(d, m, n) <=> Common(d, p, q)),
         m # 0 \/ n # 0, IsGcd(g, m, n)
  PROVE  (p # 0 \/ q # 0) /\ IsGcd(g, p, q)
<1>1. ASSUME p = 0, q = 0 PROVE FALSE
  <2>. DEFINE d == Magnitude(m) + Magnitude(n) + 1
  <2>1. d \in Nat /\ d > 0 /\ d > Magnitude(m) /\ d > Magnitude(n)
    BY MagnitudeProperties
  <2>. HIDE DEF d
  <2>2. Common(d, m, n)
    BY <1>1, <2>1, DividesItself DEF Common
  <2>3. d <= Magnitude(m) \/ d <= Magnitude(n)
    BY <2>1, <2>2, DivisorBound DEF Common
  <2>. QED
    BY <2>1, <2>3, MagnitudeProperties
<1>. QED
  BY <1>1, GcdMeans

LEMMA GcdOfMagnitudes ==
  ASSUME NEW m \in Int, NEW n \in Int, NEW g \in Int
  PROVE  /\ IsGcd(g, Magnitude(m), Magnitude(n)) <=> IsGcd(g, m, n)
         /\ IsGcd(g, m, n) <=> IsGcd(g, n, m)
<1>1. Magnitude(m) \in Int /\ Magnitude(n) \in Int
        /\ (Magnitude(m) = 0 <=> m = 0) /\ (Magnitude(n) = 0 <=> n = 0)
  BY MagnitudeProperties
<1>2. \A d \in Nat : d > 0 => (Common(d, Magnitude(m), Magnitude(n)) <=> Common(d, m, n))
                                /\ (Common(d, m, n) <=> Common(d, n, m))
  BY DividesMagnitude DEF Common
<1>3. CASE m = 0 /\ n = 0
  BY <1>1, <1>3 DEF IsGcd
<1>4. CASE m # 0 \/ n # 0
  BY <1>1, <1>2, <1>4, SameGcd
<1>. QED
  BY <1>3, <1>4

LEMMA GcdWithZero ==
  ASSUME NEW n \in Int
  PROVE  IsGcd(Magnitude(n), n, 0)
<1>1. CASE n = 0
  BY <1>1, MagnitudeProperties DEF IsGcd
<1>2. CASE n # 0
  <2>1. Magnitude(n) \in Nat /\ Magnitude(n) > 0
    BY <1>2, MagnitudeProperties
  <2>2. Common(Magnitude(n), n, 0)
    BY <2>1, DividesItself, DividesMagnitude DEF Common
  <2>3. \A d \in Nat : d > 0 /\ Common(d, n, 0) => d <= Magnitude(n)
    BY <1>2, DivisorBound DEF Common
  <2>. QED
    BY <1>2, <2>1, <2>2, <2>3, GcdMeans
<1>. QED
  BY <1>1, <1>2

(* A common divisor of m and n is one of n and m - n times any q.          *)
LEMMA GcdStep ==
  ASSUME NEW m \in Int, NEW n \in Int, NEW q \in Int, NEW g \in Int
  PROVE  IsGcd(g, m, n) <=> IsGcd(g, n, m - n * q)
<1>. DEFINE p == n * q
<1>1. p \in Int /\ m - p \in Int /\ (m - p) + p = m /\ (n = 0 => p = 0)
  OBVIOUS
<1>2. ASSUME NEW d \in Nat, d > 0 PROVE Common(d, m, n) <=> Common(d, n, m - p)
  <2>1. Divides(d, n) => Divides(d, p)
    BY <1>2, DividesProduct
  <2>. HIDE DEF p
  <2>2. Divides(d, m) /\ Divides(d, n) => Divides(d, m - p)
    BY <1>1, <1>2, <2>1, DividesSum
  <2>3. Divides(d, m - p) /\ Divides(d, n) => Divides(d, (m - p) + p)
    BY <1>1, <1>2, <2>1, DividesSum
  <2>. QED
    BY <1>1, <2>2, <2>3 DEF Common
<1>3. CASE m = 0 /\ n = 0
  BY <1>3 DEF IsGcd
<1>4. CASE ~ (m = 0 /\ n = 0)
  <2>1. ~ (n = 0 /\ m - p = 0)
    BY <1>1, <1>4
  <2>. QED
    BY <1>1, <1>2, <1>4, <2>1, SameGcd
<1>. QED
  BY <1>3, <1>4

-----------------------------------------------------------------------------
(* Odd divisors and powers of two.                                         *)
LEMMA OddDivisor ==
  ASSUME NEW d \in Nat, d % 2 = 1, NEW n \in Int, NEW e \in Nat, Divides(d, n * 2 ^ e)
  PROVE  Divides(d, n)
<1>0. d > 0
  OBVIOUS
<1>1. ASSUME NEW m \in Int, Divides(d, 2 * m) PROVE Divides(d, m)
  <2>1. PICK q \in Int : 2 * m = d * q
    BY <1>0, <1>1, DividesMeans
  <2>2. PICK c \in Int : d = 2 * c + 1
    <3>1. d = 2 * (d \div 2) + 1 /\ d \div 2 \in Int
      OBVIOUS
    <3>. QED
      BY <3>1
  <2>3. d * q = 2 * (c * q) + q
    BY <2>2
  <2>4. c * q \in Int
    BY <2>2
  <2>5. q = 2 * (m - c * q) /\ m - c * q \in Int
    BY <2>1, <2>3, <2>4
  <2>6. d * (2 * (m - c * q)) = 2 * (d * (m - c * q))
    BY <2>5
  <2>7. m = d * (m - c * q)
    <3>1. d * (m - c * q) \in Int
      BY <2>5
    <3>2. 2 * m = 2 * (d * (m - c * q))
      BY <2>1, <2>5, <2>6
    <3>. QED
      BY <3>1, <3>2
  <2>. QED
    BY <1>0, <2>5, <2>7, DividesMeans
<1>. DEFINE S == {k \in Nat : Divides(d, n * 2 ^ k) => Divides(d, n)}
<1>2. 0 \in S
  <2>1. n * 2 ^ 0 = n
    BY TwoTo
  <2>. QED
    BY <2>1
<1>3. ASSUME NEW k \in Nat, k \in S PROVE k + 1 \in S
  <2>1. 2 ^ (k + 1) = 2 * 2 ^ k /\ 2 ^ k \in Nat
    BY TwoTo
  <2>2. n * (2 * 2 ^ k) = 2 * (n * 2 ^ k) /\ n * 2 ^ k \in Int
    BY <2>1
  <2>3. Divides(d, n * 2 ^ (k + 1)) => Divides(d, n * 2 ^ k)
    BY <1>1, <2>1, <2>2
  <2>. QED
    BY <1>3, <2>3
<1>. HIDE DEF S
<1>4. \A k \in Nat : k \in S
  BY <1>2, <1>3, Successor
<1>. QED
  BY <1>4 DEF S

LEMMA TwoPowerDivides ==
  ASSUME NEW m \in Nat, m % 2 = 1, NEW i \in Nat, NEW e \in Nat, Divides(2 ^ e, m * 2 ^ i)
  PROVE  e <= i
<1>. SUFFICES ASSUME e > i PROVE FALSE
  OBVIOUS
<1>. DEFINE p == 2 ^ i
            s == 2 ^ (e - (i + 1))
<1>1. p \in Nat /\ p > 0 /\ s \in Nat /\ 2 ^ e = (2 * p) * s /\ 2 ^ e \in Nat /\ 2 ^ e > 0
  <2>1. e - (i + 1) \in Nat /\ i + 1 \in Nat /\ e = (i + 1) + (e - (i + 1))
    OBVIOUS
  <2>2. 2 ^ e = 2 ^ (i + 1) * 2 ^ (e - (i + 1))
    BY <2>1, TwoToSum
  <2>. QED
    BY <2>1, <2>2, TwoTo
<1>2. PICK q \in Int : m * p = 2 ^ e * q
  <2>1. Divides(2 ^ e, m * p)
    OBVIOUS
  <2>2. m * p \in Int
    BY <1>1
  <2>. DEFINE n == m * p
              d == 2 ^ e
  <2>3. Divides(d, n) /\ n \in Int /\ d \in Nat /\ d > 0
    BY <1>1, <2>1, <2>2
  <2>. HIDE DEF n, d, p, s
  <2>4. \E q \in Int : n = d * q
    BY <2>3, DividesMeans
  <2>. QED
    BY <2>4 DEF n, d
<1>. HIDE DEF p, s
<1>3. ((2 * p) * s) * q = p * (2 * (s * q)) /\ s * q \in Int
  BY <1>1
<1>4. p * m = p * (2 * (s * q))
  BY <1>1, <1>2, <1>3
<1>5. m = 2 * (s * q)
  <2>1. \A a, b, c \in Int : a > 0 /\ a * b = a * c => b = c
    OBVIOUS
  <2>2. 2 * (s * q) \in Int
    BY <1>3
  <2>. QED
    BY <1>1, <1>4, <2>1, <2>2
<1>. QED
  BY <1>3, <1>5

(* Every positive number is an odd one times a power of two.               *)
LEMMA OddPart ==
  ASSUME NEW n \in Nat, n > 0
  PROVE  \E m \in Nat, e \in Nat : m % 2 = 1 /\ n = m * 2 ^ e
BY CntLsb

LEMMA BelowTwoTo ==
  ASSUME NEW n \in Nat
  PROVE  n < 2 ^ n
<1>. DEFINE S == {k \in Nat : k < 2 ^ k}
<1>1. 0 \in S /\ \A k \in Nat : k \in S => k + 1 \in S
  BY TwoTo
<1>. HIDE DEF S
<1>2. \A k \in Nat : k \in S
  BY <1>1, Successor
<1>. QED
  BY <1>2 DEF S

(* Powers of two do not count in a common divisor with an odd number.      *)
LEMMA GcdHalved ==
  ASSUME NEW u \in Nat, u % 2 = 1, NEW m \in Nat, NEW e \in Nat, NEW g \in Int
  PROVE  IsGcd(g, u, m * 2 ^ e) <=> IsGcd(g, u, m)
<1>1. ASSUME NEW d \in Nat, d > 0, Divides(d, u) PROVE d % 2 = 1
  <2>1. PICK q \in Int : u = d * q
    BY <1>1, DividesMeans
  <2>2. ASSUME d % 2 = 0 PROVE FALSE
    <3>1. d = 2 * (d \div 2) /\ d \div 2 \in Int
      BY <2>2
    <3>2. (2 * (d \div 2)) * q = 2 * ((d \div 2) * q) /\ (d \div 2) * q \in Int
      BY <3>1
    <3>3. \E p \in Int : u = 2 * p
      BY <2>1, <3>1, <3>2
    <3>. QED
      BY <3>3
  <2>. QED
    BY <2>2
<1>. DEFINE w == m * 2 ^ e
<1>2. w \in Int /\ u # 0 /\ 2 ^ e \in Int
  BY TwoTo
<1>3. ASSUME NEW d \in Nat, d > 0 PROVE Common(d, u, w) <=> Common(d, u, m)
  <2>1. ASSUME Divides(d, m) PROVE Divides(d, w)
    <3>1. PICK q \in Int : m = d * q
      BY <1>3, <2>1, DividesMeans
    <3>2. (d * q) * 2 ^ e = d * (q * 2 ^ e) /\ q * 2 ^ e \in Int
      BY <1>2
    <3>3. w = d * (q * 2 ^ e)
      BY <3>1, <3>2
    <3>. QED
      BY <1>2, <1>3, <3>2, <3>3, DividesMeans
  <2>2. Divides(d, u) /\ Divides(d, w) => Divides(d, m)
    BY <1>1, <1>3, OddDivisor
  <2>. QED
    BY <2>1, <2>2 DEF Common
<1>. HIDE DEF w
<1>4. IsGcd(g, u, w) <=> IsGcd(g, u, m)
  BY <1>2, <1>3, SameGcd
<1>. QED
  BY <1>4 DEF w

(* The greatest common divisor of two numbers, from that of their odd      *)
(* parts.                                                                  *)
LEMMA GcdOfOddParts ==
  ASSUME NEW x \in Nat, x % 2 = 1, NEW y \in Nat, y % 2 = 1, NEW i \in Nat, NEW j \in Nat,
         NEW g \in Nat, IsGcd(g, x, y)
  PROVE  IsGcd(g * 2 ^ MinOf(i, j), x * 2 ^ i, y * 2 ^ j)
<1>. DEFINE k == MinOf(i, j)
            a == x * 2 ^ i
            b == y * 2 ^ j
<1>1. k \in Nat /\ k <= i /\ k <= j /\ (k = i \/ k = j)
  BY DEF MinOf
<1>2. /\ 2 ^ i \in Nat /\ 2 ^ j \in Nat /\ 2 ^ k \in Nat
      /\ 2 ^ i > 0 /\ 2 ^ j > 0 /\ 2 ^ k > 0
  BY <1>1, TwoTo
<1>3. x > 0 /\ y > 0 /\ \A c, e \in Nat : c > 0 /\ e > 0 => c * e > 0 /\ c * e \in Nat
  OBVIOUS
<1>4. a \in Nat /\ b \in Nat /\ a > 0 /\ b > 0
  BY <1>2, <1>3
<1>5. g > 0 /\ Divides(g, x) /\ Divides(g, y)
        /\ \A d \in Nat : d > 0 /\ Common(d, x, y) => d <= g
  BY <1>3, GcdMeans DEF Common
<1>6. ASSUME NEW z \in Nat, Divides(g, z), NEW e \in Nat, k <= e
      PROVE  Divides(g * 2 ^ k, z * 2 ^ e)
  <2>1. PICK q \in Int : z = g * q
    BY <1>5, <1>6, DividesMeans
  <2>2. 2 ^ e = 2 ^ k * 2 ^ (e - k) /\ 2 ^ (e - k) \in Nat
    <3>1. k \in Nat /\ k <= e
      BY <1>1, <1>6
    <3>. HIDE DEF k
    <3>. QED
      BY <3>1, TwoToMonotone
  <2>. DEFINE s == 2 ^ k
              t == 2 ^ (e - k)
  <2>3. s \in Nat /\ t \in Nat
    BY <1>2, <2>2
  <2>4. z * 2 ^ e = (g * q) * (s * t)
    BY <2>1, <2>2
  <2>5. g * s > 0 /\ g * s \in Nat
    BY <1>2, <1>3, <1>5
  <2>. HIDE DEF s, t, k
  <2>6. (g * q) * (s * t) = (g * s) * (q * t) /\ q * t \in Int
    BY <2>3
  <2>7. Divides(g * s, (g * s) * (q * t))
    <3>. DEFINE d == g * s
                r == q * t
                n == d * r
    <3>1. d \in Nat /\ d > 0 /\ r \in Int
      BY <2>5, <2>6
    <3>. HIDE DEF d, r
    <3>2. n \in Int /\ n = d * r
      BY <3>1
    <3>. HIDE DEF n
    <3>3. Divides(d, n)
      BY <3>1, <3>2, DividesMeans
    <3>. QED
      BY <3>3 DEF n, d, r
  <2>8. Divides(g * s, z * 2 ^ e)
    BY <2>4, <2>6, <2>7
  <2>. QED
    BY <2>8 DEF s
<1>7. Common(g * 2 ^ k, a, b)
  BY <1>1, <1>5, <1>6 DEF Common
<1>8. ASSUME NEW d \in Nat, d > 0, Common(d, a, b) PROVE d <= g * 2 ^ k
  <2>1. PICK s \in Nat, e \in Nat : s % 2 = 1 /\ d = s * 2 ^ e
    BY <1>8, OddPart
  <2>2. 2 ^ e \in Nat /\ 2 ^ e > 0 /\ s > 0
    BY <2>1, TwoTo
  <2>3. ASSUME NEW z \in Int, Divides(d, z) PROVE Divides(s, z) /\ Divides(2 ^ e, z)
    <3>1. PICK q \in Int : z = (s * 2 ^ e) * q
      BY <1>8, <2>1, <2>3, DividesMeans
    <3>2. (s * 2 ^ e) * q = s * (2 ^ e * q) /\ 2 ^ e * q \in Int
            /\ (s * 2 ^ e) * q = 2 ^ e * (s * q) /\ s * q \in Int
      BY <2>2
    <3>. QED
      BY <2>2, <3>1, <3>2, DividesMeans
  <2>4. Divides(s, x) /\ Divides(s, y)
    <3>1. Divides(s, a) /\ Divides(s, b)
      BY <1>4, <1>8, <2>3 DEF Common
    <3>2. Divides(s, x * 2 ^ i) /\ Divides(s, y * 2 ^ j)
      BY <3>1
    <3>. HIDE DEF a, b
    <3>3. x \in Int /\ y \in Int
      OBVIOUS
    <3>4. Divides(s, x)
      BY <2>1, <3>2, <3>3, OddDivisor, Zenon
    <3>5. Divides(s, y)
      BY <2>1, <3>2, <3>3, OddDivisor, Zenon
    <3>. QED
      BY <3>4, <3>5
  <2>5. s <= g
    BY <1>5, <2>2, <2>4 DEF Common
  <2>6. e <= i /\ e <= j
    BY <1>4, <1>8, <2>3, TwoPowerDivides DEF Common
  <2>7. 2 ^ e <= 2 ^ k
    BY <1>1, <2>6, TwoToMonotone
  <2>8. \A c1, c2, c3, c4 \in Nat : c1 <= c3 /\ c2 <= c4 => c1 * c2 <= c3 * c4
    <3>1. \A c1, c2, c3 \in Nat : c1 <= c3 => c1 * c2 <= c3 * c2 /\ c2 * c1 <= c2 * c3
      <4>1. \A c1, c2, c3 \in Nat : c1 <= c3 => (c3 - c1) * c2 >= 0
        OBVIOUS
      <4>2. \A c1, c2, c3 \in Nat : (c3 - c1) * c2 = c3 * c2 - c1 * c2
        OBVIOUS
      <4>. QED
        BY <4>1, <4>2
    <3>2. \A c1, c2, c3, c4 \in Nat : c1 <= c3 /\ c2 <= c4 => c1 * c2 <= c3 * c2 /\ c3 * c2 <= c3 * c4
      BY <3>1
    <3>3. \A c1, c2 \in Nat : c1 * c2 \in Nat
      OBVIOUS
    <3>. QED
      BY <3>2, <3>3
  <2>9. s * 2 ^ e <= g * 2 ^ k
    BY <1>2, <2>2, <2>5, <2>7, <2>8
  <2>. QED
    BY <2>1, <2>9
<1>9. g * 2 ^ k > 0 /\ g * 2 ^ k \in Nat
  BY <1>2, <1>3, <1>5
<1>. HIDE DEF a, b, k
<1>10. IsGcd(g * 2 ^ k, a, b)
  BY <1>4, <1>7, <1>8, <1>9, GcdMeans
<1>. QED
  BY <1>10 DEF a, b, k

(* The product of a number and another one divided by their greatest       *)
(* common divisor is the least number that both divide.                    *)
LEMMA Cancel ==
  ASSUME NEW a \in Int, a > 0, NEW b \in Int, NEW c \in Int, a * b = a * c
  PROVE  b = c
OBVIOUS

LEMMA LeastMultiple ==
  ASSUME NEW s \in Nat, s > 0, NEW l \in Nat, l > 0, NEW g \in Int, IsGcd(g, s, l)
  PROVE  /\ l * (s \div g) \in Nat /\ l * (s \div g) > 0
         /\ Divides(s, l * (s \div g)) /\ Divides(l, l * (s \div g))
         /\ \A d \in Nat : d > 0 /\ Divides(s, d) /\ Divides(l, d) => l * (s \div g) <= d
<1>. DEFINE p == s \div g
            c == l * p
            T == {d \in Nat : d > 0 /\ Divides(s, d) /\ Divides(l, d)}
<1>1. g \in Nat /\ g > 0 /\ Divides(g, s) /\ Divides(g, l)
  BY GcdMeans DEF Common
<1>2. p \in Int /\ s = g * p
  BY <1>1, Division DEF Divides
<1>3. PICK q \in Int : l = g * q
  <2>1. g \in Nat /\ g > 0 /\ Divides(g, l) /\ l \in Int
    BY <1>1
  <2>. QED
    BY <2>1, DividesMeans, Zenon
<1>4. \A a, b \in Int : a > 0 /\ a * b > 0 => b > 0
  <2>1. \A a, b \in Nat : a * (- b) <= 0
    OBVIOUS
  <2>2. \A b \in Int : b <= 0 => - b \in Nat /\ - (- b) = b
    OBVIOUS
  <2>. QED
    BY <2>1, <2>2
<1>5. p > 0 /\ q > 0
  BY <1>1, <1>2, <1>3, <1>4
<1>. HIDE DEF p
<1>6. c \in Nat /\ c > 0 /\ c = s * q
  <2>1. (g * q) * p = (g * p) * q
    BY <1>1, <1>2
  <2>2. \A a, b \in Int : a > 0 /\ b > 0 => a * b > 0 /\ a * b \in Nat
    OBVIOUS
  <2>. QED
    BY <1>2, <1>3, <1>5, <2>1, <2>2
<1>7. c \in T
  <2>1. Divides(s, c) /\ Divides(l, c)
    <3>1. c = l * p
      OBVIOUS
    <3>. HIDE DEF c
    <3>. QED
      BY <1>2, <1>6, <3>1, DividesMeans
  <2>. QED
    BY <1>6, <2>1
<1>. HIDE DEF c
<1>8. PICK e \in T : \A d \in T : e <= d
  <2>1. T # {} /\ T \subseteq Nat
    BY <1>7
  <2>. HIDE DEF T
  <2>. QED
    BY <2>1, LeastElement
<1>9. e \in Nat /\ e > 0 /\ Divides(s, e) /\ Divides(l, e)
  OBVIOUS
<1>. DEFINE k == c \div e
            r == c % e
<1>10. k \in Int /\ r \in 0 .. e - 1 /\ c = e * k + r
  BY <1>6, <1>9, Division
<1>. HIDE DEF k, r
<1>11. r = 0
  <2>1. e * k \in Int /\ c - e * k = r
    BY <1>6, <1>9, <1>10
  <2>2. Divides(s, e * k) /\ Divides(l, e * k)
    <3>1. e \in Int
      BY <1>9
    <3>2. Divides(s, e * k)
      BY <1>9, <1>10, <3>1, DividesProduct, Zenon
    <3>3. Divides(l, e * k)
      BY <1>9, <1>10, <3>1, DividesProduct, Zenon
    <3>. QED
      BY <3>2, <3>3
  <2>. DEFINE t == e * k
  <2>3. t \in Int /\ c - t = r /\ Divides(s, t) /\ Divides(l, t)
    BY <2>1, <2>2
  <2>. HIDE DEF t
  <2>4. Divides(s, c - t) /\ Divides(l, c - t)
    BY <1>6, <1>7, <2>3, DividesSum
  <2>5. r > 0 => r \in T
    BY <1>10, <2>3, <2>4
  <2>. QED
    BY <1>8, <1>9, <1>10, <2>5
<1>12. PICK x \in Int : e = s * x
  BY <1>9, DividesMeans
<1>13. PICK y \in Int : e = l * y
  BY <1>9, DividesMeans
<1>14. p = y * k /\ q = x * k
  <2>1. c = e * k
    BY <1>9, <1>10, <1>11
  <2>2. c = l * p
    BY DEF c
  <2>3. (l * y) * k = l * (y * k) /\ (s * x) * k = s * (x * k) /\ y * k \in Int /\ x * k \in Int
    BY <1>10
  <2>4. l * p = l * (y * k) /\ s * q = s * (x * k)
    BY <1>6, <1>12, <1>13, <2>1, <2>2, <2>3
  <2>. QED
    BY <1>2, <2>3, <2>4, Cancel
<1>15. k > 0
  BY <1>4, <1>6, <1>9, <1>10, <1>11
<1>16. Common(g * k, s, l)
  <2>1. g * (y * k) = (g * k) * y /\ g * (x * k) = (g * k) * x
    BY <1>1, <1>10
  <2>2. s = (g * k) * y /\ l = (g * k) * x
    BY <1>2, <1>3, <1>14, <2>1
  <2>. DEFINE d == g * k
  <2>3. d \in Nat /\ d > 0
    BY <1>1, <1>10, <1>15
  <2>4. s = d * y /\ l = d * x
    BY <2>2
  <2>. HIDE DEF d
  <2>5. Divides(d, s) /\ Divides(d, l)
    BY <2>3, <2>4, DividesMeans
  <2>. QED
    BY <2>5 DEF d, Common
<1>17. g * k <= g
  <2>1. g * k \in Nat /\ g * k > 0
    BY <1>1, <1>10, <1>15
  <2>. QED
    BY <1>16, <2>1, GcdMeans
<1>18. k = 1
  <2>1. \A a, b \in Nat : a > 0 /\ b > 1 => a * b > a
    OBVIOUS
  <2>. QED
    BY <1>1, <1>10, <1>15, <1>17, <2>1
<1>19. c = e
  BY <1>9, <1>10, <1>11, <1>18
<1>. QED
  BY <1>6, <1>7, <1>8, <1>19 DEF c, p

-----------------------------------------------------------------------------
(* The bits and digits of a number.                                        *)
LEMMA CountBitsFacts ==
  ASSUME NEW n \in Nat
  PROVE  /\ mp_count_bits(n) \in Nat
         /\ mp_count_bits(n) = IF n = 0 THEN 0 ELSE 1 + mp_count_bits(n \div 2)
<1>. DEFINE first == [m \in Nat |-> 0]
            prev == [m \in Nat |-> m \div 2]
            next == [p \in Nat \X Nat |-> 1 + p[2]]
            P(p) == p = [m \in Nat |-> IF m = 0 THEN 0 ELSE 1 + p[m \div 2]]
            p0 == CHOOSE p : P(p)
<1>1. PICK f \in [Nat -> Nat] : SolvesAll(f, Nat, {0}, first, prev, next)
  <2>1. first \in [Nat -> Nat] /\ prev \in [Nat -> Nat] /\ next \in [Nat \X Nat -> Nat]
    OBVIOUS
  <2>2. Descends(Nat, {0}, prev)
    BY DEF Descends
  <2>3. Nat \in SUBSET Nat
    OBVIOUS
  <2>. HIDE DEF first, prev, next
  <2>. QED
    BY <2>1, <2>2, <2>3, RecursionSolved
<1>2. ASSUME NEW k \in Nat PROVE f[k] = IF k = 0 THEN 0 ELSE 1 + f[k \div 2]
  <2>1. prev[k] = k \div 2 /\ k \div 2 \in Nat /\ f[k \div 2] \in Nat /\ first[k] = 0
    OBVIOUS
  <2>2. next[<< k, f[k \div 2] >>] = 1 + f[k \div 2]
    BY <2>1
  <2>. HIDE DEF first, prev, next
  <2>. QED
    BY <1>1, <2>1, <2>2 DEF SolvesAll
<1>3. P(f)
  BY <1>2
<1>4. P(p0)
  <2>. HIDE DEF P
  <2>. QED
    BY <1>3
<1>. HIDE DEF p0
<1>5. \A k \in Nat : p0[k] = IF k = 0 THEN 0 ELSE 1 + p0[k \div 2]
  BY <1>4
<1>. DEFINE S == {k \in Nat : p0[k] \in Nat}
<1>6. ASSUME NEW k \in Nat, \A m \in 0 .. k - 1 : m \in S PROVE k \in S
  <2>1. CASE k = 0
    <3>1. p0[k] = 0
      BY <1>5, <2>1
    <3>. QED
      BY <3>1
  <2>2. CASE k # 0
    <3>1. k \div 2 \in 0 .. k - 1
      BY <2>2
    <3>2. p0[k \div 2] \in Nat
      BY <1>6, <3>1
    <3>3. p0[k] = 1 + p0[k \div 2]
      BY <1>5, <2>2
    <3>. QED
      BY <3>2, <3>3
  <2>. QED
    BY <2>1, <2>2
<1>. HIDE DEF S
<1>7. \A k \in Nat : k \in S
  BY <1>6, Below
<1>8. \A k \in Nat : mp_count_bits(k) = p0[k]
  <2>1. \A k \in Nat : Magnitude(k) = k
    BY DEF Magnitude, Sgn
  <2>. QED
    BY <2>1 DEF mp_count_bits, p0
<1>9. n \div 2 \in Nat
  OBVIOUS
<1>. QED
  BY <1>5, <1>7, <1>8, <1>9 DEF S

(* The highest bit set is below the number of bits.                        *)
LEMMA CountBits ==
  ASSUME NEW n \in Nat, n > 0
  PROVE  /\ mp_count_bits(n) \in Nat /\ mp_count_bits(n) > 0
         /\ 2 ^ (mp_count_bits(n) - 1) <= n /\ n < 2 ^ mp_count_bits(n)
<1>. DEFINE S == {k \in Nat : k > 0 => /\ mp_count_bits(k) > 0
                                       /\ 2 ^ (mp_count_bits(k) - 1) <= k /\ k < 2 ^ mp_count_bits(k)}
<1>1. ASSUME NEW k \in Nat, \A m \in 0 .. k - 1 : m \in S PROVE k \in S
  <2>1. CASE k = 0
    BY <2>1
  <2>2. CASE k = 1
    <3>1. 1 \div 2 = 0 /\ 0 \in Nat /\ 1 \in Nat
      OBVIOUS
    <3>2. mp_count_bits(1) = 1 + mp_count_bits(0) /\ mp_count_bits(0) = 0
      BY <3>1, CountBitsFacts
    <3>. DEFINE b == mp_count_bits(k)
                i == b - 1
    <3>3. b = 1 /\ i = 0
      BY <2>2, <3>2
    <3>. HIDE DEF b, i
    <3>4. 2 ^ i = 1 /\ 2 ^ b = 2
      BY <3>3, TwoTo, Zenon
    <3>5. 2 ^ i <= k /\ k < 2 ^ b /\ b > 0
      BY <2>2, <3>3, <3>4
    <3>6. 2 ^ (b - 1) <= k
      BY <3>5 DEF i
    <3>. QED
      BY <3>5, <3>6 DEF b
  <2>3. CASE k > 1
    <3>. DEFINE h == k \div 2
                e == mp_count_bits(h)
    <3>1. h \in 0 .. k - 1 /\ h \in Nat /\ h > 0 /\ 2 * h <= k /\ k <= 2 * h + 1
      BY <2>3
    <3>2. mp_count_bits(k) = 1 + e /\ e \in Nat
      BY <2>3, <3>1, CountBitsFacts
    <3>3. e > 0 /\ 2 ^ (e - 1) <= h /\ h < 2 ^ e
      BY <1>1, <3>1
    <3>. HIDE DEF h, e
    <3>4. e - 1 \in Nat /\ (e - 1) + 1 = e /\ (1 + e) - 1 = e /\ 1 + e = e + 1
      BY <3>2, <3>3
    <3>5. 2 ^ e = 2 * 2 ^ (e - 1) /\ 2 ^ (e + 1) = 2 * 2 ^ e /\ 2 ^ (e - 1) \in Nat /\ 2 ^ e \in Nat
      BY <3>2, <3>4, TwoTo
    <3>6. 2 ^ e <= k /\ k < 2 ^ (e + 1)
      BY <3>1, <3>3, <3>5
    <3>. DEFINE b == mp_count_bits(k)
    <3>7. b > 0 /\ b = e + 1 /\ b - 1 = e
      BY <3>2
    <3>. HIDE DEF b
    <3>8. 2 ^ (b - 1) <= k /\ k < 2 ^ b
      BY <3>6, <3>7
    <3>. QED
      BY <3>7, <3>8 DEF b
  <2>. QED
    BY <2>1, <2>2, <2>3
<1>. HIDE DEF S
<1>2. \A k \in Nat : k \in S
  BY <1>1, Below
<1>. QED
  BY <1>2, CountBitsFacts DEF S

LEMMA CountBitsUnique ==
  ASSUME NEW n \in Nat, n > 0, NEW k \in Nat, 2 ^ k <= n, n < 2 ^ (k + 1)
  PROVE  mp_count_bits(n) = k + 1
<1>. DEFINE b == mp_count_bits(n)
<1>1. b \in Nat /\ b > 0 /\ 2 ^ (b - 1) <= n /\ n < 2 ^ b
  BY CountBits
<1>. HIDE DEF b
<1>2. 2 ^ b \in Nat /\ 2 ^ (b - 1) \in Nat /\ 2 ^ k \in Nat /\ 2 ^ (k + 1) \in Nat
  BY <1>1, TwoTo
<1>3. ~ (b <= k)
  <2>1. SUFFICES ASSUME b <= k PROVE FALSE
    OBVIOUS
  <2>2. 2 ^ b <= 2 ^ k
    BY <1>1, <2>1, TwoToMonotone
  <2>. QED
    BY <1>1, <1>2, <2>2
<1>4. ~ (k + 1 <= b - 1)
  <2>1. SUFFICES ASSUME k + 1 <= b - 1 PROVE FALSE
    OBVIOUS
  <2>2. k + 1 \in Nat /\ b - 1 \in Nat
    BY <1>1
  <2>3. 2 ^ (k + 1) <= 2 ^ (b - 1)
    BY <2>1, <2>2, TwoToMonotone
  <2>. QED
    BY <1>1, <1>2, <2>3
<1>. QED
  BY <1>1, <1>3, <1>4 DEF b

(* Shifting a number to the left adds bits.                                *)
LEMMA CountBitsShifted ==
  ASSUME NEW n \in Nat, n > 0, NEW e \in Nat
  PROVE  /\ n * 2 ^ e \in Nat /\ n * 2 ^ e > 0
         /\ mp_count_bits(n * 2 ^ e) = mp_count_bits(n) + e
<1>. DEFINE b == mp_count_bits(n)
            k == b - 1
            s == 2 ^ e
            m == n * s
<1>1. b \in Nat /\ k \in Nat /\ 2 ^ k <= n /\ n < 2 ^ b /\ b = k + 1
  <2>1. b \in Nat /\ b > 0 /\ 2 ^ (b - 1) <= n /\ n < 2 ^ b
    BY CountBits
  <2>. QED
    BY <2>1
<1>2. s \in Nat /\ s > 0
  BY TwoTo
<1>. HIDE DEF b, k
<1>3. 2 ^ (k + e) = 2 ^ k * s /\ 2 ^ (b + e) = 2 ^ b * s /\ 2 ^ k \in Nat /\ 2 ^ b \in Nat
  BY <1>1, TwoToSum, TwoTo
<1>. HIDE DEF s
<1>4. \A x, y, z \in Nat : z > 0 => (x <= y => x * z <= y * z) /\ (x < y => x * z < y * z)
  OBVIOUS
<1>5. 2 ^ k * s <= m /\ m < 2 ^ b * s /\ m \in Nat /\ m > 0
  <2>1. n * s > 0
    BY <1>2
  <2>. QED
    BY <1>1, <1>2, <1>3, <1>4, <2>1
<1>. HIDE DEF m
<1>6. k + e \in Nat /\ b + e = (k + e) + 1
  BY <1>1
<1>7. mp_count_bits(m) = (k + e) + 1
  BY <1>3, <1>5, <1>6, CountBitsUnique
<1>. QED
  BY <1>5, <1>6, <1>7 DEF m, s, b

LEMMA Weights ==
  /\ Radix \in Nat /\ Radix >= 4 /\ Weight(0) = 1
  /\ \A i \in Nat : Weight(i) \in Nat /\ Weight(i) > 0 /\ Weight(i + 1) = Weight(i) * Radix
<1>. DEFINE w == MP_DIGIT_BIT
<1>1. w \in Nat /\ w >= 2 /\ w * 0 = 0
  BY DigitBitAssumption
<1>. HIDE DEF w
<1>2. 2 ^ w \in Nat /\ 2 ^ w >= 4
  <2>1. 1 + 1 = 2 /\ 1 \in Nat
    OBVIOUS
  <2>2. 2 ^ (1 + 1) = 2 * 2 ^ 1 /\ 2 ^ 1 = 2
    BY <2>1, TwoTo
  <2>3. 2 ^ 2 <= 2 ^ w /\ 2 ^ w \in Nat
    BY <1>1, TwoToMonotone, TwoTo
  <2>. QED
    BY <2>1, <2>2, <2>3
<1>3. ASSUME NEW i \in Nat
      PROVE  Weight(i) \in Nat /\ Weight(i) > 0 /\ Weight(i + 1) = Weight(i) * Radix
  <2>. DEFINE e == w * i
  <2>1. e \in Nat /\ w * (i + 1) = e + w
    BY <1>1
  <2>. HIDE DEF e
  <2>2. 2 ^ (e + w) = 2 ^ e * 2 ^ w /\ 2 ^ e \in Nat /\ 2 ^ e > 0
    BY <1>1, <2>1, TwoToSum, TwoTo
  <2>. QED
    BY <2>1, <2>2 DEF Weight, Radix, w, e
<1>4. Weight(0) = 1
  BY <1>1, TwoTo DEF Weight, w
<1>. QED
  BY <1>2, <1>3, <1>4 DEF Radix, w

LEMMA WeightSum ==
  ASSUME NEW i \in Nat, NEW j \in Nat
  PROVE  Weight(i + j) = Weight(i) * Weight(j)
<1>. DEFINE w == MP_DIGIT_BIT
            e == w * i
            f == w * j
<1>1. w \in Nat
  BY DigitBitAssumption
<1>. HIDE DEF w
<1>2. e \in Nat /\ f \in Nat /\ w * (i + j) = e + f
  BY <1>1
<1>. HIDE DEF e, f
<1>3. 2 ^ (e + f) = 2 ^ e * 2 ^ f
  BY <1>2, TwoToSum
<1>. QED
  BY <1>2, <1>3 DEF Weight, w, e, f

LEMMA WeightMonotone ==
  ASSUME NEW i \in Nat, NEW j \in Nat, i <= j
  PROVE  /\ Weight(i) <= Weight(j)
         /\ j - i \in Nat /\ Weight(j) = Weight(i) * Weight(j - i)
<1>1. j - i \in Nat /\ i + (j - i) = j
  OBVIOUS
<1>2. Weight(i + (j - i)) = Weight(i) * Weight(j - i)
  BY <1>1, WeightSum
<1>3. Weight(i) \in Nat /\ Weight(j - i) \in Nat /\ Weight(j - i) > 0
  BY <1>1, Weights
<1>4. \A x, y \in Nat : y > 0 => x <= x * y
  OBVIOUS
<1>. QED
  BY <1>1, <1>2, <1>3, <1>4

(* The digits that are used.                                               *)
LEMMA UsedFacts ==
  ASSUME NEW n \in Nat
  PROVE  /\ Used(n) \in Nat /\ n < Weight(Used(n))
         /\ n > 0 => Used(n) > 0 /\ Weight(Used(n) - 1) <= n
<1>. DEFINE w == MP_DIGIT_BIT
            b == mp_count_bits(n)
            u == Used(n)
            c == b + w - 1
            p == w * u
<1>1. w \in Nat /\ w >= 2 /\ b \in Nat
  BY DigitBitAssumption, CountBitsFacts
<1>2. u = c \div w
  BY DEF Used
<1>3. c \in Nat
  BY <1>1
<1>. HIDE DEF w, b, u, c
<1>4. u \in Int /\ c % w \in 0 .. w - 1 /\ c = w * u + (c % w)
  BY <1>1, <1>2, <1>3, Division
<1>5. p \in Int /\ w * (u - 1) = p - w
  BY <1>1, <1>4
<1>. HIDE DEF p
<1>6. b <= p /\ p - w <= b - 1
  BY <1>1, <1>4 DEF c, p
<1>7. u \in Nat /\ (b > 0 => u > 0)
  <2>1. ASSUME u <= -1 PROVE FALSE
    <3>1. w * u <= - w
      <4>1. \A x \in Nat, y \in Int : y <= -1 => x * y <= - x
        OBVIOUS
      <4>. QED
        BY <1>1, <1>4, <2>1, <4>1
    <3>2. p <= - w
      BY <3>1 DEF p
    <3>. QED
      BY <1>1, <1>5, <1>6, <3>2
  <2>2. u = 0 => p = 0
    BY <1>1 DEF p
  <2>. QED
    BY <1>1, <1>4, <1>6, <2>1, <2>2
<1>8. CASE n = 0
  <2>1. Weight(u) \in Nat /\ Weight(u) > 0
    BY <1>7, Weights
  <2>. QED
    BY <1>7, <1>8, <2>1 DEF u
<1>9. CASE n # 0
  <2>1. b > 0 /\ 2 ^ (b - 1) <= n /\ n < 2 ^ b
    BY <1>9, CountBits DEF b
  <2>. DEFINE e == p - w
              f == b - 1
  <2>2. u > 0 /\ p \in Nat /\ e \in Nat /\ f \in Nat /\ e <= f /\ 2 ^ f <= n
    <3>1. \A x, y \in Nat : x * y \in Nat
      OBVIOUS
    <3>2. u - 1 \in Nat /\ e = w * (u - 1)
      BY <1>5, <1>7, <2>1
    <3>3. p \in Nat /\ e \in Nat
      BY <1>1, <1>7, <3>1, <3>2 DEF p
    <3>. QED
      BY <1>1, <1>6, <1>7, <2>1, <3>3
  <2>3. 2 ^ b <= 2 ^ p /\ 2 ^ b \in Nat /\ 2 ^ p \in Nat
    BY <1>1, <1>6, <2>2, TwoToMonotone, TwoTo
  <2>. HIDE DEF e, f
  <2>4. 2 ^ e <= 2 ^ f /\ 2 ^ e \in Nat /\ 2 ^ f \in Nat
    BY <2>2, TwoToMonotone, TwoTo
  <2>5. n < 2 ^ p /\ 2 ^ e <= n
    BY <2>1, <2>2, <2>3, <2>4
  <2>6. Weight(u) = 2 ^ p
    BY DEF Weight, w, p
  <2>7. Weight(u - 1) = 2 ^ e
    <3>1. e = w * (u - 1)
      BY <1>5 DEF e
    <3>. QED
      BY <3>1 DEF Weight, w
  <2>. QED
    BY <1>7, <2>2, <2>5, <2>6, <2>7 DEF u
<1>. QED
  BY <1>8, <1>9

LEMMA UsedLess ==
  ASSUME NEW n \in Nat, NEW i \in Nat
  PROVE  n < Weight(i) <=> Used(n) <= i
<1>. DEFINE u == Used(n)
<1>1. u \in Nat /\ n < Weight(u) /\ (n > 0 => u > 0 /\ Weight(u - 1) <= n)
  BY UsedFacts
<1>. HIDE DEF u
<1>2. Weight(u) \in Nat /\ Weight(i) \in Nat /\ Weight(i) > 0
  BY <1>1, Weights
<1>3. ASSUME u <= i PROVE n < Weight(i)
  BY <1>1, <1>2, <1>3, WeightMonotone
<1>4. ASSUME n < Weight(i), ~ (u <= i) PROVE FALSE
  <2>1. CASE n > 0
    <3>1. u - 1 \in Nat /\ i <= u - 1
      BY <1>1, <1>4
    <3>2. Weight(i) <= Weight(u - 1) /\ Weight(u - 1) \in Nat
      BY <3>1, WeightMonotone, Weights
    <3>. QED
      BY <1>1, <1>2, <1>4, <2>1, <3>2
  <2>2. CASE n = 0
    <3>1. Used(0) = 0
      <4>1. mp_count_bits(0) = 0 /\ 0 \in Nat
        BY CountBitsFacts
      <4>2. MP_DIGIT_BIT \in Nat /\ MP_DIGIT_BIT > 1
        BY DigitBitAssumption
      <4>3. (0 + MP_DIGIT_BIT - 1) \div MP_DIGIT_BIT = 0
        BY <4>2
      <4>. QED
        BY <4>1, <4>3 DEF Used
    <3>. QED
      BY <1>4, <2>2, <3>1 DEF u
  <2>. QED
    BY <2>1, <2>2
<1>. QED
  BY <1>1, <1>3, <1>4 DEF u

-----------------------------------------------------------------------------
LEMMA DivTwice ==
  ASSUME NEW n \in Nat, NEW s \in Nat, s > 0, NEW t \in Nat, t > 0
  PROVE  /\ s * t \in Nat /\ s * t > 0
         /\ n \div (s * t) = (n \div s) \div t
<1>. DEFINE q == n \div s
            r == n % s
            i == q \div t
            j == q % t
            st == s * t
            k == s * j + r
<1>1. q \in Int /\ r \in 0 .. s - 1 /\ n = s * q + r
  BY Division
<1>. HIDE DEF q, r
<1>2. i \in Int /\ j \in 0 .. t - 1 /\ q = t * i + j
  BY <1>1, Division
<1>. HIDE DEF i, j
<1>3. st \in Nat /\ st > 0
  BY DEF st
<1>4. n = st * i + k
  <2>1. s * (t * i + j) + r = s * t * i + (s * j + r)
    BY <1>1, <1>2
  <2>. QED
    BY <1>1, <1>2, <2>1
<1>5. k \in 0 .. st - 1
  <2>1. \A x, y, z \in Nat : y <= z - 1 => x * y <= x * z - x
    <3>1. ASSUME NEW x \in Nat, NEW y \in Nat, NEW z \in Nat, y <= z - 1
          PROVE  x * y <= x * z - x
      <4>1. z - 1 - y \in Nat /\ x * (z - 1 - y) = x * z - x - x * y /\ x * (z - 1 - y) \in Nat
        BY <3>1
      <4>2. x * z \in Int /\ x * y \in Int
        OBVIOUS
      <4>. QED
        BY <4>1, <4>2
    <3>. QED
      BY <3>1
  <2>2. s * j <= st - s
    BY <1>2, <2>1
  <2>3. s * j \in Nat
    BY <1>2
  <2>. HIDE DEF st
  <2>. QED
    BY <1>1, <1>3, <2>2, <2>3
<1>. HIDE DEF k, st
<1>6. n \div st = i
  BY <1>2, <1>3, <1>4, <1>5, DivisionUnique
<1>. QED
  BY <1>3, <1>6 DEF st, i, q

LEMMA DivCancel ==
  ASSUME NEW n \in Nat, NEW s \in Nat, s > 0, NEW t \in Nat, t > 0
  PROVE  (n * t) \div (s * t) = n \div s
<1>. DEFINE m == n * t
<1>1. m \in Nat
  OBVIOUS
<1>2. m \div t = n
  <2>1. t * n + 0 = m /\ 0 \in 0 .. t - 1 /\ n \in Int
    OBVIOUS
  <2>2. (t * n + 0) \div t = n
    BY <2>1, DivisionUnique, Zenon
  <2>. QED
    BY <2>1, <2>2
<1>. HIDE DEF m
<1>3. m \div (t * s) = (m \div t) \div s
  BY <1>1, DivTwice
<1>4. t * s = s * t
  OBVIOUS
<1>. QED
  BY <1>2, <1>3, <1>4 DEF m

LEMMA Digits ==
  ASSUME NEW n \in Nat, NEW i \in Nat
  PROVE  /\ Digit(n, i) \in 0 .. Radix - 1
         /\ n \div Weight(i) \in Nat
         /\ n \div Weight(i) = (n \div Weight(i + 1)) * Radix + Digit(n, i)
         /\ n < Weight(i + 1) => Digit(n, i) = n \div Weight(i)
<1>. DEFINE w == Weight(i)
            q == n \div w
<1>1. /\ w \in Nat /\ w > 0 /\ Weight(i + 1) = w * Radix
      /\ Radix \in Nat /\ Radix > 0
  BY Weights
<1>2. Digit(n, i) = q % Radix
  BY MagnitudeProperties DEF Digit
<1>. HIDE DEF w
<1>3. q \in Nat
  BY <1>1
<1>4. n \div Weight(i + 1) = q \div Radix
  BY <1>1, DivTwice
<1>5. /\ q \div Radix \in Int /\ q % Radix \in 0 .. Radix - 1
      /\ q = Radix * (q \div Radix) + (q % Radix)
  <2>. HIDE DEF q
  <2>. QED
    BY <1>1, <1>3, Division
<1>6. ASSUME n < Weight(i + 1) PROVE q % Radix = q
  <2>1. n \div Weight(i + 1) = 0
    <3>. DEFINE x == Weight(i + 1)
    <3>1. x \in Nat /\ x > 0 /\ n < x
      BY <1>6, Weights
    <3>. HIDE DEF x
    <3>2. n \div x = 0
      BY <3>1
    <3>. QED
      BY <3>2 DEF x
  <2>2. q \div Radix = 0
    BY <1>4, <2>1
  <2>. HIDE DEF q
  <2>. QED
    BY <1>1, <1>3, <1>5, <2>2
<1>7. q = (q \div Radix) * Radix + (q % Radix)
  <2>. HIDE DEF q
  <2>. QED
    BY <1>1, <1>5
<1>. QED
  BY <1>2, <1>3, <1>4, <1>5, <1>6, <1>7 DEF w

(* The two and the three digits at the top of a number, which may reach    *)
(* below the first.                                                        *)
LEMMA TopDigits ==
  ASSUME NEW n \in Nat, NEW i \in Nat, n < Weight(i + 1)
  PROVE  /\ Digit(n, i) * Radix + Digit(n, i - 1) = (n * Radix) \div Weight(i)
         /\ i > 0 => /\ Digit(n, i) * Radix + Digit(n, i - 1) = n \div Weight(i - 1)
                     /\ (Digit(n, i) * Radix + Digit(n, i - 1)) * Radix + Digit(n, i - 2)
                          = (n * Radix) \div Weight(i - 1)
<1>1. Radix \in Nat /\ Radix > 0 /\ n * Radix \in Nat /\ Weight(0) = 1
  BY Weights
<1>2. Digit(n, i) = n \div Weight(i) /\ Digit(n, i) \in Nat
  BY <1>1, Digits
<1>3. ASSUME NEW k \in Nat, k > 0
      PROVE  (n * Radix) \div Weight(k) = n \div Weight(k - 1)
  <2>1. k - 1 \in Nat /\ (k - 1) + 1 = k
    BY <1>3
  <2>2. Weight(k) = Weight(k - 1) * Radix /\ Weight(k - 1) \in Nat /\ Weight(k - 1) > 0
    BY <2>1, Weights
  <2>. QED
    BY <1>1, <2>2, DivCancel
<1>4. ASSUME i > 0
      PROVE  Digit(n, i) * Radix + Digit(n, i - 1) = n \div Weight(i - 1)
  <2>1. i - 1 \in Nat /\ (i - 1) + 1 = i
    BY <1>4
  <2>2. n \div Weight(i - 1) = (n \div Weight(i)) * Radix + Digit(n, i - 1)
    BY <2>1, Digits
  <2>. QED
    BY <1>2, <2>2
<1>5. Digit(n, i) * Radix + Digit(n, i - 1) = (n * Radix) \div Weight(i)
  <2>1. CASE i = 0
    <3>1. Digit(n, i - 1) = 0
      BY <2>1 DEF Digit
    <3>2. Digit(n, i) = n /\ (n * Radix) \div Weight(i) = n * Radix
      BY <1>1, <1>2, <2>1
    <3>. QED
      BY <1>1, <3>1, <3>2
  <2>2. CASE i > 0
    BY <1>3, <1>4, <2>2
  <2>. QED
    BY <2>1, <2>2
<1>6. ASSUME i > 0
      PROVE  (Digit(n, i) * Radix + Digit(n, i - 1)) * Radix + Digit(n, i - 2)
               = (n * Radix) \div Weight(i - 1)
  <2>. DEFINE m == Digit(n, i) * Radix + Digit(n, i - 1)
  <2>1. m = n \div Weight(i - 1)
    BY <1>4, <1>6
  <2>. HIDE DEF m
  <2>2. CASE i = 1
    <3>1. Digit(n, i - 2) = 0
      BY <2>2 DEF Digit
    <3>2. m = n /\ (n * Radix) \div Weight(i - 1) = n * Radix
      BY <1>1, <2>1, <2>2
    <3>. QED
      BY <1>1, <3>1, <3>2 DEF m
  <2>3. CASE i > 1
    <3>1. i - 1 \in Nat /\ i - 1 > 0 /\ (i - 1) - 1 = i - 2 /\ i - 2 \in Nat /\ (i - 2) + 1 = i - 1
      BY <2>3
    <3>2. (n * Radix) \div Weight(i - 1) = n \div Weight(i - 2)
      <4>1. (n * Radix) \div Weight(i - 1) = n \div Weight((i - 1) - 1)
        BY <1>3, <3>1
      <4>. QED
        BY <3>1, <4>1
    <3>3. n \div Weight(i - 2) = (n \div Weight(i - 1)) * Radix + Digit(n, i - 2)
      <4>1. n \div Weight(i - 2) = (n \div Weight((i - 2) + 1)) * Radix + Digit(n, i - 2)
        BY <3>1, Digits
      <4>. QED
        BY <3>1, <4>1
    <3>. QED
      BY <2>1, <3>2, <3>3 DEF m
  <2>. QED
    BY <1>6, <2>2, <2>3
<1>. QED
  BY <1>4, <1>5, <1>6

-----------------------------------------------------------------------------
(* Congruences.                                                            *)
Congruent(p, x, y) == Divides(p, x - y)

LEMMA CongruentSame ==
  ASSUME NEW p \in Nat, p > 0, NEW x \in Int
  PROVE  Congruent(p, x, x) /\ x % p \in 0 .. p - 1 /\ Congruent(p, x % p, x)
<1>1. x - x = 0
  OBVIOUS
<1>2. Congruent(p, x, x)
  BY <1>1, DividesItself DEF Congruent
<1>3. x % p \in 0 .. p - 1 /\ x \div p \in Int /\ x = p * (x \div p) + (x % p)
  BY Division
<1>. DEFINE q == x \div p
            r == x % p
<1>4. - q \in Int /\ p * q = - (p * (- q)) /\ p * (- q) \in Int
  BY <1>3
<1>. HIDE DEF q, r
<1>5. r - x = p * (- q) /\ r - x \in Int
  <2>1. r \in Int /\ x = p * q + r
    BY <1>3 DEF q, r
  <2>. DEFINE m == p * q
              n == p * (- q)
  <2>2. m = - n /\ n \in Int /\ x = m + r
    BY <1>4, <2>1
  <2>. HIDE DEF m, n
  <2>3. r - x = n /\ r - x \in Int
    BY <2>1, <2>2
  <2>. QED
    BY <2>3 DEF n
<1>6. Divides(p, r - x)
  BY <1>4, <1>5, DividesMeans
<1>. QED
  BY <1>2, <1>3, <1>6 DEF Congruent, r

LEMMA CongruentSwap ==
  ASSUME NEW p \in Nat, p > 0, NEW x \in Int, NEW y \in Int, Congruent(p, x, y)
  PROVE  Congruent(p, y, x)
<1>1. x - y \in Int /\ y - x = (x - y) * (-1)
  OBVIOUS
<1>2. Divides(p, (x - y) * (-1))
  BY <1>1, DividesProduct DEF Congruent
<1>. QED
  BY <1>1, <1>2 DEF Congruent

LEMMA CongruentTrans ==
  ASSUME NEW p \in Nat, p > 0, NEW x \in Int, NEW y \in Int, NEW z \in Int,
         Congruent(p, x, y), Congruent(p, y, z)
  PROVE  Congruent(p, x, z)
<1>1. x - y \in Int /\ y - z \in Int /\ (x - y) + (y - z) = x - z
  OBVIOUS
<1>2. Divides(p, (x - y) + (y - z))
  BY <1>1, DividesSum DEF Congruent
<1>. QED
  BY <1>1, <1>2 DEF Congruent

LEMMA CongruentProduct ==
  ASSUME NEW p \in Nat, p > 0, NEW x \in Int, NEW y \in Int, NEW u \in Int, NEW v \in Int,
         Congruent(p, x, y), Congruent(p, u, v)
  PROVE  Congruent(p, x * u, y * v)
<1>1. x - y \in Int /\ u - v \in Int
  OBVIOUS
<1>2. Divides(p, (x - y) * u) /\ Divides(p, y * (u - v))
  BY <1>1, DividesProduct DEF Congruent
<1>3. (x - y) * u \in Int /\ y * (u - v) \in Int
  OBVIOUS
<1>4. (x - y) * u + y * (u - v) = x * u - y * v
  OBVIOUS
<1>5. Divides(p, (x - y) * u + y * (u - v))
  BY <1>2, <1>3, DividesSum
<1>. QED
  BY <1>4, <1>5 DEF Congruent

(* Two residues are congruent only if they are equal.                      *)
LEMMA CongruentResidues ==
  ASSUME NEW p \in Nat, p > 0, NEW x \in 0 .. p - 1, NEW y \in 0 .. p - 1, Congruent(p, x, y)
  PROVE  x = y
<1>1. x - y \in Int /\ - p < x - y /\ x - y < p
  OBVIOUS
<1>2. PICK q \in Int : x - y = p * q
  BY <1>1, DividesMeans DEF Congruent
<1>3. q = 0
  BY <1>1, <1>2, SmallMultiple
<1>. QED
  BY <1>2, <1>3

(* PowMod computes the residue of Power.                                   *)
LEMMA PowModIsPower ==
  ASSUME NEW p \in Nat, p > 0, NEW n \in Int, NEW e \in Nat
  PROVE  PowMod(n, e, p) \in 0 .. p - 1 /\ Congruent(p, PowMod(n, e, p), Power(n, e))
<1>. DEFINE D == 0 .. e
            R == 0 .. p - 1
            step(k, h) == IF IsEven(k) THEN (h * h) % p ELSE (((h * h) % p) * (n % p)) % p
            first == [k \in D |-> 1 % p]
            prev == [k \in D |-> k \div 2]
            next == [c \in D \X R |-> step(c[1], c[2])]
            P(f) == f = [k \in D |-> IF k = 0 THEN 1 % p ELSE step(k, f[k \div 2])]
            p0 == CHOOSE f : P(f)
<1>1. \A k \in D : k \in Nat /\ k \div 2 \in D /\ (k # 0 => k \div 2 < k)
  OBVIOUS
<1>2. \A x \in Int : x % p \in R
  BY Division
<1>3. \A k \in D, h \in R : step(k, h) \in R
  <2>. SUFFICES ASSUME NEW k \in D, NEW h \in R PROVE step(k, h) \in R
    OBVIOUS
  <2>1. h * h \in Int /\ n % p \in Int
    BY <1>2
  <2>2. (h * h) % p \in Int
    BY <1>2, <2>1
  <2>3. ((h * h) % p) * (n % p) \in Int
    BY <2>1, <2>2
  <2>. QED
    BY <1>2, <2>1, <2>2, <2>3
<1>4. 1 % p \in R
  BY <1>2
<1>0. \A x \in Int : x % p \in R /\ x % p \in Int /\ Congruent(p, x % p, x)
  <2>1. \A x \in Int : x % p \in 0 .. p - 1 /\ Congruent(p, x % p, x)
    BY CongruentSame
  <2>2. \A r \in R : r \in Int
    OBVIOUS
  <2>. QED
    BY <2>1, <2>2, Zenon
<1>5. PICK f \in [D -> R] : SolvesAll(f, D, {0}, first, prev, next)
  <2>1. first \in [D -> R] /\ prev \in [D -> D] /\ next \in [D \X R -> R]
    <3>. HIDE DEF step, R, D
    <3>. QED
      BY <1>1, <1>3, <1>4
  <2>2. Descends(D, {0}, prev)
    BY <1>1 DEF Descends
  <2>3. D \in SUBSET Nat
    OBVIOUS
  <2>. HIDE DEF first, prev, next, D, R
  <2>. QED
    BY <2>1, <2>2, <2>3, RecursionSolved
<1>. HIDE DEF step, R
<1>6. ASSUME NEW k \in D PROVE f[k] = IF k = 0 THEN 1 % p ELSE step(k, f[k \div 2])
  <2>1. prev[k] = k \div 2 /\ k \div 2 \in D /\ f[k \div 2] \in R /\ first[k] = 1 % p
    BY <1>1, <1>5
  <2>2. next[<< k, f[k \div 2] >>] = step(k, f[k \div 2])
    BY <2>1
  <2>. HIDE DEF first, prev, next
  <2>. QED
    BY <1>5, <2>1, <2>2 DEF SolvesAll
<1>7. P(f)
  BY <1>5, <1>6
<1>8. P(p0)
  <2>. HIDE DEF P
  <2>. QED
    BY <1>7
<1>. HIDE DEF p0
<1>9. \A k \in D : p0[k] = IF k = 0 THEN 1 % p ELSE step(k, p0[k \div 2])
  BY <1>8
<1>. DEFINE S == {k \in Nat : k \in D => p0[k] \in R /\ Congruent(p, p0[k], Power(n, k))}
<1>10. ASSUME NEW k \in Nat, \A m \in 0 .. k - 1 : m \in S PROVE k \in S
  <2>. SUFFICES ASSUME k \in D PROVE p0[k] \in R /\ Congruent(p, p0[k], Power(n, k))
    OBVIOUS
  <2>1. CASE k = 0
    <3>1. p0[k] = 1 % p /\ Power(n, k) = 1
      BY <1>9, <2>1, PowerFacts
    <3>. QED
      BY <3>1, <1>4, CongruentSame
  <2>2. CASE k # 0
    <3>. DEFINE j == k \div 2
                h == p0[j]
                w == Power(n, j)
    <3>1. j \in 0 .. k - 1 /\ j \in D /\ j \in Nat /\ (IF IsEven(k) THEN k = j + j ELSE k = (j + j) + 1)
      BY <2>2 DEF IsEven
    <3>2. h \in R /\ Congruent(p, h, w) /\ w \in Int
      <4>1. j \in S
        BY <1>10, <3>1
      <4>. HIDE DEF j
      <4>. QED
        BY <3>1, <4>1, PowerFacts
    <3>3. p0[k] = step(k, h)
      BY <1>9, <2>2
    <3>4. Power(n, j + j) = w * w /\ Power(n, (j + j) + 1) = (w * w) * n
      <4>. HIDE DEF j
      <4>1. j + j \in Nat
        BY <3>1
      <4>2. Power(n, j + j) = w * w
        BY <3>1, PowerSum
      <4>3. Power(n, (j + j) + 1) = Power(n, j + j) * n
        BY <4>1, PowerFacts
      <4>. QED
        BY <4>2, <4>3
    <3>. HIDE DEF h, w, j
    <3>5. h \in Int /\ h * h \in Int /\ w * w \in Int /\ (w * w) * n \in Int
      BY <3>2 DEF R
    <3>6. Congruent(p, h * h, w * w)
      BY <3>2, <3>5, CongruentProduct
    <3>. DEFINE s == (h * h) % p
                t == n % p
    <3>7. s \in R /\ Congruent(p, s, w * w)
      <4>1. s \in R /\ Congruent(p, s, h * h) /\ s \in Int
        BY <3>5, <1>0
      <4>. HIDE DEF s
      <4>. QED
        BY <3>5, <3>6, <4>1, CongruentTrans
    <3>8. t \in Int /\ Congruent(p, t, n)
      BY <1>0
    <3>9. CASE IsEven(k)
      <4>1. p0[k] = s
        BY <3>3, <3>9 DEF step
      <4>. QED
        BY <3>1, <3>4, <3>7, <3>9, <4>1
    <3>10. CASE ~ IsEven(k)
      <4>1. p0[k] = (s * t) % p
        BY <3>3, <3>10 DEF step
      <4>. HIDE DEF s, t
      <4>2. s \in Int /\ s * t \in Int
        BY <3>7, <3>8 DEF R
      <4>3. Congruent(p, s * t, (w * w) * n)
        BY <3>5, <3>7, <3>8, <4>2, CongruentProduct
      <4>4. (s * t) % p \in R /\ (s * t) % p \in Int /\ Congruent(p, (s * t) % p, s * t)
        BY <4>2, <1>0
      <4>5. Congruent(p, (s * t) % p, (w * w) * n)
        BY <3>5, <4>2, <4>3, <4>4, CongruentTrans
      <4>. QED
        BY <3>1, <3>4, <3>10, <4>1, <4>4, <4>5
    <3>. QED
      BY <3>9, <3>10
  <2>. QED
    BY <2>1, <2>2
<1>11. \A k \in Nat : k \in S
  <2>. HIDE DEF S
  <2>. QED
    BY <1>10, Below
<1>12. PowMod(n, e, p) = p0[e]
  BY DEF PowMod, p0, P, step
<1>. QED
  BY <1>11, <1>12 DEF R

(* The powers of what is congruent to an inverse invert the powers.        *)
LEMMA PowersInvert ==
  ASSUME NEW p \in Nat, p > 0, NEW g \in Int, NEW a \in Int, Congruent(p, g * a, 1), NEW e \in Nat
  PROVE  Congruent(p, Power(g, e) * Power(a, e), 1)
<1>. DEFINE S == {k \in Nat : Congruent(p, Power(g, k) * Power(a, k), 1)}
<1>1. 0 \in S
  BY PowerFacts, CongruentSame
<1>2. ASSUME NEW k \in Nat, k \in S PROVE k + 1 \in S
  <2>. DEFINE x == Power(g, k)
              y == Power(a, k)
  <2>1. x \in Int /\ y \in Int /\ Power(g, k + 1) = x * g /\ Power(a, k + 1) = y * a
    BY PowerFacts
  <2>2. Congruent(p, x * y, 1)
    BY <1>2
  <2>. HIDE DEF x, y
  <2>3. x * y \in Int /\ g * a \in Int /\ (x * y) * (g * a) = (x * g) * (y * a) /\ 1 * 1 = 1
    BY <2>1
  <2>4. Congruent(p, (x * y) * (g * a), 1 * 1)
    BY <2>2, <2>3, CongruentProduct
  <2>. QED
    BY <2>1, <2>3, <2>4
<1>. HIDE DEF S
<1>3. \A k \in Nat : k \in S
  BY <1>1, <1>2, Successor
<1>. QED
  BY <1>3 DEF S

(* Powers of two are invertible modulo an odd number.                      *)
LEMMA TwoPowerInverts ==
  ASSUME NEW p \in Nat, p % 2 = 1, NEW k \in Nat
  PROVE  \E r \in 0 .. p - 1 : Congruent(p, r * 2 ^ k, 1)
<1>. DEFINE S == {i \in Nat : \E r \in Int : Congruent(p, r * 2 ^ i, 1)}
<1>0. p > 0
  OBVIOUS
<1>1. 0 \in S
  <2>1. 1 * 2 ^ 0 = 1
    BY TwoTo
  <2>. QED
    BY <1>0, <2>1, CongruentSame
<1>2. ASSUME NEW i \in Nat, i \in S PROVE i + 1 \in S
  <2>1. PICK r \in Int : Congruent(p, r * 2 ^ i, 1)
    BY <1>2
  <2>2. PICK h \in Int : 2 * h = p + 1
    <3>1. (p + 1) \div 2 \in Int /\ 2 * ((p + 1) \div 2) = p + 1
      OBVIOUS
    <3>. QED
      BY <3>1
  <2>3. Congruent(p, h * 2, 1)
    <3>1. h * 2 - 1 = p
      BY <2>2
    <3>. QED
      BY <1>0, <3>1, DividesItself DEF Congruent
  <2>. DEFINE t == 2 ^ i
  <2>4. t \in Int /\ 2 ^ (i + 1) = t * 2
    BY TwoTo
  <2>5. Congruent(p, r * t, 1)
    BY <2>1
  <2>. HIDE DEF t
  <2>6. r * t \in Int /\ h * 2 \in Int /\ (r * t) * (h * 2) = (r * h) * (t * 2) /\ r * h \in Int
    BY <2>4
  <2>7. Congruent(p, (r * t) * (h * 2), 1 * 1)
    BY <1>0, <2>3, <2>5, <2>6, CongruentProduct
  <2>8. Congruent(p, (r * h) * 2 ^ (i + 1), 1)
    BY <2>4, <2>6, <2>7
  <2>9. i + 1 \in Nat
    OBVIOUS
  <2>. QED
    BY <2>6, <2>8, <2>9
<1>3. PICK r \in Int : Congruent(p, r * 2 ^ k, 1)
  <2>1. \A i \in Nat : i \in S
    <3>. HIDE DEF S
    <3>. QED
      BY <1>1, <1>2, Successor
  <2>. QED
    BY <2>1
<1>. DEFINE t == 2 ^ k
            q == r % p
<1>4. q \in 0 .. p - 1 /\ Congruent(p, q, r)
  BY <1>0, CongruentSame
<1>5. t \in Int
  BY TwoTo
<1>. HIDE DEF t, q
<1>6. q \in Int /\ Congruent(p, t, t)
  <2>1. Congruent(p, t, t)
    BY <1>0, <1>5, CongruentSame
  <2>. QED
    BY <1>4, <2>1
<1>7. Congruent(p, q * t, r * t) /\ q * t \in Int /\ r * t \in Int
  BY <1>0, <1>4, <1>5, <1>6, CongruentProduct
<1>8. Congruent(p, q * t, 1)
  BY <1>0, <1>3, <1>7, CongruentTrans DEF t
<1>. QED
  BY <1>4, <1>8 DEF t

-----------------------------------------------------------------------------
(* Bits.  The number before the bit u - 1 was read, and that bit.          *)
LEMMA NextBitRead ==
  ASSUME NEW n \in Nat, NEW u \in Nat
  PROVE  /\ n \div 2 ^ u \in Nat
         /\ n \div 2 ^ u = 2 * (n \div 2 ^ (u + 1)) + ((n \div 2 ^ u) % 2)
<1>1. 2 ^ u \in Nat /\ 2 ^ u > 0 /\ 2 ^ (u + 1) = 2 ^ u * 2
  BY TwoTo
<1>. DEFINE t == 2 ^ u
            m == n \div t
<1>2. n \div (t * 2) = m \div 2
  <2>. HIDE DEF t
  <2>. QED
    BY <1>1, DivTwice DEF t
<1>3. m \in Nat
  BY <1>1, Greatest
<1>. HIDE DEF m
<1>4. m = 2 * (m \div 2) + (m % 2)
  BY <1>3
<1>. QED
  BY <1>1, <1>2, <1>3, <1>4 DEF m, t

(* The last c + 1 bits are the c bits before the last one, and that bit.   *)
LowBits(n, c) == n % 2 ^ c
Appends(m, q, b) == b \in 0 .. 1 /\ m = 2 * q + b
HasLow(m, q, b, c) ==
  /\ LowBits(m, c + 1) = 2 * LowBits(q, c) + b
  /\ LowBits(q, c) \in Nat /\ LowBits(q, c) < 2 ^ c

LEMMA LowBitsGrow ==
  ASSUME NEW m \in Nat, NEW q \in Nat, NEW b \in Int, Appends(m, q, b), NEW c \in Nat
  PROVE  HasLow(m, q, b, c)
<1>. DEFINE t == 2 ^ c
            d == q \div t
            r == q % t
<1>0. b \in 0 .. 1 /\ m = 2 * q + b
  BY DEF Appends
<1>1. t \in Nat /\ t > 0 /\ 2 ^ (c + 1) = 2 * t
  <2>1. t \in Nat /\ t > 0 /\ 2 ^ (c + 1) = t * 2
    BY TwoTo
  <2>. HIDE DEF t
  <2>. QED
    BY <2>1
<1>2. d \in Int /\ r \in 0 .. t - 1 /\ q = t * d + r
  BY <1>1, Division
<1>. HIDE DEF d, r
<1>3. (2 * t) * d + (2 * r + b) = m
  <2>. DEFINE p == t * d
  <2>1. (2 * t) * d = 2 * p /\ p \in Int
    BY <1>0, <1>1, <1>2
  <2>. HIDE DEF p
  <2>2. q = p + r
    BY <1>2 DEF p
  <2>. QED
    BY <1>0, <1>2, <2>1, <2>2
<1>. HIDE DEF t
<1>4. 2 * t \in Nat /\ 2 * t > 0 /\ 2 * r + b \in 0 .. (2 * t) - 1
  BY <1>0, <1>1, <1>2
<1>5. ((2 * t) * d + (2 * r + b)) % (2 * t) = 2 * r + b
  BY <1>2, <1>4, DivisionUnique
<1>. QED
  BY <1>1, <1>2, <1>3, <1>5 DEF t, r, LowBits, HasLow

(* A bit among the last k.                                                 *)
LEMMA LowBit ==
  ASSUME NEW n \in Nat, NEW k \in Nat, NEW c \in Nat, c < k
  PROVE  ((n % 2 ^ k) \div 2 ^ c) % 2 = (n \div 2 ^ c) % 2
<1>. DEFINE s == 2 ^ k
            t == 2 ^ c
            e == k - (c + 1)
            h == 2 ^ e
            r == n % s
            q == n \div s
            a == r \div t
            b == r % t
<1>1. e \in Nat /\ k = (c + 1) + e
  OBVIOUS
<1>2. t \in Nat /\ t > 0 /\ h \in Nat /\ s \in Nat /\ s > 0 /\ s = t * (2 * h)
  <2>. HIDE DEF e
  <2>1. t \in Nat /\ t > 0 /\ h \in Nat /\ s \in Nat /\ s > 0 /\ 2 ^ (c + 1) = t * 2
    BY <1>1, TwoTo
  <2>2. s = 2 ^ (c + 1) * h
    BY <1>1, TwoToSum
  <2>. HIDE DEF s, t, h
  <2>3. (t * 2) * h = t * (2 * h)
    BY <2>1
  <2>. QED
    BY <2>1, <2>2, <2>3
<1>. HIDE DEF s, t, h, e
<1>3. q \in Int /\ r \in 0 .. s - 1 /\ n = s * q + r
  BY <1>2, Division
<1>4. r \in Int
  BY <1>3
<1>. HIDE DEF q, r
<1>5. a \in Int /\ b \in 0 .. t - 1 /\ r = t * a + b
  BY <1>2, <1>4, Division
<1>. HIDE DEF a, b
<1>6. n = t * (2 * (h * q) + a) + b /\ 2 * (h * q) + a \in Int
  <2>1. (t * (2 * h)) * q = t * (2 * (h * q)) /\ h * q \in Int
    BY <1>2, <1>3
  <2>2. n = t * (2 * (h * q)) + (t * a + b)
    BY <1>2, <1>3, <1>5, <2>1
  <2>. DEFINE x == 2 * (h * q)
  <2>3. x \in Int
    BY <2>1
  <2>. HIDE DEF x
  <2>4. t * x + (t * a + b) = t * (x + a) + b /\ x + a \in Int
    BY <1>2, <1>5, <2>3
  <2>. QED
    BY <2>2, <2>4 DEF x
<1>. DEFINE x == h * q
            w == 2 * x + a
<1>7. x \in Int /\ w \in Int /\ n = t * w + b
  BY <1>2, <1>3, <1>6
<1>8. n \div t = w
  <2>. HIDE DEF w
  <2>. QED
    BY <1>2, <1>5, <1>7, DivisionUnique
<1>. HIDE DEF x
<1>9. w % 2 = a % 2
  BY <1>5, <1>7
<1>. QED
  BY <1>8, <1>9 DEF s, t, a, r

(* Lengths are those of the magnitude.                                     *)
LEMMA UsedOfMagnitude ==
  ASSUME NEW n \in Int
  PROVE  Used(n) \in Nat /\ Used(n) = Used(Magnitude(n))
<1>1. Magnitude(n) \in Nat /\ Magnitude(Magnitude(n)) = Magnitude(n)
  BY MagnitudeProperties
<1>2. mp_count_bits(n) = mp_count_bits(Magnitude(n))
  BY <1>1 DEF mp_count_bits
<1>3. Used(n) = Used(Magnitude(n))
  BY <1>2 DEF Used
<1>. QED
  BY <1>1, <1>3, UsedFacts

LEMMA UsedMonotone ==
  ASSUME NEW m \in Nat, NEW n \in Nat, m <= n
  PROVE  Used(m) <= Used(n)
<1>1. Used(n) \in Nat /\ n < Weight(Used(n)) /\ Weight(Used(n)) \in Nat
  BY UsedFacts, Weights
<1>2. m < Weight(Used(n))
  BY <1>1
<1>. QED
  BY <1>1, <1>2, UsedLess

(* What a product that fails leaves.                                       *)
LEMMA FailedProductFacts ==
  ASSUME NEW n \in Int, NEW a \in Int, NEW b \in Int, NEW same,
         NEW x \in FailedProducts(n, a, b, same)
  PROVE  /\ x \in Int
         /\ \/ Magnitude(x) = Magnitude(n)
            \/ UsesToomCook(a, b, same) /\ Magnitude(x) \in Scraps
         /\ a >= 0 /\ b >= 0 => x >= 0
<1>1. PICK m : /\ x = Sgn(a) * Sgn(b) * m
               /\ m = Magnitude(n) \/ (UsesToomCook(a, b, same) /\ m \in Scraps)
  BY DEF FailedProducts
<1>2. Magnitude(n) \in Nat /\ Sgn(a) \in {-1, 1} /\ Sgn(b) \in {-1, 1}
  BY MagnitudeProperties
<1>3. m \in Nat
  BY <1>1, <1>2, ToomCookAssumption
<1>. DEFINE s == Sgn(a) * Sgn(b)
<1>4. s \in {-1, 1} /\ (a >= 0 /\ b >= 0 => s = 1)
  BY <1>2 DEF Sgn
<1>5. x = s * m
  BY <1>1
<1>. HIDE DEF s
<1>6. x \in Int /\ (x = m \/ x = - m) /\ (s = 1 => x = m)
  BY <1>3, <1>4, <1>5
<1>7. Magnitude(x) = m
  BY <1>3, <1>6 DEF Magnitude, Sgn
<1>. QED
  BY <1>1, <1>3, <1>4, <1>6, <1>7

(* Toom and Cook's routine for two structures has two long operands.       *)
LEMMA ToomCookLong ==
  ASSUME NEW a \in Int, NEW b \in Int, UsesToomCook(a, b, FALSE)
  PROVE  Used(a) >= MP_MUL_TOOM_CUTOFF /\ Used(b) >= MP_MUL_TOOM_CUTOFF
<1>1. Used(a) \in Nat /\ Used(b) \in Nat
  BY UsedOfMagnitude
<1>. QED
  BY <1>1, ToomCookAssumption DEF UsesToomCook, MinOf

(* No power of a number that is not negative is negative.                  *)
LEMMA PowerSigned ==
  ASSUME NEW n \in Nat, NEW e \in Nat
  PROVE  Power(n, e) \in Nat
<1>. DEFINE S == {k \in Nat : Power(n, k) \in Nat}
<1>1. \A a \in Nat : a * n \in Nat
  OBVIOUS
<1>2. 0 \in S /\ \A k \in Nat : k \in S => k + 1 \in S
  BY <1>1, PowerFacts
<1>. HIDE DEF S
<1>3. \A k \in Nat : k \in S
  BY <1>2, Successor
<1>. QED
  BY <1>3 DEF S

(* A quotient is an integer no larger than the dividend.                   *)
LEMMA QuotientSmaller ==
  ASSUME NEW n \in Int, NEW m \in Int, m # 0
  PROVE  /\ Quotient(n, m) \in Int
         /\ Magnitude(Quotient(n, m)) <= Magnitude(n)
<1>. DEFINE x == Magnitude(n)
            y == Magnitude(m)
            q == x \div y
            s == Sgn(n) * Sgn(m)
<1>1. x \in Nat /\ y \in Nat /\ y > 0
  BY MagnitudeProperties
<1>2. s \in {-1, 1}
  BY DEF Sgn
<1>3. Quotient(n, m) = s * q
  BY DEF Quotient
<1>4. q \in Int /\ x % y \in 0 .. y - 1 /\ x = y * q + (x % y)
  BY <1>1, Division
<1>. HIDE DEF x, y, q, s
<1>5. q >= 0
  <2>1. CASE q < 0
    <3>1. - q \in Nat /\ - q >= 1 /\ y * (- q) >= y
      <4>1. - q \in Nat /\ 1 \in Nat /\ 1 <= - q
        BY <1>4, <2>1
      <4>. QED
        BY <1>1, <4>1, MonotoneProduct, 1 * y = y, (- q) * y = y * (- q)
    <3>2. y * q = - (y * (- q)) /\ y * q \in Int
      BY <1>1, <1>4
    <3>. QED
      BY <1>1, <1>4, <3>1, <3>2
  <2>. QED
    BY <1>4, <2>1
<1>6. q <= x
  <2>1. q \in Nat /\ 1 <= y
    BY <1>1, <1>4, <1>5
  <2>2. 1 * q <= y * q
    BY <1>1, <2>1, MonotoneProduct
  <2>3. y * q \in Int
    BY <1>1, <2>1
  <2>. QED
    BY <1>1, <1>4, <2>1, <2>2, <2>3
<1>7. Magnitude(s * q) = q
  BY <1>2, <1>4, <1>5 DEF Magnitude, Sgn
<1>8. s * q \in Int
  BY <1>2, <1>4
<1>. QED
  BY <1>3, <1>6, <1>7, <1>8 DEF x
=============================================================================
