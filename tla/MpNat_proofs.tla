---------------------------- MODULE MpNat_proofs ----------------------------
(***************************************************************************)
(* What the digits of a magnitude spell, for every radix and every number  *)
(* of digits: that Pow and Val satisfy their recursive definitions, how    *)
(* large Val is, which digits it depends on, that leading zeros do not     *)
(* count (mp_clamp) and that comparing used and digits from the top        *)
(* (mp_cmp_mag) compares the numbers.                                      *)
(***************************************************************************)
EXTENDS MpNat, TLAPS, WellFoundedInduction

(* Induction over a set of natural numbers.                                *)
LEMMA NatSetInduction ==
  ASSUME NEW S, S \subseteq Nat, 0 \in S, \A n \in S : n + 1 \in S
  PROVE  S = Nat
<1>. DEFINE R == {ss \in Nat \X Nat : ss[1] < ss[2]}
            T == Nat \ S
<1>1. IsWellFoundedOn(R, Nat)
  BY NatLessThanWellFounded DEF OpToRel
<1>2. SUFFICES ASSUME T # {} PROVE FALSE
  OBVIOUS
<1>3. \E x \in T : \A y \in T : ~ (<< y, x >> \in R)
  <2>. HIDE DEF R
  <2>. QED
    BY <1>1, <1>2, WFMin, T \subseteq Nat
<1>4. PICK x \in T : \A y \in T : ~ (<< y, x >> \in R)
  BY <1>3
<1>5. x \in Nat /\ x # 0 /\ x \notin S
  OBVIOUS
<1>6. x - 1 \in Nat /\ x - 1 < x
  BY <1>5
<1>7. x - 1 \notin T
  BY <1>4, <1>5, <1>6
<1>8. (x - 1) + 1 \in S
  BY <1>6, <1>7
<1>. QED
  BY <1>5, <1>8

(* A recursive definition over Nat has a solution: g satisfies the one     *)
(* given by first and next up to n.                                        *)
IsApprox(g, n, first, next) ==
  /\ g[0] = first
  /\ \A i \in 1 .. n : g[i] = next[<< i - 1, g[i - 1] >>]

LEMMA ApproxExists ==
  ASSUME NEW first \in Int, NEW next \in [Nat \X Int -> Int]
  PROVE  \A n \in Nat : \E g \in [0 .. n -> Int] : IsApprox(g, n, first, next)
<1>. DEFINE S == {n \in Nat : \E g \in [0 .. n -> Int] : IsApprox(g, n, first, next)}
<1>1. 0 \in S
  <2>. DEFINE g == [i \in 0 .. 0 |-> first]
  <2>1. g \in [0 .. 0 -> Int] /\ IsApprox(g, 0, first, next)
    BY DEF IsApprox
  <2>. QED
    BY <2>1
<1>2. ASSUME NEW n \in S PROVE n + 1 \in S
  <2>1. PICK g \in [0 .. n -> Int] : IsApprox(g, n, first, next)
    OBVIOUS
  <2>. DEFINE h == [i \in 0 .. (n + 1) |-> IF i = n + 1 THEN next[<< n, g[n] >>] ELSE g[i]]
  <2>2. n \in Nat /\ n \in 0 .. n /\ g[n] \in Int
    OBVIOUS
  <2>3. next[<< n, g[n] >>] \in Int
    BY <2>2
  <2>4. h \in [0 .. (n + 1) -> Int]
    BY <2>2, <2>3
  <2>5. h[0] = first
    BY <2>1, <2>2 DEF IsApprox
  <2>6. ASSUME NEW i \in 1 .. (n + 1) PROVE h[i] = next[<< i - 1, h[i - 1] >>]
    <3>1. CASE i = n + 1
      <4>1. i - 1 = n /\ h[i] = next[<< n, g[n] >>] /\ h[n] = g[n]
        BY <3>1, <2>2
      <4>. QED
        BY <4>1
    <3>2. CASE i # n + 1
      <4>1. i \in 1 .. n /\ i - 1 \in 0 .. n /\ h[i] = g[i] /\ h[i - 1] = g[i - 1]
        BY <3>2, <2>2
      <4>. QED
        BY <4>1, <2>1 DEF IsApprox
    <3>. QED
      BY <3>1, <3>2
  <2>7. IsApprox(h, n + 1, first, next)
    BY <2>5, <2>6 DEF IsApprox
  <2>. HIDE DEF h
  <2>. QED
    BY <2>2, <2>4, <2>7
<1>. HIDE DEF S
<1>3. S = Nat
  <2>1. S \subseteq Nat
    BY DEF S
  <2>. QED
    BY <1>1, <1>2, <2>1, NatSetInduction
<1>. QED
  BY <1>3 DEF S

LEMMA ApproxUnique ==
  ASSUME NEW first, NEW next, NEW n \in Nat, NEW m \in Nat, NEW g, NEW h,
         IsApprox(g, n, first, next), IsApprox(h, m, first, next)
  PROVE  \A i \in Nat : i <= n /\ i <= m => g[i] = h[i]
<1>. DEFINE S == {i \in Nat : i <= n /\ i <= m => g[i] = h[i]}
<1>1. 0 \in S
  BY DEF IsApprox
<1>2. ASSUME NEW i \in S PROVE i + 1 \in S
  <2>. SUFFICES ASSUME i + 1 <= n, i + 1 <= m PROVE g[i + 1] = h[i + 1]
    OBVIOUS
  <2>1. i \in Nat /\ g[i] = h[i] /\ i + 1 \in 1 .. n /\ i + 1 \in 1 .. m /\ (i + 1) - 1 = i
    OBVIOUS
  <2>2. g[i + 1] = next[<< i, g[i] >>] /\ h[i + 1] = next[<< i, h[i] >>]
    BY <2>1 DEF IsApprox
  <2>. QED
    BY <2>1, <2>2
<1>. HIDE DEF S
<1>3. S = Nat
  <2>1. S \subseteq Nat
    BY DEF S
  <2>. QED
    BY <1>1, <1>2, <2>1, NatSetInduction
<1>. QED
  BY <1>3 DEF S

LEMMA Recursion ==
  ASSUME NEW first \in Int, NEW next \in [Nat \X Int -> Int]
  PROVE  \E f \in [Nat -> Int] : f[0] = first /\ \A n \in Nat : f[n + 1] = next[<< n, f[n] >>]
<1>. DEFINE A(n) == CHOOSE g \in [0 .. n -> Int] : IsApprox(g, n, first, next)
            f == [n \in Nat |-> A(n)[n]]
<1>1. \A n \in Nat : A(n) \in [0 .. n -> Int] /\ IsApprox(A(n), n, first, next)
  BY ApproxExists
<1>. HIDE DEF A
<1>2. f \in [Nat -> Int]
  BY <1>1
<1>3. f[0] = first
  BY <1>1 DEF IsApprox
<1>4. ASSUME NEW n \in Nat PROVE f[n + 1] = next[<< n, f[n] >>]
  <2>1. n + 1 \in Nat /\ n + 1 \in 1 .. (n + 1) /\ (n + 1) - 1 = n
    OBVIOUS
  <2>2. A(n + 1)[n + 1] = next[<< n, A(n + 1)[n] >>]
    BY <1>1, <2>1 DEF IsApprox
  <2>3. A(n + 1)[n] = A(n)[n]
    BY <1>1, <2>1, ApproxUnique
  <2>. QED
    BY <2>1, <2>2, <2>3
<1>. QED
  BY <1>2, <1>3, <1>4

-----------------------------------------------------------------------------
LEMMA RadixFacts ==
  /\ Radix \in Nat /\ Radix > 1 /\ DigitMod \in Nat
  /\ \E k \in Nat : k > 0 /\ DigitMod = 2 * (k * Radix)
  /\ MP_MAX_DIGIT_COUNT \in Nat /\ MP_MAX_DIGIT_COUNT > 0
<1>1. Radix \in Nat /\ Radix > 1 /\ DigitMod \in Nat
  BY RadixAssumption
<1>2. PICK k \in 1 .. DigitMod : DigitMod = 2 * k * Radix
  BY RadixAssumption
<1>3. k \in Nat /\ k > 0
  BY <1>1, <1>2
<1>4. 2 * k * Radix = 2 * (k * Radix)
  BY <1>1, <1>3
<1>. QED
  BY <1>1, <1>2, <1>3, <1>4, MaxDigitsAssumption

(* Pow is what its definition says.                                        *)
LEMMA PowRecursion ==
  Pow = [n \in Nat |-> IF n = 0 THEN 1 ELSE Radix * Pow[n - 1]]
<1>. DEFINE next == [p \in Nat \X Int |-> Radix * p[2]]
<1>1. next \in [Nat \X Int -> Int] /\ 1 \in Int
  BY RadixFacts
<1>2. PICK f \in [Nat -> Int] : f[0] = 1 /\ \A n \in Nat : f[n + 1] = next[<< n, f[n] >>]
  <2>. HIDE DEF next
  <2>. QED
    BY <1>1, Recursion
<1>3. ASSUME NEW n \in Nat PROVE f[n] = IF n = 0 THEN 1 ELSE Radix * f[n - 1]
  <2>1. CASE n = 0
    BY <1>2, <2>1
  <2>2. CASE n # 0
    <3>1. n - 1 \in Nat /\ (n - 1) + 1 = n /\ f[n - 1] \in Int
      BY <2>2
    <3>2. f[n] = next[<< n - 1, f[n - 1] >>]
      BY <1>2, <3>1
    <3>. QED
      BY <2>2, <3>1, <3>2
  <2>. QED
    BY <2>1, <2>2
<1>4. f = [n \in Nat |-> IF n = 0 THEN 1 ELSE Radix * f[n - 1]]
  BY <1>3
<1>5. \E ff : ff = [n \in Nat |-> IF n = 0 THEN 1 ELSE Radix * ff[n - 1]]
  BY <1>4
<1>. QED
  BY <1>5 DEF Pow

LEMMA PowFacts ==
  /\ Pow[0] = 1
  /\ \A n \in Nat : Pow[n + 1] = Radix * Pow[n]
  /\ \A n \in Nat : Pow[n] \in Nat /\ Pow[n] > 0
<1>1. Pow[0] = 1
  BY PowRecursion
<1>2. ASSUME NEW n \in Nat PROVE Pow[n + 1] = Radix * Pow[n]
  <2>1. n + 1 \in Nat /\ n + 1 # 0 /\ (n + 1) - 1 = n
    OBVIOUS
  <2>. QED
    BY <2>1, PowRecursion
<1>. DEFINE S == {n \in Nat : Pow[n] \in Nat /\ Pow[n] > 0}
<1>3. 0 \in S
  BY <1>1
<1>4. ASSUME NEW n \in S PROVE n + 1 \in S
  <2>1. n \in Nat /\ Pow[n] \in Nat /\ Pow[n] > 0 /\ Pow[n + 1] = Radix * Pow[n]
    BY <1>2
  <2>2. Radix * Pow[n] \in Nat /\ Radix * Pow[n] > 0
    BY <2>1, RadixFacts
  <2>. QED
    BY <2>1, <2>2
<1>. HIDE DEF S
<1>5. S = Nat
  <2>1. S \subseteq Nat
    BY DEF S
  <2>. QED
    BY <1>3, <1>4, <2>1, NatSetInduction
<1>. QED
  BY <1>1, <1>2, <1>5 DEF S

(* Val is what its definition says.                                        *)
LEMMA ValRecursion ==
  ASSUME NEW d \in Vectors
  PROVE  /\ Val(d)[0] = 0
         /\ \A n \in Places : Val(d)[n + 1] = Val(d)[n] + d[n] * Pow[n]
         /\ \A n \in Counts : Val(d)[n] \in Int
<1>. DEFINE e(n) == IF n \in Places THEN d[n] ELSE 0
            next == [p \in Nat \X Int |-> p[2] + e(p[1]) * Pow[p[1]]]
<1>1. \A n \in Nat : e(n) \in Int /\ Pow[n] \in Int
  BY RadixFacts, PowFacts DEF Vectors, Digits
<1>2. next \in [Nat \X Int -> Int]
  <2>1. \A n \in Nat : e(n) * Pow[n] \in Int
    BY <1>1
  <2>. HIDE DEF e
  <2>. QED
    BY <2>1
<1>3. PICK f \in [Nat -> Int] : f[0] = 0 /\ \A n \in Nat : f[n + 1] = next[<< n, f[n] >>]
  <2>1. 0 \in Int
    OBVIOUS
  <2>. HIDE DEF next
  <2>. QED
    BY <1>2, <2>1, Recursion
<1>4. \A n \in Places : f[n + 1] = f[n] + d[n] * Pow[n]
  <2>1. ASSUME NEW n \in Places PROVE f[n + 1] = f[n] + d[n] * Pow[n]
    <3>1. n \in Nat /\ f[n] \in Int /\ e(n) = d[n]
      BY RadixFacts DEF Places
    <3>2. next[<< n, f[n] >>] = f[n] + e(n) * Pow[n]
      BY <3>1
    <3>. QED
      BY <1>3, <3>1, <3>2
  <2>. QED
    BY <2>1
<1>. DEFINE g == [n \in Counts |-> f[n]]
<1>5. \A n \in Counts : n \in Nat /\ (n = 0 \/ (n - 1 \in Places /\ n - 1 \in Counts /\ (n - 1) + 1 = n))
  BY RadixFacts DEF Counts, Places
<1>6. ASSUME NEW n \in Counts PROVE g[n] = IF n = 0 THEN 0 ELSE g[n - 1] + d[n - 1] * Pow[n - 1]
  BY <1>3, <1>4, <1>5
<1>7. g = [n \in Counts |-> IF n = 0 THEN 0 ELSE g[n - 1] + d[n - 1] * Pow[n - 1]]
  BY <1>6
<1>. HIDE DEF g
<1>8. \E v : v = [n \in Counts |-> IF n = 0 THEN 0 ELSE v[n - 1] + d[n - 1] * Pow[n - 1]]
  BY <1>7
<1>9. Val(d) = [n \in Counts |-> IF n = 0 THEN 0 ELSE Val(d)[n - 1] + d[n - 1] * Pow[n - 1]]
  BY <1>8 DEF Val
<1>10. 0 \in Counts /\ \A n \in Places : n + 1 \in Counts /\ n + 1 # 0 /\ (n + 1) - 1 = n
  BY RadixFacts DEF Counts, Places
<1>11. Val(d)[0] = 0
  BY <1>9, <1>10
<1>12. \A n \in Places : Val(d)[n + 1] = Val(d)[n] + d[n] * Pow[n]
  BY <1>9, <1>10
<1>. DEFINE S == {n \in Nat : n \in Counts => Val(d)[n] \in Int}
<1>13. 0 \in S
  BY <1>11
<1>14. ASSUME NEW n \in S PROVE n + 1 \in S
  <2>1. SUFFICES ASSUME n + 1 \in Counts PROVE Val(d)[n + 1] \in Int
    OBVIOUS
  <2>2. n \in Nat /\ n \in Places /\ n \in Counts
    BY <2>1, RadixFacts DEF Counts, Places
  <2>3. d[n] * Pow[n] \in Int
    BY <2>2, PowFacts, RadixFacts DEF Vectors, Digits
  <2>. QED
    BY <1>12, <2>2, <2>3
<1>. HIDE DEF S
<1>15. S = Nat
  <2>1. S \subseteq Nat
    BY DEF S
  <2>. QED
    BY <1>13, <1>14, <2>1, NatSetInduction
<1>. QED
  BY <1>5, <1>11, <1>12, <1>15 DEF S

LEMMA PlaceFacts ==
  /\ 0 \in Counts
  /\ \A n \in Places : n \in Nat /\ n \in Counts /\ n + 1 \in Counts
  /\ \A n \in Counts : n \in Nat /\ n <= MP_MAX_DIGIT_COUNT
  /\ \A n \in Nat : n < MP_MAX_DIGIT_COUNT => n \in Places
  /\ \A n \in Nat : n <= MP_MAX_DIGIT_COUNT => n \in Counts
BY RadixFacts DEF Places, Counts

LEMMA DigitFacts ==
  ASSUME NEW d \in Vectors, NEW n \in Places
  PROVE  /\ d[n] \in Nat /\ d[n] < Radix /\ Pow[n] \in Nat /\ Pow[n] > 0
         /\ d[n] * Pow[n] \in Nat
         /\ d[n] * Pow[n] <= Pow[n + 1] - Pow[n]
<1>1. d[n] \in Nat /\ d[n] < Radix /\ Pow[n] \in Nat /\ Pow[n] > 0 /\ Pow[n + 1] = Radix * Pow[n]
  BY PowFacts, PlaceFacts, RadixFacts DEF Vectors, Digits
<1>2. \A x, r, p \in Nat : x < r => x * p \in Nat /\ x * p <= r * p - p
  <2>1. ASSUME NEW x \in Nat, NEW r \in Nat, NEW p \in Nat, x < r
        PROVE  x * p <= r * p - p
    <3>1. r - 1 - x \in Nat
      BY <2>1
    <3>2. (r - 1 - x) * p \in Nat
      BY <3>1
    <3>3. (r - 1 - x) * p = r * p - p - x * p
      OBVIOUS
    <3>. QED
      BY <3>2, <3>3
  <2>. QED
    BY <2>1
<1>. QED
  BY <1>1, <1>2, RadixFacts

LEMMA CountInduction ==
  ASSUME NEW S, 0 \in S, \A n \in Places : n \in S => n + 1 \in S
  PROVE  Counts \subseteq S
<1>. DEFINE T == {n \in Nat : n \in Counts => n \in S}
<1>1. 0 \in T
  OBVIOUS
<1>2. ASSUME NEW n \in T PROVE n + 1 \in T
  <2>1. n + 1 \in Counts => n \in Places
    BY RadixFacts DEF Counts, Places
  <2>. QED
    BY <2>1, PlaceFacts
<1>. HIDE DEF T
<1>3. T = Nat
  <2>1. T \subseteq Nat
    BY DEF T
  <2>. QED
    BY <1>1, <1>2, <2>1, NatSetInduction
<1>. QED
  BY <1>3, PlaceFacts DEF T

(* n digits spell a number below the n-th power of the radix.              *)
LEMMA ValBounds ==
  ASSUME NEW d \in Vectors
  PROVE  \A n \in Counts : Val(d)[n] \in Nat /\ Val(d)[n] < Pow[n]
<1>. DEFINE S == {n \in Counts : Val(d)[n] \in Nat /\ Val(d)[n] < Pow[n]}
<1>1. 0 \in S
  BY ValRecursion, PowFacts, PlaceFacts
<1>2. ASSUME NEW n \in Places, n \in S PROVE n + 1 \in S
  <2>1. Val(d)[n + 1] = Val(d)[n] + d[n] * Pow[n] /\ n + 1 \in Counts
    BY ValRecursion, PlaceFacts
  <2>2. d[n] * Pow[n] \in Nat /\ d[n] * Pow[n] <= Pow[n + 1] - Pow[n]
    BY DigitFacts
  <2>3. Val(d)[n] \in Nat /\ Val(d)[n] < Pow[n] /\ Pow[n] \in Nat /\ Pow[n + 1] \in Nat
    BY <1>2, PowFacts, PlaceFacts
  <2>. QED
    BY <2>1, <2>2, <2>3
<1>. HIDE DEF S
<1>3. Counts \subseteq S
  BY <1>1, <1>2, CountInduction
<1>. QED
  BY <1>3 DEF S

(* The lowest n digits are all that counts for Val up to n.                *)
LEMMA ValPrefix ==
  ASSUME NEW d \in Vectors, NEW e \in Vectors, NEW n \in Counts,
         \A i \in Places : i < n => d[i] = e[i]
  PROVE  Val(d)[n] = Val(e)[n]
<1>. DEFINE S == {m \in Counts : m <= n => Val(d)[m] = Val(e)[m]}
<1>1. 0 \in S
  BY ValRecursion, PlaceFacts
<1>2. ASSUME NEW m \in Places, m \in S PROVE m + 1 \in S
  <2>1. SUFFICES ASSUME m + 1 <= n PROVE Val(d)[m + 1] = Val(e)[m + 1]
    BY PlaceFacts
  <2>2. m < n /\ d[m] = e[m] /\ Val(d)[m] = Val(e)[m]
    BY <1>2, <2>1, PlaceFacts
  <2>. QED
    BY <2>2, ValRecursion
<1>. HIDE DEF S
<1>3. Counts \subseteq S
  BY <1>1, <1>2, CountInduction
<1>. QED
  BY <1>3, PlaceFacts DEF S

(* Zero digits at the top add nothing.                                     *)
LEMMA ValZeros ==
  ASSUME NEW d \in Vectors, NEW m \in Counts, NEW n \in Counts, m <= n,
         \A i \in Places : m <= i /\ i < n => d[i] = 0
  PROVE  Val(d)[n] = Val(d)[m]
<1>. DEFINE S == {k \in Counts : m <= k /\ k <= n => Val(d)[k] = Val(d)[m]}
<1>1. 0 \in S
  <2>1. m <= 0 => m = 0
    BY PlaceFacts
  <2>. QED
    BY <2>1, PlaceFacts
<1>2. ASSUME NEW k \in Places, k \in S PROVE k + 1 \in S
  <2>1. SUFFICES ASSUME m <= k + 1, k + 1 <= n PROVE Val(d)[k + 1] = Val(d)[m]
    BY PlaceFacts
  <2>2. CASE m = k + 1
    BY <2>2
  <2>3. CASE m # k + 1
    <3>1. m <= k /\ k < n /\ d[k] = 0 /\ Val(d)[k] = Val(d)[m]
      BY <1>2, <2>1, <2>3, PlaceFacts
    <3>2. Val(d)[k + 1] = Val(d)[k] + 0 * Pow[k] /\ Val(d)[k] \in Nat
      BY <3>1, ValRecursion, ValBounds, PlaceFacts
    <3>3. 0 * Pow[k] = 0
      BY PowFacts, PlaceFacts
    <3>. QED
      BY <3>1, <3>2, <3>3
  <2>. QED
    BY <2>2, <2>3
<1>. HIDE DEF S
<1>3. Counts \subseteq S
  BY <1>1, <1>2, CountInduction
<1>. QED
  BY <1>3, PlaceFacts DEF S

LEMMA PowMonotone ==
  ASSUME NEW m \in Nat, NEW n \in Nat, m <= n
  PROVE  Pow[m] <= Pow[n]
<1>. DEFINE S == {k \in Nat : m <= k => Pow[m] <= Pow[k]}
<1>1. 0 \in S
  <2>1. m <= 0 => m = 0
    OBVIOUS
  <2>. QED
    BY <2>1, PowFacts
<1>2. ASSUME NEW k \in S PROVE k + 1 \in S
  <2>1. SUFFICES ASSUME m <= k + 1 PROVE Pow[m] <= Pow[k + 1]
    OBVIOUS
  <2>2. k \in Nat /\ Pow[k] \in Nat /\ Pow[m] \in Nat /\ Pow[k + 1] = Radix * Pow[k]
    BY PowFacts
  <2>3. Pow[k] <= Radix * Pow[k]
    <3>1. (Radix - 1) * Pow[k] \in Nat /\ (Radix - 1) * Pow[k] = Radix * Pow[k] - Pow[k]
      BY <2>2, RadixFacts
    <3>. QED
      BY <3>1, <2>2, RadixFacts
  <2>4. CASE m = k + 1
    BY <2>4, PowFacts
  <2>5. CASE m # k + 1
    <3>1. Pow[m] <= Pow[k]
      BY <2>1, <2>5
    <3>. QED
      BY <2>2, <2>3, <3>1, RadixFacts
  <2>. QED
    BY <2>4, <2>5
<1>. HIDE DEF S
<1>3. S = Nat
  <2>1. S \subseteq Nat
    BY DEF S
  <2>. QED
    BY <1>1, <1>2, <2>1, NatSetInduction
<1>. QED
  BY <1>3 DEF S

(* A leading digit that is not zero makes the number as large as its       *)
(* power.                                                                  *)
LEMMA ValLeading ==
  ASSUME NEW d \in Vectors, NEW n \in Places, d[n] # 0
  PROVE  Val(d)[n + 1] >= Pow[n]
<1>1. Val(d)[n + 1] = Val(d)[n] + d[n] * Pow[n] /\ Val(d)[n] \in Nat
  BY ValRecursion, ValBounds, PlaceFacts
<1>2. d[n] \in Nat /\ d[n] >= 1 /\ Pow[n] \in Nat
  BY DigitFacts
<1>3. (d[n] - 1) * Pow[n] \in Nat /\ (d[n] - 1) * Pow[n] = d[n] * Pow[n] - Pow[n]
  BY <1>2
<1>. QED
  BY <1>1, <1>2, <1>3

-----------------------------------------------------------------------------
(* The comparison from the top, of the lowest n digits.                    *)
DigitsLT(d, e, n) ==
  \E k \in Places : /\ k < n
                    /\ d[k] < e[k]
                    /\ \A i \in Places : k < i /\ i < n => d[i] = e[i]

LEMMA DigitsCompare ==
  ASSUME NEW d \in Vectors, NEW e \in Vectors
  PROVE  \A n \in Counts : DigitsLT(d, e, n) <=> Val(d)[n] < Val(e)[n]
<1>. DEFINE S == {n \in Counts : DigitsLT(d, e, n) <=> Val(d)[n] < Val(e)[n]}
<1>1. 0 \in S
  <2>1. ~ DigitsLT(d, e, 0)
    BY PlaceFacts DEF DigitsLT
  <2>2. Val(d)[0] = 0 /\ Val(e)[0] = 0
    BY ValRecursion
  <2>. QED
    BY <2>1, <2>2, PlaceFacts
<1>2. ASSUME NEW n \in Places, n \in S PROVE n + 1 \in S
  <2>. DEFINE D == Val(d)[n]
              E == Val(e)[n]
              p == Pow[n]
  <2>1. n \in Nat /\ n \in Counts /\ n + 1 \in Counts
    BY PlaceFacts
  <2>2. /\ D \in Nat /\ E \in Nat /\ p \in Nat /\ p > 0 /\ D < p /\ E < p
        /\ Val(d)[n + 1] = D + d[n] * p /\ Val(e)[n + 1] = E + e[n] * p
    BY <2>1, ValRecursion, ValBounds, PowFacts
  <2>3. d[n] \in Nat /\ e[n] \in Nat
    BY DigitFacts
  <2>4. DigitsLT(d, e, n) <=> D < E
    BY <1>2
  <2>5. DigitsLT(d, e, n + 1) <=> d[n] < e[n] \/ (d[n] = e[n] /\ DigitsLT(d, e, n))
    <3>1. ASSUME DigitsLT(d, e, n + 1)
          PROVE  d[n] < e[n] \/ (d[n] = e[n] /\ DigitsLT(d, e, n))
      <4>1. PICK k \in Places : /\ k < n + 1 /\ d[k] < e[k]
                                /\ \A i \in Places : k < i /\ i < n + 1 => d[i] = e[i]
        BY <3>1 DEF DigitsLT
      <4>2. CASE k = n
        BY <4>1, <4>2
      <4>3. CASE k # n
        <5>1. k < n /\ d[n] = e[n]
          BY <4>1, <4>3, <2>1, PlaceFacts
        <5>2. \A i \in Places : k < i /\ i < n => d[i] = e[i]
          BY <4>1, <2>1, PlaceFacts
        <5>. QED
          BY <5>1, <5>2, <4>1 DEF DigitsLT
      <4>. QED
        BY <4>2, <4>3
    <3>2. ASSUME d[n] < e[n] PROVE DigitsLT(d, e, n + 1)
      <4>1. n < n + 1 /\ \A i \in Places : ~ (n < i /\ i < n + 1)
        BY <2>1, PlaceFacts
      <4>. QED
        BY <3>2, <4>1 DEF DigitsLT
    <3>3. ASSUME d[n] = e[n], DigitsLT(d, e, n) PROVE DigitsLT(d, e, n + 1)
      <4>1. PICK k \in Places : /\ k < n /\ d[k] < e[k]
                                /\ \A i \in Places : k < i /\ i < n => d[i] = e[i]
        BY <3>3 DEF DigitsLT
      <4>2. k < n + 1 /\ \A i \in Places : i < n + 1 => i < n \/ i = n
        BY <4>1, <2>1, PlaceFacts
      <4>. QED
        BY <3>3, <4>1, <4>2 DEF DigitsLT
    <3>. QED
      BY <3>1, <3>2, <3>3
  <2>6. \A x, y \in Nat : x < y => D + x * p < E + y * p
    <3>1. ASSUME NEW x \in Nat, NEW y \in Nat, x < y PROVE D + x * p < E + y * p
      <4>1. (y - x - 1) * p \in Nat
        BY <2>2, <3>1
      <4>2. (y - x - 1) * p = y * p - x * p - p /\ x * p \in Nat /\ y * p \in Nat
        BY <2>2
      <4>. QED
        BY <2>2, <4>1, <4>2
    <3>. QED
      BY <3>1
  <2>7. \A x, y \in Nat : x < y => E + x * p < D + y * p
    <3>1. ASSUME NEW x \in Nat, NEW y \in Nat, x < y PROVE E + x * p < D + y * p
      <4>1. (y - x - 1) * p \in Nat
        BY <2>2, <3>1
      <4>2. (y - x - 1) * p = y * p - x * p - p /\ x * p \in Nat /\ y * p \in Nat
        BY <2>2
      <4>. QED
        BY <2>2, <4>1, <4>2
    <3>. QED
      BY <3>1
  <2>8. d[n] * p \in Nat /\ e[n] * p \in Nat
    BY <2>2, <2>3
  <2>. HIDE DEF D, E, p
  <2>9. CASE d[n] < e[n]
    BY <2>2, <2>3, <2>5, <2>6, <2>9, <2>1
  <2>10. CASE e[n] < d[n]
    BY <2>2, <2>3, <2>5, <2>7, <2>8, <2>10, <2>1
  <2>11. CASE d[n] = e[n]
    BY <2>2, <2>3, <2>4, <2>5, <2>8, <2>11, <2>1
  <2>. QED
    BY <2>3, <2>9, <2>10, <2>11
<1>. HIDE DEF S
<1>3. Counts \subseteq S
  BY <1>1, <1>2, CountInduction
<1>. QED
  BY <1>3 DEF S

LEMMA MpIntFacts ==
  ASSUME NEW x \in MpInts
  PROVE  /\ x.used \in Counts /\ x.alloc \in Counts /\ x.sign \in Signs /\ x.digit \in Vectors
         /\ Mag(x) \in Nat /\ Mag(x) = Val(x.digit)[x.used]
<1>1. x.used \in Counts /\ x.alloc \in Counts /\ x.sign \in Signs /\ x.digit \in Vectors
  BY DEF MpInts
<1>. QED
  BY <1>1, ValBounds DEF Mag

(* mp_cmp_mag finds out which magnitude is the smaller.                    *)
LEMMA MagLTCorrect ==
  ASSUME NEW a \in MpInts, NEW b \in MpInts, WellFormed(a), WellFormed(b)
  PROVE  MagLT(a, b) <=> Mag(a) < Mag(b)
<1>1. ASSUME NEW x \in MpInts, NEW y \in MpInts, WellFormed(y), x.used < y.used
      PROVE  Mag(x) < Mag(y)
  <2>. DEFINE m == x.used
              n == y.used
  <2>a. m \in Counts /\ n \in Counts
    BY MpIntFacts
  <2>b. m < n
    BY <1>1
  <2>. HIDE DEF m, n
  <2>c. m \in Nat /\ n \in Nat /\ n <= MP_MAX_DIGIT_COUNT /\ MP_MAX_DIGIT_COUNT \in Nat
    BY <2>a, MaxDigitsAssumption DEF Counts
  <2>d. n - 1 \in Places /\ (n - 1) + 1 = n /\ n - 1 \in Nat /\ m <= n - 1
    BY <2>b, <2>c DEF Places
  <2>1. x.used \in Nat /\ y.used \in Nat /\ y.used - 1 \in Places /\ (y.used - 1) + 1 = y.used
        /\ y.used - 1 \in Nat /\ x.used <= y.used - 1
    BY <2>c, <2>d DEF m, n
  <2>2. y.digit[y.used - 1] # 0
    BY <1>1, <2>1 DEF WellFormed
  <2>3. Mag(y) >= Pow[y.used - 1]
    BY <2>1, <2>2, ValLeading, MpIntFacts
  <2>4. Mag(x) < Pow[x.used]
    BY MpIntFacts, ValBounds
  <2>5. Pow[x.used] <= Pow[y.used - 1] /\ Pow[x.used] \in Nat /\ Pow[y.used - 1] \in Nat
    BY <2>1, PowMonotone, PowFacts
  <2>. QED
    BY <2>3, <2>4, <2>5, MpIntFacts
<1>2. a.used \in Nat /\ b.used \in Nat /\ a.used \in Counts
      /\ a.digit \in Vectors /\ b.digit \in Vectors /\ Mag(a) \in Nat /\ Mag(b) \in Nat
  BY MpIntFacts, PlaceFacts
<1>3. CASE a.used < b.used
  BY <1>1, <1>2, <1>3 DEF MagLT
<1>4. CASE b.used < a.used
  BY <1>1, <1>2, <1>4 DEF MagLT
<1>5. CASE a.used = b.used
  <2>1. MagLT(a, b) <=> DigitsLT(a.digit, b.digit, a.used)
    BY <1>2, <1>5 DEF MagLT, DigitsLT
  <2>2. DigitsLT(a.digit, b.digit, a.used) <=> Val(a.digit)[a.used] < Val(b.digit)[a.used]
    BY <1>2, DigitsCompare
  <2>. QED
    BY <1>5, <2>1, <2>2 DEF Mag
<1>. QED
  BY <1>2, <1>3, <1>4, <1>5

(* mp_clamp finds the leading digit, and keeps the number.                 *)
LEMMA ClampedUsedFacts ==
  ASSUME NEW d \in Vectors, NEW used \in Counts
  PROVE  LET n == ClampedUsed(d, used)
         IN  /\ n \in 0 .. used
             /\ \A i \in Places : n <= i /\ i < used => d[i] = 0
             /\ n > 0 => d[n - 1] # 0
<1>. DEFINE Good(n, m) == /\ n \in 0 .. m
                          /\ \A i \in Places : n <= i /\ i < m => d[i] = 0
                          /\ n > 0 => d[n - 1] # 0
            S == {m \in Counts : \E n \in Nat : Good(n, m)}
<1>1. 0 \in S
  <2>1. Good(0, 0)
    BY PlaceFacts
  <2>. QED
    BY <2>1, PlaceFacts
<1>2. ASSUME NEW m \in Places, m \in S PROVE m + 1 \in S
  <2>1. PICK n \in Nat : Good(n, m)
    BY <1>2
  <2>2. m \in Nat /\ m + 1 \in Counts
    BY PlaceFacts
  <2>3. CASE d[m] = 0
    <3>1. n \in 0 .. (m + 1)
      BY <2>1, <2>2
    <3>2. \A i \in Places : i < m + 1 => i < m \/ i = m
      BY <2>2, PlaceFacts
    <3>3. Good(n, m + 1)
      BY <3>1, <3>2, <2>1, <2>3
    <3>. HIDE DEF Good
    <3>. QED
      BY <3>3, <2>2
  <2>4. CASE d[m] # 0
    <3>1. m + 1 \in 0 .. (m + 1) /\ (m + 1) - 1 = m
      BY <2>2
    <3>2. \A i \in Places : ~ (m + 1 <= i /\ i < m + 1)
      BY <2>2, PlaceFacts
    <3>3. Good(m + 1, m + 1)
      BY <3>1, <3>2, <2>4
    <3>. HIDE DEF Good
    <3>. QED
      BY <3>3, <2>2
  <2>. QED
    BY <2>3, <2>4
<1>. HIDE DEF S
<1>3. used \in S
  BY <1>1, <1>2, CountInduction
<1>4. \E n \in 0 .. used : Good(n, used)
  BY <1>3 DEF S
<1>. QED
  BY <1>4 DEF ClampedUsed

LEMMA ClampKeepsMag ==
  ASSUME NEW x \in MpInts
  PROVE  /\ mp_clamp(x) \in MpInts
         /\ Mag(mp_clamp(x)) = Mag(x)
         /\ mp_clamp(x).used <= x.used
         /\ mp_clamp(x).digit = x.digit /\ mp_clamp(x).alloc = x.alloc
         /\ mp_clamp(x).used > 0 => mp_clamp(x).sign = x.sign
         /\ mp_clamp(x).used = 0 => mp_clamp(x).sign = MP_ZPOS
         /\ mp_clamp(x).used > 0 => x.digit[mp_clamp(x).used - 1] # 0
         /\ \A i \in Places : mp_clamp(x).used <= i /\ i < x.used => x.digit[i] = 0
<1>. DEFINE n == ClampedUsed(x.digit, x.used)
            y == mp_clamp(x)
<1>1. x.used \in Counts /\ x.digit \in Vectors /\ x.sign \in Signs /\ x.alloc \in Counts
  BY MpIntFacts
<1>2. /\ n \in 0 .. x.used
      /\ \A i \in Places : n <= i /\ i < x.used => x.digit[i] = 0
      /\ n > 0 => x.digit[n - 1] # 0
  BY <1>1, ClampedUsedFacts
<1>. HIDE DEF n
<1>3. n \in Counts /\ n \in Nat /\ n <= x.used
  <2>. DEFINE k == x.used
  <2>1. k \in Counts /\ n \in 0 .. k
    BY <1>1, <1>2
  <2>. HIDE DEF k
  <2>2. n \in Counts /\ n \in Nat /\ n <= k
    BY <2>1, MaxDigitsAssumption DEF Counts
  <2>. QED
    BY <2>2 DEF k
<1>4. y = [x EXCEPT !.used = n, !.sign = IF n = 0 THEN MP_ZPOS ELSE @]
  BY DEF mp_clamp, n
<1>5. y.used = n /\ y.digit = x.digit /\ y.alloc = x.alloc
      /\ y.sign = (IF n = 0 THEN MP_ZPOS ELSE x.sign) /\ y \in MpInts
  BY <1>1, <1>3, <1>4 DEF MpInts, Signs
<1>. HIDE DEF y
<1>6. Mag(y) = Mag(x)
  <2>1. Val(x.digit)[x.used] = Val(x.digit)[n]
    BY <1>1, <1>2, <1>3, ValZeros
  <2>. QED
    BY <1>5, <2>1 DEF Mag
<1>. QED
  BY <1>2, <1>3, <1>5, <1>6 DEF y
=============================================================================
