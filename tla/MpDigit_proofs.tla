--------------------------- MODULE MpDigit_proofs ---------------------------
(***************************************************************************)
(* Theorems about the calls of MpDigit, for every radix, every number of   *)
(* digits and every sequence of calls: what each digit loop makes of the   *)
(* number its operand stands for, and so what each call leaves, whether it *)
(* succeeds or fails, in the digits above used as well.                    *)
(***************************************************************************)
EXTENDS MpDigit, MpNat_proofs, FiniteSetTheorems

-----------------------------------------------------------------------------
(* Arithmetic.                                                             *)
LEMMA Successor ==
  ASSUME NEW S, 0 \in S, \A n \in Nat : n \in S => n + 1 \in S
  PROVE  \A n \in Nat : n \in S
<1>. DEFINE T == {n \in Nat : n \in S}
<1>1. T \subseteq Nat /\ 0 \in T /\ \A n \in T : n + 1 \in T
  OBVIOUS
<1>. HIDE DEF T
<1>2. T = Nat
  BY <1>1, NatSetInduction
<1>. QED
  BY <1>2 DEF T

(* The powers of two, counted as the subsets of an interval.               *)
LEMMA TwoToSuccessor ==
  ASSUME NEW n \in Nat
  PROVE  2 ^ n \in Nat /\ 2 ^ (n + 1) = 2 ^ n + 2 ^ n
<1>. DEFINE S == SUBSET (1 .. n)
            H == {X \cup {n + 1} : X \in S}
            f == [X \in S |-> X \cup {n + 1}]
<1>1. IsFiniteSet(1 .. n) /\ Cardinality(1 .. n) = n
  BY FS_Interval
<1>2. IsFiniteSet(1 .. (n + 1)) /\ Cardinality(1 .. (n + 1)) = n + 1
  BY FS_Interval
<1>3. IsFiniteSet(S) /\ Cardinality(S) = 2 ^ n /\ Cardinality(S) \in Nat
  BY <1>1, FS_SUBSET, FS_CardinalityType
<1>4. Cardinality(SUBSET (1 .. (n + 1))) = 2 ^ (n + 1)
  BY <1>2, FS_SUBSET
<1>5. \A X \in S : n + 1 \notin X
  OBVIOUS
<1>6. f \in Bijection(S, H)
  <2>1. f \in [S -> H]
    OBVIOUS
  <2>2. \A X, Y \in S : f[X] = f[Y] => X = Y
    <3>1. ASSUME NEW X \in S, NEW Y \in S, X \cup {n + 1} = Y \cup {n + 1} PROVE X = Y
      <4>1. \A e : e \in X <=> e \in Y
        BY <1>5, <3>1
      <4>. QED
        BY <4>1
    <3>. QED
      BY <3>1
  <2>3. \A Y \in H : \E X \in S : f[X] = Y
    OBVIOUS
  <2>. HIDE DEF f, S, H
  <2>4. DOMAIN f = S
    BY <2>1
  <2>5. IsInjective(f)
    BY <2>2, <2>4 DEF IsInjective
  <2>. QED
    BY <2>1, <2>3, <2>5 DEF Bijection, Injection, Surjection
<1>7. IsFiniteSet(H) /\ Cardinality(H) = Cardinality(S)
  <2>. HIDE DEF f, S, H
  <2>1. ExistsBijection(S, H)
    BY <1>6 DEF ExistsBijection
  <2>. QED
    BY <1>3, <2>1, FS_Bijection
<1>8. S \cap H = {}
  BY <1>5
<1>9. S \cup H = SUBSET (1 .. (n + 1))
  <2>1. ASSUME NEW X \in SUBSET (1 .. (n + 1)) PROVE X \in S \cup H
    <3>1. X \ {n + 1} \in S
      OBVIOUS
    <3>2. CASE n + 1 \in X
      <4>1. X = (X \ {n + 1}) \cup {n + 1}
        BY <3>2
      <4>. QED
        BY <3>1, <4>1
    <3>3. CASE n + 1 \notin X
      BY <3>1, <3>3
    <3>. QED
      BY <3>2, <3>3
  <2>2. \A X \in S \cup H : X \subseteq 1 .. (n + 1)
    OBVIOUS
  <2>. QED
    BY <2>1, <2>2
<1>10. Cardinality(S \cup H) = Cardinality(S) + Cardinality(H) - 0
  <2>. HIDE DEF S, H
  <2>1. Cardinality(S \cap H) = 0
    BY <1>8, FS_EmptySet
  <2>. QED
    BY <1>3, <1>7, <2>1, FS_Union
<1>. QED
  <2>. HIDE DEF S, H
  <2>1. Cardinality(S \cup H) = 2 ^ (n + 1)
    BY <1>4, <1>9
  <2>. QED
    BY <1>3, <1>7, <1>10, <2>1

LEMMA TwoTo ==
  /\ 2 ^ 0 = 1 /\ 2 ^ 1 = 2
  /\ \A n \in Nat : 2 ^ n \in Nat /\ 2 ^ n > 0 /\ 2 ^ (n + 1) = 2 * 2 ^ n
<1>1. 2 ^ 0 = 1 /\ 2 ^ 1 = 2
  OBVIOUS
<1>. DEFINE S == {n \in Nat : 2 ^ n > 0}
<1>2. \A n \in Nat : n \in S => n + 1 \in S
  BY TwoToSuccessor
<1>3. 0 \in S
  BY <1>1
<1>4. \A n \in Nat : n \in S
  <2>. HIDE DEF S
  <2>. QED
    BY <1>2, <1>3, Successor
<1>. QED
  BY <1>1, <1>4, TwoToSuccessor

LEMMA TwoToSum ==
  ASSUME NEW m \in Nat, NEW n \in Nat
  PROVE  2 ^ (m + n) = 2 ^ m * 2 ^ n
<1>. DEFINE S == {k \in Nat : 2 ^ (m + k) = 2 ^ m * 2 ^ k}
<1>1. 0 \in S
  BY TwoTo
<1>2. ASSUME NEW k \in Nat, k \in S PROVE k + 1 \in S
  <2>1. m + (k + 1) = (m + k) + 1 /\ m + k \in Nat
    OBVIOUS
  <2>2. 2 ^ (m + (k + 1)) = 2 * (2 ^ m * 2 ^ k)
    BY <1>2, <2>1, TwoTo
  <2>3. 2 * (2 ^ m * 2 ^ k) = 2 ^ m * (2 * 2 ^ k)
    BY TwoTo
  <2>. QED
    BY <2>2, <2>3, TwoTo
<1>3. \A k \in Nat : k \in S
  <2>. HIDE DEF S
  <2>. QED
    BY <1>1, <1>2, Successor
<1>. QED
  BY <1>3

LEMMA TwoToMonotone ==
  ASSUME NEW m \in Nat, NEW n \in Nat, m <= n
  PROVE  /\ 2 ^ m <= 2 ^ n
         /\ n - m \in Nat /\ 2 ^ (n - m) \in Nat /\ 2 ^ n = 2 ^ m * 2 ^ (n - m)
<1>1. n - m \in Nat /\ m + (n - m) = n
  OBVIOUS
<1>2. 2 ^ n = 2 ^ m * 2 ^ (n - m)
  BY <1>1, TwoToSum
<1>3. \A a, b \in Nat : b > 0 => a <= a * b
  OBVIOUS
<1>. QED
  BY <1>1, <1>2, <1>3, TwoTo

LEMMA SmallMultiple ==
  ASSUME NEW d \in Nat, NEW k \in Int, - d < d * k, d * k < d
  PROVE  k = 0
<1>1. k >= 1 => d * k >= d
  <2>1. \A a \in Nat, b \in Nat : a * (b + 1) = a * b + a /\ a * b >= 0
    OBVIOUS
  <2>2. k >= 1 => k - 1 \in Nat /\ (k - 1) + 1 = k
    OBVIOUS
  <2>. QED
    BY <2>1, <2>2
<1>2. k <= -1 => d * k <= - d
  <2>1. \A a \in Nat, b \in Nat : a * (- b - 1) = - (a * b) - a /\ a * b >= 0
    OBVIOUS
  <2>2. k <= -1 => - k - 1 \in Nat /\ - (- k - 1) - 1 = k
    OBVIOUS
  <2>. QED
    BY <2>1, <2>2
<1>. QED
  BY <1>1, <1>2

LEMMA Division ==
  ASSUME NEW n \in Int, NEW d \in Nat, d > 0
  PROVE  /\ n \div d \in Int /\ n % d \in 0 .. d - 1
         /\ n = d * (n \div d) + (n % d)
OBVIOUS

LEMMA DivisionUnique ==
  ASSUME NEW d \in Nat, d > 0, NEW q \in Int, NEW r \in 0 .. d - 1
  PROVE  (d * q + r) \div d = q /\ (d * q + r) % d = r
<1>. DEFINE n == d * q + r
            p == n \div d
            s == n % d
<1>1. n \in Int /\ p \in Int /\ s \in 0 .. d - 1 /\ n = d * p + s
  BY Division
<1>2. d * q + r = d * p + s
  BY <1>1
<1>. HIDE DEF n, p, s
<1>3. d * (q - p) = d * q - d * p
  BY <1>1
<1>4. q - p = 0
  <2>1. d * (q - p) = s - r /\ q - p \in Int
    BY <1>1, <1>2, <1>3
  <2>2. - d < s - r /\ s - r < d
    BY <1>1
  <2>. QED
    BY <2>1, <2>2, SmallMultiple
<1>5. p = q /\ s = r
  BY <1>1, <1>2, <1>4
<1>. QED
  BY <1>5 DEF n, p, s

LEMMA Products ==
  /\ \A x, y \in Int : x * y \in Int /\ 0 * x = 0 /\ x * 1 = x /\ 1 * x = x /\ x * y = y * x
  /\ \A x, y \in Nat : x * y \in Nat
  /\ \A x, y, z \in Int : (x - y) * z = x * z - y * z /\ (x + y) * z = x * z + y * z
                            /\ (x * y) * z = x * (y * z)
OBVIOUS

LEMMA MonotoneProduct ==
  /\ \A x, y, z \in Nat : x <= y => x * z <= y * z
  /\ \A x, y, z \in Nat : z > 0 /\ x * z <= y * z => x <= y
  /\ \A x, y, z \in Nat : z > 0 /\ x * z < y * z => x < y
  /\ \A x, y, z \in Nat : z > 0 /\ x < y => x * z < y * z
<1>1. ASSUME NEW x \in Nat, NEW y \in Nat, NEW z \in Nat, x <= y PROVE x * z <= y * z
  <2>1. y - x \in Nat /\ (y - x) * z \in Nat /\ (y - x) * z = y * z - x * z
    BY <1>1
  <2>2. x * z \in Int /\ y * z \in Int
    OBVIOUS
  <2>. QED
    BY <2>1, <2>2
<1>2. ASSUME NEW x \in Nat, NEW y \in Nat, NEW z \in Nat, z > 0, x < y PROVE x * z < y * z
  <2>1. y - x - 1 \in Nat /\ (y - x - 1) * z \in Nat /\ (y - x - 1) * z = y * z - x * z - z
    BY <1>2
  <2>2. x * z \in Int /\ y * z \in Int
    OBVIOUS
  <2>. QED
    BY <1>2, <2>1, <2>2
<1>3. ASSUME NEW x \in Nat, NEW y \in Nat, NEW z \in Nat, z > 0, x * z <= y * z PROVE x <= y
  <2>1. y < x => y * z < x * z
    BY <1>2, <1>3
  <2>2. x * z \in Int /\ y * z \in Int
    OBVIOUS
  <2>. QED
    BY <1>3, <2>1, <2>2
<1>4. ASSUME NEW x \in Nat, NEW y \in Nat, NEW z \in Nat, z > 0, x * z < y * z PROVE x < y
  <2>1. y <= x => y * z <= x * z
    BY <1>1, <1>4
  <2>2. x * z \in Int /\ y * z \in Int
    OBVIOUS
  <2>. QED
    BY <1>4, <2>1, <2>2
<1>. QED
  BY <1>1, <1>2, <1>3, <1>4

LEMMA DivTwice ==
  ASSUME NEW n \in Nat, NEW s \in Nat, s > 0, NEW t \in Nat, t > 0
  PROVE  /\ s * t \in Nat /\ s * t > 0
         /\ n \div (s * t) = (n \div s) \div t
<1>. DEFINE q == n \div s
            r == n % s
            i == q \div t
            j == q % t
            st == s * t
            k == s * j + r
<1>1. q \in Int /\ r \in 0 .. s - 1 /\ n = s * q + r
  BY Division
<1>. HIDE DEF q, r
<1>2. i \in Int /\ j \in 0 .. t - 1 /\ q = t * i + j
  BY <1>1, Division
<1>. HIDE DEF i, j
<1>3. st \in Nat /\ st > 0
  BY DEF st
<1>4. n = st * i + k
  <2>1. s * (t * i + j) + r = s * t * i + (s * j + r)
    BY <1>1, <1>2
  <2>. QED
    BY <1>1, <1>2, <2>1
<1>5. k \in 0 .. st - 1
  <2>1. \A x, y, z \in Nat : y <= z - 1 => x * y <= x * z - x
    <3>1. ASSUME NEW x \in Nat, NEW y \in Nat, NEW z \in Nat, y <= z - 1
          PROVE  x * y <= x * z - x
      <4>1. z - 1 - y \in Nat /\ x * (z - 1 - y) = x * z - x - x * y /\ x * (z - 1 - y) \in Nat
        BY <3>1
      <4>2. x * z \in Int /\ x * y \in Int
        OBVIOUS
      <4>. QED
        BY <4>1, <4>2
    <3>. QED
      BY <3>1
  <2>2. s * j <= st - s
    BY <1>2, <2>1
  <2>3. s * j \in Nat
    BY <1>2
  <2>. HIDE DEF st
  <2>. QED
    BY <1>1, <1>3, <2>2, <2>3
<1>. HIDE DEF k, st
<1>6. n \div st = i
  BY <1>2, <1>3, <1>4, <1>5, DivisionUnique
<1>. QED
  BY <1>3, <1>6 DEF st, i, q

-----------------------------------------------------------------------------
(* The carries of a loop over digits, upwards or downwards.                *)
Carries(n, S, C) == \A i \in 0 .. n - 1, m \in S : C[i][m] \in S

Upwards(r, n, S, first, C) ==
  r \in [0 .. n -> S] /\ r[0] = first /\ \A i \in 0 .. n - 1 : r[i + 1] = C[i][r[i]]

Downwards(r, n, S, C) ==
  r \in [0 .. n -> S] /\ r[n] = 0 /\ \A i \in 0 .. n - 1 : r[i] = C[i][r[i + 1]]

LEMMA CarriesUp ==
  ASSUME NEW n \in Nat, NEW S, S \subseteq Int, NEW first \in S, NEW C, Carries(n, S, C)
  PROVE  Upwards(CarryUp(n, first, C), n, S, first, C)
<1>. USE DEF Carries
<1>. DEFINE next == [p \in Nat \X Int |-> IF p[1] < n /\ p[2] \in S THEN C[p[1]][p[2]] ELSE 0]
<1>1. next \in [Nat \X Int -> Int] /\ first \in Int
  <2>1. ASSUME NEW p \in Nat \X Int PROVE (IF p[1] < n /\ p[2] \in S THEN C[p[1]][p[2]] ELSE 0) \in Int
    <3>1. p[1] \in Nat /\ (p[1] < n => p[1] \in 0 .. n - 1)
      OBVIOUS
    <3>2. p[1] < n /\ p[2] \in S => C[p[1]][p[2]] \in S
      BY <3>1
    <3>3. \A x : x \in S => x \in Int
      OBVIOUS
    <3>. DEFINE x == C[p[1]][p[2]]
    <3>4. p[1] < n /\ p[2] \in S => x \in Int
      BY <3>2, <3>3
    <3>. HIDE DEF x
    <3>. QED
      BY <3>4 DEF x
  <2>. QED
    BY <2>1
<1>2. PICK f \in [Nat -> Int] : f[0] = first /\ \A i \in Nat : f[i + 1] = next[<< i, f[i] >>]
  <2>. HIDE DEF next
  <2>. QED
    BY <1>1, Recursion
<1>. DEFINE T == {i \in Nat : i <= n => f[i] \in S}
<1>3. 0 \in T
  BY <1>2
<1>4. ASSUME NEW i \in T PROVE i + 1 \in T
  <2>. SUFFICES ASSUME i + 1 <= n PROVE f[i + 1] \in S
    OBVIOUS
  <2>1. i \in Nat /\ i \in 0 .. n - 1 /\ i < n /\ f[i] \in S
    OBVIOUS
  <2>2. next[<< i, f[i] >>] = C[i][f[i]]
    BY <1>2, <2>1
  <2>. QED
    BY <1>2, <2>1, <2>2
<1>5. \A i \in 0 .. n : f[i] \in S
  <2>1. T \subseteq Nat
    OBVIOUS
  <2>. HIDE DEF T
  <2>2. T = Nat
    BY <1>3, <1>4, <2>1, NatSetInduction
  <2>. QED
    BY <2>2 DEF T
<1>6. ASSUME NEW i \in 0 .. n - 1 PROVE f[i + 1] = C[i][f[i]]
  <2>1. i \in Nat /\ i < n /\ i \in 0 .. n
    OBVIOUS
  <2>. QED
    BY <1>2, <1>5, <2>1
<1>. DEFINE P(v) == v = [i \in 0 .. n |-> IF i = 0 THEN first ELSE C[i - 1][v[i - 1]]]
            g == [i \in 0 .. n |-> f[i]]
<1>7. P(g)
  <2>1. ASSUME NEW i \in 0 .. n, i # 0 PROVE f[i] = C[i - 1][g[i - 1]]
    <3>1. i - 1 \in 0 .. n - 1 /\ i - 1 \in 0 .. n /\ (i - 1) + 1 = i
      BY <2>1
    <3>. QED
      BY <1>6, <3>1
  <2>. QED
    BY <1>2, <2>1
<1>. DEFINE r == CarryUp(n, first, C)
<1>8. P(r)
  <2>1. \E v : P(v)
    BY <1>7
  <2>2. P(CHOOSE v : P(v))
    <3>. HIDE DEF P
    <3>. QED
      BY <2>1
  <2>. QED
    BY <2>2 DEF CarryUp
<1>. HIDE DEF r
<1>9. r[0] = first
  BY <1>8
<1>10. ASSUME NEW i \in 0 .. n - 1 PROVE r[i + 1] = C[i][r[i]]
  <2>1. i + 1 \in 0 .. n /\ i + 1 # 0 /\ (i + 1) - 1 = i
    OBVIOUS
  <2>. QED
    BY <1>8, <2>1
<1>. DEFINE U == {i \in Nat : i <= n => r[i] \in S}
<1>11. 0 \in U
  BY <1>9
<1>12. ASSUME NEW i \in U PROVE i + 1 \in U
  <2>. SUFFICES ASSUME i + 1 <= n PROVE r[i + 1] \in S
    OBVIOUS
  <2>1. i \in Nat /\ i \in 0 .. n - 1 /\ r[i] \in S
    OBVIOUS
  <2>. QED
    BY <1>10, <2>1
<1>13. r \in [0 .. n -> S]
  <2>1. U \subseteq Nat
    OBVIOUS
  <2>. HIDE DEF U
  <2>2. U = Nat
    BY <1>11, <1>12, <2>1, NatSetInduction
  <2>3. \A i \in 0 .. n : r[i] \in S
    BY <2>2 DEF U
  <2>4. DOMAIN r = 0 .. n /\ r = [i \in 0 .. n |-> r[i]]
    BY <1>8
  <2>. QED
    BY <2>3, <2>4
<1>. QED
  BY <1>9, <1>10, <1>13 DEF r, Upwards

LEMMA CarriesDown ==
  ASSUME NEW n \in Nat, NEW S, S \subseteq Int, 0 \in S, NEW C, Carries(n, S, C)
  PROVE  Downwards(CarryDown(n, C), n, S, C)
<1>. USE DEF Carries
<1>. DEFINE D == [i \in Nat |-> [m \in Int |-> C[n - 1 - i][m]]]
            u == CarryUp(n, 0, D)
            g == [i \in 0 .. n |-> u[n - i]]
<1>1. ASSUME NEW i \in 0 .. n - 1, NEW m \in S PROVE D[i][m] = C[n - 1 - i][m] /\ D[i][m] \in S
  <2>1. i \in Nat /\ m \in Int /\ n - 1 - i \in 0 .. n - 1
    OBVIOUS
  <2>. QED
    BY <2>1
<1>. HIDE DEF D
<1>2. u \in [0 .. n -> S] /\ u[0] = 0 /\ \A i \in 0 .. n - 1 : u[i + 1] = D[i][u[i]]
  <2>1. Carries(n, S, D)
    BY <1>1
  <2>2. Upwards(u, n, S, 0, D)
    <3>. HIDE DEF Carries
    <3>. QED
      BY <2>1, CarriesUp
  <2>. QED
    BY <2>2 DEF Upwards
<1>. HIDE DEF u
<1>. DEFINE P(v) == v = [i \in 0 .. n |-> IF i = n THEN 0 ELSE C[i][v[i + 1]]]
<1>3. P(g)
  <2>1. ASSUME NEW i \in 0 .. n, i # n PROVE u[n - i] = C[i][g[i + 1]]
    <3>1. /\ n - (i + 1) \in 0 .. n - 1 /\ n - (i + 1) \in 0 .. n /\ (n - (i + 1)) + 1 = n - i
          /\ n - 1 - (n - (i + 1)) = i /\ i + 1 \in 0 .. n
      BY <2>1
    <3>2. g[i + 1] = u[n - (i + 1)] /\ u[n - (i + 1)] \in S
      BY <1>2, <3>1
    <3>. DEFINE k == n - (i + 1)
    <3>3. k \in 0 .. n - 1 /\ u[k] \in S /\ u[k + 1] = D[k][u[k]]
      BY <1>2, <3>1, <3>2
    <3>4. D[k][u[k]] = C[n - 1 - k][u[k]]
      BY <1>1, <3>3
    <3>. QED
      BY <3>1, <3>2, <3>3, <3>4
  <2>2. \A i \in 0 .. n : g[i] = IF i = n THEN 0 ELSE C[i][g[i + 1]]
    <3>1. n - n = 0
      OBVIOUS
    <3>. QED
      BY <1>2, <2>1, <3>1
  <2>. QED
    BY <2>2
<1>. DEFINE r == CarryDown(n, C)
<1>4. P(r)
  <2>1. P(CHOOSE v : P(v))
    <3>1. \E v : P(v)
      BY <1>3
    <3>. HIDE DEF P
    <3>. QED
      BY <3>1
  <2>. QED
    BY <2>1 DEF CarryDown
<1>. HIDE DEF r, g
<1>5. r[n] = 0 /\ \A i \in 0 .. n - 1 : r[i] = C[i][r[i + 1]]
  <2>1. n \in 0 .. n /\ \A i \in 0 .. n - 1 : i \in 0 .. n /\ i # n
    OBVIOUS
  <2>. QED
    BY <1>4, <2>1
<1>. DEFINE U == {i \in Nat : i <= n => r[n - i] \in S}
<1>6. 0 \in U
  BY <1>5
<1>7. ASSUME NEW i \in U PROVE i + 1 \in U
  <2>. SUFFICES ASSUME i + 1 <= n PROVE r[n - (i + 1)] \in S
    OBVIOUS
  <2>1. i \in Nat /\ n - (i + 1) \in 0 .. n - 1 /\ (n - (i + 1)) + 1 = n - i /\ r[n - i] \in S
    OBVIOUS
  <2>. QED
    BY <1>5, <2>1
<1>8. r \in [0 .. n -> S]
  <2>1. U \subseteq Nat
    OBVIOUS
  <2>. HIDE DEF U
  <2>2. U = Nat
    BY <1>6, <1>7, <2>1, NatSetInduction
  <2>3. \A i \in 0 .. n : r[i] \in S
    <3>1. ASSUME NEW i \in 0 .. n PROVE r[i] \in S
      <4>1. n - i \in Nat /\ n - i <= n /\ n - (n - i) = i
        OBVIOUS
      <4>. QED
        BY <2>2, <4>1 DEF U
    <3>. QED
      BY <3>1
  <2>4. r = [i \in 0 .. n |-> r[i]]
    BY <1>4
  <2>. QED
    BY <2>3, <2>4
<1>. QED
  BY <1>5, <1>8 DEF r, Downwards
-----------------------------------------------------------------------------
(* One place of a loop that multiplies d by k, or divides e by it: what    *)
(* leaves the place, times the radix, and what is left there.              *)
Place(e, d, k, r, i) == e[i] + r[i + 1] * Radix = k * d[i] + r[i]

Spelled(e, d, k, r, n) == Val(e)[n] + r[n] * Pow[n] = k * Val(d)[n] + r[0]

LEMMA PlaceArithmetic ==
  ASSUME NEW v \in Int, NEW w \in Int, NEW e \in Int, NEW d \in Int, NEW r \in Int, NEW s \in Int,
         NEW k \in Int, NEW f \in Int, NEW R \in Int, NEW P \in Int,
         v + r * P = k * w + f, e + s * R = k * d + r
  PROVE  (v + e * P) + s * (R * P) = k * (w + d * P) + f
<1>1. (e + s * R) * P = (k * d + r) * P
  OBVIOUS
<1>2. (e + s * R) * P = e * P + s * (R * P)
  OBVIOUS
<1>3. (k * d + r) * P = k * (d * P) + r * P
  OBVIOUS
<1>4. k * (w + d * P) = k * w + k * (d * P)
  OBVIOUS
<1>. DEFINE a == e * P
            b == s * (R * P)
            c == k * (d * P)
            g == r * P
            h == k * w
<1>5. a + b = c + g /\ v + g = h + f
  BY <1>1, <1>2, <1>3
<1>6. a \in Int /\ b \in Int /\ c \in Int /\ g \in Int /\ h \in Int
  OBVIOUS
<1>7. k * (w + d * P) = h + c
  BY <1>4
<1>. HIDE DEF a, b, c, g, h
<1>8. (v + a) + b = (h + c) + f
  BY <1>5, <1>6
<1>. QED
  BY <1>7, <1>8 DEF a, b

Loop(e, d, k, r, n) == r \in [0 .. n -> Int] /\ \A i \in 0 .. n - 1 : Place(e, d, k, r, i)

LEMMA LoopSpells ==
  ASSUME NEW e \in Vectors, NEW d \in Vectors, NEW k \in Int, NEW n \in Counts, NEW r,
         Loop(e, d, k, r, n)
  PROVE  Spelled(e, d, k, r, n)
<1>. DEFINE S == {m \in Counts : m <= n => Spelled(e, d, k, r, m)}
<1>0. n \in Nat /\ n <= MP_MAX_DIGIT_COUNT
  BY PlaceFacts
<1>1. \A i \in 0 .. n : r[i] \in Int
  BY DEF Loop
<1>2. 0 \in S
  <2>1. r[0] \in Int /\ r[0] * 1 = r[0] /\ k * 0 = 0
    BY <1>0, <1>1
  <2>2. Val(e)[0] = 0 /\ Val(d)[0] = 0 /\ Pow[0] = 1
    BY ValRecursion, PowFacts
  <2>3. Spelled(e, d, k, r, 0)
    BY <2>1, <2>2 DEF Spelled
  <2>. QED
    BY <2>3, PlaceFacts
<1>3. ASSUME NEW m \in Places, m \in S PROVE m + 1 \in S
  <2>. SUFFICES ASSUME m + 1 <= n PROVE Spelled(e, d, k, r, m + 1)
    BY PlaceFacts
  <2>1. m \in Nat /\ m \in Counts /\ m \in 0 .. n - 1 /\ m \in 0 .. n /\ m + 1 \in 0 .. n /\ m <= n
    BY <1>0, PlaceFacts
  <2>2. Spelled(e, d, k, r, m) /\ Place(e, d, k, r, m)
    BY <1>3, <2>1 DEF Loop
  <2>3. 0 \in 0 .. n
    BY <1>0
  <2>4. r[m] \in Int /\ r[m + 1] \in Int /\ r[0] \in Int
    BY <1>1, <2>1, <2>3
  <2>5. Val(e)[m] \in Int /\ Val(d)[m] \in Int
    BY <2>1, ValRecursion
  <2>6. Pow[m] \in Int /\ Radix \in Int /\ e[m] \in Int /\ d[m] \in Int
    BY <2>1, DigitFacts, RadixFacts
  <2>. DEFINE v == Val(e)[m]
              w == Val(d)[m]
              x == e[m]
              y == d[m]
              P == Pow[m]
              a == r[m]
              b == r[m + 1]
              f == r[0]
  <2>7. v + a * P = k * w + f /\ x + b * Radix = k * y + a
    BY <2>2 DEF Spelled, Place
  <2>8. v \in Int /\ w \in Int /\ x \in Int /\ y \in Int /\ P \in Int /\ a \in Int /\ b \in Int
        /\ f \in Int /\ Radix \in Int
    BY <2>4, <2>5, <2>6
  <2>9. /\ Val(e)[m + 1] = v + x * P /\ Val(d)[m + 1] = w + y * P /\ Pow[m + 1] = Radix * P
    BY <2>1, ValRecursion, PowFacts
  <2>10. (v + x * P) + b * (Radix * P) = k * (w + y * P) + f
    <3>. HIDE DEF v, w, x, y, P, a, b, f
    <3>. QED
      BY <2>7, <2>8, PlaceArithmetic
  <2>11. b = r[m + 1] /\ f = r[0]
    OBVIOUS
  <2>. HIDE DEF v, w, x, y, P, a, b, f
  <2>. QED
    BY <2>9, <2>10, <2>11 DEF Spelled
<1>. HIDE DEF S
<1>4. n \in S
  BY <1>2, <1>3, CountInduction
<1>. QED
  BY <1>0, <1>4 DEF S
-----------------------------------------------------------------------------
(* What every number is at any time: like WellFormed, but the digits above *)
(* used may be anything, except that a zero has a zero for its first digit.*)
Proper(x) ==
  /\ x.used <= x.alloc
  /\ x.used > 0 => x.digit[x.used - 1] # 0
  /\ x.used = 0 => x.sign = MP_ZPOS /\ x.digit[0] = 0

Signed(sign, m) == IF sign = MP_NEG THEN - m ELSE m

(* Structure x holds the integer v, without excess digits where E says so. *)
Holds(x, E, v) ==
  x \in MpInts /\ Proper(x) /\ (E => NoExcess(x)) /\ IntVal(x) = v

Codes == {"OKAY", "MEM", "VAL", "OVF"}

(* Every outcome in R leaves a number without excess digits where E says   *)
(* so: a call that succeeds one of V, a call that fails one of F.          *)
Delivers(R, E, V, F) ==
  \A r \in R :
    /\ r.num \in MpInts /\ Proper(r.num) /\ (E => NoExcess(r.num))
    /\ r.code \in Codes /\ r.rem \in Digits
    /\ IF r.code = "OKAY" THEN IntVal(r.num) \in V ELSE IntVal(r.num) \in F

LEMMA IntFacts ==
  ASSUME NEW x \in MpInts
  PROVE  /\ x.used \in Counts /\ x.used \in Nat /\ x.alloc \in Counts /\ x.alloc \in Nat
         /\ x.alloc <= MP_MAX_DIGIT_COUNT
         /\ x.sign \in Signs /\ x.digit \in Vectors
         /\ x.used > 0 => x.used - 1 \in Places
         /\ Mag(x) \in Nat /\ Mag(x) = Val(x.digit)[x.used] /\ Mag(x) < Pow[x.used]
         /\ IntVal(x) = Signed(x.sign, Mag(x)) /\ IntVal(x) \in Int
<1>1. x.used \in Counts /\ x.alloc \in Counts /\ x.sign \in Signs /\ x.digit \in Vectors
      /\ Mag(x) \in Nat /\ Mag(x) = Val(x.digit)[x.used]
  BY MpIntFacts
<1>2. x.used \in Nat /\ x.alloc \in Nat /\ x.alloc <= MP_MAX_DIGIT_COUNT
      /\ x.used <= MP_MAX_DIGIT_COUNT
  BY <1>1, PlaceFacts
<1>3. x.used > 0 => x.used - 1 \in Places
  BY <1>2, RadixFacts DEF Places
<1>4. Mag(x) < Pow[x.used]
  BY <1>1, ValBounds
<1>5. IntVal(x) = Signed(x.sign, Mag(x)) /\ IntVal(x) \in Int
  BY <1>1 DEF IntVal, Signed
<1>. QED
  BY <1>1, <1>2, <1>3, <1>4, <1>5

(* A proper number of used digits is at least the power of its top digit.  *)
LEMMA ProperFacts ==
  ASSUME NEW x \in MpInts, Proper(x)
  PROVE  /\ x.used > 0 => Mag(x) >= Pow[x.used - 1] /\ Mag(x) > 0
         /\ x.used = 0 => Mag(x) = 0 /\ IntVal(x) = 0
         /\ IsNeg(x) <=> IntVal(x) < 0
         /\ IsNeg(x) => x.used > 0
<1>1. /\ x.used \in Counts /\ x.used \in Nat /\ x.sign \in Signs /\ x.digit \in Vectors
      /\ Mag(x) = Val(x.digit)[x.used] /\ Mag(x) \in Nat /\ IntVal(x) = Signed(x.sign, Mag(x))
  BY IntFacts
<1>2. x.used > 0 => Mag(x) >= Pow[x.used - 1] /\ Mag(x) > 0
  <2>. SUFFICES ASSUME x.used > 0 PROVE Mag(x) >= Pow[x.used - 1] /\ Mag(x) > 0
    OBVIOUS
  <2>1. x.used - 1 \in Places /\ (x.used - 1) + 1 = x.used /\ x.digit[x.used - 1] # 0
    BY <1>1, IntFacts DEF Proper
  <2>. DEFINE n == x.used - 1
  <2>2. Val(x.digit)[n + 1] >= Pow[n] /\ Pow[n] \in Nat /\ Pow[n] > 0
    <3>1. n \in Nat
      BY <2>1, PlaceFacts
    <3>. HIDE DEF n
    <3>2. n \in Places /\ x.digit[n] # 0
      BY <2>1 DEF n
    <3>. QED
      BY <1>1, <3>1, <3>2, ValLeading, PowFacts
  <2>. QED
    BY <1>1, <2>1, <2>2
<1>3. x.used = 0 => Mag(x) = 0
  BY <1>1, ValRecursion
<1>. QED
  BY <1>1, <1>2, <1>3 DEF Proper, IsNeg, Signed, Signs, MP_NEG, MP_ZPOS

(* mp_grow: the number stays what it was, and there is room for its digits *)
(* if it succeeds.                                                         *)
LEMMA Growing ==
  ASSUME NEW x \in MpInts, Proper(x), NEW size \in Nat, NEW r \in Grow(x, size)
  PROVE  /\ r.num \in MpInts /\ Proper(r.num) /\ (NoExcess(x) => NoExcess(r.num))
         /\ IntVal(r.num) = IntVal(x) /\ r.num.used = x.used /\ r.num.sign = x.sign
         /\ \A i \in Places : i < x.used => r.num.digit[i] = x.digit[i]
         /\ r.code \in Codes /\ r.rem = 0 /\ r.rem \in Digits
         /\ r.code = "OKAY" => size <= r.num.alloc /\ size \in Counts
<1>1. /\ x.used \in Counts /\ x.used \in Nat /\ x.alloc \in Counts /\ x.alloc \in Nat
      /\ x.sign \in Signs /\ x.digit \in Vectors
  BY IntFacts
<1>2. x.used <= x.alloc
  BY DEF Proper
<1>3. r.rem = 0 /\ 0 \in Digits
  BY RadixFacts DEF Grow, Outcome, Digits
<1>4. PICK g \in Growths(x, size) : r = Outcome(g.code, g.num, 0)
  BY DEF Grow
<1>5. CASE g.num = x /\ g.code \in Codes /\ (g.code = "OKAY" => size <= x.alloc)
  <2>1. r.num = x /\ r.code = g.code
    BY <1>4, <1>5 DEF Outcome
  <2>2. g.code = "OKAY" => size \in Counts
    BY <1>1, <1>5, RadixFacts DEF Counts
  <2>. QED
    BY <1>3, <1>5, <2>1, <2>2
<1>6. CASE ~ (size <= x.alloc) /\ size <= MP_MAX_DIGIT_COUNT /\ g.code = "OKAY"
           /\ g.num = [x EXCEPT !.alloc = size, !.digit = ZeroDigs(@, x.alloc, size - x.alloc)]
  <2>. DEFINE d == ZeroDigs(x.digit, x.alloc, size - x.alloc)
              y == [x EXCEPT !.alloc = size, !.digit = d]
  <2>1. d \in Vectors /\ \A i \in Places : d[i] = IF x.alloc <= i /\ i < size THEN 0 ELSE x.digit[i]
    <3>1. \A i \in Places : x.digit[i] \in Digits /\ 0 \in Digits
      BY <1>1, <1>3 DEF Vectors
    <3>2. \A i \in Places : i < x.alloc + (size - x.alloc) <=> i < size
      BY <1>1, PlaceFacts
    <3>. QED
      BY <3>1, <3>2 DEF ZeroDigs, Vectors
  <2>. HIDE DEF d
  <2>2. y \in MpInts /\ y.used = x.used /\ y.sign = x.sign /\ y.digit = d /\ y.alloc = size
    BY <1>1, <1>6, <2>1, PlaceFacts DEF MpInts
  <2>3. \A i \in Places : i < x.used => d[i] = x.digit[i]
    BY <1>1, <1>2, <2>1 DEF Places
  <2>4. Val(d)[x.used] = Val(x.digit)[x.used]
    BY <1>1, <2>1, <2>3, ValPrefix
  <2>5. IntVal(y) = IntVal(x)
    BY <2>2, <2>4 DEF IntVal, Mag
  <2>6. NoExcess(x) => NoExcess(y)
    BY <2>1, <2>2 DEF NoExcess
  <2>7. Proper(y)
    <3>1. x.used > 0 => x.used - 1 \in Places /\ x.used - 1 < x.used
      BY <1>1, IntFacts
    <3>2. 0 \in Places
      BY RadixFacts DEF Places
    <3>. QED
      BY <1>1, <1>2, <1>6, <2>1, <2>2, <2>3, <3>1, <3>2 DEF Proper
  <2>8. r.num = y /\ r.code = "OKAY"
    BY <1>4, <1>6 DEF Outcome, d
  <2>. HIDE DEF y
  <2>9. "OKAY" \in Codes /\ size \in Counts /\ size <= y.alloc
    BY <1>6, <2>2, PlaceFacts DEF Codes
  <2>. QED
    BY <1>3, <2>2, <2>3, <2>5, <2>6, <2>7, <2>8, <2>9
<1>. QED
  <2>1. CASE size <= x.alloc
    BY <1>4, <1>5, <2>1 DEF Growths, Codes
  <2>2. CASE ~ (size <= x.alloc) /\ size > MP_MAX_DIGIT_COUNT
    BY <1>4, <1>5, <2>2 DEF Growths, Codes
  <2>3. CASE ~ (size <= x.alloc) /\ ~ (size > MP_MAX_DIGIT_COUNT)
    <3>1. size <= MP_MAX_DIGIT_COUNT
      BY <2>3, RadixFacts
    <3>2. \/ g.code = "MEM" /\ g.num = x
          \/ /\ g.code = "OKAY"
             /\ g.num = [x EXCEPT !.alloc = size, !.digit = ZeroDigs(@, x.alloc, size - x.alloc)]
      BY <1>4, <2>3 DEF Growths
    <3>. QED
      BY <1>5, <1>6, <2>3, <3>1, <3>2 DEF Codes
  <2>. QED
    BY <2>1, <2>2, <2>3
LEMMA ClampHolds ==
  ASSUME NEW x \in MpInts, x.used <= x.alloc, x.used = 0 => x.digit[0] = 0,
         NEW E \in BOOLEAN, E => NoExcess(x)
  PROVE  Holds(mp_clamp(x), E, Signed(x.sign, Mag(x)))
<1>. DEFINE c == mp_clamp(x)
<1>1. /\ c \in MpInts /\ Mag(c) = Mag(x) /\ c.used <= x.used /\ c.digit = x.digit
      /\ c.alloc = x.alloc /\ (c.used > 0 => c.sign = x.sign) /\ (c.used = 0 => c.sign = MP_ZPOS)
      /\ c.used > 0 => x.digit[c.used - 1] # 0
      /\ \A i \in Places : c.used <= i /\ i < x.used => x.digit[i] = 0
  BY ClampKeepsMag
<1>. HIDE DEF c
<1>2. /\ x.used \in Nat /\ c.used \in Nat /\ x.alloc \in Nat /\ 0 \in Places /\ Mag(x) \in Nat
      /\ IntVal(c) = Signed(c.sign, Mag(c)) /\ Mag(c) = Val(c.digit)[c.used] /\ c.digit \in Vectors
  BY <1>1, IntFacts, RadixFacts DEF Places
<1>3. Proper(c)
  <2>1. c.used = 0 => x.digit[0] = 0
    BY <1>1, <1>2
  <2>. QED
    BY <1>1, <1>2, <2>1 DEF Proper
<1>4. E => NoExcess(c)
  <2>. SUFFICES ASSUME E, NEW i \in Places, i >= c.used PROVE c.digit[i] = 0
    BY DEF NoExcess
  <2>1. i \in Nat /\ NoExcess(x)
    BY PlaceFacts
  <2>2. CASE i < x.used
    BY <1>1, <1>2, <2>1, <2>2
  <2>3. CASE i >= x.used
    BY <1>1, <2>1, <2>3 DEF NoExcess
  <2>. QED
    BY <1>2, <2>1, <2>2, <2>3
<1>5. IntVal(c) = Signed(x.sign, Mag(x))
  <2>1. CASE c.used > 0
    BY <1>1, <1>2, <2>1
  <2>2. CASE c.used = 0
    <3>1. Mag(c) = 0 /\ Mag(x) = 0
      BY <1>1, <1>2, <2>2, ValRecursion
    <3>. QED
      BY <1>2, <3>1 DEF Signed
  <2>. QED
    BY <1>2, <2>1, <2>2
<1>. QED
  BY <1>1, <1>3, <1>4, <1>5 DEF Holds, c

(* d has the digits of c at place n and above.                             *)
Above(d, c, n) == \A i \in Places : i >= n => d[i] = c.digit[i]

LEMMA FinishedFacts ==
  ASSUME NEW c \in MpInts, Proper(c), NEW E \in BOOLEAN, E => NoExcess(c),
         NEW n \in Counts, n <= c.alloc, NEW d \in Vectors, Above(d, c, n), NEW s \in Signs
  PROVE  LET x == Finished(c, d, n, s)
         IN  /\ x \in MpInts /\ x.used = n /\ x.alloc = c.alloc /\ x.sign = s
             /\ Mag(x) = Val(d)[n] /\ (E => NoExcess(x)) /\ (n = 0 => x.digit[0] = 0)
             /\ \A i \in Places : i < n => x.digit[i] = d[i]
             /\ \A i \in Places : i >= n => x.digit[i] = 0 \/ x.digit[i] = c.digit[i]
             /\ Holds(mp_clamp(x), E, Signed(s, Val(d)[n]))
             /\ (n > 0 => d[n - 1] # 0) /\ (n = 0 => s = MP_ZPOS) => Holds(x, E, Signed(s, Val(d)[n]))
<1>. DEFINE e == ZeroDigs(d, n, c.used - n)
            x == Finished(c, d, n, s)
<1>1. /\ c.used \in Counts /\ c.used \in Nat /\ c.alloc \in Counts /\ c.alloc \in Nat
      /\ c.digit \in Vectors /\ n \in Nat /\ 0 \in Places
  BY IntFacts, PlaceFacts, RadixFacts DEF Places
<1>2. \A i \in Places : e[i] = IF n <= i /\ i < c.used THEN 0 ELSE d[i]
  <2>1. \A i \in Places : i < n + (c.used - n) <=> i < c.used
    BY <1>1, PlaceFacts
  <2>. QED
    BY <2>1 DEF ZeroDigs
<1>3. e \in Vectors
  <2>1. \A i \in Places : d[i] \in Digits /\ 0 \in Digits
    BY RadixFacts DEF Vectors, Digits
  <2>2. e = [i \in Places |-> e[i]]
    BY DEF ZeroDigs
  <2>. QED
    BY <1>2, <2>1, <2>2 DEF Vectors
<1>. HIDE DEF e
<1>4. x \in MpInts /\ x.used = n /\ x.sign = s /\ x.digit = e /\ x.alloc = c.alloc
  BY <1>1, <1>3 DEF MpInts, Finished, e
<1>. HIDE DEF x
<1>5. \A i \in Places : i < n => e[i] = d[i]
  BY <1>1, <1>2, PlaceFacts
<1>6. Mag(x) = Val(d)[n]
  BY <1>3, <1>4, <1>5, ValPrefix DEF Mag
<1>7. E => NoExcess(x)
  <2>. SUFFICES ASSUME E, NEW i \in Places, i >= n PROVE e[i] = 0
    BY <1>4 DEF NoExcess
  <2>1. i \in Nat
    BY PlaceFacts
  <2>2. CASE i < c.used
    BY <1>1, <1>2, <2>1, <2>2
  <2>3. CASE i >= c.used
    BY <1>1, <1>2, <2>1, <2>3 DEF NoExcess, Above
  <2>. QED
    BY <1>1, <2>1, <2>2, <2>3
<1>8. n = 0 => e[0] = 0
  <2>1. CASE c.used > 0
    BY <1>1, <1>2, <2>1
  <2>2. CASE c.used = 0
    BY <1>1, <1>2, <2>2 DEF Above, Proper
  <2>. QED
    BY <1>1, <2>1, <2>2
<1>9. \A i \in Places : i >= n => e[i] = 0 \/ e[i] = c.digit[i]
  BY <1>2 DEF Above
<1>10. Holds(mp_clamp(x), E, Signed(s, Val(d)[n]))
  BY <1>4, <1>6, <1>7, <1>8, ClampHolds
<1>11. ASSUME n > 0 => d[n - 1] # 0, n = 0 => s = MP_ZPOS PROVE Holds(x, E, Signed(s, Val(d)[n]))
  <2>1. IntVal(x) = Signed(s, Val(d)[n])
    BY <1>4, <1>6 DEF IntVal, Signed
  <2>2. n > 0 => n - 1 \in Places /\ n - 1 < n
    BY <1>1, <1>4, IntFacts
  <2>3. Proper(x)
    BY <1>1, <1>4, <1>5, <1>8, <1>11, <2>2 DEF Proper
  <2>. QED
    BY <1>4, <1>7, <2>1, <2>3 DEF Holds
<1>. QED
  BY <1>4, <1>5, <1>6, <1>7, <1>8, <1>9, <1>10, <1>11 DEF x
-----------------------------------------------------------------------------
(* mp_copy.                                                                *)
LEMMA CopiedHolds ==
  ASSUME NEW a \in MpInts, Proper(a), NEW g \in MpInts, Proper(g), a.used <= g.alloc,
         NEW E \in BOOLEAN, E => NoExcess(g)
  PROVE  Holds(Copied(a, g), E, IntVal(a))
<1>. DEFINE n == a.used
            d == [i \in Places |-> IF i < n THEN a.digit[i] ELSE g.digit[i]]
<1>1. a.digit \in Vectors /\ g.digit \in Vectors /\ n \in Counts /\ n \in Nat /\ a.sign \in Signs
  BY IntFacts
<1>2. d \in Vectors
  BY <1>1 DEF Vectors
<1>3. \A i \in Places : d[i] = IF i < n THEN a.digit[i] ELSE g.digit[i]
  OBVIOUS
<1>4. Copied(a, g) = Finished(g, d, n, a.sign)
  BY DEF Copied, Written
<1>. HIDE DEF d
<1>5. Above(d, g, n)
  BY <1>1, <1>3, PlaceFacts DEF Above
<1>6. n > 0 => n - 1 \in Places /\ n - 1 < n /\ d[n - 1] # 0
  BY <1>1, <1>3, IntFacts DEF Proper
<1>7. Val(d)[n] = Val(a.digit)[n]
  BY <1>1, <1>2, <1>3, ValPrefix
<1>8. n = 0 => a.sign = MP_ZPOS
  BY DEF Proper
<1>9. IntVal(a) = Signed(a.sign, Val(d)[n])
  BY <1>7, IntFacts
<1>. HIDE DEF n
<1>10. Holds(Finished(g, d, n, a.sign), E, Signed(a.sign, Val(d)[n]))
  <2>1. n <= g.alloc
    BY DEF n
  <2>. QED
    BY <1>1, <1>2, <1>5, <1>6, <1>8, <2>1, FinishedFacts
<1>. QED
  BY <1>4, <1>9, <1>10

(* A sequence of steps on one destination: what the first delivers when it *)
(* succeeds is what the rest begins with.                                  *)
LEMMA Grown ==
  ASSUME NEW c \in MpInts, Proper(c), NEW size \in Nat, NEW E \in BOOLEAN, E => NoExcess(c)
  PROVE  /\ \A r \in Grow(c, size) : r.code # "OKAY" =>
              r.num \in MpInts /\ Proper(r.num) /\ (E => NoExcess(r.num))
              /\ r.code \in Codes /\ r.rem \in Digits /\ IntVal(r.num) = IntVal(c)
         /\ \A r \in Grow(c, size) : r.code = "OKAY" =>
              /\ r.num \in MpInts /\ Proper(r.num) /\ (E => NoExcess(r.num))
              /\ IntVal(r.num) = IntVal(c) /\ size <= r.num.alloc /\ size \in Counts
              /\ r.num.used = c.used /\ r.num.sign = c.sign
  BY Growing

LEMMA OkayDelivers ==
  ASSUME NEW x, NEW E \in BOOLEAN, NEW v, NEW F, Holds(x, E, v)
  PROVE  Delivers({Okay(x)}, E, {v}, F)
<1>1. 0 \in Digits
  BY RadixFacts DEF Digits
<1>. QED
  BY <1>1 DEF Okay, Outcome, Delivers, Holds, Codes

LEMMA CopyDelivers ==
  ASSUME NEW a \in MpInts, Proper(a), NEW c \in MpInts, Proper(c), NEW same \in BOOLEAN,
         same => a = c, NEW E \in BOOLEAN, E => NoExcess(c)
  PROVE  /\ Delivers(Copy(a, c, same), E, {IntVal(a)}, {IntVal(c)})
         /\ \A r \in Copy(a, c, same) : r.rem = 0
<1>1. CASE same
  <2>1. Copy(a, c, same) = {Okay(c)} /\ Holds(c, E, IntVal(a))
    BY <1>1 DEF Copy, Holds
  <2>2. Delivers(Copy(a, c, same), E, {IntVal(a)}, {IntVal(c)})
    BY <2>1, OkayDelivers
  <2>. QED
    BY <2>1, <2>2 DEF Okay, Outcome
<1>2. CASE ~ same
  <2>1. a.used \in Nat
    BY IntFacts
  <2>2. \A r \in Copy(a, c, same) :
          \/ r \in Grow(c, a.used) /\ r.code # "OKAY"
          \/ \E s \in Grow(c, a.used) : s.code = "OKAY" /\ r = Okay(Copied(a, s.num))
    BY <1>2 DEF Copy, Then
  <2>. SUFFICES ASSUME NEW r \in Copy(a, c, same)
                PROVE  Delivers({r}, E, {IntVal(a)}, {IntVal(c)}) /\ r.rem = 0
    BY DEF Delivers
  <2>3. CASE r \in Grow(c, a.used) /\ r.code # "OKAY"
    <3>1. r.rem = 0
      BY <2>1, <2>3, Growing
    <3>. QED
      BY <2>1, <2>3, <3>1, Grown DEF Delivers
  <2>4. ASSUME NEW s \in Grow(c, a.used), s.code = "OKAY", r = Okay(Copied(a, s.num))
        PROVE  Delivers({r}, E, {IntVal(a)}, {IntVal(c)}) /\ r.rem = 0
    <3>1. Holds(Copied(a, s.num), E, IntVal(a))
      BY <2>1, <2>4, Grown, CopiedHolds
    <3>2. Delivers({r}, E, {IntVal(a)}, {IntVal(c)})
      BY <2>4, <3>1, OkayDelivers
    <3>. QED
      BY <2>4, <3>2 DEF Okay, Outcome
  <2>. QED
    BY <2>2, <2>3, <2>4
<1>. QED
  BY <1>1, <1>2
(* Every outcome of a call that first grows c.                             *)
AfterGrow(R, c, size, E, V, F) ==
  \A r \in R : (r \in Grow(c, size) /\ r.code # "OKAY") \/ Delivers({r}, E, V, F)

LEMMA GrowDelivers ==
  ASSUME NEW c \in MpInts, Proper(c), NEW size \in Nat, NEW E \in BOOLEAN, E => NoExcess(c),
         NEW R, NEW V, NEW F, IntVal(c) \in F, AfterGrow(R, c, size, E, V, F)
  PROVE  Delivers(R, E, V, F)
<1>. SUFFICES ASSUME NEW r \in R PROVE Delivers({r}, E, V, F)
  BY DEF Delivers
<1>1. CASE r \in Grow(c, size) /\ r.code # "OKAY"
  BY <1>1, Grown DEF Delivers
<1>. QED
  BY <1>1 DEF AfterGrow

-----------------------------------------------------------------------------
(* mp_add_d and mp_sub_d.                                                  *)
LEMMA Wrapped ==
  /\ \A n \in 0 .. 2 * Radix - 1 : Wrap(n) = n
  /\ \A n \in Int : n < 0 /\ n >= - Radix =>
       Wrap(n) % Radix = n + Radix /\ HighBit(Wrap(n)) = 1
  /\ \A n \in Digits : Wrap(n) = n /\ HighBit(n) = 0
<1>1. PICK k \in Nat : k > 0 /\ DigitMod = 2 * (k * Radix)
  BY RadixFacts
<1>. DEFINE K == k * Radix
<1>2. Radix \in Nat /\ Radix > 1
  BY RadixFacts
<1>3. K \in Nat /\ K >= Radix /\ K = Radix + (k - 1) * Radix /\ (2 * K) % Radix = 0
  <2>1. K = Radix * k /\ K \in Nat /\ (k - 1) * Radix \in Nat /\ K = Radix + (k - 1) * Radix
    BY <1>1, <1>2
  <2>2. 2 * K = Radix * (2 * k) + 0 /\ 2 * k \in Int
    BY <1>1, <1>2
  <2>. QED
    BY <1>2, <2>1, <2>2
<1>4. DigitMod = 2 * K
  BY <1>1
<1>5. \A n \in 0 .. 2 * Radix - 1 : Wrap(n) = n
  <2>. HIDE DEF K
  <2>. QED
    BY <1>2, <1>3, <1>4 DEF Wrap
<1>6. ASSUME NEW n \in Int, n < 0, n >= - Radix
      PROVE  Wrap(n) % Radix = n + Radix /\ HighBit(Wrap(n)) = 1
  <2>1. Wrap(n) = 2 * K + n
    <3>. HIDE DEF K
    <3>. QED
      BY <1>2, <1>3, <1>4, <1>6 DEF Wrap
  <2>2. DigitMod \div 2 = K
    <3>. HIDE DEF K
    <3>. QED
      BY <1>3, <1>4
  <2>3. HighBit(2 * K + n) = 1
    <3>. HIDE DEF K
    <3>. QED
      BY <1>2, <1>3, <1>6, <2>2 DEF HighBit
  <2>4. (2 * K + n) % Radix = n + Radix
    <3>. DEFINE q == 2 * k - 1
    <3>1. 2 * K + n = Radix * q + (n + Radix) /\ q \in Int
      BY <1>1, <1>2, <1>6
    <3>. HIDE DEF K, q
    <3>2. n + Radix \in 0 .. Radix - 1
      BY <1>2, <1>6
    <3>. DEFINE s == n + Radix
    <3>3. Radix \in Nat /\ Radix > 0 /\ s \in 0 .. Radix - 1 /\ q \in Int
      BY <1>2, <3>1, <3>2
    <3>. HIDE DEF s
    <3>4. (Radix * q + s) % Radix = s
      BY <3>3, DivisionUnique
    <3>. QED
      BY <3>1, <3>4 DEF s
  <2>. QED
    BY <2>1, <2>3, <2>4
<1>7. ASSUME NEW n \in Digits PROVE Wrap(n) = n /\ HighBit(n) = 0
  <2>1. n \in Nat /\ n < Radix
    BY <1>2, <1>7 DEF Digits
  <2>. HIDE DEF K
  <2>2. DigitMod \div 2 = K
    BY <1>3, <1>4
  <2>. QED
    BY <1>2, <1>3, <1>4, <2>1, <2>2 DEF Wrap, HighBit
<1>. QED
  BY <1>5, <1>6, <1>7
(* What a digit keeps of a sum or a product, and what it hands on.         *)
LEMMA SplitWord ==
  ASSUME NEW x \in Nat
  PROVE  /\ x \div Radix \in Nat /\ x % Radix \in Digits
         /\ (x % Radix) + (x \div Radix) * Radix = x
<1>. DEFINE q == x \div Radix
            r == x % Radix
<1>1. Radix \in Nat /\ Radix > 0
  BY RadixFacts
<1>2. q \in Int /\ r \in 0 .. Radix - 1 /\ x = Radix * q + r
  BY <1>1, Division
<1>. HIDE DEF q, r
<1>3. q \in Nat
  <2>1. \A u, v \in Nat : u * (- v - 1) <= - u
    OBVIOUS
  <2>2. q < 0 => - q - 1 \in Nat /\ - (- q - 1) - 1 = q
    BY <1>2
  <2>3. q < 0 => Radix * q <= - Radix
    BY <1>1, <2>1, <2>2
  <2>. DEFINE p == Radix * q
  <2>4. p \in Int
    BY <1>1, <1>2
  <2>. HIDE DEF p
  <2>5. q < 0 => p <= - Radix
    BY <2>3 DEF p
  <2>6. x = p + r
    BY <1>2 DEF p
  <2>. QED
    BY <1>1, <1>2, <2>4, <2>5, <2>6
<1>4. r + q * Radix = x
  BY <1>1, <1>2
<1>. QED
  BY <1>2, <1>3, <1>4 DEF q, r, Digits

LEMMA WordBound ==
  ASSUME NEW x \in Nat, NEW k \in Nat, x < k * Radix
  PROVE  x \div Radix < k
<1>1. Radix \in Nat /\ Radix > 0
  BY RadixFacts
<1>. DEFINE q == x \div Radix
            r == x % Radix
<1>2. q \in Nat /\ r \in Digits /\ r + q * Radix = x
  BY SplitWord
<1>. HIDE DEF q, r
<1>3. q * Radix < k * Radix
  <2>. DEFINE p == q * Radix
              m == k * Radix
  <2>1. p \in Nat /\ m \in Nat /\ r \in Nat /\ r + p = x /\ x < m
    BY <1>1, <1>2 DEF Digits
  <2>. HIDE DEF p, m
  <2>2. p < m
    BY <2>1
  <2>. QED
    BY <2>2 DEF p, m
<1>4. q < k
  BY <1>1, <1>2, <1>3, MonotoneProduct
<1>. QED
  BY <1>4 DEF q

(* The digits a loop writes below place n, and those it leaves.            *)
Stored(e, c, n, v) ==
  /\ c \in MpInts /\ n \in Counts /\ v \in [0 .. n - 1 -> Digits]
  /\ e = [i \in Places |-> IF i < n THEN v[i] ELSE c.digit[i]]

LEMMA StoredFacts ==
  ASSUME NEW c, NEW n, NEW v, NEW e, Stored(e, c, n, v)
  PROVE  /\ e \in Vectors /\ Above(e, c, n)
         /\ \A i \in 0 .. n - 1 : e[i] = v[i]
         /\ \A m \in Digits, k \in Places : [e EXCEPT ![k] = m] \in Vectors
<1>0. /\ c \in MpInts /\ n \in Counts /\ v \in [0 .. n - 1 -> Digits]
      /\ e = [i \in Places |-> IF i < n THEN v[i] ELSE c.digit[i]]
  BY DEF Stored
<1>1. c.digit \in Vectors /\ n \in Nat /\ n <= MP_MAX_DIGIT_COUNT
  BY <1>0, IntFacts, PlaceFacts
<1>2. ASSUME NEW i \in Places PROVE (IF i < n THEN v[i] ELSE c.digit[i]) \in Digits
  <2>1. i < n => i \in 0 .. n - 1
    BY <1>1, PlaceFacts
  <2>. QED
    BY <1>0, <1>1, <2>1 DEF Vectors
<1>3. e \in Vectors
  BY <1>0, <1>2 DEF Vectors
<1>4. Above(e, c, n)
  BY <1>0, <1>1, PlaceFacts DEF Above
<1>5. \A i \in 0 .. n - 1 : i \in Places /\ i < n
  BY <1>1, RadixFacts DEF Places
<1>6. \A m \in Digits, k \in Places : [e EXCEPT ![k] = m] \in Vectors
  BY <1>3 DEF Vectors
<1>. QED
  BY <1>0, <1>3, <1>4, <1>5, <1>6

LEMMA AddLoopHolds ==
  ASSUME NEW a \in MpInts, NEW b \in Digits, NEW g \in MpInts, Proper(g), a.used + 1 <= g.alloc,
         NEW E \in BOOLEAN, E => NoExcess(g)
  PROVE  Holds(AddLoop(a, b, g), E, Mag(a) + b)
<1>. DEFINE n == a.used
            C == [i \in Places |-> [m \in Nat |-> Wrap(a.digit[i] + m) \div Radix]]
            mu == CarryUp(n, b, C)
            v == [i \in 0 .. n - 1 |-> Wrap(a.digit[i] + mu[i]) % Radix]
            sum == [i \in Places |-> IF i < n THEN v[i] ELSE g.digit[i]]
            d == [sum EXCEPT ![n] = mu[n]]
<1>1. /\ n \in Counts /\ n \in Nat /\ n + 1 \in Counts /\ n \in Places /\ a.digit \in Vectors
      /\ Radix \in Nat /\ Radix > 1 /\ g.digit \in Vectors /\ n + 1 <= g.alloc
  BY IntFacts, RadixFacts, PlaceFacts DEF Places
<1>2. ASSUME NEW i \in 0 .. n - 1, NEW m \in Digits
      PROVE  /\ i \in Places /\ C[i][m] = Wrap(a.digit[i] + m) \div Radix /\ C[i][m] \in Digits
             /\ Wrap(a.digit[i] + m) % Radix \in Digits
             /\ (Wrap(a.digit[i] + m) % Radix) + C[i][m] * Radix = a.digit[i] + m
  <2>1. i \in Places /\ m \in Nat /\ m < Radix
    BY <1>1, RadixFacts DEF Places, Digits
  <2>2. a.digit[i] \in Nat /\ a.digit[i] < Radix
    BY <1>1, <2>1, DigitFacts
  <2>. DEFINE x == a.digit[i] + m
  <2>3. x \in Nat /\ x < 2 * Radix /\ x \in 0 .. 2 * Radix - 1
    BY <1>1, <2>1, <2>2
  <2>4. C[i][m] = Wrap(x) \div Radix
    BY <2>1
  <2>. HIDE DEF x, C
  <2>5. Wrap(x) = x
    BY <2>3, Wrapped
  <2>6. x \div Radix < 2 /\ x \div Radix \in Nat
    BY <2>3, SplitWord, WordBound
  <2>7. x \div Radix \in Digits
    BY <1>1, <2>6 DEF Digits
  <2>8. (x % Radix) + (x \div Radix) * Radix = x /\ x % Radix \in Digits
    BY <2>3, SplitWord
  <2>. QED
    BY <2>1, <2>4, <2>5, <2>7, <2>8 DEF x
<1>3. AddLoop(a, b, g) = mp_clamp(Finished(g, d, n + 1, MP_ZPOS))
  <2>1. \A i \in Places : i < n => i \in 0 .. n - 1
    BY <1>1, PlaceFacts
  <2>2. sum = [i \in Places |-> IF i < n THEN Wrap(a.digit[i] + mu[i]) % Radix ELSE g.digit[i]]
    BY <2>1
  <2>. QED
    BY <2>2 DEF AddLoop, Written
<1>. HIDE DEF C
<1>4. mu \in [0 .. n -> Digits] /\ mu[0] = b /\ \A i \in 0 .. n - 1 : mu[i + 1] = C[i][mu[i]]
  <2>1. Digits \subseteq Int
    BY DEF Digits
  <2>2. Carries(n, Digits, C)
    BY <1>2 DEF Carries
  <2>3. Upwards(mu, n, Digits, b, C)
    BY <1>1, <2>1, <2>2, CarriesUp
  <2>. QED
    BY <2>3 DEF Upwards
<1>. HIDE DEF mu
<1>5. mu[n] \in Digits /\ \A i \in 0 .. n - 1 : i \in 0 .. n /\ mu[i] \in Digits
  BY <1>1, <1>4
<1>6. v \in [0 .. n - 1 -> Digits] /\ \A i \in 0 .. n - 1 : v[i] = Wrap(a.digit[i] + mu[i]) % Radix
  BY <1>2, <1>5
<1>. HIDE DEF v
<1>7. sum \in Vectors /\ Above(sum, g, n) /\ (\A i \in 0 .. n - 1 : sum[i] = v[i]) /\ d \in Vectors
  <2>1. Stored(sum, g, n, v)
    BY <1>1, <1>6 DEF Stored
  <2>. HIDE DEF sum
  <2>. QED
    BY <1>1, <1>5, <2>1, StoredFacts
<1>8. Loop(sum, a.digit, 1, mu, n)
  <2>1. ASSUME NEW i \in 0 .. n - 1 PROVE Place(sum, a.digit, 1, mu, i)
    <3>1. sum[i] + mu[i + 1] * Radix = a.digit[i] + mu[i]
      BY <1>2, <1>4, <1>5, <1>6, <1>7
    <3>2. i \in Places
      BY <1>2, <1>5
    <3>3. a.digit[i] \in Int
      BY <1>1, <3>2, DigitFacts
    <3>. QED
      BY <3>1, <3>3 DEF Place
  <2>2. mu \in [0 .. n -> Int]
    BY <1>4 DEF Digits
  <2>. QED
    BY <2>1, <2>2 DEF Loop
<1>. HIDE DEF sum
<1>9. Val(sum)[n] + mu[n] * Pow[n] = Val(a.digit)[n] + b
  <2>1. Spelled(sum, a.digit, 1, mu, n)
    BY <1>1, <1>7, <1>8, LoopSpells
  <2>2. Val(a.digit)[n] \in Int
    BY <1>1, ValRecursion
  <2>. QED
    BY <1>4, <2>1, <2>2 DEF Spelled
<1>10. d[n] = mu[n] /\ \A i \in Places : i # n => d[i] = sum[i]
  BY <1>1, <1>7 DEF Vectors
<1>. HIDE DEF d
<1>11. Val(d)[n + 1] = Mag(a) + b
  <2>1. Val(d)[n] = Val(sum)[n]
    <3>1. \A i \in Places : i < n => d[i] = sum[i]
      BY <1>1, <1>10, PlaceFacts
    <3>. QED
      BY <1>1, <1>7, <3>1, ValPrefix
  <2>2. Val(d)[n + 1] = Val(d)[n] + d[n] * Pow[n]
    BY <1>1, <1>7, ValRecursion
  <2>. QED
    BY <1>9, <1>10, <2>1, <2>2 DEF Mag
<1>12. Above(d, g, n + 1)
  <2>1. \A i \in Places : i >= n + 1 => i # n /\ i >= n
    BY <1>1, PlaceFacts
  <2>. QED
    BY <1>7, <1>10, <2>1 DEF Above
<1>13. Holds(mp_clamp(Finished(g, d, n + 1, MP_ZPOS)), E, Signed(MP_ZPOS, Val(d)[n + 1]))
  <2>1. MP_ZPOS \in Signs
    BY DEF Signs
  <2>. HIDE DEF n
  <2>. QED
    BY <1>1, <1>7, <1>12, <2>1, FinishedFacts
<1>14. Signed(MP_ZPOS, Val(d)[n + 1]) = Mag(a) + b
  BY <1>11 DEF Signed, MP_ZPOS, MP_NEG
<1>. QED
  BY <1>3, <1>13, <1>14

LEMMA SubLoopHolds ==
  ASSUME NEW a \in MpInts, NEW b \in Digits, NEW g \in MpInts, Proper(g), a.used <= g.alloc,
         b <= Mag(a), NEW E \in BOOLEAN, E => NoExcess(g)
  PROVE  Holds(SubLoop(a, b, g), E, Mag(a) - b)
<1>. DEFINE n == a.used
            C == [i \in Places |-> [m \in Nat |-> HighBit(Wrap(a.digit[i] - m))]]
            mu == CarryUp(n, b, C)
            v == [i \in 0 .. n - 1 |-> Wrap(a.digit[i] - mu[i]) % Radix]
            d == [i \in Places |-> IF i < n THEN v[i] ELSE g.digit[i]]
            r == [i \in 0 .. n |-> - mu[i]]
<1>1. /\ n \in Counts /\ n \in Nat /\ a.digit \in Vectors /\ n <= g.alloc
      /\ Radix \in Nat /\ Radix > 1 /\ g.digit \in Vectors /\ b \in Nat
      /\ Mag(a) \in Nat /\ Mag(a) = Val(a.digit)[n]
  BY IntFacts, RadixFacts, PlaceFacts DEF Places, Digits
<1>2. ASSUME NEW i \in 0 .. n - 1, NEW m \in Digits
      PROVE  /\ i \in Places /\ C[i][m] = HighBit(Wrap(a.digit[i] - m)) /\ C[i][m] \in Digits
             /\ Wrap(a.digit[i] - m) % Radix \in Digits
             /\ (Wrap(a.digit[i] - m) % Radix) - C[i][m] * Radix = a.digit[i] - m
  <2>1. i \in Places /\ m \in Nat /\ m < Radix
    BY <1>1, RadixFacts, IntFacts DEF Places, Digits, Counts
  <2>2. a.digit[i] \in Nat /\ a.digit[i] < Radix
    BY <1>1, <2>1, DigitFacts
  <2>. DEFINE x == a.digit[i] - m
  <2>3. x \in Int /\ x < Radix /\ x >= - Radix
    BY <1>1, <2>1, <2>2
  <2>4. C[i][m] = HighBit(Wrap(x))
    BY <2>1
  <2>. HIDE DEF x, C
  <2>5. CASE x >= 0
    <3>1. x \in Digits
      BY <1>1, <2>3, <2>5 DEF Digits
    <3>2. Wrap(x) = x /\ HighBit(x) = 0
      BY <3>1, Wrapped
    <3>3. x % Radix = x
      BY <1>1, <3>1 DEF Digits
    <3>4. 0 \in Digits /\ x - 0 * Radix = x
      BY <1>1, <2>3 DEF Digits
    <3>. QED
      BY <2>1, <2>4, <3>1, <3>2, <3>3, <3>4 DEF x
  <2>6. CASE x < 0
    <3>1. Wrap(x) % Radix = x + Radix /\ HighBit(Wrap(x)) = 1
      BY <2>3, <2>6, Wrapped
    <3>2. 1 \in Digits /\ x + Radix \in Digits /\ (x + Radix) - 1 * Radix = x
      BY <1>1, <2>3, <2>6 DEF Digits
    <3>. QED
      BY <2>1, <2>4, <3>1, <3>2 DEF x
  <2>. QED
    BY <2>3, <2>5, <2>6
<1>3. SubLoop(a, b, g) = mp_clamp(Finished(g, d, n, MP_ZPOS))
  <2>1. \A i \in Places : i < n => i \in 0 .. n - 1
    BY <1>1, PlaceFacts
  <2>2. d = [i \in Places |-> IF i < n THEN Wrap(a.digit[i] - mu[i]) % Radix ELSE g.digit[i]]
    BY <2>1
  <2>. QED
    BY <2>2 DEF SubLoop, Written
<1>. HIDE DEF C
<1>4. mu \in [0 .. n -> Digits] /\ mu[0] = b /\ \A i \in 0 .. n - 1 : mu[i + 1] = C[i][mu[i]]
  <2>1. Digits \subseteq Int
    BY DEF Digits
  <2>2. Carries(n, Digits, C)
    BY <1>2 DEF Carries
  <2>3. Upwards(mu, n, Digits, b, C)
    BY <1>1, <2>1, <2>2, CarriesUp
  <2>. QED
    BY <2>3 DEF Upwards
<1>. HIDE DEF mu
<1>5. /\ mu[n] \in Digits
      /\ \A i \in 0 .. n - 1 : i \in 0 .. n /\ i + 1 \in 0 .. n /\ mu[i] \in Digits
                               /\ mu[i + 1] \in Digits /\ r[i] = - mu[i] /\ r[i + 1] = - mu[i + 1]
      /\ r[n] = - mu[n] /\ r[0] = - b
  <2>1. n \in 0 .. n /\ 0 \in 0 .. n /\ \A i \in 0 .. n - 1 : i \in 0 .. n /\ i + 1 \in 0 .. n
    BY <1>1
  <2>2. \A i \in 0 .. n : mu[i] \in Digits
    BY <1>4
  <2>3. \A i \in 0 .. n : r[i] = - mu[i]
    OBVIOUS
  <2>. HIDE DEF r
  <2>. QED
    BY <1>4, <2>1, <2>2, <2>3
<1>6. v \in [0 .. n - 1 -> Digits] /\ \A i \in 0 .. n - 1 : v[i] = Wrap(a.digit[i] - mu[i]) % Radix
  BY <1>2, <1>5
<1>. HIDE DEF v
<1>7. d \in Vectors /\ Above(d, g, n) /\ (\A i \in 0 .. n - 1 : d[i] = v[i])
  <2>1. Stored(d, g, n, v)
    BY <1>1, <1>6 DEF Stored
  <2>. HIDE DEF d
  <2>. QED
    BY <2>1, StoredFacts
<1>8. Loop(d, a.digit, 1, r, n)
  <2>. HIDE DEF d
  <2>1. ASSUME NEW i \in 0 .. n - 1 PROVE Place(d, a.digit, 1, r, i)
    <3>0. mu[i] \in Digits /\ mu[i + 1] \in Digits /\ mu[i + 1] = C[i][mu[i]]
          /\ d[i] = Wrap(a.digit[i] - mu[i]) % Radix
      BY <1>4, <1>5, <1>6, <1>7
    <3>1. d[i] - mu[i + 1] * Radix = a.digit[i] - mu[i]
      BY <1>2, <3>0
    <3>2. i \in Places
      BY <1>2, <1>5
    <3>4. a.digit[i] \in Digits /\ d[i] \in Digits
      BY <1>1, <1>7, <3>2 DEF Vectors
    <3>3. a.digit[i] \in Int /\ d[i] \in Int /\ mu[i] \in Int /\ mu[i + 1] \in Int
      BY <1>1, <3>0, <3>4 DEF Digits
    <3>5. d[i] + (- mu[i + 1]) * Radix = 1 * a.digit[i] + (- mu[i])
      BY <1>1, <3>1, <3>3
    <3>. QED
      BY <1>5, <3>5 DEF Place
  <2>2. r \in [0 .. n -> Int]
    <3>1. \A i \in 0 .. n : - mu[i] \in Int
      BY <1>4 DEF Digits
    <3>. QED
      BY <3>1
  <2>. QED
    BY <2>1, <2>2 DEF Loop
<1>9. Val(d)[n] + (- mu[n]) * Pow[n] = Mag(a) - b
  <2>1. Spelled(d, a.digit, 1, r, n)
    <3>. HIDE DEF r, d
    <3>. QED
      BY <1>1, <1>7, <1>8, LoopSpells
  <2>. QED
    BY <1>1, <1>5, <2>1 DEF Spelled
<1>. HIDE DEF d, r
<1>10. Val(d)[n] \in Nat /\ Val(d)[n] < Pow[n] /\ Pow[n] \in Nat
  BY <1>1, <1>7, ValBounds, PowFacts
<1>11. mu[n] = 0
  <2>1. mu[n] \in Nat
    BY <1>5 DEF Digits
  <2>2. \A x, P \in Nat : x # 0 => (- x) * P <= - P
    <3>1. \A x, P \in Nat : (- (x + 1)) * P = - P - x * P /\ x * P >= 0 /\ x * P \in Nat
      OBVIOUS
    <3>2. \A x \in Nat : x # 0 => x - 1 \in Nat /\ (x - 1) + 1 = x
      OBVIOUS
    <3>3. ASSUME NEW x \in Nat, NEW P \in Nat, x # 0 PROVE (- x) * P <= - P
      <4>1. x - 1 \in Nat /\ (x - 1) + 1 = x
        BY <3>2, <3>3
      <4>. DEFINE y == x - 1
                  z == y * P
      <4>2. (- (y + 1)) * P = - P - z /\ z >= 0 /\ z \in Nat
        BY <3>1, <4>1
      <4>3. (- x) * P = - P - z
        BY <4>1, <4>2
      <4>. HIDE DEF z
      <4>. QED
        BY <4>2, <4>3
    <3>. QED
      BY <3>3
  <2>. DEFINE p == (- mu[n]) * Pow[n]
  <2>3. mu[n] # 0 => p <= - Pow[n]
    BY <1>10, <2>1, <2>2
  <2>4. p \in Int
    BY <1>10, <2>1
  <2>5. Val(d)[n] + p >= 0
    BY <1>1, <1>9
  <2>. HIDE DEF p
  <2>. QED
    BY <1>10, <2>3, <2>4, <2>5
<1>12. Val(d)[n] = Mag(a) - b
  <2>1. (- 0) * Pow[n] = 0
    BY <1>10
  <2>. QED
    BY <1>9, <1>10, <1>11, <2>1
<1>13. Holds(mp_clamp(Finished(g, d, n, MP_ZPOS)), E, Signed(MP_ZPOS, Val(d)[n]))
  <2>1. MP_ZPOS \in Signs
    BY DEF Signs
  <2>. HIDE DEF n
  <2>. QED
    BY <1>1, <1>7, <2>1, FinishedFacts
<1>14. Signed(MP_ZPOS, Val(d)[n]) = Mag(a) - b
  BY <1>12 DEF Signed, MP_ZPOS, MP_NEG
<1>. QED
  BY <1>3, <1>13, <1>14

LEMMA OneDigit ==
  /\ 0 \in Places /\ 1 \in Counts /\ Pow[0] = 1 /\ Pow[1] = Radix
  /\ \A d \in Vectors : Val(d)[0] = 0 /\ Val(d)[1] = d[0] /\ d[0] \in Digits
<1>1. 0 \in Places /\ 1 \in Counts
  BY RadixFacts DEF Places, Counts
<1>2. Pow[0] = 1 /\ Pow[1] = Radix
  <2>1. Pow[0 + 1] = Radix * Pow[0] /\ Pow[0] = 1
    BY PowFacts
  <2>. QED
    BY <2>1, RadixFacts
<1>3. ASSUME NEW d \in Vectors PROVE Val(d)[0] = 0 /\ Val(d)[1] = d[0] /\ d[0] \in Digits
  <2>1. Val(d)[0] = 0 /\ Val(d)[0 + 1] = Val(d)[0] + d[0] * Pow[0]
    BY <1>1, ValRecursion
  <2>2. d[0] \in Nat
    BY <1>1, DigitFacts
  <2>3. d[0] * 1 = d[0] /\ 0 + d[0] = d[0]
    BY <2>2
  <2>. QED
    BY <1>1, <1>2, <2>1, <2>3 DEF Vectors
<1>. QED
  BY <1>1, <1>2, <1>3

LEMMA SingleDigitHolds ==
  ASSUME NEW a \in MpInts, NEW b \in Digits, NEW g \in MpInts, Proper(g), 1 <= g.alloc,
         a.used = 1 => a.digit[0] <= b, NEW sign \in Signs, NEW E \in BOOLEAN, E => NoExcess(g)
  PROVE  Holds(SingleDigit(a, b, g, sign), E,
               Signed(sign, IF a.used = 1 THEN b - a.digit[0] ELSE b))
<1>. DEFINE x == IF a.used = 1 THEN b - a.digit[0] ELSE b
            d == [g.digit EXCEPT ![0] = x]
<1>1. a.digit \in Vectors /\ g.digit \in Vectors /\ a.digit[0] \in Digits
  BY IntFacts, OneDigit
<1>2. x \in Digits
  BY <1>1, RadixFacts DEF Digits
<1>3. SingleDigit(a, b, g, sign) = mp_clamp(Finished(g, d, 1, sign))
  BY DEF SingleDigit
<1>. HIDE DEF x
<1>4. d \in Vectors /\ d[0] = x /\ \A i \in Places : i # 0 => d[i] = g.digit[i]
  BY <1>1, <1>2, OneDigit DEF Vectors
<1>. HIDE DEF d
<1>5. Above(d, g, 1)
  BY <1>4, PlaceFacts DEF Above
<1>6. Holds(mp_clamp(Finished(g, d, 1, sign)), E, Signed(sign, Val(d)[1]))
  BY <1>4, <1>5, OneDigit, FinishedFacts
<1>7. Val(d)[1] = x
  BY <1>4, OneDigit
<1>. QED
  BY <1>3, <1>6, <1>7 DEF x

LEMMA SubPositiveHolds ==
  ASSUME NEW a \in MpInts, Proper(a), NEW b \in Digits, NEW g \in MpInts, Proper(g),
         a.used + 1 <= g.alloc, NEW E \in BOOLEAN, E => NoExcess(g)
  PROVE  Holds(SubPositive(a, b, g), E, Mag(a) - b)
<1>1. /\ a.used \in Nat /\ a.digit \in Vectors /\ g.alloc \in Nat /\ b \in Nat /\ b < Radix
      /\ a.digit[0] \in Digits /\ a.digit[0] \in Nat /\ Mag(a) \in Nat
      /\ Radix \in Nat /\ a.used <= g.alloc /\ 1 <= g.alloc
  BY IntFacts, OneDigit, RadixFacts DEF Digits
<1>2. a.used = 1 => Mag(a) = a.digit[0]
  BY <1>1, OneDigit, IntFacts
<1>3. CASE (a.used = 1 /\ a.digit[0] <= b) \/ IsZero(a)
  <2>1. SubPositive(a, b, g) = SingleDigit(a, b, g, MP_NEG)
    BY <1>3 DEF SubPositive
  <2>2. a.used = 1 => a.digit[0] <= b
    BY <1>3 DEF IsZero
  <2>3. Holds(SingleDigit(a, b, g, MP_NEG), E,
              Signed(MP_NEG, IF a.used = 1 THEN b - a.digit[0] ELSE b))
    BY <1>1, <2>2, SingleDigitHolds DEF Signs
  <2>4. Signed(MP_NEG, IF a.used = 1 THEN b - a.digit[0] ELSE b) = Mag(a) - b
    BY <1>1, <1>2, <1>3, ProperFacts DEF Signed, IsZero
  <2>. QED
    BY <2>1, <2>3, <2>4
<1>4. CASE ~ ((a.used = 1 /\ a.digit[0] <= b) \/ IsZero(a))
  <2>1. SubPositive(a, b, g) = SubLoop(a, b, g)
    BY <1>4 DEF SubPositive
  <2>2. b <= Mag(a)
    <3>1. CASE a.used = 1
      BY <1>1, <1>2, <1>4, <3>1
    <3>2. CASE a.used > 1
      <4>1. Mag(a) >= Pow[a.used - 1] /\ a.used - 1 \in Nat /\ 1 <= a.used - 1
        BY <1>1, <3>2, ProperFacts
      <4>2. Pow[1] <= Pow[a.used - 1] /\ Pow[a.used - 1] \in Nat
        BY <4>1, PowMonotone, PowFacts
      <4>. QED
        BY <1>1, <4>1, <4>2, OneDigit
    <3>. QED
      BY <1>1, <1>4, <3>1, <3>2 DEF IsZero
  <2>. QED
    BY <1>1, <2>1, <2>2, SubLoopHolds
<1>. QED
  BY <1>3, <1>4

LEMMA NegatedHolds ==
  ASSUME NEW x, NEW E \in BOOLEAN, NEW v \in Nat, Holds(x, E, v)
  PROVE  Holds(Negated(x), E, - v)
<1>. DEFINE y == [x EXCEPT !.sign = MP_NEG]
<1>1. x \in MpInts /\ Proper(x) /\ (E => NoExcess(x)) /\ IntVal(x) = v
  BY DEF Holds
<1>2. y \in MpInts /\ y.used = x.used /\ y.digit = x.digit /\ y.alloc = x.alloc /\ y.sign = MP_NEG
  BY <1>1 DEF MpInts, Signs
<1>. HIDE DEF y
<1>3. y.used <= y.alloc /\ (y.used = 0 => y.digit[0] = 0) /\ (E => NoExcess(y))
  BY <1>1, <1>2 DEF Proper, NoExcess
<1>4. Holds(mp_clamp(y), E, Signed(y.sign, Mag(y)))
  BY <1>2, <1>3, ClampHolds
<1>5. Mag(y) = v
  <2>1. ~ IsNeg(x) /\ Mag(x) = v
    BY <1>1, ProperFacts DEF IntVal, IsNeg
  <2>. QED
    BY <1>2, <2>1 DEF Mag
<1>6. Negated(x) = mp_clamp(y)
  BY DEF Negated, y
<1>. QED
  BY <1>2, <1>4, <1>5, <1>6 DEF Signed

LEMMA AddGrownHolds ==
  ASSUME NEW a \in MpInts, Proper(a), NEW b \in Digits, NEW g \in MpInts, Proper(g),
         a.used + 1 <= g.alloc, NEW E \in BOOLEAN, E => NoExcess(g)
  PROVE  Holds(AddGrown(a, b, g), E, IntVal(a) + b)
<1>1. /\ a.used \in Nat /\ a.digit \in Vectors /\ g.alloc \in Nat /\ b \in Nat /\ b < Radix
      /\ a.digit[0] \in Digits /\ a.digit[0] \in Nat /\ Mag(a) \in Nat
      /\ Radix \in Nat /\ a.used <= g.alloc /\ 1 <= g.alloc
      /\ IntVal(a) = Signed(a.sign, Mag(a))
  BY IntFacts, OneDigit, RadixFacts DEF Digits
<1>2. a.used = 1 => Mag(a) = a.digit[0]
  BY <1>1, OneDigit, IntFacts
<1>3. CASE ~ IsNeg(a)
  <2>1. IntVal(a) = Mag(a)
    BY <1>1, <1>3 DEF IsNeg, Signed
  <2>. QED
    BY <1>3, <2>1, AddLoopHolds DEF AddGrown
<1>4. CASE IsNeg(a) /\ (a.used > 1 \/ a.digit[0] >= b)
  <2>1. AddGrown(a, b, g) = Negated(SubPositive(a, b, g))
    BY <1>4 DEF AddGrown
  <2>2. Holds(SubPositive(a, b, g), E, Mag(a) - b)
    BY SubPositiveHolds
  <2>3. Mag(a) - b \in Nat
    <3>1. CASE a.used > 1
      <4>1. Mag(a) >= Pow[a.used - 1] /\ a.used - 1 \in Nat /\ 1 <= a.used - 1
        BY <1>1, <3>1, ProperFacts
      <4>2. Pow[1] <= Pow[a.used - 1] /\ Pow[a.used - 1] \in Nat
        BY <4>1, PowMonotone, PowFacts
      <4>. QED
        BY <1>1, <4>1, <4>2, OneDigit
    <3>2. CASE ~ (a.used > 1)
      BY <1>1, <1>2, <1>4, <3>2, ProperFacts
    <3>. QED
      BY <3>1, <3>2
  <2>4. Holds(Negated(SubPositive(a, b, g)), E, - (Mag(a) - b))
    BY <2>2, <2>3, NegatedHolds
  <2>5. - (Mag(a) - b) = IntVal(a) + b
    BY <1>1, <1>4 DEF IsNeg, Signed
  <2>. QED
    BY <2>1, <2>4, <2>5
<1>5. CASE IsNeg(a) /\ ~ (a.used > 1 \/ a.digit[0] >= b)
  <2>1. AddGrown(a, b, g) = SingleDigit(a, b, g, MP_ZPOS)
    BY <1>5 DEF AddGrown
  <2>2. a.used = 1 /\ a.digit[0] <= b
    BY <1>1, <1>5, ProperFacts
  <2>3. Holds(SingleDigit(a, b, g, MP_ZPOS), E,
              Signed(MP_ZPOS, IF a.used = 1 THEN b - a.digit[0] ELSE b))
    BY <1>1, <2>2, SingleDigitHolds DEF Signs
  <2>4. Signed(MP_ZPOS, IF a.used = 1 THEN b - a.digit[0] ELSE b) = IntVal(a) + b
    BY <1>1, <1>2, <1>5, <2>2 DEF Signed, IsNeg, MP_ZPOS, MP_NEG
  <2>. QED
    BY <2>1, <2>3, <2>4
<1>. QED
  BY <1>3, <1>4, <1>5

LEMMA SubGrownHolds ==
  ASSUME NEW a \in MpInts, Proper(a), NEW b \in Digits, NEW g \in MpInts, Proper(g),
         a.used + 1 <= g.alloc, NEW E \in BOOLEAN, E => NoExcess(g)
  PROVE  Holds(SubGrown(a, b, g), E, IntVal(a) - b)
<1>1. b \in Nat /\ Mag(a) \in Nat /\ IntVal(a) = Signed(a.sign, Mag(a))
  BY IntFacts, RadixFacts DEF Digits
<1>2. CASE ~ IsNeg(a)
  <2>1. IntVal(a) = Mag(a)
    BY <1>1, <1>2 DEF IsNeg, Signed
  <2>. QED
    BY <1>2, <2>1, SubPositiveHolds DEF SubGrown
<1>3. CASE IsNeg(a)
  <2>1. Holds(AddLoop(a, b, g), E, Mag(a) + b) /\ Mag(a) + b \in Nat
    BY <1>1, AddLoopHolds
  <2>2. Holds(Negated(AddLoop(a, b, g)), E, - (Mag(a) + b))
    BY <2>1, NegatedHolds
  <2>3. - (Mag(a) + b) = IntVal(a) - b
    BY <1>1, <1>3 DEF IsNeg, Signed
  <2>. QED
    BY <1>3, <2>2, <2>3 DEF SubGrown
<1>. QED
  BY <1>2, <1>3

(* Digits of a freed block: any values of the type.  What the loops make   *)
(* of them is a number, if not one of use.                                 *)
Arbitrary(a) == a.used \in Counts /\ a.digit \in [Places -> 0 .. DigitMod - 1]

LEMMA AnyWord ==
  ASSUME NEW n \in Int
  PROVE  /\ Wrap(n) \in 0 .. DigitMod - 1 /\ Wrap(n) % Radix \in Digits
         /\ Wrap(n) \div Radix \in Digits /\ HighBit(Wrap(n)) \in Digits
<1>1. PICK k \in Nat : k > 0 /\ DigitMod = 2 * (k * Radix)
  BY RadixFacts
<1>. DEFINE K == k * Radix
            x == Wrap(n)
<1>2. Radix \in Nat /\ Radix > 1 /\ K \in Nat /\ K > 0
  BY <1>1, RadixFacts, Products
<1>3. DigitMod \in Nat /\ DigitMod > 0 /\ DigitMod = 2 * K
  BY <1>1, <1>2
<1>. HIDE DEF K
<1>4. x \in 0 .. DigitMod - 1
  BY <1>3, Division DEF Wrap
<1>. HIDE DEF x
<1>5. x \in Nat /\ x < Radix * Radix
  BY <1>2, <1>3, <1>4, SpareBitsAssumption
<1>6. x % Radix \in Digits /\ x \div Radix \in Nat /\ x \div Radix < Radix
  BY <1>2, <1>5, SplitWord, WordBound
<1>7. HighBit(x) \in 0 .. 1
  <2>1. DigitMod \div 2 = K
    BY <1>2, <1>3
  <2>. DEFINE q == x \div K
  <2>2. q \in Int /\ x % K \in 0 .. K - 1 /\ x = K * q + (x % K)
    BY <1>2, <1>5, Division
  <2>. DEFINE r == x % K
  <2>. HIDE DEF q, r
  <2>3. q \in Int /\ r \in 0 .. K - 1 /\ x = K * q + r /\ x < 2 * K /\ x \in Nat
    BY <1>2, <1>3, <1>4, <1>5, <2>2 DEF r
  <2>4. K * q = q * K /\ K * q < 2 * K /\ K * q > - K
    BY <1>2, <2>3
  <2>5. q < 2 /\ q > -1
    <3>1. q * K < 2 * K => q < 2
      <4>1. q >= 2 => K * (q - 2) >= 0 /\ K * (q - 2) = q * K - 2 * K
        BY <1>2, <2>3, Products
      <4>. QED
        BY <1>2, <2>3, <4>1
    <3>2. q <= -1 => K * q <= - K
      <4>1. q <= -1 => K * (- q - 1) >= 0 /\ K * (- q - 1) = - (q * K) - K
        BY <1>2, <2>3, Products
      <4>. QED
        BY <1>2, <2>3, <2>4, <4>1
    <3>. QED
      BY <1>2, <2>3, <2>4, <3>1, <3>2
  <2>. QED
    BY <2>1, <2>3, <2>5 DEF HighBit, q
<1>. QED
  BY <1>2, <1>4, <1>6, <1>7 DEF x, Digits

LEMMA AddLoopAny ==
  ASSUME NEW a, Arbitrary(a), NEW b \in Digits, NEW g \in MpInts, Proper(g), a.used + 1 <= g.alloc,
         NEW E \in BOOLEAN, E => NoExcess(g)
  PROVE  \E v \in Nat : Holds(AddLoop(a, b, g), E, v)
<1>. DEFINE n == a.used
            C == [i \in Places |-> [m \in Nat |-> Wrap(a.digit[i] + m) \div Radix]]
            mu == CarryUp(n, b, C)
            v == [i \in 0 .. n - 1 |-> Wrap(a.digit[i] + mu[i]) % Radix]
            sum == [i \in Places |-> IF i < n THEN v[i] ELSE g.digit[i]]
            d == [sum EXCEPT ![n] = mu[n]]
<1>1. /\ n \in Counts /\ n \in Nat /\ n + 1 \in Counts /\ n \in Places
      /\ a.digit \in [Places -> 0 .. DigitMod - 1] /\ g.digit \in Vectors /\ n + 1 <= g.alloc
  BY IntFacts, RadixFacts, PlaceFacts DEF Places, Arbitrary
<1>2. ASSUME NEW i \in 0 .. n - 1, NEW m \in Digits
      PROVE  C[i][m] \in Digits /\ Wrap(a.digit[i] + m) % Radix \in Digits
  <2>1. i \in Places /\ m \in Nat
    BY <1>1, RadixFacts DEF Places, Digits
  <2>2. a.digit[i] + m \in Int
    BY <1>1, <2>1
  <2>3. C[i][m] = Wrap(a.digit[i] + m) \div Radix
    BY <2>1
  <2>. HIDE DEF C
  <2>. QED
    BY <2>2, <2>3, AnyWord
<1>3. AddLoop(a, b, g) = mp_clamp(Finished(g, d, n + 1, MP_ZPOS))
  <2>1. \A i \in Places : i < n => i \in 0 .. n - 1
    BY <1>1, PlaceFacts
  <2>2. sum = [i \in Places |-> IF i < n THEN Wrap(a.digit[i] + mu[i]) % Radix ELSE g.digit[i]]
    BY <2>1
  <2>. QED
    BY <2>2 DEF AddLoop, Written
<1>. HIDE DEF C
<1>4. mu \in [0 .. n -> Digits]
  <2>1. Digits \subseteq Int
    BY DEF Digits
  <2>2. Carries(n, Digits, C)
    BY <1>2 DEF Carries
  <2>3. Upwards(mu, n, Digits, b, C)
    BY <1>1, <2>1, <2>2, CarriesUp
  <2>. QED
    BY <2>3 DEF Upwards
<1>. HIDE DEF mu
<1>5. mu[n] \in Digits /\ v \in [0 .. n - 1 -> Digits]
  <2>1. n \in 0 .. n /\ \A i \in 0 .. n - 1 : i \in 0 .. n
    BY <1>1
  <2>2. \A i \in 0 .. n - 1 : Wrap(a.digit[i] + mu[i]) % Radix \in Digits
    BY <1>2, <1>4, <2>1
  <2>. QED
    BY <1>4, <2>1, <2>2
<1>. HIDE DEF v
<1>6. sum \in Vectors /\ Above(sum, g, n) /\ d \in Vectors
  <2>1. Stored(sum, g, n, v)
    BY <1>1, <1>5 DEF Stored
  <2>. HIDE DEF sum
  <2>. QED
    BY <1>1, <1>5, <2>1, StoredFacts
<1>. HIDE DEF sum
<1>7. Above(d, g, n + 1)
  <2>1. \A i \in Places : i >= n + 1 => i # n /\ i >= n
    BY <1>1, PlaceFacts
  <2>2. \A i \in Places : i # n => d[i] = sum[i]
    BY <1>1, <1>6 DEF Vectors
  <2>. QED
    BY <1>6, <2>1, <2>2 DEF Above
<1>. HIDE DEF d
<1>8. Holds(mp_clamp(Finished(g, d, n + 1, MP_ZPOS)), E, Signed(MP_ZPOS, Val(d)[n + 1]))
  <2>1. MP_ZPOS \in Signs
    BY DEF Signs
  <2>. HIDE DEF n
  <2>. QED
    BY <1>1, <1>6, <1>7, <2>1, FinishedFacts
<1>9. Val(d)[n + 1] \in Nat
  BY <1>1, <1>6, ValBounds
<1>. QED
  BY <1>3, <1>8, <1>9 DEF Signed, MP_ZPOS, MP_NEG

LEMMA SubLoopAny ==
  ASSUME NEW a, Arbitrary(a), NEW b \in Digits, NEW g \in MpInts, Proper(g), a.used <= g.alloc,
         NEW E \in BOOLEAN, E => NoExcess(g)
  PROVE  \E v \in Nat : Holds(SubLoop(a, b, g), E, v)
<1>. DEFINE n == a.used
            C == [i \in Places |-> [m \in Nat |-> HighBit(Wrap(a.digit[i] - m))]]
            mu == CarryUp(n, b, C)
            v == [i \in 0 .. n - 1 |-> Wrap(a.digit[i] - mu[i]) % Radix]
            d == [i \in Places |-> IF i < n THEN v[i] ELSE g.digit[i]]
<1>1. /\ n \in Counts /\ n \in Nat /\ n <= MP_MAX_DIGIT_COUNT
      /\ a.digit \in [Places -> 0 .. DigitMod - 1] /\ g.digit \in Vectors /\ n <= g.alloc
  BY IntFacts, RadixFacts, PlaceFacts DEF Arbitrary
<1>2. ASSUME NEW i \in 0 .. n - 1, NEW m \in Digits
      PROVE  C[i][m] \in Digits /\ Wrap(a.digit[i] - m) % Radix \in Digits
  <2>1. i \in Places /\ m \in Nat
    BY <1>1, RadixFacts DEF Places, Digits
  <2>2. a.digit[i] - m \in Int
    BY <1>1, <2>1
  <2>3. C[i][m] = HighBit(Wrap(a.digit[i] - m))
    BY <2>1
  <2>. HIDE DEF C
  <2>. QED
    BY <2>2, <2>3, AnyWord
<1>3. SubLoop(a, b, g) = mp_clamp(Finished(g, d, n, MP_ZPOS))
  <2>1. \A i \in Places : i < n => i \in 0 .. n - 1
    BY <1>1, PlaceFacts
  <2>2. d = [i \in Places |-> IF i < n THEN Wrap(a.digit[i] - mu[i]) % Radix ELSE g.digit[i]]
    BY <2>1
  <2>. QED
    BY <2>2 DEF SubLoop, Written
<1>. HIDE DEF C
<1>4. mu \in [0 .. n -> Digits]
  <2>1. Digits \subseteq Int
    BY DEF Digits
  <2>2. Carries(n, Digits, C)
    BY <1>2 DEF Carries
  <2>3. Upwards(mu, n, Digits, b, C)
    BY <1>1, <2>1, <2>2, CarriesUp
  <2>. QED
    BY <2>3 DEF Upwards
<1>. HIDE DEF mu
<1>5. v \in [0 .. n - 1 -> Digits]
  <2>1. \A i \in 0 .. n - 1 : i \in 0 .. n
    BY <1>1
  <2>2. \A i \in 0 .. n - 1 : Wrap(a.digit[i] - mu[i]) % Radix \in Digits
    BY <1>2, <1>4, <2>1
  <2>. QED
    BY <2>2
<1>. HIDE DEF v
<1>6. d \in Vectors /\ Above(d, g, n)
  <2>1. Stored(d, g, n, v)
    BY <1>1, <1>5 DEF Stored
  <2>. HIDE DEF d
  <2>. QED
    BY <2>1, StoredFacts
<1>. HIDE DEF d
<1>7. Holds(mp_clamp(Finished(g, d, n, MP_ZPOS)), E, Signed(MP_ZPOS, Val(d)[n]))
  <2>1. MP_ZPOS \in Signs
    BY DEF Signs
  <2>. HIDE DEF n
  <2>. QED
    BY <1>1, <1>6, <2>1, FinishedFacts
<1>8. Val(d)[n] \in Nat
  BY <1>1, <1>6, ValBounds
<1>. QED
  BY <1>3, <1>7, <1>8 DEF Signed, MP_ZPOS, MP_NEG

LEMMA SingleDigitAny ==
  ASSUME NEW a, Arbitrary(a), NEW b \in Digits, NEW g \in MpInts, Proper(g), 1 <= g.alloc,
         a.used = 1 => a.digit[0] <= b, NEW sign \in Signs, NEW E \in BOOLEAN, E => NoExcess(g)
  PROVE  \E v \in Int : Holds(SingleDigit(a, b, g, sign), E, v)
<1>. DEFINE x == IF a.used = 1 THEN b - a.digit[0] ELSE b
            d == [g.digit EXCEPT ![0] = x]
<1>1. a.digit[0] \in 0 .. DigitMod - 1 /\ g.digit \in Vectors
  BY IntFacts, OneDigit DEF Arbitrary
<1>2. x \in Digits
  BY <1>1, RadixFacts DEF Digits
<1>3. SingleDigit(a, b, g, sign) = mp_clamp(Finished(g, d, 1, sign))
  BY DEF SingleDigit
<1>. HIDE DEF x
<1>4. d \in Vectors /\ \A i \in Places : i # 0 => d[i] = g.digit[i]
  BY <1>1, <1>2, OneDigit DEF Vectors
<1>. HIDE DEF d
<1>5. Above(d, g, 1)
  BY <1>4, PlaceFacts DEF Above
<1>6. Holds(mp_clamp(Finished(g, d, 1, sign)), E, Signed(sign, Val(d)[1]))
  BY <1>4, <1>5, OneDigit, FinishedFacts
<1>7. Signed(sign, Val(d)[1]) \in Int
  BY <1>4, OneDigit DEF Signed, Digits
<1>. QED
  BY <1>3, <1>6, <1>7

LEMMA SubGrownAny ==
  ASSUME NEW a, Arbitrary(a), NEW b \in Digits, NEW g \in MpInts, Proper(g), a.used + 1 <= g.alloc,
         NEW E \in BOOLEAN, E => NoExcess(g)
  PROVE  \E v \in Int : Holds(SubGrown(a, b, g), E, v)
<1>1. a.used \in Nat /\ g.alloc \in Nat /\ a.used <= g.alloc /\ 1 <= g.alloc
  BY IntFacts, PlaceFacts DEF Arbitrary
<1>2. CASE IsNeg(a)
  <2>1. PICK v \in Nat : Holds(AddLoop(a, b, g), E, v)
    BY AddLoopAny
  <2>2. Holds(Negated(AddLoop(a, b, g)), E, - v)
    BY <2>1, NegatedHolds
  <2>. QED
    BY <1>2, <2>2 DEF SubGrown
<1>3. CASE ~ IsNeg(a) /\ ((a.used = 1 /\ a.digit[0] <= b) \/ IsZero(a))
  <2>1. a.used = 1 => a.digit[0] <= b
    BY <1>3 DEF IsZero
  <2>2. \E v \in Int : Holds(SingleDigit(a, b, g, MP_NEG), E, v)
    BY <1>1, <2>1, SingleDigitAny DEF Signs
  <2>. QED
    BY <1>3, <2>2 DEF SubGrown, SubPositive
<1>4. CASE ~ IsNeg(a) /\ ~ ((a.used = 1 /\ a.digit[0] <= b) \/ IsZero(a))
  <2>1. PICK v \in Nat : Holds(SubLoop(a, b, g), E, v)
    BY <1>1, SubLoopAny
  <2>. QED
    BY <1>4, <2>1 DEF SubGrown, SubPositive
<1>. QED
  BY <1>2, <1>3, <1>4

(* The fast paths, on the lowest digit alone.                              *)
LEMMA LowDigit ==
  ASSUME NEW d \in Vectors, NEW x \in Digits, NEW n \in Counts, n > 0
  PROVE  /\ [d EXCEPT ![0] = x] \in Vectors
         /\ Val([d EXCEPT ![0] = x])[n] = Val(d)[n] - d[0] + x
<1>. DEFINE e == [d EXCEPT ![0] = x]
            S == {m \in Counts : m > 0 => Val(e)[m] = Val(d)[m] - d[0] + x}
<1>1. e \in Vectors /\ e[0] = x /\ \A i \in Places : i # 0 => e[i] = d[i]
  BY OneDigit DEF Vectors
<1>. HIDE DEF e
<1>2. d[0] \in Nat /\ x \in Nat
  BY OneDigit DEF Digits
<1>3. 0 \in S
  BY PlaceFacts
<1>4. ASSUME NEW m \in Places, m \in S PROVE m + 1 \in S
  <2>1. /\ m \in Nat /\ m \in Counts /\ m + 1 \in Counts /\ d[m] \in Int /\ e[m] \in Int
        /\ Val(e)[m + 1] = Val(e)[m] + e[m] * Pow[m] /\ Val(d)[m + 1] = Val(d)[m] + d[m] * Pow[m]
        /\ Val(d)[m] \in Int /\ Val(e)[m] \in Int /\ Pow[m] \in Int
    BY <1>1, PlaceFacts, ValRecursion, DigitFacts
  <2>2. CASE m = 0
    <3>1. Val(e)[0 + 1] = e[0] /\ Val(d)[0 + 1] = d[0]
      BY <1>1, OneDigit
    <3>. QED
      BY <1>1, <1>2, <2>1, <2>2, <3>1
  <2>3. CASE m # 0
    <3>. DEFINE p == d[m] * Pow[m]
    <3>1. p \in Int /\ e[m] = d[m]
      BY <1>1, <2>1, <2>3
    <3>2. Val(e)[m] = Val(d)[m] - d[0] + x
      BY <1>4, <2>1, <2>3
    <3>3. Val(e)[m + 1] = Val(e)[m] + p /\ Val(d)[m + 1] = Val(d)[m] + p
      BY <2>1, <3>1
    <3>. HIDE DEF p
    <3>4. Val(e)[m + 1] = Val(d)[m + 1] - d[0] + x
      BY <1>2, <2>1, <3>1, <3>2, <3>3
    <3>. QED
      BY <2>1, <3>4
  <2>. QED
    BY <2>2, <2>3
<1>. HIDE DEF S
<1>5. n \in S
  BY <1>3, <1>4, CountInduction
<1>. QED
  BY <1>1, <1>5 DEF S, e

LEMMA LowDigitHolds ==
  ASSUME NEW c \in MpInts, Proper(c), c.used > 0, NEW x \in Digits, c.used = 1 => x # 0,
         NEW E \in BOOLEAN, E => NoExcess(c)
  PROVE  Holds([c EXCEPT !.digit[0] = x], E, Signed(c.sign, Mag(c) - c.digit[0] + x))
<1>. DEFINE y == [c EXCEPT !.digit[0] = x]
            d == [c.digit EXCEPT ![0] = x]
<1>1. c.used \in Counts /\ c.used \in Nat /\ c.digit \in Vectors
  BY IntFacts
<1>2. d \in Vectors /\ Val(d)[c.used] = Mag(c) - c.digit[0] + x
  BY <1>1, LowDigit, IntFacts
<1>3. d[0] = x /\ \A i \in Places : i # 0 => d[i] = c.digit[i]
  BY <1>1, OneDigit DEF Vectors
<1>4. y \in MpInts /\ y.used = c.used /\ y.sign = c.sign /\ y.alloc = c.alloc /\ y.digit = d
  BY <1>2 DEF MpInts
<1>. HIDE DEF y, d
<1>5. Proper(y)
  <2>1. c.used - 1 \in Places /\ (c.used # 1 => c.used - 1 # 0)
    BY <1>1, IntFacts
  <2>. QED
    BY <1>1, <1>3, <1>4, <2>1 DEF Proper
<1>6. E => NoExcess(y)
  <2>. SUFFICES ASSUME E, NEW i \in Places, i >= c.used PROVE d[i] = 0
    BY <1>4 DEF NoExcess
  <2>1. i # 0
    BY <1>1
  <2>. QED
    BY <1>3, <2>1 DEF NoExcess
<1>7. IntVal(y) = Signed(c.sign, Mag(c) - c.digit[0] + x)
  BY <1>2, <1>4 DEF IntVal, Mag, Signed
<1>. QED
  BY <1>4, <1>5, <1>6, <1>7 DEF Holds, y

LEMMA AddDDelivers ==
  ASSUME NEW a \in MpInts, Proper(a), NEW b \in Digits, NEW c \in MpInts, Proper(c),
         NEW same \in BOOLEAN, same => a = c, NEW E \in BOOLEAN, E => NoExcess(c)
  PROVE  Delivers(AddD(a, b, c, same), E, {IntVal(a) + b}, {IntVal(c)})
<1>1. /\ a.used \in Nat /\ a.used + 1 \in Nat /\ c.used \in Nat /\ Mag(c) \in Nat /\ b \in Nat
      /\ Radix \in Nat /\ IntVal(c) = Signed(c.sign, Mag(c))
      /\ c.digit[0] \in Nat /\ c.digit[0] < Radix
  BY IntFacts, RadixFacts, OneDigit DEF Digits
<1>. DEFINE up == same /\ ~ IsNeg(c) /\ ~ IsZero(c) /\ c.digit[0] + b < MP_DIGIT_MAX
            down == same /\ IsNeg(c) /\ c.digit[0] > b
<1>2. CASE up
  <2>1. AddD(a, b, c, same) = {Okay([c EXCEPT !.digit[0] = @ + b])}
    BY <1>2 DEF AddD
  <2>2. c.used > 0 /\ c.digit[0] + b \in Digits /\ (c.used = 1 => c.digit[0] # 0)
    BY <1>1, <1>2 DEF IsZero, MP_DIGIT_MAX, MP_MASK, Digits, Proper
  <2>3. c.digit[0] + b \in Digits /\ (c.used = 1 => c.digit[0] + b # 0)
    BY <1>1, <2>2
  <2>4. Holds([c EXCEPT !.digit[0] = c.digit[0] + b], E,
              Signed(c.sign, Mag(c) - c.digit[0] + (c.digit[0] + b)))
    BY <2>2, <2>3, LowDigitHolds
  <2>5. Signed(c.sign, Mag(c) - c.digit[0] + (c.digit[0] + b)) = IntVal(a) + b
    BY <1>1, <1>2 DEF Signed, IsNeg
  <2>. QED
    BY <2>1, <2>4, <2>5, OkayDelivers
<1>3. CASE ~ up /\ down
  <2>1. AddD(a, b, c, same) = {Okay([c EXCEPT !.digit[0] = @ - b])}
    BY <1>3 DEF AddD
  <2>2. c.used > 0 /\ c.digit[0] - b \in Digits /\ (c.used = 1 => c.digit[0] - b # 0)
    BY <1>1, <1>3, ProperFacts DEF Digits
  <2>4. Holds([c EXCEPT !.digit[0] = c.digit[0] - b], E,
              Signed(c.sign, Mag(c) - c.digit[0] + (c.digit[0] - b)))
    BY <2>2, LowDigitHolds
  <2>5. Signed(c.sign, Mag(c) - c.digit[0] + (c.digit[0] - b)) = IntVal(a) + b
    BY <1>1, <1>3 DEF Signed, IsNeg
  <2>. QED
    BY <2>1, <2>4, <2>5, OkayDelivers
<1>4. CASE ~ up /\ ~ down
  <2>. DEFINE R == AddD(a, b, c, same)
  <2>1. \A r \in R :
          \/ r \in Grow(c, a.used + 1) /\ r.code # "OKAY"
          \/ \E s \in Grow(c, a.used + 1) : s.code = "OKAY" /\ r = Okay(AddGrown(a, b, s.num))
    BY <1>4 DEF AddD, Then
  <2>2. ASSUME NEW s \in Grow(c, a.used + 1), s.code = "OKAY"
        PROVE  Delivers({Okay(AddGrown(a, b, s.num))}, E, {IntVal(a) + b}, {IntVal(c)})
    <3>1. Holds(AddGrown(a, b, s.num), E, IntVal(a) + b)
      BY <1>1, <2>2, Grown, AddGrownHolds
    <3>. QED
      BY <3>1, OkayDelivers
  <2>3. \A r \in R : (r \in Grow(c, a.used + 1) /\ r.code # "OKAY")
                       \/ Delivers({r}, E, {IntVal(a) + b}, {IntVal(c)})
    BY <2>1, <2>2
  <2>. DEFINE V == {IntVal(a) + b}
              F == {IntVal(c)}
              size == a.used + 1
  <2>4. IntVal(c) \in F /\ size \in Nat
    BY <1>1
  <2>5. AfterGrow(R, c, size, E, V, F)
    BY <2>3 DEF AfterGrow
  <2>. HIDE DEF R, V, F, size
  <2>6. Delivers(R, E, V, F)
    BY <2>4, <2>5, GrowDelivers
  <2>. QED
    BY <2>6 DEF R, V, F
<1>. QED
  BY <1>2, <1>3, <1>4

LEMMA SubDDelivers ==
  ASSUME NEW a \in MpInts, Proper(a), NEW b \in Digits, NEW c \in MpInts, Proper(c),
         NEW same \in BOOLEAN, same => a = c, NEW E \in BOOLEAN, E => NoExcess(c)
  PROVE  Delivers(SubD(a, b, c, same), E, {IntVal(a) - b}, {IntVal(c)})
<1>1. /\ a.used \in Nat /\ a.used + 1 \in Nat /\ c.used \in Nat /\ Mag(c) \in Nat /\ b \in Nat
      /\ Radix \in Nat /\ IntVal(c) = Signed(c.sign, Mag(c))
      /\ c.digit[0] \in Nat /\ c.digit[0] < Radix
  BY IntFacts, RadixFacts, OneDigit DEF Digits
<1>. DEFINE up == same /\ IsNeg(c) /\ c.digit[0] + b < MP_DIGIT_MAX
            down == same /\ ~ IsNeg(c) /\ c.digit[0] > b
<1>2. CASE up
  <2>1. SubD(a, b, c, same) = {Okay([c EXCEPT !.digit[0] = @ + b])}
    BY <1>2 DEF SubD
  <2>2. c.used > 0 /\ c.digit[0] + b \in Digits /\ (c.used = 1 => c.digit[0] # 0)
    BY <1>1, <1>2, ProperFacts DEF MP_DIGIT_MAX, MP_MASK, Digits, Proper
  <2>3. c.digit[0] + b \in Digits /\ (c.used = 1 => c.digit[0] + b # 0)
    BY <1>1, <2>2
  <2>4. Holds([c EXCEPT !.digit[0] = c.digit[0] + b], E,
              Signed(c.sign, Mag(c) - c.digit[0] + (c.digit[0] + b)))
    BY <2>2, <2>3, LowDigitHolds
  <2>5. Signed(c.sign, Mag(c) - c.digit[0] + (c.digit[0] + b)) = IntVal(a) - b
    BY <1>1, <1>2 DEF Signed, IsNeg
  <2>. QED
    BY <2>1, <2>4, <2>5, OkayDelivers
<1>3. CASE ~ up /\ down
  <2>1. SubD(a, b, c, same) = {Okay([c EXCEPT !.digit[0] = @ - b])}
    BY <1>3 DEF SubD
  <2>2. c.used > 0 /\ c.digit[0] - b \in Digits /\ (c.used = 1 => c.digit[0] - b # 0)
    BY <1>1, <1>3 DEF Digits, Proper
  <2>4. Holds([c EXCEPT !.digit[0] = c.digit[0] - b], E,
              Signed(c.sign, Mag(c) - c.digit[0] + (c.digit[0] - b)))
    BY <2>2, LowDigitHolds
  <2>5. Signed(c.sign, Mag(c) - c.digit[0] + (c.digit[0] - b)) = IntVal(a) - b
    BY <1>1, <1>3 DEF Signed, IsNeg
  <2>. QED
    BY <2>1, <2>4, <2>5, OkayDelivers
<1>4. CASE ~ up /\ ~ down
  <2>. DEFINE R == SubD(a, b, c, same)
  <2>1. \A r \in R :
          \/ r \in Grow(c, a.used + 1) /\ r.code # "OKAY"
          \/ \E s \in Grow(c, a.used + 1) : s.code = "OKAY" /\ r = Okay(SubGrown(a, b, s.num))
    BY <1>4 DEF SubD, Then
  <2>2. ASSUME NEW s \in Grow(c, a.used + 1), s.code = "OKAY"
        PROVE  Delivers({Okay(SubGrown(a, b, s.num))}, E, {IntVal(a) - b}, {IntVal(c)})
    <3>1. Holds(SubGrown(a, b, s.num), E, IntVal(a) - b)
      BY <1>1, <2>2, Grown, SubGrownHolds
    <3>. QED
      BY <3>1, OkayDelivers
  <2>3. \A r \in R : (r \in Grow(c, a.used + 1) /\ r.code # "OKAY")
                       \/ Delivers({r}, E, {IntVal(a) - b}, {IntVal(c)})
    BY <2>1, <2>2
  <2>. DEFINE V == {IntVal(a) - b}
              F == {IntVal(c)}
              size == a.used + 1
  <2>4. IntVal(c) \in F /\ size \in Nat
    BY <1>1
  <2>5. AfterGrow(R, c, size, E, V, F)
    BY <2>3 DEF AfterGrow
  <2>. HIDE DEF R, V, F, size
  <2>6. Delivers(R, E, V, F)
    BY <2>4, <2>5, GrowDelivers
  <2>. QED
    BY <2>6 DEF R, V, F
<1>. QED
  BY <1>2, <1>3, <1>4
-----------------------------------------------------------------------------
(* mp_mul_2 and mp_div_2, and the shifts by less than a digit.             *)
LEMMA RadixBits ==
  /\ MP_DIGIT_BIT \in Nat /\ MP_DIGIT_BIT > 0 /\ Radix = 2 ^ MP_DIGIT_BIT
  /\ \A b \in 0 .. MP_DIGIT_BIT :
       /\ b \in Nat /\ MP_DIGIT_BIT - b \in Nat
       /\ 2 ^ b \in Nat /\ 2 ^ b > 0 /\ 2 ^ (MP_DIGIT_BIT - b) \in Nat /\ 2 ^ (MP_DIGIT_BIT - b) > 0
       /\ Radix = 2 ^ b * 2 ^ (MP_DIGIT_BIT - b)
<1>1. MP_DIGIT_BIT \in Nat /\ MP_DIGIT_BIT > 0 /\ Radix = 2 ^ MP_DIGIT_BIT
  BY DigitBitAssumption
<1>2. ASSUME NEW b \in 0 .. MP_DIGIT_BIT
      PROVE  /\ b \in Nat /\ MP_DIGIT_BIT - b \in Nat
             /\ 2 ^ b \in Nat /\ 2 ^ b > 0
             /\ 2 ^ (MP_DIGIT_BIT - b) \in Nat /\ 2 ^ (MP_DIGIT_BIT - b) > 0
             /\ Radix = 2 ^ b * 2 ^ (MP_DIGIT_BIT - b)
  <2>1. b \in Nat /\ MP_DIGIT_BIT - b \in Nat /\ b <= MP_DIGIT_BIT
    BY <1>1
  <2>2. 2 ^ MP_DIGIT_BIT = 2 ^ b * 2 ^ (MP_DIGIT_BIT - b)
    BY <1>1, <2>1, TwoToMonotone
  <2>. QED
    BY <1>1, <2>1, <2>2, TwoTo
<1>. QED
  BY <1>1, <1>2

(* n = P * q + r with 0 <= r < P determines q and r.                       *)
LEMMA Quotient ==
  ASSUME NEW n \in Nat, NEW P \in Nat, P > 0
  PROVE  /\ n \div P \in Nat /\ n % P \in 0 .. P - 1 /\ n = P * (n \div P) + (n % P)
         /\ \A q \in Nat : n < P * q => n \div P < q
<1>. DEFINE i == n \div P
            j == n % P
<1>1. i \in Int /\ j \in 0 .. P - 1 /\ n = P * i + j
  BY Division
<1>. HIDE DEF i, j
<1>2. i \in Nat
  <2>1. \A u, v \in Nat : u * (- v - 1) <= - u
    OBVIOUS
  <2>2. i < 0 => - i - 1 \in Nat /\ - (- i - 1) - 1 = i
    BY <1>1
  <2>3. i < 0 => P * i <= - P
    BY <2>1, <2>2
  <2>. DEFINE p == P * i
  <2>4. p \in Int
    BY <1>1
  <2>5. (i < 0 => p <= - P) /\ n = p + j
    BY <1>1, <2>3
  <2>. HIDE DEF p
  <2>. QED
    BY <1>1, <2>4, <2>5
<1>3. ASSUME NEW q \in Nat, n < P * q PROVE i < q
  <2>1. P * i \in Nat /\ P * i <= n
    BY <1>1, <1>2
  <2>2. i * P = P * i /\ q * P = P * q /\ P * q \in Nat
    BY <1>2
  <2>3. i * P < q * P
    BY <1>3, <2>1, <2>2
  <2>. QED
    BY <1>2, <2>3, MonotoneProduct
<1>. QED
  BY <1>1, <1>2, <1>3 DEF i, j

LEMMA ShiftUpDigit ==
  ASSUME NEW P \in Nat, P > 0, NEW Q \in Nat, Q > 0, NEW d \in 0 .. P * Q - 1, NEW r \in 0 .. P - 1
  PROVE  /\ d \div Q \in 0 .. P - 1
         /\ ((d * P) % (P * Q)) + r \in 0 .. P * Q - 1
         /\ (P * d + r) % (P * Q) = ((d * P) % (P * Q)) + r
         /\ (((d * P) % (P * Q)) + r) + (d \div Q) * (P * Q) = P * d + r
<1>. DEFINE R == P * Q
            h == d \div Q
            l == d % Q
            m == l * P
<1>1. R \in Nat /\ R > 0 /\ d \in Nat /\ d < R /\ r \in Nat /\ r < P
  OBVIOUS
<1>2. h \in Nat /\ l \in 0 .. Q - 1 /\ d = Q * h + l
  BY <1>1, Quotient
<1>3. h < P
  <2>1. R = Q * P
    OBVIOUS
  <2>. QED
    BY <1>1, <2>1, Quotient
<1>. HIDE DEF h, l
<1>4. m \in Nat /\ m <= R - P
  <2>1. l <= Q - 1 /\ l \in Nat /\ Q - 1 \in Nat /\ (Q - 1) * P = R - P
    BY <1>2
  <2>2. l * P <= (Q - 1) * P
    BY <2>1, MonotoneProduct
  <2>. QED
    BY <2>1, <2>2
<1>5. d * P = R * h + m /\ P * d = R * h + m
  BY <1>2
<1>. DEFINE s == m + r
<1>6. m \in 0 .. R - 1 /\ s \in 0 .. R - 1
  <2>. HIDE DEF R, m
  <2>. QED
    BY <1>1, <1>4
<1>7. (R * h + m) % R = m /\ (R * h + s) % R = s
  <2>. HIDE DEF R, m, s
  <2>. QED
    BY <1>1, <1>2, <1>6, DivisionUnique
<1>8. P * d + r = R * h + s
  <2>. DEFINE y == R * h
  <2>1. y \in Nat
    BY <1>1, <1>2
  <2>2. P * d = y + m
    BY <1>5
  <2>. HIDE DEF y, m, R
  <2>3. P * d + r = y + (m + r)
    BY <1>1, <1>4, <2>1, <2>2
  <2>. QED
    BY <2>3 DEF y
<1>9. s + h * R = R * h + s
  <2>1. h * R = R * h /\ R * h \in Nat
    BY <1>1, <1>2
  <2>. HIDE DEF R, s
  <2>. QED
    BY <1>6, <2>1
<1>. HIDE DEF R, m
<1>10. (d * P) % R = m
  BY <1>5, <1>7
<1>11. (P * d + r) % R = s
  BY <1>7, <1>8
<1>12. h \in 0 .. P - 1
  BY <1>2, <1>3
<1>. QED
  BY <1>6, <1>8, <1>9, <1>10, <1>11, <1>12 DEF R, h

LEMMA ShiftDownDigit ==
  ASSUME NEW P \in Nat, P > 0, NEW Q \in Nat, Q > 0, NEW d \in 0 .. P * Q - 1, NEW r \in 0 .. P - 1
  PROVE  /\ d % P \in 0 .. P - 1
         /\ (d \div P) + r * Q \in 0 .. P * Q - 1
         /\ d + r * (P * Q) = P * ((d \div P) + r * Q) + (d % P)
<1>. DEFINE R == P * Q
            h == d \div P
            l == d % P
            m == r * Q
<1>1. R \in Nat /\ d \in Nat /\ d < R /\ r \in Nat
  OBVIOUS
<1>2. h \in Nat /\ l \in 0 .. P - 1 /\ d = P * h + l /\ h < Q
  BY <1>1, Quotient
<1>. HIDE DEF h, l
<1>3. m \in Nat /\ m <= R - Q
  <2>1. r <= P - 1 /\ P - 1 \in Nat /\ (P - 1) * Q = R - Q
    BY <1>1
  <2>2. r * Q <= (P - 1) * Q
    BY <1>1, <2>1, MonotoneProduct
  <2>. QED
    BY <1>1, <2>1, <2>2
<1>4. r * R = P * m /\ P * (h + m) = P * h + P * m
  BY <1>1, <1>2
<1>5. d + r * R = P * (h + m) + l
  <2>. DEFINE y == P * h
              z == P * m
  <2>1. y \in Nat /\ z \in Nat
    BY <1>1, <1>2, <1>3
  <2>2. r * R = z /\ P * (h + m) = y + z /\ d = y + l
    BY <1>2, <1>4
  <2>. HIDE DEF y, z, R, m
  <2>. QED
    BY <1>2, <2>1, <2>2
<1>6. h + m \in 0 .. R - 1
  <2>. HIDE DEF R, m
  <2>. QED
    BY <1>1, <1>2, <1>3
<1>. QED
  BY <1>2, <1>5, <1>6 DEF R, h, l, m

(* What the loops that shift by b bits hand on, and what they store.       *)
HandsUp(C, d, n, b) ==
  \A i \in 0 .. n - 1, m \in Nat : C[i][m] = d[i] \div 2 ^ (MP_DIGIT_BIT - b)
HandsDown(C, d, n, b) ==
  \A i \in 0 .. n - 1, m \in Nat : C[i][m] = d[i] % 2 ^ b

UpDigit(d, r, b, i) == ((d[i] * 2 ^ b) % Radix) + r[i]
DownDigit(d, r, b, i) == (d[i] \div 2 ^ b) + r[i + 1] * 2 ^ (MP_DIGIT_BIT - b)

ShiftsUp(r, d, n, b) ==
  /\ r \in [0 .. n -> 0 .. 2 ^ b - 1]
  /\ \A i \in 0 .. n - 1 : UpDigit(d, r, b, i) \in Digits
                           /\ UpDigit(d, r, b, i) = (2 ^ b * d[i] + r[i]) % Radix
  /\ \A e \in Vectors : (\A i \in 0 .. n - 1 : e[i] = UpDigit(d, r, b, i))
                           => Val(e)[n] + r[n] * Pow[n] = 2 ^ b * Val(d)[n]

ShiftsDown(r, d, n, b) ==
  /\ \A i \in 0 .. n - 1 : DownDigit(d, r, b, i) \in Digits
  /\ \A e \in Vectors : (\A i \in 0 .. n - 1 : e[i] = DownDigit(d, r, b, i))
                           => Val(e)[n] = Val(d)[n] \div 2 ^ b

LEMMA LoopUpwards ==
  ASSUME NEW d \in Vectors, NEW n \in Counts, NEW b \in 0 .. MP_DIGIT_BIT, NEW C,
         HandsUp(C, d, n, b), NEW r, r = CarryUp(n, 0, C)
  PROVE  ShiftsUp(r, d, n, b)
<1>. DEFINE P == 2 ^ b
            Q == 2 ^ (MP_DIGIT_BIT - b)
            S == 0 .. P - 1
<1>1. P \in Nat /\ P > 0 /\ Q \in Nat /\ Q > 0 /\ Radix = P * Q
  BY RadixBits
<1>2. n \in Nat /\ \A i \in 0 .. n - 1 : i \in Places
  <2>1. n \in Nat /\ n <= MP_MAX_DIGIT_COUNT
    BY PlaceFacts
  <2>. QED
    BY <2>1, RadixFacts DEF Places
<1>3. S \subseteq Int /\ 0 \in S /\ \A m \in S : m \in Nat
  BY <1>1
<1>4. ASSUME NEW i \in 0 .. n - 1, NEW m \in S
      PROVE  /\ C[i][m] = d[i] \div Q /\ C[i][m] \in S
             /\ ((d[i] * P) % Radix) + m \in Digits
             /\ (P * d[i] + m) % Radix = ((d[i] * P) % Radix) + m
             /\ (((d[i] * P) % Radix) + m) + C[i][m] * Radix = P * d[i] + m
  <2>1. C[i][m] = d[i] \div Q
    BY <1>3 DEF HandsUp
  <2>2. d[i] \in 0 .. Radix - 1
    BY <1>2 DEF Vectors, Digits
  <2>. DEFINE x == d[i]
  <2>. HIDE DEF P, Q, x
  <2>3. /\ x \div Q \in S
        /\ ((x * P) % Radix) + m \in Digits
        /\ (P * x + m) % Radix = ((x * P) % Radix) + m
        /\ (((x * P) % Radix) + m) + (x \div Q) * Radix = P * x + m
    BY <1>1, <2>2, ShiftUpDigit DEF x, Digits
  <2>. QED
    BY <2>1, <2>3 DEF x
<1>. HIDE DEF P, Q, S
<1>5. r \in [0 .. n -> S] /\ r[0] = 0 /\ \A i \in 0 .. n - 1 : r[i + 1] = C[i][r[i]]
  <2>1. Carries(n, S, C)
    BY <1>4 DEF Carries
  <2>2. Upwards(r, n, S, 0, C)
    BY <1>2, <1>3, <2>1, CarriesUp
  <2>. QED
    BY <2>2 DEF Upwards
<1>6. \A i \in 0 .. n - 1 : i \in 0 .. n /\ r[i] \in S
  BY <1>2, <1>5
<1>7. ASSUME NEW i \in 0 .. n - 1
      PROVE  UpDigit(d, r, b, i) \in Digits /\ UpDigit(d, r, b, i) = (P * d[i] + r[i]) % Radix
  BY <1>4, <1>6 DEF UpDigit, P
<1>8. ASSUME NEW e \in Vectors, \A i \in 0 .. n - 1 : e[i] = UpDigit(d, r, b, i)
      PROVE  Val(e)[n] + r[n] * Pow[n] = P * Val(d)[n]
  <2>1. ASSUME NEW i \in 0 .. n - 1 PROVE Place(e, d, P, r, i)
    <3>1. e[i] = ((d[i] * P) % Radix) + r[i] /\ r[i + 1] = C[i][r[i]] /\ r[i] \in S
      BY <1>5, <1>6, <1>8 DEF UpDigit, P
    <3>. QED
      BY <1>4, <3>1 DEF Place
  <2>2. r \in [0 .. n -> Int]
    BY <1>3, <1>5
  <2>3. Loop(e, d, P, r, n)
    BY <2>1, <2>2 DEF Loop
  <2>4. Spelled(e, d, P, r, n)
    BY <1>1, <2>3, LoopSpells
  <2>5. P * Val(d)[n] \in Int
    BY <1>1, ValRecursion
  <2>6. P * Val(d)[n] + 0 = P * Val(d)[n]
    BY <2>5
  <2>. QED
    BY <1>5, <2>4, <2>6 DEF Spelled
<1>. QED
  BY <1>5, <1>7, <1>8 DEF P, S, ShiftsUp

LEMMA LoopDownwards ==
  ASSUME NEW d \in Vectors, NEW n \in Counts, NEW b \in 0 .. MP_DIGIT_BIT, NEW C,
         HandsDown(C, d, n, b), NEW r, r = CarryDown(n, C)
  PROVE  ShiftsDown(r, d, n, b)
<1>. DEFINE P == 2 ^ b
            Q == 2 ^ (MP_DIGIT_BIT - b)
            S == 0 .. P - 1
<1>1. P \in Nat /\ P > 0 /\ Q \in Nat /\ Q > 0 /\ Radix = P * Q
  BY RadixBits
<1>2. n \in Nat /\ \A i \in 0 .. n - 1 : i \in Places /\ i \in 0 .. n /\ i + 1 \in 0 .. n
  <2>1. n \in Nat /\ n <= MP_MAX_DIGIT_COUNT
    BY PlaceFacts
  <2>. QED
    BY <2>1, RadixFacts DEF Places
<1>3. S \subseteq Int /\ 0 \in S /\ \A m \in S : m \in Nat
  BY <1>1
<1>4. ASSUME NEW i \in 0 .. n - 1, NEW m \in S
      PROVE  /\ C[i][m] = d[i] % P /\ C[i][m] \in S
             /\ (d[i] \div P) + m * Q \in Digits
             /\ d[i] + m * Radix = P * ((d[i] \div P) + m * Q) + C[i][m]
  <2>1. C[i][m] = d[i] % P
    BY <1>3 DEF HandsDown
  <2>2. d[i] \in 0 .. Radix - 1
    BY <1>2 DEF Vectors, Digits
  <2>. DEFINE x == d[i]
  <2>. HIDE DEF P, Q, x
  <2>3. /\ x % P \in S
        /\ (x \div P) + m * Q \in Digits
        /\ x + m * Radix = P * ((x \div P) + m * Q) + (x % P)
    BY <1>1, <2>2, ShiftDownDigit DEF x, Digits
  <2>. QED
    BY <2>1, <2>3 DEF x
<1>. HIDE DEF P, Q, S
<1>5. r \in [0 .. n -> S] /\ r[n] = 0 /\ \A i \in 0 .. n - 1 : r[i] = C[i][r[i + 1]]
  <2>1. Carries(n, S, C)
    BY <1>4 DEF Carries
  <2>2. Downwards(r, n, S, C)
    BY <1>2, <1>3, <2>1, CarriesDown
  <2>. QED
    BY <2>2 DEF Downwards
<1>6. r[0] \in S /\ \A i \in 0 .. n - 1 : r[i] \in S /\ r[i + 1] \in S
  <2>1. 0 \in 0 .. n
    BY <1>2
  <2>. QED
    BY <1>2, <1>5, <2>1
<1>7. ASSUME NEW i \in 0 .. n - 1
      PROVE  DownDigit(d, r, b, i) \in Digits
  BY <1>4, <1>6 DEF DownDigit, P, Q
<1>8. ASSUME NEW e \in Vectors, \A i \in 0 .. n - 1 : e[i] = DownDigit(d, r, b, i)
      PROVE  Val(e)[n] = Val(d)[n] \div P
  <2>1. ASSUME NEW i \in 0 .. n - 1 PROVE Place(d, e, P, r, i)
    <3>1. e[i] = (d[i] \div P) + r[i + 1] * Q /\ r[i] = C[i][r[i + 1]] /\ r[i + 1] \in S
      BY <1>5, <1>6, <1>8 DEF DownDigit, P, Q
    <3>. QED
      BY <1>4, <3>1 DEF Place
  <2>2. r \in [0 .. n -> Int]
    BY <1>3, <1>5
  <2>3. Loop(d, e, P, r, n)
    BY <2>1, <2>2 DEF Loop
  <2>4. Spelled(d, e, P, r, n)
    BY <1>1, <2>3, LoopSpells
  <2>5. Val(d)[n] \in Nat /\ Val(e)[n] \in Nat /\ Pow[n] \in Nat
    BY <1>2, ValBounds, PowFacts
  <2>6. 0 * Pow[n] = 0 /\ Val(d)[n] + 0 = Val(d)[n]
    BY <2>5
  <2>7. Val(d)[n] = P * Val(e)[n] + r[0]
    BY <1>5, <2>4, <2>6 DEF Spelled
  <2>8. r[0] \in 0 .. P - 1
    BY <1>6 DEF S
  <2>9. (P * Val(e)[n] + r[0]) \div P = Val(e)[n]
    BY <1>1, <2>5, <2>8, DivisionUnique
  <2>. QED
    BY <2>7, <2>9
<1>. QED
  BY <1>7, <1>8 DEF P, ShiftsDown

LEMMA SignFacts ==
  ASSUME NEW a \in MpInts, Proper(a)
  PROVE  /\ Abs(IntVal(a)) = Mag(a)
         /\ \A m \in Nat : Sgn(IntVal(a)) * m = Signed(a.sign, m)
         /\ \A m \in Nat : Signed(a.sign, m * Mag(a)) = m * IntVal(a)
<1>1. Mag(a) \in Nat /\ IntVal(a) = Signed(a.sign, Mag(a)) /\ IntVal(a) \in Int
      /\ (a.sign = MP_NEG <=> IntVal(a) < 0)
  BY IntFacts, ProperFacts DEF IsNeg
<1>2. Sgn(IntVal(a)) = IF a.sign = MP_NEG THEN -1 ELSE 1
  BY <1>1 DEF Sgn
<1>3. \A x \in Int : (-1) * x = - x /\ 1 * x = x
  OBVIOUS
<1>4. Abs(IntVal(a)) = Mag(a)
  BY <1>1, <1>2, <1>3 DEF Abs, Signed
<1>5. \A m \in Nat : Sgn(IntVal(a)) * m = Signed(a.sign, m)
  BY <1>2, <1>3 DEF Signed
<1>6. \A m \in Nat : Signed(a.sign, m * Mag(a)) = m * IntVal(a)
  <2>1. \A m, x \in Nat : m * (- x) = - (m * x)
    OBVIOUS
  <2>. QED
    BY <1>1, <2>1 DEF Signed
<1>. QED
  BY <1>4, <1>5, <1>6

(* Digits at n and above none of which were in use: nothing to clear.      *)
Extended(c, n, d) == [c EXCEPT !.used = n, !.digit = d]

LEMMA FinishedUp ==
  ASSUME NEW c \in MpInts, NEW n \in Counts, n >= c.used, NEW d \in Vectors
  PROVE  Finished(c, d, n, c.sign) = Extended(c, n, d)
<1>1. c.used \in Nat /\ n \in Nat
  BY IntFacts, PlaceFacts
<1>2. \A i \in Places : ~ (n <= i /\ i < n + (c.used - n))
  BY <1>1, PlaceFacts
<1>3. ZeroDigs(d, n, c.used - n) = d
  BY <1>2 DEF ZeroDigs, Vectors
<1>4. [c EXCEPT !.used = n, !.sign = c.sign, !.digit = d] = [c EXCEPT !.used = n, !.digit = d]
  BY DEF MpInts
<1>. QED
  BY <1>3, <1>4 DEF Finished, Extended

LEMMA DoubledHolds ==
  ASSUME NEW a \in MpInts, Proper(a), NEW g \in MpInts, Proper(g), a.used + 1 <= g.alloc,
         NEW E \in BOOLEAN, E => NoExcess(g)
  PROVE  Holds(Doubled(a, g), E, 2 * IntVal(a))
<1>. DEFINE n == a.used
            C == [i \in Places |-> [m \in Nat |-> a.digit[i] \div (Radix \div 2)]]
            r == CarryUp(n, 0, C)
            v == [i \in 0 .. n - 1 |-> (2 * a.digit[i] + r[i]) % Radix]
            up == [i \in Places |-> IF i < n THEN v[i] ELSE g.digit[i]]
            d == [up EXCEPT ![n] = 1]
<1>1. /\ n \in Counts /\ n \in Nat /\ n + 1 \in Counts /\ n \in Places /\ a.digit \in Vectors
      /\ Radix \in Nat /\ Radix > 1 /\ g.digit \in Vectors /\ n + 1 <= g.alloc /\ n <= g.alloc
      /\ a.sign \in Signs /\ Mag(a) \in Nat /\ Mag(a) = Val(a.digit)[n]
  BY IntFacts, RadixFacts, PlaceFacts DEF Places
<1>2. 1 \in 0 .. MP_DIGIT_BIT /\ 2 ^ 1 = 2 /\ 2 ^ (MP_DIGIT_BIT - 1) = Radix \div 2
  <2>1. 1 \in 0 .. MP_DIGIT_BIT /\ 2 ^ 1 = 2
    BY RadixBits, TwoTo
  <2>. DEFINE Q == 2 ^ (MP_DIGIT_BIT - 1)
  <2>2. Q \in Nat /\ Radix = 2 * Q
    BY <2>1, RadixBits
  <2>. HIDE DEF Q
  <2>3. Q = Radix \div 2
    BY <2>2
  <2>. QED
    BY <2>1, <2>3 DEF Q
<1>3. HandsUp(C, a.digit, n, 1)
  <2>1. \A i \in 0 .. n - 1 : i \in Places
    BY <1>1, RadixFacts, IntFacts DEF Places, Counts
  <2>. QED
    BY <1>2, <2>1 DEF HandsUp
<1>. DEFINE top == r[n]
<1>4. Doubled(a, g) = IF top # 0 THEN Finished(g, d, n + 1, a.sign) ELSE Finished(g, up, n, a.sign)
  <2>1. \A i \in Places : i < n => i \in 0 .. n - 1
    BY <1>1, PlaceFacts
  <2>2. up = [i \in Places |-> IF i < n THEN (2 * a.digit[i] + r[i]) % Radix ELSE g.digit[i]]
    BY <2>1
  <2>. QED
    BY <2>2 DEF Doubled, Written
<1>. HIDE DEF C
<1>5. /\ r \in [0 .. n -> 0 .. 1]
      /\ \A i \in 0 .. n - 1 : UpDigit(a.digit, r, 1, i) \in Digits
                               /\ UpDigit(a.digit, r, 1, i) = (2 * a.digit[i] + r[i]) % Radix
      /\ \A e \in Vectors : (\A i \in 0 .. n - 1 : e[i] = UpDigit(a.digit, r, 1, i))
                               => Val(e)[n] + r[n] * Pow[n] = 2 * Val(a.digit)[n]
  <2>1. /\ r \in [0 .. n -> 0 .. 2 ^ 1 - 1]
        /\ \A i \in 0 .. n - 1 : UpDigit(a.digit, r, 1, i) \in Digits
                                 /\ UpDigit(a.digit, r, 1, i) = (2 ^ 1 * a.digit[i] + r[i]) % Radix
        /\ \A e \in Vectors : (\A i \in 0 .. n - 1 : e[i] = UpDigit(a.digit, r, 1, i))
                                 => Val(e)[n] + r[n] * Pow[n] = 2 ^ 1 * Val(a.digit)[n]
    <3>. HIDE DEF n
    <3>1. r = CarryUp(n, 0, C)
      OBVIOUS
    <3>. HIDE DEF r
    <3>. DEFINE b == 1
                d0 == a.digit
    <3>2. b \in 0 .. MP_DIGIT_BIT /\ HandsUp(C, d0, n, b) /\ d0 \in Vectors
      BY <1>1, <1>2, <1>3
    <3>. HIDE DEF b, d0
    <3>3. ShiftsUp(r, d0, n, b)
      BY <1>1, <3>1, <3>2, LoopUpwards
    <3>. QED
      BY <3>3 DEF b, d0, ShiftsUp
  <2>. QED
    BY <1>2, <2>1
<1>. HIDE DEF r
<1>6. v \in [0 .. n - 1 -> Digits] /\ \A i \in 0 .. n - 1 : v[i] = UpDigit(a.digit, r, 1, i)
  BY <1>5
<1>. HIDE DEF v
<1>7. up \in Vectors /\ Above(up, g, n) /\ (\A i \in 0 .. n - 1 : up[i] = v[i]) /\ d \in Vectors
  <2>1. 1 \in Digits
    BY <1>1 DEF Digits
  <2>2. Stored(up, g, n, v)
    BY <1>1, <1>6 DEF Stored
  <2>3. n \in Places
    BY <1>1
  <2>. HIDE DEF up, n
  <2>4. [up EXCEPT ![n] = 1] \in Vectors
    BY <2>1, <2>2, <2>3, StoredFacts
  <2>. QED
    BY <2>2, <2>4, StoredFacts
<1>. HIDE DEF up
<1>8. Val(up)[n] + top * Pow[n] = 2 * Mag(a) /\ top \in 0 .. 1
  <2>1. n \in 0 .. n
    BY <1>1
  <2>2. top \in 0 .. 1
    BY <1>5, <2>1
  <2>. QED
    BY <1>1, <1>5, <1>6, <1>7, <2>2
<1>9. Val(up)[n] \in Nat /\ Pow[n] \in Nat
  BY <1>1, <1>7, ValBounds, PowFacts
<1>10. Signed(a.sign, 2 * Mag(a)) = 2 * IntVal(a)
  BY SignFacts
<1>11. CASE top # 0
  <2>1. top = 1 /\ Val(up)[n] + Pow[n] = 2 * Mag(a)
    BY <1>8, <1>9, <1>11
  <2>2. d[n] = 1 /\ \A i \in Places : i # n => d[i] = up[i]
    BY <1>1, <1>7 DEF Vectors
  <2>. HIDE DEF d
  <2>3. Val(d)[n] = Val(up)[n]
    <3>1. \A i \in Places : i < n => d[i] = up[i]
      BY <1>1, <2>2, PlaceFacts
    <3>. QED
      BY <1>1, <1>7, <3>1, ValPrefix
  <2>4. Val(d)[n + 1] = Val(d)[n] + d[n] * Pow[n]
    BY <1>1, <1>7, ValRecursion
  <2>5. 1 * Pow[n] = Pow[n]
    BY <1>9
  <2>6. Val(d)[n + 1] = 2 * Mag(a)
    BY <2>1, <2>2, <2>3, <2>4, <2>5
  <2>7. Above(d, g, n + 1)
    <3>1. \A i \in Places : i >= n + 1 => i # n /\ i >= n
      BY <1>1, PlaceFacts
    <3>. QED
      BY <1>7, <2>2, <3>1 DEF Above
  <2>8. n + 1 > 0 /\ (n + 1) - 1 = n /\ n + 1 # 0
    BY <1>1
  <2>. DEFINE k == n + 1
  <2>9. k \in Counts /\ k <= g.alloc /\ Above(d, g, k) /\ (k > 0 => d[k - 1] # 0) /\ k # 0
    BY <1>1, <2>2, <2>7, <2>8
  <2>. HIDE DEF k
  <2>10. Holds(Finished(g, d, k, a.sign), E, Signed(a.sign, Val(d)[k]))
    BY <1>1, <1>7, <2>9, FinishedFacts
  <2>. QED
    BY <1>4, <1>10, <1>11, <2>6, <2>10 DEF k
<1>12. CASE top = 0
  <2>1. Val(up)[n] = 2 * Mag(a)
    <3>1. 0 * Pow[n] = 0
      BY <1>9
    <3>. QED
      BY <1>8, <1>9, <1>12, <3>1
  <2>2. n > 0 => up[n - 1] # 0
    <3>. SUFFICES ASSUME n > 0, up[n - 1] = 0 PROVE FALSE
      OBVIOUS
    <3>. DEFINE k == n - 1
    <3>1. k \in Places /\ k \in Nat /\ k \in Counts /\ k + 1 = n
      BY <1>1, IntFacts, PlaceFacts
    <3>2. Mag(a) >= Pow[k] /\ Mag(a) > 0
      BY ProperFacts
    <3>. HIDE DEF k
    <3>3. Val(up)[k + 1] = Val(up)[k] + 0 * Pow[k]
      BY <1>7, <3>1, ValRecursion DEF k
    <3>4. Val(up)[k] \in Nat /\ Val(up)[k] < Pow[k] /\ Pow[k] \in Nat /\ 0 * Pow[k] = 0
      BY <1>7, <3>1, ValBounds, PowFacts
    <3>. QED
      BY <1>1, <2>1, <3>1, <3>2, <3>3, <3>4
  <2>3. n = 0 => a.sign = MP_ZPOS
    BY DEF Proper
  <2>. HIDE DEF n
  <2>4. Holds(Finished(g, up, n, a.sign), E, Signed(a.sign, Val(up)[n]))
    BY <1>1, <1>7, <2>2, <2>3, FinishedFacts
  <2>. QED
    BY <1>4, <1>10, <1>12, <2>1, <2>4
<1>. QED
  BY <1>11, <1>12

LEMMA HalvedHolds ==
  ASSUME NEW a \in MpInts, Proper(a), NEW g \in MpInts, Proper(g), a.used <= g.alloc,
         NEW E \in BOOLEAN, E => NoExcess(g)
  PROVE  Holds(Halved(a, g), E, Sgn(IntVal(a)) * (Abs(IntVal(a)) \div 2))
<1>. DEFINE n == a.used
            C == [i \in Places |-> [m \in Nat |-> a.digit[i] % 2]]
            r == CarryDown(n, C)
            v == [i \in 0 .. n - 1 |-> (a.digit[i] \div 2) + r[i + 1] * (Radix \div 2)]
            down == [i \in Places |-> IF i < n THEN v[i] ELSE g.digit[i]]
<1>1. /\ n \in Counts /\ n \in Nat /\ a.digit \in Vectors
      /\ Radix \in Nat /\ Radix > 1 /\ g.digit \in Vectors /\ n <= g.alloc
      /\ a.sign \in Signs /\ Mag(a) \in Nat /\ Mag(a) = Val(a.digit)[n]
  BY IntFacts, RadixFacts
<1>2. 1 \in 0 .. MP_DIGIT_BIT /\ 2 ^ 1 = 2 /\ 2 ^ (MP_DIGIT_BIT - 1) = Radix \div 2
  <2>1. 1 \in 0 .. MP_DIGIT_BIT /\ 2 ^ 1 = 2
    BY RadixBits, TwoTo
  <2>. DEFINE Q == 2 ^ (MP_DIGIT_BIT - 1)
  <2>2. Q \in Nat /\ Radix = 2 * Q
    BY <2>1, RadixBits
  <2>. HIDE DEF Q
  <2>3. Q = Radix \div 2
    BY <2>2
  <2>. QED
    BY <2>1, <2>3 DEF Q
<1>3. HandsDown(C, a.digit, n, 1)
  <2>1. \A i \in 0 .. n - 1 : i \in Places
    BY <1>1, RadixFacts, IntFacts DEF Places, Counts
  <2>. QED
    BY <1>2, <2>1 DEF HandsDown
<1>4. Halved(a, g) = mp_clamp(Finished(g, down, n, a.sign))
  <2>1. \A i \in Places : i < n => i \in 0 .. n - 1
    BY <1>1, PlaceFacts
  <2>2. down = [i \in Places |-> IF i < n THEN (a.digit[i] \div 2) + r[i + 1] * (Radix \div 2)
                                          ELSE g.digit[i]]
    BY <2>1
  <2>. QED
    BY <2>2 DEF Halved, Written
<1>. HIDE DEF C
<1>5. ShiftsDown(r, a.digit, n, 1)
  <2>. HIDE DEF n
  <2>1. r = CarryDown(n, C)
    OBVIOUS
  <2>. HIDE DEF r
  <2>. DEFINE b == 1
              d0 == a.digit
  <2>2. b \in 0 .. MP_DIGIT_BIT /\ HandsDown(C, d0, n, b) /\ d0 \in Vectors
    BY <1>1, <1>2, <1>3
  <2>. HIDE DEF b, d0
  <2>3. ShiftsDown(r, d0, n, b)
    BY <1>1, <2>1, <2>2, LoopDownwards
  <2>. QED
    BY <2>3 DEF b, d0
<1>. HIDE DEF r
<1>6. \A i \in 0 .. n - 1 : DownDigit(a.digit, r, 1, i)
                              = (a.digit[i] \div 2) + r[i + 1] * (Radix \div 2)
  BY <1>2 DEF DownDigit
<1>7. v \in [0 .. n - 1 -> Digits] /\ \A i \in 0 .. n - 1 : v[i] = DownDigit(a.digit, r, 1, i)
  BY <1>5, <1>6 DEF ShiftsDown
<1>. HIDE DEF v
<1>8. down \in Vectors /\ Above(down, g, n) /\ (\A i \in 0 .. n - 1 : down[i] = v[i])
  <2>1. Stored(down, g, n, v)
    BY <1>1, <1>7 DEF Stored
  <2>. HIDE DEF down, n
  <2>. QED
    BY <2>1, StoredFacts
<1>. HIDE DEF down
<1>9. Val(down)[n] = Mag(a) \div 2
  BY <1>1, <1>2, <1>5, <1>7, <1>8 DEF ShiftsDown
<1>10. Holds(mp_clamp(Finished(g, down, n, a.sign)), E, Signed(a.sign, Val(down)[n]))
  <2>. HIDE DEF n
  <2>. QED
    BY <1>1, <1>8, FinishedFacts
<1>11. Mag(a) \div 2 \in Nat
  BY <1>1, Quotient
<1>12. Signed(a.sign, Val(down)[n]) = Sgn(IntVal(a)) * (Abs(IntVal(a)) \div 2)
  BY <1>9, <1>11, SignFacts
<1>. QED
  BY <1>4, <1>10, <1>12

LEMMA Mul2Delivers ==
  ASSUME NEW a \in MpInts, Proper(a), NEW c \in MpInts, Proper(c),
         NEW E \in BOOLEAN, E => NoExcess(c)
  PROVE  Delivers(Mul2(a, c), E, {2 * IntVal(a)}, {IntVal(c)})
<1>. DEFINE R == Mul2(a, c)
            V == {2 * IntVal(a)}
            F == {IntVal(c)}
            size == a.used + 1
<1>1. size \in Nat /\ IntVal(c) \in F
  BY IntFacts
<1>2. \A r \in R : \/ r \in Grow(c, size) /\ r.code # "OKAY"
                   \/ \E s \in Grow(c, size) : s.code = "OKAY" /\ r = Okay(Doubled(a, s.num))
  BY DEF Mul2, Then
<1>3. ASSUME NEW s \in Grow(c, size), s.code = "OKAY"
      PROVE  Delivers({Okay(Doubled(a, s.num))}, E, V, F)
  <2>1. Holds(Doubled(a, s.num), E, 2 * IntVal(a))
    BY <1>1, <1>3, Grown, DoubledHolds
  <2>. QED
    BY <2>1, OkayDelivers
<1>. HIDE DEF R, V, F, size
<1>4. AfterGrow(R, c, size, E, V, F)
  BY <1>2, <1>3 DEF AfterGrow
<1>5. Delivers(R, E, V, F)
  BY <1>1, <1>4, GrowDelivers
<1>. QED
  BY <1>5 DEF R, V, F

LEMMA Div2Delivers ==
  ASSUME NEW a \in MpInts, Proper(a), NEW c \in MpInts, Proper(c),
         NEW E \in BOOLEAN, E => NoExcess(c)
  PROVE  Delivers(Div2(a, c), E, {Sgn(IntVal(a)) * (Abs(IntVal(a)) \div 2)}, {IntVal(c)})
<1>. DEFINE R == Div2(a, c)
            V == {Sgn(IntVal(a)) * (Abs(IntVal(a)) \div 2)}
            F == {IntVal(c)}
            size == a.used
<1>1. size \in Nat /\ IntVal(c) \in F
  BY IntFacts
<1>2. \A r \in R : \/ r \in Grow(c, size) /\ r.code # "OKAY"
                   \/ \E s \in Grow(c, size) : s.code = "OKAY" /\ r = Okay(Halved(a, s.num))
  BY DEF Div2, Then
<1>3. ASSUME NEW s \in Grow(c, size), s.code = "OKAY"
      PROVE  Delivers({Okay(Halved(a, s.num))}, E, V, F)
  <2>1. Holds(Halved(a, s.num), E, Sgn(IntVal(a)) * (Abs(IntVal(a)) \div 2))
    BY <1>1, <1>3, Grown, HalvedHolds
  <2>. QED
    BY <2>1, OkayDelivers
<1>. HIDE DEF R, V, F, size
<1>4. AfterGrow(R, c, size, E, V, F)
  BY <1>2, <1>3 DEF AfterGrow
<1>5. Delivers(R, E, V, F)
  BY <1>1, <1>4, GrowDelivers
<1>. QED
  BY <1>5 DEF R, V, F
-----------------------------------------------------------------------------
(* Shifts by whole digits.                                                 *)
LEMMA PowBits ==
  ASSUME NEW n \in Nat
  PROVE  MP_DIGIT_BIT * n \in Nat /\ Pow[n] = 2 ^ (MP_DIGIT_BIT * n)
<1>. DEFINE S == {m \in Nat : Pow[m] = 2 ^ (MP_DIGIT_BIT * m)}
<1>0. \A m \in Nat : MP_DIGIT_BIT * m \in Nat
  BY RadixBits
<1>1. 0 \in S
  <2>1. MP_DIGIT_BIT * 0 = 0
    BY RadixBits
  <2>. QED
    BY <2>1, PowFacts, TwoTo
<1>2. ASSUME NEW m \in Nat, m \in S PROVE m + 1 \in S
  <2>1. MP_DIGIT_BIT * (m + 1) = MP_DIGIT_BIT + MP_DIGIT_BIT * m
    BY RadixBits
  <2>. DEFINE k == MP_DIGIT_BIT * m
  <2>2. k \in Nat /\ Pow[m] = 2 ^ k
    BY <1>0, <1>2
  <2>. HIDE DEF k
  <2>3. 2 ^ (MP_DIGIT_BIT + k) = 2 ^ MP_DIGIT_BIT * 2 ^ k
    BY <2>2, RadixBits, TwoToSum
  <2>4. Pow[m + 1] = Radix * Pow[m]
    BY PowFacts
  <2>5. Pow[m + 1] = 2 ^ (MP_DIGIT_BIT + k)
    BY <2>2, <2>3, <2>4, RadixBits
  <2>. QED
    BY <2>1, <2>5 DEF k
<1>. HIDE DEF S
<1>3. n \in S
  BY <1>1, <1>2, Successor
<1>. QED
  BY <1>0, <1>3 DEF S

LEMMA PowSum ==
  ASSUME NEW m \in Nat, NEW n \in Nat
  PROVE  Pow[m + n] = Pow[m] * Pow[n]
<1>. DEFINE i == MP_DIGIT_BIT * m
            j == MP_DIGIT_BIT * n
<1>1. i \in Nat /\ j \in Nat /\ Pow[m] = 2 ^ i /\ Pow[n] = 2 ^ j
  BY PowBits
<1>2. m + n \in Nat /\ MP_DIGIT_BIT * (m + n) = i + j
  BY RadixBits
<1>3. Pow[m + n] = 2 ^ (i + j)
  <2>. HIDE DEF i, j
  <2>1. Pow[m + n] = 2 ^ (MP_DIGIT_BIT * (m + n))
    BY <1>2, PowBits
  <2>. QED
    BY <1>2, <2>1
<1>. HIDE DEF i, j
<1>. QED
  BY <1>1, <1>3, TwoToSum

(* e has the digits of d from place n on.                                  *)
From(e, d, n, m) == \A i \in 0 .. m - 1 : e[n + i] = d[i]

LEMMA ValFrom ==
  ASSUME NEW d \in Vectors, NEW e \in Vectors, NEW n \in Nat, NEW m \in Nat, n + m \in Counts,
         From(e, d, n, m)
  PROVE  Val(e)[n + m] = Val(e)[n] + Pow[n] * Val(d)[m]
<1>. DEFINE S == {k \in Counts : k <= m => Val(e)[n + k] = Val(e)[n] + Pow[n] * Val(d)[k]}
<1>1. n + m <= MP_MAX_DIGIT_COUNT /\ m \in Counts /\ n \in Counts
  BY PlaceFacts, RadixFacts DEF Counts
<1>2. 0 \in S
  <2>1. Val(d)[0] = 0 /\ Val(e)[n] \in Int /\ Pow[n] \in Int /\ n + 0 = n
    BY <1>1, ValRecursion, PowFacts
  <2>2. Pow[n] * 0 = 0 /\ Val(e)[n] + 0 = Val(e)[n]
    BY <2>1
  <2>. QED
    BY <2>1, <2>2, PlaceFacts
<1>3. ASSUME NEW k \in Places, k \in S PROVE k + 1 \in S
  <2>. SUFFICES ASSUME k + 1 <= m
                PROVE  Val(e)[n + (k + 1)] = Val(e)[n] + Pow[n] * Val(d)[k + 1]
    BY PlaceFacts
  <2>1. k \in Nat /\ k \in 0 .. m - 1 /\ k <= m /\ n + k \in Places /\ n + (k + 1) = (n + k) + 1
        /\ n + k \in Nat
    BY <1>1, RadixFacts DEF Places
  <2>2. Val(e)[(n + k) + 1] = Val(e)[n + k] + e[n + k] * Pow[n + k] /\ e[n + k] = d[k]
    BY <2>1, ValRecursion DEF From
  <2>3. Val(d)[k + 1] = Val(d)[k] + d[k] * Pow[k] /\ Val(d)[k] \in Int /\ d[k] \in Int
        /\ Pow[k] \in Int /\ Pow[n] \in Int /\ Val(e)[n] \in Int
    BY <1>1, <2>1, PlaceFacts, ValRecursion, DigitFacts, PowFacts
  <2>4. Val(e)[n + k] = Val(e)[n] + Pow[n] * Val(d)[k]
    BY <1>3, <2>1
  <2>5. Pow[n + k] = Pow[n] * Pow[k]
    BY <2>1, PowSum
  <2>. DEFINE x == Val(e)[n]
              y == Val(d)[k]
              z == d[k]
              P == Pow[n]
              K == Pow[k]
  <2>6. x \in Int /\ y \in Int /\ z \in Int /\ P \in Int /\ K \in Int
    BY <2>3
  <2>7. Val(e)[(n + k) + 1] = (x + P * y) + z * (P * K) /\ Val(d)[k + 1] = y + z * K
    BY <2>2, <2>3, <2>4, <2>5
  <2>8. Val(e)[n] = x /\ Pow[n] = P
    OBVIOUS
  <2>. HIDE DEF x, y, z, P, K
  <2>9. (x + P * y) + z * (P * K) = x + P * (y + z * K)
    <3>1. z * (P * K) = P * (z * K) /\ P * (y + z * K) = P * y + P * (z * K)
      BY <2>6
    <3>. DEFINE u == P * y
                w == P * (z * K)
    <3>2. u \in Int /\ w \in Int
      BY <2>6
    <3>3. z * (P * K) = w /\ P * (y + z * K) = u + w
      BY <3>1
    <3>. HIDE DEF u, w
    <3>4. (x + u) + w = x + (u + w)
      BY <2>6, <3>2
    <3>. QED
      BY <3>3, <3>4 DEF u
  <2>. QED
    BY <2>1, <2>7, <2>8, <2>9
<1>. HIDE DEF S
<1>4. m \in S
  BY <1>1, <1>2, <1>3, CountInduction
<1>. QED
  BY <1>4, PlaceFacts DEF S

(* The digits of a number from place n on are its quotient by Pow[n].      *)
LEMMA ValSplit ==
  ASSUME NEW d \in Vectors, NEW e \in Vectors, NEW n \in Nat, NEW m \in Nat, n + m \in Counts,
         From(e, d, n, m)
  PROVE  Val(e)[n + m] \div Pow[n] = Val(d)[m] /\ Val(e)[n + m] % Pow[n] = Val(e)[n]
<1>1. n \in Counts /\ m \in Counts
  BY RadixFacts DEF Counts
<1>. DEFINE P == Pow[n]
            x == Val(e)[n]
            y == Val(d)[m]
<1>2. P \in Nat /\ P > 0 /\ x \in 0 .. P - 1 /\ y \in Int /\ x \in Int
  <2>1. x \in Nat /\ x < P /\ P \in Nat /\ P > 0
    BY <1>1, ValBounds, PowFacts
  <2>. QED
    BY <1>1, <2>1, ValRecursion
<1>3. Val(e)[n + m] = x + P * y
  BY ValFrom
<1>. HIDE DEF P, x, y
<1>4. x + P * y = P * y + x
  BY <1>2
<1>5. (P * y + x) \div P = y /\ (P * y + x) % P = x
  BY <1>2, DivisionUnique
<1>. QED
  BY <1>3, <1>4, <1>5 DEF P, x, y

LEMMA ZeroHolds ==
  ASSUME NEW c \in MpInts, Proper(c), NEW E \in BOOLEAN, E => NoExcess(c)
  PROVE  Holds(MpZero(c), E, 0)
<1>1. MpZero(c) = Finished(c, c.digit, 0, MP_ZPOS)
  <2>1. c.used - 0 = c.used
    BY IntFacts
  <2>. QED
    BY <2>1 DEF MpZero, Finished
<1>2. c.digit \in Vectors /\ 0 \in Counts /\ 0 <= c.alloc /\ Above(c.digit, c, 0) /\ MP_ZPOS \in Signs
  BY IntFacts, PlaceFacts DEF Above, Signs
<1>3. Holds(Finished(c, c.digit, 0, MP_ZPOS), E, Signed(MP_ZPOS, Val(c.digit)[0]))
  <2>. DEFINE d == c.digit
              n == 0
  <2>1. d \in Vectors /\ n \in Counts /\ n <= c.alloc /\ Above(d, c, n) /\ ~ (n > 0)
    BY <1>2
  <2>. HIDE DEF d, n
  <2>2. Holds(Finished(c, d, n, MP_ZPOS), E, Signed(MP_ZPOS, Val(d)[n]))
    BY <1>2, <2>1, FinishedFacts
  <2>. QED
    BY <2>2 DEF d, n
<1>4. Val(c.digit)[0] = 0
  BY <1>2, ValRecursion
<1>. QED
  BY <1>1, <1>3, <1>4 DEF Signed, MP_ZPOS, MP_NEG

LEMMA DigitsUpHolds ==
  ASSUME NEW g \in MpInts, Proper(g), g.used > 0, NEW n \in Nat, g.used + n <= g.alloc,
         NEW E \in BOOLEAN, E => NoExcess(g)
  PROVE  /\ Holds(DigitsUp(g, n), E, Pow[n] * IntVal(g))
         /\ DigitsUp(g, n).used = g.used + n /\ DigitsUp(g, n).alloc = g.alloc
<1>. DEFINE k == g.used + n
            v == [i \in 0 .. k - 1 |-> IF i < n THEN 0 ELSE g.digit[i - n]]
            d == [i \in Places |-> IF i < k THEN v[i] ELSE g.digit[i]]
<1>1. /\ g.used \in Nat /\ g.used \in Counts /\ g.alloc \in Counts /\ g.alloc \in Nat
      /\ g.digit \in Vectors /\ g.sign \in Signs /\ Mag(g) \in Nat /\ Mag(g) = Val(g.digit)[g.used]
      /\ g.used <= MP_MAX_DIGIT_COUNT
  BY IntFacts, PlaceFacts
<1>2. k \in Nat /\ k \in Counts /\ k <= g.alloc /\ k >= g.used /\ k = n + g.used /\ k > 0
  BY <1>1, RadixFacts DEF Counts
<1>3. v \in [0 .. k - 1 -> Digits]
  <2>1. ASSUME NEW i \in 0 .. k - 1, ~ (i < n) PROVE g.digit[i - n] \in Digits
    <3>1. i - n \in Places
      BY <1>1, <1>2, <2>1, RadixFacts DEF Places
    <3>. QED
      BY <1>1, <3>1 DEF Vectors
  <2>2. 0 \in Digits
    BY RadixFacts DEF Digits
  <2>. QED
    BY <2>1, <2>2
<1>4. \A i \in 0 .. k - 1 : v[i] = IF i < n THEN 0 ELSE g.digit[i - n]
  OBVIOUS
<1>5. DigitsUp(g, n) = [g EXCEPT !.used = k, !.digit = d]
  <2>1. \A i \in Places : i < k => i \in 0 .. k - 1
    BY <1>2, PlaceFacts
  <2>2. d = [i \in Places |-> IF i < k THEN (IF i < n THEN 0 ELSE g.digit[i - n]) ELSE g.digit[i]]
    BY <2>1
  <2>. QED
    BY <2>2 DEF DigitsUp, Written
<1>. HIDE DEF v
<1>6. d \in Vectors /\ Above(d, g, k) /\ (\A i \in 0 .. k - 1 : d[i] = v[i])
  <2>1. Stored(d, g, k, v)
    BY <1>2, <1>3 DEF Stored
  <2>. HIDE DEF d, k
  <2>. QED
    BY <2>1, StoredFacts
<1>. HIDE DEF d
<1>7. DigitsUp(g, n) = Finished(g, d, k, g.sign)
  <2>1. k \in Counts /\ k >= g.used /\ d \in Vectors
    BY <1>2, <1>6
  <2>. HIDE DEF k
  <2>2. Finished(g, d, k, g.sign) = Extended(g, k, d)
    BY <2>1, FinishedUp
  <2>. QED
    BY <1>5, <2>2 DEF Extended
<1>8. From(d, g.digit, n, g.used)
  <2>. SUFFICES ASSUME NEW i \in 0 .. g.used - 1 PROVE d[n + i] = g.digit[i]
    BY DEF From
  <2>1. n + i \in 0 .. k - 1 /\ ~ (n + i < n) /\ (n + i) - n = i
    BY <1>1, <1>2
  <2>. QED
    BY <1>4, <1>6, <2>1
<1>9. Val(d)[k] = Pow[n] * Mag(g)
  <2>1. n + g.used \in Counts
    BY <1>2
  <2>2. Val(d)[n + g.used] = Val(d)[n] + Pow[n] * Val(g.digit)[g.used]
    BY <1>1, <1>6, <1>8, <2>1, ValFrom
  <2>3. n \in Counts /\ 0 \in Counts
    BY <1>1, <1>2, RadixFacts DEF Counts
  <2>4. \A i \in Places : 0 <= i /\ i < n => d[i] = 0
    <3>. SUFFICES ASSUME NEW i \in Places, i < n PROVE d[i] = 0
      OBVIOUS
    <3>1. i \in 0 .. k - 1
      BY <1>1, <1>2, PlaceFacts
    <3>. QED
      BY <1>4, <1>6, <3>1
  <2>5. Val(d)[n] = Val(d)[0] /\ Val(d)[0] = 0
    BY <1>6, <2>3, <2>4, ValZeros, ValRecursion
  <2>6. Pow[n] * Mag(g) \in Nat
    BY <1>1, PowFacts
  <2>. QED
    BY <1>1, <1>2, <2>2, <2>5, <2>6
<1>10. d[k - 1] # 0
  <2>1. k - 1 \in 0 .. k - 1 /\ ~ (k - 1 < n) /\ (k - 1) - n = g.used - 1
    BY <1>1, <1>2
  <2>. QED
    BY <1>4, <1>6, <2>1 DEF Proper
<1>11. Holds(Finished(g, d, k, g.sign), E, Signed(g.sign, Val(d)[k]))
       /\ Finished(g, d, k, g.sign).used = k /\ Finished(g, d, k, g.sign).alloc = g.alloc
  <2>1. k # 0
    BY <1>2
  <2>. HIDE DEF k
  <2>. QED
    BY <1>1, <1>2, <1>6, <1>10, <2>1, FinishedFacts
<1>12. Signed(g.sign, Val(d)[k]) = Pow[n] * IntVal(g)
  BY <1>9, SignFacts, PowFacts
<1>. QED
  BY <1>7, <1>11, <1>12

LEMMA RShdHolds ==
  ASSUME NEW c \in MpInts, Proper(c), NEW n \in Nat, NEW E \in BOOLEAN, E => NoExcess(c)
  PROVE  /\ Holds(RShd(c, n), E, Signed(c.sign, Mag(c) \div Pow[n]))
         /\ Mag(RShd(c, n)) = Mag(c) \div Pow[n]
         /\ Mag(c) >= Pow[n] => RShd(c, n).sign = c.sign
<1>1. /\ c.used \in Nat /\ c.used \in Counts /\ c.alloc \in Counts /\ c.alloc \in Nat
      /\ c.digit \in Vectors /\ c.sign \in Signs /\ Mag(c) \in Nat /\ Mag(c) = Val(c.digit)[c.used]
      /\ c.used <= MP_MAX_DIGIT_COUNT /\ Mag(c) < Pow[c.used]
      /\ Pow[n] \in Nat /\ Pow[n] > 0 /\ IntVal(c) = Signed(c.sign, Mag(c))
  BY IntFacts, PlaceFacts, PowFacts
<1>2. CASE n = 0
  <2>1. RShd(c, n) = c /\ Mag(c) \div Pow[n] = Mag(c)
    BY <1>1, <1>2, PowFacts DEF RShd
  <2>. QED
    BY <1>1, <2>1 DEF Holds
<1>3. CASE n > 0 /\ c.used <= n
  <2>1. RShd(c, n) = MpZero(c)
    BY <1>3 DEF RShd
  <2>2. Mag(c) < Pow[n]
    <3>1. Pow[c.used] <= Pow[n] /\ Pow[c.used] \in Nat
      BY <1>1, <1>3, PowMonotone, PowFacts
    <3>. QED
      BY <1>1, <3>1
  <2>3. Mag(c) \div Pow[n] = 0
    BY <1>1, <2>2
  <2>4. Holds(MpZero(c), E, 0)
    BY ZeroHolds
  <2>5. Mag(MpZero(c)) = 0
    <3>1. MpZero(c) \in MpInts /\ MpZero(c).used = 0
      BY <1>1, <2>4 DEF MpZero, MpInts, Holds
    <3>. QED
      BY <3>1, IntFacts, ValRecursion
  <2>6. Signed(c.sign, 0) = 0
    <3>1. \A x \in Int : x <= 0 /\ x >= 0 => - x = x
      OBVIOUS
    <3>2. \A x \in Int : x <= 0 /\ x >= 0 => Signed(c.sign, x) = x
      BY <3>1 DEF Signed
    <3>. QED
      BY <3>2
  <2>. QED
    BY <1>1, <2>1, <2>2, <2>3, <2>4, <2>5, <2>6
<1>4. CASE n > 0 /\ c.used > n
  <2>. DEFINE k == c.used - n
              v == [i \in 0 .. k - 1 |-> c.digit[i + n]]
              d == [i \in Places |-> IF i < k THEN v[i] ELSE c.digit[i]]
  <2>1. k \in Nat /\ k \in Counts /\ k <= c.alloc /\ k > 0 /\ n + k = c.used /\ c.used - k = n
    BY <1>1, <1>4, RadixFacts DEF Counts, Proper
  <2>2. v \in [0 .. k - 1 -> Digits] /\ \A i \in 0 .. k - 1 : v[i] = c.digit[i + n]
    <3>1. ASSUME NEW i \in 0 .. k - 1 PROVE c.digit[i + n] \in Digits
      <4>1. i + n \in Places
        BY <1>1, <1>4, <2>1, RadixFacts DEF Places
      <4>. QED
        BY <1>1, <4>1 DEF Vectors
    <3>. QED
      BY <3>1
  <2>3. RShd(c, n) = Finished(c, d, k, c.sign)
    <3>1. \A i \in Places : i < k => i \in 0 .. k - 1
      BY <2>1, PlaceFacts
    <3>2. d = [i \in Places |-> IF i < k THEN c.digit[i + n] ELSE c.digit[i]]
      BY <3>1
    <3>3. RShd(c, n) = [c EXCEPT !.used = k, !.digit = ZeroDigs(d, k, n)]
      <4>1. ~ (n <= 0) /\ ~ (c.used <= n)
        BY <1>1, <1>4
      <4>2. RShd(c, n) = [c EXCEPT !.used = c.used - n,
                                   !.digit = ZeroDigs(Written(c.digit, c.used - n, LAMBDA i : c.digit[i + n]),
                                                      c.used - n, n)]
        BY <4>1, Zenon DEF RShd
      <4>3. Written(c.digit, c.used - n, LAMBDA i : c.digit[i + n]) = d
        BY <3>2 DEF Written
      <4>. HIDE DEF d
      <4>. QED
        BY <4>2, <4>3
    <3>4. [c EXCEPT !.used = k, !.sign = c.sign, !.digit = ZeroDigs(d, k, n)]
             = [c EXCEPT !.used = k, !.digit = ZeroDigs(d, k, n)]
      BY DEF MpInts
    <3>. HIDE DEF d
    <3>. QED
      BY <2>1, <3>3, <3>4 DEF Finished
  <2>. HIDE DEF v
  <2>4. d \in Vectors /\ Above(d, c, k) /\ (\A i \in 0 .. k - 1 : d[i] = v[i])
    <3>1. Stored(d, c, k, v)
      BY <2>1, <2>2 DEF Stored
    <3>. HIDE DEF d, k
    <3>. QED
      BY <3>1, StoredFacts
  <2>. HIDE DEF d
  <2>5. From(c.digit, d, n, k)
    <3>. SUFFICES ASSUME NEW i \in 0 .. k - 1 PROVE c.digit[n + i] = d[i]
      BY DEF From
    <3>1. i + n = n + i
      BY <2>1
    <3>. QED
      BY <2>2, <2>4, <3>1
  <2>6. Val(d)[k] = Mag(c) \div Pow[n]
    <3>. HIDE DEF k
    <3>1. Val(c.digit)[n + k] \div Pow[n] = Val(d)[k]
      BY <1>1, <2>1, <2>4, <2>5, ValSplit
    <3>. QED
      BY <1>1, <2>1, <3>1
  <2>7. d[k - 1] # 0
    <3>1. k - 1 \in 0 .. k - 1 /\ (k - 1) + n = c.used - 1
      BY <1>1, <2>1, SMTT(30)
    <3>. QED
      BY <1>1, <1>4, <2>2, <2>4, <3>1 DEF Proper
  <2>8. /\ Holds(Finished(c, d, k, c.sign), E, Signed(c.sign, Val(d)[k]))
        /\ Mag(Finished(c, d, k, c.sign)) = Val(d)[k] /\ Finished(c, d, k, c.sign).sign = c.sign
    <3>1. k # 0
      BY <2>1
    <3>. HIDE DEF k
    <3>. QED
      BY <1>1, <2>1, <2>4, <2>7, <3>1, FinishedFacts
  <2>. QED
    BY <2>3, <2>6, <2>8
<1>. QED
  BY <1>1, <1>2, <1>3, <1>4
-----------------------------------------------------------------------------
(* Shifts by any number of bits.                                           *)
LEMMA ShiftBitsUpHolds ==
  ASSUME NEW c \in MpInts, Proper(c), c.used + 1 <= c.alloc, NEW b \in 0 .. MP_DIGIT_BIT,
         NEW E \in BOOLEAN, E => NoExcess(c)
  PROVE  Holds(mp_clamp(ShiftBitsUp(c, b)), E, 2 ^ b * IntVal(c))
<1>. DEFINE n == c.used
            C == [i \in Places |-> [m \in Nat |-> c.digit[i] \div 2 ^ (MP_DIGIT_BIT - b)]]
            r == CarryUp(n, 0, C)
            v == [i \in 0 .. n - 1 |-> ((c.digit[i] * 2 ^ b) % Radix) + r[i]]
            up == [i \in Places |-> IF i < n THEN v[i] ELSE c.digit[i]]
            top == r[n]
            d == [up EXCEPT ![n] = top]
<1>1. /\ n \in Counts /\ n \in Nat /\ n + 1 \in Counts /\ n \in Places /\ c.digit \in Vectors
      /\ Radix \in Nat /\ Radix > 1 /\ n + 1 <= c.alloc /\ n <= c.alloc
      /\ c.sign \in Signs /\ Mag(c) \in Nat /\ Mag(c) = Val(c.digit)[n]
  BY IntFacts, RadixFacts, PlaceFacts DEF Places
<1>2. HandsUp(C, c.digit, n, b)
  <2>1. \A i \in 0 .. n - 1 : i \in Places
    BY <1>1, RadixFacts, IntFacts DEF Places, Counts
  <2>. QED
    BY <2>1 DEF HandsUp
<1>3. ShiftBitsUp(c, b) = IF top # 0 THEN Extended(c, n + 1, d) ELSE Extended(c, n, up)
  <2>1. \A i \in Places : i < n => i \in 0 .. n - 1
    BY <1>1, PlaceFacts
  <2>2. up = [i \in Places |-> IF i < n THEN ((c.digit[i] * 2 ^ b) % Radix) + r[i] ELSE c.digit[i]]
    BY <2>1
  <2>3. up = Written(c.digit, n, LAMBDA i : ((c.digit[i] * 2 ^ b) % Radix) + r[i])
    BY <2>2 DEF Written
  <2>. HIDE DEF up
  <2>4. ShiftBitsUp(c, b) = IF top # 0 THEN [c EXCEPT !.used = n + 1, !.digit = [up EXCEPT ![n] = top]]
                                       ELSE [c EXCEPT !.digit = up]
    BY <2>3 DEF ShiftBitsUp
  <2>5. [c EXCEPT !.digit = up] = [c EXCEPT !.used = n, !.digit = up]
    BY DEF MpInts
  <2>. QED
    BY <2>4, <2>5 DEF Extended
<1>. HIDE DEF C
<1>4. ShiftsUp(r, c.digit, n, b)
  <2>1. r = CarryUp(n, 0, C)
    OBVIOUS
  <2>. DEFINE d0 == c.digit
  <2>. HIDE DEF r, n, d0
  <2>2. HandsUp(C, d0, n, b) /\ d0 \in Vectors
    BY <1>1, <1>2 DEF d0
  <2>3. ShiftsUp(r, d0, n, b)
    BY <1>1, <2>1, <2>2, LoopUpwards
  <2>. QED
    BY <2>3 DEF d0
<1>. HIDE DEF r
<1>5. v \in [0 .. n - 1 -> Digits] /\ \A i \in 0 .. n - 1 : v[i] = UpDigit(c.digit, r, b, i)
  BY <1>4 DEF ShiftsUp, UpDigit
<1>. HIDE DEF v
<1>6. top \in Digits /\ top \in Nat
  <2>1. n \in 0 .. n /\ 2 ^ b \in Nat /\ 2 ^ b <= Radix
    <3>1. b \in Nat /\ b <= MP_DIGIT_BIT
      BY RadixBits
    <3>. QED
      BY <1>1, <3>1, RadixBits, TwoToMonotone, TwoTo
  <2>2. top \in 0 .. 2 ^ b - 1
    BY <1>4, <2>1 DEF ShiftsUp
  <2>. QED
    BY <1>1, <2>1, <2>2 DEF Digits
<1>7. up \in Vectors /\ Above(up, c, n) /\ (\A i \in 0 .. n - 1 : up[i] = v[i]) /\ d \in Vectors
  <2>1. Stored(up, c, n, v)
    BY <1>1, <1>5 DEF Stored
  <2>. HIDE DEF up, n, top
  <2>2. up \in Vectors /\ Above(up, c, n) /\ (\A i \in 0 .. n - 1 : up[i] = v[i])
    BY <2>1, StoredFacts
  <2>3. d \in Vectors
    BY <1>1, <1>6, <2>2 DEF Vectors
  <2>. QED
    BY <2>2, <2>3
<1>. HIDE DEF up
<1>8. Val(up)[n] + top * Pow[n] = 2 ^ b * Mag(c)
  BY <1>1, <1>4, <1>5, <1>7 DEF ShiftsUp
<1>9. Val(up)[n] \in Nat /\ Pow[n] \in Nat
  BY <1>1, <1>7, ValBounds, PowFacts
<1>10. Signed(c.sign, 2 ^ b * Mag(c)) = 2 ^ b * IntVal(c)
  BY SignFacts, RadixBits
<1>11. CASE top # 0
  <2>1. d[n] = top /\ \A i \in Places : i # n => d[i] = up[i]
    BY <1>1, <1>7 DEF Vectors
  <2>. HIDE DEF d
  <2>2. Val(d)[n] = Val(up)[n]
    <3>1. \A i \in Places : i < n => d[i] = up[i]
      BY <1>1, <2>1, PlaceFacts
    <3>. QED
      BY <1>1, <1>7, <3>1, ValPrefix
  <2>3. Val(d)[n + 1] = Val(d)[n] + d[n] * Pow[n]
    BY <1>1, <1>7, ValRecursion
  <2>4. Val(d)[n + 1] = 2 ^ b * Mag(c)
    BY <1>8, <2>1, <2>2, <2>3
  <2>5. Above(d, c, n + 1)
    <3>1. \A i \in Places : i >= n + 1 => i # n /\ i >= n
      BY <1>1, PlaceFacts
    <3>. QED
      BY <1>7, <2>1, <3>1 DEF Above
  <2>. DEFINE k == n + 1
  <2>6. k \in Counts /\ k <= c.alloc /\ Above(d, c, k) /\ k >= c.used
    BY <1>1, <2>5
  <2>. HIDE DEF k
  <2>7. Finished(c, d, k, c.sign) = Extended(c, k, d)
    BY <1>7, <2>6, FinishedUp
  <2>8. Holds(mp_clamp(Finished(c, d, k, c.sign)), E, Signed(c.sign, Val(d)[k]))
    BY <1>1, <1>7, <2>6, FinishedFacts
  <2>. QED
    BY <1>3, <1>10, <1>11, <2>4, <2>7, <2>8 DEF k
<1>12. CASE top = 0
  <2>1. Val(up)[n] = 2 ^ b * Mag(c)
    <3>1. 0 * Pow[n] = 0 /\ Val(up)[n] + 0 = Val(up)[n]
      BY <1>9
    <3>. QED
      BY <1>8, <1>12, <3>1
  <2>2. n >= c.used
    BY <1>1
  <2>. HIDE DEF n
  <2>3. Finished(c, up, n, c.sign) = Extended(c, n, up)
    BY <1>1, <1>7, <2>2, FinishedUp
  <2>4. Holds(mp_clamp(Finished(c, up, n, c.sign)), E, Signed(c.sign, Val(up)[n]))
    BY <1>1, <1>7, FinishedFacts
  <2>. QED
    BY <1>3, <1>10, <1>12, <2>1, <2>3, <2>4
<1>. QED
  BY <1>11, <1>12

LEMMA ShiftBitsDownHolds ==
  ASSUME NEW c \in MpInts, Proper(c), NEW b \in 0 .. MP_DIGIT_BIT,
         NEW E \in BOOLEAN, E => NoExcess(c)
  PROVE  Holds(mp_clamp(ShiftBitsDown(c, b)), E, Signed(c.sign, Mag(c) \div 2 ^ b))
<1>. DEFINE n == c.used
            C == [i \in Places |-> [m \in Nat |-> c.digit[i] % 2 ^ b]]
            r == CarryDown(n, C)
            v == [i \in 0 .. n - 1 |-> (c.digit[i] \div 2 ^ b) + r[i + 1] * 2 ^ (MP_DIGIT_BIT - b)]
            down == [i \in Places |-> IF i < n THEN v[i] ELSE c.digit[i]]
<1>1. /\ n \in Counts /\ n \in Nat /\ c.digit \in Vectors /\ n <= c.alloc
      /\ c.sign \in Signs /\ Mag(c) = Val(c.digit)[n]
  BY IntFacts DEF Proper
<1>2. HandsDown(C, c.digit, n, b)
  <2>1. \A i \in 0 .. n - 1 : i \in Places
    BY <1>1, RadixFacts, IntFacts DEF Places, Counts
  <2>. QED
    BY <2>1 DEF HandsDown
<1>3. ShiftBitsDown(c, b) = Extended(c, n, down)
  <2>1. \A i \in Places : i < n => i \in 0 .. n - 1
    BY <1>1, PlaceFacts
  <2>2. down = [i \in Places |-> IF i < n THEN (c.digit[i] \div 2 ^ b) + r[i + 1] * 2 ^ (MP_DIGIT_BIT - b)
                                          ELSE c.digit[i]]
    BY <2>1
  <2>3. down = Written(c.digit, n,
                       LAMBDA i : (c.digit[i] \div 2 ^ b) + r[i + 1] * 2 ^ (MP_DIGIT_BIT - b))
    BY <2>2 DEF Written
  <2>. HIDE DEF down
  <2>4. ShiftBitsDown(c, b) = [c EXCEPT !.digit = down]
    BY <2>3 DEF ShiftBitsDown
  <2>5. [c EXCEPT !.digit = down] = [c EXCEPT !.used = n, !.digit = down]
    BY DEF MpInts
  <2>. QED
    BY <2>4, <2>5 DEF Extended
<1>. HIDE DEF C
<1>4. ShiftsDown(r, c.digit, n, b)
  <2>1. r = CarryDown(n, C)
    OBVIOUS
  <2>. DEFINE d0 == c.digit
  <2>. HIDE DEF r, n, d0
  <2>2. HandsDown(C, d0, n, b) /\ d0 \in Vectors
    BY <1>1, <1>2 DEF d0
  <2>3. ShiftsDown(r, d0, n, b)
    BY <1>1, <2>1, <2>2, LoopDownwards
  <2>. QED
    BY <2>3 DEF d0
<1>. HIDE DEF r
<1>5. v \in [0 .. n - 1 -> Digits] /\ \A i \in 0 .. n - 1 : v[i] = DownDigit(c.digit, r, b, i)
  BY <1>4 DEF ShiftsDown, DownDigit
<1>. HIDE DEF v
<1>6. down \in Vectors /\ Above(down, c, n) /\ (\A i \in 0 .. n - 1 : down[i] = v[i])
  <2>1. Stored(down, c, n, v)
    BY <1>1, <1>5 DEF Stored
  <2>. HIDE DEF down, n
  <2>. QED
    BY <2>1, StoredFacts
<1>. HIDE DEF down
<1>7. Val(down)[n] = Mag(c) \div 2 ^ b
  BY <1>1, <1>4, <1>5, <1>6 DEF ShiftsDown
<1>8. n >= c.used
  BY <1>1
<1>. HIDE DEF n
<1>9. Finished(c, down, n, c.sign) = Extended(c, n, down)
  BY <1>1, <1>6, <1>8, FinishedUp
<1>10. Holds(mp_clamp(Finished(c, down, n, c.sign)), E, Signed(c.sign, Val(down)[n]))
  BY <1>1, <1>6, FinishedFacts
<1>. QED
  BY <1>3, <1>7, <1>9, <1>10

(* A count of bits, in whole digits and the rest.                          *)
LEMMA BitCount ==
  ASSUME NEW b \in Nat
  PROVE  /\ b \div MP_DIGIT_BIT \in Nat /\ b % MP_DIGIT_BIT \in 0 .. MP_DIGIT_BIT - 1
         /\ b % MP_DIGIT_BIT \in 0 .. MP_DIGIT_BIT
         /\ b = MP_DIGIT_BIT * (b \div MP_DIGIT_BIT) + (b % MP_DIGIT_BIT)
         /\ 2 ^ b \in Nat /\ 2 ^ b > 0
         /\ 2 ^ b = Pow[b \div MP_DIGIT_BIT] * 2 ^ (b % MP_DIGIT_BIT)
<1>. DEFINE q == b \div MP_DIGIT_BIT
            m == b % MP_DIGIT_BIT
            k == MP_DIGIT_BIT * q
<1>1. q \in Nat /\ m \in 0 .. MP_DIGIT_BIT - 1 /\ b = MP_DIGIT_BIT * q + m
  BY RadixBits, Quotient
<1>. HIDE DEF q, m
<1>2. k \in Nat /\ m \in Nat /\ b = k + m /\ m \in 0 .. MP_DIGIT_BIT
  BY <1>1, RadixBits
<1>3. Pow[q] = 2 ^ k
  BY <1>1, PowBits
<1>. HIDE DEF k
<1>4. 2 ^ b = 2 ^ k * 2 ^ m /\ 2 ^ b \in Nat /\ 2 ^ b > 0
  BY <1>2, TwoToSum, TwoTo
<1>. QED
  BY <1>1, <1>2, <1>3, <1>4 DEF q, m

LEMMA ClampedHolds ==
  ASSUME NEW x \in MpInts, Proper(x), NEW E \in BOOLEAN, E => NoExcess(x)
  PROVE  Holds(mp_clamp(x), E, IntVal(x))
<1>1. x.used <= x.alloc /\ (x.used = 0 => x.digit[0] = 0)
  BY DEF Proper
<1>2. Holds(mp_clamp(x), E, Signed(x.sign, Mag(x)))
  BY <1>1, ClampHolds
<1>. QED
  BY <1>2, IntFacts

LEMMA BitsUpHolds ==
  ASSUME NEW s \in MpInts, Proper(s), s.used + 1 <= s.alloc, NEW b \in Nat,
         NEW E \in BOOLEAN, E => NoExcess(s)
  PROVE  Holds(BitsUp(s, b), E, 2 ^ (b % MP_DIGIT_BIT) * IntVal(s))
<1>. DEFINE m == b % MP_DIGIT_BIT
<1>1. m \in 0 .. MP_DIGIT_BIT /\ IntVal(s) \in Int
  BY BitCount, IntFacts
<1>2. BitsUp(s, b) = mp_clamp(IF m # 0 THEN ShiftBitsUp(s, m) ELSE s)
  BY DEF BitsUp
<1>. HIDE DEF m
<1>3. CASE m # 0
  BY <1>1, <1>2, <1>3, ShiftBitsUpHolds DEF m
<1>4. CASE m = 0
  <2>1. 2 ^ m * IntVal(s) = IntVal(s)
    BY <1>1, <1>4, TwoTo
  <2>2. Holds(mp_clamp(s), E, IntVal(s))
    BY ClampedHolds
  <2>. QED
    BY <1>2, <1>4, <2>1, <2>2 DEF m
<1>. QED
  BY <1>3, <1>4

(* mp_lshd, where there is room already: nothing can fail.                 *)
LEMMA LShdHolds ==
  ASSUME NEW g \in MpInts, Proper(g), NEW n \in Nat, g.used + n + 1 <= g.alloc,
         NEW E \in BOOLEAN, E => NoExcess(g), NEW r \in LShd(g, n)
  PROVE  /\ r.code = "OKAY" /\ Holds(r.num, E, Pow[n] * IntVal(g))
         /\ r.num.used + 1 <= r.num.alloc
<1>1. g.used \in Nat /\ g.alloc \in Nat /\ IntVal(g) \in Int /\ Pow[n] \in Nat
  BY IntFacts, PowFacts
<1>2. CASE n <= 0 \/ IsZero(g)
  <2>1. r = Okay(g)
    BY <1>2 DEF LShd
  <2>2. Pow[n] * IntVal(g) = IntVal(g)
    <3>1. CASE n = 0
      BY <1>1, <3>1, PowFacts
    <3>2. CASE IsZero(g)
      <4>1. IntVal(g) = 0
        BY <3>2, ProperFacts DEF IsZero
      <4>. QED
        BY <1>1, <4>1
    <3>. QED
      BY <1>2, <3>1, <3>2
  <2>3. Holds(g, E, IntVal(g))
    BY DEF Holds
  <2>4. g.used + 1 <= g.alloc
    BY <1>1
  <2>. QED
    BY <2>1, <2>2, <2>3, <2>4 DEF Okay, Outcome
<1>3. CASE ~ (n <= 0 \/ IsZero(g))
  <2>1. g.used + n <= g.alloc /\ g.used > 0
    BY <1>1, <1>3 DEF IsZero
  <2>2. Grow(g, g.used + n) = {Okay(g)}
    BY <2>1 DEF Grow, Growths, Okay
  <2>3. r = Okay(DigitsUp(g, n))
    BY <1>3, <2>2 DEF LShd, Then, Okay, Outcome
  <2>4. Holds(DigitsUp(g, n), E, Pow[n] * IntVal(g))
        /\ DigitsUp(g, n).used = g.used + n /\ DigitsUp(g, n).alloc = g.alloc
    BY <2>1, DigitsUpHolds
  <2>. QED
    BY <2>3, <2>4 DEF Okay, Outcome
<1>. QED
  BY <1>2, <1>3

LEMMA MovedDelivers ==
  ASSUME NEW g \in MpInts, Proper(g), NEW b \in Nat,
         g.used + b \div MP_DIGIT_BIT + 1 <= g.alloc,
         NEW E \in BOOLEAN, E => NoExcess(g), NEW F
  PROVE  Delivers(Moved(g, b), E, {IntVal(g) * 2 ^ b}, F)
<1>. DEFINE q == b \div MP_DIGIT_BIT
            m == b % MP_DIGIT_BIT
<1>1. q \in Nat /\ 2 ^ b = Pow[q] * 2 ^ m /\ g.used + q + 1 <= g.alloc
      /\ Pow[q] \in Nat /\ 2 ^ m \in Nat /\ IntVal(g) \in Int
  BY BitCount, PowFacts, RadixBits, IntFacts
<1>2. \A r \in Moved(g, b) : \/ r \in LShd(g, q) /\ r.code # "OKAY"
                             \/ \E s \in LShd(g, q) : s.code = "OKAY" /\ r = Okay(BitsUp(s.num, b))
  BY DEF Moved, Then
<1>. HIDE DEF q
<1>3. \A r \in LShd(g, q) : /\ r.code = "OKAY" /\ Holds(r.num, E, Pow[q] * IntVal(g))
                            /\ r.num.used + 1 <= r.num.alloc
  BY <1>1, LShdHolds
<1>. DEFINE V == {IntVal(g) * 2 ^ b}
<1>4. ASSUME NEW s \in LShd(g, q) PROVE Delivers({Okay(BitsUp(s.num, b))}, E, V, F)
  <2>1. /\ s.num \in MpInts /\ Proper(s.num) /\ s.num.used + 1 <= s.num.alloc
        /\ (E => NoExcess(s.num)) /\ IntVal(s.num) = Pow[q] * IntVal(g)
    BY <1>3 DEF Holds
  <2>2. Holds(BitsUp(s.num, b), E, 2 ^ m * IntVal(s.num))
    BY <2>1, BitsUpHolds
  <2>3. \A x, y, z \in Int : x * (y * z) = z * (y * x)
    OBVIOUS
  <2>4. 2 ^ m * IntVal(s.num) = IntVal(g) * 2 ^ b
    <3>. HIDE DEF m
    <3>. QED
      BY <1>1, <2>1, <2>3
  <2>. QED
    BY <2>2, <2>4, OkayDelivers
<1>. HIDE DEF V
<1>5. \A r \in Moved(g, b) : Delivers({r}, E, V, F)
  BY <1>2, <1>3, <1>4
<1>. QED
  BY <1>5 DEF Delivers, V

LEMMA RaisedDelivers ==
  ASSUME NEW d \in MpInts, Proper(d), NEW b \in Nat, NEW E \in BOOLEAN, E => NoExcess(d)
  PROVE  Delivers(Raised(d, b), E, {IntVal(d) * 2 ^ b}, {IntVal(d)})
<1>. DEFINE size == d.used + b \div MP_DIGIT_BIT + 1
            R == Raised(d, b)
            V == {IntVal(d) * 2 ^ b}
            F == {IntVal(d)}
<1>1. size \in Nat /\ IntVal(d) \in F
  BY BitCount, IntFacts
<1>2. \A r \in R : \/ r \in Grow(d, size) /\ r.code # "OKAY"
                   \/ \E s \in Grow(d, size) : s.code = "OKAY" /\ r \in Moved(s.num, b)
  BY DEF Raised, Then
<1>3. ASSUME NEW s \in Grow(d, size), s.code = "OKAY" PROVE Delivers(Moved(s.num, b), E, V, F)
  <2>1. /\ s.num \in MpInts /\ Proper(s.num) /\ (E => NoExcess(s.num))
        /\ IntVal(s.num) = IntVal(d) /\ size <= s.num.alloc /\ s.num.used = d.used
    BY <1>1, <1>3, Grown
  <2>2. s.num.used + b \div MP_DIGIT_BIT + 1 <= s.num.alloc
    BY <2>1
  <2>3. Delivers(Moved(s.num, b), E, {IntVal(s.num) * 2 ^ b}, F)
    <3>. HIDE DEF F
    <3>. QED
      BY <2>1, <2>2, MovedDelivers
  <2>. QED
    BY <2>1, <2>3
<1>. HIDE DEF R, V, F, size
<1>4. AfterGrow(R, d, size, E, V, F)
  BY <1>2, <1>3 DEF AfterGrow, Delivers
<1>5. Delivers(R, E, V, F)
  BY <1>1, <1>4, GrowDelivers
<1>. QED
  BY <1>5 DEF R, V, F

(* The first of two steps is mp_copy.                                      *)
LEMMA CopiedFirst ==
  ASSUME NEW a \in MpInts, Proper(a), NEW c \in MpInts, Proper(c), NEW same \in BOOLEAN,
         same => a = c, NEW E \in BOOLEAN, E => NoExcess(c)
  PROVE  /\ \A r \in Copy(a, c, same) : r.code # "OKAY" =>
              /\ r.num \in MpInts /\ Proper(r.num) /\ (E => NoExcess(r.num))
              /\ r.code \in Codes /\ r.rem \in Digits /\ IntVal(r.num) = IntVal(c)
         /\ \A r \in Copy(a, c, same) : r.code = "OKAY" =>
              /\ r.num \in MpInts /\ Proper(r.num) /\ (E => NoExcess(r.num))
              /\ IntVal(r.num) = IntVal(a)
<1>1. Delivers(Copy(a, c, same), E, {IntVal(a)}, {IntVal(c)})
  BY CopyDelivers
<1>. QED
  BY <1>1 DEF Delivers

LEMMA RefusedDelivers ==
  ASSUME NEW c \in MpInts, Proper(c), NEW E \in BOOLEAN, E => NoExcess(c), NEW V, NEW F,
         IntVal(c) \in F, NEW code \in Codes, code # "OKAY"
  PROVE  Delivers({Outcome(code, c, 0)}, E, V, F)
<1>1. 0 \in Digits
  BY RadixFacts DEF Digits
<1>. QED
  BY <1>1 DEF Delivers, Outcome

LEMMA Mul2DDelivers ==
  ASSUME NEW a \in MpInts, Proper(a), NEW b \in Int, NEW c \in MpInts, Proper(c),
         NEW same \in BOOLEAN, same => a = c, NEW E \in BOOLEAN, E => NoExcess(c)
  PROVE  Delivers(Mul2D(a, b, c, same), E, {IntVal(a) * 2 ^ b}, {IntVal(c), IntVal(a)})
<1>. DEFINE R == Mul2D(a, b, c, same)
            V == {IntVal(a) * 2 ^ b}
            F == {IntVal(c), IntVal(a)}
<1>1. CASE b < 0
  <2>1. R = {Outcome("VAL", c, 0)} /\ IntVal(c) \in F
    BY <1>1 DEF Mul2D
  <2>. HIDE DEF R, V, F
  <2>2. Delivers(R, E, V, F)
    BY <2>1, RefusedDelivers DEF Codes
  <2>. QED
    BY <2>2 DEF R, V, F
<1>2. CASE b >= 0
  <2>1. \A r \in R :
          \/ r \in Copy(a, c, same) /\ r.code # "OKAY"
          \/ \E s \in Copy(a, c, same) : s.code = "OKAY" /\ r \in Raised(s.num, b)
    BY <1>2 DEF Mul2D, Then
  <2>2. ASSUME NEW s \in Copy(a, c, same), s.code = "OKAY" PROVE Delivers(Raised(s.num, b), E, V, F)
    <3>1. s.num \in MpInts /\ Proper(s.num) /\ (E => NoExcess(s.num)) /\ IntVal(s.num) = IntVal(a)
      BY <2>2, CopiedFirst
    <3>2. Delivers(Raised(s.num, b), E, {IntVal(s.num) * 2 ^ b}, {IntVal(s.num)})
      BY <1>2, <3>1, RaisedDelivers
    <3>. QED
      BY <3>1, <3>2 DEF Delivers
  <2>3. ASSUME NEW r \in Copy(a, c, same), r.code # "OKAY" PROVE Delivers({r}, E, V, F)
    BY <2>3, CopiedFirst DEF Delivers
  <2>. HIDE DEF R, V, F
  <2>4. Delivers(R, E, V, F)
    BY <2>1, <2>2, <2>3 DEF Delivers
  <2>. QED
    BY <2>4 DEF R, V, F
<1>. QED
  BY <1>1, <1>2

LEMMA SignedZero == \A s : Signed(s, 0) = 0
<1>1. \A x \in Int : x <= 0 /\ x >= 0 => - x = x
  OBVIOUS
<1>2. \A s, x : x \in Int /\ x <= 0 /\ x >= 0 => Signed(s, x) = x
  BY <1>1 DEF Signed
<1>. QED
  BY <1>2

LEMMA BitsDownHolds ==
  ASSUME NEW d \in MpInts, Proper(d), NEW b \in Nat, NEW E \in BOOLEAN, E => NoExcess(d)
  PROVE  Holds(BitsDown(d, b), E, Sgn(IntVal(d)) * (Abs(IntVal(d)) \div 2 ^ b))
<1>. DEFINE q == b \div MP_DIGIT_BIT
            m == b % MP_DIGIT_BIT
            s == RShd(d, q)
<1>1. /\ q \in Nat /\ m \in 0 .. MP_DIGIT_BIT /\ 2 ^ b = Pow[q] * 2 ^ m /\ 2 ^ b \in Nat /\ 2 ^ b > 0
      /\ Pow[q] \in Nat /\ Pow[q] > 0 /\ 2 ^ m \in Nat /\ 2 ^ m > 0 /\ Mag(d) \in Nat
  BY BitCount, PowFacts, RadixBits, IntFacts
<1>2. BitsDown(d, b) = mp_clamp(IF m # 0 THEN ShiftBitsDown(s, m) ELSE s)
  BY DEF BitsDown
<1>. HIDE DEF q, m
<1>3. /\ s \in MpInts /\ Proper(s) /\ (E => NoExcess(s))
      /\ Mag(s) = Mag(d) \div Pow[q] /\ (Mag(d) >= Pow[q] => s.sign = d.sign)
  BY <1>1, RShdHolds DEF Holds
<1>. HIDE DEF s
<1>4. Holds(BitsDown(d, b), E, Signed(s.sign, Mag(s) \div 2 ^ m))
  <2>1. CASE m # 0
    BY <1>1, <1>2, <1>3, <2>1, ShiftBitsDownHolds
  <2>2. CASE m = 0
    <3>1. Mag(s) \div 2 ^ m = Mag(s)
      BY <1>3, <2>2, IntFacts, TwoTo
    <3>2. Holds(mp_clamp(s), E, IntVal(s))
      BY <1>3, ClampedHolds
    <3>. QED
      BY <1>2, <1>3, <2>2, <3>1, <3>2, IntFacts
  <2>. QED
    BY <2>1, <2>2
<1>5. Mag(s) \div 2 ^ m = Mag(d) \div 2 ^ b
  BY <1>1, <1>3, DivTwice
<1>6. Signed(s.sign, Mag(d) \div 2 ^ b) = Signed(d.sign, Mag(d) \div 2 ^ b)
  <2>1. CASE Mag(d) >= Pow[q]
    BY <1>3, <2>1
  <2>2. CASE Mag(d) < Pow[q]
    <3>1. Mag(s) = 0
      <4>. DEFINE P == Pow[q]
                  x == Mag(d)
      <4>1. P \in Nat /\ P > 0 /\ x \in Nat /\ x < P /\ Mag(s) = x \div P
        BY <1>1, <1>3, <2>2
      <4>. HIDE DEF P, x
      <4>2. x \div P \in Nat /\ (x < P * 1 => x \div P < 1) /\ P * 1 = P
        BY <4>1, Quotient
      <4>. QED
        BY <4>1, <4>2
    <3>2. 0 \div 2 ^ m = 0
      BY <1>1
    <3>. QED
      BY <1>5, <3>1, <3>2, SignedZero
  <2>. QED
    BY <1>1, <2>1, <2>2
<1>7. Mag(d) \div 2 ^ b \in Nat
  BY <1>1, Quotient
<1>. QED
  BY <1>4, <1>5, <1>6, <1>7, SignFacts

LEMMA Div2DDelivers ==
  ASSUME NEW a \in MpInts, Proper(a), NEW b \in Int, NEW c \in MpInts, Proper(c),
         NEW same \in BOOLEAN, same => a = c, NEW E \in BOOLEAN, E => NoExcess(c)
  PROVE  Delivers(Div2D(a, b, c, same), E, {Sgn(IntVal(a)) * (Abs(IntVal(a)) \div 2 ^ b)},
                  {IntVal(c)})
<1>. DEFINE R == Div2D(a, b, c, same)
            V == {Sgn(IntVal(a)) * (Abs(IntVal(a)) \div 2 ^ b)}
            F == {IntVal(c)}
<1>1. CASE b < 0
  <2>1. R = {Outcome("VAL", c, 0)} /\ IntVal(c) \in F
    BY <1>1 DEF Div2D
  <2>. HIDE DEF R, V, F
  <2>2. Delivers(R, E, V, F)
    BY <2>1, RefusedDelivers DEF Codes
  <2>. QED
    BY <2>2 DEF R, V, F
<1>2. CASE b >= 0
  <2>1. \A r \in R :
          \/ r \in Copy(a, c, same) /\ r.code # "OKAY"
          \/ \E s \in Copy(a, c, same) : s.code = "OKAY" /\ r = Okay(BitsDown(s.num, b))
    BY <1>2 DEF Div2D, Then
  <2>2. ASSUME NEW s \in Copy(a, c, same), s.code = "OKAY"
        PROVE  Delivers({Okay(BitsDown(s.num, b))}, E, V, F)
    <3>1. s.num \in MpInts /\ Proper(s.num) /\ (E => NoExcess(s.num)) /\ IntVal(s.num) = IntVal(a)
      BY <2>2, CopiedFirst
    <3>2. Holds(BitsDown(s.num, b), E, Sgn(IntVal(s.num)) * (Abs(IntVal(s.num)) \div 2 ^ b))
      BY <1>2, <3>1, BitsDownHolds
    <3>. QED
      BY <3>1, <3>2, OkayDelivers
  <2>3. ASSUME NEW r \in Copy(a, c, same), r.code # "OKAY" PROVE Delivers({r}, E, V, F)
    BY <2>3, CopiedFirst DEF Delivers
  <2>. HIDE DEF R, V, F
  <2>4. Delivers(R, E, V, F)
    BY <2>1, <2>2, <2>3 DEF Delivers
  <2>. QED
    BY <2>4 DEF R, V, F
<1>. QED
  BY <1>1, <1>2

(* The lowest n digits of a number are its remainder by Pow[n].            *)
LEMMA ValMod ==
  ASSUME NEW d \in Vectors, NEW n \in Nat, NEW u \in Counts, n <= u
  PROVE  /\ Val(d)[u] \div Pow[n] \in Nat
         /\ Val(d)[u] = Pow[n] * (Val(d)[u] \div Pow[n]) + Val(d)[n]
<1>. DEFINE m == u - n
            f == [i \in Places |-> IF i < m THEN d[n + i] ELSE 0]
<1>1. u \in Nat /\ m \in Nat /\ n + m = u /\ u <= MP_MAX_DIGIT_COUNT
  BY PlaceFacts
<1>2. f \in Vectors
  <2>1. ASSUME NEW i \in Places, i < m PROVE d[n + i] \in Digits
    <3>1. n + i \in Places
      BY <1>1, <2>1, RadixFacts DEF Places
    <3>. QED
      BY <3>1 DEF Vectors
  <2>2. 0 \in Digits
    BY RadixFacts DEF Digits
  <2>. QED
    BY <2>1, <2>2 DEF Vectors
<1>3. From(d, f, n, m)
  <2>. SUFFICES ASSUME NEW i \in 0 .. m - 1 PROVE d[n + i] = f[i]
    BY DEF From
  <2>1. i \in Places /\ i < m
    BY <1>1, RadixFacts DEF Places
  <2>. QED
    BY <2>1
<1>. HIDE DEF f, m
<1>4. Val(d)[u] \div Pow[n] = Val(f)[m] /\ Val(d)[u] % Pow[n] = Val(d)[n]
  <2>1. n + m \in Counts
    BY <1>1
  <2>2. Val(d)[n + m] \div Pow[n] = Val(f)[m] /\ Val(d)[n + m] % Pow[n] = Val(d)[n]
    BY <1>1, <1>2, <1>3, <2>1, ValSplit
  <2>. QED
    BY <1>1, <2>2
<1>5. Val(d)[u] \in Nat /\ Pow[n] \in Nat /\ Pow[n] > 0
  BY <1>1, ValBounds, PowFacts
<1>. QED
  BY <1>4, <1>5, Quotient

Reduces(P, T, Q, y, v, x) ==
  (((T * Q) * P) * y + (v + x * P)) % (P * T) = v + (x % T) * P

LEMMA LowBits ==
  ASSUME NEW P \in Nat, P > 0, NEW T \in Nat, T > 0, NEW Q \in Nat, NEW y \in Nat,
         NEW v \in 0 .. P - 1, NEW x \in Nat
  PROVE  Reduces(P, T, Q, y, v, x)
<1>. DEFINE h == x \div T
            l == x % T
            D == P * T
            s == v + l * P
<1>1. h \in Nat /\ l \in 0 .. T - 1 /\ x = T * h + l /\ l \in Nat
  BY Quotient
<1>. HIDE DEF h, l
<1>2. D \in Nat /\ D > 0 /\ v \in Nat
  OBVIOUS
<1>3. s \in 0 .. D - 1
  <2>1. l <= T - 1 /\ T - 1 \in Nat /\ (T - 1) * P = D - P
    BY <1>1
  <2>. DEFINE z == l * P
  <2>2. z <= D - P
    BY <1>1, <2>1, MonotoneProduct
  <2>3. z \in Nat
    BY <1>1
  <2>. HIDE DEF z, D
  <2>4. v + z \in 0 .. D - 1
    BY <1>2, <2>2, <2>3
  <2>. QED
    BY <2>4 DEF z
<1>4. ((T * Q) * P) * y + (v + x * P) = D * (Q * y + h) + s
  <2>1. ((T * Q) * P) * y = D * (Q * y) /\ x * P = D * h + l * P
    BY <1>1
  <2>2. D * (Q * y + h) = D * (Q * y) + D * h
    BY <1>1
  <2>. DEFINE e == D * (Q * y)
              f == D * h
              z == l * P
  <2>3. e \in Nat /\ f \in Nat /\ z \in Nat
    BY <1>1
  <2>4. ((T * Q) * P) * y = e /\ x * P = f + z /\ D * (Q * y + h) = e + f /\ s = v + z
    BY <2>1, <2>2
  <2>. HIDE DEF e, f, z, D, s
  <2>5. e + (v + (f + z)) = (e + f) + (v + z)
    BY <1>2, <2>3
  <2>. QED
    BY <2>4, <2>5
<1>. DEFINE k == Q * y + h
<1>5. k \in Int
  BY <1>1
<1>. HIDE DEF D, s, k
<1>6. (D * k + s) % D = s
  BY <1>2, <1>3, <1>5, DivisionUnique
<1>. QED
  BY <1>4, <1>6 DEF D, s, k, l, Reduces

(* What is copied has as many digits as what it is a copy of.              *)
LEMMA CopyUsed ==
  ASSUME NEW a \in MpInts, Proper(a), NEW c \in MpInts, Proper(c), NEW same \in BOOLEAN,
         same => a = c, NEW r \in Copy(a, c, same), r.code = "OKAY"
  PROVE  r.num.used = a.used
<1>1. a.used \in Counts /\ a.used \in Nat
  BY IntFacts
<1>2. CASE same
  <2>1. Copy(a, c, same) = {Okay(c)}
    BY <1>2 DEF Copy
  <2>2. r = Okay(c)
    BY <2>1
  <2>. QED
    BY <1>2, <2>2 DEF Okay, Outcome
<1>3. CASE ~ same
  <2>1. PICK s \in Grow(c, a.used) : s.code = "OKAY" /\ r = Okay(Copied(a, s.num))
    BY <1>3 DEF Copy, Then
  <2>2. s.num \in MpInts
    BY <1>1, <2>1, Growing
  <2>3. Copied(a, s.num).used = a.used
    BY <2>2 DEF Copied, Finished, MpInts
  <2>. QED
    BY <2>1, <2>3 DEF Okay, Outcome
<1>. QED
  BY <1>2, <1>3

(* What mp_mod_2d leaves of the digits: q of them, and m bits of the next. *)
Low(e, d, q, m, u) ==
  /\ e \in Vectors
  /\ \A i \in Places : i < q => e[i] = d[i]
  /\ e[q] = d[q] % 2 ^ m
  /\ \A i \in Places : q + 1 <= i /\ i < u => e[i] = 0

LEMMA LowVal ==
  ASSUME NEW d \in Vectors, NEW e, NEW q \in Places, NEW m \in 0 .. MP_DIGIT_BIT,
         NEW u \in Counts, q + 1 <= u, Low(e, d, q, m, u)
  PROVE  Val(e)[u] = Val(d)[u] % (Pow[q] * 2 ^ m)
<1>. DEFINE P == Pow[q]
            T == 2 ^ m
            Q == 2 ^ (MP_DIGIT_BIT - m)
            y == Val(d)[u] \div Pow[q + 1]
            v == Val(d)[q]
            x == d[q]
<1>1. q \in Nat /\ q \in Counts /\ q + 1 \in Counts /\ q + 1 \in Nat /\ u \in Nat
  BY PlaceFacts
<1>2. P \in Nat /\ P > 0 /\ T \in Nat /\ T > 0 /\ Q \in Nat /\ Radix = T * Q
  BY <1>1, PowFacts, RadixBits
<1>3. y \in Nat /\ Val(d)[u] = Pow[q + 1] * y + Val(d)[q + 1]
  BY <1>1, ValMod
<1>4. v \in 0 .. P - 1 /\ x \in Nat
  <2>1. v \in Nat /\ v < P
    BY <1>1, ValBounds
  <2>. QED
    BY <1>2, <2>1, DigitFacts
<1>5. Val(d)[q + 1] = v + x * P
  BY ValRecursion
<1>6. Pow[q + 1] = (T * Q) * P
  BY <1>1, <1>2, PowFacts
<1>7. e[q] = x % T
  BY DEF Low
<1>8. Val(e)[u] = v + (x % T) * P
  <2>1. Val(e)[u] = Val(e)[q + 1]
    BY <1>1, ValZeros DEF Low
  <2>2. Val(e)[q + 1] = Val(e)[q] + e[q] * Pow[q]
    BY ValRecursion DEF Low
  <2>3. Val(e)[q] = Val(d)[q]
    BY <1>1, ValPrefix DEF Low
  <2>. QED
    BY <1>7, <2>1, <2>2, <2>3
<1>9. Val(d)[u] = ((T * Q) * P) * y + (v + x * P)
  BY <1>3, <1>5, <1>6
<1>. HIDE DEF P, T, Q, y, v, x
<1>10. Reduces(P, T, Q, y, v, x)
  BY <1>2, <1>3, <1>4, LowBits
<1>. QED
  BY <1>8, <1>9, <1>10 DEF P, T, Reduces

LEMMA BitsBelowHolds ==
  ASSUME NEW d \in MpInts, Proper(d), NEW b \in Nat, b < d.used * MP_DIGIT_BIT,
         NEW E \in BOOLEAN, E => NoExcess(d)
  PROVE  Holds(BitsBelow(d, b), E, Sgn(IntVal(d)) * (Abs(IntVal(d)) % 2 ^ b))
<1>. DEFINE q == b \div MP_DIGIT_BIT
            m == b % MP_DIGIT_BIT
            x == IF m = 0 THEN q ELSE q + 1
            n == d.used
            e == [ZeroDigs(d.digit, x, n - x) EXCEPT ![q] = @ % 2 ^ m]
            y == [d EXCEPT !.digit = e]
<1>1. /\ q \in Nat /\ m \in 0 .. MP_DIGIT_BIT /\ 2 ^ b = Pow[q] * 2 ^ m
      /\ 2 ^ m \in Nat /\ 2 ^ m > 0 /\ 2 ^ b \in Nat /\ 2 ^ b > 0
      /\ n \in Nat /\ n \in Counts /\ Mag(d) \in Nat /\ Mag(d) = Val(d.digit)[n]
      /\ d.digit \in Vectors /\ n <= d.alloc /\ d.sign \in Signs /\ n <= MP_MAX_DIGIT_COUNT
  <2>1. n <= MP_MAX_DIGIT_COUNT
    BY IntFacts, PlaceFacts
  <2>. QED
    BY <2>1, BitCount, RadixBits, IntFacts DEF Proper
<1>2. q < n
  <2>1. MP_DIGIT_BIT \in Nat /\ MP_DIGIT_BIT > 0
    BY RadixBits
  <2>2. n * MP_DIGIT_BIT = MP_DIGIT_BIT * n
    BY <1>1, <2>1
  <2>. HIDE DEF n
  <2>3. b < MP_DIGIT_BIT * n
    BY <2>2 DEF n
  <2>. QED
    BY <1>1, <2>1, <2>3, Quotient
<1>3. q \in Places /\ q + 1 <= n /\ n > 0 /\ q \in Counts
  BY <1>1, <1>2, RadixFacts DEF Places, Counts
<1>4. m = 0 => 2 ^ m = 1
  BY TwoTo
<1>5. BitsBelow(d, b) = mp_clamp(y)
  BY DEF BitsBelow
<1>. HIDE DEF q, m
<1>6. x \in Nat /\ q <= x /\ x <= q + 1 /\ (m = 0 => x = q) /\ (m # 0 => x = q + 1)
  BY <1>1
<1>. HIDE DEF x, n
<1>. DEFINE z == ZeroDigs(d.digit, x, n - x)
<1>7. z \in [Places -> Digits] /\ \A i \in Places : z[i] = IF x <= i /\ i < n THEN 0 ELSE d.digit[i]
  <2>1. \A i \in Places : i < x + (n - x) <=> i < n
    BY <1>1, <1>6, PlaceFacts
  <2>2. \A i \in Places : d.digit[i] \in Digits
    BY <1>1 DEF Vectors
  <2>3. 0 \in Digits
    BY RadixFacts DEF Digits
  <2>. QED
    BY <2>1, <2>2, <2>3 DEF ZeroDigs
<1>8. z[q] % 2 ^ m = d.digit[q] % 2 ^ m
  <2>1. CASE m = 0
    <3>1. d.digit[q] \in Nat /\ z[q] \in Nat
      BY <1>1, <1>3, <1>7, DigitFacts DEF Digits
    <3>. HIDE DEF z
    <3>. QED
      BY <1>4, <2>1, <3>1
  <2>2. CASE m # 0
    <3>1. ~ (x <= q)
      BY <1>1, <1>6, <2>2
    <3>2. z[q] = d.digit[q]
      BY <1>3, <1>7, <3>1
    <3>. QED
      BY <3>2
  <2>. QED
    BY <2>1, <2>2
<1>9. d.digit[q] % 2 ^ m \in Digits
  <2>1. d.digit[q] \in Nat /\ d.digit[q] < Radix
    BY <1>1, <1>3, DigitFacts
  <2>. DEFINE h == d.digit[q]
              T == 2 ^ m
  <2>2. h \in Nat /\ h < Radix /\ T \in Nat /\ T > 0
    BY <1>1, <2>1
  <2>. HIDE DEF h, T
  <2>3. h % T \in 0 .. T - 1 /\ h \div T \in Nat /\ h = T * (h \div T) + (h % T)
    BY <2>2, Quotient
  <2>4. T * (h \div T) \in Nat
    BY <2>2, <2>3
  <2>. DEFINE u == T * (h \div T)
              w == h % T
  <2>5. u \in Nat /\ w \in Nat /\ h = u + w
    BY <2>2, <2>3, <2>4
  <2>. HIDE DEF u, w
  <2>6. w \in 0 .. Radix - 1
    BY <2>2, <2>5, RadixFacts
  <2>. QED
    BY <2>6 DEF w, h, T, Digits
<1>. HIDE DEF z
<1>10. e = [z EXCEPT ![q] = d.digit[q] % 2 ^ m]
  BY <1>8 DEF z
<1>11. Low(e, d.digit, q, m, n) /\ \A i \in Places : i >= n => e[i] = d.digit[i]
  <2>1. e \in Vectors
    BY <1>3, <1>7, <1>9, <1>10 DEF Vectors
  <2>2. e[q] = d.digit[q] % 2 ^ m
    BY <1>3, <1>7, <1>10
  <2>3. \A i \in Places : i # q => e[i] = z[i]
    BY <1>7, <1>10
  <2>4. \A i \in Places : i < q => i # q /\ ~ (x <= i)
    BY <1>3, <1>6, PlaceFacts
  <2>5. \A i \in Places : q + 1 <= i /\ i < n => i # q /\ x <= i
    BY <1>3, <1>6, PlaceFacts
  <2>6. \A i \in Places : i >= n => i # q /\ ~ (i < n)
    BY <1>1, <1>3, PlaceFacts
  <2>. HIDE DEF e
  <2>. QED
    BY <1>7, <2>1, <2>2, <2>3, <2>4, <2>5, <2>6 DEF Low
<1>. HIDE DEF e
<1>12. e \in Vectors /\ Val(e)[n] = Mag(d) % 2 ^ b
  <2>. DEFINE f == d.digit
  <2>1. f \in Vectors /\ Low(e, f, q, m, n)
    BY <1>1, <1>11
  <2>. HIDE DEF f
  <2>2. Val(e)[n] = Val(f)[n] % (Pow[q] * 2 ^ m)
    BY <1>1, <1>3, <2>1, LowVal
  <2>. QED
    BY <1>1, <1>11, <2>2 DEF f, Low
<1>13. /\ y \in MpInts /\ y.used = n /\ y.alloc = d.alloc /\ y.sign = d.sign /\ y.digit = e
       /\ Mag(y) = Val(e)[n]
  BY <1>1, <1>12 DEF MpInts, n, Mag
<1>14. E => NoExcess(y)
  BY <1>11, <1>13 DEF NoExcess, n
<1>. HIDE DEF y
<1>15. Holds(mp_clamp(y), E, Signed(d.sign, Mag(d) % 2 ^ b))
  <2>1. y.used <= y.alloc /\ (y.used = 0 => y.digit[0] = 0)
    BY <1>1, <1>3, <1>13
  <2>2. Holds(mp_clamp(y), E, Signed(y.sign, Mag(y)))
    BY <1>13, <1>14, <2>1, ClampHolds
  <2>. QED
    BY <1>12, <1>13, <2>2
<1>16. Mag(d) % 2 ^ b \in Nat
  <2>1. Mag(d) % 2 ^ b \in 0 .. 2 ^ b - 1
    BY <1>1, Quotient
  <2>. QED
    BY <2>1
<1>. QED
  BY <1>5, <1>15, <1>16, SignFacts

LEMMA ManyBits ==
  ASSUME NEW a \in MpInts, Proper(a), NEW b \in Nat, b >= a.used * MP_DIGIT_BIT
  PROVE  Sgn(IntVal(a)) * (Abs(IntVal(a)) % 2 ^ b) = IntVal(a)
<1>. DEFINE n == a.used
            k == MP_DIGIT_BIT * n
            M == Mag(a)
            B == 2 ^ b
<1>1. n \in Nat /\ M \in Nat /\ M < Pow[n] /\ IntVal(a) = Signed(a.sign, M)
  BY IntFacts
<1>2. k \in Nat /\ Pow[n] = 2 ^ k
  BY <1>1, PowBits
<1>3. n * MP_DIGIT_BIT = k
  BY <1>1, RadixBits
<1>4. k <= b
  BY <1>3
<1>. HIDE DEF k, n
<1>5. B \in Nat /\ B > 0 /\ 2 ^ k <= B
  BY <1>2, <1>4, TwoTo, TwoToMonotone
<1>. HIDE DEF M, B
<1>6. M \in 0 .. B - 1 /\ 0 \in Int
  BY <1>1, <1>2, <1>5, TwoTo
<1>7. (B * 0 + M) % B = M
  BY <1>5, <1>6, DivisionUnique
<1>8. B * 0 + M = M
  BY <1>1, <1>5
<1>9. M % B = M
  BY <1>7, <1>8
<1>. QED
  BY <1>1, <1>9, SignFacts DEF M, B

LEMMA Mod2DDelivers ==
  ASSUME NEW a \in MpInts, Proper(a), NEW b \in Int, NEW c \in MpInts, Proper(c),
         NEW same \in BOOLEAN, same => a = c, NEW E \in BOOLEAN, E => NoExcess(c)
  PROVE  Delivers(Mod2D(a, b, c, same), E, {Sgn(IntVal(a)) * (Abs(IntVal(a)) % 2 ^ b)},
                  {IntVal(c)})
<1>. DEFINE R == Mod2D(a, b, c, same)
            v == Sgn(IntVal(a)) * (Abs(IntVal(a)) % 2 ^ b)
            V == {v}
            F == {IntVal(c)}
<1>0. a.used \in Nat /\ Mag(a) \in Nat
  BY IntFacts
<1>1. CASE b < 0
  <2>1. R = {Outcome("VAL", c, 0)} /\ IntVal(c) \in F
    BY <1>1 DEF Mod2D
  <2>. HIDE DEF R, V, F
  <2>2. Delivers(R, E, V, F)
    BY <2>1, RefusedDelivers DEF Codes
  <2>. QED
    BY <2>2 DEF R, V, F
<1>2. CASE b = 0
  <2>0. ~ (b < 0)
    BY <1>2
  <2>1. R = {Okay(MpZero(c))}
    BY <1>2, <2>0 DEF Mod2D
  <2>2. Holds(MpZero(c), E, 0)
    BY ZeroHolds
  <2>3. v = 0
    <3>1. 2 ^ b = 1
      BY <1>2, TwoTo
    <3>2. Mag(a) % 1 = 0
      BY <1>0
    <3>. QED
      BY <3>1, <3>2, SignFacts, SignedZero
  <2>. QED
    BY <2>1, <2>2, <2>3, OkayDelivers
<1>3. CASE b > 0 /\ b >= a.used * MP_DIGIT_BIT
  <2>0. ~ (b < 0) /\ ~ (b = 0)
    BY <1>3
  <2>1. R = Copy(a, c, same)
    BY <1>3, <2>0 DEF Mod2D
  <2>2. v = IntVal(a)
    BY <1>3, ManyBits
  <2>. QED
    BY <2>1, <2>2, CopyDelivers
<1>4. CASE b > 0 /\ b < a.used * MP_DIGIT_BIT
  <2>0. b \in Nat /\ ~ (b >= a.used * MP_DIGIT_BIT)
    <3>1. a.used * MP_DIGIT_BIT \in Int
      BY <1>0, RadixBits
    <3>. QED
      BY <1>4, <3>1
  <2>1. \A r \in R :
          \/ r \in Copy(a, c, same) /\ r.code # "OKAY"
          \/ \E s \in Copy(a, c, same) : s.code = "OKAY" /\ r = Okay(BitsBelow(s.num, b))
    BY <1>4, <2>0 DEF Mod2D, Then
  <2>2. ASSUME NEW s \in Copy(a, c, same), s.code = "OKAY"
        PROVE  Delivers({Okay(BitsBelow(s.num, b))}, E, V, F)
    <3>1. s.num \in MpInts /\ Proper(s.num) /\ (E => NoExcess(s.num)) /\ IntVal(s.num) = IntVal(a)
      BY <2>2, CopiedFirst
    <3>2. s.num.used = a.used
      BY <2>2, CopyUsed
    <3>3. b < s.num.used * MP_DIGIT_BIT
      BY <1>4, <3>2
    <3>4. Holds(BitsBelow(s.num, b), E, Sgn(IntVal(s.num)) * (Abs(IntVal(s.num)) % 2 ^ b))
      BY <2>0, <3>1, <3>3, BitsBelowHolds
    <3>. QED
      BY <3>1, <3>4, OkayDelivers
  <2>3. ASSUME NEW r \in Copy(a, c, same), r.code # "OKAY" PROVE Delivers({r}, E, V, F)
    BY <2>3, CopiedFirst DEF Delivers
  <2>. HIDE DEF R, V, F
  <2>4. Delivers(R, E, V, F)
    BY <2>1, <2>2, <2>3 DEF Delivers
  <2>. QED
    BY <2>4 DEF R, V, F
<1>5. \/ b < 0
      \/ b = 0
      \/ b > 0 /\ b >= a.used * MP_DIGIT_BIT
      \/ b > 0 /\ b < a.used * MP_DIGIT_BIT
  <2>. DEFINE k == a.used * MP_DIGIT_BIT
  <2>1. k \in Int
    BY <1>0, RadixBits
  <2>. HIDE DEF k
  <2>2. b < 0 \/ b = 0 \/ (b > 0 /\ b >= k) \/ (b > 0 /\ b < k)
    BY <2>1
  <2>. QED
    BY <2>2 DEF k
<1>. QED
  BY <1>1, <1>2, <1>3, <1>4, <1>5
-----------------------------------------------------------------------------
(* mp_mul_d: a word holds a carry and the product of two digits.           *)
LEMMA WordFits ==
  ASSUME NEW x \in Nat, x < Radix * Radix
  PROVE  WrapWord(x) = x
<1>1. PICK k \in Nat : k > 0 /\ DigitMod = 2 * (k * Radix)
  BY RadixFacts
<1>. DEFINE K == k * Radix
            D == DigitMod
            S == D * D
            R == Radix
<1>2. R \in Nat /\ R > 1 /\ K \in Nat /\ D = 2 * K
  BY <1>1, RadixFacts
<1>3. R <= K
  <2>1. \A m, n \in Nat : n > 0 => m <= n * m
    OBVIOUS
  <2>. QED
    BY <1>1, <1>2, <2>1
<1>. HIDE DEF K, D, R
<1>4. D \in Nat /\ R <= D
  BY <1>2, <1>3
<1>5. R * R <= R * D /\ R * D <= D * D /\ D * D \in Nat /\ R * R \in Nat /\ R * D \in Nat
  <2>1. \A u, v, w \in Nat : u <= v => w * u <= w * v
    BY Products, MonotoneProduct
  <2>2. R * R <= R * D
    BY <1>2, <1>4, <2>1
  <2>3. R * D <= D * D
    BY <1>2, <1>4, MonotoneProduct
  <2>. QED
    BY <1>2, <1>4, <2>2, <2>3
<1>6. x < R * R
  BY DEF R
<1>. DEFINE X == R * R
            Y == R * D
<1>7. x < S /\ S \in Nat
  <2>1. X \in Nat /\ Y \in Nat /\ S \in Nat /\ x < X /\ X <= Y /\ Y <= S
    BY <1>5, <1>6
  <2>. HIDE DEF X, Y, S
  <2>. QED
    BY <2>1
<1>8. WrapWord(x) = x % S
  BY DEF WrapWord, S, D
<1>. HIDE DEF S
<1>9. x \in 0 .. S - 1 /\ S > 0 /\ S * 0 + x = x
  BY <1>7
<1>10. (S * 0 + x) % S = x
  BY <1>7, <1>9, DivisionUnique
<1>. QED
  BY <1>8, <1>9, <1>10

LEMMA ProductWord ==
  ASSUME NEW d \in Digits, NEW b \in Digits, NEW u \in Digits
  PROVE  LET x == WrapWord(u + d * b)
         IN  /\ x \div Radix \in Digits /\ x % Radix \in Digits
             /\ (x % Radix) + (x \div Radix) * Radix = b * d + u
<1>. DEFINE p == d * b
            R == Radix
            x == u + p
<1>1. R \in Nat /\ R > 1 /\ d \in Nat /\ b \in Nat /\ u \in Nat /\ u < R /\ d <= R - 1 /\ b <= R - 1
      /\ R - 1 \in Nat
  BY RadixFacts DEF Digits
<1>2. p \in Nat /\ p = b * d
  BY <1>1
<1>3. p <= R * R - R
  <2>1. d * b <= (R - 1) * b /\ b * (R - 1) <= (R - 1) * (R - 1)
    <3>. HIDE DEF R
    <3>. QED
      BY <1>1, MonotoneProduct
  <2>2. (R - 1) * b = R * b - b /\ b * R <= (R - 1) * R
    <3>. HIDE DEF R
    <3>. QED
      BY <1>1, MonotoneProduct
  <2>3. (R - 1) * R = R * R - R /\ b * R = R * b /\ R * b \in Nat /\ R * R \in Nat
    BY <1>1
  <2>. DEFINE y == R * b
              z == R * R
              h == (R - 1) * b
  <2>4. y \in Nat /\ z \in Nat /\ h = y - b /\ p <= h /\ y <= z - R
    BY <2>1, <2>2, <2>3
  <2>. HIDE DEF y, z, p, h
  <2>5. p <= z - R
    BY <1>1, <1>2, <2>4
  <2>. QED
    BY <2>5 DEF z
<1>. HIDE DEF p
<1>4. x \in Nat /\ x < R * R
  <2>. DEFINE z == R * R
  <2>1. z \in Nat /\ p <= z - R
    BY <1>1, <1>3
  <2>. HIDE DEF z
  <2>2. x \in Nat /\ x < z
    BY <1>1, <1>2, <2>1
  <2>. QED
    BY <2>2 DEF z
<1>5. WrapWord(u + d * b) = x
  BY <1>4, WordFits DEF p
<1>. HIDE DEF x
<1>6. x \div Radix \in Digits /\ x % Radix \in Digits /\ (x % Radix) + (x \div Radix) * Radix = x
  <2>1. x \div Radix \in Nat /\ x \div Radix < Radix
    BY <1>1, <1>4, SplitWord, WordBound
  <2>2. x \div Radix \in Digits
    <3>. DEFINE h == x \div Radix
    <3>. HIDE DEF h
    <3>1. h \in Nat /\ h < Radix
      BY <2>1 DEF h
    <3>2. h \in Digits
      BY <1>1, <3>1 DEF Digits
    <3>. QED
      BY <3>2 DEF h
  <2>. QED
    BY <1>4, <2>2, SplitWord
<1>7. x = b * d + u
  BY <1>1, <1>2 DEF x
<1>. QED
  BY <1>5, <1>6, <1>7

LEMMA TimesHolds ==
  ASSUME NEW a \in MpInts, Proper(a), NEW b \in Digits, NEW g \in MpInts, Proper(g),
         a.used + 1 <= g.alloc, NEW E \in BOOLEAN, E => NoExcess(g)
  PROVE  Holds(Times(a, b, g), E, b * IntVal(a))
<1>. DEFINE n == a.used
            W(i, m) == WrapWord(m + a.digit[i] * b)
            C == [i \in Places |-> [m \in Nat |-> W(i, m) \div Radix]]
            u == CarryUp(n, 0, C)
            v == [i \in 0 .. n - 1 |-> W(i, u[i]) % Radix]
            low == [i \in Places |-> IF i < n THEN v[i] ELSE g.digit[i]]
            d == [low EXCEPT ![n] = u[n]]
<1>1. /\ n \in Counts /\ n \in Nat /\ n + 1 \in Counts /\ n \in Places /\ a.digit \in Vectors
      /\ Radix \in Nat /\ Radix > 1 /\ g.digit \in Vectors /\ n + 1 <= g.alloc /\ b \in Nat
      /\ a.sign \in Signs /\ Mag(a) \in Nat /\ Mag(a) = Val(a.digit)[n]
  BY IntFacts, RadixFacts, PlaceFacts DEF Places, Digits
<1>2. ASSUME NEW i \in 0 .. n - 1, NEW m \in Digits
      PROVE  /\ i \in Places /\ C[i][m] = W(i, m) \div Radix /\ C[i][m] \in Digits
             /\ W(i, m) % Radix \in Digits
             /\ (W(i, m) % Radix) + C[i][m] * Radix = b * a.digit[i] + m
  <2>1. i \in Places /\ m \in Nat
    BY <1>1, RadixFacts DEF Places, Digits
  <2>2. a.digit[i] \in Digits
    BY <1>1, <2>1 DEF Vectors
  <2>3. C[i][m] = W(i, m) \div Radix
    BY <2>1
  <2>. DEFINE x == a.digit[i]
              w == W(i, m)
  <2>. HIDE DEF x, C
  <2>4. x \in Digits /\ w = WrapWord(m + x * b)
    BY <2>2 DEF x
  <2>. HIDE DEF w
  <2>5. w \div Radix \in Digits /\ w % Radix \in Digits /\ (w % Radix) + (w \div Radix) * Radix = b * x + m
    BY <2>4, ProductWord
  <2>. QED
    BY <2>1, <2>3, <2>5 DEF x, w
<1>3. Times(a, b, g) = mp_clamp(Finished(g, d, n + 1, a.sign))
  <2>1. \A i \in Places : i < n => i \in 0 .. n - 1
    BY <1>1, PlaceFacts
  <2>2. low = [i \in Places |-> IF i < n THEN WrapWord(u[i] + a.digit[i] * b) % Radix ELSE g.digit[i]]
    BY <2>1
  <2>. QED
    BY <2>2 DEF Times, Written
<1>. HIDE DEF C
<1>4. u \in [0 .. n -> Digits] /\ u[0] = 0 /\ \A i \in 0 .. n - 1 : u[i + 1] = C[i][u[i]]
  <2>1. Digits \subseteq Int /\ 0 \in Digits
    BY <1>1 DEF Digits
  <2>2. Carries(n, Digits, C)
    BY <1>2 DEF Carries
  <2>3. Upwards(u, n, Digits, 0, C)
    BY <1>1, <2>1, <2>2, CarriesUp
  <2>. QED
    BY <2>3 DEF Upwards
<1>. HIDE DEF u, W
<1>5. u[n] \in Digits /\ \A i \in 0 .. n - 1 : i \in 0 .. n /\ u[i] \in Digits
  BY <1>1, <1>4
<1>6. v \in [0 .. n - 1 -> Digits] /\ \A i \in 0 .. n - 1 : v[i] = W(i, u[i]) % Radix
  BY <1>2, <1>5
<1>. HIDE DEF v
<1>7. low \in Vectors /\ Above(low, g, n) /\ (\A i \in 0 .. n - 1 : low[i] = v[i]) /\ d \in Vectors
  <2>1. Stored(low, g, n, v)
    BY <1>1, <1>6 DEF Stored
  <2>. HIDE DEF low, n
  <2>2. low \in Vectors /\ Above(low, g, n) /\ (\A i \in 0 .. n - 1 : low[i] = v[i])
    <3>. HIDE DEF d
    <3>. QED
      BY <2>1, StoredFacts
  <2>3. d \in Vectors
    BY <1>1, <1>5, <2>2 DEF Vectors
  <2>. QED
    BY <2>2, <2>3
<1>8. Loop(low, a.digit, b, u, n)
  <2>1. ASSUME NEW i \in 0 .. n - 1 PROVE Place(low, a.digit, b, u, i)
    <3>1. /\ u[i] \in Digits /\ low[i] = v[i] /\ v[i] = W(i, u[i]) % Radix /\ u[i + 1] = C[i][u[i]]
      BY <1>4, <1>5, <1>6, <1>7
    <3>2. (W(i, u[i]) % Radix) + C[i][u[i]] * Radix = b * a.digit[i] + u[i]
      BY <1>2, <3>1
    <3>3. low[i] + u[i + 1] * Radix = b * a.digit[i] + u[i]
      BY <3>1, <3>2, Zenon
    <3>. QED
      BY <3>3 DEF Place
  <2>2. u \in [0 .. n -> Int]
    BY <1>4 DEF Digits
  <2>. QED
    BY <2>1, <2>2 DEF Loop
<1>. HIDE DEF low
<1>9. Val(low)[n] + u[n] * Pow[n] = b * Mag(a)
  <2>1. Spelled(low, a.digit, b, u, n)
    <3>. DEFINE d0 == a.digit
    <3>1. Loop(low, d0, b, u, n) /\ d0 \in Vectors /\ b \in Int
      BY <1>1, <1>8
    <3>. HIDE DEF d0, n
    <3>2. Spelled(low, d0, b, u, n)
      BY <1>1, <1>7, <3>1, LoopSpells
    <3>. QED
      BY <3>2 DEF d0
  <2>2. b * Mag(a) \in Int
    BY <1>1
  <2>. DEFINE y == b * Mag(a)
  <2>3. y \in Int /\ b * Val(a.digit)[n] = y
    BY <1>1, <2>2
  <2>. HIDE DEF y
  <2>4. Val(low)[n] + u[n] * Pow[n] = y + u[0]
    BY <2>1, <2>3 DEF Spelled
  <2>5. Val(low)[n] + u[n] * Pow[n] = y
    BY <1>4, <2>3, <2>4
  <2>. QED
    BY <2>5 DEF y
<1>10. d[n] = u[n] /\ \A i \in Places : i # n => d[i] = low[i]
  BY <1>1, <1>7 DEF Vectors
<1>. HIDE DEF d
<1>11. Val(d)[n + 1] = b * Mag(a)
  <2>1. Val(d)[n] = Val(low)[n]
    <3>1. \A i \in Places : i < n => d[i] = low[i]
      BY <1>1, <1>10, PlaceFacts
    <3>. QED
      BY <1>1, <1>7, <3>1, ValPrefix
  <2>2. Val(d)[n + 1] = Val(d)[n] + d[n] * Pow[n]
    BY <1>1, <1>7, ValRecursion
  <2>3. Val(d)[n + 1] = Val(low)[n] + u[n] * Pow[n]
    BY <1>10, <2>1, <2>2, Zenon
  <2>. QED
    BY <1>9, <2>3, Zenon
<1>12. Above(d, g, n + 1)
  <2>1. \A i \in Places : i >= n + 1 => i # n /\ i >= n
    BY <1>1, PlaceFacts
  <2>. QED
    BY <1>7, <1>10, <2>1 DEF Above
<1>13. Holds(mp_clamp(Finished(g, d, n + 1, a.sign)), E, Signed(a.sign, Val(d)[n + 1]))
  <2>. HIDE DEF n
  <2>. QED
    BY <1>1, <1>7, <1>12, FinishedFacts
<1>14. Signed(a.sign, b * Mag(a)) = b * IntVal(a)
  BY <1>1, SignFacts
<1>. QED
  BY <1>3, <1>11, <1>13, <1>14, Zenon

(* The same numbers.                                                       *)
LEMMA DeliversSame ==
  ASSUME NEW R, NEW E \in BOOLEAN, NEW V, NEW W, NEW F, NEW G, Delivers(R, E, V, F),
         V \subseteq W, F \subseteq G
  PROVE  Delivers(R, E, W, G)
BY DEF Delivers

LEMMA Log2Facts ==
  ASSUME NEW b \in Powers2
  PROVE  Log2(b) \in 1 .. MP_DIGIT_BIT - 1 /\ Log2(b) \in Nat /\ b = 2 ^ Log2(b)
<1>1. \E k \in 1 .. MP_DIGIT_BIT - 1 : b = 2 ^ k
  BY DEF Powers2
<1>2. Log2(b) \in 1 .. MP_DIGIT_BIT - 1 /\ b = 2 ^ Log2(b)
  BY <1>1 DEF Log2
<1>. QED
  BY <1>2, RadixBits

LEMMA MulDDelivers ==
  ASSUME NEW a \in MpInts, Proper(a), NEW b \in Digits, NEW c \in MpInts, Proper(c),
         NEW same \in BOOLEAN, same => a = c, NEW E \in BOOLEAN, E => NoExcess(c)
  PROVE  Delivers(MulD(a, b, c, same), E, {IntVal(a) * b}, {IntVal(c), IntVal(a)})
<1>. DEFINE V == {IntVal(a) * b}
            F == {IntVal(c), IntVal(a)}
            R == MulD(a, b, c, same)
<1>0. IntVal(a) \in Int /\ IntVal(c) \in Int /\ b \in Int
  BY IntFacts DEF Digits
<1>1. CASE b = 1
  <2>1. R = Copy(a, c, same)
    BY <1>1 DEF MulD
  <2>2. IntVal(a) * b = IntVal(a)
    BY <1>0, <1>1
  <2>3. Delivers(R, E, {IntVal(a)}, {IntVal(c)})
    BY <2>1, CopyDelivers
  <2>. HIDE DEF R
  <2>. QED
    BY <2>2, <2>3, DeliversSame DEF R
<1>2. CASE b = 2
  <2>0. ~ (b = 1)
    BY <1>2
  <2>1. R = Mul2(a, c)
    BY <1>2, <2>0 DEF MulD
  <2>2. IntVal(a) * b = 2 * IntVal(a)
    BY <1>0, <1>2
  <2>3. Delivers(R, E, {2 * IntVal(a)}, {IntVal(c)})
    BY <2>1, Mul2Delivers
  <2>. HIDE DEF R
  <2>. QED
    BY <2>2, <2>3, DeliversSame DEF R
<1>3. CASE ~ (b = 1) /\ ~ (b = 2) /\ b \in Powers2
  <2>1. R = Mul2D(a, Log2(b), c, same)
    BY <1>3 DEF MulD
  <2>2. Log2(b) \in Int /\ b = 2 ^ Log2(b)
    BY <1>3, Log2Facts
  <2>. DEFINE k == Log2(b)
  <2>. HIDE DEF k
  <2>3. Delivers(Mul2D(a, k, c, same), E, {IntVal(a) * 2 ^ k}, F)
    BY <2>2, Mul2DDelivers DEF k
  <2>. QED
    BY <2>1, <2>2, <2>3 DEF k
<1>4. CASE ~ (b = 1) /\ ~ (b = 2) /\ ~ (b \in Powers2)
  <2>. DEFINE size == a.used + 1
  <2>1. size \in Nat /\ IntVal(c) \in F
    BY IntFacts
  <2>2. \A r \in R : \/ r \in Grow(c, size) /\ r.code # "OKAY"
                     \/ \E s \in Grow(c, size) : s.code = "OKAY" /\ r = Okay(Times(a, b, s.num))
    BY <1>4 DEF MulD, Then
  <2>3. ASSUME NEW s \in Grow(c, size), s.code = "OKAY"
        PROVE  Delivers({Okay(Times(a, b, s.num))}, E, V, F)
    <3>1. Holds(Times(a, b, s.num), E, b * IntVal(a))
      BY <2>1, <2>3, Grown, TimesHolds
    <3>2. b * IntVal(a) = IntVal(a) * b
      BY <1>0
    <3>. QED
      BY <3>1, <3>2, OkayDelivers
  <2>. HIDE DEF R, V, F, size
  <2>4. AfterGrow(R, c, size, E, V, F)
    BY <2>2, <2>3 DEF AfterGrow
  <2>5. Delivers(R, E, V, F)
    BY <2>1, <2>4, GrowDelivers
  <2>. QED
    BY <2>5 DEF R, V, F
<1>. QED
  BY <1>1, <1>2, <1>3, <1>4
-----------------------------------------------------------------------------
(* mp_div_d and s_mp_div_3, a digit of the quotient at a time.             *)
LEMMA ThirdOfWord ==
  ASSUME NEW w \in Nat, w < 3 * Radix
  PROVE  Third(w) \in Nat /\ 3 * Third(w) <= w
<1>. DEFINE R == Radix
            t == Radix \div 3
            p == w * t
            T == p \div Radix
            s == p % Radix
<1>1. R \in Nat /\ R > 1 /\ t \in Nat /\ 3 * t <= R
  BY RadixFacts
<1>. HIDE DEF t
<1>2. p \in Nat /\ 3 * p <= R * w
  <2>1. p = t * w /\ p \in Nat
    BY <1>1
  <2>2. (3 * t) * w <= R * w /\ 3 * t \in Nat
    BY <1>1, MonotoneProduct
  <2>3. (3 * t) * w = 3 * (t * w)
    BY <1>1
  <2>. QED
    BY <2>1, <2>2, <2>3
<1>3. p < R * R
  <2>1. 3 * (R * R) = (3 * R) * R /\ R * R \in Nat /\ R * w = w * R /\ R * w \in Nat
    BY <1>1
  <2>2. w * R < (3 * R) * R
    BY <1>1, MonotoneProduct
  <2>. DEFINE x == R * R
              y == R * w
  <2>3. x \in Nat /\ y \in Nat /\ y < 3 * x /\ 3 * p <= y
    BY <1>2, <2>1, <2>2
  <2>. HIDE DEF x, y, p
  <2>4. p < x
    BY <1>2, <2>3
  <2>. QED
    BY <2>4 DEF x
<1>4. Third(w) = T
  <2>1. WrapWord(p) = p
    BY <1>2, <1>3, WordFits
  <2>. QED
    BY <2>1 DEF Third, t
<1>. HIDE DEF p
<1>5. T \in Nat /\ s \in Nat /\ s + T * R = p
  <2>1. T \in Nat /\ s \in Digits /\ s + T * R = p
    BY <1>2, SplitWord
  <2>. QED
    BY <2>1 DEF Digits
<1>. HIDE DEF T, s
<1>6. (3 * T) * R <= w * R
  <2>1. (3 * T) * R = 3 * (T * R) /\ T * R \in Nat /\ w * R = R * w /\ w * R \in Nat
    BY <1>1, <1>5
  <2>. DEFINE x == T * R
              y == w * R
  <2>2. x \in Nat /\ y \in Nat /\ s + x = p /\ 3 * p <= y /\ (3 * T) * R = 3 * x
    BY <1>2, <1>5, <2>1
  <2>. HIDE DEF x, y
  <2>3. 3 * x <= y
    BY <1>2, <1>5, <2>2
  <2>. QED
    BY <2>2, <2>3 DEF y
<1>7. 3 * T <= w
  BY <1>1, <1>5, <1>6, MonotoneProduct
<1>. QED
  BY <1>4, <1>5, <1>7

LEMMA QuotientDigitFacts ==
  ASSUME NEW b \in Nat, b > 0, NEW w \in Nat, w < b * Radix
  PROVE  /\ QuotientDigit(w, b) = w \div b /\ QuotientDigit(w, b) \in Digits
         /\ w - QuotientDigit(w, b) * b = w % b /\ w % b \in 0 .. b - 1
<1>1. QuotientDigit(w, b) = w \div b
  <2>1. CASE b = 3
    <3>. DEFINE T == Third(w)
    <3>1. T \in Nat /\ 3 * T <= w
      BY <2>1, ThirdOfWord
    <3>2. QuotientDigit(w, b) = IF w >= 3 THEN T + (w - 3 * T) \div 3 ELSE 0
      BY <2>1 DEF QuotientDigit
    <3>. HIDE DEF T
    <3>. QED
      BY <2>1, <3>1, <3>2
  <2>2. CASE b # 3
    <3>1. QuotientDigit(w, b) = IF w >= b THEN w \div b ELSE 0
      BY <2>2 DEF QuotientDigit
    <3>2. CASE w < b
      <4>1. b * 1 = b
        OBVIOUS
      <4>2. w \div b < 1 /\ w \div b \in Nat
        BY <3>2, <4>1, Quotient
      <4>. QED
        BY <3>1, <3>2, <4>2
    <3>. QED
      BY <3>1, <3>2
  <2>. QED
    BY <2>1, <2>2
<1>2. w \div b \in Nat /\ w % b \in 0 .. b - 1 /\ w = b * (w \div b) + (w % b)
  BY Quotient
<1>3. w \div b < Radix
  <2>1. b * Radix \in Nat /\ Radix \in Nat
    BY RadixFacts
  <2>. QED
    BY <2>1, Quotient
<1>. DEFINE q == w \div b
            r == w % b
<1>. HIDE DEF q, r
<1>4. q \in Digits /\ w - q * b = r
  <2>1. q \in Nat /\ q < Radix /\ r \in Nat /\ w = b * q + r
    BY <1>2, <1>3 DEF q, r
  <2>2. q * b = b * q /\ b * q \in Nat
    BY <2>1
  <2>. DEFINE x == b * q
  <2>3. x \in Nat /\ w = x + r /\ q * b = x
    BY <2>1, <2>2
  <2>. HIDE DEF x
  <2>4. w - x = r
    BY <2>1, <2>3
  <2>5. q \in Digits
    BY <2>1, RadixFacts DEF Digits
  <2>. QED
    BY <2>3, <2>4, <2>5
<1>. QED
  BY <1>1, <1>2, <1>4 DEF q, r

(* The word made of a rest and the next digit.                             *)
LEMMA RestWord ==
  ASSUME NEW b \in Digits, b > 0, NEW r \in 0 .. b - 1, NEW d \in Digits
  PROVE  LET w == r * Radix + d
         IN  w \in Nat /\ w < b * Radix /\ WrapWord(w) = w
<1>. DEFINE R == Radix
            p == r * R
            w == p + d
<1>1. R \in Nat /\ R > 1 /\ b \in Nat /\ r \in Nat /\ d \in Nat /\ d < R /\ b <= R /\ r <= b - 1
      /\ b - 1 \in Nat
  BY RadixFacts DEF Digits
<1>2. p \in Nat /\ p <= (b - 1) * R /\ (b - 1) * R = b * R - R /\ b * R \in Nat /\ b * R <= R * R
      /\ R * R \in Nat
  <2>. HIDE DEF R
  <2>1. r * R <= (b - 1) * R /\ b * R <= R * R
    BY <1>1, MonotoneProduct
  <2>. QED
    BY <1>1, <2>1
<1>. DEFINE x == b * R
            y == R * R
<1>3. x \in Nat /\ y \in Nat /\ p <= x - R /\ x <= y
  BY <1>2
<1>4. w \in Nat /\ w < x /\ w < y
  <2>. HIDE DEF x, y, p
  <2>. QED
    BY <1>1, <1>2, <1>3
<1>5. WrapWord(w) = w
  <2>. HIDE DEF w
  <2>. QED
    BY <1>4, WordFits
<1>. QED
  BY <1>4, <1>5

LEMMA LongHolds ==
  ASSUME NEW a \in MpInts, NEW b \in Digits, b > 0
  PROVE  /\ Long(a, b).rem = Mag(a) % b
         /\ Long(a, b).digit \in Vectors
         /\ \A i \in Places : i >= a.used => Long(a, b).digit[i] = 0
         /\ Val(Long(a, b).digit)[a.used] = Mag(a) \div b
<1>. DEFINE n == a.used
            W(i, m) == WrapWord(m * Radix + a.digit[i])
            rest(v) == v - QuotientDigit(v, b) * b
            C == [i \in Places |-> [m \in Nat |-> rest(W(i, m))]]
            r == CarryDown(n, C)
            v == [i \in 0 .. n - 1 |-> QuotientDigit(W(i, r[i + 1]), b)]
            e == [i \in Places |-> IF i < n THEN v[i] ELSE 0]
            S == 0 .. b - 1
<1>1. /\ n \in Counts /\ n \in Nat /\ n <= MP_MAX_DIGIT_COUNT /\ a.digit \in Vectors /\ b \in Nat
      /\ Radix \in Nat /\ Radix > 1 /\ Mag(a) \in Nat /\ Mag(a) = Val(a.digit)[n] /\ 0 \in Digits
  BY IntFacts, RadixFacts, PlaceFacts DEF Digits
<1>2. ASSUME NEW i \in 0 .. n - 1, NEW m \in S
      PROVE  /\ i \in Places /\ C[i][m] \in S
             /\ QuotientDigit(W(i, m), b) \in Digits
             /\ a.digit[i] + m * Radix = b * QuotientDigit(W(i, m), b) + C[i][m]
  <2>1. i \in Places /\ m \in Nat
    BY <1>1, RadixFacts DEF Places, Digits
  <2>2. a.digit[i] \in Digits
    BY <1>1, <2>1 DEF Vectors
  <2>3. C[i][m] = W(i, m) - QuotientDigit(W(i, m), b) * b
    BY <2>1
  <2>. DEFINE x == a.digit[i]
              w == m * Radix + x
  <2>. HIDE DEF x, C
  <2>4. w \in Nat /\ w < b * Radix /\ WrapWord(w) = w
    BY <2>2, RestWord DEF x
  <2>5. W(i, m) = w
    BY <2>4 DEF x
  <2>6. w = x + m * Radix
    <3>1. x \in Nat
      BY <2>2 DEF x, Digits
    <3>. QED
      BY <1>1, <2>1, <3>1
  <2>. HIDE DEF w, W
  <2>. DEFINE q == QuotientDigit(w, b)
  <2>7. q \in Digits /\ w - q * b \in S
    BY <1>1, <2>4, QuotientDigitFacts
  <2>. HIDE DEF q
  <2>8. w = b * q + (w - q * b)
    <3>1. q \in Nat
      BY <2>7 DEF Digits
    <3>2. b * q = q * b /\ q * b \in Nat
      BY <1>1, <3>1
    <3>. DEFINE y == q * b
    <3>3. y \in Nat /\ b * q = y
      BY <3>2
    <3>. HIDE DEF y
    <3>4. w = y + (w - y)
      BY <2>4, <3>3
    <3>. QED
      BY <3>3, <3>4 DEF y
  <2>9. C[i][m] = w - q * b /\ QuotientDigit(W(i, m), b) = q
    BY <2>3, <2>5 DEF q
  <2>. QED
    BY <2>1, <2>6, <2>7, <2>8, <2>9 DEF x
<1>3. Long(a, b) = [rem |-> r[0], digit |-> e]
  <2>1. \A i \in Places : i < n => i \in 0 .. n - 1
    BY <1>1, PlaceFacts
  <2>2. \A i \in Places : i < n => v[i] = QuotientDigit(W(i, r[i + 1]), b)
    BY <2>1
  <2>3. e = [i \in Places |-> IF i < n THEN QuotientDigit(WrapWord(r[i + 1] * Radix + a.digit[i]), b)
                                       ELSE [k \in Places |-> 0][i]]
    BY <2>2
  <2>4. e = Written([i \in Places |-> 0], n,
                    LAMBDA i : QuotientDigit(WrapWord(r[i + 1] * Radix + a.digit[i]), b))
    BY <2>3 DEF Written
  <2>. HIDE DEF e
  <2>. QED
    BY <2>4 DEF Long
<1>. HIDE DEF C, W
<1>4. r \in [0 .. n -> S] /\ r[n] = 0 /\ \A i \in 0 .. n - 1 : r[i] = C[i][r[i + 1]]
  <2>1. S \subseteq Int /\ 0 \in S
    BY <1>1
  <2>2. Carries(n, S, C)
    BY <1>2 DEF Carries
  <2>. HIDE DEF S
  <2>3. Downwards(r, n, S, C)
    BY <1>1, <2>1, <2>2, CarriesDown
  <2>. QED
    BY <2>3 DEF Downwards
<1>. HIDE DEF r
<1>5. r[0] \in S /\ \A i \in 0 .. n - 1 : i \in 0 .. n /\ i + 1 \in 0 .. n /\ r[i + 1] \in S /\ r[i] \in S
  <2>1. 0 \in 0 .. n /\ \A i \in 0 .. n - 1 : i \in 0 .. n /\ i + 1 \in 0 .. n
    BY <1>1
  <2>. HIDE DEF S
  <2>. QED
    BY <1>4, <2>1
<1>6. v \in [0 .. n - 1 -> Digits] /\ \A i \in 0 .. n - 1 : v[i] = QuotientDigit(W(i, r[i + 1]), b)
  BY <1>2, <1>5
<1>. HIDE DEF v
<1>7. e \in Vectors /\ (\A i \in 0 .. n - 1 : e[i] = v[i]) /\ (\A i \in Places : i >= n => e[i] = 0)
  <2>1. \A i \in Places : i < n => i \in 0 .. n - 1
    BY <1>1, PlaceFacts
  <2>2. \A i \in 0 .. n - 1 : i \in Places /\ i < n
    BY <1>1, RadixFacts DEF Places
  <2>3. \A i \in Places : i >= n => ~ (i < n)
    BY <1>1, PlaceFacts
  <2>4. e \in Vectors
    BY <1>1, <1>6, <2>1 DEF Vectors
  <2>. QED
    BY <2>2, <2>3, <2>4
<1>. HIDE DEF e
<1>8. Loop(a.digit, e, b, r, n)
  <2>1. ASSUME NEW i \in 0 .. n - 1 PROVE Place(a.digit, e, b, r, i)
    <3>1. r[i + 1] \in S /\ e[i] = QuotientDigit(W(i, r[i + 1]), b) /\ r[i] = C[i][r[i + 1]]
      BY <1>4, <1>5, <1>6, <1>7
    <3>2. a.digit[i] + r[i + 1] * Radix = b * QuotientDigit(W(i, r[i + 1]), b) + C[i][r[i + 1]]
      BY <1>2, <3>1
    <3>3. a.digit[i] + r[i + 1] * Radix = b * e[i] + r[i]
      BY <3>1, <3>2, Zenon
    <3>. QED
      BY <3>3 DEF Place
  <2>2. r \in [0 .. n -> Int]
    BY <1>4
  <2>. QED
    BY <2>1, <2>2 DEF Loop
<1>9. Mag(a) = b * Val(e)[n] + r[0]
  <2>. DEFINE d0 == a.digit
  <2>1. Loop(d0, e, b, r, n) /\ d0 \in Vectors /\ b \in Int
    BY <1>1, <1>8
  <2>. HIDE DEF d0, n
  <2>2. Spelled(d0, e, b, r, n)
    BY <1>1, <1>7, <2>1, LoopSpells
  <2>3. 0 * Pow[n] = 0 /\ Val(d0)[n] = Mag(a)
    BY <1>1, PowFacts DEF d0
  <2>4. Mag(a) + 0 = b * Val(e)[n] + r[0]
    BY <1>4, <2>2, <2>3, Zenon DEF Spelled
  <2>. QED
    BY <1>1, <2>4
<1>10. Val(e)[n] \in Int
  BY <1>1, <1>7, ValRecursion
<1>. DEFINE x == Val(e)[n]
            y == r[0]
<1>11. x \in Int /\ y \in 0 .. b - 1 /\ Mag(a) = b * x + y
  BY <1>5, <1>9, <1>10
<1>. HIDE DEF x, y
<1>12. (b * x + y) \div b = x /\ (b * x + y) % b = y
  BY <1>1, <1>11, DivisionUnique
<1>13. Mag(a) \div b = x /\ Mag(a) % b = y
  BY <1>11, <1>12, Zenon
<1>. QED
  BY <1>3, <1>7, <1>13 DEF x, y

(* The remainder by a power of two can be read from the lowest digit.      *)
LEMMA LowDigitRest ==
  ASSUME NEW a \in MpInts, a.used > 0, NEW k \in 0 .. MP_DIGIT_BIT
  PROVE  a.digit[0] % 2 ^ k = Mag(a) % 2 ^ k
<1>. DEFINE n == a.used
            T == 2 ^ k
            Q == 2 ^ (MP_DIGIT_BIT - k)
            x == a.digit[0]
            y == Val(a.digit)[n] \div Pow[1]
            h == x \div T
            l == x % T
<1>1. /\ T \in Nat /\ T > 0 /\ Q \in Nat /\ Radix = T * Q /\ n \in Counts /\ n \in Nat /\ 1 <= n
      /\ a.digit \in Vectors /\ Mag(a) = Val(a.digit)[n] /\ 0 \in Places
  BY RadixBits, IntFacts, RadixFacts DEF Places
<1>2. x \in Nat
  BY <1>1, DigitFacts
<1>3. Pow[1] = T * Q
  BY <1>1, PowFacts, RadixFacts
<1>4. y \in Nat /\ Mag(a) = Pow[1] * y + Val(a.digit)[1]
  BY <1>1, ValMod
<1>5. Val(a.digit)[1] = x
  <2>1. Val(a.digit)[0 + 1] = Val(a.digit)[0] + a.digit[0] * Pow[0] /\ Val(a.digit)[0] = 0 /\ Pow[0] = 1
    BY <1>1, ValRecursion, PowFacts
  <2>. QED
    BY <1>2, <2>1
<1>. HIDE DEF x, y, T, Q
<1>6. h \in Nat /\ l \in 0 .. T - 1 /\ x = T * h + l
  BY <1>1, <1>2, Quotient
<1>. HIDE DEF h, l
<1>7. Mag(a) = T * (Q * y + h) + l
  <2>1. (T * Q) * y = T * (Q * y) /\ T * (Q * y + h) = T * (Q * y) + T * h
    BY <1>1, <1>4, <1>6
  <2>. DEFINE u == T * (Q * y)
              w == T * h
  <2>2. u \in Nat /\ w \in Nat /\ l \in Nat
    BY <1>1, <1>4, <1>6
  <2>3. Mag(a) = u + (w + l) /\ T * (Q * y + h) = u + w
    BY <1>3, <1>4, <1>5, <1>6, <2>1
  <2>. HIDE DEF u, w
  <2>4. u + (w + l) = (u + w) + l
    BY <2>2
  <2>. QED
    BY <2>3, <2>4
<1>. DEFINE z == Q * y + h
<1>8. z \in Int
  BY <1>1, <1>4, <1>6
<1>. HIDE DEF z
<1>9. (T * z + l) % T = l
  BY <1>1, <1>6, <1>8, DivisionUnique
<1>10. Mag(a) % T = l
  BY <1>7, <1>9, Zenon DEF z
<1>. QED
  BY <1>10 DEF x, l, T

(* What R delivers, with rem returned beside it.                           *)
DeliversRem(R, E, V, F, rem) ==
  Delivers(R, E, V, F) /\ \A r \in R : r.code = "OKAY" => r.rem = rem

LEMMA RemDelivers ==
  ASSUME NEW R, NEW E \in BOOLEAN, NEW V, NEW F, Delivers(R, E, V, F), NEW rem \in Digits
  PROVE  DeliversRem(SetRem(R, rem), E, V, F, rem)
<1>. SUFFICES ASSUME NEW s \in SetRem(R, rem)
              PROVE  /\ s.num \in MpInts /\ Proper(s.num) /\ (E => NoExcess(s.num))
                     /\ s.code \in Codes /\ s.rem \in Digits /\ s.rem = rem
                     /\ IF s.code = "OKAY" THEN IntVal(s.num) \in V ELSE IntVal(s.num) \in F
  BY DEF DeliversRem, Delivers
<1>1. PICK r \in R : s = Outcome(r.code, r.num, rem)
  BY DEF SetRem
<1>2. s.code = r.code /\ s.num = r.num /\ s.rem = rem
  BY <1>1 DEF Outcome
<1>. QED
  BY <1>2 DEF Delivers

LEMMA DivDDelivers ==
  ASSUME NEW a \in MpInts, Proper(a), NEW b \in Digits, NEW c \in MpInts, Proper(c),
         NEW same \in BOOLEAN, same => a = c, NEW E \in BOOLEAN, E => NoExcess(c)
  PROVE  DeliversRem(DivD(a, b, c, same), E, {Sgn(IntVal(a)) * (Abs(IntVal(a)) \div b)}, {IntVal(c)},
                     Abs(IntVal(a)) % b)
<1>. DEFINE v == Sgn(IntVal(a)) * (Abs(IntVal(a)) \div b)
            V == {v}
            F == {IntVal(c)}
            rem == Abs(IntVal(a)) % b
            R == DivD(a, b, c, same)
<1>0. /\ b \in Nat /\ 0 \in Digits /\ Mag(a) \in Nat /\ Abs(IntVal(a)) = Mag(a)
      /\ IntVal(a) = Signed(a.sign, Mag(a)) /\ IntVal(c) \in F /\ a.used \in Nat
      /\ \A m \in Nat : Sgn(IntVal(a)) * m = Signed(a.sign, m)
  BY RadixFacts, IntFacts, SignFacts DEF Digits
<1>1. CASE b = 0
  <2>1. R = {Outcome("VAL", c, 0)}
    BY <1>1 DEF DivD
  <2>. HIDE DEF R, V, F, rem
  <2>2. Delivers(R, E, V, F)
    BY <1>0, <2>1, RefusedDelivers DEF Codes
  <2>3. \A r \in R : r.code # "OKAY"
    BY <2>1 DEF Outcome
  <2>4. DeliversRem(R, E, V, F, rem)
    BY <2>2, <2>3 DEF DeliversRem
  <2>. QED
    BY <2>4 DEF R, V, F, rem
<1>2. CASE ~ (b = 0) /\ (b = 1 \/ IsZero(a))
  <2>1. R = SetRem(Copy(a, c, same), 0)
    BY <1>2 DEF DivD
  <2>2. v = IntVal(a) /\ rem = 0
    <3>1. CASE b = 1
      <4>1. Mag(a) \div 1 = Mag(a) /\ Mag(a) % 1 = 0
        BY <1>0
      <4>. QED
        BY <1>0, <3>1, <4>1
    <3>2. CASE IsZero(a)
      <4>1. Mag(a) = 0
        BY <3>2, ProperFacts DEF IsZero
      <4>2. 0 \div b = 0 /\ 0 % b = 0
        <5>1. b * 0 + 0 = 0 /\ 0 \in 0 .. b - 1 /\ b > 0
          BY <1>0, <1>2
        <5>2. (b * 0 + 0) \div b = 0 /\ (b * 0 + 0) % b = 0
          BY <1>0, <5>1, DivisionUnique
        <5>. QED
          BY <5>1, <5>2
      <4>. QED
        BY <1>0, <4>1, <4>2
    <3>. QED
      BY <1>2, <3>1, <3>2
  <2>3. Delivers(Copy(a, c, same), E, {IntVal(a)}, {IntVal(c)})
    BY CopyDelivers
  <2>4. DeliversRem(SetRem(Copy(a, c, same), 0), E, {IntVal(a)}, {IntVal(c)}, 0)
    BY <1>0, <2>3, RemDelivers
  <2>. QED
    BY <2>1, <2>2, <2>4
<1>3. CASE ~ (b = 0) /\ ~ (b = 1 \/ IsZero(a)) /\ b = 2
  <2>1. R = SetRem(Div2(a, c), a.digit[0] % 2)
    BY <1>3 DEF DivD
  <2>2. a.used > 0
    BY <1>0, <1>3 DEF IsZero
  <2>3. a.digit[0] % 2 = Mag(a) % 2 /\ Mag(a) % 2 \in Digits
    <3>1. 1 \in 0 .. MP_DIGIT_BIT /\ 2 ^ 1 = 2
      BY RadixBits, TwoTo
    <3>. DEFINE k == 1
    <3>2. k \in 0 .. MP_DIGIT_BIT
      BY <3>1
    <3>. HIDE DEF k
    <3>3. a.digit[0] % 2 ^ k = Mag(a) % 2 ^ k
      BY <2>2, <3>2, LowDigitRest
    <3>4. Mag(a) % 2 \in Digits
      BY <1>0, RadixFacts DEF Digits
    <3>. QED
      BY <3>1, <3>3, <3>4 DEF k
  <2>4. Delivers(Div2(a, c), E, {Sgn(IntVal(a)) * (Abs(IntVal(a)) \div 2)}, {IntVal(c)})
    BY Div2Delivers
  <2>. DEFINE m == Mag(a) % 2
              D == Div2(a, c)
              V2 == {Sgn(IntVal(a)) * (Abs(IntVal(a)) \div 2)}
  <2>5. m \in Digits /\ Delivers(D, E, V2, F)
    BY <2>3, <2>4
  <2>6. R = SetRem(D, m) /\ V = V2 /\ rem = m
    BY <1>0, <1>3, <2>1, <2>3
  <2>. HIDE DEF m, D, V2, V, F, R, rem
  <2>7. DeliversRem(SetRem(D, m), E, V2, F, m)
    BY <2>5, RemDelivers
  <2>8. DeliversRem(R, E, V, F, rem)
    BY <2>6, <2>7
  <2>. QED
    BY <2>8 DEF R, V, F, rem
<1>4. CASE ~ (b = 0) /\ ~ (b = 1 \/ IsZero(a)) /\ ~ (b = 2) /\ b \in Powers2
  <2>. DEFINE k == Log2(b)
  <2>1. R = SetRem(Div2D(a, k, c, same), a.digit[0] % b)
    BY <1>4 DEF DivD
  <2>2. a.used > 0
    BY <1>0, <1>4 DEF IsZero
  <2>3. k \in 1 .. MP_DIGIT_BIT - 1 /\ k \in Int /\ b = 2 ^ k
    BY <1>4, Log2Facts
  <2>. HIDE DEF k
  <2>4. a.digit[0] % b = Mag(a) % b /\ Mag(a) % b \in Digits
    <3>1. k \in 0 .. MP_DIGIT_BIT
      BY <2>3, RadixBits
    <3>2. a.digit[0] % 2 ^ k = Mag(a) % 2 ^ k
      BY <2>2, <3>1, LowDigitRest
    <3>3. Mag(a) % b \in 0 .. b - 1
      BY <1>0, <1>4, Quotient
    <3>4. b <= Radix - 1
      BY RadixFacts DEF Digits
    <3>5. Mag(a) % b \in Digits
      BY <1>0, <3>3, <3>4, RadixFacts DEF Digits
    <3>. QED
      BY <2>3, <3>2, <3>5
  <2>5. Delivers(Div2D(a, k, c, same), E, {Sgn(IntVal(a)) * (Abs(IntVal(a)) \div 2 ^ k)}, {IntVal(c)})
    BY <2>3, Div2DDelivers
  <2>. DEFINE m == Mag(a) % b
              D == Div2D(a, k, c, same)
              V2 == {Sgn(IntVal(a)) * (Abs(IntVal(a)) \div 2 ^ k)}
  <2>6. m \in Digits /\ Delivers(D, E, V2, F)
    BY <2>4, <2>5
  <2>7. R = SetRem(D, m) /\ V = V2 /\ rem = m
    BY <1>0, <2>1, <2>3, <2>4
  <2>. HIDE DEF m, D, V2, V, F, R, rem
  <2>8. DeliversRem(SetRem(D, m), E, V2, F, m)
    BY <2>6, RemDelivers
  <2>9. DeliversRem(R, E, V, F, rem)
    BY <2>7, <2>8
  <2>. QED
    BY <2>9 DEF R, V, F, rem
<1>5. CASE ~ (b = 0) /\ ~ (b = 1 \/ IsZero(a)) /\ ~ (b = 2) /\ ~ (b \in Powers2)
  <2>. DEFINE l == Long(a, b)
              q == [used |-> a.used, sign |-> a.sign, digit |-> l.digit,
                    alloc |-> MaxOf(MP_MIN_DIGIT_COUNT, a.used)]
  <2>1. R = {Outcome("MEM", c, 0), Outcome("OKAY", mp_clamp(q), l.rem)}
    BY <1>5 DEF DivD
  <2>2. b > 0 /\ a.used > 0
    BY <1>0, <1>5 DEF IsZero
  <2>3. /\ l.rem = Mag(a) % b /\ l.digit \in Vectors
        /\ \A i \in Places : i >= a.used => l.digit[i] = 0
        /\ Val(l.digit)[a.used] = Mag(a) \div b
    BY <2>2, LongHolds
  <2>4. rem = Mag(a) % b /\ v = Signed(a.sign, Mag(a) \div b) /\ rem \in Digits
    <3>1. Mag(a) \div b \in Nat /\ Mag(a) % b \in 0 .. b - 1
      BY <1>0, <2>2, Quotient
    <3>2. b <= Radix - 1
      BY RadixFacts DEF Digits
    <3>3. Mag(a) % b \in Digits
      BY <1>0, <3>1, <3>2, RadixFacts DEF Digits
    <3>. QED
      BY <1>0, <3>1, <3>3
  <2>. HIDE DEF l
  <2>5. q \in MpInts /\ q.used <= q.alloc /\ q.used > 0
    <3>1. MaxOf(MP_MIN_DIGIT_COUNT, a.used) \in Counts /\ a.used <= MaxOf(MP_MIN_DIGIT_COUNT, a.used)
      BY IntFacts, PlaceFacts, MinDigitsAssumption, RadixFacts DEF MaxOf, Counts
    <3>2. a.used \in Counts /\ a.sign \in Signs
      BY IntFacts
    <3>. QED
      BY <2>2, <2>3, <3>1, <3>2 DEF MpInts
  <2>6. NoExcess(q)
    BY <2>3 DEF NoExcess
  <2>7. Mag(q) = Mag(a) \div b /\ q.sign = a.sign /\ q.used # 0
    BY <1>0, <2>2, <2>3 DEF Mag
  <2>. HIDE DEF q
  <2>8. Holds(mp_clamp(q), E, v)
    <3>1. Holds(mp_clamp(q), E, Signed(q.sign, Mag(q)))
      BY <2>5, <2>6, <2>7, ClampHolds
    <3>. QED
      BY <2>4, <2>7, <3>1
  <2>9. /\ Delivers({Outcome("MEM", c, 0)}, E, V, F)
        /\ \A r \in {Outcome("MEM", c, 0)} : r.code # "OKAY"
    <3>. HIDE DEF V, F
    <3>1. Delivers({Outcome("MEM", c, 0)}, E, V, F)
      BY <1>0, RefusedDelivers DEF Codes
    <3>2. Outcome("MEM", c, 0).code # "OKAY"
      BY DEF Outcome
    <3>. QED
      BY <3>1, <3>2
  <2>10. DeliversRem({Outcome("OKAY", mp_clamp(q), l.rem)}, E, V, F, rem)
    <3>. DEFINE x == mp_clamp(q)
    <3>. HIDE DEF x, v, F, rem
    <3>1. Holds(x, E, v) /\ l.rem = rem
      BY <2>3, <2>4, <2>8 DEF x
    <3>2. DeliversRem({Outcome("OKAY", x, rem)}, E, V, F, rem)
      BY <2>4, <3>1 DEF Outcome, Delivers, DeliversRem, Holds, Codes
    <3>. QED
      BY <3>1, <3>2 DEF x
  <2>. HIDE DEF V, F, rem, R
  <2>11. DeliversRem(R, E, V, F, rem)
    BY <2>1, <2>9, <2>10 DEF DeliversRem, Delivers
  <2>. QED
    BY <2>11 DEF R, V, F, rem
<1>. QED
  BY <1>1, <1>2, <1>3, <1>4, <1>5

LEMMA ModDDelivers ==
  ASSUME NEW a \in MpInts, Proper(a), NEW b \in Digits, NEW E \in BOOLEAN, E => NoExcess(a)
  PROVE  DeliversRem(ModD(a, b), E, {IntVal(a)}, {IntVal(a)}, Abs(IntVal(a)) % b)
<1>. DEFINE V == {Sgn(IntVal(a)) * (Abs(IntVal(a)) \div b)}
            F == {IntVal(a)}
            rem == Abs(IntVal(a)) % b
            R == DivD(a, b, a, TRUE)
<1>1. DeliversRem(R, E, V, F, rem)
  <2>. HIDE DEF R, V, F, rem
  <2>1. DeliversRem(DivD(a, b, a, TRUE), E, {Sgn(IntVal(a)) * (Abs(IntVal(a)) \div b)}, {IntVal(a)},
                    Abs(IntVal(a)) % b)
    BY DivDDelivers
  <2>. QED
    BY <2>1 DEF R, V, F, rem
<1>2. ModD(a, b) = {Outcome(r.code, a, r.rem) : r \in R}
  BY DEF ModD
<1>. HIDE DEF R, V, rem
<1>. SUFFICES ASSUME NEW s \in ModD(a, b)
              PROVE  /\ s.num \in MpInts /\ Proper(s.num) /\ (E => NoExcess(s.num))
                     /\ s.code \in Codes /\ s.rem \in Digits /\ (s.code = "OKAY" => s.rem = rem)
                     /\ IntVal(s.num) \in F
  BY DEF DeliversRem, Delivers, rem
<1>3. PICK r \in R : s = Outcome(r.code, a, r.rem)
  BY <1>2
<1>4. s.code = r.code /\ s.num = a /\ s.rem = r.rem
  BY <1>3 DEF Outcome
<1>. QED
  BY <1>1, <1>4 DEF DeliversRem, Delivers
-----------------------------------------------------------------------------
(* The bits of an integer, in two's complement.                            *)
LEMMA BitFacts ==
  ASSUME NEW n \in Int, NEW k \in Nat
  PROVE  Bit(n, k) \in 0 .. 1
<1>. DEFINE q == n \div 2 ^ k
<1>1. q \in Int
  BY TwoTo, Division
<1>2. Bit(n, k) = q % 2
  BY DEF Bit
<1>. HIDE DEF q
<1>. QED
  BY <1>1, <1>2

(* Whatever is added from bit n on changes no bit below.                   *)
Joined(n, z, s, v) ==
  /\ \A i \in 0 .. n - 1 : Bit(v, i) = Bit(z, i)
  /\ Bit(v, n) = s % 2
  /\ s = 0 => \A i \in Nat : i >= n => Bit(v, i) = 0
  /\ s = -1 => \A i \in Nat : i >= n => Bit(v, i) = 1

LEMMA BitsJoined ==
  ASSUME NEW n \in Nat, NEW s \in Int, NEW z \in 0 .. 2 ^ n - 1, NEW v \in Int, v = 2 ^ n * s + z
  PROVE  Joined(n, z, s, v)
<1>1. ASSUME NEW i \in 0 .. n - 1 PROVE Bit(v, i) = Bit(z, i)
  <2>. DEFINE T == 2 ^ i
              w == 2 ^ (n - (i + 1))
              h == z \div T
              l == z % T
              k == 2 * (w * s) + h
  <2>1. i \in Nat /\ i + 1 \in Nat /\ i + 1 <= n /\ T \in Nat /\ T > 0 /\ z \in Nat
    BY TwoTo
  <2>2. w \in Nat /\ 2 ^ n = (2 * T) * w
    <3>1. w \in Nat /\ 2 ^ n = 2 ^ (i + 1) * w
      BY <2>1, TwoToMonotone
    <3>2. 2 ^ (i + 1) = 2 * T
      BY <2>1, TwoTo
    <3>. QED
      BY <3>1, <3>2
  <2>. HIDE DEF T, w
  <2>3. h \in Nat /\ l \in 0 .. T - 1 /\ z = T * h + l
    BY <2>1, Quotient
  <2>. HIDE DEF h, l
  <2>4. v = T * k + l
    <3>1. ((2 * T) * w) * s = T * (2 * (w * s)) /\ T * k = T * (2 * (w * s)) + T * h
      BY <2>1, <2>2, <2>3
    <3>. DEFINE x == T * (2 * (w * s))
                y == T * h
    <3>2. x \in Int /\ y \in Int /\ l \in Int
      BY <2>1, <2>2, <2>3
    <3>3. v = x + (y + l) /\ T * k = x + y
      BY <2>2, <2>3, <3>1
    <3>. HIDE DEF x, y
    <3>4. v = (x + y) + l
      BY <3>2, <3>3
    <3>. QED
      BY <3>3, <3>4
  <2>5. k \in Int /\ k % 2 = h % 2
    <3>. DEFINE y == w * s
    <3>1. y \in Int
      BY <2>2
    <3>. HIDE DEF y
    <3>2. (2 * y + h) \in Int /\ (2 * y + h) % 2 = h % 2
      BY <2>3, <3>1
    <3>. QED
      BY <3>2 DEF y
  <2>. HIDE DEF k
  <2>6. (T * k + l) \div T = k
    BY <2>1, <2>3, <2>5, DivisionUnique
  <2>7. v \div T = k
    BY <2>4, <2>6, Zenon
  <2>8. Bit(v, i) = k % 2 /\ Bit(z, i) = h % 2
    BY <2>7 DEF Bit, T, h
  <2>. QED
    BY <2>5, <2>8
<1>. DEFINE N == 2 ^ n
<1>2. N \in Nat /\ N > 0 /\ v = N * s + z /\ z \in 0 .. N - 1
  BY TwoTo
<1>3. Bit(v, n) = s % 2
  <2>1. v \div N = s
    <3>. HIDE DEF N
    <3>1. (N * s + z) \div N = s
      BY <1>2, DivisionUnique
    <3>. QED
      BY <1>2, <3>1, Zenon
  <2>. QED
    BY <2>1 DEF Bit
<1>4. ASSUME NEW i \in Nat, i >= n, s = 0 PROVE Bit(v, i) = 0
  <2>. DEFINE T == 2 ^ i
  <2>1. T \in Nat /\ T > 0 /\ N <= T
    BY <1>4, TwoTo, TwoToMonotone
  <2>. HIDE DEF N, T
  <2>2. N * 0 = 0
    BY <1>2
  <2>3. v = z /\ z \in 0 .. T - 1 /\ T * 0 + z = z /\ 0 \in Int
    BY <1>2, <1>4, <2>1, <2>2
  <2>4. (T * 0 + z) \div T = 0
    BY <2>1, <2>3, DivisionUnique
  <2>5. v \div T = 0
    BY <2>3, <2>4
  <2>6. Bit(v, i) = (v \div T) % 2
    BY DEF Bit, T
  <2>. QED
    BY <2>5, <2>6
<1>5. ASSUME NEW i \in Nat, i >= n, s = -1 PROVE Bit(v, i) = 1
  <2>. DEFINE T == 2 ^ i
  <2>1. T \in Nat /\ T > 0 /\ N <= T
    BY <1>5, TwoTo, TwoToMonotone
  <2>. HIDE DEF N, T
  <2>2. N * (-1) = - N /\ T * (-1) = - T
    BY <1>2, <2>1
  <2>. DEFINE y == T - N + z
  <2>3. v = - N + z /\ y \in 0 .. T - 1 /\ -1 \in Int
    BY <1>2, <1>5, <2>1, <2>2
  <2>4. v = T * (-1) + y
    BY <1>2, <2>1, <2>2, <2>3
  <2>. HIDE DEF y
  <2>5. (T * (-1) + y) \div T = -1
    BY <2>1, <2>3, DivisionUnique
  <2>6. v \div T = -1
    BY <2>4, <2>5
  <2>7. Bit(v, i) = (v \div T) % 2
    BY DEF Bit, T
  <2>8. \A x \in Int : x + 1 = 0 => x % 2 = 1
    OBVIOUS
  <2>9. v \div T \in Int /\ v \div T + 1 = 0
    BY <2>6
  <2>. QED
    BY <2>7, <2>8, <2>9
<1>. QED
  BY <1>1, <1>3, <1>4, <1>5 DEF Joined

(* The bits of a number are those of its digits.                           *)
LEMMA DigitBits ==
  ASSUME NEW d \in Vectors, NEW u \in Counts, NEW q \in Nat, q < u, NEW m \in 0 .. MP_DIGIT_BIT - 1
  PROVE  /\ MP_DIGIT_BIT * q + m \in Nat
         /\ Bit(Val(d)[u], MP_DIGIT_BIT * q + m) = Bit(d[q], m)
<1>. DEFINE P == Pow[q]
            T == 2 ^ m
            Q == 2 ^ (MP_DIGIT_BIT - (m + 1))
            y == Val(d)[u] \div Pow[q + 1]
            v == Val(d)[q]
            x == d[q]
            h == x \div T
            l == x % T
            j == MP_DIGIT_BIT * q
            b == j + m
            k == 2 * (Q * y) + h
            s == v + l * P
            D == P * T
<1>1. /\ q \in Places /\ q \in Counts /\ q + 1 \in Nat /\ q + 1 \in Counts /\ q + 1 <= u /\ u \in Nat
      /\ m \in Nat /\ m + 1 \in Nat /\ m + 1 \in 0 .. MP_DIGIT_BIT
  <2>1. u \in Nat /\ u <= MP_MAX_DIGIT_COUNT /\ MP_DIGIT_BIT \in Nat
    BY PlaceFacts, RadixBits
  <2>2. q \in Places
    BY <2>1, RadixFacts DEF Places
  <2>. QED
    BY <2>1, <2>2, PlaceFacts
<1>2. P \in Nat /\ P > 0 /\ T \in Nat /\ T > 0 /\ Q \in Nat /\ Radix = (2 * T) * Q
  <2>1. Q \in Nat /\ Radix = 2 ^ (m + 1) * Q
    BY <1>1, RadixBits
  <2>2. 2 ^ (m + 1) = 2 * T /\ T \in Nat /\ T > 0
    BY <1>1, TwoTo
  <2>. QED
    BY <2>1, <2>2, PowFacts
<1>3. j \in Nat /\ P = 2 ^ j
  BY PowBits
<1>. HIDE DEF j
<1>4. b \in Nat /\ 2 ^ b = D
  BY <1>1, <1>3, TwoToSum
<1>5. y \in Nat /\ Val(d)[u] = Pow[q + 1] * y + Val(d)[q + 1]
  BY <1>1, ValMod
<1>6. v \in 0 .. P - 1 /\ x \in Nat /\ v \in Nat
  <2>1. v \in Nat /\ v < P
    BY <1>1, ValBounds
  <2>. QED
    BY <1>1, <1>2, <2>1, DigitFacts
<1>7. Val(d)[q + 1] = v + x * P /\ Pow[q + 1] = ((2 * T) * Q) * P
  BY <1>1, <1>2, ValRecursion, PowFacts
<1>. HIDE DEF P, T, Q, y, v, x
<1>8. h \in Nat /\ l \in 0 .. T - 1 /\ l \in Nat /\ x = T * h + l
  BY <1>2, <1>6, Quotient
<1>. HIDE DEF h, l
<1>9. D \in Nat /\ D > 0 /\ s \in 0 .. D - 1
  <2>0. D \in Nat /\ D > 0
    BY <1>2
  <2>1. l <= T - 1 /\ T - 1 \in Nat /\ (T - 1) * P = D - P
    BY <1>2, <1>8
  <2>. DEFINE z == l * P
  <2>2. z <= D - P
    BY <1>2, <1>8, <2>1, MonotoneProduct
  <2>3. z \in Nat
    BY <1>2, <1>8
  <2>. HIDE DEF z, D
  <2>4. v + z \in 0 .. D - 1
    BY <1>2, <1>6, <2>0, <2>2, <2>3
  <2>. QED
    BY <2>0, <2>4 DEF z
<1>10. Val(d)[u] = D * k + s
  <2>1. (((2 * T) * Q) * P) * y = D * (2 * (Q * y)) /\ x * P = D * h + l * P
    BY <1>2, <1>5, <1>8
  <2>2. D * k = D * (2 * (Q * y)) + D * h
    BY <1>2, <1>5, <1>8
  <2>. DEFINE e == D * (2 * (Q * y))
              f == D * h
              z == l * P
  <2>3. e \in Nat /\ f \in Nat /\ z \in Nat
    BY <1>2, <1>5, <1>8
  <2>4. Val(d)[u] = e + (v + (f + z)) /\ D * k = e + f /\ s = v + z
    BY <1>5, <1>7, <2>1, <2>2
  <2>. HIDE DEF e, f, z, D, s, k
  <2>5. e + (v + (f + z)) = (e + f) + (v + z)
    BY <1>6, <2>3
  <2>. QED
    BY <2>4, <2>5
<1>11. k \in Int /\ k % 2 = h % 2
  <2>. DEFINE z == Q * y
  <2>1. z \in Nat
    BY <1>2, <1>5
  <2>. HIDE DEF z
  <2>2. 2 * z + h \in Int /\ (2 * z + h) % 2 = h % 2
    BY <1>8, <2>1
  <2>. QED
    BY <2>2 DEF z
<1>. HIDE DEF k, s, D
<1>12. (D * k + s) \div D = k
  BY <1>9, <1>11, DivisionUnique
<1>13. Val(d)[u] \div 2 ^ b = k
  BY <1>4, <1>10, <1>12, Zenon
<1>14. Bit(Val(d)[u], b) = k % 2 /\ Bit(x, m) = h % 2
  BY <1>13 DEF Bit, h, T
<1>15. Bit(Val(d)[u], b) = Bit(x, m)
  BY <1>11, <1>14
<1>. QED
  BY <1>4, <1>15 DEF x, b, j

Tables == [0 .. 1 -> [0 .. 1 -> 0 .. 1]]

TableBit(Op, x, y, k) == Op[Bit(x, k)][Bit(y, k)]

(* One digit of the result.                                                *)
LEMMA DigitOpFacts ==
  ASSUME NEW Op \in Tables, NEW x \in Nat, NEW y \in Nat
  PROVE  /\ DigitOp(Op, x, y) \in Digits
         /\ \A k \in 0 .. MP_DIGIT_BIT - 1 : Bit(DigitOp(Op, x, y), k) = TableBit(Op, x, y, k)
<1>. DEFINE n == MP_DIGIT_BIT
            C == [k \in Nat |-> [m \in Nat |-> m + 2 ^ k * Op[Bit(x, k)][Bit(y, k)]]]
            c == CarryUp(n, 0, C)
            O(k) == TableBit(Op, x, y, k)
<1>1. n \in Nat /\ n > 0 /\ Radix = 2 ^ n
  BY RadixBits
<1>2. ASSUME NEW k \in Nat PROVE O(k) \in 0 .. 1 /\ 2 ^ k \in Nat
  <2>1. Bit(x, k) \in 0 .. 1 /\ Bit(y, k) \in 0 .. 1
    BY BitFacts
  <2>. QED
    BY <2>1, TwoTo DEF Tables, TableBit
<1>3. ASSUME NEW k \in Nat, NEW m \in Nat PROVE C[k][m] = m + 2 ^ k * O(k) /\ C[k][m] \in Nat
  <2>1. C[k][m] = m + 2 ^ k * O(k)
    BY DEF TableBit
  <2>2. 2 ^ k * O(k) \in Nat
    <3>. DEFINE o == O(k)
                T == 2 ^ k
    <3>1. o \in Nat /\ T \in Nat
      BY <1>2
    <3>. HIDE DEF o, T
    <3>2. T * o \in Nat
      BY <3>1
    <3>. QED
      BY <3>2 DEF o, T
  <2>. DEFINE p == 2 ^ k * O(k)
  <2>3. p \in Nat /\ C[k][m] = m + p
    BY <2>1, <2>2
  <2>. HIDE DEF p, C
  <2>4. C[k][m] \in Nat
    BY <2>3
  <2>. QED
    BY <2>1, <2>4
<1>4. DigitOp(Op, x, y) = c[n]
  BY DEF DigitOp
<1>. HIDE DEF C
<1>5. c[0] = 0 /\ (\A k \in 0 .. n - 1 : c[k + 1] = C[k][c[k]]) /\ c \in [0 .. n -> Nat]
  <2>1. Carries(n, Nat, C) /\ 0 \in Nat /\ Nat \subseteq Int
    BY <1>1, <1>3 DEF Carries
  <2>2. Upwards(c, n, Nat, 0, C)
    BY <1>1, <2>1, CarriesUp
  <2>. QED
    BY <2>2 DEF Upwards
<1>. HIDE DEF c
<1>. DEFINE S == {k \in Nat : k <= n => /\ c[k] \in 0 .. 2 ^ k - 1
                                        /\ \A j \in 0 .. k - 1 : Bit(c[k], j) = O(j)}
<1>6. 0 \in S
  <2>1. 2 ^ 0 = 1 /\ \A j \in 0 .. 0 - 1 : FALSE
    BY TwoTo
  <2>. QED
    BY <1>5, <2>1
<1>7. ASSUME NEW k \in Nat, k \in S PROVE k + 1 \in S
  <2>. SUFFICES ASSUME k + 1 <= n
                PROVE  /\ c[k + 1] \in 0 .. 2 ^ (k + 1) - 1
                       /\ \A j \in 0 .. k : Bit(c[k + 1], j) = O(j)
    OBVIOUS
  <2>1. c[k] \in 0 .. 2 ^ k - 1 /\ c[k] \in Nat /\ \A j \in 0 .. k - 1 : Bit(c[k], j) = O(j)
    BY <1>1, <1>5, <1>7
  <2>. DEFINE o == O(k)
              T == 2 ^ k
              z == c[k]
              v == T * o + z
  <2>2. o \in 0 .. 1 /\ o \in Int /\ T \in Nat /\ 2 ^ (k + 1) = 2 * T /\ z \in 0 .. T - 1
    BY <1>2, <2>1, TwoTo
  <2>3. c[k + 1] = v
    <3>1. k \in 0 .. n - 1
      BY <1>1
    <3>2. c[k + 1] = z + T * o
      BY <1>3, <1>5, <2>1, <3>1
    <3>. DEFINE p == T * o
    <3>3. p \in Int
      BY <2>2
    <3>. HIDE DEF p, z
    <3>4. z + p = p + z
      BY <2>2, <3>3
    <3>. QED
      BY <3>2, <3>4 DEF p
  <2>4. v \in 0 .. 2 * T - 1
    <3>. HIDE DEF z, T, o
    <3>1. CASE o = 0
      <4>1. T * 0 = 0
        BY <2>2
      <4>. QED
        BY <2>2, <3>1, <4>1
    <3>2. CASE o = 1
      <4>1. T * 1 = T
        BY <2>2
      <4>. QED
        BY <2>2, <3>2, <4>1
    <3>. QED
      BY <2>2, <3>1, <3>2
  <2>5. Joined(k, z, o, v)
    <3>1. v \in Int /\ v = 2 ^ k * o + z /\ z \in 0 .. 2 ^ k - 1
      BY <2>1, <2>4
    <3>. HIDE DEF v, o, z, T
    <3>. QED
      BY <2>2, <3>1, BitsJoined
  <2>6. o % 2 = o
    <3>. HIDE DEF o
    <3>. QED
      BY <2>2
  <2>7. \A j \in 0 .. k - 1 : Bit(v, j) = O(j)
    <3>. HIDE DEF v
    <3>. QED
      BY <2>1, <2>5 DEF Joined
  <2>8. Bit(v, k) = O(k)
    <3>. HIDE DEF v
    <3>. QED
      BY <2>5, <2>6 DEF Joined
  <2>. HIDE DEF v, O
  <2>9. \A j \in 0 .. k : Bit(v, j) = O(j)
    <3>1. \A j \in 0 .. k : j = k \/ j \in 0 .. k - 1
      OBVIOUS
    <3>. QED
      BY <2>7, <2>8, <3>1
  <2>. QED
    BY <2>2, <2>3, <2>4, <2>9
<1>. HIDE DEF S
<1>8. n \in S
  BY <1>1, <1>6, <1>7, Successor
<1>. HIDE DEF O
<1>9. c[n] \in 0 .. 2 ^ n - 1 /\ \A j \in 0 .. n - 1 : Bit(c[n], j) = O(j)
  BY <1>1, <1>8 DEF S
<1>. QED
  BY <1>1, <1>4, <1>9 DEF O, Digits

(* The complement of n digits, and one more: what is left to Pow[n].       *)
Complements(C, d, n) ==
  \A i \in 0 .. n - 1, m \in 0 .. 1 : C[i][m] = (m + (MP_MASK - d[i])) \div Radix

Complemented(e, r, d, n) ==
  \A i \in 0 .. n - 1 : e[i] = (r[i] + (MP_MASK - d[i])) % Radix

NegatesUp(r, d, n) ==
  /\ r \in [0 .. n -> 0 .. 1]
  /\ \A i \in 0 .. n - 1 : (r[i] + (MP_MASK - d[i])) % Radix \in Digits
  /\ \A e \in Vectors : Complemented(e, r, d, n) /\ Val(d)[n] > 0 => Val(e)[n] = Pow[n] - Val(d)[n]

LEMMA NegateLoop ==
  ASSUME NEW n \in Counts, NEW d \in Vectors, NEW C, Complements(C, d, n),
         NEW r, r = CarryUp(n, 1, C)
  PROVE  NegatesUp(r, d, n)
<1>1. n \in Nat /\ n <= MP_MAX_DIGIT_COUNT /\ Radix \in Nat /\ Radix > 1
  BY PlaceFacts, RadixFacts
<1>2. ASSUME NEW i \in 0 .. n - 1, NEW m \in 0 .. 1
      PROVE  LET x == m + (MP_MASK - d[i])
             IN  /\ i \in Places /\ d[i] \in Nat /\ C[i][m] = x \div Radix /\ C[i][m] \in 0 .. 1
                 /\ x % Radix \in Digits /\ (x % Radix) + C[i][m] * Radix = x
  <2>1. i \in Places
    BY <1>1, RadixFacts DEF Places
  <2>2. d[i] \in Nat /\ d[i] < Radix
    BY <2>1, DigitFacts
  <2>. DEFINE x == m + (MP_MASK - d[i])
  <2>3. x \in Nat /\ x < 2 * Radix
    BY <1>1, <2>2 DEF MP_MASK
  <2>4. C[i][m] = x \div Radix
    BY DEF Complements
  <2>. HIDE DEF x
  <2>5. x \div Radix \in 0 .. 1 /\ x % Radix \in Digits /\ (x % Radix) + (x \div Radix) * Radix = x
    <3>1. x \div Radix < 2 /\ x \div Radix \in Nat
      BY <2>3, SplitWord, WordBound
    <3>2. x \div Radix \in 0 .. 1
      <4>. DEFINE q == x \div Radix
      <4>. HIDE DEF q
      <4>1. q \in Nat /\ q < 2
        BY <3>1 DEF q
      <4>2. q \in 0 .. 1
        BY <4>1
      <4>. QED
        BY <4>2 DEF q
    <3>. QED
      BY <2>3, <3>2, SplitWord
  <2>. QED
    BY <2>1, <2>2, <2>4, <2>5 DEF x
<1>3. r \in [0 .. n -> 0 .. 1] /\ r[0] = 1 /\ \A i \in 0 .. n - 1 : r[i + 1] = C[i][r[i]]
  <2>. DEFINE S == 0 .. 1
              first == 1
  <2>1. S \subseteq Int /\ first \in S
    OBVIOUS
  <2>2. Carries(n, S, C)
    BY <1>2 DEF Carries
  <2>3. r = CarryUp(n, first, C)
    OBVIOUS
  <2>. HIDE DEF S, first
  <2>4. Upwards(r, n, S, first, C)
    BY <1>1, <2>1, <2>2, <2>3, CarriesUp
  <2>. QED
    BY <2>4 DEF Upwards, S, first
<1>4. \A i \in 0 .. n - 1 : i \in 0 .. n /\ i + 1 \in 0 .. n /\ r[i] \in 0 .. 1 /\ r[i + 1] \in 0 .. 1
  <2>1. \A i \in 0 .. n - 1 : i \in 0 .. n /\ i + 1 \in 0 .. n
    BY <1>1
  <2>. QED
    BY <1>3, <2>1
<1>5. ASSUME NEW e \in Vectors, Complemented(e, r, d, n), Val(d)[n] > 0
      PROVE  Val(e)[n] = Pow[n] - Val(d)[n]
  <2>. DEFINE s == [i \in 0 .. n |-> r[i] - 1]
  <2>1. s \in [0 .. n -> Int] /\ \A i \in 0 .. n : s[i] = r[i] - 1
    <3>1. r \in [0 .. n -> 0 .. 1]
      BY <1>3
    <3>2. \A i \in 0 .. n : r[i] \in 0 .. 1
      BY <3>1
    <3>3. \A i \in 0 .. n : r[i] - 1 \in Int
      BY <3>2
    <3>. QED
      BY <3>3
  <2>. HIDE DEF s
  <2>2. Loop(e, d, -1, s, n)
    <3>1. ASSUME NEW i \in 0 .. n - 1 PROVE Place(e, d, -1, s, i)
      <4>. DEFINE x == r[i] + (MP_MASK - d[i])
                  c == C[i][r[i]]
      <4>1. c \in 0 .. 1 /\ d[i] \in Nat /\ (x % Radix) + c * Radix = x /\ e[i] = x % Radix
            /\ r[i + 1] = c
        BY <1>2, <1>3, <1>4, <1>5 DEF Complemented
      <4>2. s[i] = r[i] - 1 /\ s[i + 1] = c - 1 /\ r[i] \in 0 .. 1
        BY <1>4, <2>1, <4>1
      <4>3. x = r[i] + (Radix - 1 - d[i])
        BY DEF MP_MASK
      <4>. HIDE DEF x, c
      <4>4. e[i] + c * Radix = x
        BY <4>1
      <4>5. (c - 1) * Radix = c * Radix - Radix /\ c * Radix \in Int
        BY <1>1, <4>1
      <4>. DEFINE p == c * Radix
      <4>6. p \in Int /\ e[i] + p = x /\ (c - 1) * Radix = p - Radix
        BY <4>4, <4>5
      <4>. HIDE DEF p
      <4>7. e[i] \in Int
        BY <1>2, DigitFacts
      <4>8. e[i] + (p - Radix) = (-1) * d[i] + (r[i] - 1)
        <5>1. \A y \in Int : (-1) * y = - y
          OBVIOUS
        <5>2. (-1) * d[i] = - d[i]
          BY <4>1, <5>1
        <5>3. d[i] \in Nat /\ r[i] \in Int /\ e[i] + p = r[i] + (Radix - 1 - d[i])
          BY <4>1, <4>2, <4>3, <4>6
        <5>. DEFINE f == e[i]
                    g == d[i]
                    h == r[i]
        <5>4. f \in Int /\ g \in Int /\ h \in Int /\ p \in Int /\ Radix \in Int
              /\ f + p = h + (Radix - 1 - g)
          BY <1>1, <4>6, <4>7, <5>3
        <5>. HIDE DEF f, g, h
        <5>5. f + (p - Radix) = - g + (h - 1)
          BY <5>4
        <5>. QED
          BY <5>2, <5>5 DEF f, g, h
      <4>. QED
        BY <4>2, <4>6, <4>8 DEF Place
    <3>. QED
      BY <2>1, <3>1 DEF Loop
  <2>3. Spelled(e, d, -1, s, n)
    <3>. DEFINE k == -1
    <3>1. k \in Int /\ Loop(e, d, k, s, n)
      BY <2>2
    <3>. HIDE DEF k
    <3>2. Spelled(e, d, k, s, n)
      BY <3>1, LoopSpells
    <3>. QED
      BY <3>2 DEF k
  <2>4. 0 \in 0 .. n /\ n \in 0 .. n
    BY <1>1
  <2>5. s[0] = 0 /\ s[n] = r[n] - 1 /\ r[n] \in 0 .. 1
    BY <1>3, <2>1, <2>4
  <2>. DEFINE v == Val(e)[n]
              w == Val(d)[n]
              P == Pow[n]
              t == r[n]
  <2>6. v \in Nat /\ w \in Nat /\ v < P /\ P \in Nat
    BY ValBounds, PowFacts, <1>1
  <2>7. v + (t - 1) * P = (-1) * w + 0
    BY <2>3, <2>5 DEF Spelled
  <2>8. w > 0 /\ t \in 0 .. 1
    BY <1>5, <2>5
  <2>. HIDE DEF v, w, P, t
  <2>9. CASE t = 0
    <3>1. (0 - 1) * P = - P
      BY <2>6
    <3>2. v - P = - w
      BY <2>6, <2>7, <2>9, <3>1
    <3>3. v = P - w
      BY <2>6, <3>2
    <3>. QED
      BY <3>3 DEF v, w, P
  <2>10. CASE t = 1
    <3>1. (1 - 1) * P = 0
      BY <2>6
    <3>2. v = - w
      BY <2>6, <2>7, <2>10, <3>1
    <3>. QED
      BY <2>6, <2>8, <3>2
  <2>. QED
    BY <2>8, <2>9, <2>10
<1>6. \A i \in 0 .. n - 1 : (r[i] + (MP_MASK - d[i])) % Radix \in Digits
  BY <1>2, <1>4
<1>. QED
  BY <1>3, <1>5, <1>6 DEF NegatesUp

(* A negative number has ones above its digits, another number zeros.      *)
Side(x) == IF IsNeg(x) THEN 1 ELSE 0

LEMMA HighBits ==
  ASSUME NEW x \in MpInts, Proper(x), NEW i \in Nat, i >= MP_DIGIT_BIT * x.used
  PROVE  Bit(IntVal(x), i) = Side(x)
<1>. DEFINE n == MP_DIGIT_BIT * x.used
            P == Pow[x.used]
            M == Mag(x)
            A == IntVal(x)
<1>1. n \in Nat /\ P = 2 ^ n /\ M \in Nat /\ M < P /\ P \in Nat /\ A = Signed(x.sign, M)
      /\ A \in Int /\ (IsNeg(x) <=> A < 0) /\ (IsNeg(x) <=> x.sign = MP_NEG)
  BY IntFacts, PowBits, PowFacts, ProperFacts DEF IsNeg
<1>2. i >= n
  OBVIOUS
<1>. HIDE DEF n, P, M, A
<1>3. CASE IsNeg(x)
  <2>. DEFINE z == P + A
  <2>1. A = - M /\ A < 0
    BY <1>1, <1>3 DEF Signed
  <2>2. z \in 0 .. P - 1 /\ A = P * (-1) + z
    BY <1>1, <2>1
  <2>. HIDE DEF z
  <2>3. -1 \in Int
    OBVIOUS
  <2>. DEFINE s == -1
  <2>4. s \in Int /\ A = 2 ^ n * s + z /\ z \in 0 .. 2 ^ n - 1 /\ s = -1
    BY <1>1, <2>2, <2>3
  <2>. HIDE DEF s
  <2>5. Joined(n, z, s, A)
    BY <1>1, <2>4, BitsJoined
  <2>6. Bit(A, i) = 1
    BY <1>2, <2>4, <2>5 DEF Joined
  <2>. QED
    BY <1>3, <2>6 DEF A, Side
<1>4. CASE ~ IsNeg(x)
  <2>1. A = M
    BY <1>1, <1>4 DEF Signed
  <2>. DEFINE s == 0
  <2>2. s \in Int /\ A = P * s + M /\ M \in 0 .. P - 1 /\ s = 0
    BY <1>1, <2>1
  <2>. HIDE DEF s
  <2>3. A = 2 ^ n * s + M /\ M \in 0 .. 2 ^ n - 1
    BY <1>1, <2>2
  <2>4. Joined(n, M, s, A)
    BY <1>1, <2>2, <2>3, BitsJoined
  <2>5. Bit(A, i) = 0
    BY <1>2, <2>2, <2>4 DEF Joined
  <2>. QED
    BY <1>4, <2>5 DEF A, Side
<1>. QED
  BY <1>3, <1>4

(* d has the u lowest digits of x in two's complement.                     *)
Twos(x, u, d) ==
  /\ d \in Vectors
  /\ \A i \in 0 .. u - 1 : d[i] = TwosComplement(x, u)[i]
  /\ Val(d)[u] = Pow[u] * Side(x) + IntVal(x)

LEMMA PaddedDigits ==
  ASSUME NEW x \in MpInts, NEW u \in Counts, x.used <= u
  PROVE  LET p == [i \in Places |-> PlainDigit(x, i)]
         IN  p \in Vectors /\ Val(p)[u] = Mag(x)
<1>. DEFINE p == [i \in Places |-> PlainDigit(x, i)]
<1>1. x.used \in Counts /\ x.used \in Nat /\ x.digit \in Vectors /\ Mag(x) = Val(x.digit)[x.used]
      /\ u \in Nat /\ 0 \in Digits
  BY IntFacts, PlaceFacts, RadixFacts DEF Digits
<1>2. p \in Vectors
  BY <1>1 DEF PlainDigit, Vectors
<1>3. (\A i \in Places : i < x.used => p[i] = x.digit[i]) /\ (\A i \in Places : i >= x.used => p[i] = 0)
  BY <1>1, PlaceFacts DEF PlainDigit
<1>. HIDE DEF p
<1>4. Val(p)[x.used] = Mag(x)
  BY <1>1, <1>2, <1>3, ValPrefix
<1>5. Val(p)[u] = Val(p)[x.used]
  BY <1>1, <1>2, <1>3, ValZeros
<1>. QED
  BY <1>2, <1>4, <1>5 DEF p

LEMMA TwosExists ==
  ASSUME NEW x \in MpInts, Proper(x), NEW u \in Counts, x.used <= u
  PROVE  \E d : Twos(x, u, d)
<1>. DEFINE p == [i \in Places |-> PlainDigit(x, i)]
            C == [i \in Nat |-> [m \in Nat |-> (m + ComplementDigit(x, i)) \div Radix]]
            c == CarryUp(u, 1, C)
            t == TwosComplement(x, u)
            d == [i \in Places |-> IF i < u THEN t[i] ELSE 0]
<1>1. p \in Vectors /\ Val(p)[u] = Mag(x)
  BY PaddedDigits
<1>2. /\ u \in Nat /\ u <= MP_MAX_DIGIT_COUNT /\ x.used \in Nat /\ IntVal(x) = Signed(x.sign, Mag(x))
      /\ Mag(x) \in Nat /\ Pow[u] \in Nat /\ Radix \in Nat /\ 0 \in Digits
  BY PlaceFacts, IntFacts, PowFacts, RadixFacts DEF Digits
<1>3. \A i \in 0 .. u - 1 : i \in Places /\ i \in Nat /\ i < u
  BY <1>2, RadixFacts DEF Places
<1>4. CASE ~ IsNeg(x)
  <2>1. \A i \in 0 .. u - 1 : t[i] = PlainDigit(x, i)
    BY <1>4 DEF TwosComplement
  <2>2. \A i \in 0 .. u - 1 : p[i] = t[i]
    BY <1>3, <2>1
  <2>3. Val(p)[u] = Pow[u] * Side(x) + IntVal(x)
    <3>1. IntVal(x) = Mag(x) /\ Side(x) = 0
      BY <1>2, <1>4 DEF Signed, IsNeg, Side
    <3>2. Pow[u] * 0 + Mag(x) = Mag(x)
      BY <1>2
    <3>. QED
      BY <1>1, <3>1, <3>2
  <2>. HIDE DEF p, t
  <2>4. Twos(x, u, p)
    BY <1>1, <2>2, <2>3 DEF Twos, t
  <2>. QED
    BY <2>4
<1>5. CASE IsNeg(x)
  <2>1. \A i \in 0 .. u - 1 : ComplementDigit(x, i) = MP_MASK - p[i]
    <3>. SUFFICES ASSUME NEW i \in 0 .. u - 1 PROVE ComplementDigit(x, i) = MP_MASK - p[i]
      OBVIOUS
    <3>1. p[i] = PlainDigit(x, i)
      BY <1>3
    <3>2. MP_MASK - 0 = MP_MASK
      BY <1>2 DEF MP_MASK
    <3>. HIDE DEF p
    <3>. QED
      BY <3>1, <3>2 DEF ComplementDigit, PlainDigit
  <2>2. \A i \in 0 .. u - 1 : t[i] = (c[i] + ComplementDigit(x, i)) % Radix
    BY <1>5 DEF TwosComplement
  <2>3. Complements(C, p, u)
    <3>1. \A i \in 0 .. u - 1, m \in 0 .. 1 : C[i][m] = (m + ComplementDigit(x, i)) \div Radix
      BY <1>3
    <3>. HIDE DEF C, p
    <3>. QED
      BY <2>1, <3>1 DEF Complements
  <2>4. c = CarryUp(u, 1, C)
    OBVIOUS
  <2>. HIDE DEF c, C, p, t
  <2>5. NegatesUp(c, p, u)
    BY <1>1, <2>3, <2>4, NegateLoop
  <2>6. \A i \in 0 .. u - 1 : t[i] = (c[i] + (MP_MASK - p[i])) % Radix
    BY <2>1, <2>2
  <2>7. d \in Vectors /\ \A i \in 0 .. u - 1 : d[i] = t[i]
    <3>1. \A i \in 0 .. u - 1 : t[i] \in Digits
      BY <2>5, <2>6 DEF NegatesUp
    <3>2. \A i \in Places : i < u => i \in 0 .. u - 1
      BY <1>2, PlaceFacts
    <3>3. d \in Vectors
      BY <1>2, <3>1, <3>2 DEF Vectors
    <3>. QED
      BY <1>3, <3>3
  <2>. HIDE DEF d
  <2>8. Complemented(d, c, p, u)
    BY <2>6, <2>7 DEF Complemented
  <2>9. Mag(x) > 0
    BY <1>5, ProperFacts
  <2>10. Val(d)[u] = Pow[u] - Mag(x)
    BY <1>1, <2>5, <2>7, <2>8, <2>9 DEF NegatesUp
  <2>11. Val(d)[u] = Pow[u] * Side(x) + IntVal(x)
    <3>1. IntVal(x) = - Mag(x) /\ Side(x) = 1
      BY <1>2, <1>5 DEF Signed, IsNeg, Side
    <3>2. Pow[u] * 1 + (- Mag(x)) = Pow[u] - Mag(x)
      BY <1>2
    <3>. QED
      BY <2>10, <3>1, <3>2
  <2>12. Twos(x, u, d)
    BY <2>7, <2>11 DEF Twos, t
  <2>. QED
    BY <2>12
<1>. QED
  BY <1>4, <1>5

(* Bit m of digit q.                                                       *)
LEMMA TwosBits ==
  ASSUME NEW x \in MpInts, Proper(x), NEW u \in Counts, x.used <= u, NEW d, Twos(x, u, d),
         NEW q \in Nat, q < u, NEW m \in 0 .. MP_DIGIT_BIT - 1
  PROVE  Bit(IntVal(x), MP_DIGIT_BIT * q + m) = Bit(d[q], m)
<1>. DEFINE n == MP_DIGIT_BIT * u
            i == MP_DIGIT_BIT * q + m
            z == Val(d)[u]
            A == IntVal(x)
            s == - Side(x)
            P == Pow[u]
<1>1. /\ u \in Nat /\ A \in Int /\ s \in Int /\ P \in Nat /\ P > 0 /\ n \in Nat /\ P = 2 ^ n
      /\ d \in Vectors /\ z = P * Side(x) + A /\ Side(x) \in 0 .. 1
  <2>1. Side(x) \in 0 .. 1
    BY DEF Side
  <2>. QED
    BY <2>1, IntFacts, PlaceFacts, PowFacts, PowBits DEF Twos
<1>2. z \in 0 .. P - 1
  <2>1. z \in Nat /\ z < P
    BY <1>1, ValBounds
  <2>. HIDE DEF z, P
  <2>. QED
    BY <1>1, <2>1
<1>3. i \in 0 .. n - 1
  <2>1. MP_DIGIT_BIT \in Nat /\ MP_DIGIT_BIT > 0
    BY RadixBits
  <2>2. q + 1 <= u /\ q + 1 \in Nat
    BY <1>1
  <2>3. \A r, v, w \in Nat : v <= w => r * v <= r * w
    BY Products, MonotoneProduct
  <2>4. MP_DIGIT_BIT * (q + 1) <= MP_DIGIT_BIT * u
    BY <1>1, <2>1, <2>2, <2>3
  <2>5. MP_DIGIT_BIT * (q + 1) = MP_DIGIT_BIT * q + MP_DIGIT_BIT /\ MP_DIGIT_BIT * q \in Nat
    BY <2>1
  <2>. DEFINE j == MP_DIGIT_BIT * q
  <2>6. j \in Nat /\ j + MP_DIGIT_BIT <= n
    BY <2>4, <2>5
  <2>. HIDE DEF j, n
  <2>7. j + m \in 0 .. n - 1
    BY <1>1, <2>1, <2>6
  <2>. QED
    BY <2>7 DEF j
<1>4. Bit(z, i) = Bit(d[q], m)
  BY <1>1, DigitBits
<1>. HIDE DEF n, i, z, A, s, P
<1>5. A = P * s + z
  <2>1. CASE Side(x) = 0
    <3>0. \A y \in Int : y <= 0 /\ y >= 0 => - y = y
      OBVIOUS
    <3>1. s = 0 /\ P * 0 = 0
      <4>1. s = - Side(x) /\ Side(x) \in Int /\ Side(x) <= 0 /\ Side(x) >= 0
        BY <1>1, <2>1 DEF s
      <4>2. s = Side(x)
        BY <3>0, <4>1
      <4>. QED
        BY <1>1, <2>1, <4>2
    <3>. QED
      BY <1>1, <1>2, <2>1, <3>1
  <2>2. CASE Side(x) = 1
    <3>1. s = -1 /\ P * (-1) = - P /\ P * 1 = P
      BY <1>1, <2>2 DEF s
    <3>. QED
      BY <1>1, <1>2, <2>2, <3>1
  <2>. QED
    BY <1>1, <2>1, <2>2
<1>6. A = 2 ^ n * s + z /\ z \in 0 .. 2 ^ n - 1
  BY <1>1, <1>2, <1>5
<1>7. Joined(n, z, s, A)
  BY <1>1, <1>6, BitsJoined
<1>8. Bit(A, i) = Bit(z, i)
  BY <1>3, <1>7 DEF Joined
<1>. QED
  BY <1>4, <1>8 DEF A, i

(* A number whose bits below n are those that Op makes of the bits of A    *)
(* and B, n places and more holding the signs of A and B.                  *)
LowBitsOf(Op, A, B, v, n) == \A i \in 0 .. n - 1 : Bit(v, i) = TableBit(Op, A, B, i)
BitsOf(Op, A, B, v) == \A i \in Nat : Bit(v, i) = TableBit(Op, A, B, i)

LEMMA ZeroBits == \A i \in Nat : Bit(0, i) = 0
<1>. SUFFICES ASSUME NEW i \in Nat PROVE Bit(0, i) = 0
  OBVIOUS
<1>. DEFINE T == 2 ^ i
<1>1. T \in Nat /\ T > 0
  BY TwoTo
<1>2. Bit(0, i) = (0 \div T) % 2
  BY DEF Bit
<1>. HIDE DEF T
<1>3. T * 0 + 0 = 0 /\ 0 \in 0 .. T - 1 /\ 0 \in Int
  BY <1>1
<1>4. (T * 0 + 0) \div T = 0
  BY <1>1, <1>3, DivisionUnique
<1>5. 0 \div T = 0
  BY <1>3, <1>4
<1>. QED
  BY <1>2, <1>5

(* The digits that mp_and, mp_or and mp_xor compute.                       *)
LEMMA CombinedDigits ==
  ASSUME NEW a \in MpInts, Proper(a), NEW b \in MpInts, Proper(b), NEW u \in Counts,
         a.used < u, b.used < u, NEW Op \in Tables, NEW d, NEW e, Twos(a, u, d), Twos(b, u, e),
         NEW z \in Vectors, \A i \in 0 .. u - 1 : z[i] = DigitOp(Op, d[i], e[i])
  PROVE  LowBitsOf(Op, IntVal(a), IntVal(b), Val(z)[u], MP_DIGIT_BIT * u)
<1>. DEFINE n == MP_DIGIT_BIT * u
            A == IntVal(a)
            B == IntVal(b)
<1>1. u \in Nat /\ u <= MP_MAX_DIGIT_COUNT /\ a.used <= u /\ b.used <= u /\ d \in Vectors /\ e \in Vectors
      /\ MP_DIGIT_BIT \in Nat /\ MP_DIGIT_BIT > 0
  BY PlaceFacts, IntFacts, RadixBits DEF Twos
<1>. SUFFICES ASSUME NEW i \in 0 .. n - 1 PROVE Bit(Val(z)[u], i) = TableBit(Op, A, B, i)
  BY DEF LowBitsOf
<1>. DEFINE q == i \div MP_DIGIT_BIT
            m == i % MP_DIGIT_BIT
<1>2. i \in Nat /\ i < MP_DIGIT_BIT * u
  <2>1. n \in Nat
    BY <1>1
  <2>. HIDE DEF n
  <2>2. i \in Nat /\ i < n
    BY <2>1
  <2>. QED
    BY <2>2 DEF n
<1>3. q \in Nat /\ m \in 0 .. MP_DIGIT_BIT - 1 /\ i = MP_DIGIT_BIT * q + m /\ q < u
  BY <1>1, <1>2, BitCount, Quotient
<1>. HIDE DEF q, m, n
<1>4. Bit(Val(z)[u], i) = Bit(z[q], m)
  BY <1>3, DigitBits
<1>5. Bit(A, i) = Bit(d[q], m) /\ Bit(B, i) = Bit(e[q], m)
  BY <1>1, <1>3, TwosBits
<1>6. q \in 0 .. u - 1 /\ q \in Places
  BY <1>1, <1>3, RadixFacts DEF Places
<1>7. d[q] \in Nat /\ e[q] \in Nat
  BY <1>1, <1>6, DigitFacts
<1>8. Bit(z[q], m) = TableBit(Op, d[q], e[q], m)
  BY <1>3, <1>6, <1>7, DigitOpFacts
<1>. HIDE DEF A, B
<1>. QED
  BY <1>4, <1>5, <1>8 DEF TableBit

(* The sign the result has, and the bits above its digits.                 *)
LEMMA SignedBits ==
  ASSUME NEW a \in MpInts, Proper(a), NEW b \in MpInts, Proper(b), NEW u \in Counts,
         a.used < u, b.used < u, NEW Op \in Tables, NEW z \in 0 .. Pow[u] - 1,
         NEW neg \in BOOLEAN, neg <=> Op[Side(a)][Side(b)] = 1,
         LowBitsOf(Op, IntVal(a), IntVal(b), z, MP_DIGIT_BIT * u)
  PROVE  /\ neg => z > 0 /\ BitsOf(Op, IntVal(a), IntVal(b), - (Pow[u] - z))
         /\ ~ neg => BitsOf(Op, IntVal(a), IntVal(b), z)
<1>. DEFINE n == MP_DIGIT_BIT * u
            A == IntVal(a)
            B == IntVal(b)
            P == Pow[u]
            o == Op[Side(a)][Side(b)]
<1>1. /\ u \in Nat /\ a.used \in Nat /\ b.used \in Nat /\ MP_DIGIT_BIT \in Nat /\ MP_DIGIT_BIT > 0
      /\ n \in Nat /\ P = 2 ^ n /\ P \in Nat /\ P > 0 /\ Side(a) \in 0 .. 1 /\ Side(b) \in 0 .. 1
  <2>1. u \in Nat /\ a.used \in Nat /\ b.used \in Nat /\ MP_DIGIT_BIT \in Nat /\ MP_DIGIT_BIT > 0
    BY PlaceFacts, IntFacts, RadixBits
  <2>2. n \in Nat /\ P = 2 ^ n /\ P \in Nat /\ P > 0
    BY <2>1, PowBits, PowFacts
  <2>3. Side(a) \in 0 .. 1 /\ Side(b) \in 0 .. 1
    BY DEF Side
  <2>. QED
    BY <2>1, <2>2, <2>3
<1>2. o \in 0 .. 1 /\ (neg <=> o = 1)
  BY <1>1 DEF Tables
<1>3. n - 1 \in Nat /\ \A i \in Nat : i >= n - 1 => i >= MP_DIGIT_BIT * a.used /\ i >= MP_DIGIT_BIT * b.used
  <2>1. \A r, v, w \in Nat : v <= w => r * v <= r * w
    BY Products, MonotoneProduct
  <2>2. MP_DIGIT_BIT * (u - 1) = MP_DIGIT_BIT * u - MP_DIGIT_BIT /\ u - 1 \in Nat
        /\ a.used <= u - 1 /\ b.used <= u - 1
    BY <1>1
  <2>. DEFINE x == MP_DIGIT_BIT * a.used
              y == MP_DIGIT_BIT * b.used
              w == MP_DIGIT_BIT * (u - 1)
  <2>3. x \in Nat /\ y \in Nat /\ w \in Nat /\ x <= w /\ y <= w
    BY <1>1, <2>1, <2>2
  <2>4. w = n - MP_DIGIT_BIT
    BY <2>2
  <2>. HIDE DEF x, y, w, n
  <2>5. n - 1 \in Nat /\ \A i \in Nat : i >= n - 1 => i >= x /\ i >= y
    BY <1>1, <2>3, <2>4
  <2>. QED
    BY <2>5 DEF x, y
<1>4. ASSUME NEW i \in Nat, i >= n - 1 PROVE TableBit(Op, A, B, i) = o
  BY <1>3, <1>4, HighBits DEF TableBit
<1>5. LowBitsOf(Op, A, B, z, n)
  OBVIOUS
<1>6. \A i \in Nat : i >= n => i >= n - 1
  BY <1>1
<1>7. z \in 0 .. P - 1
  OBVIOUS
<1>. HIDE DEF n, A, B, P, o
<1>8. \A i \in Nat : i < n => i \in 0 .. n - 1
  BY <1>1
<1>9. CASE ~ neg
  <2>1. o = 0
    BY <1>2, <1>9
  <2>. DEFINE s == 0
  <2>2. s \in Int /\ s = 0 /\ z = P * s + z /\ z \in Int
    BY <1>1, <1>7
  <2>. HIDE DEF s
  <2>3. z = 2 ^ n * s + z /\ z \in 0 .. 2 ^ n - 1
    BY <1>1, <1>7, <2>2
  <2>4. Joined(n, z, s, z)
    BY <1>1, <2>2, <2>3, BitsJoined
  <2>5. \A i \in Nat : i >= n => Bit(z, i) = 0
    BY <2>2, <2>4 DEF Joined
  <2>6. ASSUME NEW i \in Nat PROVE Bit(z, i) = TableBit(Op, A, B, i)
    <3>1. CASE i < n
      BY <1>5, <1>8, <3>1 DEF LowBitsOf
    <3>2. CASE i >= n
      BY <1>4, <1>6, <2>1, <2>5, <3>2
    <3>. QED
      BY <1>1, <3>1, <3>2
  <2>. QED
    BY <1>9, <2>6 DEF BitsOf, A, B
<1>10. CASE neg
  <2>1. o = 1
    BY <1>2, <1>10
  <2>2. z > 0
    <3>1. n - 1 \in 0 .. n - 1 /\ n - 1 >= n - 1
      BY <1>1, <1>3
    <3>2. Bit(z, n - 1) = 1
      BY <1>3, <1>4, <1>5, <2>1, <3>1 DEF LowBitsOf
    <3>3. z # 0
      BY <1>3, <3>2, ZeroBits
    <3>. QED
      BY <1>1, <1>7, <3>3
  <2>. DEFINE s == -1
              v == - (P - z)
  <2>3. s \in Int /\ s = -1 /\ v = P * s + z /\ v \in Int
    BY <1>1, <1>7
  <2>. HIDE DEF s, v
  <2>4. v = 2 ^ n * s + z /\ z \in 0 .. 2 ^ n - 1
    BY <1>1, <1>7, <2>3
  <2>5. Joined(n, z, s, v)
    BY <1>1, <2>3, <2>4, BitsJoined
  <2>6. (\A i \in Nat : i >= n => Bit(v, i) = 1) /\ (\A i \in 0 .. n - 1 : Bit(v, i) = Bit(z, i))
    BY <2>3, <2>5 DEF Joined
  <2>7. ASSUME NEW i \in Nat PROVE Bit(v, i) = TableBit(Op, A, B, i)
    <3>1. CASE i < n
      BY <1>5, <1>8, <2>6, <3>1 DEF LowBitsOf
    <3>2. CASE i >= n
      BY <1>4, <1>6, <2>1, <2>6, <3>2
    <3>. QED
      BY <1>1, <3>1, <3>2
  <2>. QED
    BY <1>10, <2>2, <2>7 DEF BitsOf, A, B, v, P
<1>. QED
  BY <1>9, <1>10

LEMMA CombinedHolds ==
  ASSUME NEW a \in MpInts, Proper(a), NEW b \in MpInts, Proper(b), NEW g \in MpInts,
         NEW u \in Counts, a.used < u, b.used < u, u <= g.alloc, NEW Op \in Tables,
         NEW neg \in BOOLEAN, neg <=> Op[Side(a)][Side(b)] = 1
  PROVE  \E v \in Int : /\ Holds(Combined(a, b, neg, Op, u, g), FALSE, v)
                        /\ BitsOf(Op, IntVal(a), IntVal(b), v)
<1>. DEFINE x == TwosComplement(a, u)
            y == TwosComplement(b, u)
            w == [i \in 0 .. u - 1 |-> DigitOp(Op, x[i], y[i])]
            z == [i \in Places |-> IF i < u THEN w[i] ELSE 0]
            C == [i \in Nat |-> [m \in Nat |-> (m + MP_MASK - w[i]) \div Radix]]
            cc == CarryUp(u, 1, C)
            D(i) == IF neg THEN (cc[i] + MP_MASK - w[i]) % Radix ELSE w[i]
            e == [i \in Places |-> IF i < u THEN D(i) ELSE g.digit[i]]
            s == IF neg THEN MP_NEG ELSE MP_ZPOS
            h == [g EXCEPT !.used = u, !.sign = s, !.digit = e]
            P == Pow[u]
            A == IntVal(a)
            B == IntVal(b)
<1>1. /\ u \in Nat /\ u > 0 /\ u <= MP_MAX_DIGIT_COUNT /\ a.used <= u /\ b.used <= u /\ 0 \in Digits
      /\ Radix \in Nat /\ Radix > 1 /\ g.digit \in Vectors /\ P \in Nat /\ P > 0 /\ s \in Signs
  BY PlaceFacts, IntFacts, RadixFacts, PowFacts DEF Digits, Signs
<1>2. \A i \in 0 .. u - 1 : i \in Places /\ i < u
  BY <1>1, RadixFacts DEF Places
<1>3. \A i \in Places : i < u => i \in 0 .. u - 1
  BY <1>1, PlaceFacts
<1>4. PICK d, f : Twos(a, u, d) /\ Twos(b, u, f)
  BY <1>1, TwosExists
<1>5. \A i \in 0 .. u - 1 : w[i] = DigitOp(Op, d[i], f[i]) /\ w[i] \in Digits
  <2>. SUFFICES ASSUME NEW i \in 0 .. u - 1
                PROVE  w[i] = DigitOp(Op, d[i], f[i]) /\ w[i] \in Digits
    OBVIOUS
  <2>1. d[i] = x[i] /\ f[i] = y[i] /\ d \in Vectors /\ f \in Vectors
    BY <1>4 DEF Twos
  <2>2. d[i] \in Nat /\ f[i] \in Nat
    BY <1>2, <2>1, DigitFacts
  <2>3. w[i] = DigitOp(Op, d[i], f[i])
    BY <2>1
  <2>. QED
    BY <2>2, <2>3, DigitOpFacts
<1>6. Combined(a, b, neg, Op, u, g) = mp_clamp(h)
  <2>1. e = Written(g.digit, u, D)
    BY DEF Written
  <2>. HIDE DEF e
  <2>. QED
    BY <2>1 DEF Combined
<1>. HIDE DEF w, x, y
<1>7. z \in Vectors /\ \A i \in 0 .. u - 1 : z[i] = w[i]
  BY <1>1, <1>2, <1>3, <1>5 DEF Vectors
<1>. HIDE DEF z
<1>8. LowBitsOf(Op, A, B, Val(z)[u], MP_DIGIT_BIT * u)
  BY <1>4, <1>5, <1>7, CombinedDigits
<1>9. Val(z)[u] \in 0 .. P - 1
  <2>1. Val(z)[u] \in Nat /\ Val(z)[u] < P
    BY <1>7, ValBounds
  <2>. HIDE DEF P
  <2>. QED
    BY <1>1, <2>1
<1>10. /\ neg => Val(z)[u] > 0 /\ BitsOf(Op, A, B, - (P - Val(z)[u]))
       /\ ~ neg => BitsOf(Op, A, B, Val(z)[u])
  BY <1>8, <1>9, SignedBits
<1>11. \A i \in 0 .. u - 1, m \in 0 .. 1 :
         m + MP_MASK - w[i] = m + (MP_MASK - z[i])
  <2>. SUFFICES ASSUME NEW i \in 0 .. u - 1, NEW m \in 0 .. 1
                PROVE  m + MP_MASK - w[i] = m + (MP_MASK - z[i])
    OBVIOUS
  <2>1. w[i] \in Int /\ z[i] = w[i] /\ MP_MASK \in Int
    BY <1>1, <1>5, <1>7 DEF Digits, MP_MASK
  <2>. QED
    BY <2>1
<1>12. NegatesUp(cc, z, u)
  <2>1. \A i \in 0 .. u - 1, m \in 0 .. 1 : C[i][m] = (m + MP_MASK - w[i]) \div Radix
    BY <1>1
  <2>2. cc = CarryUp(u, 1, C)
    OBVIOUS
  <2>. HIDE DEF C, cc
  <2>3. Complements(C, z, u)
    BY <1>11, <2>1 DEF Complements
  <2>. QED
    BY <1>7, <2>2, <2>3, NegateLoop
<1>. HIDE DEF C, cc
<1>13. \A i \in 0 .. u - 1 : (cc[i] + MP_MASK - w[i]) % Radix = (cc[i] + (MP_MASK - z[i])) % Radix
  <2>1. \A i \in 0 .. u - 1 : cc[i] \in 0 .. 1
    <3>1. \A i \in 0 .. u - 1 : i \in 0 .. u
      BY <1>1
    <3>. QED
      BY <1>12, <3>1 DEF NegatesUp
  <2>. QED
    BY <1>11, <2>1
<1>14. \A i \in 0 .. u - 1 : D(i) \in Digits
  BY <1>5, <1>12, <1>13 DEF NegatesUp
<1>15. e \in Vectors /\ \A i \in 0 .. u - 1 : e[i] = D(i)
  <2>1. \A i \in 0 .. u - 1 : e[i] = D(i)
    BY <1>2
  <2>. HIDE DEF D
  <2>2. e \in Vectors
    BY <1>1, <1>3, <1>14 DEF Vectors
  <2>. QED
    BY <2>1, <2>2
<1>. HIDE DEF e
<1>. DEFINE v == IF neg THEN - (P - Val(z)[u]) ELSE Val(z)[u]
<1>16. Signed(s, Val(e)[u]) = v
  <2>1. CASE neg
    <3>1. Complemented(e, cc, z, u)
      BY <1>13, <1>15, <2>1 DEF Complemented
    <3>2. Val(e)[u] = P - Val(z)[u]
      BY <1>10, <1>12, <1>15, <2>1, <3>1 DEF NegatesUp
    <3>. QED
      BY <2>1, <3>2 DEF Signed
  <2>2. CASE ~ neg
    <3>1. \A i \in Places : i < u => e[i] = z[i]
      BY <1>3, <1>7, <1>15, <2>2
    <3>2. Val(e)[u] = Val(z)[u]
      BY <1>7, <1>15, <3>1, ValPrefix
    <3>. QED
      BY <2>2, <3>2 DEF Signed, MP_NEG, MP_ZPOS
  <2>. QED
    BY <2>1, <2>2
<1>17. v \in Int /\ BitsOf(Op, A, B, v)
  BY <1>1, <1>9, <1>10
<1>18. /\ h \in MpInts /\ h.used = u /\ h.used # 0 /\ h.used <= h.alloc /\ h.sign = s
       /\ Mag(h) = Val(e)[u]
  <2>. HIDE DEF s
  <2>1. g.alloc \in Counts /\ u # 0
    BY <1>1, IntFacts
  <2>2. h \in MpInts /\ h.used = u /\ h.alloc = g.alloc /\ h.sign = s /\ h.digit = e
    BY <1>1, <1>15 DEF MpInts
  <2>3. Mag(h) = Val(e)[u]
    BY <2>2 DEF Mag
  <2>. QED
    BY <2>1, <2>2, <2>3
<1>. HIDE DEF h, v, s, A, B
<1>19. Holds(mp_clamp(h), FALSE, v)
  <2>1. Holds(mp_clamp(h), FALSE, Signed(h.sign, Mag(h)))
    BY <1>18, ClampHolds
  <2>. QED
    BY <1>16, <1>18, <2>1
<1>. QED
  BY <1>6, <1>17, <1>19 DEF A, B

LEMMA BitOpDelivers ==
  ASSUME NEW a \in MpInts, Proper(a), NEW b \in MpInts, Proper(b), NEW c \in MpInts, Proper(c),
         NEW Op \in Tables, NEW neg \in BOOLEAN, neg <=> Op[Side(a)][Side(b)] = 1
  PROVE  Delivers(BitOp(a, b, c, neg, Op), FALSE,
                  {v \in Int : BitsOf(Op, IntVal(a), IntVal(b), v)}, {IntVal(c)})
<1>. DEFINE R == BitOp(a, b, c, neg, Op)
            V == {v \in Int : BitsOf(Op, IntVal(a), IntVal(b), v)}
            F == {IntVal(c)}
            size == MaxOf(a.used, b.used) + 1
<1>1. size \in Nat /\ IntVal(c) \in F /\ a.used < size /\ b.used < size
  <2>1. a.used \in Nat /\ b.used \in Nat
    BY IntFacts
  <2>. QED
    BY <2>1 DEF MaxOf
<1>2. \A r \in R : \/ r \in Grow(c, size) /\ r.code # "OKAY"
                   \/ \E s \in Grow(c, size) : /\ s.code = "OKAY"
                                               /\ r = Okay(Combined(a, b, neg, Op, size, s.num))
  BY DEF BitOp, Then
<1>. HIDE DEF size
<1>3. ASSUME NEW s \in Grow(c, size), s.code = "OKAY"
      PROVE  Delivers({Okay(Combined(a, b, neg, Op, size, s.num))}, FALSE, V, F)
  <2>1. s.num \in MpInts /\ size <= s.num.alloc /\ size \in Counts
    BY <1>1, <1>3, Grown
  <2>. DEFINE x == Combined(a, b, neg, Op, size, s.num)
  <2>2. PICK v \in Int : Holds(x, FALSE, v) /\ BitsOf(Op, IntVal(a), IntVal(b), v)
    BY <1>1, <2>1, CombinedHolds
  <2>. HIDE DEF x
  <2>3. Delivers({Okay(x)}, FALSE, {v}, F)
    BY <2>2, OkayDelivers
  <2>4. v \in V
    BY <2>2
  <2>. HIDE DEF V, F
  <2>5. Delivers({Okay(x)}, FALSE, V, F)
    BY <2>3, <2>4 DEF Delivers
  <2>. QED
    BY <2>5 DEF x
<1>. HIDE DEF R, V, F
<1>4. AfterGrow(R, c, size, FALSE, V, F)
  BY <1>2, <1>3 DEF AfterGrow
<1>5. Delivers(R, FALSE, V, F)
  BY <1>1, <1>4, GrowDelivers
<1>. QED
  BY <1>5 DEF R, V, F

LEMMA TableFacts ==
  /\ And \in Tables /\ Or \in Tables /\ Xor \in Tables
  /\ \A x, y \in 0 .. 1 : And[x][y] = x * y /\ Or[x][y] = MaxOf(x, y) /\ Xor[x][y] = (x + y) % 2
<1>1. \A x, y \in 0 .. 1 : x * y \in 0 .. 1 /\ MaxOf(x, y) \in 0 .. 1 /\ (x + y) % 2 \in 0 .. 1
  <2>. SUFFICES ASSUME NEW x \in 0 .. 1, NEW y \in 0 .. 1
                PROVE  x * y \in 0 .. 1 /\ MaxOf(x, y) \in 0 .. 1 /\ (x + y) % 2 \in 0 .. 1
    OBVIOUS
  <2>1. x = 0 \/ x = 1
    OBVIOUS
  <2>2. x * y \in 0 .. 1
    BY <2>1
  <2>3. MaxOf(x, y) \in 0 .. 1
    BY DEF MaxOf
  <2>4. (x + y) % 2 \in 0 .. 1
    OBVIOUS
  <2>. QED
    BY <2>2, <2>3, <2>4
<1>2. And \in Tables /\ \A x, y \in 0 .. 1 : And[x][y] = x * y
  BY <1>1 DEF And, Tables
<1>3. Or \in Tables /\ \A x, y \in 0 .. 1 : Or[x][y] = MaxOf(x, y)
  BY <1>1 DEF Or, Tables
<1>4. Xor \in Tables /\ \A x, y \in 0 .. 1 : Xor[x][y] = (x + y) % 2
  BY <1>1 DEF Xor, Tables
<1>. QED
  BY <1>2, <1>3, <1>4

(* What the bits of v are to be.                                           *)
AndBits(A, B, v) == \A i \in Nat : Bit(v, i) = Bit(A, i) * Bit(B, i)
OrBits(A, B, v) == \A i \in Nat : Bit(v, i) = MaxOf(Bit(A, i), Bit(B, i))
XorBits(A, B, v) == \A i \in Nat : Bit(v, i) = (Bit(A, i) + Bit(B, i)) % 2

LEMMA BitOpsDeliver ==
  ASSUME NEW a \in MpInts, Proper(a), NEW b \in MpInts, Proper(b), NEW c \in MpInts, Proper(c)
  PROVE  /\ Delivers(BitAnd(a, b, c), FALSE, {v \in Int : AndBits(IntVal(a), IntVal(b), v)}, {IntVal(c)})
         /\ Delivers(BitOr(a, b, c), FALSE, {v \in Int : OrBits(IntVal(a), IntVal(b), v)}, {IntVal(c)})
         /\ Delivers(BitXor(a, b, c), FALSE, {v \in Int : XorBits(IntVal(a), IntVal(b), v)}, {IntVal(c)})
<1>. DEFINE A == IntVal(a)
            B == IntVal(b)
            F == {IntVal(c)}
<1>1. A \in Int /\ B \in Int /\ Side(a) \in 0 .. 1 /\ Side(b) \in 0 .. 1
  BY IntFacts DEF Side
<1>2. \A i \in Nat : Bit(A, i) \in 0 .. 1 /\ Bit(B, i) \in 0 .. 1
  BY <1>1, BitFacts
<1>. HIDE DEF A, B, F
<1>3. Delivers(BitAnd(a, b, c), FALSE, {v \in Int : AndBits(A, B, v)}, F)
  <2>. DEFINE neg == IsNeg(a) /\ IsNeg(b)
  <2>1. neg \in BOOLEAN /\ (neg <=> And[Side(a)][Side(b)] = 1)
    <3>1. And[Side(a)][Side(b)] = Side(a) * Side(b)
      BY <1>1, TableFacts
    <3>2. 1 * 1 = 1 /\ 0 * 1 = 0 /\ 1 * 0 = 0 /\ 0 * 0 = 0
      OBVIOUS
    <3>. QED
      BY <3>1, <3>2 DEF Side
  <2>2. BitAnd(a, b, c) = BitOp(a, b, c, neg, And)
    BY DEF BitAnd
  <2>. HIDE DEF neg
  <2>3. Delivers(BitOp(a, b, c, neg, And), FALSE, {v \in Int : BitsOf(And, A, B, v)}, F)
    BY <2>1, TableFacts, BitOpDelivers DEF A, B, F
  <2>4. {v \in Int : BitsOf(And, A, B, v)} \subseteq {v \in Int : AndBits(A, B, v)}
    BY <1>2, TableFacts DEF BitsOf, AndBits, TableBit
  <2>. QED
    BY <2>2, <2>3, <2>4, DeliversSame
<1>4. Delivers(BitOr(a, b, c), FALSE, {v \in Int : OrBits(A, B, v)}, F)
  <2>. DEFINE neg == IsNeg(a) \/ IsNeg(b)
  <2>1. neg \in BOOLEAN /\ (neg <=> Or[Side(a)][Side(b)] = 1)
    <3>1. Or[Side(a)][Side(b)] = MaxOf(Side(a), Side(b))
      BY <1>1, TableFacts
    <3>. QED
      BY <3>1 DEF Side, MaxOf
  <2>2. BitOr(a, b, c) = BitOp(a, b, c, neg, Or)
    BY DEF BitOr
  <2>. HIDE DEF neg
  <2>3. Delivers(BitOp(a, b, c, neg, Or), FALSE, {v \in Int : BitsOf(Or, A, B, v)}, F)
    BY <2>1, TableFacts, BitOpDelivers DEF A, B, F
  <2>4. {v \in Int : BitsOf(Or, A, B, v)} \subseteq {v \in Int : OrBits(A, B, v)}
    BY <1>2, TableFacts DEF BitsOf, OrBits, TableBit
  <2>. QED
    BY <2>2, <2>3, <2>4, DeliversSame
<1>5. Delivers(BitXor(a, b, c), FALSE, {v \in Int : XorBits(A, B, v)}, F)
  <2>. DEFINE neg == a.sign # b.sign
  <2>1. neg \in BOOLEAN /\ (neg <=> Xor[Side(a)][Side(b)] = 1)
    <3>1. Xor[Side(a)][Side(b)] = (Side(a) + Side(b)) % 2
      BY <1>1, TableFacts
    <3>2. (a.sign = MP_NEG \/ a.sign = MP_ZPOS) /\ (b.sign = MP_NEG \/ b.sign = MP_ZPOS)
          /\ MP_NEG # MP_ZPOS
      BY IntFacts DEF Signs, MP_NEG, MP_ZPOS
    <3>3. neg <=> Side(a) # Side(b)
      BY <3>2 DEF Side, IsNeg
    <3>4. Side(a) # Side(b) <=> (Side(a) + Side(b)) % 2 = 1
      BY <1>1
    <3>. QED
      BY <3>1, <3>3, <3>4
  <2>2. BitXor(a, b, c) = BitOp(a, b, c, neg, Xor)
    BY DEF BitXor
  <2>. HIDE DEF neg
  <2>3. Delivers(BitOp(a, b, c, neg, Xor), FALSE, {v \in Int : BitsOf(Xor, A, B, v)}, F)
    BY <2>1, TableFacts, BitOpDelivers DEF A, B, F
  <2>4. {v \in Int : BitsOf(Xor, A, B, v)} \subseteq {v \in Int : XorBits(A, B, v)}
    BY <1>2, TableFacts DEF BitsOf, XorBits, TableBit
  <2>. QED
    BY <2>2, <2>3, <2>4, DeliversSame
<1>. QED
  BY <1>3, <1>4, <1>5 DEF A, B, F
-----------------------------------------------------------------------------
(* Calls made of other calls.                                              *)
LEMMA ComplementDelivers ==
  ASSUME NEW a \in MpInts, Proper(a), NEW c \in MpInts, Proper(c), NEW same \in BOOLEAN,
         same => a = c, NEW E \in BOOLEAN, E => NoExcess(c)
  PROVE  Delivers(Complement(a, c, same), E,
                  IF same /\ c.alloc = c.used THEN Int ELSE {- IntVal(a) - 1}, {IntVal(c)})
<1>. DEFINE s == IF ~ IsNeg(a) /\ ~ IsZero(a) THEN MP_NEG ELSE MP_ZPOS
            d == [a EXCEPT !.sign = s]
            read == IF same /\ c.alloc < a.used + 1 THEN Dangling(d) ELSE {d}
            size == a.used + 1
            R == Complement(a, c, same)
            V == IF same /\ c.alloc = c.used THEN Int ELSE {- IntVal(a) - 1}
            F == {IntVal(c)}
<1>1. /\ d \in MpInts /\ d.used = a.used /\ d.alloc = a.alloc /\ d.sign = s /\ d.digit = a.digit
  BY DEF MpInts, Signs
<1>. HIDE DEF d
<1>3. Proper(d)
  BY <1>1 DEF Proper, IsZero
<1>4. IntVal(d) = - IntVal(a)
  <2>1. Mag(d) = Mag(a) /\ Mag(a) \in Nat /\ IntVal(a) = Signed(a.sign, Mag(a))
        /\ IntVal(d) = Signed(d.sign, Mag(d)) /\ (IsZero(a) => Mag(a) = 0) /\ MP_NEG # MP_ZPOS
    BY <1>1, IntFacts, ProperFacts DEF Mag, IsZero, MP_NEG, MP_ZPOS
  <2>2. \A x \in Int : x <= 0 /\ x >= 0 => - x = x
    OBVIOUS
  <2>3. CASE IsNeg(a)
    <3>1. IntVal(a) = - Mag(a) /\ IntVal(d) = Mag(a)
      BY <1>1, <2>1, <2>3 DEF Signed, IsNeg
    <3>. QED
      BY <2>1, <3>1
  <2>4. CASE ~ IsNeg(a) /\ ~ IsZero(a)
    <3>1. IntVal(a) = Mag(a) /\ IntVal(d) = - Mag(a)
      BY <1>1, <2>1, <2>4 DEF Signed, IsNeg
    <3>. QED
      BY <3>1
  <2>5. CASE ~ IsNeg(a) /\ IsZero(a)
    <3>1. IntVal(a) = Mag(a) /\ IntVal(d) = Mag(a) /\ Mag(a) <= 0 /\ Mag(a) >= 0
      BY <1>1, <2>1, <2>5 DEF Signed, IsNeg
    <3>. QED
      BY <2>1, <2>2, <3>1
  <2>. QED
    BY <2>3, <2>4, <2>5
<1>5. 1 \in Digits /\ a.used \in Nat /\ size \in Nat /\ IntVal(c) \in F /\ IntVal(a) \in Int
      /\ a.used \in Counts /\ a.digit \in Vectors /\ c.alloc \in Nat /\ c.used <= c.alloc
  BY RadixFacts, IntFacts DEF Digits, Proper
<1>6. \A r \in R :
        \/ r \in Grow(c, size) /\ r.code # "OKAY"
        \/ \E g \in Grow(c, size), m \in read :
             g.code = "OKAY" /\ r = Okay(SubGrown(m, 1, g.num))
  BY DEF Complement, Then, d
<1>7. ASSUME NEW g \in Grow(c, size), g.code = "OKAY", NEW m \in read
      PROVE  Delivers({Okay(SubGrown(m, 1, g.num))}, E, V, F)
  <2>1. /\ g.num \in MpInts /\ Proper(g.num) /\ (E => NoExcess(g.num)) /\ size <= g.num.alloc
    BY <1>5, <1>7, Grown
  <2>2. CASE ~ (same /\ c.alloc < a.used + 1)
    <3>1. m = d /\ ~ (same /\ c.alloc = c.used)
      BY <1>5, <2>2
    <3>2. Holds(SubGrown(d, 1, g.num), E, IntVal(d) - 1)
      BY <1>1, <1>3, <1>5, <2>1, SubGrownHolds
    <3>3. V = {IntVal(d) - 1}
      BY <1>4, <3>1
    <3>. QED
      BY <3>1, <3>2, <3>3, OkayDelivers
  <2>3. CASE same /\ c.alloc < a.used + 1
    <3>1. a = c /\ V = Int
      BY <1>5, <2>3
    <3>2. PICK e \in [0 .. a.used - 1 -> 0 .. DigitMod - 1] :
            m = [d EXCEPT !.digit = [i \in Places |-> IF i < d.used THEN e[i] ELSE d.digit[i]]]
      <4>1. m \in Dangling(d)
        BY <2>3
      <4>2. d.used = a.used
        BY <1>1
      <4>. HIDE DEF d
      <4>3. \E e \in [0 .. d.used - 1 -> 0 .. DigitMod - 1] :
              m = [d EXCEPT !.digit = [i \in Places |-> IF i < d.used THEN e[i] ELSE d.digit[i]]]
        BY <4>1 DEF Dangling, Written
      <4>. QED
        BY <4>2, <4>3
    <3>3. m.used = a.used /\ m.digit = [i \in Places |-> IF i < a.used THEN e[i] ELSE a.digit[i]]
      BY <1>1, <3>2 DEF MpInts
    <3>4. ASSUME NEW i \in Places PROVE (IF i < a.used THEN e[i] ELSE a.digit[i]) \in 0 .. DigitMod - 1
      <4>1. i < a.used => i \in 0 .. a.used - 1
        BY <1>5, PlaceFacts
      <4>2. a.digit[i] \in Digits /\ \A x \in Digits : Wrap(x) = x /\ Wrap(x) \in 0 .. DigitMod - 1
        <5>1. Digits \subseteq Int
          BY DEF Digits
        <5>. QED
          BY <1>5, <5>1, Wrapped, AnyWord DEF Vectors
      <4>. QED
        BY <4>1, <4>2
    <3>5. Arbitrary(m)
      BY <1>5, <3>3, <3>4 DEF Arbitrary
    <3>6. PICK v \in Int : Holds(SubGrown(m, 1, g.num), E, v)
      BY <1>5, <2>1, <3>3, <3>5, SubGrownAny
    <3>. QED
      <4>1. Delivers({Okay(SubGrown(m, 1, g.num))}, E, {v}, F)
        BY <3>6, OkayDelivers
      <4>. QED
        BY <3>1, <4>1 DEF Delivers
  <2>. QED
    BY <2>2, <2>3
<1>8. AfterGrow(R, c, size, E, V, F)
  BY <1>6, <1>7 DEF AfterGrow
<1>. HIDE DEF R, V, F, size
<1>9. Delivers(R, E, V, F)
  BY <1>5, <1>8, GrowDelivers
<1>. QED
  BY <1>9 DEF R, V, F

LEMMA BelowDelivers ==
  ASSUME NEW d \in MpInts, Proper(d), NEW b \in Int, NEW E \in BOOLEAN, E => NoExcess(d)
  PROVE  LET h == Sgn(IntVal(d)) * (Abs(IntVal(d)) \div 2 ^ b)
         IN  Delivers(Below(d, b), E, {h - 1}, {IF b < 0 THEN IntVal(d) ELSE h})
<1>. DEFINE h == Sgn(IntVal(d)) * (Abs(IntVal(d)) \div 2 ^ b)
            F == {IF b < 0 THEN IntVal(d) ELSE h}
            V == {h - 1}
            D == Div2D(d, b, d, TRUE)
            R == Below(d, b)
            one == 1
            same == TRUE
<1>1. one \in Digits /\ same \in BOOLEAN
  BY RadixFacts DEF Digits
<1>2. \A r \in R : \/ r \in D /\ r.code # "OKAY"
                   \/ \E s \in D : s.code = "OKAY" /\ r \in SubD(s.num, one, s.num, same)
  BY DEF Below, Then
<1>3. Delivers(D, E, {h}, {IntVal(d)})
  BY Div2DDelivers
<1>4. b >= 0 => \A r \in D : r.code = "OKAY"
  <2>. SUFFICES ASSUME b >= 0, NEW r \in D PROVE r.code = "OKAY"
    OBVIOUS
  <2>1. Copy(d, d, TRUE) = {Okay(d)}
    BY DEF Copy
  <2>2. ~ (b < 0)
    OBVIOUS
  <2>3. \/ r \in Copy(d, d, TRUE) /\ r.code # "OKAY"
        \/ \E s \in Copy(d, d, TRUE) : s.code = "OKAY" /\ r = Okay(BitsDown(s.num, b))
    BY <2>2 DEF Div2D, Then
  <2>4. Okay(d).code = "OKAY" /\ \A x : Okay(x).code = "OKAY"
    BY DEF Okay, Outcome
  <2>. QED
    BY <2>1, <2>3, <2>4
<1>. HIDE DEF D, h, one, same
<1>5. ASSUME NEW s \in D, s.code = "OKAY"
      PROVE  Delivers(SubD(s.num, one, s.num, same), E, V, F)
  <2>1. /\ s.num \in MpInts /\ Proper(s.num) /\ (E => NoExcess(s.num)) /\ IntVal(s.num) = h
    BY <1>3, <1>5 DEF Delivers
  <2>. DEFINE e == s.num
  <2>2. e \in MpInts /\ Proper(e) /\ (E => NoExcess(e)) /\ IntVal(e) = h
    BY <2>1
  <2>. HIDE DEF e
  <2>3. Delivers(SubD(e, one, e, same), E, {IntVal(e) - one}, {IntVal(e)})
    BY <1>1, <2>2, SubDDelivers
  <2>4. ~ (b < 0)
    <3>1. b < 0 => FALSE
      <4>. SUFFICES ASSUME b < 0 PROVE FALSE
        OBVIOUS
      <4>1. D = {Outcome("VAL", d, 0)}
        BY DEF D, Div2D
      <4>2. s.code = "VAL"
        BY <4>1 DEF Outcome
      <4>. QED
        BY <1>5, <4>2
    <3>. QED
      BY <3>1
  <2>5. V = {IntVal(e) - one} /\ F = {IntVal(e)}
    BY <2>2, <2>4 DEF one
  <2>. HIDE DEF V, F
  <2>6. Delivers(SubD(e, one, e, same), E, V, F)
    BY <2>3, <2>5
  <2>. QED
    BY <2>6 DEF e
<1>6. ASSUME NEW r \in D, r.code # "OKAY" PROVE Delivers({r}, E, V, F)
  <2>1. b < 0
    BY <1>4, <1>6
  <2>2. F = {IntVal(d)}
    BY <2>1
  <2>. HIDE DEF V, F
  <2>. QED
    BY <1>3, <1>6, <2>2 DEF Delivers
<1>. HIDE DEF R, V, F
<1>7. Delivers(R, E, V, F)
  BY <1>2, <1>5, <1>6 DEF Delivers
<1>. QED
  BY <1>7 DEF R, V, F, h

-----------------------------------------------------------------------------
(* mp_signed_rsh and mp_2expt.                                             *)
LEMMA ShiftRounds ==
  ASSUME NEW A \in Int, NEW P \in Nat, P > 0
  PROVE  /\ A >= 0 => Sgn(A) * (Abs(A) \div P) = A \div P
         /\ A < 0 => Sgn(A + 1) * (Abs(A + 1) \div P) - 1 = A \div P
<1>1. A >= 0 => Sgn(A) * (Abs(A) \div P) = A \div P
  <2>. SUFFICES ASSUME A >= 0 PROVE Sgn(A) * (Abs(A) \div P) = A \div P
    OBVIOUS
  <2>1. Sgn(A) = 1 /\ Abs(A) = 1 * A
    BY DEF Sgn, Abs
  <2>2. 1 * A = A /\ A \div P \in Int
    BY Division
  <2>3. 1 * (A \div P) = A \div P
    BY <2>2, Products
  <2>. QED
    BY <2>1, <2>2, <2>3
<1>2. A < 0 => Sgn(A + 1) * (Abs(A + 1) \div P) - 1 = A \div P
  <2>. SUFFICES ASSUME A < 0 PROVE Sgn(A + 1) * (Abs(A + 1) \div P) - 1 = A \div P
    OBVIOUS
  <2>. DEFINE n == - A - 1
              q == n \div P
              r == n % P
              Q == A + 1
  <2>1. n \in Nat /\ Q \in Int /\ Q <= 0 /\ (Q < 0 => -1 * Q = n) /\ (Q = 0 => n = 0)
        /\ A = - n - 1
    OBVIOUS
  <2>. HIDE DEF n
  <2>2. q \in Int /\ r \in 0 .. P - 1 /\ n = P * q + r
    BY <2>1, Division
  <2>. HIDE DEF q, r
  <2>3. - q - 1 \in Int /\ P - 1 - r \in 0 .. P - 1
    BY <2>2
  <2>4. P * (- q - 1) = - (P * q) - P
    BY <2>2
  <2>5. A = P * (- q - 1) + (P - 1 - r)
    <3>. DEFINE p == P * q
                t == P * (- q - 1)
    <3>1. p \in Int /\ t = - p - P /\ n = p + r /\ r \in Int
      BY <2>2, <2>4
    <3>. HIDE DEF p, t
    <3>2. A = t + (P - 1 - r)
      BY <2>1, <3>1
    <3>. QED
      BY <3>2 DEF t
  <2>6. A \div P = - q - 1
    <3>. DEFINE k == - q - 1
                s == P - 1 - r
    <3>1. k \in Int /\ s \in 0 .. P - 1 /\ A = P * k + s
      BY <2>3, <2>5
    <3>. HIDE DEF k, s
    <3>2. A \div P = k
      BY <3>1, DivisionUnique
    <3>. QED
      BY <3>2 DEF k
  <2>. HIDE DEF Q
  <2>7. Sgn(Q) * (Abs(Q) \div P) = - q
    <3>1. Sgn(Q) = IF Q < 0 THEN -1 ELSE 1
      BY DEF Sgn
    <3>2. \A x \in Int : (-1) * x = - x /\ 1 * x = x
      OBVIOUS
    <3>3. Abs(Q) = n
      BY <2>1, <3>1, <3>2 DEF Abs
    <3>4. Abs(Q) \div P = q
      BY <3>3 DEF q
    <3>5. Q = 0 => q = 0
      <4>. SUFFICES ASSUME Q = 0 PROVE q = 0
        OBVIOUS
      <4>1. P * 0 = 0 /\ 0 + 0 = 0 /\ 0 \in 0 .. P - 1 /\ 0 \in Int
        OBVIOUS
      <4>2. (P * 0 + 0) \div P = 0
        BY <4>1, DivisionUnique
      <4>. QED
        BY <2>1, <4>1, <4>2 DEF q
    <3>. HIDE DEF q
    <3>6. Q = 0 => 1 * q = - q
      <4>1. \A y \in Int : y <= 0 /\ y >= 0 => 1 * y = - y
        OBVIOUS
      <4>2. Q = 0 => q \in Int /\ q <= 0 /\ q >= 0
        BY <2>2, <3>5
      <4>. QED
        BY <4>1, <4>2
    <3>. QED
      BY <2>1, <2>2, <3>1, <3>2, <3>4, <3>6
  <2>. QED
    BY <2>6, <2>7 DEF Q
<1>. QED
  BY <1>1, <1>2

LEMMA SignedRshDelivers ==
  ASSUME NEW a \in MpInts, Proper(a), NEW b \in Int, NEW c \in MpInts, Proper(c),
         NEW same \in BOOLEAN, same => a = c, NEW E \in BOOLEAN, E => NoExcess(c)
  PROVE  LET A == IntVal(a)
         IN  Delivers(SignedRsh(a, b, c, same), E, {A \div 2 ^ b},
                      {IntVal(c), (IF b < 0 THEN A ELSE A \div 2 ^ b) + 1})
<1>. DEFINE A == IntVal(a)
            R == SignedRsh(a, b, c, same)
            V == {A \div 2 ^ b}
            u == (IF b < 0 THEN A ELSE A \div 2 ^ b) + 1
            F == {IntVal(c), u}
            one == 1
<1>1. A \in Int /\ (IsNeg(a) <=> A < 0) /\ one \in Digits /\ IntVal(c) \in F /\ u \in F
  BY IntFacts, ProperFacts, RadixFacts DEF Digits
<1>2. b >= 0 => 2 ^ b \in Nat /\ 2 ^ b > 0
  BY TwoTo
<1>3. CASE ~ IsNeg(a)
  <2>1. R = Div2D(a, b, c, same)
    BY <1>3 DEF SignedRsh
  <2>2. CASE b < 0
    <3>1. R = {Outcome("VAL", c, 0)}
      BY <2>1, <2>2 DEF Div2D
    <3>. HIDE DEF R, V, F
    <3>2. Delivers(R, E, V, F)
      BY <1>1, <3>1, RefusedDelivers DEF Codes
    <3>. QED
      BY <3>2 DEF R, V, F
  <2>3. CASE b >= 0
    <3>1. Delivers(Div2D(a, b, c, same), E, {Sgn(IntVal(a)) * (Abs(IntVal(a)) \div 2 ^ b)}, {IntVal(c)})
      BY Div2DDelivers
    <3>2. Sgn(A) * (Abs(A) \div 2 ^ b) = A \div 2 ^ b
      BY <1>1, <1>2, <1>3, <2>3, ShiftRounds
    <3>3. {Sgn(IntVal(a)) * (Abs(IntVal(a)) \div 2 ^ b)} \subseteq V /\ {IntVal(c)} \subseteq F
      BY <3>2
    <3>. HIDE DEF R, V, F
    <3>4. Delivers(R, E, V, F)
      <4>. DEFINE W == {Sgn(IntVal(a)) * (Abs(IntVal(a)) \div 2 ^ b)}
                  G == {IntVal(c)}
      <4>1. Delivers(R, E, W, G) /\ W \subseteq V /\ G \subseteq F
        BY <2>1, <3>1, <3>3
      <4>. HIDE DEF W, G
      <4>. QED
        BY <4>1, DeliversSame
    <3>. QED
      BY <3>4 DEF R, V, F
  <2>. QED
    BY <2>2, <2>3
<1>4. CASE IsNeg(a)
  <2>. DEFINE D == AddD(a, one, c, same)
  <2>1. R = Then(D, LAMBDA d : Below(d, b))
    BY <1>4, Zenon DEF SignedRsh, one
  <2>2. \A r \in R : \/ r \in D /\ r.code # "OKAY"
                     \/ \E s \in D : s.code = "OKAY" /\ r \in Below(s.num, b)
    BY <1>4 DEF SignedRsh, Then
  <2>. HIDE DEF one
  <2>3. Delivers(D, E, {A + one}, {IntVal(c)})
    BY <1>1, AddDDelivers
  <2>. HIDE DEF D
  <2>4. ASSUME NEW s \in D, s.code = "OKAY" PROVE Delivers(Below(s.num, b), E, V, F)
    <3>. DEFINE d == s.num
                h == Sgn(IntVal(d)) * (Abs(IntVal(d)) \div 2 ^ b)
                w == IF b < 0 THEN IntVal(d) ELSE h
    <3>1. d \in MpInts /\ Proper(d) /\ (E => NoExcess(d)) /\ IntVal(d) = A + 1
      BY <2>3, <2>4 DEF Delivers, one
    <3>. HIDE DEF d
    <3>2. Delivers(Below(d, b), E, {h - 1}, {w})
      BY <3>1, BelowDelivers
    <3>3. b >= 0 => h - 1 = A \div 2 ^ b /\ A \div 2 ^ b \in Int
      BY <1>1, <1>2, <1>4, <3>1, ShiftRounds, Division
    <3>4. b >= 0 => w = u
      <4>. SUFFICES ASSUME b >= 0 PROVE w = u
        OBVIOUS
      <4>1. w = h /\ u = A \div 2 ^ b + 1 /\ h - 1 = A \div 2 ^ b
        BY <3>3
      <4>2. h \in Int
        <5>1. IntVal(d) \in Int /\ IntVal(d) <= 0
          BY <1>1, <1>4, <3>1
        <5>2. Abs(IntVal(d)) \in Int /\ Sgn(IntVal(d)) \in Int
          <6>1. \A x \in Int : -1 * x \in Int /\ 1 * x \in Int
            OBVIOUS
          <6>. QED
            BY <5>1, <6>1 DEF Abs, Sgn
        <5>3. Abs(IntVal(d)) \div 2 ^ b \in Int
          BY <1>2, <5>2, Division
        <5>. QED
          BY <5>2, <5>3, Products
      <4>. HIDE DEF h, w, u
      <4>3. \A x, y \in Int : x - 1 = y => x = y + 1
        OBVIOUS
      <4>. QED
        BY <3>3, <4>1, <4>2, <4>3
    <3>5. b < 0 => w = u
      BY <3>1
    <3>6. {w} \subseteq F
      BY <1>1, <3>4, <3>5
    <3>7. b >= 0 => {h - 1} \subseteq V
      BY <3>3
    <3>8. b < 0 => \A r \in Below(d, b) : r.code # "OKAY"
      <4>. SUFFICES ASSUME b < 0, NEW r \in Below(d, b) PROVE r.code # "OKAY"
        OBVIOUS
      <4>1. \/ r \in Div2D(d, b, d, TRUE) /\ r.code # "OKAY"
            \/ \E t \in Div2D(d, b, d, TRUE) : t.code = "OKAY"
        BY DEF Below, Then
      <4>2. Div2D(d, b, d, TRUE) = {Outcome("VAL", d, 0)}
        BY DEF Div2D
      <4>3. Outcome("VAL", d, 0).code = "VAL"
        BY DEF Outcome
      <4>. QED
        BY <4>1, <4>2, <4>3
    <3>. HIDE DEF V, F, h, w
    <3>9. Delivers(Below(d, b), E, V, F)
      <4>. DEFINE H == {h - 1}
                  W == {w}
                  B == Below(d, b)
      <4>1. Delivers(B, E, H, W) /\ W \subseteq F
        BY <3>2, <3>6
      <4>2. b >= 0 => H \subseteq V
        BY <3>7
      <4>3. b < 0 => \A r \in B : r.code # "OKAY"
        BY <3>8
      <4>. HIDE DEF H, W, B
      <4>4. Delivers(B, E, V, F)
        BY <4>1, <4>2, <4>3 DEF Delivers
      <4>. QED
        BY <4>4 DEF B
    <3>. QED
      BY <3>9 DEF d
  <2>5. ASSUME NEW r \in D, r.code # "OKAY" PROVE Delivers({r}, E, V, F)
    <3>1. IntVal(r.num) = IntVal(c)
      BY <2>3, <2>5 DEF Delivers
    <3>. HIDE DEF V, F
    <3>. QED
      BY <1>1, <2>3, <2>5, <3>1 DEF Delivers
  <2>. HIDE DEF R, V, F
  <2>6. Delivers(R, E, V, F)
    BY <2>2, <2>4, <2>5 DEF Delivers
  <2>. QED
    BY <2>6 DEF R, V, F
<1>. QED
  BY <1>3, <1>4

LEMMA OneBitHolds ==
  ASSUME NEW g \in MpInts, NEW b \in Nat, g.sign = MP_ZPOS, g.used = 0, NEW E \in BOOLEAN,
         E => NoExcess(g), b \div MP_DIGIT_BIT + 1 <= g.alloc
  PROVE  LET x == OneBit(g, b)
         IN  x \in MpInts /\ Proper(x) /\ (E => NoExcess(x)) /\ IntVal(x) \in Int
             /\ (E => IntVal(x) = 2 ^ b)
<1>. DEFINE x == OneBit(g, b)
            k == b \div MP_DIGIT_BIT
            m == b % MP_DIGIT_BIT
            t == 2 ^ m
            d == [g.digit EXCEPT ![k] = t]
<1>1. /\ k \in Nat /\ m \in 0 .. MP_DIGIT_BIT - 1 /\ 2 ^ b = Pow[k] * t /\ 2 ^ b \in Nat
  BY BitCount
<1>2. t \in Nat /\ t > 0 /\ t < Radix
  <2>1. MP_DIGIT_BIT \in Nat /\ m \in Nat /\ m + 1 \in Nat /\ m + 1 <= MP_DIGIT_BIT
        /\ Radix = 2 ^ MP_DIGIT_BIT
    BY <1>1, RadixBits
  <2>. HIDE DEF m
  <2>2. 2 ^ m \in Nat /\ 2 ^ m > 0 /\ 2 ^ (m + 1) = 2 * 2 ^ m
    BY <2>1, TwoTo
  <2>3. 2 ^ (m + 1) <= Radix
    BY <2>1, TwoToMonotone
  <2>. QED
    BY <2>2, <2>3, RadixFacts
<1>3. k + 1 \in Counts /\ k \in Places /\ k \in Counts /\ k + 1 <= g.alloc /\ k + 1 - 1 = k /\ k + 1 > 0
  <2>1. k + 1 <= g.alloc /\ g.alloc \in Nat /\ g.alloc <= MP_MAX_DIGIT_COUNT
    BY IntFacts
  <2>. HIDE DEF k
  <2>2. k + 1 \in Nat /\ k < MP_MAX_DIGIT_COUNT /\ k + 1 <= MP_MAX_DIGIT_COUNT
        /\ k <= MP_MAX_DIGIT_COUNT
    BY <1>1, <2>1, RadixFacts
  <2>. QED
    BY <1>1, <2>1, <2>2, PlaceFacts
<1>4. t \in Digits /\ g.digit \in Vectors
  <2>. HIDE DEF t
  <2>. QED
    BY <1>2, IntFacts, RadixFacts DEF Digits
<1>5. d \in Vectors /\ d[k] = t /\ \A i \in Places : i # k => d[i] = g.digit[i]
  BY <1>3, <1>4 DEF Vectors
<1>6. x = [g EXCEPT !.used = k + 1, !.digit = d]
  BY DEF OneBit
<1>7. /\ x \in MpInts /\ x.used = k + 1 /\ x.digit = d /\ x.sign = MP_ZPOS /\ x.alloc = g.alloc
  BY <1>3, <1>5, <1>6 DEF MpInts
<1>. HIDE DEF x, d, k, t
<1>8. Proper(x)
  <2>1. x.used <= x.alloc
    BY <1>3, <1>7
  <2>2. x.used > 0 /\ x.used # 0 /\ x.used - 1 = k
    BY <1>1, <1>7
  <2>3. x.digit[k] = t /\ t # 0
    BY <1>2, <1>5, <1>7
  <2>4. x.digit[x.used - 1] # 0
    BY <2>2, <2>3
  <2>. QED
    BY <2>1, <2>2, <2>4 DEF Proper
<1>9. E => NoExcess(x)
  <2>. SUFFICES ASSUME E, NEW i \in Places, i >= k + 1 PROVE d[i] = 0
    BY <1>7 DEF NoExcess
  <2>1. i # k /\ i >= 0
    BY <1>1 DEF Places
  <2>. QED
    BY <1>5, <2>1 DEF NoExcess
<1>10. IntVal(x) \in Int /\ IntVal(x) = Val(d)[k + 1]
  <2>1. MP_ZPOS # MP_NEG
    BY DEF MP_ZPOS, MP_NEG
  <2>. QED
    BY <1>7, <2>1, IntFacts DEF Signed
<1>11. E => Val(d)[k] = 0
  <2>. SUFFICES ASSUME E PROVE Val(d)[k] = 0
    OBVIOUS
  <2>1. \A i \in Places : 0 <= i /\ i < k => d[i] = 0
    <3>. SUFFICES ASSUME NEW i \in Places, i < k PROVE d[i] = 0
      OBVIOUS
    <3>1. i # k /\ i >= 0
      BY <1>1 DEF Places
    <3>. QED
      BY <1>5, <3>1 DEF NoExcess
  <2>2. Val(d)[k] = Val(d)[0]
    BY <1>1, <1>3, <1>5, <2>1, PlaceFacts, ValZeros
  <2>. QED
    BY <1>5, <2>2, OneDigit
<1>12. Val(d)[k + 1] = Val(d)[k] + t * Pow[k]
  BY <1>3, <1>5, ValRecursion
<1>13. E => IntVal(x) = 2 ^ b
  <2>1. Pow[k] \in Nat
    BY <1>1, PowFacts
  <2>2. t * Pow[k] = Pow[k] * t /\ t * Pow[k] \in Nat
    BY <1>2, <2>1
  <2>. QED
    BY <1>1, <1>10, <1>11, <1>12, <2>2
<1>. QED
  BY <1>7, <1>8, <1>9, <1>10, <1>13 DEF x

LEMMA TwoExptDelivers ==
  ASSUME NEW c \in MpInts, Proper(c), NEW b \in Int, NEW E \in BOOLEAN, E => NoExcess(c)
  PROVE  Delivers(TwoExpt(c, b), E, {v \in Int : E => v = 2 ^ b}, {IntVal(c), 0})
<1>. DEFINE R == TwoExpt(c, b)
            V == {v \in Int : E => v = 2 ^ b}
            F == {IntVal(c), 0}
<1>1. CASE b < 0
  <2>1. R = {Outcome("VAL", c, 0)} /\ IntVal(c) \in F
    BY <1>1 DEF TwoExpt
  <2>. HIDE DEF R, V, F
  <2>2. Delivers(R, E, V, F)
    BY <2>1, RefusedDelivers DEF Codes
  <2>. QED
    BY <2>2 DEF R, V, F
<1>2. CASE b >= 0
  <2>. DEFINE z == MpZero(c)
              size == b \div MP_DIGIT_BIT + 1
  <2>1. b \in Nat /\ size \in Nat
    BY <1>2, BitCount
  <2>2. Holds(z, E, 0)
    BY ZeroHolds
  <2>3. z \in MpInts /\ Proper(z) /\ (E => NoExcess(z)) /\ IntVal(z) \in F
    BY <2>2 DEF Holds
  <2>4. z.used = 0 /\ z.sign = MP_ZPOS
    BY DEF MpZero, MpInts
  <2>5. \A r \in R : \/ r \in Grow(z, size) /\ r.code # "OKAY"
                     \/ \E s \in Grow(z, size) : s.code = "OKAY" /\ r = Okay(OneBit(s.num, b))
    BY <1>2 DEF TwoExpt, Then
  <2>. HIDE DEF z
  <2>6. ASSUME NEW s \in Grow(z, size), s.code = "OKAY"
        PROVE  Delivers({Okay(OneBit(s.num, b))}, E, V, F)
    <3>. DEFINE g == s.num
                x == OneBit(g, b)
    <3>1. g \in MpInts /\ (E => NoExcess(g)) /\ size <= g.alloc /\ g.used = 0 /\ g.sign = MP_ZPOS
      BY <2>1, <2>3, <2>4, <2>6, Grown
    <3>. HIDE DEF g
    <3>2. x \in MpInts /\ Proper(x) /\ (E => NoExcess(x)) /\ IntVal(x) \in V
      BY <2>1, <3>1, OneBitHolds
    <3>3. 0 \in Digits
      BY RadixFacts DEF Digits
    <3>. HIDE DEF x, V, F
    <3>4. Delivers({Okay(x)}, E, V, F)
      BY <3>2, <3>3 DEF Delivers, Okay, Outcome, Codes
    <3>. QED
      BY <3>4 DEF x, g
  <2>. HIDE DEF R, V, F, size
  <2>7. AfterGrow(R, z, size, E, V, F)
    BY <2>5, <2>6 DEF AfterGrow
  <2>8. Delivers(R, E, V, F)
    BY <2>1, <2>3, <2>7, GrowDelivers
  <2>. QED
    BY <2>8 DEF R, V, F
<1>. QED
  BY <1>1, <1>2

-----------------------------------------------------------------------------
(* What every call owes: a proper number, without excess digits if its     *)
(* destination had none (bit operations apart), the number its name        *)
(* promises if it succeeds, and one of a few if it fails.                  *)
BitOps == {"and", "or", "xor"}

Left(op, n, A, C, v) ==
  \/ v = C
  \/ op = "2expt" /\ v = 0
  \/ op \in {"mul_2d", "mul_d", "div_2d_rem"} /\ v = A
  \/ op = "signed_rsh" /\ v = (IF n < 0 THEN A ELSE A \div 2 ^ n) + 1

Computed(op, n, rem, A, B, v) ==
  \A k : k.op = op /\ k.n = n /\ k.rem = rem => Meaning(k, A, B, v)

Fulfils(amiss, op, n, x, y, z, R) ==
  \A r \in R :
    /\ r.num \in MpInts /\ Proper(r.num) /\ r.code \in Codes /\ r.rem \in Digits
    /\ op \notin BitOps /\ NoExcess(z) => NoExcess(r.num)
    /\ r.code = "OKAY" /\ ~ amiss =>
         Computed(op, n, r.rem, IntVal(x), IntVal(y), IntVal(r.num))
    /\ r.code # "OKAY" => Left(op, n, IntVal(x), IntVal(z), IntVal(r.num))

(* The calls that deliver one number, whatever their remainder.            *)
Allowed(op, n, A, B, V) == \A v \in V, rem \in Digits : Computed(op, n, rem, A, B, v)
AllLeft(op, n, A, C, F) == \A v \in F : Left(op, n, A, C, v)

LEMMA DeliversFulfils ==
  ASSUME NEW op, NEW n, NEW x, NEW y, NEW z, NEW R, NEW E \in BOOLEAN, NEW V, NEW F,
         Delivers(R, E, V, F), op \notin BitOps /\ NoExcess(z) => E,
         NEW amiss, ~ amiss => Allowed(op, n, IntVal(x), IntVal(y), V),
         AllLeft(op, n, IntVal(x), IntVal(z), F)
  PROVE  Fulfils(amiss, op, n, x, y, z, R)
BY DEF Delivers, Fulfils, Allowed, AllLeft

LEMMA MeaningFacts ==
  ASSUME NEW k, NEW A, NEW B, NEW r
  PROVE  /\ k.op = "add_d" => (Meaning(k, A, B, r) <=> r = A + k.n)
         /\ k.op = "sub_d" => (Meaning(k, A, B, r) <=> r = A - k.n)
         /\ k.op = "mul_d" => (Meaning(k, A, B, r) <=> r = A * k.n)
         /\ k.op = "div_d" => (Meaning(k, A, B, r) <=>
              r = Sgn(A) * (Abs(A) \div k.n) /\ k.rem = Abs(A) % k.n)
         /\ k.op = "mod_d" => (Meaning(k, A, B, r) <=> r = A /\ k.rem = Abs(A) % k.n)
         /\ k.op = "mul_2" => (Meaning(k, A, B, r) <=> r = 2 * A)
         /\ k.op = "div_2" => (Meaning(k, A, B, r) <=> r = Sgn(A) * (Abs(A) \div 2))
         /\ k.op = "mul_2d" => (Meaning(k, A, B, r) <=> r = A * 2 ^ k.n)
         /\ k.op = "div_2d" => (Meaning(k, A, B, r) <=> r = Sgn(A) * (Abs(A) \div 2 ^ k.n))
         /\ k.op = "div_2d_rem" => (Meaning(k, A, B, r) <=> r = Sgn(A) * (Abs(A) \div 2 ^ k.n))
         /\ k.op = "mod_2d" => (Meaning(k, A, B, r) <=> r = Sgn(A) * (Abs(A) % 2 ^ k.n))
         /\ k.op = "and" => (Meaning(k, A, B, r) <=>
              \A i \in BitPlaces : Bit(r, i) = Bit(A, i) * Bit(B, i))
         /\ k.op = "or" => (Meaning(k, A, B, r) <=>
              \A i \in BitPlaces : Bit(r, i) = MaxOf(Bit(A, i), Bit(B, i)))
         /\ k.op = "xor" => (Meaning(k, A, B, r) <=>
              \A i \in BitPlaces : Bit(r, i) = (Bit(A, i) + Bit(B, i)) % 2)
         /\ k.op = "complement" => (Meaning(k, A, B, r) <=> r = - A - 1)
         /\ k.op = "signed_rsh" => (Meaning(k, A, B, r) <=> r = A \div 2 ^ k.n)
         /\ k.op = "2expt" => (Meaning(k, A, B, r) <=> r = 2 ^ k.n)
BY DEF Meaning

(* Each call fulfils what it owes.                                         *)
LEMMA CallsFulfil ==
  ASSUME NEW x \in MpInts, Proper(x), NEW y \in MpInts, Proper(y), NEW z \in MpInts, Proper(z),
         NEW same \in BOOLEAN, same => x = z
  PROVE  /\ \A d \in Digits : /\ Fulfils(FALSE, "add_d", d, x, x, z, AddD(x, d, z, same))
                              /\ Fulfils(FALSE, "sub_d", d, x, x, z, SubD(x, d, z, same))
                              /\ Fulfils(FALSE, "mul_d", d, x, x, z, MulD(x, d, z, same))
         /\ \A n \in BitCounts : /\ Fulfils(FALSE, "mul_2d", n, x, x, z, Mul2D(x, n, z, same))
                                 /\ Fulfils(FALSE, "div_2d", n, x, x, z, Div2D(x, n, z, same))
                                 /\ Fulfils(FALSE, "mod_2d", n, x, x, z, Mod2D(x, n, z, same))
                                 /\ Fulfils(FALSE, "signed_rsh", n, x, x, z, SignedRsh(x, n, z, same))
                                 /\ Fulfils(~ NoExcess(z), "2expt", n, z, z, z, TwoExpt(z, n))
         /\ Fulfils(FALSE, "mul_2", 0, x, x, z, Mul2(x, z))
         /\ Fulfils(FALSE, "div_2", 0, x, x, z, Div2(x, z))
         /\ Fulfils(same /\ z.alloc = z.used, "complement", 0, x, x, z, Complement(x, z, same))
         /\ Fulfils(FALSE, "and", 0, x, y, z, BitAnd(x, y, z))
         /\ Fulfils(FALSE, "or", 0, x, y, z, BitOr(x, y, z))
         /\ Fulfils(FALSE, "xor", 0, x, y, z, BitXor(x, y, z))
<1>. DEFINE E == NoExcess(z)
            A == IntVal(x)
            B == IntVal(y)
            C == IntVal(z)
<1>1. E \in BOOLEAN /\ FALSE \in BOOLEAN
  BY DEF NoExcess
<1>2. \A op \in {"add_d", "sub_d", "mul_d", "mul_2", "div_2", "mul_2d", "div_2d", "mod_2d",
                 "complement", "signed_rsh"} : op \notin BitOps /\ op # "2expt"
  BY DEF BitOps
<1>3. \A n \in BitCounts : n \in Int
  BY BoundsAssumption

<1>4. ASSUME NEW d \in Digits PROVE Fulfils(FALSE, "add_d", d, x, x, z, AddD(x, d, z, same))
  <2>. DEFINE R == AddD(x, d, z, same)
              V == {A + d}
              F == {C}
  <2>1. Delivers(R, E, V, F)
    BY <1>1, AddDDelivers
  <2>2. Allowed("add_d", d, A, A, V)
    BY MeaningFacts DEF Allowed, Computed
  <2>3. AllLeft("add_d", d, A, C, F)
    BY DEF AllLeft, Left
  <2>. HIDE DEF R, V, F
  <2>4. Fulfils(FALSE, "add_d", d, x, x, z, R)
    BY <1>1, <1>2, <2>1, <2>2, <2>3, DeliversFulfils
  <2>. QED
    BY <2>4 DEF R
<1>5. ASSUME NEW d \in Digits PROVE Fulfils(FALSE, "sub_d", d, x, x, z, SubD(x, d, z, same))
  <2>. DEFINE R == SubD(x, d, z, same)
              V == {A - d}
              F == {C}
  <2>1. Delivers(R, E, V, F)
    BY <1>1, SubDDelivers
  <2>2. Allowed("sub_d", d, A, A, V)
    BY MeaningFacts DEF Allowed, Computed
  <2>3. AllLeft("sub_d", d, A, C, F)
    BY DEF AllLeft, Left
  <2>. HIDE DEF R, V, F
  <2>4. Fulfils(FALSE, "sub_d", d, x, x, z, R)
    BY <1>1, <1>2, <2>1, <2>2, <2>3, DeliversFulfils
  <2>. QED
    BY <2>4 DEF R
<1>6. ASSUME NEW d \in Digits PROVE Fulfils(FALSE, "mul_d", d, x, x, z, MulD(x, d, z, same))
  <2>. DEFINE R == MulD(x, d, z, same)
              V == {A * d}
              F == {C, A}
  <2>1. Delivers(R, E, V, F)
    BY <1>1, MulDDelivers
  <2>2. Allowed("mul_d", d, A, A, V)
    BY MeaningFacts DEF Allowed, Computed
  <2>3. AllLeft("mul_d", d, A, C, F)
    BY DEF AllLeft, Left
  <2>. HIDE DEF R, V, F
  <2>4. Fulfils(FALSE, "mul_d", d, x, x, z, R)
    BY <1>1, <1>2, <2>1, <2>2, <2>3, DeliversFulfils
  <2>. QED
    BY <2>4 DEF R
<1>7. ASSUME NEW n \in BitCounts PROVE Fulfils(FALSE, "mul_2d", n, x, x, z, Mul2D(x, n, z, same))
  <2>. DEFINE R == Mul2D(x, n, z, same)
              V == {A * 2 ^ n}
              F == {C, A}
  <2>1. Delivers(R, E, V, F)
    BY <1>1, <1>3, Mul2DDelivers
  <2>2. Allowed("mul_2d", n, A, A, V)
    BY MeaningFacts DEF Allowed, Computed
  <2>3. AllLeft("mul_2d", n, A, C, F)
    BY DEF AllLeft, Left
  <2>. HIDE DEF R, V, F
  <2>4. Fulfils(FALSE, "mul_2d", n, x, x, z, R)
    BY <1>1, <1>2, <2>1, <2>2, <2>3, DeliversFulfils
  <2>. QED
    BY <2>4 DEF R
<1>8. ASSUME NEW n \in BitCounts PROVE Fulfils(FALSE, "div_2d", n, x, x, z, Div2D(x, n, z, same))
  <2>. DEFINE R == Div2D(x, n, z, same)
              V == {Sgn(A) * (Abs(A) \div 2 ^ n)}
              F == {C}
  <2>1. Delivers(R, E, V, F)
    BY <1>1, <1>3, Div2DDelivers
  <2>2. Allowed("div_2d", n, A, A, V)
    BY MeaningFacts DEF Allowed, Computed
  <2>3. AllLeft("div_2d", n, A, C, F)
    BY DEF AllLeft, Left
  <2>. HIDE DEF R, V, F
  <2>4. Fulfils(FALSE, "div_2d", n, x, x, z, R)
    BY <1>1, <1>2, <2>1, <2>2, <2>3, DeliversFulfils
  <2>. QED
    BY <2>4 DEF R
<1>9. ASSUME NEW n \in BitCounts PROVE Fulfils(FALSE, "mod_2d", n, x, x, z, Mod2D(x, n, z, same))
  <2>. DEFINE R == Mod2D(x, n, z, same)
              V == {Sgn(A) * (Abs(A) % 2 ^ n)}
              F == {C}
  <2>1. Delivers(R, E, V, F)
    BY <1>1, <1>3, Mod2DDelivers
  <2>2. Allowed("mod_2d", n, A, A, V)
    BY MeaningFacts DEF Allowed, Computed
  <2>3. AllLeft("mod_2d", n, A, C, F)
    BY DEF AllLeft, Left
  <2>. HIDE DEF R, V, F
  <2>4. Fulfils(FALSE, "mod_2d", n, x, x, z, R)
    BY <1>1, <1>2, <2>1, <2>2, <2>3, DeliversFulfils
  <2>. QED
    BY <2>4 DEF R
<1>10. ASSUME NEW n \in BitCounts PROVE Fulfils(FALSE, "signed_rsh", n, x, x, z, SignedRsh(x, n, z, same))
  <2>. DEFINE R == SignedRsh(x, n, z, same)
              V == {A \div 2 ^ n}
              F == {C, (IF n < 0 THEN A ELSE A \div 2 ^ n) + 1}
  <2>1. Delivers(R, E, V, F)
    BY <1>1, <1>3, SignedRshDelivers
  <2>2. Allowed("signed_rsh", n, A, A, V)
    BY MeaningFacts DEF Allowed, Computed
  <2>3. AllLeft("signed_rsh", n, A, C, F)
    BY DEF AllLeft, Left
  <2>. HIDE DEF R, V, F
  <2>4. Fulfils(FALSE, "signed_rsh", n, x, x, z, R)
    BY <1>1, <1>2, <2>1, <2>2, <2>3, DeliversFulfils
  <2>. QED
    BY <2>4 DEF R
<1>11. ASSUME NEW n \in BitCounts PROVE Fulfils(~ NoExcess(z), "2expt", n, z, z, z, TwoExpt(z, n))
  <2>. DEFINE R == TwoExpt(z, n)
              V == {v \in Int : E => v = 2 ^ n}
              F == {C, 0}
  <2>1. Delivers(R, E, V, F)
    BY <1>1, <1>3, TwoExptDelivers
  <2>. DEFINE amiss == ~ NoExcess(z)
  <2>2. ~ amiss => Allowed("2expt", n, C, C, V)
    BY MeaningFacts DEF Allowed, Computed
  <2>3. AllLeft("2expt", n, C, C, F)
    BY DEF AllLeft, Left
  <2>. HIDE DEF R, V, F, amiss
  <2>4. Fulfils(amiss, "2expt", n, z, z, z, R)
    BY <1>1, <2>1, <2>2, <2>3, DeliversFulfils DEF BitOps
  <2>. QED
    BY <2>4 DEF R, amiss
<1>12. Fulfils(FALSE, "mul_2", 0, x, x, z, Mul2(x, z))
  <2>. DEFINE R == Mul2(x, z)
              V == {2 * A}
              F == {C}
  <2>1. Delivers(R, E, V, F)
    BY <1>1, Mul2Delivers
  <2>2. Allowed("mul_2", 0, A, A, V)
    BY MeaningFacts DEF Allowed, Computed
  <2>3. AllLeft("mul_2", 0, A, C, F)
    BY DEF AllLeft, Left
  <2>. HIDE DEF R, V, F
  <2>4. Fulfils(FALSE, "mul_2", 0, x, x, z, R)
    BY <1>1, <1>2, <2>1, <2>2, <2>3, DeliversFulfils
  <2>. QED
    BY <2>4 DEF R
<1>13. Fulfils(FALSE, "div_2", 0, x, x, z, Div2(x, z))
  <2>. DEFINE R == Div2(x, z)
              V == {Sgn(A) * (Abs(A) \div 2)}
              F == {C}
  <2>1. Delivers(R, E, V, F)
    BY <1>1, Div2Delivers
  <2>2. Allowed("div_2", 0, A, A, V)
    BY MeaningFacts DEF Allowed, Computed
  <2>3. AllLeft("div_2", 0, A, C, F)
    BY DEF AllLeft, Left
  <2>. HIDE DEF R, V, F
  <2>4. Fulfils(FALSE, "div_2", 0, x, x, z, R)
    BY <1>1, <1>2, <2>1, <2>2, <2>3, DeliversFulfils
  <2>. QED
    BY <2>4 DEF R
<1>14. Fulfils(same /\ z.alloc = z.used, "complement", 0, x, x, z, Complement(x, z, same))
  <2>. DEFINE R == Complement(x, z, same)
              V == IF same /\ z.alloc = z.used THEN Int ELSE {- A - 1}
              amiss == same /\ z.alloc = z.used
              F == {C}
  <2>1. Delivers(R, E, V, F)
    BY <1>1, ComplementDelivers
  <2>2. ~ amiss => Allowed("complement", 0, A, A, V)
    BY MeaningFacts DEF Allowed, Computed
  <2>3. AllLeft("complement", 0, A, C, F)
    BY DEF AllLeft, Left
  <2>. HIDE DEF R, V, F, amiss
  <2>4. Fulfils(amiss, "complement", 0, x, x, z, R)
    BY <1>1, <1>2, <2>1, <2>2, <2>3, DeliversFulfils
  <2>. QED
    BY <2>4 DEF R, amiss
<1>15. Fulfils(FALSE, "and", 0, x, y, z, BitAnd(x, y, z))
  <2>. DEFINE R == BitAnd(x, y, z)
              V == {v \in Int : AndBits(A, B, v)}
              F == {C}
  <2>1. Delivers(R, FALSE, V, F)
    BY <1>1, BitOpsDeliver
  <2>2. Allowed("and", 0, A, B, V)
    BY MeaningFacts DEF Allowed, Computed, AndBits, BitPlaces
  <2>3. AllLeft("and", 0, A, C, F)
    BY DEF AllLeft, Left
  <2>. HIDE DEF R, V, F
  <2>4. Fulfils(FALSE, "and", 0, x, y, z, R)
    BY <1>1, <2>1, <2>2, <2>3, DeliversFulfils DEF BitOps
  <2>. QED
    BY <2>4 DEF R
<1>16. Fulfils(FALSE, "or", 0, x, y, z, BitOr(x, y, z))
  <2>. DEFINE R == BitOr(x, y, z)
              V == {v \in Int : OrBits(A, B, v)}
              F == {C}
  <2>1. Delivers(R, FALSE, V, F)
    BY <1>1, BitOpsDeliver
  <2>2. Allowed("or", 0, A, B, V)
    BY MeaningFacts DEF Allowed, Computed, OrBits, BitPlaces
  <2>3. AllLeft("or", 0, A, C, F)
    BY DEF AllLeft, Left
  <2>. HIDE DEF R, V, F
  <2>4. Fulfils(FALSE, "or", 0, x, y, z, R)
    BY <1>1, <2>1, <2>2, <2>3, DeliversFulfils DEF BitOps
  <2>. QED
    BY <2>4 DEF R
<1>17. Fulfils(FALSE, "xor", 0, x, y, z, BitXor(x, y, z))
  <2>. DEFINE R == BitXor(x, y, z)
              V == {v \in Int : XorBits(A, B, v)}
              F == {C}
  <2>1. Delivers(R, FALSE, V, F)
    BY <1>1, BitOpsDeliver
  <2>2. Allowed("xor", 0, A, B, V)
    BY MeaningFacts DEF Allowed, Computed, XorBits, BitPlaces
  <2>3. AllLeft("xor", 0, A, C, F)
    BY DEF AllLeft, Left
  <2>. HIDE DEF R, V, F
  <2>4. Fulfils(FALSE, "xor", 0, x, y, z, R)
    BY <1>1, <2>1, <2>2, <2>3, DeliversFulfils DEF BitOps
  <2>. QED
    BY <2>4 DEF R
<1>. QED
  BY <1>4, <1>5, <1>6, <1>7, <1>8, <1>9, <1>10, <1>11, <1>12, <1>13, <1>14, <1>15, <1>16, <1>17

LEMMA DivisionsFulfil ==
  ASSUME NEW x \in MpInts, Proper(x), NEW z \in MpInts, Proper(z), NEW d \in Digits,
         NEW same \in BOOLEAN, same => x = z
  PROVE  /\ Fulfils(FALSE, "div_d", d, x, x, z, DivD(x, d, z, same))
         /\ Fulfils(FALSE, "mod_d", d, x, x, x, ModD(x, d))
<1>. DEFINE A == IntVal(x)
            rem == Abs(A) % d
<1>1. NoExcess(x) \in BOOLEAN /\ NoExcess(z) \in BOOLEAN
  BY DEF NoExcess
<1>2. Fulfils(FALSE, "div_d", d, x, x, z, DivD(x, d, z, same))
  <2>. DEFINE R == DivD(x, d, z, same)
              V == {Sgn(A) * (Abs(A) \div d)}
              F == {IntVal(z)}
  <2>1. DeliversRem(R, NoExcess(z), V, F, rem)
    BY <1>1, DivDDelivers
  <2>2. \A v \in V : Computed("div_d", d, rem, A, A, v)
    BY MeaningFacts DEF Computed
  <2>3. AllLeft("div_d", d, A, IntVal(z), F)
    BY DEF AllLeft, Left
  <2>. HIDE DEF R, V, F, rem
  <2>4. Fulfils(FALSE, "div_d", d, x, x, z, R)
    BY <2>1, <2>2, <2>3 DEF DeliversRem, Delivers, AllLeft, Fulfils
  <2>. QED
    BY <2>4 DEF R
<1>3. Fulfils(FALSE, "mod_d", d, x, x, x, ModD(x, d))
  <2>. DEFINE R == ModD(x, d)
              V == {A}
              F == {A}
  <2>1. DeliversRem(R, NoExcess(x), V, F, rem)
    BY <1>1, ModDDelivers
  <2>2. \A v \in V : Computed("mod_d", d, rem, A, A, v)
    BY MeaningFacts DEF Computed
  <2>3. AllLeft("mod_d", d, A, IntVal(x), F)
    BY DEF AllLeft, Left
  <2>. HIDE DEF R, V, F, rem
  <2>4. Fulfils(FALSE, "mod_d", d, x, x, x, R)
    BY <2>1, <2>2, <2>3 DEF DeliversRem, Delivers, AllLeft, Fulfils
  <2>. QED
    BY <2>4 DEF R
<1>. QED
  BY <1>2, <1>3

-----------------------------------------------------------------------------
(* The invariant: the types, and every structure proper.                   *)
IInv == TypeOK /\ \A x \in Ints : Proper(num[x])

(* A step is a call that fulfils what it owes.                             *)
Kept(op, a, b, c, n, R) ==
  /\ op \in Ops \ {"div_2d_rem"} /\ a \in Ints /\ b \in Ints /\ c \in Ints /\ n \in BitCounts \cup Digits
  /\ \E amiss \in BOOLEAN :
       /\ amiss => ReadsAmiss([op |-> op, a |-> a, c |-> c])
       /\ Fulfils(amiss, op, n, num[a], num[b], num[c], R)
  /\ Call(op, a, b, c, n, R)

(* So is mp_div_2d with a remainder: p is left for the quotient, q for the *)
(* remainder.                                                              *)
BothKept(a, n, c, d, p, q, code) ==
  /\ a \in Ints /\ c \in Ints /\ d \in Ints /\ c # d /\ n \in BitCounts /\ code \in Codes
  /\ p \in MpInts /\ Proper(p) /\ (NoExcess(num[c]) => NoExcess(p))
  /\ q \in MpInts /\ Proper(q) /\ (NoExcess(num[d]) => NoExcess(q))
  /\ LET A == IntVal(num[a])
     IN  IF code = "OKAY" THEN IntVal(p) = Sgn(A) * (Abs(A) \div 2 ^ n)
                               /\ IntVal(q) = Sgn(A) * (Abs(A) % 2 ^ n)
         ELSE IntVal(p) \in {IntVal(num[c]), A} /\ IntVal(q) = IntVal(num[d])
  /\ num' = [num EXCEPT ![c] = p, ![d] = q]
  /\ call' = [op |-> "div_2d_rem", a |-> a, b |-> d, c |-> c, n |-> n, code |-> code, rem |-> 0]
  /\ calls > 0 /\ calls' = calls - 1

LEMMA RemainderKept ==
  ASSUME IInv, NEW a \in Ints, NEW c \in Ints, NEW d \in Ints, c # d, NEW n \in BitCounts,
         mp_div_2d_rem(a, n, c, d)
  PROVE  \E p, q, code : BothKept(a, n, c, d, p, q, code)
<1>. DEFINE x == num[a]
            y == num[c]
            z == num[d]
            A == IntVal(x)
            Q == IF n < 0 THEN {Outcome("VAL", y, 0)} ELSE Copy(x, y, a = c)
            S(q) == IF q.code = "OKAY" THEN Mod2D(x, n, z, a = d) ELSE {Outcome(q.code, z, 0)}
            F(q, r) == IF r.code = "OKAY" THEN BitsDown(q.num, n) ELSE q.num
<1>1. /\ x \in MpInts /\ Proper(x) /\ y \in MpInts /\ Proper(y) /\ z \in MpInts /\ Proper(z)
      /\ n \in Int /\ (a = c) \in BOOLEAN /\ (a = d) \in BOOLEAN /\ (a = c => x = y) /\ (a = d => x = z)
      /\ NoExcess(y) \in BOOLEAN /\ NoExcess(z) \in BOOLEAN
  BY BoundsAssumption DEF IInv, TypeOK, NoExcess
<1>2. PICK q \in Q : \E r \in S(q) :
        /\ num' = [num EXCEPT ![c] = F(q, r), ![d] = r.num]
        /\ call' = [op |-> "div_2d_rem", a |-> a, b |-> d, c |-> c, n |-> n, code |-> r.code, rem |-> 0]
  BY DEF mp_div_2d_rem
<1>3. PICK r \in S(q) :
        /\ num' = [num EXCEPT ![c] = F(q, r), ![d] = r.num]
        /\ call' = [op |-> "div_2d_rem", a |-> a, b |-> d, c |-> c, n |-> n, code |-> r.code, rem |-> 0]
  BY <1>2
<1>4. calls > 0 /\ calls' = calls - 1
  BY DEF mp_div_2d_rem
<1>5. /\ q.num \in MpInts /\ Proper(q.num) /\ (NoExcess(y) => NoExcess(q.num)) /\ q.code \in Codes
      /\ IntVal(q.num) \in {IntVal(y), A}
      /\ q.code = "OKAY" => n >= 0 /\ IntVal(q.num) = A
  <2>1. CASE n < 0
    BY <1>1, <2>1 DEF Outcome, Codes
  <2>2. CASE n >= 0
    <3>1. q \in Copy(x, y, a = c)
      BY <1>1, <2>2
    <3>2. Delivers(Copy(x, y, a = c), NoExcess(y), {A}, {IntVal(y)})
      <4>. DEFINE same == a = c
                  E == NoExcess(y)
      <4>1. same \in BOOLEAN /\ (same => x = y) /\ E \in BOOLEAN /\ (E => NoExcess(y))
        BY <1>1
      <4>. HIDE DEF same, E, x, y
      <4>2. Delivers(Copy(x, y, same), E, {IntVal(x)}, {IntVal(y)})
        BY <1>1, <4>1, CopyDelivers
      <4>. QED
        BY <4>2 DEF same, E
    <3>. QED
      BY <2>2, <3>1, <3>2 DEF Delivers
  <2>. QED
    BY <1>1, <2>1, <2>2
<1>6. /\ r.num \in MpInts /\ Proper(r.num) /\ (NoExcess(z) => NoExcess(r.num)) /\ r.code \in Codes
      /\ IF r.code = "OKAY" THEN q.code = "OKAY" /\ IntVal(r.num) = Sgn(A) * (Abs(A) % 2 ^ n)
                            ELSE IntVal(r.num) = IntVal(z)
  <2>1. CASE q.code # "OKAY"
    BY <1>1, <1>5, <2>1 DEF Outcome
  <2>2. CASE q.code = "OKAY"
    <3>1. Delivers(Mod2D(x, n, z, a = d), NoExcess(z), {Sgn(A) * (Abs(A) % 2 ^ n)}, {IntVal(z)})
      <4>. DEFINE same == a = d
                  E == NoExcess(z)
      <4>1. same \in BOOLEAN /\ (same => x = z) /\ E \in BOOLEAN /\ (E => NoExcess(z))
        BY <1>1
      <4>. HIDE DEF same, E, x, z
      <4>2. Delivers(Mod2D(x, n, z, same), E, {Sgn(A) * (Abs(A) % 2 ^ n)}, {IntVal(z)})
        BY <1>1, <4>1, Mod2DDelivers
      <4>. QED
        BY <4>2 DEF same, E
    <3>. QED
      BY <2>2, <3>1 DEF Delivers
  <2>. QED
    BY <2>1, <2>2
<1>. DEFINE p == F(q, r)
<1>7. /\ p \in MpInts /\ Proper(p) /\ (NoExcess(y) => NoExcess(p))
      /\ IF r.code = "OKAY" THEN IntVal(p) = Sgn(A) * (Abs(A) \div 2 ^ n)
                            ELSE IntVal(p) \in {IntVal(y), A}
  <2>1. CASE r.code # "OKAY"
    BY <1>5, <2>1
  <2>2. CASE r.code = "OKAY"
    <3>1. n >= 0 /\ IntVal(q.num) = A /\ p = BitsDown(q.num, n)
      BY <1>5, <1>6, <2>2
    <3>. DEFINE E == NoExcess(y)
    <3>2. E \in BOOLEAN /\ (E => NoExcess(q.num))
      BY <1>1, <1>5
    <3>. HIDE DEF E, p, A
    <3>3. Holds(BitsDown(q.num, n), E, Sgn(IntVal(q.num)) * (Abs(IntVal(q.num)) \div 2 ^ n))
      BY <1>1, <1>5, <3>1, <3>2, BitsDownHolds
    <3>. QED
      BY <2>2, <3>1, <3>3 DEF Holds, E
  <2>. QED
    BY <2>1, <2>2
<1>. HIDE DEF p, x, y, z, A, Q, S
<1>8. num' = [num EXCEPT ![c] = p, ![d] = r.num]
  BY <1>3 DEF p
<1>. HIDE DEF F
<1>. QED
  BY <1>3, <1>4, <1>6, <1>7, <1>8 DEF BothKept, x, y, z, A

(* What it does to the state.                                              *)
LEMMA BothState ==
  ASSUME IInv, NEW a, NEW n, NEW c, NEW d, NEW p, NEW q, NEW code, BothKept(a, n, c, d, p, q, code)
  PROVE  /\ num' \in [Ints -> MpInts] /\ num'[c] = p /\ num'[d] = q
         /\ \A x \in Ints \ {c, d} : num'[x] = num[x]
         /\ call'.op = "div_2d_rem" /\ call'.a = a /\ call'.b = d /\ call'.c = c /\ call'.n = n
         /\ call'.code = code
<1>1. num \in [Ints -> MpInts]
  BY DEF IInv, TypeOK
<1>. QED
  BY <1>1 DEF BothKept

LEMMA StepKept ==
  ASSUME IInv, Next
  PROVE  \/ \E op, a, b, c, n, R : Kept(op, a, b, c, n, R)
         \/ \E a, n, c, d, p, q, code : BothKept(a, n, c, d, p, q, code)
<1>1. \A x \in Ints : num[x] \in MpInts /\ Proper(num[x])
  BY DEF IInv, TypeOK
<1>2. 0 \in Digits /\ \A a, c \in Ints : (a = c) \in BOOLEAN /\ (a = c => num[a] = num[c])
  BY RadixFacts DEF Digits
<1>. DEFINE Good == \E op, a, b, c, n, R : Kept(op, a, b, c, n, R)
            Both == \E a, n, c, d, p, q, code : BothKept(a, n, c, d, p, q, code)
<1>3. ASSUME NEW a \in Ints, NEW c \in Ints, NEW d \in Digits,
             mp_add_d(a, d, c) \/ mp_sub_d(a, d, c) \/ mp_mul_d(a, d, c) \/ mp_div_d(a, d, c)
      PROVE  Good
  <2>1. /\ Fulfils(FALSE, "add_d", d, num[a], num[a], num[c], AddD(num[a], d, num[c], a = c))
        /\ Fulfils(FALSE, "sub_d", d, num[a], num[a], num[c], SubD(num[a], d, num[c], a = c))
        /\ Fulfils(FALSE, "mul_d", d, num[a], num[a], num[c], MulD(num[a], d, num[c], a = c))
        /\ Fulfils(FALSE, "div_d", d, num[a], num[a], num[c], DivD(num[a], d, num[c], a = c))
    BY <1>1, <1>2, CallsFulfil, DivisionsFulfil
  <2>2. CASE mp_add_d(a, d, c)
    <3>1. Kept("add_d", a, a, c, d, AddD(num[a], d, num[c], a = c))
      BY <2>1, <2>2 DEF Kept, Ops, mp_add_d
    <3>. QED
      BY <3>1
  <2>3. CASE mp_sub_d(a, d, c)
    <3>1. Kept("sub_d", a, a, c, d, SubD(num[a], d, num[c], a = c))
      BY <2>1, <2>3 DEF Kept, Ops, mp_sub_d
    <3>. QED
      BY <3>1
  <2>4. CASE mp_mul_d(a, d, c)
    <3>1. Kept("mul_d", a, a, c, d, MulD(num[a], d, num[c], a = c))
      BY <2>1, <2>4 DEF Kept, Ops, mp_mul_d
    <3>. QED
      BY <3>1
  <2>5. CASE mp_div_d(a, d, c)
    <3>1. Kept("div_d", a, a, c, d, DivD(num[a], d, num[c], a = c))
      BY <2>1, <2>5 DEF Kept, Ops, mp_div_d
    <3>. QED
      BY <3>1
  <2>. HIDE DEF Good
  <2>. QED
    BY <1>3, <2>2, <2>3, <2>4, <2>5
<1>4. ASSUME NEW a \in Ints, NEW d \in Digits, mp_mod_d(a, d) PROVE Good
  <2>1. Fulfils(FALSE, "mod_d", d, num[a], num[a], num[a], ModD(num[a], d))
    BY <1>1, <1>2, DivisionsFulfil
  <2>2. Kept("mod_d", a, a, a, d, ModD(num[a], d))
    BY <1>4, <2>1 DEF Kept, Ops, mp_mod_d
  <2>. QED
    BY <2>2
<1>5. ASSUME NEW a \in Ints, NEW c \in Ints, mp_mul_2(a, c) \/ mp_div_2(a, c) \/ mp_complement(a, c)
      PROVE  Good
  <2>1. /\ Fulfils(FALSE, "mul_2", 0, num[a], num[a], num[c], Mul2(num[a], num[c]))
        /\ Fulfils(FALSE, "div_2", 0, num[a], num[a], num[c], Div2(num[a], num[c]))
        /\ Fulfils(a = c /\ num[c].alloc = num[c].used, "complement", 0, num[a], num[a], num[c], Complement(num[a], num[c], a = c))
    BY <1>1, <1>2, CallsFulfil
  <2>2. CASE mp_mul_2(a, c)
    <3>1. Kept("mul_2", a, a, c, 0, Mul2(num[a], num[c]))
      BY <1>2, <2>1, <2>2 DEF Kept, Ops, mp_mul_2
    <3>. QED
      BY <3>1
  <2>3. CASE mp_div_2(a, c)
    <3>1. Kept("div_2", a, a, c, 0, Div2(num[a], num[c]))
      BY <1>2, <2>1, <2>3 DEF Kept, Ops, mp_div_2
    <3>. QED
      BY <3>1
  <2>4. CASE mp_complement(a, c)
    <3>. DEFINE amiss == a = c /\ num[c].alloc = num[c].used
                R == Complement(num[a], num[c], a = c)
    <3>1. amiss \in BOOLEAN /\ (amiss => ReadsAmiss([op |-> "complement", a |-> a, c |-> c]))
      BY DEF ReadsAmiss
    <3>2. Fulfils(amiss, "complement", 0, num[a], num[a], num[c], R)
      BY <2>1
    <3>3. Call("complement", a, a, c, 0, R)
      BY <2>4 DEF mp_complement
    <3>. HIDE DEF amiss, R
    <3>4. Kept("complement", a, a, c, 0, R)
      BY <1>2, <3>1, <3>2, <3>3 DEF Kept, Ops
    <3>. QED
      BY <3>4
  <2>. HIDE DEF Good
  <2>. QED
    BY <1>5, <2>2, <2>3, <2>4
<1>6. ASSUME NEW a \in Ints, NEW c \in Ints, NEW n \in BitCounts,
             mp_mul_2d(a, n, c) \/ mp_div_2d(a, n, c) \/ mp_mod_2d(a, n, c) \/ mp_signed_rsh(a, n, c)
      PROVE  Good
  <2>1. /\ Fulfils(FALSE, "mul_2d", n, num[a], num[a], num[c], Mul2D(num[a], n, num[c], a = c))
        /\ Fulfils(FALSE, "div_2d", n, num[a], num[a], num[c], Div2D(num[a], n, num[c], a = c))
        /\ Fulfils(FALSE, "mod_2d", n, num[a], num[a], num[c], Mod2D(num[a], n, num[c], a = c))
        /\ Fulfils(FALSE, "signed_rsh", n, num[a], num[a], num[c], SignedRsh(num[a], n, num[c], a = c))
    BY <1>1, <1>2, CallsFulfil
  <2>2. CASE mp_mul_2d(a, n, c)
    <3>1. Kept("mul_2d", a, a, c, n, Mul2D(num[a], n, num[c], a = c))
      BY <2>1, <2>2 DEF Kept, Ops, mp_mul_2d
    <3>. QED
      BY <3>1
  <2>3. CASE mp_div_2d(a, n, c)
    <3>1. Kept("div_2d", a, a, c, n, Div2D(num[a], n, num[c], a = c))
      BY <2>1, <2>3 DEF Kept, Ops, mp_div_2d
    <3>. QED
      BY <3>1
  <2>4. CASE mp_mod_2d(a, n, c)
    <3>1. Kept("mod_2d", a, a, c, n, Mod2D(num[a], n, num[c], a = c))
      BY <2>1, <2>4 DEF Kept, Ops, mp_mod_2d
    <3>. QED
      BY <3>1
  <2>5. CASE mp_signed_rsh(a, n, c)
    <3>1. Kept("signed_rsh", a, a, c, n, SignedRsh(num[a], n, num[c], a = c))
      BY <2>1, <2>5 DEF Kept, Ops, mp_signed_rsh
    <3>. QED
      BY <3>1
  <2>. HIDE DEF Good
  <2>. QED
    BY <1>6, <2>2, <2>3, <2>4, <2>5
<1>7. ASSUME NEW a \in Ints, NEW b \in Ints, NEW c \in Ints,
             mp_and(a, b, c) \/ mp_or(a, b, c) \/ mp_xor(a, b, c)
      PROVE  Good
  <2>1. FALSE \in BOOLEAN /\ (FALSE => num[a] = num[c])
    OBVIOUS
  <2>2. /\ Fulfils(FALSE, "and", 0, num[a], num[b], num[c], BitAnd(num[a], num[b], num[c]))
        /\ Fulfils(FALSE, "or", 0, num[a], num[b], num[c], BitOr(num[a], num[b], num[c]))
        /\ Fulfils(FALSE, "xor", 0, num[a], num[b], num[c], BitXor(num[a], num[b], num[c]))
    BY <1>1, <2>1, CallsFulfil
  <2>3. CASE mp_and(a, b, c)
    <3>1. Kept("and", a, b, c, 0, BitAnd(num[a], num[b], num[c]))
      BY <1>2, <2>2, <2>3 DEF Kept, Ops, mp_and
    <3>. QED
      BY <3>1
  <2>4. CASE mp_or(a, b, c)
    <3>1. Kept("or", a, b, c, 0, BitOr(num[a], num[b], num[c]))
      BY <1>2, <2>2, <2>4 DEF Kept, Ops, mp_or
    <3>. QED
      BY <3>1
  <2>5. CASE mp_xor(a, b, c)
    <3>1. Kept("xor", a, b, c, 0, BitXor(num[a], num[b], num[c]))
      BY <1>2, <2>2, <2>5 DEF Kept, Ops, mp_xor
    <3>. QED
      BY <3>1
  <2>. HIDE DEF Good
  <2>. QED
    BY <1>7, <2>3, <2>4, <2>5
<1>8. ASSUME NEW c \in Ints, NEW n \in BitCounts, mp_2expt(c, n) PROVE Good
  <2>1. Fulfils(~ NoExcess(num[c]), "2expt", n, num[c], num[c], num[c], TwoExpt(num[c], n))
    <3>1. TRUE \in BOOLEAN /\ (TRUE => num[c] = num[c])
      OBVIOUS
    <3>. QED
      BY <1>1, <3>1, CallsFulfil
  <2>. DEFINE amiss == ~ NoExcess(num[c])
              R == TwoExpt(num[c], n)
  <2>2. amiss \in BOOLEAN /\ (amiss => ReadsAmiss([op |-> "2expt", a |-> c, c |-> c]))
    BY DEF ReadsAmiss
  <2>3. Fulfils(amiss, "2expt", n, num[c], num[c], num[c], R)
    BY <2>1
  <2>4. Call("2expt", c, c, c, n, R)
    BY <1>8 DEF mp_2expt
  <2>. HIDE DEF amiss, R
  <2>5. Kept("2expt", c, c, c, n, R)
    BY <1>8, <2>2, <2>3, <2>4 DEF Kept, Ops
  <2>. QED
    BY <2>5
<1>9. ASSUME NEW a \in Ints, NEW c \in Ints, NEW n \in BitCounts, NEW d \in Ints,
             c # d /\ mp_div_2d_rem(a, n, c, d)
      PROVE  Both
  <2>1. \E p, q, code : BothKept(a, n, c, d, p, q, code)
    BY <1>9, RemainderKept
  <2>. QED
    BY <2>1
<1>. HIDE DEF Good, Both
<1>10. Good \/ Both
  BY <1>3, <1>4, <1>5, <1>6, <1>7, <1>8, <1>9 DEF Next
<1>. QED
  BY <1>10 DEF Good, Both

LEMMA InitProper ==
  ASSUME Init
  PROVE  IInv
<1>1. 0 \in Digits /\ MaxCalls \in Nat \ {0}
  BY RadixFacts, BoundsAssumption DEF Digits
<1>2. \A x \in Ints : num[x] \in Numbers \cup FirstNumbers
  BY DEF Init
<1>3. \A x \in Ints : num[x] \in MpInts /\ WellFormed(num[x])
  BY <1>2, NumbersAssumption
<1>4. num \in [Ints -> MpInts]
  <2>1. num \in [Ints -> Numbers \cup FirstNumbers]
    BY DEF Init
  <2>. QED
    BY <1>3, <2>1
<1>5. calls \in 0 .. MaxCalls
  BY <1>1 DEF Init
<1>6. call \in [op : Ops, a : Ints, b : Ints, c : Ints, n : BitCounts \cup Digits,
                code : {"OKAY", "MEM", "VAL", "OVF"}, rem : Digits]
  BY <1>1 DEF Init, Ops
<1>7. \A x \in Ints : Proper(num[x])
  <2>. SUFFICES ASSUME NEW x \in Ints PROVE Proper(num[x])
    OBVIOUS
  <2>. DEFINE y == num[x]
  <2>1. y \in MpInts /\ WellFormed(y) /\ 0 \in Places
    BY <1>3, OneDigit
  <2>. HIDE DEF y
  <2>2. Proper(y)
    BY <2>1 DEF WellFormed, Proper
  <2>. QED
    BY <2>2 DEF y
<1>. QED
  BY <1>4, <1>5, <1>6, <1>7 DEF IInv, TypeOK

(* What a call that keeps what it owes does to the state.                  *)
LEMMA KeptState ==
  ASSUME IInv, NEW op, NEW a, NEW b, NEW c, NEW n, NEW R, Kept(op, a, b, c, n, R)
  PROVE  \E r \in R :
           /\ num' = [num EXCEPT ![c] = r.num]
           /\ num'[c] = r.num
           /\ call' = [op |-> op, a |-> a, b |-> b, c |-> c, n |-> n, code |-> r.code, rem |-> r.rem]
           /\ calls' \in 0 .. MaxCalls
<1>1. PICK r \in R :
        /\ num' = [num EXCEPT ![c] = r.num]
        /\ call' = [op |-> op, a |-> a, b |-> b, c |-> c, n |-> n, code |-> r.code, rem |-> r.rem]
  BY DEF Kept, Call
<1>2. num'[c] = r.num
  BY <1>1 DEF IInv, TypeOK, Kept
<1>3. calls' \in 0 .. MaxCalls
  BY BoundsAssumption DEF IInv, TypeOK, Kept, Call
<1>. QED
  BY <1>1, <1>2, <1>3

LEMMA CallKeepsProper ==
  ASSUME IInv, [Next]_vars
  PROVE  IInv'
<1>1. CASE UNCHANGED vars
  BY <1>1 DEF IInv, TypeOK, vars
<1>2. ASSUME NEW op, NEW a, NEW b, NEW c, NEW n, NEW R, Kept(op, a, b, c, n, R) PROVE IInv'
  <2>1. Kept(op, a, b, c, n, R)
    BY <1>2
  <2>2. PICK r \in R :
          /\ num' = [num EXCEPT ![c] = r.num]
          /\ num'[c] = r.num
          /\ call' = [op |-> op, a |-> a, b |-> b, c |-> c, n |-> n, code |-> r.code, rem |-> r.rem]
          /\ calls' \in 0 .. MaxCalls
    BY <2>1, KeptState
  <2>3. r.num \in MpInts /\ Proper(r.num) /\ r.code \in Codes /\ r.rem \in Digits
    BY <2>1, <2>2 DEF Kept, Fulfils
  <2>4. op \in Ops /\ a \in Ints /\ b \in Ints /\ c \in Ints /\ n \in BitCounts \cup Digits
    BY <2>1 DEF Kept
  <2>5. num' \in [Ints -> MpInts]
    BY <2>2, <2>3 DEF IInv, TypeOK
  <2>6. call' \in [op : Ops, a : Ints, b : Ints, c : Ints, n : BitCounts \cup Digits,
                   code : {"OKAY", "MEM", "VAL", "OVF"}, rem : Digits]
    BY <2>2, <2>3, <2>4 DEF Codes
  <2>7. \A x \in Ints : Proper(num'[x])
    BY <2>2, <2>3, <2>4 DEF IInv, TypeOK
  <2>. QED
    BY <2>2, <2>5, <2>6, <2>7 DEF IInv, TypeOK
<1>3. ASSUME NEW a, NEW n, NEW c, NEW d, NEW p, NEW q, NEW code, BothKept(a, n, c, d, p, q, code)
      PROVE  IInv'
  <2>1. num' \in [Ints -> MpInts] /\ num'[c] = p /\ num'[d] = q /\ \A x \in Ints \ {c, d} : num'[x] = num[x]
    BY <1>3, BothState
  <2>2. \A x \in Ints : Proper(num'[x])
    BY <1>3, <2>1 DEF BothKept, IInv
  <2>3. 0 \in Digits
    BY RadixFacts DEF Digits
  <2>4. call' \in [op : Ops, a : Ints, b : Ints, c : Ints, n : BitCounts \cup Digits,
                   code : {"OKAY", "MEM", "VAL", "OVF"}, rem : Digits]
    BY <1>3, <2>3 DEF BothKept, Ops, Codes
  <2>5. calls' \in 0 .. MaxCalls
    BY <1>3, BoundsAssumption DEF BothKept, IInv, TypeOK
  <2>. QED
    BY <2>1, <2>2, <2>4, <2>5 DEF IInv, TypeOK
<1>. QED
  BY <1>1, <1>2, <1>3, StepKept

THEOREM NumbersProper == Spec => []IInv
<1>. QED
  BY InitProper, CallKeepsProper, PTL DEF Spec

(* TypeOK: a call only ever stores in the structure it was given, returns  *)
(* one of the four codes and a remainder that is a digit, and every digit  *)
(* it stores fits in the radix, however many bits a digit has.             *)
THEOREM DigitTypeCorrect == Spec => []TypeOK
<1>1. IInv => TypeOK
  BY DEF IInv
<1>. QED
  BY <1>1, NumbersProper, PTL

(* mp_cmp_d orders a proper number and a digit as integers.                *)
LEMMA ComparesDigits ==
  ASSUME NEW x \in MpInts, Proper(x), NEW b \in Digits
  PROVE  CmpD(x, b) = IF IntVal(x) < b THEN "LT" ELSE IF IntVal(x) > b THEN "GT" ELSE "EQ"
<1>1. /\ b \in Nat /\ b < Radix /\ Radix \in Nat /\ x.used \in Nat /\ Mag(x) \in Nat
      /\ IntVal(x) = Signed(x.sign, Mag(x)) /\ IntVal(x) \in Int /\ (IsNeg(x) <=> IntVal(x) < 0)
      /\ x.digit \in Vectors /\ Mag(x) = Val(x.digit)[x.used]
  BY IntFacts, ProperFacts, RadixFacts DEF Digits
<1>2. x.digit[0] \in Nat /\ Val(x.digit)[0] = 0 /\ Val(x.digit)[1] = x.digit[0]
  BY <1>1, OneDigit DEF Digits
<1>3. CASE IsNeg(x)
  BY <1>1, <1>3 DEF CmpD
<1>4. CASE ~ IsNeg(x)
  <2>1. IntVal(x) = Mag(x)
    BY <1>1, <1>4 DEF Signed, IsNeg
  <2>2. CASE x.used > 1
    <3>1. Mag(x) >= Pow[x.used - 1] /\ 1 <= x.used - 1 /\ x.used - 1 \in Nat
      BY <1>1, <2>2, ProperFacts
    <3>2. Pow[1] <= Pow[x.used - 1] /\ Pow[1] = Radix
      BY <3>1, PowMonotone, OneDigit
    <3>3. Pow[x.used - 1] \in Nat
      BY <3>1, PowFacts
    <3>4. Mag(x) > b
      BY <1>1, <3>1, <3>2, <3>3
    <3>. QED
      BY <1>1, <1>4, <2>1, <2>2, <3>4 DEF CmpD
  <2>3. CASE x.used <= 1
    <3>1. Mag(x) = x.digit[0]
      BY <1>1, <1>2, <2>3 DEF Proper
    <3>. QED
      BY <1>1, <1>2, <1>4, <2>1, <2>3, <3>1 DEF CmpD
  <2>. QED
    BY <1>1, <2>2, <2>3
<1>. QED
  BY <1>3, <1>4

(* Canonical: whatever calls came before, and wherever one of them failed, *)
(* a number has no leading zero digit and no negative zero and lies within *)
(* its allocation, and mp_cmp_d, which reads the first digit of a zero as  *)
(* well, orders it and every digit correctly.                              *)
THEOREM NumbersCanonical == Spec => []Canonical
<1>1. IInv => Canonical
  <2>. SUFFICES ASSUME IInv PROVE Canonical
    OBVIOUS
  <2>1. ASSUME NEW x \in Ints
        PROVE  /\ num[x].used <= num[x].alloc
               /\ num[x].used > 0 => num[x].digit[num[x].used - 1] # 0
               /\ IsZero(num[x]) => ~ IsNeg(num[x])
               /\ \A b \in Digits : CmpD(num[x], b) =
                    IF IntVal(num[x]) < b THEN "LT" ELSE IF IntVal(num[x]) > b THEN "GT" ELSE "EQ"
    <3>1. num[x] \in MpInts /\ Proper(num[x])
      BY DEF IInv, TypeOK
    <3>2. MP_ZPOS # MP_NEG
      BY DEF MP_ZPOS, MP_NEG
    <3>. QED
      BY <3>1, <3>2, ComparesDigits DEF Proper, IsZero, IsNeg
  <2>. QED
    BY <2>1 DEF Canonical
<1>. QED
  BY <1>1, NumbersProper, PTL

-----------------------------------------------------------------------------
(* What a call returned, as its record says it.                            *)
LEMMA CallRecord ==
  ASSUME NEW op, NEW a, NEW b, NEW c, NEW n, NEW code, NEW rem, NEW k,
         k = [op |-> op, a |-> a, b |-> b, c |-> c, n |-> n, code |-> code, rem |-> rem]
  PROVE  /\ k.op = op /\ k.a = a /\ k.b = b /\ k.c = c /\ k.n = n /\ k.code = code /\ k.rem = rem
OBVIOUS

(* CallCorrect: a call that succeeds leaves the number its name promises,  *)
(* for every radix and length, every pair of operands that are the same    *)
(* structure, the fast path of mp_add_d and mp_sub_d in place, the powers  *)
(* of two that mp_mul_d and mp_div_d shift by, the division by three, both *)
(* results of mp_div_2d, and the digits other calls left above used; but   *)
(* for the calls that read what is not theirs (ReadsAmiss).                *)
THEOREM CallsCorrect == Spec => CallCorrect
<1>. DEFINE Correct ==
              call'.code = "OKAY" /\ ~ ReadsAmiss(call') =>
                LET k == call'
                    A == IntVal(num[k.a])
                IN  /\ Meaning(k, A, IntVal(num[k.b]), IntVal(num'[k.c]))
                    /\ k.op = "div_2d_rem" => IntVal(num'[k.b]) = Sgn(A) * (Abs(A) % 2 ^ k.n)
<1>1. ASSUME IInv, NEW op, NEW a, NEW b, NEW c, NEW n, NEW R, Kept(op, a, b, c, n, R)
      PROVE  Correct
  <2>1. PICK r \in R :
          /\ num'[c] = r.num
          /\ call' = [op |-> op, a |-> a, b |-> b, c |-> c, n |-> n, code |-> r.code, rem |-> r.rem]
    BY <1>1, KeptState
  <2>2. /\ call'.op = op /\ call'.a = a /\ call'.b = b /\ call'.c = c /\ call'.n = n
        /\ call'.code = r.code /\ call'.rem = r.rem
    BY <2>1, CallRecord
  <2>3. PICK amiss \in BOOLEAN :
          /\ amiss => ReadsAmiss([op |-> op, a |-> a, c |-> c])
          /\ Fulfils(amiss, op, n, num[a], num[b], num[c], R)
    BY <1>1 DEF Kept
  <2>4. amiss => ReadsAmiss(call')
    BY <2>2, <2>3 DEF ReadsAmiss
  <2>5. r.code = "OKAY" /\ ~ amiss => Computed(op, n, r.rem, IntVal(num[a]), IntVal(num[b]), IntVal(r.num))
    BY <2>1, <2>3 DEF Fulfils
  <2>6. Computed(op, n, r.rem, IntVal(num[a]), IntVal(num[b]), IntVal(r.num)) =>
          Meaning(call', IntVal(num[a]), IntVal(num[b]), IntVal(r.num))
    BY <2>2, Zenon DEF Computed
  <2>7. op # "div_2d_rem"
    BY <1>1 DEF Kept
  <2>. QED
    BY <2>1, <2>2, <2>4, <2>5, <2>6, <2>7
<1>2. ASSUME IInv, NEW a, NEW n, NEW c, NEW d, NEW p, NEW q, NEW code, BothKept(a, n, c, d, p, q, code)
      PROVE  Correct
  <2>1. /\ num'[c] = p /\ num'[d] = q
        /\ call'.op = "div_2d_rem" /\ call'.a = a /\ call'.b = d /\ call'.c = c /\ call'.n = n
        /\ call'.code = code
    BY <1>2, BothState
  <2>. DEFINE A == IntVal(num[a])
  <2>2. code = "OKAY" => IntVal(p) = Sgn(A) * (Abs(A) \div 2 ^ n) /\ IntVal(q) = Sgn(A) * (Abs(A) % 2 ^ n)
    BY <1>2 DEF BothKept
  <2>3. Meaning(call', A, IntVal(num[d]), IntVal(p)) <=> IntVal(p) = Sgn(A) * (Abs(A) \div 2 ^ n)
    BY <2>1, MeaningFacts
  <2>. QED
    BY <2>1, <2>2, <2>3
<1>3. IInv /\ Next => Correct
  BY <1>1, <1>2, StepKept
<1>. HIDE DEF Correct
<1>4. IInv /\ [Next]_vars => [Correct]_vars
  BY <1>3
<1>5. Spec => [][Correct]_vars
  BY <1>4, NumbersProper, PTL DEF Spec
<1>. QED
  BY <1>5 DEF CallCorrect, Correct

(* ExcessZeroKept: only mp_and, mp_or and mp_xor may leave a digit other   *)
(* than zero above used; no other call does, where it succeeds or fails,   *)
(* as mp_add_d, mp_cmp_d and mp_2expt take for granted.                    *)
THEOREM ExcessKept == Spec => ExcessZeroKept
<1>1. ASSUME IInv, NEW op, NEW a, NEW b, NEW c, NEW n, NEW R, Kept(op, a, b, c, n, R)
      PROVE  call'.op \notin {"and", "or", "xor"} /\ (\A x \in Ints : NoExcess(num[x]))
               => \A x \in Ints : NoExcess(num'[x])
  <2>2. PICK r \in R :
          /\ num' = [num EXCEPT ![c] = r.num]
          /\ num'[c] = r.num
          /\ call' = [op |-> op, a |-> a, b |-> b, c |-> c, n |-> n, code |-> r.code, rem |-> r.rem]
    BY <1>1, KeptState
  <2>3. call'.op = op /\ c \in Ints
    BY <1>1, <2>2, CallRecord DEF Kept
  <2>4. op \notin BitOps /\ NoExcess(num[c]) => NoExcess(r.num)
    BY <1>1, <2>2 DEF Kept, Fulfils
  <2>5. \A x \in Ints : x # c => num'[x] = num[x]
    BY <1>1, <2>2 DEF IInv, TypeOK
  <2>. QED
    BY <2>2, <2>3, <2>4, <2>5 DEF BitOps
<1>2. ASSUME IInv, NEW a, NEW n, NEW c, NEW d, NEW p, NEW q, NEW code, BothKept(a, n, c, d, p, q, code)
      PROVE  (\A x \in Ints : NoExcess(num[x])) => \A x \in Ints : NoExcess(num'[x])
  <2>1. num'[c] = p /\ num'[d] = q /\ \A x \in Ints \ {c, d} : num'[x] = num[x]
    BY <1>2, BothState
  <2>. QED
    BY <1>2, <2>1 DEF BothKept
<1>3. IInv /\ Next => (call'.op \notin {"and", "or", "xor"} /\ (\A x \in Ints : NoExcess(num[x]))
                        => \A x \in Ints : NoExcess(num'[x]))
  BY <1>1, <1>2, StepKept
<1>4. IInv /\ [Next]_vars =>
        [call'.op \notin {"and", "or", "xor"} /\ (\A x \in Ints : NoExcess(num[x]))
           => \A x \in Ints : NoExcess(num'[x])]_vars
  BY <1>3
<1>. QED
  BY <1>4, NumbersProper, PTL DEF Spec, ExcessZeroKept

(* FailureLeaves: what a call that fails leaves in its destination, in     *)
(* particular that only mp_2expt, mp_mul_2d, mp_mul_d, mp_signed_rsh and   *)
(* mp_div_2d with a remainder may leave something other than its old       *)
(* value, and what that is.                                                *)
THEOREM FailedCallsLeave == Spec => FailureLeaves
<1>. DEFINE Leaves ==
              call'.code # "OKAY" =>
                LET k == call'
                    A == IntVal(num[k.a])
                    r == IntVal(num'[k.c])
                IN  /\ \/ r = IntVal(num[k.c])
                       \/ k.op = "2expt" /\ r = 0
                       \/ k.op \in {"mul_2d", "mul_d", "div_2d_rem"} /\ r = A
                       \/ k.op = "signed_rsh" /\ r = (IF k.n < 0 THEN A ELSE A \div 2 ^ k.n) + 1
                    /\ \A x \in Ints \ {k.c} : IntVal(num'[x]) = IntVal(num[x])
<1>1. ASSUME IInv, NEW op, NEW a, NEW b, NEW c, NEW n, NEW R, Kept(op, a, b, c, n, R)
      PROVE  Leaves
  <2>2. PICK s \in R :
          /\ num' = [num EXCEPT ![c] = s.num]
          /\ num'[c] = s.num
          /\ call' = [op |-> op, a |-> a, b |-> b, c |-> c, n |-> n, code |-> s.code, rem |-> s.rem]
    BY <1>1, KeptState
  <2>3. /\ call'.op = op /\ call'.a = a /\ call'.c = c /\ call'.n = n /\ call'.code = s.code
    BY <2>2, CallRecord
  <2>4. s.code # "OKAY" => Left(op, n, IntVal(num[a]), IntVal(num[c]), IntVal(s.num))
    BY <1>1, <2>2 DEF Kept, Fulfils
  <2>5. \A x \in Ints \ {c} : num'[x] = num[x]
    BY <1>1, <2>2 DEF IInv, TypeOK
  <2>. QED
    BY <2>2, <2>3, <2>4, <2>5 DEF Left
<1>2. ASSUME IInv, NEW a, NEW n, NEW c, NEW d, NEW p, NEW q, NEW code, BothKept(a, n, c, d, p, q, code)
      PROVE  Leaves
  <2>1. /\ num'[c] = p /\ num'[d] = q /\ \A x \in Ints \ {c, d} : num'[x] = num[x]
        /\ call'.op = "div_2d_rem" /\ call'.a = a /\ call'.c = c /\ call'.code = code
    BY <1>2, BothState
  <2>2. code # "OKAY" => IntVal(p) \in {IntVal(num[c]), IntVal(num[a])} /\ IntVal(q) = IntVal(num[d])
    BY <1>2 DEF BothKept
  <2>. QED
    BY <2>1, <2>2
<1>3. IInv /\ Next => Leaves
  BY <1>1, <1>2, StepKept
<1>. HIDE DEF Leaves
<1>4. IInv /\ [Next]_vars => [Leaves]_vars
  BY <1>3
<1>5. Spec => [][Leaves]_vars
  BY <1>4, NumbersProper, PTL DEF Spec
<1>. QED
  BY <1>5 DEF FailureLeaves, Leaves
=============================================================================
