--------------------------- MODULE MpAddSub_proofs ---------------------------
(***************************************************************************)
(* mp_add and mp_sub compute the sum and the difference, for every radix,  *)
(* every width of mp_digit with a spare bit, every pair of numbers and     *)
(* every way of aliasing the operands.                                     *)
(*                                                                         *)
(* The argument: while the loops run, the digits written so far, with the  *)
(* carry (or less the borrow) in the next place, spell the sum (or the     *)
(* difference) of the digits read so far, and the digits not yet written   *)
(* are still those of the operand the destination may be.                  *)
(***************************************************************************)
EXTENDS MpAddSub, MpNat_proofs

(***************************************************************************)
(* The machine arithmetic.                                                 *)
(***************************************************************************)
LEMMA DivMod ==
  ASSUME NEW m \in Nat, m > 0, NEW q \in Int, NEW r \in Nat, r < m
  PROVE  (q * m + r) % m = r /\ (q * m + r) \div m = q
<1>. DEFINE n == q * m + r
            q2 == n \div m
            r2 == n % m
<1>1. n \in Int
  OBVIOUS
<1>2. q2 \in Int /\ r2 \in Nat /\ r2 < m /\ n = q2 * m + r2
  BY <1>1
<1>3. (q - q2) * m = r2 - r
  <2>1. (q - q2) * m = q * m - q2 * m /\ q * m \in Int /\ q2 * m \in Int
    BY <1>2
  <2>. QED
    BY <1>2, <2>1
<1>. HIDE DEF q2, r2
<1>4. q - q2 >= 1 => (q - q2) * m >= m
  BY <1>2
<1>5. q - q2 <= -1 => (q - q2) * m <= -m
  BY <1>2
<1>6. q - q2 = 0
  BY <1>2, <1>3, <1>4, <1>5
<1>7. q = q2 /\ r = r2
  BY <1>2, <1>3, <1>6
<1>. QED
  BY <1>7 DEF q2, r2

(* An mp_digit holds every number below twice the radix, and has a top bit *)
(* no digit reaches.                                                       *)
LEMMA WidthFacts ==
  \E k \in Nat : /\ k >= 1
                 /\ DigitMod = 2 * (k * Radix)
                 /\ DigitMod \div 2 = k * Radix
                 /\ k * Radix \in Nat /\ k * Radix >= Radix
<1>1. PICK k \in 1 .. DigitMod : DigitMod = 2 * k * Radix
  BY RadixAssumption
<1>2. k \in Nat /\ k >= 1 /\ Radix \in Nat /\ Radix > 1
  BY <1>1, RadixAssumption
<1>3. k * Radix \in Nat /\ (k - 1) * Radix >= 0 /\ (k - 1) * Radix = k * Radix - Radix
  BY <1>2
<1>4. DigitMod = 2 * (k * Radix)
  BY <1>1, <1>2
<1>. DEFINE h == k * Radix
<1>5. h \in Nat /\ DigitMod = 2 * h
  BY <1>3, <1>4
<1>. HIDE DEF h
<1>6. DigitMod \div 2 = h
  BY <1>5
<1>. QED
  BY <1>2, <1>3, <1>4, <1>6 DEF h

LEMMA WrapFacts ==
  /\ \A n \in Nat : n < 2 * Radix => Wrap(n) = n
  /\ \A n \in Nat : n > 0 /\ n <= Radix => Wrap(-n) = DigitMod - n
<1>1. PICK k \in Nat : /\ k >= 1 /\ DigitMod = 2 * (k * Radix)
                       /\ k * Radix \in Nat /\ k * Radix >= Radix
  BY WidthFacts
<1>2. DigitMod \in Nat /\ DigitMod > 0 /\ DigitMod >= 2 * Radix /\ Radix \in Nat /\ Radix > 1
  BY <1>1, RadixFacts
<1>3. ASSUME NEW n \in Nat, n < 2 * Radix PROVE Wrap(n) = n
  <2>1. n < DigitMod /\ 0 * DigitMod + n = n
    BY <1>2, <1>3
  <2>2. (0 * DigitMod + n) % DigitMod = n
    BY <1>2, <2>1, DivMod
  <2>. QED
    BY <2>1, <2>2 DEF Wrap
<1>4. ASSUME NEW n \in Nat, n > 0, n <= Radix PROVE Wrap(-n) = DigitMod - n
  <2>1. DigitMod - n \in Nat /\ DigitMod - n < DigitMod /\ (-1) * DigitMod + (DigitMod - n) = -n
    BY <1>2, <1>4
  <2>2. ((-1) * DigitMod + (DigitMod - n)) % DigitMod = DigitMod - n
    BY <1>2, <2>1, DivMod
  <2>. QED
    BY <2>1, <2>2 DEF Wrap
<1>. QED
  BY <1>3, <1>4

(* s_mp_add: the digit stored and the carry kept are the sum.              *)
LEMMA AddDigit ==
  ASSUME NEW n \in Nat, n < 2 * Radix
  PROVE  /\ Masked(Wrap(n)) \in Digits
         /\ Carry(Wrap(n)) \in {0, 1}
         /\ Masked(Wrap(n)) + Carry(Wrap(n)) * Radix = n
<1>1. Wrap(n) = n /\ Radix \in Nat /\ Radix > 1
  BY WrapFacts, RadixFacts
<1>2. CASE n < Radix
  <2>1. 0 * Radix + n = n
    BY <1>1
  <2>2. n % Radix = n /\ n \div Radix = 0
    BY <1>1, <1>2, <2>1, DivMod
  <2>. QED
    BY <1>1, <1>2, <2>2 DEF Masked, Carry, Digits
<1>3. CASE n >= Radix
  <2>1. 1 * Radix + (n - Radix) = n /\ n - Radix \in Nat /\ n - Radix < Radix
    BY <1>1, <1>3
  <2>2. n % Radix = n - Radix /\ n \div Radix = 1
    BY <1>1, <2>1, DivMod
  <2>. QED
    BY <1>1, <2>1, <2>2 DEF Masked, Carry, Digits
<1>. QED
  BY <1>1, <1>2, <1>3

(* s_mp_sub: the digit stored, less the borrow, is the difference.         *)
LEMMA SubDigit ==
  ASSUME NEW n \in Int, -Radix <= n, n < Radix
  PROVE  /\ Masked(Wrap(n)) \in Digits
         /\ HighBit(Wrap(n)) \in {0, 1}
         /\ Masked(Wrap(n)) - HighBit(Wrap(n)) * Radix = n
<1>1. PICK k \in Nat : /\ k >= 1 /\ DigitMod = 2 * (k * Radix)
                       /\ DigitMod \div 2 = k * Radix
                       /\ k * Radix \in Nat /\ k * Radix >= Radix
  BY WidthFacts
<1>2. Radix \in Nat /\ Radix > 1
  BY RadixFacts
<1>. DEFINE h == k * Radix
<1>3. h \in Nat /\ h >= Radix /\ DigitMod = 2 * h /\ DigitMod \div 2 = h /\ h > 0
  BY <1>1, <1>2
<1>4. CASE n >= 0
  <2>1. Wrap(n) = n /\ n \in Nat
    BY <1>2, <1>4, WrapFacts
  <2>2. 0 * Radix + n = n /\ 0 * h + n = n /\ n < h
    BY <1>2, <1>3
  <2>. HIDE DEF h
  <2>3. n % Radix = n /\ n \div h = 0
    BY <1>2, <1>3, <2>1, <2>2, DivMod
  <2>. QED
    BY <1>2, <1>3, <1>4, <2>1, <2>3 DEF Masked, HighBit, Digits
<1>5. CASE n < 0
  <2>. DEFINE q == 2 * k - 1
              r == n + Radix
              s == h + n
  <2>1. -n \in Nat /\ -n > 0 /\ -n <= Radix /\ -(-n) = n
    BY <1>2, <1>5
  <2>2. Wrap(n) = DigitMod - (-n)
    BY <2>1, WrapFacts
  <2>3. q * Radix = 2 * h - Radix
    BY <1>1, <1>2
  <2>4. r \in Nat /\ r < Radix /\ s \in Nat /\ s < h /\ q \in Int
    BY <1>1, <1>2, <1>3, <1>5
  <2>5. q * Radix + r = Wrap(n) /\ 1 * h + s = Wrap(n)
    BY <1>2, <1>3, <2>2, <2>3, <2>4
  <2>. HIDE DEF h, q, r, s
  <2>6. (q * Radix + r) % Radix = r /\ (1 * h + s) \div h = 1
    <3>1. (q * Radix + r) % Radix = r
      BY <1>2, <2>4, DivMod
    <3>2. (1 * h + s) \div h = 1
      BY <1>3, <2>4, DivMod
    <3>. QED
      BY <3>1, <3>2
  <2>7. Masked(Wrap(n)) = r /\ HighBit(Wrap(n)) = 1
    BY <1>3, <2>5, <2>6 DEF Masked, HighBit
  <2>. QED
    BY <1>2, <2>4, <2>7 DEF r, Digits
<1>. QED
  BY <1>4, <1>5

(* Subtracting the digit and then the borrow wraps no more than once.      *)
LEMMA WrapTwice ==
  ASSUME NEW x \in Digits, NEW y \in Digits, NEW u \in {0, 1}
  PROVE  Wrap(Wrap(x - y) - u) = Wrap(x - y - u)
<1>1. x \in Nat /\ y \in Nat /\ x < Radix /\ y < Radix /\ Radix \in Nat /\ Radix > 1 /\ u \in Nat
  BY RadixFacts DEF Digits
<1>2. CASE x - y >= 0
  BY <1>1, <1>2, WrapFacts
<1>3. CASE x - y < 0
  <2>1. y - x \in Nat /\ y - x > 0 /\ y - x <= Radix /\ -(y - x) = x - y
        /\ y - x + u \in Nat /\ y - x + u > 0 /\ y - x + u <= Radix /\ -(y - x + u) = x - y - u
    BY <1>1, <1>3
  <2>2. Wrap(x - y) = DigitMod - (y - x) /\ Wrap(x - y - u) = DigitMod - (y - x + u)
    BY <2>1, WrapFacts
  <2>3. PICK k \in Nat : DigitMod = 2 * (k * Radix) /\ k * Radix \in Nat /\ k * Radix >= Radix
    BY WidthFacts
  <2>. DEFINE v == DigitMod - (y - x + u)
  <2>4. v \in Nat /\ v < DigitMod /\ DigitMod \in Nat /\ DigitMod > 0 /\ 0 * DigitMod + v = v
    BY <1>1, <2>1, <2>3
  <2>5. Wrap(x - y) - u = v
    BY <1>1, <2>2, <2>4
  <2>. HIDE DEF v
  <2>6. v % DigitMod = v
    BY <2>4, DivMod
  <2>. QED
    BY <2>2, <2>5, <2>6 DEF v, Wrap
<1>. QED
  BY <1>1, <1>2, <1>3

(***************************************************************************)
(* One iteration: storing digit v in place n and carrying w keeps what the *)
(* digits spell, if v and w are the digits read and the carry before.      *)
(***************************************************************************)
LEMMA DigitStored ==
  ASSUME NEW d \in Vectors, NEW n \in Places, NEW v \in Digits
  PROVE  /\ [d EXCEPT ![n] = v] \in Vectors
         /\ Val([d EXCEPT ![n] = v])[n + 1] = Val(d)[n] + v * Pow[n]
         /\ \A j \in Places : j >= n + 1 => [d EXCEPT ![n] = v][j] = d[j]
<1>. DEFINE e == [d EXCEPT ![n] = v]
<1>1. n \in Nat /\ n \in Counts /\ \A j \in Places : j \in Nat
  BY PlaceFacts
<1>2. e \in Vectors /\ e[n] = v /\ \A j \in Places : j # n => e[j] = d[j]
  BY DEF Vectors
<1>. HIDE DEF e
<1>3. Val(e)[n] = Val(d)[n]
  <2>1. \A j \in Places : j < n => e[j] = d[j]
    BY <1>1, <1>2
  <2>. QED
    BY <1>1, <1>2, <2>1, ValPrefix
<1>4. Val(e)[n + 1] = Val(e)[n] + e[n] * Pow[n]
  BY <1>2, ValRecursion
<1>5. \A j \in Places : j >= n + 1 => e[j] = d[j]
  BY <1>1, <1>2
<1>. QED
  BY <1>2, <1>3, <1>4, <1>5 DEF e

LEMMA SumStored ==
  ASSUME NEW d \in Vectors, NEW x \in Vectors, NEW y \in Vectors, NEW n \in Places,
         NEW v \in Digits, NEW u \in Int, NEW w \in Int,
         Val(d)[n] + u * Pow[n] = Val(x)[n] + Val(y)[n],
         v + w * Radix = x[n] + y[n] + u
  PROVE  Val([d EXCEPT ![n] = v])[n + 1] + w * Pow[n + 1] = Val(x)[n + 1] + Val(y)[n + 1]
<1>. DEFINE p == Pow[n]
            D == Val(d)[n]
            X == Val(x)[n]
            Y == Val(y)[n]
            s == x[n]
            t == y[n]
<1>1. p \in Int /\ D \in Int /\ X \in Int /\ Y \in Int /\ s \in Int /\ t \in Int
      /\ v \in Int /\ Radix \in Int
  BY PowFacts, ValBounds, DigitFacts, PlaceFacts, RadixFacts DEF Digits
<1>2. Val([d EXCEPT ![n] = v])[n + 1] = D + v * p
  BY DigitStored
<1>3. Val(x)[n + 1] = X + s * p /\ Val(y)[n + 1] = Y + t * p
  BY ValRecursion
<1>4. Pow[n + 1] = Radix * p
  BY PowFacts, PlaceFacts
<1>5. D + u * p = X + Y /\ v + w * Radix = s + t + u
  OBVIOUS
<1>. HIDE DEF p, D, X, Y, s, t
<1>6. (D + v * p) + w * (Radix * p) = (X + s * p) + (Y + t * p)
  <2>1. v * p + w * (Radix * p) = (v + w * Radix) * p
    BY <1>1
  <2>2. (v + w * Radix) * p = (s + t + u) * p
    BY <1>5
  <2>3. (s + t + u) * p = s * p + t * p + u * p
    BY <1>1
  <2>4. v * p \in Int /\ w * (Radix * p) \in Int /\ s * p \in Int /\ t * p \in Int /\ u * p \in Int
    BY <1>1
  <2>. QED
    BY <1>1, <1>5, <2>1, <2>2, <2>3, <2>4
<1>. QED
  BY <1>2, <1>3, <1>4, <1>6

LEMMA DifferenceStored ==
  ASSUME NEW d \in Vectors, NEW x \in Vectors, NEW y \in Vectors, NEW n \in Places,
         NEW v \in Digits, NEW u \in Int, NEW w \in Int,
         Val(d)[n] - u * Pow[n] = Val(x)[n] - Val(y)[n],
         v - w * Radix = x[n] - y[n] - u
  PROVE  Val([d EXCEPT ![n] = v])[n + 1] - w * Pow[n + 1] = Val(x)[n + 1] - Val(y)[n + 1]
<1>. DEFINE p == Pow[n]
            D == Val(d)[n]
            X == Val(x)[n]
            Y == Val(y)[n]
            s == x[n]
            t == y[n]
<1>1. p \in Int /\ D \in Int /\ X \in Int /\ Y \in Int /\ s \in Int /\ t \in Int
      /\ v \in Int /\ Radix \in Int
  BY PowFacts, ValBounds, DigitFacts, PlaceFacts, RadixFacts DEF Digits
<1>2. Val([d EXCEPT ![n] = v])[n + 1] = D + v * p
  BY DigitStored
<1>3. Val(x)[n + 1] = X + s * p /\ Val(y)[n + 1] = Y + t * p
  BY ValRecursion
<1>4. Pow[n + 1] = Radix * p
  BY PowFacts, PlaceFacts
<1>5. D - u * p = X - Y /\ v - w * Radix = s - t - u
  OBVIOUS
<1>. HIDE DEF p, D, X, Y, s, t
<1>6. (D + v * p) - w * (Radix * p) = (X + s * p) - (Y + t * p)
  <2>1. v * p - w * (Radix * p) = (v - w * Radix) * p
    BY <1>1
  <2>2. (v - w * Radix) * p = (s - t - u) * p
    BY <1>5
  <2>3. (s - t - u) * p = s * p - t * p - u * p
    BY <1>1
  <2>4. v * p \in Int /\ w * (Radix * p) \in Int /\ s * p \in Int /\ t * p \in Int /\ u * p \in Int
    BY <1>1
  <2>. QED
    BY <1>1, <1>5, <2>1, <2>2, <2>3, <2>4
<1>. QED
  BY <1>2, <1>3, <1>4, <1>6

(***************************************************************************)
(* What the loops start from and what they end with.                       *)
(***************************************************************************)
Signed(s, m) == IF s = MP_NEG THEN -m ELSE m

(* mp_grow gives x room for size digits without a change to the digits,    *)
(* for all it clears was zero.                                             *)
LEMMA GrowthFacts ==
  ASSUME NEW x \in MpInts, NEW size \in Nat, NEW g \in Growths(x, size),
         x.used <= x.alloc, \A i \in Places : i >= x.used => x.digit[i] = 0
  PROVE  /\ g.num \in MpInts
         /\ g.num.digit = x.digit /\ g.num.used = x.used /\ g.num.sign = x.sign
         /\ g.code \in {"OKAY", "MEM", "OVF"}
         /\ g.code = "OKAY" => size <= g.num.alloc /\ size \in Counts
<1>1. x.alloc \in Nat /\ x.used \in Nat /\ x.alloc <= MP_MAX_DIGIT_COUNT
      /\ x.alloc \in Counts /\ x.digit \in Vectors
  BY MpIntFacts, PlaceFacts
<1>2. CASE size <= x.alloc
  <2>1. g = [code |-> "OKAY", num |-> x]
    BY <1>2 DEF Growths
  <2>2. size \in Counts
    BY <1>1, <1>2, RadixFacts, PlaceFacts
  <2>. QED
    BY <1>2, <2>1, <2>2
<1>3. CASE ~ (size <= x.alloc) /\ size > MP_MAX_DIGIT_COUNT
  <2>1. g = [code |-> "OVF", num |-> x]
    BY <1>3 DEF Growths
  <2>. QED
    BY <2>1
<1>4. CASE ~ (size <= x.alloc) /\ ~ (size > MP_MAX_DIGIT_COUNT)
  <2>. DEFINE z == ZeroDigs(x.digit, x.alloc, size - x.alloc)
  <2>1. size \in Counts
    BY <1>4, RadixFacts, PlaceFacts
  <2>2. z = x.digit
    <3>1. \A i \in Places : x.alloc <= i => x.digit[i] = 0
      BY <1>1, PlaceFacts
    <3>2. x.digit = [i \in Places |-> x.digit[i]]
      BY <1>1 DEF Vectors
    <3>. QED
      BY <3>1, <3>2 DEF ZeroDigs
  <2>. HIDE DEF z
  <2>3. g = [code |-> "MEM", num |-> x]
        \/ g = [code |-> "OKAY", num |-> [x EXCEPT !.alloc = size, !.digit = z]]
    BY <1>4 DEF Growths, z
  <2>4. CASE g = [code |-> "MEM", num |-> x]
    BY <2>4
  <2>5. CASE g = [code |-> "OKAY", num |-> [x EXCEPT !.alloc = size, !.digit = z]]
    <3>1. g.num = [x EXCEPT !.alloc = size, !.digit = z] /\ g.code = "OKAY"
      BY <2>5
    <3>2. [x EXCEPT !.alloc = size, !.digit = z] \in MpInts
          /\ [x EXCEPT !.alloc = size, !.digit = z].alloc = size
          /\ [x EXCEPT !.alloc = size, !.digit = z].used = x.used
          /\ [x EXCEPT !.alloc = size, !.digit = z].sign = x.sign
          /\ [x EXCEPT !.alloc = size, !.digit = z].digit = z
      BY <1>1, <2>1, <2>2 DEF MpInts
    <3>. QED
      BY <1>1, <2>1, <2>2, <3>1, <3>2
  <2>. QED
    BY <2>3, <2>4, <2>5
<1>. QED
  BY <1>2, <1>3, <1>4

(* Clearing what the destination had above used and clamping leaves a      *)
(* number, of the digits below used.                                       *)
LEMMA FinishFacts ==
  ASSUME NEW c \in MpInts, NEW d \in Vectors, NEW oldused \in Counts,
         c.used <= c.alloc,
         \A j \in Places : j >= c.used /\ j >= oldused => d[j] = 0
  PROVE  LET r == mp_clamp([c EXCEPT !.digit = ZeroDigs(d, c.used, oldused - c.used)])
         IN  r \in MpInts /\ WellFormed(r) /\ IntVal(r) = Signed(c.sign, Val(d)[c.used])
<1>. DEFINE e == ZeroDigs(d, c.used, oldused - c.used)
            b == [c EXCEPT !.digit = e]
            r == mp_clamp(b)
<1>1. c.used \in Counts /\ c.used \in Nat /\ oldused \in Nat /\ c.alloc \in Nat
      /\ c.sign \in Signs /\ 0 \in Digits
  BY MpIntFacts, PlaceFacts, RadixFacts DEF Digits
<1>2. \A j \in Places : j \in Nat
  BY PlaceFacts
<1>3. c.used + (oldused - c.used) = oldused
  BY <1>1
<1>4. e = [i \in Places |-> IF c.used <= i /\ i < oldused THEN 0 ELSE d[i]]
  BY <1>3 DEF ZeroDigs
<1>. HIDE DEF e
<1>5. e \in Vectors
  BY <1>1, <1>4 DEF Vectors
<1>6. \A i \in Places : e[i] = IF c.used <= i /\ i < oldused THEN 0 ELSE d[i]
  BY <1>4
<1>7. \A i \in Places : i < c.used => e[i] = d[i]
  BY <1>1, <1>2, <1>6
<1>8. \A i \in Places : i >= c.used => e[i] = 0
  BY <1>1, <1>2, <1>6
<1>9. Val(e)[c.used] = Val(d)[c.used]
  BY <1>1, <1>5, <1>7, ValPrefix
<1>10. b \in MpInts /\ b.used = c.used /\ b.alloc = c.alloc /\ b.sign = c.sign /\ b.digit = e
  BY <1>5 DEF MpInts
<1>. HIDE DEF b
<1>11. /\ r \in MpInts /\ Mag(r) = Mag(b) /\ r.used <= b.used /\ r.digit = b.digit
       /\ r.alloc = b.alloc
       /\ r.used > 0 => r.sign = b.sign
       /\ r.used = 0 => r.sign = MP_ZPOS
       /\ r.used > 0 => b.digit[r.used - 1] # 0
       /\ \A i \in Places : r.used <= i /\ i < b.used => b.digit[i] = 0
  BY <1>10, ClampKeepsMag
<1>. HIDE DEF r
<1>12. r.used \in Nat /\ r.used \in Counts
  BY <1>11, MpIntFacts, PlaceFacts
<1>13. WellFormed(r)
  <2>1. r.used <= r.alloc
    BY <1>1, <1>10, <1>11, <1>12
  <2>2. \A i \in Places : i >= r.used => r.digit[i] = 0
    BY <1>1, <1>2, <1>8, <1>10, <1>11, <1>12
  <2>. QED
    BY <1>11, <2>1, <2>2 DEF WellFormed
<1>14. Mag(r) = Val(d)[c.used]
  BY <1>9, <1>10, <1>11 DEF Mag
<1>15. IntVal(r) = Signed(c.sign, Mag(r))
  <2>1. CASE r.used > 0
    BY <1>10, <1>11, <2>1 DEF IntVal, Signed
  <2>2. CASE r.used = 0
    <3>1. Mag(r) = 0
      BY <1>11, <2>2, MpIntFacts, ValRecursion
    <3>. QED
      BY <1>11, <2>2, <3>1 DEF IntVal, Signed, MP_NEG, MP_ZPOS
  <2>. QED
    BY <1>12, <2>1, <2>2
<1>. QED
  BY <1>11, <1>13, <1>14, <1>15 DEF r, b, e

(***************************************************************************)
(* The inductive invariant.                                                *)
(***************************************************************************)
OldSound == \A z \in Ints : WellFormed(old[z])

(* Only the destination changes.                                           *)
OthersKept == \A z \in Ints : z # fr.c => num[z] = old[z]

(* Until the loops start, only the sign of the destination does.           *)
BeforeLoops ==
  /\ pc = "call" => num = old
  /\ pc \in {"s_mp_add", "s_mp_sub"} =>
       /\ num[fr.c].used = old[fr.c].used
       /\ num[fr.c].alloc = old[fr.c].alloc
       /\ num[fr.c].digit = old[fr.c].digit

(* The routine chosen, with the sign chosen, gives the result, and         *)
(* s_mp_sub takes the smaller magnitude from the larger.                   *)
Adding(s, x, y) == Expected = Signed(s, Mag(old[x]) + Mag(old[y]))

Subtracting(s, x, y) ==
  /\ old[y].used <= old[x].used
  /\ Mag(old[y]) <= Mag(old[x])
  /\ Expected = Signed(s, Mag(old[x]) - Mag(old[y]))

RightRoutine ==
  /\ pc \in {"s_mp_add", "add_loop"} => Adding(num[fr.c].sign, fr.x, fr.y)
  /\ pc \in {"s_mp_sub", "sub_loop"} => Subtracting(num[fr.c].sign, fr.x, fr.y)

(* The bounds of the loops are the digit counts the operands had; the      *)
(* digits not yet written are still those of the operand.                  *)
LoopBounds ==
  pc \in {"add_loop", "sub_loop"} =>
    /\ fr.min = old[fr.y].used /\ fr.max = old[fr.x].used
    /\ fr.min <= fr.max /\ fr.i <= fr.max
    /\ fr.oldused = old[fr.c].used
    /\ num[fr.c].used <= num[fr.c].alloc
    /\ pc = "add_loop" => num[fr.c].used = fr.max + 1
    /\ pc = "sub_loop" => num[fr.c].used = fr.max
    /\ \A j \in Places : j >= fr.i => num[fr.c].digit[j] = old[fr.c].digit[j]

(* The digits written, with the carry or less the borrow.                  *)
SoFar ==
  /\ pc = "add_loop" =>
       Val(num[fr.c].digit)[fr.i] + fr.u * Pow[fr.i]
         = Val(old[fr.x].digit)[fr.i] + Val(old[fr.y].digit)[fr.i]
  /\ pc = "sub_loop" =>
       Val(num[fr.c].digit)[fr.i] - fr.u * Pow[fr.i]
         = Val(old[fr.x].digit)[fr.i] - Val(old[fr.y].digit)[fr.i]

Results == ResultCorrect /\ ResultWellFormed /\ FailureKeepsMagnitude

IInv ==
  /\ TypeOK /\ OldSound /\ OthersKept /\ BeforeLoops
  /\ RightRoutine /\ LoopBounds /\ SoFar /\ Results

LEMMA FrameFacts ==
  ASSUME fr \in Frames
  PROVE  /\ fr.op \in {"add", "sub"} /\ fr.a \in Ints /\ fr.b \in Ints /\ fr.c \in Ints
         /\ fr.x \in Ints /\ fr.y \in Ints
         /\ fr.min \in Counts /\ fr.max \in Counts /\ fr.oldused \in Counts
         /\ fr.i \in Counts /\ fr.u \in {0, 1}
         /\ fr.min \in Nat /\ fr.max \in Nat /\ fr.oldused \in Nat /\ fr.i \in Nat
BY PlaceFacts DEF Frames

(* An assignment to the destination leaves every other structure alone.    *)
LEMMA StoreFacts ==
  ASSUME TypeOK, NEW z \in MpInts, Store(z)
  PROVE  /\ num' \in [Ints -> MpInts] /\ num'[fr.c] = z
         /\ \A s \in Ints : s # fr.c => num'[s] = num[s]
BY FrameFacts DEF TypeOK, Store

LEMMA ExpectedFacts ==
  ASSUME UNCHANGED old, fr'.op = fr.op, fr'.a = fr.a, fr'.b = fr.b
  PROVE  Expected' = Expected
BY DEF Expected, IntVal, Mag

LEMMA Initially == Init => IInv
<1>. SUFFICES ASSUME Init PROVE IInv
  OBVIOUS
<1>. USE DEF Init
<1>1. PICK op \in {"add", "sub"}, a \in Ints, b \in Ints, c \in Ints :
        fr = [op |-> op, a |-> a, b |-> b, c |-> c, x |-> a, y |-> b,
              min |-> 0, max |-> 0, oldused |-> 0, i |-> 0, u |-> 0]
  OBVIOUS
<1>2. fr \in Frames
  BY <1>1, PlaceFacts DEF Frames
<1>3. num \in [Ints -> MpInts] /\ OldSound
  BY NumbersAssumption DEF OldSound
<1>4. TypeOK /\ OthersKept /\ BeforeLoops
  BY <1>2, <1>3 DEF TypeOK, OthersKept, BeforeLoops
<1>. QED
  BY <1>3, <1>4 DEF IInv, RightRoutine, LoopBounds, SoFar, Results, ResultCorrect,
                    ResultWellFormed, FailureKeepsMagnitude

(***************************************************************************)
(* mp_add and mp_sub.                                                      *)
(***************************************************************************)
LEMMA EnterStep ==
  ASSUME IInv, pc = "call",
         NEW routine \in {"s_mp_add", "s_mp_sub"}, NEW x \in Ints, NEW y \in Ints,
         NEW sign \in Signs, Enter(routine, x, y, sign),
         routine = "s_mp_add" => Adding(sign, x, y),
         routine = "s_mp_sub" => Subtracting(sign, x, y)
  PROVE  IInv'
<1>. DEFINE z == [num[fr.c] EXCEPT !.sign = sign]
<1>1. TypeOK /\ fr \in Frames /\ fr.c \in Ints /\ num = old /\ num[fr.c] \in MpInts
  BY FrameFacts DEF IInv, TypeOK, BeforeLoops
<1>2. Store(z) /\ fr' = [fr EXCEPT !.x = x, !.y = y] /\ pc' = routine
      /\ err' = err /\ old' = old
  BY DEF Enter
<1>3. z \in MpInts /\ z.sign = sign /\ z.used = old[fr.c].used
      /\ z.alloc = old[fr.c].alloc /\ z.digit = old[fr.c].digit
  BY <1>1 DEF MpInts
<1>. HIDE DEF z
<1>4. num' \in [Ints -> MpInts] /\ num'[fr.c] = z
      /\ \A s \in Ints : s # fr.c => num'[s] = num[s]
  BY <1>1, <1>2, <1>3, StoreFacts
<1>5. fr' \in Frames /\ fr'.c = fr.c /\ fr'.op = fr.op /\ fr'.a = fr.a /\ fr'.b = fr.b
      /\ fr'.x = x /\ fr'.y = y
  BY <1>1, <1>2 DEF Frames
<1>6. Expected' = Expected
  BY <1>2, <1>5, ExpectedFacts
<1>7. TypeOK'
  BY <1>1, <1>2, <1>4, <1>5 DEF TypeOK
<1>8. OldSound' /\ OthersKept'
  BY <1>1, <1>2, <1>4, <1>5 DEF IInv, OldSound, OthersKept, WellFormed
<1>9. BeforeLoops'
  BY <1>2, <1>3, <1>4, <1>5 DEF BeforeLoops
<1>10. RightRoutine'
  BY <1>2, <1>3, <1>4, <1>5, <1>6 DEF RightRoutine, Adding, Subtracting, Mag
<1>11. LoopBounds' /\ SoFar' /\ Results'
  BY <1>2 DEF LoopBounds, SoFar, Results, ResultCorrect, ResultWellFormed,
              FailureKeepsMagnitude
<1>. QED
  BY <1>7, <1>8, <1>9, <1>10, <1>11 DEF IInv

(* The values of the operands at the call.                                 *)
LEMMA CallFacts ==
  ASSUME IInv, pc = "call", NEW p \in Ints, NEW q \in Ints
  PROVE  /\ num = old
         /\ old[p].used \in Nat /\ Mag(old[p]) \in Nat /\ old[p].sign \in Signs
         /\ IntVal(old[p]) = Signed(old[p].sign, Mag(old[p]))
         /\ MagLT(num[p], num[q]) =>
              old[p].used <= old[q].used /\ Mag(old[p]) <= Mag(old[q])
         /\ ~ MagLT(num[p], num[q]) =>
              old[q].used <= old[p].used /\ Mag(old[q]) <= Mag(old[p])
<1>1. num = old /\ old[p] \in MpInts /\ old[q] \in MpInts
      /\ WellFormed(old[p]) /\ WellFormed(old[q])
  BY DEF IInv, TypeOK, OldSound, BeforeLoops
<1>2. /\ old[p].used \in Nat /\ Mag(old[p]) \in Nat /\ old[p].sign \in Signs
      /\ old[q].used \in Nat /\ Mag(old[q]) \in Nat
  BY <1>1, MpIntFacts, PlaceFacts
<1>3. MagLT(old[p], old[q]) <=> Mag(old[p]) < Mag(old[q])
  BY <1>1, MagLTCorrect
<1>4. MagLT(old[p], old[q]) => old[p].used <= old[q].used
  BY <1>2 DEF MagLT
<1>5. ~ MagLT(old[p], old[q]) => old[q].used <= old[p].used
  BY <1>2 DEF MagLT
<1>. QED
  BY <1>1, <1>2, <1>3, <1>4, <1>5 DEF IntVal, Signed

LEMMA AddStep == IInv /\ mp_add => IInv'
<1>. SUFFICES ASSUME IInv, mp_add PROVE IInv'
  OBVIOUS
<1>. DEFINE a == fr.a
            b == fr.b
<1>1. pc = "call" /\ a \in Ints /\ b \in Ints /\ fr.op = "add"
  BY FrameFacts DEF IInv, TypeOK, mp_add
<1>2. Expected = IntVal(old[a]) + IntVal(old[b])
  BY <1>1 DEF Expected
<1>3. SameSign(a, b) <=> old[a].sign = old[b].sign
  BY <1>1, CallFacts DEF SameSign
<1>4. /\ old[a].sign \in Signs /\ old[b].sign \in Signs
      /\ Mag(old[a]) \in Nat /\ Mag(old[b]) \in Nat
      /\ IntVal(old[a]) = Signed(old[a].sign, Mag(old[a]))
      /\ IntVal(old[b]) = Signed(old[b].sign, Mag(old[b]))
      /\ num[a] = old[a] /\ num[b] = old[b]
  BY <1>1, CallFacts
<1>5. CASE SameSign(a, b) /\ Enter("s_mp_add", a, b, num[a].sign)
  <2>1. Adding(num[a].sign, a, b)
    BY <1>2, <1>3, <1>4, <1>5 DEF Adding, Signed
  <2>. QED
    BY <1>1, <1>4, <1>5, <2>1, EnterStep
<1>6. CASE ~ SameSign(a, b) /\ MagLT(num[a], num[b])
           /\ Enter("s_mp_sub", b, a, num[b].sign)
  <2>1. old[a].used <= old[b].used /\ Mag(old[a]) <= Mag(old[b])
    BY <1>1, <1>6, CallFacts
  <2>2. Subtracting(num[b].sign, b, a)
    BY <1>2, <1>3, <1>4, <1>6, <2>1 DEF Subtracting, Signed, Signs, MP_NEG, MP_ZPOS
  <2>. QED
    BY <1>1, <1>4, <1>6, <2>2, EnterStep
<1>7. CASE ~ SameSign(a, b) /\ ~ MagLT(num[a], num[b])
           /\ Enter("s_mp_sub", a, b, num[a].sign)
  <2>1. old[b].used <= old[a].used /\ Mag(old[b]) <= Mag(old[a])
    BY <1>1, <1>7, CallFacts
  <2>2. Subtracting(num[a].sign, a, b)
    BY <1>2, <1>3, <1>4, <1>7, <2>1 DEF Subtracting, Signed, Signs, MP_NEG, MP_ZPOS
  <2>. QED
    BY <1>1, <1>4, <1>7, <2>2, EnterStep
<1>. QED
  BY <1>5, <1>6, <1>7 DEF mp_add

LEMMA SubStep == IInv /\ mp_sub => IInv'
<1>. SUFFICES ASSUME IInv, mp_sub PROVE IInv'
  OBVIOUS
<1>. DEFINE a == fr.a
            b == fr.b
<1>1. pc = "call" /\ a \in Ints /\ b \in Ints /\ fr.op = "sub"
  BY FrameFacts DEF IInv, TypeOK, mp_sub
<1>2. Expected = IntVal(old[a]) - IntVal(old[b])
  BY <1>1 DEF Expected
<1>3. SameSign(a, b) <=> old[a].sign = old[b].sign
  BY <1>1, CallFacts DEF SameSign
<1>4. /\ old[a].sign \in Signs /\ old[b].sign \in Signs
      /\ Mag(old[a]) \in Nat /\ Mag(old[b]) \in Nat
      /\ IntVal(old[a]) = Signed(old[a].sign, Mag(old[a]))
      /\ IntVal(old[b]) = Signed(old[b].sign, Mag(old[b]))
      /\ num[a] = old[a] /\ num[b] = old[b]
  BY <1>1, CallFacts
<1>5. CASE ~ SameSign(a, b) /\ Enter("s_mp_add", a, b, num[a].sign)
  <2>1. Adding(num[a].sign, a, b)
    BY <1>2, <1>3, <1>4, <1>5 DEF Adding, Signed, Signs, MP_NEG, MP_ZPOS
  <2>. QED
    BY <1>1, <1>4, <1>5, <2>1, EnterStep
<1>6. CASE SameSign(a, b) /\ MagLT(num[a], num[b])
           /\ Enter("s_mp_sub", b, a, Opposite(num[a].sign))
  <2>1. old[a].used <= old[b].used /\ Mag(old[a]) <= Mag(old[b])
    BY <1>1, <1>6, CallFacts
  <2>2. Subtracting(Opposite(num[a].sign), b, a) /\ Opposite(num[a].sign) \in Signs
    BY <1>2, <1>3, <1>4, <1>6, <2>1
       DEF Subtracting, Signed, Signs, MP_NEG, MP_ZPOS, Opposite
  <2>. QED
    BY <1>1, <1>6, <2>2, EnterStep
<1>7. CASE SameSign(a, b) /\ ~ MagLT(num[a], num[b])
           /\ Enter("s_mp_sub", a, b, num[a].sign)
  <2>1. old[b].used <= old[a].used /\ Mag(old[b]) <= Mag(old[a])
    BY <1>1, <1>7, CallFacts
  <2>2. Subtracting(num[a].sign, a, b)
    BY <1>2, <1>3, <1>4, <1>7, <2>1 DEF Subtracting, Signed, Signs, MP_NEG, MP_ZPOS
  <2>. QED
    BY <1>1, <1>4, <1>7, <2>2, EnterStep
<1>. QED
  BY <1>5, <1>6, <1>7 DEF mp_sub

(***************************************************************************)
(* The start of the loops.                                                 *)
(***************************************************************************)
LEMMA BeginStep ==
  ASSUME IInv, pc \in {"s_mp_add", "s_mp_sub"},
         NEW loop \in {"add_loop", "sub_loop"}, NEW x \in Ints, NEW y \in Ints,
         NEW size \in Nat, Begin(loop, x, y, size), old[y].used <= old[x].used,
         loop = "add_loop" => size = old[x].used + 1 /\ Adding(num[fr.c].sign, x, y),
         loop = "sub_loop" => size = old[x].used /\ Subtracting(num[fr.c].sign, x, y)
  PROVE  IInv'
<1>. DEFINE c == num[fr.c]
            o == old[fr.c]
<1>1. TypeOK /\ fr \in Frames /\ fr.c \in Ints /\ c \in MpInts /\ o \in MpInts
      /\ old[x] \in MpInts /\ old[y] \in MpInts /\ num[x] \in MpInts /\ num[y] \in MpInts
      /\ num \in [Ints -> MpInts] /\ old \in [Ints -> MpInts]
  BY FrameFacts DEF IInv, TypeOK
<1>2. c.used = o.used /\ c.alloc = o.alloc /\ c.digit = o.digit /\ WellFormed(o)
      /\ c.sign \in Signs
  BY <1>1, MpIntFacts DEF IInv, BeforeLoops, OldSound
<1>3. num[x].used = old[x].used /\ num[y].used = old[y].used
  BY <1>1, <1>2 DEF IInv, OthersKept
<1>4. old[x].used \in Counts /\ old[y].used \in Counts /\ o.used \in Counts
      /\ old[x].used \in Nat /\ old[y].used \in Nat /\ 0 \in Counts /\ 0 \in Nat
  BY <1>1, MpIntFacts, PlaceFacts
<1>5. PICK g \in Growths(c, size) :
        \/ /\ g.code # "OKAY"
           /\ Return(g.code)
           /\ UNCHANGED << num, fr >>
        \/ /\ g.code = "OKAY"
           /\ Store([g.num EXCEPT !.used = size])
           /\ fr' = [fr EXCEPT !.x = x, !.y = y, !.min = num[y].used, !.max = num[x].used,
                               !.oldused = c.used, !.i = 0, !.u = 0]
           /\ pc' = loop
           /\ UNCHANGED << err, old >>
  BY DEF Begin
<1>6. c.used <= c.alloc /\ \A i \in Places : i >= c.used => c.digit[i] = 0
  BY <1>2 DEF WellFormed
<1>7. /\ g.num \in MpInts
      /\ g.num.digit = c.digit /\ g.num.used = c.used /\ g.num.sign = c.sign
      /\ g.code \in {"OKAY", "MEM", "OVF"}
      /\ g.code = "OKAY" => size <= g.num.alloc /\ size \in Counts
  <2>. HIDE DEF c
  <2>. QED
    BY <1>1, <1>6, GrowthFacts
<1>8. CASE g.code # "OKAY" /\ Return(g.code) /\ UNCHANGED << num, fr >>
  <2>1. pc' = "done" /\ err' = g.code /\ old' = old /\ num' = num /\ fr' = fr
    BY <1>8 DEF Return
  <2>2. TypeOK'
    BY <1>1, <1>7, <2>1 DEF TypeOK
  <2>3. OldSound' /\ OthersKept'
    BY <2>1 DEF IInv, OldSound, OthersKept, WellFormed
  <2>4. BeforeLoops' /\ RightRoutine' /\ LoopBounds' /\ SoFar'
    BY <2>1 DEF BeforeLoops, RightRoutine, LoopBounds, SoFar
  <2>5. ResultCorrect' /\ ResultWellFormed'
    BY <1>8, <2>1 DEF ResultCorrect, ResultWellFormed
  <2>6. FailureKeepsMagnitude'
    BY <1>2, <2>1 DEF FailureKeepsMagnitude, Mag
  <2>. QED
    BY <2>2, <2>3, <2>4, <2>5, <2>6 DEF IInv, Results
<1>9. CASE /\ g.code = "OKAY"
           /\ Store([g.num EXCEPT !.used = size])
           /\ fr' = [fr EXCEPT !.x = x, !.y = y, !.min = num[y].used, !.max = num[x].used,
                               !.oldused = c.used, !.i = 0, !.u = 0]
           /\ pc' = loop
           /\ UNCHANGED << err, old >>
  <2>. DEFINE z == [g.num EXCEPT !.used = size]
  <2>1. z \in MpInts /\ z.used = size /\ z.digit = o.digit /\ z.sign = c.sign
        /\ z.alloc = g.num.alloc
    BY <1>2, <1>7, <1>9 DEF MpInts
  <2>2. Store(z)
    BY <1>9
  <2>. HIDE DEF z
  <2>3. num' \in [Ints -> MpInts] /\ num'[fr.c] = z
        /\ \A s \in Ints : s # fr.c => num'[s] = num[s]
    BY <1>1, <2>1, <2>2, StoreFacts
  <2>4. fr' = [fr EXCEPT !.x = x, !.y = y, !.min = old[y].used, !.max = old[x].used,
                         !.oldused = o.used, !.i = 0, !.u = 0]
    BY <1>2, <1>3, <1>9
  <2>5. fr' \in Frames /\ fr'.c = fr.c /\ fr'.op = fr.op /\ fr'.a = fr.a /\ fr'.b = fr.b
        /\ fr'.x = x /\ fr'.y = y /\ fr'.min = old[y].used /\ fr'.max = old[x].used
        /\ fr'.oldused = o.used /\ fr'.i = 0 /\ fr'.u = 0
    <3>. HIDE DEF o
    <3>. QED
      BY <1>1, <1>4, <2>4 DEF Frames
  <2>6. pc' = loop /\ err' = err /\ old' = old
    BY <1>9
  <2>7. Expected' = Expected
    BY <2>5, <2>6, ExpectedFacts
  <2>8. TypeOK'
    BY <1>1, <2>3, <2>5, <2>6 DEF TypeOK
  <2>9. OldSound' /\ OthersKept'
    BY <1>1, <2>3, <2>5, <2>6 DEF IInv, OldSound, OthersKept, WellFormed
  <2>10. BeforeLoops'
    BY <2>6 DEF BeforeLoops
  <2>11. RightRoutine'
    BY <2>1, <2>3, <2>5, <2>6, <2>7 DEF RightRoutine, Adding, Subtracting, Mag
  <2>12. LoopBounds'
    BY <1>4, <1>7, <1>9, <2>1, <2>3, <2>5, <2>6 DEF LoopBounds
  <2>13. SoFar'
    <3>1. /\ Val(z.digit)[0] = 0 /\ Val(old[x].digit)[0] = 0 /\ Val(old[y].digit)[0] = 0
          /\ Pow[0] = 1
      BY <1>1, <2>1, MpIntFacts, ValRecursion, PowFacts
    <3>. QED
      BY <2>3, <2>5, <2>6, <3>1 DEF SoFar
  <2>14. Results'
    BY <2>6 DEF Results, ResultCorrect, ResultWellFormed, FailureKeepsMagnitude
  <2>. QED
    BY <2>8, <2>9, <2>10, <2>11, <2>12, <2>13, <2>14 DEF IInv
<1>. QED
  BY <1>5, <1>8, <1>9

(* Until the loops start every structure has the used count it had.        *)
LEMMA EntryFacts ==
  ASSUME IInv, pc \in {"s_mp_add", "s_mp_sub"}
  PROVE  /\ fr.x \in Ints /\ fr.y \in Ints
         /\ num[fr.x].used = old[fr.x].used /\ num[fr.y].used = old[fr.y].used
         /\ old[fr.x].used \in Nat /\ old[fr.y].used \in Nat
         /\ Mag(old[fr.x]) \in Nat /\ Mag(old[fr.y]) \in Nat
<1>1. fr.x \in Ints /\ fr.y \in Ints /\ old \in [Ints -> MpInts]
  BY FrameFacts DEF IInv, TypeOK
<1>2. old[fr.x].used \in Nat /\ old[fr.y].used \in Nat
      /\ Mag(old[fr.x]) \in Nat /\ Mag(old[fr.y]) \in Nat
  BY <1>1, MpIntFacts, PlaceFacts
<1>. QED
  BY <1>1, <1>2 DEF IInv, OthersKept, BeforeLoops

LEMMA AddBeginStep == IInv /\ s_mp_add_begin => IInv'
<1>. SUFFICES ASSUME IInv, s_mp_add_begin PROVE IInv'
  OBVIOUS
<1>. DEFINE s == num[fr.c].sign
            m == old[fr.x].used
            n == old[fr.y].used
<1>1. pc = "s_mp_add"
  BY DEF s_mp_add_begin
<1>2. fr.x \in Ints /\ fr.y \in Ints /\ num[fr.x].used = m /\ num[fr.y].used = n
      /\ m \in Nat /\ n \in Nat /\ Mag(old[fr.x]) \in Nat /\ Mag(old[fr.y]) \in Nat
  BY <1>1, EntryFacts
<1>3. Adding(s, fr.x, fr.y)
  BY <1>1 DEF IInv, RightRoutine
<1>4. Adding(s, fr.y, fr.x)
  BY <1>2, <1>3 DEF Adding
<1>. HIDE DEF m, n
<1>5. m + 1 \in Nat /\ n + 1 \in Nat
  BY <1>2
<1>6. CASE m < n /\ Begin("add_loop", fr.y, fr.x, n + 1)
  <2>1. m <= n
    BY <1>2, <1>6
  <2>. QED
    BY <1>1, <1>2, <1>4, <1>5, <1>6, <2>1, BeginStep DEF m, n
<1>7. CASE m >= n /\ Begin("add_loop", fr.x, fr.y, m + 1)
  <2>1. n <= m
    BY <1>2, <1>7
  <2>. QED
    BY <1>1, <1>2, <1>3, <1>5, <1>7, <2>1, BeginStep DEF m, n
<1>. QED
  BY <1>2, <1>6, <1>7 DEF s_mp_add_begin

LEMMA SubBeginStep == IInv /\ s_mp_sub_begin => IInv'
<1>. SUFFICES ASSUME IInv, s_mp_sub_begin PROVE IInv'
  OBVIOUS
<1>1. pc = "s_mp_sub" /\ Begin("sub_loop", fr.x, fr.y, num[fr.x].used)
  BY DEF s_mp_sub_begin
<1>2. fr.x \in Ints /\ fr.y \in Ints /\ num[fr.x].used = old[fr.x].used
      /\ old[fr.x].used \in Nat
  BY <1>1, EntryFacts
<1>3. Subtracting(num[fr.c].sign, fr.x, fr.y)
  BY <1>1 DEF IInv, RightRoutine
<1>4. old[fr.y].used <= old[fr.x].used
  BY <1>3 DEF Subtracting
<1>. QED
  BY <1>1, <1>2, <1>3, <1>4, BeginStep

(***************************************************************************)
(* One iteration.                                                          *)
(***************************************************************************)

(* The digits read are those the operands had at the call, though one of   *)
(* them may be the destination; past min, y has none left.                 *)
LEMMA DigitsRead ==
  ASSUME IInv, pc \in {"add_loop", "sub_loop"}, fr.i < fr.max
  PROVE  /\ fr.i \in Places
         /\ XDigit = old[fr.x].digit[fr.i] /\ YDigit = old[fr.y].digit[fr.i]
         /\ XDigit \in Digits /\ YDigit \in Digits
         /\ fr.min <= fr.i => old[fr.y].digit[fr.i] = 0
<1>1. fr \in Frames /\ old \in [Ints -> MpInts] /\ LoopBounds /\ OthersKept /\ OldSound
  BY DEF IInv, TypeOK
<1>2. fr.x \in Ints /\ fr.y \in Ints /\ fr.c \in Ints
      /\ fr.i \in Nat /\ fr.max \in Nat /\ fr.max \in Counts
  BY <1>1, FrameFacts
<1>3. fr.i \in Places
  BY <1>2, RadixFacts, PlaceFacts
<1>4. \A j \in Places : j >= fr.i => num[fr.c].digit[j] = old[fr.c].digit[j]
  BY <1>1 DEF LoopBounds
<1>5. \A z \in Ints : num[z].digit[fr.i] = old[z].digit[fr.i]
  BY <1>1, <1>2, <1>3, <1>4 DEF OthersKept
<1>6. \A z \in Ints : old[z].digit[fr.i] \in Digits
  BY <1>1, <1>3, MpIntFacts DEF Vectors
<1>7. fr.min <= fr.i => old[fr.y].digit[fr.i] = 0
  BY <1>1, <1>2, <1>3 DEF LoopBounds, OldSound, WellFormed
<1>. QED
  BY <1>2, <1>3, <1>5, <1>6, <1>7 DEF XDigit, YDigit

LEMMA IterateStep ==
  ASSUME IInv, pc \in {"add_loop", "sub_loop"}, fr.i < fr.max,
         NEW t, NEW carry \in {0, 1}, Masked(t) \in Digits, Iterate(t, carry),
         pc = "add_loop" => Masked(t) + carry * Radix
                              = old[fr.x].digit[fr.i] + old[fr.y].digit[fr.i] + fr.u,
         pc = "sub_loop" => Masked(t) - carry * Radix
                              = old[fr.x].digit[fr.i] - old[fr.y].digit[fr.i] - fr.u
  PROVE  IInv'
<1>. DEFINE c == num[fr.c]
            v == Masked(t)
            i == fr.i
            d == c.digit
            z == [c EXCEPT !.digit = [@ EXCEPT ![i] = v]]
<1>1. TypeOK /\ fr \in Frames /\ num \in [Ints -> MpInts] /\ old \in [Ints -> MpInts]
      /\ LoopBounds /\ SoFar /\ OldSound /\ OthersKept
  BY DEF IInv, TypeOK
<1>2. fr.c \in Ints /\ fr.x \in Ints /\ fr.y \in Ints /\ i \in Nat /\ fr.max \in Nat
      /\ fr.max \in Counts /\ fr.u \in {0, 1}
  BY <1>1, FrameFacts
<1>3. i \in Places /\ i \in Counts
  BY DigitsRead, PlaceFacts
<1>4. c \in MpInts /\ d \in Vectors /\ old[fr.x].digit \in Vectors /\ old[fr.y].digit \in Vectors
  BY <1>1, <1>2, MpIntFacts
<1>5. Store(z) /\ fr' = [fr EXCEPT !.i = @ + 1, !.u = carry]
      /\ pc' = pc /\ err' = err /\ old' = old
  BY DEF Iterate
<1>. DEFINE e == [d EXCEPT ![i] = v]
<1>6. e \in Vectors /\ \A j \in Places : j >= i + 1 => e[j] = d[j]
  BY <1>3, <1>4, DigitStored
<1>7. z = [c EXCEPT !.digit = e]
  OBVIOUS
<1>. HIDE DEF z, e
<1>8. z \in MpInts /\ z.used = c.used /\ z.alloc = c.alloc /\ z.sign = c.sign /\ z.digit = e
  BY <1>4, <1>6, <1>7 DEF MpInts
<1>9. num' \in [Ints -> MpInts] /\ num'[fr.c] = z
      /\ \A s \in Ints : s # fr.c => num'[s] = num[s]
  BY <1>1, <1>5, <1>8, StoreFacts
<1>10. i + 1 <= fr.max /\ i + 1 \in Counts
  BY <1>2, <1>3, PlaceFacts
<1>11. fr' \in Frames /\ fr'.c = fr.c /\ fr'.op = fr.op /\ fr'.a = fr.a /\ fr'.b = fr.b
       /\ fr'.x = fr.x /\ fr'.y = fr.y /\ fr'.min = fr.min /\ fr'.max = fr.max
       /\ fr'.oldused = fr.oldused /\ fr'.i = i + 1 /\ fr'.u = carry
  BY <1>1, <1>5, <1>10 DEF Frames
<1>12. Expected' = Expected
  BY <1>5, <1>11, ExpectedFacts
<1>13. TypeOK'
  BY <1>1, <1>5, <1>9, <1>11 DEF TypeOK
<1>14. OldSound' /\ OthersKept'
  BY <1>1, <1>5, <1>9, <1>11 DEF OldSound, OthersKept, WellFormed
<1>15. BeforeLoops' /\ Results'
  BY <1>5 DEF BeforeLoops, Results, ResultCorrect, ResultWellFormed, FailureKeepsMagnitude
<1>16. RightRoutine'
  BY <1>5, <1>8, <1>9, <1>11, <1>12 DEF IInv, RightRoutine, Adding, Subtracting, Mag
<1>17. LoopBounds'
  <2>1. \A j \in Places : j >= i + 1 => e[j] = old[fr.c].digit[j]
    BY <1>1, <1>2, <1>6, PlaceFacts DEF LoopBounds
  <2>. QED
    BY <1>1, <1>5, <1>8, <1>9, <1>10, <1>11, <2>1 DEF LoopBounds
<1>18. SoFar'
  <2>1. CASE pc = "add_loop"
    <3>1. Val(d)[i] + fr.u * Pow[i] = Val(old[fr.x].digit)[i] + Val(old[fr.y].digit)[i]
      BY <1>1, <2>1 DEF SoFar
    <3>2. v + carry * Radix = old[fr.x].digit[i] + old[fr.y].digit[i] + fr.u
      BY <2>1
    <3>3. fr.u \in Int /\ carry \in Int
      BY <1>2
    <3>. HIDE DEF c, v, i, d
    <3>4. Val(e)[i + 1] + carry * Pow[i + 1]
            = Val(old[fr.x].digit)[i + 1] + Val(old[fr.y].digit)[i + 1]
      BY <1>3, <1>4, <3>1, <3>2, <3>3, SumStored DEF e, v
    <3>. QED
      BY <1>5, <1>8, <1>9, <1>11, <2>1, <3>4 DEF SoFar
  <2>2. CASE pc = "sub_loop"
    <3>1. Val(d)[i] - fr.u * Pow[i] = Val(old[fr.x].digit)[i] - Val(old[fr.y].digit)[i]
      BY <1>1, <2>2 DEF SoFar
    <3>2. v - carry * Radix = old[fr.x].digit[i] - old[fr.y].digit[i] - fr.u
      BY <2>2
    <3>3. fr.u \in Int /\ carry \in Int
      BY <1>2
    <3>. HIDE DEF c, v, i, d
    <3>4. Val(e)[i + 1] - carry * Pow[i + 1]
            = Val(old[fr.x].digit)[i + 1] - Val(old[fr.y].digit)[i + 1]
      BY <1>3, <1>4, <3>1, <3>2, <3>3, DifferenceStored DEF e, v
    <3>. QED
      BY <1>5, <1>8, <1>9, <1>11, <2>2, <3>4 DEF SoFar
  <2>. QED
    BY <2>1, <2>2
<1>. QED
  BY <1>13, <1>14, <1>15, <1>16, <1>17, <1>18 DEF IInv

(* The four loops, each past the digits it reads.                          *)
LEMMA LoopStep ==
  ASSUME IInv, s_mp_add_both \/ s_mp_add_rest \/ s_mp_sub_both \/ s_mp_sub_rest
  PROVE  IInv'
<1>. DEFINE x == old[fr.x].digit[fr.i]
            y == old[fr.y].digit[fr.i]
            u == fr.u
<1>1. pc \in {"add_loop", "sub_loop"} /\ fr.i < fr.max
  <2>1. fr \in Frames /\ LoopBounds
    BY DEF IInv, TypeOK
  <2>2. fr.i \in Nat /\ fr.min \in Nat /\ fr.max \in Nat
    BY <2>1, FrameFacts
  <2>3. pc \in {"add_loop", "sub_loop"} /\ (fr.i < fr.min \/ fr.i < fr.max)
    BY DEF s_mp_add_both, s_mp_add_rest, s_mp_sub_both, s_mp_sub_rest
  <2>4. fr.min <= fr.max
    BY <2>1, <2>3 DEF LoopBounds
  <2>. QED
    BY <2>2, <2>3, <2>4
<1>2. XDigit = x /\ YDigit = y /\ x \in Digits /\ y \in Digits /\ u \in {0, 1}
      /\ (fr.min <= fr.i => y = 0)
  BY <1>1, DigitsRead, FrameFacts DEF IInv, TypeOK
<1>. HIDE DEF x, y, u
<1>3. x \in Nat /\ y \in Nat /\ x < Radix /\ y < Radix /\ Radix \in Nat /\ u \in Nat /\ u <= 1
  BY <1>2, RadixFacts DEF Digits
<1>4. CASE s_mp_add_both \/ s_mp_add_rest
  <2>. DEFINE n == x + y + u
              t == Wrap(n)
  <2>1. n \in Nat /\ n < 2 * Radix
    BY <1>3
  <2>2. Masked(t) \in Digits /\ Carry(t) \in {0, 1} /\ Masked(t) + Carry(t) * Radix = n
    <3>. HIDE DEF n
    <3>. QED
      BY <2>1, AddDigit
  <2>3. pc = "add_loop" /\ Iterate(t, Carry(t))
    <3>1. CASE s_mp_add_both
      BY <1>2, <3>1 DEF s_mp_add_both, u
    <3>2. CASE s_mp_add_rest
      <4>1. y = 0 /\ x + u = n
        BY <1>2, <1>3, <3>2 DEF s_mp_add_rest
      <4>. QED
        BY <1>2, <3>2, <4>1 DEF s_mp_add_rest, u
    <3>. QED
      BY <1>4, <3>1, <3>2
  <2>. HIDE DEF t
  <2>. QED
    BY <1>1, <2>2, <2>3, IterateStep DEF x, y, u
<1>5. CASE s_mp_sub_both \/ s_mp_sub_rest
  <2>. DEFINE n == x - y - u
              t == Wrap(n)
  <2>1. n \in Int /\ -Radix <= n /\ n < Radix
    BY <1>3
  <2>2. Masked(t) \in Digits /\ HighBit(t) \in {0, 1} /\ Masked(t) - HighBit(t) * Radix = n
    <3>. HIDE DEF n
    <3>. QED
      BY <2>1, SubDigit
  <2>3. pc = "sub_loop" /\ Iterate(t, HighBit(t))
    <3>1. CASE s_mp_sub_both
      <4>1. Wrap(Wrap(x - y) - u) = t
        BY <1>2, WrapTwice
      <4>. QED
        BY <1>2, <3>1, <4>1 DEF s_mp_sub_both, u
    <3>2. CASE s_mp_sub_rest
      <4>1. y = 0 /\ x - u = n
        BY <1>2, <1>3, <3>2 DEF s_mp_sub_rest
      <4>. QED
        BY <1>2, <3>2, <4>1 DEF s_mp_sub_rest, u
    <3>. QED
      BY <1>5, <3>1, <3>2
  <2>. HIDE DEF t
  <2>. QED
    BY <1>1, <2>2, <2>3, IterateStep DEF x, y, u
<1>. QED
  BY <1>4, <1>5

(***************************************************************************)
(* The end of the loops.                                                   *)
(***************************************************************************)

(* All digits of both operands have been read.                             *)
LEMMA AllRead ==
  ASSUME IInv, pc \in {"add_loop", "sub_loop"}, fr.i = fr.max
  PROVE  /\ Val(old[fr.x].digit)[fr.i] = Mag(old[fr.x])
         /\ Val(old[fr.y].digit)[fr.i] = Mag(old[fr.y])
         /\ Mag(old[fr.x]) \in Nat /\ Mag(old[fr.y]) \in Nat
<1>1. fr \in Frames /\ old \in [Ints -> MpInts] /\ LoopBounds /\ OldSound
  BY DEF IInv, TypeOK
<1>2. fr.x \in Ints /\ fr.y \in Ints /\ fr.i \in Counts /\ fr.min \in Counts
      /\ fr.i \in Nat /\ fr.min \in Nat
  BY <1>1, FrameFacts
<1>3. fr.min = old[fr.y].used /\ fr.max = old[fr.x].used /\ fr.min <= fr.i
  BY <1>1 DEF LoopBounds
<1>4. old[fr.x] \in MpInts /\ old[fr.y] \in MpInts /\ WellFormed(old[fr.y])
      /\ old[fr.y].digit \in Vectors
  BY <1>1, <1>2, MpIntFacts DEF OldSound
<1>5. Val(old[fr.x].digit)[fr.i] = Mag(old[fr.x])
  BY <1>3 DEF Mag
<1>6. Val(old[fr.y].digit)[fr.i] = Val(old[fr.y].digit)[fr.min]
  <2>1. \A j \in Places : fr.min <= j /\ j < fr.i => old[fr.y].digit[j] = 0
    BY <1>2, <1>3, <1>4, PlaceFacts DEF WellFormed
  <2>. QED
    BY <1>2, <1>3, <1>4, <2>1, ValZeros
<1>. QED
  BY <1>3, <1>4, <1>5, <1>6, MpIntFacts DEF Mag

LEMMA FinishStep ==
  ASSUME IInv, pc \in {"add_loop", "sub_loop"}, NEW d \in Vectors, Finish(d),
         \A j \in Places : j >= num[fr.c].used => d[j] = num[fr.c].digit[j],
         Expected = Signed(num[fr.c].sign, Val(d)[num[fr.c].used]),
         fr.i <= num[fr.c].used
  PROVE  IInv'
<1>. DEFINE c == num[fr.c]
            r == mp_clamp([c EXCEPT !.digit = ZeroDigs(d, c.used, fr.oldused - c.used)])
<1>1. TypeOK /\ fr \in Frames /\ num \in [Ints -> MpInts] /\ old \in [Ints -> MpInts]
      /\ LoopBounds /\ OldSound /\ OthersKept
  BY DEF IInv, TypeOK
<1>2. fr.c \in Ints /\ fr.oldused \in Counts /\ fr.oldused \in Nat /\ fr.i \in Nat
  BY <1>1, FrameFacts
<1>3. c \in MpInts /\ c.used <= c.alloc /\ fr.oldused = old[fr.c].used
  BY <1>1, <1>2 DEF LoopBounds
<1>4. c.used \in Nat
  BY <1>3, MpIntFacts, PlaceFacts
<1>5. \A j \in Places : j >= c.used /\ j >= fr.oldused => d[j] = 0
  <2>. SUFFICES ASSUME NEW j \in Places, j >= c.used, j >= fr.oldused PROVE d[j] = 0
    OBVIOUS
  <2>1. j >= fr.i
    BY <1>2, <1>4, PlaceFacts
  <2>2. d[j] = old[fr.c].digit[j]
    BY <1>1, <2>1 DEF LoopBounds
  <2>. QED
    BY <1>1, <1>2, <1>3, <2>2 DEF OldSound, WellFormed
<1>6. Store(r) /\ fr' = fr /\ pc' = "done" /\ err' = "OKAY" /\ old' = old
  BY DEF Finish, Return
<1>7. r \in MpInts /\ WellFormed(r) /\ IntVal(r) = Signed(c.sign, Val(d)[c.used])
  <2>. HIDE DEF c
  <2>. QED
    BY <1>2, <1>3, <1>5, FinishFacts
<1>. HIDE DEF r
<1>8. num' \in [Ints -> MpInts] /\ num'[fr.c] = r
      /\ \A s \in Ints : s # fr.c => num'[s] = num[s]
  BY <1>1, <1>6, <1>7, StoreFacts
<1>9. Expected' = Expected
  BY <1>6, ExpectedFacts
<1>10. TypeOK'
  BY <1>1, <1>6, <1>8 DEF TypeOK
<1>11. OldSound' /\ OthersKept'
  BY <1>1, <1>6, <1>8 DEF OldSound, OthersKept, WellFormed
<1>12. BeforeLoops' /\ RightRoutine' /\ LoopBounds' /\ SoFar' /\ FailureKeepsMagnitude'
  BY <1>6 DEF BeforeLoops, RightRoutine, LoopBounds, SoFar, FailureKeepsMagnitude
<1>13. ResultCorrect'
  BY <1>6, <1>7, <1>8, <1>9 DEF ResultCorrect, IntVal, Mag
<1>14. ResultWellFormed'
  BY <1>6, <1>7, <1>8 DEF ResultWellFormed, WellFormed
<1>. QED
  BY <1>10, <1>11, <1>12, <1>13, <1>14 DEF IInv, Results

LEMMA AddEndStep == IInv /\ s_mp_add_end => IInv'
<1>. SUFFICES ASSUME IInv, s_mp_add_end PROVE IInv'
  OBVIOUS
<1>. DEFINE c == num[fr.c]
            i == fr.i
            d == c.digit
            e == [d EXCEPT ![i] = fr.u]
<1>1. pc = "add_loop" /\ i = fr.max /\ Finish(e)
  BY DEF s_mp_add_end
<1>2. TypeOK /\ fr \in Frames /\ num \in [Ints -> MpInts] /\ LoopBounds /\ SoFar /\ RightRoutine
  BY DEF IInv, TypeOK
<1>3. fr.c \in Ints /\ i \in Nat /\ fr.u \in {0, 1}
  BY <1>2, FrameFacts
<1>4. c \in MpInts /\ c.used = i + 1
  BY <1>1, <1>2, <1>3 DEF LoopBounds
<1>5. c.used \in Counts /\ d \in Vectors
  BY <1>4, MpIntFacts
<1>. HIDE DEF i, d, c
<1>6. i \in Places
  BY <1>3, <1>4, <1>5, RadixFacts, PlaceFacts
<1>7. fr.u \in Digits
  BY <1>3, RadixFacts DEF Digits
<1>8. e \in Vectors /\ Val(e)[i + 1] = Val(d)[i] + fr.u * Pow[i]
      /\ \A j \in Places : j >= i + 1 => e[j] = d[j]
  BY <1>5, <1>6, <1>7, DigitStored
<1>9. Val(d)[i] + fr.u * Pow[i] = Mag(old[fr.x]) + Mag(old[fr.y])
  <2>1. Val(d)[i] + fr.u * Pow[i] = Val(old[fr.x].digit)[i] + Val(old[fr.y].digit)[i]
    BY <1>1, <1>2 DEF SoFar, d, i, c
  <2>. QED
    BY <1>1, <2>1, AllRead DEF i
<1>10. Expected = Signed(c.sign, Mag(old[fr.x]) + Mag(old[fr.y]))
  BY <1>1, <1>2 DEF RightRoutine, Adding, c
<1>. HIDE DEF e
<1>11. Expected = Signed(num[fr.c].sign, Val(e)[num[fr.c].used])
  BY <1>4, <1>8, <1>9, <1>10 DEF c
<1>12. \A j \in Places : j >= num[fr.c].used => e[j] = num[fr.c].digit[j]
  BY <1>4, <1>8 DEF c, d
<1>13. fr.i <= num[fr.c].used
  BY <1>3, <1>4 DEF c, i
<1>. QED
  BY <1>1, <1>8, <1>11, <1>12, <1>13, FinishStep

(* |x| >= |y|, so nothing is left to borrow.                               *)
LEMMA NothingBorrowed ==
  ASSUME IInv, pc = "sub_loop", fr.i = fr.max
  PROVE  /\ fr.u = 0
         /\ Val(num[fr.c].digit)[fr.i] = Mag(old[fr.x]) - Mag(old[fr.y])
<1>. DEFINE v == Val(num[fr.c].digit)[fr.i]
            p == Pow[fr.i]
            m == Mag(old[fr.x])
            n == Mag(old[fr.y])
<1>1. fr \in Frames /\ num \in [Ints -> MpInts] /\ SoFar /\ RightRoutine
  BY DEF IInv, TypeOK
<1>2. fr.c \in Ints /\ fr.i \in Counts /\ fr.i \in Nat /\ fr.u \in {0, 1}
  BY <1>1, FrameFacts
<1>3. v \in Nat /\ v < p /\ p \in Nat
  BY <1>1, <1>2, MpIntFacts, ValBounds, PowFacts
<1>4. v - fr.u * p = m - n /\ m \in Nat /\ n \in Nat
  BY <1>1, AllRead DEF SoFar
<1>5. n <= m
  BY <1>1 DEF RightRoutine, Subtracting
<1>. HIDE DEF v, p, m, n
<1>6. fr.u # 1
  BY <1>3, <1>4, <1>5
<1>7. fr.u = 0 /\ v = m - n
  BY <1>2, <1>3, <1>4, <1>6
<1>. QED
  BY <1>7 DEF v, m, n

LEMMA SubEndStep == IInv /\ s_mp_sub_end => IInv'
<1>. SUFFICES ASSUME IInv, s_mp_sub_end PROVE IInv'
  OBVIOUS
<1>. DEFINE d == num[fr.c].digit
<1>1. pc = "sub_loop" /\ fr.i = fr.max /\ Finish(d)
  BY DEF s_mp_sub_end
<1>2. fr \in Frames /\ num \in [Ints -> MpInts] /\ LoopBounds /\ RightRoutine
  BY DEF IInv, TypeOK
<1>3. fr.c \in Ints /\ fr.i \in Nat
  BY <1>2, FrameFacts
<1>4. d \in Vectors /\ num[fr.c].used = fr.i
  BY <1>1, <1>2, <1>3, MpIntFacts DEF LoopBounds
<1>5. Expected = Signed(num[fr.c].sign, Val(d)[num[fr.c].used])
  BY <1>1, <1>2, <1>4, NothingBorrowed DEF RightRoutine, Subtracting
<1>6. fr.i <= num[fr.c].used
  BY <1>3, <1>4
<1>. HIDE DEF d
<1>7. \A j \in Places : j >= num[fr.c].used => d[j] = num[fr.c].digit[j]
  BY DEF d
<1>. QED
  BY <1>1, <1>4, <1>5, <1>6, <1>7, FinishStep

(***************************************************************************)
(* The theorems.                                                           *)
(***************************************************************************)
LEMMA Unchanged == IInv /\ UNCHANGED vars => IInv'
<1>. SUFFICES ASSUME IInv, UNCHANGED vars PROVE IInv'
  OBVIOUS
<1>1. num' = num /\ pc' = pc /\ fr' = fr /\ err' = err /\ old' = old
  BY DEF vars
<1>2. TypeOK' /\ OldSound' /\ OthersKept'
  BY <1>1 DEF IInv, TypeOK, OldSound, OthersKept
<1>3. Expected' = Expected
  BY <1>1 DEF Expected, IntVal, Mag
<1>4. BeforeLoops' /\ LoopBounds' /\ SoFar'
  BY <1>1 DEF IInv, BeforeLoops, LoopBounds, SoFar
<1>5. RightRoutine'
  BY <1>1, <1>3 DEF IInv, RightRoutine, Adding, Subtracting
<1>6. Results'
  BY <1>1, <1>3 DEF IInv, Results, ResultCorrect, ResultWellFormed, FailureKeepsMagnitude,
                    IntVal, Mag, WellFormed
<1>. QED
  BY <1>2, <1>4, <1>5, <1>6 DEF IInv

(* The invariant holds of every call.                                      *)
THEOREM Invariance == Spec => []IInv
<1>1. Init => IInv
  BY Initially
<1>2. IInv /\ [Next]_vars => IInv'
  BY AddStep, SubStep, AddBeginStep, SubBeginStep, LoopStep, AddEndStep, SubEndStep,
     Unchanged DEF Next
<1>. QED
  BY <1>1, <1>2, PTL DEF Spec

(* The digits stored fit their type, counts stay below MP_MAX_DIGIT_COUNT. *)
THEOREM TypeCorrect == Spec => []TypeOK
<1>1. IInv => TypeOK
  BY DEF IInv
<1>. QED
  BY <1>1, Invariance, PTL

(* mp_add and mp_sub compute the sum and the difference, whatever the      *)
(* radix, the numbers and the aliasing of a, b and c.                      *)
THEOREM SumsAndDifferences == Spec => []ResultCorrect
<1>1. IInv => ResultCorrect
  BY DEF IInv, Results
<1>. QED
  BY <1>1, Invariance, PTL

(* They leave it without leading zeros, without a negative zero and with   *)
(* zeros above used.                                                       *)
THEOREM ResultsWellFormed == Spec => []ResultWellFormed
<1>1. IInv => ResultWellFormed
  BY DEF IInv, Results
<1>. QED
  BY <1>1, Invariance, PTL

(* A call that fails for want of memory keeps the magnitude of c.          *)
THEOREM FailuresKeepMagnitude == Spec => []FailureKeepsMagnitude
<1>1. IInv => FailureKeepsMagnitude
  BY DEF IInv, Results
<1>. QED
  BY <1>1, Invariance, PTL

(* The loops of s_mp_add and s_mp_sub write within c->alloc.               *)
THEOREM WritesInBounds == Spec => []InBounds
<1>1. IInv => InBounds
  <2>. SUFFICES ASSUME IInv PROVE InBounds
    OBVIOUS
  <2>1. fr \in Frames /\ num \in [Ints -> MpInts] /\ LoopBounds
    BY DEF IInv, TypeOK
  <2>2. fr.i \in Nat /\ fr.max \in Nat /\ fr.c \in Ints
    BY <2>1, FrameFacts
  <2>3. num[fr.c].used \in Nat /\ num[fr.c].alloc \in Nat
    BY <2>1, <2>2, MpIntFacts, PlaceFacts
  <2>4. CASE pc = "add_loop"
    BY <2>1, <2>2, <2>3, <2>4 DEF LoopBounds, InBounds
  <2>5. CASE pc = "sub_loop"
    BY <2>1, <2>2, <2>3, <2>5 DEF LoopBounds, InBounds
  <2>. QED
    BY <2>4, <2>5 DEF InBounds
<1>. QED
  BY <1>1, Invariance, PTL

(* s_mp_sub never ends with a borrow it has nowhere to take from.          *)
THEOREM NothingLeftToBorrow == Spec => []NoBorrowLeft
<1>1. IInv => NoBorrowLeft
  BY NothingBorrowed DEF NoBorrowLeft
<1>. QED
  BY <1>1, Invariance, PTL
=============================================================================
