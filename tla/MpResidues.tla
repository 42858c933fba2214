----------------------------- MODULE MpResidues -----------------------------
(***************************************************************************)
(* mp_kronecker, mp_is_square and mp_sqrtmod_prime.  The last calls the    *)
(* first, and mp_exptmod; here both give what they promise, or fail.       *)
(***************************************************************************)
EXTENDS MpCall

KroneckerFrames == [op : {"kronecker"}, a : Ints, b : Ints]
IsSquareFrames == [op : {"is_square"}, a : Ints]
SqrtmodFrames == [op : {"sqrtmod"}, a : Ints, b : Ints, c : Ints]

-----------------------------------------------------------------------------
(* The Kronecker symbol by its definition: for a prime, whether a is a     *)
(* square; multiplicative below the line.                                  *)
AtPrime(a, q) ==
  IF a % q = 0 THEN 0
  ELSE IF q = 2 THEN (IF a % 8 \in {1, 7} THEN 1 ELSE -1)
  ELSE IF \E s \in 1 .. q - 1 : (s * s - a) % q = 0 THEN 1 ELSE -1

Symbol(a, n) ==
  LET SmallestPrime(m) == CHOOSE q \in 2 .. m : m % q = 0 /\ \A d \in 2 .. q - 1 : m % d # 0
      s[m \in 1 .. Magnitude(n)] ==
        IF m = 1 THEN 1 ELSE AtPrime(a, SmallestPrime(m)) * s[m \div SmallestPrime(m)]
  IN  IF n = 0 THEN (IF Magnitude(a) = 1 THEN 1 ELSE 0)
      ELSE (IF n < 0 /\ a < 0 THEN -1 ELSE 1) * s[Magnitude(n)]

IsPrime(n) == n > 1 /\ \A d \in 2 .. n - 1 : n % d # 0

-----------------------------------------------------------------------------
(* Row a of the table is (-1)^((a^2 - 1)/8), zero for even a.              *)
table(n) == LET r == Magnitude(n) % 8 IN IF IsEven(r) THEN 0 ELSE IF r \in {1, 7} THEN 1 ELSE -1

SecondBit(n) == (n \div 2) % 2 = 1

LBL_KRON_0 == {"a1"}
LBL_KRON_1 == {"p1"} \cup LBL_KRON_0
LBL_KRON == {"r"} \cup LBL_KRON_1

kronecker_zero ==
  /\ pc = "kronecker" /\ B = 0
  /\ Answer(IF Magnitude(A) = 1 THEN 1 ELSE 0, {})

kronecker_even ==
  /\ pc = "kronecker" /\ B # 0
  /\ IsEven(A) /\ IsEven(B)
  /\ Answer(0, {})

(* The factors of two and the sign are taken out of p1.                    *)
kronecker_init ==
  /\ pc = "kronecker" /\ B # 0
  /\ ~ (IsEven(A) /\ IsEven(B))
  /\ \/ /\ live' \in {{}, {"a1"} \ LBL_KRON_0, {"a1", "p1"} \ LBL_KRON_1}
        /\ pc' = "done" /\ err' = "MEM"
        /\ UNCHANGED << val, loc, fr, old >>
     \/ /\ live' = {"a1", "p1", "r"}
        /\ LET v == mp_cnt_lsb(B)
           IN  loc' = [a1 |-> A, p1 |-> Magnitude(B) \div 2 ^ v,
                       k |-> (IF IsEven(v) THEN 1 ELSE table(A)) * (IF B < 0 /\ A < 0 THEN -1 ELSE 1)]
        /\ pc' = "kron_loop"
        /\ UNCHANGED << val, fr, err, old >>

(* Mutated: the sign of a negative a1 does not enter into reciprocity.     *)
Mut_Flips(a1, p1) == SecondBit(Magnitude(a1)) /\ SecondBit(p1)

(* Whether reciprocity changes the sign.                                   *)
Flips(a1, p1) == SecondBit(IF a1 < 0 THEN Magnitude(a1) + 1 ELSE a1) /\ SecondBit(p1)

kron_round ==
  /\ pc = "kron_loop" /\ loc.a1 # 0
  /\ \/ Refuse("MEM", LBL_KRON)
     \/ /\ LET v == mp_cnt_lsb(loc.a1)
               a1 == Quotient(loc.a1, 2 ^ v)
           IN  loc' = [a1 |-> loc.p1 % Magnitude(a1), p1 |-> Magnitude(a1),
                       k |-> loc.k * (IF IsEven(v) THEN 1 ELSE table(loc.p1))
                               * (IF Flips(a1, loc.p1) THEN -1 ELSE 1)]
        /\ Goto("kron_loop")

kron_end ==
  /\ pc = "kron_loop" /\ loc.a1 = 0
  /\ Answer(IF loc.p1 = 1 THEN loc.k ELSE 0, LBL_KRON)

-----------------------------------------------------------------------------
(* The remainders rem_128 and rem_105 let pass.                            *)
rem_128 == {0, 1, 4, 9, 16, 17, 25, 33, 36, 41, 49, 57, 64, 65, 68, 73, 81, 89, 97, 100, 105, 113, 121}
rem_105 == {0, 1, 4, 9, 15, 16, 21, 25, 30, 36, 39, 46, 49, 51, 60, 64, 70, 79, 81, 84, 85, 91, 99, 100}

(* The bits of the masks for the other primes: 0x5C4, 0x9E4, ...           *)
excluded ==
  [p \in {11, 13, 17, 19, 23, 29, 31} |->
     CASE p = 11 -> {2, 6, 7, 8, 10}
       [] p = 13 -> {2, 5, 6, 7, 8, 11}
       [] p = 17 -> {3, 5, 6, 7, 10, 11, 12, 14}
       [] p = 19 -> {2, 3, 8, 10, 12, 13, 14, 15, 18}
       [] p = 23 -> {5, 7, 10, 11, 14, 15, 17, 19, 20, 21, 22}
       [] p = 29 -> {2, 3, 8, 10, 11, 12, 14, 15, 17, 18, 19, 21, 26, 27}
       [] p = 31 -> {3, 6, 11, 12, 13, 15, 17, 21, 22, 23, 24, 26, 27, 29, 30}]

(* The seven bits looked at first are all in the lowest digit.             *)
is_square_first ==
  /\ pc = "is_square"
  /\ \/ A < 0 /\ Refuse("VAL", {})
     \/ A = 0 /\ Answer(TRUE, {})
     \/ A > 0 /\ A % 128 \notin rem_128 /\ Answer(FALSE, {})
     \/ A > 0 /\ A % 128 \in rem_128 /\ UNCHANGED loc /\ Goto("is_square_105")

is_square_second ==
  /\ pc = "is_square_105"
  /\ \/ Refuse("MEM", {})
     \/ A % 105 \notin rem_105 /\ Answer(FALSE, {})
     \/ /\ A % 105 \in rem_105
        /\ live' = {"t"} /\ pc' = "is_square_primes"
        /\ UNCHANGED << val, loc, fr, err, old >>

is_square_third ==
  /\ pc = "is_square_primes"
  /\ LET r == A % (11 * 13 * 17 * 19 * 23 * 29 * 31)
         out == \E p \in DOMAIN excluded : r % p \in excluded[p]
     IN  \/ Refuse("MEM", {"t"})
         \/ out /\ Answer(FALSE, {"t"})
         \/ ~ out /\ UNCHANGED loc /\ Goto("is_square_root")

(* Is the square of mp_sqrt the number?                                    *)
is_square_root ==
  /\ pc = "is_square_root"
  /\ LET t == CHOOSE s \in 0 .. A : s * s <= A /\ A < (s + 1) * (s + 1)
     IN  Refuse("MEM", {"t"}) \/ Answer(t * t = A, {"t"})

-----------------------------------------------------------------------------
(* mp_sqrtmod_prime: the operand zero, operands refused, the modulus three *)
(* modulo four, and the algorithm of Tonelli and Shanks.                   *)
SqrtmodTemps == {"t1", "C", "Q", "Z", "T", "R", "two"}

sqrtmod_simple ==
  /\ pc = "sqrtmod"
  /\ \/ A = 0 /\ Put(fr.c, 0) /\ Return("OKAY", {})
     \/ A # 0 /\ (IsEven(B) \/ B < 3) /\ Refuse("VAL", {})
     \/ A # 0 /\ ~ IsEven(B) /\ B >= 3 /\ Refuse("MEM", {})
     \/ A # 0 /\ ~ IsEven(B) /\ B >= 3 /\ Symbol(A, B) # 1 /\ Refuse("VAL", {})

HasRoot == pc = "sqrtmod" /\ A # 0 /\ ~ IsEven(B) /\ B >= 3 /\ Symbol(A, B) = 1

sqrtmod_special ==
  /\ HasRoot /\ B % 4 = 3
  /\ \/ Refuse("MEM", SqrtmodTemps)
     \/ Put(fr.c, PowMod(A, (B + 1) \div 4, B)) /\ Return("OKAY", {})

sqrtmod_factor ==
  /\ HasRoot /\ B % 4 # 3
  /\ \/ Refuse("MEM", SqrtmodTemps)
     \/ /\ live' = SqrtmodTemps
        /\ LET S == mp_cnt_lsb(B - 1)
           IN  loc' = [Z |-> 2, S |-> S, Q |-> (B - 1) \div 2 ^ S]
        /\ pc' = "find_Z"
        /\ UNCHANGED << val, fr, err, old >>

(* The first number that is no square; a common factor means that the      *)
(* modulus is no prime.                                                    *)
sqrtmod_find_Z ==
  /\ pc = "find_Z"
  /\ LET legendre == Symbol(loc.Z, B)
     IN  \/ Refuse("MEM", SqrtmodTemps)
         \/ legendre = 0 /\ Refuse("VAL", SqrtmodTemps)
         \/ legendre = 1 /\ loc' = [loc EXCEPT !.Z = @ + 1] /\ Goto("find_Z")
         \/ /\ legendre = -1
            /\ loc' = [C |-> PowMod(loc.Z, loc.Q, B), R |-> PowMod(A, (loc.Q + 1) \div 2, B),
                       T |-> PowMod(A, loc.Q, B), M |-> loc.S]
            /\ Goto("tonelli")

(* How many squarings, M at most, make T one.                              *)
Squarings == {i \in 0 .. loc.M : PowMod(loc.T, 2 ^ i, B) = 1}

(* The exponent 2^(M - i - 1) is computed modulo the prime; for i = M,     *)
(* which no prime allows, it is the inverse of two.                        *)
sqrtmod_round ==
  /\ pc = "tonelli"
  /\ \/ Refuse("MEM", SqrtmodTemps)
     \/ Squarings = {} /\ Refuse("VAL", SqrtmodTemps)
     \/ 0 \in Squarings /\ Put(fr.c, loc.R) /\ Return("OKAY", SqrtmodTemps)
     \/ \E i \in Squarings \ {0} :
          /\ \A j \in Squarings : i <= j
          /\ LET t1 == PowMod(loc.C, IF i = loc.M THEN (B + 1) \div 2 ELSE 2 ^ (loc.M - i - 1), B)
                 C == (t1 * t1) % B
             IN  loc' = [C |-> C, R |-> (loc.R * t1) % B, T |-> (loc.T * C) % B, M |-> i]
          /\ Goto("tonelli")

ResidueNext ==
  \/ kronecker_zero \/ kronecker_even \/ kronecker_init \/ kron_round \/ kron_end
  \/ is_square_first \/ is_square_second \/ is_square_third \/ is_square_root
  \/ sqrtmod_simple \/ sqrtmod_special \/ sqrtmod_factor \/ sqrtmod_find_Z \/ sqrtmod_round

-----------------------------------------------------------------------------
(* mp_kronecker answers with the Kronecker symbol of any two integers.     *)
KroneckerCorrect == Succeeded("kronecker") => loc.answer = Symbol(old[fr.a], old[fr.b])

(* mp_is_square answers whether a number that is not negative is a square, *)
(* whichever filter decides.                                               *)
IsSquareCorrect ==
  /\ Succeeded("is_square") =>
       loc.answer = \E s \in 0 .. old[fr.a] : s * s = old[fr.a]
  /\ Done("is_square") /\ err = "VAL" => old[fr.a] < 0

(* For an odd prime mp_sqrtmod_prime leaves a square root of its operand,  *)
(* zero for zero only, and refuses the multiples of the prime, which have  *)
(* one, and the operands that have none.                                   *)
SqrtmodCorrect ==
  LET n == old[fr.a]
      p == old[fr.b]
      r == val[fr.c]
  IN  Done("sqrtmod") /\ IsPrime(p) /\ p > 2 =>
        /\ err = "OKAY" => r \in 0 .. p - 1 /\ (r * r - n) % p = 0
        /\ err = "VAL" <=> err # "MEM" /\ n # 0 /\ Symbol(n, p) # 1

(* Through the loop of mp_kronecker the symbol of the operands is k times  *)
(* that of a1 and p1, which is odd; through that of mp_sqrtmod_prime, for  *)
(* a prime, R^2 = n T, C has the order 2^M, T a smaller one.               *)
ResiduesLoopInvariant ==
  /\ pc = "kron_loop" =>
       /\ loc.p1 > 0 /\ ~ IsEven(loc.p1)
       /\ Symbol(old[fr.a], old[fr.b]) = loc.k * Symbol(loc.a1, loc.p1)
  /\ pc = "tonelli" /\ IsPrime(B) =>
       /\ (loc.R * loc.R - A * loc.T) % B = 0
       /\ loc.M > 0 /\ PowMod(loc.C, 2 ^ (loc.M - 1), B) = B - 1
       /\ PowMod(loc.T, 2 ^ (loc.M - 1), B) = 1
=============================================================================
