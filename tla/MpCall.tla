------------------------------- MODULE MpCall -------------------------------
(***************************************************************************)
(* What the functions on integers have in common.  A call has arguments,   *)
(* which name structures of the client, perhaps the same ones; it keeps    *)
(* numbers in locals and in temporaries, which own memory from their       *)
(* initialisation until they are cleared, and ends with a code.  A library *)
(* call it makes is right or fails; MEM stands for MP_MEM and MP_OVF.      *)
(***************************************************************************)
EXTENDS Integers, FiniteSets

CONSTANTS Ints,          \* the mp_int structures of the client
          NULL,          \* the argument for a result that is not asked for
          MP_DIGIT_BIT,  \* bits of a digit
          MP_MUL_TOOM_CUTOFF,  \* digits from which on a product,
          MP_SQR_TOOM_CUTOFF,  \* and a square, is Toom and Cook's
          Scraps,        \* what these may leave where they fail
          Frames,        \* the calls made: a function and its arguments
          Contents(_)    \* what the structures may hold when it is called

ASSUME NullAssumption == NULL \notin Ints
ASSUME DigitBitAssumption == MP_DIGIT_BIT \in Nat /\ MP_DIGIT_BIT > 1
(* The three parts that Toom and Cook's routines make have a digit.        *)
ASSUME ToomCookAssumption ==
  /\ MP_MUL_TOOM_CUTOFF \in Nat \ 0 .. 2 /\ MP_SQR_TOOM_CUTOFF \in Nat \ 0 .. 2
  /\ Scraps \subseteq Nat
ASSUME ContentsAssumption == \A f \in Frames : Contents(f) \subseteq [Ints -> Int]

VARIABLES val,   \* val[x]: the integer structure x holds
          loc,   \* the numbers in locals and temporaries
          live,  \* the temporaries that own memory
          pc,    \* the part of the function to be executed next
          fr,    \* the function called, op, and its arguments
          err,   \* the last code
          old    \* val as it was at the call (history)

vars == << val, loc, live, pc, fr, err, old >>

Radix == 2 ^ MP_DIGIT_BIT

(* What a one at place i counts: the radix to the power i.                 *)
Weight(i) == 2 ^ (MP_DIGIT_BIT * i)

Sgn(n) == IF n < 0 THEN -1 ELSE 1
Magnitude(n) == Sgn(n) * n
Quotient(n, m) == Sgn(n) * Sgn(m) * (Magnitude(n) \div Magnitude(m))
MinOf(m, n) == IF m <= n THEN m ELSE n

mp_count_bits(n) ==
  LET bits[m \in Nat] == IF m = 0 THEN 0 ELSE 1 + bits[m \div 2] IN bits[Magnitude(n)]
Used(n) == (mp_count_bits(n) + MP_DIGIT_BIT - 1) \div MP_DIGIT_BIT

(* Digit i of the magnitude of n.                                          *)
Digit(n, i) == IF i < 0 THEN 0 ELSE (Magnitude(n) \div Weight(i)) % Radix

(* What mp_mul may leave of its destination n if the product of a and b    *)
(* fails, same saying that these are one structure.  The magnitude stays,  *)
(* but for Toom and Cook's routines, which compute in the destination; the *)
(* sign is the product's whether or not it failed.                         *)
UsesToomCook(a, b, same) ==
  \/ MinOf(Used(a), Used(b)) >= MP_MUL_TOOM_CUTOFF
  \/ same /\ Used(a) >= MP_SQR_TOOM_CUTOFF

FailedProducts(n, a, b, same) ==
  {Sgn(a) * Sgn(b) * m : m \in {Magnitude(n)} \cup (IF UsesToomCook(a, b, same) THEN Scraps ELSE {})}

(* mp_cnt_lsb: the number of factors of two, none for zero.                *)
mp_cnt_lsb(n) ==
  LET lsb[m \in Nat] == IF m % 2 = 1 \/ m = 0 THEN 0 ELSE 1 + lsb[m \div 2] IN lsb[Magnitude(n)]

IsEven(n) == n % 2 = 0

(* The call is made where a number has at most limit digits: a product     *)
(* overflows if it has more, and some routines refuse those that are a     *)
(* digit or two shorter.                                                   *)
TooLong(n) == Used(n) > fr.limit
PerhapsTooLong(n) == Used(n) + 2 > fr.limit

MP_DIGIT_MAX == Radix - 1

(* Moduli that have reductions of their own: all bits above the first      *)
(* digit are ones; half of the digits are full; all but the first are.     *)
mp_reduce_is_2k(p) ==
  \/ Used(p) = 1
  \/ /\ Used(p) > 1 /\ Digit(p, 0) # 0
     /\ \A i \in MP_DIGIT_BIT .. mp_count_bits(p) - 1 : (p \div 2 ^ i) % 2 = 1

mp_reduce_is_2k_l(p) ==
  \/ Used(p) = 1
  \/ /\ Used(p) > 1
     /\ Cardinality({i \in 0 .. Used(p) - 1 : Digit(p, i) = MP_DIGIT_MAX}) >= Used(p) \div 2

mp_dr_is_modulus(p) ==
  Used(p) >= 2 /\ \A i \in 1 .. Used(p) - 1 : Digit(p, i) = MP_DIGIT_MAX

A == val[fr.a]
B == val[fr.b]

NoLocals == [l \in {} |-> 0]

(* The function goes on, or returns, the named temporaries cleared.        *)
Goto(l) == pc' = l /\ UNCHANGED << val, live, fr, err, old >>

Return(code, cleared) ==
  /\ pc' = "done" /\ err' = code
  /\ live' = live \ cleared /\ loc' = NoLocals
  /\ UNCHANGED << fr, old >>

Refuse(code, cleared) == Return(code, cleared) /\ UNCHANGED val

(* The structure c gets n.                                                 *)
Put(c, n) == val' = [val EXCEPT ![c] = n]

(* The function returns n through a pointer to an int or a bool.           *)
Answer(n, cleared) ==
  /\ pc' = "done" /\ err' = "OKAY"
  /\ live' = live \ cleared /\ loc' = [answer |-> n]
  /\ UNCHANGED << val, fr, old >>

Init ==
  /\ fr \in Frames /\ val \in Contents(fr)
  /\ old = val
  /\ loc = NoLocals
  /\ live = {}
  /\ pc = fr.op
  /\ err = "OKAY"

(* g is the greatest common divisor of m and n; of two zeros, zero.        *)
Divides(d, n) == n % d = 0

IsGcd(g, m, n) ==
  IF m = 0 /\ n = 0 THEN g = 0
  ELSE /\ g > 0 /\ Divides(g, m) /\ Divides(g, n)
       /\ \A d \in g + 1 .. Magnitude(m) + Magnitude(n) : ~ (Divides(d, m) /\ Divides(d, n))

(* n to the power e, or one for a negative e; the same modulo m.           *)
Power(n, e) ==
  LET p[k \in Nat] == IF k = 0 THEN 1 ELSE p[k - 1] * n IN IF e <= 0 THEN 1 ELSE p[e]

PowMod(n, e, m) ==
  LET p[k \in 0 .. e] ==
        IF k = 0 THEN 1 % m
        ELSE LET h == p[k \div 2]
             IN  IF IsEven(k) THEN (h * h) % m ELSE (((h * h) % m) * (n % m)) % m
  IN  p[e]

(* A call has returned; it has succeeded.                                  *)
Done(op) == pc = "done" /\ fr.op = op
Succeeded(op) == Done(op) /\ err = "OKAY"

CallTypeOK ==
  /\ val \in [Ints -> Int] /\ old \in [Ints -> Int]
  /\ err \in {"OKAY", "MEM", "VAL", "ITER", "BUF", "ERR"}
=============================================================================
