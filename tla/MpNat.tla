-------------------------------- MODULE MpNat --------------------------------
(***************************************************************************)
(* Magnitudes: vectors of digits in the radix 2^MP_DIGIT_BIT, least        *)
(* significant first, and what mp_clamp, mp_cmp_mag and mp_grow make of    *)
(* them.  The radix and the range of the machine type of a digit are       *)
(* parameters; all the carry code needs of them is that an mp_digit has at *)
(* least one bit above MP_DIGIT_BIT.                                       *)
(***************************************************************************)
EXTENDS Integers

CONSTANTS Radix,               \* 2^MP_DIGIT_BIT
          DigitMod,            \* 2^(bits of the type mp_digit)
          MP_MAX_DIGIT_COUNT   \* most digits an mp_int is given

ASSUME RadixAssumption ==
  /\ Radix \in Nat
  /\ Radix > 1
  /\ DigitMod \in Nat
  /\ \E k \in 1 .. DigitMod : DigitMod = 2 * k * Radix
ASSUME MaxDigitsAssumption == MP_MAX_DIGIT_COUNT \in Nat \ {0}

Digits == 0 .. Radix - 1
Places == 0 .. MP_MAX_DIGIT_COUNT - 1
Counts == 0 .. MP_MAX_DIGIT_COUNT
Vectors == [Places -> Digits]

MP_ZPOS == "ZPOS"
MP_NEG  == "NEG"
Signs   == {MP_ZPOS, MP_NEG}

(* The powers of the radix, and the number the lowest n digits of d spell. *)
Pow[n \in Nat] == IF n = 0 THEN 1 ELSE Radix * Pow[n - 1]

Val(d) ==
  LET v[n \in Counts] == IF n = 0 THEN 0 ELSE v[n - 1] + d[n - 1] * Pow[n - 1]
  IN  v

(* An mp_int with its digits in place of the pointer to them.              *)
MpInts == [used : Counts, alloc : Counts, sign : Signs, digit : Vectors]

Mag(x) == Val(x.digit)[x.used]
IntVal(x) == IF x.sign = MP_NEG THEN - Mag(x) ELSE Mag(x)

(* The representation every operation expects of its operands and owes its *)
(* result: no leading zero digit, no negative zero, nothing but zeros      *)
(* above used.                                                             *)
WellFormed(x) ==
  /\ x.used <= x.alloc
  /\ x.used > 0 => x.digit[x.used - 1] # 0
  /\ x.used = 0 => x.sign = MP_ZPOS
  /\ \A i \in Places : i >= x.used => x.digit[i] = 0

(* mp_clamp: used drops past the leading zeros; zero is made positive.     *)
ClampedUsed(d, used) ==
  CHOOSE n \in 0 .. used :
    /\ \A i \in Places : n <= i /\ i < used => d[i] = 0
    /\ n > 0 => d[n - 1] # 0

mp_clamp(x) ==
  LET n == ClampedUsed(x.digit, x.used)
  IN  [x EXCEPT !.used = n, !.sign = IF n = 0 THEN MP_ZPOS ELSE @]

(* mp_cmp_mag(a, b) == MP_LT: by used, then by the highest digits that     *)
(* differ.                                                                 *)
MagLT(a, b) ==
  \/ a.used < b.used
  \/ /\ a.used = b.used
     /\ \E n \in Places :
          /\ n < a.used
          /\ a.digit[n] < b.digit[n]
          /\ \A i \in Places : n < i /\ i < a.used => a.digit[i] = b.digit[i]

(* s_mp_zero_digs(dp + from, count), which does nothing of a negative      *)
(* count.                                                                  *)
ZeroDigs(d, from, count) ==
  [i \in Places |-> IF from <= i /\ i < from + count THEN 0 ELSE d[i]]

(* What mp_grow(x, size) can return, with what x then is: the digits it    *)
(* adds are zero, and a failure changes nothing.                           *)
Growths(x, size) ==
  IF size <= x.alloc THEN {[code |-> "OKAY", num |-> x]}
  ELSE IF size > MP_MAX_DIGIT_COUNT THEN {[code |-> "OVF", num |-> x]}
  ELSE {[code |-> "MEM", num |-> x],
        [code |-> "OKAY",
         num  |-> [x EXCEPT !.alloc = size,
                            !.digit = ZeroDigs(@, x.alloc, size - x.alloc)]]}
=============================================================================
