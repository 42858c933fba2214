----------------------------- MODULE MpMachine -----------------------------
(***************************************************************************)
(* Numbers and the machine's types beyond its integers: a double becomes a *)
(* number, a number a double, or a hash.                                   *)
(*                                                                         *)
(* A double of the machine is a sign, an exponent and a fraction, of as    *)
(* many bits as the frame says; the magnitude of one that is an integer is *)
(* that integer, and infinity is the power of two after the greatest.      *)
(***************************************************************************)
EXTENDS MpCall

(* digit is the number of bits of a digit of the build, width that of the  *)
(* hash.                                                                   *)
DoubleFrames ==
  {f \in [op : {"set_double"}, a : Ints, fraction : Nat \ {0}, exponent : Nat \ {0, 1},
          dbl : [sign : {0, 1}, exp : Nat, frac : Nat]] :
     f.dbl.exp < 2 ^ f.exponent /\ f.dbl.frac < 2 ^ f.fraction} \cup
  [op : {"get_double"}, a : Ints, fraction : Nat \ {0}, exponent : Nat \ {0, 1}, digit : Nat \ {0}]

HashFrames == [op : {"hash"}, a : Ints, digit : Nat \ 0 .. 8, width : Nat, init : Nat, prime : Nat]

Bias == 2 ^ (fr.exponent - 1) - 1

-----------------------------------------------------------------------------
(* The fraction with the hidden bit, which a double below the normal ones  *)
(* has not, is shifted; only to the left this may fail.                    *)
mp_set_double ==
  /\ pc = "set_double"
  /\ LET frac == 2 ^ fr.fraction + fr.dbl.frac
         exp == fr.dbl.exp - (Bias + fr.fraction)
         shifted == IF exp < 0 THEN frac \div 2 ^ (- exp) ELSE frac * 2 ^ exp
         special == fr.dbl.exp = 2 ^ fr.exponent - 1
     IN  \/ special /\ Refuse("VAL", {})
         \/ ~ special /\ exp >= 0 /\ Put(fr.a, frac) /\ Return("MEM", {})
         \/ ~ special /\ Put(fr.a, IF fr.dbl.sign = 1 THEN - shifted ELSE shifted) /\ Return("OKAY", {})

Infinity == 2 ^ (Bias + 1)

(* What the machine makes of an integer: the nearest double, of two that   *)
(* are as near the one whose last bit is zero.                             *)
Rounded[n \in Nat] ==
  LET excess == mp_count_bits(n) - (fr.fraction + 1)
      unit == 2 ^ excess
      down == (n \div unit) * unit
      up == 2 * (n - down) > unit \/ (2 * (n - down) = unit /\ ~ IsEven(n \div unit))
      nearest == IF excess <= 0 THEN n ELSE IF up THEN down + unit ELSE down
  IN  MinOf(nearest, Infinity)

(* Digits of the size of the frame.                                        *)
dp(n, i) == (Magnitude(n) \div 2 ^ (fr.digit * i)) % 2 ^ fr.digit
used(n) == (mp_count_bits(n) + fr.digit - 1) \div fr.digit

(* A product with the radix and a sum for every digit, each rounded.       *)
mp_get_double ==
  /\ pc = "get_double"
  /\ LET fac == 2 ^ fr.digit
         d[i \in 0 .. used(A)] ==
           IF i = used(A) THEN 0 ELSE Rounded[Rounded[d[i + 1] * fac] + Rounded[dp(A, i)]]
     IN  Answer(Sgn(A) * d[0], {})

(* The exclusive or of the bits of two numbers.                            *)
Xor(m, n) ==
  LET xor[k \in Nat, l \in Nat] ==
        IF k = 0 /\ l = 0 THEN 0 ELSE 2 * xor[k \div 2, l \div 2] + (IF k % 2 = l % 2 THEN 0 ELSE 1)
  IN  xor[m, n]

(* The last byte of a digit goes with the next digit, ...                  *)
mp_hash ==
  /\ pc = "hash"
  /\ LET shift == fr.digit - 8
         r(x) == IF x = used(A) THEN 0 ELSE dp(A, x) % 256
         hval[x \in 0 .. used(A)] ==
           IF x = used(A) THEN fr.init
           ELSE (Xor(hval[x + 1], dp(A, x) \div 256 + r(x + 1) * 2 ^ shift) * fr.prime) % 2 ^ fr.width
     IN  Answer((Xor(hval[0], IF A < 0 THEN 1 ELSE 0) * fr.prime) % 2 ^ fr.width, {})

MachineNext == mp_set_double \/ mp_get_double \/ mp_hash

-----------------------------------------------------------------------------
(* The number is the integer part of the double: what is not refused is no *)
(* infinity, and the parts before and after the point are those of the     *)
(* value the format gives it.                                              *)
SetDoubleCorrect ==
  LET e == IF fr.dbl.exp = 0 THEN 1 ELSE fr.dbl.exp
      value == (fr.dbl.frac + (IF fr.dbl.exp = 0 THEN 0 ELSE 2 ^ fr.fraction)) * 2 ^ e
      unit == 2 ^ (Bias + fr.fraction)
      n == Magnitude(A)
  IN  /\ Done("set_double") => (err = "VAL" <=> fr.dbl.exp = 2 ^ fr.exponent - 1)
      /\ Succeeded("set_double") =>
           /\ n * unit <= value /\ value < (n + 1) * unit
           /\ n # 0 => (A < 0 <=> fr.dbl.sign = 1)

(* A number that is a double becomes it, so that no number made of a       *)
(* double is changed; any other one becomes infinity if it is as great, or *)
(* a double less than a unit of its last place away.                       *)
GetDoubleCorrect ==
  Succeeded("get_double") =>
    LET n == Magnitude(A)
        d == Magnitude(loc.answer)
        unit == 2 ^ (mp_count_bits(n) - (fr.fraction + 1))
    IN  /\ A # 0 => Sgn(loc.answer) = Sgn(A)
        /\ n >= Infinity => d = Infinity
        /\ n < Infinity /\ Rounded[n] = n => d = n
        /\ n < Infinity /\ Rounded[n] # n => d \in n - unit + 1 .. n + unit - 1

(* ... and that of the last one is lost: the hash is one of the sign and   *)
(* of the digits of the number without its last byte, as many as the       *)
(* number has.                                                             *)
HashCorrect ==
  Succeeded("hash") =>
    LET n == Magnitude(A) \div 256
        words == [k \in 1 .. used(A) + 1 |->
                    IF k > used(A) THEN (IF A < 0 THEN 1 ELSE 0) ELSE dp(n, used(A) - k)]
        fnv[k \in 0 .. used(A) + 1] ==
          IF k = 0 THEN fr.init ELSE (Xor(fnv[k - 1], words[k]) * fr.prime) % 2 ^ fr.width
    IN  loc.answer = fnv[used(A) + 1]

MachineCorrect ==
  CASE fr.op = "set_double" -> SetDoubleCorrect
    [] fr.op = "get_double" -> GetDoubleCorrect
    [] fr.op = "hash" -> HashCorrect
    [] OTHER -> TRUE
=============================================================================
