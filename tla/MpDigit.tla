------------------------------ MODULE MpDigit ------------------------------
(***************************************************************************)
(* Calls that work on one mp_int and a digit, a bit count or the bits of a *)
(* second mp_int, down to their digit loops: mp_add_d, mp_sub_d, mp_mul_d, *)
(* mp_div_d (with s_mp_div_3), mp_mul_2, mp_div_2, mp_mul_2d, mp_div_2d,   *)
(* mp_mod_2d, mp_and, mp_or, mp_xor, mp_complement, mp_signed_rsh and      *)
(* mp_2expt.  An action is a whole call; the operands and the destination  *)
(* may be the same structure.                                              *)
(***************************************************************************)
EXTENDS MpNat

CONSTANTS Ints,          \* the mp_int structures of the client
          Numbers,       \* the numbers they may hold before a single call
          FirstNumbers,  \* the numbers they may hold before a sequence of calls
          MP_DIGIT_BIT,  \* bits of a digit
          MP_MIN_DIGIT_COUNT,  \* fewest digits an mp_int is given
          BitCounts,     \* the bit counts passed to shifts and to mp_2expt
          MaxCalls       \* bound on the length of a sequence of calls

ASSUME DigitBitAssumption == MP_DIGIT_BIT \in Nat \ {0} /\ Radix = 2 ^ MP_DIGIT_BIT
ASSUME SpareBitsAssumption == DigitMod <= Radix * Radix
ASSUME MinDigitsAssumption == MP_MIN_DIGIT_COUNT \in 3 .. MP_MAX_DIGIT_COUNT
ASSUME NumbersAssumption ==
  \A n \in Numbers \cup FirstNumbers : n \in MpInts /\ WellFormed(n)
ASSUME BoundsAssumption == BitCounts \subseteq Int /\ MaxCalls \in Nat \ {0}

VARIABLES num,    \* num[x]: the members and digits of structure x
          call,   \* the last call: its operands, what it returned
          calls   \* how many calls are still to come

vars == << num, call, calls >>

MP_MASK == Radix - 1
(* Mutated: the largest value of the type instead of the largest digit.    *)
Mut_MP_DIGIT_MAX == DigitMod - 1

MP_DIGIT_MAX == MP_MASK
Wrap(n) == n % DigitMod
WrapWord(n) == n % (DigitMod * DigitMod)
HighBit(n) == n \div (DigitMod \div 2)

IsNeg(x) == x.sign = MP_NEG
IsZero(x) == x.used = 0
MaxOf(m, n) == IF m >= n THEN m ELSE n

(* What a call or a part of it may come to: a code, what the destination   *)
(* then is, and the digit returned beside it.  A part that fails ends the  *)
(* call, the destination as that part left it.                             *)
Outcome(code, x, rem) == [code |-> code, num |-> x, rem |-> rem]
Okay(x) == Outcome("OKAY", x, 0)
Grow(x, size) == {Outcome(g.code, g.num, 0) : g \in Growths(x, size)}
Then(R, F(_)) == UNION {IF r.code = "OKAY" THEN F(r.num) ELSE {r} : r \in R}

(* A loop over the n lowest digits, upwards or downwards: the carry before *)
(* each iteration (upwards, entering place i; downwards, entering i - 1).  *)
(* C has the carry out of a place, given the one that comes in.            *)
CarryUp(n, first, C) ==
  LET r[i \in 0 .. n] == IF i = 0 THEN first ELSE C[i - 1][r[i - 1]] IN r
CarryDown(n, C) ==
  LET r[i \in 0 .. n] == IF i = n THEN 0 ELSE C[i][r[i + 1]] IN r

(* The digits a loop leaves: D(i) at the n lowest places, d elsewhere.     *)
Written(d, n, D(_)) == [i \in Places |-> IF i < n THEN D(i) ELSE d[i]]

(* Mutated: the digits are not cleared.                                    *)
Mut_Finished(c, digit, used, sign) == [c EXCEPT !.used = used, !.sign = sign, !.digit = digit]

(* used takes its new value, and the digits c had above it are cleared.    *)
Finished(c, digit, used, sign) ==
  [c EXCEPT !.used = used, !.sign = sign, !.digit = ZeroDigs(digit, used, c.used - used)]

Copied(a, g) == Finished(g, Written(g.digit, a.used, LAMBDA i : a.digit[i]), a.used, a.sign)

(* Mutated: the sign is copied before mp_grow can fail.                    *)
Mut_Copy(a, c, same) ==
  Then(Grow([c EXCEPT !.sign = a.sign], a.used), LAMBDA g : {Okay(Copied(a, g))})

(* mp_copy; same says whether it is given one structure twice.             *)
Copy(a, c, same) ==
  IF same THEN {Okay(c)} ELSE Then(Grow(c, a.used), LAMBDA g : {Okay(Copied(a, g))})

-----------------------------------------------------------------------------
(* mp_add_d and mp_sub_d after their fast paths, c grown to a.used + 1.    *)
(* Each calls the other with the sign of a dropped.                        *)
AddLoop(a, b, c) ==
  LET s(i, mu) == Wrap(a.digit[i] + mu)
      mu == CarryUp(a.used, b, [i \in Places |-> [m \in Nat |-> s(i, m) \div Radix]])
      sum == Written(c.digit, a.used, LAMBDA i : s(i, mu[i]) % Radix)
  IN  mp_clamp(Finished(c, [sum EXCEPT ![a.used] = mu[a.used]], a.used + 1, MP_ZPOS))

SingleDigit(a, b, c, sign) ==
  LET d == IF a.used = 1 THEN b - a.digit[0] ELSE b
  IN  mp_clamp(Finished(c, [c.digit EXCEPT ![0] = d], 1, sign))

SubLoop(a, b, c) ==
  LET s(i, mu) == Wrap(a.digit[i] - mu)
      mu == CarryUp(a.used, b, [i \in Places |-> [m \in Nat |-> HighBit(s(i, m))]])
  IN  mp_clamp(Finished(c, Written(c.digit, a.used, LAMBDA i : s(i, mu[i]) % Radix),
                        a.used, MP_ZPOS))

SubPositive(a, b, c) ==
  IF (a.used = 1 /\ a.digit[0] <= b) \/ IsZero(a) THEN SingleDigit(a, b, c, MP_NEG)
                                                  ELSE SubLoop(a, b, c)

(* Mutated: no mp_clamp after the sign is set.                             *)
Mut_Negated(c) == [c EXCEPT !.sign = MP_NEG]

Negated(c) == mp_clamp([c EXCEPT !.sign = MP_NEG])

AddGrown(a, b, g) ==
  IF ~ IsNeg(a) THEN AddLoop(a, b, g)
  ELSE IF a.used > 1 \/ a.digit[0] >= b THEN Negated(SubPositive(a, b, g))
  ELSE SingleDigit(a, b, g, MP_ZPOS)

SubGrown(a, b, g) == IF IsNeg(a) THEN Negated(AddLoop(a, b, g)) ELSE SubPositive(a, b, g)

AddD(a, b, c, same) ==
  IF same /\ ~ IsNeg(c) /\ ~ IsZero(c) /\ c.digit[0] + b < MP_DIGIT_MAX
    THEN {Okay([c EXCEPT !.digit[0] = @ + b])}
  ELSE IF same /\ IsNeg(c) /\ c.digit[0] > b
    THEN {Okay([c EXCEPT !.digit[0] = @ - b])}
  ELSE Then(Grow(c, a.used + 1), LAMBDA g : {Okay(AddGrown(a, b, g))})

SubD(a, b, c, same) ==
  IF same /\ IsNeg(c) /\ c.digit[0] + b < MP_DIGIT_MAX
    THEN {Okay([c EXCEPT !.digit[0] = @ + b])}
  ELSE IF same /\ ~ IsNeg(c) /\ c.digit[0] > b
    THEN {Okay([c EXCEPT !.digit[0] = @ - b])}
  ELSE Then(Grow(c, a.used + 1), LAMBDA g : {Okay(SubGrown(a, b, g))})

-----------------------------------------------------------------------------
(* Shifts by one bit.                                                      *)
Doubled(a, g) ==
  LET r == CarryUp(a.used, 0, [i \in Places |-> [m \in Nat |-> a.digit[i] \div (Radix \div 2)]])
      up == Written(g.digit, a.used, LAMBDA i : (2 * a.digit[i] + r[i]) % Radix)
      top == r[a.used]
  IN  IF top # 0 THEN Finished(g, [up EXCEPT ![a.used] = 1], a.used + 1, a.sign)
                 ELSE Finished(g, up, a.used, a.sign)

Halved(a, g) ==
  LET r == CarryDown(a.used, [i \in Places |-> [m \in Nat |-> a.digit[i] % 2]])
      down == Written(g.digit, a.used, LAMBDA i : (a.digit[i] \div 2) + r[i + 1] * (Radix \div 2))
  IN  mp_clamp(Finished(g, down, a.used, a.sign))

Mul2(a, c) == Then(Grow(c, a.used + 1), LAMBDA g : {Okay(Doubled(a, g))})
Div2(a, c) == Then(Grow(c, a.used), LAMBDA g : {Okay(Halved(a, g))})

(* Shifts by b bits: whole digits (mp_lshd, mp_rshd), then the rest.       *)
DigitsUp(g, n) ==
  [g EXCEPT !.used = @ + n,
            !.digit = Written(@, g.used + n, LAMBDA i : IF i < n THEN 0 ELSE g.digit[i - n])]

LShd(c, n) ==
  IF n <= 0 \/ IsZero(c) THEN {Okay(c)}
  ELSE Then(Grow(c, c.used + n), LAMBDA g : {Okay(DigitsUp(g, n))})

MpZero(c) == [c EXCEPT !.used = 0, !.sign = MP_ZPOS, !.digit = ZeroDigs(@, 0, c.used)]

RShd(c, n) ==
  IF n <= 0 THEN c
  ELSE IF c.used <= n THEN MpZero(c)
  ELSE [c EXCEPT !.used = @ - n,
                 !.digit = ZeroDigs(Written(@, c.used - n, LAMBDA i : c.digit[i + n]),
                                    c.used - n, n)]

ShiftBitsUp(c, b) ==
  LET high(i) == c.digit[i] \div 2 ^ (MP_DIGIT_BIT - b)
      r == CarryUp(c.used, 0, [i \in Places |-> [m \in Nat |-> high(i)]])
      up == Written(c.digit, c.used, LAMBDA i : ((c.digit[i] * 2 ^ b) % Radix) + r[i])
      top == r[c.used]
  IN  IF top # 0 THEN [c EXCEPT !.used = @ + 1, !.digit = [up EXCEPT ![c.used] = top]]
                 ELSE [c EXCEPT !.digit = up]

ShiftBitsDown(c, b) ==
  LET r == CarryDown(c.used, [i \in Places |-> [m \in Nat |-> c.digit[i] % 2 ^ b]])
  IN  [c EXCEPT !.digit = Written(@, c.used,
         LAMBDA i : (c.digit[i] \div 2 ^ b) + r[i + 1] * 2 ^ (MP_DIGIT_BIT - b))]

BitsUp(s, b) == mp_clamp(IF b % MP_DIGIT_BIT # 0 THEN ShiftBitsUp(s, b % MP_DIGIT_BIT) ELSE s)

BitsDown(d, b) ==
  LET s == RShd(d, b \div MP_DIGIT_BIT)
  IN  mp_clamp(IF b % MP_DIGIT_BIT # 0 THEN ShiftBitsDown(s, b % MP_DIGIT_BIT) ELSE s)

BitsBelow(d, b) ==
  LET q == b \div MP_DIGIT_BIT
      m == b % MP_DIGIT_BIT
      x == IF m = 0 THEN q ELSE q + 1
  IN  mp_clamp([d EXCEPT !.digit = [ZeroDigs(d.digit, x, d.used - x) EXCEPT ![q] = @ % 2 ^ m]])

Moved(g, b) == Then(LShd(g, b \div MP_DIGIT_BIT), LAMBDA s : {Okay(BitsUp(s, b))})
Raised(d, b) == Then(Grow(d, d.used + b \div MP_DIGIT_BIT + 1), LAMBDA g : Moved(g, b))

Mul2D(a, b, c, same) ==
  IF b < 0 THEN {Outcome("VAL", c, 0)} ELSE Then(Copy(a, c, same), LAMBDA d : Raised(d, b))

Div2D(a, b, c, same) ==
  IF b < 0 THEN {Outcome("VAL", c, 0)}
  ELSE Then(Copy(a, c, same), LAMBDA d : {Okay(BitsDown(d, b))})

Mod2D(a, b, c, same) ==
  IF b < 0 THEN {Outcome("VAL", c, 0)}
  ELSE IF b = 0 THEN {Okay(MpZero(c))}
  ELSE IF b >= a.used * MP_DIGIT_BIT THEN Copy(a, c, same)
  ELSE Then(Copy(a, c, same), LAMBDA d : {Okay(BitsBelow(d, b))})

-----------------------------------------------------------------------------
(* Products and quotients by a digit.  mp_div_d works in a temporary q     *)
(* which it exchanges with c, unless the quotient is not asked for.        *)
Powers2 == {2 ^ k : k \in 1 .. MP_DIGIT_BIT - 1}
Log2(b) == CHOOSE k \in 1 .. MP_DIGIT_BIT - 1 : b = 2 ^ k

Times(a, b, g) ==
  LET w(i, u) == WrapWord(u + a.digit[i] * b)
      u == CarryUp(a.used, 0, [i \in Places |-> [m \in Nat |-> w(i, m) \div Radix]])
      low == Written(g.digit, a.used, LAMBDA i : w(i, u[i]) % Radix)
  IN  mp_clamp(Finished(g, [low EXCEPT ![a.used] = u[a.used]], a.used + 1, a.sign))

MulD(a, b, c, same) ==
  IF b = 1 THEN Copy(a, c, same)
  ELSE IF b = 2 THEN Mul2(a, c)
  ELSE IF b \in Powers2 THEN Mul2D(a, Log2(b), c, same)
  ELSE Then(Grow(c, a.used + 1), LAMBDA g : {Okay(Times(a, b, g))})

(* One digit of the quotient by b, the word w being what is left of the    *)
(* digits above: s_mp_div_3 multiplies by a third of the radix instead and *)
(* corrects what that leaves.                                              *)
Third(w) == WrapWord(w * (Radix \div 3)) \div Radix
(* Mutated: the quotient by a third is not corrected.                      *)
Mut_QuotientDigit(w, b) ==
  IF b = 3 THEN Third(w) ELSE IF w >= b THEN w \div b ELSE 0

QuotientDigit(w, b) ==
  IF b = 3 THEN IF w >= 3 THEN Third(w) + (w - 3 * Third(w)) \div 3 ELSE 0
  ELSE IF w >= b THEN w \div b ELSE 0

Long(a, b) ==
  LET w(i, r) == WrapWord(r * Radix + a.digit[i])
      rest(v) == v - QuotientDigit(v, b) * b
      r == CarryDown(a.used, [i \in Places |-> [m \in Nat |-> rest(w(i, m))]])
  IN  [rem |-> r[0], digit |-> Written([i \in Places |-> 0], a.used,
                                       LAMBDA i : QuotientDigit(w(i, r[i + 1]), b))]

SetRem(R, rem) == {Outcome(r.code, r.num, rem) : r \in R}

DivD(a, b, c, same) ==
  IF b = 0 THEN {Outcome("VAL", c, 0)}
  ELSE IF b = 1 \/ IsZero(a) THEN SetRem(Copy(a, c, same), 0)
  ELSE IF b = 2 THEN SetRem(Div2(a, c), a.digit[0] % 2)
  ELSE IF b \in Powers2 THEN SetRem(Div2D(a, Log2(b), c, same), a.digit[0] % b)
  ELSE LET l == Long(a, b)
           q == [used |-> a.used, sign |-> a.sign, digit |-> l.digit,
                 alloc |-> MaxOf(MP_MIN_DIGIT_COUNT, a.used)]
       IN  {Outcome("MEM", c, 0), Outcome("OKAY", mp_clamp(q), l.rem)}

(* Only the remainder, c being NULL: a itself is never written.            *)
ModD(a, b) == {Outcome(r.code, a, r.rem) : r \in DivD(a, b, a, TRUE)}

-----------------------------------------------------------------------------
(* mp_and, mp_or and mp_xor: digit by digit in two's complement, one digit *)
(* longer than the operands, and back if the result is negative.           *)
Bit(n, k) == (n \div 2 ^ k) % 2

(* A digit of the bits that Op makes of those of x and y.                  *)
And == [x \in 0 .. 1 |-> [y \in 0 .. 1 |-> x * y]]
Or == [x \in 0 .. 1 |-> [y \in 0 .. 1 |-> MaxOf(x, y)]]
Xor == [x \in 0 .. 1 |-> [y \in 0 .. 1 |-> (x + y) % 2]]
DigitOp(Op, x, y) ==
  LET C == [k \in Nat |-> [n \in Nat |-> n + 2 ^ k * Op[Bit(x, k)][Bit(y, k)]]]
  IN  CarryUp(MP_DIGIT_BIT, 0, C)[MP_DIGIT_BIT]

ComplementDigit(x, i) == IF i >= x.used THEN MP_MASK ELSE MP_MASK - x.digit[i]
PlainDigit(x, i) == IF i >= x.used THEN 0 ELSE x.digit[i]

TwosComplement(x, used) ==
  LET c == CarryUp(used, 1, [i \in Nat |-> [m \in Nat |-> (m + ComplementDigit(x, i)) \div Radix]])
  IN  [i \in 0 .. used - 1 |-> IF IsNeg(x) THEN (c[i] + ComplementDigit(x, i)) % Radix
                                           ELSE PlainDigit(x, i)]

Combined(a, b, neg, Op, used, g) ==
  LET x == TwosComplement(a, used)
      y == TwosComplement(b, used)
      z == [i \in 0 .. used - 1 |-> DigitOp(Op, x[i], y[i])]
      cc == CarryUp(used, 1, [i \in Nat |-> [m \in Nat |-> (m + MP_MASK - z[i]) \div Radix]])
      digit(i) == IF neg THEN (cc[i] + MP_MASK - z[i]) % Radix ELSE z[i]
  IN  mp_clamp([g EXCEPT !.used = used, !.sign = IF neg THEN MP_NEG ELSE MP_ZPOS,
                         !.digit = Written(@, used, digit)])

BitOp(a, b, c, neg, Op) ==
  LET used == MaxOf(a.used, b.used) + 1
  IN  Then(Grow(c, used), LAMBDA g : {Okay(Combined(a, b, neg, Op, used, g))})

BitAnd(a, b, c) == BitOp(a, b, c, IsNeg(a) /\ IsNeg(b), And)
BitOr(a, b, c) == BitOp(a, b, c, IsNeg(a) \/ IsNeg(b), Or)
BitXor(a, b, c) == BitOp(a, b, c, a.sign # b.sign, Xor)

(* The operand in a block that has been freed: it may hold any digits.     *)
Dangling(a) ==
  {[a EXCEPT !.digit = Written(@, a.used, LAMBDA i : d[i])] : d \in [0 .. a.used - 1 -> 0 .. DigitMod - 1]}

(* mp_sub_d is given a copy of the members of a, the pointer to its digits *)
(* among them, so that it does not see that c is a; where c must grow for  *)
(* it, realloc may move the digits and free those the copy points to.      *)
Complement(a, c, same) ==
  LET n == [a EXCEPT !.sign = IF ~ IsNeg(a) /\ ~ IsZero(a) THEN MP_NEG ELSE MP_ZPOS]
      read == IF same /\ c.alloc < a.used + 1 THEN Dangling(n) ELSE {n}
  IN  Then(Grow(c, a.used + 1), LAMBDA g : {Okay(SubGrown(m, 1, g)) : m \in read})

Below(d, b) == Then(Div2D(d, b, d, TRUE), LAMBDA e : SubD(e, 1, e, TRUE))

SignedRsh(a, b, c, same) ==
  IF ~ IsNeg(a) THEN Div2D(a, b, c, same) ELSE Then(AddD(a, 1, c, same), LAMBDA d : Below(d, b))

OneBit(g, b) ==
  LET k == b \div MP_DIGIT_BIT
  IN  [g EXCEPT !.used = k + 1, !.digit[k] = 2 ^ (b % MP_DIGIT_BIT)]

TwoExpt(c, b) ==
  IF b < 0 THEN {Outcome("VAL", c, 0)}
  ELSE Then(Grow(MpZero(c), b \div MP_DIGIT_BIT + 1), LAMBDA g : {Okay(OneBit(g, b))})

-----------------------------------------------------------------------------
Call(op, a, b, c, n, R) ==
  /\ calls > 0
  /\ \E r \in R :
       /\ num' = [num EXCEPT ![c] = r.num]
       /\ call' = [op |-> op, a |-> a, b |-> b, c |-> c, n |-> n,
                   code |-> r.code, rem |-> r.rem]
  /\ calls' = calls - 1

mp_add_d(a, d, c) == Call("add_d", a, a, c, d, AddD(num[a], d, num[c], a = c))
mp_sub_d(a, d, c) == Call("sub_d", a, a, c, d, SubD(num[a], d, num[c], a = c))
mp_mul_d(a, d, c) == Call("mul_d", a, a, c, d, MulD(num[a], d, num[c], a = c))
mp_div_d(a, d, c) == Call("div_d", a, a, c, d, DivD(num[a], d, num[c], a = c))
mp_mod_d(a, d) == Call("mod_d", a, a, a, d, ModD(num[a], d))
mp_mul_2(a, c) == Call("mul_2", a, a, c, 0, Mul2(num[a], num[c]))
mp_div_2(a, c) == Call("div_2", a, a, c, 0, Div2(num[a], num[c]))
mp_mul_2d(a, n, c) == Call("mul_2d", a, a, c, n, Mul2D(num[a], n, num[c], a = c))
mp_div_2d(a, n, c) == Call("div_2d", a, a, c, n, Div2D(num[a], n, num[c], a = c))
(* mp_div_2d asked for the remainder too, in d, which is written before c  *)
(* is shifted.                                                             *)
mp_div_2d_rem(a, n, c, d) ==
  /\ calls > 0
  /\ \E q \in IF n < 0 THEN {Outcome("VAL", num[c], 0)} ELSE Copy(num[a], num[c], a = c) :
       \E r \in IF q.code = "OKAY" THEN Mod2D(num[a], n, num[d], a = d)
                                   ELSE {Outcome(q.code, num[d], 0)} :
         /\ num' = [num EXCEPT ![c] = IF r.code = "OKAY" THEN BitsDown(q.num, n) ELSE q.num,
                               ![d] = r.num]
         /\ call' = [op |-> "div_2d_rem", a |-> a, b |-> d, c |-> c, n |-> n,
                     code |-> r.code, rem |-> 0]
  /\ calls' = calls - 1

mp_mod_2d(a, n, c) == Call("mod_2d", a, a, c, n, Mod2D(num[a], n, num[c], a = c))
mp_and(a, b, c) == Call("and", a, b, c, 0, BitAnd(num[a], num[b], num[c]))
mp_or(a, b, c) == Call("or", a, b, c, 0, BitOr(num[a], num[b], num[c]))
mp_xor(a, b, c) == Call("xor", a, b, c, 0, BitXor(num[a], num[b], num[c]))
mp_complement(a, c) == Call("complement", a, a, c, 0, Complement(num[a], num[c], a = c))
mp_signed_rsh(a, n, c) == Call("signed_rsh", a, a, c, n, SignedRsh(num[a], n, num[c], a = c))
mp_2expt(c, n) == Call("2expt", c, c, c, n, TwoExpt(num[c], n))

Init ==
  /\ \/ num \in [Ints -> Numbers] /\ calls = 1
     \/ num \in [Ints -> FirstNumbers] /\ calls = MaxCalls
  /\ \E x \in Ints : call = [op |-> "none", a |-> x, b |-> x, c |-> x, n |-> 0,
                             code |-> "OKAY", rem |-> 0]

Next ==
  \/ \E a, c \in Ints, d \in Digits :
       mp_add_d(a, d, c) \/ mp_sub_d(a, d, c) \/ mp_mul_d(a, d, c) \/ mp_div_d(a, d, c)
  \/ \E a \in Ints, d \in Digits : mp_mod_d(a, d)
  \/ \E a, c \in Ints : mp_mul_2(a, c) \/ mp_div_2(a, c) \/ mp_complement(a, c)
  \/ \E a, c \in Ints, n \in BitCounts :
       mp_mul_2d(a, n, c) \/ mp_div_2d(a, n, c) \/ mp_mod_2d(a, n, c) \/ mp_signed_rsh(a, n, c)
  \/ \E a, c \in Ints, n \in BitCounts, d \in Ints : c # d /\ mp_div_2d_rem(a, n, c, d)
  \/ \E a, b, c \in Ints : mp_and(a, b, c) \/ mp_or(a, b, c) \/ mp_xor(a, b, c)
  \/ \E c \in Ints, n \in BitCounts : mp_2expt(c, n)

Spec == Init /\ [][Next]_vars

-----------------------------------------------------------------------------
Ops == {"none", "add_d", "sub_d", "mul_d", "div_d", "mod_d", "mul_2", "div_2", "mul_2d", "div_2d",
        "div_2d_rem", "mod_2d", "and", "or", "xor", "complement", "signed_rsh", "2expt"}

TypeOK ==
  /\ num \in [Ints -> MpInts]
  /\ call \in [op : Ops, a : Ints, b : Ints, c : Ints, n : BitCounts \cup Digits,
               code : {"OKAY", "MEM", "VAL", "OVF"}, rem : Digits]
  /\ calls \in 0 .. MaxCalls

(* The number a call is to compute, of the integers A and B its operands   *)
(* held: C truncates a quotient, a sign-extending shift rounds it down.    *)
Sgn(A) == IF A < 0 THEN -1 ELSE 1
Abs(A) == Sgn(A) * A
BitPlaces == 0 .. (MP_MAX_DIGIT_COUNT + 1) * MP_DIGIT_BIT

Meaning(k, A, B, r) ==
  CASE k.op = "add_d" -> r = A + k.n
    [] k.op = "sub_d" -> r = A - k.n
    [] k.op = "mul_d" -> r = A * k.n
    [] k.op = "div_d" -> r = Sgn(A) * (Abs(A) \div k.n) /\ k.rem = Abs(A) % k.n
    [] k.op = "mod_d" -> r = A /\ k.rem = Abs(A) % k.n
    [] k.op = "mul_2" -> r = 2 * A
    [] k.op = "div_2" -> r = Sgn(A) * (Abs(A) \div 2)
    [] k.op = "mul_2d" -> r = A * 2 ^ k.n
    [] k.op \in {"div_2d", "div_2d_rem"} -> r = Sgn(A) * (Abs(A) \div 2 ^ k.n)
    [] k.op = "mod_2d" -> r = Sgn(A) * (Abs(A) % 2 ^ k.n)
    [] k.op = "and" -> \A i \in BitPlaces : Bit(r, i) = Bit(A, i) * Bit(B, i)
    [] k.op = "or"  -> \A i \in BitPlaces : Bit(r, i) = MaxOf(Bit(A, i), Bit(B, i))
    [] k.op = "xor" -> \A i \in BitPlaces : Bit(r, i) = (Bit(A, i) + Bit(B, i)) % 2
    [] k.op = "complement" -> r = - A - 1
    [] k.op = "signed_rsh" -> r = A \div 2 ^ k.n
    [] k.op = "2expt" -> r = 2 ^ k.n

(* No digit other than zero at or above used.                              *)
NoExcess(x) == \A i \in Places : i >= x.used => x.digit[i] = 0

(* The calls that read what is not theirs: mp_2expt the digits above used, *)
(* which mp_and, mp_or and mp_xor leave; mp_complement in place, where the *)
(* number has no digit to spare, digits that were freed.                   *)
ReadsAmiss(k) ==
  \/ k.op = "2expt" /\ ~ NoExcess(num[k.c])
  \/ k.op = "complement" /\ k.a = k.c /\ num[k.c].alloc = num[k.c].used

(* A call that succeeds leaves in its destination the number its name and  *)
(* its documentation promise, whichever operands are the same structure    *)
(* and whatever the calls before it left in the digits above used, but for *)
(* the calls that read amiss; mp_div_2d leaves the remainder as well.      *)
CallCorrect ==
  [][call'.code = "OKAY" /\ ~ ReadsAmiss(call') =>
       LET k == call'
           A == IntVal(num[k.a])
       IN  /\ Meaning(k, A, IntVal(num[k.b]), IntVal(num'[k.c]))
           /\ k.op = "div_2d_rem" => IntVal(num'[k.b]) = Sgn(A) * (Abs(A) % 2 ^ k.n)]_vars

(* The claim of the comment on mp_2expt, after any other calls.            *)
TwoExptIsPower ==
  [][call'.op = "2expt" /\ call'.code = "OKAY" => IntVal(num'[call'.c]) = 2 ^ call'.n]_vars

(* The claim of the comment on mp_complement, b = ~a, and of the manual,   *)
(* that b may be a.                                                        *)
ComplementInPlace ==
  [][call'.op = "complement" /\ call'.a = call'.c /\ call'.code = "OKAY" =>
       IntVal(num'[call'.c]) = - IntVal(num[call'.c]) - 1]_vars

(* mp_cmp_d reads dp[0] of any number, of zero too, and decides without    *)
(* looking at used again.                                                  *)
CmpD(x, b) ==
  IF IsNeg(x) THEN "LT" ELSE IF x.used > 1 THEN "GT"
  ELSE IF x.digit[0] # b THEN IF x.digit[0] > b THEN "GT" ELSE "LT" ELSE "EQ"

(* Every call, also one that failed half-way, leaves numbers without a     *)
(* leading zero digit and no negative zero, within their allocation, and   *)
(* mp_cmp_d orders them and a digit as integers.                           *)
Canonical ==
  \A x \in Ints :
    /\ num[x].used <= num[x].alloc
    /\ num[x].used > 0 => num[x].digit[num[x].used - 1] # 0
    /\ IsZero(num[x]) => ~ IsNeg(num[x])
    /\ \A b \in Digits :
         CmpD(num[x], b) = IF IntVal(num[x]) < b THEN "LT" ELSE IF IntVal(num[x]) > b THEN "GT" ELSE "EQ"

(* No call but mp_and, mp_or and mp_xor leaves a digit other than zero     *)
(* above used, if its operands had none: what mp_2expt, mp_add_d, mp_sub_d *)
(* and mp_cmp_d take for granted.                                          *)
ExcessZeroKept ==
  [][call'.op \notin {"and", "or", "xor"} /\ (\A x \in Ints : NoExcess(num[x]))
       => \A x \in Ints : NoExcess(num'[x])]_vars

(* What is left of the destination of a call that fails: its old value;    *)
(* zero (mp_2expt); the operand (mp_mul_2d and mp_div_2d with a remainder  *)
(* copy first); the operand plus one, or the result plus one               *)
(* (mp_signed_rsh).  No other structure is changed, the remainder neither. *)
FailureLeaves ==
  [][call'.code # "OKAY" =>
       LET k == call'
           A == IntVal(num[k.a])
           r == IntVal(num'[k.c])
       IN  /\ \/ r = IntVal(num[k.c])
              \/ k.op = "2expt" /\ r = 0
              \/ k.op \in {"mul_2d", "mul_d", "div_2d_rem"} /\ r = A
              \/ k.op = "signed_rsh" /\ r = (IF k.n < 0 THEN A ELSE A \div 2 ^ k.n) + 1
           /\ \A x \in Ints \ {k.c} : IntVal(num'[x]) = IntVal(num[x])]_vars
=============================================================================
