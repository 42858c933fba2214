------------------------------ MODULE MpReduce ------------------------------
(***************************************************************************)
(* Reductions of a number, in place, with what has been computed from the  *)
(* modulus before: Barrett's, Montgomery's, and those for a modulus just   *)
(* below a power of the radix or of two.  A call of this module is the     *)
(* setup followed by the reduction, as the callers have it.                *)
(***************************************************************************)
EXTENDS MpMul

(* x is the number to reduce, m its modulus, d what the setup computes     *)
(* when it does not fit a digit.  Above the digits of x the digit above    *)
(* may have been left; high is the routine for the upper half of a product *)
(* that a build has, and bits is the size of a digit.                      *)
ReduceFrames ==
  [op : {"barrett"}, x : Ints, m : Ints, d : Ints, high : {"mul_high", "high_comba", "none"}] \cup
  [op : {"montgomery"}, x : Ints, m : Ints, above : Nat] \cup
  [op : {"dr", "2k"}, x : Ints, m : Ints] \cup
  [op : {"2k_l"}, x : Ints, m : Ints, d : Ints] \cup
  [op : {"normalization"}, x : Ints, m : Ints] \cup
  [op : {"rho"}, digit : Nat, bits : Nat]

X == val[fr.x]
M == val[fr.m]
um == Used(M)

(* x gets n, the function goes on.                                         *)
Reduced(n, l) ==
  /\ Put(fr.x, n)
  /\ pc' = l
  /\ UNCHANGED << loc, live, fr, err, old >>

(* A call fails when x has become n.                                       *)
FailWith(n, cleared) == Put(fr.x, n) /\ Return("MEM", cleared)

-----------------------------------------------------------------------------
mp_reduce_setup ==
  /\ pc = "barrett"
  /\ \/ Refuse("MEM", {})
     \/ Put(fr.d, Weight(2 * um)) /\ Return(IF M = 0 THEN "VAL" ELSE "MEM", {})
     \/ /\ M # 0
        /\ Put(fr.d, Quotient(Weight(2 * um), M))
        /\ pc' = "reduce"
        /\ UNCHANGED << loc, live, fr, err, old >>

(* The product of q and mu but for its lower columns, in the place of      *)
(* which the comba routine leaves the digits q had.                        *)
HighProduct(q, mu) ==
  IF um > 2 ^ (MP_DIGIT_BIT - 1) THEN q * mu
  ELSE HighColumns(q, mu, um)
         + IF fr.high = "high_comba" THEN q % Weight(MinOf(um, Used(q) + Used(mu))) ELSE 0

(* Mutated: a digit too many is dropped.                                   *)
Mut_reduce_quotient ==
  /\ pc = "reduce"
  /\ loc' = [q |-> HighProduct(X \div Weight(um), val[fr.d]) \div Weight(um + 1)]
  /\ live' = {"q"}
  /\ pc' = "reduce_rest"
  /\ UNCHANGED << val, fr, err, old >>

(* The estimate of the quotient.                                           *)
reduce_quotient ==
  /\ pc = "reduce"
  /\ \/ Refuse("MEM", {"q"})
     \/ um <= 2 ^ (MP_DIGIT_BIT - 1) /\ fr.high = "none" /\ Refuse("VAL", {"q"})
     \/ /\ um > 2 ^ (MP_DIGIT_BIT - 1) \/ fr.high # "none"
        /\ loc' = [q |-> HighProduct(X \div Weight(um - 1), val[fr.d]) \div Weight(um + 1)]
        /\ live' = {"q"}
        /\ pc' = "reduce_rest"
        /\ UNCHANGED << val, fr, err, old >>

(* What is left of x, of its lower digits and those of the product.        *)
reduce_rest ==
  /\ pc = "reduce_rest"
  /\ LET power == Weight(um + 1)
         low == X % power
         rest == low - ((loc.q * M) % power)
     IN  \/ \E n \in {X, low, rest} : FailWith(n, {"q"})
         \/ Reduced(IF rest < 0 THEN rest + power ELSE rest, "reduce_back")

reduce_back ==
  /\ pc = "reduce_back"
  /\ \/ X >= M /\ (Refuse("MEM", {"q"}) \/ Reduced(X - M, "reduce_back"))
     \/ X < M /\ Refuse("OKAY", {"q"})

-----------------------------------------------------------------------------
(* Newton's iteration for the inverse of an odd digit, in the type of      *)
(* digits; a digit has a bit less.                                         *)
Inverse2k(b, bits) ==
  LET D(n) == n % 2 ^ (bits + 1)
      rounds == IF bits < 16 THEN 2 ELSE IF bits < 32 THEN 3 ELSE 4
      x[k \in 0 .. rounds] ==
        IF k = 0 THEN D(8 * ((D(b + 2) \div 4) % 2) + b) ELSE D(x[k - 1] * D(2 - D(b * x[k - 1])))
  IN  x[rounds]

Rho(b, bits) == (2 ^ bits - Inverse2k(b, bits)) % 2 ^ bits

mp_montgomery_setup ==
  \/ /\ pc = "rho"
     /\ \/ IsEven(fr.digit) /\ Refuse("VAL", {})
        \/ ~ IsEven(fr.digit) /\ Answer(Rho(fr.digit, fr.bits), {})
  \/ /\ pc = "montgomery"
     /\ \/ IsEven(M) /\ Refuse("VAL", {})
        \/ /\ ~ IsEven(M)
           /\ loc' = [rho |-> Rho(Digit(M, 0), MP_DIGIT_BIT)]
           /\ Goto("montgomery_reduce")

MontgomeryComba == 2 * um + 1 < MP_WARRAY /\ um < MP_MAX_COMBA /\ Used(X) <= MP_WARRAY

mp_montgomery_reduce ==
  /\ pc = "montgomery_reduce" /\ ~ MontgomeryComba
  /\ \/ Refuse("MEM", {})
     \/ /\ loc' = [rho |-> loc.rho, ix |-> 0, past |-> FALSE,
                   t |-> [i \in 0 .. 2 * um |-> IF i < Used(X) THEN Digit(X, i) ELSE fr.above]]
        /\ Goto("montgomery_rows")

(* n times mu is added to t at place ix, mu such that the digit there      *)
(* becomes zero, and the carry moved upwards, past the digits that have    *)
(* been grown if all that follow are full.                                 *)
montgomery_row ==
  /\ pc = "montgomery_rows" /\ loc.ix < um
  /\ LET ix == loc.ix
         mu == (loc.t[ix] * loc.rho) % Radix
         Row0(i, u) == Word(mu * Digit(M, i - ix) + u + loc.t[i])
         carry[i \in ix .. 2 * um + 1] ==
           IF i = ix THEN 0
           ELSE IF i <= ix + um THEN DigitType(Row0(i - 1, carry[i - 1]) \div Radix)
           ELSE DigitType(loc.t[i - 1] + carry[i - 1]) \div Radix
     IN  loc' = [loc EXCEPT !.ix = ix + 1, !.past = @ \/ carry[2 * um + 1] # 0,
                            !.t = [i \in 0 .. 2 * um |->
                                     IF i < ix THEN loc.t[i]
                                     ELSE IF i < ix + um THEN Row0(i, carry[i]) % Radix
                                     ELSE DigitType(loc.t[i] + carry[i]) % Radix]]
  /\ Goto("montgomery_rows")

montgomery_shift ==
  /\ pc = "montgomery_rows" /\ loc.ix = um
  /\ Reduced(Number(loc.t, 2 * um + 1) \div Weight(um), "montgomery_sub")

(* The columns are words, those above the digits of x zeroed.              *)
s_mp_montgomery_reduce_comba ==
  /\ pc = "montgomery_reduce" /\ MontgomeryComba
  /\ \/ Refuse("MEM", {})
     \/ /\ loc' = [rho |-> loc.rho, ix |-> 0,
                   W |-> [i \in 0 .. MaxOf(Used(X) - 1, 2 * um) |-> Digit(X, i)]]
        /\ Goto("montgomery_columns")

montgomery_column ==
  /\ pc = "montgomery_columns" /\ loc.ix < um
  /\ LET ix == loc.ix
         mu == DigitType((loc.W[ix] % Radix) * loc.rho) % Radix
         W == [i \in DOMAIN loc.W |->
                 IF i \in ix .. ix + um - 1 THEN Word(loc.W[i] + mu * Digit(M, i - ix)) ELSE loc.W[i]]
     IN  loc' = [loc EXCEPT !.ix = ix + 1, !.W = [W EXCEPT ![ix + 1] = Word(@ + W[ix] \div Radix)]]
  /\ Goto("montgomery_columns")

(* The carries of the other columns; digit i comes from column um + i.     *)
montgomery_carry ==
  /\ pc = "montgomery_columns" /\ loc.ix = um
  /\ LET W[i \in um .. 2 * um] ==
           IF i = um THEN loc.W[um] ELSE Word(loc.W[i] + W[i - 1] \div Radix)
     IN  Reduced(Number([i \in 0 .. um |-> W[um + i] % Radix], um + 1), "montgomery_sub")

montgomery_sub ==
  /\ pc = "montgomery_sub"
  /\ \/ X >= M /\ Refuse("MEM", {})
     \/ Put(fr.x, IF X >= M THEN X - M ELSE X) /\ Return("OKAY", {})

-----------------------------------------------------------------------------
(* The power of the radix modulo m, by doublings from just below m.        *)
mp_montgomery_calc_normalization ==
  /\ pc = "normalization"
  /\ LET rest == mp_count_bits(M) % MP_DIGIT_BIT
         bits == IF um > 1 THEN rest ELSE 1
     IN  \/ um > 1 /\ Refuse("MEM", {})
         \/ /\ Put(fr.x, IF um > 1 THEN 2 ^ ((um - 1) * MP_DIGIT_BIT + bits - 1) ELSE 1)
            /\ loc' = [k |-> bits - 1]
            /\ pc' = "doublings"
            /\ UNCHANGED << live, fr, err, old >>

normalization_double ==
  /\ pc = "doublings" /\ loc.k < MP_DIGIT_BIT
  /\ \/ \E n \in {X, 2 * X} : FailWith(n, {})
     \/ /\ Put(fr.x, IF 2 * X >= M THEN 2 * X - M ELSE 2 * X)
        /\ loc' = [k |-> loc.k + 1]
        /\ UNCHANGED << live, pc, fr, err, old >>

normalization_end == pc = "doublings" /\ loc.k = MP_DIGIT_BIT /\ Refuse("OKAY", {})

-----------------------------------------------------------------------------
mp_dr_setup ==
  /\ pc = "dr"
  /\ \/ Refuse("MEM", {})
     \/ loc' = [k |-> Radix - Digit(M, 0)] /\ Goto("dr_pass")

(* The upper half times k is added to the lower, the last carry stored at  *)
(* place um as it is; the digits above are zeroed.                         *)
dr_pass ==
  /\ pc = "dr_pass"
  /\ LET Place(i, mu) == Word(Digit(X, i + um) * loc.k + Digit(X, i) + mu)
         mu[i \in 0 .. um] == IF i = 0 THEN 0 ELSE DigitType(Place(i - 1, mu[i - 1]) \div Radix)
     IN  Reduced(Number([i \in 0 .. um - 1 |-> Place(i, mu[i]) % Radix], um) + mu[um] * Weight(um),
                 "dr_compare")

(* Mutated: the number is compared and not subtracted from.                *)
Mut_dr_compare ==
  /\ pc = "dr_compare"
  /\ \/ X < M /\ Refuse("OKAY", {})
     \/ X >= M /\ Goto("dr_pass") /\ UNCHANGED loc

(* The subtraction leaves digits only: a last carry of the radix is gone   *)
(* if nothing is borrowed from it.                                         *)
dr_compare ==
  /\ pc = "dr_compare"
  /\ \/ X < M /\ Refuse("OKAY", {})
     \/ X >= M /\ (Refuse("MEM", {}) \/ Reduced((X - M) % Weight(um + 1), "dr_pass"))

-----------------------------------------------------------------------------
(* Mutated: d is taken for a digit when it is not.                         *)
Mut_SetupValue == (2 ^ mp_count_bits(M) - M) % Radix

(* What m lacks of the power of two above it.                              *)
SetupValue == 2 ^ mp_count_bits(M) - M

mp_reduce_2k_setup ==
  /\ pc = "2k"
  /\ \/ Refuse("MEM", {"tmp"})
     \/ loc' = [d |-> SetupValue % Radix] /\ Goto("2k_pass")

mp_reduce_2k_setup_l ==
  /\ pc = "2k_l"
  /\ \/ Refuse("MEM", {"tmp"})
     \/ /\ Put(fr.d, SetupValue)
        /\ loc' = [d |-> SetupValue]
        /\ pc' = "2k_pass"
        /\ UNCHANGED << live, fr, err, old >>

(* x modulo the power, and d times what is above it.                       *)
reduce_2k_pass ==
  /\ pc = "2k_pass"
  /\ LET power == 2 ^ mp_count_bits(M)
         sum == (X % power) + (X \div power) * loc.d
     IN  \/ \E n \in {X, X % power} \cup (IF sum < M THEN {} ELSE {sum}) : FailWith(n, {"q"})
         \/ sum < M /\ Put(fr.x, sum) /\ Return("OKAY", {"q"})
         \/ /\ sum >= M
            /\ Put(fr.x, sum - M)
            /\ live' = {"q"}
            /\ UNCHANGED << loc, pc, fr, err, old >>

ReduceNext ==
  \/ mp_reduce_setup \/ reduce_quotient \/ reduce_rest \/ reduce_back
  \/ mp_montgomery_setup \/ mp_montgomery_reduce \/ montgomery_row \/ montgomery_shift
  \/ s_mp_montgomery_reduce_comba \/ montgomery_column \/ montgomery_carry \/ montgomery_sub
  \/ mp_montgomery_calc_normalization \/ normalization_double \/ normalization_end
  \/ mp_dr_setup \/ dr_pass \/ dr_compare
  \/ mp_reduce_2k_setup \/ mp_reduce_2k_setup_l \/ reduce_2k_pass

-----------------------------------------------------------------------------
(* Every reduction leaves the residue its name promises: Montgomery's that *)
(* of the quotient by the power of the radix, for digits above the number  *)
(* that are zero or a modulus whose columns fit; the others that of x.     *)
(* Montgomery's is refused for even moduli, Barrett's for zero and in a    *)
(* build without the routines for the upper half.  The normalization of a  *)
(* power of two, for which nothing has a use, is that power.               *)
ReductionCorrect ==
  LET n == val[fr.m]
      x == old[fr.x]
      length == Used(n)
  IN  /\ \A op \in {"barrett", "dr", "2k", "2k_l"} : Succeeded(op) => val[fr.x] = x % n
      /\ Succeeded("normalization") =>
           /\ (val[fr.x] - Weight(length)) % n = 0
           /\ val[fr.x] < n \/ (val[fr.x] = n /\ \E k \in 0 .. n : n = 2 ^ k)
      /\ Succeeded("montgomery") /\ (fr.above = 0 \/ 2 * length + 1 < MP_WARRAY) =>
           val[fr.x] \in 0 .. n - 1 /\ (val[fr.x] * Weight(length) - x) % n = 0
      /\ Succeeded("rho") => (fr.digit * loc.answer + 1) % 2 ^ fr.bits = 0
      /\ Done("montgomery") => (err = "VAL" <=> IsEven(n))
      /\ Done("barrett") /\ err = "VAL" => n = 0 \/ fr.high = "none"

(* The rows of Montgomery's reduction hold digits, its columns words.      *)
ReduceTypeOK ==
  /\ pc = "montgomery_rows" => \A i \in DOMAIN loc.t : loc.t[i] \in 0 .. Radix - 1
  /\ pc = "montgomery_columns" => \A i \in DOMAIN loc.W : loc.W[i] \in 0 .. 2 ^ MP_WORD_BIT - 1

(* Barrett's quotient is at most two too small; its product with mu asks   *)
(* for no column to the left of the first; the last carry of mp_dr_reduce  *)
(* is a digit, or the radix, from which the subtraction borrows; the       *)
(* columns of Montgomery's reduction are zero so far, and no carry leaves  *)
(* them unless there were digits above the number; the doublings are       *)
(* powers of two.                                                          *)
ReduceLoopInvariant ==
  /\ pc = "reduce" => Used(X \div Weight(um - 1)) <= um + 1
  /\ pc = "reduce_back" => X \in 0 .. 3 * M - 1
  /\ pc = "dr_compare" => X < Weight(um + 1) + M
  /\ pc = "montgomery_rows" =>
       (\A i \in 0 .. loc.ix - 1 : loc.t[i] = 0) /\ (loc.past => fr.above # 0)
  /\ pc = "montgomery_columns" => \A i \in 0 .. loc.ix - 1 : loc.W[i] % Radix = 0
  /\ pc = "doublings" => (X - 2 ^ ((um - 1) * MP_DIGIT_BIT + loc.k)) % M = 0

(* A reduction that fails leaves any number in place of x, and perhaps     *)
(* what the setup computed; never another modulus.                         *)
ReduceFailure ==
  \A s \in Ints :
    val[s] = old[s] \/ ("x" \in DOMAIN fr /\ s = fr.x) \/ ("d" \in DOMAIN fr /\ s = fr.d)
=============================================================================
