------------------------------- MODULE MpLogs -------------------------------
(***************************************************************************)
(* Logarithms to an integer base.  mp_log takes some answers from lengths, *)
(* otherwise it estimates the exponent from two logarithms to base two in  *)
(* fixed point, and corrects it against the powers of the base.  A product *)
(* too long for an mp_int is not always a failure here.                    *)
(***************************************************************************)
EXTENDS MpMul

(* small is whether mp_word is too small for the fixed point of the build, *)
(* limit stands for MP_MAX_DIGIT_COUNT.                                    *)
LogFrames ==
  [op : {"log"}, a : Ints, b : Ints, small : BOOLEAN, limit : Nat] \cup
  [op : {"log_n"}, a : Ints, base : Int, small : BOOLEAN, limit : Nat]

base == IF fr.op = "log" THEN B ELSE fr.base

MP_PRECISION_FIXED_LOG == MP_WORD_BIT \div 2 - 1
MP_UPPER_LIMIT_FIXED_LOG == MP_WORD_BIT - 1

(* Unless the build has numbers for it, an mp_word holds the logarithm of  *)
(* every number: its bits are counted in an int, which is no longer.       *)
ASSUME LogWordAssumption ==
  \A f \in Frames : f.op \in {"log", "log_n"} /\ ~ f.small =>
    \A v \in Contents(f) : \A n \in {v[f.a], IF f.op = "log" THEN v[f.b] ELSE f.base} :
      mp_count_bits(n) * 2 ^ MP_PRECISION_FIXED_LOG <= 2 ^ MP_WORD_BIT

Fixed(n) == IF fr.small THEN n ELSE Word(n)

(* The logarithm of x, which has at most a bit more than the precision: a  *)
(* bit of the fraction for every squaring.                                 *)
LogFraction(x) ==
  LET p == MP_PRECISION_FIXED_LOG
      L == mp_count_bits(x) - 1
      s[i \in 0 .. p] ==
        IF i = 0 THEN [a_bar |-> x * 2 ^ (p - L), L_out |-> L * 2 ^ p]
        ELSE LET square == Fixed(s[i - 1].a_bar * s[i - 1].a_bar) \div 2 ^ p
             IN  IF square < 2 ^ (p + 1) THEN [a_bar |-> square, L_out |-> s[i - 1].L_out]
                 ELSE [a_bar |-> square \div 2, L_out |-> s[i - 1].L_out + 2 ^ (p - i)]
  IN  s[p].L_out

(* Of a longer number only the first bits count.                           *)
s_mp_fp_log(n) ==
  LET shift == mp_count_bits(n) - 1 - MP_PRECISION_FIXED_LOG
  IN  IF shift > 0
      THEN Fixed(LogFraction(n \div 2 ^ shift) + shift * 2 ^ MP_PRECISION_FIXED_LOG)
      ELSE LogFraction(n)

s_approx_log(n, b) ==
  LET La == s_mp_fp_log(n)
      Lb == s_mp_fp_log(b)
  IN  Fixed(La - (Lb + 1) \div 2) \div Lb + 1

MP_IS_POWER_OF_TWO(n) == n > 0 /\ mp_count_bits(n) - 1 = mp_cnt_lsb(n)

LogTemporaries == {"b", "bn"}

-----------------------------------------------------------------------------
mp_log_n ==
  /\ pc = "log_n"
  /\ \/ Refuse("MEM", LogTemporaries)
     \/ /\ live' = {"b"}
        /\ pc' = "log"
        /\ UNCHANGED << val, loc, fr, err, old >>

(* The answers that need no power.                                         *)
log_shortcut ==
  /\ pc = "log"
  /\ \/ (A <= 0 \/ base < 2) /\ Refuse("VAL", LogTemporaries)
     \/ /\ A > 0 /\ base >= 2
        /\ LET fla == mp_count_bits(A) - 1
               flb == mp_count_bits(base) - 1
           IN  \/ /\ MP_IS_POWER_OF_TWO(base)
                  /\ Answer(fla \div mp_cnt_lsb(base), LogTemporaries)
               \/ /\ ~ MP_IS_POWER_OF_TWO(base)
                  /\ A <= base
                  /\ Answer(IF A = base THEN 1 ELSE 0, LogTemporaries)
               \/ /\ ~ MP_IS_POWER_OF_TWO(base)
                  /\ A > base /\ 2 * flb - 1 > fla
                  /\ Answer(1, LogTemporaries)

log_estimate ==
  /\ pc = "log"
  /\ A > base /\ base >= 2 /\ ~ MP_IS_POWER_OF_TWO(base)
  /\ 2 * (mp_count_bits(base) - 1) - 1 <= mp_count_bits(A) - 1
  /\ \/ Refuse("MEM", LogTemporaries)
     \/ /\ loc' = [n |-> s_approx_log(A, base), again |-> FALSE]
        /\ live' = live \cup {"bn"}
        /\ pc' = "log_power"
        /\ UNCHANGED << val, fr, err, old >>

(* The estimate may overshoot so far that the power is too long; one less  *)
(* is tried, once.                                                         *)
log_power ==
  /\ pc = "log_power"
  /\ LET power == Power(base, loc.n)
     IN  \/ Refuse("MEM", LogTemporaries)
         \/ /\ PerhapsTooLong(power) /\ ~ loc.again
            /\ loc' = [n |-> loc.n - 1, again |-> TRUE]
            /\ Goto("log_power")
         \/ /\ ~ TooLong(power)
            /\ loc' = [n |-> loc.n, bn |-> power]
            /\ Goto("log_correct")

(* Upwards until the number is reached, or the power is too long: then the *)
(* exponent stands.                                                        *)
log_up ==
  /\ pc = "log_correct" /\ loc.bn < A
  /\ LET power == loc.bn * base
     IN  \/ Refuse("MEM", LogTemporaries)
         \/ PerhapsTooLong(power) /\ Answer(loc.n, LogTemporaries)
         \/ /\ ~ TooLong(power) /\ power <= A
            /\ loc' = [n |-> loc.n + 1, bn |-> power]
            /\ Goto("log_correct")
         \/ ~ TooLong(power) /\ power > A /\ Answer(loc.n, LogTemporaries)

log_exact == pc = "log_correct" /\ loc.bn = A /\ Answer(loc.n, LogTemporaries)

(* Mutated: the exponent of the last power is given.                       *)
Mut_log_down ==
  /\ pc = "log_correct" /\ loc.bn > A
  /\ LET power == loc.bn \div base
     IN  \/ power > A /\ loc' = [n |-> loc.n - 1, bn |-> power] /\ Goto("log_correct")
         \/ power <= A /\ Answer(loc.n, LogTemporaries)

(* Downwards until the power is no longer above the number.                *)
log_down ==
  /\ pc = "log_correct" /\ loc.bn > A
  /\ LET power == loc.bn \div base
     IN  \/ Refuse("MEM", LogTemporaries)
         \/ power > A /\ loc' = [n |-> loc.n - 1, bn |-> power] /\ Goto("log_correct")
         \/ power <= A /\ Answer(loc.n - 1, LogTemporaries)

LogNext == mp_log_n \/ log_shortcut \/ log_estimate \/ log_power \/ log_up \/ log_exact \/ log_down

-----------------------------------------------------------------------------
(* mp_log and mp_log_n answer the greatest exponent whose power is not     *)
(* above the number, whatever the precision of the estimate; for a number  *)
(* that has almost as many digits as there can be, an exponent that may be *)
(* too small.  They refuse what has no logarithm, and nothing else.        *)
LogCorrect ==
  \A op \in {"log", "log_n"} :
    /\ Done(op) /\ err = "VAL" => A <= 0 \/ base < 2
    /\ Succeeded(op) =>
         /\ A > 0 /\ base >= 2
         /\ A \div Power(base, loc.answer) > 0
         /\ A \div Power(base, loc.answer) < base \/ PerhapsTooLong(A)

(* The estimate fits its word; it is at most two away from the logarithm,  *)
(* as a comment in mp_log has it.                                          *)
LogLoopInvariant ==
  /\ pc = "log_power" =>
       \A n \in {A, base} :
         LET bits == MinOf(mp_count_bits(n) - 1, MP_PRECISION_FIXED_LOG)
         IN  bits + MP_PRECISION_FIXED_LOG <= MP_UPPER_LIMIT_FIXED_LOG
  /\ pc = "log_power" /\ ~ loc.again =>
       \E k \in 0 .. mp_count_bits(A) :
         A \div Power(base, k) \in 1 .. base - 1 /\ loc.n \in k - 2 .. k + 2
  /\ pc = "log_correct" => loc.bn = Power(base, loc.n)
=============================================================================
