------------------------------- MODULE MpDiv -------------------------------
(***************************************************************************)
(* mp_div with s_mp_div_school, which estimates each digit of the quotient *)
(* from the leading digits and corrects it, and with s_mp_div_small, which *)
(* takes its place in builds without it.  Quotient and remainder may be    *)
(* the operands.  A non-negative integer stands for its digits, which      *)
(* Digit and Used read.                                                    *)
(***************************************************************************)
EXTENDS MpCall

(* Quotient and remainder are different structures, or not asked for.      *)
DivFrames ==
  {f \in [op : {"div"}, routine : {"school", "small"}, a : Ints, b : Ints,
          c : Ints \cup {NULL}, d : Ints \cup {NULL}] : f.c = f.d => f.c = NULL}

MP_MASK == Radix - 1

(* The number the digits of the quotient make.                             *)
NumberOf(q) ==
  LET v[k \in 0 .. Cardinality(DOMAIN q)] ==
        IF k = 0 THEN 0 ELSE v[k - 1] + q[k - 1] * Weight(k - 1)
  IN  v[Cardinality(DOMAIN q)]

(* The quotient is stored first, then the remainder.                       *)
Results(quotient, remainder) ==
  val' = [x \in Ints |-> IF x = fr.d THEN remainder ELSE IF x = fr.c THEN quotient ELSE val[x]]

-----------------------------------------------------------------------------
mp_div_refused == pc = "div" /\ B = 0 /\ Refuse("VAL", {})

(* A dividend smaller than the divisor is the remainder: it is copied.     *)
mp_div_smaller ==
  /\ pc = "div" /\ B # 0
  /\ Magnitude(A) < Magnitude(B)
  /\ \/ Results(0, A) /\ Return("OKAY", {})
     \/ fr.d \notin {NULL, fr.a} /\ Refuse("MEM", {})

Divisible == pc = "div" /\ B # 0 /\ Magnitude(A) >= Magnitude(B)

-----------------------------------------------------------------------------
(* s_mp_div_school.  The labels at its end clear, falling through, the     *)
(* temporaries initialised before the jump.                                *)
LBL_Q  == {"q"}
LBL_T1 == {"t1"} \cup LBL_Q
LBL_T2 == {"t2"} \cup LBL_T1
LBL_X  == {"x"} \cup LBL_T2
LBL_Y  == {"y"} \cup LBL_X

(* Mutated: each jump goes to the label one below.                         *)
Mut_InitFails ==
  live' \in {{}, {"q"}, {"q", "t1"} \ LBL_Q, {"q", "t1", "t2"} \ LBL_T1,
             {"q", "t1", "t2", "x"} \ LBL_T2}

(* Which temporaries stay when an initialisation has failed.               *)
InitFails ==
  live' \in {{}, {"q"} \ LBL_Q, {"q", "t1"} \ LBL_T1, {"q", "t1", "t2"} \ LBL_T2,
             {"q", "t1", "t2", "x"} \ LBL_X}

school_init ==
  /\ Divisible /\ fr.routine = "school"
  /\ \/ /\ InitFails
        /\ pc' = "done" /\ err' = "MEM"
        /\ UNCHANGED << val, loc, fr, old >>
     \/ /\ live' = {"q", "t1", "t2", "x", "y"}
        /\ loc' = [x |-> Magnitude(A), y |-> Magnitude(B), n |-> 0, t |-> 0, i |-> 0, norm |-> 0,
                   q |-> [i \in 0 .. Used(A) + 1 |-> 0]]
        /\ pc' = "normalise"
        /\ UNCHANGED << val, fr, err, old >>

(* x and y are shifted until the leading digit of y has one bit less than  *)
(* a digit can have (the comment on this code says: until it is at least   *)
(* half the radix); then y is moved up below the leading digit of x.       *)
school_normalise ==
  /\ pc = "normalise"
  /\ LET bits == mp_count_bits(loc.y) % MP_DIGIT_BIT
         norm == IF bits < MP_DIGIT_BIT - 1 THEN MP_DIGIT_BIT - 1 - bits ELSE 0
         x == loc.x * 2 ^ norm
         y == loc.y * 2 ^ norm
         n == Used(x) - 1
         t == Used(y) - 1
     IN  \/ /\ loc' = [loc EXCEPT !.x = x, !.y = y * Weight(n - t), !.n = n, !.t = t, !.norm = norm]
            /\ Goto("top")
         \/ (norm > 0 \/ n > t) /\ Refuse("MEM", LBL_Y)

(* The leading digit of the quotient is counted; y is moved back.          *)
school_top ==
  /\ pc = "top"
  /\ \/ /\ loc.x >= loc.y
        /\ loc' = [loc EXCEPT !.q[loc.n - loc.t] = @ + 1, !.x = @ - loc.y]
        /\ Goto("top")
     \/ /\ loc.x < loc.y
        /\ loc' = [loc EXCEPT !.y = @ \div Weight(loc.n - loc.t), !.i = loc.n]
        /\ Goto("estimate")

(* The place of the quotient digit at hand.                                *)
Place == loc.i - loc.t - 1

(* Mutated: a leading digit equal to that of the divisor is divided too,   *)
(* and the quotient masked instead of cut off.                             *)
Mut_Estimate ==
  ((Digit(loc.x, loc.i) * Radix + Digit(loc.x, loc.i - 1)) \div Digit(loc.y, loc.t)) % Radix

Estimate ==
  IF Digit(loc.x, loc.i) = Digit(loc.y, loc.t) THEN MP_MASK
  ELSE MinOf((Digit(loc.x, loc.i) * Radix + Digit(loc.x, loc.i - 1)) \div Digit(loc.y, loc.t),
             MP_MASK)

school_estimate ==
  /\ pc = "estimate" /\ loc.i >= loc.t + 1
  /\ \/ /\ loc.i > Used(loc.x)
        /\ loc' = [loc EXCEPT !.i = @ - 1]
        /\ Goto("estimate")
     \/ /\ loc.i <= Used(loc.x)
        /\ loc' = [loc EXCEPT !.q[Place] = Estimate]
        /\ Goto("correct")

(* The two leading digits of y times the quotient digit against the three  *)
(* of x.  The three count as three even if the first is zero, so that a    *)
(* shorter product is never found too large.                               *)
TooLarge ==
  LET t1 == loc.q[Place] * (Digit(loc.y, loc.t) * Radix + Digit(loc.y, loc.t - 1))
      t2 == (Digit(loc.x, loc.i) * Radix + Digit(loc.x, loc.i - 1)) * Radix
              + Digit(loc.x, loc.i - 2)
  IN  Used(t1) >= 3 /\ t1 > t2

school_correct ==
  /\ pc = "correct"
  /\ \/ /\ TooLarge
        /\ loc' = [loc EXCEPT !.q[Place] = (@ - 1) % Radix]
        /\ Goto("correct")
     \/ ~ TooLarge /\ UNCHANGED loc /\ Goto("subtract")

(* Mutated: y is never added back.                                         *)
Mut_no_add_back ==
  /\ pc = "subtract"
  /\ loc' = [loc EXCEPT !.x = @ - loc.q[Place] * loc.y * Weight(Place), !.i = @ - 1]
  /\ Goto("estimate")

school_subtract ==
  /\ pc = "subtract"
  /\ LET y == loc.y * Weight(Place)
         x == loc.x - loc.q[Place] * y
     IN  \/ /\ x >= 0
            /\ loc' = [loc EXCEPT !.x = x, !.i = @ - 1]
            /\ Goto("estimate")
         \/ /\ x < 0
            /\ loc' = [loc EXCEPT !.x = x + y, !.i = @ - 1, !.q[Place] = (@ - 1) % Radix]
            /\ Goto("estimate")
         \/ Refuse("MEM", LBL_Y)

(* Mutated: the sign of the remainder is taken after the quotient has been *)
(* stored.                                                                 *)
Mut_school_end ==
  /\ pc = "estimate" /\ loc.i < loc.t + 1
  /\ LET q == Sgn(A) * Sgn(B) * NumberOf(loc.q)
     IN  Results(q, Sgn(IF fr.a = fr.c THEN q ELSE A) * (loc.x \div 2 ^ loc.norm))
  /\ Return("OKAY", LBL_Y)

school_end ==
  /\ pc = "estimate" /\ loc.i < loc.t + 1
  /\ Results(Sgn(A) * Sgn(B) * NumberOf(loc.q), Sgn(A) * (loc.x \div 2 ^ loc.norm))
  /\ Return("OKAY", LBL_Y)

-----------------------------------------------------------------------------
(* s_mp_div_small, a bit of the quotient at a time: n + 1 of them.         *)
SmallTemps == {"ta", "tb", "tq", "q"}

small_init ==
  /\ Divisible /\ fr.routine = "small"
  /\ \/ Refuse("MEM", {})
     \/ /\ live' = SmallTemps
        /\ LET n == mp_count_bits(A) - mp_count_bits(B)
           IN  loc' = [ta |-> Magnitude(A), tb |-> Magnitude(B) * 2 ^ n, tq |-> 2 ^ n, q |-> 0, n |-> n]
        /\ pc' = "small_loop"
        /\ UNCHANGED << val, fr, err, old >>

small_round ==
  /\ pc = "small_loop" /\ loc.n >= 0
  /\ LET fits == loc.tb <= loc.ta
     IN  \/ /\ loc' = [loc EXCEPT !.ta = IF fits THEN @ - loc.tb ELSE @,
                                   !.q = IF fits THEN @ + loc.tq ELSE @,
                                   !.tb = @ \div 2, !.tq = @ \div 2, !.n = @ - 1]
            /\ Goto("small_loop")
         \/ fits /\ Refuse("MEM", SmallTemps)

(* The sign of the remainder is read from a when c has been written and    *)
(* the remainder, still without a sign, put into d.                        *)
small_end ==
  /\ pc = "small_loop" /\ loc.n < 0
  /\ LET q == Sgn(A) * Sgn(B) * loc.q
         a == IF fr.a = fr.d THEN loc.ta ELSE IF fr.a = fr.c THEN q ELSE A
     IN  Results(q, Sgn(a) * loc.ta)
  /\ Return("OKAY", SmallTemps)

DivNext ==
  \/ mp_div_refused \/ mp_div_smaller
  \/ school_init \/ school_normalise \/ school_top
  \/ school_estimate \/ school_correct \/ school_subtract \/ school_end
  \/ small_init \/ small_round \/ small_end

-----------------------------------------------------------------------------
DivTypeOK ==
  /\ pc \in {"top", "estimate", "correct", "subtract"} =>
       loc.x \in Nat /\ \A k \in DOMAIN loc.q : loc.q[k] \in 0 .. MP_MASK
  /\ pc = "small_loop" => loc.ta \in Nat /\ loc.tb \in Nat

Dividend == old[fr.a]
Divisor == old[fr.b]

(* The comment on s_mp_div_school, c*b + d == a, with the remainder of the *)
(* sign of the dividend and smaller than the divisor: the results of a     *)
(* call that succeeds, operands replaced or not.                           *)
Divided ==
  LET q == Quotient(Dividend, Divisor)
  IN  Succeeded("div") =>
        /\ fr.c # NULL => val[fr.c] = q
        /\ fr.d # NULL => val[fr.d] = Dividend - q * Divisor

(* They are right but for s_mp_div_small storing a result over its         *)
(* dividend, where the sign it reads there afterwards is another one: that *)
(* of the quotient by a negative divisor; that of the remainder of a       *)
(* negative dividend.                                                      *)
SignLost ==
  /\ fr.routine = "small"
  /\ \/ fr.c = fr.a /\ fr.d # NULL /\ Divisor < 0
     \/ fr.d = fr.a /\ Dividend < 0

DivCorrect == fr.op = "div" /\ ~ SignLost => Divided

(* Between the digits: what has been counted of the quotient and what is   *)
(* left of the dividend make the dividend, scaled; what is left is too     *)
(* small for another unit of the digit before.                             *)
DivLoopInvariant ==
  /\ pc = "estimate" =>
       LET a == Magnitude(Dividend) * 2 ^ loc.norm
           b == Magnitude(Divisor) * 2 ^ loc.norm
       IN  /\ loc.y = b
           /\ a = NumberOf(loc.q) * b + loc.x
           /\ loc.x < b * Weight(loc.i - loc.t)
  /\ pc = "small_loop" =>
       /\ Magnitude(Dividend) = loc.q * Magnitude(Divisor) + loc.ta
       /\ loc.n >= 0 => loc.ta < 2 * loc.tb

(* The estimate is never below the true digit, so that the decrements, all *)
(* modulo the radix, stop at or above it; and the one addition of the      *)
(* divisor makes up for what they leave.                                   *)
EstimateClose ==
  pc \in {"correct", "subtract"} =>
    LET digit == loc.x \div (loc.y * Weight(Place))
    IN  /\ digit <= loc.q[Place]
        /\ pc = "subtract" => loc.q[Place] <= digit + 1
=============================================================================
