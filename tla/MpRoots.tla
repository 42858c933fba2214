------------------------------ MODULE MpRoots ------------------------------
(***************************************************************************)
(* mp_sqrt and mp_root_n: Newton's iteration on truncated integers, one    *)
(* action per round.  The destination may be the operand.                  *)
(***************************************************************************)
EXTENDS MpCall

(* The order n of a root is a C int.  It is not zero: mp_root_n does not   *)
(* refuse that, and divides by it.                                         *)
RootFrames ==
  [op : {"sqrt"}, a : Ints, c : Ints] \cup
  [op : {"root"}, a : Ints, n : Int \ {0}, c : Ints]

-----------------------------------------------------------------------------
SqrtTemps == {"t1", "t2"}

(* If the second temporary fails the first is cleared.                     *)
mp_sqrt ==
  /\ pc = "sqrt"
  /\ \/ A < 0 /\ Refuse("VAL", {})
     \/ A = 0 /\ Put(fr.c, 0) /\ Return("OKAY", {})
     \/ A > 0 /\ Refuse("MEM", {})
     \/ /\ A > 0
        /\ live' = SqrtTemps
        /\ loc' = [t1 |-> A \div Weight(Used(A) \div 2), t2 |-> 0]
        /\ pc' = "sqrt_first"
        /\ UNCHANGED << val, fr, err, old >>

(* The mean of t1 and the quotient of the operand by it.                   *)
Mean == (loc.t1 + A \div loc.t1) \div 2

sqrt_first ==
  /\ pc = "sqrt_first"
  /\ \/ Refuse("MEM", SqrtTemps)
     \/ loc' = [t1 |-> Mean, t2 |-> A \div loc.t1] /\ Goto("sqrt_loop")

(* Mutated: the loop ends when the number no longer changes.               *)
Mut_sqrt_settles ==
  /\ pc = "sqrt_loop"
  /\ \/ Mean # loc.t1 /\ loc' = [t1 |-> Mean, t2 |-> A \div loc.t1] /\ Goto("sqrt_loop")
     \/ Mean = loc.t1 /\ Put(fr.c, Mean) /\ Return("OKAY", SqrtTemps)

sqrt_round ==
  /\ pc = "sqrt_loop"
  /\ LET t2 == A \div loc.t1
     IN  \/ Refuse("MEM", SqrtTemps)
         \/ Mean > t2 /\ loc' = [t1 |-> Mean, t2 |-> t2] /\ Goto("sqrt_loop")
         \/ Mean <= t2 /\ Put(fr.c, Mean) /\ Return("OKAY", SqrtTemps)

-----------------------------------------------------------------------------
RootTemps == {"t1", "t2", "t3"}

(* The destination gets a positive number, then the sign the operand has   *)
(* by that time.                                                           *)
SignedRoot(r) == IF fr.c = fr.a THEN r ELSE Sgn(A) * r

(* Mutated: the seed is the power of two below the root.                   *)
Mut_mp_root_n ==
  /\ pc = "root"
  /\ fr.n \in 1 .. MP_DIGIT_MAX /\ (fr.n % 2 = 1 \/ A > 0) /\ mp_count_bits(A) >= fr.n
  /\ live' = RootTemps
  /\ LET ilog2 == mp_count_bits(A) \div fr.n
     IN  loc' = [t1 |-> 0, t2 |-> 2 ^ ilog2, ilog2 |-> ilog2]
  /\ pc' = "newton"
  /\ UNCHANGED << val, fr, err, old >>

mp_root_n ==
  /\ pc = "root"
  /\ LET bits == mp_count_bits(A)
         refused == fr.n < 0 \/ fr.n > MP_DIGIT_MAX \/ (fr.n % 2 = 0 /\ A < 0)
         ilog2 == bits \div fr.n + 2
     IN  \/ refused /\ Refuse("VAL", {})
         \/ ~ refused /\ Refuse("MEM", {})
         \/ /\ ~ refused /\ bits < fr.n
            /\ Put(fr.c, SignedRoot(1)) /\ Return("OKAY", RootTemps)
         \/ /\ ~ refused /\ bits >= fr.n
            /\ live' = RootTemps
            /\ loc' = [t1 |-> 0, t2 |-> 2 ^ ilog2, ilog2 |-> ilog2]
            /\ pc' = "newton"
            /\ UNCHANGED << val, fr, err, old >>

(* One round, which is the last when nothing changes or when as many       *)
(* rounds have been made as the root has bits.                             *)
root_newton ==
  /\ pc = "newton"
  /\ \/ Refuse("MEM", RootTemps)
     \/ LET t3 == Power(loc.t2, fr.n - 1)
            t2 == loc.t2 - Quotient(t3 * loc.t2 - Magnitude(A), t3 * fr.n)
        IN  /\ loc' = [t1 |-> loc.t2, t2 |-> t2, ilog2 |-> loc.ilog2 - 1]
            /\ Goto(IF loc.ilog2 = 0 \/ loc.t2 = t2 THEN "up" ELSE "newton")

(* t1 is raised while its power is too small; if that is the operand the   *)
(* function ends there.                                                    *)
root_up ==
  /\ pc = "up"
  /\ LET p == Power(loc.t1, fr.n)
         a == Magnitude(A)
     IN  \/ Refuse("MEM", RootTemps)
         \/ p = a /\ Refuse("OKAY", RootTemps)
         \/ p < a /\ loc' = [loc EXCEPT !.t1 = @ + 1] /\ Goto("up")
         \/ p > a /\ UNCHANGED loc /\ Goto("down")

(* Mutated: there is no correction downwards.                              *)
Mut_root_down ==
  /\ pc = "down"
  /\ Put(fr.c, SignedRoot(loc.t1)) /\ Return("OKAY", RootTemps)

root_down ==
  /\ pc = "down"
  /\ LET p == Power(loc.t1, fr.n)
         a == Magnitude(A)
     IN  \/ Refuse("MEM", RootTemps)
         \/ p > a /\ loc' = [loc EXCEPT !.t1 = @ - 1] /\ Goto("down")
         \/ p <= a /\ Put(fr.c, SignedRoot(loc.t1)) /\ Return("OKAY", RootTemps)

RootNext ==
  \/ mp_sqrt \/ sqrt_first \/ sqrt_round
  \/ mp_root_n \/ root_newton \/ root_up \/ root_down

-----------------------------------------------------------------------------
(* r is the root of order n of m, rounded towards zero.                    *)
IsRoot(r, m, n) ==
  /\ Power(Magnitude(r), n) <= Magnitude(m)
  /\ Power(Magnitude(r) + 1, n) > Magnitude(m)
  /\ r # 0 => Sgn(r) = Sgn(m)

(* mp_sqrt returns the largest integer whose square is not larger than the *)
(* operand, in place too.                                                  *)
SqrtCorrect == Succeeded("sqrt") => IsRoot(val[fr.c], old[fr.a], 2)

(* The comment on mp_root_n, "Result found such that (c)**b <= a and       *)
(* (c+1)**b > a", and the manual, which gives an odd root the sign of the  *)
(* operand and allows it to replace the operand.                           *)
RootAsDocumented == Succeeded("root") => IsRoot(val[fr.c], old[fr.a], fr.n)

(* So it is, but for three cases: the operand zero, of which the root is   *)
(* given as one; the first root, which is not stored; and a negative       *)
(* operand replaced by its root, which loses its sign.                     *)
RootCorrect ==
  fr.op = "root" /\ fr.n > 1 /\ old[fr.a] # 0 /\ (fr.c = fr.a => old[fr.a] > 0) => RootAsDocumented

(* Newton's rounds come down to the root from above and, the order being   *)
(* two or more, never reach it: the exit of the correction upwards that    *)
(* leaves c unwritten is not taken.  Those of mp_sqrt never go below it.   *)
RootsLoopInvariant ==
  /\ pc = "newton" => Power(loc.t2, fr.n) >= Magnitude(A)
  /\ pc = "up" /\ fr.n > 1 => Power(loc.t1, fr.n) > Magnitude(A)
  /\ pc = "sqrt_loop" => (loc.t1 + 1) * (loc.t1 + 1) > A /\ loc.t1 > 0
=============================================================================
