----------------------------- MODULE MpInverse -----------------------------
(***************************************************************************)
(* mp_invmod with its two binary algorithms and mp_exteuclid: one action   *)
(* per halving, subtraction, correction or division step.  Results are     *)
(* exchanged with the destinations at the end, which may be operands.      *)
(***************************************************************************)
EXTENDS MpCall

(* A build has s_mp_invmod_odd for odd moduli, or s_mp_invmod for all.     *)
InvmodFrames == [op : {"invmod"}, routine : {"odd", "plain"}, a : Ints, b : Ints, c : Ints]

(* Results that are asked for go to different structures.                  *)
ExteuclidFrames ==
  {f \in [op : {"exteuclid"}, a : Ints, b : Ints,
          U1 : Ints \cup {NULL}, U2 : Ints \cup {NULL}, U3 : Ints \cup {NULL}] :
     /\ f.U1 = f.U2 => f.U1 = NULL
     /\ f.U1 = f.U3 => f.U1 = NULL
     /\ f.U2 = f.U3 => f.U2 = NULL}

-----------------------------------------------------------------------------
(* The two trivial cases: a modulus of one is refused for negative a.      *)
mp_invmod ==
  /\ pc = "invmod"
  /\ \/ A >= 0 /\ B = 1 /\ Put(fr.c, 0) /\ Return("OKAY", {})
     \/ ~ (A >= 0 /\ B = 1) /\ B <= 1 /\ Refuse("VAL", {})

(* Which routine the modulus gets.                                         *)
Invertible(routine) ==
  /\ pc = "invmod" /\ B > 1
  /\ routine = IF fr.routine = "odd" /\ ~ IsEven(B) THEN "odd" ELSE "plain"

OddTemps == {"x", "y", "u", "v", "B", "D"}
PlainTemps == OddTemps \cup {"A", "C"}
InvTemps == IF loc.odd THEN OddTemps ELSE PlainTemps

(* s_mp_invmod_odd, the modulus in x: it keeps u = B * y and v = D * y,    *)
(* modulo x.  Zero has no inverse.                                         *)
invmod_odd_init ==
  /\ Invertible("odd")
  /\ \/ Refuse("MEM", {})
     \/ A % B = 0 /\ Refuse("VAL", OddTemps)
     \/ /\ A % B # 0
        /\ live' = OddTemps
        /\ loc' = [odd |-> TRUE, x |-> B, y |-> A % B, u |-> B, v |-> A % B,
                   A |-> 0, B |-> 0, C |-> 0, D |-> 1]
        /\ pc' = "inv_loop"
        /\ UNCHANGED << val, fr, err, old >>

(* s_mp_invmod, the modulus in y: it keeps u = A * x + B * y and v =       *)
(* C * x + D * y.                                                          *)
invmod_init ==
  /\ Invertible("plain")
  /\ \/ Refuse("MEM", {})
     \/ IsEven(A % B) /\ IsEven(B) /\ Refuse("VAL", PlainTemps)
     \/ /\ ~ (IsEven(A % B) /\ IsEven(B))
        /\ live' = PlainTemps
        /\ loc' = [odd |-> FALSE, x |-> A % B, y |-> B, u |-> A % B, v |-> B,
                   A |-> 1, B |-> 0, C |-> 0, D |-> 1]
        /\ pc' = "inv_loop"
        /\ UNCHANGED << val, fr, err, old >>

(* In s_mp_invmod_odd the first coefficient is not kept.                   *)
OddCoefficient(p, q) == ~ IsEven(q) \/ (~ loc.odd /\ ~ IsEven(p))

(* Mutated: the modulus is added to the second coefficient.                *)
Mut_Halved(p, q) ==
  IF OddCoefficient(p, q) THEN << (p + loc.y) \div 2, (q + loc.x) \div 2 >>
  ELSE << p \div 2, q \div 2 >>

(* The coefficients p, q of a number that is halved.                       *)
Halved(p, q) ==
  IF OddCoefficient(p, q) THEN << IF loc.odd THEN 0 ELSE (p + loc.y) \div 2, (q - loc.x) \div 2 >>
  ELSE << p \div 2, q \div 2 >>

(* Only the additions to the coefficients can need memory.                 *)
inv_halve_u ==
  /\ pc = "inv_loop" /\ IsEven(loc.u)
  /\ \/ OddCoefficient(loc.A, loc.B) /\ Refuse("MEM", InvTemps)
     \/ LET h == Halved(loc.A, loc.B)
        IN  loc' = [loc EXCEPT !.u = @ \div 2, !.A = h[1], !.B = h[2]] /\ Goto("inv_loop")

inv_halve_v ==
  /\ pc = "inv_loop" /\ ~ IsEven(loc.u) /\ IsEven(loc.v)
  /\ \/ OddCoefficient(loc.C, loc.D) /\ Refuse("MEM", InvTemps)
     \/ LET h == Halved(loc.C, loc.D)
        IN  loc' = [loc EXCEPT !.v = @ \div 2, !.C = h[1], !.D = h[2]] /\ Goto("inv_loop")

inv_subtract ==
  /\ pc = "inv_loop" /\ ~ IsEven(loc.u) /\ ~ IsEven(loc.v)
  /\ \/ Refuse("MEM", InvTemps)
     \/ /\ loc.u >= loc.v
        /\ loc' = [loc EXCEPT !.u = @ - loc.v, !.A = @ - loc.C, !.B = @ - loc.D]
        /\ Goto(IF loc.u = loc.v THEN "inv_end" ELSE "inv_loop")
     \/ /\ loc.u < loc.v
        /\ loc' = [loc EXCEPT !.v = @ - loc.u, !.C = @ - loc.A, !.D = @ - loc.B]
        /\ Goto("inv_loop")

(* The coefficient that is the inverse, brought into 0 .. b - 1.           *)
Coefficient == IF loc.odd THEN loc.D ELSE loc.C

(* Mutated: the greatest common divisor is not looked at.                  *)
Mut_inv_end ==
  pc = "inv_end" /\ UNCHANGED loc /\ Goto("inv_correct")

inv_end ==
  /\ pc = "inv_end"
  /\ \/ loc.v # 1 /\ Refuse("VAL", InvTemps)
     \/ /\ loc.v = 1
        /\ UNCHANGED loc /\ Goto("inv_correct")

inv_correct ==
  /\ pc = "inv_correct"
  /\ LET Corrected(n) == IF loc.odd THEN [loc EXCEPT !.D = n] ELSE [loc EXCEPT !.C = n]
     IN  \/ ~ Coefficient \in 0 .. B - 1 /\ Refuse("MEM", InvTemps)
         \/ Coefficient < 0 /\ loc' = Corrected(Coefficient + B) /\ Goto("inv_correct")
         \/ Coefficient >= B /\ loc' = Corrected(Coefficient - B) /\ Goto("inv_correct")
         \/ Coefficient \in 0 .. B - 1 /\ Put(fr.c, Coefficient) /\ Return("OKAY", InvTemps)

-----------------------------------------------------------------------------
EuclidTemps == {"u1", "u2", "u3", "v1", "v2", "v3", "t1", "t2", "t3", "q", "tmp"}

mp_exteuclid ==
  /\ pc = "exteuclid"
  /\ \/ Refuse("MEM", EuclidTemps)
     \/ /\ live' = EuclidTemps
        /\ loc' = [u1 |-> 1, u2 |-> 0, u3 |-> A, v1 |-> 0, v2 |-> 1, v3 |-> B]
        /\ pc' = "euclid_loop"
        /\ UNCHANGED << val, fr, err, old >>

euclid_step ==
  /\ pc = "euclid_loop" /\ loc.v3 # 0
  /\ \/ Refuse("MEM", EuclidTemps)
     \/ LET q == Quotient(loc.u3, loc.v3)
        IN  /\ loc' = [u1 |-> loc.v1, u2 |-> loc.v2, u3 |-> loc.v3,
                       v1 |-> loc.u1 - loc.v1 * q, v2 |-> loc.u2 - loc.v2 * q,
                       v3 |-> loc.u3 - loc.v3 * q]
            /\ Goto("euclid_loop")

(* Mutated: the sign of the divisor is made positive without those of its  *)
(* coefficients.                                                           *)
Mut_euclid_end ==
  /\ pc = "euclid_loop" /\ loc.v3 = 0
  /\ val' = [x \in Ints |-> IF x = fr.U3 THEN Magnitude(loc.u3) ELSE IF x = fr.U2 THEN loc.u2
                            ELSE IF x = fr.U1 THEN loc.u1 ELSE val[x]]
  /\ Return("OKAY", EuclidTemps)

(* The signs are changed in place, which cannot fail.                      *)
euclid_end ==
  /\ pc = "euclid_loop" /\ loc.v3 = 0
  /\ LET s == Sgn(loc.u3)
     IN  val' = [x \in Ints |-> IF x = fr.U3 THEN s * loc.u3 ELSE IF x = fr.U2 THEN s * loc.u2
                                ELSE IF x = fr.U1 THEN s * loc.u1 ELSE val[x]]
  /\ Return("OKAY", EuclidTemps)

InverseNext ==
  \/ mp_invmod \/ invmod_odd_init \/ invmod_init
  \/ inv_halve_u \/ inv_halve_v \/ inv_subtract \/ inv_end \/ inv_correct
  \/ mp_exteuclid \/ euclid_step \/ euclid_end

-----------------------------------------------------------------------------
(* mp_invmod leaves the inverse, between zero and the modulus, in a        *)
(* destination that may be the operand or the modulus; it refuses exactly  *)
(* the operands without an inverse, moduli below one, and negative numbers *)
(* modulo one.                                                             *)
InvmodCorrect ==
  LET a == old[fr.a]
      b == old[fr.b]
  IN  /\ Succeeded("invmod") => val[fr.c] \in 0 .. b - 1 /\ (a * val[fr.c] - 1) % b = 0
      /\ Done("invmod") /\ err # "MEM" =>
           (err = "VAL" <=> b < 1 \/ (b = 1 /\ a < 0) \/ ~ IsGcd(1, a, b))

(* The comment on mp_exteuclid, a*u1 + b*u2 = u3: what it leaves is a      *)
(* linear combination of its operands, and u3 their greatest common        *)
(* divisor, whichever of the three it is asked for.                        *)
ExteuclidCorrect ==
  LET a == old[fr.a]
      b == old[fr.b]
  IN  Succeeded("exteuclid") =>
        /\ fr.U3 # NULL => IsGcd(val[fr.U3], a, b)
        /\ NULL \notin {fr.U1, fr.U2} =>
             IsGcd(a * val[fr.U1] + b * val[fr.U2], a, b)

(* The call that does not return: s_mp_invmod, in a build that has no      *)
(* s_mp_invmod_odd, given a multiple of an odd modulus, halves u = 0.      *)
HalvesZero ==
  fr.op = "invmod" /\ fr.routine = "plain"
    /\ old[fr.b] > 1 /\ ~ IsEven(old[fr.b]) /\ old[fr.a] % old[fr.b] = 0

(* The linear combinations the loops keep; when they end, the inverse is   *)
(* less than two moduli from zero, in either direction: a few rounds of    *)
(* the last loops are enough.                                              *)
InverseLoopInvariant ==
  /\ pc \in {"inv_loop", "inv_end", "inv_correct"} =>
       /\ loc.v > 0 /\ loc.u >= 0
       /\ IF loc.odd
          THEN (loc.u - loc.B * loc.y) % loc.x = 0 /\ (loc.v - loc.D * loc.y) % loc.x = 0
          ELSE loc.u = loc.A * loc.x + loc.B * loc.y
               /\ (pc # "inv_correct" => loc.v = loc.C * loc.x + loc.D * loc.y)
  /\ pc = "inv_correct" => Coefficient \in 1 - 2 * B .. 2 * B - 1
  /\ pc = "euclid_loop" =>
       /\ loc.u3 = old[fr.a] * loc.u1 + old[fr.b] * loc.u2
       /\ loc.v3 = old[fr.a] * loc.v1 + old[fr.b] * loc.v2
=============================================================================
