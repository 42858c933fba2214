------------------------------- MODULE MpGcd -------------------------------
(***************************************************************************)
(* mp_gcd, the binary algorithm, and mp_lcm, which calls it: one action    *)
(* per stretch of code between two points where an allocation may fail.    *)
(***************************************************************************)
EXTENDS MpCall

GcdFrames == [op : {"gcd", "lcm"}, a : Ints, b : Ints, c : Ints]

(* The locals of both functions.                                           *)
GcdLocals(u, v) == [u |-> u, v |-> v, k |-> 0, t1 |-> 0, t2 |-> 0]

(* mp_gcd returns: to the client, or to mp_lcm, which has passed its own   *)
(* temporary t1 as the destination.                                        *)
GcdReturn(code, cleared) ==
  IF fr.op = "gcd" THEN Refuse(code, cleared)
  ELSE /\ pc' = "lcm_div" /\ err' = code /\ live' = live \ cleared
       /\ UNCHANGED << val, loc, fr, old >>

GcdResult(n, code, cleared) ==
  IF fr.op = "gcd" THEN Put(fr.c, n) /\ Return(code, cleared)
  ELSE /\ loc' = [loc EXCEPT !.t1 = n]
       /\ pc' = "lcm_div" /\ err' = code /\ live' = live \ cleared
       /\ UNCHANGED << val, fr, old >>

-----------------------------------------------------------------------------
(* Mutated: the destination is cleared before mp_abs can fail.             *)
Mut_gcd_of_zero ==
  /\ pc = "gcd"
  /\ A = 0 \/ B = 0
  /\ \/ GcdResult(Magnitude(A + B), "OKAY", {})
     \/ GcdResult(0, "MEM", {})

(* If an operand is zero, mp_abs of the other, in place if that is c.      *)
gcd_of_zero ==
  /\ pc = "gcd"
  /\ A = 0 \/ B = 0
  /\ LET x == IF A = 0 THEN fr.b ELSE fr.a
     IN  \/ GcdResult(Magnitude(val[x]), "OKAY", {})
         \/ ~ (fr.op = "gcd" /\ fr.c = x) /\ GcdReturn("MEM", {})

gcd_init_u ==
  /\ pc = "gcd"
  /\ A # 0 /\ B # 0
  /\ \/ GcdReturn("MEM", {})
     \/ /\ live' = live \cup {"u"}
        /\ pc' = "gcd_init_v"
        /\ UNCHANGED << val, loc, fr, err, old >>

(* If v cannot be initialised, the code clears v.                          *)
gcd_init_v ==
  /\ pc = "gcd_init_v"
  /\ \/ GcdReturn("MEM", {"v"})
     \/ /\ live' = live \cup {"v"}
        /\ loc' = GcdLocals(Magnitude(A), Magnitude(B))
        /\ pc' = "gcd_halve"
        /\ UNCHANGED << val, fr, err, old >>

(* The common factors of two are counted, all of them divided out, in      *)
(* place: nothing here allocates.                                          *)
gcd_halve ==
  /\ pc = "gcd_halve"
  /\ LET u_lsb == mp_cnt_lsb(loc.u)
         v_lsb == mp_cnt_lsb(loc.v)
         k == MinOf(u_lsb, v_lsb)
     IN  loc' = [loc EXCEPT !.u = (@ \div 2 ^ k) \div 2 ^ (u_lsb - k),
                            !.v = (@ \div 2 ^ k) \div 2 ^ (v_lsb - k), !.k = k]
  /\ Goto("gcd_loop")

(* One iteration, the larger in v: it subtracts and shifts in place.       *)
gcd_step ==
  /\ pc = "gcd_loop" /\ loc.v # 0
  /\ LET u == MinOf(loc.u, loc.v)
         v == loc.u + loc.v - u
         w == v - u
     IN  loc' = [loc EXCEPT !.u = u, !.v = w \div 2 ^ mp_cnt_lsb(w)]
  /\ Goto("gcd_loop")

(* Mutated: the common power of two is forgotten.                          *)
Mut_gcd_end ==
  /\ pc = "gcd_loop" /\ loc.v = 0
  /\ GcdResult(loc.u, "OKAY", {"u", "v"})

(* mp_mul_2d(&u, k, c), which copies before it grows c again.              *)
gcd_end ==
  /\ pc = "gcd_loop" /\ loc.v = 0
  /\ \/ GcdResult(loc.u * 2 ^ loc.k, "OKAY", {"u", "v"})
     \/ GcdResult(loc.u, "MEM", {"u", "v"})
     \/ GcdReturn("MEM", {"u", "v"})

-----------------------------------------------------------------------------
LcmTemps == {"t1", "t2"}

lcm_init ==
  /\ pc = "lcm"
  /\ \/ Refuse("MEM", {})
     \/ /\ live' = LcmTemps
        /\ loc' = GcdLocals(0, 0)
        /\ pc' = "gcd"
        /\ UNCHANGED << val, fr, err, old >>

(* The smaller operand is divided by the gcd, ...                          *)
Smaller == IF Magnitude(A) < Magnitude(B) THEN A ELSE B
Larger == IF Magnitude(A) < Magnitude(B) THEN B ELSE A

lcm_div ==
  /\ pc = "lcm_div"
  /\ \/ err # "OKAY" /\ Refuse(err, LcmTemps)
     \/ err = "OKAY" /\ loc.t1 = 0 /\ Refuse("VAL", LcmTemps)
     \/ /\ err = "OKAY" /\ loc.t1 # 0
        /\ \/ Refuse("MEM", LcmTemps)
           \/ /\ loc' = [loc EXCEPT !.t2 = Quotient(Smaller, loc.t1)]
              /\ Goto("lcm_mul")

(* ... the larger multiplied by the quotient; the sign is dropped whether  *)
(* or not mp_mul has failed.                                               *)
lcm_mul ==
  /\ pc = "lcm_mul"
  /\ \/ Put(fr.c, Magnitude(Larger * loc.t2)) /\ Return("OKAY", LcmTemps)
     \/ /\ \E n \in FailedProducts(val[fr.c], Larger, loc.t2, FALSE) : Put(fr.c, Magnitude(n))
        /\ Return("MEM", LcmTemps)

GcdNext ==
  \/ gcd_of_zero \/ gcd_init_u \/ gcd_init_v \/ gcd_halve \/ gcd_step \/ gcd_end
  \/ lcm_init \/ lcm_div \/ lcm_mul

-----------------------------------------------------------------------------
(* l is the least common multiple of m and n, neither zero.                *)
IsLcm(l, m, n) ==
  /\ l > 0 /\ Divides(Magnitude(m), l) /\ Divides(Magnitude(n), l)
  /\ \A d \in 1 .. l - 1 : ~ (Divides(Magnitude(m), d) /\ Divides(Magnitude(n), d))

(* mp_gcd leaves the greatest common divisor of what its operands held, of *)
(* either sign or zero, the destination being one of them or not.          *)
GcdCorrect == Succeeded("gcd") => IsGcd(val[fr.c], old[fr.a], old[fr.b])

(* mp_lcm leaves the least common multiple, zero if one operand is zero,   *)
(* and refuses two zeros.                                                  *)
LcmCorrect ==
  LET m == old[fr.a]
      n == old[fr.b]
  IN  /\ Succeeded("lcm") => IF m = 0 \/ n = 0 THEN val[fr.c] = 0 ELSE IsLcm(val[fr.c], m, n)
      /\ Done("lcm") /\ err # "MEM" => (err = "VAL" <=> m = 0 /\ n = 0)

(* Through the loop u and v are odd, but for v at the end, and 2^k times   *)
(* their gcd is that of the operands.                                      *)
GcdLoopInvariant ==
  pc = "gcd_loop" =>
    /\ loc.u % 2 = 1
    /\ loc.v = 0 \/ loc.v % 2 = 1
    /\ \E g \in 1 .. loc.u : IsGcd(g, loc.u, loc.v) /\ IsGcd(g * 2 ^ loc.k, old[fr.a], old[fr.b])

(* A failed call leaves its destination the value it had, or, mp_gcd, the  *)
(* odd part of the result or, mp_lcm, the absolute value of what it had;   *)
(* or, both operands being long enough, what Toom and Cook leave.          *)
GcdFailure ==
  \/ val = old
  \/ fr.op = "gcd" /\ \E k \in 0 .. Magnitude(old[fr.a]) + Magnitude(old[fr.b]) :
                              IsGcd(val[fr.c] * 2 ^ k, old[fr.a], old[fr.b])
  \/ fr.op = "lcm" /\ val[fr.c] = Magnitude(old[fr.c])
  \/ /\ fr.op = "lcm" /\ val[fr.c] \in Scraps
     /\ MinOf(Used(old[fr.a]), Used(old[fr.b])) >= MP_MUL_TOOM_CUTOFF

(* All temporaries are cleared when the call returns, but for u when v     *)
(* could not be initialised.                                               *)
GcdCleared == live \subseteq {"u"} /\ (err # "MEM" => live = {})
=============================================================================
