----------------------------- MODULE MpModular -----------------------------
(***************************************************************************)
(* mp_mod, mp_addmod, mp_submod, mp_mulmod and mp_sqrmod, one action per   *)
(* library call they make, on the integers the structures hold.  Operands, *)
(* modulus and destination may be the same structure; any call that        *)
(* allocates may fail.  They keep nothing in locals or temporaries.        *)
(***************************************************************************)
EXTENDS MpCall

CONSTANT Values  \* the integers the structures may hold when the function is called

ASSUME ValuesAssumption == Values \subseteq Int

ModularOps == {"mod", "addmod", "submod", "mulmod", "sqrmod"}

(* Operands a and b, modulus m and destination d.                          *)
ModularFrames == [op : ModularOps, a : Ints, b : Ints, m : Ints, d : Ints]

(* Mutated: the remainder is given the sign of the divisor.                *)
Mut_Remainder(n, m) == Sgn(m) * (Magnitude(n) % Magnitude(m))

(* C division truncates: the remainder has the sign of the dividend.  Of a *)
(* build with s_mp_div_small this is true but where a negative dividend is *)
(* reduced in place, as all functions that call mp_mod do (SignLost in     *)
(* MpDiv).                                                                 *)
Remainder(n, m) == Sgn(n) * (Magnitude(n) % Magnitude(m))

(* A sum that fails in mp_grow leaves the magnitude of its destination,    *)
(* with the sign the result would have had.                                *)
FailedSum(d, a, b) ==
  LET s == IF Sgn(a) = Sgn(b) \/ Magnitude(a) >= Magnitude(b) THEN Sgn(a) ELSE Sgn(b)
  IN  s * Magnitude(val[d])

(* The destination gets n and the function goes on.                        *)
Store(n, l) == Put(fr.d, n) /\ pc' = l /\ UNCHANGED << loc, live, fr, err, old >>

(* The first call of a function, into the destination; failed has what a   *)
(* failure may make of it.                                                 *)
Combine(op, result, failed) ==
  /\ pc = op
  /\ Store(result, "mod") \/ (\E n \in failed : Put(fr.d, n) /\ Return("MEM", {}))

mp_addmod == Combine("addmod", A + B, {FailedSum(fr.d, A, B)})
mp_submod == Combine("submod", A - B, {FailedSum(fr.d, A, - B)})
mp_mulmod == Combine("mulmod", A * B, FailedProducts(val[fr.d], A, B, fr.a = fr.b))
mp_sqrmod == Combine("sqrmod", A * A, FailedProducts(val[fr.d], A, A, TRUE))

(* mp_mod, when it is called, takes its dividend from a; the others have   *)
(* it take what they have put into the destination.                        *)
Reducing == IF fr.op = "mod" THEN fr.a ELSE fr.d

(* Mutated: a modulus of zero leaves the number as it is.                  *)
Mut_mp_mod ==
  /\ pc = "mod"
  /\ \/ val[fr.m] = 0 /\ Refuse("OKAY", {})
     \/ /\ val[fr.m] # 0
        /\ Refuse("MEM", {}) \/ Store(Remainder(val[Reducing], val[fr.m]), "mod_adjust")

mp_mod ==
  /\ pc = "mod"
  /\ \/ val[fr.m] = 0 /\ Refuse("VAL", {})
     \/ /\ val[fr.m] # 0
        /\ Refuse("MEM", {}) \/ Store(Remainder(val[Reducing], val[fr.m]), "mod_adjust")

mp_mod_adjust ==
  /\ pc = "mod_adjust"
  /\ LET c == val[fr.d]
         b == val[fr.m]
     IN  \/ (c = 0 \/ Sgn(c) = Sgn(b)) /\ Refuse("OKAY", {})
         \/ /\ c # 0 /\ Sgn(c) # Sgn(b)
            /\ \/ Put(fr.d, b + c) /\ Return("OKAY", {})
               \/ Put(fr.d, FailedSum(fr.d, b, c)) /\ Return("MEM", {})

ModularInit ==
  /\ fr \in ModularFrames /\ val \in [Ints -> Values]
  /\ old = val
  /\ loc = NoLocals /\ live = {}
  /\ pc = fr.op
  /\ err = "OKAY"

ModularNext ==
  mp_addmod \/ mp_submod \/ mp_mulmod \/ mp_sqrmod \/ mp_mod \/ mp_mod_adjust

ModularSpec == ModularInit /\ [][ModularNext]_vars

-----------------------------------------------------------------------------
(* Structures hold integers throughout a call, and a call ends with one of *)
(* the three codes.                                                        *)
ModularTypeOK ==
  /\ val \in [Ints -> Int] /\ old \in [Ints -> Int]
  /\ pc \in ModularOps \cup {"mod_adjust", "done"}
  /\ fr \in ModularFrames
  /\ err \in {"OKAY", "VAL", "MEM"}

GivenModulus == old[fr.m]

Unreduced ==
  LET a == old[fr.a]
      b == old[fr.b]
  IN  CASE fr.op = "mod" -> a
        [] fr.op = "addmod" -> a + b
        [] fr.op = "submod" -> a - b
        [] fr.op = "mulmod" -> a * b
        [] fr.op = "sqrmod" -> a * a

(* r is the residue of n that has the sign of the modulus m.               *)
IsResidue(r, n, m) ==
  /\ (n - r) % Magnitude(m) = 0
  /\ IF m > 0 THEN 0 <= r /\ r < m ELSE m < r /\ r <= 0

(* The comments on these functions and the manual's promise that a source  *)
(* operand can be the destination: a call that succeeds leaves the residue *)
(* by the modulus it was given.                                            *)
Reduced == pc = "done" /\ err = "OKAY" => IsResidue(val[fr.d], Unreduced, GivenModulus)

(* So it does if the destination is not the modulus, whichever of the      *)
(* other operands it is, for moduli and operands of either sign.           *)
ReducedApart == fr.d # fr.m => Reduced

(* Only a zero modulus is refused: with MP_VAL, and after the destination  *)
(* has been given the sum, difference or product.                          *)
RefusedOnlyForZero ==
  fr.d # fr.m /\ pc = "done" =>
    /\ err = "VAL" => GivenModulus = 0 /\ val[fr.d] = (IF fr.op = "mod" THEN old[fr.d] ELSE Unreduced)
    /\ GivenModulus = 0 => err # "OKAY"
=============================================================================
