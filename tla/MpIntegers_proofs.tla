-------------------------- MODULE MpIntegers_proofs --------------------------
(***************************************************************************)
(* Theorems about the calls of MpIntegers, for every radix, every client   *)
(* and all integers.  A call stays in the component it was made of, so     *)
(* that the invariant of a component is kept by the steps of the others.   *)
(* At the end, those about the calls of MpModular.                         *)
(***************************************************************************)
EXTENDS MpIntegers, MpModular, MpCall_proofs

GcdOps == {"gcd", "lcm"}
DivOps == {"div"}
RootOps == {"sqrt", "root"}
InverseOps == {"invmod", "exteuclid"}
PowerOps == {"expt", "exptmod"}
ResidueOps == {"kronecker", "is_square", "sqrtmod"}

LEMMA Operations ==
  ASSUME fr \in Frames
  PROVE  fr.op \in GcdOps \cup DivOps \cup RootOps \cup InverseOps \cup PowerOps \cup ResidueOps
<1>1. fr \in GcdFrames \cup DivFrames \cup RootFrames \cup InvmodFrames \cup ExteuclidFrames
               \cup ExptFrames \cup ExptmodFrames
               \cup KroneckerFrames \cup IsSquareFrames \cup SqrtmodFrames
  BY FramesAssumption
<1>2. /\ fr \in GcdFrames => fr.op \in GcdOps
      /\ fr \in DivFrames => fr.op \in DivOps
      /\ fr \in RootFrames => fr.op \in RootOps
  BY DEF GcdFrames, DivFrames, RootFrames, GcdOps, DivOps, RootOps
<1>3. fr \in InvmodFrames \cup ExteuclidFrames => fr.op \in InverseOps
  BY DEF InvmodFrames, ExteuclidFrames, InverseOps
<1>4. fr \in ExptFrames \cup ExptmodFrames => fr.op \in PowerOps
  BY DEF ExptFrames, ExptmodFrames, PowerOps
<1>5. fr \in KroneckerFrames \cup IsSquareFrames \cup SqrtmodFrames => fr.op \in ResidueOps
  BY DEF KroneckerFrames, IsSquareFrames, SqrtmodFrames, ResidueOps
<1>. QED
  BY <1>1, <1>2, <1>3, <1>4, <1>5

-----------------------------------------------------------------------------
(* Where a call is, and the temporaries it owns there.                     *)
GcdBase == IF fr.op = "lcm" THEN LcmTemps ELSE {}

GcdOwns ==
  fr.op \in GcdOps =>
    /\ pc \in {"gcd", "gcd_init_v", "gcd_halve", "gcd_loop", "lcm", "lcm_div", "lcm_mul", "done"}
    /\ pc = "lcm" => fr.op = "lcm" /\ live = {}
    /\ pc = "gcd" => live = GcdBase
    /\ pc = "gcd_init_v" => live = GcdBase \cup {"u"}
    /\ pc \in {"gcd_halve", "gcd_loop"} => live = GcdBase \cup {"u", "v"}
    /\ pc = "lcm_div" => fr.op = "lcm" /\ live \subseteq LcmTemps \cup {"u"}
                           /\ (err # "MEM" => live \subseteq LcmTemps)
    /\ pc = "lcm_mul" => fr.op = "lcm" /\ live \subseteq LcmTemps
    /\ pc = "done" => GcdCleared

SchoolPcs == {"normalise", "top", "estimate", "correct", "subtract"}

DivOwns ==
  fr.op \in DivOps =>
    /\ pc \in {"div", "small_loop", "done"} \cup SchoolPcs
    /\ pc \in {"div", "done"} => live = {}
    /\ pc \in SchoolPcs => live = LBL_Y
    /\ pc = "small_loop" => live = SmallTemps

RootOwns ==
  fr.op \in RootOps =>
    /\ pc \in {"sqrt", "sqrt_first", "sqrt_loop", "root", "newton", "up", "down", "done"}
    /\ pc \in {"sqrt", "root", "done"} => live = {}
    /\ pc \in {"sqrt_first", "sqrt_loop"} => live = SqrtTemps
    /\ pc \in {"newton", "up", "down"} => live = RootTemps

InvPcs == {"inv_loop", "inv_end", "inv_correct"}

InverseOwns ==
  fr.op \in InverseOps =>
    /\ pc \in {"invmod", "exteuclid", "euclid_loop", "done"} \cup InvPcs
    /\ pc \in {"invmod", "exteuclid", "done"} => live = {}
    /\ pc \in InvPcs => "odd" \in DOMAIN loc /\ live = InvTemps
    /\ pc = "euclid_loop" => live = EuclidTemps

PowerOwns ==
  fr.op \in PowerOps =>
    /\ pc \in {"expt", "expt_loop", "exptmod", "choose", "table", "window", "exptmod_end", "done"}
    /\ pc \in {"expt", "exptmod", "done"} => live = {}
    /\ pc = "expt_loop" => live = {"g"}
    /\ pc = "choose" => live \subseteq Tmps
    /\ pc = "table" => live \subseteq Tmps \cup LBL_M
    /\ pc \in {"window", "exptmod_end"} => "X" \in DOMAIN loc /\ live \subseteq Tmps \cup LBL_RES

ResidueOwns ==
  fr.op \in ResidueOps =>
    /\ pc \in {"kronecker", "kron_loop", "is_square", "is_square_105", "is_square_primes",
               "is_square_root", "sqrtmod", "find_Z", "tonelli", "done"}
    /\ pc \in {"kronecker", "is_square", "is_square_105", "sqrtmod", "done"} => live = {}
    /\ pc = "kron_loop" => live = LBL_KRON
    /\ pc \in {"is_square_primes", "is_square_root"} => live = {"t"}
    /\ pc \in {"find_Z", "tonelli"} => live = SqrtmodTemps

Ownership ==
  /\ fr \in Frames
  /\ GcdOwns /\ DivOwns /\ RootOwns /\ InverseOwns /\ PowerOwns /\ ResidueOwns

(* A step is one of the component the call belongs to.                     *)
LEMMA StepsAtHome ==
  ASSUME Ownership
  PROVE  /\ GcdNext => fr.op \in GcdOps /\ fr' = fr
         /\ DivNext => fr.op \in DivOps /\ fr' = fr
         /\ RootNext => fr.op \in RootOps /\ fr' = fr
         /\ InverseNext => fr.op \in InverseOps /\ fr' = fr
         /\ PowerNext => fr.op \in PowerOps /\ fr' = fr
         /\ ResidueNext => fr.op \in ResidueOps /\ fr' = fr
<1>. USE Operations DEF Ownership, GcdOwns, DivOwns, RootOwns, InverseOwns, PowerOwns, ResidueOwns,
         GcdOps, DivOps, RootOps, InverseOps, PowerOps, ResidueOps, SchoolPcs, InvPcs
<1>1. GcdNext => pc \in {"gcd", "gcd_init_v", "gcd_halve", "gcd_loop", "lcm", "lcm_div", "lcm_mul"}
                   /\ fr' = fr
  BY DEF GcdNext, gcd_of_zero, gcd_init_u, gcd_init_v, gcd_halve, gcd_step, gcd_end, lcm_init,
         lcm_div, lcm_mul, GcdResult, GcdReturn, Refuse, Return, Goto
<1>2. DivNext => pc \in {"div", "small_loop"} \cup SchoolPcs /\ fr' = fr
  BY DEF DivNext, mp_div_refused, mp_div_smaller, school_init, school_normalise, school_top,
         school_estimate, school_correct, school_subtract, school_end, small_init, small_round,
         small_end, Divisible, Refuse, Return, Goto
<1>3. RootNext => pc \in {"sqrt", "sqrt_first", "sqrt_loop", "root", "newton", "up", "down"} /\ fr' = fr
  BY DEF RootNext, mp_sqrt, sqrt_first, sqrt_round, mp_root_n, root_newton, root_up, root_down,
         Refuse, Return, Goto
<1>4. InverseNext => pc \in {"invmod", "exteuclid", "euclid_loop"} \cup InvPcs /\ fr' = fr
  BY DEF InverseNext, mp_invmod, invmod_odd_init, invmod_init, inv_halve_u, inv_halve_v,
         inv_subtract, inv_end, inv_correct, mp_exteuclid, euclid_step, euclid_end, Invertible,
         Refuse, Return, Goto
<1>5. PowerNext => pc \in {"expt", "expt_loop", "exptmod", "choose", "table", "window", "exptmod_end"}
                     /\ fr' = fr
  BY DEF PowerNext, mp_expt_n, expt_round, expt_end, exptmod_refused, exptmod_positive,
         exptmod_negative, exptmod_init, exptmod_table, window_skip, window_square, window_collect,
         window_full, window_rest, exptmod_end, NextBit, Collects, Refuse, Return, Goto
<1>6. ResidueNext => pc \in {"kronecker", "kron_loop", "is_square", "is_square_105",
               "is_square_primes", "is_square_root", "sqrtmod", "find_Z", "tonelli"} /\ fr' = fr
  BY DEF ResidueNext, kronecker_zero, kronecker_even, kronecker_init, kron_round, kron_end,
         is_square_first, is_square_second, is_square_third, is_square_root, sqrtmod_simple,
         sqrtmod_special, sqrtmod_factor, sqrtmod_find_Z, sqrtmod_round, HasRoot,
         Refuse, Return, Goto, Answer
<1>7. GcdNext => fr.op \in GcdOps /\ fr' = fr
  BY <1>1
<1>8. DivNext => fr.op \in DivOps /\ fr' = fr
  BY <1>2
<1>9. RootNext => fr.op \in RootOps /\ fr' = fr
  BY <1>3
<1>10. InverseNext => fr.op \in InverseOps /\ fr' = fr
  BY <1>4
<1>11. PowerNext => fr.op \in PowerOps /\ fr' = fr
  BY <1>5
<1>12. ResidueNext => fr.op \in ResidueOps /\ fr' = fr
  BY <1>6
<1>. QED
  BY <1>7, <1>8, <1>9, <1>10, <1>11, <1>12

LEMMA GcdOwnsKept ==
  ASSUME Ownership, GcdNext
  PROVE  GcdOwns'
<1>. USE DEF GcdOps, GcdBase, LcmTemps, GcdCleared
<1>0. GcdOwns /\ fr.op \in GcdOps /\ fr' = fr
  BY StepsAtHome DEF Ownership
<1>1. CASE gcd_of_zero
  BY <1>0, <1>1 DEF GcdOwns, gcd_of_zero, GcdResult, GcdReturn, Refuse, Return
<1>2. CASE gcd_init_u
  BY <1>0, <1>2 DEF GcdOwns, gcd_init_u, GcdReturn, Refuse, Return
<1>3. CASE gcd_init_v
  BY <1>0, <1>3 DEF GcdOwns, gcd_init_v, GcdReturn, Refuse, Return
<1>4. CASE gcd_halve
  BY <1>0, <1>4 DEF GcdOwns, gcd_halve, Goto
<1>5. CASE gcd_step
  BY <1>0, <1>5 DEF GcdOwns, gcd_step, Goto
<1>6. CASE gcd_end
  BY <1>0, <1>6 DEF GcdOwns, gcd_end, GcdResult, GcdReturn, Refuse, Return
<1>7. CASE lcm_init
  BY <1>0, <1>7 DEF GcdOwns, lcm_init, Refuse, Return
<1>8. CASE lcm_div
  BY <1>0, <1>8 DEF GcdOwns, lcm_div, Refuse, Return, Goto
<1>9. CASE lcm_mul
  BY <1>0, <1>9 DEF GcdOwns, lcm_mul, Return
<1>. QED
  BY <1>1, <1>2, <1>3, <1>4, <1>5, <1>6, <1>7, <1>8, <1>9 DEF GcdNext

LEMMA DivOwnsKept ==
  ASSUME Ownership, DivNext
  PROVE  DivOwns'
<1>. USE DEF DivOps, SchoolPcs, LBL_Q, LBL_T1, LBL_T2, LBL_X, LBL_Y, SmallTemps
<1>0. DivOwns /\ fr.op \in DivOps /\ fr' = fr
  BY StepsAtHome DEF Ownership
<1>1. CASE mp_div_refused
  BY <1>0, <1>1 DEF DivOwns, mp_div_refused, Refuse, Return
<1>2. CASE mp_div_smaller
  BY <1>0, <1>2 DEF DivOwns, mp_div_smaller, Refuse, Return
<1>3. CASE school_init
  BY <1>0, <1>3 DEF DivOwns, school_init, Divisible, InitFails
<1>4. CASE school_normalise
  BY <1>0, <1>4 DEF DivOwns, school_normalise, Goto, Refuse, Return
<1>5. CASE school_top
  BY <1>0, <1>5 DEF DivOwns, school_top, Goto
<1>6. CASE school_estimate
  BY <1>0, <1>6 DEF DivOwns, school_estimate, Goto
<1>7. CASE school_correct
  BY <1>0, <1>7 DEF DivOwns, school_correct, Goto
<1>8. CASE school_subtract
  BY <1>0, <1>8 DEF DivOwns, school_subtract, Goto, Refuse, Return
<1>9. CASE school_end
  BY <1>0, <1>9 DEF DivOwns, school_end, Return
<1>10. CASE small_init
  BY <1>0, <1>10 DEF DivOwns, small_init, Divisible, Refuse, Return
<1>11. CASE small_round
  BY <1>0, <1>11 DEF DivOwns, small_round, Goto, Refuse, Return
<1>12. CASE small_end
  BY <1>0, <1>12 DEF DivOwns, small_end, Return
<1>. QED
  BY <1>1, <1>2, <1>3, <1>4, <1>5, <1>6, <1>7, <1>8, <1>9, <1>10, <1>11, <1>12 DEF DivNext

LEMMA RootOwnsKept ==
  ASSUME Ownership, RootNext
  PROVE  RootOwns'
<1>. USE DEF RootOps
<1>0. RootOwns /\ fr.op \in RootOps /\ fr' = fr
  BY StepsAtHome DEF Ownership
<1>1. CASE mp_sqrt
  BY <1>0, <1>1 DEF RootOwns, mp_sqrt, Refuse, Return
<1>2. CASE sqrt_first
  BY <1>0, <1>2 DEF RootOwns, sqrt_first, Refuse, Return, Goto
<1>3. CASE sqrt_round
  BY <1>0, <1>3 DEF RootOwns, sqrt_round, Refuse, Return, Goto
<1>4. CASE mp_root_n
  BY <1>0, <1>4 DEF RootOwns, mp_root_n, Refuse, Return
<1>5. CASE root_newton
  BY <1>0, <1>5 DEF RootOwns, root_newton, Refuse, Return, Goto
<1>6. CASE root_up
  BY <1>0, <1>6 DEF RootOwns, root_up, Refuse, Return, Goto
<1>7. CASE root_down
  BY <1>0, <1>7 DEF RootOwns, root_down, Refuse, Return, Goto
<1>. QED
  BY <1>1, <1>2, <1>3, <1>4, <1>5, <1>6, <1>7 DEF RootNext

LEMMA InverseOwnsKept ==
  ASSUME Ownership, InverseNext
  PROVE  InverseOwns'
<1>. USE DEF InverseOps, InvPcs
<1>0. InverseOwns /\ fr.op \in InverseOps /\ fr' = fr
  BY StepsAtHome DEF Ownership
<1>1. CASE mp_invmod
  BY <1>0, <1>1 DEF InverseOwns, mp_invmod, Refuse, Return
<1>2. CASE invmod_odd_init
  BY <1>0, <1>2 DEF InverseOwns, invmod_odd_init, Invertible, InvTemps, Refuse, Return
<1>3. CASE invmod_init
  BY <1>0, <1>3 DEF InverseOwns, invmod_init, Invertible, InvTemps, Refuse, Return
<1>4. CASE inv_halve_u
  BY <1>0, <1>4 DEF InverseOwns, inv_halve_u, InvTemps, Refuse, Return, Goto
<1>5. CASE inv_halve_v
  BY <1>0, <1>5 DEF InverseOwns, inv_halve_v, InvTemps, Refuse, Return, Goto
<1>6. CASE inv_subtract
  BY <1>0, <1>6 DEF InverseOwns, inv_subtract, InvTemps, Refuse, Return, Goto
<1>7. CASE inv_end
  BY <1>0, <1>7 DEF InverseOwns, inv_end, InvTemps, Refuse, Return, Goto
<1>8. CASE inv_correct
  BY <1>0, <1>8 DEF InverseOwns, inv_correct, InvTemps, Refuse, Return, Goto
<1>9. CASE mp_exteuclid
  BY <1>0, <1>9 DEF InverseOwns, mp_exteuclid, Refuse, Return
<1>10. CASE euclid_step
  BY <1>0, <1>10 DEF InverseOwns, euclid_step, Refuse, Return, Goto
<1>11. CASE euclid_end
  BY <1>0, <1>11 DEF InverseOwns, euclid_end, Return
<1>. QED
  BY <1>1, <1>2, <1>3, <1>4, <1>5, <1>6, <1>7, <1>8, <1>9, <1>10, <1>11 DEF InverseNext

(* What a call with a given exponent and modulus initialises stays the     *)
(* same while they do.                                                     *)
LEMMA SameTemporaries ==
  ASSUME val' = val, fr' = fr, loc'.X = loc.X
  PROVE  LBL_M' = LBL_M /\ LBL_RES' = LBL_RES
<1>1. winsize' = winsize /\ Reduction' = Reduction
  BY DEF winsize, Reduction, Modulus
<1>2. LBL_M' = LBL_M
  BY <1>1 DEF LBL_M, Upper, Half, Cells
<1>. QED
  BY <1>1, <1>2 DEF LBL_RES

LEMMA PowerOwnsKept ==
  ASSUME Ownership, PowerNext
  PROVE  PowerOwns'
<1>. USE DEF PowerOps
<1>0. PowerOwns /\ fr.op \in PowerOps /\ fr' = fr
  BY StepsAtHome DEF Ownership
<1>1. CASE mp_expt_n
  BY <1>0, <1>1 DEF PowerOwns, mp_expt_n, Refuse, Return
<1>2. CASE expt_round
  BY <1>0, <1>2 DEF PowerOwns, expt_round, Refuse, Return
<1>3. CASE expt_end
  BY <1>0, <1>3 DEF PowerOwns, expt_end, Refuse, Return
<1>4. CASE exptmod_refused
  BY <1>0, <1>4 DEF PowerOwns, exptmod_refused, Refuse, Return
<1>5. CASE exptmod_positive
  BY <1>0, <1>5 DEF PowerOwns, exptmod_positive, Goto
<1>6. CASE exptmod_negative
  BY <1>0, <1>6 DEF PowerOwns, exptmod_negative, Refuse, Return
<1>7. CASE exptmod_init
  <2>0. live \subseteq Tmps /\ pc = "choose"
    BY <1>0, <1>7 DEF PowerOwns, exptmod_init
  <2>1. CASE Refuse("VAL", Tmps) \/ Refuse("MEM", Tmps)
    BY <1>0, <2>0, <2>1 DEF PowerOwns, Refuse, Return
  <2>2. ASSUME NEW x \in Upper, pc' = "done",
               live' = ((live \cup Cells({1} \cup Half .. x - 1))
                              \ (Cells(Half .. x - 1) \cup Cells({1}))) \ Tmps
        PROVE  PowerOwns'
    <3>1. live' = {}
      BY <2>0, <2>2 DEF Cells
    <3>. QED
      BY <1>0, <2>2, <3>1 DEF PowerOwns
  <2>3. CASE live' = live \cup LBL_M /\ pc' = "table" /\ UNCHANGED << val, loc, fr, err, old >>
    <3>1. LBL_M' = LBL_M
      BY <2>3, SameTemporaries
    <3>. QED
      BY <1>0, <2>0, <2>3, <3>1 DEF PowerOwns, Tmps
  <2>. QED
    BY <1>7, <2>1, <2>2, <2>3 DEF exptmod_init
<1>8. CASE exptmod_table
  <2>1. CASE Refuse("VAL", LBL_RES \cup Tmps) \/ Refuse("MEM", LBL_RES \cup Tmps)
    <3>1. live \subseteq Tmps \cup LBL_RES
      BY <1>0, <1>8 DEF PowerOwns, exptmod_table, LBL_RES
    <3>. QED
      BY <1>0, <2>1, <3>1 DEF PowerOwns, Refuse, Return
  <2>2. CASE pc' # "done"
    <3>1. /\ loc'.X = loc.X /\ "X" \in DOMAIN loc' /\ pc' = "window" /\ val' = val
          /\ live' = live \cup LBL_RES
      BY <1>8, <2>2 DEF exptmod_table, Refuse, Return
    <3>2. live \subseteq Tmps \cup LBL_M
      BY <1>0, <1>8 DEF PowerOwns, exptmod_table
    <3>3. LBL_RES' = LBL_RES /\ Tmps' = Tmps
      BY <1>0, <3>1, SameTemporaries DEF Tmps
    <3>4. LBL_M \subseteq LBL_RES
      BY DEF LBL_RES
    <3>. HIDE DEF LBL_RES, LBL_M, Tmps
    <3>. QED
      BY <1>0, <3>1, <3>2, <3>3, <3>4 DEF PowerOwns
  <2>3. Refuse("MEM", LBL_RES \cup Tmps) \/ Refuse("VAL", LBL_RES \cup Tmps) \/ pc' # "done"
    BY <1>8 DEF exptmod_table
  <2>. QED
    BY <2>1, <2>2, <2>3
<1>9. ASSUME pc = "window" \/ pc = "exptmod_end",
             \/ Refuse("MEM", LBL_RES \cup Tmps)
             \/ /\ loc'.X = loc.X /\ "X" \in DOMAIN loc'
                /\ Goto("window") \/ Goto("exptmod_end")
      PROVE  PowerOwns'
  <2>1. live \subseteq Tmps \cup LBL_RES
    BY <1>0, <1>9 DEF PowerOwns
  <2>2. CASE Refuse("MEM", LBL_RES \cup Tmps)
    BY <1>0, <2>1, <2>2 DEF PowerOwns, Refuse, Return
  <2>3. CASE loc'.X = loc.X /\ "X" \in DOMAIN loc' /\ (Goto("window") \/ Goto("exptmod_end"))
    <3>1. val' = val /\ live' = live /\ pc' \in {"window", "exptmod_end"}
      BY <2>3 DEF Goto
    <3>2. LBL_RES' = LBL_RES /\ Tmps' = Tmps
      BY <1>0, <2>3, <3>1, SameTemporaries DEF Tmps
    <3>. QED
      BY <1>0, <2>1, <2>3, <3>1, <3>2 DEF PowerOwns
  <2>. QED
    BY <1>9, <2>2, <2>3
<1>10. "X" \in DOMAIN loc /\ pc = "window" =>
         /\ Advanced.X = loc.X /\ "X" \in DOMAIN Advanced
         /\ Collected.X = loc.X /\ "X" \in DOMAIN Collected
  BY DEF Advanced, Collected
<1>11. pc = "window" => "X" \in DOMAIN loc
  BY <1>0 DEF PowerOwns
<1>12. CASE window_skip
  BY <1>9, <1>10, <1>11, <1>12 DEF window_skip, NextBit
<1>13. CASE window_square
  <2>1. pc = "window" /\ "X" \in DOMAIN Advanced /\ Advanced.X = loc.X
    BY <1>10, <1>11, <1>13 DEF window_square, NextBit
  <2>. HIDE DEF Advanced
  <2>. QED
    BY <1>9, <1>13, <2>1 DEF window_square
<1>14. CASE window_collect
  BY <1>9, <1>10, <1>11, <1>14 DEF window_collect, Collects, NextBit
<1>15. CASE window_full
  <2>1. pc = "window" /\ "X" \in DOMAIN Collected /\ Collected.X = loc.X
    BY <1>10, <1>11, <1>15 DEF window_full, Collects, NextBit
  <2>. HIDE DEF Collected
  <2>. QED
    BY <1>9, <1>15, <2>1 DEF window_full
<1>16. CASE window_rest
  BY <1>9, <1>11, <1>16 DEF window_rest
<1>17. CASE exptmod_end
  <2>1. live \subseteq Tmps \cup LBL_RES
    BY <1>0, <1>17 DEF PowerOwns, exptmod_end
  <2>. QED
    BY <1>0, <1>17, <2>1 DEF PowerOwns, exptmod_end, Refuse, Return
<1>. QED
  BY <1>1, <1>2, <1>3, <1>4, <1>5, <1>6, <1>7, <1>8, <1>12, <1>13, <1>14, <1>15, <1>16, <1>17
     DEF PowerNext

LEMMA ResidueOwnsKept ==
  ASSUME Ownership, ResidueNext
  PROVE  ResidueOwns'
<1>. USE DEF ResidueOps, LBL_KRON, LBL_KRON_1, LBL_KRON_0, Refuse, Return, Answer, Goto
<1>0. ResidueOwns /\ fr.op \in ResidueOps /\ fr' = fr
  BY StepsAtHome DEF Ownership
<1>1. CASE kronecker_zero
  BY <1>0, <1>1 DEF ResidueOwns, kronecker_zero
<1>2. CASE kronecker_even
  BY <1>0, <1>2 DEF ResidueOwns, kronecker_even
<1>3. CASE kronecker_init
  BY <1>0, <1>3 DEF ResidueOwns, kronecker_init
<1>4. CASE kron_round
  BY <1>0, <1>4 DEF ResidueOwns, kron_round
<1>5. CASE kron_end
  BY <1>0, <1>5 DEF ResidueOwns, kron_end
<1>6. CASE is_square_first
  BY <1>0, <1>6 DEF ResidueOwns, is_square_first
<1>7. CASE is_square_second
  BY <1>0, <1>7 DEF ResidueOwns, is_square_second
<1>8. CASE is_square_third
  BY <1>0, <1>8 DEF ResidueOwns, is_square_third
<1>9. CASE is_square_root
  BY <1>0, <1>9 DEF ResidueOwns, is_square_root
<1>10. CASE sqrtmod_simple
  BY <1>0, <1>10 DEF ResidueOwns, sqrtmod_simple
<1>11. CASE sqrtmod_special
  BY <1>0, <1>11 DEF ResidueOwns, sqrtmod_special, HasRoot
<1>12. CASE sqrtmod_factor
  BY <1>0, <1>12 DEF ResidueOwns, sqrtmod_factor, HasRoot
<1>13. CASE sqrtmod_find_Z
  BY <1>0, <1>13 DEF ResidueOwns, sqrtmod_find_Z
<1>14. CASE sqrtmod_round
  BY <1>0, <1>14 DEF ResidueOwns, sqrtmod_round
<1>. QED
  BY <1>1, <1>2, <1>3, <1>4, <1>5, <1>6, <1>7, <1>8, <1>9, <1>10, <1>11, <1>12, <1>13, <1>14
     DEF ResidueNext

(* The steps of the other components leave a component's part true: they   *)
(* are not about its calls.                                                *)
LEMMA OwnershipKept ==
  ASSUME Ownership, [Next]_vars
  PROVE  Ownership'
<1>. USE DEF Ownership
<1>0. \/ GcdNext \/ DivNext \/ RootNext \/ InverseNext \/ PowerNext \/ ResidueNext
      \/ UNCHANGED vars
  BY DEF Next
<1>. DEFINE Foreign(Ops) == fr'.op \notin Ops
<1>1. /\ Foreign(GcdOps) => GcdOwns'
      /\ Foreign(DivOps) => DivOwns'
      /\ Foreign(RootOps) => RootOwns'
      /\ Foreign(InverseOps) => InverseOwns'
      /\ Foreign(PowerOps) => PowerOwns'
      /\ Foreign(ResidueOps) => ResidueOwns'
  BY DEF GcdOwns, DivOwns, RootOwns, InverseOwns, PowerOwns, ResidueOwns
<1>2. CASE GcdNext
  <2>1. fr' = fr /\ fr.op \in GcdOps /\ GcdOwns'
    BY <1>2, StepsAtHome, GcdOwnsKept
  <2>2. Foreign(DivOps) /\ Foreign(RootOps) /\ Foreign(InverseOps) /\ Foreign(PowerOps)
          /\ Foreign(ResidueOps)
    BY <2>1 DEF GcdOps, DivOps, RootOps, InverseOps, PowerOps, ResidueOps
  <2>. QED
    BY <1>1, <2>1, <2>2
<1>3. CASE DivNext
  <2>1. fr' = fr /\ fr.op \in DivOps /\ DivOwns'
    BY <1>3, StepsAtHome, DivOwnsKept
  <2>2. Foreign(GcdOps) /\ Foreign(RootOps) /\ Foreign(InverseOps) /\ Foreign(PowerOps)
          /\ Foreign(ResidueOps)
    BY <2>1 DEF GcdOps, DivOps, RootOps, InverseOps, PowerOps, ResidueOps
  <2>. QED
    BY <1>1, <2>1, <2>2
<1>4. CASE RootNext
  <2>1. fr' = fr /\ fr.op \in RootOps /\ RootOwns'
    BY <1>4, StepsAtHome, RootOwnsKept
  <2>2. Foreign(GcdOps) /\ Foreign(DivOps) /\ Foreign(InverseOps) /\ Foreign(PowerOps)
          /\ Foreign(ResidueOps)
    BY <2>1 DEF GcdOps, DivOps, RootOps, InverseOps, PowerOps, ResidueOps
  <2>. QED
    BY <1>1, <2>1, <2>2
<1>5. CASE InverseNext
  <2>1. fr' = fr /\ fr.op \in InverseOps /\ InverseOwns'
    BY <1>5, StepsAtHome, InverseOwnsKept
  <2>2. Foreign(GcdOps) /\ Foreign(DivOps) /\ Foreign(RootOps) /\ Foreign(PowerOps)
          /\ Foreign(ResidueOps)
    BY <2>1 DEF GcdOps, DivOps, RootOps, InverseOps, PowerOps, ResidueOps
  <2>. QED
    BY <1>1, <2>1, <2>2
<1>6. CASE PowerNext
  <2>1. fr' = fr /\ fr.op \in PowerOps /\ PowerOwns'
    BY <1>6, StepsAtHome, PowerOwnsKept
  <2>2. Foreign(GcdOps) /\ Foreign(DivOps) /\ Foreign(RootOps) /\ Foreign(InverseOps)
          /\ Foreign(ResidueOps)
    BY <2>1 DEF GcdOps, DivOps, RootOps, InverseOps, PowerOps, ResidueOps
  <2>. QED
    BY <1>1, <2>1, <2>2
<1>7. CASE ResidueNext
  <2>1. fr' = fr /\ fr.op \in ResidueOps /\ ResidueOwns'
    BY <1>7, StepsAtHome, ResidueOwnsKept
  <2>2. Foreign(GcdOps) /\ Foreign(DivOps) /\ Foreign(RootOps) /\ Foreign(InverseOps)
          /\ Foreign(PowerOps)
    BY <2>1 DEF GcdOps, DivOps, RootOps, InverseOps, PowerOps, ResidueOps
  <2>. QED
    BY <1>1, <2>1, <2>2
<1>8. CASE UNCHANGED vars
  <2>1. LBL_M' = LBL_M /\ LBL_RES' = LBL_RES /\ InvTemps' = InvTemps
    <3>1. val' = val /\ fr' = fr /\ loc' = loc
      BY <1>8 DEF vars
    <3>. QED
      BY <3>1, SameTemporaries DEF InvTemps
  <2>2. GcdOwns' /\ DivOwns' /\ RootOwns' /\ ResidueOwns'
    BY <1>8 DEF vars, GcdOwns, DivOwns, RootOwns, ResidueOwns, GcdCleared, GcdBase
  <2>3. InverseOwns' /\ PowerOwns'
    BY <1>8, <2>1 DEF vars, InverseOwns, PowerOwns, Tmps
  <2>. QED
    BY <1>8, <2>2, <2>3 DEF vars
<1>. QED
  BY <1>0, <1>2, <1>3, <1>4, <1>5, <1>6, <1>7, <1>8

LEMMA OwnershipInit ==
  ASSUME Init
  PROVE  Ownership
<1>1. fr \in Frames /\ pc = fr.op /\ live = {} /\ err = "OKAY"
  BY DEF Init
<1>2. GcdOwns /\ DivOwns /\ RootOwns
  BY <1>1 DEF GcdOwns, DivOwns, RootOwns, GcdOps, DivOps, RootOps, SchoolPcs, GcdBase
<1>3. InverseOwns /\ PowerOwns /\ ResidueOwns
  BY <1>1 DEF InverseOwns, PowerOwns, ResidueOwns, InverseOps, PowerOps, ResidueOps, InvPcs
<1>. QED
  BY <1>1, <1>2, <1>3 DEF Ownership

LEMMA Owned == Spec => []Ownership
<1>. QED
  BY OwnershipInit, OwnershipKept, PTL DEF Spec

(* Whatever fails and wherever, a call that has returned has cleared every *)
(* temporary, but for the one of mp_gcd and mp_lcm.                        *)
THEOREM Cleared == Spec => []TemporariesCleared
<1>1. Ownership => TemporariesCleared
  <2>. SUFFICES ASSUME Ownership, pc = "done"
                PROVE  IF fr.op \in {"gcd", "lcm"} THEN GcdCleared ELSE live = {}
    BY DEF TemporariesCleared
  <2>. QED
    BY Operations DEF Ownership, GcdOwns, DivOwns, RootOwns, InverseOwns, PowerOwns, ResidueOwns,
       GcdOps, DivOps, RootOps, InverseOps, PowerOps, ResidueOps
<1>. QED
  BY <1>1, Owned, PTL

-----------------------------------------------------------------------------
(* mp_gcd and mp_lcm.                                                      *)
LEMMA GcdFrame ==
  ASSUME fr \in Frames, fr.op \in GcdOps
  PROVE  fr.a \in Ints /\ fr.b \in Ints /\ fr.c \in Ints
<1>1. fr \in GcdFrames \cup DivFrames \cup RootFrames \cup InvmodFrames \cup ExteuclidFrames
               \cup ExptFrames \cup ExptmodFrames
               \cup KroneckerFrames \cup IsSquareFrames \cup SqrtmodFrames
  BY FramesAssumption
<1>2. fr \notin DivFrames /\ fr \notin RootFrames /\ fr \notin InvmodFrames /\ fr \notin ExteuclidFrames
  BY DEF DivFrames, RootFrames, InvmodFrames, ExteuclidFrames, GcdOps
<1>3. fr \notin ExptFrames /\ fr \notin ExptmodFrames /\ fr \notin KroneckerFrames
        /\ fr \notin IsSquareFrames /\ fr \notin SqrtmodFrames
  BY DEF ExptFrames, ExptmodFrames, KroneckerFrames, IsSquareFrames, SqrtmodFrames, GcdOps
<1>4. fr \in GcdFrames
  BY <1>1, <1>2, <1>3
<1>. QED
  BY <1>4 DEF GcdFrames

GcdRecord == [u : Int, v : Int, k : Int, t1 : Int, t2 : Int]

(* What the loop keeps: the greatest common divisor is that of the odd     *)
(* numbers u and v, times a power of two.                                  *)
GcdLoop ==
  /\ loc.u \in Nat /\ loc.v \in Nat /\ loc.k \in Nat
  /\ loc.u % 2 = 1 /\ (loc.v = 0 \/ loc.v % 2 = 1)
  /\ \E g \in Nat : IsGcd(g, loc.u, loc.v) /\ IsGcd(g * 2 ^ loc.k, old[fr.a], old[fr.b])

GcdInv ==
  fr.op \in GcdOps =>
    /\ val \in [Ints -> Int] /\ old \in [Ints -> Int]
    /\ pc # "done" => val = old
    /\ pc \in {"gcd_halve", "gcd_loop", "lcm_div", "lcm_mul"}
         \/ (pc \in {"gcd", "gcd_init_v"} /\ fr.op = "lcm") => loc \in GcdRecord
    /\ pc \in {"gcd_init_v", "gcd_halve", "gcd_loop"} => old[fr.a] # 0 /\ old[fr.b] # 0
    /\ pc = "gcd_halve" => loc.u = Magnitude(old[fr.a]) /\ loc.v = Magnitude(old[fr.b])
    /\ pc = "gcd_loop" => GcdLoop
    /\ pc = "lcm_div" => err \in {"OKAY", "MEM"}
                           /\ (err = "OKAY" => IsGcd(loc.t1, old[fr.a], old[fr.b]))
    /\ pc = "lcm_mul" => IsGcd(loc.t1, old[fr.a], old[fr.b]) /\ loc.t1 # 0
                           /\ loc.t2 = Quotient(Smaller, loc.t1)
    /\ pc = "done" => GcdCorrect /\ LcmCorrect /\ (err # "OKAY" => GcdFailure)

(* Each way mp_gcd ends leaves what it should, to the client or to mp_lcm. *)
LEMMA GcdEnds ==
  ASSUME Ownership, GcdInv, fr.op \in GcdOps, fr' = fr,
         pc \in {"gcd", "gcd_init_v", "gcd_loop"}, NEW cleared
  PROVE  /\ GcdReturn("MEM", cleared) => GcdInv'
         /\ \A n \in Nat :
              IsGcd(n, old[fr.a], old[fr.b]) /\ GcdResult(n, "OKAY", cleared) => GcdInv'
         /\ \A n, k \in Nat :
              IsGcd(n * 2 ^ k, old[fr.a], old[fr.b])
                /\ k <= Magnitude(old[fr.a]) + Magnitude(old[fr.b]) /\ GcdResult(n, "MEM", cleared)
              => GcdInv'
<1>0. /\ fr.a \in Ints /\ fr.b \in Ints /\ fr.c \in Ints
      /\ val \in [Ints -> Int] /\ old \in [Ints -> Int] /\ val = old
      /\ fr.op = "lcm" => loc \in GcdRecord
  BY GcdFrame DEF Ownership, GcdInv, GcdOwns, GcdOps
<1>. USE DEF GcdOps
<1>1. ASSUME GcdReturn("MEM", cleared) PROVE GcdInv'
  BY <1>0, <1>1 DEF GcdInv, GcdReturn, Refuse, Return, GcdCorrect, LcmCorrect, Succeeded, Done, GcdFailure
<1>2. ASSUME NEW n \in Nat, IsGcd(n, old[fr.a], old[fr.b]), GcdResult(n, "OKAY", cleared)
      PROVE  GcdInv'
  <2>1. CASE fr.op = "gcd"
    BY <1>0, <1>2, <2>1 DEF GcdInv, GcdResult, Put, Return, GcdCorrect, LcmCorrect, Succeeded, Done
  <2>2. CASE fr.op = "lcm"
    BY <1>0, <1>2, <2>2 DEF GcdInv, GcdResult, GcdRecord
  <2>. QED
    BY <2>1, <2>2
<1>3. ASSUME NEW n \in Nat, NEW k \in Nat, IsGcd(n * 2 ^ k, old[fr.a], old[fr.b]),
             k <= Magnitude(old[fr.a]) + Magnitude(old[fr.b]), GcdResult(n, "MEM", cleared)
      PROVE  GcdInv'
  <2>1. CASE fr.op = "gcd"
    <3>1. k \in 0 .. Magnitude(old[fr.a]) + Magnitude(old[fr.b])
      BY <1>0, <1>3, MagnitudeProperties
    <3>2. val' = [val EXCEPT ![fr.c] = n] /\ old' = old /\ err' = "MEM" /\ pc' = "done"
      BY <1>3, <2>1 DEF GcdResult, Put, Return
    <3>3. GcdFailure'
      BY <1>0, <1>3, <2>1, <3>1, <3>2 DEF GcdFailure
    <3>. QED
      BY <1>0, <2>1, <3>2, <3>3 DEF GcdInv, GcdCorrect, LcmCorrect, Succeeded, Done
  <2>2. CASE fr.op = "lcm"
    BY <1>0, <1>3, <2>2 DEF GcdInv, GcdResult, GcdRecord
  <2>. QED
    BY <2>1, <2>2
<1>. QED
  BY <1>1, <1>2, <1>3

LEMMA LcmResult ==
  ASSUME NEW m \in Int, NEW n \in Int, NEW g \in Int, IsGcd(g, m, n), g # 0,
         NEW s, s = (IF Magnitude(m) < Magnitude(n) THEN m ELSE n),
         NEW l, l = (IF Magnitude(m) < Magnitude(n) THEN n ELSE m)
  PROVE  /\ Magnitude(l * Quotient(s, g)) \in Nat
         /\ IF m = 0 \/ n = 0 THEN Magnitude(l * Quotient(s, g)) = 0
            ELSE IsLcm(Magnitude(l * Quotient(s, g)), m, n)
<1>1. ~ (m = 0 /\ n = 0) /\ g > 0
  BY GcdMeans DEF IsGcd
<1>2. s \in Int /\ l \in Int /\ ((s = m /\ l = n) \/ (s = n /\ l = m))
        /\ (m = 0 \/ n = 0 <=> s = 0)
  BY <1>1, MagnitudeProperties
<1>. DEFINE z == Magnitude(s) \div g
<1>3. Magnitude(s) \in Nat /\ z \in Nat /\ (s = 0 => z = 0)
  <2>1. Magnitude(s) \in Nat /\ (s = 0 => Magnitude(s) = 0)
    BY <1>2, MagnitudeProperties
  <2>. QED
    BY <1>1, <2>1
<1>4. Quotient(s, g) = Sgn(s) * 1 * z
  BY <1>1, <1>3 DEF Quotient, Magnitude, Sgn
<1>. HIDE DEF z
<1>5. Quotient(s, g) \in Int /\ (Quotient(s, g) = z \/ Quotient(s, g) = - z)
  BY <1>2, <1>3, <1>4 DEF Sgn
<1>6. Magnitude(l) \in Nat /\ (l = Magnitude(l) \/ l = - Magnitude(l))
  BY <1>2, MagnitudeProperties
<1>. DEFINE p == l * Quotient(s, g)
<1>7. Magnitude(p) = Magnitude(l) * z /\ Magnitude(p) \in Nat
  <2>1. \A a, b \in Nat : a * b \in Nat /\ (- a) * b = - (a * b) /\ a * (- b) = - (a * b)
                            /\ (- a) * (- b) = a * b
    OBVIOUS
  <2>. DEFINE y == Magnitude(l) * z
  <2>2. p = y \/ p = - y
    BY <1>3, <1>5, <1>6, <2>1
  <2>3. y \in Nat
    BY <1>3, <1>6, <2>1
  <2>. HIDE DEF p, y
  <2>4. Magnitude(p) = y
    BY <2>2, <2>3 DEF Magnitude, Sgn
  <2>. QED
    BY <2>3, <2>4 DEF y
<1>8. CASE s = 0
  <2>1. Magnitude(l) * 0 = 0
    BY <1>6
  <2>. QED
    BY <1>2, <1>3, <1>7, <1>8, <2>1
<1>9. CASE s # 0
  <2>1. m # 0 /\ n # 0 /\ l # 0
    BY <1>2, <1>9
  <2>2. Magnitude(s) > 0 /\ Magnitude(l) > 0
    BY <1>2, <1>9, <2>1, MagnitudeProperties
  <2>3. IsGcd(g, Magnitude(s), Magnitude(l))
    BY <1>2, GcdOfMagnitudes
  <2>4. /\ Magnitude(p) > 0
        /\ Divides(Magnitude(s), Magnitude(p)) /\ Divides(Magnitude(l), Magnitude(p))
        /\ \A d \in Nat : d > 0 /\ Divides(Magnitude(s), d) /\ Divides(Magnitude(l), d)
             => Magnitude(p) <= d
    <3>. DEFINE S == Magnitude(s)
                L == Magnitude(l)
                P == L * (S \div g)
    <3>1. S \in Nat /\ S > 0 /\ L \in Nat /\ L > 0 /\ IsGcd(g, S, L) /\ P = Magnitude(p)
      BY <1>3, <1>6, <1>7, <2>2, <2>3 DEF z
    <3>2. P = L * (S \div g)
      OBVIOUS
    <3>. HIDE DEF S, L
    <3>3. /\ P > 0 /\ Divides(S, P) /\ Divides(L, P)
          /\ \A d \in Nat : d > 0 /\ Divides(S, d) /\ Divides(L, d) => P <= d
      BY <3>1, LeastMultiple
    <3>. HIDE DEF P
    <3>. QED
      BY <3>1, <3>3 DEF S, L
  <2>. HIDE DEF p
  <2>5. \A d \in 1 .. Magnitude(p) - 1 : d \in Nat /\ d > 0 /\ ~ (Magnitude(p) <= d)
    BY <1>7
  <2>6. IsLcm(Magnitude(p), m, n)
    BY <1>2, <2>4, <2>5 DEF IsLcm
  <2>. QED
    BY <1>7, <2>1, <2>6 DEF p
<1>. QED
  BY <1>8, <1>9

LEMMA GcdHalveKeeps ==
  ASSUME Ownership, GcdInv, gcd_halve
  PROVE  loc' \in GcdRecord /\ GcdLoop'
<1>0. /\ fr.op \in GcdOps /\ fr' = fr /\ old' = old /\ pc = "gcd_halve"
      /\ fr.a \in Ints /\ fr.b \in Ints /\ old \in [Ints -> Int] /\ loc \in GcdRecord
      /\ old[fr.a] # 0 /\ old[fr.b] # 0
      /\ loc.u = Magnitude(old[fr.a]) /\ loc.v = Magnitude(old[fr.b])
  <2>1. fr.op \in GcdOps /\ fr' = fr
    BY StepsAtHome DEF GcdNext
  <2>. QED
    BY <2>1, GcdFrame DEF Ownership, GcdInv, gcd_halve, Goto
<1>. DEFINE a == old[fr.a]
            b == old[fr.b]
            i == mp_cnt_lsb(loc.u)
            j == mp_cnt_lsb(loc.v)
            k == MinOf(i, j)
<1>1. a \in Int /\ b \in Int /\ a # 0 /\ b # 0 /\ loc.u \in Nat /\ loc.u > 0 /\ loc.v \in Nat /\ loc.v > 0
  BY <1>0, MagnitudeProperties
<1>2. i \in Nat /\ \E x \in Nat : x % 2 = 1 /\ loc.u = x * 2 ^ i
  BY <1>1, CntLsb
<1>3. j \in Nat /\ \E x \in Nat : x % 2 = 1 /\ loc.v = x * 2 ^ j
  BY <1>1, CntLsb
<1>4. PICK x \in Nat : x % 2 = 1 /\ loc.u = x * 2 ^ i
  BY <1>2
<1>5. PICK y \in Nat : y % 2 = 1 /\ loc.v = y * 2 ^ j
  BY <1>3
<1>6. k \in Nat /\ k <= i /\ k <= j
  BY <1>2, <1>3 DEF MinOf
<1>7. loc' = [loc EXCEPT !.u = (@ \div 2 ^ k) \div 2 ^ (i - k),
                         !.v = (@ \div 2 ^ k) \div 2 ^ (j - k), !.k = k]
  BY DEF gcd_halve
<1>. HIDE DEF a, b, i, j, k
<1>8. ASSUME NEW z \in Nat, NEW e \in Nat, k <= e
      PROVE  ((z * 2 ^ e) \div 2 ^ k) \div 2 ^ (e - k) = z
  <2>. DEFINE s == 2 ^ k
              t == 2 ^ (e - k)
  <2>1. s \in Nat /\ s > 0 /\ t \in Nat /\ t > 0 /\ 2 ^ e = s * t
    BY <1>6, <1>8, TwoToMonotone, TwoTo
  <2>. HIDE DEF s, t
  <2>2. z * (s * t) = s * (t * z) + 0 /\ t * z = t * z + 0 /\ t * z \in Int
    BY <2>1
  <2>3. (z * (s * t)) \div s = t * z
    BY <2>1, <2>2, DivisionUnique
  <2>4. (t * z) \div t = z
    BY <2>1, <2>2, DivisionUnique
  <2>. QED
    BY <2>1, <2>3, <2>4 DEF s, t
<1>9. loc'.u = x /\ loc'.v = y /\ loc'.k = k
  <2>1. loc'.u = (loc.u \div 2 ^ k) \div 2 ^ (i - k) /\ loc'.v = (loc.v \div 2 ^ k) \div 2 ^ (j - k)
          /\ loc'.k = k
    BY <1>0, <1>7 DEF GcdRecord
  <2>2. ((x * 2 ^ i) \div 2 ^ k) \div 2 ^ (i - k) = x
    BY <1>2, <1>6, <1>8, Zenon
  <2>3. ((y * 2 ^ j) \div 2 ^ k) \div 2 ^ (j - k) = y
    BY <1>3, <1>6, <1>8, Zenon
  <2>. QED
    BY <1>4, <1>5, <2>1, <2>2, <2>3
<1>10. loc' \in GcdRecord
  <2>. DEFINE p == (loc.u \div 2 ^ k) \div 2 ^ (i - k)
              q == (loc.v \div 2 ^ k) \div 2 ^ (j - k)
  <2>1. loc' = [loc EXCEPT !.u = p, !.v = q, !.k = k]
    BY <1>7
  <2>. HIDE DEF p, q
  <2>2. loc'.u = p /\ loc'.v = q /\ k \in Int
    BY <1>0, <1>6, <2>1 DEF GcdRecord
  <2>3. p \in Int /\ q \in Int
    BY <1>9, <2>2
  <2>. QED
    BY <1>0, <2>1, <2>2, <2>3 DEF GcdRecord
<1>11. PICK g \in Nat : g > 0 /\ IsGcd(g, x, y)
  <2>1. x # 0
    BY <1>4
  <2>. QED
    BY <2>1, GcdExists
<1>12. IsGcd(g * 2 ^ k, a, b)
  <2>0. IsGcd(g * 2 ^ MinOf(i, j), x * 2 ^ i, y * 2 ^ j)
    BY <1>2, <1>3, <1>4, <1>5, <1>11, GcdOfOddParts, Zenon
  <2>1. IsGcd(g * 2 ^ k, loc.u, loc.v)
    BY <1>4, <1>5, <2>0 DEF k
  <2>2. g * 2 ^ k \in Int
    BY <1>6, TwoTo
  <2>. QED
    BY <1>0, <1>1, <2>1, <2>2, GcdOfMagnitudes DEF a, b
<1>13. GcdLoop'
  <2>1. /\ loc'.u \in Nat /\ loc'.v \in Nat /\ loc'.k \in Nat
        /\ loc'.u % 2 = 1 /\ (loc'.v = 0 \/ loc'.v % 2 = 1)
        /\ IsGcd(g, loc'.u, loc'.v) /\ IsGcd(g * 2 ^ loc'.k, old'[fr'.a], old'[fr'.b])
    BY <1>0, <1>4, <1>5, <1>6, <1>9, <1>11, <1>12 DEF a, b
  <2>. QED
    BY <2>1 DEF GcdLoop
<1>. QED
  BY <1>10, <1>13

LEMMA GcdStepKeeps ==
  ASSUME Ownership, GcdInv, gcd_step
  PROVE  loc' \in GcdRecord /\ GcdLoop'
<1>0. /\ fr.op \in GcdOps /\ fr' = fr /\ old' = old /\ pc = "gcd_loop"
      /\ loc \in GcdRecord /\ GcdLoop /\ loc.v # 0
  <2>1. fr.op \in GcdOps /\ fr' = fr
    BY StepsAtHome DEF GcdNext
  <2>. QED
    BY <2>1 DEF GcdInv, gcd_step, Goto
<1>. DEFINE u == MinOf(loc.u, loc.v)
            v == loc.u + loc.v - u
            w == v - u
            e == mp_cnt_lsb(w)
            h == w \div 2 ^ e
<1>1. PICK g \in Nat : IsGcd(g, loc.u, loc.v) /\ IsGcd(g * 2 ^ loc.k, old[fr.a], old[fr.b])
  BY <1>0 DEF GcdLoop
<1>2. u \in Nat /\ v \in Nat /\ w \in Nat /\ u % 2 = 1 /\ v % 2 = 1
        /\ ((u = loc.u /\ v = loc.v) \/ (u = loc.v /\ v = loc.u))
  BY <1>0 DEF GcdLoop, MinOf
<1>3. loc' = [loc EXCEPT !.u = u, !.v = h]
  BY DEF gcd_step
<1>. HIDE DEF u, v
<1>4. IsGcd(g, u, w)
  <2>1. IsGcd(g, v, u)
    BY <1>0, <1>1, <1>2, GcdOfMagnitudes DEF GcdLoop
  <2>2. v - u * 1 = w /\ u \in Int /\ v \in Int /\ 1 \in Int /\ g \in Int
    BY <1>2
  <2>3. IsGcd(g, u, v - u * 1)
    BY <2>1, <2>2, GcdStep, Zenon
  <2>. QED
    BY <2>2, <2>3
<1>. HIDE DEF w, e
<1>5. h \in Nat /\ (h = 0 \/ h % 2 = 1) /\ IsGcd(g, u, h)
  <2>1. CASE w = 0
    <3>1. e = 0 /\ 2 ^ e = 1
      BY <2>1, CntLsbFacts, TwoTo DEF e
    <3>2. h = w
      BY <2>1, <3>1
    <3>. QED
      BY <1>2, <1>4, <2>1, <3>2
  <2>2. CASE w # 0
    <3>1. e \in Nat /\ \E m \in Nat : m % 2 = 1 /\ w = m * 2 ^ e
      BY <1>2, <2>2, CntLsb DEF e
    <3>2. PICK m \in Nat : m % 2 = 1 /\ w = m * 2 ^ e
      BY <3>1
    <3>3. h = m
      <4>. DEFINE s == 2 ^ e
      <4>1. s \in Nat /\ s > 0
        BY <3>1, TwoTo
      <4>2. w = s * m + 0
        BY <3>2, <4>1
      <4>. HIDE DEF s
      <4>3. w \div s = m
        BY <4>1, <4>2, DivisionUnique
      <4>. QED
        BY <4>3 DEF s
    <3>4. IsGcd(g, u, m)
      <4>1. IsGcd(g, u, m * 2 ^ e) /\ g \in Int
        BY <1>4, <3>2
      <4>. QED
        BY <1>2, <3>1, <4>1, GcdHalved, Zenon
    <3>. QED
      BY <3>2, <3>3, <3>4
  <2>. QED
    BY <2>1, <2>2
<1>. HIDE DEF h
<1>6. loc'.u = u /\ loc'.v = h /\ loc'.k = loc.k /\ loc' \in GcdRecord
  <2>1. u \in Int /\ h \in Int
    BY <1>2, <1>5
  <2>. QED
    BY <1>0, <1>3, <2>1 DEF GcdRecord
<1>7. GcdLoop'
  <2>1. /\ loc'.u \in Nat /\ loc'.v \in Nat /\ loc'.k \in Nat
        /\ loc'.u % 2 = 1 /\ (loc'.v = 0 \/ loc'.v % 2 = 1)
        /\ IsGcd(g, loc'.u, loc'.v) /\ IsGcd(g * 2 ^ loc'.k, old'[fr'.a], old'[fr'.b])
    BY <1>0, <1>1, <1>2, <1>5, <1>6 DEF GcdLoop
  <2>. QED
    BY <2>1 DEF GcdLoop
<1>. QED
  BY <1>6, <1>7

LEMMA GcdInvKept ==
  ASSUME Ownership, GcdInv, GcdNext
  PROVE  GcdInv'
<1>. DEFINE a == old[fr.a]
            b == old[fr.b]
<1>0. /\ fr.op \in GcdOps /\ fr' = fr
      /\ fr.a \in Ints /\ fr.b \in Ints /\ fr.c \in Ints
      /\ val \in [Ints -> Int] /\ old \in [Ints -> Int]
      /\ fr.op \in {"gcd", "lcm"} /\ GcdOwns
  BY StepsAtHome, GcdFrame DEF Ownership, GcdInv, GcdOps
<1>1. CASE gcd_of_zero
  <2>0. pc = "gcd" /\ (A = 0 \/ B = 0) /\ val = old
    BY <1>0, <1>1 DEF gcd_of_zero, GcdInv
  <2>. DEFINE x == IF A = 0 THEN fr.b ELSE fr.a
  <2>1. Magnitude(val[x]) \in Nat /\ IsGcd(Magnitude(val[x]), old[fr.a], old[fr.b])
    <3>1. CASE A = 0
      <4>1. IsGcd(Magnitude(b), b, 0) /\ Magnitude(b) \in Nat
        BY <1>0, GcdWithZero, MagnitudeProperties
      <4>2. IsGcd(Magnitude(b), 0, b)
        BY <1>0, <4>1, GcdOfMagnitudes
      <4>. QED
        BY <2>0, <3>1, <4>1, <4>2 DEF A
    <3>2. CASE A # 0
      <4>1. IsGcd(Magnitude(a), a, 0) /\ Magnitude(a) \in Nat
        BY <1>0, GcdWithZero, MagnitudeProperties
      <4>. QED
        BY <2>0, <3>2, <4>1 DEF A, B
    <3>. QED
      BY <3>1, <3>2
  <2>2. GcdResult(Magnitude(val[x]), "OKAY", {}) \/ GcdReturn("MEM", {})
    BY <1>1 DEF gcd_of_zero
  <2>. HIDE DEF x
  <2>. QED
    BY <1>0, <2>0, <2>1, <2>2, GcdEnds
<1>2. CASE gcd_init_u
  <2>0. pc = "gcd" /\ a # 0 /\ b # 0
    BY <1>0, <1>2 DEF gcd_init_u, GcdInv, A, B
  <2>1. CASE GcdReturn("MEM", {})
    BY <1>0, <2>0, <2>1, GcdEnds
  <2>2. CASE pc' = "gcd_init_v" /\ UNCHANGED << val, loc, fr, err, old >>
    BY <1>0, <2>0, <2>2 DEF GcdInv
  <2>. QED
    BY <1>2, <2>1, <2>2 DEF gcd_init_u
<1>3. CASE gcd_init_v
  <2>0. pc = "gcd_init_v" /\ val = old /\ a # 0 /\ b # 0
    BY <1>0, <1>3 DEF gcd_init_v, GcdInv
  <2>1. CASE GcdReturn("MEM", {"v"})
    BY <1>0, <2>0, <2>1, GcdEnds
  <2>2. CASE /\ loc' = GcdLocals(Magnitude(A), Magnitude(B)) /\ pc' = "gcd_halve"
             /\ UNCHANGED << val, fr, err, old >>
    <3>1. Magnitude(a) \in Int /\ Magnitude(b) \in Int
      BY <1>0, MagnitudeProperties
    <3>2. loc' = GcdLocals(Magnitude(a), Magnitude(b))
      BY <2>0, <2>2 DEF A, B
    <3>3. loc' \in GcdRecord /\ loc'.u = Magnitude(a) /\ loc'.v = Magnitude(b)
      BY <3>1, <3>2 DEF GcdLocals, GcdRecord
    <3>. QED
      BY <1>0, <2>0, <2>2, <3>3 DEF GcdInv
  <2>. QED
    BY <1>3, <2>1, <2>2 DEF gcd_init_v
<1>4. CASE gcd_halve
  <2>1. loc' \in GcdRecord /\ GcdLoop'
    BY <1>4, GcdHalveKeeps
  <2>2. pc = "gcd_halve" /\ pc' = "gcd_loop" /\ UNCHANGED << val, live, fr, err, old >>
    BY <1>4 DEF gcd_halve, Goto
  <2>. QED
    BY <1>0, <2>1, <2>2 DEF GcdInv
<1>5. CASE gcd_step
  <2>1. loc' \in GcdRecord /\ GcdLoop'
    BY <1>5, GcdStepKeeps
  <2>2. pc = "gcd_loop" /\ pc' = "gcd_loop" /\ UNCHANGED << val, live, fr, err, old >>
    BY <1>5 DEF gcd_step, Goto
  <2>. QED
    BY <1>0, <2>1, <2>2 DEF GcdInv
<1>6. CASE gcd_end
  <2>0. pc = "gcd_loop" /\ loc.v = 0 /\ GcdLoop /\ a # 0 /\ b # 0
    BY <1>0, <1>6 DEF gcd_end, GcdInv
  <2>1. PICK g \in Nat : IsGcd(g, loc.u, loc.v) /\ IsGcd(g * 2 ^ loc.k, a, b)
    BY <2>0 DEF GcdLoop
  <2>2. loc.u \in Nat /\ loc.k \in Nat /\ loc.u > 0
    BY <2>0 DEF GcdLoop
  <2>3. g = loc.u
    <3>1. IsGcd(Magnitude(loc.u), loc.u, 0) /\ Magnitude(loc.u) = loc.u
      BY <2>2, GcdWithZero, MagnitudeProperties
    <3>. QED
      BY <2>0, <2>1, <2>2, <3>1, GcdUnique
  <2>. DEFINE s == 2 ^ loc.k
              n == loc.u * s
  <2>4. s \in Nat /\ s > 0 /\ loc.k < s
    BY <2>2, TwoTo, BelowTwoTo
  <2>5. n \in Nat /\ n > 0 /\ s <= n
    <3>1. \A p, q \in Nat : p > 0 /\ q > 0 => p * q \in Nat /\ p * q > 0 /\ q <= p * q
      OBVIOUS
    <3>. HIDE DEF s
    <3>. QED
      BY <2>2, <2>4, <3>1
  <2>6. IsGcd(n, a, b)
    BY <2>1, <2>3
  <2>. HIDE DEF s, n
  <2>7. loc.k <= Magnitude(a) + Magnitude(b)
    <3>1. Divides(n, a)
      BY <1>0, <2>0, <2>5, <2>6, GcdMeans DEF Common
    <3>2. n <= Magnitude(a)
      BY <1>0, <2>0, <2>5, <3>1, DivisorBound
    <3>3. Magnitude(a) \in Nat /\ Magnitude(b) \in Nat
      BY <1>0, MagnitudeProperties
    <3>. QED
      BY <2>2, <2>4, <2>5, <3>2, <3>3
  <2>8. CASE GcdResult(loc.u * 2 ^ loc.k, "OKAY", {"u", "v"})
    <3>1. GcdResult(n, "OKAY", {"u", "v"})
      BY <2>8 DEF n, s
    <3>. QED
      BY <1>0, <2>0, <2>5, <2>6, <3>1, GcdEnds
  <2>9. CASE GcdResult(loc.u, "MEM", {"u", "v"})
    <3>1. IsGcd(loc.u * 2 ^ loc.k, a, b)
      BY <2>6 DEF n, s
    <3>. QED
      BY <1>0, <2>0, <2>2, <2>7, <2>9, <3>1, GcdEnds
  <2>10. CASE GcdReturn("MEM", {"u", "v"})
    BY <1>0, <2>0, <2>10, GcdEnds
  <2>. QED
    BY <1>6, <2>8, <2>9, <2>10 DEF gcd_end
<1>7. CASE lcm_init
  <2>0. pc = "lcm" /\ fr.op = "lcm" /\ val = old
    BY <1>0, <1>7 DEF lcm_init, GcdInv, GcdOwns
  <2>1. CASE Refuse("MEM", {})
    BY <1>0, <2>0, <2>1 DEF GcdInv, Refuse, Return, GcdCorrect, LcmCorrect, Succeeded, Done, GcdFailure
  <2>2. CASE loc' = GcdLocals(0, 0) /\ pc' = "gcd" /\ UNCHANGED << val, fr, err, old >>
    <3>1. loc' \in GcdRecord
      BY <2>2 DEF GcdLocals, GcdRecord
    <3>. QED
      BY <1>0, <2>0, <2>2, <3>1 DEF GcdInv
  <2>. QED
    BY <1>7, <2>1, <2>2 DEF lcm_init
<1>8. CASE lcm_div
  <2>0. /\ pc = "lcm_div" /\ fr.op = "lcm" /\ val = old /\ err \in {"OKAY", "MEM"}
        /\ (err = "OKAY" => IsGcd(loc.t1, a, b)) /\ loc \in GcdRecord
    BY <1>0, <1>8 DEF lcm_div, GcdInv, GcdOwns
  <2>. USE DEF Refuse, Return, GcdCorrect, LcmCorrect, Succeeded, Done, GcdFailure
  <2>1. CASE err # "OKAY" /\ Refuse(err, LcmTemps)
    BY <1>0, <2>0, <2>1 DEF GcdInv
  <2>2. CASE err = "OKAY" /\ loc.t1 = 0 /\ Refuse("VAL", LcmTemps)
    <3>1. a = 0 /\ b = 0
      BY <2>0, <2>2 DEF IsGcd
    <3>. QED
      BY <1>0, <2>0, <2>2, <3>1 DEF GcdInv
  <2>3. CASE Refuse("MEM", LcmTemps)
    BY <1>0, <2>0, <2>3 DEF GcdInv
  <2>4. CASE /\ err = "OKAY" /\ loc.t1 # 0
             /\ loc' = [loc EXCEPT !.t2 = Quotient(Smaller, loc.t1)] /\ Goto("lcm_mul")
    <3>. DEFINE q == Quotient(Smaller, loc.t1)
    <3>1. Smaller \in Int /\ Smaller' = Smaller /\ loc.t1 \in Int
      BY <1>0, <2>0, <2>4 DEF Smaller, A, B, Goto, GcdRecord
    <3>2. q \in Int
      <4>1. Magnitude(Smaller) \in Nat /\ Magnitude(loc.t1) \in Nat /\ Magnitude(loc.t1) > 0
        BY <2>4, <3>1, MagnitudeProperties
      <4>2. Magnitude(Smaller) \div Magnitude(loc.t1) \in Int
        BY <4>1
      <4>3. Sgn(Smaller) \in {-1, 1} /\ Sgn(loc.t1) \in {-1, 1}
        BY DEF Sgn
      <4>. QED
        BY <4>2, <4>3 DEF Quotient
    <3>3. loc' = [loc EXCEPT !.t2 = q]
      BY <2>4
    <3>4. q = Quotient(Smaller, loc.t1)
      OBVIOUS
    <3>. HIDE DEF q
    <3>5. loc' \in GcdRecord /\ loc'.t1 = loc.t1 /\ loc'.t2 = q
      BY <2>0, <3>2, <3>3 DEF GcdRecord
    <3>. QED
      BY <1>0, <2>0, <2>4, <3>1, <3>4, <3>5 DEF GcdInv, Goto
  <2>. QED
    BY <1>8, <2>1, <2>2, <2>3, <2>4 DEF lcm_div
<1>9. CASE lcm_mul
  <2>0. /\ pc = "lcm_mul" /\ fr.op = "lcm" /\ val = old /\ loc \in GcdRecord
        /\ IsGcd(loc.t1, a, b) /\ loc.t1 # 0 /\ loc.t2 = Quotient(Smaller, loc.t1)
    BY <1>0, <1>9 DEF lcm_mul, GcdInv, GcdOwns
  <2>1. CASE Put(fr.c, Magnitude(Larger * loc.t2)) /\ Return("OKAY", LcmTemps)
    <3>. DEFINE l == Magnitude(Larger * loc.t2)
    <3>1. a \in Int /\ b \in Int /\ loc.t1 \in Int
      BY <1>0, <2>0 DEF GcdRecord
    <3>2. Smaller = (IF Magnitude(a) < Magnitude(b) THEN a ELSE b)
            /\ Larger = (IF Magnitude(a) < Magnitude(b) THEN b ELSE a)
      BY <2>0 DEF Smaller, Larger, A, B
    <3>3. l \in Nat /\ IF a = 0 \/ b = 0 THEN l = 0 ELSE IsLcm(l, a, b)
      BY <2>0, <3>1, <3>2, LcmResult
    <3>4. ~ (a = 0 /\ b = 0)
      BY <2>0 DEF IsGcd
    <3>5. val' = [val EXCEPT ![fr.c] = l] /\ pc' = "done" /\ err' = "OKAY" /\ old' = old
      BY <2>1 DEF Put, Return
    <3>. HIDE DEF l
    <3>6. val' \in [Ints -> Int] /\ val'[fr.c] = l
      BY <1>0, <3>3, <3>5
    <3>. QED
      BY <1>0, <2>0, <3>3, <3>4, <3>5, <3>6 DEF GcdInv, GcdCorrect, LcmCorrect, Succeeded, Done
  <2>2. CASE /\ \E n \in FailedProducts(val[fr.c], Larger, loc.t2, FALSE) : Put(fr.c, Magnitude(n))
             /\ Return("MEM", LcmTemps)
    <3>1. PICK n \in FailedProducts(val[fr.c], Larger, loc.t2, FALSE) : Put(fr.c, Magnitude(n))
      BY <2>2
    <3>. DEFINE l == Magnitude(n)
    <3>2. /\ a \in Int /\ b \in Int /\ loc.t1 \in Int /\ val[fr.c] \in Int
          /\ Smaller = (IF Magnitude(a) < Magnitude(b) THEN a ELSE b)
          /\ Larger = (IF Magnitude(a) < Magnitude(b) THEN b ELSE a)
      BY <1>0, <2>0 DEF GcdRecord, Smaller, Larger, A, B
    <3>3. loc.t2 \in Int /\ Magnitude(loc.t2) <= Magnitude(Smaller)
      BY <2>0, <3>2, QuotientSmaller
    <3>4. /\ n \in Int
          /\ \/ l = Magnitude(old[fr.c])
             \/ UsesToomCook(Larger, loc.t2, FALSE) /\ l \in Scraps
      <4>1. Larger \in Int /\ n \in FailedProducts(val[fr.c], Larger, loc.t2, FALSE)
        BY <3>1, <3>2
      <4>2. /\ n \in Int
            /\ \/ Magnitude(n) = Magnitude(val[fr.c])
               \/ UsesToomCook(Larger, loc.t2, FALSE) /\ Magnitude(n) \in Scraps
        BY <3>2, <3>3, <4>1, FailedProductFacts, Zenon
      <4>. QED
        BY <2>0, <4>2
    <3>5. UsesToomCook(Larger, loc.t2, FALSE) => MinOf(Used(a), Used(b)) >= MP_MUL_TOOM_CUTOFF
      <4>1. SUFFICES ASSUME UsesToomCook(Larger, loc.t2, FALSE)
                     PROVE  Used(a) >= MP_MUL_TOOM_CUTOFF /\ Used(b) >= MP_MUL_TOOM_CUTOFF
        BY DEF MinOf
      <4>2. Larger \in Int /\ Smaller \in Int
        BY <3>2
      <4>3. Used(Larger) >= MP_MUL_TOOM_CUTOFF /\ Used(loc.t2) >= MP_MUL_TOOM_CUTOFF
        BY <3>3, <4>1, <4>2, ToomCookLong
      <4>4. Used(loc.t2) <= Used(Smaller)
        <5>1. Magnitude(loc.t2) \in Nat /\ Magnitude(Smaller) \in Nat
          BY <3>3, <4>2, MagnitudeProperties
        <5>2. Used(Magnitude(loc.t2)) <= Used(Magnitude(Smaller))
          BY <3>3, <5>1, UsedMonotone
        <5>. QED
          BY <3>3, <4>2, <5>2, UsedOfMagnitude
      <4>5. Used(loc.t2) \in Nat /\ Used(Smaller) \in Nat
        BY <3>3, <4>2, UsedOfMagnitude
      <4>6. Used(Smaller) >= MP_MUL_TOOM_CUTOFF
        BY <4>3, <4>4, <4>5, ToomCookAssumption
      <4>. QED
        BY <3>2, <4>3, <4>6
    <3>6. l \in Int
      BY <3>4, MagnitudeProperties
    <3>7. val' = [val EXCEPT ![fr.c] = l] /\ pc' = "done" /\ err' = "MEM" /\ old' = old /\ fr' = fr
      BY <2>2, <3>1 DEF Put, Return
    <3>8. val' \in [Ints -> Int] /\ val'[fr.c] = l
      BY <1>0, <3>6, <3>7
    <3>. HIDE DEF l
    <3>9. GcdFailure'
      BY <2>0, <3>4, <3>5, <3>7, <3>8 DEF GcdFailure
    <3>. QED
      BY <1>0, <2>0, <3>7, <3>8, <3>9 DEF GcdInv, GcdCorrect, LcmCorrect, Succeeded, Done
  <2>. QED
    BY <1>9, <2>1, <2>2 DEF lcm_mul
<1>. QED
  BY <1>1, <1>2, <1>3, <1>4, <1>5, <1>6, <1>7, <1>8, <1>9 DEF GcdNext

(* A step of another component leaves this one's invariant true.           *)
LEMMA GcdInvInductive ==
  ASSUME Ownership, GcdInv, [Next]_vars
  PROVE  GcdInv'
<1>1. CASE GcdNext
  BY <1>1, GcdInvKept
<1>2. CASE DivNext \/ RootNext \/ InverseNext \/ PowerNext \/ ResidueNext
  <2>1. fr'.op \notin GcdOps
    BY <1>2, StepsAtHome DEF GcdOps, DivOps, RootOps, InverseOps, PowerOps, ResidueOps
  <2>. QED
    BY <2>1 DEF GcdInv
<1>3. CASE UNCHANGED vars
  BY <1>3 DEF vars, GcdInv, GcdLoop, Smaller, A, B, GcdCorrect, LcmCorrect, Succeeded, Done, GcdFailure
<1>. QED
  BY <1>1, <1>2, <1>3 DEF Next

LEMMA GcdInvInit ==
  ASSUME Init
  PROVE  GcdInv
<1>1. fr \in Frames /\ val \in Contents(fr) /\ old = val /\ pc = fr.op
  BY DEF Init
<1>2. val \in [Ints -> Int]
  BY <1>1, ContentsAssumption
<1>. QED
  BY <1>1, <1>2 DEF GcdInv, GcdOps

LEMMA GcdKept == Spec => []GcdInv
<1>1. Init => GcdInv
  BY GcdInvInit
<1>2. Ownership /\ GcdInv /\ [Next]_vars => GcdInv'
  BY GcdInvInductive
<1>. QED
  BY <1>1, <1>2, Owned, PTL DEF Spec

(* mp_gcd leaves the greatest common divisor and mp_lcm the least common   *)
(* multiple, of all integers and whichever arguments are the same one.     *)
THEOREM GcdAndLcm == Spec => []GcdAndLcmCorrect
<1>1. Ownership /\ GcdInv => GcdAndLcmCorrect
  BY DEF GcdInv, GcdOps, GcdAndLcmCorrect, GcdCorrect, LcmCorrect, Succeeded, Done
<1>. QED
  BY <1>1, Owned, GcdKept, PTL

(* The loop of mp_gcd keeps, of odd numbers, the divisor it is looking     *)
(* for: it is not above u, and with the power of two taken out before it   *)
(* is the greatest common divisor of the operands.                         *)
THEOREM GcdLoops == Spec => []GcdLoopInvariant
<1>1. Ownership /\ GcdInv => GcdLoopInvariant
  <2>. SUFFICES ASSUME Ownership, GcdInv, pc = "gcd_loop" PROVE GcdLoopInvariant
    BY DEF GcdLoopInvariant
  <2>1. fr.op \in GcdOps
    <3>1. fr.op \in GcdOps \cup DivOps \cup RootOps \cup InverseOps \cup PowerOps \cup ResidueOps
      BY Operations DEF Ownership
    <3>2. fr.op \notin RootOps /\ fr.op \notin DivOps /\ fr.op \notin InverseOps
      BY DEF Ownership, RootOwns, DivOwns, SchoolPcs, InverseOwns, InvPcs
    <3>3. fr.op \notin PowerOps /\ fr.op \notin ResidueOps
      BY DEF Ownership, PowerOwns, ResidueOwns
    <3>. QED
      BY <3>1, <3>2, <3>3
  <2>2. GcdLoop
    BY <2>1 DEF GcdInv
  <2>3. PICK g \in Nat : IsGcd(g, loc.u, loc.v) /\ IsGcd(g * 2 ^ loc.k, old[fr.a], old[fr.b])
    BY <2>2 DEF GcdLoop
  <2>4. loc.u \in Nat /\ loc.u > 0 /\ loc.u % 2 = 1 /\ loc.v \in Nat /\ (loc.v = 0 \/ loc.v % 2 = 1)
    BY <2>2 DEF GcdLoop
  <2>5. g > 0 /\ Divides(g, loc.u)
    BY <2>3, <2>4 DEF IsGcd
  <2>6. g <= loc.u
    BY <2>4, <2>5 DEF Divides
  <2>7. g \in 1 .. loc.u
    BY <2>4, <2>5, <2>6
  <2>. QED
    BY <2>3, <2>4, <2>7 DEF GcdLoopInvariant
<1>. QED
  BY <1>1, Owned, GcdKept, PTL

-----------------------------------------------------------------------------
(* mp_invmod and mp_exteuclid.                                             *)
LEMMA InverseFrame ==
  ASSUME fr \in Frames, fr.op \in InverseOps
  PROVE  /\ fr.a \in Ints /\ fr.b \in Ints
         /\ fr.op = "invmod" => fr.c \in Ints
         /\ fr.op = "exteuclid" =>
              /\ fr.U1 \in Ints \cup {NULL} /\ fr.U2 \in Ints \cup {NULL} /\ fr.U3 \in Ints \cup {NULL}
              /\ fr.U1 = fr.U2 => fr.U1 = NULL
              /\ fr.U1 = fr.U3 => fr.U1 = NULL
              /\ fr.U2 = fr.U3 => fr.U2 = NULL
<1>1. fr \in GcdFrames \cup DivFrames \cup RootFrames \cup InvmodFrames \cup ExteuclidFrames
               \cup ExptFrames \cup ExptmodFrames
               \cup KroneckerFrames \cup IsSquareFrames \cup SqrtmodFrames
  BY FramesAssumption
<1>2. fr \notin GcdFrames /\ fr \notin DivFrames /\ fr \notin RootFrames
  BY DEF GcdFrames, DivFrames, RootFrames, InverseOps
<1>3. fr \notin ExptFrames /\ fr \notin ExptmodFrames /\ fr \notin KroneckerFrames
        /\ fr \notin IsSquareFrames /\ fr \notin SqrtmodFrames
  BY DEF ExptFrames, ExptmodFrames, KroneckerFrames, IsSquareFrames, SqrtmodFrames, InverseOps
<1>4. fr \in InvmodFrames \/ fr \in ExteuclidFrames
  BY <1>1, <1>2, <1>3
<1>5. fr \in InvmodFrames => fr.op = "invmod" /\ fr.a \in Ints /\ fr.b \in Ints /\ fr.c \in Ints
  BY DEF InvmodFrames
<1>6. fr \in ExteuclidFrames =>
        /\ fr.op = "exteuclid" /\ fr.a \in Ints /\ fr.b \in Ints
        /\ fr.U1 \in Ints \cup {NULL} /\ fr.U2 \in Ints \cup {NULL} /\ fr.U3 \in Ints \cup {NULL}
        /\ fr.U1 = fr.U2 => fr.U1 = NULL
        /\ fr.U1 = fr.U3 => fr.U1 = NULL
        /\ fr.U2 = fr.U3 => fr.U2 = NULL
  BY DEF ExteuclidFrames
<1>. QED
  BY <1>4, <1>5, <1>6

LEMMA Halves ==
  ASSUME NEW n \in Int
  PROVE  /\ n \div 2 \in Int
         /\ n % 2 = 0 => n = 2 * (n \div 2)
         /\ n % 2 # 0 => n % 2 = 1 /\ n = 2 * (n \div 2) + 1
OBVIOUS

LEMMA ParityOfProduct ==
  ASSUME NEW p \in Int, NEW q \in Int
  PROVE  (p * q) % 2 = 1 <=> p % 2 = 1 /\ q % 2 = 1
<1>. DEFINE i == p \div 2
            j == q \div 2
<1>1. i \in Int /\ j \in Int /\ i * j \in Int /\ i * q \in Int /\ p * j \in Int /\ p * q \in Int
  OBVIOUS
<1>2. CASE p % 2 = 1 /\ q % 2 = 1
  <2>1. p = 2 * i + 1 /\ q = 2 * j + 1
    BY <1>2, Halves
  <2>. HIDE DEF i, j
  <2>2. p * q = 2 * (2 * (i * j) + i + j) + 1
    BY <1>1, <2>1
  <2>. QED
    BY <1>1, <1>2, <2>2
<1>3. CASE p % 2 # 1
  <2>1. p = 2 * i
    BY <1>3, Halves
  <2>. HIDE DEF i, j
  <2>2. p * q = 2 * (i * q)
    BY <1>1, <2>1
  <2>. DEFINE t == i * q
              m == p * q
  <2>3. t \in Int /\ m = 2 * t
    BY <1>1, <2>2
  <2>. HIDE DEF t, m
  <2>4. m % 2 = 0
    BY <2>3
  <2>. QED
    BY <1>3, <2>4 DEF m
<1>4. CASE q % 2 # 1
  <2>1. q = 2 * j
    BY <1>4, Halves
  <2>. HIDE DEF i, j
  <2>2. p * q = 2 * (p * j)
    BY <1>1, <2>1
  <2>. DEFINE t == p * j
              m == p * q
  <2>3. t \in Int /\ m = 2 * t
    BY <1>1, <2>2
  <2>. HIDE DEF t, m
  <2>4. m % 2 = 0
    BY <2>3
  <2>. QED
    BY <1>4, <2>4 DEF m
<1>. QED
  BY <1>2, <1>3, <1>4

(* A linear combination that is even, of numbers that are not both even,   *)
(* has one with half of its value.                                         *)
Combination(n, p, x, q, y) == n = p * x + q * y

LEMMA HalfCombination ==
  ASSUME NEW u \in Int, NEW p \in Int, NEW q \in Int, NEW x \in Int, NEW y \in Int,
         Combination(u, p, x, q, y), u % 2 = 0, x % 2 = 1 \/ y % 2 = 1
  PROVE  /\ p % 2 = 0 /\ q % 2 = 0 => Combination(u \div 2, p \div 2, x, q \div 2, y)
         /\ ~ (p % 2 = 0 /\ q % 2 = 0) =>
              Combination(u \div 2, (p + y) \div 2, x, (q - x) \div 2, y)
<1>. USE DEF Combination
<1>1. ASSUME NEW r \in Int, NEW s \in Int, u = r * x + s * y, r % 2 = 0, s % 2 = 0
      PROVE  u \div 2 = (r \div 2) * x + (s \div 2) * y
  <2>. DEFINE i == r \div 2
              j == s \div 2
  <2>1. i \in Int /\ j \in Int /\ r = 2 * i /\ s = 2 * j
    BY <1>1, Halves
  <2>. HIDE DEF i, j
  <2>2. (2 * i) * x + (2 * j) * y = 2 * (i * x + j * y) /\ i * x + j * y \in Int
    BY <2>1
  <2>3. u = 2 * (i * x + j * y)
    BY <1>1, <2>1, <2>2
  <2>4. u \div 2 = i * x + j * y
    BY <2>2, <2>3
  <2>. QED
    BY <2>4 DEF i, j
<1>2. CASE ~ (p % 2 = 0 /\ q % 2 = 0)
  <2>. DEFINE i == p * x
              j == q * y
  <2>1. i \in Int /\ j \in Int /\ i + j = u
    OBVIOUS
  <2>2. (i % 2 = 1 <=> p % 2 = 1 /\ x % 2 = 1) /\ (j % 2 = 1 <=> q % 2 = 1 /\ y % 2 = 1)
    BY ParityOfProduct
  <2>. HIDE DEF i, j
  <2>3. (p + y) % 2 = 0 /\ (q - x) % 2 = 0
    <3>1. i % 2 = 1 <=> j % 2 = 1
      BY <2>1
    <3>. QED
      BY <1>2, <2>2, <3>1
  <2>4. u = (p + y) * x + (q - x) * y
    OBVIOUS
  <2>5. p + y \in Int /\ q - x \in Int
    OBVIOUS
  <2>. DEFINE r == p + y
              s == q - x
  <2>6. r \in Int /\ s \in Int /\ u = r * x + s * y /\ r % 2 = 0 /\ s % 2 = 0
    BY <2>3, <2>4, <2>5
  <2>. HIDE DEF r, s
  <2>7. u \div 2 = (r \div 2) * x + (s \div 2) * y
    BY <1>1, <2>6
  <2>. QED
    BY <1>2, <2>7 DEF r, s
<1>. QED
  BY <1>1, <1>2

(* So it is with a congruence to an odd modulus.                           *)
LEMMA HalfResidue ==
  ASSUME NEW x \in Nat, x % 2 = 1, NEW u \in Int, u % 2 = 0, NEW q \in Int, NEW y \in Int,
         Divides(x, u - q * y)
  PROVE  Divides(x, (u \div 2) - (IF q % 2 = 0 THEN q \div 2 ELSE (q - x) \div 2) * y)
<1>. DEFINE h == u \div 2
            r == IF q % 2 = 0 THEN q ELSE q - x
            i == r \div 2
<1>1. h \in Int /\ u = 2 * h
  BY Halves
<1>2. r \in Int /\ r % 2 = 0
  OBVIOUS
<1>3. i \in Int /\ r = 2 * i
  BY <1>2, Halves
<1>4. Divides(x, u - r * y)
  <2>1. CASE q % 2 = 0
    BY <2>1
  <2>2. CASE q % 2 # 0
    <3>1. u - r * y = (u - q * y) + x * y /\ u - q * y \in Int /\ x * y \in Int
      BY <2>2
    <3>2. Divides(x, x * y)
      <4>1. x \in Int /\ x > 0
        OBVIOUS
      <4>. QED
        BY <4>1, DividesItself, DividesProduct, Zenon
    <3>. DEFINE m == u - q * y
                n == x * y
    <3>3. m \in Int /\ n \in Int /\ Divides(x, m) /\ Divides(x, n)
      BY <3>1, <3>2
    <3>4. u - r * y = m + n
      BY <3>1
    <3>. HIDE DEF m, n, r
    <3>5. x > 0
      OBVIOUS
    <3>6. Divides(x, m + n)
      BY <3>3, <3>5, DividesSum
    <3>. QED
      BY <3>4, <3>6
  <2>. QED
    BY <2>1, <2>2
<1>. HIDE DEF h, r, i
<1>. DEFINE d == h - i * y
<1>5. d \in Int /\ u - r * y = d * 2 ^ 1
  <2>1. 2 * h - (2 * i) * y = (h - i * y) * 2
    BY <1>1, <1>3
  <2>2. d \in Int
    BY <1>1, <1>3
  <2>. QED
    BY <1>1, <1>3, <2>1, <2>2, TwoTo
<1>6. Divides(x, d)
  <2>1. Divides(x, d * 2 ^ 1)
    BY <1>4, <1>5
  <2>. HIDE DEF d
  <2>. QED
    BY <1>5, <2>1, OddDivisor
<1>7. i = IF q % 2 = 0 THEN q \div 2 ELSE (q - x) \div 2
  BY DEF i, r
<1>. QED
  BY <1>6, <1>7 DEF h

InvRecord ==
  [odd : BOOLEAN, x : Int, y : Int, u : Int, v : Int, A : Int, B : Int, C : Int, D : Int]

(* The coefficients p, q fit n.                                            *)
Fits(p, q, n) ==
  IF loc.odd THEN Divides(loc.x, n - q * loc.y) ELSE n = p * loc.x + q * loc.y

(* What x and y are.                                                       *)
InvSides ==
  LET a == old[fr.a]
      b == old[fr.b]
  IN  IF loc.odd THEN loc.x = b /\ loc.y = a % b /\ loc.x % 2 = 1
      ELSE loc.x = a % b /\ loc.y = b /\ (loc.x % 2 = 1 \/ loc.y % 2 = 1)

(* What the binary algorithms keep: u and v, never both even, have the     *)
(* greatest common divisor of the operands, and their coefficients fit.    *)
InvLoop ==
  /\ loc \in InvRecord /\ InvSides
  /\ loc.u \in Nat /\ loc.v \in Nat /\ loc.v > 0
  /\ loc.u % 2 = 1 \/ loc.v % 2 = 1
  /\ \E g \in Nat : IsGcd(g, loc.u, loc.v) /\ IsGcd(g, old[fr.a], old[fr.b])
  /\ Fits(loc.A, loc.B, loc.u) /\ Fits(loc.C, loc.D, loc.v)

EuclidRecord == [u1 : Int, u2 : Int, u3 : Int, v1 : Int, v2 : Int, v3 : Int]

EuclidLoop ==
  LET a == old[fr.a]
      b == old[fr.b]
  IN  /\ loc \in EuclidRecord
      /\ loc.u3 = a * loc.u1 + b * loc.u2
      /\ loc.v3 = a * loc.v1 + b * loc.v2
      /\ \E g \in Nat : IsGcd(g, loc.u3, loc.v3) /\ IsGcd(g, a, b)

InverseInv ==
  fr.op \in InverseOps =>
    /\ val \in [Ints -> Int] /\ old \in [Ints -> Int]
    /\ pc # "done" => val = old
    /\ pc \in {"invmod"} \cup InvPcs => fr.op = "invmod"
    /\ pc \in {"exteuclid", "euclid_loop"} => fr.op = "exteuclid"
    /\ pc \in InvPcs => old[fr.b] > 1
    /\ pc = "inv_loop" => InvLoop
    /\ pc = "inv_end" => InvLoop /\ loc.u = 0
    /\ pc = "inv_correct" => loc \in InvRecord /\ Divides(old[fr.b], old[fr.a] * Coefficient - 1)
    /\ pc = "euclid_loop" => EuclidLoop
    /\ pc = "done" => InvmodCorrect /\ ExteuclidCorrect /\ (err # "OKAY" => val = old)

LEMMA HalvedFits ==
  ASSUME loc \in InvRecord, InvSides, old \in [Ints -> Int], fr.a \in Ints, fr.b \in Ints,
         old[fr.b] > 1, NEW p \in Int, NEW q \in Int, NEW n \in Nat, n % 2 = 0, Fits(p, q, n)
  PROVE  /\ Halved(p, q)[1] \in Int /\ Halved(p, q)[2] \in Int
         /\ Fits(Halved(p, q)[1], Halved(p, q)[2], n \div 2)
<1>. DEFINE x == loc.x
            y == loc.y
<1>1. x \in Int /\ y \in Int /\ loc.odd \in BOOLEAN
  BY DEF InvRecord
<1>2. CASE loc.odd
  <2>. DEFINE r == IF q % 2 = 0 THEN q \div 2 ELSE (q - x) \div 2
  <2>1. Halved(p, q)[2] = r /\ Halved(p, q)[1] \in Int /\ r \in Int
    BY <1>1, <1>2 DEF Halved, OddCoefficient, IsEven
  <2>2. x \in Nat /\ x % 2 = 1
    BY <1>1, <1>2 DEF InvSides
  <2>3. Divides(x, n - q * y)
    BY <1>2 DEF Fits
  <2>4. Divides(x, (n \div 2) - r * y)
    <3>1. n \in Int
      OBVIOUS
    <3>. HIDE DEF x, y
    <3>. QED
      BY <1>1, <2>2, <2>3, <3>1, HalfResidue, Zenon
  <2>. HIDE DEF r
  <2>. QED
    BY <1>2, <2>1, <2>4 DEF Fits
<1>3. CASE ~ loc.odd
  <2>1. x % 2 = 1 \/ y % 2 = 1
    BY <1>3 DEF InvSides
  <2>2. Combination(n, p, x, q, y)
    BY <1>3 DEF Fits, Combination
  <2>3. /\ p % 2 = 0 /\ q % 2 = 0 => Combination(n \div 2, p \div 2, x, q \div 2, y)
        /\ ~ (p % 2 = 0 /\ q % 2 = 0) =>
             Combination(n \div 2, (p + y) \div 2, x, (q - x) \div 2, y)
    <3>1. n \in Int
      OBVIOUS
    <3>. HIDE DEF x, y
    <3>. QED
      BY <1>1, <2>1, <2>2, <3>1, HalfCombination
  <2>4. Halved(p, q) = IF p % 2 = 0 /\ q % 2 = 0 THEN << p \div 2, q \div 2 >>
                       ELSE << (p + y) \div 2, (q - x) \div 2 >>
    BY <1>3 DEF Halved, OddCoefficient, IsEven
  <2>5. p \div 2 \in Int /\ q \div 2 \in Int /\ (p + y) \div 2 \in Int /\ (q - x) \div 2 \in Int
    BY <1>1
  <2>6. n \div 2 = Halved(p, q)[1] * x + Halved(p, q)[2] * y
    BY <2>3, <2>4 DEF Combination
  <2>. QED
    BY <1>3, <2>4, <2>5, <2>6 DEF Fits
<1>. QED
  BY <1>1, <1>2, <1>3

(* One number is halved, and with it its coefficients.                     *)
LEMMA HalvedGcd ==
  ASSUME NEW u \in Nat, u % 2 = 0, NEW v \in Nat, v % 2 = 1, NEW g \in Int, IsGcd(g, u, v)
  PROVE  IsGcd(g, u \div 2, v)
<1>1. u \div 2 \in Nat /\ u = (u \div 2) * 2 ^ 1 /\ 1 \in Nat
  BY TwoTo
<1>2. IsGcd(g, v, (u \div 2) * 2 ^ 1)
  BY <1>1, GcdOfMagnitudes
<1>3. IsGcd(g, v, u \div 2)
  BY <1>1, <1>2, GcdHalved, Zenon
<1>. QED
  BY <1>1, <1>3, GcdOfMagnitudes

(* The inverse that a call leaves is one, and shows that there is one.     *)
LEMMA InverseShowsGcd ==
  ASSUME NEW a \in Int, NEW b \in Nat, b > 0, NEW c \in Int, Divides(b, a * c - 1)
  PROVE  IsGcd(1, a, b)
<1>1. ASSUME NEW d \in Nat, d > 0, Common(d, a, b) PROVE d <= 1
  <2>1. PICK q \in Int : a * c - 1 = b * q
    <3>1. a * c - 1 \in Int
      OBVIOUS
    <3>. QED
      BY <3>1, DividesMeans
  <2>2. PICK i \in Int : a = d * i
    BY <1>1, DividesMeans DEF Common
  <2>3. PICK j \in Int : b = d * j
    <3>1. Divides(d, b) /\ b \in Int
      BY <1>1 DEF Common
    <3>. QED
      BY <1>1, <3>1, DividesMeans, Zenon
  <2>4. (d * i) * c - (d * j) * q = d * (i * c - j * q) /\ i * c - j * q \in Int
    OBVIOUS
  <2>5. 1 = a * c - b * q
    BY <2>1
  <2>6. 1 = d * (i * c - j * q)
    BY <2>2, <2>3, <2>4, <2>5
  <2>. DEFINE w == i * c - j * q
  <2>7. Divides(d, 1)
    <3>1. w \in Int /\ 1 = d * w /\ 1 \in Int
      BY <2>4, <2>6
    <3>. HIDE DEF w
    <3>. QED
      BY <1>1, <3>1, DividesMeans
  <2>8. d <= Magnitude(1) /\ Magnitude(1) = 1
    BY <1>1, <2>7, DivisorBound, MagnitudeProperties
  <2>. QED
    BY <2>8
<1>2. Common(1, a, b)
  BY DividesMeans, a = 1 * a, b = 1 * b DEF Common
<1>. QED
  BY <1>1, <1>2, GcdMeans

(* The loop of the binary algorithms.                                      *)
LEMMA InvContext ==
  ASSUME Ownership, InverseInv, InverseNext
  PROVE  /\ fr.op \in InverseOps /\ fr' = fr /\ old' = old
         /\ fr.a \in Ints /\ fr.b \in Ints
         /\ val \in [Ints -> Int] /\ old \in [Ints -> Int]
         /\ old[fr.a] \in Int /\ old[fr.b] \in Int
         /\ pc # "done" => val = old
         /\ pc \in {"invmod"} \cup InvPcs => fr.op = "invmod"
         /\ pc \in {"exteuclid", "euclid_loop"} => fr.op = "exteuclid"
<1>1. fr.op \in InverseOps /\ fr' = fr
  BY StepsAtHome
<1>2. fr.a \in Ints /\ fr.b \in Ints
  BY <1>1, InverseFrame DEF Ownership
<1>3. old' = old
  BY DEF InverseNext, mp_invmod, invmod_odd_init, invmod_init, inv_halve_u, inv_halve_v,
         inv_subtract, inv_end, inv_correct, mp_exteuclid, euclid_step, euclid_end,
         Refuse, Return, Goto
<1>. QED
  BY <1>1, <1>2, <1>3 DEF InverseInv

(* A call that fails for want of memory, or as it should, keeps what it    *)
(* is given.                                                               *)
LEMMA InverseRefuses ==
  ASSUME Ownership, InverseInv, InverseNext, pc # "done", NEW code, NEW cleared,
         Refuse(code, cleared), code = "MEM" \/ code = "VAL",
         code = "VAL" => fr.op = "invmod" /\
           (\/ old[fr.b] < 1 \/ (old[fr.b] = 1 /\ old[fr.a] < 0)
            \/ ~ IsGcd(1, old[fr.a], old[fr.b]))
  PROVE  InverseInv'
<1>1. pc' = "done" /\ err' = code /\ val' = val
  BY DEF Refuse, Return
<1>. QED
  BY <1>1, InvContext
     DEF InverseInv, InvPcs, InvmodCorrect, ExteuclidCorrect, Succeeded, Done, InverseOps

LEMMA InvHalvesU ==
  ASSUME Ownership, InverseInv, inv_halve_u
  PROVE  InverseInv'
<1>0. InverseNext
  BY DEF InverseNext
<1>1. /\ pc = "inv_loop" /\ IsEven(loc.u) /\ InvLoop /\ old[fr.b] > 1
      /\ fr.op = "invmod"
  BY <1>0, InvContext DEF inv_halve_u, InverseInv, InvPcs
<1>2. CASE Refuse("MEM", InvTemps)
  BY <1>0, <1>1, <1>2, InverseRefuses
<1>3. CASE pc' # "done"
  <2>. DEFINE h == Halved(loc.A, loc.B)
              w == loc.u \div 2
              p == h[1]
              q == h[2]
  <2>1. loc' = [loc EXCEPT !.u = w, !.A = p, !.B = q] /\ Goto("inv_loop")
    BY <1>3 DEF inv_halve_u, Refuse, Return
  <2>2. loc \in InvRecord /\ loc.u \in Nat /\ loc.u % 2 = 0 /\ loc.v \in Nat /\ loc.v % 2 = 1
          /\ loc.A \in Int /\ loc.B \in Int /\ InvSides
    BY <1>1 DEF InvLoop, InvRecord, IsEven
  <2>3. p \in Int /\ q \in Int /\ Fits(p, q, w)
    <3>1. Fits(loc.A, loc.B, loc.u)
      BY <1>1 DEF InvLoop
    <3>. QED
      BY <1>0, <1>1, <2>2, <3>1, InvContext, HalvedFits
  <2>4. w \in Nat
    BY <2>2
  <2>5. PICK g \in Nat : IsGcd(g, loc.u, loc.v) /\ IsGcd(g, old[fr.a], old[fr.b])
    BY <1>1 DEF InvLoop
  <2>6. IsGcd(g, w, loc.v)
    BY <2>2, <2>5, HalvedGcd
  <2>. HIDE DEF w, p, q, h
  <2>7. /\ loc' \in InvRecord /\ loc'.odd = loc.odd /\ loc'.x = loc.x /\ loc'.y = loc.y
        /\ loc'.u = w /\ loc'.v = loc.v /\ loc'.A = p /\ loc'.B = q
        /\ loc'.C = loc.C /\ loc'.D = loc.D
    <3>1. w \in Int
      BY <2>4
    <3>. QED
      BY <2>1, <2>2, <2>3, <3>1 DEF InvRecord
  <2>8. InvLoop'
    <3>1. Fits(loc.C, loc.D, loc.v)'
      BY <1>1, <2>7 DEF InvLoop, Fits
    <3>2. InvSides'
      BY <1>0, <2>2, <2>7, InvContext DEF InvSides
    <3>3. IsGcd(g, loc'.u, loc'.v) /\ IsGcd(g, old'[fr'.a], old'[fr'.b])
      BY <1>0, <2>5, <2>6, <2>7, InvContext
    <3>4. Fits(loc.A, loc.B, loc.u)'
      BY <2>3, <2>7 DEF Fits
    <3>. QED
      BY <1>1, <2>2, <2>4, <2>7, <3>1, <3>2, <3>3, <3>4 DEF InvLoop
  <2>. QED
    BY <1>0, <1>1, <2>1, <2>8, InvContext DEF InverseInv, InvPcs, Goto
<1>4. pc' = "done" => Refuse("MEM", InvTemps)
  BY DEF inv_halve_u, Goto
<1>. QED
  BY <1>2, <1>3, <1>4

LEMMA InvHalvesV ==
  ASSUME Ownership, InverseInv, inv_halve_v
  PROVE  InverseInv'
<1>0. InverseNext
  BY DEF InverseNext
<1>1. /\ pc = "inv_loop" /\ ~ IsEven(loc.u) /\ IsEven(loc.v) /\ InvLoop /\ old[fr.b] > 1
      /\ fr.op = "invmod"
  BY <1>0, InvContext DEF inv_halve_v, InverseInv, InvPcs
<1>2. CASE Refuse("MEM", InvTemps)
  BY <1>0, <1>1, <1>2, InverseRefuses
<1>3. CASE pc' # "done"
  <2>. DEFINE h == Halved(loc.C, loc.D)
              w == loc.v \div 2
              p == h[1]
              q == h[2]
  <2>1. loc' = [loc EXCEPT !.v = w, !.C = p, !.D = q] /\ Goto("inv_loop")
    BY <1>3 DEF inv_halve_v, Refuse, Return
  <2>2. loc \in InvRecord /\ loc.u \in Nat /\ loc.u % 2 = 1 /\ loc.v \in Nat /\ loc.v % 2 = 0
          /\ loc.v > 0 /\ loc.C \in Int /\ loc.D \in Int /\ InvSides
    BY <1>1 DEF InvLoop, InvRecord, IsEven
  <2>3. p \in Int /\ q \in Int /\ Fits(p, q, w)
    <3>1. Fits(loc.C, loc.D, loc.v)
      BY <1>1 DEF InvLoop
    <3>. QED
      BY <1>0, <1>1, <2>2, <3>1, InvContext, HalvedFits
  <2>4. w \in Nat /\ w > 0
    BY <2>2
  <2>5. PICK g \in Nat : IsGcd(g, loc.u, loc.v) /\ IsGcd(g, old[fr.a], old[fr.b])
    BY <1>1 DEF InvLoop
  <2>6. IsGcd(g, loc.u, w)
    <3>1. IsGcd(g, loc.v, loc.u)
      BY <2>2, <2>5, GcdOfMagnitudes
    <3>2. IsGcd(g, w, loc.u)
      BY <2>2, <3>1, HalvedGcd
    <3>. HIDE DEF w
    <3>. QED
      BY <2>2, <2>4, <3>2, GcdOfMagnitudes
  <2>. HIDE DEF w, p, q, h
  <2>7. /\ loc' \in InvRecord /\ loc'.odd = loc.odd /\ loc'.x = loc.x /\ loc'.y = loc.y
        /\ loc'.u = loc.u /\ loc'.v = w /\ loc'.A = loc.A /\ loc'.B = loc.B
        /\ loc'.C = p /\ loc'.D = q
    <3>1. w \in Int
      BY <2>4
    <3>. QED
      BY <2>1, <2>2, <2>3, <3>1 DEF InvRecord
  <2>8. InvLoop'
    <3>1. Fits(loc.A, loc.B, loc.u)'
      BY <1>1, <2>7 DEF InvLoop, Fits
    <3>2. InvSides'
      BY <1>0, <2>2, <2>7, InvContext DEF InvSides
    <3>3. IsGcd(g, loc'.u, loc'.v) /\ IsGcd(g, old'[fr'.a], old'[fr'.b])
      BY <1>0, <2>5, <2>6, <2>7, InvContext
    <3>4. Fits(loc.C, loc.D, loc.v)'
      BY <2>3, <2>7 DEF Fits
    <3>. QED
      BY <1>1, <2>2, <2>4, <2>7, <3>1, <3>2, <3>3, <3>4 DEF InvLoop
  <2>. QED
    BY <1>0, <1>1, <2>1, <2>8, InvContext DEF InverseInv, InvPcs, Goto
<1>4. pc' = "done" => Refuse("MEM", InvTemps)
  BY DEF inv_halve_v, Goto
<1>. QED
  BY <1>2, <1>3, <1>4

(* The coefficients of a difference are the differences.                   *)
LEMMA FitsDifference ==
  ASSUME loc.x \in Int, loc.y \in Int, loc.odd => loc.x \in Nat /\ loc.x > 0, loc.odd \in BOOLEAN,
         NEW p \in Int, NEW q \in Int, NEW m \in Int, Fits(p, q, m),
         NEW r \in Int, NEW s \in Int, NEW n \in Int, Fits(r, s, n)
  PROVE  Fits(p - r, q - s, m - n)
<1>. DEFINE x == loc.x
            y == loc.y
<1>1. CASE loc.odd
  <2>1. Divides(x, m - q * y) /\ Divides(x, n - s * y)
    BY <1>1 DEF Fits
  <2>. DEFINE i == m - q * y
              j == n - s * y
  <2>2. i \in Int /\ j \in Int /\ (m - n) - (q - s) * y = i - j
    OBVIOUS
  <2>. HIDE DEF i, j
  <2>3. Divides(x, i - j)
    BY <1>1, <2>1, <2>2, DividesSum DEF i, j
  <2>. QED
    BY <1>1, <2>2, <2>3 DEF Fits
<1>2. CASE ~ loc.odd
  <2>1. m = p * x + q * y /\ n = r * x + s * y
    BY <1>2 DEF Fits
  <2>2. m - n = (p - r) * x + (q - s) * y
    BY <2>1
  <2>. QED
    BY <1>2, <2>2 DEF Fits
<1>. QED
  BY <1>1, <1>2

LEMMA InvSubtracts ==
  ASSUME Ownership, InverseInv, inv_subtract
  PROVE  InverseInv'
<1>0. InverseNext
  BY DEF InverseNext
<1>1. /\ pc = "inv_loop" /\ InvLoop /\ old[fr.b] > 1 /\ fr.op = "invmod"
      /\ loc \in InvRecord /\ loc.u \in Nat /\ loc.v \in Nat /\ loc.u % 2 = 1 /\ loc.v % 2 = 1
  BY <1>0, InvContext DEF inv_subtract, InverseInv, InvPcs, InvLoop, IsEven
<1>2. PICK g \in Nat : IsGcd(g, loc.u, loc.v) /\ IsGcd(g, old[fr.a], old[fr.b])
  BY <1>1 DEF InvLoop
<1>3. /\ loc.x \in Int /\ loc.y \in Int /\ loc.odd \in BOOLEAN
      /\ loc.A \in Int /\ loc.B \in Int /\ loc.C \in Int /\ loc.D \in Int
      /\ (loc.odd => loc.x \in Nat /\ loc.x > 0)
  BY <1>0, <1>1, InvContext DEF InvLoop, InvRecord, InvSides
<1>4. Fits(loc.A, loc.B, loc.u) /\ Fits(loc.C, loc.D, loc.v) /\ InvSides
  BY <1>1 DEF InvLoop
<1>5. CASE Refuse("MEM", InvTemps)
  BY <1>0, <1>1, <1>5, InverseRefuses
<1>6. CASE /\ loc.u >= loc.v
           /\ loc' = [loc EXCEPT !.u = @ - loc.v, !.A = @ - loc.C, !.B = @ - loc.D]
           /\ Goto(IF loc.u = loc.v THEN "inv_end" ELSE "inv_loop")
  <2>. DEFINE w == loc.u - loc.v
              p == loc.A - loc.C
              q == loc.B - loc.D
  <2>1. w \in Nat /\ p \in Int /\ q \in Int
    BY <1>1, <1>3, <1>6
  <2>2. Fits(p, q, w)
    <3>1. loc.u \in Int /\ loc.v \in Int
      BY <1>1
    <3>. QED
      BY <1>3, <1>4, <3>1, FitsDifference, Zenon
  <2>3. IsGcd(g, w, loc.v)
    <3>1. loc.u - loc.v * 1 = w /\ loc.u \in Int /\ loc.v \in Int /\ 1 \in Int /\ g \in Int
      BY <1>1
    <3>2. IsGcd(g, loc.v, loc.u - loc.v * 1)
      BY <1>2, <3>1, GcdStep, Zenon
    <3>. QED
      BY <2>1, <3>1, <3>2, GcdOfMagnitudes
  <2>4. loc' = [loc EXCEPT !.u = w, !.A = p, !.B = q]
    BY <1>6
  <2>5. loc.u = loc.v <=> w = 0
    BY <1>1
  <2>. HIDE DEF w, p, q
  <2>6. /\ loc' \in InvRecord /\ loc'.odd = loc.odd /\ loc'.x = loc.x /\ loc'.y = loc.y
        /\ loc'.u = w /\ loc'.v = loc.v /\ loc'.A = p /\ loc'.B = q
        /\ loc'.C = loc.C /\ loc'.D = loc.D
    <3>1. w \in Int
      BY <2>1
    <3>. QED
      BY <1>1, <2>1, <2>4, <3>1 DEF InvRecord
  <2>7. InvLoop'
    <3>1. Fits(loc.C, loc.D, loc.v)' /\ Fits(loc.A, loc.B, loc.u)'
      BY <1>4, <2>2, <2>6 DEF Fits
    <3>2. InvSides'
      BY <1>0, <1>4, <2>6, InvContext DEF InvSides
    <3>3. IsGcd(g, loc'.u, loc'.v) /\ IsGcd(g, old'[fr'.a], old'[fr'.b])
      BY <1>0, <1>2, <2>3, <2>6, InvContext
    <3>. QED
      BY <1>1, <2>1, <2>6, <3>1, <3>2, <3>3 DEF InvLoop
  <2>. QED
    BY <1>0, <1>1, <1>6, <2>5, <2>6, <2>7, InvContext DEF InverseInv, InvPcs, Goto
<1>7. CASE /\ loc.u < loc.v
           /\ loc' = [loc EXCEPT !.v = @ - loc.u, !.C = @ - loc.A, !.D = @ - loc.B]
           /\ Goto("inv_loop")
  <2>. DEFINE w == loc.v - loc.u
              p == loc.C - loc.A
              q == loc.D - loc.B
  <2>1. w \in Nat /\ w > 0 /\ p \in Int /\ q \in Int
    BY <1>1, <1>3, <1>7
  <2>2. Fits(p, q, w)
    <3>1. loc.u \in Int /\ loc.v \in Int
      BY <1>1
    <3>. QED
      BY <1>3, <1>4, <3>1, FitsDifference, Zenon
  <2>3. IsGcd(g, loc.u, w)
    <3>1. loc.v - loc.u * 1 = w /\ loc.u \in Int /\ loc.v \in Int /\ 1 \in Int /\ g \in Int
      BY <1>1
    <3>2. IsGcd(g, loc.v, loc.u)
      BY <1>2, <3>1, GcdOfMagnitudes
    <3>3. IsGcd(g, loc.u, loc.v - loc.u * 1)
      BY <3>1, <3>2, GcdStep, Zenon
    <3>. QED
      BY <3>1, <3>3
  <2>4. loc' = [loc EXCEPT !.v = w, !.C = p, !.D = q]
    BY <1>7
  <2>. HIDE DEF w, p, q
  <2>5. /\ loc' \in InvRecord /\ loc'.odd = loc.odd /\ loc'.x = loc.x /\ loc'.y = loc.y
        /\ loc'.u = loc.u /\ loc'.v = w /\ loc'.A = loc.A /\ loc'.B = loc.B
        /\ loc'.C = p /\ loc'.D = q
    <3>1. w \in Int
      BY <2>1
    <3>. QED
      BY <1>1, <2>1, <2>4, <3>1 DEF InvRecord
  <2>6. InvLoop'
    <3>1. Fits(loc.C, loc.D, loc.v)' /\ Fits(loc.A, loc.B, loc.u)'
      BY <1>4, <2>2, <2>5 DEF Fits
    <3>2. InvSides'
      BY <1>0, <1>4, <2>5, InvContext DEF InvSides
    <3>3. IsGcd(g, loc'.u, loc'.v) /\ IsGcd(g, old'[fr'.a], old'[fr'.b])
      BY <1>0, <1>2, <2>3, <2>5, InvContext
    <3>. QED
      BY <1>1, <2>1, <2>5, <3>1, <3>2, <3>3 DEF InvLoop
  <2>. QED
    BY <1>0, <1>1, <1>7, <2>6, InvContext DEF InverseInv, InvPcs, Goto
<1>. QED
  BY <1>5, <1>6, <1>7 DEF inv_subtract

(* The first steps.                                                        *)
LEMMA RemainderGcd ==
  ASSUME NEW a \in Int, NEW b \in Nat, b > 1
  PROVE  /\ a % b \in Nat /\ a \div b \in Int /\ a = b * (a \div b) + (a % b)
         /\ \E g \in Nat : IsGcd(g, b, a % b) /\ IsGcd(g, a % b, b) /\ IsGcd(g, a, b)
<1>. DEFINE q == a \div b
            r == a % b
<1>1. q \in Int /\ r \in Nat /\ a = b * q + r /\ b \in Int /\ b > 0
  BY Division
<1>2. PICK g \in Nat : IsGcd(g, a, b)
  BY <1>1, GcdExists
<1>. HIDE DEF q, r
<1>3. IsGcd(g, b, a - b * q)
  <2>1. g \in Int
    OBVIOUS
  <2>. QED
    BY <1>1, <1>2, <2>1, GcdStep, Zenon
<1>4. a - b * q = r
  BY <1>1
<1>5. IsGcd(g, b, r) /\ g \in Int /\ r \in Int
  BY <1>1, <1>3, <1>4
<1>6. IsGcd(g, r, b)
  BY <1>1, <1>5, GcdOfMagnitudes
<1>. QED
  BY <1>1, <1>2, <1>5, <1>6 DEF q, r

LEMMA NoInverse ==
  ASSUME NEW a \in Int, NEW b \in Int, a # 0 \/ b # 0, NEW d \in Nat, d > 1, Common(d, a, b)
  PROVE  ~ IsGcd(1, a, b)
<1>1. SUFFICES ASSUME IsGcd(1, a, b) PROVE FALSE
  OBVIOUS
<1>2. d <= 1
  BY <1>1, GcdMeans
<1>. QED
  BY <1>2

LEMMA InvmodRefuses ==
  ASSUME Ownership, InverseInv, mp_invmod
  PROVE  InverseInv'
<1>0. InverseNext
  BY DEF InverseNext
<1>. DEFINE a == old[fr.a]
            b == old[fr.b]
<1>1. /\ pc = "invmod" /\ fr.op = "invmod" /\ A = a /\ B = b /\ fr.c \in Ints
      /\ a \in Int /\ b \in Int
  BY <1>0, InvContext, InverseFrame DEF mp_invmod, A, B, Ownership
<1>. HIDE DEF a, b
<1>2. CASE a >= 0 /\ b = 1 /\ Put(fr.c, 0) /\ Return("OKAY", {})
  <2>1. IsGcd(1, a, b)
    <3>1. Common(1, a, b)
      BY <1>1, DividesMeans, a = 1 * a, b = 1 * b DEF Common
    <3>2. \A d \in Nat : d > 0 /\ Common(d, a, b) => d <= 1
      <4>1. Magnitude(1) = 1
        BY MagnitudeProperties
      <4>. QED
        BY <1>2, <4>1, DivisorBound DEF Common
    <3>. QED
      BY <1>1, <1>2, <3>1, <3>2, GcdMeans
  <2>2. (a * 0 - 1) % b = 0 /\ 0 \in 0 .. b - 1
    <3>1. a * 0 - 1 = -1
      BY <1>1
    <3>. QED
      BY <1>2, <3>1
  <2>3. /\ val' = [val EXCEPT ![fr.c] = 0] /\ pc' = "done" /\ err' = "OKAY"
        /\ fr' = fr /\ old' = old
    BY <1>2 DEF Put, Return
  <2>4. val' \in [Ints -> Int] /\ val'[fr.c] = 0
    BY <1>0, <1>1, <2>3, InvContext
  <2>5. InvmodCorrect'
    <3>1. /\ old'[fr'.a] = a /\ old'[fr'.b] = b /\ val'[fr'.c] = 0
          /\ pc' = "done" /\ err' = "OKAY" /\ fr'.op = "invmod" /\ "OKAY" # "VAL"
      BY <1>1, <2>3, <2>4 DEF a, b
    <3>2. ~ (b < 1) /\ ~ (a < 0)
      BY <1>1, <1>2
    <3>. QED
      BY <2>1, <2>2, <3>1, <3>2, Zenon DEF InvmodCorrect, Succeeded, Done
  <2>. QED
    BY <1>0, <1>1, <2>3, <2>4, <2>5, InvContext DEF InverseInv, InvPcs, ExteuclidCorrect, Succeeded, Done
<1>3. CASE ~ (a >= 0 /\ b = 1) /\ b <= 1 /\ Refuse("VAL", {})
  BY <1>0, <1>1, <1>3, InverseRefuses DEF a, b
<1>. QED
  BY <1>1, <1>2, <1>3 DEF mp_invmod

LEMMA InvOddStarts ==
  ASSUME Ownership, InverseInv, invmod_odd_init
  PROVE  InverseInv'
<1>0. InverseNext
  BY DEF InverseNext
<1>. DEFINE a == old[fr.a]
            b == old[fr.b]
            r == a % b
<1>1. /\ pc = "invmod" /\ fr.op = "invmod" /\ A = a /\ B = b /\ b > 1
      /\ a \in Int /\ b \in Int /\ b \in Nat
  BY <1>0, InvContext DEF invmod_odd_init, Invertible, A, B
<1>2. b % 2 = 1
  BY <1>1 DEF invmod_odd_init, Invertible, IsEven
<1>3. r \in Nat
  BY <1>1, RemainderGcd
<1>4. PICK g \in Nat : IsGcd(g, b, r) /\ IsGcd(g, a, b)
  BY <1>1, RemainderGcd
<1>5. CASE Refuse("MEM", {})
  BY <1>0, <1>1, <1>5, InverseRefuses
<1>6. CASE r = 0 /\ Refuse("VAL", OddTemps)
  <2>1. Common(b, a, b)
    BY <1>1, <1>6, DividesItself DEF Common, Divides
  <2>2. ~ IsGcd(1, a, b)
    <3>. HIDE DEF a, b
    <3>. QED
      BY <1>1, <2>1, NoInverse
  <2>. QED
    BY <1>0, <1>1, <1>6, <2>2, InverseRefuses
<1>7. CASE /\ r # 0
           /\ loc' = [odd |-> TRUE, x |-> b, y |-> r, u |-> b, v |-> r,
                      A |-> 0, B |-> 0, C |-> 0, D |-> 1]
           /\ pc' = "inv_loop"
           /\ UNCHANGED << val, fr, err, old >>
  <2>1. Divides(b, b - 0 * r) /\ Divides(b, r - 1 * r)
    <3>1. b - 0 * r = b /\ r - 1 * r = 0
      BY <1>1, <1>3
    <3>. QED
      BY <1>1, <3>1, DividesItself
  <2>. HIDE DEF r
  <2>2. /\ loc' \in InvRecord
        /\ loc'.odd = TRUE /\ loc'.x = b /\ loc'.y = r /\ loc'.u = b /\ loc'.v = r
        /\ loc'.A = 0 /\ loc'.B = 0 /\ loc'.C = 0 /\ loc'.D = 1
    <3>1. r \in Int
      BY <1>3
    <3>. HIDE DEF b
    <3>. QED
      BY <1>1, <1>7, <3>1 DEF InvRecord
  <2>3. InvSides' /\ Fits(0, 0, b)' /\ Fits(0, 1, r)'
    <3>1. InvSides'
      BY <1>2, <1>7, <2>2 DEF InvSides, r
    <3>2. Divides(loc'.x, b - 0 * loc'.y) /\ Divides(loc'.x, r - 1 * loc'.y)
      BY <2>1, <2>2
    <3>. QED
      BY <1>7, <2>2, <3>1, <3>2 DEF Fits, r
  <2>4. InvLoop'
    <3>1. IsGcd(g, loc'.u, loc'.v) /\ IsGcd(g, old'[fr'.a], old'[fr'.b])
      BY <1>4, <1>7, <2>2
    <3>2. Fits(loc.A, loc.B, loc.u)' /\ Fits(loc.C, loc.D, loc.v)'
      BY <2>2, <2>3, <1>7 DEF Fits, r
    <3>3. loc'.u \in Nat /\ loc'.v \in Nat /\ loc'.v > 0 /\ loc'.u % 2 = 1
      BY <1>1, <1>2, <1>3, <1>7, <2>2
    <3>. QED
      BY <2>2, <2>3, <3>1, <3>2, <3>3 DEF InvLoop
  <2>. QED
    BY <1>0, <1>1, <1>7, <2>4, InvContext DEF InverseInv, InvPcs
<1>. QED
  BY <1>1, <1>5, <1>6, <1>7 DEF invmod_odd_init

LEMMA InvPlainStarts ==
  ASSUME Ownership, InverseInv, invmod_init
  PROVE  InverseInv'
<1>0. InverseNext
  BY DEF InverseNext
<1>. DEFINE a == old[fr.a]
            b == old[fr.b]
            r == a % b
<1>1. /\ pc = "invmod" /\ fr.op = "invmod" /\ A = a /\ B = b /\ b > 1
      /\ a \in Int /\ b \in Int /\ b \in Nat
  BY <1>0, InvContext DEF invmod_init, Invertible, A, B
<1>3. r \in Nat /\ a \div b \in Int /\ a = b * (a \div b) + r
  BY <1>1, RemainderGcd
<1>4. PICK g \in Nat : IsGcd(g, r, b) /\ IsGcd(g, a, b)
  BY <1>1, RemainderGcd
<1>5. CASE Refuse("MEM", {})
  BY <1>0, <1>1, <1>5, InverseRefuses
<1>6. CASE IsEven(r) /\ IsEven(b) /\ Refuse("VAL", PlainTemps)
  <2>1. Common(2, a, b)
    <3>. HIDE DEF a, b, r
    <3>1. Divides(2, r) /\ Divides(2, b)
      BY <1>6 DEF IsEven, Divides
    <3>. DEFINE q == a \div b
                p == b * q
    <3>2. Divides(2, p)
      <4>1. q \in Int /\ 2 \in Nat /\ 2 > 0
        BY <1>3
      <4>. HIDE DEF q
      <4>. QED
        BY <1>1, <3>1, <4>1, DividesProduct, Zenon
    <3>3. p \in Int /\ a = p + r /\ r \in Int
      BY <1>1, <1>3
    <3>. HIDE DEF p
    <3>4. Divides(2, p + r)
      BY <3>1, <3>2, <3>3, DividesSum
    <3>. QED
      BY <3>1, <3>3, <3>4 DEF Common
  <2>2. ~ IsGcd(1, a, b)
    <3>. HIDE DEF a, b
    <3>. QED
      BY <1>1, <2>1, NoInverse
  <2>. QED
    BY <1>0, <1>1, <1>6, <2>2, InverseRefuses
<1>7. CASE /\ ~ (IsEven(r) /\ IsEven(b))
           /\ loc' = [odd |-> FALSE, x |-> r, y |-> b, u |-> r, v |-> b,
                      A |-> 1, B |-> 0, C |-> 0, D |-> 1]
           /\ pc' = "inv_loop"
           /\ UNCHANGED << val, fr, err, old >>
  <2>1. r = 1 * r + 0 * b /\ b = 0 * r + 1 * b
    BY <1>1, <1>3
  <2>. HIDE DEF r, b
  <2>2. r % 2 = 1 \/ b % 2 = 1
    BY <1>1, <1>3, <1>7 DEF IsEven
  <2>3. /\ loc' \in InvRecord
        /\ loc'.odd = FALSE /\ loc'.x = r /\ loc'.y = b /\ loc'.u = r /\ loc'.v = b
        /\ loc'.A = 1 /\ loc'.B = 0 /\ loc'.C = 0 /\ loc'.D = 1
    <3>1. r \in Int
      BY <1>3
    <3>. HIDE DEF b
    <3>. QED
      BY <1>1, <1>7, <3>1 DEF InvRecord
  <2>4. InvSides'
    BY <1>7, <2>2, <2>3 DEF InvSides, r, b
  <2>5. InvLoop'
    <3>1. IsGcd(g, loc'.u, loc'.v) /\ IsGcd(g, old'[fr'.a], old'[fr'.b])
      BY <1>4, <1>7, <2>3 DEF b
    <3>2. Fits(loc.A, loc.B, loc.u)' /\ Fits(loc.C, loc.D, loc.v)'
      BY <2>1, <2>3 DEF Fits
    <3>3. loc'.u \in Nat /\ loc'.v \in Nat /\ loc'.v > 0 /\ (loc'.u % 2 = 1 \/ loc'.v % 2 = 1)
      BY <1>1, <1>3, <2>2, <2>3
    <3>. QED
      BY <2>3, <2>4, <3>1, <3>2, <3>3 DEF InvLoop
  <2>. QED
    BY <1>0, <1>1, <1>7, <2>5, InvContext DEF InverseInv, InvPcs, b
<1>. QED
  BY <1>1, <1>5, <1>6, <1>7 DEF invmod_init

(* The last steps.                                                         *)
LEMMA CoefficientInverts ==
  ASSUME old \in [Ints -> Int], fr.a \in Ints, fr.b \in Ints, old[fr.b] > 1,
         loc \in InvRecord, InvSides, Fits(loc.C, loc.D, 1)
  PROVE  Coefficient \in Int /\ Divides(old[fr.b], old[fr.a] * Coefficient - 1)
<1>. DEFINE a == old[fr.a]
            b == old[fr.b]
            q == a \div b
            r == a % b
            c == Coefficient
<1>1. a \in Int /\ b \in Nat /\ b > 0
  OBVIOUS
<1>2. q \in Int /\ r \in Int /\ a = b * q + r
  <2>. HIDE DEF a, b
  <2>1. r \in 0 .. b - 1
    BY <1>1, Division
  <2>. QED
    BY <1>1, <2>1, Division
<1>3. c \in Int /\ loc.odd \in BOOLEAN
  BY DEF Coefficient, InvRecord
<1>. DEFINE m == q * c
<1>4. m \in Int
  BY <1>2, <1>3
<1>5. CASE loc.odd
  <2>1. Divides(b, 1 - c * r)
    BY <1>5 DEF Fits, Coefficient, InvSides
  <2>. HIDE DEF a, b, q, r, c
  <2>. DEFINE s == 1 - c * r
              t == b * m
  <2>2. s \in Int /\ t \in Int
    BY <1>1, <1>2, <1>3, <1>4
  <2>3. Divides(b, t)
    <3>1. b \in Nat /\ b > 0 /\ b \in Int /\ Divides(b, b)
      BY <1>1, DividesItself
    <3>. HIDE DEF m
    <3>. QED
      BY <1>4, <3>1, DividesProduct, Zenon
  <2>4. a * c - 1 = t - s
    <3>1. (b * q + r) * c - 1 = b * (q * c) - (1 - c * r)
      BY <1>1, <1>2, <1>3
    <3>. QED
      BY <1>2, <3>1
  <2>. HIDE DEF s, t
  <2>5. Divides(b, t - s)
    <3>1. Divides(b, s)
      BY <2>1 DEF s
    <3>. QED
      BY <1>1, <2>2, <2>3, <3>1, DividesSum
  <2>. QED
    BY <1>3, <2>4, <2>5 DEF a, b, c
<1>6. CASE ~ loc.odd
  <2>1. 1 = c * r + loc.D * b /\ loc.D \in Int
    BY <1>6 DEF Fits, Coefficient, InvSides, InvRecord
  <2>. HIDE DEF a, b, q, r, c
  <2>. DEFINE t == m - loc.D
  <2>2. t \in Int /\ b * t \in Int
    BY <1>1, <1>4, <2>1
  <2>3. a * c - 1 = b * t
    <3>1. (b * q + r) * c - (c * r + loc.D * b) = b * (q * c - loc.D)
      BY <1>1, <1>2, <1>3, <2>1
    <3>. QED
      BY <1>2, <2>1, <3>1
  <2>. HIDE DEF t
  <2>4. Divides(b, b * t)
    <3>1. b \in Nat /\ b > 0 /\ b \in Int /\ Divides(b, b)
      BY <1>1, DividesItself
    <3>. QED
      BY <2>2, <3>1, DividesProduct, Zenon
  <2>. QED
    BY <1>3, <2>3, <2>4 DEF a, b, c
<1>. QED
  BY <1>3, <1>5, <1>6

LEMMA InvEnds ==
  ASSUME Ownership, InverseInv, inv_end
  PROVE  InverseInv'
<1>0. InverseNext
  BY DEF InverseNext
<1>1. /\ pc = "inv_end" /\ fr.op = "invmod" /\ InvLoop /\ loc.u = 0 /\ old[fr.b] > 1
  BY <1>0, InvContext DEF inv_end, InverseInv, InvPcs
<1>. DEFINE a == old[fr.a]
            b == old[fr.b]
            v == loc.v
<1>2. v \in Nat /\ v > 0 /\ IsGcd(v, a, b)
  <2>1. PICK g \in Nat : IsGcd(g, 0, v) /\ IsGcd(g, a, b)
    BY <1>1 DEF InvLoop
  <2>2. v \in Nat /\ v > 0
    BY <1>1 DEF InvLoop
  <2>. HIDE DEF v, a, b
  <2>3. IsGcd(v, v, 0)
    BY <2>2, GcdWithZero, MagnitudeProperties
  <2>4. IsGcd(v, 0, v)
    BY <2>2, <2>3, GcdOfMagnitudes
  <2>5. g = v
    BY <2>1, <2>2, <2>4, GcdUnique
  <2>. QED
    BY <2>1, <2>2, <2>5
<1>3. CASE v # 1 /\ Refuse("VAL", InvTemps)
  <2>1. ~ IsGcd(1, a, b)
    <3>1. a \in Int /\ b \in Int
      BY <1>0, InvContext
    <3>. HIDE DEF a, b, v
    <3>. QED
      BY <1>2, <1>3, <3>1, GcdUnique
  <2>. QED
    BY <1>0, <1>1, <1>3, <2>1, InverseRefuses
<1>4. CASE v = 1 /\ UNCHANGED loc /\ Goto("inv_correct")
  <2>1. loc \in InvRecord /\ InvSides /\ Fits(loc.C, loc.D, 1)
    BY <1>1, <1>4 DEF InvLoop
  <2>2. Divides(b, a * Coefficient - 1)
    BY <1>0, <1>1, <2>1, InvContext, CoefficientInverts
  <2>3. Coefficient' = Coefficient
    BY <1>4 DEF Coefficient
  <2>. QED
    BY <1>0, <1>1, <1>4, <2>1, <2>2, <2>3, InvContext DEF InverseInv, InvPcs, Goto
<1>. QED
  BY <1>1, <1>3, <1>4 DEF inv_end

LEMMA InvCorrects ==
  ASSUME Ownership, InverseInv, inv_correct
  PROVE  InverseInv'
<1>0. InverseNext
  BY DEF InverseNext
<1>. DEFINE a == old[fr.a]
            b == old[fr.b]
            c == Coefficient
            Corrected(n) == IF loc.odd THEN [loc EXCEPT !.D = n] ELSE [loc EXCEPT !.C = n]
<1>1. /\ pc = "inv_correct" /\ fr.op = "invmod" /\ loc \in InvRecord /\ b > 1 /\ B = b
      /\ Divides(b, a * c - 1) /\ fr.c \in Ints
  BY <1>0, InvContext, InverseFrame DEF inv_correct, InverseInv, InvPcs, Ownership, B
<1>2. a \in Int /\ b \in Nat /\ b > 0 /\ c \in Int
  BY <1>0, <1>1, InvContext DEF Coefficient, InvRecord
<1>3. ASSUME NEW n \in Int, Divides(b, a * n - 1), loc' = Corrected(n), Goto("inv_correct")
      PROVE  InverseInv'
  <2>1. loc' \in InvRecord /\ Coefficient' = n
    BY <1>1, <1>3 DEF InvRecord, Coefficient
  <2>. QED
    BY <1>0, <1>1, <1>3, <2>1, InvContext DEF InverseInv, InvPcs, Goto
<1>4. Divides(b, a * (c + b) - 1) /\ Divides(b, a * (c - b) - 1)
  <2>. HIDE DEF a, b, c
  <2>. DEFINE m == a * c - 1
              n == b * a
  <2>1. m \in Int /\ n \in Int /\ a * (c + b) - 1 = m + n /\ a * (c - b) - 1 = m - n
    BY <1>2
  <2>2. Divides(b, m)
    BY <1>1
  <2>3. Divides(b, n)
    <3>1. b \in Int /\ Divides(b, b)
      BY <1>2, DividesItself
    <3>. QED
      BY <1>2, <3>1, DividesProduct, Zenon
  <2>. HIDE DEF m, n
  <2>. QED
    BY <1>2, <2>1, <2>2, <2>3, DividesSum
<1>5. CASE ~ c \in 0 .. b - 1 /\ Refuse("MEM", InvTemps)
  BY <1>0, <1>1, <1>5, InverseRefuses
<1>6. CASE c < 0 /\ loc' = Corrected(c + b) /\ Goto("inv_correct")
  <2>1. c + b \in Int
    BY <1>2
  <2>. QED
    BY <1>3, <1>4, <1>6, <2>1
<1>7. CASE c >= b /\ loc' = Corrected(c - b) /\ Goto("inv_correct")
  <2>1. c - b \in Int
    BY <1>2
  <2>. QED
    BY <1>3, <1>4, <1>7, <2>1
<1>8. CASE c \in 0 .. b - 1 /\ Put(fr.c, c) /\ Return("OKAY", InvTemps)
  <2>1. IsGcd(1, a, b)
    <3>. HIDE DEF a, b, c
    <3>. QED
      BY <1>1, <1>2, InverseShowsGcd, Zenon
  <2>2. /\ val' = [val EXCEPT ![fr.c] = c] /\ pc' = "done" /\ err' = "OKAY"
        /\ fr' = fr /\ old' = old
    BY <1>8 DEF Put, Return
  <2>. HIDE DEF c
  <2>3. val' \in [Ints -> Int] /\ val'[fr.c] = c
    BY <1>0, <1>1, <1>2, <2>2, InvContext
  <2>4. InvmodCorrect'
    <3>1. /\ old'[fr'.a] = a /\ old'[fr'.b] = b /\ val'[fr'.c] = c
          /\ pc' = "done" /\ err' = "OKAY" /\ fr'.op = "invmod" /\ "OKAY" # "VAL"
      BY <1>1, <2>2, <2>3
    <3>2. ~ (b < 1) /\ b # 1 /\ c \in 0 .. b - 1
      BY <1>1, <1>2, <1>8
    <3>3. (a * c - 1) % b = 0
      BY <1>1 DEF Divides
    <3>. HIDE DEF a, b
    <3>. QED
      BY <2>1, <3>1, <3>2, <3>3, Zenon DEF InvmodCorrect, Succeeded, Done
  <2>. QED
    BY <1>0, <1>1, <2>2, <2>3, <2>4, InvContext DEF InverseInv, InvPcs, ExteuclidCorrect, Succeeded, Done
<1>. QED
  BY <1>1, <1>5, <1>6, <1>7, <1>8 DEF inv_correct

-----------------------------------------------------------------------------
(* mp_exteuclid.                                                           *)
LEMMA EuclidStarts ==
  ASSUME Ownership, InverseInv, mp_exteuclid
  PROVE  InverseInv'
<1>0. InverseNext
  BY DEF InverseNext
<1>. DEFINE a == old[fr.a]
            b == old[fr.b]
<1>1. pc = "exteuclid" /\ fr.op = "exteuclid" /\ A = a /\ B = b /\ a \in Int /\ b \in Int
  BY <1>0, InvContext DEF mp_exteuclid, A, B
<1>2. CASE Refuse("MEM", EuclidTemps)
  BY <1>0, <1>1, <1>2, InverseRefuses
<1>3. CASE /\ loc' = [u1 |-> 1, u2 |-> 0, u3 |-> a, v1 |-> 0, v2 |-> 1, v3 |-> b]
           /\ pc' = "euclid_loop"
           /\ UNCHANGED << val, fr, err, old >>
  <2>1. PICK g \in Nat : IsGcd(g, a, b)
    <3>1. a = 0 /\ b = 0 => IsGcd(0, a, b)
      BY DEF IsGcd
    <3>. QED
      BY <1>1, <3>1, GcdExists
  <2>2. a = a * 1 + b * 0 /\ b = a * 0 + b * 1
    BY <1>1
  <2>3. /\ loc' \in EuclidRecord /\ loc'.u1 = 1 /\ loc'.u2 = 0 /\ loc'.u3 = a
        /\ loc'.v1 = 0 /\ loc'.v2 = 1 /\ loc'.v3 = b
    <3>. HIDE DEF a, b
    <3>. QED
      BY <1>1, <1>3 DEF EuclidRecord
  <2>4. EuclidLoop'
    BY <1>3, <2>1, <2>2, <2>3 DEF EuclidLoop
  <2>. QED
    BY <1>0, <1>1, <1>3, <2>4, InvContext DEF InverseInv, InvPcs
<1>. QED
  BY <1>1, <1>2, <1>3 DEF mp_exteuclid

LEMMA EuclidSteps ==
  ASSUME Ownership, InverseInv, euclid_step
  PROVE  InverseInv'
<1>0. InverseNext
  BY DEF InverseNext
<1>. DEFINE a == old[fr.a]
            b == old[fr.b]
            q == Quotient(loc.u3, loc.v3)
<1>1. /\ pc = "euclid_loop" /\ fr.op = "exteuclid" /\ a \in Int /\ b \in Int
      /\ EuclidLoop /\ loc.v3 # 0
  BY <1>0, InvContext DEF euclid_step, InverseInv
<1>2. CASE Refuse("MEM", EuclidTemps)
  BY <1>0, <1>1, <1>2, InverseRefuses
<1>3. CASE /\ loc' = [u1 |-> loc.v1, u2 |-> loc.v2, u3 |-> loc.v3,
                      v1 |-> loc.u1 - loc.v1 * q, v2 |-> loc.u2 - loc.v2 * q,
                      v3 |-> loc.u3 - loc.v3 * q]
           /\ Goto("euclid_loop")
  <2>. DEFINE i == loc.u1 - loc.v1 * q
              j == loc.u2 - loc.v2 * q
              k == loc.u3 - loc.v3 * q
  <2>1. /\ loc.u1 \in Int /\ loc.u2 \in Int /\ loc.u3 \in Int
        /\ loc.v1 \in Int /\ loc.v2 \in Int /\ loc.v3 \in Int
        /\ loc.u3 = a * loc.u1 + b * loc.u2 /\ loc.v3 = a * loc.v1 + b * loc.v2
    BY <1>1 DEF EuclidLoop, EuclidRecord
  <2>2. q \in Int
    BY <1>1, <2>1, QuotientSmaller
  <2>3. PICK g \in Nat : IsGcd(g, loc.u3, loc.v3) /\ IsGcd(g, a, b)
    BY <1>1 DEF EuclidLoop
  <2>. HIDE DEF a, b, q
  <2>4. i \in Int /\ j \in Int /\ k \in Int
    BY <2>1, <2>2
  <2>5. k = a * i + b * j
    <3>1. (a * loc.u1 + b * loc.u2) - (a * loc.v1 + b * loc.v2) * q
            = a * (loc.u1 - loc.v1 * q) + b * (loc.u2 - loc.v2 * q)
      BY <1>1, <2>1, <2>2
    <3>. QED
      BY <2>1, <3>1
  <2>6. IsGcd(g, loc.v3, k)
    <3>1. g \in Int
      OBVIOUS
    <3>. QED
      BY <2>1, <2>2, <2>3, <3>1, GcdStep, Zenon
  <2>7. loc' = [u1 |-> loc.v1, u2 |-> loc.v2, u3 |-> loc.v3, v1 |-> i, v2 |-> j, v3 |-> k]
    BY <1>3
  <2>. HIDE DEF i, j, k
  <2>8. /\ loc' \in EuclidRecord /\ loc'.u1 = loc.v1 /\ loc'.u2 = loc.v2 /\ loc'.u3 = loc.v3
        /\ loc'.v1 = i /\ loc'.v2 = j /\ loc'.v3 = k
    BY <2>1, <2>4, <2>7 DEF EuclidRecord
  <2>9. EuclidLoop'
    BY <1>3, <2>1, <2>3, <2>5, <2>6, <2>8 DEF EuclidLoop, Goto, a, b
  <2>. QED
    BY <1>0, <1>1, <1>3, <2>9, InvContext DEF InverseInv, InvPcs, Goto
<1>. QED
  BY <1>1, <1>2, <1>3 DEF euclid_step

LEMMA EuclidEnds ==
  ASSUME Ownership, InverseInv, euclid_end
  PROVE  InverseInv'
<1>0. InverseNext
  BY DEF InverseNext
<1>. DEFINE a == old[fr.a]
            b == old[fr.b]
            s == Sgn(loc.u3)
<1>1. /\ pc = "euclid_loop" /\ fr.op = "exteuclid" /\ a \in Int /\ b \in Int
      /\ EuclidLoop /\ loc.v3 = 0 /\ val \in [Ints -> Int]
  BY <1>0, InvContext DEF euclid_end, InverseInv
<1>2. /\ loc.u1 \in Int /\ loc.u2 \in Int /\ loc.u3 \in Int
      /\ loc.u3 = a * loc.u1 + b * loc.u2
  BY <1>1 DEF EuclidLoop, EuclidRecord
<1>3. s \in Int /\ s * loc.u1 \in Int /\ s * loc.u2 \in Int /\ s * loc.u3 \in Int
  BY <1>2 DEF Sgn
<1>4. IsGcd(s * loc.u3, a, b)
  <2>1. PICK g \in Nat : IsGcd(g, loc.u3, 0) /\ IsGcd(g, a, b)
    BY <1>1 DEF EuclidLoop
  <2>2. IsGcd(Magnitude(loc.u3), loc.u3, 0) /\ Magnitude(loc.u3) \in Int
    BY <1>2, GcdWithZero, MagnitudeProperties
  <2>3. g = Magnitude(loc.u3)
    BY <1>2, <2>1, <2>2, GcdUnique
  <2>. QED
    BY <2>1, <2>3 DEF Magnitude
<1>5. s * loc.u3 = a * (s * loc.u1) + b * (s * loc.u2)
  <2>. HIDE DEF a, b, s
  <2>1. s * (a * loc.u1 + b * loc.u2) = a * (s * loc.u1) + b * (s * loc.u2)
    BY <1>1, <1>2, <1>3
  <2>. QED
    BY <1>2, <2>1
<1>. DEFINE i == s * loc.u1
            j == s * loc.u2
            k == s * loc.u3
<1>6. /\ val' = [x \in Ints |-> IF x = fr.U3 THEN k ELSE IF x = fr.U2 THEN j
                                ELSE IF x = fr.U1 THEN i ELSE val[x]]
      /\ pc' = "done" /\ err' = "OKAY" /\ fr' = fr /\ old' = old
  BY DEF euclid_end, Return
<1>. HIDE DEF i, j, k, s
<1>7. val' \in [Ints -> Int]
  BY <1>1, <1>3, <1>6 DEF i, j, k
<1>8. ExteuclidCorrect'
  <2>1. fr.op = "exteuclid" /\ fr \in Frames /\ fr.op \in InverseOps
    BY <1>0, <1>1, InvContext DEF Ownership
  <2>2. /\ fr.U1 \in Ints \cup {NULL} /\ fr.U2 \in Ints \cup {NULL} /\ fr.U3 \in Ints \cup {NULL}
        /\ fr.U1 = fr.U2 => fr.U1 = NULL
        /\ fr.U1 = fr.U3 => fr.U1 = NULL
        /\ fr.U2 = fr.U3 => fr.U2 = NULL
    BY <2>1, InverseFrame
  <2>3. fr.U3 # NULL => val'[fr.U3] = k
    BY <1>6, <2>2
  <2>4. NULL \notin {fr.U1, fr.U2} => val'[fr.U1] = i /\ val'[fr.U2] = j
    BY <1>6, <2>2
  <2>5. IsGcd(k, a, b) /\ k = a * i + b * j
    BY <1>4, <1>5 DEF i, j, k
  <2>. QED
    BY <1>6, <2>3, <2>4, <2>5 DEF ExteuclidCorrect, Succeeded, Done
<1>. QED
  BY <1>0, <1>1, <1>6, <1>7, <1>8, InvContext DEF InverseInv, InvPcs, InvmodCorrect, Succeeded, Done

LEMMA InverseInvKept ==
  ASSUME Ownership, InverseInv, InverseNext
  PROVE  InverseInv'
BY InvmodRefuses, InvOddStarts, InvPlainStarts, InvHalvesU, InvHalvesV, InvSubtracts, InvEnds,
   InvCorrects, EuclidStarts, EuclidSteps, EuclidEnds DEF InverseNext

LEMMA InverseInvInductive ==
  ASSUME Ownership, InverseInv, [Next]_vars
  PROVE  InverseInv'
<1>1. CASE InverseNext
  BY <1>1, InverseInvKept
<1>2. CASE GcdNext \/ DivNext \/ RootNext \/ PowerNext \/ ResidueNext
  <2>1. fr'.op \notin InverseOps
    BY <1>2, StepsAtHome DEF GcdOps, DivOps, RootOps, InverseOps, PowerOps, ResidueOps
  <2>. QED
    BY <2>1 DEF InverseInv
<1>3. CASE UNCHANGED vars
  BY <1>3 DEF vars, InverseInv, InvLoop, InvSides, Fits, EuclidLoop, Coefficient, InvmodCorrect,
              ExteuclidCorrect, Succeeded, Done
<1>. QED
  BY <1>1, <1>2, <1>3 DEF Next

LEMMA InverseInvInit ==
  ASSUME Init
  PROVE  InverseInv
<1>1. fr \in Frames /\ val \in Contents(fr) /\ old = val /\ pc = fr.op
  BY DEF Init
<1>2. val \in [Ints -> Int]
  BY <1>1, ContentsAssumption
<1>. QED
  BY <1>1, <1>2 DEF InverseInv, InverseOps, InvPcs

LEMMA InverseKept == Spec => []InverseInv
<1>1. Init => InverseInv
  BY InverseInvInit
<1>2. Ownership /\ InverseInv /\ [Next]_vars => InverseInv'
  BY InverseInvInductive
<1>. QED
  BY <1>1, <1>2, Owned, PTL DEF Spec

(* mp_invmod leaves the inverse, whichever of the two algorithms the build *)
(* has, and refuses exactly the operands that have none; mp_exteuclid      *)
(* leaves a linear combination that is the greatest common divisor.        *)
THEOREM Inverses == Spec => []InversesCorrect
<1>1. Ownership /\ InverseInv => InversesCorrect
  BY DEF InverseInv, InverseOps, InversesCorrect, InvmodCorrect, ExteuclidCorrect, Succeeded, Done
<1>. QED
  BY <1>1, Owned, InverseKept, PTL

-----------------------------------------------------------------------------
(* mp_expt_n.                                                              *)
LEMMA ExptFrame ==
  ASSUME fr \in Frames, fr.op = "expt"
  PROVE  fr.a \in Ints /\ fr.n \in Int /\ fr.c \in Ints
<1>1. fr \in GcdFrames \cup DivFrames \cup RootFrames \cup InvmodFrames \cup ExteuclidFrames
               \cup ExptFrames \cup ExptmodFrames
               \cup KroneckerFrames \cup IsSquareFrames \cup SqrtmodFrames
  BY FramesAssumption
<1>2. fr \notin GcdFrames /\ fr \notin DivFrames /\ fr \notin RootFrames
        /\ fr \notin InvmodFrames /\ fr \notin ExteuclidFrames
  BY DEF GcdFrames, DivFrames, RootFrames, InvmodFrames, ExteuclidFrames
<1>3. fr \notin ExptmodFrames /\ fr \notin KroneckerFrames
        /\ fr \notin IsSquareFrames /\ fr \notin SqrtmodFrames
  BY DEF ExptmodFrames, KroneckerFrames, IsSquareFrames, SqrtmodFrames
<1>. QED
  BY <1>1, <1>2, <1>3 DEF ExptFrames

(* The result is a power k, g a power m of the operand, which may be gone; *)
(* what is left of the exponent counts m.                                  *)
PowerSoFar ==
  /\ loc \in [g : Int, b : Int]
  /\ \E k \in Nat, m \in Nat :
       /\ val[fr.c] = Power(old[fr.a], k) /\ loc.g = Power(old[fr.a], m)
       /\ IF fr.n <= 0 THEN k = 0 /\ loc.b <= 0
          ELSE loc.b >= 0 /\ k + m * loc.b = fr.n

ExptInv ==
  fr.op \in PowerOps =>
    /\ pc \in {"expt", "expt_loop"} => fr.op = "expt"
    /\ fr.op = "expt" =>
         /\ pc \in {"expt", "expt_loop", "done"}
         /\ val \in [Ints -> Int] /\ old \in [Ints -> Int]
         /\ pc = "expt" => val = old
         /\ pc = "expt_loop" => PowerSoFar
         /\ pc = "done" => ExptCorrect /\ (err # "OKAY" => ExptFailure)

(* One bit of the exponent.                                                *)
Counts(n, k, m, b) == k + m * b = n

LEMMA ExptBit ==
  ASSUME NEW b \in Nat, b > 0, NEW k \in Nat, NEW m \in Nat, NEW n \in Nat,
         Counts(n, k, m, b)
  PROVE  /\ b \div 2 \in Nat
         /\ k \in 0 .. n
         /\ b % 2 = 0 => Counts(n, k, m + m, b \div 2)
         /\ b % 2 = 1 => Counts(n, k + m, m + m, b \div 2) /\ k + m \in 0 .. n
         /\ b = 1 => k + m = n
<1>. USE DEF Counts
<1>. DEFINE h == b \div 2
            p == m * b
            q == m * h
<1>1. h \in Nat /\ (b % 2 = 0 => b = 2 * h) /\ (b % 2 = 1 => b = 2 * h + 1)
  OBVIOUS
<1>. HIDE DEF h
<1>2. p \in Nat /\ q \in Nat /\ (m + m) * h = 2 * q
  BY <1>1
<1>3. b % 2 = 0 => p = 2 * q
  BY <1>1
<1>4. b % 2 = 1 => p = 2 * q + m
  BY <1>1
<1>5. b = 1 => p = m
  OBVIOUS
<1>. HIDE DEF p, q
<1>6. k + p = n
  BY DEF p
<1>7. b % 2 = 0 => k + 2 * q = n
  BY <1>3, <1>6
<1>8. b % 2 = 1 => (k + m) + 2 * q = n /\ k + m \in 0 .. n
  BY <1>2, <1>4, <1>6
<1>9. k \in 0 .. n /\ (b = 1 => k + m = n)
  BY <1>2, <1>5, <1>6
<1>. QED
  BY <1>1, <1>2, <1>7, <1>8, <1>9 DEF h

LEMMA ExptRounds ==
  ASSUME Ownership, ExptInv, expt_round
  PROVE  ExptInv'
<1>. DEFINE a == old[fr.a]
            n == fr.n
            b == loc.b
            c == IF IsEven(b) THEN val[fr.c] ELSE val[fr.c] * loc.g
            g == IF b > 1 THEN loc.g * loc.g ELSE loc.g
<1>1. /\ pc = "expt_loop" /\ b > 0 /\ fr.op = "expt" /\ fr.op \in PowerOps /\ PowerSoFar
      /\ val \in [Ints -> Int] /\ old \in [Ints -> Int]
      /\ fr.a \in Ints /\ fr.c \in Ints /\ n \in Int
  <2>1. pc = "expt_loop" /\ b > 0 /\ fr.op \in PowerOps
    BY StepsAtHome DEF expt_round, PowerNext
  <2>2. fr.op = "expt" /\ PowerSoFar /\ val \in [Ints -> Int] /\ old \in [Ints -> Int]
    BY <2>1 DEF ExptInv
  <2>. QED
    BY <2>1, <2>2, ExptFrame DEF Ownership
<1>2. a \in Int /\ loc \in [g : Int, b : Int] /\ val[fr.c] \in Int
  BY <1>1 DEF PowerSoFar
<1>3. PICK k \in Nat, m \in Nat :
         /\ val[fr.c] = Power(a, k) /\ loc.g = Power(a, m)
         /\ n > 0 /\ b \in Nat /\ k + m * b = n
  <2>1. PICK k \in Nat, m \in Nat :
          /\ val[fr.c] = Power(a, k) /\ loc.g = Power(a, m)
          /\ IF n <= 0 THEN k = 0 /\ b <= 0 ELSE b >= 0 /\ k + m * b = n
    BY <1>1 DEF PowerSoFar
  <2>. QED
    BY <1>1, <1>2, <2>1
<1>. HIDE DEF a
<1>4. /\ Power(a, k) \in Int /\ Power(a, m) \in Int
      /\ Power(a, k + m) = Power(a, k) * Power(a, m) /\ Power(a, m + m) = Power(a, m) * Power(a, m)
      /\ Power(a, k + m) \in Int /\ Power(a, m + m) \in Int
  <2>1. k + m \in Nat /\ m + m \in Nat
    OBVIOUS
  <2>2. Power(a, k) \in Int /\ Power(a, m) \in Int /\ Power(a, k + m) \in Int /\ Power(a, m + m) \in Int
    BY <1>2, <2>1, PowerFacts
  <2>3. Power(a, k + m) = Power(a, k) * Power(a, m) /\ Power(a, m + m) = Power(a, m) * Power(a, m)
    BY <1>2, PowerSum
  <2>. QED
    BY <2>2, <2>3
<1>5. /\ b \div 2 \in Nat /\ k \in 0 .. n
      /\ b % 2 = 0 => k + (m + m) * (b \div 2) = n
      /\ b % 2 = 1 => (k + m) + (m + m) * (b \div 2) = n /\ k + m \in 0 .. n
      /\ b = 1 => k + m = n
  <2>1. n \in Nat /\ b \in Nat /\ b > 0 /\ k + m * b = n /\ k \in Nat /\ m \in Nat
    BY <1>1, <1>3
  <2>. HIDE DEF n, b
  <2>2. Counts(n, k, m, b)
    BY <2>1 DEF Counts
  <2>3. /\ b \div 2 \in Nat /\ k \in 0 .. n
        /\ b % 2 = 0 => Counts(n, k, m + m, b \div 2)
        /\ b % 2 = 1 => Counts(n, k + m, m + m, b \div 2) /\ k + m \in 0 .. n
        /\ b = 1 => k + m = n
    BY <2>1, <2>2, ExptBit
  <2>. QED
    BY <2>3 DEF Counts
<1>12. IF IsEven(b) THEN b % 2 = 0 ELSE b % 2 = 1
  <2>1. b \in Nat
    BY <1>3
  <2>. HIDE DEF b
  <2>. QED
    BY <2>1 DEF IsEven
<1>6. \E j \in 0 .. n : /\ c = Power(a, j)
                        /\ IF IsEven(b) THEN j = k ELSE j = k + m
  <2>1. CASE IsEven(b)
    BY <1>3, <1>5, <2>1
  <2>2. CASE ~ IsEven(b)
    <3>1. b % 2 = 1 /\ k + m \in 0 .. n
      BY <1>5, <1>12, <2>2
    <3>2. c = Power(a, k + m)
      BY <1>3, <1>4, <2>2
    <3>. HIDE DEF c
    <3>. QED
      BY <2>2, <3>1, <3>2
  <2>. QED
    BY <2>1, <2>2
<1>7. PICK j \in 0 .. n : c = Power(a, j) /\ IF IsEven(b) THEN j = k ELSE j = k + m
  BY <1>6
<1>8. c \in Int /\ g \in Int /\ (b > 1 => g = Power(a, m + m)) /\ (b = 1 => g = Power(a, m))
  <2>1. b > 1 \/ b = 1
    BY <1>1, <1>3
  <2>2. c \in Int
    BY <1>3, <1>4
  <2>. QED
    BY <1>3, <1>4, <2>1, <2>2
<1>. HIDE DEF c, g
<1>13. a >= 0 => Power(a, k) >= 0 /\ Power(a, m) >= 0 /\ Power(a, j) >= 0
  <2>1. j \in Nat
    BY <1>1, <1>3
  <2>2. SUFFICES ASSUME a >= 0
                 PROVE  Power(a, k) \in Nat /\ Power(a, m) \in Nat /\ Power(a, j) \in Nat
    OBVIOUS
  <2>3. a \in Nat
    BY <1>2, <2>2
  <2>4. \A e \in Nat : Power(a, e) \in Nat
    BY <2>3, PowerSigned
  <2>. QED
    BY <2>1, <2>4
<1>9. CASE /\ \E x \in FailedProducts(val[fr.c], val[fr.c], loc.g, FALSE) : Put(fr.c, x)
           /\ Return("MEM", {"g"})
  <2>1. PICK x \in FailedProducts(val[fr.c], val[fr.c], loc.g, FALSE) : Put(fr.c, x)
    BY <1>9
  <2>. DEFINE p == Power(a, k)
              q == Power(a, m)
  <2>2. p \in Int /\ q \in Int /\ val[fr.c] = p /\ loc.g = q
    BY <1>3, <1>4
  <2>. HIDE DEF p, q
  <2>3. /\ x \in Int
        /\ Magnitude(x) = Magnitude(p) \/ (UsesToomCook(p, q, FALSE) /\ Magnitude(x) \in Scraps)
        /\ p >= 0 /\ q >= 0 => x >= 0
    <3>1. x \in FailedProducts(p, p, q, FALSE)
      BY <2>1, <2>2
    <3>2. p \in Int /\ q \in Int
      BY <2>2
    <3>. QED
      BY <3>1, <3>2, FailedProductFacts, Zenon
  <2>4. UsesToomCook(p, q, FALSE) => Used(p) >= MP_MUL_TOOM_CUTOFF
    BY <2>2, ToomCookLong
  <2>5. /\ pc' = "done" /\ err' = "MEM" /\ fr' = fr /\ old' = old
        /\ val' = [val EXCEPT ![fr.c] = x]
    BY <1>9, <2>1 DEF Put, Return
  <2>6. val' \in [Ints -> Int] /\ val'[fr.c] = x
    BY <1>1, <2>3, <2>5
  <2>7. a >= 0 => x >= 0
    BY <1>13, <2>3 DEF p, q
  <2>8. k \in 0 .. n
    BY <1>5
  <2>9. ExptFailure'
    <3>1. /\ Magnitude(x) = Magnitude(Power(a, k))
               \/ (Used(Power(a, k)) >= MP_MUL_TOOM_CUTOFF /\ Magnitude(x) \in Scraps)
      BY <2>3, <2>4 DEF p
    <3>2. \E i \in 0 .. n :
            /\ \/ Magnitude(x) = Magnitude(Power(a, i))
               \/ Used(Power(a, i)) >= MP_MUL_TOOM_CUTOFF /\ Magnitude(x) \in Scraps
            /\ a >= 0 => x >= 0
      BY <2>7, <2>8, <3>1
    <3>. QED
      BY <2>5, <2>6, <3>2 DEF ExptFailure, a
  <2>. QED
    BY <1>1, <2>5, <2>6, <2>9 DEF ExptInv, ExptCorrect, Succeeded, Done
<1>10. CASE b > 1 /\ Put(fr.c, c) /\ Return("MEM", {"g"})
  <2>1. pc' = "done" /\ err' = "MEM" /\ val' = [val EXCEPT ![fr.c] = c] /\ fr' = fr /\ old' = old
    BY <1>10 DEF Put, Return
  <2>2. val' \in [Ints -> Int] /\ val'[fr.c] = Power(a, j)
    BY <1>1, <1>7, <1>8, <2>1
  <2>3. ExptFailure'
    BY <1>13, <2>1, <2>2 DEF ExptFailure, a
  <2>. QED
    BY <1>1, <2>1, <2>2, <2>3 DEF ExptInv, ExptCorrect, Succeeded, Done
<1>11. CASE /\ Put(fr.c, c)
            /\ loc' = [g |-> g, b |-> b \div 2]
            /\ UNCHANGED << live, pc, fr, err, old >>
  <2>1. val' = [val EXCEPT ![fr.c] = c] /\ fr' = fr /\ old' = old /\ pc' = pc
    BY <1>11 DEF Put
  <2>2. val' \in [Ints -> Int] /\ val'[fr.c] = Power(a, j)
    BY <1>1, <1>7, <1>8, <2>1
  <2>3. loc' \in [g : Int, b : Int] /\ loc'.g = g /\ loc'.b = b \div 2
    BY <1>5, <1>8, <1>11
  <2>4. \E i \in Nat : loc'.g = Power(a, i) /\ j + i * loc'.b = n
    <3>1. CASE b > 1
      <4>1. m + m \in Nat /\ loc'.g = Power(a, m + m)
        BY <1>8, <2>3, <3>1
      <4>2. j + (m + m) * (b \div 2) = n
        <5>1. CASE IsEven(b)
          BY <1>5, <1>7, <5>1 DEF IsEven
        <5>2. CASE ~ IsEven(b)
          <6>1. b % 2 = 1
            BY <1>12, <5>2
          <6>. QED
            BY <1>5, <1>7, <5>2, <6>1
        <5>. QED
          BY <5>1, <5>2
      <4>. QED
        BY <2>3, <4>1, <4>2
    <3>2. CASE b = 1
      <4>1. j = n /\ loc'.g = Power(a, m) /\ loc'.b = 0
        BY <1>5, <1>7, <1>8, <2>3, <3>2 DEF IsEven
      <4>. QED
        BY <1>1, <4>1
    <3>. QED
      BY <1>1, <1>3, <3>1, <3>2
  <2>5. PowerSoFar'
    <3>1. ~ (n <= 0) /\ b \div 2 >= 0 /\ j \in Nat
      BY <1>1, <1>3, <1>5
    <3>. QED
      BY <2>1, <2>2, <2>3, <2>4, <3>1 DEF PowerSoFar, a
  <2>. QED
    BY <1>1, <2>1, <2>2, <2>5 DEF ExptInv
<1>. QED
  BY <1>9, <1>10, <1>11 DEF expt_round, c, g

LEMMA ExptInvKept ==
  ASSUME Ownership, ExptInv, PowerNext
  PROVE  ExptInv'
<1>0. fr.op \in PowerOps /\ fr' = fr /\ PowerOwns
  BY StepsAtHome DEF Ownership
<1>1. CASE mp_expt_n
  <2>1. /\ pc = "expt" /\ fr.op = "expt" /\ val = old /\ val \in [Ints -> Int]
        /\ fr.a \in Ints /\ fr.n \in Int /\ fr.c \in Ints /\ old' = old
    <3>1. pc = "expt" /\ old' = old
      BY <1>1 DEF mp_expt_n, Refuse, Return
    <3>2. fr.op = "expt"
      BY <1>0, <3>1 DEF ExptInv
    <3>. QED
      BY <1>0, <3>1, <3>2, ExptFrame DEF ExptInv, Ownership
  <2>2. CASE Refuse("MEM", {})
    BY <1>0, <2>1, <2>2 DEF ExptInv, Refuse, Return, ExptCorrect, ExptFailure, Succeeded, Done
  <2>3. CASE Put(fr.c, 1) /\ loc' = [g |-> A, b |-> fr.n] /\ pc' = "expt_loop"
    <3>. DEFINE a == old[fr.a]
    <3>1. val' \in [Ints -> Int] /\ val'[fr.c] = 1 /\ a \in Int
      BY <2>1, <2>3 DEF Put
    <3>2. Power(a, 0) = 1 /\ Power(a, 1) = a
      BY <3>1, PowerFacts, SmallPowers
    <3>3. /\ val'[fr'.c] = Power(old'[fr'.a], 0) /\ loc'.g = Power(old'[fr'.a], 1)
          /\ loc'.b = fr'.n /\ loc' \in [g : Int, b : Int]
      BY <1>0, <2>1, <2>3, <3>1, <3>2 DEF A
    <3>4. PowerSoFar'
      <4>1. IF fr'.n <= 0 THEN 0 = 0 /\ loc'.b <= 0 ELSE loc'.b >= 0 /\ 0 + 1 * loc'.b = fr'.n
        BY <1>0, <2>1, <3>3
      <4>. QED
        BY <3>3, <4>1 DEF PowerSoFar
    <3>. QED
      BY <1>0, <2>1, <2>3, <3>1, <3>4 DEF ExptInv
  <2>. QED
    BY <1>1, <2>2, <2>3 DEF mp_expt_n
<1>2. CASE expt_round
  BY <1>2, ExptRounds
<1>3. CASE expt_end
  <2>1. /\ pc = "expt_loop" /\ loc.b <= 0 /\ pc' = "done" /\ err' = "OKAY" /\ val' = val /\ old' = old
    BY <1>3 DEF expt_end, Refuse, Return
  <2>2. fr.op = "expt" /\ PowerSoFar /\ val \in [Ints -> Int] /\ old \in [Ints -> Int]
    BY <1>0, <2>1 DEF ExptInv
  <2>3. fr.a \in Ints /\ fr.n \in Int /\ fr.c \in Ints
    BY <2>2, ExptFrame DEF Ownership
  <2>4. PICK k \in Nat, m \in Nat :
          /\ val[fr.c] = Power(old[fr.a], k)
          /\ IF fr.n <= 0 THEN k = 0 ELSE loc.b >= 0 /\ k + m * loc.b = fr.n
    BY <2>2 DEF PowerSoFar
  <2>5. val[fr.c] = Power(old[fr.a], fr.n)
    <3>1. CASE fr.n <= 0
      BY <2>4, <3>1 DEF Power
    <3>2. CASE fr.n > 0
      <4>1. loc.b = 0
        BY <2>1, <2>2, <2>3, <2>4, <3>2 DEF PowerSoFar
      <4>2. k = fr.n
        BY <2>3, <2>4, <3>2, <4>1
      <4>. QED
        BY <2>4, <4>2
    <3>. QED
      BY <2>3, <3>1, <3>2
  <2>. QED
    BY <1>0, <2>1, <2>2, <2>5 DEF ExptInv, ExptCorrect, Succeeded, Done
<1>4. CASE ~ (mp_expt_n \/ expt_round \/ expt_end)
  <2>1. pc' \notin {"expt", "expt_loop"} /\ pc \in {"exptmod", "choose", "table", "window", "exptmod_end"}
    BY <1>4 DEF PowerNext, exptmod_refused, exptmod_positive, exptmod_negative, exptmod_init,
         exptmod_table, window_skip, window_square, window_collect, window_full, window_rest,
         exptmod_end, NextBit, Collects, Refuse, Return, Goto
  <2>2. fr.op # "expt"
    BY <1>0, <2>1 DEF ExptInv
  <2>. QED
    BY <1>0, <2>1, <2>2 DEF ExptInv
<1>. QED
  BY <1>1, <1>2, <1>3, <1>4

LEMMA ExptInvInductive ==
  ASSUME Ownership, ExptInv, [Next]_vars
  PROVE  ExptInv'
<1>1. CASE PowerNext
  BY <1>1, ExptInvKept
<1>2. CASE GcdNext \/ DivNext \/ RootNext \/ InverseNext \/ ResidueNext
  <2>1. fr'.op \notin PowerOps
    BY <1>2, StepsAtHome DEF GcdOps, DivOps, RootOps, InverseOps, PowerOps, ResidueOps
  <2>. QED
    BY <2>1 DEF ExptInv
<1>3. CASE UNCHANGED vars
  BY <1>3 DEF vars, ExptInv, PowerSoFar, ExptCorrect, ExptFailure, Succeeded, Done
<1>. QED
  BY <1>1, <1>2, <1>3 DEF Next

LEMMA ExptInvInit ==
  ASSUME Init
  PROVE  ExptInv
<1>1. fr \in Frames /\ val \in Contents(fr) /\ old = val /\ pc = fr.op
  BY DEF Init
<1>2. val \in [Ints -> Int]
  BY <1>1, ContentsAssumption
<1>. QED
  BY <1>1, <1>2 DEF ExptInv, PowerOps

LEMMA ExptKept == Spec => []ExptInv
<1>1. Init => ExptInv
  BY ExptInvInit
<1>2. Ownership /\ ExptInv /\ [Next]_vars => ExptInv'
  BY ExptInvInductive
<1>. QED
  BY <1>1, <1>2, Owned, PTL DEF Spec

(* mp_expt_n leaves the power, the destination being the base or not.      *)
THEOREM Powers == Spec => []ExptCorrect
<1>1. Ownership /\ ExptInv => ExptCorrect
  BY DEF ExptInv, PowerOps, ExptCorrect, Succeeded, Done
<1>. QED
  BY <1>1, Owned, ExptKept, PTL

-----------------------------------------------------------------------------
(* Roots.  The mean of t and the quotient q of a by t is not below the     *)
(* root of a; it is the root only if it is q, or if t is one above q.      *)
IsMean(a, t, q, m) == q = a \div t /\ m = (t + q) \div 2

NotBelow(a, t, q, m) ==
  /\ m * (m + 2) >= a
  /\ m > q => m * (m + 2) > a
  /\ m * (m + 2) = a => t * t = a + 1

LEMMA MeanNotBelow ==
  ASSUME NEW a \in Nat, NEW t \in Nat, t > 0, NEW q \in Nat, NEW m \in Nat, IsMean(a, t, q, m)
  PROVE  NotBelow(a, t, q, m)
<1>. DEFINE p == t * q
            d == t - q - 1
            h == m * m
            e == d * d
<1>1. a \div t = q /\ (2 * m = t + q \/ 2 * m + 1 = t + q)
  BY DEF IsMean
<1>2. a < p + t
  <2>1. a < ((a \div t) + 1) * t
    BY Greatest
  <2>2. (q + 1) * t = p + t
    OBVIOUS
  <2>. QED
    BY <1>1, <2>1, <2>2
<1>3. p \in Nat /\ d \in Int /\ h \in Nat /\ m * (m + 2) = h + 2 * m /\ e \in Nat
  <2>1. d \in Int
    OBVIOUS
  <2>2. \A i \in Int : i * i \in Nat
    OBVIOUS
  <2>3. m * (m + 2) = m * m + 2 * m
    OBVIOUS
  <2>. HIDE DEF d
  <2>. QED
    BY <2>1, <2>2, <2>3
<1>4. (t + q + 1) * (t + q + 1) = e + 4 * (p + t)
  OBVIOUS
<1>5. CASE 2 * m = t + q
  <2>1. (t + q + 1) * (t + q + 1) = 4 * h + 4 * m + 1
    <3>1. (2 * m + 1) * (2 * m + 1) = 4 * (m * m) + 4 * m + 1
      OBVIOUS
    <3>. QED
      BY <1>5, <3>1
  <2>2. 4 * h + 4 * m + 1 = e + 4 * (p + t)
    BY <1>4, <2>1
  <2>3. h + 2 * m > a
    <3>. HIDE DEF h, e, p
    <3>. QED
      BY <1>2, <1>3, <2>2
  <2>. HIDE DEF h
  <2>. QED
    BY <1>3, <2>3 DEF NotBelow
<1>6. CASE 2 * m + 1 = t + q
  <2>1. (t + q + 1) * (t + q + 1) = 4 * h + 8 * m + 4
    <3>1. (2 * m + 1 + 1) * (2 * m + 1 + 1) = 4 * (m * m) + 8 * m + 4
      OBVIOUS
    <3>. QED
      BY <1>6, <3>1
  <2>2. 4 * h + 8 * m + 4 = e + 4 * (p + t)
    BY <1>4, <2>1
  <2>3. h + 2 * m >= a
    <3>. HIDE DEF h, e, p
    <3>. QED
      BY <1>2, <1>3, <2>2
  <2>4. h + 2 * m = a => e = 0 /\ p + t = a + 1
    <3>. HIDE DEF h, e, p
    <3>. QED
      BY <1>2, <1>3, <2>2
  <2>5. e = 0 => d = 0
    <3>1. \A i \in Int : i * i = 0 => i = 0
      OBVIOUS
    <3>. HIDE DEF d
    <3>. QED
      BY <1>3, <3>1
  <2>6. d = 0 => m = q /\ t = q + 1
    BY <1>6
  <2>7. t = q + 1 => t * t = p + t
    <3>1. t * (q + 1) = t * q + t
      OBVIOUS
    <3>. QED
      BY <3>1
  <2>8. h + 2 * m = a => m = q /\ t * t = a + 1
    BY <2>4, <2>5, <2>6, <2>7
  <2>9. h + 2 * m > a \/ (m = q /\ t * t = a + 1 /\ h + 2 * m = a)
    <3>. HIDE DEF h
    <3>. QED
      BY <1>3, <2>3, <2>8
  <2>. HIDE DEF h
  <2>. QED
    BY <1>3, <2>3, <2>9 DEF NotBelow
<1>. QED
  BY <1>1, <1>5, <1>6

(* When the mean is not above q it is the root.                            *)
AboveRoot(a, t) == t * (t + 2) > a

SquareRoot(a, m) == m * m <= a /\ (m + 1) * (m + 1) > a

LEMMA MeanIsRoot ==
  ASSUME NEW a \in Nat, NEW t \in Nat, t > 0, NEW q \in Nat, NEW m \in Nat, IsMean(a, t, q, m),
         AboveRoot(a, t), m <= q
  PROVE  SquareRoot(a, m)
<1>1. a \div t = q /\ (2 * m = t + q \/ 2 * m + 1 = t + q)
  BY DEF IsMean
<1>2. q * t <= a
  BY <1>1, Greatest
<1>3. q <= t + 1
  <2>1. q * t < (t + 2) * t
    <3>1. t * (t + 2) > a /\ t * (t + 2) = (t + 2) * t /\ (t + 2) * t \in Nat /\ q * t \in Nat
      BY DEF AboveRoot
    <3>. QED
      BY <1>2, <3>1
  <2>2. q < t + 2
    BY <2>1, MonotoneProduct
  <2>. QED
    BY <2>2
<1>4. m <= t
  BY <1>1, <1>3
<1>5. m * m <= a
  <2>1. m * m <= t * m
    BY <1>4, MonotoneProduct
  <2>2. m * t <= q * t
    BY MonotoneProduct
  <2>3. t * m = m * t /\ m * m \in Nat /\ m * t \in Nat /\ q * t \in Nat
    OBVIOUS
  <2>. QED
    BY <1>2, <2>1, <2>2, <2>3
<1>6. (m + 1) * (m + 1) > a
  <2>1. m * (m + 2) >= a
    BY MeanNotBelow DEF NotBelow
  <2>2. (m + 1) * (m + 1) = m * (m + 2) + 1 /\ m * (m + 2) \in Nat
    OBVIOUS
  <2>. QED
    BY <2>1, <2>2
<1>. QED
  BY <1>5, <1>6 DEF SquareRoot

(* The seed of mp_sqrt: the operand shifted down is not the root of the    *)
(* number after it.                                                        *)
LEMMA NotASquare ==
  ASSUME NEW a \in Nat, a > 0, NEW w \in Nat, w > 0, NEW t \in Nat, t = a \div w
  PROVE  t * t # a + 1
<1>1. t * w <= a /\ a < (t + 1) * w
  BY Greatest
<1>2. ASSUME t * t = a + 1 PROVE FALSE
  <2>1. w < t
    <3>1. w * t < t * t
      BY <1>1, <1>2
    <3>. QED
      BY <3>1, MonotoneProduct
  <2>2. t > 0 /\ w <= t - 1 /\ t - 1 \in Nat
    BY <2>1
  <2>3. (t + 1) * w <= (t + 1) * (t - 1)
    <3>1. w * (t + 1) <= (t - 1) * (t + 1)
      BY <2>2, MonotoneProduct
    <3>. QED
      BY <3>1
  <2>4. (t + 1) * (t - 1) = t * t - 1
    OBVIOUS
  <2>5. (t + 1) * w \in Nat /\ t * t \in Nat
    OBVIOUS
  <2>. QED
    BY <1>1, <1>2, <2>3, <2>4, <2>5
<1>. QED
  BY <1>2

(* Powers grow with the base.                                              *)
LEMMA PowerMonotone ==
  ASSUME NEW x \in Nat, NEW y \in Nat, x <= y, NEW n \in Nat
  PROVE  Power(x, n) \in Nat /\ Power(y, n) \in Nat /\ Power(x, n) <= Power(y, n)
<1>. DEFINE S == {k \in Nat : Power(x, k) \in Nat /\ Power(y, k) \in Nat /\ Power(x, k) <= Power(y, k)}
<1>1. 0 \in S
  <2>1. Power(x, 0) = 1 /\ Power(y, 0) = 1
    BY PowerFacts
  <2>. QED
    BY <2>1
<1>2. ASSUME NEW k \in Nat, k \in S PROVE k + 1 \in S
  <2>. DEFINE p == Power(x, k)
              q == Power(y, k)
  <2>1. p \in Nat /\ q \in Nat /\ p <= q
    BY <1>2
  <2>2. Power(x, k + 1) = p * x /\ Power(y, k + 1) = q * y
    BY PowerFacts
  <2>. HIDE DEF p, q
  <2>3. p * x <= q * x /\ x * q <= y * q
    BY <2>1, MonotoneProduct
  <2>4. q * x = x * q /\ q * y = y * q /\ p * x \in Nat /\ q * x \in Nat /\ q * y \in Nat
    BY <2>1
  <2>5. p * x <= q * y
    BY <2>3, <2>4
  <2>. QED
    BY <2>2, <2>4, <2>5
<1>. HIDE DEF S
<1>3. \A k \in Nat : k \in S
  BY <1>1, <1>2, Successor
<1>. QED
  BY <1>3 DEF S

LEMMA PowerOfOne ==
  ASSUME NEW n \in Nat
  PROVE  Power(1, n) = 1 /\ (n > 0 => Power(0, n) = 0)
<1>. DEFINE S == {k \in Nat : Power(1, k) = 1}
<1>1. 0 \in S /\ \A k \in Nat : k \in S => k + 1 \in S
  BY PowerFacts
<1>2. n > 0 => Power(0, n) = 0
  <2>1. n > 0 => n - 1 \in Nat /\ (n - 1) + 1 = n
    OBVIOUS
  <2>2. \A k \in Nat : Power(0, k + 1) = 0
    <3>1. ASSUME NEW k \in Nat PROVE Power(0, k + 1) = 0
      <4>. DEFINE p == Power(0, k)
      <4>1. 0 \in Int
        OBVIOUS
      <4>2. p \in Int /\ Power(0, k + 1) = p * 0
        BY <4>1, PowerFacts
      <4>. HIDE DEF p
      <4>. QED
        BY <4>2
    <3>. QED
      BY <3>1
  <2>. QED
    BY <2>1, <2>2
<1>. HIDE DEF S
<1>3. \A k \in Nat : k \in S
  BY <1>1, Successor
<1>. QED
  BY <1>2, <1>3 DEF S

(* A power of a power of two.                                              *)
LEMMA PowerOfTwo ==
  ASSUME NEW e \in Nat, NEW n \in Nat
  PROVE  Power(2 ^ e, n) = 2 ^ (e * n)
<1>. DEFINE b == 2 ^ e
            S == {k \in Nat : Power(b, k) = 2 ^ (e * k)}
<1>1. b \in Nat
  BY TwoTo
<1>2. 0 \in S
  <2>1. e * 0 = 0
    OBVIOUS
  <2>2. Power(b, 0) = 1
    BY <1>1, PowerFacts
  <2>. QED
    BY <2>1, <2>2, TwoTo
<1>3. ASSUME NEW k \in Nat, k \in S PROVE k + 1 \in S
  <2>. DEFINE m == e * k
  <2>1. m \in Nat /\ e * (k + 1) = m + e
    OBVIOUS
  <2>2. Power(b, k + 1) = 2 ^ m * b
    BY <1>1, <1>3, PowerFacts
  <2>. HIDE DEF m
  <2>3. 2 ^ (m + e) = 2 ^ m * 2 ^ e
    BY <2>1, TwoToSum
  <2>. QED
    BY <2>1, <2>2, <2>3
<1>. HIDE DEF S
<1>4. \A k \in Nat : k \in S
  BY <1>2, <1>3, Successor
<1>. QED
  BY <1>4 DEF S

(* Bernoulli's inequality: the step of Newton's iteration does not go too  *)
(* far, and not all the way.                                               *)
Bernoulli(t, s, n) ==
  LET u == Power(t, n)
      p == Power(t - s, n + 1)
      x == t * u - (n + 1) * (s * u)
  IN  p >= x /\ (s > 0 /\ t > 0 /\ n > 0 => p > x)

LEMMA BernoulliHolds ==
  ASSUME NEW t \in Nat, NEW s \in Nat, s <= t, NEW n \in Nat
  PROVE  Bernoulli(t, s, n)
<1>. DEFINE r == t - s
            S == {k \in Nat : Bernoulli(t, s, k)}
<1>0. r \in Nat
  OBVIOUS
<1>1. 0 \in S
  <2>1. Power(t, 0) = 1 /\ Power(t - s, 0 + 1) = 1 * (t - s)
    BY <1>0, PowerFacts
  <2>. QED
    BY <2>1 DEF Bernoulli
<1>2. ASSUME NEW k \in Nat, k \in S PROVE k + 1 \in S
  <2>. DEFINE u == Power(t, k)
              v == Power(t, k + 1)
              p == Power(t - s, k + 1)
              q == Power(t - s, (k + 1) + 1)
              x == t * u - (k + 1) * (s * u)
              y == t * v - ((k + 1) + 1) * (s * v)
              z == (k + 1) * (s * (s * u))
  <2>1. p >= x
    BY <1>2 DEF Bernoulli
  <2>2. u \in Nat /\ p \in Int /\ v = u * t /\ q = p * r
    <3>1. u \in Nat
      BY PowerMonotone
    <3>2. v = u * t
      BY PowerFacts
    <3>3. r \in Int /\ k + 1 \in Nat /\ p = Power(r, k + 1) /\ q = Power(r, (k + 1) + 1)
      BY <1>0
    <3>. HIDE DEF r, p, q
    <3>4. p \in Int /\ q = p * r
      BY <3>3, PowerFacts
    <3>. QED
      BY <3>1, <3>2, <3>4
  <2>3. x * r = y + z
    <3>. HIDE DEF u
    <3>1. (t * u - (k + 1) * (s * u)) * (t - s)
            = t * (u * t) - ((k + 1) + 1) * (s * (u * t)) + (k + 1) * (s * (s * u))
      BY <2>2
    <3>. HIDE DEF v
    <3>. QED
      BY <2>2, <3>1
  <2>4. x \in Int /\ y \in Int /\ z \in Nat /\ (s > 0 /\ t > 0 => z > 0)
    <3>1. v \in Nat /\ t > 0 => u > 0
      <4>1. t > 0 => u > 0
        BY PowerPositive
      <4>. QED
        BY <4>1
    <3>2. v \in Nat
      BY <2>2
    <3>. HIDE DEF u, v
    <3>3. t > 0 => u > 0
      BY <3>1, <3>2
    <3>4. t * u \in Int /\ s * u \in Nat /\ t * v \in Int /\ s * v \in Int
      BY <2>2, <3>2
    <3>5. x \in Int
      <4>. DEFINE i == t * u
                  j == s * u
      <4>1. i \in Int /\ j \in Int
        BY <3>4
      <4>. HIDE DEF i, j
      <4>2. i - (k + 1) * j \in Int
        BY <4>1
      <4>. QED
        BY <4>2 DEF i, j
    <3>6. y \in Int
      <4>. DEFINE i == t * v
                  j == s * v
      <4>1. i \in Int /\ j \in Int
        BY <3>4
      <4>. HIDE DEF i, j
      <4>2. i - ((k + 1) + 1) * j \in Int
        BY <4>1
      <4>. QED
        BY <4>2 DEF i, j
    <3>7. z \in Nat /\ (s > 0 /\ u > 0 => z > 0)
      <4>1. \A i, j \in Nat : i * j \in Nat /\ (i > 0 /\ j > 0 => i * j > 0)
        OBVIOUS
      <4>2. s * (s * u) \in Nat /\ (s > 0 /\ u > 0 => s * (s * u) > 0)
        BY <2>2, <4>1
      <4>3. k + 1 \in Nat /\ k + 1 > 0
        OBVIOUS
      <4>. QED
        BY <4>1, <4>2, <4>3
    <3>. QED
      BY <3>3, <3>5, <3>6, <3>7
  <2>5. p * r >= x * r
    <3>1. \A i, j \in Int : \A l \in Nat : i >= j => i * l >= j * l
      <4>1. ASSUME NEW i \in Int, NEW j \in Int, NEW l \in Nat, i >= j PROVE i * l >= j * l
        <5>1. i - j \in Nat /\ (i - j) * l \in Nat /\ (i - j) * l = i * l - j * l
          BY <4>1
        <5>2. i * l \in Int /\ j * l \in Int
          OBVIOUS
        <5>. QED
          BY <5>1, <5>2
      <4>. QED
        BY <4>1
    <3>. HIDE DEF p, x, r
    <3>. QED
      BY <1>0, <2>1, <2>2, <2>4, <3>1
  <2>6. q >= y /\ (s > 0 /\ t > 0 => q > y)
    <3>1. q \in Int
      <4>. HIDE DEF p, r
      <4>. QED
        BY <1>0, <2>2
    <3>. DEFINE g == p * r
                h == x * r
    <3>2. q = g /\ h = y + z /\ g >= h
      BY <2>2, <2>3, <2>5
    <3>. HIDE DEF g, h, q, y, z
    <3>. QED
      BY <2>4, <3>1, <3>2
  <2>7. Bernoulli(t, s, k + 1)
    BY <2>6 DEF Bernoulli
  <2>. QED
    BY <2>7
<1>. HIDE DEF S
<1>3. \A k \in Nat : k \in S
  BY <1>1, <1>2, Successor
<1>. QED
  BY <1>3 DEF S

(* A round of Newton's iteration stays above the root, but for the first   *)
(* root, which it may reach.                                               *)
Above(t, n, a) == Power(t, n) >= a /\ (n > 1 => Power(t, n) > a)

NewtonStep(u, t, n, a) ==
  LET p == Power(t, n - 1) IN u = t - Quotient(p * t - a, p * n)

LEMMA NewtonAbove ==
  ASSUME NEW t \in Nat, NEW n \in Nat, n > 0, NEW a \in Nat, a > 0, t > 0, Above(t, n, a),
         NEW u, NewtonStep(u, t, n, a)
  PROVE  u \in Nat /\ u > 0 /\ Above(u, n, a)
<1>. DEFINE m == n - 1
            p == Power(t, m)
            d == p * n
            e == p * t - a
            s == e \div d
<1>1. m \in Nat /\ n = m + 1
  OBVIOUS
<1>2. p \in Nat /\ p > 0
  <2>. HIDE DEF m
  <2>1. p \in Nat
    <3>1. t <= t
      OBVIOUS
    <3>. QED
      BY <1>1, <3>1, PowerMonotone
  <2>2. p > 0
    BY <1>1, PowerPositive
  <2>. QED
    BY <2>1, <2>2
<1>3. Power(t, n) = p * t
  <2>. HIDE DEF m
  <2>1. Power(t, m + 1) = p * t
    BY <1>1, PowerFacts
  <2>. QED
    BY <1>1, <2>1
<1>4. d \in Nat /\ d > 0 /\ e \in Nat /\ p * t \in Nat
  <2>1. \A i, j \in Nat : i * j \in Nat /\ (i > 0 /\ j > 0 => i * j > 0)
    OBVIOUS
  <2>2. d \in Nat /\ d > 0 /\ p * t \in Nat
    <3>. HIDE DEF p
    <3>. QED
      BY <1>2, <2>1
  <2>3. p * t >= a
    BY <1>3 DEF Above
  <2>. DEFINE i == p * t
  <2>4. e = i - a /\ i \in Nat /\ i >= a
    BY <2>2, <2>3
  <2>. HIDE DEF i, e
  <2>5. e \in Nat
    BY <2>4
  <2>. QED
    BY <2>2, <2>5
<1>5. u = t - s
  <2>1. u = t - Quotient(e, d)
    BY DEF NewtonStep
  <2>. HIDE DEF e, d
  <2>2. ~ (e < 0) /\ ~ (d < 0)
    BY <1>4
  <2>3. Sgn(e) = 1 /\ Sgn(d) = 1
    BY <2>2 DEF Sgn
  <2>4. Magnitude(e) = e /\ Magnitude(d) = d
    BY <1>4, <2>3 DEF Magnitude
  <2>5. s \in Nat
    BY <1>4, Greatest
  <2>. HIDE DEF s
  <2>6. Quotient(e, d) = 1 * 1 * s
    BY <2>3, <2>4 DEF Quotient, s
  <2>. QED
    BY <2>1, <2>5, <2>6
<1>6. s \in Nat /\ s * d <= e /\ s * d \in Nat
  <2>. HIDE DEF d, e
  <2>. QED
    BY <1>4, Greatest
<1>7. s * d = n * (s * p)
  <2>. HIDE DEF s, p
  <2>. QED
    BY <1>2, <1>6
<1>8. s <= t
  <2>1. s * p <= s * d
    <3>1. \A i, j \in Nat : j > 0 => i <= j * i /\ i * j \in Nat
      OBVIOUS
    <3>. DEFINE i == s * p
    <3>2. i \in Nat
      <4>. HIDE DEF s, p
      <4>. QED
        BY <1>2, <1>6
    <3>3. s * d = n * i
      BY <1>7
    <3>. HIDE DEF i, s, d
    <3>4. i <= s * d
      BY <3>1, <3>2, <3>3
    <3>. QED
      BY <3>4 DEF i
  <2>2. e <= p * t
    <3>. DEFINE i == p * t
    <3>1. e = i - a /\ i \in Nat
      BY <1>4
    <3>. HIDE DEF i, e
    <3>2. e <= i
      BY <3>1
    <3>. QED
      BY <3>2 DEF i
  <2>3. s * p <= t * p
    <3>. DEFINE i == s * p
                j == p * t
                k == s * d
    <3>1. i <= k /\ k <= e /\ e <= j /\ i \in Int /\ j \in Int /\ k \in Int /\ e \in Int
      <4>1. i \in Int
        <5>. HIDE DEF s, p
        <5>. QED
          BY <1>2, <1>6
      <4>. QED
        BY <1>4, <1>6, <2>1, <2>2, <4>1
    <3>2. j = t * p
      <4>. HIDE DEF p
      <4>. QED
        BY <1>2
    <3>. HIDE DEF i, j, k, e
    <3>3. i <= j
      BY <3>1
    <3>. QED
      BY <3>2, <3>3 DEF i
  <2>. HIDE DEF s, p
  <2>. QED
    BY <1>2, <1>6, <2>3, MonotoneProduct
<1>9. u \in Nat
  <2>. HIDE DEF s
  <2>. QED
    BY <1>5, <1>6, <1>8
<1>10. Bernoulli(t, s, m)
  <2>. HIDE DEF s, m
  <2>. QED
    BY <1>1, <1>6, <1>8, BernoulliHolds
<1>11. Power(u, n) >= t * p - n * (s * p) /\ (s > 0 /\ n > 1 => Power(u, n) > t * p - n * (s * p))
  <2>1. m + 1 = n /\ (n > 1 => m > 0)
    BY <1>1
  <2>2. /\ Power(t - s, m + 1) >= t * p - (m + 1) * (s * p)
        /\ s > 0 /\ t > 0 /\ m > 0 => Power(t - s, m + 1) > t * p - (m + 1) * (s * p)
    BY <1>10 DEF Bernoulli
  <2>. HIDE DEF s, m, p
  <2>. QED
    BY <1>5, <2>1, <2>2
<1>12. t * p - n * (s * p) >= a /\ t * p - n * (s * p) \in Int
  <2>. DEFINE i == t * p
              j == n * (s * p)
  <2>1. i = p * t
    <3>. HIDE DEF p
    <3>. QED
      BY <1>2
  <2>2. e = i - a /\ j <= e /\ i \in Nat /\ j \in Nat
    BY <1>4, <1>6, <1>7, <2>1
  <2>. HIDE DEF i, j, e
  <2>3. i - j >= a /\ i - j \in Int
    BY <2>2
  <2>. QED
    BY <2>3 DEF i, j
<1>13. Power(u, n) \in Int
  BY <1>9, PowerMonotone
<1>14. Power(u, n) >= a /\ (s > 0 /\ n > 1 => Power(u, n) > a)
  <2>. DEFINE i == t * p - n * (s * p)
  <2>1. i >= a /\ i \in Int /\ Power(u, n) >= i /\ (s > 0 /\ n > 1 => Power(u, n) > i)
    BY <1>11, <1>12
  <2>. HIDE DEF i, s
  <2>. QED
    BY <1>13, <2>1
<1>15. s = 0 => u = t
  <2>. HIDE DEF s
  <2>. QED
    BY <1>5
<1>16. Above(u, n, a)
  <2>. HIDE DEF s
  <2>. QED
    BY <1>6, <1>14, <1>15 DEF Above
<1>17. u # 0
  <2>1. Power(0, n) = 0
    BY PowerOfOne
  <2>. QED
    BY <1>13, <1>14, <2>1
<1>. QED
  BY <1>9, <1>16, <1>17

(* The seed of mp_root_n, and the case that it answers at once.            *)
LEMMA SeedAbove ==
  ASSUME NEW a \in Nat, a > 0, NEW n \in Nat, n > 0, NEW e, e = mp_count_bits(a) \div n + 2
  PROVE  e \in Nat /\ 2 ^ e \in Nat /\ 2 ^ e > 0 /\ Above(2 ^ e, n, a)
<1>. DEFINE b == mp_count_bits(a)
            k == e * n
            s == 2 ^ e
<1>1. b \in Nat /\ a < 2 ^ b
  BY CountBits
<1>. HIDE DEF b
<1>2. e = b \div n + 2
  BY DEF b
<1>3. e \in Nat /\ k \in Nat /\ b <= k
  <2>. DEFINE q == b \div n
  <2>1. q \in Nat /\ b < (q + 1) * n /\ (q + 1) * n \in Nat
    <3>1. q \in Nat /\ b < (q + 1) * n
      BY <1>1, Greatest
    <3>. HIDE DEF q
    <3>. QED
      BY <3>1
  <2>2. e = q + 2
    BY <1>2
  <2>. HIDE DEF q
  <2>3. e * n = (q + 1) * n + n
    BY <2>1, <2>2
  <2>. DEFINE i == (q + 1) * n
  <2>4. k = i + n /\ i \in Nat /\ b < i
    BY <2>1, <2>3
  <2>. HIDE DEF i, k
  <2>. QED
    BY <1>1, <2>1, <2>2, <2>4
<1>4. Power(s, n) = 2 ^ k
  BY <1>3, PowerOfTwo
<1>. HIDE DEF k
<1>5. 2 ^ b <= 2 ^ k /\ 2 ^ b \in Nat /\ 2 ^ k \in Nat
  BY <1>1, <1>3, TwoTo, TwoToMonotone
<1>6. s \in Nat /\ s > 0
  BY <1>3, TwoTo
<1>7. Power(s, n) > a
  <2>. DEFINE i == 2 ^ b
              j == 2 ^ k
  <2>1. a < i /\ i <= j /\ i \in Nat /\ j \in Nat /\ Power(s, n) = j
    BY <1>1, <1>4, <1>5
  <2>. HIDE DEF i, j, s
  <2>. QED
    BY <2>1
<1>8. Power(s, n) \in Int
  BY <1>4, <1>5
<1>9. Above(s, n, a)
  <2>. HIDE DEF s
  <2>. QED
    BY <1>7, <1>8 DEF Above
<1>. QED
  BY <1>3, <1>6, <1>9

LEMMA RootIsOne ==
  ASSUME NEW a \in Nat, a > 0, NEW n \in Nat, n > 0, mp_count_bits(a) < n
  PROVE  Power(1, n) <= a /\ Power(2, n) > a
<1>. DEFINE b == mp_count_bits(a)
<1>1. b \in Nat /\ a < 2 ^ b /\ b < n
  BY CountBits
<1>. HIDE DEF b
<1>2. 2 ^ b <= 2 ^ n /\ 2 ^ b \in Nat /\ 2 ^ n \in Nat
  BY <1>1, TwoTo, TwoToMonotone
<1>3. Power(2, n) = 2 ^ n
  <2>1. 2 ^ 1 = 2 /\ 1 * n = n /\ 1 \in Nat
    BY TwoTo
  <2>2. Power(2 ^ 1, n) = 2 ^ (1 * n)
    BY <2>1, PowerOfTwo
  <2>. QED
    BY <2>1, <2>2
<1>4. Power(1, n) = 1
  BY PowerOfOne
<1>. QED
  BY <1>1, <1>2, <1>3, <1>4

-----------------------------------------------------------------------------
(* mp_sqrt and mp_root_n.                                                  *)
LEMMA RootFrame ==
  ASSUME fr \in Frames, fr.op \in RootOps
  PROVE  /\ fr.a \in Ints /\ fr.c \in Ints /\ fr.op \in {"sqrt", "root"}
         /\ fr.op = "root" => fr.n \in Int /\ fr.n # 0
<1>1. fr \in GcdFrames \cup DivFrames \cup RootFrames \cup InvmodFrames \cup ExteuclidFrames
               \cup ExptFrames \cup ExptmodFrames
               \cup KroneckerFrames \cup IsSquareFrames \cup SqrtmodFrames
  BY FramesAssumption
<1>2. fr \notin GcdFrames /\ fr \notin DivFrames /\ fr \notin InvmodFrames /\ fr \notin ExteuclidFrames
  BY DEF GcdFrames, DivFrames, InvmodFrames, ExteuclidFrames, RootOps
<1>3. fr \notin ExptFrames /\ fr \notin ExptmodFrames /\ fr \notin KroneckerFrames
        /\ fr \notin IsSquareFrames /\ fr \notin SqrtmodFrames
  BY DEF ExptFrames, ExptmodFrames, KroneckerFrames, IsSquareFrames, SqrtmodFrames, RootOps
<1>4. fr \in RootFrames
  BY <1>1, <1>2, <1>3
<1>. QED
  BY <1>4 DEF RootFrames, RootOps

Operand == old[fr.a]

SqrtRecord == [t1 : Nat, t2 : Nat]
RootRecord == [t1 : Nat, t2 : Nat, ilog2 : Int]

(* The iterates of mp_sqrt are so far above the root that the quotient by  *)
(* one is at most one above it; those of mp_root_n are above the root.     *)
RootInv ==
  fr.op \in RootOps =>
    /\ val \in [Ints -> Int] /\ old \in [Ints -> Int]
    /\ pc # "done" => val = old
    /\ pc = "sqrt" => fr.op = "sqrt"
    /\ pc = "root" => fr.op = "root"
    /\ pc \in {"sqrt_first", "sqrt_loop"} =>
         fr.op = "sqrt" /\ Operand > 0 /\ loc \in SqrtRecord /\ loc.t1 > 0
    /\ pc = "sqrt_first" => loc.t1 * loc.t1 # Operand + 1 /\ loc.t1 <= Operand
    /\ pc = "sqrt_loop" => AboveRoot(Operand, loc.t1)
    /\ pc \in {"newton", "up", "down"} =>
         fr.op = "root" /\ fr.n > 0 /\ Operand # 0 /\ loc \in RootRecord
    /\ pc = "newton" => loc.t2 > 0 /\ Above(loc.t2, fr.n, Magnitude(Operand))
    /\ pc = "up" /\ fr.n > 1 => Power(loc.t1, fr.n) > Magnitude(Operand)
    /\ pc = "down" => Power(loc.t1 + 1, fr.n) > Magnitude(Operand)
    /\ pc = "done" => RootsCorrect

LEMMA RootContext ==
  ASSUME Ownership, RootInv, fr.op \in RootOps
  PROVE  /\ fr.a \in Ints /\ fr.c \in Ints /\ fr.op \in {"sqrt", "root"}
         /\ fr.op = "root" => fr.n \in Int /\ fr.n # 0
         /\ val \in [Ints -> Int] /\ old \in [Ints -> Int]
         /\ Operand \in Int /\ Magnitude(Operand) \in Nat
         /\ pc # "done" => val = old /\ A = Operand
<1>1. /\ fr.a \in Ints /\ fr.c \in Ints /\ fr.op \in {"sqrt", "root"}
      /\ fr.op = "root" => fr.n \in Int /\ fr.n # 0
  BY RootFrame DEF Ownership
<1>2. val \in [Ints -> Int] /\ old \in [Ints -> Int] /\ (pc # "done" => val = old)
  BY DEF RootInv
<1>3. Operand \in Int
  BY <1>1, <1>2 DEF Operand
<1>. QED
  BY <1>1, <1>2, <1>3, MagnitudeProperties DEF A, Operand

LEMMA RootRefuses ==
  ASSUME Ownership, RootInv, fr.op \in RootOps, pc # "done",
         NEW code, NEW cleared, Refuse(code, cleared),
         code # "OKAY" \/ (fr.op = "root" /\ fr.n <= 1)
  PROVE  RootInv'
<1>1. val' = val /\ old' = old /\ fr' = fr /\ pc' = "done" /\ err' = code
  BY DEF Refuse, Return
<1>2. val \in [Ints -> Int] /\ old \in [Ints -> Int]
  BY RootContext
<1>3. RootsCorrect'
  <2>1. CASE code # "OKAY"
    BY <1>1, <2>1 DEF RootsCorrect, SqrtCorrect, RootCorrect, RootAsDocumented, Succeeded, Done
  <2>2. CASE fr.op = "root" /\ fr.n <= 1
    <3>1. fr.n \in Int
      BY <2>2, RootContext
    <3>2. ~ (fr.n > 1)
      BY <2>2, <3>1
    <3>. QED
      BY <1>1, <2>2, <3>2 DEF RootsCorrect, SqrtCorrect, RootCorrect, Succeeded, Done
  <2>. QED
    BY <2>1, <2>2
<1>. QED
  BY <1>1, <1>2, <1>3 DEF RootInv

LEMMA SqrtEnds ==
  ASSUME Ownership, RootInv, fr.op = "sqrt", pc # "done", Operand >= 0,
         NEW m \in Nat, SquareRoot(Operand, m),
         NEW cleared, Put(fr.c, m), Return("OKAY", cleared)
  PROVE  RootInv'
<1>1. /\ fr.a \in Ints /\ fr.c \in Ints
      /\ val \in [Ints -> Int] /\ old \in [Ints -> Int] /\ Operand \in Int
  BY RootContext DEF RootOps
<1>2. old' = old /\ fr' = fr /\ pc' = "done" /\ err' = "OKAY" /\ val' = [val EXCEPT ![fr.c] = m]
  BY DEF Return, Put
<1>3. val' \in [Ints -> Int] /\ val'[fr.c] = m
  BY <1>1, <1>2
<1>4. Magnitude(m) = m /\ Magnitude(Operand) = Operand /\ Sgn(m) = 1 /\ Sgn(Operand) = 1
  BY <1>1 DEF Magnitude, Sgn
<1>5. Power(m, 2) = m * m /\ Power(m + 1, 2) = (m + 1) * (m + 1)
  BY SmallPowers
<1>6. IsRoot(m, Operand, 2)
  BY <1>4, <1>5 DEF IsRoot, SquareRoot
<1>7. RootsCorrect'
  BY <1>2, <1>3, <1>6 DEF RootsCorrect, SqrtCorrect, RootCorrect, Operand
<1>. QED
  BY <1>1, <1>2, <1>3, <1>7 DEF RootInv

LEMMA RootEnds ==
  ASSUME Ownership, RootInv, fr.op = "root", pc # "done",
         NEW r \in Nat,
         Operand # 0 => Power(r, fr.n) <= Magnitude(Operand) /\ Power(r + 1, fr.n) > Magnitude(Operand),
         NEW cleared, Put(fr.c, SignedRoot(r)), Return("OKAY", cleared)
  PROVE  RootInv'
<1>1. /\ fr.a \in Ints /\ fr.c \in Ints
      /\ val \in [Ints -> Int] /\ old \in [Ints -> Int] /\ Operand \in Int /\ A = Operand
  BY RootContext DEF RootOps
<1>. DEFINE v == SignedRoot(r)
<1>2. old' = old /\ fr' = fr /\ pc' = "done" /\ err' = "OKAY" /\ val' = [val EXCEPT ![fr.c] = v]
  BY DEF Return, Put
<1>3. Sgn(Operand) \in {-1, 1}
  BY <1>1, MagnitudeProperties
<1>4. v \in Int /\ v = IF fr.c = fr.a THEN r ELSE Sgn(Operand) * r
  BY <1>1, <1>3 DEF SignedRoot
<1>. HIDE DEF v
<1>5. val' \in [Ints -> Int] /\ val'[fr.c] = v
  BY <1>1, <1>2, <1>4
<1>6. ASSUME Operand # 0, fr.c = fr.a => Operand > 0
      PROVE  IsRoot(v, Operand, fr.n)
  <2>1. v = Sgn(Operand) * r
    <3>1. CASE fr.c = fr.a
      <4>1. Sgn(Operand) = 1
        BY <1>1, <1>6, <3>1 DEF Sgn
      <4>. QED
        BY <1>4, <3>1, <4>1
    <3>2. CASE fr.c # fr.a
      BY <1>4, <3>2
    <3>. QED
      BY <3>1, <3>2
  <2>2. Magnitude(v) = r /\ (v # 0 => Sgn(v) = Sgn(Operand))
    <3>1. CASE Sgn(Operand) = 1
      BY <2>1, <3>1 DEF Magnitude, Sgn
    <3>2. CASE Sgn(Operand) = -1
      <4>1. v = - r
        BY <2>1, <3>2
      <4>2. v \in Int /\ Magnitude(v) = IF v < 0 THEN - v ELSE v
        BY <1>4, MagnitudeProperties
      <4>3. Magnitude(v) = r
        BY <4>1, <4>2
      <4>4. v # 0 => Sgn(v) = -1
        BY <4>1 DEF Sgn
      <4>. QED
        BY <3>2, <4>3, <4>4
    <3>. QED
      BY <1>3, <3>1, <3>2
  <2>. QED
    BY <1>6, <2>2 DEF IsRoot
<1>7. RootsCorrect'
  <2>1. RootCorrect'
    BY <1>2, <1>5, <1>6 DEF RootCorrect, RootAsDocumented, Operand
  <2>2. SqrtCorrect'
    BY <1>2 DEF SqrtCorrect, Succeeded, Done
  <2>. QED
    BY <2>1, <2>2 DEF RootsCorrect
<1>. QED
  BY <1>1, <1>2, <1>5, <1>7 DEF RootInv

(* The seed is positive and not above the operand.                         *)
LEMMA SqrtSeed ==
  ASSUME NEW a \in Nat, a > 0, NEW t, t = a \div Weight(Used(a) \div 2)
  PROVE  t \in Nat /\ t > 0 /\ t <= a /\ t * t # a + 1
<1>. DEFINE u == Used(a)
            h == u \div 2
            w == Weight(h)
<1>1. u \in Nat /\ u > 0 /\ Weight(u - 1) <= a
  BY UsedFacts
<1>. HIDE DEF u
<1>2. h \in Nat /\ u - 1 \in Nat /\ h <= u - 1
  BY <1>1
<1>. HIDE DEF h
<1>3. w \in Nat /\ w > 0 /\ w <= a
  <2>. DEFINE i == u - 1
  <2>1. i \in Nat /\ h <= i /\ Weight(i) <= a
    BY <1>1, <1>2
  <2>. HIDE DEF i
  <2>2. Weight(h) <= Weight(i) /\ Weight(h) \in Nat /\ Weight(h) > 0 /\ Weight(i) \in Nat
    BY <1>2, <2>1, WeightMonotone, Weights
  <2>. QED
    BY <2>1, <2>2
<1>4. t = a \div w
  BY DEF h, u
<1>. HIDE DEF w
<1>5. t \in Nat /\ t * w <= a /\ t * w \in Nat /\ \A k \in Nat : k * w <= a => k <= t
  BY <1>3, <1>4, Greatest
<1>6. t >= 1
  <2>1. 1 * w <= a
    BY <1>3
  <2>. QED
    BY <1>5, <2>1
<1>7. t <= a
  <2>1. t * 1 <= t * w
    <3>1. 1 * t <= w * t
      BY <1>3, <1>5, MonotoneProduct
    <3>. QED
      BY <1>3, <1>5, <3>1
  <2>. QED
    BY <1>5, <2>1
<1>8. t * t # a + 1
  BY <1>3, <1>4, <1>5, NotASquare
<1>. QED
  BY <1>5, <1>6, <1>7, <1>8

LEMMA SqrtStarts ==
  ASSUME Ownership, RootInv, fr.op \in RootOps, mp_sqrt
  PROVE  RootInv'
<1>0. pc = "sqrt"
  BY DEF mp_sqrt
<1>1. /\ fr.op = "sqrt" /\ A = Operand /\ Operand \in Int
      /\ val \in [Ints -> Int] /\ old \in [Ints -> Int] /\ val = old
  BY <1>0, RootContext DEF RootInv
<1>2. CASE A < 0 /\ Refuse("VAL", {})
  BY <1>0, <1>2, RootRefuses
<1>3. CASE A = 0 /\ Put(fr.c, 0) /\ Return("OKAY", {})
  <2>1. SquareRoot(Operand, 0) /\ Operand >= 0 /\ 0 \in Nat
    BY <1>1, <1>3 DEF SquareRoot
  <2>. QED
    BY <1>0, <1>1, <1>3, <2>1, SqrtEnds
<1>4. CASE A > 0 /\ Refuse("MEM", {})
  BY <1>0, <1>4, RootRefuses
<1>5. CASE /\ A > 0
           /\ loc' = [t1 |-> A \div Weight(Used(A) \div 2), t2 |-> 0]
           /\ pc' = "sqrt_first"
           /\ UNCHANGED << val, fr, err, old >>
  <2>. DEFINE t == A \div Weight(Used(A) \div 2)
  <2>1. A \in Nat
    BY <1>1, <1>5
  <2>2. t \in Nat /\ t > 0 /\ t <= A /\ t * t # A + 1
    BY <1>5, <2>1, SqrtSeed
  <2>3. loc' = [t1 |-> t, t2 |-> 0]
    BY <1>5
  <2>. HIDE DEF t
  <2>4. loc' \in SqrtRecord /\ loc'.t1 = t
    BY <2>2, <2>3 DEF SqrtRecord
  <2>5. Operand' = Operand /\ fr' = fr /\ val' = val /\ old' = old
    BY <1>5 DEF Operand
  <2>. QED
    BY <1>1, <1>5, <2>2, <2>4, <2>5 DEF RootInv
<1>. QED
  BY <1>2, <1>3, <1>4, <1>5 DEF mp_sqrt

LEMMA SqrtFirst ==
  ASSUME Ownership, RootInv, fr.op \in RootOps, sqrt_first
  PROVE  RootInv'
<1>. DEFINE t == loc.t1
            a == Operand
            q == a \div t
            m == (t + q) \div 2
<1>0. pc = "sqrt_first"
  BY DEF sqrt_first
<1>1. /\ fr.op = "sqrt" /\ A = a /\ a \in Nat /\ a > 0 /\ t \in Nat /\ t > 0
      /\ t * t # a + 1 /\ t <= a
      /\ val \in [Ints -> Int] /\ old \in [Ints -> Int] /\ val = old
  BY <1>0, RootContext DEF RootInv, SqrtRecord
<1>2. CASE Refuse("MEM", SqrtTemps)
  BY <1>0, <1>2, RootRefuses
<1>3. CASE loc' = [t1 |-> Mean, t2 |-> A \div loc.t1] /\ Goto("sqrt_loop")
  <2>. HIDE DEF a, t
  <2>1. q \in Nat /\ q >= 1
    <3>1. q \in Nat /\ \A k \in Nat : k <= q <=> k * t <= a
      BY <1>1, Greatest
    <3>2. 1 * t <= a
      BY <1>1
    <3>. QED
      BY <3>1, <3>2
  <2>2. q = a \div t
    OBVIOUS
  <2>. HIDE DEF q
  <2>3. m \in Nat /\ m > 0
    BY <1>1, <2>1
  <2>4. m = (t + q) \div 2
    OBVIOUS
  <2>. HIDE DEF m
  <2>5. NotBelow(a, t, q, m)
    BY <1>1, <2>1, <2>2, <2>3, <2>4, MeanNotBelow DEF IsMean
  <2>6. AboveRoot(a, m)
    <3>1. m * (m + 2) \in Nat
      BY <2>3
    <3>. QED
      BY <1>1, <2>5, <3>1 DEF NotBelow, AboveRoot
  <2>7. loc' = [t1 |-> m, t2 |-> q]
    BY <1>1, <1>3 DEF Mean, m, q, t
  <2>8. loc' \in SqrtRecord /\ loc'.t1 = m
    BY <2>1, <2>3, <2>7 DEF SqrtRecord
  <2>9. Operand' = a /\ fr' = fr /\ val' = val /\ old' = old /\ pc' = "sqrt_loop"
    BY <1>3 DEF Operand, Goto, a
  <2>. QED
    BY <1>1, <2>3, <2>6, <2>8, <2>9 DEF RootInv
<1>. QED
  BY <1>2, <1>3 DEF sqrt_first

LEMMA SqrtRounds ==
  ASSUME Ownership, RootInv, fr.op \in RootOps, sqrt_round
  PROVE  RootInv'
<1>. DEFINE t == loc.t1
            a == Operand
            q == a \div t
            m == (t + q) \div 2
<1>0. pc = "sqrt_loop"
  BY DEF sqrt_round
<1>1. /\ fr.op = "sqrt" /\ A = a /\ a \in Nat /\ a > 0 /\ t \in Nat /\ t > 0
      /\ AboveRoot(a, t)
      /\ val \in [Ints -> Int] /\ old \in [Ints -> Int] /\ val = old
  BY <1>0, RootContext DEF RootInv, SqrtRecord
<1>2. /\ \/ Refuse("MEM", SqrtTemps)
         \/ m > q /\ loc' = [t1 |-> m, t2 |-> q] /\ Goto("sqrt_loop")
         \/ m <= q /\ Put(fr.c, m) /\ Return("OKAY", SqrtTemps)
  BY <1>1 DEF sqrt_round, Mean
<1>3. q \in Nat /\ m \in Nat
  <2>. HIDE DEF a, t
  <2>1. q \in Nat
    BY <1>1, Greatest
  <2>. HIDE DEF q
  <2>. QED
    BY <1>1, <2>1
<1>4. IsMean(a, t, q, m)
  BY DEF IsMean
<1>5. CASE Refuse("MEM", SqrtTemps)
  BY <1>0, <1>5, RootRefuses
<1>6. CASE m > q /\ loc' = [t1 |-> m, t2 |-> q] /\ Goto("sqrt_loop")
  <2>1. AboveRoot(a, m)
    <3>. HIDE DEF a, t, q, m
    <3>1. NotBelow(a, t, q, m)
      BY <1>1, <1>3, <1>4, MeanNotBelow
    <3>. QED
      BY <1>6, <3>1 DEF NotBelow, AboveRoot
  <2>2. Operand' = a /\ fr' = fr /\ val' = val /\ old' = old /\ pc' = "sqrt_loop"
    BY <1>6 DEF Operand, Goto
  <2>. HIDE DEF a, t, q, m
  <2>3. loc' \in SqrtRecord /\ loc'.t1 = m /\ m > 0
    BY <1>3, <1>6 DEF SqrtRecord
  <2>. QED
    BY <1>1, <2>1, <2>2, <2>3 DEF RootInv
<1>7. CASE m <= q /\ Put(fr.c, m) /\ Return("OKAY", SqrtTemps)
  <2>. HIDE DEF t, q, m
  <2>1. SquareRoot(a, m)
    <3>. HIDE DEF a
    <3>. QED
      BY <1>1, <1>3, <1>4, <1>7, MeanIsRoot
  <2>2. Operand >= 0 /\ pc # "done"
    BY <1>0, <1>1
  <2>. QED
    BY <1>1, <1>3, <1>7, <2>1, <2>2, SqrtEnds
<1>. QED
  BY <1>2, <1>5, <1>6, <1>7

LEMMA RootStarts ==
  ASSUME Ownership, RootInv, fr.op \in RootOps, mp_root_n
  PROVE  RootInv'
<1>. DEFINE a == Magnitude(Operand)
            n == fr.n
            bits == mp_count_bits(A)
            e == bits \div n + 2
            s == 2 ^ e
            refused == n < 0 \/ n > MP_DIGIT_MAX \/ (n % 2 = 0 /\ A < 0)
<1>0. pc = "root"
  BY DEF mp_root_n
<1>1. /\ fr.op = "root" /\ A = Operand /\ Operand \in Int /\ a \in Nat /\ n \in Int /\ n # 0
      /\ val \in [Ints -> Int] /\ old \in [Ints -> Int] /\ val = old
  BY <1>0, RootContext DEF RootInv
<1>2. \/ refused /\ Refuse("VAL", {})
      \/ ~ refused /\ Refuse("MEM", {})
      \/ ~ refused /\ bits < n /\ Put(fr.c, SignedRoot(1)) /\ Return("OKAY", RootTemps)
      \/ /\ ~ refused /\ bits >= n
         /\ loc' = [t1 |-> 0, t2 |-> s, ilog2 |-> e]
         /\ pc' = "newton"
         /\ UNCHANGED << val, fr, err, old >>
  BY DEF mp_root_n
<1>3. bits = mp_count_bits(a)
  <2>1. Magnitude(a) = a
    BY <1>1, MagnitudeProperties
  <2>. QED
    BY <1>1, <2>1 DEF mp_count_bits
<1>4. bits \in Nat /\ (a = 0 => bits = 0)
  <2>. HIDE DEF a, bits
  <2>. QED
    BY <1>1, <1>3, CountBitsFacts
<1>5. ~ refused => n \in Nat /\ n > 0
  BY <1>1
<1>6. Operand # 0 => a > 0
  BY <1>1, MagnitudeProperties
<1>7. CASE Refuse("VAL", {}) \/ Refuse("MEM", {})
  BY <1>0, <1>7, RootRefuses
<1>8. CASE ~ refused /\ bits < n /\ Put(fr.c, SignedRoot(1)) /\ Return("OKAY", RootTemps)
  <2>1. Operand # 0 => Power(1, n) <= a /\ Power(1 + 1, n) > a
    <3>1. 1 + 1 = 2
      OBVIOUS
    <3>. HIDE DEF a, bits, n
    <3>. QED
      BY <1>1, <1>3, <1>5, <1>6, <1>8, <3>1, RootIsOne
  <2>2. 1 \in Nat /\ pc # "done"
    BY <1>0
  <2>. QED
    BY <1>1, <1>8, <2>1, <2>2, RootEnds
<1>9. CASE /\ ~ refused /\ bits >= n
           /\ loc' = [t1 |-> 0, t2 |-> s, ilog2 |-> e]
           /\ pc' = "newton"
           /\ UNCHANGED << val, fr, err, old >>
  <2>1. a > 0 /\ Operand # 0 /\ n \in Nat /\ n > 0
    <3>1. a # 0
      <4>. HIDE DEF a, bits, n
      <4>. QED
        BY <1>4, <1>5, <1>9
    <3>2. a > 0
      <4>. HIDE DEF a
      <4>. QED
        BY <1>1, <3>1
    <3>3. Operand # 0
      BY <3>1, <1>1, MagnitudeProperties
    <3>. QED
      BY <1>5, <1>9, <3>2, <3>3
  <2>2. e \in Nat /\ s \in Nat /\ s > 0 /\ Above(s, n, a)
    <3>1. e = mp_count_bits(a) \div n + 2
      BY <1>3
    <3>. HIDE DEF a, e, n
    <3>. QED
      BY <1>1, <2>1, <3>1, SeedAbove
  <2>. HIDE DEF s, e
  <2>3. loc' \in RootRecord /\ loc'.t2 = s
    BY <1>9, <2>2 DEF RootRecord
  <2>4. Operand' = Operand /\ fr' = fr /\ val' = val /\ old' = old
    BY <1>9 DEF Operand
  <2>. QED
    BY <1>1, <1>9, <2>1, <2>2, <2>3, <2>4 DEF RootInv
<1>. QED
  BY <1>2, <1>7, <1>8, <1>9

LEMMA RootNewton ==
  ASSUME Ownership, RootInv, fr.op \in RootOps, root_newton
  PROVE  RootInv'
<1>. DEFINE a == Magnitude(Operand)
            n == fr.n
            t == loc.t2
            p == Power(t, n - 1)
            u == t - Quotient(p * t - a, p * n)
            e == loc.ilog2 - 1
<1>0. pc = "newton"
  BY DEF root_newton
<1>1. /\ fr.op = "root" /\ A = Operand /\ Operand \in Int /\ a \in Nat
      /\ n \in Nat /\ n > 0 /\ Operand # 0 /\ a > 0
      /\ loc \in RootRecord /\ t \in Nat /\ t > 0 /\ Above(t, n, a) /\ e \in Int
      /\ val \in [Ints -> Int] /\ old \in [Ints -> Int] /\ val = old
  <2>1. /\ fr.op = "root" /\ A = Operand /\ Operand \in Int /\ a \in Nat
        /\ n \in Int /\ n > 0 /\ Operand # 0
        /\ loc \in RootRecord /\ t > 0 /\ Above(t, n, a)
        /\ val \in [Ints -> Int] /\ old \in [Ints -> Int] /\ val = old
    BY <1>0, RootContext DEF RootInv
  <2>2. a > 0
    BY <2>1, MagnitudeProperties
  <2>3. t \in Nat /\ e \in Int
    BY <2>1 DEF RootRecord
  <2>. QED
    BY <2>1, <2>2, <2>3
<1>2. \/ Refuse("MEM", RootTemps)
      \/ /\ loc' = [t1 |-> t, t2 |-> u, ilog2 |-> e]
         /\ Goto(IF loc.ilog2 = 0 \/ loc.t2 = u THEN "up" ELSE "newton")
  BY <1>1 DEF root_newton
<1>3. u \in Nat /\ u > 0 /\ Above(u, n, a)
  <2>1. NewtonStep(u, t, n, a)
    BY DEF NewtonStep
  <2>. HIDE DEF a, n, t, u
  <2>. QED
    BY <1>1, <2>1, NewtonAbove
<1>4. CASE Refuse("MEM", RootTemps)
  BY <1>0, <1>4, RootRefuses
<1>5. CASE /\ loc' = [t1 |-> t, t2 |-> u, ilog2 |-> e]
           /\ Goto(IF loc.ilog2 = 0 \/ loc.t2 = u THEN "up" ELSE "newton")
  <2>1. /\ Operand' = Operand /\ fr' = fr /\ val' = val /\ old' = old
        /\ pc' \in {"up", "newton"}
    BY <1>5 DEF Operand, Goto
  <2>2. loc' \in RootRecord /\ loc'.t1 = t /\ loc'.t2 = u
    <3>. HIDE DEF t, u, e
    <3>. QED
      BY <1>1, <1>3, <1>5 DEF RootRecord
  <2>3. n > 1 => Power(t, n) > a
    BY <1>1 DEF Above
  <2>. HIDE DEF u, t, e
  <2>4. CASE pc' = "newton"
    BY <1>1, <1>3, <2>1, <2>2, <2>4 DEF RootInv
  <2>5. CASE pc' = "up"
    BY <1>1, <2>1, <2>2, <2>3, <2>5 DEF RootInv
  <2>. QED
    BY <2>1, <2>4, <2>5
<1>. QED
  BY <1>2, <1>4, <1>5

LEMMA RootCorrects ==
  ASSUME Ownership, RootInv, fr.op \in RootOps, root_up \/ root_down
  PROVE  RootInv'
<1>. DEFINE a == Magnitude(Operand)
            n == fr.n
            t == loc.t1
            p == Power(t, n)
<1>0. pc \in {"up", "down"} /\ pc # "done"
  BY DEF root_up, root_down
<1>1. /\ fr.op = "root" /\ A = Operand /\ Operand \in Int /\ a \in Nat
      /\ n \in Nat /\ n > 0 /\ Operand # 0
      /\ loc \in RootRecord /\ t \in Nat
      /\ val \in [Ints -> Int] /\ old \in [Ints -> Int] /\ val = old
  <2>1. /\ fr.op = "root" /\ A = Operand /\ Operand \in Int /\ a \in Nat
        /\ n \in Int /\ n > 0 /\ Operand # 0 /\ loc \in RootRecord
        /\ val \in [Ints -> Int] /\ old \in [Ints -> Int] /\ val = old
    BY <1>0, RootContext DEF RootInv
  <2>. QED
    BY <2>1 DEF RootRecord
<1>2. p \in Nat /\ Power(t + 1, n) \in Nat /\ p <= Power(t + 1, n)
  <2>1. t <= t + 1 /\ t + 1 \in Nat
    BY <1>1
  <2>. HIDE DEF t, n
  <2>. QED
    BY <1>1, <2>1, PowerMonotone
<1>3. CASE root_up
  <2>0. pc = "up"
    BY <1>3 DEF root_up
  <2>1. \/ Refuse("MEM", RootTemps)
        \/ p = a /\ Refuse("OKAY", RootTemps)
        \/ p < a /\ loc' = [loc EXCEPT !.t1 = @ + 1] /\ Goto("up")
        \/ p > a /\ UNCHANGED loc /\ Goto("down")
    BY <1>1, <1>3 DEF root_up
  <2>2. n > 1 => p > a
    BY <2>0, <1>1 DEF RootInv
  <2>3. CASE Refuse("MEM", RootTemps)
    BY <1>0, <2>3, RootRefuses
  <2>4. CASE p = a /\ Refuse("OKAY", RootTemps)
    <3>1. ~ (n > 1)
      <4>. HIDE DEF p, a
      <4>. QED
        BY <1>1, <2>2, <2>4
    <3>2. n <= 1
      BY <1>1, <3>1
    <3>. QED
      BY <1>0, <1>1, <2>4, <3>2, RootRefuses
  <2>5. CASE p < a /\ loc' = [loc EXCEPT !.t1 = @ + 1] /\ Goto("up")
    <3>1. ~ (n > 1)
      <4>. HIDE DEF p, a
      <4>. QED
        BY <1>1, <1>2, <2>2, <2>5
    <3>2. Operand' = Operand /\ fr' = fr /\ val' = val /\ old' = old /\ pc' = "up"
      BY <2>5 DEF Operand, Goto
    <3>3. loc' \in RootRecord
      BY <1>1, <2>5 DEF RootRecord
    <3>. QED
      BY <1>1, <3>1, <3>2, <3>3 DEF RootInv
  <2>6. CASE p > a /\ UNCHANGED loc /\ Goto("down")
    <3>1. Operand' = Operand /\ fr' = fr /\ val' = val /\ old' = old /\ pc' = "down" /\ loc' = loc
      BY <2>6 DEF Operand, Goto
    <3>2. Power(t + 1, n) > a
      <4>. DEFINE g == Power(t + 1, n)
      <4>1. g \in Nat /\ p <= g /\ p > a
        BY <1>2, <2>6
      <4>. HIDE DEF g, p, a
      <4>2. g > a
        BY <1>1, <1>2, <4>1
      <4>. QED
        BY <4>2 DEF g
    <3>. QED
      BY <1>1, <3>1, <3>2 DEF RootInv
  <2>. QED
    BY <2>1, <2>3, <2>4, <2>5, <2>6
<1>4. CASE root_down
  <2>0. pc = "down"
    BY <1>4 DEF root_down
  <2>1. \/ Refuse("MEM", RootTemps)
        \/ p > a /\ loc' = [loc EXCEPT !.t1 = @ - 1] /\ Goto("down")
        \/ p <= a /\ Put(fr.c, SignedRoot(loc.t1)) /\ Return("OKAY", RootTemps)
    BY <1>1, <1>4 DEF root_down
  <2>2. Power(t + 1, n) > a
    BY <2>0, <1>1 DEF RootInv
  <2>3. CASE Refuse("MEM", RootTemps)
    BY <1>0, <2>3, RootRefuses
  <2>4. CASE p > a /\ loc' = [loc EXCEPT !.t1 = @ - 1] /\ Goto("down")
    <3>. DEFINE r == t - 1
    <3>1. r \in Nat /\ r + 1 = t
      <4>1. t # 0
        <5>1. Power(0, n) = 0
          BY <1>1, PowerOfOne
        <5>2. p # 0
          <6>. HIDE DEF p, a
          <6>. QED
            BY <1>1, <1>2, <2>4
        <5>. QED
          BY <5>1, <5>2
      <4>. HIDE DEF t
      <4>. QED
        BY <1>1, <4>1
    <3>2. Operand' = Operand /\ fr' = fr /\ val' = val /\ old' = old /\ pc' = "down"
      BY <2>4 DEF Operand, Goto
    <3>3. loc' \in RootRecord /\ loc'.t1 = r
      <4>1. loc' = [loc EXCEPT !.t1 = r]
        BY <2>4
      <4>. HIDE DEF r
      <4>. QED
        BY <1>1, <3>1, <4>1 DEF RootRecord
    <3>4. Power(loc'.t1 + 1, n) > a
      BY <2>4, <3>1, <3>3
    <3>. HIDE DEF r
    <3>. QED
      BY <1>1, <3>2, <3>3, <3>4 DEF RootInv
  <2>5. CASE p <= a /\ Put(fr.c, SignedRoot(loc.t1)) /\ Return("OKAY", RootTemps)
    BY <1>0, <1>1, <2>2, <2>5, RootEnds
  <2>. QED
    BY <2>1, <2>3, <2>4, <2>5
<1>. QED
  BY <1>3, <1>4

LEMMA RootInvKept ==
  ASSUME Ownership, RootInv, RootNext
  PROVE  RootInv'
<1>1. fr.op \in RootOps
  BY StepsAtHome
<1>. QED
  BY <1>1, SqrtStarts, SqrtFirst, SqrtRounds, RootStarts, RootNewton, RootCorrects DEF RootNext

LEMMA RootInvInductive ==
  ASSUME Ownership, RootInv, [Next]_vars
  PROVE  RootInv'
<1>1. CASE RootNext
  BY <1>1, RootInvKept
<1>2. CASE GcdNext \/ DivNext \/ InverseNext \/ PowerNext \/ ResidueNext
  <2>1. fr'.op \notin RootOps
    BY <1>2, StepsAtHome DEF GcdOps, DivOps, RootOps, InverseOps, PowerOps, ResidueOps
  <2>. QED
    BY <2>1 DEF RootInv
<1>3. CASE UNCHANGED vars
  <2>1. RootsCorrect' = RootsCorrect /\ Operand' = Operand
    BY <1>3 DEF vars, RootsCorrect, SqrtCorrect, RootCorrect, RootAsDocumented, Succeeded, Done, Operand
  <2>. QED
    BY <1>3, <2>1 DEF vars, RootInv
<1>. QED
  BY <1>1, <1>2, <1>3 DEF Next

LEMMA RootInvInit ==
  ASSUME Init
  PROVE  RootInv
<1>1. fr \in Frames /\ val \in Contents(fr) /\ old = val /\ pc = fr.op
  BY DEF Init
<1>2. val \in [Ints -> Int]
  BY <1>1, ContentsAssumption
<1>. QED
  BY <1>1, <1>2 DEF RootInv, RootOps

LEMMA RootKept == Spec => []RootInv
<1>1. Init => RootInv
  BY RootInvInit
<1>2. Ownership /\ RootInv /\ [Next]_vars => RootInv'
  BY RootInvInductive
<1>. QED
  BY <1>1, <1>2, Owned, PTL DEF Spec

(* mp_sqrt leaves the truncated square root and mp_root_n the truncated    *)
(* root, in place or not, but for the cases that RootCorrect names.        *)
THEOREM Roots == Spec => []RootsCorrect
<1>1. Ownership /\ RootInv => RootsCorrect
  BY DEF RootInv, RootOps, RootsCorrect, SqrtCorrect, RootCorrect, RootAsDocumented, Succeeded, Done
<1>. QED
  BY <1>1, Owned, RootKept, PTL

(* The iterates never go below the root, so that the exit of mp_root_n     *)
(* that leaves its result unwritten is taken for first roots only.         *)
THEOREM RootLoops == Spec => []RootsLoopInvariant
<1>1. Ownership /\ RootInv => RootsLoopInvariant
  <2>. SUFFICES ASSUME Ownership, RootInv PROVE RootsLoopInvariant
    OBVIOUS
  <2>1. ASSUME pc \in {"newton", "up", "sqrt_loop"} PROVE fr.op \in RootOps
    <3>1. fr.op \in GcdOps \cup DivOps \cup RootOps \cup InverseOps \cup PowerOps \cup ResidueOps
      BY Operations DEF Ownership
    <3>2. fr.op \notin GcdOps /\ fr.op \notin DivOps
      BY <2>1 DEF Ownership, GcdOwns, DivOwns, SchoolPcs
    <3>3. fr.op \notin InverseOps /\ fr.op \notin PowerOps /\ fr.op \notin ResidueOps
      BY <2>1 DEF Ownership, InverseOwns, InvPcs, PowerOwns, ResidueOwns
    <3>. QED
      BY <3>1, <3>2, <3>3
  <2>3. ASSUME pc \in {"newton", "up", "sqrt_loop"} PROVE A = Operand /\ Operand \in Int
    BY <2>1, <2>3, RootContext
  <2>4. pc = "newton" => Power(loc.t2, fr.n) >= Magnitude(A)
    BY <2>1, <2>3 DEF RootInv, Above
  <2>5. pc = "up" /\ fr.n > 1 => Power(loc.t1, fr.n) > Magnitude(A)
    BY <2>1, <2>3 DEF RootInv
  <2>6. pc = "sqrt_loop" => (loc.t1 + 1) * (loc.t1 + 1) > A /\ loc.t1 > 0
    <3>. SUFFICES ASSUME pc = "sqrt_loop" PROVE (loc.t1 + 1) * (loc.t1 + 1) > A /\ loc.t1 > 0
      OBVIOUS
    <3>1. /\ loc.t1 \in Nat /\ loc.t1 > 0 /\ loc.t1 * (loc.t1 + 2) > Operand
          /\ Operand \in Int /\ A = Operand
      BY <2>1, <2>3 DEF RootInv, SqrtRecord, AboveRoot
    <3>. DEFINE t == loc.t1
    <3>2. t \in Nat /\ t * (t + 2) > A /\ A \in Int
      BY <3>1
    <3>. HIDE DEF t
    <3>3. (t + 1) * (t + 1) = t * (t + 2) + 1 /\ t * (t + 2) \in Nat
      BY <3>2
    <3>4. (t + 1) * (t + 1) > A
      BY <3>2, <3>3
    <3>. QED
      BY <3>1, <3>4 DEF t
  <2>. QED
    BY <2>4, <2>5, <2>6 DEF RootsLoopInvariant
<1>. QED
  BY <1>1, Owned, RootKept, PTL

-----------------------------------------------------------------------------
(* What a call that fails leaves.  All functions but mp_gcd, mp_lcm and    *)
(* mp_expt_n write to the client's structures as the last thing they do.   *)
WriteLast ==
  fr.op \notin GcdOps \cup {"expt"} => val = old \/ (pc = "done" /\ err = "OKAY")

LEMMA WriteLastKept ==
  ASSUME Ownership, ExptInv, WriteLast, [Next]_vars
  PROVE  WriteLast'
<1>. SUFFICES ASSUME fr'.op \notin GcdOps \cup {"expt"} PROVE WriteLast'
  BY DEF WriteLast
<1>. USE DEF WriteLast, Refuse, Return, Goto, Answer, Results
<1>1. CASE GcdNext
  BY <1>1, StepsAtHome
<1>2. CASE DivNext
  <2>1. DivOwns /\ fr.op \in DivOps /\ fr' = fr
    BY <1>2, StepsAtHome DEF Ownership
  <2>2. pc # "done"
    BY <1>2 DEF DivNext, mp_div_refused, mp_div_smaller, school_init, school_normalise, school_top,
         school_estimate, school_correct, school_subtract, school_end, small_init, small_round,
         small_end, Divisible
  <2>. QED
    BY <1>2, <2>1, <2>2 DEF DivNext, mp_div_refused, mp_div_smaller, school_init, school_normalise,
         school_top, school_estimate, school_correct, school_subtract, school_end, small_init,
         small_round, small_end, Divisible
<1>3. CASE RootNext
  <2>1. fr' = fr
    BY <1>3, StepsAtHome
  <2>. QED
    BY <1>3, <2>1 DEF RootNext, mp_sqrt, sqrt_first, sqrt_round, mp_root_n, root_newton, root_up,
         root_down
<1>4. CASE InverseNext
  <2>1. fr' = fr
    BY <1>4, StepsAtHome
  <2>. QED
    BY <1>4, <2>1 DEF InverseNext, mp_invmod, invmod_odd_init, invmod_init, inv_halve_u, inv_halve_v,
         inv_subtract, inv_end, inv_correct, mp_exteuclid, euclid_step, euclid_end, Invertible
<1>5. CASE PowerNext
  <2>1. fr' = fr /\ fr.op \in PowerOps /\ PowerOwns
    BY <1>5, StepsAtHome DEF Ownership
  <2>2. pc # "done"
    BY <1>5 DEF PowerNext, mp_expt_n, expt_round, expt_end, exptmod_refused, exptmod_positive,
         exptmod_negative, exptmod_init, exptmod_table, window_skip, window_square, window_collect,
         window_full, window_rest, exptmod_end, NextBit, Collects
  <2>3. val = old
    BY <2>1, <2>2
  <2>4. pc = "exptmod" \/ pc = "choose" \/ pc = "table" \/ pc = "window" \/ pc = "exptmod_end"
    BY <1>5, <2>1 DEF ExptInv, PowerNext, mp_expt_n, expt_round, expt_end, exptmod_refused, exptmod_positive,
         exptmod_negative, exptmod_init, exptmod_table, window_skip, window_square, window_collect,
         window_full, window_rest, exptmod_end, NextBit, Collects
  <2>. QED
    BY <1>5, <2>3, <2>4
       DEF PowerNext, mp_expt_n, expt_round, expt_end, exptmod_refused, exptmod_positive,
         exptmod_negative, exptmod_init, exptmod_table, window_skip, window_square, window_collect,
         window_full, window_rest, exptmod_end
<1>6. CASE ResidueNext
  <2>1. fr' = fr
    BY <1>6, StepsAtHome
  <2>. QED
    BY <1>6, <2>1 DEF ResidueNext, kronecker_zero, kronecker_even, kronecker_init, kron_round, kron_end,
         is_square_first, is_square_second, is_square_third, is_square_root, sqrtmod_simple,
         sqrtmod_special, sqrtmod_factor, sqrtmod_find_Z, sqrtmod_round, HasRoot
<1>7. CASE UNCHANGED vars
  BY <1>7 DEF vars
<1>. QED
  BY <1>1, <1>2, <1>3, <1>4, <1>5, <1>6, <1>7 DEF Next

LEMMA WriteLastKeeps == Spec => []WriteLast
<1>1. Init => WriteLast
  BY DEF Init, WriteLast
<1>2. Ownership /\ ExptInv /\ WriteLast /\ [Next]_vars => WriteLast'
  BY WriteLastKept
<1>. QED
  BY <1>1, <1>2, Owned, ExptKept, PTL DEF Spec

(* A call that fails leaves the client's structures as they were; mp_gcd,  *)
(* mp_lcm and mp_expt_n may leave in their destination the odd part of the *)
(* result, an absolute value, or a lower power.                            *)
THEOREM Failures == Spec => []FailureLeaves
<1>1. Ownership /\ GcdInv /\ ExptInv /\ WriteLast => FailureLeaves
  BY DEF GcdInv, GcdOps, ExptInv, PowerOps, WriteLast, FailureLeaves
<1>. QED
  BY <1>1, Owned, GcdKept, ExptKept, WriteLastKeeps, PTL

-----------------------------------------------------------------------------
(* mp_exptmod.  A number y represents the power e of g modulo the modulus: *)
(* it is congruent to it, or, in Montgomery's representation, to its       *)
(* product with the power of the radix.                                    *)
Represents(g, e, y) == y \in Int /\ Congruent(Modulus, y, Power(g, e) * Unit)

LEMMA MontgomeryFacts ==
  ASSUME Modulus \in Nat, Modulus > 0, Reduction = "montgomery"
  PROVE  /\ InverseR \in 0 .. Modulus - 1
         /\ MontgomeryR \in Int /\ Congruent(Modulus, InverseR * MontgomeryR, 1)
<1>1. Modulus % 2 = 1
  <2>1. ~ IsEven(Modulus)
    BY DEF Reduction
  <2>. QED
    BY <2>1 DEF IsEven
<1>2. MP_DIGIT_BIT * Used(Modulus) \in Nat
  BY UsedFacts, DigitBitAssumption
<1>3. MontgomeryR = 2 ^ (MP_DIGIT_BIT * Used(Modulus))
  BY DEF MontgomeryR, Weight
<1>4. \E r \in 0 .. Modulus - 1 : Congruent(Modulus, r * MontgomeryR, 1)
  BY <1>1, <1>2, <1>3, TwoPowerInverts
<1>5. \E r \in 0 .. Modulus - 1 : (r * MontgomeryR - 1) % Modulus = 0
  BY <1>4 DEF Congruent, Divides
<1>6. InverseR \in 0 .. Modulus - 1 /\ (InverseR * MontgomeryR - 1) % Modulus = 0
  BY <1>5 DEF InverseR
<1>7. MontgomeryR \in Int
  BY <1>2, <1>3, TwoTo
<1>. QED
  BY <1>6, <1>7 DEF Congruent, Divides

(* A reduction takes the representation's factor out once.                 *)
LEMMA ReduxFacts ==
  ASSUME Modulus \in Nat, Modulus > 0
  PROVE  /\ Unit \in Int
         /\ \E v \in Int :
              /\ Congruent(Modulus, Unit * v, 1)
              /\ \A n \in Int : /\ redux(n) \in 0 .. Modulus - 1 /\ redux(n) \in Int
                                /\ Congruent(Modulus, redux(n), n * v)
<1>. DEFINE p == Modulus
<1>0. p \in Nat /\ p > 0
  OBVIOUS
<1>. HIDE DEF p
<1>1. \A x \in Int : x % p \in 0 .. p - 1 /\ x % p \in Int /\ Congruent(p, x % p, x)
  <2>1. \A x \in Int : x % p \in 0 .. p - 1 /\ Congruent(p, x % p, x)
    BY <1>0, CongruentSame
  <2>2. \A r \in 0 .. p - 1 : r \in Int
    OBVIOUS
  <2>. QED
    BY <2>1, <2>2, Zenon
<1>2. CASE Reduction # "montgomery"
  <2>1. Unit = 1 /\ \A n : redux(n) = n % p
    BY <1>2 DEF Unit, redux, p
  <2>2. Unit \in Int /\ 1 \in Int /\ Unit * 1 = 1 /\ \A n \in Int : n * 1 = n
    BY <2>1
  <2>3. Congruent(p, Unit * 1, 1)
    BY <1>0, <2>2, CongruentSame
  <2>4. \A n \in Int : redux(n) \in 0 .. p - 1 /\ redux(n) \in Int /\ Congruent(p, redux(n), n * 1)
    BY <1>1, <2>1, <2>2
  <2>. QED
    BY <2>2, <2>3, <2>4 DEF p
<1>3. CASE Reduction = "montgomery"
  <2>. DEFINE v == InverseR
              w == MontgomeryR
  <2>1. v \in Int /\ w \in Int /\ Congruent(p, v * w, 1)
    <3>1. InverseR \in 0 .. Modulus - 1 /\ w \in Int /\ Congruent(p, v * w, 1)
      BY <1>3, MontgomeryFacts DEF p
    <3>. QED
      BY <1>0, <3>1
  <2>2. Unit = w % p /\ \A n : redux(n) = ((n % p) * v) % p
    BY <1>3 DEF Unit, redux, p
  <2>. HIDE DEF v, w
  <2>3. Unit \in Int /\ Congruent(p, Unit, w)
    BY <1>1, <2>1, <2>2
  <2>4. Congruent(p, Unit * v, 1)
    <3>1. Congruent(p, v, v)
      BY <1>0, <2>1, CongruentSame
    <3>2. Congruent(p, Unit * v, w * v)
      BY <1>0, <2>1, <2>3, <3>1, CongruentProduct
    <3>3. Unit * v \in Int /\ w * v \in Int /\ w * v = v * w
      BY <2>1, <2>3
    <3>4. Congruent(p, w * v, 1)
      BY <2>1, <3>3
    <3>. QED
      BY <1>0, <3>2, <3>3, <3>4, CongruentTrans
  <2>5. ASSUME NEW n \in Int
        PROVE  redux(n) \in 0 .. p - 1 /\ redux(n) \in Int /\ Congruent(p, redux(n), n * v)
    <3>. DEFINE m == n % p
    <3>1. m \in Int /\ Congruent(p, m, n) /\ Congruent(p, v, v)
      BY <1>0, <1>1, <2>1, CongruentSame
    <3>2. redux(n) = (m * v) % p
      BY <2>2
    <3>. HIDE DEF m
    <3>3. Congruent(p, m * v, n * v) /\ m * v \in Int /\ n * v \in Int
      BY <1>0, <2>1, <3>1, CongruentProduct
    <3>4. redux(n) \in 0 .. p - 1 /\ redux(n) \in Int /\ Congruent(p, redux(n), m * v)
      BY <1>1, <3>2, <3>3
    <3>. QED
      BY <1>0, <3>3, <3>4, CongruentTrans
  <2>. QED
    BY <2>1, <2>3, <2>4, <2>5 DEF p
<1>. QED
  BY <1>2, <1>3

(* A product, reduced.                                                     *)
LEMMA ReduxMultiplies ==
  ASSUME Modulus \in Nat, Modulus > 0, NEW g \in Int, NEW e \in Nat, NEW f \in Nat,
         NEW y, NEW z, Represents(g, e, y), Represents(g, f, z)
  PROVE  Represents(g, e + f, redux(y * z)) /\ redux(y * z) \in 0 .. Modulus - 1
<1>. DEFINE p == Modulus
            u == Unit
            a == Power(g, e)
            b == Power(g, f)
            r == redux(y * z)
<1>0. p \in Nat /\ p > 0 /\ u \in Int
  BY ReduxFacts
<1>1. /\ y \in Int /\ Congruent(p, y, a * u)
      /\ z \in Int /\ Congruent(p, z, b * u)
  BY DEF Represents
<1>2. a \in Int /\ b \in Int /\ Power(g, e + f) = a * b
  BY PowerFacts, PowerSum
<1>3. PICK v \in Int : Congruent(p, u * v, 1) /\ r \in 0 .. p - 1 /\ r \in Int /\ Congruent(p, r, (y * z) * v)
  <2>1. y * z \in Int
    BY <1>1
  <2>. QED
    BY <2>1, ReduxFacts
<1>. HIDE DEF p, u, a, b, r
<1>4. /\ a * u \in Int /\ b * u \in Int /\ y * z \in Int /\ (a * u) * (b * u) \in Int
      /\ (y * z) * v \in Int /\ ((a * u) * (b * u)) * v \in Int /\ u * v \in Int /\ (a * b) * u \in Int
      /\ ((a * b) * u) * (u * v) \in Int
  BY <1>0, <1>1, <1>2
<1>5. Congruent(p, y * z, (a * u) * (b * u))
  BY <1>0, <1>1, <1>4, CongruentProduct
<1>6. Congruent(p, (y * z) * v, ((a * u) * (b * u)) * v)
  <2>1. Congruent(p, v, v)
    BY <1>0, CongruentSame
  <2>. QED
    BY <1>0, <1>4, <1>5, <2>1, CongruentProduct
<1>7. ((a * u) * (b * u)) * v = ((a * b) * u) * (u * v)
  BY <1>0, <1>2
<1>8. Congruent(p, ((a * b) * u) * (u * v), ((a * b) * u) * 1)
  <2>1. Congruent(p, (a * b) * u, (a * b) * u)
    BY <1>0, <1>4, CongruentSame
  <2>. QED
    BY <1>0, <1>3, <1>4, <2>1, CongruentProduct
<1>9. ((a * b) * u) * 1 = (a * b) * u
  BY <1>4
<1>10. Congruent(p, r, (a * b) * u)
  <2>1. Congruent(p, r, ((a * b) * u) * (u * v))
    BY <1>0, <1>3, <1>4, <1>6, <1>7, CongruentTrans
  <2>2. Congruent(p, ((a * b) * u) * (u * v), (a * b) * u)
    BY <1>8, <1>9
  <2>. QED
    BY <1>0, <1>3, <1>4, <2>1, <2>2, CongruentTrans
<1>. QED
  BY <1>2, <1>3, <1>10 DEF Represents, p, u, a, b, r

(* Squarings, one after the other.                                         *)
LEMMA SquaredSteps ==
  ASSUME Modulus \in Nat, Modulus > 0, NEW n \in Int, NEW k \in Nat
  PROVE  \E s : /\ s[0] = n /\ Squared(n, k) = s[k]
                /\ \A i \in 0 .. k : s[i] \in Int /\ (i # 0 => s[i] = redux(s[i - 1] * s[i - 1]))
<1>. DEFINE D == 0 .. k
            first == [i \in D |-> n]
            prev == [i \in D |-> IF i = 0 THEN 0 ELSE i - 1]
            next == [c \in D \X Int |-> redux(c[2] * c[2])]
            P(s) == s = [i \in D |-> IF i = 0 THEN n ELSE redux(s[i - 1] * s[i - 1])]
            s0 == CHOOSE s : P(s)
<1>0. \A h \in Int : redux(h * h) \in Int
  <2>1. \A h \in Int : h * h \in Int
    OBVIOUS
  <2>. QED
    BY <2>1, ReduxFacts
<1>1. PICK f \in [D -> Int] : SolvesAll(f, D, {0}, first, prev, next)
  <2>1. first \in [D -> Int] /\ prev \in [D -> D] /\ next \in [D \X Int -> Int]
    BY <1>0
  <2>2. Descends(D, {0}, prev)
    BY DEF Descends
  <2>3. D \in SUBSET Nat
    OBVIOUS
  <2>. HIDE DEF first, prev, next, D
  <2>. QED
    BY <2>1, <2>2, <2>3, RecursionSolved
<1>2. ASSUME NEW i \in D PROVE f[i] = IF i = 0 THEN n ELSE redux(f[i - 1] * f[i - 1])
  <2>1. CASE i = 0
    BY <1>1, <2>1 DEF SolvesAll
  <2>2. CASE i # 0
    <3>1. prev[i] = i - 1 /\ i - 1 \in D /\ f[i - 1] \in Int
      BY <2>2
    <3>2. f[i] = next[<< i, f[i - 1] >>]
      BY <1>1, <2>2, <3>1 DEF SolvesAll
    <3>. QED
      BY <2>2, <3>1, <3>2
  <2>. QED
    BY <2>1, <2>2
<1>3. P(f)
  BY <1>2
<1>4. P(s0)
  <2>. HIDE DEF P
  <2>. QED
    BY <1>3
<1>5. Squared(n, k) = s0[k]
  BY DEF Squared
<1>. HIDE DEF s0
<1>6. \A i \in D : s0[i] = IF i = 0 THEN n ELSE redux(s0[i - 1] * s0[i - 1])
  BY <1>4
<1>. DEFINE S == {i \in Nat : i \in D => s0[i] \in Int}
<1>7. ASSUME NEW i \in Nat, i \in S PROVE i + 1 \in S
  <2>. SUFFICES ASSUME i + 1 \in D PROVE s0[i + 1] \in Int
    OBVIOUS
  <2>1. i \in D /\ i + 1 # 0 /\ (i + 1) - 1 = i
    OBVIOUS
  <2>2. s0[i] \in Int
    BY <1>7, <2>1
  <2>3. s0[i + 1] = redux(s0[i] * s0[i])
    BY <1>6, <2>1
  <2>. QED
    BY <1>0, <2>2, <2>3
<1>8. \A i \in Nat : i \in S
  <2>1. 0 \in S
    BY <1>6
  <2>. HIDE DEF S
  <2>. QED
    BY <1>7, <2>1, Successor
<1>9. s0[0] = n /\ \A i \in D : s0[i] \in Int /\ (i # 0 => s0[i] = redux(s0[i - 1] * s0[i - 1]))
  <2>1. 0 \in D /\ \A i \in D : i \in Nat
    OBVIOUS
  <2>2. \A i \in D : s0[i] \in Int
    BY <1>8, <2>1
  <2>. QED
    BY <1>6, <2>1, <2>2
<1>. QED
  BY <1>5, <1>9

LEMMA SquaredRepresents ==
  ASSUME Modulus \in Nat, Modulus > 0, NEW g \in Int, NEW e \in Nat, NEW y,
         Represents(g, e, y), NEW k \in Nat
  PROVE  /\ e * 2 ^ k \in Nat
         /\ Represents(g, e * 2 ^ k, Squared(y, k))
         /\ k > 0 => Squared(y, k) \in 0 .. Modulus - 1
         /\ k = 0 => Squared(y, k) = y
<1>. DEFINE p == Modulus
            In(i) == e * 2 ^ i
<1>0. y \in Int
  BY DEF Represents
<1>1. PICK s : /\ s[0] = y /\ Squared(y, k) = s[k]
               /\ \A i \in 0 .. k : s[i] \in Int /\ (i # 0 => s[i] = redux(s[i - 1] * s[i - 1]))
  BY <1>0, SquaredSteps
<1>2. In(0) = e /\ \A i \in Nat : In(i) \in Nat /\ In(i + 1) = In(i) + In(i)
  <2>1. 2 ^ 0 = 1 /\ \A i \in Nat : 2 ^ i \in Nat /\ 2 ^ (i + 1) = 2 ^ i * 2
    BY TwoTo
  <2>2. \A t \in Nat : e * t \in Nat /\ e * (t * 2) = e * t + e * t
    OBVIOUS
  <2>. QED
    BY <2>1, <2>2
<1>. HIDE DEF p, In
<1>. DEFINE Good(i) == /\ Represents(g, In(i), s[i])
                       /\ i > 0 => s[i] \in 0 .. p - 1
            S == {i \in Nat : i \in 0 .. k => Good(i)}
<1>3. 0 \in S
  <2>1. s[0] = y /\ In(0) = e /\ Represents(g, e, y)
    BY <1>1, <1>2
  <2>2. Good(0)
    BY <2>1
  <2>. QED
    BY <2>2
<1>4. ASSUME NEW i \in Nat, i \in S PROVE i + 1 \in S
  <2>. SUFFICES ASSUME i + 1 \in 0 .. k PROVE Good(i + 1)
    OBVIOUS
  <2>1. i \in 0 .. k /\ i + 1 # 0 /\ (i + 1) - 1 = i
    OBVIOUS
  <2>2. s[i + 1] = redux(s[i] * s[i])
    BY <1>1, <2>1
  <2>3. Represents(g, In(i), s[i])
    BY <1>4, <2>1
  <2>4. Represents(g, In(i) + In(i), redux(s[i] * s[i])) /\ redux(s[i] * s[i]) \in 0 .. p - 1
    BY <1>2, <2>3, ReduxMultiplies DEF p
  <2>. QED
    BY <1>2, <2>2, <2>4
<1>5. \A i \in Nat : i \in S
  <2>. HIDE DEF S
  <2>. QED
    BY <1>3, <1>4, Successor
<1>6. Good(k)
  BY <1>5
<1>. QED
  BY <1>1, <1>2, <1>6 DEF p, In

LEMMA WinsizeFacts ==
  /\ winsize \in Nat /\ winsize >= 2 /\ winsize - 1 \in Nat
  /\ Half \in Nat /\ Half >= 2 /\ 2 ^ winsize = 2 * Half
<1>. DEFINE T == {7, 36, 140, 450, 1303, 3529}
            U == {b \in T : mp_count_bits(loc.X) > b}
<1>1. IsFiniteSet(T)
  <2>1. PICK n \in Nat : n = 3529
    OBVIOUS
  <2>2. T \subseteq 0 .. n
    BY <2>1
  <2>3. IsFiniteSet(0 .. n)
    BY FS_Interval
  <2>. HIDE DEF T
  <2>. QED
    BY <2>2, <2>3, FS_Subset
<1>2. U \subseteq T
  OBVIOUS
<1>. HIDE DEF T, U
<1>3. Cardinality(U) \in Nat
  BY <1>1, <1>2, FS_Subset, FS_CardinalityType
<1>4. winsize = 2 + Cardinality(U)
  BY DEF winsize, U, T
<1>5. winsize \in Nat /\ winsize >= 2 /\ winsize - 1 \in Nat /\ winsize - 1 >= 1 /\ (winsize - 1) + 1 = winsize
  BY <1>3, <1>4
<1>. DEFINE w == winsize - 1
<1>6. 2 ^ w \in Nat /\ 2 ^ (w + 1) = 2 ^ w * 2 /\ 2 ^ w >= 2
  <2>1. w \in Nat /\ 1 \in Nat /\ 1 <= w
    BY <1>5
  <2>. HIDE DEF w
  <2>2. 2 ^ 1 <= 2 ^ w
    BY <2>1, TwoToMonotone
  <2>3. 2 ^ (0 + 1) = 2 ^ 0 * 2 /\ 2 ^ 0 = 1
    BY TwoTo
  <2>4. 2 ^ 1 = 2
    BY <2>3
  <2>. QED
    BY <2>1, <2>2, <2>4, TwoTo
<1>7. Half = 2 ^ w
  BY DEF Half
<1>8. 2 ^ winsize = 2 ^ w * 2
  BY <1>5, <1>6
<1>. HIDE DEF w
<1>. QED
  BY <1>5, <1>6, <1>7, <1>8

(* The table: the cell x represents the power x of the base.               *)
Table ==
  LET M[x \in {1} \cup Upper] ==
        IF x = 1 THEN Base
        ELSE IF x = Half THEN Squared(Base, winsize - 1)
        ELSE redux(M[x - 1] * Base)
  IN  M

TableRight(g, M) == \A x \in {1} \cup Upper : Represents(g, x, M[x]) /\ M[x] \in 0 .. Modulus - 1

LEMMA BaseRepresents ==
  ASSUME Modulus \in Nat, Modulus > 0, loc.G \in Int
  PROVE  Represents(loc.G, 1, Base) /\ Base \in 0 .. Modulus - 1 /\ Base \in Int
<1>1. loc.G * Unit \in Int
  BY ReduxFacts
<1>. DEFINE p == Modulus
            n == loc.G * Unit
            r == n % p
<1>2. p \in Nat /\ p > 0 /\ n \in Int
  BY <1>1
<1>3. Base = r /\ Power(loc.G, 1) * Unit = n
  BY SmallPowers DEF Base
<1>. HIDE DEF p, n
<1>4. r \in 0 .. p - 1 /\ Congruent(p, r, n)
  BY <1>2, CongruentSame
<1>5. r \in Int
  BY <1>2, <1>4
<1>. QED
  BY <1>3, <1>4, <1>5 DEF Represents, p

LEMMA TableRepresents ==
  ASSUME Modulus \in Nat, Modulus > 0, loc.G \in Int
  PROVE  TableRight(loc.G, Table)
<1>. DEFINE p == Modulus
            g == loc.G
            h == Half
            b == Base
            top == Squared(Base, winsize - 1)
            D == {1} \cup Upper
            Z == {1, h}
            first == [x \in D |-> IF x = 1 THEN b ELSE top]
            prev == [x \in D |-> IF x = 1 \/ x = h THEN x ELSE x - 1]
            next == [c \in D \X Int |-> redux(c[2] * b)]
            P(M) == M = [x \in D |-> IF x = 1 THEN b ELSE IF x = h THEN top ELSE redux(M[x - 1] * b)]
            m0 == CHOOSE M : P(M)
<1>1. p \in Nat /\ p > 0 /\ g \in Int /\ h \in Nat /\ h >= 2 /\ h = 2 ^ (winsize - 1)
  BY WinsizeFacts DEF Half
<1>2. D = {1} \cup h .. 2 * h - 1
  BY DEF Upper
<1>3. Represents(g, 1, b) /\ b \in 0 .. p - 1 /\ b \in Int
  BY BaseRepresents
<1>4. Represents(g, h, top) /\ top \in 0 .. p - 1 /\ top \in Int
  <2>. DEFINE w == winsize - 1
  <2>1. w \in Nat /\ w > 0 /\ 1 * 2 ^ w = h
    <3>1. winsize >= 2 /\ winsize \in Nat /\ h \in Int /\ 1 * h = h
      BY <1>1, WinsizeFacts
    <3>. HIDE DEF h
    <3>. QED
      BY <1>1, <3>1
  <2>2. top = Squared(b, w)
    OBVIOUS
  <2>. HIDE DEF w, b, h, top, g, p
  <2>3. Represents(g, 1 * 2 ^ w, Squared(b, w)) /\ Squared(b, w) \in 0 .. p - 1
    <3>1. 1 \in Nat
      OBVIOUS
    <3>. QED
      BY <1>1, <1>3, <2>1, <3>1, SquaredRepresents DEF p
  <2>4. Squared(b, w) \in Int
    BY <1>1, <2>3
  <2>. QED
    BY <2>1, <2>2, <2>3, <2>4
<1>5. Table = m0
  BY DEF Table
<1>. HIDE DEF p, g, h, b, top
<1>6. \A n \in Int : redux(n * b) \in Int
  <2>1. \A n \in Int : n * b \in Int
    BY <1>3
  <2>. QED
    BY <1>1, <2>1, ReduxFacts DEF p
<1>7. /\ D \in SUBSET Nat
      /\ \A x \in D \ Z : x \in Nat /\ x > h /\ x - 1 \in D /\ x - 1 < x
  <2>. HIDE DEF D
  <2>. QED
    BY <1>1, <1>2
<1>. HIDE DEF D
<1>8. PICK f \in [D -> Int] : SolvesAll(f, D, Z, first, prev, next)
  <2>1. first \in [D -> Int] /\ prev \in [D -> D] /\ next \in [D \X Int -> Int]
    <3>1. first \in [D -> Int]
      BY <1>3, <1>4
    <3>2. prev \in [D -> D]
      BY <1>7
    <3>3. next \in [D \X Int -> Int]
      BY <1>6
    <3>. QED
      BY <3>1, <3>2, <3>3
  <2>2. Descends(D, Z, prev)
    BY <1>7 DEF Descends
  <2>. HIDE DEF first, prev, next, Z
  <2>. QED
    BY <1>7, <2>1, <2>2, RecursionSolved
<1>9. ASSUME NEW x \in D
      PROVE  f[x] = IF x = 1 THEN b ELSE IF x = h THEN top ELSE redux(f[x - 1] * b)
  <2>1. CASE x \in Z
    BY <1>8, <2>1 DEF SolvesAll
  <2>2. CASE x \notin Z
    <3>1. prev[x] = x - 1 /\ x - 1 \in D /\ f[x - 1] \in Int
      BY <1>7, <1>8, <2>2
    <3>2. f[x] = next[<< x, f[x - 1] >>]
      BY <1>8, <2>2, <3>1 DEF SolvesAll
    <3>3. next[<< x, f[x - 1] >>] = redux(f[x - 1] * b)
      BY <3>1
    <3>. QED
      BY <2>2, <3>2, <3>3
  <2>. QED
    BY <2>1, <2>2
<1>10. P(m0)
  <2>1. P(f)
    BY <1>8, <1>9
  <2>. HIDE DEF P
  <2>. QED
    BY <2>1
<1>. HIDE DEF m0
<1>11. \A x \in D : m0[x] = IF x = 1 THEN b ELSE IF x = h THEN top ELSE redux(m0[x - 1] * b)
  BY <1>10
<1>. DEFINE Good(x) == Represents(g, x, m0[x]) /\ m0[x] \in 0 .. p - 1
            S == {x \in Nat : x \in D => Good(x)}
<1>12. ASSUME NEW x \in Nat, \A y \in 0 .. x - 1 : y \in S PROVE x \in S
  <2>. SUFFICES ASSUME x \in D PROVE Good(x)
    OBVIOUS
  <2>1. CASE x \in Z
    BY <1>1, <1>3, <1>4, <1>11, <2>1
  <2>2. CASE x \notin Z
    <3>1. x - 1 \in D /\ x - 1 \in 0 .. x - 1 /\ x - 1 \in Nat /\ (x - 1) + 1 = x
      BY <1>1, <1>7, <2>2
    <3>2. Represents(g, x - 1, m0[x - 1])
      BY <1>12, <3>1
    <3>3. m0[x] = redux(m0[x - 1] * b)
      BY <1>11, <2>2
    <3>4. Represents(g, (x - 1) + 1, redux(m0[x - 1] * b)) /\ redux(m0[x - 1] * b) \in 0 .. p - 1
      <4>. DEFINE y == x - 1
      <4>1. y \in Nat /\ 1 \in Nat
        BY <3>1
      <4>. HIDE DEF y
      <4>. QED
        BY <1>1, <1>3, <3>2, <4>1, ReduxMultiplies DEF p, y
    <3>. QED
      BY <3>1, <3>3, <3>4
  <2>. QED
    BY <2>1, <2>2
<1>13. \A x \in Nat : x \in S
  <2>. HIDE DEF S
  <2>. QED
    BY <1>12, Below
<1>14. \A x \in D : Good(x)
  BY <1>7, <1>13
<1>. QED
  BY <1>5, <1>14 DEF TableRight, p, g, D

(* How the exponent x is read, u bits being unread and c bits collected in *)
(* a window of w: the collected bits are the lowest of those read, at the  *)
(* top of the window, and the highest of them is set.                      *)
Gone(x, u, c) == x \div 2 ^ (u + c)
Low(x, u, c) == LowBits(x \div 2 ^ u, c)

Reading(w, x, u, c, buf, mode) ==
  /\ c \in Nat /\ c < w
  /\ buf = Low(x, u, c) * 2 ^ (w - c)
  /\ mode = 0 <=> x \div 2 ^ u = 0
  /\ mode = 2 <=> c > 0
  /\ c > 0 => Low(x, u, c) >= 2 ^ (c - 1)

LEMMA BitRead ==
  ASSUME NEW x \in Nat, NEW u \in Nat
  PROVE  /\ x \div 2 ^ u \in Nat /\ x \div 2 ^ (u + 1) \in Nat /\ (x \div 2 ^ u) % 2 \in 0 .. 1
         /\ x \div 2 ^ u = 2 * (x \div 2 ^ (u + 1)) + ((x \div 2 ^ u) % 2)
<1>1. x \div 2 ^ u \in Nat
  BY NextBitRead
<1>2. x \div 2 ^ (u + 1) \in Nat
  <2>1. u + 1 \in Nat
    OBVIOUS
  <2>. QED
    BY <2>1, NextBitRead
<1>. DEFINE m == x \div 2 ^ u
<1>3. m % 2 \in 0 .. 1
  <2>1. m \in Nat
    BY <1>1
  <2>. HIDE DEF m
  <2>. QED
    BY <2>1
<1>. QED
  BY <1>1, <1>2, <1>3, NextBitRead

(* Between windows: one bit more, a zero, is gone.                         *)
LEMMA ReadZero ==
  ASSUME NEW w \in Nat, NEW x \in Nat, NEW u \in Nat, NEW c, NEW buf, NEW mode \in {0, 1},
         Reading(w, x, u + 1, c, buf, mode), (x \div 2 ^ u) % 2 = 0
  PROVE  /\ Reading(w, x, u, c, buf, mode)
         /\ Gone(x, u + 1, c) \in Nat /\ Gone(x, u, c) = 2 * Gone(x, u + 1, c)
         /\ mode = 0 => Gone(x, u + 1, c) = 0 /\ Gone(x, u, c) = 0
<1>. DEFINE m == x \div 2 ^ u
            q == x \div 2 ^ (u + 1)
<1>1. m \in Nat /\ q \in Nat /\ m = 2 * q
  <2>1. m \in Nat /\ q \in Nat /\ m = 2 * q + 0
    BY BitRead
  <2>. HIDE DEF m, q
  <2>. QED
    BY <2>1
<1>2. c = 0
  <2>1. mode # 2 /\ c \in Nat /\ (mode = 2 <=> c > 0)
    BY DEF Reading
  <2>. QED
    BY <2>1
<1>3. Low(x, u, 0) = 0 /\ Low(x, u + 1, 0) = 0
  <2>1. 2 ^ 0 = 1
    BY TwoTo
  <2>2. Low(x, u, 0) = m % 1 /\ Low(x, u + 1, 0) = q % 1
    BY <2>1 DEF Low, LowBits
  <2>3. \A n \in Nat : n % 1 = 0
    OBVIOUS
  <2>. HIDE DEF m, q
  <2>. QED
    BY <1>1, <2>2, <2>3
<1>4. Gone(x, u, c) = m /\ Gone(x, u + 1, c) = q
  <2>1. u + 0 = u /\ (u + 1) + 0 = u + 1
    OBVIOUS
  <2>. QED
    BY <1>2, <2>1 DEF Gone
<1>5. mode = 0 <=> q = 0
  BY DEF Reading
<1>6. mode = 0 <=> m = 0
  <2>. HIDE DEF m, q
  <2>. QED
    BY <1>1, <1>5
<1>7. Reading(w, x, u, c, buf, mode)
  <2>1. c < w /\ buf = Low(x, u + 1, c) * 2 ^ (w - c) /\ (mode = 2 <=> c > 0) /\ ~ (c > 0)
    BY <1>2 DEF Reading
  <2>2. buf = Low(x, u, c) * 2 ^ (w - c)
    BY <1>2, <1>3, <2>1
  <2>. QED
    BY <1>2, <1>6, <2>1, <2>2 DEF Reading
<1>. HIDE DEF m, q
<1>. QED
  BY <1>1, <1>4, <1>5, <1>6, <1>7

(* A bit is collected.                                                     *)
TopSet(q, b, c) == (c > 0 => LowBits(q, c) >= 2 ^ (c - 1)) /\ (c > 0 \/ b = 1)

BitHeld(w, m, q, b, c) ==
  /\ LowBits(m, c + 1) \in Nat
  /\ 2 ^ c <= LowBits(m, c + 1) /\ LowBits(m, c + 1) < 2 ^ (c + 1)
  /\ LowBits(q, c) * 2 ^ (w - c) + b * 2 ^ (w - (c + 1)) = LowBits(m, c + 1) * 2 ^ (w - (c + 1))

LEMMA BitCollected ==
  ASSUME NEW w \in Nat, NEW m \in Nat, NEW q \in Nat, NEW b \in Int, Appends(m, q, b),
         NEW c \in Nat, c < w, TopSet(q, b, c)
  PROVE  BitHeld(w, m, q, b, c)
<1>. DEFINE l == LowBits(q, c)
            n == LowBits(m, c + 1)
            s == 2 ^ (w - (c + 1))
            t == 2 ^ (w - c)
            e == 2 ^ c
<1>0. /\ b \in 0 .. 1 /\ m = 2 * q + b
      /\ (c > 0 => l >= 2 ^ (c - 1)) /\ (c > 0 \/ b = 1)
  BY DEF Appends, TopSet
<1>1. n = 2 * l + b /\ l \in Nat /\ l < e
  <2>1. LowBits(m, c + 1) = 2 * LowBits(q, c) + b /\ LowBits(q, c) \in Nat /\ LowBits(q, c) < 2 ^ c
    <3>2. HasLow(m, q, b, c)
      BY LowBitsGrow
    <3>. QED
      BY <3>2 DEF HasLow
  <2>. QED
    BY <2>1
<1>2. s \in Nat /\ t = 2 * s
  <2>1. PICK d \in Nat : d = w - (c + 1)
    OBVIOUS
  <2>2. 2 ^ d \in Nat /\ 2 ^ (d + 1) = 2 ^ d * 2 /\ d + 1 = w - c
    BY <2>1, TwoTo
  <2>3. t = 2 ^ d * 2 /\ s = 2 ^ d
    BY <2>1, <2>2
  <2>. HIDE DEF s, t
  <2>. QED
    BY <2>2, <2>3
<1>3. e \in Nat /\ 2 ^ (c + 1) = e * 2 /\ 2 ^ 0 = 1
  BY TwoTo
<1>4. c > 0 => 2 * l >= e
  <2>. SUFFICES ASSUME c > 0 PROVE 2 * l >= e
    OBVIOUS
  <2>1. PICK d \in Nat : d + 1 = c /\ d = c - 1
    <3>1. c - 1 \in Nat /\ (c - 1) + 1 = c
      OBVIOUS
    <3>. QED
      BY <3>1
  <2>2. 2 ^ d \in Nat /\ 2 ^ (d + 1) = 2 ^ d * 2
    BY TwoTo
  <2>3. e = 2 ^ d * 2 /\ l >= 2 ^ d
    BY <1>0, <2>1, <2>2
  <2>. HIDE DEF e, l
  <2>. QED
    BY <1>1, <2>2, <2>3
<1>5. ~ (c > 0) => e = 1
  <2>1. ~ (c > 0) => c = 0
    OBVIOUS
  <2>. QED
    BY <1>3, <2>1
<1>. HIDE DEF l, n, s, t, e
<1>6. n \in Nat /\ e <= n /\ n < e * 2
  BY <1>0, <1>1, <1>3, <1>4, <1>5
<1>7. l * t + b * s = n * s
  <2>1. l * (2 * s) + b * s = (2 * l + b) * s
    BY <1>0, <1>1, <1>2
  <2>. QED
    BY <1>0, <1>1, <1>2, <2>1
<1>8. n < 2 ^ (c + 1)
  BY <1>3, <1>6
<1>. QED
  BY <1>6, <1>7, <1>8 DEF l, n, s, t, e, BitHeld

Taken(x, u, mode) == mode = 2 \/ (x \div 2 ^ u) % 2 = 1

BitTaken(w, x, u, c, buf) ==
  /\ Low(x, u, c + 1) \in Nat
  /\ 2 ^ c <= Low(x, u, c + 1) /\ Low(x, u, c + 1) < 2 ^ (c + 1)
  /\ buf + ((x \div 2 ^ u) % 2) * 2 ^ (w - (c + 1)) = Low(x, u, c + 1) * 2 ^ (w - (c + 1))
  /\ x \div 2 ^ u # 0
  /\ Gone(x, u, c + 1) = Gone(x, u + 1, c)

LEMMA ReadBit ==
  ASSUME NEW w \in Nat, NEW x \in Nat, NEW u \in Nat, NEW c \in Nat, NEW buf, NEW mode,
         Reading(w, x, u + 1, c, buf, mode), Taken(x, u, mode)
  PROVE  BitTaken(w, x, u, c, buf)
<1>1. PICK m \in Nat, q \in Nat, b \in 0 .. 1 :
        m = x \div 2 ^ u /\ q = x \div 2 ^ (u + 1) /\ b = m % 2 /\ m = 2 * q + b
  <2>. DEFINE m == x \div 2 ^ u
              q == x \div 2 ^ (u + 1)
              b == m % 2
  <2>1. m \in Nat /\ q \in Nat /\ b \in 0 .. 1 /\ m = 2 * q + b
    BY BitRead
  <2>. QED
    BY <2>1
<1>2. /\ c < w /\ buf = LowBits(q, c) * 2 ^ (w - c) /\ (mode = 0 <=> q = 0) /\ (mode = 2 <=> c > 0)
      /\ c > 0 => LowBits(q, c) >= 2 ^ (c - 1)
  BY <1>1 DEF Reading, Low
<1>3. Low(x, u, c + 1) = LowBits(m, c + 1)
  BY <1>1 DEF Low
<1>4. mode = 2 \/ b = 1
  BY <1>1 DEF Taken
<1>5. /\ LowBits(m, c + 1) \in Nat
      /\ 2 ^ c <= LowBits(m, c + 1) /\ LowBits(m, c + 1) < 2 ^ (c + 1)
      /\ LowBits(q, c) * 2 ^ (w - c) + b * 2 ^ (w - (c + 1)) = LowBits(m, c + 1) * 2 ^ (w - (c + 1))
  <2>1. b \in Int /\ Appends(m, q, b) /\ TopSet(q, b, c) /\ c < w
    BY <1>1, <1>2, <1>4 DEF Appends, TopSet
  <2>2. BitHeld(w, m, q, b, c)
    BY <2>1, BitCollected
  <2>. QED
    BY <2>2 DEF BitHeld
<1>6. m # 0
  BY <1>1, <1>2, <1>4
<1>7. Gone(x, u, c + 1) = Gone(x, u + 1, c)
  <2>1. u + (c + 1) = (u + 1) + c
    OBVIOUS
  <2>. QED
    BY <2>1 DEF Gone
<1>. QED
  BY <1>1, <1>2, <1>3, <1>5, <1>6, <1>7 DEF BitTaken

(* When no bit is unread: those collected, from the highest.               *)
LEMMA RestBitRead ==
  ASSUME NEW w \in Nat, NEW x \in Nat, NEW c \in Nat, NEW buf, NEW mode,
         Reading(w, x, 0, c, buf, mode), NEW k \in 1 .. c
  PROVE  (buf \div 2 ^ (w - k)) % 2 = (x \div 2 ^ (c - k)) % 2
<1>1. c < w /\ buf = Low(x, 0, c) * 2 ^ (w - c)
  BY DEF Reading
<1>2. x \div 2 ^ 0 = x
  <2>1. 2 ^ 0 = 1
    BY TwoTo
  <2>. QED
    BY <2>1
<1>3. PICK i \in Nat, j \in Nat : i = c - k /\ j = w - c
  <2>1. c - k \in Nat /\ w - c \in Nat
    BY <1>1
  <2>. QED
    BY <2>1
<1>4. w - k = i + j /\ i < c
  BY <1>3
<1>. DEFINE s == 2 ^ i
            t == 2 ^ j
            n == LowBits(x, c)
<1>5. s \in Nat /\ s > 0 /\ t \in Nat /\ t > 0 /\ 2 ^ (w - k) = s * t
  BY <1>4, TwoTo, TwoToSum
<1>6. n \in Nat
  <2>1. 2 ^ c \in Nat /\ 2 ^ c > 0
    BY TwoTo
  <2>. DEFINE d == 2 ^ c
  <2>2. x % d \in 0 .. d - 1
    BY <2>1, Division
  <2>. HIDE DEF d
  <2>3. x % d \in Nat
    BY <2>2
  <2>. QED
    BY <2>3 DEF LowBits, d
<1>7. buf = n * t
  BY <1>1, <1>2, <1>3 DEF Low
<1>8. (n \div s) % 2 = (x \div s) % 2
  BY <1>4, LowBit DEF LowBits
<1>. HIDE DEF s, t, n
<1>9. buf \div 2 ^ (w - k) = n \div s
  BY <1>5, <1>6, <1>7, DivCancel
<1>. QED
  BY <1>3, <1>8, <1>9 DEF s

InRange(y) == y \in 0 .. Modulus - 1 \/ (Modulus = 1 /\ y = 1)

RestResult ==
  LET rest == IF loc.mode = 2 THEN loc.bitcpy ELSE 0
      Bit(k) == (loc.bitbuf \div 2 ^ (winsize - k)) % 2
      r[k \in 0 .. rest] ==
        IF k = 0 THEN loc.res
        ELSE IF Bit(k) = 1 THEN redux(Squared(r[k - 1], 1) * loc.M[1])
        ELSE Squared(r[k - 1], 1)
  IN  r[rest]

(* One bit more: a squaring, and a product if it is set.                   *)
LEMMA OneBitMore ==
  ASSUME Modulus \in Nat, Modulus > 0, NEW g \in Int, NEW e \in Nat, NEW y, Represents(g, e, y)
  PROVE  /\ Represents(g, 2 * e, Squared(y, 1)) /\ Squared(y, 1) \in 0 .. Modulus - 1
         /\ \A b : Represents(g, 1, b) =>
              /\ Represents(g, 2 * e + 1, redux(Squared(y, 1) * b))
              /\ redux(Squared(y, 1) * b) \in 0 .. Modulus - 1
<1>1. e * 2 ^ 1 = 2 * e /\ 2 * e \in Nat /\ 1 \in Nat
  <2>1. 2 ^ (0 + 1) = 2 ^ 0 * 2 /\ 2 ^ 0 = 1
    BY TwoTo
  <2>2. 2 ^ 1 = 2
    BY <2>1
  <2>. QED
    BY <2>2
<1>2. Represents(g, e * 2 ^ 1, Squared(y, 1)) /\ Squared(y, 1) \in 0 .. Modulus - 1
  <2>1. 1 > 0
    OBVIOUS
  <2>. QED
    BY <1>1, <2>1, SquaredRepresents
<1>3. Represents(g, 2 * e, Squared(y, 1))
  BY <1>1, <1>2
<1>4. \A b : Represents(g, 1, b) =>
              /\ Represents(g, 2 * e + 1, redux(Squared(y, 1) * b))
              /\ redux(Squared(y, 1) * b) \in 0 .. Modulus - 1
  BY <1>1, <1>3, ReduxMultiplies
<1>. QED
  BY <1>2, <1>3, <1>4

LEMMA RestWorked ==
  ASSUME Modulus \in Nat, Modulus > 0, loc.G \in Int, loc.X \in Nat, TableRight(loc.G, loc.M),
         Reading(winsize, loc.X, 0, loc.bitcpy, loc.bitbuf, loc.mode),
         Represents(loc.G, Gone(loc.X, 0, loc.bitcpy), loc.res), InRange(loc.res)
  PROVE  Represents(loc.G, loc.X, RestResult) /\ InRange(RestResult)
<1>. DEFINE p == Modulus
            one == loc.M[1]
            Bit(k) == (loc.bitbuf \div 2 ^ (winsize - k)) % 2
            step(k, h) == IF Bit(k) = 1 THEN redux(Squared(h, 1) * one) ELSE Squared(h, 1)
<1>1. PICK c \in Nat, x \in Nat, g \in Int, w \in Nat :
        c = loc.bitcpy /\ x = loc.X /\ g = loc.G /\ w = winsize
  BY WinsizeFacts DEF Reading
<1>2. p \in Nat /\ p > 0 /\ Represents(g, 1, one)
  BY <1>1 DEF TableRight
<1>3. \A h \in Int : Squared(h, 1) \in Int /\ redux(Squared(h, 1) * one) \in Int
  <2>. SUFFICES ASSUME NEW h \in Int PROVE Squared(h, 1) \in Int /\ redux(Squared(h, 1) * one) \in Int
    OBVIOUS
  <2>1. 1 \in Nat
    OBVIOUS
  <2>2. PICK s : Squared(h, 1) = s[1] /\ \A i \in 0 .. 1 : s[i] \in Int
    BY <2>1, SquaredSteps
  <2>3. Squared(h, 1) \in Int
    BY <2>2
  <2>4. one \in Int
    BY <1>2 DEF Represents
  <2>5. Squared(h, 1) * one \in Int
    BY <2>3, <2>4
  <2>. QED
    BY <2>3, <2>5, ReduxFacts
<1>. DEFINE D == 0 .. c
            first == [k \in D |-> loc.res]
            prev == [k \in D |-> IF k = 0 THEN 0 ELSE k - 1]
            next == [a \in D \X Int |-> step(a[1], a[2])]
            P(r) == r = [k \in D |-> IF k = 0 THEN loc.res ELSE step(k, r[k - 1])]
            r0 == CHOOSE r : P(r)
<1>4. (IF loc.mode = 2 THEN loc.bitcpy ELSE 0) = c
  BY <1>1 DEF Reading
<1>5. RestResult = r0[c]
  BY <1>4 DEF RestResult
<1>6. loc.res \in Int
  BY DEF Represents
<1>7. \A k \in D, h \in Int : step(k, h) \in Int
  BY <1>3
<1>. HIDE DEF p, one, Bit, step
<1>8. PICK f \in [D -> Int] : SolvesAll(f, D, {0}, first, prev, next)
  <2>1. first \in [D -> Int] /\ prev \in [D -> D] /\ next \in [D \X Int -> Int]
    BY <1>6, <1>7
  <2>2. Descends(D, {0}, prev)
    BY DEF Descends
  <2>3. D \in SUBSET Nat
    OBVIOUS
  <2>. HIDE DEF first, prev, next, D
  <2>. QED
    BY <2>1, <2>2, <2>3, RecursionSolved
<1>9. ASSUME NEW k \in D PROVE f[k] = IF k = 0 THEN loc.res ELSE step(k, f[k - 1])
  <2>1. CASE k = 0
    BY <1>8, <2>1 DEF SolvesAll
  <2>2. CASE k # 0
    <3>1. prev[k] = k - 1 /\ k - 1 \in D /\ f[k - 1] \in Int
      BY <2>2
    <3>2. f[k] = next[<< k, f[k - 1] >>]
      BY <1>8, <2>2, <3>1 DEF SolvesAll
    <3>3. next[<< k, f[k - 1] >>] = step(k, f[k - 1])
      BY <3>1
    <3>. QED
      BY <2>2, <3>2, <3>3
  <2>. QED
    BY <2>1, <2>2
<1>10. P(r0)
  <2>1. P(f)
    BY <1>8, <1>9
  <2>. HIDE DEF P
  <2>. QED
    BY <2>1
<1>. HIDE DEF r0
<1>11. \A k \in D : r0[k] = IF k = 0 THEN loc.res ELSE step(k, r0[k - 1])
  BY <1>10
<1>. DEFINE Good(k) == Represents(g, x \div 2 ^ (c - k), r0[k]) /\ InRange(r0[k])
            S == {k \in Nat : k \in D => Good(k)}
<1>12. Good(0)
  <2>1. c - 0 = c /\ 0 + c = c /\ 0 \in D
    OBVIOUS
  <2>. QED
    BY <1>1, <1>11, <2>1 DEF Gone
<1>13. ASSUME NEW k \in Nat, k \in S PROVE k + 1 \in S
  <2>. SUFFICES ASSUME k + 1 \in D PROVE Good(k + 1)
    OBVIOUS
  <2>1. k \in D /\ k + 1 # 0 /\ (k + 1) - 1 = k /\ k + 1 \in 1 .. c
    OBVIOUS
  <2>2. PICK u \in Nat : u = c - (k + 1) /\ u + 1 = c - k
    <3>1. c - (k + 1) \in Nat /\ (c - (k + 1)) + 1 = c - k
      OBVIOUS
    <3>. QED
      BY <3>1
  <2>3. PICK e \in Nat, b \in 0 .. 1, m \in Nat :
          /\ e = x \div 2 ^ (u + 1) /\ m = x \div 2 ^ u /\ m = 2 * e + b /\ b = m % 2
    <3>. DEFINE m == x \div 2 ^ u
                q == x \div 2 ^ (u + 1)
                b == m % 2
    <3>1. m \in Nat /\ q \in Nat /\ b \in 0 .. 1 /\ m = 2 * q + b
      BY BitRead
    <3>. QED
      BY <3>1
  <2>4. Bit(k + 1) = b
    <3>. DEFINE i == k + 1
    <3>1. Reading(w, x, 0, c, loc.bitbuf, loc.mode) /\ i \in 1 .. c /\ i \in Nat
      BY <1>1, <2>1
    <3>. HIDE DEF i
    <3>2. (loc.bitbuf \div 2 ^ (w - i)) % 2 = (x \div 2 ^ (c - i)) % 2
      BY <3>1, RestBitRead
    <3>. QED
      BY <1>1, <2>2, <2>3, <3>2 DEF Bit, i
  <2>5. Represents(g, e, r0[k])
    BY <1>13, <2>1, <2>2, <2>3
  <2>6. r0[k + 1] = step(k + 1, r0[k])
    BY <1>11, <2>1
  <2>7. /\ Represents(g, 2 * e, Squared(r0[k], 1)) /\ Squared(r0[k], 1) \in 0 .. p - 1
        /\ Represents(g, 2 * e + 1, redux(Squared(r0[k], 1) * one))
        /\ redux(Squared(r0[k], 1) * one) \in 0 .. p - 1
    BY <1>2, <2>5, OneBitMore DEF p
  <2>8. CASE b = 1
    <3>1. r0[k + 1] = redux(Squared(r0[k], 1) * one)
      BY <2>4, <2>6, <2>8 DEF step
    <3>. QED
      BY <2>2, <2>3, <2>7, <2>8, <3>1 DEF InRange, p
  <2>9. CASE b = 0
    <3>1. Bit(k + 1) # 1
      BY <2>4, <2>9
    <3>2. r0[k + 1] = Squared(r0[k], 1)
      BY <2>6, <3>1 DEF step
    <3>3. m = 2 * e
      BY <2>3, <2>9
    <3>. QED
      BY <2>2, <2>3, <2>7, <3>2, <3>3 DEF InRange, p
  <2>. QED
    BY <2>8, <2>9
<1>14. \A k \in Nat : k \in S
  <2>1. 0 \in S
    BY <1>12
  <2>. HIDE DEF S
  <2>. QED
    BY <1>13, <2>1, Successor
<1>15. Good(c)
  <2>1. c \in D
    OBVIOUS
  <2>. QED
    BY <1>14, <2>1
<1>16. x \div 2 ^ (c - c) = x
  <2>1. c - c = 0 /\ 2 ^ 0 = 1
    BY TwoTo
  <2>. QED
    BY <2>1
<1>. QED
  BY <1>1, <1>5, <1>15, <1>16

(* The bits that mp_exptmod has not read.                                  *)
Unread == ((loc.digidx + 1) * MP_DIGIT_BIT + loc.bitcnt) - 1

WindowInv ==
  /\ loc = [G |-> loc.G, X |-> loc.X, M |-> loc.M, res |-> loc.res, mode |-> loc.mode,
            bitcnt |-> loc.bitcnt, digidx |-> loc.digidx, bitcpy |-> loc.bitcpy, bitbuf |-> loc.bitbuf]
  /\ loc.mode \in 0 .. 2 /\ loc.digidx \in Int /\ loc.digidx >= -1 /\ loc.bitcnt \in 1 .. MP_DIGIT_BIT
  /\ TableRight(loc.G, loc.M)
  /\ Reading(winsize, loc.X, Unread, loc.bitcpy, loc.bitbuf, loc.mode)
  /\ Represents(loc.G, Gone(loc.X, Unread, loc.bitcpy), loc.res) /\ InRange(loc.res)

(* The next bit is the highest one that is unread.                         *)
LEMMA NextBitFacts ==
  ASSUME loc.digidx \in Int, loc.digidx >= -1, loc.bitcnt \in 1 .. MP_DIGIT_BIT, ~ OutOfDigits,
         loc.X \in Nat
  PROVE  /\ digidx \in Int /\ digidx >= -1 /\ bitcnt \in 1 .. MP_DIGIT_BIT
         /\ \E u \in Nat : /\ Unread = u + 1
                           /\ ((digidx + 1) * MP_DIGIT_BIT + bitcnt) - 1 = u
                           /\ bit = (loc.X \div 2 ^ u) % 2
<1>. DEFINE L == MP_DIGIT_BIT
<1>0. L \in Nat /\ L > 1
  BY DigitBitAssumption
<1>1. digidx \in Int /\ digidx >= -1 /\ bitcnt \in 1 .. L
  BY <1>0 DEF digidx, bitcnt, OutOfDigits
<1>2. PICK i \in Nat, c \in Nat : i = digidx + 1 /\ c = bitcnt - 1
  <2>1. digidx + 1 \in Nat /\ bitcnt - 1 \in Nat
    BY <1>0, <1>1
  <2>. QED
    BY <2>1
<1>3. c < L /\ L * i \in Nat /\ L * i + c \in Nat
  BY <1>0, <1>1, <1>2
<1>4. ((digidx + 1) * L + bitcnt) - 1 = L * i + c
  <2>1. (digidx + 1) * L = L * i
    BY <1>0, <1>2
  <2>. DEFINE m == L * i
  <2>2. m \in Int
    BY <1>3
  <2>. HIDE DEF m
  <2>3. (m + bitcnt) - 1 = m + c
    BY <1>0, <1>1, <1>2, <2>2
  <2>. QED
    BY <2>1, <2>3 DEF m
<1>5. Unread = (L * i + c) + 1
  <2>1. CASE loc.bitcnt = 1
    <3>1. digidx = loc.digidx - 1 /\ bitcnt = L
      BY <2>1 DEF digidx, bitcnt
    <3>2. loc.digidx = i /\ c = L - 1
      BY <1>0, <1>2, <3>1
    <3>3. (i + 1) * L = L * i + L
      BY <1>0
    <3>. DEFINE m == L * i
    <3>4. m \in Int
      BY <1>3
    <3>. HIDE DEF m
    <3>5. ((m + L) + 1) - 1 = (m + c) + 1
      BY <1>0, <3>2, <3>4
    <3>. QED
      BY <2>1, <3>2, <3>3, <3>5 DEF Unread, m
  <2>2. CASE loc.bitcnt # 1
    <3>1. digidx = loc.digidx /\ bitcnt = loc.bitcnt - 1
      BY <2>2 DEF digidx, bitcnt
    <3>2. loc.digidx + 1 = i /\ loc.bitcnt = c + 2
      BY <1>0, <1>2, <3>1
    <3>3. i * L = L * i
      BY <1>0
    <3>. DEFINE m == L * i
    <3>4. m \in Int
      BY <1>3
    <3>. HIDE DEF m
    <3>5. (m + (c + 2)) - 1 = (m + c) + 1
      BY <3>4
    <3>. QED
      BY <3>2, <3>3, <3>5 DEF Unread, m
  <2>. QED
    BY <2>1, <2>2
<1>6. bit = (loc.X \div 2 ^ (L * i + c)) % 2
  <2>. DEFINE x == loc.X
              s == 2 ^ (L * i)
              t == 2 ^ c
              n == x \div s
  <2>1. s \in Nat /\ s > 0 /\ t \in Nat /\ t > 0 /\ 2 ^ (L * i + c) = s * t
    BY <1>3, TwoTo, TwoToSum
  <2>2. n \in Nat
    <3>. HIDE DEF s
    <3>. QED
      BY <2>1, Greatest
  <2>3. Digit(x, i) = n % 2 ^ L
    <3>1. ~ (i < 0) /\ Magnitude(x) = x
      BY DEF Magnitude, Sgn
    <3>. QED
      BY <3>1 DEF Digit, Weight, Radix
  <2>4. bit = ((n % 2 ^ L) \div t) % 2
    BY <1>2, <2>3 DEF bit
  <2>. HIDE DEF n
  <2>5. bit = (n \div t) % 2
    <3>1. PICK y \in Nat : y = n
      BY <2>2
    <3>2. PICK l \in Nat : l = L
      BY <1>0
    <3>. HIDE DEF L, t
    <3>3. c < l
      BY <1>3, <3>2
    <3>4. ((y % 2 ^ l) \div 2 ^ c) % 2 = (y \div 2 ^ c) % 2
      BY <3>3, LowBit
    <3>. QED
      BY <2>4, <3>1, <3>2, <3>4, Zenon DEF t
  <2>6. x \div (s * t) = n \div t
    <3>. HIDE DEF s, t, x
    <3>1. x \in Nat
      BY DEF x
    <3>. QED
      BY <2>1, <3>1, DivTwice DEF n
  <2>. QED
    BY <2>1, <2>5, <2>6
<1>. DEFINE u == L * i + c
<1>7. u \in Nat /\ Unread = u + 1 /\ ((digidx + 1) * L + bitcnt) - 1 = u
        /\ bit = (loc.X \div 2 ^ u) % 2
  BY <1>3, <1>4, <1>5, <1>6
<1>. HIDE DEF u
<1>8. \E v \in Nat : /\ Unread = v + 1
                     /\ ((digidx + 1) * L + bitcnt) - 1 = v
                     /\ bit = (loc.X \div 2 ^ v) % 2
  BY <1>7
<1>. QED
  BY <1>1, <1>8

LEMMA SameModulus ==
  ASSUME val' = val, fr' = fr
  PROVE  /\ Modulus' = Modulus /\ Exponent' = Exponent /\ A' = A
         /\ Reduction' = Reduction /\ Unit' = Unit
<1>1. Modulus' = Modulus /\ Exponent' = Exponent /\ A' = A
  BY DEF Modulus, Exponent, A
<1>2. Reduction' = Reduction
  BY <1>1 DEF Reduction
<1>. QED
  BY <1>1, <1>2 DEF Unit, MontgomeryR

(* The invariant, when the next bit was read.                              *)
LEMMA WindowAgain ==
  ASSUME val' = val, fr' = fr, loc.X \in Nat,
         digidx \in Int, digidx >= -1, bitcnt \in 1 .. MP_DIGIT_BIT,
         NEW u, ((digidx + 1) * MP_DIGIT_BIT + bitcnt) - 1 = u,
         NEW r, NEW m \in 0 .. 2, NEW c, NEW b,
         loc' = [G |-> loc.G, X |-> loc.X, M |-> loc.M, res |-> r, mode |-> m,
                 bitcnt |-> bitcnt, digidx |-> digidx, bitcpy |-> c, bitbuf |-> b],
         TableRight(loc.G, loc.M),
         Reading(winsize, loc.X, u, c, b, m),
         Represents(loc.G, Gone(loc.X, u, c), r), InRange(r)
  PROVE  WindowInv' /\ loc'.G = loc.G /\ loc'.X = loc.X
<1>1. /\ loc'.G = loc.G /\ loc'.X = loc.X /\ loc'.M = loc.M /\ loc'.res = r /\ loc'.mode = m
      /\ loc'.bitcnt = bitcnt /\ loc'.digidx = digidx /\ loc'.bitcpy = c /\ loc'.bitbuf = b
  OBVIOUS
<1>2. Modulus' = Modulus /\ Unit' = Unit
  BY SameModulus
<1>3. winsize' = winsize /\ Upper' = Upper
  BY <1>1 DEF winsize, Upper, Half
<1>4. Unread' = u
  BY <1>1 DEF Unread
<1>5. TableRight(loc.G, loc.M)'
  BY <1>1, <1>2, <1>3 DEF TableRight, Represents
<1>6. Reading(winsize, loc.X, Unread, loc.bitcpy, loc.bitbuf, loc.mode)'
  BY <1>1, <1>3, <1>4 DEF Reading, Low
<1>7. Represents(loc.G, Gone(loc.X, Unread, loc.bitcpy), loc.res)' /\ InRange(loc.res)'
  BY <1>1, <1>2, <1>4 DEF Represents, InRange, Gone
<1>8. (loc = [G |-> loc.G, X |-> loc.X, M |-> loc.M, res |-> loc.res, mode |-> loc.mode,
              bitcnt |-> loc.bitcnt, digidx |-> loc.digidx, bitcpy |-> loc.bitcpy,
              bitbuf |-> loc.bitbuf])'
  BY <1>1
<1>. QED
  BY <1>1, <1>5, <1>6, <1>7, <1>8 DEF WindowInv

LEMMA ExptmodFrame ==
  ASSUME fr \in Frames, fr.op = "exptmod"
  PROVE  /\ fr.a \in Ints /\ fr.X \in Ints /\ fr.P \in Ints /\ fr.c \in Ints
         /\ fr.routine \in {"both", "fast"}
<1>1. fr \in GcdFrames \cup DivFrames \cup RootFrames \cup InvmodFrames \cup ExteuclidFrames
               \cup ExptFrames \cup ExptmodFrames
               \cup KroneckerFrames \cup IsSquareFrames \cup SqrtmodFrames
  BY FramesAssumption
<1>2. fr \notin GcdFrames /\ fr \notin DivFrames /\ fr \notin RootFrames
        /\ fr \notin InvmodFrames /\ fr \notin ExteuclidFrames
  BY DEF GcdFrames, DivFrames, RootFrames, InvmodFrames, ExteuclidFrames
<1>3. fr \notin ExptFrames /\ fr \notin KroneckerFrames
        /\ fr \notin IsSquareFrames /\ fr \notin SqrtmodFrames
  BY DEF ExptFrames, KroneckerFrames, IsSquareFrames, SqrtmodFrames
<1>. QED
  BY <1>1, <1>2, <1>3 DEF ExptmodFrames

(* The base and the exponent in use: those of the call or, for a negative  *)
(* exponent, an inverse of the base and the magnitude.                     *)
Started ==
  /\ loc.G \in Int /\ loc.X \in Nat
  /\ IF Exponent >= 0 THEN loc.G = A /\ loc.X = Exponent
     ELSE /\ loc.X = - Exponent
          /\ Modulus > 0 /\ Congruent(Modulus, loc.G * A, 1) /\ (Modulus = 1 => A >= 0)

Refusable ==
  \/ Modulus < 1
  \/ Exponent < 0 /\ (~ IsGcd(1, A, Modulus) \/ (Modulus = 1 /\ A < 0))
  \/ /\ fr.routine = "fast" /\ IsEven(Modulus)
     /\ ~ mp_reduce_is_2k(Modulus) /\ ~ mp_dr_is_modulus(Modulus)

ExptmodPcs == {"choose", "table", "window", "exptmod_end"}

ExptmodInv ==
  fr.op = "exptmod" =>
    /\ val \in [Ints -> Int] /\ old \in [Ints -> Int]
    /\ pc # "done" => val = old
    /\ pc \in ExptmodPcs => Modulus >= 0 /\ Started
    /\ pc \in ExptmodPcs \ {"choose"} => Reduction # "none"
    /\ pc \in {"window", "exptmod_end"} => Modulus > 0
    /\ pc = "window" => WindowInv
    /\ pc = "exptmod_end" => Represents(loc.G, loc.X, loc.res) /\ InRange(loc.res)
    /\ pc = "done" => ExptmodCorrect

ExptmodStep ==
  \/ exptmod_refused \/ exptmod_positive \/ exptmod_negative \/ exptmod_init \/ exptmod_table
  \/ window_skip \/ window_square \/ window_collect \/ window_full \/ window_rest \/ exptmod_end

LEMMA ExptmodContext ==
  ASSUME Ownership, ExptInv, ExptmodInv, ExptmodStep
  PROVE  /\ fr.op = "exptmod" /\ fr' = fr /\ old' = old
         /\ pc \in {"exptmod"} \cup ExptmodPcs
         /\ fr.a \in Ints /\ fr.X \in Ints /\ fr.P \in Ints /\ fr.c \in Ints
         /\ fr.routine \in {"both", "fast"}
         /\ val \in [Ints -> Int] /\ val = old
         /\ A = old[fr.a] /\ Exponent = old[fr.X] /\ Modulus = old[fr.P]
         /\ A \in Int /\ Exponent \in Int /\ Modulus \in Int
<1>1. PowerNext
  BY DEF ExptmodStep, PowerNext
<1>2. fr.op \in PowerOps /\ fr' = fr /\ PowerOwns /\ fr \in Frames
  BY <1>1, StepsAtHome DEF Ownership
<1>3. pc \in {"exptmod"} \cup ExptmodPcs /\ old' = old
  BY DEF ExptmodStep, ExptmodPcs, exptmod_refused, exptmod_positive, exptmod_negative, exptmod_init,
         exptmod_table, window_skip, window_square, window_collect, window_full, window_rest,
         exptmod_end, NextBit, Collects, Refuse, Return, Goto
<1>4. fr.op = "exptmod"
  <2>1. fr.op # "expt"
    BY <1>2, <1>3 DEF ExptInv, ExptmodPcs
  <2>. QED
    BY <1>2, <2>1 DEF PowerOps
<1>5. val \in [Ints -> Int] /\ val = old
  BY <1>3, <1>4 DEF ExptmodInv, ExptmodPcs
<1>. QED
  BY <1>2, <1>3, <1>4, <1>5, ExptmodFrame DEF A, Exponent, Modulus

(* A call that fails or refuses.                                           *)
LEMMA ExptmodRefuses ==
  ASSUME Ownership, ExptInv, ExptmodInv, ExptmodStep,
         pc' = "done", val' = val, err' = "MEM" \/ (err' = "VAL" /\ Refusable)
  PROVE  ExptmodInv'
<1>1. /\ fr.op = "exptmod" /\ fr' = fr /\ old' = old /\ val = old
      /\ val \in [Ints -> Int]
      /\ A = old[fr.a] /\ Exponent = old[fr.X] /\ Modulus = old[fr.P]
  BY ExptmodContext
<1>2. ExptmodCorrect'
  BY <1>1 DEF ExptmodCorrect, Succeeded, Done, Refusable
<1>. QED
  BY <1>1, <1>2 DEF ExptmodInv, ExptmodPcs

(* What was begun is not refused.                                          *)
LEMMA NotRefused ==
  ASSUME Modulus \in Nat, Modulus > 0, A \in Int, Exponent \in Int, Started, Reduction # "none"
  PROVE  ~ Refusable
<1>1. ~ (Modulus < 1)
  OBVIOUS
<1>2. ~ (Exponent < 0 /\ (~ IsGcd(1, A, Modulus) \/ (Modulus = 1 /\ A < 0)))
  <2>. SUFFICES ASSUME Exponent < 0 PROVE IsGcd(1, A, Modulus) /\ ~ (Modulus = 1 /\ A < 0)
    OBVIOUS
  <2>1. loc.G \in Int /\ Congruent(Modulus, loc.G * A, 1) /\ (Modulus = 1 => A >= 0)
    BY DEF Started
  <2>2. loc.G * A = A * loc.G
    BY <2>1
  <2>3. Divides(Modulus, A * loc.G - 1)
    BY <2>1, <2>2 DEF Congruent
  <2>4. IsGcd(1, A, Modulus)
    BY <2>1, <2>3, InverseShowsGcd
  <2>. QED
    BY <2>1, <2>4
<1>3. ~ (/\ fr.routine = "fast" /\ IsEven(Modulus)
         /\ ~ mp_reduce_is_2k(Modulus) /\ ~ mp_dr_is_modulus(Modulus))
  BY DEF Reduction
<1>. QED
  BY <1>1, <1>2, <1>3 DEF Refusable

(* The result, with the representation's factor taken out.                 *)
LEMMA FactorTakenOut ==
  ASSUME Modulus \in Nat, Modulus > 0, NEW g \in Int, NEW e \in Nat, NEW y,
         Represents(g, e, y), InRange(y),
         NEW Y, Y = IF Reduction = "montgomery" THEN redux(y) ELSE y
  PROVE  Y \in Int /\ InRange(Y) /\ Congruent(Modulus, Y, Power(g, e))
<1>. DEFINE p == Modulus
            a == Power(g, e)
            u == Unit
<1>1. p \in Nat /\ p > 0 /\ a \in Int /\ u \in Int /\ y \in Int /\ Congruent(p, y, a * u)
  BY PowerFacts, ReduxFacts DEF Represents
<1>2. CASE Reduction # "montgomery"
  <2>1. u = 1 /\ Y = y
    BY <1>2 DEF Unit
  <2>2. a * u = a
    BY <1>1, <2>1
  <2>. QED
    BY <1>1, <2>1, <2>2
<1>3. CASE Reduction = "montgomery"
  <2>1. PICK v \in Int : /\ Congruent(p, u * v, 1) /\ Y \in 0 .. p - 1 /\ Y \in Int
                         /\ Congruent(p, Y, y * v)
    BY <1>1, <1>3, ReduxFacts
  <2>. HIDE DEF p, a, u
  <2>2. a * u \in Int /\ (a * u) * v \in Int /\ y * v \in Int /\ u * v \in Int /\ a * (u * v) \in Int
          /\ (a * u) * v = a * (u * v) /\ a * 1 = a
    BY <1>1
  <2>3. Congruent(p, v, v) /\ Congruent(p, a, a)
    BY <1>1, CongruentSame
  <2>4. Congruent(p, y * v, (a * u) * v)
    BY <1>1, <2>2, <2>3, CongruentProduct
  <2>5. Congruent(p, a * (u * v), a * 1)
    BY <1>1, <2>1, <2>2, <2>3, CongruentProduct
  <2>6. Congruent(p, Y, a * (u * v))
    BY <1>1, <2>1, <2>2, <2>4, CongruentTrans
  <2>7. Congruent(p, Y, a)
    BY <1>1, <2>1, <2>2, <2>5, <2>6, CongruentTrans
  <2>. QED
    BY <2>1, <2>7 DEF InRange, p, a
<1>. QED
  BY <1>2, <1>3

LEMMA ExptmodEnds ==
  ASSUME Ownership, ExptInv, ExptmodInv, exptmod_end
  PROVE  ExptmodInv'
<1>. DEFINE Y == IF Reduction = "montgomery" THEN redux(loc.res) ELSE loc.res
            a == A
            x == Exponent
            p == Modulus
<1>0. ExptmodStep /\ pc = "exptmod_end"
  BY DEF ExptmodStep, exptmod_end
<1>1. /\ fr.op = "exptmod" /\ fr' = fr /\ old' = old /\ val = old
      /\ val \in [Ints -> Int] /\ fr.c \in Ints
      /\ a = old[fr.a] /\ x = old[fr.X] /\ p = old[fr.P]
      /\ a \in Int /\ x \in Int /\ p \in Int
  BY <1>0, ExptmodContext
<1>2. /\ p \in Nat /\ p > 0 /\ Started /\ Reduction # "none"
      /\ Represents(loc.G, loc.X, loc.res) /\ InRange(loc.res)
  <2>1. /\ Started /\ Reduction # "none" /\ p > 0
        /\ Represents(loc.G, loc.X, loc.res) /\ InRange(loc.res)
    BY <1>0, <1>1 DEF ExptmodInv, ExptmodPcs
  <2>. QED
    BY <1>1, <2>1
<1>3. CASE Reduction = "montgomery" /\ Refuse("MEM", LBL_RES \cup Tmps)
  <2>1. pc' = "done" /\ val' = val /\ err' = "MEM"
    BY <1>3 DEF Refuse, Return
  <2>. QED
    BY <1>0, <2>1, ExptmodRefuses
<1>4. CASE Put(fr.c, Y) /\ Return("OKAY", LBL_RES \cup Tmps)
  <2>1. loc.G \in Int /\ loc.X \in Nat
    BY <1>2 DEF Started
  <2>2. Y \in Int /\ InRange(Y) /\ Congruent(p, Y, Power(loc.G, loc.X))
    BY <1>2, <2>1, FactorTakenOut
  <2>3. ~ Refusable
    BY <1>1, <1>2, NotRefused
  <2>. HIDE DEF Y, a, x, p
  <2>4. /\ pc' = "done" /\ err' = "OKAY" /\ val' = [val EXCEPT ![fr.c] = Y]
        /\ val' \in [Ints -> Int] /\ val'[fr.c] = Y
    BY <1>1, <1>4, <2>2 DEF Put, Return
  <2>5. CASE x >= 0
    <3>. DEFINE m == PowMod(a, x, p)
    <3>1. loc.G = a /\ loc.X = x /\ x \in Nat
      BY <1>1, <1>2, <2>5 DEF Started, x, a
    <3>2. m \in 0 .. p - 1 /\ Congruent(p, m, Power(a, x)) /\ Power(a, x) \in Int
      BY <1>1, <1>2, <3>1, PowModIsPower, PowerFacts
    <3>3. m \in Int
      BY <1>2, <3>2
    <3>. HIDE DEF m
    <3>4. Congruent(p, Power(a, x), m)
      BY <1>2, <3>2, <3>3, CongruentSwap
    <3>5. Congruent(p, Y, m)
      BY <1>2, <2>2, <3>1, <3>2, <3>3, <3>4, CongruentTrans
    <3>6. (Y - PowMod(a, x, p)) % p = 0
      BY <3>5 DEF Congruent, Divides, m
    <3>7. ExptmodCorrect'
      BY <1>1, <2>2, <2>3, <2>4, <2>5, <3>6
         DEF ExptmodCorrect, Succeeded, Done, Refusable, InRange, a, x, p
    <3>. QED
      BY <1>1, <2>4, <3>7 DEF ExptmodInv, ExptmodPcs
  <2>6. CASE x < 0
    <3>. DEFINE m == PowMod(a, - x, p)
                g == loc.G
                e == - x
    <3>1. g \in Int /\ loc.X = e /\ e \in Nat /\ Congruent(p, g * a, 1)
      <4>1. ~ (Exponent >= 0) /\ - Exponent \in Nat
        BY <1>1, <2>6 DEF x
      <4>. QED
        BY <1>2, <4>1 DEF Started, x, a, p
    <3>. HIDE DEF g, e
    <3>2. m \in 0 .. p - 1 /\ Congruent(p, m, Power(a, e)) /\ Power(a, e) \in Int /\ Power(g, e) \in Int
      BY <1>1, <1>2, <3>1, PowModIsPower, PowerFacts DEF e
    <3>3. m \in Int
      BY <1>2, <3>2
    <3>. HIDE DEF m
    <3>4. Congruent(p, Power(g, e) * Power(a, e), 1)
      BY <1>1, <1>2, <3>1, PowersInvert
    <3>5. Congruent(p, Y, Power(g, e))
      BY <2>2, <3>1 DEF g
    <3>6. Congruent(p, Y * m, Power(g, e) * Power(a, e))
      BY <1>2, <2>2, <3>2, <3>3, <3>5, CongruentProduct
    <3>7. Congruent(p, Y * m, 1)
      <4>1. Y * m \in Int /\ Power(g, e) * Power(a, e) \in Int
        BY <2>2, <3>2, <3>3
      <4>. QED
        BY <1>2, <3>4, <3>6, <4>1, CongruentTrans
    <3>8. (Y * PowMod(a, - x, p) - 1) % p = 0
      BY <3>7 DEF Congruent, Divides, m
    <3>9. ~ (x >= 0)
      BY <1>1, <2>6
    <3>10. ExptmodCorrect'
      BY <1>1, <2>2, <2>3, <2>4, <3>8, <3>9
         DEF ExptmodCorrect, Succeeded, Done, Refusable, InRange, a, x, p
    <3>. QED
      BY <1>1, <2>4, <3>10 DEF ExptmodInv, ExptmodPcs
  <2>. QED
    BY <1>1, <2>5, <2>6
<1>. QED
  BY <1>3, <1>4 DEF exptmod_end

-----------------------------------------------------------------------------
(* The steps before the window.                                            *)
LEMMA ExptmodStarts ==
  ASSUME Ownership, ExptInv, ExptmodInv, exptmod_refused \/ exptmod_positive \/ exptmod_negative
  PROVE  ExptmodInv'
<1>0. ExptmodStep /\ pc = "exptmod"
  BY DEF ExptmodStep, exptmod_refused, exptmod_positive, exptmod_negative
<1>1. /\ fr.op = "exptmod" /\ fr' = fr /\ old' = old /\ val = old
      /\ val \in [Ints -> Int]
      /\ A \in Int /\ Exponent \in Int /\ Modulus \in Int
  BY <1>0, ExptmodContext
<1>2. ASSUME val' = val, pc' = "choose", Modulus >= 0, Started' PROVE ExptmodInv'
  <2>1. Modulus' = Modulus
    BY <1>1, <1>2, SameModulus
  <2>. QED
    BY <1>1, <1>2, <2>1 DEF ExptmodInv, ExptmodPcs
<1>3. CASE exptmod_refused
  <2>1. pc' = "done" /\ val' = val /\ err' = "VAL" /\ Refusable
    BY <1>1, <1>3 DEF exptmod_refused, Refuse, Return, Refusable
  <2>. QED
    BY <1>0, <2>1, ExptmodRefuses
<1>4. CASE exptmod_positive
  <2>1. /\ val' = val /\ pc' = "choose" /\ Modulus >= 0 /\ Exponent >= 0
        /\ loc' = [G |-> A, X |-> Exponent]
    BY <1>4 DEF exptmod_positive, Goto
  <2>2. A' = A /\ Exponent' = Exponent
    BY <1>1, <2>1, SameModulus
  <2>3. Started'
    BY <1>1, <2>1, <2>2 DEF Started
  <2>. QED
    BY <1>2, <2>1, <2>3
<1>5. CASE exptmod_negative
  <2>0. Modulus >= 0 /\ Exponent < 0
    BY <1>5 DEF exptmod_negative
  <2>1. CASE Refuse("MEM", Tmps)
    <3>1. pc' = "done" /\ val' = val /\ err' = "MEM"
      BY <2>1 DEF Refuse, Return
    <3>. QED
      BY <1>0, <3>1, ExptmodRefuses
  <2>2. CASE /\ Modulus = 0 \/ ~ IsGcd(1, A, Modulus) \/ (Modulus = 1 /\ A < 0)
             /\ Refuse("VAL", Tmps)
    <3>1. pc' = "done" /\ val' = val /\ err' = "VAL"
      BY <2>2 DEF Refuse, Return
    <3>2. Refusable
      BY <1>1, <2>0, <2>2 DEF Refusable
    <3>. QED
      BY <1>0, <3>1, <3>2, ExptmodRefuses
  <2>3. CASE /\ Modulus = 1 => A >= 0
             /\ \E g \in 0 .. Modulus - 1 :
                  /\ (A * g - 1) % Modulus = 0
                  /\ loc' = [G |-> g, X |-> - Exponent]
             /\ pc' = "choose" /\ val' = val
    <3>1. PICK g \in 0 .. Modulus - 1 :
            (A * g - 1) % Modulus = 0 /\ loc' = [G |-> g, X |-> - Exponent]
      BY <2>3
    <3>2. g \in Int /\ Modulus > 0 /\ - Exponent \in Nat
      BY <1>1, <2>0
    <3>3. Congruent(Modulus, g * A, 1)
      <4>1. g * A = A * g
        BY <1>1, <3>2
      <4>. QED
        BY <3>1, <4>1 DEF Congruent, Divides
    <3>4. A' = A /\ Exponent' = Exponent /\ Modulus' = Modulus
      BY <1>1, <2>3, SameModulus
    <3>5. loc'.G = g /\ loc'.X = - Exponent
      BY <3>1
    <3>6. ~ (Exponent >= 0)
      BY <1>1, <2>0
    <3>7. Started'
      BY <2>3, <3>2, <3>3, <3>4, <3>5, <3>6 DEF Started
    <3>. QED
      BY <1>2, <2>0, <2>3, <3>7
  <2>. QED
    BY <1>5, <2>1, <2>2, <2>3 DEF exptmod_negative
<1>. QED
  BY <1>3, <1>4, <1>5

LEMMA ExptmodChooses ==
  ASSUME Ownership, ExptInv, ExptmodInv, exptmod_init
  PROVE  ExptmodInv'
<1>0. ExptmodStep /\ pc = "choose"
  BY DEF ExptmodStep, exptmod_init
<1>1. /\ fr.op = "exptmod" /\ fr' = fr /\ old' = old /\ val = old
      /\ val \in [Ints -> Int] /\ fr.routine \in {"both", "fast"} /\ Modulus \in Int
  BY <1>0, ExptmodContext
<1>2. Modulus >= 0 /\ Started
  BY <1>0, <1>1 DEF ExptmodInv, ExptmodPcs
<1>3. CASE Reduction = "none" /\ Refuse("VAL", Tmps)
  <2>1. pc' = "done" /\ val' = val /\ err' = "VAL"
    BY <1>3 DEF Refuse, Return
  <2>2. /\ fr.routine = "fast" /\ IsEven(Modulus)
        /\ ~ mp_reduce_is_2k(Modulus) /\ ~ mp_dr_is_modulus(Modulus)
    BY <1>1, <1>3 DEF Reduction
  <2>3. Refusable
    BY <2>2 DEF Refusable
  <2>. QED
    BY <1>0, <2>1, <2>3, ExptmodRefuses
<1>4. CASE pc' = "done" /\ err' = "MEM" /\ val' = val
  BY <1>0, <1>4, ExptmodRefuses
<1>5. CASE Reduction # "none" /\ pc' = "table" /\ val' = val /\ loc' = loc
  <2>1. Modulus' = Modulus /\ Reduction' = Reduction /\ A' = A /\ Exponent' = Exponent
    BY <1>1, <1>5, SameModulus
  <2>2. Started'
    BY <1>2, <1>5, <2>1 DEF Started
  <2>. QED
    BY <1>1, <1>2, <1>5, <2>1, <2>2 DEF ExptmodInv, ExptmodPcs
<1>. QED
  BY <1>3, <1>4, <1>5 DEF exptmod_init, Refuse, Return

(* Nothing is read at first, and the result is one.                        *)
LEMMA NothingRead ==
  ASSUME NEW x \in Nat, NEW w \in Nat, w > 0
  PROVE  /\ Used(x) \in Nat /\ Used(x) * MP_DIGIT_BIT \in Nat
         /\ Reading(w, x, Used(x) * MP_DIGIT_BIT, 0, 0, 0)
         /\ Gone(x, Used(x) * MP_DIGIT_BIT, 0) = 0
<1>. DEFINE u == Used(x) * MP_DIGIT_BIT
            t == 2 ^ u
<1>1. Used(x) \in Nat /\ x < Weight(Used(x))
  BY UsedFacts
<1>2. u \in Nat /\ MP_DIGIT_BIT * Used(x) = u /\ u + 0 = u
  BY <1>1, DigitBitAssumption
<1>3. t \in Nat /\ x < t
  BY <1>1, <1>2, TwoTo DEF Weight
<1>. HIDE DEF t, u
<1>4. x \div t = 0
  <2>1. x \in 0 .. t - 1 /\ t > 0 /\ t * 0 + x = x /\ 0 \in Int
    BY <1>3
  <2>2. (t * 0 + x) \div t = 0
    BY <1>3, <2>1, DivisionUnique
  <2>. QED
    BY <2>1, <2>2
<1>5. Low(x, u, 0) = 0
  <2>1. 2 ^ 0 = 1
    BY TwoTo
  <2>2. Low(x, u, 0) = 0 % 1
    BY <1>4, <2>1 DEF Low, LowBits, t
  <2>. QED
    BY <2>2
<1>6. 0 = Low(x, u, 0) * 2 ^ (w - 0)
  <2>1. w - 0 = w /\ 2 ^ w \in Nat
    BY TwoTo
  <2>2. \A n \in Nat : 0 = 0 * n
    OBVIOUS
  <2>. QED
    BY <1>5, <2>1, <2>2
<1>7. Reading(w, x, u, 0, 0, 0)
  <2>1. 0 \in Nat /\ 0 < w /\ ~ (0 > 0) /\ 0 # 2
    OBVIOUS
  <2>. QED
    BY <1>4, <1>6, <2>1 DEF Reading, t
<1>8. Gone(x, u, 0) = 0
  BY <1>2, <1>4 DEF Gone, t
<1>. QED
  BY <1>1, <1>2, <1>7, <1>8 DEF u

LEMMA OneRepresented ==
  ASSUME Modulus \in Nat, Modulus > 0, NEW g \in Int
  PROVE  Represents(g, 0, Unit) /\ InRange(Unit)
<1>1. Unit \in Int /\ Power(g, 0) = 1
  BY ReduxFacts, PowerFacts
<1>2. 1 * Unit = Unit
  BY <1>1
<1>3. Represents(g, 0, Unit)
  BY <1>1, <1>2, CongruentSame DEF Represents
<1>4. InRange(Unit)
  <2>1. CASE Reduction = "montgomery"
    <3>. DEFINE p == Modulus
                r == MontgomeryR
    <3>1. p \in Nat /\ p > 0 /\ r \in Int /\ Unit = r % p
      BY <2>1, MontgomeryFacts DEF Unit
    <3>. HIDE DEF p, r
    <3>2. Unit \in 0 .. p - 1
      BY <3>1, CongruentSame
    <3>. QED
      BY <3>2 DEF InRange, p
  <2>2. CASE Reduction # "montgomery"
    BY <2>2 DEF InRange, Unit
  <2>. QED
    BY <2>1, <2>2
<1>. QED
  BY <1>3, <1>4

LEMMA ExptmodTable ==
  ASSUME Ownership, ExptInv, ExptmodInv, exptmod_table
  PROVE  ExptmodInv'
<1>0. ExptmodStep /\ pc = "table"
  BY DEF ExptmodStep, exptmod_table
<1>1. /\ fr.op = "exptmod" /\ fr' = fr /\ old' = old /\ val = old
      /\ val \in [Ints -> Int] /\ Modulus \in Int
  BY <1>0, ExptmodContext
<1>2. Modulus >= 0 /\ Started /\ Reduction # "none" /\ loc.G \in Int /\ loc.X \in Nat
  BY <1>0, <1>1 DEF ExptmodInv, ExptmodPcs, Started
<1>3. CASE Refuse("MEM", LBL_RES \cup Tmps)
  <2>1. pc' = "done" /\ val' = val /\ err' = "MEM"
    BY <1>3 DEF Refuse, Return
  <2>. QED
    BY <1>0, <2>1, ExptmodRefuses
<1>4. CASE Modulus = 0 /\ Refuse("VAL", LBL_RES \cup Tmps)
  <2>1. pc' = "done" /\ val' = val /\ err' = "VAL" /\ Refusable
    BY <1>4 DEF Refuse, Return, Refusable
  <2>. QED
    BY <1>0, <2>1, ExptmodRefuses
<1>5. CASE /\ Modulus # 0
           /\ loc' = [G |-> loc.G, X |-> loc.X, M |-> Table, res |-> Unit, mode |-> 0,
                      bitcnt |-> 1, digidx |-> Used(loc.X) - 1, bitcpy |-> 0, bitbuf |-> 0]
           /\ pc' = "window" /\ val' = val
  <2>1. Modulus \in Nat /\ Modulus > 0
    BY <1>1, <1>2, <1>5
  <2>. DEFINE u == Used(loc.X) * MP_DIGIT_BIT
  <2>2. /\ loc'.G = loc.G /\ loc'.X = loc.X /\ loc'.M = Table /\ loc'.res = Unit /\ loc'.mode = 0
        /\ loc'.bitcnt = 1 /\ loc'.digidx = Used(loc.X) - 1 /\ loc'.bitcpy = 0 /\ loc'.bitbuf = 0
    BY <1>5
  <2>3. /\ Modulus' = Modulus /\ Unit' = Unit /\ Reduction' = Reduction
        /\ A' = A /\ Exponent' = Exponent
    BY <1>1, <1>5, SameModulus
  <2>4. winsize' = winsize /\ Upper' = Upper
    BY <2>2 DEF winsize, Upper, Half
  <2>5. /\ Used(loc.X) \in Nat /\ u \in Nat
        /\ Reading(winsize, loc.X, u, 0, 0, 0) /\ Gone(loc.X, u, 0) = 0
    <3>1. winsize \in Nat /\ winsize > 0
      BY WinsizeFacts
    <3>. QED
      BY <1>2, <3>1, NothingRead
  <2>6. Unread' = u
    <3>1. ((Used(loc.X) - 1) + 1) = Used(loc.X)
      BY <2>5
    <3>2. Unread' = (u + 1) - 1
      BY <2>2, <3>1 DEF Unread
    <3>. HIDE DEF u
    <3>. QED
      BY <2>5, <3>2
  <2>7. TableRight(loc.G, loc.M)'
    <3>1. TableRight(loc.G, Table)
      BY <1>2, <2>1, TableRepresents
    <3>. QED
      BY <2>2, <2>3, <2>4, <3>1 DEF TableRight, Represents
  <2>8. Reading(winsize, loc.X, Unread, loc.bitcpy, loc.bitbuf, loc.mode)'
    BY <2>2, <2>4, <2>5, <2>6 DEF Reading, Low
  <2>9. Represents(loc.G, Gone(loc.X, Unread, loc.bitcpy), loc.res)' /\ InRange(loc.res)'
    <3>1. Represents(loc.G, 0, Unit) /\ InRange(Unit)
      BY <1>2, <2>1, OneRepresented
    <3>. QED
      BY <2>2, <2>3, <2>5, <2>6, <3>1 DEF Represents, InRange, Gone
  <2>10. (loc = [G |-> loc.G, X |-> loc.X, M |-> loc.M, res |-> loc.res, mode |-> loc.mode,
              bitcnt |-> loc.bitcnt, digidx |-> loc.digidx, bitcpy |-> loc.bitcpy,
              bitbuf |-> loc.bitbuf])'
    BY <1>5, <2>2
  <2>11. loc'.mode \in 0 .. 2 /\ loc'.digidx \in Int /\ loc'.digidx >= -1
           /\ loc'.bitcnt \in 1 .. MP_DIGIT_BIT
    BY <2>2, <2>5, DigitBitAssumption
  <2>12. WindowInv'
    BY <2>7, <2>8, <2>9, <2>10, <2>11 DEF WindowInv
  <2>13. Started'
    BY <1>2, <2>2, <2>3 DEF Started
  <2>. QED
    BY <1>1, <1>2, <1>5, <2>1, <2>3, <2>12, <2>13 DEF ExptmodInv, ExptmodPcs
<1>. QED
  BY <1>3, <1>4, <1>5 DEF exptmod_table, Table

-----------------------------------------------------------------------------
(* The window.                                                             *)
LEMMA WindowContext ==
  ASSUME Ownership, ExptInv, ExptmodInv, ExptmodStep, pc = "window"
  PROVE  /\ fr.op = "exptmod" /\ fr' = fr /\ old' = old /\ val = old /\ val \in [Ints -> Int]
         /\ Modulus \in Nat /\ Modulus > 0 /\ Reduction # "none"
         /\ Started /\ loc.G \in Int /\ loc.X \in Nat /\ WindowInv
<1>1. /\ fr.op = "exptmod" /\ fr' = fr /\ old' = old /\ val = old /\ val \in [Ints -> Int]
      /\ Modulus \in Int
  BY ExptmodContext
<1>2. Modulus > 0 /\ Reduction # "none" /\ Started /\ WindowInv
  BY <1>1 DEF ExptmodInv, ExptmodPcs
<1>. QED
  BY <1>1, <1>2 DEF Started

LEMMA WindowContinues ==
  ASSUME Ownership, ExptInv, ExptmodInv, ExptmodStep, pc = "window",
         pc' = "window", val' = val, WindowInv', loc'.G = loc.G, loc'.X = loc.X
  PROVE  ExptmodInv'
<1>1. /\ fr.op = "exptmod" /\ fr' = fr /\ old' = old /\ val = old /\ val \in [Ints -> Int]
      /\ Modulus \in Nat /\ Modulus > 0 /\ Reduction # "none" /\ Started
  BY WindowContext
<1>2. Modulus' = Modulus /\ Reduction' = Reduction /\ A' = A /\ Exponent' = Exponent
  BY <1>1, SameModulus
<1>3. Started'
  BY <1>1, <1>2 DEF Started
<1>. QED
  BY <1>1, <1>2, <1>3 DEF ExptmodInv, ExptmodPcs

LEMMA WindowFails ==
  ASSUME Ownership, ExptInv, ExptmodInv, ExptmodStep, NEW S, Refuse("MEM", S)
  PROVE  ExptmodInv'
<1>1. pc' = "done" /\ val' = val /\ err' = "MEM"
  BY DEF Refuse, Return
<1>. QED
  BY <1>1, ExptmodRefuses

(* The locals of the window with some of them replaced.                    *)
LEMMA LocalsReplaced ==
  ASSUME loc = [G |-> loc.G, X |-> loc.X, M |-> loc.M, res |-> loc.res, mode |-> loc.mode,
                bitcnt |-> loc.bitcnt, digidx |-> loc.digidx, bitcpy |-> loc.bitcpy,
                bitbuf |-> loc.bitbuf]
  PROVE  /\ Advanced = [G |-> loc.G, X |-> loc.X, M |-> loc.M, res |-> loc.res, mode |-> loc.mode,
                        bitcnt |-> bitcnt, digidx |-> digidx, bitcpy |-> loc.bitcpy,
                        bitbuf |-> loc.bitbuf]
         /\ Collected = [G |-> loc.G, X |-> loc.X, M |-> loc.M, res |-> loc.res, mode |-> 2,
                         bitcnt |-> bitcnt, digidx |-> digidx, bitcpy |-> loc.bitcpy + 1,
                         bitbuf |-> loc.bitbuf + bit * 2 ^ (winsize - (loc.bitcpy + 1))]
<1>1. Advanced = [G |-> loc.G, X |-> loc.X, M |-> loc.M, res |-> loc.res, mode |-> loc.mode,
                  bitcnt |-> bitcnt, digidx |-> digidx, bitcpy |-> loc.bitcpy,
                  bitbuf |-> loc.bitbuf]
  <2>1. PICK g, x, m, r, mode, n, d, c, b :
          /\ g = loc.G /\ x = loc.X /\ m = loc.M /\ r = loc.res /\ mode = loc.mode
          /\ n = loc.bitcnt /\ d = loc.digidx /\ c = loc.bitcpy /\ b = loc.bitbuf
    BY Zenon
  <2>2. loc = [G |-> g, X |-> x, M |-> m, res |-> r, mode |-> mode,
               bitcnt |-> n, digidx |-> d, bitcpy |-> c, bitbuf |-> b]
    BY <2>1, Zenon
  <2>. DEFINE l == [loc EXCEPT !.bitcnt = bitcnt]
  <2>3. Advanced = [l EXCEPT !.digidx = digidx]
    BY DEF Advanced
  <2>4. l = [G |-> g, X |-> x, M |-> m, res |-> r, mode |-> mode,
             bitcnt |-> bitcnt, digidx |-> d, bitcpy |-> c, bitbuf |-> b]
    BY <2>2
  <2>. HIDE DEF l
  <2>5. Advanced = [G |-> g, X |-> x, M |-> m, res |-> r, mode |-> mode,
                    bitcnt |-> bitcnt, digidx |-> digidx, bitcpy |-> c, bitbuf |-> b]
    BY <2>3, <2>4
  <2>. QED
    BY <2>1, <2>5, Zenon
<1>. DEFINE n == bit * 2 ^ (winsize - (loc.bitcpy + 1))
<1>2. Collected = [Advanced EXCEPT !.bitcpy = @ + 1, !.bitbuf = @ + n, !.mode = 2]
  BY DEF Collected
<1>. HIDE DEF n
<1>3. Collected = [G |-> loc.G, X |-> loc.X, M |-> loc.M, res |-> loc.res, mode |-> 2,
                   bitcnt |-> bitcnt, digidx |-> digidx, bitcpy |-> loc.bitcpy + 1,
                   bitbuf |-> loc.bitbuf + n]
  BY <1>1, <1>2
<1>. QED
  BY <1>1, <1>3 DEF n

LEMMA WindowSkips ==
  ASSUME Ownership, ExptInv, ExptmodInv, window_skip
  PROVE  ExptmodInv'
<1>0. ExptmodStep /\ pc = "window" /\ ~ OutOfDigits /\ loc.mode = 0 /\ bit = 0
        /\ loc' = Advanced /\ pc' = "window" /\ val' = val
  BY DEF ExptmodStep, window_skip, NextBit, Goto
<1>1. /\ fr' = fr /\ loc.G \in Int /\ loc.X \in Nat /\ WindowInv
  BY <1>0, WindowContext
<1>2. PICK u \in Nat : /\ Unread = u + 1
                       /\ ((digidx + 1) * MP_DIGIT_BIT + bitcnt) - 1 = u
                       /\ bit = (loc.X \div 2 ^ u) % 2
  BY <1>0, <1>1, NextBitFacts DEF WindowInv
<1>3. digidx \in Int /\ digidx >= -1 /\ bitcnt \in 1 .. MP_DIGIT_BIT
  BY <1>0, <1>1, NextBitFacts DEF WindowInv
<1>. DEFINE x == loc.X
            w == winsize
            c == loc.bitcpy
<1>4. Reading(w, x, u, c, loc.bitbuf, 0) /\ Gone(x, u + 1, c) = 0 /\ Gone(x, u, c) = 0
  <2>1. Reading(w, x, u + 1, c, loc.bitbuf, 0) /\ w \in Nat /\ 0 \in {0, 1}
    BY <1>0, <1>1, <1>2, WinsizeFacts DEF WindowInv
  <2>2. x \in Nat /\ (x \div 2 ^ u) % 2 = 0
    BY <1>0, <1>1, <1>2
  <2>. HIDE DEF x, w, c
  <2>. QED
    BY <2>1, <2>2, ReadZero
<1>5. Represents(loc.G, Gone(x, u, c), loc.res) /\ InRange(loc.res) /\ TableRight(loc.G, loc.M)
  BY <1>1, <1>2, <1>4 DEF WindowInv
<1>6. loc' = [G |-> loc.G, X |-> loc.X, M |-> loc.M, res |-> loc.res, mode |-> 0,
              bitcnt |-> bitcnt, digidx |-> digidx, bitcpy |-> c, bitbuf |-> loc.bitbuf]
  BY <1>0, <1>1, LocalsReplaced DEF WindowInv
<1>7. WindowInv' /\ loc'.G = loc.G /\ loc'.X = loc.X
  <2>1. 0 \in 0 .. 2
    OBVIOUS
  <2>. HIDE DEF c
  <2>. QED
    BY <1>0, <1>1, <1>2, <1>3, <1>4, <1>5, <1>6, <2>1, WindowAgain
<1>. QED
  BY <1>0, <1>7, WindowContinues

LEMMA WindowSquares ==
  ASSUME Ownership, ExptInv, ExptmodInv, window_square
  PROVE  ExptmodInv'
<1>0. ExptmodStep /\ pc = "window" /\ ~ OutOfDigits /\ loc.mode = 1 /\ bit = 0
  BY DEF ExptmodStep, window_square, NextBit
<1>1. /\ fr' = fr /\ loc.G \in Int /\ loc.X \in Nat /\ WindowInv /\ Modulus \in Nat /\ Modulus > 0
  BY <1>0, WindowContext
<1>2. PICK u \in Nat : /\ Unread = u + 1
                       /\ ((digidx + 1) * MP_DIGIT_BIT + bitcnt) - 1 = u
                       /\ bit = (loc.X \div 2 ^ u) % 2
  BY <1>0, <1>1, NextBitFacts DEF WindowInv
<1>3. digidx \in Int /\ digidx >= -1 /\ bitcnt \in 1 .. MP_DIGIT_BIT
  BY <1>0, <1>1, NextBitFacts DEF WindowInv
<1>. DEFINE x == loc.X
            w == winsize
            c == loc.bitcpy
            r == Squared(loc.res, 1)
<1>4. Reading(w, x, u, c, loc.bitbuf, 1) /\ Gone(x, u + 1, c) \in Nat
        /\ Gone(x, u, c) = 2 * Gone(x, u + 1, c)
  <2>1. Reading(w, x, u + 1, c, loc.bitbuf, 1) /\ w \in Nat /\ 1 \in {0, 1}
    BY <1>0, <1>1, <1>2, WinsizeFacts DEF WindowInv
  <2>2. x \in Nat /\ (x \div 2 ^ u) % 2 = 0
    BY <1>0, <1>1, <1>2
  <2>. HIDE DEF x, w, c
  <2>. QED
    BY <2>1, <2>2, ReadZero
<1>5. Represents(loc.G, Gone(x, u, c), r) /\ InRange(r) /\ TableRight(loc.G, loc.M)
  <2>1. Represents(loc.G, Gone(x, u + 1, c), loc.res) /\ TableRight(loc.G, loc.M)
    BY <1>1, <1>2 DEF WindowInv
  <2>2. Represents(loc.G, 2 * Gone(x, u + 1, c), r) /\ r \in 0 .. Modulus - 1
    <3>. DEFINE e == Gone(x, u + 1, c)
    <3>1. e \in Nat /\ Represents(loc.G, e, loc.res)
      BY <1>4, <2>1
    <3>. HIDE DEF e
    <3>2. Represents(loc.G, 2 * e, r) /\ r \in 0 .. Modulus - 1
      BY <1>1, <3>1, OneBitMore
    <3>. QED
      BY <3>2 DEF e
  <2>. QED
    BY <1>4, <2>1, <2>2 DEF InRange
<1>6. CASE Refuse("MEM", LBL_RES \cup Tmps)
  BY <1>0, <1>6, WindowFails
<1>7. CASE loc' = [Advanced EXCEPT !.res = Squared(@, 1)] /\ pc' = "window" /\ val' = val
  <2>1. Advanced = [G |-> loc.G, X |-> loc.X, M |-> loc.M, res |-> loc.res, mode |-> loc.mode,
                        bitcnt |-> bitcnt, digidx |-> digidx, bitcpy |-> loc.bitcpy,
                        bitbuf |-> loc.bitbuf]
    BY <1>1, LocalsReplaced DEF WindowInv
  <2>2. loc' = [G |-> loc.G, X |-> loc.X, M |-> loc.M, res |-> r, mode |-> 1,
                bitcnt |-> bitcnt, digidx |-> digidx, bitcpy |-> c, bitbuf |-> loc.bitbuf]
    BY <1>0, <1>7, <2>1
  <2>3. WindowInv' /\ loc'.G = loc.G /\ loc'.X = loc.X
    <3>1. 1 \in 0 .. 2
      OBVIOUS
    <3>. HIDE DEF c, r
    <3>. QED
      BY <1>1, <1>2, <1>3, <1>4, <1>5, <1>7, <2>2, <3>1, WindowAgain
  <2>. QED
    BY <1>0, <1>7, <2>3, WindowContinues
<1>. QED
  BY <1>6, <1>7 DEF window_square, Goto

(* A bit goes to the window, c + 1 bits in it then.                        *)
LEMMA BitCollects ==
  ASSUME Modulus \in Nat, Modulus > 0, loc.X \in Nat, WindowInv, Collects
  PROVE  /\ digidx \in Int /\ digidx >= -1 /\ bitcnt \in 1 .. MP_DIGIT_BIT
         /\ loc.bitcpy \in Nat /\ loc.bitcpy < winsize
         /\ \E u \in Nat :
              /\ ((digidx + 1) * MP_DIGIT_BIT + bitcnt) - 1 = u
              /\ loc.X \div 2 ^ u # 0
              /\ Low(loc.X, u, loc.bitcpy + 1) \in Nat
              /\ 2 ^ loc.bitcpy <= Low(loc.X, u, loc.bitcpy + 1)
              /\ Low(loc.X, u, loc.bitcpy + 1) < 2 ^ (loc.bitcpy + 1)
              /\ Collected.bitbuf
                   = Low(loc.X, u, loc.bitcpy + 1) * 2 ^ (winsize - (loc.bitcpy + 1))
              /\ Represents(loc.G, Gone(loc.X, u, loc.bitcpy + 1), loc.res)
<1>1. ~ OutOfDigits /\ (loc.mode = 2 \/ bit = 1)
  BY DEF Collects, NextBit
<1>2. PICK u \in Nat : /\ Unread = u + 1
                       /\ ((digidx + 1) * MP_DIGIT_BIT + bitcnt) - 1 = u
                       /\ bit = (loc.X \div 2 ^ u) % 2
  BY <1>1, NextBitFacts DEF WindowInv
<1>3. digidx \in Int /\ digidx >= -1 /\ bitcnt \in 1 .. MP_DIGIT_BIT
  BY <1>1, NextBitFacts DEF WindowInv
<1>4. PICK w \in Nat, x \in Nat, c \in Nat : w = winsize /\ x = loc.X /\ c = loc.bitcpy
  BY WinsizeFacts DEF WindowInv, Reading
<1>5. Reading(w, x, u + 1, c, loc.bitbuf, loc.mode) /\ c < w
  BY <1>2, <1>4 DEF WindowInv, Reading
<1>6. /\ Low(x, u, c + 1) \in Nat
      /\ 2 ^ c <= Low(x, u, c + 1) /\ Low(x, u, c + 1) < 2 ^ (c + 1)
      /\ loc.bitbuf + ((x \div 2 ^ u) % 2) * 2 ^ (w - (c + 1)) = Low(x, u, c + 1) * 2 ^ (w - (c + 1))
      /\ x \div 2 ^ u # 0
      /\ Gone(x, u, c + 1) = Gone(x, u + 1, c)
  <2>1. Taken(x, u, loc.mode)
    BY <1>1, <1>2, <1>4 DEF Taken
  <2>2. BitTaken(w, x, u, c, loc.bitbuf)
    BY <1>5, <2>1, ReadBit
  <2>. QED
    BY <2>2 DEF BitTaken
<1>7. Collected.bitbuf = loc.bitbuf + bit * 2 ^ (winsize - (loc.bitcpy + 1))
  <2>. DEFINE n == loc.bitbuf + bit * 2 ^ (winsize - (loc.bitcpy + 1))
  <2>1. Collected = [G |-> loc.G, X |-> loc.X, M |-> loc.M, res |-> loc.res, mode |-> 2,
                     bitcnt |-> bitcnt, digidx |-> digidx, bitcpy |-> loc.bitcpy + 1,
                     bitbuf |-> n]
    BY LocalsReplaced DEF WindowInv
  <2>. HIDE DEF n
  <2>2. Collected.bitbuf = n
    BY <2>1
  <2>. QED
    BY <2>2 DEF n
<1>8. Collected.bitbuf = Low(x, u, c + 1) * 2 ^ (w - (c + 1))
  BY <1>2, <1>4, <1>6, <1>7
<1>9. Represents(loc.G, Gone(x, u, c + 1), loc.res)
  BY <1>2, <1>4, <1>6 DEF WindowInv
<1>. QED
  BY <1>2, <1>3, <1>4, <1>5, <1>6, <1>8, <1>9

LEMMA WindowCollects ==
  ASSUME Ownership, ExptInv, ExptmodInv, window_collect
  PROVE  ExptmodInv'
<1>0. ExptmodStep /\ pc = "window" /\ Collects /\ loc.bitcpy + 1 < winsize
        /\ loc' = Collected /\ pc' = "window" /\ val' = val
  BY DEF ExptmodStep, window_collect, Collects, NextBit, Goto
<1>1. /\ fr' = fr /\ loc.G \in Int /\ loc.X \in Nat /\ WindowInv /\ Modulus \in Nat /\ Modulus > 0
  BY <1>0, WindowContext
<1>2. /\ digidx \in Int /\ digidx >= -1 /\ bitcnt \in 1 .. MP_DIGIT_BIT
      /\ loc.bitcpy \in Nat /\ loc.bitcpy < winsize
  BY <1>0, <1>1, BitCollects
<1>. DEFINE n == loc.bitcpy + 1
            b == Collected.bitbuf
<1>3. PICK u \in Nat :
        /\ ((digidx + 1) * MP_DIGIT_BIT + bitcnt) - 1 = u
        /\ loc.X \div 2 ^ u # 0
        /\ 2 ^ loc.bitcpy <= Low(loc.X, u, n)
        /\ b = Low(loc.X, u, n) * 2 ^ (winsize - n)
        /\ Represents(loc.G, Gone(loc.X, u, n), loc.res)
  BY <1>0, <1>1, BitCollects
<1>4. Reading(winsize, loc.X, u, n, b, 2)
  <2>1. n \in Nat /\ n < winsize /\ n > 0 /\ n - 1 = loc.bitcpy /\ 2 # 0
    BY <1>0, <1>2
  <2>. HIDE DEF n, b
  <2>. QED
    BY <1>3, <2>1 DEF Reading
<1>5. loc' = [G |-> loc.G, X |-> loc.X, M |-> loc.M, res |-> loc.res, mode |-> 2,
              bitcnt |-> bitcnt, digidx |-> digidx, bitcpy |-> n, bitbuf |-> b]
  <2>. DEFINE m == loc.bitbuf + bit * 2 ^ (winsize - (loc.bitcpy + 1))
  <2>1. Collected = [G |-> loc.G, X |-> loc.X, M |-> loc.M, res |-> loc.res, mode |-> 2,
                     bitcnt |-> bitcnt, digidx |-> digidx, bitcpy |-> n, bitbuf |-> m]
    BY <1>1, LocalsReplaced DEF WindowInv
  <2>. HIDE DEF m, n
  <2>2. b = m
    BY <2>1
  <2>. HIDE DEF b
  <2>. QED
    BY <1>0, <2>1, <2>2
<1>6. InRange(loc.res) /\ TableRight(loc.G, loc.M)
  BY <1>1 DEF WindowInv
<1>7. WindowInv' /\ loc'.G = loc.G /\ loc'.X = loc.X
  <2>1. 2 \in 0 .. 2
    OBVIOUS
  <2>. HIDE DEF n, b
  <2>. QED
    BY <1>0, <1>1, <1>2, <1>3, <1>4, <1>5, <1>6, <2>1, WindowAgain
<1>. QED
  BY <1>0, <1>7, WindowContinues

(* A full window counts for as many squarings, and for a cell of the table.*)
LEMMA WindowUsed ==
  ASSUME Modulus \in Nat, Modulus > 0, NEW g \in Int, NEW M, TableRight(g, M), NEW y,
         NEW x \in Nat, NEW u \in Nat, NEW c \in Nat, c + 1 = winsize,
         2 ^ c <= Low(x, u, c + 1), Low(x, u, c + 1) < 2 ^ (c + 1), Low(x, u, c + 1) \in Nat,
         Represents(g, Gone(x, u, c + 1), y)
  PROVE  /\ Represents(g, Gone(x, u, 0), redux(Squared(y, winsize) * M[Low(x, u, c + 1)]))
         /\ redux(Squared(y, winsize) * M[Low(x, u, c + 1)]) \in 0 .. Modulus - 1
<1>. DEFINE w == c + 1
            b == Low(x, u, w)
            e == Gone(x, u, w)
            m == x \div 2 ^ u
            t == 2 ^ w
            s == 2 ^ u
<1>1. w = winsize /\ w \in Nat /\ winsize - 1 = c
  OBVIOUS
<1>2. /\ s \in Nat /\ s > 0 /\ t \in Nat /\ t > 0
      /\ 2 ^ (u + w) = s * t /\ t = 2 ^ c * 2 /\ 2 ^ c \in Nat
  <2>1. t = 2 ^ c * 2 /\ 2 ^ c \in Nat
    BY TwoTo
  <2>. HIDE DEF w
  <2>2. s \in Nat /\ s > 0 /\ t \in Nat /\ t > 0
    BY <1>1, TwoTo
  <2>3. 2 ^ (u + w) = s * t
    BY <1>1, TwoToSum
  <2>. QED
    BY <2>1, <2>2, <2>3
<1>3. m \in Nat
  BY NextBitRead
<1>4. b \in Nat /\ 2 ^ c <= b /\ b < t /\ b = m % t /\ e = x \div (s * t)
  BY <1>2 DEF Low, LowBits, Gone
<1>5. e = m \div t
  <2>1. e = x \div (s * t) /\ s \in Nat /\ s > 0 /\ t \in Nat /\ t > 0
    BY <1>2, <1>4
  <2>. HIDE DEF s, t, e
  <2>2. x \div (s * t) = (x \div s) \div t
    BY <2>1, DivTwice
  <2>. QED
    BY <2>1, <2>2 DEF s
<1>6. e \in Nat /\ m = e * t + b
  <2>. HIDE DEF m, t, e, b
  <2>1. m = t * (m \div t) + (m % t) /\ m \div t \in Nat
    BY <1>2, <1>3, Division, Greatest
  <2>2. t * e = e * t
    BY <1>2, <1>5, <2>1
  <2>. QED
    BY <1>4, <1>5, <2>1, <2>2
<1>7. b \in Upper
  <2>1. Half = 2 ^ c
    BY <1>1 DEF Half
  <2>. HIDE DEF b, t
  <2>. QED
    BY <1>2, <1>4, <2>1 DEF Upper
<1>8. Represents(g, b, M[b])
  BY <1>7 DEF TableRight
<1>9. Represents(g, e * t, Squared(y, w)) /\ e * t \in Nat
  <2>1. Represents(g, e, y)
    OBVIOUS
  <2>. HIDE DEF e, w
  <2>. QED
    BY <1>1, <1>6, <2>1, SquaredRepresents DEF t
<1>10. /\ Represents(g, e * t + b, redux(Squared(y, w) * M[b]))
       /\ redux(Squared(y, w) * M[b]) \in 0 .. Modulus - 1
  <2>. HIDE DEF e, t, b, w
  <2>. DEFINE k == e * t
  <2>1. k \in Nat /\ Represents(g, k, Squared(y, w))
    BY <1>9
  <2>. HIDE DEF k
  <2>2. /\ Represents(g, k + b, redux(Squared(y, w) * M[b]))
        /\ redux(Squared(y, w) * M[b]) \in 0 .. Modulus - 1
    BY <1>4, <1>8, <2>1, ReduxMultiplies
  <2>. QED
    BY <2>2 DEF k
<1>11. Gone(x, u, 0) = m
  <2>1. u + 0 = u
    OBVIOUS
  <2>. QED
    BY <2>1 DEF Gone
<1>. QED
  BY <1>1, <1>6, <1>10, <1>11

LEMMA WindowFull ==
  ASSUME Ownership, ExptInv, ExptmodInv, window_full
  PROVE  ExptmodInv'
<1>0. ExptmodStep /\ pc = "window" /\ Collects /\ loc.bitcpy + 1 = winsize
  BY DEF ExptmodStep, window_full, Collects, NextBit
<1>1. /\ fr' = fr /\ loc.G \in Int /\ loc.X \in Nat /\ WindowInv /\ Modulus \in Nat /\ Modulus > 0
  BY <1>0, WindowContext
<1>2. /\ digidx \in Int /\ digidx >= -1 /\ bitcnt \in 1 .. MP_DIGIT_BIT
      /\ loc.bitcpy \in Nat /\ loc.bitcpy < winsize
  BY <1>0, <1>1, BitCollects
<1>3. PICK c \in Nat, w \in Nat, x \in Nat, g \in Int :
        c = loc.bitcpy /\ w = winsize /\ x = loc.X /\ g = loc.G /\ c + 1 = w
  BY <1>0, <1>1, <1>2, WinsizeFacts
<1>4. PICK u \in Nat :
        /\ ((digidx + 1) * MP_DIGIT_BIT + bitcnt) - 1 = u
        /\ x \div 2 ^ u # 0
        /\ Low(x, u, c + 1) \in Nat
        /\ 2 ^ c <= Low(x, u, c + 1) /\ Low(x, u, c + 1) < 2 ^ (c + 1)
        /\ Collected.bitbuf = Low(x, u, c + 1) * 2 ^ (w - (c + 1))
        /\ Represents(g, Gone(x, u, c + 1), loc.res)
  BY <1>0, <1>1, <1>3, BitCollects
<1>. DEFINE b == Low(x, u, c + 1)
            y == redux(Squared(loc.res, winsize) * loc.M[b])
<1>5. Collected.bitbuf = b
  <2>1. w - (c + 1) = 0 /\ 2 ^ 0 = 1
    BY <1>3, TwoTo
  <2>2. Collected.bitbuf = b * 1 /\ b \in Nat
    BY <1>4, <2>1
  <2>. HIDE DEF b
  <2>. QED
    BY <2>2
<1>6. Represents(g, Gone(x, u, 0), y) /\ y \in 0 .. Modulus - 1
  <2>1. TableRight(g, loc.M) /\ c + 1 = winsize
    BY <1>1, <1>3 DEF WindowInv
  <2>. QED
    BY <1>1, <1>4, <2>1, WindowUsed
<1>7. Reading(w, x, u, 0, 0, 1)
  <2>1. Low(x, u, 0) = 0
    <3>1. 2 ^ 0 = 1 /\ x \div 2 ^ u \in Nat
      BY TwoTo, NextBitRead
    <3>2. Low(x, u, 0) = (x \div 2 ^ u) % 1
      BY <3>1 DEF Low, LowBits
    <3>3. \A n \in Nat : n % 1 = 0
      OBVIOUS
    <3>. QED
      BY <3>1, <3>2, <3>3
  <2>2. 0 = 0 * 2 ^ (w - 0)
    <3>1. w - 0 = w /\ 2 ^ w \in Nat
      BY TwoTo
    <3>2. \A n \in Nat : 0 = 0 * n
      OBVIOUS
    <3>. QED
      BY <3>1, <3>2
  <2>3. 0 \in Nat /\ 0 < w /\ ~ (0 > 0) /\ 1 # 2 /\ 1 # 0
    BY <1>3
  <2>. QED
    BY <1>4, <2>1, <2>2, <2>3 DEF Reading
<1>8. CASE Refuse("MEM", LBL_RES \cup Tmps)
  BY <1>0, <1>8, WindowFails
<1>9. CASE /\ loc' = [Collected EXCEPT !.res = redux(Squared(@, winsize) * loc.M[Collected.bitbuf]),
                                    !.bitcpy = 0, !.bitbuf = 0, !.mode = 1]
           /\ pc' = "window" /\ val' = val
  <2>. DEFINE n == loc.bitbuf + bit * 2 ^ (winsize - (loc.bitcpy + 1))
              k == loc.bitcpy + 1
  <2>1. Collected = [G |-> loc.G, X |-> loc.X, M |-> loc.M, res |-> loc.res, mode |-> 2,
                     bitcnt |-> bitcnt, digidx |-> digidx, bitcpy |-> k,
                     bitbuf |-> n]
    BY <1>1, LocalsReplaced DEF WindowInv
  <2>. HIDE DEF n, k
  <2>2. Collected.res = loc.res
    BY <2>1
  <2>. DEFINE l == Collected
              l1 == [l EXCEPT !.res = y]
              l2 == [l1 EXCEPT !.bitcpy = 0]
              l3 == [l2 EXCEPT !.bitbuf = 0]
              l4 == [l3 EXCEPT !.mode = 1]
              z == redux(Squared(l.res, winsize) * loc.M[l.bitbuf])
  <2>3. z = y
    BY <1>5, <2>2
  <2>4. loc' = [l EXCEPT !.res = z, !.bitcpy = 0, !.bitbuf = 0, !.mode = 1]
    BY <1>9
  <2>. HIDE DEF l, y, z
  <2>5. loc' = l4
    BY <2>3, <2>4
  <2>6. l1 = [G |-> loc.G, X |-> loc.X, M |-> loc.M, res |-> y, mode |-> 2,
              bitcnt |-> bitcnt, digidx |-> digidx, bitcpy |-> k, bitbuf |-> n]
    BY <2>1 DEF l
  <2>. HIDE DEF l1
  <2>7. l2 = [G |-> loc.G, X |-> loc.X, M |-> loc.M, res |-> y, mode |-> 2,
              bitcnt |-> bitcnt, digidx |-> digidx, bitcpy |-> 0, bitbuf |-> n]
    BY <2>6
  <2>. HIDE DEF l2
  <2>8. l3 = [G |-> loc.G, X |-> loc.X, M |-> loc.M, res |-> y, mode |-> 2,
              bitcnt |-> bitcnt, digidx |-> digidx, bitcpy |-> 0, bitbuf |-> 0]
    BY <2>7
  <2>. HIDE DEF l3
  <2>9. l4 = [G |-> loc.G, X |-> loc.X, M |-> loc.M, res |-> y, mode |-> 1,
              bitcnt |-> bitcnt, digidx |-> digidx, bitcpy |-> 0, bitbuf |-> 0]
    BY <2>8
  <2>. HIDE DEF l4
  <2>10. /\ TableRight(loc.G, loc.M) /\ Reading(winsize, loc.X, u, 0, 0, 1)
         /\ Represents(loc.G, Gone(loc.X, u, 0), y) /\ InRange(y) /\ 1 \in 0 .. 2
    BY <1>1, <1>3, <1>6, <1>7 DEF WindowInv, InRange
  <2>11. WindowInv' /\ loc'.G = loc.G /\ loc'.X = loc.X
    BY <1>1, <1>2, <1>4, <1>9, <2>5, <2>9, <2>10, WindowAgain
  <2>. QED
    BY <1>0, <1>9, <2>11, WindowContinues
<1>. QED
  BY <1>8, <1>9 DEF window_full, Goto

LEMMA WindowRest ==
  ASSUME Ownership, ExptInv, ExptmodInv, window_rest
  PROVE  ExptmodInv'
<1>0. ExptmodStep /\ pc = "window" /\ OutOfDigits
  BY DEF ExptmodStep, window_rest
<1>1. /\ fr.op = "exptmod" /\ fr' = fr /\ old' = old /\ val = old /\ val \in [Ints -> Int]
      /\ Modulus \in Nat /\ Modulus > 0 /\ Reduction # "none"
      /\ Started /\ loc.G \in Int /\ loc.X \in Nat /\ WindowInv
  BY <1>0, WindowContext
<1>2. Unread = 0
  <2>1. loc.bitcnt = 1 /\ loc.digidx = -1
    BY <1>0 DEF OutOfDigits
  <2>2. (-1 + 1) * MP_DIGIT_BIT = 0
    BY DigitBitAssumption
  <2>. QED
    BY <2>1, <2>2 DEF Unread
<1>3. Represents(loc.G, loc.X, RestResult) /\ InRange(RestResult)
  <2>1. /\ TableRight(loc.G, loc.M)
        /\ Reading(winsize, loc.X, 0, loc.bitcpy, loc.bitbuf, loc.mode)
        /\ Represents(loc.G, Gone(loc.X, 0, loc.bitcpy), loc.res) /\ InRange(loc.res)
    BY <1>1, <1>2 DEF WindowInv
  <2>. QED
    BY <1>1, <2>1, RestWorked
<1>4. CASE Refuse("MEM", LBL_RES \cup Tmps)
  BY <1>0, <1>4, WindowFails
<1>5. CASE loc' = [loc EXCEPT !.res = RestResult] /\ pc' = "exptmod_end" /\ val' = val
  <2>. DEFINE y == RestResult
  <2>. HIDE DEF y
  <2>1. loc' = [loc EXCEPT !.res = y]
    BY <1>5 DEF y
  <2>2. loc'.G = loc.G /\ loc'.X = loc.X /\ loc'.res = y
    BY <1>1, <2>1 DEF WindowInv
  <2>3. Modulus' = Modulus /\ Reduction' = Reduction /\ A' = A /\ Exponent' = Exponent /\ Unit' = Unit
    BY <1>1, <1>5, SameModulus
  <2>4. Started'
    BY <1>1, <2>2, <2>3 DEF Started
  <2>5. Represents(loc.G, loc.X, y) /\ InRange(y)
    BY <1>3 DEF y
  <2>6. Represents(loc.G, loc.X, loc.res)' /\ InRange(loc.res)'
    BY <2>2, <2>3, <2>5 DEF Represents, InRange
  <2>. QED
    BY <1>1, <1>5, <2>3, <2>4, <2>6 DEF ExptmodInv, ExptmodPcs
<1>6. \/ Refuse("MEM", LBL_RES \cup Tmps)
      \/ loc' = [loc EXCEPT !.res = RestResult] /\ Goto("exptmod_end")
  BY DEF window_rest, RestResult
<1>. QED
  BY <1>4, <1>5, <1>6 DEF Goto

-----------------------------------------------------------------------------
LEMMA ExptmodInvKept ==
  ASSUME Ownership, ExptInv, ExptmodInv, PowerNext
  PROVE  ExptmodInv'
<1>1. CASE mp_expt_n \/ expt_round \/ expt_end
  <2>1. fr.op \in PowerOps /\ fr' = fr
    BY StepsAtHome
  <2>2. pc \in {"expt", "expt_loop"}
    BY <1>1 DEF mp_expt_n, expt_round, expt_end
  <2>3. fr.op = "expt"
    BY <2>1, <2>2 DEF ExptInv
  <2>. QED
    BY <2>1, <2>3 DEF ExptmodInv
<1>2. CASE exptmod_refused \/ exptmod_positive \/ exptmod_negative
  BY <1>2, ExptmodStarts
<1>3. CASE exptmod_init
  BY <1>3, ExptmodChooses
<1>4. CASE exptmod_table
  BY <1>4, ExptmodTable
<1>5. CASE window_skip
  BY <1>5, WindowSkips
<1>6. CASE window_square
  BY <1>6, WindowSquares
<1>7. CASE window_collect
  BY <1>7, WindowCollects
<1>8. CASE window_full
  BY <1>8, WindowFull
<1>9. CASE window_rest
  BY <1>9, WindowRest
<1>10. CASE exptmod_end
  BY <1>10, ExptmodEnds
<1>. QED
  BY <1>1, <1>2, <1>3, <1>4, <1>5, <1>6, <1>7, <1>8, <1>9, <1>10 DEF PowerNext

LEMMA ExptmodInvInductive ==
  ASSUME Ownership, ExptInv, ExptmodInv, [Next]_vars
  PROVE  ExptmodInv'
<1>1. CASE PowerNext
  BY <1>1, ExptmodInvKept
<1>2. CASE GcdNext \/ DivNext \/ RootNext \/ InverseNext \/ ResidueNext
  <2>1. fr'.op \notin PowerOps
    BY <1>2, StepsAtHome DEF GcdOps, DivOps, RootOps, InverseOps, PowerOps, ResidueOps
  <2>. QED
    BY <2>1 DEF ExptmodInv, PowerOps
<1>3. CASE UNCHANGED vars
  <2>1. val' = val /\ loc' = loc /\ pc' = pc /\ fr' = fr /\ err' = err /\ old' = old
    BY <1>3 DEF vars
  <2>2. Modulus' = Modulus /\ Reduction' = Reduction /\ A' = A /\ Exponent' = Exponent /\ Unit' = Unit
    BY <2>1, SameModulus
  <2>3. winsize' = winsize /\ Upper' = Upper /\ Unread' = Unread
    BY <2>1 DEF winsize, Upper, Half, Unread
  <2>4. Started' <=> Started
    BY <2>1, <2>2 DEF Started
  <2>5. WindowInv => WindowInv'
    <3>1. TableRight(loc.G, loc.M) => TableRight(loc.G, loc.M)'
      BY <2>1, <2>2, <2>3 DEF TableRight, Represents
    <3>2. Reading(winsize, loc.X, Unread, loc.bitcpy, loc.bitbuf, loc.mode)
            => Reading(winsize, loc.X, Unread, loc.bitcpy, loc.bitbuf, loc.mode)'
      BY <2>1, <2>3 DEF Reading, Low
    <3>3. Represents(loc.G, Gone(loc.X, Unread, loc.bitcpy), loc.res)
            => Represents(loc.G, Gone(loc.X, Unread, loc.bitcpy), loc.res)'
      BY <2>1, <2>2, <2>3 DEF Represents, Gone
    <3>4. InRange(loc.res) => InRange(loc.res)'
      BY <2>1, <2>2 DEF InRange
    <3>. QED
      BY <2>1, <3>1, <3>2, <3>3, <3>4 DEF WindowInv
  <2>6. Represents(loc.G, loc.X, loc.res) /\ InRange(loc.res)
          => Represents(loc.G, loc.X, loc.res)' /\ InRange(loc.res)'
    BY <2>1, <2>2 DEF Represents, InRange
  <2>7. ExptmodCorrect' <=> ExptmodCorrect
    BY <2>1 DEF ExptmodCorrect, Succeeded, Done
  <2>. QED
    BY <2>1, <2>2, <2>4, <2>5, <2>6, <2>7 DEF ExptmodInv
<1>. QED
  BY <1>1, <1>2, <1>3 DEF Next

LEMMA ExptmodInvInit ==
  ASSUME Init
  PROVE  ExptmodInv
<1>1. fr \in Frames /\ val \in Contents(fr) /\ old = val /\ pc = fr.op
  BY DEF Init
<1>2. val \in [Ints -> Int]
  BY <1>1, ContentsAssumption
<1>. QED
  BY <1>1, <1>2 DEF ExptmodInv, ExptmodPcs

LEMMA ExptmodKept == Spec => []ExptmodInv
<1>1. Init => ExptmodInv
  BY ExptmodInvInit
<1>2. Ownership /\ ExptInv /\ ExptmodInv /\ [Next]_vars => ExptmodInv'
  BY ExptmodInvInductive
<1>. QED
  BY <1>1, <1>2, Owned, ExptKept, PTL DEF Spec

(* mp_expt_n and mp_exptmod leave the power: mp_exptmod a number below the *)
(* modulus, or one, that is congruent to it or, for a negative exponent,   *)
(* to the inverse of it, by whichever reduction and window; and it refuses *)
(* just what has no answer or no reduction.                                *)
THEOREM Exponents == Spec => []PowersCorrect
<1>1. Ownership /\ ExptmodInv => ExptmodCorrect
  <2>. SUFFICES ASSUME Ownership, ExptmodInv PROVE ExptmodCorrect
    OBVIOUS
  <2>1. CASE Done("exptmod")
    BY <2>1 DEF ExptmodInv, Done
  <2>2. CASE ~ Done("exptmod")
    BY <2>2 DEF ExptmodCorrect, Succeeded, Done
  <2>. QED
    BY <2>1, <2>2
<1>. QED
  BY <1>1, Owned, ExptmodKept, Powers, PTL DEF PowersCorrect

(* Whatever is left of the exponent, the result has the power for what is  *)
(* gone, and the window the bits that follow.                              *)
THEOREM PowerLoops == Spec => []PowersLoopInvariant
<1>1. Ownership /\ ExptInv /\ ExptmodInv => PowersLoopInvariant
  <2>. SUFFICES ASSUME Ownership, ExptInv, ExptmodInv, pc = "window" PROVE PowersLoopInvariant
    BY DEF PowersLoopInvariant
  <2>1. fr.op = "exptmod"
    <3>1. fr.op \in GcdOps \cup DivOps \cup RootOps \cup InverseOps \cup PowerOps \cup ResidueOps
      BY Operations DEF Ownership
    <3>2. fr.op \notin GcdOps /\ fr.op \notin DivOps
      BY DEF Ownership, GcdOwns, DivOwns, SchoolPcs
    <3>3. fr.op \notin InverseOps /\ fr.op \notin RootOps /\ fr.op \notin ResidueOps
      BY DEF Ownership, InverseOwns, InvPcs, RootOwns, ResidueOwns
    <3>4. fr.op # "expt"
      BY DEF ExptInv, PowerOps
    <3>. QED
      BY <3>1, <3>2, <3>3, <3>4 DEF PowerOps
  <2>2. /\ Modulus \in Nat /\ Modulus > 0 /\ loc.G \in Int /\ loc.X \in Nat /\ WindowInv
    <3>1. fr.P \in Ints /\ val \in [Ints -> Int]
      BY <2>1, ExptmodFrame DEF Ownership, ExptmodInv
    <3>2. Modulus \in Int /\ Modulus > 0 /\ Started /\ WindowInv
      BY <2>1, <3>1 DEF ExptmodInv, ExptmodPcs, Modulus
    <3>. QED
      BY <3>2 DEF Started
  <2>3. PICK u \in Nat : u = Unread /\ (loc.digidx + 1) * MP_DIGIT_BIT + loc.bitcnt - 1 = u
    <3>. DEFINE L == MP_DIGIT_BIT
                m == (loc.digidx + 1) * L
    <3>1. L \in Nat /\ L > 1
      BY DigitBitAssumption
    <3>2. /\ loc.digidx + 1 \in Nat /\ loc.bitcnt - 1 \in Nat /\ loc.bitcnt \in Nat
      BY <2>2, <3>1 DEF WindowInv
    <3>3. m \in Nat
      BY <3>1, <3>2
    <3>4. (m + loc.bitcnt) - 1 = Unread
      BY DEF Unread
    <3>. HIDE DEF m
    <3>5. m + loc.bitcnt - 1 \in Nat /\ m + loc.bitcnt - 1 = (m + loc.bitcnt) - 1
      BY <3>2, <3>3
    <3>. QED
      BY <3>4, <3>5 DEF m
  <2>4. PICK c \in Nat, w \in Nat, x \in Nat, g \in Int, p \in Nat :
          c = loc.bitcpy /\ w = winsize /\ x = loc.X /\ g = loc.G /\ p = Modulus /\ p > 0
    BY <2>2, WinsizeFacts DEF WindowInv, Reading
  <2>5. Reading(w, x, u, c, loc.bitbuf, loc.mode) /\ Represents(g, Gone(x, u, c), loc.res)
    BY <2>2, <2>3, <2>4 DEF WindowInv
  <2>. DEFINE e == Gone(x, u, c)
              y == PowMod(g, e, p)
              a == Power(g, e)
              n == loc.res
  <2>6. Congruent(p, n, y * Unit)
    <3>1. u + c \in Nat
      OBVIOUS
    <3>2. e \in Nat
      BY <3>1, NextBitRead DEF Gone
    <3>. HIDE DEF e
    <3>3. y \in 0 .. p - 1 /\ Congruent(p, y, a) /\ a \in Int
      BY <2>4, <3>2, PowModIsPower, PowerFacts
    <3>4. Unit \in Int /\ n \in Int /\ Congruent(p, n, a * Unit)
      BY <2>2, <2>4, <2>5, ReduxFacts DEF Represents, e
    <3>5. y \in Int
      BY <2>4, <3>3
    <3>. HIDE DEF y, a, n
    <3>6. Congruent(p, a, y) /\ Congruent(p, Unit, Unit)
      BY <2>4, <3>3, <3>4, <3>5, CongruentSwap, CongruentSame
    <3>7. Congruent(p, a * Unit, y * Unit)
      BY <2>4, <3>3, <3>4, <3>5, <3>6, CongruentProduct
    <3>8. a * Unit \in Int /\ y * Unit \in Int
      BY <3>3, <3>4, <3>5
    <3>. QED
      BY <2>4, <3>4, <3>7, <3>8, CongruentTrans
  <2>7. (n - y * Unit) % p = 0
    BY <2>6 DEF Congruent, Divides
  <2>8. /\ c < w /\ loc.bitbuf = ((x \div 2 ^ u) % 2 ^ c) * 2 ^ (w - c)
        /\ loc.mode = 0 <=> x \div 2 ^ u = 0
        /\ loc.mode = 2 <=> c > 0
    BY <2>5 DEF Reading, Low, LowBits
  <2>9. y = PowMod(loc.G, loc.X \div 2 ^ (u + loc.bitcpy), Modulus)
    BY <2>4 DEF Gone
  <2>10. loc.bitcpy < winsize
    BY <2>4, <2>8
  <2>11. (loc.res - PowMod(loc.G, loc.X \div 2 ^ (u + loc.bitcpy), Modulus) * Unit) % Modulus = 0
    BY <2>4, <2>7, <2>9
  <2>12. /\ loc.bitbuf = ((loc.X \div 2 ^ u) % 2 ^ loc.bitcpy) * 2 ^ (winsize - loc.bitcpy)
         /\ loc.mode = 0 <=> loc.X \div 2 ^ u = 0
         /\ loc.mode = 2 <=> loc.bitcpy > 0
    BY <2>4, <2>8
  <2>. HIDE DEF y
  <2>. QED
    BY <2>3, <2>10, <2>11, <2>12, Zenon DEF PowersLoopInvariant
<1>. QED
  BY <1>1, Owned, ExptKept, ExptmodKept, PTL

-----------------------------------------------------------------------------
(* mp_div divides, by either routine, for every radix and all integers:    *)
(* the digits of a quotient, how close the estimate of one is, and what    *)
(* the loops keep.                                                         *)

LEMMA WeightNatural == \A i \in Nat : Weight(i) \in Nat /\ Weight(i) > 0
BY Weights

(* The sums of the first digits, times their weights.                      *)
Sums(f, q, N) ==
  f[0] = 0 /\ \A k \in 0 .. N - 1 : f[k + 1] = f[k] + q[k] * Weight(k)

LEMMA NumberOfSums ==
  ASSUME NEW N \in Nat, NEW q \in [0 .. N - 1 -> Int]
  PROVE  \E f \in [0 .. N -> Int] : Sums(f, q, N) /\ NumberOf(q) = f[N]
<1>. DEFINE D == 0 .. N
            first == [k \in D |-> 0]
            prev == [k \in D |-> IF k = 0 THEN 0 ELSE k - 1]
            next == [p \in D \X Int |-> IF p[1] = 0 THEN 0 ELSE p[2] + q[p[1] - 1] * Weight(p[1] - 1)]
            P(v) == v = [k \in D |-> IF k = 0 THEN 0 ELSE v[k - 1] + q[k - 1] * Weight(k - 1)]
            v0 == CHOOSE v : P(v)
<1>1. \A k \in D : k # 0 => k - 1 \in D /\ k - 1 \in 0 .. N - 1 /\ q[k - 1] \in Int
                             /\ Weight(k - 1) \in Int /\ q[k - 1] * Weight(k - 1) \in Int
  <2>1. ASSUME NEW k \in D, k # 0
        PROVE  k - 1 \in D /\ k - 1 \in 0 .. N - 1 /\ k - 1 \in Nat
    BY <2>1
  <2>2. ASSUME NEW k \in D, k # 0
        PROVE  q[k - 1] \in Int /\ Weight(k - 1) \in Int
    BY <2>1, <2>2, WeightNatural
  <2>3. \A x, y \in Int : x * y \in Int
    OBVIOUS
  <2>. QED
    BY <2>1, <2>2, <2>3
<1>2. PICK f \in [D -> Int] : SolvesAll(f, D, {0}, first, prev, next)
  <2>1. first \in [D -> Int] /\ prev \in [D -> D]
    OBVIOUS
  <2>2. next \in [D \X Int -> Int]
    <3>1. ASSUME NEW p \in D \X Int
          PROVE  (IF p[1] = 0 THEN 0 ELSE p[2] + q[p[1] - 1] * Weight(p[1] - 1)) \in Int
      <4>1. p[1] \in D /\ p[2] \in Int
        OBVIOUS
      <4>. DEFINE i == p[1]
                  w == q[i - 1] * Weight(i - 1)
      <4>2. i # 0 => w \in Int
        BY <1>1, <4>1
      <4>. HIDE DEF i, w
      <4>3. (IF i = 0 THEN 0 ELSE p[2] + w) \in Int
        BY <4>1, <4>2
      <4>. QED
        BY <4>3 DEF i, w
    <3>. QED
      BY <3>1
  <2>3. Descends(D, {0}, prev)
    BY DEF Descends
  <2>4. D \in SUBSET Nat
    OBVIOUS
  <2>. HIDE DEF D, first, prev, next
  <2>. QED
    BY <2>1, <2>2, <2>3, <2>4, RecursionSolved
<1>3. ASSUME NEW k \in D
      PROVE  f[k] = IF k = 0 THEN 0 ELSE f[k - 1] + q[k - 1] * Weight(k - 1)
  <2>1. CASE k = 0
    BY <1>2, <2>1 DEF SolvesAll
  <2>2. CASE k # 0
    <3>1. prev[k] = k - 1 /\ k - 1 \in D /\ f[k - 1] \in Int
      BY <1>1, <2>2
    <3>2. f[k] = next[<< k, f[k - 1] >>]
      BY <1>2, <2>2, <3>1 DEF SolvesAll
    <3>. QED
      BY <2>2, <3>1, <3>2
  <2>. QED
    BY <2>1, <2>2
<1>4. P(f)
  BY <1>3
<1>5. P(v0)
  <2>. HIDE DEF P
  <2>. QED
    BY <1>4
<1>6. NumberOf(q) = v0[N]
  <2>1. DOMAIN q = 0 .. N - 1 /\ Cardinality(0 .. N - 1) = N
    BY FS_Interval
  <2>. QED
    BY <2>1 DEF NumberOf
<1>. HIDE DEF v0
<1>7. \A k \in D : v0[k] = IF k = 0 THEN 0 ELSE v0[k - 1] + q[k - 1] * Weight(k - 1)
  BY <1>5
<1>. DEFINE S == {k \in Nat : k \in D => v0[k] = f[k]}
<1>8. ASSUME NEW k \in Nat, \A m \in 0 .. k - 1 : m \in S PROVE k \in S
  <2>1. SUFFICES ASSUME k \in D PROVE v0[k] = f[k]
    OBVIOUS
  <2>2. CASE k = 0
    BY <1>3, <1>7, <2>1, <2>2
  <2>3. CASE k # 0
    <3>1. k - 1 \in 0 .. k - 1 /\ k - 1 \in D
      BY <1>1, <2>1, <2>3
    <3>2. v0[k - 1] = f[k - 1]
      BY <1>8, <3>1
    <3>. QED
      BY <1>3, <1>7, <2>1, <2>3, <3>2
  <2>. QED
    BY <2>2, <2>3
<1>9. \A k \in Nat : k \in S
  <2>. HIDE DEF S
  <2>. QED
    BY <1>8, Below
<1>10. NumberOf(q) = f[N]
  BY <1>6, <1>9
<1>11. Sums(f, q, N)
  <2>1. f[0] = 0
    BY <1>3
  <2>2. ASSUME NEW k \in 0 .. N - 1 PROVE f[k + 1] = f[k] + q[k] * Weight(k)
    <3>1. k + 1 \in D /\ k + 1 # 0 /\ (k + 1) - 1 = k
      OBVIOUS
    <3>. QED
      BY <1>3, <3>1
  <2>. QED
    BY <2>1, <2>2 DEF Sums
<1>. QED
  BY <1>10, <1>11

(* A digit that is changed changes the number by so many units.            *)
LEMMA NumberOfChanged ==
  ASSUME NEW N \in Nat, NEW q \in [0 .. N - 1 -> Int], NEW p \in 0 .. N - 1, NEW d \in Int
  PROVE  /\ NumberOf(q) \in Int
         /\ NumberOf([q EXCEPT ![p] = d]) = NumberOf(q) + (d - q[p]) * Weight(p)
<1>. DEFINE r == [q EXCEPT ![p] = d]
            c == (d - q[p]) * Weight(p)
<1>1. r \in [0 .. N - 1 -> Int] /\ r[p] = d /\ \A k \in 0 .. N - 1 : k # p => r[k] = q[k]
  OBVIOUS
<1>2. PICK f \in [0 .. N -> Int] : Sums(f, q, N) /\ NumberOf(q) = f[N]
  BY NumberOfSums
<1>3. PICK g \in [0 .. N -> Int] : Sums(g, r, N) /\ NumberOf(r) = g[N]
  <2>. HIDE DEF r
  <2>. QED
    BY <1>1, NumberOfSums
<1>4. Weight(p) \in Int /\ q[p] \in Int /\ c \in Int /\ d * Weight(p) = q[p] * Weight(p) + c
  <2>. DEFINE w == Weight(p)
              e == q[p]
  <2>1. w \in Int /\ e \in Int
    BY WeightNatural
  <2>. HIDE DEF w, e
  <2>2. (d - e) * w \in Int /\ d * w = e * w + (d - e) * w
    BY <2>1
  <2>. QED
    BY <2>1, <2>2 DEF w, e
<1>. HIDE DEF r, c
<1>. DEFINE S == {k \in Nat : k \in 0 .. N => g[k] = f[k] + (IF k <= p THEN 0 ELSE c)}
<1>5. 0 \in S
  BY <1>2, <1>3 DEF Sums
<1>6. ASSUME NEW k \in Nat, k \in S PROVE k + 1 \in S
  <2>1. SUFFICES ASSUME k + 1 \in 0 .. N
                 PROVE  g[k + 1] = f[k + 1] + (IF k + 1 <= p THEN 0 ELSE c)
    OBVIOUS
  <2>2. k \in 0 .. N /\ k \in 0 .. N - 1
    BY <2>1
  <2>. DEFINE u == q[k] * Weight(k)
              v == r[k] * Weight(k)
  <2>3. /\ g[k] = f[k] + (IF k <= p THEN 0 ELSE c)
        /\ f[k + 1] = f[k] + u /\ g[k + 1] = g[k] + v
        /\ f[k] \in Int /\ g[k] \in Int
    BY <1>2, <1>3, <1>6, <2>2 DEF Sums
  <2>4. u \in Int /\ v \in Int
    <3>1. Weight(k) \in Int /\ q[k] \in Int /\ r[k] \in Int
      <4>1. Weight(k) \in Int
        BY WeightNatural
      <4>2. q[k] \in Int /\ r[k] \in Int
        BY <1>1, <2>2
      <4>. QED
        BY <4>1, <4>2
    <3>. QED
      BY <3>1, IntegerProducts
  <2>5. v = IF k = p THEN u + c ELSE u
    <3>1. CASE k = p
      BY <1>1, <1>4, <3>1
    <3>2. CASE k # p
      BY <1>1, <2>2, <3>2
    <3>. QED
      BY <3>1, <3>2
  <2>. HIDE DEF u, v
  <2>6. f[k + 1] \in Int /\ k \in Int /\ p \in Int /\ c \in Int
    <3>1. f[k + 1] \in Int /\ k \in Int /\ p \in Int
      BY <2>3, <2>4
    <3>. QED
      BY <1>4, <3>1
  <2>7. (k + 1 <= p <=> k <= p /\ k # p) /\ (k = p => k <= p)
    BY <2>6
  <2>8. CASE k <= p
    BY <2>3, <2>4, <2>5, <2>6, <2>7, <2>8
  <2>9. CASE ~ (k <= p)
    BY <2>3, <2>4, <2>5, <2>6, <2>7, <2>9
  <2>. QED
    BY <2>8, <2>9
<1>7. \A k \in Nat : k \in S
  <2>. HIDE DEF S
  <2>. QED
    BY <1>5, <1>6, Successor
<1>8. N \in S /\ N \in 0 .. N /\ ~ (N <= p)
  BY <1>7
<1>9. g[N] = f[N] + c
  BY <1>8
<1>. QED
  BY <1>2, <1>3, <1>9 DEF r, c

LEMMA NumberOfZero ==
  ASSUME NEW N \in Nat, NEW q \in [0 .. N - 1 -> Int], \A k \in 0 .. N - 1 : q[k] = 0
  PROVE  NumberOf(q) = 0
<1>1. PICK f \in [0 .. N -> Int] : Sums(f, q, N) /\ NumberOf(q) = f[N]
  BY NumberOfSums
<1>. DEFINE S == {k \in Nat : k \in 0 .. N => f[k] = 0}
<1>2. 0 \in S
  BY <1>1 DEF Sums
<1>3. ASSUME NEW k \in Nat, k \in S PROVE k + 1 \in S
  <2>1. SUFFICES ASSUME k + 1 \in 0 .. N PROVE f[k + 1] = 0
    OBVIOUS
  <2>2. k \in 0 .. N - 1 /\ k \in 0 .. N
    BY <2>1
  <2>3. Weight(k) \in Int /\ 0 * Weight(k) = 0
    BY WeightNatural, IntegerProducts
  <2>4. f[k + 1] = f[k] + q[k] * Weight(k) /\ q[k] = 0 /\ f[k] = 0
    BY <1>1, <1>3, <2>2 DEF Sums
  <2>. QED
    BY <2>3, <2>4
<1>4. \A k \in Nat : k \in S
  <2>. HIDE DEF S
  <2>. QED
    BY <1>2, <1>3, Successor
<1>5. N \in S /\ N \in 0 .. N
  BY <1>4
<1>. QED
  BY <1>1, <1>5

-----------------------------------------------------------------------------
(* How close the leading digits come to a quotient.                        *)
LEMMA DigitBelow ==
  ASSUME NEW x \in Nat, NEW y \in Nat, NEW w \in Nat, w > 0, NEW p \in Nat, p > 0, NEW k \in Nat,
         k * (y * p) <= x
  PROVE  k * (y \div w) <= x \div (w * p)
<1>. DEFINE e == y \div w
            s == w * p
<1>1. e \in Nat /\ e * w \in Nat /\ e * w <= y
  BY Greatest
<1>. HIDE DEF e
<1>2. s \in Nat /\ s > 0 /\ k * e \in Nat
  BY <1>1
<1>3. (e * w) * p <= y * p /\ (e * w) * p \in Nat /\ y * p \in Nat
  BY <1>1, MonotoneProduct
<1>4. ((e * w) * p) * k <= (y * p) * k
  BY <1>3, MonotoneProduct
<1>5. (k * e) * s = ((e * w) * p) * k /\ (y * p) * k = k * (y * p)
  BY <1>1
<1>6. (k * e) * s <= x
  <2>. DEFINE m == ((e * w) * p) * k
              n == (y * p) * k
  <2>1. m \in Int /\ n \in Int
    BY <1>1
  <2>2. m <= n /\ n <= x /\ (k * e) * s = m
    BY <1>4, <1>5
  <2>. HIDE DEF m, n
  <2>. QED
    BY <2>1, <2>2
<1>. HIDE DEF s
<1>7. k * e <= x \div s
  BY <1>2, <1>6, Greatest
<1>. QED
  BY <1>7 DEF e, s

LEMMA DigitAbove ==
  ASSUME NEW x \in Nat, NEW y \in Nat, NEW w \in Nat, w > 0, NEW p \in Nat, p > 0, NEW k \in Nat,
         k * (y \div w + 1) <= x \div (w * p)
  PROVE  k * (y * p) <= x
<1>. DEFINE e == y \div w + 1
            s == w * p
            f == x \div s
<1>1. e \in Nat /\ y < e * w
  BY Greatest
<1>2. k * e <= f
  OBVIOUS
<1>. HIDE DEF e
<1>3. s \in Nat /\ s > 0
  BY DEF s
<1>. HIDE DEF s
<1>4. f \in Nat /\ f * s \in Nat /\ f * s <= x
  BY <1>3, Greatest
<1>. HIDE DEF f
<1>5. k * e \in Nat /\ (k * e) * s <= f * s
  BY <1>1, <1>2, <1>3, <1>4, MonotoneProduct
<1>6. y <= e * w /\ e * w \in Nat
  BY <1>1
<1>7. y * p <= (e * w) * p /\ y * p \in Nat /\ (e * w) * p \in Nat
  BY <1>6, MonotoneProduct
<1>8. (y * p) * k <= ((e * w) * p) * k
  BY <1>7, MonotoneProduct
<1>9. (k * e) * s = ((e * w) * p) * k /\ (y * p) * k = k * (y * p)
  BY <1>1 DEF s
<1>. DEFINE m == ((e * w) * p) * k
            n == (y * p) * k
            o == f * s
<1>10. m \in Int /\ n \in Int /\ o \in Int
  BY <1>1, <1>4
<1>11. n <= m /\ m <= o /\ o <= x
  BY <1>4, <1>5, <1>8, <1>9
<1>. HIDE DEF m, n, o
<1>12. n <= x
  BY <1>10, <1>11
<1>. QED
  BY <1>9, <1>12 DEF n

(* What the leading digits tell of the digit g of a quotient: d and d2 are *)
(* the first one and the first two of the divisor, x2 and x3 the first two *)
(* and the first three of what is divided.                                 *)
Leads(g, d, d2, x2, x3) ==
  /\ g \in 0 .. MP_MASK /\ d \in Nat /\ d2 \in Nat /\ x2 \in Nat /\ x3 \in Nat
  /\ d > 0 /\ Radix <= 4 * d /\ \E e \in 0 .. MP_MASK : d2 = d * Radix + e
  /\ x2 * Radix <= x3
  /\ g * d <= x2 /\ g * d2 <= x3
  /\ \A k \in Nat : k * (d + 1) <= x2 \/ k * (d2 + 1) <= x3 => k <= g

(* The divisor is y, its leading digit t; the digit of the quotient is at  *)
(* place p, the leading digit of x at i.                                   *)
LEMMA LeadingDigits ==
  ASSUME NEW x \in Nat, NEW y \in Nat, NEW t \in Nat, NEW p \in Nat, NEW i \in Nat,
         i = (t + p) + 1,
         Weight(t) <= y, y < Weight(t + 1), Radix <= 4 * (y \div Weight(t)),
         x < y * Weight(p + 1)
  PROVE  Leads(x \div (y * Weight(p)), Digit(y, t), Digit(y, t) * Radix + Digit(y, t - 1),
               Digit(x, i) * Radix + Digit(x, i - 1),
               (Digit(x, i) * Radix + Digit(x, i - 1)) * Radix + Digit(x, i - 2))
<1>. DEFINE w == Weight(t)
            v == Weight(p)
            s == w * v
            u == y * v
            g == x \div u
            d == y \div w
            d2 == (y * Radix) \div w
            x2 == x \div s
            x3 == (x * Radix) \div s
<1>1. /\ Radix \in Nat /\ Radix >= 4
      /\ w \in Nat /\ w > 0 /\ v \in Nat /\ v > 0 /\ Weight(i - 1) = s
      /\ Weight(p + 1) = v * Radix
      /\ i > 0
  <2>1. i - 1 = t + p
    OBVIOUS
  <2>2. Weight(i - 1) = Weight(t) * Weight(p)
    BY <2>1, WeightSum
  <2>. QED
    BY <2>2, Weights
<1>2. x < Weight(i + 1)
  <2>. DEFINE k == Weight(t + 1)
              l == Weight(p + 1)
  <2>1. k \in Nat /\ l \in Nat /\ l > 0
    BY Weights
  <2>2. t + 1 \in Nat /\ p + 1 \in Nat /\ (t + 1) + (p + 1) = i + 1
    OBVIOUS
  <2>3. Weight(i + 1) = k * l
    <3>1. Weight((t + 1) + (p + 1)) = Weight(t + 1) * Weight(p + 1)
      BY <2>2, WeightSum
    <3>. QED
      BY <2>2, <3>1
  <2>4. y < k /\ x < y * l
    OBVIOUS
  <2>. HIDE DEF k, l
  <2>5. y * l <= k * l /\ y * l \in Nat /\ k * l \in Nat
    BY <2>1, <2>4, MonotoneProduct
  <2>6. x < k * l
    <3>. DEFINE m == y * l
                n == k * l
    <3>1. m \in Nat /\ n \in Nat /\ m <= n /\ x < m
      BY <2>4, <2>5
    <3>. HIDE DEF m, n
    <3>2. x < n
      BY <3>1
    <3>. QED
      BY <3>2 DEF n
  <2>. QED
    BY <2>3, <2>6
<1>3. /\ Digit(y, t) = d
      /\ Digit(y, t) * Radix + Digit(y, t - 1) = d2
      /\ d2 = d * Radix + Digit(y, t - 1) /\ Digit(y, t - 1) \in 0 .. MP_MASK
  <2>1. y < Weight(t + 1)
    OBVIOUS
  <2>2. Digit(y, t) * Radix + Digit(y, t - 1) = (y * Radix) \div Weight(t)
    BY <2>1, TopDigits
  <2>3. Digit(y, t) = y \div Weight(t)
    BY <2>1, Digits
  <2>4. Digit(y, t - 1) \in 0 .. Radix - 1
    <3>1. CASE t = 0
      BY <1>1, <3>1 DEF Digit
    <3>2. CASE t > 0
      <4>1. t - 1 \in Nat
        BY <3>2
      <4>. QED
        BY <4>1, Digits
    <3>. QED
      BY <3>1, <3>2
  <2>. QED
    BY <2>2, <2>3, <2>4 DEF MP_MASK
<1>4. /\ Digit(x, i) * Radix + Digit(x, i - 1) = x2
      /\ (Digit(x, i) * Radix + Digit(x, i - 1)) * Radix + Digit(x, i - 2) = x3
  BY <1>1, <1>2, TopDigits
<1>5. Weight(t) <= y /\ Radix <= 4 * d /\ x < y * (v * Radix)
  BY <1>1
<1>. HIDE DEF w, v
<1>6. /\ s \in Nat /\ s > 0 /\ u \in Nat /\ u > 0 /\ y > 0
      /\ y * Radix \in Nat /\ x * Radix \in Nat
  <2>1. y > 0 /\ w <= y
    BY <1>1, <1>5 DEF w
  <2>. QED
    BY <1>1, <2>1
<1>7. x < Radix * u
  <2>1. y * (v * Radix) = Radix * u
    BY <1>1
  <2>. QED
    BY <1>5, <2>1
<1>. HIDE DEF s, u
<1>8. g \in Nat /\ g * u <= x /\ \A k \in Nat : k * u <= x => k <= g
  BY <1>6, Greatest
<1>9. d \in Nat /\ d2 \in Nat /\ x2 \in Nat /\ x3 \in Nat
  BY <1>1, <1>6, Greatest
<1>10. d > 0
  <2>. HIDE DEF d
  <2>. QED
    BY <1>1, <1>5, <1>9
<1>. HIDE DEF g
<1>11. g \in 0 .. MP_MASK
  <2>1. g * u < Radix * u
    <3>. DEFINE m == g * u
                n == Radix * u
    <3>1. m \in Nat /\ n \in Nat /\ m <= x /\ x < n
      BY <1>1, <1>6, <1>7, <1>8
    <3>. HIDE DEF m, n
    <3>2. m < n
      BY <3>1
    <3>. QED
      BY <3>2 DEF m, n
  <2>2. g < Radix
    BY <1>1, <1>6, <1>8, <2>1, MonotoneProduct
  <2>. QED
    BY <1>1, <1>8, <2>2 DEF MP_MASK
<1>12. g * d <= x2
  BY <1>1, <1>8, DigitBelow DEF u, s
<1>13. g * d2 <= x3
  <2>1. (g * u) * Radix <= x * Radix
    <3>1. g * u \in Nat
      BY <1>6, <1>8
    <3>. QED
      BY <1>1, <1>8, <3>1, MonotoneProduct
  <2>2. g * ((y * Radix) * v) = (g * u) * Radix
    BY <1>1, <1>8 DEF u
  <2>3. g * ((y * Radix) * v) <= x * Radix
    BY <2>1, <2>2
  <2>. QED
    BY <1>1, <1>6, <1>8, <2>3, DigitBelow DEF s
<1>14. ASSUME NEW k \in Nat, k * (d + 1) <= x2 PROVE k <= g
  <2>1. k * (y * v) <= x
    BY <1>1, <1>14, DigitAbove DEF s
  <2>. QED
    BY <1>8, <2>1 DEF u
<1>15. ASSUME NEW k \in Nat, k * (d2 + 1) <= x3 PROVE k <= g
  <2>1. k * ((y * Radix) * v) <= x * Radix
    BY <1>1, <1>6, <1>15, DigitAbove DEF s
  <2>2. k * ((y * Radix) * v) = (k * u) * Radix
    BY <1>1 DEF u
  <2>3. (k * u) * Radix <= x * Radix
    BY <2>1, <2>2
  <2>4. k * u <= x
    <3>1. k * u \in Nat /\ Radix > 0
      BY <1>1, <1>6
    <3>. QED
      BY <1>1, <2>3, <3>1, MonotoneProduct
  <2>. QED
    BY <1>8, <2>4
<1>16. x2 * Radix <= x3
  <2>1. x2 * s <= x /\ x2 * s \in Nat
    BY <1>6, Greatest
  <2>2. (x2 * s) * Radix <= x * Radix
    BY <1>1, <2>1, MonotoneProduct
  <2>3. (x2 * Radix) * s = (x2 * s) * Radix /\ x2 * Radix \in Nat
    BY <1>1, <1>6, <1>9
  <2>4. (x2 * Radix) * s <= x * Radix
    BY <2>2, <2>3
  <2>. QED
    BY <1>6, <2>3, <2>4, Greatest
<1>. HIDE DEF d, d2, x2, x3
<1>17. Leads(g, d, d2, x2, x3)
  BY <1>3, <1>5, <1>9, <1>10, <1>11, <1>12, <1>13, <1>14, <1>15, <1>16 DEF Leads
<1>. QED
  BY <1>3, <1>4, <1>17 DEF g, u, v

(* An estimate from the leading digits is not too small.                   *)
LEMMA EstimateNotBelow ==
  ASSUME NEW g, NEW d, NEW d2, NEW x2, NEW x3, Leads(g, d, d2, x2, x3)
  PROVE  g <= x2 \div d /\ x2 \div d \in Nat /\ (x2 \div d) * d <= x2 /\ MP_MASK \in Nat
<1>1. g \in Nat /\ d \in Nat /\ d > 0 /\ x2 \in Nat /\ g * d <= x2 /\ MP_MASK \in Nat
  BY Weights DEF Leads, MP_MASK
<1>. QED
  BY <1>1, Greatest

(* A digit of which the product is found too large is greater than the     *)
(* digit sought, so that it can be decremented.                            *)
LEMMA DecrementNotBelow ==
  ASSUME NEW g, NEW d, NEW d2, NEW x2, NEW x3, Leads(g, d, d2, x2, x3),
         NEW q \in Nat, q * d2 > x3
  PROVE  g <= q - 1 /\ q - 1 \in Nat
<1>1. g \in Nat /\ d2 \in Nat /\ x3 \in Nat /\ g * d2 <= x3 /\ MP_MASK \in Nat
  BY Weights DEF Leads, MP_MASK
<1>2. ASSUME q <= g PROVE FALSE
  <2>1. q * d2 <= g * d2
    BY <1>1, <1>2, MonotoneProduct
  <2>. DEFINE m == q * d2
              n == g * d2
  <2>2. m \in Nat /\ n \in Nat /\ m <= n /\ n <= x3 /\ m > x3
    BY <1>1, <2>1
  <2>. HIDE DEF m, n
  <2>. QED
    BY <1>1, <2>2
<1>. QED
  BY <1>1, <1>2

LEMMA PartOfSquare ==
  ASSUME NEW q \in Nat, NEW d \in Nat, NEW d2 \in Nat, NEW e \in Nat, NEW r \in Nat,
         r >= 4, d > 0, r <= 4 * d, d2 = d * r + e, q * d2 < r * r
  PROVE  /\ q <= 3
         /\ q = 3 /\ d = 1 => r = 4 /\ e <= 1
<1>1. d2 > 0 /\ r * r <= d2 * 4
  <2>1. r * r <= (4 * d) * r /\ (4 * d) * r = 4 * (d * r) /\ d * r \in Nat /\ r * r \in Nat
    BY MonotoneProduct
  <2>2. r * r > 0
    OBVIOUS
  <2>. DEFINE m == d * r
              n == r * r
  <2>3. m \in Nat /\ n \in Nat /\ n <= 4 * m /\ d2 = m + e /\ n > 0
    BY <2>1, <2>2
  <2>. HIDE DEF m, n
  <2>4. d2 > 0 /\ n <= 4 * d2
    BY <2>3
  <2>. QED
    BY <2>4 DEF n
<1>2. q <= 3
  <2>1. ASSUME q >= 4 PROVE FALSE
    <3>1. 4 * d2 <= q * d2
      BY <2>1, MonotoneProduct
    <3>. DEFINE m == q * d2
                n == r * r
    <3>2. m \in Nat /\ n \in Nat /\ m < n /\ n <= d2 * 4 /\ 4 * d2 <= m
      BY <1>1, <3>1
    <3>. HIDE DEF m, n
    <3>. QED
      BY <3>2
  <2>. QED
    BY <2>1
<1>3. ASSUME q = 3, d = 1 PROVE r = 4 /\ e <= 1
  <2>1. r = 4
    BY <1>3
  <2>2. d2 = 4 + e /\ 3 * d2 < 16
    BY <1>3, <2>1
  <2>. QED
    BY <2>1, <2>2
<1>. QED
  BY <1>2, <1>3

(* A digit that stays is at most one too large: its product is not too     *)
(* large, or too short to be compared.                                     *)
LEMMA AtMostOneAbove ==
  ASSUME NEW g, NEW d, NEW d2, NEW x2, NEW x3, Leads(g, d, d2, x2, x3),
         NEW q \in 0 .. MP_MASK,
         q * d2 <= x3 \/ (q * d2 < Radix * Radix /\ q * d <= x2)
  PROVE  q <= g + 1
<1>. DEFINE r == Radix
<1>1. /\ r \in Nat /\ r >= 4 /\ MP_MASK \in Nat /\ MP_MASK = r - 1
      /\ g \in Nat /\ d \in Nat /\ d2 \in Nat /\ x2 \in Nat /\ x3 \in Nat
      /\ d > 0 /\ r <= 4 * d /\ q \in Nat /\ q <= r - 1
  BY Weights DEF Leads, MP_MASK
<1>2. PICK e \in 0 .. MP_MASK : d2 = d * r + e
  BY DEF Leads
<1>3. q * d2 <= x3 \/ (q * d2 < r * r /\ q * d <= x2)
  OBVIOUS
<1>4. x2 * r <= x3
  BY DEF Leads
<1>5. \A k \in Nat : k * (d + 1) <= x2 \/ k * (d2 + 1) <= x3 => k <= g
  BY DEF Leads
<1>. HIDE DEF r
<1>6. e \in Nat
  BY <1>1, <1>2
<1>7. q <= d2 + 1
  <2>1. r <= d * r
    <3>1. 1 * r <= d * r
      BY <1>1, MonotoneProduct
    <3>. QED
      BY <1>1, <3>1
  <2>. DEFINE m == d * r
  <2>2. m \in Nat /\ d2 = m + e /\ r <= m
    BY <1>1, <1>2, <2>1
  <2>. HIDE DEF m
  <2>. QED
    BY <1>1, <1>6, <2>2
<1>8. CASE q = 0
  BY <1>1, <1>8
<1>9. CASE q > 0
  <2>. DEFINE k == q - 1
  <2>1. k \in Nat /\ q = k + 1
    BY <1>1, <1>9
  <2>2. k * (d2 + 1) = q * d2 + q - d2 - 1 /\ k * (d + 1) = q * d + q - d - 1
    BY <1>1
  <2>3. q * d2 \in Nat /\ q * d \in Nat
    BY <1>1
  <2>. HIDE DEF k
  <2>4. CASE q * d2 <= x3
    <3>1. k * (d2 + 1) <= x3
      <4>. DEFINE m == q * d2
                  n == k * (d2 + 1)
      <4>1. m \in Nat /\ n = m + q - d2 - 1 /\ m <= x3
        BY <2>2, <2>3, <2>4
      <4>. HIDE DEF m, n
      <4>2. n <= x3
        BY <1>1, <1>7, <4>1
      <4>. QED
        BY <4>2 DEF n
    <3>. QED
      BY <1>1, <1>5, <2>1, <3>1
  <2>5. CASE q * d2 < r * r /\ q * d <= x2
    <3>1. q <= 3 /\ (q = 3 /\ d = 1 => r = 4 /\ e <= 1)
      BY <1>1, <1>2, <1>6, <2>5, PartOfSquare
    <3>2. CASE q <= d + 1
      <4>1. k * (d + 1) <= x2
        <5>. DEFINE m == q * d
                    n == k * (d + 1)
        <5>1. m \in Nat /\ n = m + q - d - 1 /\ m <= x2
          BY <2>2, <2>3, <2>5
        <5>. HIDE DEF m, n
        <5>2. n <= x2
          BY <1>1, <3>2, <5>1
        <5>. QED
          BY <5>2 DEF n
      <4>. QED
        BY <1>1, <1>5, <2>1, <4>1
    <3>3. CASE q > d + 1
      <4>1. q = 3 /\ d = 1 /\ r = 4 /\ e <= 1 /\ k = 2
        BY <1>1, <2>1, <3>1, <3>3
      <4>2. 3 <= x2 /\ d2 <= 5 /\ x2 * 4 <= x3
        BY <1>1, <1>2, <1>4, <1>6, <2>5, <4>1
      <4>3. k * (d2 + 1) <= x3
        BY <1>1, <4>1, <4>2
      <4>. QED
        BY <1>1, <1>5, <2>1, <4>3
    <3>. QED
      BY <1>1, <3>2, <3>3
  <2>. QED
    BY <1>3, <2>4, <2>5 DEF r
<1>. QED
  BY <1>1, <1>8, <1>9

-----------------------------------------------------------------------------
(* Scaled, the divisor has a leading digit of at least a quarter of the    *)
(* radix.                                                                  *)
LEMMA Normalised ==
  ASSUME NEW b \in Nat, b > 0, NEW norm, NEW y,
         LET bits == mp_count_bits(b) % MP_DIGIT_BIT
         IN  norm = IF bits < MP_DIGIT_BIT - 1 THEN MP_DIGIT_BIT - 1 - bits ELSE 0,
         y = b * 2 ^ norm
  PROVE  /\ norm \in Nat /\ norm <= MP_DIGIT_BIT
         /\ y \in Nat /\ y > 0 /\ Used(y) - 1 \in Nat
         /\ Weight(Used(y) - 1) <= y /\ y < Weight(Used(y))
         /\ Radix <= 4 * (y \div Weight(Used(y) - 1))
<1>. DEFINE w == MP_DIGIT_BIT
            c == mp_count_bits(b)
            r == c % w
            m == c \div w
            p == w * m
            s == 2 ^ norm
            u == Used(y)
            h == 2 ^ (w - 2)
<1>1. w \in Nat /\ w >= 2 /\ c \in Nat
  BY DigitBitAssumption, CountBitsFacts
<1>2. norm = IF r < w - 1 THEN w - 1 - r ELSE 0
  OBVIOUS
<1>. HIDE DEF w, c
<1>3. r \in 0 .. w - 1 /\ m \in Nat /\ c = p + r
  BY <1>1, Division
<1>. HIDE DEF r, m
<1>4. p \in Nat
  BY <1>1, <1>3
<1>. HIDE DEF p
<1>5. norm \in Nat /\ norm <= w /\ norm = w - 1 - r
  BY <1>1, <1>2, <1>3
<1>6. s \in Nat /\ s > 0
  BY <1>5, TwoTo
<1>7. y = b * s
  OBVIOUS
<1>. HIDE DEF s
<1>8. y \in Nat /\ y > 0
  BY <1>6, <1>7
<1>9. mp_count_bits(y) = p + w - 1
  <2>1. mp_count_bits(b * 2 ^ norm) = mp_count_bits(b) + norm
    BY <1>5, CountBitsShifted
  <2>2. mp_count_bits(y) = c + norm
    BY <2>1 DEF c
  <2>. QED
    BY <1>1, <1>3, <1>4, <1>5, <2>2
<1>. DEFINE bits == mp_count_bits(y)
            k == bits - 1
<1>10. /\ bits \in Nat /\ k \in Nat /\ bits = p + w - 1 /\ k = p + (w - 2)
       /\ 2 ^ k <= y /\ y < 2 ^ bits
  <2>1. bits \in Nat /\ bits > 0 /\ 2 ^ k <= y /\ y < 2 ^ bits
    BY <1>8, CountBits
  <2>2. bits = p + w - 1
    BY <1>9
  <2>. HIDE DEF bits
  <2>3. k \in Nat /\ k = p + (w - 2)
    BY <1>1, <1>4, <2>1, <2>2
  <2>. QED
    BY <2>1, <2>2, <2>3
<1>. HIDE DEF bits, k
<1>11. u \in Nat /\ y < Weight(u) /\ u > 0 /\ Weight(u - 1) <= y
  BY <1>8, UsedFacts
<1>. HIDE DEF u
<1>12. u - 1 \in Nat /\ (u - 1) + 1 = u
  BY <1>11
<1>13. y < Weight(m + 1)
  <2>. DEFINE f == p + w
  <2>1. f \in Nat /\ bits <= f
    BY <1>1, <1>4, <1>10
  <2>2. f = w * (m + 1)
    BY <1>1, <1>3 DEF p
  <2>. HIDE DEF f
  <2>3. 2 ^ bits <= 2 ^ f /\ 2 ^ bits \in Nat /\ 2 ^ f \in Nat
    BY <1>10, <2>1, TwoToMonotone, TwoTo
  <2>4. Weight(m + 1) = 2 ^ f
    BY <2>2 DEF Weight, w
  <2>. QED
    BY <1>8, <1>10, <2>3, <2>4
<1>14. u <= m + 1
  <2>1. m + 1 \in Nat
    BY <1>3
  <2>. QED
    BY <1>8, <1>13, <2>1, UsedLess DEF u
<1>15. u - 1 <= m
  BY <1>3, <1>11, <1>14
<1>16. Weight(m) * h <= y /\ Weight(m) \in Nat /\ h \in Nat /\ Radix = 4 * h
  <2>. DEFINE e == w - 2
  <2>1. e \in Nat /\ k = p + e /\ e + 2 = w
    BY <1>1, <1>4, <1>10
  <2>. HIDE DEF e
  <2>2. 2 ^ (p + e) = 2 ^ p * 2 ^ e /\ 2 ^ (e + 2) = 2 ^ e * 2 ^ 2
    BY <1>4, <2>1, TwoToSum
  <2>3. 2 ^ (1 + 1) = 2 * 2 ^ 1 /\ 2 ^ 1 = 2 /\ 2 ^ e \in Nat /\ 1 + 1 = 2
    <3>1. 1 \in Nat /\ 1 + 1 = 2
      OBVIOUS
    <3>. QED
      BY <2>1, <3>1, TwoTo
  <2>4. 2 ^ 2 = 4
    BY <2>3
  <2>5. 2 ^ k = 2 ^ p * 2 ^ e
    BY <2>1, <2>2
  <2>6. 2 ^ w = 4 * 2 ^ e
    BY <2>1, <2>2, <2>3, <2>4
  <2>7. Weight(m) = 2 ^ p /\ Radix = 2 ^ w /\ Weight(m) \in Nat
    BY <1>3, WeightNatural DEF Weight, Radix, w, p
  <2>. QED
    BY <1>10, <2>3, <2>5, <2>6, <2>7 DEF e
<1>. HIDE DEF h
<1>17. Radix <= 4 * (y \div Weight(u - 1))
  <2>. DEFINE v == Weight(u - 1)
              z == Weight(m)
  <2>1. v \in Nat /\ v > 0 /\ z \in Nat /\ v <= z
    BY <1>3, <1>12, <1>15, WeightNatural, WeightMonotone
  <2>2. z * h <= y
    BY <1>16
  <2>. HIDE DEF v, z
  <2>3. v * h <= z * h /\ v * h \in Nat /\ z * h \in Nat /\ v * h = h * v
    BY <1>16, <2>1, MonotoneProduct
  <2>4. h * v <= y
    <3>. DEFINE i == v * h
                j == z * h
    <3>1. i \in Nat /\ j \in Nat /\ i <= j /\ j <= y
      BY <2>2, <2>3
    <3>. HIDE DEF i, j
    <3>2. i <= y
      BY <1>8, <3>1
    <3>. QED
      BY <2>3, <3>2 DEF i
  <2>5. h <= y \div v /\ y \div v \in Nat
    BY <1>8, <1>16, <2>1, <2>4, Greatest
  <2>. QED
    BY <1>16, <2>5 DEF v
<1>. QED
  BY <1>5, <1>8, <1>11, <1>12, <1>17 DEF u, w

LEMMA ScaledUsed ==
  ASSUME NEW a \in Nat, NEW norm \in Nat, norm <= MP_DIGIT_BIT
  PROVE  a * 2 ^ norm \in Nat /\ Used(a * 2 ^ norm) \in Nat /\ Used(a) \in Nat
           /\ Used(a * 2 ^ norm) <= Used(a) + 1
<1>. DEFINE s == 2 ^ norm
            u == Used(a)
            v == Weight(u)
            x == a * s
<1>1. u \in Nat /\ a < v
  BY UsedFacts
<1>. HIDE DEF u
<1>2. s \in Nat /\ s > 0 /\ s <= Radix /\ Radix \in Nat
  <2>1. MP_DIGIT_BIT \in Nat
    BY DigitBitAssumption
  <2>. QED
    BY <2>1, Weights, TwoTo, TwoToMonotone DEF Radix
<1>. HIDE DEF s
<1>3. v \in Nat /\ v > 0 /\ Weight(u + 1) = v * Radix
  BY <1>1, Weights
<1>. HIDE DEF v
<1>4. a * s < v * s /\ s * v <= Radix * v
  BY <1>1, <1>2, <1>3, MonotoneProduct
<1>5. x < Weight(u + 1)
  <2>. DEFINE i == v * s
              j == v * Radix
  <2>1. x \in Nat /\ i \in Nat /\ j \in Nat /\ s * v = i /\ Radix * v = j
    BY <1>2, <1>3
  <2>2. x < i /\ i <= j
    BY <1>4, <2>1
  <2>. HIDE DEF x, i, j
  <2>3. x < j
    BY <2>1, <2>2
  <2>. QED
    BY <1>3, <2>3 DEF j
<1>6. x \in Nat /\ u + 1 \in Nat
  BY <1>1, <1>2
<1>. HIDE DEF x
<1>7. Used(x) <= u + 1 /\ Used(x) \in Nat
  BY <1>5, <1>6, UsedLess, UsedFacts
<1>. QED
  BY <1>1, <1>6, <1>7 DEF x, s, u

-----------------------------------------------------------------------------
(* What the digits but one make.                                           *)
Rest(q, p) == NumberOf(q) - q[p] * Weight(p)

Interval(D) == \E N \in Nat : D = 0 .. N - 1

Changes(r, q, p, d) == r = [q EXCEPT ![p] = d]

LEMMA RestKept ==
  ASSUME NEW D, Interval(D), NEW q \in [D -> Int], NEW p \in D, NEW d \in Int,
         NEW r, Changes(r, q, p, d)
  PROVE  /\ Rest(q, p) \in Int /\ NumberOf(q) \in Int
         /\ NumberOf(q) = Rest(q, p) + q[p] * Weight(p)
         /\ q[p] = 0 => Rest(q, p) = NumberOf(q)
         /\ Rest(r, p) = Rest(q, p)
         /\ NumberOf(r) = Rest(q, p) + d * Weight(p)
<1>0. PICK N \in Nat : D = 0 .. N - 1
  BY DEF Interval
<1>. DEFINE w == Weight(p)
            e == q[p]
            m == NumberOf(q)
            n == NumberOf(r)
<1>1. w \in Int
  BY <1>0, WeightNatural
<1>2. e \in Int /\ r[p] = d /\ p \in Nat
  BY <1>0 DEF Changes
<1>3. m \in Int /\ n = m + (d - e) * w
  <2>1. q \in [0 .. N - 1 -> Int] /\ p \in 0 .. N - 1
    BY <1>0
  <2>. QED
    BY <2>1, NumberOfChanged DEF Changes
<1>. HIDE DEF w, e, m, n
<1>4. /\ e * w \in Int /\ d * w \in Int /\ (d - e) * w = d * w - e * w
      /\ e = 0 => e * w = 0
  BY <1>1, <1>2
<1>. DEFINE i == e * w
            j == d * w
<1>5. i \in Int /\ j \in Int /\ n = m + (j - i) /\ (e = 0 => i = 0) /\ m \in Int
  BY <1>3, <1>4
<1>. HIDE DEF i, j
<1>6. Rest(q, p) = m - i /\ Rest(r, p) = n - j
  BY <1>2 DEF Rest, m, n, i, j, e, w
<1>7. /\ m - i \in Int /\ m = (m - i) + i /\ (e = 0 => m - i = m)
      /\ n - j = m - i /\ n = (m - i) + j
  BY <1>5
<1>8. /\ Rest(q, p) \in Int /\ m = Rest(q, p) + i /\ (e = 0 => Rest(q, p) = m)
      /\ Rest(r, p) = Rest(q, p) /\ n = Rest(q, p) + j
  BY <1>6, <1>7
<1>. QED
  BY <1>2, <1>5, <1>8 DEF m, n, i, j, e, w

LEMMA RestOfZero ==
  ASSUME NEW D, Interval(D), NEW q \in [D -> Int], NEW p \in D, \A k \in D : q[k] = 0
  PROVE  Rest(q, p) = 0
<1>0. PICK N \in Nat : D = 0 .. N - 1
  BY DEF Interval
<1>1. q \in [0 .. N - 1 -> Int] /\ (\A k \in 0 .. N - 1 : q[k] = 0) /\ p \in Nat /\ q[p] = 0
  BY <1>0
<1>2. NumberOf(q) = 0
  BY <1>1, NumberOfZero
<1>3. Weight(p) \in Int /\ 0 * Weight(p) = 0
  BY <1>1, WeightNatural, IntegerProducts
<1>. QED
  BY <1>1, <1>2, <1>3 DEF Rest

(* Multiples of the divisor u at a place, taken from x.                    *)
LEMMA SubtractMultiple ==
  ASSUME NEW x \in Nat, NEW u \in Nat, u > 0, NEW k \in Nat,
         x \div u <= k, k <= x \div u + 1
  PROVE  /\ k * u \in Nat
         /\ x - k * u >= 0 => x - k * u \in Nat /\ x - k * u < u
         /\ x - k * u < 0 => /\ k > 0 /\ (x - k * u) + u \in Nat /\ (x - k * u) + u < u
<1>. DEFINE g == x \div u
            p == g * u
            r == x % u
            m == k * u
<1>1. g \in Nat /\ r \in 0 .. u - 1 /\ x = p + r /\ p \in Nat
  BY Division, Greatest
<1>2. k = g \/ k = g + 1
  BY <1>1
<1>. HIDE DEF g, r
<1>3. m \in Nat /\ (g + 1) * u = p + u
  BY <1>1
<1>4. (k = g => m = p) /\ (k = g + 1 => m = p + u /\ k > 0)
  BY <1>1, <1>3
<1>. HIDE DEF p, m
<1>5. /\ x - m >= 0 => x - m \in Nat /\ x - m < u
      /\ x - m < 0 => k > 0 /\ (x - m) + u \in Nat /\ (x - m) + u < u
  <2>1. CASE k = g
    BY <1>1, <1>3, <1>4, <2>1
  <2>2. CASE k = g + 1
    BY <1>1, <1>3, <1>4, <2>2
  <2>. QED
    BY <1>2, <2>1, <2>2
<1>. QED
  BY <1>3, <1>5 DEF m

(* A quotient counted in magnitudes, with a remainder.                     *)
Splits(m, n, k, r) == Magnitude(m) = k * Magnitude(n) + r /\ r < Magnitude(n)

Counted(m, n, k, r) ==
  Quotient(m, n) = Sgn(m) * Sgn(n) * k /\ m - Quotient(m, n) * n = Sgn(m) * r

LEMMA SignedQuotient ==
  ASSUME NEW m \in Int, NEW n \in Int, n # 0, NEW k \in Int, NEW r \in Nat, Splits(m, n, k, r)
  PROVE  Counted(m, n, k, r)
<1>. DEFINE a == Magnitude(m)
            b == Magnitude(n)
            s == Sgn(m)
            t == Sgn(n)
<1>1. /\ a \in Nat /\ b \in Nat /\ b > 0 /\ s \in {-1, 1} /\ t \in {-1, 1}
      /\ m = s * a /\ n = t * b
  BY MagnitudeProperties
<1>2. a = k * b + r /\ r < b
  BY DEF Splits
<1>3. Quotient(m, n) = s * t * (a \div b)
  BY DEF Quotient
<1>. HIDE DEF a, b, s, t
<1>4. a \div b = k
  <2>1. b * k + r = a /\ r \in 0 .. b - 1
    BY <1>1, <1>2
  <2>2. (b * k + r) \div b = k
    BY <1>1, <2>1, DivisionUnique
  <2>. QED
    BY <2>1, <2>2
<1>6. m - (s * t * k) * n = s * r
  <2>. DEFINE p == k * b
  <2>1. p \in Int /\ (s * t * k) * n = s * p
    <3>1. CASE t = 1
      BY <1>1, <3>1
    <3>2. CASE t = -1
      BY <1>1, <3>2
    <3>. QED
      BY <1>1, <3>1, <3>2
  <2>2. a = p + r
    BY <1>2
  <2>. HIDE DEF p
  <2>3. s * a - s * p = s * r
    BY <1>1, <2>1, <2>2
  <2>. QED
    BY <1>1, <2>1, <2>3
<1>. QED
  BY <1>3, <1>4, <1>6 DEF Counted, s, t

-----------------------------------------------------------------------------
(* mp_div.                                                                 *)
LEMMA DivFrame ==
  ASSUME fr \in Frames, fr.op \in DivOps
  PROVE  fr \in DivFrames /\ fr.a \in Ints /\ fr.b \in Ints /\ (fr.c = fr.d => fr.c = NULL)
<1>1. fr \in GcdFrames \cup DivFrames \cup RootFrames \cup InvmodFrames \cup ExteuclidFrames
               \cup ExptFrames \cup ExptmodFrames
               \cup KroneckerFrames \cup IsSquareFrames \cup SqrtmodFrames
  BY FramesAssumption
<1>2. fr \notin GcdFrames /\ fr \notin RootFrames /\ fr \notin InvmodFrames /\ fr \notin ExteuclidFrames
  BY DEF GcdFrames, RootFrames, InvmodFrames, ExteuclidFrames, DivOps
<1>3. fr \notin ExptFrames /\ fr \notin ExptmodFrames /\ fr \notin KroneckerFrames
        /\ fr \notin IsSquareFrames /\ fr \notin SqrtmodFrames
  BY DEF ExptFrames, ExptmodFrames, KroneckerFrames, IsSquareFrames, SqrtmodFrames, DivOps
<1>4. fr \in DivFrames
  BY <1>1, <1>2, <1>3
<1>. QED
  BY <1>4 DEF DivFrames

(* The digits of the quotient.                                             *)
QSize == Used(Magnitude(Dividend)) + 2
QPlaces == 0 .. QSize - 1

SchoolRecord ==
  [x : Nat, y : Nat, n : Nat, t : Nat, i : Nat, norm : Nat, q : [QPlaces -> Nat]]

ScaledDividend == Magnitude(Dividend) * 2 ^ loc.norm
ScaledDivisor == Magnitude(Divisor) * 2 ^ loc.norm

(* What s_mp_div_school has once it has scaled.                            *)
Scaled ==
  /\ loc.t <= loc.n /\ loc.n - loc.t \in QPlaces
  /\ ScaledDividend \in Nat /\ ScaledDivisor \in Nat
  /\ ScaledDividend < Weight(loc.n + 1)
  /\ Weight(loc.t) <= ScaledDivisor /\ ScaledDivisor < Weight(loc.t + 1)
  /\ Radix <= 4 * (ScaledDivisor \div Weight(loc.t))

AtNormalise ==
  /\ loc.x = Magnitude(Dividend) /\ loc.y = Magnitude(Divisor)
  /\ \A k \in QPlaces : loc.q[k] = 0

AtTop ==
  /\ Scaled
  /\ loc.y = ScaledDivisor * Weight(loc.n - loc.t)
  /\ Rest(loc.q, loc.n - loc.t) = 0
  /\ ScaledDividend = loc.q[loc.n - loc.t] * loc.y + loc.x
  /\ \A k \in QPlaces : k # loc.n - loc.t => loc.q[k] = 0

(* The digits from i - t on are counted.                                   *)
AtEstimate ==
  /\ Scaled
  /\ loc.y = ScaledDivisor
  /\ loc.t <= loc.i /\ loc.i <= loc.n
  /\ ScaledDividend = NumberOf(loc.q) * loc.y + loc.x
  /\ loc.x < loc.y * Weight(loc.i - loc.t)
  /\ \A k \in QPlaces : loc.q[k] <= MP_MASK /\ (k < loc.i - loc.t => loc.q[k] = 0)

(* The digit below them is estimated, not counted yet.                     *)
AtDigit ==
  /\ Scaled
  /\ loc.y = ScaledDivisor
  /\ loc.t < loc.i /\ loc.i <= loc.n
  /\ ScaledDividend = Rest(loc.q, Place) * loc.y + loc.x
  /\ loc.x < loc.y * Weight(loc.i - loc.t)
  /\ \A k \in QPlaces : loc.q[k] <= MP_MASK /\ (k < Place => loc.q[k] = 0)
  /\ loc.x \div (loc.y * Weight(Place)) <= loc.q[Place]

(* It comes from two leading digits unless the first is that of y.         *)
FromTwo ==
  Digit(loc.x, loc.i) = Digit(loc.y, loc.t)
    \/ loc.q[Place] * Digit(loc.y, loc.t) <= Digit(loc.x, loc.i) * Radix + Digit(loc.x, loc.i - 1)

SmallRecord == [ta : Nat, tb : Nat, tq : Nat, q : Nat, n : Int]

AtSmall ==
  /\ loc \in SmallRecord /\ loc.n >= -1
  /\ Magnitude(Dividend) = loc.q * Magnitude(Divisor) + loc.ta
  /\ loc.n >= 0 => /\ loc.tb = Magnitude(Divisor) * 2 ^ loc.n /\ loc.tq = 2 ^ loc.n
                   /\ loc.ta < 2 * loc.tb
  /\ loc.n = -1 => loc.ta < Magnitude(Divisor)

DivInv ==
  fr.op \in DivOps =>
    /\ val \in [Ints -> Int] /\ old \in [Ints -> Int]
    /\ pc # "done" => val = old
    /\ pc \in SchoolPcs => fr.routine = "school" /\ loc \in SchoolRecord
    /\ pc = "small_loop" => fr.routine = "small"
    /\ pc \in SchoolPcs \cup {"small_loop"} =>
         Divisor # 0 /\ Magnitude(Divisor) <= Magnitude(Dividend)
    /\ pc = "normalise" => AtNormalise
    /\ pc = "top" => AtTop
    /\ pc = "estimate" => AtEstimate
    /\ pc \in {"correct", "subtract"} => AtDigit
    /\ pc = "correct" => FromTwo
    /\ pc = "subtract" => loc.q[Place] <= loc.x \div (loc.y * Weight(Place)) + 1
    /\ pc = "small_loop" => AtSmall
    /\ pc = "done" => DivCorrect

(* What is known before a step.                                            *)
LEMMA DivContext ==
  ASSUME Ownership, DivInv, fr.op \in DivOps
  PROVE  /\ fr.a \in Ints /\ fr.b \in Ints /\ (fr.c = fr.d => fr.c = NULL)
         /\ val \in [Ints -> Int] /\ old \in [Ints -> Int]
         /\ Dividend \in Int /\ Divisor \in Int
         /\ Magnitude(Dividend) \in Nat /\ Magnitude(Divisor) \in Nat
         /\ pc # "done" => val = old /\ A = Dividend /\ B = Divisor
         /\ pc \in {"div", "small_loop", "done"} \cup SchoolPcs
<1>1. fr.a \in Ints /\ fr.b \in Ints /\ (fr.c = fr.d => fr.c = NULL)
  BY DivFrame DEF Ownership
<1>2. val \in [Ints -> Int] /\ old \in [Ints -> Int] /\ (pc # "done" => val = old)
  BY DEF DivInv
<1>3. Dividend \in Int /\ Divisor \in Int
  BY <1>1, <1>2 DEF Dividend, Divisor
<1>. QED
  BY <1>1, <1>2, <1>3, MagnitudeProperties DEF A, B, Dividend, Divisor, Ownership, DivOwns

(* A call that refuses leaves nothing to show.                             *)
LEMMA DivRefuses ==
  ASSUME Ownership, DivInv, fr.op \in DivOps, pc # "done",
         NEW code, code # "OKAY", NEW cleared, Refuse(code, cleared)
  PROVE  DivInv'
<1>1. val' = val /\ old' = old /\ fr' = fr /\ pc' = "done" /\ err' = code
  BY DEF Refuse, Return
<1>2. val \in [Ints -> Int] /\ old \in [Ints -> Int]
  BY DivContext
<1>3. DivCorrect'
  BY <1>1 DEF DivCorrect, Divided, Succeeded, Done
<1>. QED
  BY <1>1, <1>2, <1>3 DEF DivInv, SchoolPcs

(* A call that stores the quotient and the remainder is right.             *)
LEMMA DivEnds ==
  ASSUME Ownership, DivInv, fr.op \in DivOps, pc # "done", Divisor # 0,
         NEW k \in Int, NEW r \in Nat,
         Splits(Dividend, Divisor, k, r),
         NEW s \in {-1, 1}, NEW cleared,
         Results(Sgn(A) * Sgn(B) * k, s * r), Return("OKAY", cleared),
         s = Sgn(A) \/ r = 0
           \/ fr.d = NULL
           \/ SignLost
  PROVE  DivInv'
<1>0. /\ fr.a \in Ints /\ fr.b \in Ints /\ (fr.c = fr.d => fr.c = NULL)
      /\ val \in [Ints -> Int] /\ old \in [Ints -> Int]
      /\ Dividend \in Int /\ Divisor \in Int /\ A = Dividend /\ B = Divisor
  BY DivContext
<1>1. old' = old /\ fr' = fr /\ pc' = "done" /\ err' = "OKAY"
  BY DEF Return
<1>. DEFINE m == Dividend
            n == Divisor
            p == Sgn(m) * Sgn(n) * k
            d == s * r
<1>2. Quotient(m, n) = p /\ m - p * n = Sgn(m) * r /\ Sgn(m) \in {-1, 1} /\ Sgn(n) \in {-1, 1}
  <2>1. /\ m \in Int /\ n \in Int /\ n # 0 /\ k \in Int /\ r \in Nat
        /\ Splits(m, n, k, r)
    BY <1>0
  <2>. HIDE DEF m, n
  <2>2. Quotient(m, n) = Sgn(m) * Sgn(n) * k /\ m - Quotient(m, n) * n = Sgn(m) * r
    <3>1. Counted(m, n, k, r)
      BY <2>1, SignedQuotient
    <3>. QED
      BY <3>1 DEF Counted
  <2>3. Sgn(m) \in {-1, 1} /\ Sgn(n) \in {-1, 1}
    BY <2>1, MagnitudeProperties
  <2>. QED
    BY <2>2, <2>3
<1>3. val' = [x \in Ints |-> IF x = fr.d THEN d ELSE IF x = fr.c THEN p ELSE val[x]]
  BY <1>0 DEF Results
<1>4. p \in Int /\ d \in Int
  BY <1>2
<1>. HIDE DEF p
<1>5. d = m - p * n \/ fr.d = NULL \/ SignLost
  <2>1. CASE s = Sgn(A)
    BY <1>0, <1>2, <2>1
  <2>2. CASE r = 0
    BY <1>2, <2>2
  <2>. QED
    BY <2>1, <2>2
<1>. HIDE DEF d
<1>6. val' \in [Ints -> Int]
  BY <1>0, <1>3, <1>4
<1>7. Dividend' = m /\ Divisor' = n
  BY <1>1 DEF Dividend, Divisor
<1>8. ASSUME fr.op = "div", ~ SignLost
      PROVE  (fr.c # NULL => val'[fr.c] = p) /\ (fr.d # NULL => val'[fr.d] = m - p * n)
  <2>1. fr.c \in Ints \cup {NULL} /\ fr.d \in Ints \cup {NULL}
    BY DivFrame DEF DivFrames, Ownership
  <2>2. fr.c # NULL => fr.c \in Ints /\ fr.c # fr.d
    BY <1>0, <2>1
  <2>3. fr.d # NULL => fr.d \in Ints
    BY <2>1
  <2>4. fr.d # NULL => d = m - p * n
    BY <1>0, <1>5, <1>8
  <2>. QED
    BY <1>3, <2>2, <2>3, <2>4
<1>9. DivCorrect'
  <2>1. ASSUME fr'.op = "div", ~ SignLost'
        PROVE  Divided'
    <3>0. SignLost' = SignLost
      BY <1>1, <1>7 DEF SignLost
    <3>1. (fr.c # NULL => val'[fr.c] = p) /\ (fr.d # NULL => val'[fr.d] = m - p * n)
      BY <1>1, <1>8, <2>1, <3>0
    <3>2. Quotient(Dividend', Divisor') = p
      BY <1>2, <1>7
    <3>. QED
      BY <1>1, <1>7, <3>1, <3>2 DEF Divided
  <2>. QED
    BY <2>1 DEF DivCorrect
<1>. QED
  BY <1>0, <1>1, <1>6, <1>9 DEF DivInv, SchoolPcs

LEMMA DivStays ==
  ASSUME Ownership, DivInv, fr.op \in DivOps, pc # "done", fr' = fr, old' = old, val' = val,
         Divisor # 0, Magnitude(Divisor) <= Magnitude(Dividend)
  PROVE  /\ Dividend' = Dividend /\ Divisor' = Divisor
         /\ QPlaces' = QPlaces /\ SchoolRecord' = SchoolRecord
         /\ fr.routine = "school" /\ loc' \in SchoolRecord =>
              /\ pc' = "normalise" /\ AtNormalise' => DivInv'
              /\ pc' = "top" /\ AtTop' => DivInv'
              /\ pc' = "estimate" /\ AtEstimate' => DivInv'
              /\ pc' = "correct" /\ AtDigit' /\ FromTwo' => DivInv'
              /\ pc' = "subtract" /\ AtDigit'
                   /\ (loc.q[Place] <= loc.x \div (loc.y * Weight(Place)) + 1)' => DivInv'
         /\ fr.routine = "small" /\ pc' = "small_loop" /\ AtSmall' => DivInv'
<1>0. val \in [Ints -> Int] /\ old \in [Ints -> Int] /\ val = old
  BY DivContext
<1>1. Dividend' = Dividend /\ Divisor' = Divisor
  BY DEF Dividend, Divisor
<1>2. QPlaces' = QPlaces
  BY <1>1 DEF QPlaces, QSize
<1>3. SchoolRecord' = SchoolRecord
  BY <1>2 DEF SchoolRecord
<1>4. fr.routine = "school" /\ loc' \in SchoolRecord =>
        /\ pc' = "normalise" /\ AtNormalise' => DivInv'
        /\ pc' = "top" /\ AtTop' => DivInv'
        /\ pc' = "estimate" /\ AtEstimate' => DivInv'
  BY <1>0, <1>1, <1>3 DEF DivInv
<1>5. fr.routine = "school" /\ loc' \in SchoolRecord =>
        /\ pc' = "correct" /\ AtDigit' /\ FromTwo' => DivInv'
        /\ pc' = "subtract" /\ AtDigit'
             /\ (loc.q[Place] <= loc.x \div (loc.y * Weight(Place)) + 1)' => DivInv'
  BY <1>0, <1>1, <1>3 DEF DivInv
<1>6. fr.routine = "small" /\ pc' = "small_loop" /\ AtSmall' => DivInv'
  BY <1>0, <1>1 DEF DivInv, SchoolPcs
<1>. QED
  BY <1>1, <1>2, <1>3, <1>4, <1>5, <1>6

LEMMA DivSmaller ==
  ASSUME Ownership, DivInv, fr.op \in DivOps, mp_div_smaller
  PROVE  DivInv'
<1>0. /\ pc = "div" /\ B # 0 /\ Magnitude(A) < Magnitude(B)
      /\ (Results(0, A) /\ Return("OKAY", {})) \/ Refuse("MEM", {})
  BY DEF mp_div_smaller
<1>1. /\ Dividend \in Int /\ Divisor \in Int /\ A = Dividend /\ B = Divisor
      /\ Magnitude(Dividend) \in Nat /\ Magnitude(Divisor) \in Nat
  BY <1>0, DivContext
<1>2. CASE Refuse("MEM", {})
  BY <1>0, <1>2, DivRefuses
<1>3. CASE Results(0, A) /\ Return("OKAY", {})
  <2>. DEFINE r == Magnitude(Dividend)
              s == Sgn(A)
  <2>1. Splits(Dividend, Divisor, 0, r)
    BY <1>0, <1>1 DEF Splits
  <2>2. s \in {-1, 1} /\ s * r = A /\ Sgn(A) * Sgn(B) * 0 = 0
    <3>1. Sgn(A) \in {-1, 1} /\ Sgn(B) \in {-1, 1} /\ A = Sgn(A) * Magnitude(A)
      BY <1>1, MagnitudeProperties
    <3>. QED
      BY <1>1, <3>1
  <2>3. Results(Sgn(A) * Sgn(B) * 0, s * r)
    BY <1>3, <2>2
  <2>. HIDE DEF r, s
  <2>4. r \in Nat /\ s = Sgn(A)
    BY <1>1 DEF r, s
  <2>. QED
    BY <1>0, <1>1, <1>3, <2>1, <2>2, <2>3, <2>4, DivEnds
<1>. QED
  BY <1>0, <1>2, <1>3

LEMMA SchoolStarts ==
  ASSUME Ownership, DivInv, fr.op \in DivOps, school_init
  PROVE  DivInv'
<1>0. /\ pc = "div" /\ B # 0 /\ Magnitude(A) >= Magnitude(B) /\ fr.routine = "school"
      /\ val' = val /\ fr' = fr /\ old' = old
  BY DEF school_init, Divisible
<1>1. /\ Dividend \in Int /\ Divisor \in Int /\ A = Dividend /\ B = Divisor
      /\ Magnitude(Dividend) \in Nat /\ Magnitude(Divisor) \in Nat
      /\ val \in [Ints -> Int] /\ old \in [Ints -> Int]
  BY <1>0, DivContext
<1>2. CASE pc' = "done" /\ err' = "MEM"
  <2>1. DivCorrect'
    BY <1>2 DEF DivCorrect, Divided, Succeeded, Done
  <2>. QED
    BY <1>0, <1>1, <1>2, <2>1 DEF DivInv, SchoolPcs
<1>3. CASE /\ loc' = [x |-> Magnitude(A), y |-> Magnitude(B), n |-> 0, t |-> 0, i |-> 0, norm |-> 0,
                      q |-> [i \in 0 .. Used(A) + 1 |-> 0]]
           /\ pc' = "normalise"
  <2>1. 0 .. Used(A) + 1 = QPlaces
    <3>1. Magnitude(Magnitude(A)) = Magnitude(A)
      BY <1>1, MagnitudeProperties
    <3>2. Used(A) = Used(Magnitude(A))
      BY <3>1 DEF Used, mp_count_bits
    <3>3. Used(Magnitude(A)) \in Nat
      BY <1>1, UsedFacts
    <3>. DEFINE u == Used(Magnitude(A))
    <3>. HIDE DEF u
    <3>4. 0 .. u + 1 = 0 .. (u + 2) - 1
      <4>1. u \in Nat
        BY <3>3 DEF u
      <4>2. u + 1 = (u + 2) - 1
        BY <4>1
      <4>. QED
        BY <4>2
    <3>. QED
      BY <1>1, <3>2, <3>4 DEF QPlaces, QSize, u
  <2>. DEFINE q == [i \in QPlaces |-> 0]
  <2>2. q \in [QPlaces -> Nat] /\ \A k \in QPlaces : q[k] = 0
    OBVIOUS
  <2>3. loc' = [x |-> Magnitude(A), y |-> Magnitude(B), n |-> 0, t |-> 0, i |-> 0, norm |-> 0, q |-> q]
    BY <1>3, <2>1
  <2>. HIDE DEF q
  <2>4. loc' \in SchoolRecord
    BY <1>1, <2>2, <2>3 DEF SchoolRecord
  <2>5. /\ Dividend' = Dividend /\ Divisor' = Divisor /\ QPlaces' = QPlaces
        /\ Divisor # 0 /\ Magnitude(Divisor) <= Magnitude(Dividend)
    BY <1>0, <1>1 DEF Dividend, Divisor, QPlaces, QSize
  <2>6. AtNormalise'
    <3>1. loc'.x = Magnitude(A) /\ loc'.y = Magnitude(B) /\ loc'.q = q
      BY <2>3
    <3>. QED
      BY <1>1, <2>2, <2>5, <3>1 DEF AtNormalise
  <2>. QED
    BY <1>0, <1>3, <2>4, <2>5, <2>6, DivStays
<1>. QED
  BY <1>0, <1>2, <1>3 DEF school_init

LEMMA SchoolNormalises ==
  ASSUME Ownership, DivInv, fr.op \in DivOps, school_normalise
  PROVE  DivInv'
<1>0. pc = "normalise"
  BY DEF school_normalise
<1>1. /\ Dividend \in Int /\ Divisor \in Int
      /\ Magnitude(Dividend) \in Nat /\ Magnitude(Divisor) \in Nat
      /\ loc \in SchoolRecord /\ Divisor # 0 /\ Magnitude(Divisor) <= Magnitude(Dividend)
      /\ AtNormalise /\ fr.routine = "school"
  BY <1>0, DivContext DEF DivInv, SchoolPcs
<1>. DEFINE a == Magnitude(Dividend)
            b == Magnitude(Divisor)
            bits == mp_count_bits(b) % MP_DIGIT_BIT
            norm == IF bits < MP_DIGIT_BIT - 1 THEN MP_DIGIT_BIT - 1 - bits ELSE 0
            s == 2 ^ norm
            x == a * s
            y == b * s
            n == Used(x) - 1
            t == Used(y) - 1
            p == n - t
            z == y * Weight(p)
<1>2. a \in Nat /\ b \in Nat /\ b > 0 /\ b <= a /\ loc.x = a /\ loc.y = b
      /\ loc.q \in [QPlaces -> Nat] /\ \A k \in QPlaces : loc.q[k] = 0
  BY <1>1, MagnitudeProperties DEF AtNormalise, SchoolRecord
<1>3. \/ /\ loc' = [loc EXCEPT !.x = x, !.y = z, !.n = n, !.t = t, !.norm = norm]
         /\ Goto("top")
      \/ Refuse("MEM", LBL_Y)
  BY <1>2 DEF school_normalise
<1>. HIDE DEF a, b
<1>4. norm = IF bits < MP_DIGIT_BIT - 1 THEN MP_DIGIT_BIT - 1 - bits ELSE 0
  OBVIOUS
<1>5. y = b * 2 ^ norm
  OBVIOUS
<1>. HIDE DEF norm, y
<1>6. /\ norm \in Nat /\ norm <= MP_DIGIT_BIT
      /\ y \in Nat /\ y > 0 /\ Used(y) - 1 \in Nat
      /\ Weight(Used(y) - 1) <= y /\ y < Weight(Used(y))
      /\ Radix <= 4 * (y \div Weight(Used(y) - 1))
  BY <1>2, <1>4, <1>5, Normalised
<1>7. x \in Nat /\ Used(x) \in Nat /\ Used(a) \in Nat /\ Used(x) <= Used(a) + 1
  BY <1>2, <1>6, ScaledUsed
<1>8. s \in Nat /\ y <= x
  <2>1. s \in Nat
    BY <1>6, TwoTo
  <2>2. y = b * s
    BY <1>5
  <2>. HIDE DEF s
  <2>. QED
    BY <1>2, <2>1, <2>2, MonotoneProduct
<1>9. x = a * 2 ^ norm
  OBVIOUS
<1>. HIDE DEF x, s
<1>10. t \in Nat /\ Used(y) = t + 1 /\ Weight(t) <= x
  <2>1. Used(y) \in Nat
    BY <1>6, UsedFacts
  <2>2. t \in Nat /\ Used(y) = t + 1
    BY <1>6, <2>1
  <2>3. Weight(t) \in Nat /\ Weight(t) <= y
    BY <1>6, <2>2, WeightNatural
  <2>. QED
    BY <1>6, <1>7, <1>8, <2>2, <2>3
<1>. HIDE DEF t
<1>11. ~ (Used(x) <= t)
  <2>1. Weight(t) \in Nat
    BY <1>10, WeightNatural
  <2>2. ~ (x < Weight(t))
    BY <1>7, <1>10, <2>1
  <2>. QED
    BY <1>7, <1>10, <2>2, UsedLess
<1>12. n \in Nat /\ Used(x) = n + 1 /\ t <= n /\ n <= Used(a)
  BY <1>7, <1>10, <1>11
<1>13. x < Weight(n + 1)
  BY <1>7, <1>12, UsedFacts
<1>. HIDE DEF n
<1>14. p \in QPlaces /\ p \in Nat
  <2>1. p \in Nat /\ p <= Used(a)
    BY <1>7, <1>10, <1>12
  <2>. DEFINE u == Used(a)
  <2>2. u \in Nat /\ p \in Nat /\ p <= u
    BY <1>7, <2>1
  <2>3. QPlaces = 0 .. (u + 2) - 1
    BY DEF QPlaces, QSize, a
  <2>. HIDE DEF u, p
  <2>4. p \in 0 .. (u + 2) - 1
    BY <2>2
  <2>. QED
    BY <2>2, <2>3, <2>4
<1>15. z \in Nat
  BY <1>6, <1>14, WeightNatural, IntegerProducts
<1>16. p = n - t
  OBVIOUS
<1>. HIDE DEF p, z
<1>17. CASE /\ loc' = [loc EXCEPT !.x = x, !.y = z, !.n = n, !.t = t, !.norm = norm]
            /\ Goto("top")
  <2>1. /\ loc' \in SchoolRecord
        /\ loc'.x = x /\ loc'.y = z /\ loc'.n = n /\ loc'.t = t /\ loc'.norm = norm /\ loc'.q = loc.q
    BY <1>1, <1>6, <1>7, <1>10, <1>12, <1>15, <1>17 DEF SchoolRecord
  <2>2. /\ Dividend' = Dividend /\ Divisor' = Divisor /\ QPlaces' = QPlaces
        /\ fr' = fr /\ old' = old /\ val' = val /\ pc' = "top"
    BY <1>17 DEF Goto, Dividend, Divisor, QPlaces, QSize
  <2>3. ScaledDividend' = x /\ ScaledDivisor' = y
    BY <1>5, <1>9, <2>1, <2>2 DEF ScaledDividend, ScaledDivisor, a, b
  <2>4. Scaled'
    <3>1. y < Weight(t + 1) /\ Weight(t) <= y /\ Radix <= 4 * (y \div Weight(t))
      BY <1>6, <1>10 DEF t
    <3>2. loc'.n - loc'.t \in QPlaces'
      BY <1>14, <1>16, <2>1, <2>2
    <3>. QED
      BY <1>6, <1>7, <1>12, <1>13, <2>1, <2>3, <3>1, <3>2 DEF Scaled
  <2>5. Rest(loc.q, p) = 0 /\ loc.q[p] = 0
    <3>. DEFINE q == loc.q
                D == QPlaces
    <3>1. Interval(D)
      <4>1. QSize \in Nat
        BY <1>7 DEF QSize, a
      <4>. QED
        BY <4>1 DEF Interval, QPlaces
    <3>2. q \in [D -> Int] /\ (\A k \in D : q[k] = 0) /\ p \in D
      BY <1>2, <1>14
    <3>. HIDE DEF D, q
    <3>3. Rest(q, p) = 0 /\ q[p] = 0
      BY <3>1, <3>2, RestOfZero
    <3>. QED
      BY <3>3 DEF q
  <2>6. AtTop'
    <3>1. x = 0 * z + x
      BY <1>7, <1>15
    <3>2. loc'.n - loc'.t = p
      BY <1>16, <2>1
    <3>3. ScaledDividend' = loc'.q[p] * loc'.y + loc'.x
      BY <2>1, <2>3, <2>5, <3>1
    <3>4. loc'.y = ScaledDivisor' * Weight(p)
      BY <2>1, <2>3 DEF z
    <3>5. \A k \in QPlaces' : loc'.q[k] = 0
      BY <1>2, <2>1, <2>2
    <3>. QED
      BY <2>1, <2>4, <2>5, <3>2, <3>3, <3>4, <3>5 DEF AtTop
  <2>. QED
    BY <1>0, <1>1, <2>1, <2>2, <2>6, DivStays
<1>18. CASE Refuse("MEM", LBL_Y)
  BY <1>0, <1>18, DivRefuses
<1>. QED
  BY <1>3, <1>17, <1>18

LEMMA SchoolFacts ==
  ASSUME Ownership, DivInv, fr.op \in DivOps, pc \in SchoolPcs
  PROVE  /\ loc \in SchoolRecord /\ fr.routine = "school"
         /\ Divisor # 0 /\ Magnitude(Divisor) <= Magnitude(Dividend)
         /\ Dividend \in Int /\ Divisor \in Int
         /\ Interval(QPlaces) /\ QPlaces \subseteq Nat
         /\ loc.x \in Nat /\ loc.y \in Nat /\ loc.n \in Nat /\ loc.t \in Nat /\ loc.i \in Nat
         /\ loc.norm \in Nat /\ loc.q \in [QPlaces -> Nat] /\ loc.q \in [QPlaces -> Int]
<1>1. /\ loc \in SchoolRecord /\ fr.routine = "school"
      /\ Divisor # 0 /\ Magnitude(Divisor) <= Magnitude(Dividend)
  BY DEF DivInv
<1>2. /\ Dividend \in Int /\ Divisor \in Int /\ Magnitude(Dividend) \in Nat
  BY DivContext
<1>3. Interval(QPlaces) /\ QPlaces \subseteq Nat
  <2>1. QSize \in Nat
    BY <1>2, UsedFacts DEF QSize
  <2>. QED
    BY <2>1 DEF QPlaces, Interval
<1>4. /\ loc.x \in Nat /\ loc.y \in Nat /\ loc.n \in Nat /\ loc.t \in Nat /\ loc.i \in Nat
      /\ loc.norm \in Nat /\ loc.q \in [QPlaces -> Nat]
  BY <1>1 DEF SchoolRecord
<1>5. loc.q \in [QPlaces -> Int]
  BY <1>3, <1>4
<1>. QED
  BY <1>1, <1>2, <1>3, <1>4, <1>5

LEMMA RestFacts ==
  ASSUME NEW D, Interval(D), NEW q \in [D -> Int], NEW p \in D
  PROVE  /\ Rest(q, p) \in Int /\ NumberOf(q) \in Int
         /\ NumberOf(q) = Rest(q, p) + q[p] * Weight(p)
         /\ q[p] = 0 => Rest(q, p) = NumberOf(q)
<1>. DEFINE r == [q EXCEPT ![p] = 0]
<1>1. 0 \in Int /\ Changes(r, q, p, 0)
  BY DEF Changes
<1>. HIDE DEF r
<1>. QED
  BY <1>1, RestKept

(* The leading digit of the quotient is a digit.                           *)
CountsTop(a, c, u, x, y, t, p, n) ==
  n = t + p /\ u = y * Weight(p) /\ a = c * u + x /\ a < Weight(n + 1) /\ Weight(t) <= y

TopCounted(c, u, y, p) == c <= MP_MASK /\ u > 0 /\ u \div Weight(p) = y

LEMMA LeadingCount ==
  ASSUME NEW a \in Nat, NEW c \in Nat, NEW u \in Nat, NEW x \in Nat, NEW y \in Nat,
         NEW t \in Nat, NEW p \in Nat, NEW n \in Nat, CountsTop(a, c, u, x, y, t, p, n)
  PROVE  TopCounted(c, u, y, p)
<1>0. n = t + p /\ u = y * Weight(p) /\ a = c * u + x /\ a < Weight(n + 1) /\ Weight(t) <= y
  BY DEF CountsTop
<1>. DEFINE v == Weight(p)
            w == Weight(t)
            r == Radix
<1>1. v \in Nat /\ v > 0 /\ w \in Nat /\ w > 0 /\ r \in Nat /\ r > 0
  BY Weights
<1>2. Weight(n + 1) = (w * v) * r
  <2>1. Weight(n) = Weight(t) * Weight(p)
    BY <1>0, WeightSum
  <2>2. Weight(n + 1) = Weight(n) * Radix
    BY Weights
  <2>. QED
    BY <1>0, <2>1, <2>2
<1>3. u = y * v /\ w <= y
  BY <1>0
<1>. HIDE DEF v, w
<1>4. y > 0
  BY <1>1, <1>3
<1>5. u > 0
  <2>1. \A i, j \in Nat : i > 0 /\ j > 0 => i * j > 0
    OBVIOUS
  <2>. QED
    BY <1>1, <1>3, <1>4, <2>1
<1>6. w * v <= u /\ w * v \in Nat
  BY <1>1, <1>3, MonotoneProduct
<1>7. (w * v) * r <= u * r /\ (w * v) * r \in Nat /\ u * r \in Nat
  BY <1>1, <1>6, MonotoneProduct
<1>8. c * u < r * u
  <2>. DEFINE i == c * u
              j == (w * v) * r
              k == u * r
  <2>1. i \in Nat /\ j \in Nat /\ k \in Nat /\ a = i + x /\ a < j /\ j <= k /\ r * u = k
    BY <1>0, <1>1, <1>2, <1>7
  <2>. HIDE DEF i, j, k
  <2>2. i < k
    BY <2>1
  <2>. QED
    BY <2>1, <2>2 DEF i
<1>9. c < r
  BY <1>1, <1>5, <1>8, MonotoneProduct
<1>10. u \div v = y
  <2>1. v * y + 0 = u /\ 0 \in 0 .. v - 1
    BY <1>1, <1>3
  <2>2. (v * y + 0) \div v = y
    BY <1>1, <2>1, DivisionUnique
  <2>. QED
    BY <2>1, <2>2
<1>. QED
  BY <1>1, <1>5, <1>9, <1>10 DEF TopCounted, MP_MASK, v

LEMMA SchoolTop ==
  ASSUME Ownership, DivInv, fr.op \in DivOps, school_top
  PROVE  DivInv'
<1>0. pc = "top"
  BY DEF school_top
<1>1. /\ loc \in SchoolRecord /\ fr.routine = "school"
      /\ Divisor # 0 /\ Magnitude(Divisor) <= Magnitude(Dividend)
      /\ Interval(QPlaces) /\ QPlaces \subseteq Nat
      /\ loc.x \in Nat /\ loc.y \in Nat /\ loc.n \in Nat /\ loc.t \in Nat
      /\ loc.q \in [QPlaces -> Nat] /\ loc.q \in [QPlaces -> Int]
  BY <1>0, SchoolFacts DEF SchoolPcs
<1>2. AtTop /\ Scaled
  BY <1>0 DEF DivInv, AtTop
<1>. DEFINE p == loc.n - loc.t
            q == loc.q
            x == loc.x
            y == loc.y
            c == q[p]
            v == Weight(p)
            r == [q EXCEPT ![p] = c + 1]
<1>3. p \in QPlaces /\ p \in Nat /\ c \in Nat /\ x \in Nat /\ y \in Nat
  BY <1>1, <1>2 DEF Scaled
<1>4. /\ y = ScaledDivisor * v /\ Rest(q, p) = 0 /\ ScaledDividend = c * y + x
      /\ \A k \in QPlaces : k # p => q[k] = 0
      /\ ScaledDividend \in Nat /\ ScaledDivisor \in Nat
  BY <1>2 DEF AtTop, Scaled
<1>5. CASE /\ x >= y
           /\ loc' = [loc EXCEPT !.q[p] = @ + 1, !.x = @ - y]
           /\ Goto("top")
  <2>1. r \in [QPlaces -> Nat] /\ r[p] = c + 1 /\ \A k \in QPlaces : k # p => r[k] = q[k]
    BY <1>1, <1>3
  <2>2. Rest(r, p) = 0
    <3>. DEFINE D == QPlaces
                d == c + 1
    <3>1. Interval(D) /\ q \in [D -> Int] /\ d \in Int /\ p \in D
      BY <1>1, <1>3
    <3>2. Changes(r, q, p, d)
      BY DEF Changes
    <3>. HIDE DEF q, c, p, r, D, d
    <3>3. Rest(r, p) = Rest(q, p)
      BY <3>1, <3>2, RestKept
    <3>. QED
      BY <1>4, <3>3
  <2>3. loc' = [loc EXCEPT !.q = r, !.x = x - y]
    BY <1>5
  <2>. HIDE DEF r
  <2>4. /\ loc' \in SchoolRecord /\ loc'.q = r /\ loc'.x = x - y
        /\ loc'.y = y /\ loc'.n = loc.n /\ loc'.t = loc.t /\ loc'.norm = loc.norm
    <3>1. x - y \in Nat
      BY <1>3, <1>5
    <3>. HIDE DEF x, y
    <3>2. /\ loc' \in SchoolRecord /\ loc'.q = r /\ loc'.x = x - y
          /\ loc'.y = loc.y /\ loc'.n = loc.n /\ loc'.t = loc.t /\ loc'.norm = loc.norm
      BY <1>1, <2>1, <2>3, <3>1 DEF SchoolRecord
    <3>. QED
      BY <3>2 DEF y
  <2>5. /\ Dividend' = Dividend /\ Divisor' = Divisor /\ QPlaces' = QPlaces
        /\ fr' = fr /\ old' = old /\ val' = val /\ pc' = "top"
    BY <1>5 DEF Goto, Dividend, Divisor, QPlaces, QSize
  <2>6. ScaledDividend' = ScaledDividend /\ ScaledDivisor' = ScaledDivisor
    BY <2>4, <2>5 DEF ScaledDividend, ScaledDivisor
  <2>7. Scaled'
    BY <1>2, <2>4, <2>5, <2>6 DEF Scaled
  <2>8. AtTop'
    <3>1. c * y + x = (c + 1) * y + (x - y)
      <4>1. (c + 1) * y = c * y + y /\ c * y \in Int
        BY <1>3
      <4>. DEFINE i == c * y
                  j == (c + 1) * y
      <4>2. i \in Int /\ j = i + y
        BY <4>1
      <4>. HIDE DEF i, j, x, y
      <4>3. i + x = j + (x - y)
        BY <1>3, <4>2
      <4>. QED
        BY <4>3 DEF i, j
    <3>2. loc'.n - loc'.t = p
      BY <2>4
    <3>3. ScaledDividend' = loc'.q[p] * loc'.y + loc'.x
      BY <1>4, <2>1, <2>4, <2>6, <3>1
    <3>4. loc'.y = ScaledDivisor' * Weight(p)
      BY <1>4, <2>4, <2>6
    <3>5. \A k \in QPlaces' : k # p => loc'.q[k] = 0
      BY <1>4, <2>1, <2>4, <2>5
    <3>. QED
      BY <2>2, <2>4, <2>7, <3>2, <3>3, <3>4, <3>5 DEF AtTop
  <2>. QED
    BY <1>0, <1>1, <2>4, <2>5, <2>8, DivStays
<1>6. CASE /\ x < y
           /\ loc' = [loc EXCEPT !.y = @ \div v, !.i = loc.n]
           /\ Goto("estimate")
  <2>. DEFINE d == ScaledDivisor
  <2>1. c <= MP_MASK /\ y > 0 /\ y \div v = d
    <3>1. loc.n = loc.t + p /\ ScaledDividend < Weight(loc.n + 1) /\ Weight(loc.t) <= d
      BY <1>1, <1>2 DEF Scaled
    <3>. DEFINE a == ScaledDividend
    <3>2. CountsTop(a, c, y, x, d, loc.t, p, loc.n)
      BY <1>4, <3>1 DEF CountsTop
    <3>3. a \in Nat /\ d \in Nat /\ v = Weight(p)
      BY <1>4
    <3>. HIDE DEF x, y, c, p, a, d, v
    <3>. DEFINE m == loc.t
                n == loc.n
    <3>5. CountsTop(a, c, y, x, d, m, p, n) /\ m \in Nat /\ n \in Nat
      BY <1>1, <3>2
    <3>. HIDE DEF m, n
    <3>6. c \in Nat /\ y \in Nat /\ x \in Nat /\ p \in Nat
      BY <1>3
    <3>4. TopCounted(c, y, d, p)
      BY <3>3, <3>5, <3>6, LeadingCount
    <3>. QED
      BY <3>3, <3>4 DEF TopCounted
  <2>2. /\ loc' \in SchoolRecord /\ loc'.q = q /\ loc'.x = x /\ loc'.i = loc.n
        /\ loc'.y = d /\ loc'.n = loc.n /\ loc'.t = loc.t /\ loc'.norm = loc.norm
    <3>1. loc' = [loc EXCEPT !.y = d, !.i = loc.n]
      BY <1>6, <2>1
    <3>2. d \in Nat
      BY <1>4
    <3>. HIDE DEF d
    <3>. QED
      BY <1>1, <3>1, <3>2 DEF SchoolRecord
  <2>3. /\ Dividend' = Dividend /\ Divisor' = Divisor /\ QPlaces' = QPlaces
        /\ fr' = fr /\ old' = old /\ val' = val /\ pc' = "estimate"
    BY <1>6 DEF Goto, Dividend, Divisor, QPlaces, QSize
  <2>4. ScaledDividend' = ScaledDividend /\ ScaledDivisor' = d
    BY <2>2, <2>3 DEF ScaledDividend, ScaledDivisor
  <2>5. Scaled'
    BY <1>2, <2>2, <2>3, <2>4 DEF Scaled
  <2>6. ScaledDividend = NumberOf(q) * d + x
    <3>1. NumberOf(q) = Rest(q, p) + c * v /\ v \in Int
      <4>. DEFINE D == QPlaces
      <4>1. Interval(D) /\ q \in [D -> Int] /\ p \in D
        BY <1>1, <1>3
      <4>2. v \in Int
        BY <1>3, WeightNatural
      <4>. HIDE DEF q, p, D
      <4>3. NumberOf(q) = Rest(q, p) + q[p] * Weight(p)
        BY <4>1, RestFacts
      <4>. QED
        BY <4>2, <4>3
    <3>2. NumberOf(q) = c * v
      <4>1. c * v \in Int
        BY <1>3, <3>1
      <4>. QED
        BY <1>4, <3>1, <4>1
    <3>3. c * (d * v) = (c * v) * d
      BY <1>3, <1>4, <3>1
    <3>. QED
      BY <1>4, <3>2, <3>3
  <2>7. AtEstimate'
    <3>1. loc.t <= loc.n /\ loc.n - loc.t = p /\ x < d * v
      BY <1>2, <1>4, <1>6 DEF Scaled
    <3>2. \A k \in QPlaces : q[k] <= MP_MASK /\ (k < p => q[k] = 0)
      <4>1. MP_MASK \in Nat
        BY Weights DEF MP_MASK
      <4>2. ASSUME NEW k \in QPlaces PROVE q[k] <= MP_MASK /\ (k < p => q[k] = 0)
        <5>1. CASE k = p
          BY <1>3, <2>1, <5>1
        <5>2. CASE k # p
          BY <1>4, <4>1, <5>2
        <5>. QED
          BY <5>1, <5>2
      <4>. QED
        BY <4>2
    <3>3. loc'.i - loc'.t = p /\ loc'.t <= loc'.i /\ loc'.i <= loc'.n
      BY <1>1, <2>2, <3>1
    <3>4. ScaledDividend' = NumberOf(loc'.q) * loc'.y + loc'.x
      BY <2>2, <2>4, <2>6
    <3>5. loc'.x < loc'.y * Weight(p)
      BY <2>2, <3>1
    <3>6. \A k \in QPlaces' : loc'.q[k] <= MP_MASK /\ (k < p => loc'.q[k] = 0)
      BY <2>2, <2>3, <3>2
    <3>. HIDE DEF p
    <3>. QED
      BY <2>2, <2>4, <2>5, <3>3, <3>4, <3>5, <3>6 DEF AtEstimate
  <2>. QED
    BY <1>0, <1>1, <2>2, <2>3, <2>7, DivStays
<1>. QED
  BY <1>5, <1>6 DEF school_top

TrueDigit == loc.x \div (loc.y * Weight(Place))
TopY == Digit(loc.y, loc.t)
TopY2 == Digit(loc.y, loc.t) * Radix + Digit(loc.y, loc.t - 1)
TopX2 == Digit(loc.x, loc.i) * Radix + Digit(loc.x, loc.i - 1)
TopX3 == (Digit(loc.x, loc.i) * Radix + Digit(loc.x, loc.i - 1)) * Radix + Digit(loc.x, loc.i - 2)

(* The place of a digit that is to be counted.                             *)
LEMMA AtPlace ==
  ASSUME Ownership, DivInv, fr.op \in DivOps, pc \in {"estimate", "correct", "subtract"},
         loc.t < loc.i
  PROVE  /\ Scaled /\ loc.y = ScaledDivisor /\ loc.i <= loc.n
         /\ Place \in QPlaces /\ Place \in Nat /\ loc.i - loc.t = Place + 1
         /\ loc.i = (loc.t + Place) + 1
         /\ Weight(loc.t) <= loc.y /\ loc.y > 0
         /\ Leads(TrueDigit, TopY, TopY2, TopX2, TopX3)
<1>. DEFINE x == loc.x
            y == loc.y
            t == loc.t
            i == loc.i
            p == Place
<1>1. /\ x \in Nat /\ y \in Nat /\ loc.n \in Nat /\ t \in Nat /\ i \in Nat /\ QSize \in Nat
      /\ QPlaces = 0 .. QSize - 1
  <2>1. Magnitude(Dividend) \in Nat
    BY DivContext
  <2>2. x \in Nat /\ y \in Nat /\ loc.n \in Nat /\ t \in Nat /\ i \in Nat
    BY SchoolFacts DEF SchoolPcs
  <2>3. QSize \in Nat
    BY <2>1, UsedFacts DEF QSize
  <2>. QED
    BY <2>2, <2>3 DEF QPlaces
<1>2. Scaled /\ y = ScaledDivisor /\ i <= loc.n /\ x < y * Weight(i - t)
  BY DEF DivInv, AtEstimate, AtDigit
<1>3. loc.n - t \in QPlaces
  BY <1>2 DEF Scaled
<1>4. p \in Nat /\ i - t = p + 1 /\ i = (t + p) + 1 /\ p <= loc.n - t
  BY <1>1, <1>2 DEF Place
<1>. HIDE DEF p
<1>5. p \in QPlaces
  <2>. DEFINE m == loc.n - t
              s == QSize
  <2>1. m \in 0 .. s - 1 /\ p <= m /\ s \in Nat
    BY <1>1, <1>3, <1>4
  <2>. HIDE DEF m, s
  <2>2. p \in 0 .. s - 1
    BY <1>4, <2>1
  <2>. QED
    BY <1>1, <2>2 DEF s
<1>6. /\ Weight(t) <= y /\ y < Weight(t + 1) /\ Radix <= 4 * (y \div Weight(t))
      /\ x < y * Weight(p + 1)
  BY <1>2, <1>4 DEF Scaled
<1>7. y > 0
  <2>1. Weight(t) <= y /\ Weight(t) \in Nat /\ Weight(t) > 0
    BY <1>1, <1>6, WeightNatural
  <2>. QED
    BY <1>1, <2>1
<1>. HIDE DEF x, y, t, i
<1>8. Leads(x \div (y * Weight(p)), Digit(y, t), Digit(y, t) * Radix + Digit(y, t - 1),
               Digit(x, i) * Radix + Digit(x, i - 1),
               (Digit(x, i) * Radix + Digit(x, i - 1)) * Radix + Digit(x, i - 2))
  BY <1>1, <1>4, <1>6, LeadingDigits
<1>9. Leads(TrueDigit, TopY, TopY2, TopX2, TopX3)
  BY <1>8 DEF TrueDigit, TopY, TopY2, TopX2, TopX3, x, y, t, i, p
<1>. QED
  BY <1>2, <1>4, <1>5, <1>6, <1>7, <1>9 DEF p, x, y, t, i

(* Nothing is left for the digits that are skipped.                        *)
LEMMA SkippedDigit ==
  ASSUME NEW x \in Nat, NEW y \in Nat, NEW t \in Nat, NEW p \in Nat, NEW i \in Nat,
         i = (t + p) + 1, i > Used(x), Weight(t) <= y
  PROVE  x < y * Weight(p)
<1>. DEFINE w == Weight(t)
            v == Weight(p)
<1>1. i - 1 \in Nat /\ i - 1 = t + p /\ Used(x) \in Nat /\ Used(x) <= i - 1
  BY UsedFacts
<1>2. x < Weight(i - 1)
  BY <1>1, UsedLess
<1>3. Weight(i - 1) = w * v
  BY <1>1, WeightSum
<1>4. w \in Nat /\ v \in Nat /\ w <= y
  BY WeightNatural
<1>. HIDE DEF w, v
<1>5. w * v <= y * v /\ w * v \in Nat /\ y * v \in Nat
  BY <1>4, MonotoneProduct
<1>. DEFINE i1 == w * v
            j1 == y * v
<1>6. i1 \in Nat /\ j1 \in Nat /\ x < i1 /\ i1 <= j1
  BY <1>2, <1>3, <1>5
<1>. HIDE DEF i1, j1
<1>7. x < j1
  BY <1>6
<1>. QED
  BY <1>7 DEF j1, v

LEMMA SchoolEstimates ==
  ASSUME Ownership, DivInv, fr.op \in DivOps, school_estimate
  PROVE  DivInv'
<1>0. pc = "estimate" /\ loc.i >= loc.t + 1
  BY DEF school_estimate
<1>1. /\ loc \in SchoolRecord /\ fr.routine = "school"
      /\ Divisor # 0 /\ Magnitude(Divisor) <= Magnitude(Dividend)
      /\ Interval(QPlaces) /\ QPlaces \subseteq Nat
      /\ loc.x \in Nat /\ loc.y \in Nat /\ loc.n \in Nat /\ loc.t \in Nat /\ loc.i \in Nat
      /\ loc.q \in [QPlaces -> Nat] /\ loc.q \in [QPlaces -> Int]
  BY <1>0, SchoolFacts DEF SchoolPcs
<1>2. AtEstimate /\ loc.t < loc.i
  BY <1>0, <1>1 DEF DivInv
<1>3. /\ Scaled /\ loc.y = ScaledDivisor /\ loc.i <= loc.n
      /\ Place \in QPlaces /\ Place \in Nat /\ loc.i - loc.t = Place + 1
      /\ loc.i = (loc.t + Place) + 1
      /\ Weight(loc.t) <= loc.y /\ loc.y > 0
      /\ Leads(TrueDigit, TopY, TopY2, TopX2, TopX3)
  BY <1>0, <1>2, AtPlace
<1>. DEFINE x == loc.x
            y == loc.y
            q == loc.q
            p == Place
<1>4. /\ ScaledDividend = NumberOf(q) * y + x /\ x < y * Weight(loc.i - loc.t)
      /\ \A k \in QPlaces : q[k] <= MP_MASK /\ (k < p + 1 => q[k] = 0)
  BY <1>2, <1>3 DEF AtEstimate
<1>5. CASE loc.i > Used(x) /\ loc' = [loc EXCEPT !.i = @ - 1] /\ Goto("estimate")
  <2>1. /\ loc' \in SchoolRecord /\ loc'.q = q /\ loc'.x = x /\ loc'.i = loc.i - 1
        /\ loc'.y = y /\ loc'.n = loc.n /\ loc'.t = loc.t /\ loc'.norm = loc.norm
    <3>. DEFINE j == loc.i - 1
    <3>1. j \in Nat /\ loc' = [loc EXCEPT !.i = j]
      BY <1>1, <1>2, <1>5
    <3>. HIDE DEF j
    <3>2. /\ loc' \in SchoolRecord /\ loc'.q = q /\ loc'.x = x /\ loc'.i = j
          /\ loc'.y = y /\ loc'.n = loc.n /\ loc'.t = loc.t /\ loc'.norm = loc.norm
      BY <1>1, <3>1 DEF SchoolRecord
    <3>. QED
      BY <3>2 DEF j
  <2>2. /\ Dividend' = Dividend /\ Divisor' = Divisor /\ QPlaces' = QPlaces
        /\ fr' = fr /\ old' = old /\ val' = val /\ pc' = "estimate"
    BY <1>5 DEF Goto, Dividend, Divisor, QPlaces, QSize
  <2>3. ScaledDividend' = ScaledDividend /\ ScaledDivisor' = ScaledDivisor
    BY <2>1, <2>2 DEF ScaledDividend, ScaledDivisor
  <2>4. Scaled'
    BY <1>3, <2>1, <2>2, <2>3 DEF Scaled
  <2>5. AtEstimate'
    <3>1. x < y * Weight(p)
      <4>. DEFINE t == loc.t
                  i == loc.i
      <4>1. x \in Nat /\ y \in Nat /\ t \in Nat /\ i \in Nat /\ p \in Nat
            /\ i = (t + p) + 1 /\ i > Used(x) /\ Weight(t) <= y
        BY <1>1, <1>3, <1>5
      <4>. HIDE DEF x, y, t, i, p
      <4>. QED
        BY <4>1, SkippedDigit
    <3>2. /\ loc'.i - loc'.t = p /\ loc'.t <= loc'.i /\ loc'.i <= loc'.n
      BY <1>1, <1>2, <1>3, <2>1
    <3>3. ScaledDividend' = NumberOf(loc'.q) * loc'.y + loc'.x
      BY <1>4, <2>1, <2>3
    <3>4. loc'.x < loc'.y * Weight(p)
      BY <2>1, <3>1
    <3>5. \A k \in QPlaces' : loc'.q[k] <= MP_MASK /\ (k < p => loc'.q[k] = 0)
      BY <1>1, <1>3, <1>4, <2>1, <2>2
    <3>6. loc'.y = ScaledDivisor'
      BY <1>3, <2>1, <2>3
    <3>. HIDE DEF p
    <3>. QED
      BY <2>4, <3>2, <3>3, <3>4, <3>5, <3>6 DEF AtEstimate
  <2>. QED
    BY <1>0, <1>1, <2>1, <2>2, <2>5, DivStays
<1>6. CASE loc' = [loc EXCEPT !.q[p] = Estimate] /\ Goto("correct")
  <2>. DEFINE e == Estimate
              r == [q EXCEPT ![p] = e]
  <2>1. /\ e \in 0 .. MP_MASK /\ e \in Nat /\ TrueDigit <= e /\ MP_MASK \in Nat
        /\ Digit(x, loc.i) = Digit(y, loc.t) \/ e * TopY <= TopX2
    <3>. DEFINE g == TrueDigit
                d == TopY
                z == TopX2
                f == z \div d
    <3>1. g <= f /\ f \in Nat /\ f * d <= z /\ MP_MASK \in Nat
      BY <1>3, EstimateNotBelow
    <3>2. g \in 0 .. MP_MASK /\ d \in Nat /\ z \in Nat
      BY <1>3 DEF Leads
    <3>3. e = IF Digit(x, loc.i) = Digit(y, loc.t) THEN MP_MASK ELSE MinOf(f, MP_MASK)
      BY DEF Estimate, TopY, TopX2
    <3>. HIDE DEF g, d, z, f, e
    <3>4. g \in Nat /\ g <= MP_MASK
      BY <3>1, <3>2
    <3>5. e \in 0 .. MP_MASK /\ g <= e /\ (Digit(x, loc.i) = Digit(y, loc.t) \/ e <= f)
      BY <3>1, <3>3, <3>4 DEF MinOf
    <3>6. e <= f => e * d <= z
      <4>1. e <= f => e * d <= f * d
        BY <3>1, <3>2, <3>5, MonotoneProduct
      <4>2. e * d \in Int /\ f * d \in Int
        BY <3>1, <3>2, <3>5, IntegerProducts
      <4>. DEFINE m == e * d
                  n == f * d
      <4>3. m \in Int /\ n \in Int /\ n <= z /\ (e <= f => m <= n)
        BY <3>1, <4>1, <4>2
      <4>. HIDE DEF m, n
      <4>4. e <= f => m <= z
        BY <3>2, <4>3
      <4>. QED
        BY <4>4 DEF m
    <3>. QED
      BY <3>1, <3>5, <3>6 DEF g, d, z
  <2>. HIDE DEF e
  <2>2. r \in [QPlaces -> Nat] /\ r[p] = e /\ \A k \in QPlaces : k # p => r[k] = q[k]
    BY <1>1, <1>3, <2>1
  <2>3. Rest(r, p) = NumberOf(q)
    <3>. DEFINE D == QPlaces
    <3>1. Interval(D) /\ q \in [D -> Int] /\ e \in Int /\ p \in D /\ Changes(r, q, p, e)
      BY <1>1, <1>3, <2>1 DEF Changes
    <3>2. q[p] = 0
      BY <1>3, <1>4
    <3>. HIDE DEF q, p, r, D
    <3>3. Rest(r, p) = Rest(q, p) /\ Rest(q, p) = NumberOf(q)
      BY <3>1, <3>2, RestKept
    <3>. QED
      BY <3>3
  <2>4. loc' = [loc EXCEPT !.q = r]
    BY <1>6 DEF e
  <2>. HIDE DEF r
  <2>5. /\ loc' \in SchoolRecord /\ loc'.q = r /\ loc'.x = x /\ loc'.i = loc.i
        /\ loc'.y = y /\ loc'.n = loc.n /\ loc'.t = loc.t /\ loc'.norm = loc.norm
    BY <1>1, <2>2, <2>4 DEF SchoolRecord
  <2>6. /\ Dividend' = Dividend /\ Divisor' = Divisor /\ QPlaces' = QPlaces
        /\ fr' = fr /\ old' = old /\ val' = val /\ pc' = "correct"
    BY <1>6 DEF Goto, Dividend, Divisor, QPlaces, QSize
  <2>7. ScaledDividend' = ScaledDividend /\ ScaledDivisor' = ScaledDivisor /\ Place' = Place
    BY <2>5, <2>6 DEF ScaledDividend, ScaledDivisor, Place
  <2>8. Scaled'
    BY <1>3, <2>5, <2>6, <2>7 DEF Scaled
  <2>9. AtDigit'
    <3>1. ScaledDividend' = Rest(loc'.q, Place') * loc'.y + loc'.x
      BY <1>4, <2>3, <2>5, <2>7
    <3>2. loc'.x < loc'.y * Weight(loc'.i - loc'.t)
      BY <1>4, <2>5
    <3>3. \A k \in QPlaces' : loc'.q[k] <= MP_MASK /\ (k < Place' => loc'.q[k] = 0)
      <4>1. ASSUME NEW k \in QPlaces PROVE r[k] <= MP_MASK /\ (k < p => r[k] = 0)
        <5>1. k \in Nat /\ p \in Nat
          BY <1>1, <1>3
        <5>2. CASE k = p
          BY <2>1, <2>2, <5>1, <5>2
        <5>3. CASE k # p
          BY <1>4, <2>2, <5>1, <5>3
        <5>. QED
          BY <5>2, <5>3
      <4>. QED
        BY <2>5, <2>6, <2>7, <4>1
    <3>4. loc'.x \div (loc'.y * Weight(Place')) <= loc'.q[Place']
      BY <2>1, <2>2, <2>5, <2>7 DEF TrueDigit
    <3>5. loc'.y = ScaledDivisor' /\ loc'.t < loc'.i /\ loc'.i <= loc'.n
      BY <1>2, <1>3, <2>5, <2>7
    <3>. QED
      BY <2>8, <3>1, <3>2, <3>3, <3>4, <3>5 DEF AtDigit
  <2>10. FromTwo'
    BY <2>1, <2>2, <2>5, <2>7 DEF FromTwo, TopY, TopX2
  <2>. QED
    BY <1>0, <1>1, <2>5, <2>6, <2>9, <2>10, DivStays
<1>. QED
  BY <1>5, <1>6 DEF school_estimate

LEMMA TwoDigits ==
  Weight(2) = Radix * Radix /\ Radix \in Nat /\ Radix >= 4 /\ MP_MASK \in Nat /\ MP_MASK + 1 = Radix
<1>1. /\ Radix \in Nat /\ Radix >= 4
      /\ Weight(0) = 1 /\ Weight(0 + 1) = Weight(0) * Radix /\ Weight(1 + 1) = Weight(1) * Radix
  BY Weights
<1>2. 0 + 1 = 1 /\ 1 + 1 = 2 /\ 1 * Radix = Radix
  BY <1>1
<1>. QED
  BY <1>1, <1>2 DEF MP_MASK

(* A digit whose product with the leading digits is not found too large.   *)
Unfound(k, d, d2, x1, x0, x2, x3) ==
  /\ x2 = x1 * Radix + x0
  /\ ~ (Used(k * d2) >= 3 /\ k * d2 > x3)
  /\ x1 = d \/ k * d <= x2

LEMMA NotTooLarge ==
  ASSUME NEW k \in 0 .. MP_MASK, NEW g, NEW d, NEW d2, NEW x1 \in Nat, NEW x2, NEW x3,
         Leads(g, d, d2, x2, x3), NEW x0 \in Nat, Unfound(k, d, d2, x1, x0, x2, x3)
  PROVE  k <= g + 1
<1>0. x2 = x1 * Radix + x0 /\ (x1 = d \/ k * d <= x2)
  BY DEF Unfound
<1>. DEFINE m == k * d2
            s == Radix * Radix
<1>1. /\ d \in Nat /\ d > 0 /\ d2 \in Nat /\ x2 \in Nat /\ x3 \in Nat /\ k \in Nat
      /\ Radix \in Nat /\ x2 * Radix <= x3
  BY TwoDigits DEF Leads
<1>2. m \in Nat /\ s \in Nat
  BY <1>1, IntegerProducts
<1>3. ~ (Used(m) >= 3 /\ m > x3)
  BY DEF Unfound
<1>. HIDE DEF m
<1>4. CASE m <= x3
  BY <1>4, AtMostOneAbove DEF m
<1>5. CASE ~ (m <= x3)
  <2>1. Used(m) <= 2
    <3>1. Used(m) \in Nat
      BY <1>2, UsedFacts
    <3>. QED
      BY <1>1, <1>2, <1>3, <1>5, <3>1
  <2>2. m < s
    <3>1. m < Weight(2)
      BY <1>2, <2>1, UsedLess
    <3>. QED
      BY <3>1, TwoDigits
  <2>3. x1 # d
    <3>1. ASSUME x1 = d PROVE s <= x3
      <4>1. 1 * Radix <= x1 * Radix /\ x1 * Radix \in Nat
        BY <1>1, <3>1, MonotoneProduct
      <4>2. Radix <= x2
        <5>. DEFINE n == x1 * Radix
        <5>1. n \in Nat /\ x2 = n + x0 /\ Radix <= n
          BY <1>0, <1>1, <4>1
        <5>. HIDE DEF n
        <5>. QED
          BY <1>1, <5>1
      <4>3. s <= x2 * Radix /\ x2 * Radix \in Nat
        BY <1>1, <4>2, MonotoneProduct
      <4>. DEFINE n == x2 * Radix
      <4>4. n \in Nat /\ s <= n /\ n <= x3
        BY <1>1, <4>3
      <4>. HIDE DEF n, s
      <4>. QED
        BY <1>1, <1>2, <4>4
    <3>. HIDE DEF s
    <3>. QED
      BY <1>1, <1>2, <1>5, <2>2, <3>1
  <2>4. k * d2 < Radix * Radix /\ k * d <= x2
    BY <1>0, <2>2, <2>3 DEF m
  <2>. QED
    BY <2>4, AtMostOneAbove
<1>. QED
  BY <1>4, <1>5

LEMMA SchoolCorrects ==
  ASSUME Ownership, DivInv, fr.op \in DivOps, school_correct
  PROVE  DivInv'
<1>0. pc = "correct"
  BY DEF school_correct
<1>1. /\ loc \in SchoolRecord /\ fr.routine = "school"
      /\ Divisor # 0 /\ Magnitude(Divisor) <= Magnitude(Dividend)
      /\ Interval(QPlaces) /\ QPlaces \subseteq Nat
      /\ loc.x \in Nat /\ loc.y \in Nat /\ loc.n \in Nat /\ loc.t \in Nat /\ loc.i \in Nat
      /\ loc.q \in [QPlaces -> Nat] /\ loc.q \in [QPlaces -> Int]
  BY <1>0, SchoolFacts DEF SchoolPcs
<1>2. AtDigit /\ loc.t < loc.i /\ FromTwo
  BY <1>0 DEF DivInv, AtDigit
<1>3. /\ Scaled /\ loc.y = ScaledDivisor /\ loc.i <= loc.n
      /\ Place \in QPlaces /\ Place \in Nat
      /\ Leads(TrueDigit, TopY, TopY2, TopX2, TopX3)
  BY <1>0, <1>2, AtPlace
<1>. DEFINE x == loc.x
            y == loc.y
            q == loc.q
            p == Place
            k == q[p]
<1>4. /\ ScaledDividend = Rest(q, p) * y + x /\ x < y * Weight(loc.i - loc.t)
      /\ \A j \in QPlaces : q[j] <= MP_MASK /\ (j < p => q[j] = 0)
      /\ TrueDigit <= k
  BY <1>2 DEF AtDigit, TrueDigit
<1>5. /\ k \in Nat /\ k <= MP_MASK /\ MP_MASK \in Nat /\ MP_MASK + 1 = Radix /\ Radix \in Nat
      /\ k \in 0 .. MP_MASK
  BY <1>1, <1>3, <1>4, TwoDigits
<1>6. Digit(x, loc.i) = Digit(y, loc.t) \/ k * TopY <= TopX2
  BY <1>2 DEF FromTwo, TopY, TopX2
<1>7. TooLarge <=> Used(k * TopY2) >= 3 /\ k * TopY2 > TopX3
  BY DEF TooLarge, TopY2, TopX3
<1>8. CASE TooLarge /\ loc' = [loc EXCEPT !.q[p] = (@ - 1) % Radix] /\ Goto("correct")
  <2>. DEFINE e == k - 1
              r == [q EXCEPT ![p] = e]
  <2>1. TrueDigit <= e /\ e \in Nat
    <3>1. k * TopY2 > TopX3 /\ k \in Nat
      BY <1>5, <1>7, <1>8
    <3>. HIDE DEF k
    <3>. QED
      BY <1>3, <3>1, DecrementNotBelow
  <2>2. (k - 1) % Radix = e
    <3>1. k - 1 \in 0 .. Radix - 1
      BY <1>5, <2>1
    <3>. HIDE DEF k
    <3>. QED
      BY <1>5, <3>1
  <2>3. Digit(x, loc.i) = Digit(y, loc.t) \/ e * TopY <= TopX2
    <3>1. TopY \in Nat /\ TopX2 \in Nat
      BY <1>3 DEF Leads
    <3>. DEFINE m == k * TopY
                n == e * TopY
    <3>2. m \in Nat /\ n \in Nat /\ n <= m
      <4>. HIDE DEF k
      <4>1. e <= k
        BY <1>5
      <4>. HIDE DEF e
      <4>. QED
        BY <1>5, <2>1, <3>1, <4>1, MonotoneProduct
    <3>3. m <= TopX2 => n <= TopX2
      <4>. HIDE DEF m, n
      <4>. QED
        BY <3>1, <3>2
    <3>. QED
      BY <1>6, <3>3
  <2>4. e <= MP_MASK
    BY <1>5
  <2>. HIDE DEF e
  <2>5. r \in [QPlaces -> Nat] /\ r[p] = e /\ \A j \in QPlaces : j # p => r[j] = q[j]
    BY <1>1, <1>3, <2>1
  <2>6. Rest(r, p) = Rest(q, p)
    <3>. DEFINE D == QPlaces
    <3>1. Interval(D) /\ q \in [D -> Int] /\ e \in Int /\ p \in D /\ Changes(r, q, p, e)
      BY <1>1, <1>3, <2>1 DEF Changes
    <3>. HIDE DEF q, p, r, D
    <3>. QED
      BY <3>1, RestKept
  <2>7. loc' = [loc EXCEPT !.q = r]
    BY <1>8, <2>2
  <2>. HIDE DEF r
  <2>8. /\ loc' \in SchoolRecord /\ loc'.q = r /\ loc'.x = x /\ loc'.i = loc.i
        /\ loc'.y = y /\ loc'.n = loc.n /\ loc'.t = loc.t /\ loc'.norm = loc.norm
    BY <1>1, <2>5, <2>7 DEF SchoolRecord
  <2>9. /\ Dividend' = Dividend /\ Divisor' = Divisor /\ QPlaces' = QPlaces
        /\ fr' = fr /\ old' = old /\ val' = val /\ pc' = "correct"
    BY <1>8 DEF Goto, Dividend, Divisor, QPlaces, QSize
  <2>10. ScaledDividend' = ScaledDividend /\ ScaledDivisor' = ScaledDivisor /\ Place' = Place
    BY <2>8, <2>9 DEF ScaledDividend, ScaledDivisor, Place
  <2>11. Scaled'
    BY <1>3, <2>8, <2>9, <2>10 DEF Scaled
  <2>12. AtDigit'
    <3>1. ScaledDividend' = Rest(loc'.q, Place') * loc'.y + loc'.x
      BY <1>4, <2>6, <2>8, <2>10
    <3>2. loc'.x < loc'.y * Weight(loc'.i - loc'.t)
      BY <1>4, <2>8
    <3>3. \A j \in QPlaces' : loc'.q[j] <= MP_MASK /\ (j < Place' => loc'.q[j] = 0)
      <4>1. ASSUME NEW j \in QPlaces PROVE r[j] <= MP_MASK /\ (j < p => r[j] = 0)
        <5>1. j \in Nat /\ p \in Nat
          BY <1>1, <1>3
        <5>2. CASE j = p
          BY <2>4, <2>5, <5>1, <5>2
        <5>3. CASE j # p
          BY <1>4, <2>5, <5>1, <5>3
        <5>. QED
          BY <5>2, <5>3
      <4>. QED
        BY <2>8, <2>9, <2>10, <4>1
    <3>4. loc'.x \div (loc'.y * Weight(Place')) <= loc'.q[Place']
      BY <2>1, <2>5, <2>8, <2>10 DEF TrueDigit
    <3>5. loc'.y = ScaledDivisor' /\ loc'.t < loc'.i /\ loc'.i <= loc'.n
      BY <1>2, <1>3, <2>8, <2>10
    <3>. QED
      BY <2>11, <3>1, <3>2, <3>3, <3>4, <3>5 DEF AtDigit
  <2>13. FromTwo'
    BY <2>3, <2>5, <2>8, <2>10 DEF FromTwo, TopY, TopX2
  <2>. QED
    BY <1>0, <1>1, <2>8, <2>9, <2>12, <2>13, DivStays
<1>9. CASE ~ TooLarge /\ UNCHANGED loc /\ Goto("subtract")
  <2>1. /\ Dividend' = Dividend /\ Divisor' = Divisor /\ QPlaces' = QPlaces
        /\ fr' = fr /\ old' = old /\ val' = val /\ pc' = "subtract" /\ loc' = loc
    BY <1>9 DEF Goto, Dividend, Divisor, QPlaces, QSize
  <2>2. AtDigit'
    BY <1>2, <2>1 DEF AtDigit, Scaled, ScaledDividend, ScaledDivisor, Place
  <2>3. k <= TrueDigit + 1
    <3>. DEFINE x1 == Digit(x, loc.i)
                x0 == Digit(x, loc.i - 1)
    <3>1. x1 \in Nat /\ x0 \in Nat
      <4>1. \A j \in Nat : Digit(x, j) \in 0 .. Radix - 1
        BY <1>1, Digits
      <4>2. x1 \in Nat /\ Radix \in Nat
        BY <1>1, <1>5, <4>1
      <4>3. loc.i - 1 \in Nat
        BY <1>1, <1>2
      <4>4. x0 \in Nat
        BY <1>5, <4>1, <4>3
      <4>. QED
        BY <4>2, <4>4
    <3>2. TopX2 = x1 * Radix + x0
      BY DEF TopX2
    <3>3. x1 = TopY \/ k * TopY <= TopX2
      BY <1>6 DEF TopY
    <3>4. ~ (Used(k * TopY2) >= 3 /\ k * TopY2 > TopX3)
      BY <1>7, <1>9
    <3>. HIDE DEF x1, x0, k
    <3>5. Unfound(k, TopY, TopY2, x1, x0, TopX2, TopX3)
      BY <3>2, <3>3, <3>4 DEF Unfound
    <3>. QED
      BY <1>3, <1>5, <3>1, <3>5, NotTooLarge
  <2>4. (loc.q[Place] <= loc.x \div (loc.y * Weight(Place)) + 1)'
    BY <2>1, <2>3 DEF TrueDigit, Place
  <2>. QED
    BY <1>0, <1>1, <2>1, <2>2, <2>4, DivStays
<1>. QED
  BY <1>8, <1>9 DEF school_correct

Subtracts(x, u, k) == x \div u <= k /\ k <= x \div u + 1
Subtracted(x, u, k) ==
  /\ k * u \in Nat
  /\ x - k * u >= 0 => x - k * u \in Nat /\ x - k * u < u
  /\ x - k * u < 0 => k > 0 /\ (x - k * u) + u \in Nat /\ (x - k * u) + u < u

LEMMA SubtractsMultiple ==
  ASSUME NEW x \in Nat, NEW u \in Nat, u > 0, NEW k \in Nat, Subtracts(x, u, k)
  PROVE  Subtracted(x, u, k)
<1>1. x \div u <= k /\ k <= x \div u + 1
  BY DEF Subtracts
<1>2. /\ k * u \in Nat
      /\ x - k * u >= 0 => x - k * u \in Nat /\ x - k * u < u
      /\ x - k * u < 0 => k > 0 /\ (x - k * u) + u \in Nat /\ (x - k * u) + u < u
  BY <1>1, SubtractMultiple, Zenon
<1>. QED
  BY <1>2 DEF Subtracted

Makes(a, z, y, x) == a = z * y + x

LEMMA CountsMultiple ==
  ASSUME NEW x \in Nat, NEW y \in Nat, NEW v \in Nat, NEW k \in Nat, NEW z \in Int, NEW a \in Int,
         Makes(a, z, y, x), NEW u, u = y * v
  PROVE  /\ \A m : m = z + k * v => Makes(a, m, y, x - k * u)
         /\ \A m : m = z + (k - 1) * v => Makes(a, m, y, (x - k * u) + u)
<1>1. a = z * y + x
  BY DEF Makes
<1>2. (z + k * v) * y = z * y + k * (y * v)
  OBVIOUS
<1>3. (z + (k - 1) * v) * y = z * y + k * (y * v) - y * v
  OBVIOUS
<1>4. z * y \in Int /\ k * (y * v) \in Int /\ y * v \in Int
  OBVIOUS
<1>. DEFINE i == z * y
            j == k * (y * v)
            l == y * v
<1>5. i \in Int /\ j \in Int /\ l \in Int /\ a = i + x
  BY <1>1, <1>4
<1>. HIDE DEF i, j, l
<1>6. a = (i + j) + (x - j) /\ a = (i + j - l) + ((x - j) + l)
  BY <1>5
<1>. DEFINE m == z + k * v
            n == z + (k - 1) * v
<1>7. m * y = i + j /\ n * y = i + j - l
  BY <1>2, <1>3 DEF i, j, l
<1>8. k * u = j /\ u = l
  BY DEF j, l
<1>. HIDE DEF m, n
<1>9. Makes(a, m, y, x - k * u) /\ Makes(a, n, y, (x - k * u) + u)
  BY <1>6, <1>7, <1>8, Zenon DEF Makes
<1>. QED
  BY <1>9 DEF m, n

LEMMA SchoolSubtracts ==
  ASSUME Ownership, DivInv, fr.op \in DivOps, school_subtract
  PROVE  DivInv'
<1>0. pc = "subtract"
  BY DEF school_subtract
<1>1. /\ loc \in SchoolRecord /\ fr.routine = "school"
      /\ Divisor # 0 /\ Magnitude(Divisor) <= Magnitude(Dividend)
      /\ Interval(QPlaces) /\ QPlaces \subseteq Nat
      /\ loc.x \in Nat /\ loc.y \in Nat /\ loc.n \in Nat /\ loc.t \in Nat /\ loc.i \in Nat
      /\ loc.q \in [QPlaces -> Nat] /\ loc.q \in [QPlaces -> Int]
  BY <1>0, SchoolFacts DEF SchoolPcs
<1>2. AtDigit /\ loc.t < loc.i
  BY <1>0 DEF DivInv, AtDigit
<1>3. /\ Scaled /\ loc.y = ScaledDivisor /\ loc.i <= loc.n
      /\ Place \in QPlaces /\ Place \in Nat /\ loc.i - loc.t = Place + 1 /\ loc.y > 0
  BY <1>0, <1>2, AtPlace
<1>. DEFINE x == loc.x
            y == loc.y
            q == loc.q
            p == Place
            k == q[p]
            v == Weight(p)
            u == y * v
            z == Rest(q, p)
            a == ScaledDividend
            s == x - k * u
<1>4. /\ a = z * y + x
      /\ \A j \in QPlaces : q[j] <= MP_MASK /\ (j < p => q[j] = 0)
      /\ x \div u <= k /\ k <= x \div u + 1
  BY <1>0, <1>2 DEF AtDigit, DivInv
<1>5. k \in Nat /\ k <= MP_MASK /\ MP_MASK \in Nat /\ MP_MASK + 1 = Radix /\ Radix \in Nat
  BY <1>1, <1>3, <1>4, TwoDigits
<1>6. v \in Nat /\ v > 0 /\ x \in Nat /\ y \in Nat /\ y > 0 /\ a \in Int
  BY <1>1, <1>3, WeightNatural DEF Scaled
<1>7. z \in Int /\ NumberOf(q) = z + k * v
  <2>. DEFINE D == QPlaces
  <2>1. Interval(D) /\ q \in [D -> Int] /\ p \in D
    BY <1>1, <1>3
  <2>. HIDE DEF q, p, D
  <2>2. Rest(q, p) \in Int /\ NumberOf(q) = Rest(q, p) + q[p] * Weight(p)
    BY <2>1, RestFacts
  <2>. QED
    BY <2>2
<1>8. u \in Nat /\ u > 0 /\ u = y * v
  <2>1. \A i, j \in Nat : i > 0 /\ j > 0 => i * j \in Nat /\ i * j > 0
    OBVIOUS
  <2>. HIDE DEF y, v
  <2>. QED
    BY <1>6, <2>1
<1>9. Makes(a, z, y, x) /\ Subtracts(x, u, k)
  BY <1>4 DEF Makes, Subtracts
<1>10. Subtracted(x, u, k)
  <2>. HIDE DEF x, u, k
  <2>. QED
    BY <1>5, <1>6, <1>8, <1>9, SubtractsMultiple
<1>11. /\ \A m : m = z + k * v => Makes(a, m, y, x - k * u)
       /\ \A m : m = z + (k - 1) * v => Makes(a, m, y, (x - k * u) + u)
  <2>. HIDE DEF x, u, k, v, y, z, a
  <2>. QED
    BY <1>5, <1>6, <1>7, <1>8, <1>9, CountsMultiple
<1>12. /\ \/ /\ s >= 0
             /\ loc' = [loc EXCEPT !.x = s, !.i = @ - 1]
             /\ Goto("estimate")
          \/ /\ s < 0
             /\ loc' = [loc EXCEPT !.x = s + u, !.i = @ - 1, !.q[p] = (@ - 1) % Radix]
             /\ Goto("estimate")
          \/ Refuse("MEM", LBL_Y)
  BY DEF school_subtract
(* The next place, with what is left and with the digits.                  *)
<1>13. ASSUME NEW e \in Nat, e < u, NEW r \in [QPlaces -> Nat], Makes(a, NumberOf(r), y, e),
              \A j \in QPlaces : r[j] <= MP_MASK /\ (j < p => r[j] = 0),
              loc' = [loc EXCEPT !.x = e, !.i = loc.i - 1, !.q = r], Goto("estimate")
       PROVE  DivInv'
  <2>1. /\ loc' \in SchoolRecord /\ loc'.q = r /\ loc'.x = e /\ loc'.i = loc.i - 1
        /\ loc'.y = y /\ loc'.n = loc.n /\ loc'.t = loc.t /\ loc'.norm = loc.norm
    <3>. DEFINE j == loc.i - 1
    <3>1. j \in Nat /\ loc' = [loc EXCEPT !.x = e, !.i = j, !.q = r]
      BY <1>1, <1>2, <1>13
    <3>. HIDE DEF j
    <3>2. /\ loc' \in SchoolRecord /\ loc'.q = r /\ loc'.x = e /\ loc'.i = j
          /\ loc'.y = y /\ loc'.n = loc.n /\ loc'.t = loc.t /\ loc'.norm = loc.norm
      BY <1>1, <3>1 DEF SchoolRecord
    <3>. QED
      BY <3>2 DEF j
  <2>2. /\ Dividend' = Dividend /\ Divisor' = Divisor /\ QPlaces' = QPlaces
        /\ fr' = fr /\ old' = old /\ val' = val /\ pc' = "estimate"
    BY <1>13 DEF Goto, Dividend, Divisor, QPlaces, QSize
  <2>3. ScaledDividend' = ScaledDividend /\ ScaledDivisor' = ScaledDivisor
    BY <2>1, <2>2 DEF ScaledDividend, ScaledDivisor
  <2>4. Scaled'
    BY <1>3, <2>1, <2>2, <2>3 DEF Scaled
  <2>5. AtEstimate'
    <3>1. e < y * Weight(p)
      BY <1>13
    <3>2. /\ loc'.i - loc'.t = p /\ loc'.t <= loc'.i /\ loc'.i <= loc'.n
      BY <1>1, <1>2, <1>3, <2>1
    <3>3. ScaledDividend' = NumberOf(loc'.q) * loc'.y + loc'.x
      BY <1>13, <2>1, <2>3 DEF Makes
    <3>4. loc'.x < loc'.y * Weight(p)
      BY <2>1, <3>1
    <3>5. \A j \in QPlaces' : loc'.q[j] <= MP_MASK /\ (j < p => loc'.q[j] = 0)
      BY <1>13, <2>1, <2>2
    <3>6. loc'.y = ScaledDivisor'
      BY <1>3, <2>1, <2>3
    <3>. HIDE DEF p
    <3>. QED
      BY <2>4, <3>2, <3>3, <3>4, <3>5, <3>6 DEF AtEstimate
  <2>. QED
    BY <1>0, <1>1, <2>1, <2>2, <2>5, DivStays
<1>14. CASE /\ s >= 0
            /\ loc' = [loc EXCEPT !.x = s, !.i = @ - 1]
            /\ Goto("estimate")
  <2>1. s \in Nat /\ s < u
    <3>. HIDE DEF x, k, u
    <3>. QED
      BY <1>10, <1>14 DEF Subtracted
  <2>2. Makes(a, NumberOf(q), y, s)
    <3>. HIDE DEF x, k, u, v, y, z, a, q
    <3>. QED
      BY <1>7, <1>11
  <2>. DEFINE e == s
  <2>3. loc' = [loc EXCEPT !.x = e, !.i = loc.i - 1, !.q = q]
    <3>. HIDE DEF e
    <3>1. loc' = [loc EXCEPT !.x = e, !.i = loc.i - 1]
      BY <1>14 DEF e
    <3>2. loc.q = q
      OBVIOUS
    <3>. QED
      BY <1>1, <3>1, <3>2 DEF SchoolRecord
  <2>4. e \in Nat /\ e < u /\ Makes(a, NumberOf(q), y, e) /\ q \in [QPlaces -> Nat]
        /\ \A j \in QPlaces : q[j] <= MP_MASK /\ (j < p => q[j] = 0)
    BY <1>1, <1>4, <2>1, <2>2
  <2>. HIDE DEF e, q, x, k, u, v, y, z, a, p
  <2>. QED
    BY <1>13, <1>14, <2>3, <2>4
<1>15. CASE /\ s < 0
            /\ loc' = [loc EXCEPT !.x = s + u, !.i = @ - 1, !.q[p] = (@ - 1) % Radix]
            /\ Goto("estimate")
  <2>. DEFINE e == s + u
              c == k - 1
              r == [q EXCEPT ![p] = c]
  <2>1. e \in Nat /\ e < u /\ k > 0
    <3>. HIDE DEF x, k, u
    <3>. QED
      BY <1>10, <1>15 DEF Subtracted
  <2>2. c \in Nat /\ c <= MP_MASK /\ (k - 1) % Radix = c
    <3>1. c \in Nat /\ c <= MP_MASK /\ c \in 0 .. Radix - 1
      BY <1>5, <2>1
    <3>2. c % Radix = c
      <4>. HIDE DEF c
      <4>. QED
        BY <1>5, <3>1
    <3>. QED
      BY <3>1, <3>2
  <2>3. r \in [QPlaces -> Nat] /\ r[p] = c /\ \A j \in QPlaces : j # p => r[j] = q[j]
    BY <1>1, <1>3, <2>2
  <2>4. NumberOf(r) = z + c * v
    <3>. DEFINE D == QPlaces
    <3>1. Interval(D) /\ q \in [D -> Int] /\ c \in Int /\ p \in D /\ Changes(r, q, p, c)
      BY <1>1, <1>3, <2>2 DEF Changes
    <3>. HIDE DEF q, p, r, D, c
    <3>2. NumberOf(r) = Rest(q, p) + c * Weight(p)
      BY <3>1, RestKept
    <3>. QED
      BY <3>2
  <2>5. Makes(a, NumberOf(r), y, e)
    <3>1. NumberOf(r) = z + (k - 1) * v
      BY <2>4
    <3>. HIDE DEF x, k, u, v, y, z, a, q, r, p
    <3>. QED
      BY <1>11, <3>1
  <2>6. loc' = [loc EXCEPT !.x = e, !.i = loc.i - 1, !.q = r]
    <3>1. loc' = [loc EXCEPT !.x = e, !.i = loc.i - 1, !.q[p] = c]
      BY <1>15, <2>2
    <3>. HIDE DEF e, c
    <3>. QED
      BY <1>1, <3>1 DEF SchoolRecord
  <2>7. \A j \in QPlaces : r[j] <= MP_MASK /\ (j < p => r[j] = 0)
    <3>1. ASSUME NEW j \in QPlaces PROVE r[j] <= MP_MASK /\ (j < p => r[j] = 0)
      <4>1. j \in Nat /\ p \in Nat
        BY <1>1, <1>3
      <4>2. CASE j = p
        BY <2>2, <2>3, <4>1, <4>2
      <4>3. CASE j # p
        BY <1>4, <2>3, <4>1, <4>3
      <4>. QED
        BY <4>2, <4>3
    <3>. QED
      BY <3>1
  <2>. HIDE DEF e, c, r, q, x, k, u, v, y, z, a, p
  <2>. QED
    BY <1>13, <1>15, <2>1, <2>3, <2>5, <2>6, <2>7
<1>16. CASE Refuse("MEM", LBL_Y)
  BY <1>0, <1>16, DivRefuses
<1>. QED
  BY <1>12, <1>14, <1>15, <1>16

(* The division of the scaled numbers is that of the numbers.              *)
Scales(a, b, s, k, x) == a * s = k * (b * s) + x /\ x < b * s

Unscaled(a, b, s, k, x) == a = k * b + x \div s /\ x \div s \in Nat /\ x \div s < b

LEMMA Unscale ==
  ASSUME NEW a \in Nat, NEW b \in Nat, NEW s \in Nat, s > 0, NEW k \in Int, NEW x \in Nat,
         Scales(a, b, s, k, x)
  PROVE  Unscaled(a, b, s, k, x)
<1>. DEFINE d == x \div s
            m == x % s
            g == k * b + d
<1>0. a * s = k * (b * s) + x /\ x < b * s
  BY DEF Scales
<1>1. d \in Int /\ m \in 0 .. s - 1 /\ x = s * d + m
  BY Division
<1>2. d \in Nat
  OBVIOUS
<1>3. s * g = k * (b * s) + s * d
  <2>. HIDE DEF d
  <2>1. \A i, j, l, n \in Int : i * (j * l + n) = j * (l * i) + i * n
    OBVIOUS
  <2>. QED
    BY <1>2, <2>1
<1>4. g \in Int
  <2>. HIDE DEF d
  <2>. QED
    BY <1>2
<1>5. s * a + 0 = s * g + m
  <2>1. s * a = a * s /\ s * a \in Int /\ k * (b * s) \in Int
    OBVIOUS
  <2>. DEFINE i == k * (b * s)
              j == s * d
              l == s * a
              n == s * g
  <2>2. l = i + x /\ x = j + m /\ n = i + j /\ i \in Int
    BY <1>0, <1>1, <1>3, <2>1
  <2>3. j \in Int /\ m \in Int /\ l \in Int
    <3>. HIDE DEF d, m
    <3>. QED
      BY <1>1
  <2>. HIDE DEF i, j, l, n, m
  <2>4. l + 0 = n + m
    BY <2>2, <2>3
  <2>. QED
    BY <2>4 DEF l, n
<1>6. a = g
  <2>. HIDE DEF g, m
  <2>1. (s * g + m) \div s = g
    BY <1>1, <1>4, DivisionUnique
  <2>2. 0 \in 0 .. s - 1 /\ a \in Int
    OBVIOUS
  <2>3. (s * a + 0) \div s = a
    BY <2>2, DivisionUnique
  <2>. QED
    BY <1>5, <2>1, <2>3
<1>7. d < b
  <2>1. d * s <= x
    <3>. DEFINE j == s * d
    <3>1. d * s = j /\ j \in Int /\ x = j + m /\ m >= 0 /\ m \in Int
      <4>. HIDE DEF d, m
      <4>. QED
        BY <1>1, <1>2
    <3>. HIDE DEF j, m
    <3>. QED
      BY <3>1
  <2>2. d * s \in Nat /\ b * s \in Nat
    <3>. HIDE DEF d
    <3>. QED
      BY <1>2
  <2>3. d * s < b * s
    BY <1>0, <2>1, <2>2
  <2>. HIDE DEF d
  <2>. QED
    BY <1>2, <2>3, MonotoneProduct
<1>. QED
  BY <1>2, <1>6, <1>7 DEF Unscaled

LEMMA SchoolEnds ==
  ASSUME Ownership, DivInv, fr.op \in DivOps, school_end
  PROVE  DivInv'
<1>0. /\ pc = "estimate" /\ loc.i < loc.t + 1
      /\ Results(Sgn(A) * Sgn(B) * NumberOf(loc.q), Sgn(A) * (loc.x \div 2 ^ loc.norm))
      /\ Return("OKAY", LBL_Y)
  BY DEF school_end
<1>1. /\ loc \in SchoolRecord /\ Divisor # 0 /\ Interval(QPlaces)
      /\ loc.x \in Nat /\ loc.t \in Nat /\ loc.i \in Nat /\ loc.norm \in Nat
      /\ loc.q \in [QPlaces -> Int]
  BY <1>0, SchoolFacts DEF SchoolPcs, SchoolRecord
<1>2. /\ Dividend \in Int /\ A = Dividend
      /\ Magnitude(Dividend) \in Nat /\ Magnitude(Divisor) \in Nat
  BY <1>0, DivContext
<1>. DEFINE a == Magnitude(Dividend)
            b == Magnitude(Divisor)
            s == 2 ^ loc.norm
            k == NumberOf(loc.q)
            x == loc.x
            r == x \div s
            g == Sgn(A)
<1>3. s \in Nat /\ s > 0
  BY <1>1, TwoTo
<1>4. k \in Int
  <2>. DEFINE D == QPlaces
              q == loc.q
  <2>1. Interval(D) /\ q \in [D -> Int] /\ 0 \in D
    <3>1. loc.n - loc.t \in D /\ D = 0 .. QSize - 1
      BY <1>0 DEF DivInv, AtEstimate, Scaled, QPlaces
    <3>2. QSize \in Int
      <4>1. Used(Magnitude(Dividend)) \in Nat
        BY <1>2, UsedFacts
      <4>. QED
        BY <4>1 DEF QSize
    <3>. QED
      BY <1>1, <3>1, <3>2
  <2>. HIDE DEF D, q
  <2>2. NumberOf(q) \in Int
    BY <2>1, RestFacts
  <2>. QED
    BY <2>2 DEF q
<1>5. Scales(a, b, s, k, x)
  <2>1. /\ AtEstimate /\ loc.y = b * s /\ ScaledDividend = a * s
    BY <1>0 DEF DivInv, AtEstimate, ScaledDividend, ScaledDivisor
  <2>2. loc.i - loc.t = 0
    BY <1>0, <1>1, <2>1 DEF AtEstimate
  <2>3. loc.y \in Nat
    BY <1>1 DEF SchoolRecord
  <2>4. a * s = k * loc.y + x /\ x < loc.y * Weight(0) /\ Weight(0) = 1
    BY <2>1, <2>2, Weights DEF AtEstimate
  <2>5. x < loc.y
    BY <2>3, <2>4
  <2>. HIDE DEF a, b, s, k, x
  <2>. QED
    BY <2>1, <2>4, <2>5 DEF Scales
<1>6. r \in Nat /\ Splits(Dividend, Divisor, k, r)
  <2>1. Unscaled(a, b, s, k, x)
    <3>. HIDE DEF a, b, s, k, x
    <3>1. a \in Nat /\ b \in Nat /\ x \in Nat
      BY <1>1, <1>2 DEF a, b, x
    <3>. QED
      BY <1>3, <1>4, <1>5, <3>1, Unscale
  <2>. QED
    BY <2>1 DEF Unscaled, Splits
<1>7. g \in {-1, 1} /\ g = Sgn(A)
  BY <1>2, MagnitudeProperties
<1>8. Results(Sgn(A) * Sgn(B) * k, g * r)
  BY <1>0
<1>9. pc # "done" /\ Return("OKAY", LBL_Y)
  BY <1>0
<1>. HIDE DEF k, r, g
<1>. QED
  BY <1>1, <1>4, <1>6, <1>7, <1>8, <1>9, DivEnds

-----------------------------------------------------------------------------
(* s_mp_div_small.  The divisor is moved up below twice the dividend.      *)
MovesUp(a, b, n) == n = mp_count_bits(a) - mp_count_bits(b)

MovedUp(a, b, n) == n \in Nat /\ b * 2 ^ n \in Nat /\ a < 2 * (b * 2 ^ n)

LEMMA MoveUp ==
  ASSUME NEW a \in Nat, NEW b \in Nat, b > 0, b <= a, NEW n \in Int, MovesUp(a, b, n)
  PROVE  MovedUp(a, b, n)
<1>. DEFINE i == mp_count_bits(a)
            j == mp_count_bits(b)
            k == j - 1
<1>1. i \in Nat /\ i > 0 /\ a < 2 ^ i /\ n = i - j
  BY CountBits DEF MovesUp
<1>2. j \in Nat /\ j > 0 /\ k \in Nat /\ 2 ^ k <= b /\ j = k + 1
  <2>1. j \in Nat /\ j > 0 /\ 2 ^ (j - 1) <= b
    BY CountBits
  <2>. HIDE DEF j
  <2>. QED
    BY <2>1
<1>. HIDE DEF i, j, k
<1>3. 2 ^ i \in Nat /\ 2 ^ k \in Nat
  BY <1>1, <1>2, TwoTo
<1>4. ~ (i <= k)
  <2>1. ASSUME i <= k PROVE FALSE
    <3>1. 2 ^ i <= 2 ^ k
      BY <1>1, <1>2, <2>1, TwoToMonotone
    <3>. DEFINE u == 2 ^ i
                v == 2 ^ k
    <3>2. a < u /\ u <= v /\ v <= b /\ u \in Nat /\ v \in Nat
      BY <1>1, <1>2, <1>3, <3>1
    <3>. HIDE DEF u, v
    <3>. QED
      BY <3>2
  <2>. QED
    BY <2>1
<1>5. n \in Nat /\ i = (k + n) + 1 /\ k + n \in Nat
  BY <1>1, <1>2, <1>4
<1>6. 2 ^ n \in Nat /\ 2 ^ n > 0
  BY <1>5, TwoTo
<1>7. 2 ^ i = 2 * (2 ^ k * 2 ^ n)
  <2>1. 2 ^ (k + n) = 2 ^ k * 2 ^ n
    BY <1>2, <1>5, TwoToSum
  <2>2. \A m \in Nat : 2 ^ (m + 1) = 2 * 2 ^ m
    BY TwoTo
  <2>. DEFINE m == k + n
  <2>3. m \in Nat /\ i = m + 1 /\ 2 ^ m = 2 ^ k * 2 ^ n
    BY <1>5, <2>1
  <2>. HIDE DEF m
  <2>. QED
    BY <2>2, <2>3
<1>. DEFINE s == 2 ^ n
            v == 2 ^ k
            w == v * s
            y == b * s
<1>8. v * s <= b * s /\ w \in Nat /\ y \in Nat
  <2>1. s \in Nat /\ v \in Nat /\ v <= b
    BY <1>2, <1>3, <1>6
  <2>. HIDE DEF s, v
  <2>. QED
    BY <2>1, MonotoneProduct, IntegerProducts
<1>9. a < 2 * w /\ w <= y
  BY <1>1, <1>7, <1>8
<1>10. a < 2 * y
  <2>. HIDE DEF w, y
  <2>. QED
    BY <1>8, <1>9
<1>. QED
  BY <1>5, <1>8, <1>10 DEF MovedUp

LEMMA SmallStarts ==
  ASSUME Ownership, DivInv, fr.op \in DivOps, small_init
  PROVE  DivInv'
<1>. DEFINE a == Magnitude(Dividend)
            b == Magnitude(Divisor)
            n == mp_count_bits(A) - mp_count_bits(B)
<1>0. /\ pc = "div" /\ B # 0 /\ Magnitude(A) >= Magnitude(B) /\ fr.routine = "small"
      /\ \/ Refuse("MEM", {})
         \/ /\ loc' = [ta |-> Magnitude(A), tb |-> Magnitude(B) * 2 ^ n, tq |-> 2 ^ n, q |-> 0, n |-> n]
            /\ pc' = "small_loop"
            /\ val' = val /\ fr' = fr /\ old' = old
  BY DEF small_init, Divisible
<1>1. /\ Dividend \in Int /\ Divisor \in Int /\ A = Dividend /\ B = Divisor /\ a \in Nat /\ b \in Nat
  BY <1>0, DivContext
<1>2. CASE Refuse("MEM", {})
  BY <1>0, <1>2, DivRefuses
<1>3. CASE /\ loc' = [ta |-> Magnitude(A), tb |-> Magnitude(B) * 2 ^ n, tq |-> 2 ^ n, q |-> 0, n |-> n]
           /\ pc' = "small_loop"
           /\ val' = val /\ fr' = fr /\ old' = old
  <2>1. b > 0 /\ b <= a /\ Divisor # 0
    BY <1>0, <1>1, MagnitudeProperties
  <2>2. n = mp_count_bits(a) - mp_count_bits(b)
    <3>1. Magnitude(a) = a /\ Magnitude(b) = b
      BY <1>1, MagnitudeProperties
    <3>2. mp_count_bits(A) = mp_count_bits(a) /\ mp_count_bits(B) = mp_count_bits(b)
      BY <1>1, <3>1 DEF mp_count_bits
    <3>. QED
      BY <3>2
  <2>3. mp_count_bits(a) \in Nat /\ mp_count_bits(b) \in Nat
    <3>. HIDE DEF a, b
    <3>. QED
      BY <1>1, <2>1, CountBits
  <2>4. MovedUp(a, b, n)
    <3>1. n \in Int
      BY <2>2, <2>3
    <3>. HIDE DEF n, a, b
    <3>. QED
      BY <1>1, <2>1, <2>2, <3>1, MoveUp DEF MovesUp
  <2>5. n \in Nat /\ 2 ^ n \in Nat /\ b * 2 ^ n \in Nat /\ a < 2 * (b * 2 ^ n)
    <3>. HIDE DEF n, a, b
    <3>. QED
      BY <2>4, TwoTo DEF MovedUp
  <2>6. /\ loc' \in SmallRecord
        /\ loc'.ta = a /\ loc'.tb = b * 2 ^ n /\ loc'.tq = 2 ^ n /\ loc'.q = 0 /\ loc'.n = n
    <3>. DEFINE y == b * 2 ^ n
                s == 2 ^ n
    <3>1. loc' = [ta |-> a, tb |-> y, tq |-> s, q |-> 0, n |-> n]
      BY <1>1, <1>3
    <3>2. y \in Nat /\ s \in Nat /\ n \in Int /\ a \in Nat
      BY <1>1, <2>5
    <3>. HIDE DEF y, s, n, a
    <3>3. /\ loc' \in SmallRecord
          /\ loc'.ta = a /\ loc'.tb = y /\ loc'.tq = s /\ loc'.q = 0 /\ loc'.n = n
      BY <3>1, <3>2 DEF SmallRecord
    <3>. QED
      BY <3>3 DEF y, s
  <2>7. Dividend' = Dividend /\ Divisor' = Divisor
    BY <1>3 DEF Dividend, Divisor
  <2>8. AtSmall'
    <3>1. loc'.n \in Nat /\ loc'.n >= -1 /\ loc'.n # -1
      <4>. HIDE DEF n
      <4>. QED
        BY <2>5, <2>6
    <3>2. Magnitude(Dividend') = loc'.q * Magnitude(Divisor') + loc'.ta
      <4>1. 0 * b + a = a
        <5>. HIDE DEF a, b
        <5>. QED
          BY <1>1
      <4>. QED
        BY <2>6, <2>7, <4>1
    <3>3. loc'.tb = Magnitude(Divisor') * 2 ^ loc'.n /\ loc'.tq = 2 ^ loc'.n /\ loc'.ta < 2 * loc'.tb
      BY <2>5, <2>6, <2>7
    <3>. QED
      BY <2>6, <3>1, <3>2, <3>3 DEF AtSmall, SmallRecord
  <2>9. pc # "done" /\ fr' = fr /\ old' = old /\ val' = val
          /\ Magnitude(Divisor) <= Magnitude(Dividend)
    BY <1>0, <1>3, <2>1
  <2>. HIDE DEF a, b, n
  <2>. QED
    BY <1>0, <1>3, <2>1, <2>8, <2>9, DivStays
<1>. QED
  BY <1>0, <1>2, <1>3

(* A bit of the quotient: the divisor as it is moved, tb, and what it      *)
(* counts, tq.                                                             *)
Bit(a, b, q, ta, tb, tq) == a = q * b + ta /\ tb = tq * b /\ ta < 2 * tb

LEMMA CountBit ==
  ASSUME NEW a \in Nat, NEW b \in Nat, NEW q \in Nat, NEW ta \in Nat, NEW tb \in Nat, NEW tq \in Nat,
         Bit(a, b, q, ta, tb, tq)
  PROVE  /\ tb <= ta => Makes(a, q + tq, b, ta - tb) /\ ta - tb < tb
         /\ ~ (tb <= ta) => Makes(a, q, b, ta) /\ ta < tb
<1>1. a = q * b + ta /\ tb = tq * b /\ ta < 2 * tb
  BY DEF Bit
<1>2. (q + tq) * b = q * b + tq * b
  OBVIOUS
<1>. DEFINE i == q * b
<1>3. i \in Nat /\ a = i + ta /\ (q + tq) * b = i + tb
  BY <1>1, <1>2
<1>. HIDE DEF i
<1>4. a = (i + tb) + (ta - tb)
  BY <1>3
<1>5. Makes(a, q + tq, b, ta - tb)
  BY <1>3, <1>4, Zenon DEF Makes
<1>6. Makes(a, q, b, ta)
  BY <1>1 DEF Makes
<1>7. (tb <= ta => ta - tb < tb) /\ (~ (tb <= ta) => ta < tb)
  <2>1. ta < 2 * tb
    BY <1>1
  <2>. QED
    BY <2>1
<1>. QED
  BY <1>5, <1>6, <1>7

(* Bit n is the next.                                                      *)
Moved(b, tb, tq, n) == tb = b * 2 ^ n /\ tq = 2 ^ n

LEMMA MoveDown ==
  ASSUME NEW b \in Nat, NEW tb \in Nat, NEW tq \in Nat, NEW n \in Nat, Moved(b, tb, tq, n)
  PROVE  /\ tb = tq * b
         /\ n = 0 => tb = b
         /\ n > 0 => Moved(b, tb \div 2, tq \div 2, n - 1) /\ 2 * (tb \div 2) = tb
<1>. DEFINE s == 2 ^ n
<1>1. tb = b * s /\ tq = s /\ s \in Nat
  BY TwoTo DEF Moved
<1>2. tb = tq * b
  <2>. HIDE DEF s
  <2>. QED
    BY <1>1, IntegerProducts
<1>3. n = 0 => tb = b
  <2>1. n = 0 => s = 1
    BY TwoTo
  <2>2. s = 1 => b * s = b
    OBVIOUS
  <2>. HIDE DEF s
  <2>. QED
    BY <1>1, <2>1, <2>2
<1>4. ASSUME n > 0 PROVE Moved(b, tb \div 2, tq \div 2, n - 1) /\ 2 * (tb \div 2) = tb
  <2>. DEFINE m == n - 1
              h == 2 ^ m
  <2>1. m \in Nat /\ n = m + 1
    BY <1>4
  <2>. HIDE DEF m
  <2>2. h \in Nat /\ s = 2 * h
    BY <2>1, TwoTo
  <2>. DEFINE y == b * h
  <2>3. y \in Nat /\ b * s = 2 * y
    <3>. HIDE DEF s, h
    <3>1. b * (2 * h) = 2 * (b * h) /\ b * h \in Nat
      BY <2>2
    <3>. QED
      BY <2>2, <3>1
  <2>4. tb = 2 * y /\ tq = 2 * h
    BY <1>1, <2>2, <2>3
  <2>5. tb \div 2 = y /\ tq \div 2 = h /\ 2 * (tb \div 2) = tb
    <3>. HIDE DEF y, h, s
    <3>. QED
      BY <2>2, <2>3, <2>4
  <2>. QED
    BY <2>5 DEF Moved, m
<1>. QED
  BY <1>2, <1>3, <1>4

LEMMA SmallRounds ==
  ASSUME Ownership, DivInv, fr.op \in DivOps, small_round
  PROVE  DivInv'
<1>. DEFINE a == Magnitude(Dividend)
            b == Magnitude(Divisor)
            ta == loc.ta
            tb == loc.tb
            tq == loc.tq
            q == loc.q
            n == loc.n
            fits == tb <= ta
            g == IF fits THEN q + tq ELSE q
            e == IF fits THEN ta - tb ELSE ta
<1>0. /\ pc = "small_loop" /\ n >= 0
      /\ \/ /\ loc' = [loc EXCEPT !.ta = e, !.q = g, !.tb = tb \div 2, !.tq = tq \div 2, !.n = n - 1]
            /\ Goto("small_loop")
         \/ Refuse("MEM", SmallTemps)
  BY DEF small_round
<1>1. /\ fr.routine = "small" /\ Divisor # 0 /\ Magnitude(Divisor) <= Magnitude(Dividend)
      /\ AtSmall /\ a \in Nat /\ b \in Nat
  BY <1>0, DivContext DEF DivInv
<1>2. /\ loc \in SmallRecord /\ ta \in Nat /\ tb \in Nat /\ tq \in Nat /\ q \in Nat /\ n \in Nat
  BY <1>0, <1>1 DEF AtSmall, SmallRecord
<1>3. Moved(b, tb, tq, n) /\ Makes(a, q, b, ta) /\ ta < 2 * tb
  BY <1>0, <1>1 DEF AtSmall, Moved, Makes
<1>4. /\ tb = tq * b
      /\ n = 0 => tb = b
      /\ n > 0 => Moved(b, tb \div 2, tq \div 2, n - 1) /\ 2 * (tb \div 2) = tb
  <2>. HIDE DEF a, b, ta, tb, tq, q, n
  <2>. QED
    BY <1>1, <1>2, <1>3, MoveDown
<1>5. g \in Nat /\ e \in Nat /\ Makes(a, g, b, e) /\ e < tb
  <2>. HIDE DEF a, b, ta, tb, tq, q, n
  <2>1. Bit(a, b, q, ta, tb, tq)
    BY <1>3, <1>4 DEF Bit, Makes
  <2>2. /\ tb <= ta => Makes(a, q + tq, b, ta - tb) /\ ta - tb < tb
        /\ ~ (tb <= ta) => Makes(a, q, b, ta) /\ ta < tb
    BY <1>1, <1>2, <2>1, CountBit
  <2>3. g \in Nat /\ e \in Nat
    BY <1>2
  <2>. QED
    BY <2>2, <2>3
<1>6. CASE /\ loc' = [loc EXCEPT !.ta = e, !.q = g, !.tb = tb \div 2, !.tq = tq \div 2, !.n = n - 1]
           /\ Goto("small_loop")
  <2>. DEFINE u == tb \div 2
              v == tq \div 2
              m == n - 1
  <2>1. u \in Nat /\ v \in Nat /\ m \in Int /\ m >= -1
    <3>. HIDE DEF tb, tq, n
    <3>. QED
      BY <1>2
  <2>2. loc' = [loc EXCEPT !.ta = e, !.q = g, !.tb = u, !.tq = v, !.n = m]
    BY <1>6
  <2>3. (n > 0 => Moved(b, u, v, m) /\ 2 * u = tb) /\ (n > 0 <=> m >= 0) /\ (m = -1 => n = 0)
    <3>1. (n > 0 <=> m >= 0) /\ (m = -1 => n = 0)
      <4>. HIDE DEF n
      <4>. QED
        BY <1>2
    <3>. QED
      BY <1>4, <3>1
  <2>. HIDE DEF u, v, m, e, g
  <2>4. /\ loc' \in SmallRecord
        /\ loc'.ta = e /\ loc'.tb = u /\ loc'.tq = v /\ loc'.q = g /\ loc'.n = m
    BY <1>2, <1>5, <2>1, <2>2 DEF SmallRecord
  <2>5. /\ Dividend' = Dividend /\ Divisor' = Divisor
        /\ fr' = fr /\ old' = old /\ val' = val /\ pc' = "small_loop" /\ pc # "done"
    BY <1>0, <1>6 DEF Goto, Dividend, Divisor
  <2>6. AtSmall'
    <3>1. Magnitude(Dividend') = loc'.q * Magnitude(Divisor') + loc'.ta
      BY <1>5, <2>4, <2>5 DEF Makes
    <3>2. m >= 0 => u = b * 2 ^ m /\ v = 2 ^ m /\ e < 2 * u
      BY <1>5, <2>3 DEF Moved
    <3>3. m >= 0 => /\ loc'.tb = Magnitude(Divisor') * 2 ^ loc'.n /\ loc'.tq = 2 ^ loc'.n
                    /\ loc'.ta < 2 * loc'.tb
      BY <2>4, <2>5, <3>2
    <3>4. m = -1 => loc'.ta < Magnitude(Divisor')
      BY <1>4, <1>5, <2>3, <2>4, <2>5
    <3>. QED
      BY <2>1, <2>4, <3>1, <3>3, <3>4 DEF AtSmall, SmallRecord
  <2>. QED
    BY <1>1, <2>5, <2>6, DivStays
<1>7. CASE Refuse("MEM", SmallTemps)
  BY <1>0, <1>7, DivRefuses
<1>. QED
  BY <1>0, <1>6, <1>7

LEMMA SmallEnds ==
  ASSUME Ownership, DivInv, fr.op \in DivOps, small_end
  PROVE  DivInv'
<1>. DEFINE a == Magnitude(Dividend)
            b == Magnitude(Divisor)
            k == loc.q
            r == loc.ta
            p == Sgn(A) * Sgn(B) * k
            w == IF fr.a = fr.d THEN r ELSE IF fr.a = fr.c THEN p ELSE A
            s == Sgn(w)
<1>0. /\ pc = "small_loop" /\ loc.n < 0 /\ Results(p, s * r) /\ Return("OKAY", SmallTemps)
  BY DEF small_end
<1>1. /\ fr.routine = "small" /\ Divisor # 0 /\ b <= a
      /\ AtSmall /\ a \in Nat /\ b \in Nat
      /\ Dividend \in Int /\ Divisor \in Int /\ A = Dividend /\ B = Divisor
  BY <1>0, DivContext DEF DivInv
<1>2. k \in Nat /\ r \in Nat /\ a = k * b + r /\ r < b /\ b > 0
  <2>1. k \in Nat /\ r \in Nat /\ loc.n \in Int /\ a = k * b + r /\ loc.n >= -1
          /\ (loc.n = -1 => r < b)
    BY <1>1 DEF AtSmall, SmallRecord
  <2>2. loc.n = -1
    BY <1>0, <2>1
  <2>3. r < b
    BY <2>1, <2>2
  <2>. HIDE DEF a, b, k, r
  <2>. QED
    BY <1>1, <2>1, <2>3
<1>3. k > 0
  <2>. HIDE DEF a, b, k, r
  <2>1. k = 0 => k * b = 0
    BY <1>1
  <2>2. k = 0 => a = r
    BY <1>1, <1>2, <2>1
  <2>. QED
    BY <1>1, <1>2, <2>2
<1>4. /\ Sgn(A) \in {-1, 1} /\ Sgn(B) \in {-1, 1}
  BY <1>1, MagnitudeProperties
<1>5. p \in Int
  <2>. DEFINE g == Sgn(A) * Sgn(B)
  <2>1. g \in Int
    BY <1>4
  <2>2. p = g * k
    OBVIOUS
  <2>. HIDE DEF g, k, p
  <2>. QED
    BY <1>2, <2>1, <2>2
<1>6. s \in {-1, 1}
  <2>. HIDE DEF p
  <2>1. w \in Int
    BY <1>1, <1>2, <1>5
  <2>. HIDE DEF w
  <2>. QED
    BY <2>1, MagnitudeProperties
<1>7. s = Sgn(A) \/ r = 0 \/ fr.d = NULL \/ SignLost
  <2>1. CASE fr.a # fr.c /\ fr.a # fr.d
    BY <2>1
  <2>2. CASE fr.a = fr.c /\ Divisor < 0
    BY <1>1, <2>2 DEF SignLost
  <2>4. CASE fr.a = fr.d
    <3>1. Dividend < 0 => SignLost
      BY <1>1, <2>4 DEF SignLost
    <3>2. ~ (Dividend < 0) => Sgn(A) = 1
      BY <1>1 DEF Sgn
    <3>3. s = 1
      <4>1. w = r
        BY <2>4
      <4>. HIDE DEF w, r
      <4>. QED
        BY <1>2, <4>1 DEF Sgn
    <3>. QED
      BY <3>1, <3>2, <3>3
  <2>3. CASE fr.a = fr.c /\ fr.a # fr.d /\ ~ (Divisor < 0)
    <3>1. Sgn(B) = 1
      BY <1>1, <2>3 DEF Sgn
    <3>2. p = Sgn(A) * k
      BY <1>4, <3>1
    <3>. HIDE DEF k, p
    <3>3. Sgn(p) = Sgn(A)
      <4>1. CASE A < 0
        <5>1. Sgn(A) = -1
          BY <4>1 DEF Sgn
        <5>2. p < 0
          BY <1>2, <1>3, <3>2, <5>1
        <5>. QED
          BY <5>1, <5>2 DEF Sgn
      <4>2. CASE ~ (A < 0)
        <5>1. Sgn(A) = 1
          BY <4>2 DEF Sgn
        <5>2. ~ (p < 0)
          BY <1>2, <1>3, <3>2, <5>1
        <5>. QED
          BY <5>1, <5>2 DEF Sgn
      <4>. QED
        BY <4>1, <4>2
    <3>4. w = p
      BY <2>3
    <3>. QED
      BY <3>3, <3>4
  <2>. QED
    BY <2>1, <2>2, <2>3, <2>4
<1>8. Splits(Dividend, Divisor, k, r)
  BY <1>2 DEF Splits
<1>9. Results(Sgn(A) * Sgn(B) * k, s * r) /\ pc # "done" /\ Return("OKAY", SmallTemps) /\ k \in Int
  BY <1>0, <1>2
<1>. HIDE DEF s, k, r
<1>. QED
  BY <1>1, <1>2, <1>6, <1>7, <1>8, <1>9, DivEnds

-----------------------------------------------------------------------------
LEMMA DivInvKept ==
  ASSUME Ownership, DivInv, DivNext
  PROVE  DivInv'
<1>1. fr.op \in DivOps
  BY StepsAtHome
<1>2. CASE mp_div_refused
  <2>1. pc # "done" /\ Refuse("VAL", {})
    BY <1>2 DEF mp_div_refused
  <2>. QED
    BY <1>1, <2>1, DivRefuses
<1>. QED
  BY <1>1, <1>2, DivSmaller, SchoolStarts, SchoolNormalises, SchoolTop, SchoolEstimates,
     SchoolCorrects, SchoolSubtracts, SchoolEnds, SmallStarts, SmallRounds, SmallEnds DEF DivNext

LEMMA DivInvInductive ==
  ASSUME Ownership, DivInv, [Next]_vars
  PROVE  DivInv'
<1>1. CASE DivNext
  BY <1>1, DivInvKept
<1>2. CASE GcdNext \/ RootNext \/ InverseNext \/ PowerNext \/ ResidueNext
  <2>1. fr'.op \notin DivOps
    BY <1>2, StepsAtHome DEF GcdOps, DivOps, RootOps, InverseOps, PowerOps, ResidueOps
  <2>. QED
    BY <2>1 DEF DivInv
<1>3. CASE UNCHANGED vars
  <2>1. /\ Dividend' = Dividend /\ Divisor' = Divisor /\ QPlaces' = QPlaces
        /\ fr' = fr /\ old' = old /\ val' = val /\ pc' = pc /\ loc' = loc /\ err' = err
    BY <1>3 DEF vars, Dividend, Divisor, QPlaces, QSize
  <2>2. ScaledDividend' = ScaledDividend /\ ScaledDivisor' = ScaledDivisor /\ Place' = Place
          /\ SchoolRecord' = SchoolRecord
    BY <2>1 DEF ScaledDividend, ScaledDivisor, Place, SchoolRecord
  <2>3. Scaled' = Scaled
    BY <2>1, <2>2 DEF Scaled
  <2>4. AtNormalise' = AtNormalise /\ AtTop' = AtTop /\ AtEstimate' = AtEstimate
          /\ AtDigit' = AtDigit /\ FromTwo' = FromTwo /\ AtSmall' = AtSmall
    BY <2>1, <2>2, <2>3 DEF AtNormalise, AtTop, AtEstimate, AtDigit, FromTwo, AtSmall
  <2>5. DivCorrect' = DivCorrect
    <3>1. SignLost' = SignLost
      BY <2>1 DEF SignLost
    <3>2. Divided' = Divided
      BY <2>1 DEF Divided, Succeeded, Done
    <3>. QED
      BY <2>1, <3>1, <3>2 DEF DivCorrect
  <2>. QED
    BY <2>1, <2>2, <2>4, <2>5 DEF DivInv
<1>. QED
  BY <1>1, <1>2, <1>3 DEF Next

LEMMA DivInvInit ==
  ASSUME Init
  PROVE  DivInv
<1>1. fr \in Frames /\ val \in Contents(fr) /\ old = val /\ pc = fr.op
  BY DEF Init
<1>2. val \in [Ints -> Int]
  BY <1>1, ContentsAssumption
<1>. QED
  BY <1>1, <1>2 DEF DivInv, DivOps, SchoolPcs

LEMMA DivKept == Spec => []DivInv
<1>1. Init => DivInv
  BY DivInvInit
<1>2. Ownership /\ DivInv /\ [Next]_vars => DivInv'
  BY DivInvInductive
<1>. QED
  BY <1>1, <1>2, Owned, PTL DEF Spec

(* Only mp_div is where the loops of mp_div are.                           *)
LEMMA AtHomeInDiv ==
  ASSUME Ownership, pc \in SchoolPcs \cup {"small_loop"}
  PROVE  fr.op \in DivOps
<1>1. fr.op \in GcdOps \cup DivOps \cup RootOps \cup InverseOps \cup PowerOps \cup ResidueOps
  BY Operations DEF Ownership
<1>2. fr.op \notin GcdOps /\ fr.op \notin RootOps
  BY DEF Ownership, GcdOwns, RootOwns, SchoolPcs
<1>3. fr.op \notin InverseOps /\ fr.op \notin PowerOps /\ fr.op \notin ResidueOps
  BY DEF Ownership, InverseOwns, InvPcs, PowerOwns, ResidueOwns, SchoolPcs
<1>. QED
  BY <1>1, <1>2, <1>3

(* mp_div leaves the truncated quotient and a remainder of the sign of the *)
(* dividend, by s_mp_div_school or s_mp_div_small, operands replaced or    *)
(* not, but for the case DivCorrect names.                                 *)
THEOREM QuotientsAndRemainders == Spec => []DivCorrect
<1>1. Ownership /\ DivInv => DivCorrect
  BY DEF DivInv, DivOps, DivCorrect, Divided, Succeeded, Done
<1>. QED
  BY <1>1, Owned, DivKept, PTL

(* The estimate of a digit of s_mp_div_school is never below the digit,    *)
(* and once corrected at most one above it, which is what the one addition *)
(* of the divisor makes up for.                                            *)
THEOREM EstimateIsClose == Spec => []EstimateClose
<1>1. Ownership /\ DivInv => EstimateClose
  <2>. SUFFICES ASSUME Ownership, DivInv, pc \in {"correct", "subtract"} PROVE EstimateClose
    BY DEF EstimateClose
  <2>1. fr.op \in DivOps
    BY AtHomeInDiv DEF SchoolPcs
  <2>. QED
    BY <2>1 DEF DivInv, AtDigit, EstimateClose
<1>. QED
  BY <1>1, Owned, DivKept, PTL

(* The digits of the quotient fit their places, and no subtraction of      *)
(* mp_div leaves a negative number.                                        *)
THEOREM DivTypeCorrect == Spec => []DivTypeOK
<1>1. Ownership /\ DivInv => DivTypeOK
  <2>. SUFFICES ASSUME Ownership, DivInv PROVE DivTypeOK
    OBVIOUS
  <2>1. MP_MASK \in Nat
    BY TwoDigits
  <2>2. ASSUME pc \in {"top", "estimate", "correct", "subtract"}
        PROVE  loc.x \in Nat /\ \A k \in DOMAIN loc.q : loc.q[k] \in 0 .. MP_MASK
    <3>1. fr.op \in DivOps
      BY <2>2, AtHomeInDiv DEF SchoolPcs
    <3>2. /\ loc \in SchoolRecord /\ loc.q \in [QPlaces -> Nat] /\ loc.x \in Nat /\ loc.y \in Nat
          /\ loc.t \in Nat /\ loc.n \in Nat /\ QPlaces \subseteq Nat
      BY <2>2, <3>1, SchoolFacts DEF SchoolPcs
    <3>3. \A k \in QPlaces : loc.q[k] <= MP_MASK
      <4>1. CASE pc = "top"
        <5>. DEFINE p == loc.n - loc.t
                    c == loc.q[p]
                    a == ScaledDividend
                    y == ScaledDivisor
        <5>1. AtTop /\ Scaled
          BY <3>1, <4>1 DEF DivInv, AtTop
        <5>2. /\ p \in QPlaces /\ p \in Nat /\ c \in Nat /\ a \in Nat /\ y \in Nat
              /\ loc.n = loc.t + p
          BY <3>2, <5>1 DEF Scaled
        <5>3. CountsTop(a, c, loc.y, loc.x, y, loc.t, p, loc.n)
          BY <5>1, <5>2 DEF CountsTop, Scaled, AtTop
        <5>4. c <= MP_MASK
          <6>. HIDE DEF c, a, y, p
          <6>1. TopCounted(c, loc.y, y, p)
            BY <3>2, <5>2, <5>3, LeadingCount
          <6>. QED
            BY <6>1 DEF TopCounted
        <5>5. \A k \in QPlaces : k # p => loc.q[k] = 0
          BY <5>1 DEF AtTop
        <5>. QED
          BY <2>1, <5>4, <5>5
      <4>2. CASE pc = "estimate"
        BY <3>1, <4>2 DEF DivInv, AtEstimate
      <4>3. CASE pc \in {"correct", "subtract"}
        BY <3>1, <4>3 DEF DivInv, AtDigit
      <4>. QED
        BY <2>2, <4>1, <4>2, <4>3
    <3>4. DOMAIN loc.q = QPlaces
      BY <3>2
    <3>5. \A k \in QPlaces : loc.q[k] \in Nat
      BY <3>2
    <3>6. \A k \in QPlaces : loc.q[k] \in 0 .. MP_MASK
      BY <2>1, <3>3, <3>5
    <3>. QED
      BY <3>2, <3>4, <3>6, Zenon
  <2>3. ASSUME pc = "small_loop" PROVE loc.ta \in Nat /\ loc.tb \in Nat
    <3>1. fr.op \in DivOps
      BY <2>3, AtHomeInDiv
    <3>. QED
      BY <2>3, <3>1 DEF DivInv, AtSmall, SmallRecord
  <2>. QED
    BY <2>2, <2>3 DEF DivTypeOK
<1>. QED
  BY <1>1, Owned, DivKept, PTL

(* Between the digits, or the bits, what has been counted of the quotient  *)
(* and what is left of the dividend make the dividend.                     *)
THEOREM DivLoops == Spec => []DivLoopInvariant
<1>1. Ownership /\ DivInv => DivLoopInvariant
  <2>. SUFFICES ASSUME Ownership, DivInv PROVE DivLoopInvariant
    OBVIOUS
  <2>1. pc = "estimate" => AtEstimate
    BY AtHomeInDiv DEF DivInv, SchoolPcs
  <2>2. pc = "small_loop" => AtSmall
    BY AtHomeInDiv DEF DivInv
  <2>. QED
    BY <2>1, <2>2 DEF DivLoopInvariant, AtEstimate, AtSmall, ScaledDividend, ScaledDivisor
<1>. QED
  BY <1>1, Owned, DivKept, PTL

-----------------------------------------------------------------------------
(* The modular functions, which have a specification of their own: the     *)
(* residue by the modulus, for all integers and every way of aliasing the  *)
(* operands with the destination, if the destination is not the modulus.   *)
LEMMA MultipleMod ==
  ASSUME NEW m \in Nat, m > 0, NEW q \in Int
  PROVE  (q * m) % m = 0
<1>. DEFINE n == q * m
            p == n \div m
            r == n % m
<1>1. n \in Int
  OBVIOUS
<1>2. p \in Int /\ r \in Nat /\ r < m /\ n = p * m + r
  BY <1>1
<1>3. (q - p) * m = r
  <2>1. (q - p) * m = q * m - p * m /\ q * m \in Int /\ p * m \in Int
    BY <1>2
  <2>. QED
    BY <1>2, <2>1
<1>. HIDE DEF p, r
<1>4. q - p >= 1 => (q - p) * m >= m
  BY <1>2
<1>5. q - p <= -1 => (q - p) * m <= -m
  BY <1>2
<1>6. q - p = 0
  BY <1>2, <1>3, <1>4, <1>5
<1>7. r = 0
  BY <1>2, <1>3, <1>6
<1>. QED
  BY <1>7 DEF r

(* The remainder of the division that truncates.                           *)
LEMMA RemainderFacts ==
  ASSUME NEW n \in Int, NEW m \in Int, m # 0
  PROVE  LET r == Remainder(n, m)
             w == Magnitude(m)
         IN  /\ r \in Int /\ w \in Nat /\ w > 0 /\ -w < r /\ r < w
             /\ r > 0 => n > 0
             /\ r < 0 => n < 0
             /\ \E q \in Int : n - r = q * w
<1>. DEFINE w == Magnitude(m)
            k == Magnitude(n)
            p == k \div w
            t == k % w
            s == Sgn(n)
            r == Remainder(n, m)
<1>1. w \in Nat /\ w > 0
  BY DEF Magnitude, Sgn
<1>2. k \in Nat /\ s \in Int /\ n = s * k /\ (s = 1 \/ s = -1) /\ (s = 1 => n >= 0)
      /\ (s = -1 => n < 0)
  BY DEF Magnitude, Sgn
<1>. HIDE DEF w, k, s
<1>3. p \in Int /\ t \in Nat /\ t < w /\ k = p * w + t
  BY <1>1, <1>2
<1>4. r = s * t
  BY DEF Remainder, w, k, s
<1>. HIDE DEF p, t, r
<1>5. r \in Int /\ -w < r /\ r < w
  BY <1>1, <1>2, <1>3, <1>4
<1>6. (r > 0 => n > 0) /\ (r < 0 => n < 0)
  <2>1. p * w \in Int /\ (p < 0 => p * w <= -w)
    BY <1>1, <1>3
  <2>2. k >= t
    <3>1. p >= 0
      BY <1>1, <1>2, <1>3, <2>1
    <3>2. p * w >= 0
      BY <1>1, <1>3, <3>1
    <3>. QED
      BY <1>2, <1>3, <2>1, <3>2
  <2>. QED
    BY <1>2, <1>3, <1>4, <2>2
<1>7. n - r = (s * p) * w
  <2>1. CASE s = 1
    BY <1>1, <1>2, <1>3, <1>4, <2>1
  <2>2. CASE s = -1
    BY <1>1, <1>2, <1>3, <1>4, <2>2
  <2>. QED
    BY <1>2, <2>1, <2>2
<1>8. s * p \in Int
  BY <1>2, <1>3
<1>. QED
  BY <1>1, <1>5, <1>6, <1>7, <1>8 DEF w, r

(* mp_mod adds the modulus to a remainder of the other sign.               *)
LEMMA Adjusted ==
  ASSUME NEW n \in Int, NEW m \in Int, m # 0
  PROVE  LET r == Remainder(n, m)
         IN  /\ r = 0 \/ Sgn(r) = Sgn(m) => IsResidue(r, n, m)
             /\ r # 0 /\ Sgn(r) # Sgn(m) => IsResidue(m + r, n, m)
<1>. DEFINE r == Remainder(n, m)
            w == Magnitude(m)
<1>1. /\ r \in Int /\ w \in Nat /\ w > 0 /\ -w < r /\ r < w
      /\ \E q \in Int : n - r = q * w
  BY RemainderFacts
<1>2. m = w \/ m = -w
  BY DEF Magnitude, Sgn
<1>. HIDE DEF r, w
<1>3. PICK q \in Int : n - r = q * w
  BY <1>1
<1>4. (n - r) % w = 0
  BY <1>1, <1>3, MultipleMod
<1>5. (n - (m + r)) % w = 0
  <2>1. CASE m = w
    <3>1. n - (m + r) = (q - 1) * w
      BY <1>1, <1>3, <2>1
    <3>. QED
      BY <1>1, <3>1, MultipleMod
  <2>2. CASE m = -w
    <3>1. n - (m + r) = (q + 1) * w
      BY <1>1, <1>3, <2>2
    <3>. QED
      BY <1>1, <3>1, MultipleMod
  <2>. QED
    BY <1>2, <2>1, <2>2
<1>6. ASSUME r = 0 \/ Sgn(r) = Sgn(m) PROVE IsResidue(r, n, m)
  <2>1. IF m > 0 THEN 0 <= r /\ r < m ELSE m < r /\ r <= 0
    BY <1>1, <1>2, <1>6 DEF Sgn
  <2>. QED
    BY <1>4, <2>1 DEF IsResidue, w
<1>7. ASSUME r # 0, Sgn(r) # Sgn(m) PROVE IsResidue(m + r, n, m)
  <2>1. IF m > 0 THEN 0 <= m + r /\ m + r < m ELSE m < m + r /\ m + r <= 0
    BY <1>1, <1>2, <1>7 DEF Sgn
  <2>. QED
    BY <1>5, <2>1 DEF IsResidue, w
<1>. QED
  BY <1>6, <1>7 DEF r

(* The invariant: until the last step the structure that will be divided   *)
(* holds the sum, difference or product, and the modulus is untouched.     *)
ModularProgress ==
  /\ pc \in ModularOps \ {"mod"} => fr.op = pc /\ val = old
  /\ fr.d # fr.m =>
       /\ val[fr.m] = GivenModulus
       /\ pc = "mod" => val[Reducing] = Unreduced /\ (fr.op = "mod" => val[fr.d] = old[fr.d])
       /\ pc = "mod_adjust" => GivenModulus # 0 /\ val[fr.d] = Remainder(Unreduced, GivenModulus)

ModularInv == ModularTypeOK /\ ModularProgress /\ ReducedApart /\ RefusedOnlyForZero

LEMMA ModularFrameFacts ==
  ASSUME ModularTypeOK
  PROVE  /\ fr.op \in ModularOps /\ fr.a \in Ints /\ fr.b \in Ints /\ fr.m \in Ints /\ fr.d \in Ints
         /\ A \in Int /\ B \in Int
         /\ \A x \in Ints : val[x] \in Int /\ old[x] \in Int
         /\ GivenModulus \in Int /\ Unreduced \in Int
BY DEF ModularTypeOK, ModularFrames, A, B, GivenModulus, Unreduced, ModularOps

(* The numbers a step may leave in the destination are integers.           *)
LEMMA ModularFailedFacts ==
  ASSUME ModularTypeOK, NEW a \in Int, NEW b \in Int, NEW d \in Ints
  PROVE  /\ FailedSum(d, a, b) \in Int
         /\ \A same : FailedProducts(val[d], a, b, same) \subseteq Int
<1>1. val[d] \in Int
  BY ModularFrameFacts
<1>2. \A n \in Int : Sgn(n) \in {-1, 1}
  BY DEF Sgn
<1>3. Magnitude(val[d]) \in Int
  BY <1>1, <1>2 DEF Magnitude
<1>4. \A s \in {-1, 1} : s * Magnitude(val[d]) \in Int
  BY <1>3
<1>5. FailedSum(d, a, b) \in Int
  BY <1>2, <1>4 DEF FailedSum
<1>6. ASSUME NEW same, NEW x \in FailedProducts(val[d], a, b, same) PROVE x \in Int
  BY <1>1, FailedProductFacts
<1>. QED
  BY <1>5, <1>6

LEMMA ModularInitially == ModularInit => ModularInv
<1>. SUFFICES ASSUME ModularInit PROVE ModularInv
  OBVIOUS
<1>1. ModularTypeOK
  BY ValuesAssumption DEF ModularInit, ModularTypeOK, ModularFrames
<1>2. pc # "done" /\ pc = fr.op /\ fr.op \in ModularOps /\ val = old
  BY DEF ModularInit, ModularFrames, ModularOps
<1>3. ModularProgress
  BY <1>2 DEF ModularProgress, Reducing, Unreduced, GivenModulus, ModularOps
<1>. QED
  BY <1>1, <1>2, <1>3 DEF ModularInv, ReducedApart, Reduced, RefusedOnlyForZero

(* A call that allocates fails.                                            *)
LEMMA ModularFails ==
  ASSUME ModularInv, NEW n \in Int, NEW cleared,
         Put(fr.d, n) \/ UNCHANGED val, Return("MEM", cleared)
  PROVE  ModularInv'
<1>1. ModularTypeOK /\ ModularProgress /\ fr.d \in Ints /\ fr.m \in Ints
  BY ModularFrameFacts DEF ModularInv
<1>2. pc' = "done" /\ err' = "MEM" /\ fr' = fr /\ old' = old
  BY DEF Return
<1>3. val' \in [Ints -> Int] /\ (fr.d # fr.m => val'[fr.m] = val[fr.m])
  BY <1>1 DEF ModularTypeOK, Put
<1>4. ModularTypeOK'
  BY <1>1, <1>2, <1>3 DEF ModularTypeOK
<1>5. ModularProgress'
  BY <1>1, <1>2, <1>3 DEF ModularProgress, ModularOps, GivenModulus
<1>. QED
  BY <1>2, <1>4, <1>5 DEF ModularInv, ReducedApart, Reduced, RefusedOnlyForZero

(* The sum, difference or product.                                         *)
LEMMA CombineStep ==
  ASSUME ModularInv, NEW op \in ModularOps \ {"mod"}, NEW result \in Int, NEW failed \in SUBSET Int,
         Combine(op, result, failed), pc = op /\ fr.op = op /\ val = old => result = Unreduced
  PROVE  ModularInv'
<1>1. ModularTypeOK /\ ModularProgress /\ fr.d \in Ints /\ fr.m \in Ints
  BY ModularFrameFacts DEF ModularInv
<1>2. pc = op /\ fr.op = op /\ val = old
  BY <1>1 DEF Combine, ModularProgress
<1>3. CASE Store(result, "mod")
  <2>1. /\ val' = [val EXCEPT ![fr.d] = result] /\ pc' = "mod" /\ err' = err
        /\ fr' = fr /\ old' = old
    BY <1>3 DEF Store, Put
  <2>2. GivenModulus' = GivenModulus /\ Unreduced' = Unreduced /\ Reducing' = fr.d
    BY <1>2, <2>1 DEF GivenModulus, Unreduced, Reducing
  <2>3. ModularTypeOK'
    BY <1>1, <2>1 DEF ModularTypeOK, ModularOps
  <2>4. val'[fr.d] = result /\ (fr.d # fr.m => val'[fr.m] = val[fr.m])
    BY <1>1, <2>1 DEF ModularTypeOK
  <2>5. result = Unreduced
    BY <1>2
  <2>6. ModularProgress'
    BY <1>1, <1>2, <2>1, <2>2, <2>4, <2>5 DEF ModularProgress, ModularOps
  <2>. QED
    BY <2>1, <2>3, <2>6 DEF ModularInv, ReducedApart, Reduced, RefusedOnlyForZero
<1>4. ASSUME NEW n \in failed, Put(fr.d, n), Return("MEM", {}) PROVE ModularInv'
  BY <1>4, ModularFails
<1>. QED
  BY <1>3, <1>4 DEF Combine

LEMMA CombineSteps ==
  ASSUME ModularInv, mp_addmod \/ mp_submod \/ mp_mulmod \/ mp_sqrmod
  PROVE  ModularInv'
<1>1. ModularTypeOK /\ A \in Int /\ B \in Int /\ fr.d \in Ints /\ -B \in Int
  BY ModularFrameFacts DEF ModularInv
<1>2. A + B \in Int /\ A - B \in Int /\ A * B \in Int /\ A * A \in Int
  BY <1>1
<1>3. /\ FailedSum(fr.d, A, B) \in Int /\ FailedSum(fr.d, A, -B) \in Int
      /\ FailedProducts(val[fr.d], A, B, fr.a = fr.b) \in SUBSET Int
      /\ FailedProducts(val[fr.d], A, A, TRUE) \in SUBSET Int
  BY <1>1, ModularFailedFacts
<1>4. CASE mp_addmod
  <2>1. fr.op = "addmod" /\ val = old => A + B = Unreduced
    BY DEF Unreduced, A, B
  <2>. QED
    BY <1>2, <1>3, <1>4, <2>1, CombineStep DEF mp_addmod, ModularOps
<1>5. CASE mp_submod
  <2>1. fr.op = "submod" /\ val = old => A - B = Unreduced
    BY DEF Unreduced, A, B
  <2>. QED
    BY <1>2, <1>3, <1>5, <2>1, CombineStep DEF mp_submod, ModularOps
<1>6. CASE mp_mulmod
  <2>1. fr.op = "mulmod" /\ val = old => A * B = Unreduced
    BY DEF Unreduced, A, B
  <2>. QED
    BY <1>2, <1>3, <1>6, <2>1, CombineStep DEF mp_mulmod, ModularOps
<1>7. CASE mp_sqrmod
  <2>1. fr.op = "sqrmod" /\ val = old => A * A = Unreduced
    BY DEF Unreduced, A
  <2>. QED
    BY <1>2, <1>3, <1>7, <2>1, CombineStep DEF mp_sqrmod, ModularOps
<1>. QED
  BY <1>4, <1>5, <1>6, <1>7

LEMMA ModStep ==
  ASSUME ModularInv, mp_mod
  PROVE  ModularInv'
<1>1. ModularTypeOK /\ ModularProgress /\ pc = "mod"
  BY DEF ModularInv, mp_mod
<1>2. fr.d \in Ints /\ fr.m \in Ints /\ Reducing \in Ints /\ val[Reducing] \in Int /\ val[fr.m] \in Int
  BY <1>1, ModularFrameFacts DEF Reducing
<1>3. CASE val[fr.m] = 0 /\ Refuse("VAL", {})
  <2>1. pc' = "done" /\ err' = "VAL" /\ val' = val /\ fr' = fr /\ old' = old
    BY <1>3 DEF Refuse, Return
  <2>2. GivenModulus' = GivenModulus /\ Unreduced' = Unreduced
    BY <2>1 DEF GivenModulus, Unreduced
  <2>3. ModularTypeOK'
    BY <1>1, <2>1 DEF ModularTypeOK
  <2>4. ModularProgress' /\ ReducedApart'
    BY <1>1, <2>1, <2>2 DEF ModularProgress, ModularOps, ReducedApart, Reduced
  <2>5. RefusedOnlyForZero'
    BY <1>1, <1>3, <2>1, <2>2 DEF ModularProgress, RefusedOnlyForZero, Reducing
  <2>. QED
    BY <2>3, <2>4, <2>5 DEF ModularInv
<1>4. CASE Refuse("MEM", {})
  BY <1>4, ModularFails DEF Refuse
<1>. DEFINE r == Remainder(val[Reducing], val[fr.m])
<1>5. CASE val[fr.m] # 0 /\ Store(r, "mod_adjust")
  <2>1. /\ val' = [val EXCEPT ![fr.d] = r] /\ pc' = "mod_adjust" /\ err' = err
        /\ fr' = fr /\ old' = old
    BY <1>5 DEF Store, Put
  <2>2. r \in Int
    BY <1>2, <1>5, RemainderFacts
  <2>3. fr.d # fr.m => r = Remainder(Unreduced, GivenModulus) /\ val[fr.m] = GivenModulus
    BY <1>1 DEF ModularProgress
  <2>. HIDE DEF r
  <2>4. GivenModulus' = GivenModulus /\ Unreduced' = Unreduced
    BY <2>1 DEF GivenModulus, Unreduced
  <2>5. ModularTypeOK'
    BY <1>1, <2>1, <2>2 DEF ModularTypeOK
  <2>6. val'[fr.d] = r /\ (fr.d # fr.m => val'[fr.m] = val[fr.m])
    BY <1>1, <1>2, <2>1 DEF ModularTypeOK
  <2>7. ModularProgress'
    BY <1>5, <2>1, <2>3, <2>4, <2>6 DEF ModularProgress, ModularOps
  <2>. QED
    BY <2>1, <2>5, <2>7 DEF ModularInv, ReducedApart, Reduced, RefusedOnlyForZero
<1>. QED
  BY <1>3, <1>4, <1>5 DEF mp_mod

LEMMA AdjustStep ==
  ASSUME ModularInv, mp_mod_adjust
  PROVE  ModularInv'
<1>. DEFINE c == val[fr.d]
            b == val[fr.m]
<1>1. ModularTypeOK /\ ModularProgress /\ pc = "mod_adjust"
  BY DEF ModularInv, mp_mod_adjust
<1>2. fr.d \in Ints /\ fr.m \in Ints /\ c \in Int /\ b \in Int /\ GivenModulus \in Int /\ Unreduced \in Int
  BY <1>1, ModularFrameFacts
<1>3. fr.d # fr.m => b = GivenModulus /\ GivenModulus # 0 /\ c = Remainder(Unreduced, GivenModulus)
  BY <1>1 DEF ModularProgress
<1>. HIDE DEF c, b
<1>4. ASSUME NEW n \in Int, val' = [val EXCEPT ![fr.d] = n], Return("OKAY", {}),
             fr.d # fr.m => IsResidue(n, Unreduced, GivenModulus)
      PROVE  ModularInv'
  <2>1. pc' = "done" /\ err' = "OKAY" /\ fr' = fr /\ old' = old
    BY <1>4 DEF Return
  <2>2. GivenModulus' = GivenModulus /\ Unreduced' = Unreduced
    BY <2>1 DEF GivenModulus, Unreduced
  <2>3. val'[fr.d] = n /\ (fr.d # fr.m => val'[fr.m] = val[fr.m])
    BY <1>1, <1>2, <1>4 DEF ModularTypeOK
  <2>4. ModularTypeOK'
    BY <1>1, <1>4, <2>1 DEF ModularTypeOK
  <2>5. ModularProgress'
    BY <1>1, <2>1, <2>2, <2>3 DEF ModularProgress, ModularOps
  <2>6. ReducedApart' /\ RefusedOnlyForZero'
    BY <1>3, <1>4, <2>1, <2>2, <2>3 DEF ReducedApart, Reduced, RefusedOnlyForZero
  <2>. QED
    BY <2>4, <2>5, <2>6 DEF ModularInv
<1>5. CASE (c = 0 \/ Sgn(c) = Sgn(b)) /\ Refuse("OKAY", {})
  <2>1. fr.d # fr.m => IsResidue(c, Unreduced, GivenModulus)
    BY <1>2, <1>3, <1>5, Adjusted
  <2>2. val' = [val EXCEPT ![fr.d] = c]
    BY <1>1, <1>2, <1>5 DEF Refuse, c, ModularTypeOK
  <2>. QED
    BY <1>2, <1>4, <1>5, <2>1, <2>2 DEF Refuse
<1>6. CASE c # 0 /\ Sgn(c) # Sgn(b) /\ Put(fr.d, b + c) /\ Return("OKAY", {})
  <2>1. fr.d # fr.m => IsResidue(b + c, Unreduced, GivenModulus)
    BY <1>2, <1>3, <1>6, Adjusted
  <2>2. b + c \in Int
    BY <1>2
  <2>. QED
    BY <1>4, <1>6, <2>1, <2>2 DEF Put
<1>7. CASE Put(fr.d, FailedSum(fr.d, b, c)) /\ Return("MEM", {})
  <2>1. FailedSum(fr.d, b, c) \in Int
    BY <1>1, <1>2, ModularFailedFacts
  <2>. QED
    BY <1>7, <2>1, ModularFails
<1>. QED
  BY <1>5, <1>6, <1>7 DEF mp_mod_adjust, c, b

(* The invariant holds of every call.                                      *)
THEOREM ModularInvariance == ModularSpec => []ModularInv
<1>1. ModularInit => ModularInv
  BY ModularInitially
<1>2. ModularInv /\ [ModularNext]_vars => ModularInv'
  <2>1. ModularInv /\ UNCHANGED vars => ModularInv'
    BY DEF ModularInv, vars, ModularTypeOK, ModularProgress, ReducedApart, Reduced, RefusedOnlyForZero,
           GivenModulus, Unreduced, Reducing
  <2>. QED
    BY <2>1, CombineSteps, ModStep, AdjustStep DEF ModularNext
<1>. QED
  BY <1>1, <1>2, PTL DEF ModularSpec

(* The structures hold integers and the codes are those of the functions.  *)
THEOREM ModularTypeCorrect == ModularSpec => []ModularTypeOK
<1>1. ModularInv => ModularTypeOK
  BY DEF ModularInv
<1>. QED
  BY <1>1, ModularInvariance, PTL

(* mp_mod, mp_addmod, mp_submod, mp_mulmod and mp_sqrmod leave the residue *)
(* that has the sign of the modulus, for all integers, aliased or not.     *)
THEOREM Residues == ModularSpec => []ReducedApart
<1>1. ModularInv => ReducedApart
  BY DEF ModularInv
<1>. QED
  BY <1>1, ModularInvariance, PTL

(* They refuse a modulus of zero, and refuse nothing else.                 *)
THEOREM Refusals == ModularSpec => []RefusedOnlyForZero
<1>1. ModularInv => RefusedOnlyForZero
  BY DEF ModularInv
<1>. QED
  BY <1>1, ModularInvariance, PTL
=============================================================================
