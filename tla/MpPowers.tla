------------------------------ MODULE MpPowers ------------------------------
(***************************************************************************)
(* mp_expt_n and mp_exptmod with the two routines it chooses from, which   *)
(* read the exponent from the top, bit by bit, into a window.  The         *)
(* reductions the routines call are taken at their word: the remainder     *)
(* modulo P or, Montgomery's, that of the product with the inverse of the  *)
(* power of the radix.                                                     *)
(***************************************************************************)
EXTENDS MpCall

ExptFrames == [op : {"expt"}, a : Ints, n : Int, c : Ints]

(* A build has both routines or only s_mp_exptmod_fast.                    *)
ExptmodFrames ==
  [op : {"exptmod"}, routine : {"both", "fast"}, a : Ints, X : Ints, P : Ints, c : Ints]

-----------------------------------------------------------------------------
mp_expt_n ==
  /\ pc = "expt"
  /\ \/ Refuse("MEM", {})
     \/ /\ Put(fr.c, 1)
        /\ live' = {"g"}
        /\ loc' = [g |-> A, b |-> fr.n]
        /\ pc' = "expt_loop"
        /\ UNCHANGED << fr, err, old >>

(* The bit is set: multiply, in place; more are to come: square.           *)
expt_round ==
  /\ pc = "expt_loop" /\ loc.b > 0
  /\ LET c == IF IsEven(loc.b) THEN val[fr.c] ELSE val[fr.c] * loc.g
     IN  \/ /\ ~ IsEven(loc.b)
            /\ \E n \in FailedProducts(val[fr.c], val[fr.c], loc.g, FALSE) : Put(fr.c, n)
            /\ Return("MEM", {"g"})
         \/ loc.b > 1 /\ Put(fr.c, c) /\ Return("MEM", {"g"})
         \/ /\ Put(fr.c, c)
            /\ loc' = [g |-> IF loc.b > 1 THEN loc.g * loc.g ELSE loc.g, b |-> loc.b \div 2]
            /\ UNCHANGED << live, pc, fr, err, old >>

expt_end == pc = "expt_loop" /\ loc.b <= 0 /\ Refuse("OKAY", {"g"})

-----------------------------------------------------------------------------
(* Exponent and modulus.  The base and the exponent in use are loc.G and   *)
(* loc.X: those of the call, or for a negative exponent tmpG and tmpX.     *)
Exponent == val[fr.X]
Modulus == val[fr.P]

Temp(name) == << name, 0 >>
Tmps == {Temp("tmpG"), Temp("tmpX")}

exptmod_refused == pc = "exptmod" /\ Modulus < 0 /\ Refuse("VAL", {})

exptmod_positive ==
  /\ pc = "exptmod" /\ Modulus >= 0 /\ Exponent >= 0
  /\ loc' = [G |-> A, X |-> Exponent]
  /\ Goto("choose")

(* mp_invmod refuses what has no inverse, and negative numbers modulo one. *)
exptmod_negative ==
  /\ pc = "exptmod" /\ Modulus >= 0 /\ Exponent < 0
  /\ \/ Refuse("MEM", Tmps)
     \/ /\ Modulus = 0 \/ ~ IsGcd(1, A, Modulus) \/ (Modulus = 1 /\ A < 0)
        /\ Refuse("VAL", Tmps)
     \/ /\ Modulus = 1 => A >= 0
        /\ \E g \in 0 .. Modulus - 1 :
             /\ (A * g - 1) % Modulus = 0
             /\ loc' = [G |-> g, X |-> - Exponent]
        /\ live' = Tmps
        /\ pc' = "choose"
        /\ UNCHANGED << val, fr, err, old >>

-----------------------------------------------------------------------------
(* The reduction chosen: those of a special modulus before Montgomery's,   *)
(* for odd ones, and Barrett's.                                            *)
Reduction ==
  IF fr.routine = "both" /\ mp_reduce_is_2k_l(Modulus) THEN "2k_l"
  ELSE IF mp_dr_is_modulus(Modulus) THEN "dr"
  ELSE IF mp_reduce_is_2k(Modulus) THEN "2k"
  ELSE IF ~ IsEven(Modulus) THEN "montgomery"
  ELSE IF fr.routine = "both" THEN "barrett"
  ELSE "none"

winsize == 2 + Cardinality({b \in {7, 36, 140, 450, 1303, 3529} : mp_count_bits(loc.X) > b})

(* The table M has its first cell and the second half.                     *)
Half == 2 ^ (winsize - 1)
Upper == Half .. 2 * Half - 1
Cells(S) == {<< "M", x >> : x \in S}
LBL_M == Cells({1} \cup Upper)
LBL_RES == {Temp("res")} \cup LBL_M \cup IF Reduction \in {"2k_l", "barrett"} THEN {Temp("mu")} ELSE {}

(* A cell that cannot be initialised ends the call, the cells before it    *)
(* cleared.                                                                *)
exptmod_init ==
  /\ pc = "choose"
  /\ \/ Reduction = "none" /\ Refuse("VAL", Tmps)
     \/ /\ Reduction # "none"
        /\ \/ Refuse("MEM", Tmps)
           \/ \E x \in Upper :
                /\ live' = ((live \cup Cells({1} \cup Half .. x - 1))
                              \ (Cells(Half .. x - 1) \cup Cells({1}))) \ Tmps
                /\ pc' = "done" /\ err' = "MEM" /\ loc' = NoLocals
                /\ UNCHANGED << val, fr, old >>
           \/ /\ live' = live \cup LBL_M
              /\ pc' = "table"
              /\ UNCHANGED << val, loc, fr, err, old >>

(* The inverse of the power of the radix that Montgomery's reduction       *)
(* brings in.                                                              *)
MontgomeryR == Weight(Used(Modulus))
InverseR == CHOOSE r \in 0 .. Modulus - 1 : (r * MontgomeryR - 1) % Modulus = 0

redux(n) ==
  IF Reduction = "montgomery" THEN ((n % Modulus) * InverseR) % Modulus ELSE n % Modulus

(* k squarings of n.                                                       *)
Squared(n, k) ==
  LET s[i \in 0 .. k] == IF i = 0 THEN n ELSE redux(s[i - 1] * s[i - 1])
  IN  s[k]

(* What one and the base are in the representation.                        *)
Unit == IF Reduction = "montgomery" THEN MontgomeryR % Modulus ELSE 1
Base == (loc.G * Unit) % Modulus

(* The reduction is set up, which Barrett's refuses for zero, and the      *)
(* table filled: the first cell, its square, ..., then products.           *)
exptmod_table ==
  /\ pc = "table"
  /\ \/ Refuse("MEM", LBL_RES \cup Tmps)
     \/ Modulus = 0 /\ Refuse("VAL", LBL_RES \cup Tmps)
     \/ /\ Modulus # 0
        /\ live' = live \cup LBL_RES
        /\ LET M[x \in {1} \cup Upper] ==
                 IF x = 1 THEN Base
                 ELSE IF x = Half THEN Squared(Base, winsize - 1)
                 ELSE redux(M[x - 1] * Base)
           IN  loc' = [G |-> loc.G, X |-> loc.X, M |-> M, res |-> Unit, mode |-> 0,
                       bitcnt |-> 1, digidx |-> Used(loc.X) - 1, bitcpy |-> 0, bitbuf |-> 0]
        /\ pc' = "window"
        /\ UNCHANGED << val, fr, err, old >>

-----------------------------------------------------------------------------
(* The next bit: of the digit at hand or of the next, when there is one.   *)
OutOfDigits == loc.bitcnt = 1 /\ loc.digidx = -1
digidx == IF loc.bitcnt = 1 THEN loc.digidx - 1 ELSE loc.digidx
bitcnt == IF loc.bitcnt = 1 THEN MP_DIGIT_BIT ELSE loc.bitcnt - 1
bit == (Digit(loc.X, digidx + 1) \div 2 ^ (bitcnt - 1)) % 2

NextBit == pc = "window" /\ ~ OutOfDigits
Advanced == [loc EXCEPT !.bitcnt = bitcnt, !.digidx = digidx]

(* Leading zeros are passed over.                                          *)
window_skip ==
  /\ NextBit /\ loc.mode = 0 /\ bit = 0
  /\ loc' = Advanced /\ Goto("window")

(* Between two windows a zero costs one squaring.                          *)
window_square ==
  /\ NextBit /\ loc.mode = 1 /\ bit = 0
  /\ \/ Refuse("MEM", LBL_RES \cup Tmps)
     \/ loc' = [Advanced EXCEPT !.res = Squared(@, 1)] /\ Goto("window")

(* Any other bit goes to the window, ...                                   *)
Collects == NextBit /\ (loc.mode = 2 \/ bit = 1)
Collected ==
  [Advanced EXCEPT !.bitcpy = @ + 1, !.bitbuf = @ + bit * 2 ^ (winsize - (loc.bitcpy + 1)), !.mode = 2]

window_collect ==
  /\ Collects /\ loc.bitcpy + 1 < winsize
  /\ loc' = Collected /\ Goto("window")

(* ... which is used and emptied when it is full.                          *)
window_full ==
  /\ Collects /\ loc.bitcpy + 1 = winsize
  /\ \/ Refuse("MEM", LBL_RES \cup Tmps)
     \/ /\ loc' = [Collected EXCEPT !.res = redux(Squared(@, winsize) * loc.M[Collected.bitbuf]),
                                    !.bitcpy = 0, !.bitbuf = 0, !.mode = 1]
        /\ Goto("window")

(* Mutated: the bits that remain are only counted.                         *)
Mut_window_rest ==
  /\ pc = "window" /\ OutOfDigits
  /\ loc' = [loc EXCEPT !.res = Squared(@, loc.bitcpy)]
  /\ Goto("exptmod_end")

(* At the end the bits that remain are worked off one by one.              *)
window_rest ==
  /\ pc = "window" /\ OutOfDigits
  /\ LET rest == IF loc.mode = 2 THEN loc.bitcpy ELSE 0
         Bit(k) == (loc.bitbuf \div 2 ^ (winsize - k)) % 2
         r[k \in 0 .. rest] ==
           IF k = 0 THEN loc.res
           ELSE IF Bit(k) = 1 THEN redux(Squared(r[k - 1], 1) * loc.M[1])
           ELSE Squared(r[k - 1], 1)
     IN  \/ rest > 0 /\ Refuse("MEM", LBL_RES \cup Tmps)
         \/ loc' = [loc EXCEPT !.res = r[rest]] /\ Goto("exptmod_end")

(* Montgomery's factor is taken out.                                       *)
exptmod_end ==
  /\ pc = "exptmod_end"
  /\ LET Y == IF Reduction = "montgomery" THEN redux(loc.res) ELSE loc.res
     IN  \/ Reduction = "montgomery" /\ Refuse("MEM", LBL_RES \cup Tmps)
         \/ Put(fr.c, Y) /\ Return("OKAY", LBL_RES \cup Tmps)

PowerNext ==
  \/ mp_expt_n \/ expt_round \/ expt_end
  \/ exptmod_refused \/ exptmod_positive \/ exptmod_negative \/ exptmod_init \/ exptmod_table
  \/ window_skip \/ window_square \/ window_collect \/ window_full \/ window_rest \/ exptmod_end

-----------------------------------------------------------------------------
(* mp_expt_n leaves the power, and one for a negative exponent.            *)
ExptCorrect == Succeeded("expt") => val[fr.c] = Power(old[fr.a], fr.n)

(* mp_exptmod leaves a number below the modulus, or one, that is the power *)
(* of the base or, for a negative exponent, of its inverse, whichever      *)
(* argument it replaces; it refuses moduli below one, and inverses that    *)
(* mp_invmod refuses, and without the generic routine even moduli that are *)
(* of no special form.                                                     *)
ExptmodCorrect ==
  LET g == old[fr.a]
      x == old[fr.X]
      p == old[fr.P]
      Y == val[fr.c]
  IN  /\ Succeeded("exptmod") =>
           /\ Y \in 0 .. p - 1 \/ (Y = 1 /\ p = 1)
           /\ IF x >= 0 THEN (Y - PowMod(g, x, p)) % p = 0
              ELSE (Y * PowMod(g, - x, p) - 1) % p = 0
      /\ Done("exptmod") /\ err # "MEM" =>
           (err = "VAL" <=>
              \/ p < 1
              \/ x < 0 /\ (~ IsGcd(1, g, p) \/ (p = 1 /\ g < 0))
              \/ fr.routine = "fast" /\ IsEven(p) /\ ~ mp_reduce_is_2k(p) /\ ~ mp_dr_is_modulus(p))

(* What is left of the exponent, the bits not read and those the window    *)
(* holds; the result has the power for what is gone, and the window holds  *)
(* the next bits from the top.                                             *)
PowersLoopInvariant ==
  pc = "window" =>
    LET unread == (loc.digidx + 1) * MP_DIGIT_BIT + loc.bitcnt - 1
        gone == loc.X \div 2 ^ (unread + loc.bitcpy)
    IN  /\ loc.bitcpy < winsize
        /\ (loc.res - PowMod(loc.G, gone, Modulus) * Unit) % Modulus = 0
        /\ loc.bitbuf = ((loc.X \div 2 ^ unread) % 2 ^ loc.bitcpy) * 2 ^ (winsize - loc.bitcpy)
        /\ loc.mode = 0 <=> loc.X \div 2 ^ unread = 0
        /\ loc.mode = 2 <=> loc.bitcpy > 0

(* A failed mp_expt_n leaves some lower power, perhaps of the other sign   *)
(* if the base is negative; once that power is long enough for Toom and    *)
(* Cook, what these leave.                                                 *)
ExptFailure ==
  \/ val = old
  \/ \E k \in 0 .. fr.n :
       LET p == Power(old[fr.a], k)
           c == val[fr.c]
       IN  /\ \/ Magnitude(c) = Magnitude(p)
              \/ Used(p) >= MP_MUL_TOOM_CUTOFF /\ Magnitude(c) \in Scraps
           /\ old[fr.a] >= 0 => c >= 0
=============================================================================
