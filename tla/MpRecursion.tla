----------------------------- MODULE MpRecursion -----------------------------
(***************************************************************************)
(* s_mp_div_recursive, to which mp_div sends the divisors that are longer  *)
(* than twice Karatsuba's cut-off and not much shorter than the dividend.  *)
(* It goes down the dividend in chunks of the divisor's length, a chunk an *)
(* action; what s_recursion computes for a chunk is a recursive function.  *)
(***************************************************************************)
EXTENDS MpMul

RecursionFrames ==
  {f \in [op : {"recursive"}, a : Ints, b : Ints, c : Ints \cup {NULL}, d : Ints \cup {NULL}] :
     f.c = f.d => f.c = NULL}

(* The operands that mp_div sends here.                                    *)
SentHere(n, b) ==
  /\ Used(b) > 2 * MP_MUL_KARATSUBA_CUTOFF
  /\ Used(b) <= (Used(n) \div 3) * 2

(* How often d has to be added to n until it is not negative.              *)
AddBacks(n, d) == IF n < 0 THEN ((- n) + d - 1) \div d ELSE 0

(* The operands of s_recursion: the divisor has at least half of the       *)
(* digits of the dividend.                                                 *)
Recursible == {p \in Nat \X Nat : p[2] > 0 /\ Used(p[1]) <= 2 * Used(p[2])}

(* s_recursion: quotient and remainder of a by b, from those of their      *)
(* upper parts by that of b, twice; back is how often a divisor had to be  *)
(* added back.                                                             *)
DivRem[p \in Recursible] ==
  LET a == p[1]
      b == p[2]
      k == (Used(a) - Used(b)) \div 2
      P == Weight(k)
      high == DivRem[<< a \div (P * P), b \div P >>]
      rest == high.r * P * P + (a % (P * P)) - high.q * (b % P) * P
      back1 == AddBacks(rest, P * b)
      A1 == rest + back1 * P * b
      low == DivRem[<< A1 \div P, b \div P >>]
      A2 == low.r * P + (A1 % P) - low.q * (b % P)
      back0 == AddBacks(A2, b)
  IN  IF Used(a) - Used(b) < MP_MUL_KARATSUBA_CUTOFF
      THEN [q |-> a \div b, r |-> a % b, back |-> 0]
      ELSE [q |-> (high.q - back1) * P + low.q - back0,
            r |-> A2 + back0 * b,
            back |-> MaxOf(MaxOf(back1, back0), MaxOf(high.back, low.back))]

-----------------------------------------------------------------------------
OuterLocals == << "A", "B", "Q", "Q1", "R", "A_div", "A_mod" >>
InnerLocals == << "A1", "A2", "B1", "B0", "Q1", "Q0", "R1", "R0", "t" >>
Locals == {OuterLocals[i] : i \in 1 .. Len(OuterLocals)}

(* The k-th of the locals cannot be initialised.  mp_init_multi clears     *)
(* those before it; the label clears all, those after it, which hold       *)
(* anything, too.                                                          *)
FailInitialising(locals) ==
  \E k \in 1 .. Len(locals) :
    /\ loc' = [stray |-> {locals[i] : i \in k + 1 .. Len(locals)}]
    /\ live' = {}
    /\ pc' = "done" /\ err' = "MEM"
    /\ UNCHANGED << val, fr, old >>

(* The divisor is shifted until its first digit has its first bit.         *)
recursive_begin ==
  /\ pc = "recursive"
  /\ \/ FailInitialising(OuterLocals)
     \/ Refuse("MEM", Locals)
     \/ LET sigma == (MP_DIGIT_BIT - (mp_count_bits(B) % MP_DIGIT_BIT)) % MP_DIGIT_BIT
            b == Magnitude(B) * 2 ^ sigma
            a == Magnitude(A) * 2 ^ sigma
        IN  /\ loc' = [A |-> a, B |-> b, Q |-> 0, m |-> Used(a) - Used(b), sigma |-> sigma, back |-> 0]
            /\ live' = Locals
            /\ pc' = "chunks"
            /\ UNCHANGED << val, fr, err, old >>

chunk == Used(loc.B)

(* Any call may fail, those of the recursion included.                     *)
ChunkFails(a) ==
  \/ Refuse("MEM", Locals)
  \/ Used(a) - chunk >= MP_MUL_KARATSUBA_CUTOFF /\ FailInitialising(InnerLocals)

recursive_chunk ==
  /\ pc = "chunks" /\ loc.m > chunk
  /\ LET power == Weight(loc.m - chunk)
         s == DivRem[<< loc.A \div power, loc.B >>]
     IN  \/ ChunkFails(loc.A \div power)
         \/ /\ loc' = [loc EXCEPT !.A = s.r * power + (@ % power), !.Q = @ * Weight(chunk) + s.q,
                                  !.m = @ - chunk, !.back = s.back]
            /\ Goto("chunks")

recursive_last ==
  /\ pc = "chunks" /\ loc.m <= chunk
  /\ LET s == DivRem[<< loc.A, loc.B >>]
     IN  \/ ChunkFails(loc.A)
         \/ /\ loc' = [loc EXCEPT !.A = s.r, !.Q = @ * Weight(loc.m) + s.q, !.m = 0, !.back = s.back]
            /\ Goto("recursive_end")

(* Mutated: the sign of the dividend is read after the quotient is stored. *)
Mut_recursive_end ==
  /\ pc = "recursive_end"
  /\ LET stored == IF fr.c = NULL THEN val ELSE [val EXCEPT ![fr.c] = Sgn(A) * Sgn(B) * loc.Q]
         R == Sgn(stored[fr.a]) * (loc.A \div 2 ^ loc.sigma)
     IN  val' = IF fr.d = NULL THEN stored ELSE [stored EXCEPT ![fr.d] = R]
  /\ Return("OKAY", Locals)

(* The signs are read before quotient and remainder are stored.            *)
recursive_end ==
  /\ pc = "recursive_end"
  /\ LET R == (IF loc.Q = 0 THEN 1 ELSE Sgn(A)) * (loc.A \div 2 ^ loc.sigma)
         Q == Sgn(A) * Sgn(B) * loc.Q
         stored == IF fr.c = NULL THEN val ELSE [val EXCEPT ![fr.c] = Q]
     IN  val' = IF fr.d = NULL THEN stored ELSE [stored EXCEPT ![fr.d] = R]
  /\ Return("OKAY", Locals)

RecursionNext == recursive_begin \/ recursive_chunk \/ recursive_last \/ recursive_end

-----------------------------------------------------------------------------
(* s_mp_div_recursive leaves the truncated quotient and the remainder of   *)
(* the sign of the dividend, whichever of them is asked for and whichever  *)
(* operand it replaces.                                                    *)
RecursionCorrect ==
  Succeeded("recursive") =>
    LET a == old[fr.a]
        b == old[fr.b]
    IN  /\ fr.c # NULL => val[fr.c] = Quotient(a, b)
        /\ fr.d # NULL => val[fr.d] = a - Quotient(a, b) * b

(* Quotient so far and rest make the dividend, the rest is below the       *)
(* divisor at its place once a chunk is done, and a divisor is added back  *)
(* four times at most.                                                     *)
RecursionLoopInvariant ==
  pc \in {"chunks", "recursive_end"} =>
    LET place == loc.B * Weight(loc.m)
    IN  /\ Magnitude(A) * 2 ^ loc.sigma = loc.Q * place + loc.A
        /\ loc.Q # 0 => loc.A < place
        /\ loc.back <= 4

(* The temporaries are cleared once they are initialised, but in this      *)
(* function alone what mp_init_multi could not initialise is cleared too.  *)
RecursionClears == "stray" \in DOMAIN loc => fr.op = "recursive" /\ err = "MEM"
=============================================================================
