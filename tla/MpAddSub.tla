------------------------------ MODULE MpAddSub ------------------------------
(***************************************************************************)
(* mp_add and mp_sub down to the digit loops of s_mp_add and s_mp_sub, one *)
(* action per loop iteration.  The three operands are any structures of    *)
(* the client, the same one twice or three times included, so that the     *)
(* loops may overwrite the digits they are about to read.                  *)
(***************************************************************************)
EXTENDS MpNat

CONSTANTS Ints,      \* the mp_int structures of the client
          Numbers    \* the numbers they may hold when the function is called

ASSUME NumbersAssumption == \A n \in Numbers : n \in MpInts /\ WellFormed(n)

VARIABLES num,    \* num[x]: the members and digits of structure x
          pc,     \* the loop the call is in
          fr,     \* the locals of the call
          err,    \* what the call returned
          old     \* num as it was at the call (history)

vars == << num, pc, fr, err, old >>

MinOf(m, n) == IF m <= n THEN m ELSE n

Frames == [op : {"add", "sub"}, a : Ints, b : Ints, c : Ints,
           x : Ints, y : Ints,
           min : Counts, max : Counts, oldused : Counts, i : Counts, u : {0, 1}]

(* An assignment to members or digits of the destination.                  *)
Store(z) == num' = [num EXCEPT ![fr.c] = z]

(* The machine arithmetic of an mp_digit.                                  *)
Wrap(n) == n % DigitMod
HighBit(n) == n \div (DigitMod \div 2)
Carry(n) == n \div Radix
(* Mutated: the carry is left in the digit.                                *)
Mut_Masked(n) == n

Masked(n) == n % Radix

(* mp_add and mp_sub choose the routine, the order of its operands and the *)
(* sign of the result before anything is allocated.                        *)
SameSign(a, b) == num[a].sign = num[b].sign

(* Mutated: the sign is not turned.                                        *)
Mut_Opposite(s) == s

Opposite(s) == IF s = MP_NEG THEN MP_ZPOS ELSE MP_NEG

Enter(routine, x, y, sign) ==
  /\ Store([num[fr.c] EXCEPT !.sign = sign])
  /\ fr' = [fr EXCEPT !.x = x, !.y = y]
  /\ pc' = routine
  /\ UNCHANGED << err, old >>

mp_add ==
  /\ pc = "call" /\ fr.op = "add"
  /\ \/ SameSign(fr.a, fr.b) /\ Enter("s_mp_add", fr.a, fr.b, num[fr.a].sign)
     \/ /\ ~ SameSign(fr.a, fr.b)
        /\ \/ MagLT(num[fr.a], num[fr.b]) /\ Enter("s_mp_sub", fr.b, fr.a, num[fr.b].sign)
           \/ ~ MagLT(num[fr.a], num[fr.b]) /\ Enter("s_mp_sub", fr.a, fr.b, num[fr.a].sign)

mp_sub ==
  /\ pc = "call" /\ fr.op = "sub"
  /\ \/ ~ SameSign(fr.a, fr.b) /\ Enter("s_mp_add", fr.a, fr.b, num[fr.a].sign)
     \/ /\ SameSign(fr.a, fr.b)
        /\ \/ MagLT(num[fr.a], num[fr.b])
              /\ Enter("s_mp_sub", fr.b, fr.a, Opposite(num[fr.a].sign))
           \/ ~ MagLT(num[fr.a], num[fr.b]) /\ Enter("s_mp_sub", fr.a, fr.b, num[fr.a].sign)

-----------------------------------------------------------------------------
Return(code) == pc' = "done" /\ err' = code /\ UNCHANGED old

(* Mutated: used is set before mp_grow can fail.                           *)
Mut_Begin(loop, x, y, size) ==
  \E g \in Growths(num[fr.c], size) :
    /\ Store([g.num EXCEPT !.used = 0])
    /\ fr' = [fr EXCEPT !.x = x, !.y = y, !.min = num[y].used, !.max = num[x].used,
                        !.oldused = num[fr.c].used, !.i = 0, !.u = 0]
    /\ \/ g.code # "OKAY" /\ Return(g.code)
       \/ g.code = "OKAY" /\ pc' = loop /\ UNCHANGED << err, old >>

(* The destination is grown to size digits, or the call fails with the     *)
(* sign already assigned; then used takes its new value.                   *)
Begin(loop, x, y, size) ==
  \E g \in Growths(num[fr.c], size) :
    \/ /\ g.code # "OKAY"
       /\ Return(g.code)
       /\ UNCHANGED << num, fr >>
    \/ /\ g.code = "OKAY"
       /\ Store([g.num EXCEPT !.used = size])
       /\ fr' = [fr EXCEPT !.x = x, !.y = y, !.min = num[y].used, !.max = num[x].used,
                           !.oldused = num[fr.c].used, !.i = 0, !.u = 0]
       /\ pc' = loop
       /\ UNCHANGED << err, old >>

(* One iteration: the digit t of type mp_digit is computed, its carry kept *)
(* in u, the rest stored.                                                  *)
Iterate(t, carry) ==
  /\ Store([num[fr.c] EXCEPT !.digit = [@ EXCEPT ![fr.i] = Masked(t)]])
  /\ fr' = [fr EXCEPT !.i = @ + 1, !.u = carry]
  /\ UNCHANGED << pc, err, old >>

XDigit == num[fr.x].digit[fr.i]
YDigit == num[fr.y].digit[fr.i]

(* Mutated: they are not.                                                  *)
Mut_Finish(d) ==
  /\ Store(mp_clamp([num[fr.c] EXCEPT !.digit = d]))
  /\ Return("OKAY")
  /\ UNCHANGED fr

(* The digits the destination had above its new used count are cleared.    *)
Finish(d) ==
  LET c == num[fr.c]
  IN  /\ Store(mp_clamp([c EXCEPT !.digit = ZeroDigs(d, c.used, fr.oldused - c.used)]))
      /\ Return("OKAY")
      /\ UNCHANGED fr

(* Mutated: no room is made for the last carry.                            *)
Mut_s_mp_add_begin ==
  /\ pc = "s_mp_add"
  /\ \/ /\ num[fr.x].used < num[fr.y].used
        /\ Begin("add_loop", fr.y, fr.x, num[fr.y].used)
     \/ /\ num[fr.x].used >= num[fr.y].used
        /\ Begin("add_loop", fr.x, fr.y, num[fr.x].used)

s_mp_add_begin ==
  /\ pc = "s_mp_add"
  /\ \/ /\ num[fr.x].used < num[fr.y].used
        /\ Begin("add_loop", fr.y, fr.x, num[fr.y].used + 1)
     \/ /\ num[fr.x].used >= num[fr.y].used
        /\ Begin("add_loop", fr.x, fr.y, num[fr.x].used + 1)

s_mp_add_both ==
  /\ pc = "add_loop" /\ fr.i < fr.min
  /\ LET t == Wrap(XDigit + YDigit + fr.u) IN Iterate(t, Carry(t))

s_mp_add_rest ==
  /\ pc = "add_loop" /\ fr.min <= fr.i /\ fr.i < fr.max
  /\ LET t == Wrap(XDigit + fr.u) IN Iterate(t, Carry(t))

s_mp_add_end ==
  /\ pc = "add_loop" /\ fr.i = fr.max
  /\ Finish([num[fr.c].digit EXCEPT ![fr.i] = fr.u])

s_mp_sub_begin ==
  /\ pc = "s_mp_sub"
  /\ Begin("sub_loop", fr.x, fr.y, num[fr.x].used)

s_mp_sub_both ==
  /\ pc = "sub_loop" /\ fr.i < fr.min
  /\ LET t == Wrap(Wrap(XDigit - YDigit) - fr.u) IN Iterate(t, HighBit(t))

s_mp_sub_rest ==
  /\ pc = "sub_loop" /\ fr.min <= fr.i /\ fr.i < fr.max
  /\ LET t == Wrap(XDigit - fr.u) IN Iterate(t, HighBit(t))

s_mp_sub_end ==
  /\ pc = "sub_loop" /\ fr.i = fr.max
  /\ Finish(num[fr.c].digit)

-----------------------------------------------------------------------------
(* One call, with any operands, of any numbers.                            *)
Init ==
  /\ num \in [Ints -> Numbers]
  /\ old = num
  /\ pc = "call"
  /\ \E op \in {"add", "sub"}, a, b, c \in Ints :
       fr = [op |-> op, a |-> a, b |-> b, c |-> c, x |-> a, y |-> b,
             min |-> 0, max |-> 0, oldused |-> 0, i |-> 0, u |-> 0]
  /\ err = "OKAY"

Next ==
  \/ mp_add \/ mp_sub
  \/ s_mp_add_begin \/ s_mp_add_both \/ s_mp_add_rest \/ s_mp_add_end
  \/ s_mp_sub_begin \/ s_mp_sub_both \/ s_mp_sub_rest \/ s_mp_sub_end

Spec == Init /\ [][Next]_vars

-----------------------------------------------------------------------------
TypeOK ==
  /\ num \in [Ints -> MpInts]
  /\ old \in [Ints -> MpInts]
  /\ fr \in Frames
  /\ pc \in {"call", "s_mp_add", "s_mp_sub", "add_loop", "sub_loop", "done"}
  /\ err \in {"OKAY", "MEM", "OVF"}

Expected ==
  IF fr.op = "add" THEN IntVal(old[fr.a]) + IntVal(old[fr.b])
                   ELSE IntVal(old[fr.a]) - IntVal(old[fr.b])

(* A call that succeeds leaves in its destination the sum or difference of *)
(* the numbers its operands held when it was made, whichever of them are   *)
(* the same structure (s_mp_add and s_mp_sub read a[i] and b[i] after      *)
(* writing c[0], ..., c[i-1]).                                             *)
ResultCorrect == pc = "done" /\ err = "OKAY" => IntVal(num[fr.c]) = Expected

(* ... in the representation the next call will rely on.                   *)
ResultWellFormed == pc = "done" /\ err = "OKAY" => WellFormed(num[fr.c])

(* The loops write only to digits the destination has allocated.           *)
InBounds ==
  /\ pc = "add_loop" => fr.i < num[fr.c].alloc
  /\ pc = "sub_loop" /\ fr.i < fr.max => fr.i < num[fr.c].alloc

(* s_mp_sub expects |x| >= |y|: the borrow out of its last digit is none.  *)
NoBorrowLeft == pc = "sub_loop" /\ fr.i = fr.max => fr.u = 0

(* A failed call leaves the magnitude of its destination; its sign may     *)
(* already be that of the result.                                          *)
FailureKeepsMagnitude ==
  pc = "done" /\ err # "OKAY" =>
    /\ Mag(num[fr.c]) = Mag(old[fr.c])
    /\ num[fr.c].used = old[fr.c].used
=============================================================================
