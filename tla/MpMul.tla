------------------------------- MODULE MpMul -------------------------------
(***************************************************************************)
(* Products.  mp_mul chooses a routine by the lengths of the operands and  *)
(* gives the destination its sign when the routine has returned; two of    *)
(* the routines are also called for some of the digits only.  Loops over   *)
(* digits are executed a column or a row an action, in the width of        *)
(* mp_word; Karatsuba's and the Toom-Cook routines are the list of the     *)
(* library calls they make, a call an action.  The products they ask for,  *)
(* of shorter numbers, are taken at their word.                            *)
(***************************************************************************)
EXTENDS MpCall, Sequences

CONSTANTS MP_WORD_BIT,  \* bits of an mp_word, which has those of two mp_digit
          MP_MUL_KARATSUBA_CUTOFF, MP_SQR_KARATSUBA_CUTOFF

(* A word is two of the type of a digit, and a digit leaves a bit of its   *)
(* type free; the two parts Karatsuba's routine makes have a digit.        *)
ASSUME WordAssumption ==
  MP_WORD_BIT \in Nat /\ MP_WORD_BIT % 2 = 0 /\ MP_WORD_BIT > 2 * MP_DIGIT_BIT
ASSUME CutoffAssumption ==
  /\ MP_MUL_KARATSUBA_CUTOFF \in Nat \ {0, 1} /\ MP_SQR_KARATSUBA_CUTOFF \in Nat \ {0, 1}

MP_MAX_COMBA == 2 ^ (MP_WORD_BIT - 2 * MP_DIGIT_BIT)
MP_WARRAY == 2 ^ (MP_WORD_BIT - 2 * MP_DIGIT_BIT + 1)

Word(n) == n % 2 ^ MP_WORD_BIT
DigitType(n) == n % 2 ^ (MP_WORD_BIT \div 2)
MaxOf(m, n) == IF m <= n THEN n ELSE m

(* The routines a build may have.                                          *)
Routines ==
  {"sqr_toom", "sqr_karatsuba", "sqr_comba", "sqr", "balance", "toom", "karatsuba", "comba",
   "mul", "high_comba"}

MulFrames ==
  [op : {"mul"}, a : Ints, b : Ints, c : Ints, has : SUBSET Routines] \cup
  [op : {"low", "high"}, a : Ints, b : Ints, c : Ints, digs : Int, has : SUBSET Routines]

(* s_mp_mul_high begins a row with the digit of b that reaches the first   *)
(* column asked for, and b has one unless a is longer than that column:    *)
(* mp_reduce, the only caller, does not ask for that.                      *)
ASSUME HighAssumption ==
  \A f \in Frames :
    f.op = "high" /\ f.digs >= 0 => \A v \in Contents(f) : Used(v[f.a]) <= f.digs + 1

Has(r) == r \in fr.has

Total(f, n) == LET t[k \in 0 .. n] == IF k = 0 THEN 0 ELSE t[k - 1] + f[k - 1] IN t[n]

(* The number the first n digits of t make.                                *)
Number(t, n) == Total([i \in 0 .. n - 1 |-> t[i] * Weight(i)], n)

Zeros(n) == [i \in 0 .. n - 1 |-> 0]

-----------------------------------------------------------------------------
(* The routine leaves n in the destination and mp_mul, when it was called, *)
(* gives it the sign of the product.                                       *)
Deliver(code, n, cleared) ==
  /\ Put(fr.c, IF fr.op = "mul" THEN IF loc.neg THEN - Magnitude(n) ELSE Magnitude(n) ELSE n)
  /\ Return(code, cleared)

Fail(cleared) == Deliver("MEM", val[fr.c], cleared)

(* Mutated: the columns are taken for wider than they are.                 *)
Mut_UsesComba(digs, shorter) == digs < 2 * MP_WARRAY /\ shorter <= 2 * MP_MAX_COMBA

(* The columns of comba hold the product of numbers so long.               *)
UsesComba(digs, shorter) == digs < MP_WARRAY /\ shorter <= MP_MAX_COMBA

(* s_mp_mul and s_mp_mul_high pass on to comba what is shorter.            *)
PassesOn(digs) == digs < MP_WARRAY /\ MinOf(Used(A), Used(B)) < MP_MAX_COMBA

(* The routine for the lengths of the operands.                            *)
MulRoutine ==
  LET square == fr.a = fr.b
      min == MinOf(Used(A), Used(B))
      max == MaxOf(Used(A), Used(B))
  IN  IF square /\ Has("sqr_toom") /\ Used(A) >= MP_SQR_TOOM_CUTOFF THEN "sqr_toom"
      ELSE IF square /\ Has("sqr_karatsuba") /\ Used(A) >= MP_SQR_KARATSUBA_CUTOFF
        THEN "sqr_karatsuba"
      ELSE IF square /\ Has("sqr_comba") /\ UsesComba(2 * Used(A) + 1, Used(A)) THEN "sqr_comba"
      ELSE IF square /\ Has("sqr") THEN "sqr"
      ELSE IF /\ Has("balance") /\ min >= MP_MUL_KARATSUBA_CUTOFF
              /\ max \div 2 >= MP_MUL_KARATSUBA_CUTOFF /\ max >= 2 * min THEN "balance"
      ELSE IF Has("toom") /\ min >= MP_MUL_TOOM_CUTOFF THEN "toom"
      ELSE IF Has("karatsuba") /\ min >= MP_MUL_KARATSUBA_CUTOFF THEN "karatsuba"
      ELSE IF Has("comba") /\ UsesComba(Used(A) + Used(B) + 1, min) THEN "comba"
      ELSE IF ~ Has("mul") THEN "none"
      ELSE IF PassesOn(Used(A) + Used(B) + 1) THEN "comba"
      ELSE "mul"

mp_mul ==
  /\ pc = "mul"
  /\ loc' = [neg |-> Sgn(A) # Sgn(B), digs |-> Used(A) + Used(B) + 1, routine |-> MulRoutine]
  /\ Goto("mul_begins")

Begins(routine) == pc = "mul_begins" /\ loc.routine = routine
Runs(routine) == pc = "mul_runs" /\ loc.routine = routine

no_routine == Begins("none") /\ Deliver("VAL", val[fr.c], {})

(* The calls for some digits of the product.                               *)
s_mp_mul ==
  /\ pc = "low"
  /\ \/ fr.digs < 0 /\ Refuse("VAL", {})
     \/ /\ fr.digs >= 0
        /\ loc' = [neg |-> FALSE, digs |-> fr.digs,
                   routine |-> IF PassesOn(fr.digs) THEN "comba" ELSE "mul"]
        /\ Goto("mul_begins")

s_mp_mul_high ==
  /\ pc = "high"
  /\ \/ fr.digs < 0 /\ Refuse("VAL", {})
     \/ /\ fr.digs >= 0
        /\ loc' = [neg |-> FALSE, digs |-> fr.digs,
                   routine |-> IF Has("high_comba") /\ PassesOn(Used(A) + Used(B) + 1) THEN "high_comba"
                               ELSE "mul_high"]
        /\ Goto("mul_begins")

-----------------------------------------------------------------------------
(* Columns: comba, its square and its upper half, from column first up to  *)
(* loc.pa.  The destination is grown first and written last.               *)
comba_begin ==
  \E routine \in {"comba", "sqr_comba", "high_comba"} :
    /\ Begins(routine)
    /\ \/ Fail({})
       \/ LET first == IF routine = "high_comba" THEN loc.digs ELSE 0
              pa == IF routine = "comba" THEN MinOf(loc.digs, Used(A) + Used(B)) ELSE Used(A) + Used(B)
          IN  /\ loc' = [neg |-> loc.neg, routine |-> routine, ix |-> first, first |-> first,
                         pa |-> pa, W |-> Zeros(pa), carry |-> 0]
              /\ Goto("mul_runs")

(* The products of the digits of a upwards and of b downwards.             *)
Products(ix) ==
  LET ty == MinOf(Used(B) - 1, ix)
      tx == ix - ty
      iy == MaxOf(MinOf(Used(A) - tx, ty + 1), 0)
  IN  Total([iz \in 0 .. iy - 1 |-> Digit(A, tx + iz) * Digit(B, ty - iz)], iy)

(* Those of a square, each of two different digits once, doubled, ...      *)
Squares(ix) ==
  LET ty == MinOf(Used(A) - 1, ix)
      tx == ix - ty
      iy == MinOf(MinOf(Used(A) - tx, ty + 1), (ty - tx + 1) \div 2)
      s == Total([iz \in 0 .. iy - 1 |-> Digit(A, tx + iz) * Digit(A, ty - iz)], iy)
  IN  2 * s + (IF IsEven(ix) THEN Digit(A, ix \div 2) * Digit(A, ix \div 2) ELSE 0)

comba_column ==
  \E routine \in {"comba", "sqr_comba", "high_comba"} :
    /\ Runs(routine) /\ loc.ix < loc.pa
    /\ LET column == IF routine = "sqr_comba" THEN Squares(loc.ix) ELSE Products(loc.ix)
           sum == Word(loc.carry + column)
       IN  loc' = [loc EXCEPT !.ix = @ + 1, !.W[loc.ix] = sum % Radix, !.carry = sum \div Radix]
    /\ Goto("mul_runs")

(* What the destination held below the first column stays.                 *)
BelowFirst == Magnitude(val[fr.c]) % Weight(MinOf(loc.first, loc.pa))

comba_end ==
  \E routine \in {"comba", "sqr_comba", "high_comba"} :
    /\ Runs(routine) /\ loc.ix >= loc.pa
    /\ Deliver("OKAY", Sgn(val[fr.c]) * (BelowFirst + Number(loc.W, loc.pa)), {})

-----------------------------------------------------------------------------
(* Rows: a digit of a times those of b, added to the number t, which has   *)
(* so many places and is exchanged with the destination at the end.        *)
Places(routine) == IF routine = "mul" THEN loc.digs ELSE Used(A) + Used(B) + 1

row_begin ==
  \E routine \in {"mul", "sqr", "mul_high"} :
    /\ Begins(routine)
    /\ \/ Fail({})
       \/ /\ loc' = [neg |-> loc.neg, routine |-> routine, digs |-> loc.digs, ix |-> 0,
                      t |-> Zeros(Places(routine))]
          /\ live' = {"t"}
          /\ pc' = "mul_runs"
          /\ UNCHANGED << val, fr, err, old >>

(* The carries of a row of doubled or single products, u the first of      *)
(* them, at the places iy from lo to hi, and what becomes of the digits    *)
(* below hi.                                                               *)
Sum(t, ix, iy, factor, u) == Word(t[ix + iy] + factor * Digit(A, ix) * Digit(B, iy) + u)

Carries(t, ix, lo, hi, factor, u) ==
  LET carry[iy \in lo .. hi] ==
        IF iy = lo THEN u ELSE DigitType(Sum(t, ix, iy - 1, factor, carry[iy - 1]) \div Radix)
  IN  carry

Row(t, ix, carry, factor) ==
  [i \in DOMAIN t |->
     IF i - ix \in DOMAIN carry /\ i - ix + 1 \in DOMAIN carry
     THEN Sum(t, ix, i - ix, factor, carry[i - ix]) % Radix
     ELSE t[i]]

(* Mutated: the carry is added where the row ends, and goes no further.    *)
Mut_Upwards(t, u, place) == [t EXCEPT ![place] = @ + u]

(* The carry, which may be longer than a digit, goes up from its place:    *)
(* its lower digit is added, and what is above both goes on.               *)
Upwards(t, u, place) ==
  LET Added(n, d) == DigitType(d + (n % Radix))
      up[i \in place .. Places("sqr")] ==
        IF i = place THEN u ELSE (up[i - 1] \div Radix) + (Added(up[i - 1], t[i - 1]) \div Radix)
  IN  [i \in DOMAIN t |-> IF i < place THEN t[i] ELSE Added(up[i], t[i]) % Radix]

RowsLeft(routine) == Runs(routine) /\ loc.ix < Used(A)
NextRow(t) == loc' = [loc EXCEPT !.t = t, !.ix = @ + 1]

mul_row ==
  /\ RowsLeft("mul")
  /\ LET ix == loc.ix
         pb == MaxOf(MinOf(Used(B), loc.digs - ix), 0)
         carry == Carries(loc.t, ix, 0, pb, 1, 0)
         row == Row(loc.t, ix, carry, 1)
     IN  NextRow(IF ix + pb < loc.digs THEN [row EXCEPT ![ix + pb] = carry[pb]] ELSE row)
  /\ Goto("mul_runs")

sqr_row ==
  /\ RowsLeft("sqr")
  /\ LET ix == loc.ix
         r == Word(loc.t[2 * ix] + Digit(A, ix) * Digit(A, ix))
         t == [loc.t EXCEPT ![2 * ix] = r % Radix]
         carry == Carries(t, ix, ix + 1, Used(A), 2, DigitType(r \div Radix))
     IN  NextRow(Upwards(Row(t, ix, carry, 2), carry[Used(A)], ix + Used(A)))
  /\ Goto("mul_runs")

mul_high_row ==
  /\ RowsLeft("mul_high")
  /\ LET ix == loc.ix
         pb == MaxOf(Used(B), loc.digs - ix)
         carry == Carries(loc.t, ix, loc.digs - ix, pb, 1, 0)
     IN  NextRow([Row(loc.t, ix, carry, 1) EXCEPT ![ix + Used(B)] = carry[pb]])
  /\ Goto("mul_runs")

row_end ==
  \E routine \in {"mul", "sqr", "mul_high"} :
    /\ Runs(routine) /\ loc.ix >= Used(A)
    /\ Deliver("OKAY", Number(loc.t, Places(routine)), {"t"})

-----------------------------------------------------------------------------
(* The temporaries of the other routines, in the order of initialisation:  *)
(* when one fails, those before it are cleared.                            *)
Ladder(routine) ==
  CASE routine = "balance" -> << {"a0"}, {"tmp", "r"} >>
    [] routine = "karatsuba" ->
         << {"x0"}, {"x1"}, {"y0"}, {"y1"}, {"t1"}, {"x0y0"}, {"x1y1"} >>
    [] routine = "sqr_karatsuba" -> << {"x0"}, {"x1"}, {"t1"}, {"t2"}, {"x0x0"}, {"x1x1"} >>
    [] routine = "toom" ->
         << {"S1", "S2", "T1"}, {"a0"}, {"a1"}, {"a2"}, {"b0"}, {"b1"}, {"b2"} >>
    [] routine = "sqr_toom" -> << {"S0"}, {"a0"}, {"a1"}, {"a2"} >>

Before(routine, k) == UNION {Ladder(routine)[i] : i \in 1 .. k - 1}
Temporaries(routine) == Before(routine, Len(Ladder(routine)) + 1)

(* Mutated: the label is one too low.                                      *)
Mut_Cleared(routine, k) == Before(routine, k - 1)

(* What is cleared from the label the k-th goes to when it fails.          *)
Cleared(routine, k) == Before(routine, k)

CannotInitialise(routine) ==
  \E k \in 1 .. Len(Ladder(routine)) :
    /\ Put(fr.c, IF fr.op = "mul" /\ loc.neg THEN - Magnitude(val[fr.c]) ELSE Magnitude(val[fr.c]))
    /\ live' = Before(routine, k) \ Cleared(routine, k)
    /\ pc' = "done" /\ err' = "MEM" /\ loc' = NoLocals
    /\ UNCHANGED << fr, old >>

Starts(routine, l) ==
  /\ loc' = l
  /\ live' = Temporaries(routine)
  /\ pc' = "mul_runs"
  /\ UNCHANGED << val, fr, err, old >>

-----------------------------------------------------------------------------
(* Slices of the longer number, as long as the shorter, and what is left.  *)
longer == IF Used(A) < Used(B) THEN B ELSE A
shorter == IF Used(A) < Used(B) THEN A ELSE B
bsize == Used(shorter)

Slices == Used(longer) \div bsize + (IF bsize * (Used(longer) \div bsize) < Used(longer) THEN 1 ELSE 0)
Slice(i) == (Magnitude(longer) \div Weight(bsize * i)) % Weight(bsize)

balance_begin ==
  /\ Begins("balance")
  /\ \/ CannotInitialise("balance")
     \/ Starts("balance", [neg |-> loc.neg, routine |-> "balance", i |-> 0, r |-> 0])

balance_slice ==
  /\ Runs("balance") /\ loc.i < Slices
  /\ \/ Fail(Temporaries("balance"))
     \/ /\ loc' = [loc EXCEPT !.i = @ + 1, !.r = @ + Slice(loc.i) * shorter * Weight(bsize * loc.i)]
        /\ Goto("mul_runs")

balance_end ==
  Runs("balance") /\ loc.i = Slices /\ Deliver("OKAY", loc.r, Temporaries("balance"))

-----------------------------------------------------------------------------
(* The calls of the other four: destination, operation, operands.  "s+"    *)
(* and "s-" are s_mp_add and s_mp_sub, of magnitudes; "lshd" is by the     *)
(* given number of parts.                                                  *)
Karatsuba ==
  << << "x0y0", "*", "x0", "y0" >>, << "x1y1", "*", "x1", "y1" >>,
     << "t1", "s+", "x1", "x0" >>, << "x0", "s+", "y1", "y0" >>, << "t1", "*", "t1", "x0" >>,
     << "x0", "+", "x0y0", "x1y1" >>, << "t1", "s-", "t1", "x0" >>,
     << "t1", "lshd", "t1", 1 >>, << "x1y1", "lshd", "x1y1", 2 >>,
     << "t1", "+", "x0y0", "t1" >>, << "c", "+", "t1", "x1y1" >> >>

SqrKaratsuba ==
  << << "x0x0", "*", "x0", "x0" >>, << "x1x1", "*", "x1", "x1" >>,
     << "t1", "s+", "x1", "x0" >>, << "t1", "*", "t1", "t1" >>,
     << "t2", "s+", "x0x0", "x1x1" >>, << "t1", "s-", "t1", "t2" >>,
     << "t1", "lshd", "t1", 1 >>, << "x1x1", "lshd", "x1x1", 2 >>,
     << "t1", "+", "x0x0", "t1" >>, << "c", "+", "t1", "x1x1" >> >>

Toom ==
  << << "T1", "+", "a2", "a1" >>, << "S2", "+", "T1", "a0" >>, << "c", "+", "b2", "b1" >>,
     << "S1", "+", "c", "b0" >>, << "S1", "*", "S1", "S2" >>, << "T1", "+", "T1", "a2" >>,
     << "T1", "+", "T1", "T1" >>, << "T1", "+", "T1", "a0" >>, << "c", "+", "c", "b2" >>,
     << "c", "+", "c", "c" >>, << "c", "+", "c", "b0" >>, << "S2", "*", "T1", "c" >>,
     << "a1", "-", "a2", "a1" >>, << "a1", "+", "a1", "a0" >>, << "b1", "-", "b2", "b1" >>,
     << "b1", "+", "b1", "b0" >>, << "a1", "*", "a1", "b1" >>, << "b1", "*", "a2", "b2" >>,
     << "S2", "-", "S2", "a1" >>, << "S2", "div", "S2", 3 >>, << "a1", "-", "S1", "a1" >>,
     << "a1", "div", "a1", 2 >>, << "a0", "*", "a0", "b0" >>, << "S1", "-", "S1", "a0" >>,
     << "S2", "-", "S2", "S1" >>, << "S2", "div", "S2", 2 >>, << "S1", "-", "S1", "a1" >>,
     << "S1", "-", "S1", "b1" >>, << "T1", "+", "b1", "b1" >>, << "S2", "-", "S2", "T1" >>,
     << "a1", "-", "a1", "S2" >>, << "b1", "lshd", "b1", 4 >>, << "S2", "lshd", "S2", 3 >>,
     << "b1", "+", "b1", "S2" >>, << "S1", "lshd", "S1", 2 >>, << "b1", "+", "b1", "S1" >>,
     << "a1", "lshd", "a1", 1 >>, << "b1", "+", "b1", "a1" >>, << "c", "+", "b1", "a0" >> >>

SqrToom ==
  << << "S0", "*", "a0", "a0" >>, << "a0", "+", "a0", "a2" >>, << "c", "-", "a0", "a1" >>,
     << "a0", "+", "a0", "a1" >>, << "a0", "*", "a0", "a0" >>, << "c", "*", "c", "c" >>,
     << "a1", "*", "a1", "a2" >>, << "a1", "+", "a1", "a1" >>, << "a2", "*", "a2", "a2" >>,
     << "c", "+", "a0", "c" >>, << "c", "div", "c", 2 >>, << "a0", "-", "a0", "c" >>,
     << "a0", "-", "a0", "a1" >>, << "c", "-", "c", "a2" >>, << "c", "-", "c", "S0" >>,
     << "a2", "lshd", "a2", 4 >>, << "a1", "lshd", "a1", 3 >>, << "c", "lshd", "c", 2 >>,
     << "a0", "lshd", "a0", 1 >>, << "a2", "+", "a2", "a1" >>, << "c", "+", "a2", "c" >>,
     << "c", "+", "c", "a0" >>, << "c", "+", "c", "S0" >> >>

Calls(routine) ==
  CASE routine = "karatsuba" -> Karatsuba [] routine = "sqr_karatsuba" -> SqrKaratsuba
    [] routine = "toom" -> Toom [] routine = "sqr_toom" -> SqrToom

(* Digits of a part, and the parts of the operands.                        *)
Part(routine) ==
  MinOf(Used(A), Used(B)) \div (IF routine \in {"karatsuba", "sqr_karatsuba"} THEN 2 ELSE 3)

Parts(routine) ==
  LET P == Weight(Part(routine))
      m == Magnitude(A)
      n == Magnitude(B)
  IN  [t \in Temporaries(routine) |->
         CASE t \in {"x0", "a0"} -> m % P [] t = "x1" -> m \div P
           [] t = "a1" -> (m \div P) % P [] t = "a2" -> m \div (P * P)
           [] t \in {"y0", "b0"} -> n % P [] t = "y1" -> n \div P
           [] t = "b1" -> (n \div P) % P [] t = "b2" -> n \div (P * P)
           [] OTHER -> 0]

PartRoutines == {"karatsuba", "sqr_karatsuba", "toom", "sqr_toom"}

parts_begin ==
  \E routine \in PartRoutines :
    /\ Begins(routine)
    /\ \/ CannotInitialise(routine)
       \/ Starts(routine, [neg |-> loc.neg, routine |-> routine, i |-> 1,
                            part |-> Part(routine), t |-> Parts(routine)])

Operand(t) == IF t = "c" THEN val[fr.c] ELSE loc.t[t]

Result(call) ==
  LET x == Operand(call[3])
      y == Operand(call[4])
      op == call[2]
  IN  CASE op = "*" -> x * y [] op = "+" -> x + y [] op = "-" -> x - y
        [] op = "s+" -> Magnitude(x) + Magnitude(y) [] op = "s-" -> Magnitude(x) - Magnitude(y)
        [] op = "div" -> Quotient(x, call[4]) [] op = "lshd" -> x * Weight(loc.part * call[4])

parts_call ==
  \E routine \in PartRoutines :
    /\ Runs(routine)
    /\ LET call == Calls(routine)[loc.i]
           n == Result(call)
           next == [loc EXCEPT !.i = @ + 1]
       IN  \/ Fail(Temporaries(routine))
           \/ /\ loc.i = Len(Calls(routine))
              /\ Deliver("OKAY", n, Temporaries(routine))
           \/ /\ loc.i < Len(Calls(routine)) /\ call[1] = "c"
              /\ Put(fr.c, n) /\ loc' = next
              /\ UNCHANGED << live, pc, fr, err, old >>
           \/ /\ loc.i < Len(Calls(routine)) /\ call[1] # "c"
              /\ loc' = [next EXCEPT !.t[call[1]] = n]
              /\ Goto("mul_runs")

MulNext ==
  \/ mp_mul \/ s_mp_mul \/ s_mp_mul_high \/ no_routine
  \/ comba_begin \/ comba_column \/ comba_end
  \/ row_begin \/ mul_row \/ sqr_row \/ mul_high_row \/ row_end
  \/ balance_begin \/ balance_slice \/ balance_end \/ parts_begin \/ parts_call

-----------------------------------------------------------------------------
(* The products of digits that belong to the columns from digs on.         *)
HighColumns(m, n, digs) ==
  LET column(ix) == Total([i \in 0 .. ix |-> Digit(m, i) * Digit(n, ix - i)], ix + 1)
      columns == Used(m) + Used(n)
  IN  Total([ix \in 0 .. columns - 1 |-> IF ix < digs THEN 0 ELSE column(ix) * Weight(ix)], columns)

(* mp_mul leaves the product whichever routine it chooses, and whichever   *)
(* operand it replaces; s_mp_mul the digits asked for of the product of    *)
(* the magnitudes, s_mp_mul_high the digits of the columns asked for, with *)
(* the comba routine above what the destination held.                      *)
ProductCorrect ==
  LET a == old[fr.a]
      b == old[fr.b]
      c == val[fr.c]
  IN  /\ Succeeded("mul") => c = a * b
      /\ Done("mul") /\ err = "VAL" => "mul" \notin fr.has
      /\ Succeeded("low") =>
           Magnitude(c) = (Magnitude(a) * Magnitude(b)) % Weight(MinOf(fr.digs, Used(a) + Used(b) + 1))
      /\ Succeeded("high") =>
           Magnitude(c) \div Weight(fr.digs) = HighColumns(a, b, fr.digs) \div Weight(fr.digs)

(* Every place of a row holds a digit, every column a digit once it is     *)
(* done, and the carry out of it is a word.                                *)
MulTypeOK ==
  pc = "mul_runs" =>
    /\ loc.routine \in {"mul", "sqr", "mul_high"} =>
         \A i \in DOMAIN loc.t : loc.t[i] \in 0 .. Radix - 1
    /\ loc.routine \in {"comba", "sqr_comba", "high_comba"} =>
         /\ \A i \in DOMAIN loc.W : loc.W[i] \in 0 .. Radix - 1
         /\ loc.carry \in 0 .. 2 ^ (MP_WORD_BIT - MP_DIGIT_BIT) - 1

(* In the list of calls the differences of magnitudes are of a greater and *)
(* a smaller one, and what is divided by two or three is divisible.        *)
MulLoopInvariant ==
  \A routine \in PartRoutines :
    Runs(routine) =>
      LET call == Calls(routine)[loc.i]
      IN  /\ call[2] = "s-" => Operand(call[3]) >= Operand(call[4])
          /\ call[2] = "div" => Operand(call[3]) % call[4] = 0

(* A failed product leaves the magnitude of its destination, but for the   *)
(* routines of Toom and Cook, and gives it the sign of the product.        *)
MulFailure ==
  /\ \A s \in Ints \ {fr.c} : val[s] = old[s]
  /\ LET a == old[fr.a]
         b == old[fr.b]
         c == val[fr.c]
     IN  IF fr.op = "mul"
         THEN /\ c # 0 => Sgn(c) = Sgn(a) * Sgn(b)
              /\ \/ Magnitude(c) = Magnitude(old[fr.c])
                 \/ fr.a = fr.b /\ "sqr_toom" \in fr.has /\ Used(a) >= MP_SQR_TOOM_CUTOFF
                 \/ "toom" \in fr.has /\ MinOf(Used(a), Used(b)) >= MP_MUL_TOOM_CUTOFF
         ELSE c = old[fr.c]
=============================================================================
