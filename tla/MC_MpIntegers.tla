---------------------------- MODULE MC_MpIntegers ----------------------------
(* Model-checking instance of MpIntegers.  The first argument is i1; the   *)
(* others are every choice of structures, up to their names.  A structure  *)
(* that is no operand holds - Spare.  The values are chosen by function.   *)
EXTENDS MpIntegers

CONSTANTS i1, i2, i3,         \* the structures
          Spare,
          GcdMax, GcdNegative,   \* operands from - GcdNegative to GcdMax,
          GcdLong,               \* and long ones
          DivMax, DivNegative, DivLong,
          RootMax, RootNegative, RootPowers, RootMaxOrder,
          InvMax, InvNegative, InvLong, EuclidMax, EuclidNegative,
          ExptMax, ExptMaxExponent, PowerBases, PowerMaxExponent, PowerExponents, PowerModuli,
          SymbolMax, SquareMax, SquareRoots, RootModuli, ResidueMax

MCInts == {i1, i2, i3}

Upto(lo, hi) == (- lo) .. hi

(* The destinations, given the second operand.                             *)
Others(b) == IF b = i1 THEN {i1, i2} ELSE {i1, i2, i3}

MCGcdFrames ==
  UNION {[op : {"gcd", "lcm"}, a : {i1}, b : {b}, c : Others(b)] : b \in {i1, i2}}
MCDivFrames ==
  {f \in UNION {[op : {"div"}, routine : {"school", "small"}, a : {i1}, b : {b},
                 c : Others(b) \cup {NULL}, d : Others(b) \cup {NULL}] : b \in {i1, i2}} :
     f.c = f.d => f.c = NULL}
MCRootFrames ==
  [op : {"sqrt"}, a : {i1}, c : {i1, i2}] \cup
  [op : {"root"}, a : {i1}, n : {-1} \cup 1 .. RootMaxOrder, c : {i1, i2}]
MCInvmodFrames ==
  UNION {[op : {"invmod"}, routine : {"odd", "plain"}, a : {i1}, b : {b}, c : Others(b)] :
           b \in {i1, i2}}
MCExteuclidFrames ==
  {f \in [op : {"exteuclid"}, a : {i1}, b : {i1, i2}, U1 : {i1, i2, NULL}, U2 : {i1, i3, NULL},
          U3 : {i2, i3, NULL}] :
     (f.U1 = f.U2 \/ f.U1 = f.U3 => f.U1 = NULL) /\ (f.U2 = f.U3 => f.U2 = NULL)}
MCExptFrames == [op : {"expt"}, a : {i1}, n : -1 .. ExptMaxExponent, c : {i1, i2}]
MCExptmodFrames ==
  [op : {"exptmod"}, routine : {"both", "fast"}, a : {i1}, X : {i2}, P : {i3}, c : {i1, i2, i3}]
    \cup [op : {"exptmod"}, routine : {"both"}, a : {i1}, X : {i1}, P : {i1, i3}, c : {i1}]
MCKroneckerFrames == [op : {"kronecker"}, a : {i1}, b : {i1, i2}]
MCIsSquareFrames == [op : {"is_square"}, a : {i1}]
MCSqrtmodFrames ==
  UNION {[op : {"sqrtmod"}, a : {i1}, b : {b}, c : Others(b)] : b \in {i1, i2}}

MCGcdValues == Upto(GcdNegative, GcdMax) \cup GcdLong
MCDivValues == Upto(DivNegative, DivMax) \cup DivLong
MCRootValues == Upto(RootNegative, RootMax) \cup UNION {(p - 1) .. (p + 1) : p \in RootPowers}

MCFrames ==
  UNION {MCGcdFrames, MCDivFrames, MCRootFrames, MCInvmodFrames, MCExteuclidFrames,
         MCExptFrames, MCExptmodFrames, MCKroneckerFrames, MCIsSquareFrames, MCSqrtmodFrames}

Idle == {- Spare}

(* What i1, i2 and i3 hold.                                                *)
MCValues(f) ==
  LET op == f.op
      Two(V, W) == IF f.b = i1 THEN << V, Idle, Idle >> ELSE << V, W, Idle >>
  IN  CASE op \in {"gcd", "lcm"} -> Two(MCGcdValues, MCGcdValues)
        [] op = "div" -> Two(MCDivValues, MCDivValues)
        [] op \in {"sqrt", "root"} -> << MCRootValues, Idle, Idle >>
        [] op = "invmod" -> Two(Upto(InvNegative, InvMax) \cup InvLong, Upto(1, InvMax) \cup InvLong)
        [] op = "exteuclid" ->
             Two(Upto(EuclidNegative, EuclidMax), Upto(EuclidNegative, EuclidMax))
        [] op = "expt" -> << Upto(ExptMax, ExptMax), Idle, Idle >>
        [] op = "exptmod" ->
             << PowerBases \cup {-2}, IF f.X = i1 THEN Idle ELSE (-3) .. PowerMaxExponent \cup PowerExponents,
                IF f.P = i1 THEN Idle ELSE PowerModuli \cup {-1} >>
        [] op = "kronecker" -> Two(Upto(SymbolMax, SymbolMax), Upto(SymbolMax, SymbolMax))
        [] op = "is_square" -> << (-1) .. SquareMax \cup {r * r : r \in 0 .. SquareRoots}, Idle, Idle >>
        [] op = "sqrtmod" -> Two(Upto(2, ResidueMax), RootModuli \cup {-3})

MCContents(f) ==
  {[s \in MCInts |-> IF s = i1 THEN n[1] ELSE IF s = i2 THEN n[2] ELSE n[3]] :
     n \in MCValues(f)[1] \X MCValues(f)[2] \X MCValues(f)[3]}
=============================================================================
