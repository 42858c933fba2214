---------------------------- MODULE MpMul_proofs ----------------------------
(***************************************************************************)
(* What a product writes, and what the routines compute: for all integers, *)
(* every radix, and every width of mp_word that the code is made for.      *)
(***************************************************************************)
EXTENDS MpMul, MpCall_proofs

MulOps == {"mul", "low", "high"}

Columns == {"comba", "sqr_comba", "high_comba"}
Rows == {"mul", "sqr", "mul_high"}

MulTemps(routine) ==
  IF routine \in Columns THEN {} ELSE IF routine \in Rows THEN {"t"} ELSE Temporaries(routine)

MulOwns ==
  fr.op \in MulOps =>
    /\ pc \in MulOps \cup {"mul_begins", "mul_runs", "done"}
    /\ pc \in MulOps => fr.op = pc
    /\ pc # "mul_runs" => live = {}
    /\ pc \in {"mul_begins", "mul_runs"} => "routine" \in DOMAIN loc
    /\ pc = "mul_runs" => live = MulTemps(loc.routine)

(* The structures of the client are there, and what they held is known.    *)
Remembered ==
  /\ old \in [Ints -> Int] /\ old \in Contents(fr)
  /\ DOMAIN val = Ints

-----------------------------------------------------------------------------
(* The calls of the routines that work by parts: their operands are        *)
(* temporaries or the destination, numbers are divided by two or three and *)
(* shifted by up to four parts, and Karatsuba's routines leave the         *)
(* destination alone until the last one.                                   *)
IsCall(call, temps) ==
  /\ call[1] \in temps \cup {"c"} /\ call[3] \in temps \cup {"c"}
  /\ \/ call[2] \in {"*", "+", "-", "s+", "s-"} /\ call[4] \in temps \cup {"c"}
     \/ call[2] = "div" /\ call[4] \in 2 .. 3
     \/ call[2] = "lshd" /\ call[4] \in 1 .. 4

KaratsubaTemps == {"x0", "x1", "y0", "y1", "t1", "x0y0", "x1y1"}
SqrKaratsubaTemps == {"x0", "x1", "t1", "t2", "x0x0", "x1x1"}
ToomTemps == {"S1", "S2", "T1", "a0", "a1", "a2", "b0", "b1", "b2"}
SqrToomTemps == {"S0", "a0", "a1", "a2"}

LEMMA PartTemporaries ==
  /\ KaratsubaTemps \subseteq Temporaries("karatsuba")
  /\ SqrKaratsubaTemps \subseteq Temporaries("sqr_karatsuba")
  /\ ToomTemps \subseteq Temporaries("toom")
  /\ SqrToomTemps \subseteq Temporaries("sqr_toom")
<1>1. KaratsubaTemps \subseteq Temporaries("karatsuba")
  <2>. DEFINE ladder == << {"x0"}, {"x1"}, {"y0"}, {"y1"}, {"t1"}, {"x0y0"}, {"x1y1"} >>
  <2>1. Ladder("karatsuba") = ladder
    BY DEF Ladder
  <2>2. Temporaries("karatsuba") = UNION {ladder[i] : i \in 1 .. 7}
    <3>1. Len(ladder) = 7
      OBVIOUS
    <3>. HIDE DEF ladder
    <3>2. Temporaries("karatsuba") = Before("karatsuba", 7 + 1)
      BY <2>1, <3>1 DEF Temporaries
    <3>3. 1 .. (7 + 1) - 1 = 1 .. 7
      OBVIOUS
    <3>. QED
      BY <2>1, <3>2, <3>3 DEF Before
  <2>. QED
    BY <2>2 DEF KaratsubaTemps
<1>2. SqrKaratsubaTemps \subseteq Temporaries("sqr_karatsuba")
  <2>. DEFINE ladder == << {"x0"}, {"x1"}, {"t1"}, {"t2"}, {"x0x0"}, {"x1x1"} >>
  <2>1. Ladder("sqr_karatsuba") = ladder
    BY DEF Ladder
  <2>2. Temporaries("sqr_karatsuba") = UNION {ladder[i] : i \in 1 .. 6}
    <3>1. Len(ladder) = 6
      OBVIOUS
    <3>. HIDE DEF ladder
    <3>2. Temporaries("sqr_karatsuba") = Before("sqr_karatsuba", 6 + 1)
      BY <2>1, <3>1 DEF Temporaries
    <3>3. 1 .. (6 + 1) - 1 = 1 .. 6
      OBVIOUS
    <3>. QED
      BY <2>1, <3>2, <3>3 DEF Before
  <2>. QED
    BY <2>2 DEF SqrKaratsubaTemps
<1>3. ToomTemps \subseteq Temporaries("toom")
  <2>. DEFINE ladder == << {"S1", "S2", "T1"}, {"a0"}, {"a1"}, {"a2"}, {"b0"}, {"b1"}, {"b2"} >>
  <2>1. Ladder("toom") = ladder
    BY DEF Ladder
  <2>2. Temporaries("toom") = UNION {ladder[i] : i \in 1 .. 7}
    <3>1. Len(ladder) = 7
      OBVIOUS
    <3>. HIDE DEF ladder
    <3>2. Temporaries("toom") = Before("toom", 7 + 1)
      BY <2>1, <3>1 DEF Temporaries
    <3>3. 1 .. (7 + 1) - 1 = 1 .. 7
      OBVIOUS
    <3>. QED
      BY <2>1, <3>2, <3>3 DEF Before
  <2>. QED
    BY <2>2 DEF ToomTemps
<1>4. SqrToomTemps \subseteq Temporaries("sqr_toom")
  <2>. DEFINE ladder == << {"S0"}, {"a0"}, {"a1"}, {"a2"} >>
  <2>1. Ladder("sqr_toom") = ladder
    BY DEF Ladder
  <2>2. Temporaries("sqr_toom") = UNION {ladder[i] : i \in 1 .. 4}
    <3>1. Len(ladder) = 4
      OBVIOUS
    <3>. HIDE DEF ladder
    <3>2. Temporaries("sqr_toom") = Before("sqr_toom", 4 + 1)
      BY <2>1, <3>1 DEF Temporaries
    <3>3. 1 .. (4 + 1) - 1 = 1 .. 4
      OBVIOUS
    <3>. QED
      BY <2>1, <3>2, <3>3 DEF Before
  <2>. QED
    BY <2>2 DEF SqrToomTemps
<1>. QED
  BY <1>1, <1>2, <1>3, <1>4

LEMMA KaratsubaCalls ==
  /\ Len(Karatsuba) = 11 /\ \A i \in 1 .. 11 : IsCall(Karatsuba[i], KaratsubaTemps)
  /\ \A i \in 1 .. 10 : Karatsuba[i][1] # "c"
BY DEF Karatsuba, IsCall, KaratsubaTemps

LEMMA SqrKaratsubaCalls ==
  /\ Len(SqrKaratsuba) = 10 /\ \A i \in 1 .. 10 : IsCall(SqrKaratsuba[i], SqrKaratsubaTemps)
  /\ \A i \in 1 .. 9 : SqrKaratsuba[i][1] # "c"
BY DEF SqrKaratsuba, IsCall, SqrKaratsubaTemps

LEMMA ToomCalls ==
  Len(Toom) = 39 /\ \A i \in 1 .. 39 : IsCall(Toom[i], ToomTemps)
BY DEF Toom, IsCall, ToomTemps

LEMMA SqrToomCalls ==
  Len(SqrToom) = 23 /\ \A i \in 1 .. 23 : IsCall(SqrToom[i], SqrToomTemps)
BY DEF SqrToom, IsCall, SqrToomTemps

LEMMA MoreTemporaries ==
  ASSUME NEW call, NEW temps, NEW more, temps \subseteq more, IsCall(call, temps)
  PROVE  IsCall(call, more)
BY DEF IsCall

LEMMA PartCalls ==
  ASSUME NEW routine \in PartRoutines, NEW i \in 1 .. Len(Calls(routine))
  PROVE  /\ Len(Calls(routine)) \in Nat
         /\ IsCall(Calls(routine)[i], Temporaries(routine))
         /\ routine \in {"karatsuba", "sqr_karatsuba"} /\ i < Len(Calls(routine))
              => Calls(routine)[i][1] # "c"
<1>1. CASE routine = "karatsuba"
  <2>1. Calls(routine) = Karatsuba
    BY <1>1 DEF Calls
  <2>2. i \in 1 .. 11
    BY <2>1, KaratsubaCalls
  <2>. QED
    <3>1. IsCall(Karatsuba[i], KaratsubaTemps) /\ Len(Karatsuba) = 11
      BY <2>2, KaratsubaCalls
    <3>2. IsCall(Karatsuba[i], Temporaries(routine))
      BY <1>1, <3>1, PartTemporaries, MoreTemporaries
    <3>3. i < 11 => Karatsuba[i][1] # "c"
      <4>1. i < 11 => i \in 1 .. 10
        BY <2>2
      <4>. QED
        BY <4>1, KaratsubaCalls
    <3>. QED
      BY <2>1, <3>1, <3>2, <3>3
<1>2. CASE routine = "sqr_karatsuba"
  <2>1. Calls(routine) = SqrKaratsuba
    BY <1>2 DEF Calls
  <2>2. i \in 1 .. 10
    BY <2>1, SqrKaratsubaCalls
  <2>. QED
    <3>1. IsCall(SqrKaratsuba[i], SqrKaratsubaTemps) /\ Len(SqrKaratsuba) = 10
      BY <2>2, SqrKaratsubaCalls
    <3>2. IsCall(SqrKaratsuba[i], Temporaries(routine))
      BY <1>2, <3>1, PartTemporaries, MoreTemporaries
    <3>3. i < 10 => SqrKaratsuba[i][1] # "c"
      <4>1. i < 10 => i \in 1 .. 9
        BY <2>2
      <4>. QED
        BY <4>1, SqrKaratsubaCalls
    <3>. QED
      BY <2>1, <3>1, <3>2, <3>3
<1>3. CASE routine = "toom"
  <2>1. Calls(routine) = Toom
    BY <1>3 DEF Calls
  <2>2. i \in 1 .. 39
    BY <2>1, ToomCalls
  <2>. QED
    <3>1. IsCall(Toom[i], ToomTemps) /\ Len(Toom) = 39
      BY <2>2, ToomCalls
    <3>2. IsCall(Toom[i], Temporaries(routine))
      BY <1>3, <3>1, PartTemporaries, MoreTemporaries
    <3>3. routine \notin {"karatsuba", "sqr_karatsuba"}
      BY <1>3
    <3>4. Len(Toom) \in Nat
      BY <3>1
    <3>. QED
      BY <2>1, <3>2, <3>3, <3>4, Zenon
<1>4. CASE routine = "sqr_toom"
  <2>1. Calls(routine) = SqrToom
    BY <1>4 DEF Calls
  <2>2. i \in 1 .. 23
    BY <2>1, SqrToomCalls
  <2>. QED
    <3>1. IsCall(SqrToom[i], SqrToomTemps) /\ Len(SqrToom) = 23
      BY <2>2, SqrToomCalls
    <3>2. IsCall(SqrToom[i], Temporaries(routine))
      BY <1>4, <3>1, PartTemporaries, MoreTemporaries
    <3>3. routine \notin {"karatsuba", "sqr_karatsuba"}
      BY <1>4
    <3>4. Len(SqrToom) \in Nat
      BY <3>1
    <3>. QED
      BY <2>1, <3>2, <3>3, <3>4, Zenon
<1>. QED
  BY <1>1, <1>2, <1>3, <1>4 DEF PartRoutines

(* What a call of a list gives is an integer.                              *)
LEMMA QuotientBySmall ==
  ASSUME NEW x \in Int, NEW d \in 2 .. 3
  PROVE  Quotient(x, d) \in Int
<1>1. Magnitude(d) = d /\ Sgn(d) = 1
  BY MagnitudeProperties DEF Magnitude, Sgn
<1>2. Magnitude(x) \in Nat /\ Sgn(x) \in {-1, 1}
  BY MagnitudeProperties
<1>3. Magnitude(x) \div d \in Nat
  <2>1. Magnitude(x) \div 2 \in Nat /\ Magnitude(x) \div 3 \in Nat
    BY <1>2
  <2>2. d = 2 \/ d = 3
    OBVIOUS
  <2>. QED
    BY <2>1, <2>2
<1>. DEFINE q == Magnitude(x) \div d
<1>4. Quotient(x, d) = Sgn(x) * 1 * q
  BY <1>1 DEF Quotient
<1>. HIDE DEF q
<1>5. q \in Nat
  BY <1>3 DEF q
<1>. QED
  BY <1>2, <1>4, <1>5

LEMMA ResultTyped ==
  ASSUME NEW temps, NEW call, IsCall(call, temps),
         \A t \in temps : loc.t[t] \in Int, val[fr.c] \in Int, loc.part \in Nat
  PROVE  Result(call) \in Int
<1>. DEFINE x == Operand(call[3])
            y == Operand(call[4])
<1>1. \A t \in temps \cup {"c"} : Operand(t) \in Int
  BY DEF Operand
<1>2. x \in Int
  BY <1>1 DEF IsCall
<1>. HIDE DEF x, y
<1>3. CASE call[2] \in {"*", "+", "-", "s+", "s-"} /\ call[4] \in temps \cup {"c"}
  <2>1. y \in Int
    BY <1>1, <1>3 DEF y
  <2>2. x * y \in Int /\ x + y \in Int /\ x - y \in Int
    BY <1>2, <2>1
  <2>3. Magnitude(x) + Magnitude(y) \in Int /\ Magnitude(x) - Magnitude(y) \in Int
    BY <1>2, <2>1, MagnitudeProperties
  <2>. QED
    BY <1>3, <2>2, <2>3 DEF Result, x, y
<1>4. CASE call[2] = "div" /\ call[4] \in 2 .. 3
  <2>1. Result(call) = Quotient(x, call[4])
    BY <1>4 DEF Result, x
  <2>. QED
    BY <1>2, <1>4, <2>1, QuotientBySmall
<1>5. CASE call[2] = "lshd" /\ call[4] \in 1 .. 4
  <2>1. Result(call) = x * Weight(loc.part * call[4])
    BY <1>5 DEF Result, x
  <2>2. loc.part * call[4] \in Nat
    BY <1>5
  <2>3. Weight(loc.part * call[4]) \in Nat
    BY <2>2, Weights
  <2>. QED
    BY <1>2, <2>1, <2>3
<1>. QED
  BY <1>3, <1>4, <1>5 DEF IsCall

LEMMA UsedTyped ==
  ASSUME NEW n \in Int
  PROVE  /\ Magnitude(n) \in Nat /\ Used(n) = Used(Magnitude(n)) /\ Used(n) \in Nat
         /\ mp_count_bits(n) = mp_count_bits(Magnitude(n)) /\ mp_count_bits(n) \in Nat
<1>1. Magnitude(n) \in Nat /\ Magnitude(Magnitude(n)) = Magnitude(n)
  BY MagnitudeProperties DEF Magnitude, Sgn
<1>2. mp_count_bits(n) = mp_count_bits(Magnitude(n))
  BY <1>1, Zenon DEF mp_count_bits
<1>3. Used(n) = Used(Magnitude(n))
  BY <1>2, Zenon DEF Used
<1>. QED
  BY <1>1, <1>2, <1>3, UsedFacts, CountBitsFacts

LEMMA PartsTyped ==
  ASSUME NEW routine \in PartRoutines, A \in Int, B \in Int
  PROVE  /\ Part(routine) \in Nat
         /\ Parts(routine) \in [Temporaries(routine) -> Int]
<1>. DEFINE p == Part(routine)
            P == Weight(p)
            m == Magnitude(A)
            n == Magnitude(B)
<1>1. m \in Nat /\ n \in Nat
  BY MagnitudeProperties
<1>2. p \in Nat
  <2>. DEFINE least == MinOf(Used(A), Used(B))
  <2>1. Used(A) \in Nat /\ Used(B) \in Nat
    BY UsedTyped
  <2>2. least \in Nat
    BY <2>1 DEF MinOf
  <2>. HIDE DEF least
  <2>3. p = least \div 2 \/ p = least \div 3
    BY DEF Part, least
  <2>. QED
    BY <2>2, <2>3
<1>. HIDE DEF p
<1>3. P \in Nat /\ P > 0
  BY <1>2, Weights
<1>. HIDE DEF P, m, n
<1>4. P * P \in Nat /\ P * P > 0
  BY <1>3
<1>5. \A k \in Nat : k % P \in Int /\ k \div P \in Int /\ k \div (P * P) \in Int
  BY <1>3, <1>4, Division
<1>6. \A k \in Nat : (k \div P) % P \in Int
  BY <1>3, <1>5, Division
<1>7. Parts(routine) =
        [t \in Temporaries(routine) |->
           CASE t \in {"x0", "a0"} -> m % P [] t = "x1" -> m \div P
             [] t = "a1" -> (m \div P) % P [] t = "a2" -> m \div (P * P)
             [] t \in {"y0", "b0"} -> n % P [] t = "y1" -> n \div P
             [] t = "b1" -> (n \div P) % P [] t = "b2" -> n \div (P * P)
             [] OTHER -> 0]
  BY DEF Parts, m, n, P, p
<1>. DEFINE part(t) ==
              CASE t \in {"x0", "a0"} -> m % P [] t = "x1" -> m \div P
                [] t = "a1" -> (m \div P) % P [] t = "a2" -> m \div (P * P)
                [] t \in {"y0", "b0"} -> n % P [] t = "y1" -> n \div P
                [] t = "b1" -> (n \div P) % P [] t = "b2" -> n \div (P * P)
                [] OTHER -> 0
<1>8. m % P \in Int /\ m \div P \in Int /\ (m \div P) % P \in Int /\ m \div (P * P) \in Int
        /\ n % P \in Int /\ n \div P \in Int /\ (n \div P) % P \in Int /\ n \div (P * P) \in Int
  BY <1>1, <1>5, <1>6
<1>9. ASSUME NEW t \in Temporaries(routine)
      PROVE  part(t) \in Int
  BY <1>8
<1>. HIDE DEF part
<1>10. Parts(routine) = [t \in Temporaries(routine) |-> part(t)]
  BY <1>7 DEF part
<1>. QED
  BY <1>2, <1>9, <1>10 DEF p

-----------------------------------------------------------------------------
(* What a product has written: nothing outside of its destination, which   *)
(* holds what it held as long as the routine is not one of Toom and        *)
(* Cook's; and such a routine is for long operands only.                   *)
TakesToom ==
  \/ fr.a = fr.b /\ "sqr_toom" \in fr.has /\ Used(old[fr.a]) >= MP_SQR_TOOM_CUTOFF
  \/ "toom" \in fr.has /\ MinOf(Used(old[fr.a]), Used(old[fr.b])) >= MP_MUL_TOOM_CUTOFF

MulLocals ==
  /\ {"neg", "routine"} \subseteq DOMAIN loc
  /\ fr.op = "mul" => loc.neg = (Sgn(old[fr.a]) # Sgn(old[fr.b]))
  /\ fr.op = "mul" /\ loc.routine \in {"toom", "sqr_toom"} => TakesToom
  /\ fr.op # "mul" => loc.routine \in {"comba", "mul", "high_comba", "mul_high"}

PartLocals ==
  /\ loc.i \in 1 .. Len(Calls(loc.routine)) /\ loc.part \in Nat
  /\ DOMAIN loc = {"neg", "routine", "i", "part", "t"}
  /\ loc.t \in [Temporaries(loc.routine) -> Int]

MulWrites ==
  fr.op \in MulOps =>
    /\ \A s \in Ints \ {fr.c} : val[s] = old[s]
    /\ pc \in MulOps \cup {"mul_begins"} => val = old
    /\ pc \in {"mul_begins", "mul_runs"} => MulLocals
    /\ pc = "mul_runs" /\ loc.routine \in PartRoutines => PartLocals
    /\ pc = "mul_runs" =>
         IF loc.routine \in {"toom", "sqr_toom"} THEN val[fr.c] \in Int
         ELSE val[fr.c] = old[fr.c]
    /\ pc = "done" /\ err # "OKAY" => MulFailure

(* The destination of a call that fails, given the sign of the product.    *)
LEMMA SignedFailure ==
  ASSUME Remembered, fr \in MulFrames, fr' = fr, old' = old,
         \A s \in Ints \ {fr.c} : val[s] = old[s],
         NEW v \in Int, NEW neg \in BOOLEAN,
         fr.op = "mul" => neg = (Sgn(old[fr.a]) # Sgn(old[fr.b])),
         fr.op = "mul" /\ Magnitude(v) # Magnitude(old[fr.c]) => TakesToom,
         fr.op # "mul" => v = old[fr.c],
         val' = [val EXCEPT ![fr.c] = IF fr.op = "mul"
                                      THEN IF neg THEN - Magnitude(v) ELSE Magnitude(v) ELSE v]
  PROVE  MulFailure'
<1>. DEFINE n == IF fr.op = "mul" THEN IF neg THEN - Magnitude(v) ELSE Magnitude(v) ELSE v
<1>1. fr.a \in Ints /\ fr.b \in Ints /\ fr.c \in Ints
  BY DEF MulFrames
<1>2. old[fr.a] \in Int /\ old[fr.b] \in Int /\ old[fr.c] \in Int
  BY <1>1 DEF Remembered
<1>3. val'[fr.c] = n /\ \A s \in Ints \ {fr.c} : val'[s] = old[s]
  BY <1>1 DEF Remembered
<1>. DEFINE sa == Sgn(old[fr.a])
            sb == Sgn(old[fr.b])
<1>4. sa \in {-1, 1} /\ sb \in {-1, 1}
  BY <1>2, MagnitudeProperties
<1>5. (sa # sb => sa * sb = -1) /\ (sa = sb => sa * sb = 1)
  BY <1>4
<1>6. Magnitude(v) \in Nat
  BY MagnitudeProperties
<1>7. ASSUME fr.op = "mul", n # 0
      PROVE  Sgn(n) = sa * sb
  <2>. DEFINE m == Magnitude(v)
              p == sa * sb
  <2>1. p = IF neg THEN -1 ELSE 1
    BY <1>5, <1>7
  <2>2. n = (IF neg THEN - m ELSE m) /\ m \in Nat
    BY <1>6, <1>7
  <2>. HIDE DEF m, n, p
  <2>. QED
    BY <1>7, <2>1, <2>2 DEF Sgn, p
<1>8. fr.op = "mul" => Magnitude(n) = Magnitude(v)
  BY <1>6 DEF Magnitude, Sgn
<1>9. fr.op # "mul" => n = old[fr.c]
  OBVIOUS
<1>10. fr.op = "mul" => Magnitude(n) = Magnitude(old[fr.c]) \/ TakesToom
  BY <1>8
<1>. HIDE DEF n
<1>. QED
  BY <1>3, <1>7, <1>9, <1>10 DEF MulFailure, TakesToom

MulContext ==
  /\ fr \in MulFrames /\ fr.op \in MulOps /\ MulOwns /\ Remembered /\ MulWrites
  /\ fr' = fr /\ old' = old

LEMMA MulFails ==
  ASSUME MulContext, pc \in {"mul_begins", "mul_runs"}, NEW code, NEW v, v = val[fr.c],
         pc' = "done", err' = code,
         val' = [val EXCEPT ![fr.c] = IF fr.op = "mul"
                                      THEN IF loc.neg THEN - Magnitude(v) ELSE Magnitude(v) ELSE v]
  PROVE  MulWrites'
<1>1. fr \in MulFrames /\ fr.c \in Ints
  BY DEF MulContext, MulFrames
<1>2. MulLocals /\ \A s \in Ints \ {fr.c} : val[s] = old[s]
  BY DEF MulContext, MulWrites
<1>3. v \in Int
  BY <1>1 DEF MulContext, MulWrites, Remembered, MulOps
<1>. DEFINE neg == IF fr.op = "mul" THEN loc.neg ELSE FALSE
<1>4. neg \in BOOLEAN /\ (fr.op = "mul" => neg = (Sgn(old[fr.a]) # Sgn(old[fr.b])))
  BY <1>2 DEF MulLocals
<1>5. fr.op = "mul" /\ Magnitude(v) # Magnitude(old[fr.c]) => TakesToom
  BY <1>2 DEF MulContext, MulWrites, MulLocals
<1>6. fr.op # "mul" => v = old[fr.c]
  BY <1>2 DEF MulContext, MulWrites, MulLocals
<1>7. val' = [val EXCEPT ![fr.c] = IF fr.op = "mul"
                                   THEN IF neg THEN - Magnitude(v) ELSE Magnitude(v) ELSE v]
  OBVIOUS
<1>. HIDE DEF neg
<1>8. MulFailure'
  BY <1>1, <1>2, <1>3, <1>4, <1>5, <1>6, <1>7, SignedFailure DEF MulContext
<1>9. \A s \in Ints \ {fr.c} : val'[s] = val[s]
  BY <1>7 DEF MulContext, Remembered
<1>. QED
  BY <1>2, <1>8, <1>9 DEF MulContext, MulWrites, MulOps

LEMMA MulDelivers ==
  ASSUME MulContext, NEW n, NEW cleared, Deliver("OKAY", n, cleared)
  PROVE  MulWrites'
<1>1. \A s \in Ints \ {fr.c} : val'[s] = val[s]
  BY DEF MulContext, Remembered, Deliver, Put
<1>2. pc' = "done" /\ err' = "OKAY"
  BY DEF Deliver, Return
<1>. QED
  BY <1>1, <1>2 DEF MulContext, MulWrites, MulOps

LEMMA MulFail ==
  ASSUME MulContext, pc \in {"mul_begins", "mul_runs"}, NEW cleared,
         Fail(cleared) \/ Deliver("VAL", val[fr.c], cleared)
  PROVE  MulWrites'
<1>. DEFINE v == val[fr.c]
<1>1. /\ val' = [val EXCEPT ![fr.c] = IF fr.op = "mul"
                                      THEN IF loc.neg THEN - Magnitude(v) ELSE Magnitude(v) ELSE v]
      /\ pc' = "done" /\ err' \in {"MEM", "VAL"}
  BY DEF Fail, Deliver, Return, Put
<1>. QED
  BY <1>1, MulFails

LEMMA MulCannotInitialise ==
  ASSUME MulContext, NEW routine, routine \in PartRoutines \cup {"balance"},
         Begins(routine), CannotInitialise(routine)
  PROVE  MulWrites'
<1>. DEFINE v == val[fr.c]
<1>1. pc = "mul_begins" /\ loc.routine = routine
  BY DEF Begins
<1>2. fr.op = "mul"
  BY <1>1 DEF MulContext, MulWrites, MulLocals, PartRoutines
<1>3. /\ val' = [val EXCEPT ![fr.c] = IF fr.op = "mul"
                                      THEN IF loc.neg THEN - Magnitude(v) ELSE Magnitude(v) ELSE v]
      /\ pc' = "done" /\ err' = "MEM"
  BY <1>2 DEF CannotInitialise, Put
<1>. QED
  BY <1>1, <1>3, MulFails

(* The routine has begun, or goes on, with its locals.                     *)
LEMMA MulGoesOn ==
  ASSUME MulContext, pc \in {"mul_begins", "mul_runs"}, pc' = "mul_runs", UNCHANGED val,
         {"neg", "routine"} \subseteq DOMAIN loc', loc'.neg = loc.neg, loc'.routine = loc.routine,
         loc.routine \in PartRoutines => PartLocals'
  PROVE  MulWrites'
<1>1. MulLocals /\ MulLocals'
  BY DEF MulContext, MulWrites, MulLocals, TakesToom
<1>2. IF loc.routine \in {"toom", "sqr_toom"} THEN val'[fr.c] \in Int ELSE val'[fr.c] = old[fr.c]
  <2>1. fr.c \in Ints
    BY DEF MulContext, MulFrames
  <2>. QED
    BY <2>1 DEF MulContext, MulWrites, Remembered
<1>. QED
  BY <1>1, <1>2 DEF MulContext, MulWrites, MulOps

LEMMA PartsCallKept ==
  ASSUME MulContext, parts_call
  PROVE  MulWrites'
<1>1. PICK routine \in PartRoutines :
        /\ Runs(routine)
        /\ LET call == Calls(routine)[loc.i]
               n == Result(call)
               next == [loc EXCEPT !.i = @ + 1]
           IN  \/ Fail(Temporaries(routine))
               \/ /\ loc.i = Len(Calls(routine))
                  /\ Deliver("OKAY", n, Temporaries(routine))
               \/ /\ loc.i < Len(Calls(routine)) /\ call[1] = "c"
                  /\ Put(fr.c, n) /\ loc' = next
                  /\ UNCHANGED << live, pc, fr, err, old >>
               \/ /\ loc.i < Len(Calls(routine)) /\ call[1] # "c"
                  /\ loc' = [next EXCEPT !.t[call[1]] = n]
                  /\ Goto("mul_runs")
  BY DEF parts_call
<1>. DEFINE len == Len(Calls(routine))
            call == Calls(routine)[loc.i]
            n == Result(call)
            next == [loc EXCEPT !.i = @ + 1]
<1>2. pc = "mul_runs" /\ loc.routine = routine /\ PartLocals /\ MulLocals
  BY <1>1 DEF Runs, MulContext, MulWrites
<1>3. /\ loc.i \in 1 .. len /\ len \in Nat /\ IsCall(call, Temporaries(routine))
      /\ routine \in {"karatsuba", "sqr_karatsuba"} /\ loc.i < len => call[1] # "c"
  <2>1. loc.i \in 1 .. len
    BY <1>2 DEF PartLocals
  <2>. QED
    BY <2>1, PartCalls
<1>4. fr.c \in Ints
  BY DEF MulContext, MulFrames
<1>5. val[fr.c] \in Int
  BY <1>2, <1>4 DEF MulContext, MulWrites, Remembered
<1>6. n \in Int
  <2>1. \A t \in Temporaries(routine) : loc.t[t] \in Int
    BY <1>2 DEF PartLocals
  <2>2. loc.part \in Nat
    BY <1>2 DEF PartLocals
  <2>. HIDE DEF call
  <2>. QED
    BY <1>3, <1>5, <2>1, <2>2, ResultTyped
<1>7. DOMAIN loc = {"neg", "routine", "i", "part", "t"}
  BY <1>2 DEF PartLocals
<1>8. /\ DOMAIN next = DOMAIN loc /\ next.i = loc.i + 1 /\ next.t = loc.t /\ next.part = loc.part
      /\ next.neg = loc.neg /\ next.routine = loc.routine
  BY <1>7
<1>. HIDE DEF next, n, call, len
<1>9. CASE Fail(Temporaries(routine))
  BY <1>2, <1>9, MulFail
<1>10. CASE loc.i = len /\ Deliver("OKAY", n, Temporaries(routine))
  BY <1>10, MulDelivers
<1>11. CASE /\ loc.i < len /\ call[1] = "c"
            /\ Put(fr.c, n) /\ loc' = next
            /\ UNCHANGED << live, pc, fr, err, old >>
  <2>1. routine \in {"toom", "sqr_toom"}
    BY <1>3, <1>11 DEF PartRoutines
  <2>2. MulLocals'
    BY <1>2, <1>7, <1>8, <1>11 DEF MulLocals, TakesToom
  <2>3. PartLocals'
    <3>1. loc.i + 1 \in 1 .. len
      BY <1>3, <1>11
    <3>. QED
      BY <1>2, <1>7, <1>8, <1>11, <3>1 DEF PartLocals, len
  <2>4. val'[fr.c] = n /\ \A s \in Ints \ {fr.c} : val'[s] = val[s]
    BY <1>4, <1>11 DEF MulContext, Remembered, Put
  <2>. QED
    BY <1>2, <1>6, <1>8, <1>11, <2>1, <2>2, <2>3, <2>4 DEF MulContext, MulWrites, MulOps
<1>12. CASE /\ loc.i < len /\ call[1] # "c"
            /\ loc' = [next EXCEPT !.t[call[1]] = n]
            /\ Goto("mul_runs")
  <2>1. call[1] \in Temporaries(routine)
    BY <1>3, <1>12 DEF IsCall
  <2>2. /\ DOMAIN loc' = DOMAIN next /\ loc'.t = [next.t EXCEPT ![call[1]] = n]
        /\ loc'.neg = next.neg /\ loc'.routine = next.routine /\ loc'.i = next.i
        /\ loc'.part = next.part
    BY <1>7, <1>8, <1>12
  <2>3. loc'.t \in [Temporaries(routine) -> Int]
    <3>1. next.t \in [Temporaries(routine) -> Int]
      BY <1>2, <1>8 DEF PartLocals
    <3>. QED
      BY <1>6, <2>1, <2>2, <3>1
  <2>4. PartLocals'
    <3>1. loc.i + 1 \in 1 .. len
      BY <1>3, <1>12
    <3>. QED
      BY <1>2, <1>7, <1>8, <2>2, <2>3, <3>1 DEF PartLocals, len
  <2>. QED
    BY <1>2, <1>7, <1>8, <1>12, <2>2, <2>4, MulGoesOn DEF Goto
<1>. QED
  BY <1>1, <1>9, <1>10, <1>11, <1>12 DEF n, call, len, next

LEMMA MulRoutineBegins ==
  ASSUME MulContext, mp_mul
  PROVE  MulWrites'
<1>1. fr.op = "mul" /\ val = old
  BY DEF mp_mul, MulContext, MulWrites, MulOwns, MulOps
<1>2. /\ loc' = [neg |-> Sgn(A) # Sgn(B), digs |-> Used(A) + Used(B) + 1, routine |-> MulRoutine]
      /\ pc' = "mul_begins" /\ UNCHANGED val
  BY DEF mp_mul, Goto
<1>3. MulRoutine \in {"toom", "sqr_toom"} => TakesToom
  BY <1>1 DEF MulRoutine, TakesToom, A, B, Has
<1>4. MulLocals'
  BY <1>1, <1>2, <1>3 DEF MulContext, MulLocals, TakesToom, A, B
<1>. QED
  BY <1>1, <1>2, <1>4 DEF MulContext, MulWrites, MulOps

LEMMA DigitsRoutineBegins ==
  ASSUME MulContext, s_mp_mul \/ s_mp_mul_high
  PROVE  MulWrites'
<1>1. fr.op \in {"low", "high"} /\ val = old
  BY DEF s_mp_mul, s_mp_mul_high, MulContext, MulWrites, MulOwns, MulOps
<1>2. UNCHANGED val
  BY DEF s_mp_mul, s_mp_mul_high, Refuse, Goto
<1>3. \/ pc' = "done"
      \/ /\ pc' = "mul_begins" /\ loc'.routine \in {"comba", "mul", "high_comba", "mul_high"}
         /\ {"neg", "routine"} \subseteq DOMAIN loc'
  BY DEF s_mp_mul, s_mp_mul_high, Refuse, Return, Goto
<1>4. pc' = "mul_begins" => MulLocals'
  BY <1>1, <1>3 DEF MulContext, MulLocals
<1>5. MulFailure'
  BY <1>1, <1>2 DEF MulContext, MulFailure
<1>. QED
  BY <1>1, <1>2, <1>3, <1>4, <1>5 DEF MulContext, MulWrites, MulOps

LEMMA MulWritesKept ==
  ASSUME fr \in MulFrames, MulOwns, Remembered, MulWrites, MulNext
  PROVE  MulWrites'
<1>1. fr.op \in MulOps
  BY DEF MulFrames, MulOps
<1>2. fr' = fr /\ old' = old
  BY DEF MulNext, mp_mul, s_mp_mul, s_mp_mul_high, no_routine, comba_begin, comba_column, comba_end,
         row_begin, mul_row, sqr_row, mul_high_row, row_end, balance_begin, balance_slice,
         balance_end, parts_begin, parts_call, Begins, Runs, RowsLeft, NextRow, Deliver, Fail,
         CannotInitialise, Starts, Refuse, Return, Goto
<1>3. MulContext
  BY <1>1, <1>2 DEF MulContext
<1>4. pc \in {"mul_begins", "mul_runs"} => {"neg", "routine"} \subseteq DOMAIN loc
  BY <1>1 DEF MulWrites, MulLocals
<1>5. CASE no_routine
  BY <1>3, <1>5, MulFail DEF no_routine, Begins
<1>6. CASE comba_begin \/ row_begin
  <2>1. ASSUME NEW routine \in {"comba", "sqr_comba", "high_comba", "mul", "sqr", "mul_high"},
               Begins(routine), pc' = "mul_runs", UNCHANGED val,
               {"neg", "routine"} \subseteq DOMAIN loc', loc'.neg = loc.neg, loc'.routine = routine
        PROVE  MulWrites'
    <3>1. pc = "mul_begins" /\ loc.routine = routine /\ loc.routine \notin PartRoutines
      BY <2>1 DEF Begins, PartRoutines
    <3>. QED
      BY <1>3, <2>1, <3>1, MulGoesOn
  <2>2. CASE comba_begin
    <3>1. PICK routine \in {"comba", "sqr_comba", "high_comba"} :
            /\ Begins(routine)
            /\ \/ Fail({})
               \/ /\ pc' = "mul_runs" /\ UNCHANGED val
                  /\ {"neg", "routine"} \subseteq DOMAIN loc'
                  /\ loc'.neg = loc.neg /\ loc'.routine = routine
      BY <2>2 DEF comba_begin, Goto
    <3>. QED
      BY <1>3, <2>1, <3>1, MulFail DEF Begins
  <2>3. CASE row_begin
    <3>1. PICK routine \in {"mul", "sqr", "mul_high"} :
            /\ Begins(routine)
            /\ \/ Fail({})
               \/ /\ pc' = "mul_runs" /\ UNCHANGED val
                  /\ {"neg", "routine"} \subseteq DOMAIN loc'
                  /\ loc'.neg = loc.neg /\ loc'.routine = routine
      BY <2>3 DEF row_begin
    <3>. QED
      BY <1>3, <2>1, <3>1, MulFail DEF Begins
  <2>. QED
    BY <1>6, <2>2, <2>3
<1>7. CASE comba_column \/ mul_row \/ sqr_row \/ mul_high_row
  <2>1. /\ pc = "mul_runs" /\ pc' = "mul_runs" /\ UNCHANGED val
        /\ loc.routine \in {"comba", "sqr_comba", "high_comba", "mul", "sqr", "mul_high"}
    BY <1>7 DEF comba_column, mul_row, sqr_row, mul_high_row, RowsLeft, Runs, Goto
  <2>2. DOMAIN loc' = DOMAIN loc /\ loc'.neg = loc.neg /\ loc'.routine = loc.routine
    BY <1>4, <1>7, <2>1 DEF comba_column, mul_row, sqr_row, mul_high_row, NextRow
  <2>. QED
    BY <1>3, <1>4, <2>1, <2>2, MulGoesOn DEF PartRoutines
<1>8. CASE comba_end \/ row_end \/ balance_end
  BY <1>3, <1>8, MulDelivers DEF comba_end, row_end, balance_end
<1>9. CASE balance_begin
  <2>1. CASE CannotInitialise("balance")
    BY <1>3, <1>9, <2>1, MulCannotInitialise DEF balance_begin
  <2>2. CASE Starts("balance", [neg |-> loc.neg, routine |-> "balance", i |-> 0, r |-> 0])
    <3>1. pc = "mul_begins" /\ loc.routine = "balance"
      BY <1>9 DEF balance_begin, Begins
    <3>. QED
      BY <1>3, <2>2, <3>1, MulGoesOn DEF Starts, PartRoutines
  <2>. QED
    BY <1>9, <2>1, <2>2 DEF balance_begin
<1>10. CASE balance_slice
  <2>1. pc = "mul_runs" /\ loc.routine = "balance"
    BY <1>10 DEF balance_slice, Runs
  <2>2. CASE Fail(Temporaries("balance"))
    BY <1>3, <2>1, <2>2, MulFail
  <2>3. CASE /\ loc' = [loc EXCEPT !.i = @ + 1, !.r = @ + Slice(loc.i) * shorter * Weight(bsize * loc.i)]
             /\ Goto("mul_runs")
    <3>1. DOMAIN loc' = DOMAIN loc /\ loc'.neg = loc.neg /\ loc'.routine = loc.routine
      BY <1>4, <2>1, <2>3
    <3>. QED
      BY <1>3, <1>4, <2>1, <2>3, <3>1, MulGoesOn DEF Goto, PartRoutines
  <2>. QED
    BY <1>10, <2>2, <2>3 DEF balance_slice
<1>11. CASE parts_begin
  <2>1. PICK routine \in PartRoutines :
          /\ Begins(routine)
          /\ \/ CannotInitialise(routine)
             \/ Starts(routine, [neg |-> loc.neg, routine |-> routine, i |-> 1,
                                  part |-> Part(routine), t |-> Parts(routine)])
    BY <1>11 DEF parts_begin
  <2>2. CASE CannotInitialise(routine)
    BY <1>3, <2>1, <2>2, MulCannotInitialise
  <2>3. CASE Starts(routine, [neg |-> loc.neg, routine |-> routine, i |-> 1,
                                part |-> Part(routine), t |-> Parts(routine)])
    <3>1. pc = "mul_begins" /\ loc.routine = routine /\ val = old
      BY <1>1, <2>1 DEF Begins, MulWrites
    <3>2. A \in Int /\ B \in Int
      <4>1. fr.a \in Ints /\ fr.b \in Ints
        BY <1>3 DEF MulContext, MulFrames
      <4>. QED
        BY <3>1, <4>1 DEF A, B, Remembered
    <3>3. Part(routine) \in Nat /\ Parts(routine) \in [Temporaries(routine) -> Int]
      BY <3>2, PartsTyped
    <3>4. 1 \in 1 .. Len(Calls(routine))
      <4>1. Calls(routine) \in {Karatsuba, SqrKaratsuba, Toom, SqrToom}
        BY DEF Calls, PartRoutines
      <4>2. /\ Len(Karatsuba) = 11 /\ Len(SqrKaratsuba) = 10
            /\ Len(Toom) = 39 /\ Len(SqrToom) = 23
        BY KaratsubaCalls, SqrKaratsubaCalls, ToomCalls, SqrToomCalls
      <4>3. Len(Calls(routine)) \in {10, 11, 23, 39}
        BY <4>1, <4>2
      <4>. DEFINE len == Len(Calls(routine))
      <4>4. len \in {10, 11, 23, 39}
        BY <4>3
      <4>. HIDE DEF len
      <4>5. 1 \in 1 .. len
        BY <4>4
      <4>. QED
        BY <4>5 DEF len
    <3>5. PartLocals'
      BY <2>3, <3>3, <3>4 DEF Starts, PartLocals
    <3>. QED
      BY <1>3, <2>3, <3>1, <3>5, MulGoesOn DEF Starts
  <2>. QED
    BY <2>1, <2>2, <2>3
<1>12. CASE mp_mul \/ s_mp_mul \/ s_mp_mul_high
  BY <1>3, <1>12, MulRoutineBegins, DigitsRoutineBegins
<1>13. CASE parts_call
  BY <1>3, <1>13, PartsCallKept
<1>. QED
  BY <1>5, <1>6, <1>7, <1>8, <1>9, <1>10, <1>11, <1>12, <1>13 DEF MulNext

-----------------------------------------------------------------------------
(* Sums.  The first n of the numbers of f are summed up by a recursive     *)
(* function whose domain has n in it; all of them agree.                   *)
Numbers(f, n) == \A i \in 0 .. n - 1 : f[i] \in Int

LEMMA TotalFacts ==
  ASSUME NEW N \in Nat, NEW f, Numbers(f, N)
  PROVE  /\ Total(f, 0) = 0
         /\ \A n \in 0 .. N : Total(f, n) \in Int
         /\ \A n \in 0 .. N - 1 : Total(f, n + 1) = Total(f, n) + f[n]
<1>. DEFINE g(k) == IF k \in 0 .. N - 1 THEN f[k] ELSE 0
            first == [k \in Nat |-> 0]
            prev == [k \in Nat |-> IF k = 0 THEN 0 ELSE k - 1]
            next == [p \in Nat \X Int |-> p[2] + g(p[1] - 1)]
<1>1. \A k \in Int : g(k) \in Int
  BY DEF Numbers
<1>2. PICK T \in [Nat -> Int] : SolvesAll(T, Nat, {0}, first, prev, next)
  <2>1. first \in [Nat -> Int] /\ prev \in [Nat -> Nat]
    OBVIOUS
  <2>2. next \in [Nat \X Int -> Int]
    <3>. HIDE DEF g
    <3>. QED
      BY <1>1
  <2>3. Descends(Nat, {0}, prev)
    BY DEF Descends
  <2>4. Nat \in SUBSET Nat
    OBVIOUS
  <2>. HIDE DEF first, prev, next
  <2>. QED
    BY <2>1, <2>2, <2>3, <2>4, RecursionSolved
<1>3. T[0] = 0
  BY <1>2 DEF SolvesAll
<1>4. ASSUME NEW k \in Nat, k < N PROVE T[k + 1] = T[k] + f[k]
  <2>1. k + 1 \in Nat /\ k + 1 # 0 /\ prev[k + 1] = k /\ T[k] \in Int
    OBVIOUS
  <2>2. T[k + 1] = next[<< k + 1, T[k] >>]
    BY <1>2, <2>1 DEF SolvesAll
  <2>3. next[<< k + 1, T[k] >>] = T[k] + g((k + 1) - 1)
    BY <2>1
  <2>4. g((k + 1) - 1) = f[k]
    BY <1>4
  <2>. QED
    BY <2>2, <2>3, <2>4
<1>. HIDE DEF first, prev, next, g
<1>5. ASSUME NEW n \in 0 .. N PROVE Total(f, n) = T[n]
  <2>. DEFINE P(t) == t = [k \in 0 .. n |-> IF k = 0 THEN 0 ELSE t[k - 1] + f[k - 1]]
              t0 == CHOOSE t : P(t)
              r == [k \in 0 .. n |-> T[k]]
  <2>1. P(r)
    <3>1. ASSUME NEW k \in 0 .. n PROVE r[k] = IF k = 0 THEN 0 ELSE r[k - 1] + f[k - 1]
      <4>1. CASE k = 0
        BY <1>3, <4>1
      <4>2. CASE k # 0
        <5>1. k - 1 \in Nat /\ k - 1 < N /\ (k - 1) + 1 = k /\ k - 1 \in 0 .. n
          BY <4>2
        <5>2. T[(k - 1) + 1] = T[k - 1] + f[k - 1]
          BY <1>4, <5>1
        <5>. QED
          BY <4>2, <5>1, <5>2
      <4>. QED
        BY <4>1, <4>2
    <3>2. r = [k \in 0 .. n |-> r[k]]
      OBVIOUS
    <3>. HIDE DEF r
    <3>. QED
      BY <3>1, <3>2
  <2>2. P(t0)
    <3>. HIDE DEF P, r
    <3>. QED
      BY <2>1
  <2>3. Total(f, n) = t0[n]
    BY Zenon DEF Total
  <2>. HIDE DEF t0
  <2>. DEFINE S == {k \in Nat : k <= n => t0[k] = T[k]}
  <2>4. 0 \in S
    BY <1>3, <2>2
  <2>5. ASSUME NEW k \in Nat, k \in S PROVE k + 1 \in S
    <3>1. SUFFICES ASSUME k + 1 <= n PROVE t0[k + 1] = T[k + 1]
      OBVIOUS
    <3>2. k + 1 \in 0 .. n /\ k + 1 # 0 /\ (k + 1) - 1 = k /\ k < N /\ t0[k] = T[k]
      BY <2>5, <3>1
    <3>3. t0[k + 1] = t0[k] + f[k]
      BY <2>2, <3>2
    <3>. QED
      BY <1>4, <3>2, <3>3
  <2>6. \A k \in Nat : k \in S
    <3>. HIDE DEF S
    <3>. QED
      BY <2>4, <2>5, Successor
  <2>. QED
    BY <2>3, <2>6
<1>6. \A n \in 0 .. N - 1 : n \in 0 .. N /\ n + 1 \in 0 .. N /\ n \in Nat /\ n < N
  OBVIOUS
<1>. QED
  BY <1>3, <1>4, <1>5, <1>6

(* Sums of the same numbers are the same, sums of naturals are naturals.   *)
LEMMA TotalSame ==
  ASSUME NEW N \in Nat, NEW f, NEW g, Numbers(f, N), \A i \in 0 .. N - 1 : f[i] = g[i]
  PROVE  Numbers(g, N) /\ Total(f, N) = Total(g, N)
<1>1. Numbers(g, N)
  BY DEF Numbers
<1>. DEFINE S == {n \in Nat : n <= N => Total(f, n) = Total(g, n)}
<1>2. 0 \in S
  BY <1>1, TotalFacts
<1>3. ASSUME NEW n \in Nat, n \in S PROVE n + 1 \in S
  <2>1. SUFFICES ASSUME n + 1 <= N PROVE Total(f, n + 1) = Total(g, n + 1)
    OBVIOUS
  <2>2. n \in 0 .. N - 1 /\ Total(f, n) = Total(g, n)
    BY <1>3, <2>1
  <2>. QED
    BY <1>1, <2>2, TotalFacts
<1>4. \A n \in Nat : n \in S
  <2>. HIDE DEF S
  <2>. QED
    BY <1>2, <1>3, Successor
<1>. QED
  BY <1>1, <1>4

LEMMA TotalNatural ==
  ASSUME NEW N \in Nat, NEW f, \A i \in 0 .. N - 1 : f[i] \in Nat
  PROVE  /\ Total(f, N) \in Nat
         /\ \A n \in 0 .. N : Total(f, n) \in Nat /\ Total(f, n) <= Total(f, N)
<1>1. Numbers(f, N)
  BY DEF Numbers
<1>. DEFINE S == {n \in Nat : n <= N => Total(f, n) \in Nat /\ \A k \in 0 .. n : Total(f, k) <= Total(f, n)}
<1>2. 0 \in S
  <2>1. Total(f, 0) = 0 /\ \A k \in 0 .. 0 : k = 0
    BY <1>1, TotalFacts
  <2>. QED
    BY <2>1
<1>3. ASSUME NEW n \in Nat, n \in S PROVE n + 1 \in S
  <2>1. SUFFICES ASSUME n + 1 <= N
                 PROVE  Total(f, n + 1) \in Nat /\ \A k \in 0 .. n + 1 : Total(f, k) <= Total(f, n + 1)
    OBVIOUS
  <2>2. n \in 0 .. N - 1 /\ Total(f, n) \in Nat /\ \A k \in 0 .. n : Total(f, k) <= Total(f, n)
    BY <1>3, <2>1
  <2>3. Total(f, n + 1) = Total(f, n) + f[n] /\ f[n] \in Nat
    BY <1>1, <2>2, TotalFacts
  <2>4. ASSUME NEW k \in 0 .. n + 1 PROVE Total(f, k) <= Total(f, n + 1)
    <3>1. CASE k = n + 1
      BY <2>2, <2>3, <3>1
    <3>2. CASE k \in 0 .. n
      <4>1. Total(f, k) \in Int
        BY <1>1, <2>2, <3>2, TotalFacts
      <4>. QED
        BY <2>2, <2>3, <3>2, <4>1
    <3>. QED
      BY <3>1, <3>2
  <2>. QED
    BY <2>2, <2>3, <2>4
<1>4. \A n \in Nat : n \in S
  <2>. HIDE DEF S
  <2>. QED
    BY <1>2, <1>3, Successor
<1>5. N \in S /\ \A n \in 0 .. N : n \in S /\ n <= N
  BY <1>4
<1>. QED
  BY <1>4, <1>5

(* Sum of sums, multiple of a sum, sum whose last or first are zero.       *)
LEMMA TotalSum ==
  ASSUME NEW N \in Nat, NEW f, NEW g, NEW h, Numbers(f, N), Numbers(g, N),
         \A i \in 0 .. N - 1 : h[i] = f[i] + g[i]
  PROVE  Numbers(h, N) /\ Total(h, N) = Total(f, N) + Total(g, N)
<1>1. Numbers(h, N)
  BY DEF Numbers
<1>. DEFINE S == {n \in Nat : n <= N => Total(h, n) = Total(f, n) + Total(g, n)}
<1>2. 0 \in S
  BY <1>1, TotalFacts
<1>3. ASSUME NEW n \in Nat, n \in S PROVE n + 1 \in S
  <2>1. SUFFICES ASSUME n + 1 <= N PROVE Total(h, n + 1) = Total(f, n + 1) + Total(g, n + 1)
    OBVIOUS
  <2>2. n \in 0 .. N - 1 /\ n \in 0 .. N /\ Total(h, n) = Total(f, n) + Total(g, n)
    BY <1>3, <2>1
  <2>3. /\ Total(f, n + 1) = Total(f, n) + f[n] /\ Total(f, n) \in Int /\ f[n] \in Int
        /\ Total(g, n + 1) = Total(g, n) + g[n] /\ Total(g, n) \in Int /\ g[n] \in Int
        /\ Total(h, n + 1) = Total(h, n) + h[n] /\ h[n] = f[n] + g[n]
    BY <1>1, <2>2, TotalFacts DEF Numbers
  <2>. QED
    BY <2>2, <2>3
<1>4. \A n \in Nat : n \in S
  <2>. HIDE DEF S
  <2>. QED
    BY <1>2, <1>3, Successor
<1>. QED
  BY <1>1, <1>4

LEMMA TotalTimes ==
  ASSUME NEW N \in Nat, NEW f, NEW h, Numbers(f, N), NEW c \in Int,
         \A i \in 0 .. N - 1 : h[i] = c * f[i]
  PROVE  Numbers(h, N) /\ Total(h, N) = c * Total(f, N)
<1>1. Numbers(h, N)
  <2>1. \A x \in Int : c * x \in Int
    OBVIOUS
  <2>. QED
    BY <2>1 DEF Numbers
<1>. DEFINE S == {n \in Nat : n <= N => Total(h, n) = c * Total(f, n)}
<1>2. 0 \in S
  BY <1>1, TotalFacts
<1>3. ASSUME NEW n \in Nat, n \in S PROVE n + 1 \in S
  <2>1. SUFFICES ASSUME n + 1 <= N PROVE Total(h, n + 1) = c * Total(f, n + 1)
    OBVIOUS
  <2>2. n \in 0 .. N - 1 /\ n \in 0 .. N /\ Total(h, n) = c * Total(f, n)
    BY <1>3, <2>1
  <2>3. PICK x \in Int : x = Total(f, n)
    BY <2>2, TotalFacts
  <2>4. PICK y \in Int : y = f[n]
    BY <2>2 DEF Numbers
  <2>5. Total(f, n + 1) = x + y /\ Total(h, n + 1) = c * x + c * y
    BY <1>1, <2>2, <2>3, <2>4, TotalFacts
  <2>6. c * (x + y) = c * x + c * y
    OBVIOUS
  <2>. QED
    BY <2>5, <2>6
<1>4. \A n \in Nat : n \in S
  <2>. HIDE DEF S
  <2>. QED
    BY <1>2, <1>3, Successor
<1>. QED
  BY <1>1, <1>4

LEMMA TotalZeros ==
  ASSUME NEW N \in Nat, NEW f, Numbers(f, N), NEW n \in 0 .. N, \A i \in n .. N - 1 : f[i] = 0
  PROVE  Total(f, N) = Total(f, n)
<1>. DEFINE S == {k \in Nat : n + k <= N => Total(f, n + k) = Total(f, n)}
<1>1. 0 \in S
  OBVIOUS
<1>2. ASSUME NEW k \in Nat, k \in S PROVE k + 1 \in S
  <2>1. SUFFICES ASSUME n + (k + 1) <= N PROVE Total(f, n + (k + 1)) = Total(f, n)
    OBVIOUS
  <2>2. n + k \in 0 .. N - 1 /\ n + k \in n .. N - 1 /\ n + (k + 1) = (n + k) + 1
    BY <2>1
  <2>3. Total(f, n + k) = Total(f, n) /\ f[n + k] = 0 /\ Total(f, n) \in Int
    BY <1>2, <2>1, <2>2, TotalFacts
  <2>4. Total(f, (n + k) + 1) = Total(f, n + k) + f[n + k]
    BY <2>2, TotalFacts
  <2>. QED
    BY <2>2, <2>3, <2>4
<1>3. \A k \in Nat : k \in S
  <2>. HIDE DEF S
  <2>. QED
    BY <1>1, <1>2, Successor
<1>4. N - n \in Nat /\ n + (N - n) = N
  OBVIOUS
<1>5. N - n \in S
  BY <1>3, <1>4
<1>. QED
  BY <1>4, <1>5

LEMMA TotalFrom ==
  ASSUME NEW N \in Nat, NEW k \in Nat, NEW f, NEW g, Numbers(f, k + N),
         \A i \in 0 .. N - 1 : g[i] = f[k + i]
  PROVE  Numbers(g, N) /\ Total(f, k + N) = Total(f, k) + Total(g, N)
<1>1. Numbers(g, N)
  <2>1. \A i \in 0 .. N - 1 : k + i \in 0 .. (k + N) - 1
    OBVIOUS
  <2>. QED
    BY <2>1 DEF Numbers
<1>. DEFINE S == {n \in Nat : n <= N => Total(f, k + n) = Total(f, k) + Total(g, n)}
<1>2. 0 \in S
  <2>1. Total(f, k) \in Int /\ Total(g, 0) = 0 /\ k + 0 = k
    BY <1>1, TotalFacts
  <2>. QED
    BY <2>1
<1>3. ASSUME NEW n \in Nat, n \in S PROVE n + 1 \in S
  <2>1. SUFFICES ASSUME n + 1 <= N PROVE Total(f, k + (n + 1)) = Total(f, k) + Total(g, n + 1)
    OBVIOUS
  <2>2. /\ n \in 0 .. N - 1 /\ n \in 0 .. N /\ k + n \in 0 .. (k + N) - 1 /\ k + (n + 1) = (k + n) + 1
        /\ k \in 0 .. k + N /\ k + N \in Nat
    BY <2>1
  <2>3. Total(f, k + n) = Total(f, k) + Total(g, n)
    BY <1>3, <2>1
  <2>4. Total(f, (k + n) + 1) = Total(f, k + n) + f[k + n]
    BY <2>2, TotalFacts
  <2>5. Total(g, n + 1) = Total(g, n) + g[n] /\ g[n] = f[k + n]
    BY <1>1, <2>2, TotalFacts
  <2>6. Total(f, k) \in Int /\ Total(g, n) \in Int /\ g[n] \in Int
    BY <1>1, <2>2, TotalFacts DEF Numbers
  <2>. QED
    BY <2>2, <2>3, <2>4, <2>5, <2>6
<1>4. \A n \in Nat : n \in S
  <2>. HIDE DEF S
  <2>. QED
    BY <1>2, <1>3, Successor
<1>. QED
  BY <1>1, <1>4

-----------------------------------------------------------------------------
(* The number the first k digits of n make.                                *)
LowPart(n, k) == IF k < 0 THEN 0 ELSE n % Weight(k)

LEMMA LowParts ==
  ASSUME NEW n \in Nat
  PROVE  /\ LowPart(n, 0) = 0
         /\ \A k \in Int : LowPart(n, k) \in Nat /\ LowPart(n, k) <= n
         /\ \A k \in Nat : /\ LowPart(n, k) < Weight(k)
                           /\ Digit(n, k) \in 0 .. Radix - 1
                           /\ LowPart(n, k + 1) = LowPart(n, k) + Digit(n, k) * Weight(k)
                           /\ Used(n) <= k => LowPart(n, k) = n /\ Digit(n, k) = 0
<1>1. LowPart(n, 0) = 0
  <2>1. Weight(0) = 1 /\ n % 1 = 0
    BY Weights
  <2>2. ~ (0 < 0)
    OBVIOUS
  <2>. QED
    BY <2>1, <2>2 DEF LowPart
<1>2. ASSUME NEW k \in Nat
      PROVE  /\ LowPart(n, k) \in Nat /\ LowPart(n, k) <= n /\ LowPart(n, k) < Weight(k)
             /\ n = (n \div Weight(k)) * Weight(k) + LowPart(n, k)
             /\ n \div Weight(k) \in Nat
  <2>. DEFINE w == Weight(k)
  <2>1. w \in Nat /\ w > 0
    BY Weights
  <2>2. LowPart(n, k) = n % w
    <3>1. ~ (k < 0)
      OBVIOUS
    <3>. QED
      BY <3>1 DEF LowPart
  <2>. HIDE DEF w
  <2>. DEFINE q == n \div w
              r == n % w
  <2>3. r \in 0 .. w - 1 /\ n = w * q + r
    BY <2>1, Division
  <2>4. q \in Nat
    BY <2>1, Greatest
  <2>. HIDE DEF q, r
  <2>5. w * q = q * w /\ q * w \in Nat
    BY <2>1, <2>4
  <2>6. r \in Nat /\ r <= n /\ r < w /\ n = q * w + r
    BY <2>1, <2>3, <2>5
  <2>. QED
    BY <2>2, <2>4, <2>6 DEF q, r, w
<1>3. ASSUME NEW k \in Int PROVE LowPart(n, k) \in Nat /\ LowPart(n, k) <= n
  <2>1. CASE k < 0
    BY <2>1 DEF LowPart
  <2>2. CASE k >= 0
    BY <1>2, <2>2
  <2>. QED
    BY <2>1, <2>2
<1>4. ASSUME NEW k \in Nat
      PROVE  /\ Digit(n, k) \in 0 .. Radix - 1
             /\ LowPart(n, k + 1) = LowPart(n, k) + Digit(n, k) * Weight(k)
  <2>. DEFINE w == Weight(k)
              q == n \div w
              p == n \div Weight(k + 1)
              d == Digit(n, k)
              l == LowPart(n, k)
              l1 == LowPart(n, k + 1)
  <2>1. w \in Nat /\ w > 0 /\ Weight(k + 1) = w * Radix /\ Radix \in Nat
    BY Weights
  <2>2. d \in 0 .. Radix - 1 /\ q \in Nat /\ q = p * Radix + d
    BY Digits
  <2>3. p \in Nat /\ n = p * Weight(k + 1) + l1 /\ l1 \in Nat
    <3>1. k + 1 \in Nat
      OBVIOUS
    <3>. QED
      BY <1>2, <3>1
  <2>4. n = q * w + l /\ l \in Nat
    BY <1>2
  <2>. HIDE DEF w, q, p, d, l, l1
  <2>5. p * Weight(k + 1) = (p * Radix) * w
    BY <2>1, <2>3
  <2>6. q * w = (p * Radix) * w + d * w
    BY <2>1, <2>2, <2>3
  <2>. DEFINE x == (p * Radix) * w
              y == d * w
  <2>7. x \in Int /\ y \in Int
    BY <2>1, <2>2, <2>3
  <2>8. n = x + l1 /\ n = (x + y) + l
    BY <2>3, <2>4, <2>5, <2>6
  <2>. HIDE DEF x, y
  <2>9. l1 = l + y
    BY <2>3, <2>4, <2>7, <2>8
  <2>. QED
    BY <2>2, <2>9 DEF d, l, l1, y, w
<1>5. ASSUME NEW k \in Nat, Used(n) <= k PROVE LowPart(n, k) = n /\ Digit(n, k) = 0
  <2>. DEFINE w == Weight(k)
  <2>1. w \in Nat /\ w > 0 /\ n < w
    BY <1>5, UsedLess, Weights
  <2>2. n \div w = 0 /\ n % w = n
    <3>. HIDE DEF w
    <3>1. n = w * 0 + n /\ n \in 0 .. w - 1
      BY <2>1
    <3>. QED
      BY <2>1, <3>1, DivisionUnique
  <2>3. LowPart(n, k) = n
    <3>1. ~ (k < 0)
      OBVIOUS
    <3>. QED
      BY <2>2, <3>1 DEF LowPart
  <2>4. n < Weight(k + 1)
    <3>1. k + 1 \in Nat /\ Used(n) \in Nat
      BY UsedFacts
    <3>2. Used(n) <= k + 1
      BY <1>5, <3>1
    <3>. QED
      BY <3>1, <3>2, UsedLess
  <2>5. Digit(n, k) = 0
    BY <2>2, <2>4, Digits
  <2>. QED
    BY <2>3, <2>5
<1>. QED
  BY <1>1, <1>2, <1>3, <1>4, <1>5

LEMMA LowPartNatural ==
  ASSUME NEW n \in Nat, NEW k \in Int
  PROVE  LowPart(n, k) \in Nat /\ LowPart(n, k) <= n
BY LowParts

LEMMA LowPartGrows ==
  ASSUME NEW n \in Nat, NEW k \in Nat
  PROVE  /\ LowPart(n, k) < Weight(k)
         /\ LowPart(n, k + 1) = LowPart(n, k) + Digit(n, k) * Weight(k)
BY LowParts

LEMMA DigitNatural ==
  ASSUME NEW n \in Nat, NEW k \in Nat
  PROVE  Digit(n, k) \in Nat /\ Digit(n, k) < Radix
<1>1. Digit(n, k) \in 0 .. Radix - 1
  BY LowParts
<1>2. Radix \in Nat
  BY Weights
<1>. HIDE DEF Digit
<1>. QED
  BY <1>1, <1>2

LEMMA DigitsOfMagnitude ==
  ASSUME NEW n \in Int
  PROVE  \A i : Digit(n, i) = Digit(Magnitude(n), i)
<1>1. Magnitude(Magnitude(n)) = Magnitude(n)
  BY MagnitudeProperties DEF Magnitude, Sgn
<1>. QED
  BY <1>1, Zenon DEF Digit

(* The digits make the number.                                             *)
LEMMA DigitsMake ==
  ASSUME NEW n \in Nat, NEW k \in Nat
  PROVE  LET d == [i \in 0 .. k - 1 |-> Digit(n, i) * Weight(i)]
         IN  Numbers(d, k) /\ Total(d, k) = LowPart(n, k)
<1>. DEFINE d == [i \in 0 .. k - 1 |-> Digit(n, i) * Weight(i)]
<1>1. ASSUME NEW i \in 0 .. k - 1 PROVE d[i] \in Int /\ LowPart(n, i + 1) = LowPart(n, i) + d[i]
  <2>1. i \in Nat
    OBVIOUS
  <2>2. LowPart(n, i + 1) = LowPart(n, i) + Digit(n, i) * Weight(i)
    BY <2>1, LowParts
  <2>4. Digit(n, i) \in Int
    <3>1. Digit(n, i) \in Nat
      BY <2>1, DigitNatural
    <3>. QED
      BY <3>1
  <2>5. Weight(i) \in Int
    BY <2>1, Weights
  <2>3. Digit(n, i) * Weight(i) \in Int
    BY <2>4, <2>5
  <2>. QED
    BY <2>2, <2>3
<1>2. Numbers(d, k)
  BY <1>1 DEF Numbers
<1>. DEFINE S == {j \in Nat : j <= k => Total(d, j) = LowPart(n, j)}
<1>. HIDE DEF d
<1>3. 0 \in S
  BY <1>2, TotalFacts, LowParts
<1>4. ASSUME NEW j \in Nat, j \in S PROVE j + 1 \in S
  <2>1. SUFFICES ASSUME j + 1 <= k PROVE Total(d, j + 1) = LowPart(n, j + 1)
    OBVIOUS
  <2>2. j \in 0 .. k - 1 /\ Total(d, j) = LowPart(n, j)
    BY <1>4, <2>1
  <2>. QED
    BY <1>1, <1>2, <2>2, TotalFacts
<1>5. \A j \in Nat : j \in S
  <2>. HIDE DEF S
  <2>. QED
    BY <1>3, <1>4, Successor
<1>6. Total(d, k) = LowPart(n, k)
  BY <1>5
<1>. QED
  BY <1>2, <1>6 DEF d

-----------------------------------------------------------------------------
(* The product by columns and by rows: what belongs to the columns below   *)
(* c, and what a digit i of m and those of n add to them.                  *)
Column(m, n, j) == Total([i \in 0 .. j |-> Digit(m, i) * Digit(n, j - i)], j + 1)
ColumnsBelow(m, n, c) == Total([j \in 0 .. c - 1 |-> Column(m, n, j) * Weight(j)], c)
RowBelow(m, n, c, i) == (Digit(m, i) * Weight(i)) * LowPart(n, c - i)

LEMMA ColumnTyped ==
  ASSUME NEW m \in Nat, NEW n \in Nat
  PROVE  /\ \A i \in Nat, j \in Nat : i <= j => Digit(m, i) * Digit(n, j - i) \in Nat
         /\ \A j \in Nat : /\ Numbers([i \in 0 .. j |-> Digit(m, i) * Digit(n, j - i)], j + 1)
                           /\ Column(m, n, j) \in Nat /\ Column(m, n, j) * Weight(j) \in Nat
         /\ \A c \in Nat : /\ Numbers([j \in 0 .. c - 1 |-> Column(m, n, j) * Weight(j)], c)
                           /\ ColumnsBelow(m, n, c) \in Nat
                           /\ ColumnsBelow(m, n, c + 1) = ColumnsBelow(m, n, c) + Column(m, n, c) * Weight(c)
                           /\ \A e \in 0 .. c : ColumnsBelow(m, n, e) <= ColumnsBelow(m, n, c)
<1>1. ASSUME NEW i \in Nat, NEW j \in Nat, i <= j PROVE Digit(m, i) * Digit(n, j - i) \in Nat
  <2>1. j - i \in Nat
    BY <1>1
  <2>2. Digit(m, i) \in Nat /\ Digit(n, j - i) \in Nat
    BY <2>1, DigitNatural
  <2>. QED
    BY <2>2
<1>2. ASSUME NEW j \in Nat
      PROVE  /\ Numbers([i \in 0 .. j |-> Digit(m, i) * Digit(n, j - i)], j + 1)
             /\ Column(m, n, j) \in Nat /\ Column(m, n, j) * Weight(j) \in Nat
  <2>. DEFINE f == [i \in 0 .. j |-> Digit(m, i) * Digit(n, j - i)]
  <2>1. ASSUME NEW i \in 0 .. (j + 1) - 1 PROVE f[i] \in Nat
    <3>1. i \in Nat /\ i <= j /\ i \in 0 .. j
      OBVIOUS
    <3>2. f[i] = Digit(m, i) * Digit(n, j - i)
      BY <3>1
    <3>. HIDE DEF f
    <3>. QED
      BY <1>1, <3>1, <3>2
  <2>2. Numbers(f, j + 1)
    BY <2>1 DEF Numbers
  <2>3. Column(m, n, j) = Total(f, j + 1)
    BY DEF Column
  <2>. HIDE DEF f
  <2>4. j + 1 \in Nat /\ Weight(j) \in Nat
    BY Weights
  <2>5. Total(f, j + 1) \in Nat
    BY <2>1, <2>4, TotalNatural
  <2>6. Column(m, n, j) \in Nat
    BY <2>3, <2>5
  <2>. HIDE DEF Column
  <2>7. Column(m, n, j) * Weight(j) \in Nat
    BY <2>4, <2>6
  <2>. QED
    BY <2>2, <2>6, <2>7 DEF f
<1>3. ASSUME NEW c \in Nat
      PROVE  /\ Numbers([j \in 0 .. c - 1 |-> Column(m, n, j) * Weight(j)], c)
             /\ ColumnsBelow(m, n, c) \in Nat
             /\ \A e \in 0 .. c : ColumnsBelow(m, n, e) = Total([j \in 0 .. c - 1 |-> Column(m, n, j) * Weight(j)], e)
                                  /\ ColumnsBelow(m, n, e) <= ColumnsBelow(m, n, c)
  <2>. DEFINE f == [j \in 0 .. c - 1 |-> Column(m, n, j) * Weight(j)]
  <2>1. ASSUME NEW j \in 0 .. c - 1 PROVE f[j] \in Nat
    <3>1. j \in Nat /\ f[j] = Column(m, n, j) * Weight(j)
      OBVIOUS
    <3>. HIDE DEF f
    <3>. QED
      BY <1>2, <3>1
  <2>2. Numbers(f, c)
    BY <2>1 DEF Numbers
  <2>3. ASSUME NEW e \in 0 .. c PROVE ColumnsBelow(m, n, e) = Total(f, e)
    <3>. DEFINE g == [j \in 0 .. e - 1 |-> Column(m, n, j) * Weight(j)]
    <3>1. ColumnsBelow(m, n, e) = Total(g, e)
      BY DEF ColumnsBelow
    <3>2. \A j \in 0 .. e - 1 : j \in 0 .. c - 1 /\ f[j] = g[j]
      OBVIOUS
    <3>. HIDE DEF f, g
    <3>3. e \in Nat /\ Numbers(f, e)
      BY <2>2, <3>2 DEF Numbers
    <3>4. Total(f, e) = Total(g, e)
      BY <3>2, <3>3, TotalSame
    <3>. QED
      BY <3>1, <3>4
  <2>. HIDE DEF f
  <2>4. \A e \in 0 .. c : Total(f, e) <= Total(f, c)
    BY <2>1, TotalNatural
  <2>5. Total(f, c) \in Nat /\ c \in 0 .. c
    BY <2>1, TotalNatural
  <2>. QED
    BY <2>2, <2>3, <2>4, <2>5 DEF f
<1>4. ASSUME NEW c \in Nat
      PROVE  ColumnsBelow(m, n, c + 1) = ColumnsBelow(m, n, c) + Column(m, n, c) * Weight(c)
  <2>. DEFINE f == [j \in 0 .. (c + 1) - 1 |-> Column(m, n, j) * Weight(j)]
  <2>1. c + 1 \in Nat /\ c \in 0 .. c + 1 /\ c + 1 \in 0 .. c + 1 /\ c \in 0 .. (c + 1) - 1
    OBVIOUS
  <2>2. Numbers(f, c + 1) /\ ColumnsBelow(m, n, c) = Total(f, c) /\ ColumnsBelow(m, n, c + 1) = Total(f, c + 1)
    BY <1>3, <2>1
  <2>3. f[c] = Column(m, n, c) * Weight(c)
    BY <2>1
  <2>. HIDE DEF f
  <2>4. Total(f, c + 1) = Total(f, c) + f[c]
    BY <2>1, <2>2, TotalFacts
  <2>. QED
    BY <2>2, <2>3, <2>4
<1>. QED
  BY <1>1, <1>2, <1>3, <1>4

-----------------------------------------------------------------------------
(* The number of the first digits of a row or of the columns.              *)
LEMMA NumberFacts ==
  ASSUME NEW N \in Nat, NEW t, Numbers(t, N)
  PROVE  /\ Number(t, 0) = 0
         /\ \A n \in 0 .. N : Number(t, n) \in Int
         /\ \A n \in 0 .. N - 1 : Number(t, n + 1) = Number(t, n) + t[n] * Weight(n)
<1>. DEFINE f(n) == [i \in 0 .. n - 1 |-> t[i] * Weight(i)]
<1>1. ASSUME NEW i \in 0 .. N - 1 PROVE t[i] * Weight(i) \in Int
  <2>1. i \in Nat
    OBVIOUS
  <2>2. t[i] \in Int /\ Weight(i) \in Int
    BY <2>1, Weights DEF Numbers
  <2>. QED
    BY <2>2
<1>2. Numbers(f(N), N)
  BY <1>1 DEF Numbers
<1>3. ASSUME NEW n \in 0 .. N PROVE Number(t, n) = Total(f(N), n)
  <2>1. Number(t, n) = Total(f(n), n)
    BY DEF Number
  <2>2. \A i \in 0 .. n - 1 : i \in 0 .. N - 1 /\ f(N)[i] = f(n)[i]
    OBVIOUS
  <2>. HIDE DEF f
  <2>3. n \in Nat /\ Numbers(f(N), n)
    BY <1>2, <2>2 DEF Numbers
  <2>. QED
    BY <2>1, <2>2, <2>3, TotalSame
<1>4. \A n \in 0 .. N - 1 : f(N)[n] = t[n] * Weight(n)
  OBVIOUS
<1>. HIDE DEF f
<1>5. ASSUME NEW n \in 0 .. N - 1 PROVE Number(t, n + 1) = Number(t, n) + t[n] * Weight(n)
  <2>1. n \in 0 .. N /\ n + 1 \in 0 .. N
    OBVIOUS
  <2>2. Total(f(N), n + 1) = Total(f(N), n) + f(N)[n]
    BY <1>2, TotalFacts
  <2>3. Number(t, n + 1) = Total(f(N), n + 1) /\ Number(t, n) = Total(f(N), n)
    BY <1>3, <2>1
  <2>. QED
    BY <1>4, <2>2, <2>3
<1>6. Number(t, 0) = 0
  <2>1. 0 \in 0 .. N
    OBVIOUS
  <2>. QED
    BY <1>2, <1>3, <2>1, TotalFacts
<1>7. \A n \in 0 .. N : Number(t, n) \in Int
  BY <1>2, <1>3, TotalFacts
<1>. QED
  BY <1>5, <1>6, <1>7

(* Numbers agree where their digits do, and grow by zeros by nothing.      *)
LEMMA NumberSame ==
  ASSUME NEW N \in Nat, NEW t, NEW s, Numbers(t, N), \A i \in 0 .. N - 1 : s[i] = t[i]
  PROVE  Numbers(s, N) /\ Number(s, N) = Number(t, N)
<1>1. Numbers(s, N)
  BY DEF Numbers
<1>. DEFINE S == {n \in Nat : n <= N => Number(s, n) = Number(t, n)}
<1>2. 0 \in S
  BY <1>1, NumberFacts
<1>3. ASSUME NEW n \in Nat, n \in S PROVE n + 1 \in S
  <2>1. SUFFICES ASSUME n + 1 <= N PROVE Number(s, n + 1) = Number(t, n + 1)
    OBVIOUS
  <2>2. n \in 0 .. N - 1 /\ Number(s, n) = Number(t, n)
    BY <1>3, <2>1
  <2>3. s[n] = t[n]
    BY <2>2
  <2>4. /\ Number(s, n + 1) = Number(s, n) + s[n] * Weight(n)
        /\ Number(t, n + 1) = Number(t, n) + t[n] * Weight(n)
    BY <1>1, <2>2, NumberFacts
  <2>. QED
    BY <2>2, <2>3, <2>4
<1>4. \A n \in Nat : n \in S
  <2>. HIDE DEF S
  <2>. QED
    BY <1>2, <1>3, Successor
<1>. QED
  BY <1>1, <1>4

LEMMA NumberZeros ==
  ASSUME NEW N \in Nat, NEW t, Numbers(t, N), NEW n \in 0 .. N, \A i \in n .. N - 1 : t[i] = 0
  PROVE  Number(t, N) = Number(t, n)
<1>. DEFINE S == {k \in Nat : n + k <= N => Number(t, n + k) = Number(t, n)}
<1>1. 0 \in S
  OBVIOUS
<1>2. ASSUME NEW k \in Nat, k \in S PROVE k + 1 \in S
  <2>1. SUFFICES ASSUME n + (k + 1) <= N PROVE Number(t, n + (k + 1)) = Number(t, n)
    OBVIOUS
  <2>2. /\ n + k \in 0 .. N - 1 /\ n + k \in n .. N - 1 /\ n + (k + 1) = (n + k) + 1
        /\ n + k \in 0 .. N /\ n + k \in Nat
    BY <2>1
  <2>3. Number(t, n + k) = Number(t, n) /\ t[n + k] = 0
    BY <1>2, <2>1, <2>2
  <2>4. Number(t, (n + k) + 1) = Number(t, n + k) + t[n + k] * Weight(n + k)
    BY <2>2, NumberFacts
  <2>5. Number(t, n + k) \in Int /\ Weight(n + k) \in Nat
    BY <2>2, NumberFacts, Weights
  <2>6. 0 * Weight(n + k) = 0
    BY <2>5
  <2>. QED
    BY <2>2, <2>3, <2>4, <2>5, <2>6
<1>3. \A k \in Nat : k \in S
  <2>. HIDE DEF S
  <2>. QED
    BY <1>1, <1>2, Successor
<1>4. N - n \in Nat /\ n + (N - n) = N
  OBVIOUS
<1>5. N - n \in S
  BY <1>3, <1>4
<1>. QED
  BY <1>4, <1>5

(* Digits make a number below the weight of the next place.                *)
AreDigits(t, n) == \A i \in 0 .. n - 1 : t[i] \in 0 .. Radix - 1

LEMMA NumberBound ==
  ASSUME NEW N \in Nat, NEW t, AreDigits(t, N)
  PROVE  /\ Numbers(t, N)
         /\ \A n \in 0 .. N : Number(t, n) \in Nat /\ Number(t, n) < Weight(n)
<1>1. Numbers(t, N)
  <2>1. Radix \in Nat
    BY Weights
  <2>2. 0 .. Radix - 1 \subseteq Int
    BY <2>1
  <2>. QED
    BY <2>2 DEF Numbers, AreDigits
<1>. DEFINE S == {n \in Nat : n <= N => Number(t, n) \in Nat /\ Number(t, n) < Weight(n)}
<1>2. 0 \in S
  BY <1>1, NumberFacts, Weights
<1>3. ASSUME NEW n \in Nat, n \in S PROVE n + 1 \in S
  <2>1. SUFFICES ASSUME n + 1 <= N
                 PROVE  Number(t, n + 1) \in Nat /\ Number(t, n + 1) < Weight(n + 1)
    OBVIOUS
  <2>. DEFINE x == Number(t, n)
              d == t[n]
              w == Weight(n)
              y == d * w
  <2>2. n \in 0 .. N - 1 /\ x \in Nat /\ x < w
    BY <1>3, <2>1
  <2>3. Number(t, n + 1) = x + y
    BY <1>1, <2>2, NumberFacts
  <2>4. Radix \in Nat /\ w \in Nat /\ w > 0 /\ Weight(n + 1) = w * Radix
    BY Weights
  <2>5. d \in 0 .. Radix - 1
    BY <2>2 DEF AreDigits
  <2>. HIDE DEF x, d, w
  <2>6. y \in Nat /\ y <= (Radix - 1) * w
    BY <2>4, <2>5
  <2>7. (Radix - 1) * w = w * Radix - w /\ w * Radix \in Nat
    BY <2>4
  <2>. HIDE DEF y
  <2>. QED
    BY <2>2, <2>3, <2>4, <2>6, <2>7
<1>4. \A n \in Nat : n \in S
  <2>. HIDE DEF S
  <2>. QED
    BY <1>2, <1>3, Successor
<1>. QED
  BY <1>1, <1>4

(* A row: factor times the digits of n from place lo up to hi are added to *)
(* t from place ix on, with carries, into s.                               *)
RowAdded(s, t, n, ix, lo, hi, factor, carry) ==
  \A j \in lo .. hi - 1 :
    s[ix + j] + carry[j + 1] * Radix = t[ix + j] + factor * Digit(n, j) + carry[j]

LEMMA RowAdds ==
  ASSUME NEW N \in Nat, NEW t, NEW s, Numbers(t, N), Numbers(s, N), NEW n \in Nat, NEW ix \in Nat,
         NEW lo \in Nat, NEW hi \in Nat, lo <= hi, ix + hi <= N, NEW factor \in Int, NEW carry,
         \A j \in lo .. hi : carry[j] \in Int,
         \A i \in 0 .. ix + lo - 1 : s[i] = t[i],
         RowAdded(s, t, n, ix, lo, hi, factor, carry)
  PROVE  Number(s, ix + hi) + carry[hi] * Weight(ix + hi)
           = Number(t, ix + hi) + carry[lo] * Weight(ix + lo)
               + (factor * Weight(ix)) * (LowPart(n, hi) - LowPart(n, lo))
<1>. DEFINE P(j) == Number(s, ix + j) + carry[j] * Weight(ix + j)
                      = Number(t, ix + j) + carry[lo] * Weight(ix + lo)
                          + (factor * Weight(ix)) * (LowPart(n, j) - LowPart(n, lo))
            S == {k \in Nat : lo + k <= hi => P(lo + k)}
<1>. HIDE DEF P
<1>1. 0 \in S
  <2>1. lo + 0 = lo /\ ix + lo \in Nat /\ ix + lo \in 0 .. N
    OBVIOUS
  <2>2. Numbers(t, ix + lo)
    BY <2>1 DEF Numbers
  <2>3. Number(s, ix + lo) = Number(t, ix + lo) /\ Number(t, ix + lo) \in Int
    BY <2>1, <2>2, NumberSame, NumberFacts
  <2>4. carry[lo] \in Int /\ Weight(ix + lo) \in Int /\ Weight(ix) \in Int /\ LowPart(n, lo) \in Int
    BY <2>1, Weights, LowParts
  <2>5. carry[lo] * Weight(ix + lo) \in Int /\ (factor * Weight(ix)) * (LowPart(n, lo) - LowPart(n, lo)) = 0
    BY <2>4
  <2>. QED
    BY <2>1, <2>3, <2>5 DEF P
<1>2. ASSUME NEW k \in Nat, k \in S PROVE k + 1 \in S
  <2>. DEFINE j == lo + k
              w == Weight(ix + j)
              v == Weight(ix)
              u == Weight(j)
              d == Digit(n, j)
              l == LowPart(n, j)
              l0 == LowPart(n, lo)
              c == carry[j]
              e == carry[j + 1]
              x == Number(s, ix + j)
              y == Number(t, ix + j)
              c0 == carry[lo] * Weight(ix + lo)
              a == s[ix + j]
              b == t[ix + j]
  <2>1. SUFFICES ASSUME lo + (k + 1) <= hi PROVE P(j + 1)
    OBVIOUS
  <2>2. /\ j \in Nat /\ j \in lo .. hi - 1 /\ j \in lo .. hi /\ j + 1 \in lo .. hi /\ lo \in lo .. hi
        /\ ix + j \in Nat /\ ix + j \in 0 .. N /\ ix + j \in 0 .. N - 1 /\ (ix + j) + 1 = ix + (j + 1)
        /\ ix + lo \in Nat
    BY <2>1
  <2>3. x + c * w = y + c0 + (factor * v) * (l - l0)
    BY <1>2, <2>2 DEF P
  <2>4. a + e * Radix = b + factor * d + c
    BY <2>2 DEF RowAdded
  <2>5. x \in Int /\ y \in Int /\ a \in Int /\ b \in Int
    BY <2>2, NumberFacts DEF Numbers
  <2>6. Number(s, ix + (j + 1)) = x + a * w /\ Number(t, ix + (j + 1)) = y + b * w
    BY <2>2, NumberFacts
  <2>7. w \in Nat /\ v \in Nat /\ u \in Nat /\ w = v * u /\ Weight(ix + (j + 1)) = w * Radix /\ Radix \in Nat
    BY <2>2, Weights, WeightSum
  <2>8. c \in Int /\ e \in Int /\ carry[lo] \in Int /\ Weight(ix + lo) \in Int
    BY <2>2, Weights
  <2>9. c0 \in Int
    BY <2>8
  <2>10. l \in Int /\ l0 \in Int /\ d \in Int /\ LowPart(n, j + 1) = l + d * u
    <3>1. l \in Nat /\ l0 \in Nat
      <4>1. j \in Int /\ lo \in Int
        OBVIOUS
      <4>. HIDE DEF j
      <4>2. LowPart(n, j) \in Nat
        BY <4>1, LowPartNatural
      <4>3. LowPart(n, lo) \in Nat
        BY <4>1, LowPartNatural
      <4>. QED
        BY <4>2, <4>3
    <3>3. LowPart(n, j + 1) = l + d * u
      BY <2>2, LowParts
    <3>2. d \in Nat
      BY <2>2, DigitNatural
    <3>. QED
      BY <3>1, <3>2, <3>3
  <2>. HIDE DEF j, w, v, u, d, l, l0, c, e, x, y, c0, a, b
  <2>11. (a + e * Radix) * w = (b + factor * d + c) * w
    BY <2>4
  <2>12. (a + e * Radix) * w = a * w + e * (w * Radix) /\ (b + factor * d + c) * w = b * w + (factor * d) * w + c * w
    BY <2>5, <2>7, <2>8, <2>10
  <2>13. (factor * v) * ((l + d * u) - l0) = (factor * v) * (l - l0) + (factor * d) * w
    <3>1. (factor * v) * (d * u) = (factor * d) * (v * u)
      BY <2>7, <2>10
    <3>2. (factor * v) * ((l + d * u) - l0) = (factor * v) * (l - l0) + (factor * v) * (d * u)
      <4>. DEFINE p == factor * v
                  q == d * u
      <4>1. p \in Int /\ q \in Int
        BY <2>7, <2>10
      <4>. HIDE DEF p, q
      <4>2. p * ((l + q) - l0) = p * (l - l0) + p * q
        BY <2>10, <4>1
      <4>. QED
        BY <4>2 DEF p, q
    <3>. QED
      BY <2>7, <3>1, <3>2
  <2>. DEFINE aw == a * w
              bw == b * w
              cw == c * w
              ew == e * (w * Radix)
              g == (factor * v) * (l - l0)
              h == (factor * d) * w
  <2>14. aw \in Int /\ bw \in Int /\ cw \in Int /\ ew \in Int /\ g \in Int /\ h \in Int
    BY <2>5, <2>7, <2>8, <2>10
  <2>15. aw + ew = bw + h + cw /\ x + cw = y + c0 + g
    BY <2>3, <2>11, <2>12
  <2>16. /\ Number(s, ix + (j + 1)) = x + aw /\ Number(t, ix + (j + 1)) = y + bw
         /\ carry[j + 1] * Weight(ix + (j + 1)) = ew
         /\ (factor * Weight(ix)) * (LowPart(n, j + 1) - LowPart(n, lo)) = g + h
    BY <2>6, <2>7, <2>10, <2>13 DEF e, v, l0
  <2>. HIDE DEF aw, bw, cw, ew, g, h
  <2>17. (x + aw) + ew = (y + bw) + c0 + (g + h)
    BY <2>5, <2>9, <2>14, <2>15
  <2>. QED
    BY <2>16, <2>17 DEF P, c0
<1>3. \A k \in Nat : k \in S
  <2>. HIDE DEF S
  <2>. QED
    BY <1>1, <1>2, Successor
<1>4. hi - lo \in Nat /\ lo + (hi - lo) = hi
  OBVIOUS
<1>5. P(hi)
  BY <1>3, <1>4
<1>. QED
  BY <1>5 DEF P

(* The product by rows.                                                    *)
LEMMA RowTyped ==
  ASSUME NEW m \in Nat, NEW n \in Nat, NEW c \in Int, NEW i \in Nat
  PROVE  /\ RowBelow(m, n, c, i) \in Nat
         /\ c <= i \/ Used(m) <= i => RowBelow(m, n, c, i) = 0
<1>. DEFINE d == Digit(m, i)
            w == Weight(i)
            p == d * w
            l == LowPart(n, c - i)
<1>1. d \in Nat /\ w \in Nat
  BY DigitNatural, Weights
<1>2. c - i \in Int
  OBVIOUS
<1>3. l \in Nat
  <2>. DEFINE k == c - i
  <2>. HIDE DEF k
  <2>1. LowPart(n, k) \in Nat
    BY <1>2, LowPartNatural DEF k
  <2>. QED
    BY <2>1 DEF k
<1>4. RowBelow(m, n, c, i) = p * l
  BY DEF RowBelow
<1>5. Used(m) <= i => d = 0
  BY LowParts
<1>6. c <= i => l = 0
  <2>1. SUFFICES ASSUME c <= i PROVE l = 0
    OBVIOUS
  <2>2. CASE c - i < 0
    BY <2>2 DEF LowPart
  <2>3. CASE c - i = 0
    BY <2>3, LowParts
  <2>. QED
    BY <1>2, <2>1, <2>2, <2>3
<1>. HIDE DEF d, w, l
<1>8. p * l \in Nat /\ 0 * w = 0 /\ 0 * l = 0 /\ p * 0 = 0
  BY <1>1, <1>3
<1>. QED
  BY <1>4, <1>5, <1>6, <1>8

LEMMA RowZero ==
  ASSUME NEW m \in Nat, NEW n \in Nat, NEW c \in Int, NEW i \in Nat, c <= i \/ Used(m) <= i
  PROVE  RowBelow(m, n, c, i) = 0
BY RowTyped

LEMMA RowGrows ==
  ASSUME NEW m \in Nat, NEW n \in Nat, NEW c \in Nat, NEW i \in Nat, i <= c
  PROVE  RowBelow(m, n, c + 1, i) = RowBelow(m, n, c, i) + (Digit(m, i) * Digit(n, c - i)) * Weight(c)
<1>. DEFINE d == Digit(m, i)
            w == Weight(i)
            p == d * w
            l == LowPart(n, c - i)
<1>1. d \in Nat /\ w \in Nat
  BY DigitNatural, Weights
<1>3. l \in Nat
  <2>. DEFINE k == c - i
  <2>1. k \in Int
    OBVIOUS
  <2>. HIDE DEF k
  <2>2. LowPart(n, k) \in Nat
    BY <2>1, LowPartNatural
  <2>. QED
    BY <2>2 DEF k
<1>4. RowBelow(m, n, c, i) = p * l
  BY DEF RowBelow
<1>. DEFINE k == c - i
            e == Digit(n, k)
            v == Weight(k)
<1>11. k \in Nat /\ (c + 1) - i = k + 1 /\ i + k = c
  OBVIOUS
<1>. HIDE DEF k
<1>12. e \in Nat /\ v \in Nat
  BY <1>11, DigitNatural, Weights
<1>13. LowPart(n, k + 1) = LowPart(n, k) + e * v
  BY <1>11, LowPartGrows
<1>14. Weight(c) = w * v
  BY <1>11, WeightSum
<1>15. RowBelow(m, n, c + 1, i) = p * (l + e * v)
  BY <1>11, <1>13 DEF RowBelow, k
<1>16. Digit(n, c - i) = e
  BY DEF k
<1>. HIDE DEF d, w, l, e, v
<1>17. (d * w) * (e * v) = (d * e) * (w * v)
  BY <1>1, <1>12
<1>18. p \in Int /\ e * v \in Int
  BY <1>1, <1>12
<1>. DEFINE q == e * v
<1>19. p * (l + q) = p * l + p * q
  <2>. HIDE DEF p, q
  <2>. QED
    BY <1>3, <1>18 DEF q
<1>. QED
  BY <1>4, <1>14, <1>15, <1>16, <1>17, <1>19 DEF d

RowsOf(m, n, c, k) == [i \in 0 .. k - 1 |-> RowBelow(m, n, c, i)]
RowsBelow(m, n, c, k) == Total(RowsOf(m, n, c, k), k)

LEMMA RowsTyped ==
  ASSUME NEW m \in Nat, NEW n \in Nat, NEW c \in Int, NEW k \in Nat
  PROVE  /\ Numbers(RowsOf(m, n, c, k), k) /\ RowsBelow(m, n, c, k) \in Int
         /\ \A i \in 0 .. k - 1 : RowsOf(m, n, c, k)[i] = RowBelow(m, n, c, i)
<1>. DEFINE f == RowsOf(m, n, c, k)
<1>0. \A i \in 0 .. k - 1 : f[i] = RowBelow(m, n, c, i)
  BY DEF RowsOf
<1>. HIDE DEF f
<1>1. ASSUME NEW i \in 0 .. k - 1 PROVE f[i] \in Int
  <2>1. i \in Nat /\ f[i] = RowBelow(m, n, c, i)
    BY <1>0
  <2>2. RowBelow(m, n, c, i) \in Nat
    BY <2>1, RowTyped
  <2>. QED
    BY <2>1, <2>2
<1>2. Numbers(f, k)
  BY <1>1 DEF Numbers
<1>3. RowsBelow(m, n, c, k) = Total(f, k)
  BY DEF RowsBelow, f
<1>4. Total(f, k) \in Int
  <2>1. k \in 0 .. k
    OBVIOUS
  <2>. QED
    BY <1>2, <2>1, TotalFacts
<1>. QED
  BY <1>0, <1>2, <1>3, <1>4 DEF f

(* All rows, or those of all digits, make the columns.                     *)
LEMMA RowsLonger ==
  ASSUME NEW m \in Nat, NEW n \in Nat, NEW c \in Nat, NEW k \in Nat, c <= k \/ Used(m) <= k,
         NEW h \in Nat, k <= h
  PROVE  RowsBelow(m, n, c, h) = RowsBelow(m, n, c, k)
<1>. DEFINE f == RowsOf(m, n, c, h)
            g == RowsOf(m, n, c, k)
<1>0. c \in Int
  OBVIOUS
<1>1. Numbers(f, h) /\ (\A i \in 0 .. h - 1 : f[i] = RowBelow(m, n, c, i))
        /\ (\A i \in 0 .. k - 1 : g[i] = RowBelow(m, n, c, i))
  BY <1>0, RowsTyped
<1>2. ASSUME NEW i \in k .. h - 1 PROVE f[i] = 0
  <2>1. i \in Nat /\ k <= i /\ i \in 0 .. h - 1 /\ Used(m) \in Nat
    BY UsedFacts
  <2>2. c <= i \/ Used(m) <= i
    BY <2>1
  <2>3. RowBelow(m, n, c, i) = 0
    BY <1>0, <2>1, <2>2, RowZero
  <2>. QED
    BY <1>1, <2>1, <2>3
<1>3. \A i \in 0 .. k - 1 : f[i] = g[i] /\ i \in 0 .. h - 1
  BY <1>1
<1>4. RowsBelow(m, n, c, h) = Total(f, h) /\ RowsBelow(m, n, c, k) = Total(g, k)
  BY DEF RowsBelow
<1>. HIDE DEF f, g
<1>5. k \in 0 .. h
  OBVIOUS
<1>6. Total(f, h) = Total(f, k)
  BY <1>1, <1>2, <1>5, TotalZeros
<1>7. Numbers(f, k)
  BY <1>1, <1>3 DEF Numbers
<1>8. Total(f, k) = Total(g, k)
  BY <1>3, <1>7, TotalSame
<1>. QED
  BY <1>4, <1>6, <1>8

LEMMA ColumnsAreRows ==
  ASSUME NEW m \in Nat, NEW n \in Nat, NEW c \in Nat, NEW k \in Nat, c <= k \/ Used(m) <= k
  PROVE  ColumnsBelow(m, n, c) = RowsBelow(m, n, c, k)
<1>. DEFINE S == {j \in Nat : ColumnsBelow(m, n, j) = RowsBelow(m, n, j, j)}
<1>1. 0 \in S
  <2>. DEFINE f == [j \in 0 .. 0 - 1 |-> Column(m, n, j) * Weight(j)]
              g == RowsOf(m, n, 0, 0)
  <2>1. Numbers(f, 0) /\ Numbers(g, 0)
    BY DEF Numbers
  <2>2. ColumnsBelow(m, n, 0) = Total(f, 0) /\ RowsBelow(m, n, 0, 0) = Total(g, 0)
    BY DEF ColumnsBelow, RowsBelow
  <2>. HIDE DEF f, g
  <2>. QED
    BY <2>1, <2>2, TotalFacts
<1>2. ASSUME NEW j \in Nat, j \in S PROVE j + 1 \in S
  <2>. DEFINE f == RowsOf(m, n, j, j + 1)
              g == RowsOf(m, n, j + 1, j + 1)
              h == [i \in 0 .. j |-> Digit(m, i) * Digit(n, j - i)]
              p == [i \in 0 .. j |-> Weight(j) * h[i]]
  <2>1. j + 1 \in Nat /\ j <= j + 1 /\ j + 1 \in Int /\ j \in Int /\ Weight(j) \in Int
    BY Weights
  <2>2. /\ Numbers(f, j + 1) /\ Numbers(g, j + 1)
        /\ \A i \in 0 .. (j + 1) - 1 : f[i] = RowBelow(m, n, j, i) /\ g[i] = RowBelow(m, n, j + 1, i)
    <3>. DEFINE h1 == j + 1
    <3>1. h1 \in Nat /\ h1 \in Int /\ j \in Int
      OBVIOUS
    <3>. HIDE DEF h1
    <3>2. Numbers(RowsOf(m, n, j, h1), h1) /\ \A i \in 0 .. h1 - 1 : RowsOf(m, n, j, h1)[i] = RowBelow(m, n, j, i)
      BY <3>1, RowsTyped
    <3>3. Numbers(RowsOf(m, n, h1, h1), h1) /\ \A i \in 0 .. h1 - 1 : RowsOf(m, n, h1, h1)[i] = RowBelow(m, n, h1, i)
      BY <3>1, RowsTyped
    <3>. QED
      BY <3>2, <3>3 DEF h1
  <2>12. RowsBelow(m, n, j, j + 1) = Total(f, j + 1) /\ RowsBelow(m, n, j + 1, j + 1) = Total(g, j + 1)
    BY DEF RowsBelow
  <2>3. Numbers(h, j + 1) /\ Column(m, n, j) = Total(h, j + 1)
    BY ColumnTyped DEF Column
  <2>4. ASSUME NEW i \in 0 .. (j + 1) - 1 PROVE g[i] = f[i] + p[i] /\ p[i] = Weight(j) * h[i]
    <3>1. /\ i \in Nat /\ i <= j
          /\ h[i] = Digit(m, i) * Digit(n, j - i) /\ p[i] = Weight(j) * h[i]
      OBVIOUS
    <3>5. f[i] = RowBelow(m, n, j, i) /\ g[i] = RowBelow(m, n, j + 1, i)
      BY <2>2
    <3>. HIDE DEF f, g, h, p
    <3>2. RowBelow(m, n, j + 1, i) = RowBelow(m, n, j, i) + (Digit(m, i) * Digit(n, j - i)) * Weight(j)
      BY <2>1, <3>1, RowGrows
    <3>3. Digit(m, i) * Digit(n, j - i) \in Nat
      BY <3>1, ColumnTyped
    <3>. DEFINE z == Digit(m, i) * Digit(n, j - i)
    <3>4. z * Weight(j) = Weight(j) * z
      <4>. HIDE DEF z
      <4>. QED
        BY <2>1, <3>3 DEF z
    <3>. QED
      BY <3>1, <3>2, <3>4, <3>5
  <2>. HIDE DEF f, g, h, p
  <2>5. Numbers(p, j + 1) /\ Total(p, j + 1) = Weight(j) * Total(h, j + 1)
    BY <2>1, <2>3, <2>4, TotalTimes
  <2>6. Total(g, j + 1) = Total(f, j + 1) + Total(p, j + 1)
    BY <2>1, <2>2, <2>4, <2>5, TotalSum
  <2>7. RowsBelow(m, n, j, j + 1) = RowsBelow(m, n, j, j)
    BY <2>1, RowsLonger
  <2>8. ColumnsBelow(m, n, j + 1) = ColumnsBelow(m, n, j) + Column(m, n, j) * Weight(j)
    BY ColumnTyped
  <2>9. Column(m, n, j) * Weight(j) = Weight(j) * Column(m, n, j)
    <3>1. Column(m, n, j) \in Nat
      BY ColumnTyped
    <3>. QED
      BY <2>1, <3>1
  <2>10. ColumnsBelow(m, n, j) = RowsBelow(m, n, j, j)
    BY <1>2
  <2>11. ColumnsBelow(m, n, j + 1) = RowsBelow(m, n, j + 1, j + 1)
    BY <2>3, <2>5, <2>6, <2>7, <2>8, <2>9, <2>10, <2>12
  <2>. QED
    BY <2>1, <2>11
<1>3. ColumnsBelow(m, n, c) = RowsBelow(m, n, c, c)
  <2>1. \A j \in Nat : j \in S
    <3>. HIDE DEF S
    <3>. QED
      BY <1>1, <1>2, Successor
  <2>. QED
    BY <2>1
<1>4. CASE k <= c
  BY <1>3, <1>4, RowsLonger
<1>5. CASE c <= k
  <2>1. c <= c
    OBVIOUS
  <2>2. RowsBelow(m, n, c, k) = RowsBelow(m, n, c, c)
    BY <1>5, <2>1, RowsLonger
  <2>. QED
    BY <1>3, <2>2
<1>. QED
  BY <1>4, <1>5

(* Enough columns make the product, fewer make it but for a multiple of    *)
(* the weight of the first that is missing.                                *)
LEMMA ColumnsProduct ==
  ASSUME NEW m \in Nat, NEW n \in Nat, NEW c \in Nat, Used(m) + Used(n) <= c
  PROVE  ColumnsBelow(m, n, c) = m * n
<1>. DEFINE k == Used(m)
            f == RowsOf(m, n, c, k)
            g == [i \in 0 .. k - 1 |-> Digit(m, i) * Weight(i)]
<1>1. k \in Nat /\ Used(n) \in Nat
  BY UsedFacts
<1>2. ColumnsBelow(m, n, c) = Total(f, k)
  <2>1. k <= k
    BY <1>1
  <2>. QED
    BY <1>1, <2>1, ColumnsAreRows DEF RowsBelow
<1>3. Numbers(g, k) /\ Total(g, k) = LowPart(m, k)
  BY <1>1, DigitsMake
<1>4. LowPart(m, k) = m
  BY <1>1, LowParts
<1>5. ASSUME NEW i \in 0 .. k - 1 PROVE f[i] = n * g[i]
  <2>1. i \in Nat /\ g[i] = Digit(m, i) * Weight(i) /\ c - i \in Nat /\ Used(n) <= c - i /\ c \in Int
    BY <1>1
  <2>7. f[i] = RowBelow(m, n, c, i)
    BY DEF RowsOf
  <2>. HIDE DEF f, g
  <2>2. LowPart(n, c - i) = n
    BY <2>1, LowParts
  <2>3. Digit(m, i) \in Nat /\ Weight(i) \in Nat
    BY <2>1, DigitNatural, Weights
  <2>. DEFINE x == Digit(m, i) * Weight(i)
  <2>4. x \in Nat
    BY <2>3
  <2>5. RowBelow(m, n, c, i) = x * n
    BY <2>2 DEF RowBelow
  <2>. HIDE DEF x
  <2>6. x * n = n * x
    BY <2>4
  <2>. QED
    BY <2>1, <2>5, <2>6, <2>7 DEF x
<1>. HIDE DEF f, g, k
<1>6. Total(f, k) = n * Total(g, k)
  <2>1. n \in Int
    OBVIOUS
  <2>. QED
    BY <1>1, <1>3, <1>5, <2>1, TotalTimes
<1>. QED
  BY <1>2, <1>3, <1>4, <1>6

MultipleAbove(x, y, w) == \E q \in Nat : x = y + q * w

LEMMA ColumnsAbove ==
  ASSUME NEW m \in Nat, NEW n \in Nat, NEW c \in Nat, NEW e \in Nat
  PROVE  MultipleAbove(ColumnsBelow(m, n, c + e), ColumnsBelow(m, n, c), Weight(c))
<1>. DEFINE P(k) == \E q \in Nat : ColumnsBelow(m, n, c + k) = ColumnsBelow(m, n, c) + q * Weight(c)
            S == {k \in Nat : P(k)}
<1>0. Weight(c) \in Nat /\ ColumnsBelow(m, n, c) \in Nat
  BY Weights, ColumnTyped
<1>1. 0 \in S
  <2>1. c + 0 = c /\ ColumnsBelow(m, n, c) = ColumnsBelow(m, n, c) + 0 * Weight(c) /\ 0 \in Nat
    BY <1>0
  <2>2. P(0)
    BY <2>1
  <2>. QED
    BY <2>2
<1>2. ASSUME NEW k \in Nat, k \in S PROVE k + 1 \in S
  <2>1. PICK q \in Nat : ColumnsBelow(m, n, c + k) = ColumnsBelow(m, n, c) + q * Weight(c)
    BY <1>2
  <2>. DEFINE d == c + k
              x == Column(m, n, d)
              r == x * Weight(k)
  <2>2. d \in Nat /\ c + (k + 1) = d + 1 /\ k + 1 \in Nat
    OBVIOUS
  <2>3. Weight(d) = Weight(c) * Weight(k) /\ Weight(k) \in Nat
    BY WeightSum, Weights
  <2>4. ColumnsBelow(m, n, d) = ColumnsBelow(m, n, c) + q * Weight(c)
    BY <2>1
  <2>. HIDE DEF d
  <2>5. ColumnsBelow(m, n, d + 1) = ColumnsBelow(m, n, d) + x * Weight(d) /\ x \in Nat
    <3>1. d \in Nat
      BY <2>2
    <3>2. ColumnsBelow(m, n, d + 1) = ColumnsBelow(m, n, d) + Column(m, n, d) * Weight(d)
      BY <3>1, ColumnTyped
    <3>3. Column(m, n, d) \in Nat
      BY <3>1, ColumnTyped
    <3>. QED
      BY <3>2, <3>3
  <2>. HIDE DEF x
  <2>6. r \in Nat /\ x * Weight(d) = r * Weight(c)
    BY <1>0, <2>3, <2>5
  <2>. HIDE DEF r
  <2>7. (q + r) * Weight(c) = q * Weight(c) + r * Weight(c) /\ q + r \in Nat
    BY <1>0, <2>6
  <2>8. ColumnsBelow(m, n, d + 1) = ColumnsBelow(m, n, c) + (q + r) * Weight(c)
    <3>1. q * Weight(c) \in Int /\ r * Weight(c) \in Int
      BY <1>0, <2>6
    <3>. QED
      BY <1>0, <2>4, <2>5, <2>6, <2>7, <3>1
  <2>9. P(k + 1)
    BY <2>2, <2>7, <2>8
  <2>. QED
    BY <2>2, <2>9
<1>3. \A k \in Nat : k \in S
  <2>. HIDE DEF S
  <2>. QED
    BY <1>1, <1>2, Successor
<1>. QED
  BY <1>3 DEF MultipleAbove

LEMMA ColumnsModulo ==
  ASSUME NEW m \in Nat, NEW n \in Nat, NEW c \in Nat
  PROVE  MultipleAbove(m * n, ColumnsBelow(m, n, c), Weight(c))
<1>. DEFINE e == Used(m) + Used(n)
<1>1. Used(m) \in Nat /\ Used(n) \in Nat /\ e \in Nat
  BY UsedFacts
<1>2. ColumnsBelow(m, n, c + e) = m * n
  BY <1>1, ColumnsProduct
<1>. HIDE DEF e
<1>3. MultipleAbove(ColumnsBelow(m, n, c + e), ColumnsBelow(m, n, c), Weight(c))
  BY <1>1, ColumnsAbove
<1>. QED
  BY <1>2, <1>3

-----------------------------------------------------------------------------
(* The window of digits whose products make a column.                      *)
LEMMA TotalBound ==
  ASSUME NEW N \in Nat, NEW K \in Nat, NEW f, \A i \in 0 .. N - 1 : f[i] \in Nat /\ f[i] <= K
  PROVE  Total(f, N) \in Nat /\ Total(f, N) <= N * K
<1>1. Numbers(f, N)
  BY DEF Numbers
<1>. DEFINE S == {n \in Nat : n <= N => Total(f, n) \in Nat /\ Total(f, n) <= n * K}
<1>2. 0 \in S
  BY <1>1, TotalFacts
<1>3. ASSUME NEW n \in Nat, n \in S PROVE n + 1 \in S
  <2>1. SUFFICES ASSUME n + 1 <= N PROVE Total(f, n + 1) \in Nat /\ Total(f, n + 1) <= (n + 1) * K
    OBVIOUS
  <2>2. n \in 0 .. N - 1 /\ Total(f, n) \in Nat /\ Total(f, n) <= n * K
    BY <1>3, <2>1
  <2>3. Total(f, n + 1) = Total(f, n) + f[n]
    BY <1>1, <2>2, TotalFacts
  <2>4. f[n] \in Nat /\ f[n] <= K
    BY <2>2
  <2>5. (n + 1) * K = n * K + K /\ n * K \in Nat
    OBVIOUS
  <2>. DEFINE p == n * K
  <2>. HIDE DEF p
  <2>6. Total(f, n) + f[n] \in Nat /\ Total(f, n) + f[n] <= p + K
    BY <2>2, <2>4, <2>5 DEF p
  <2>. QED
    BY <2>3, <2>5, <2>6 DEF p
<1>4. \A n \in Nat : n \in S
  <2>. HIDE DEF S
  <2>. QED
    BY <1>2, <1>3, Successor
<1>. QED
  BY <1>4

LEMMA TotalSymmetric ==
  ASSUME NEW N \in Nat, NEW f, Numbers(f, N), \A i \in 0 .. N - 1 : f[i] = f[N - 1 - i]
  PROVE  Total(f, N) = 2 * Total(f, N \div 2) + (IF N % 2 = 1 THEN f[N \div 2] ELSE 0)
<1>. DEFINE h == N \div 2
            S == {k \in Nat : k <= h => Total(f, N) = Total(f, N - k) + Total(f, k)}
<1>0. h \in Nat /\ h <= N /\ 2 * h <= N /\ (IF N % 2 = 1 THEN N = 2 * h + 1 ELSE N = 2 * h)
  OBVIOUS
<1>. HIDE DEF h
<1>1. 0 \in S
  <2>1. Total(f, 0) = 0 /\ N - 0 = N /\ N \in 0 .. N
    BY TotalFacts
  <2>2. Total(f, N) \in Int
    BY <2>1, TotalFacts
  <2>. QED
    BY <2>1, <2>2
<1>2. ASSUME NEW k \in Nat, k \in S PROVE k + 1 \in S
  <2>1. SUFFICES ASSUME k + 1 <= h PROVE Total(f, N) = Total(f, N - (k + 1)) + Total(f, k + 1)
    OBVIOUS
  <2>. DEFINE i == N - (k + 1)
  <2>2. /\ k \in 0 .. N - 1 /\ i \in 0 .. N - 1 /\ i + 1 = N - k /\ N - 1 - k = i
        /\ i \in 0 .. N /\ k \in 0 .. N
    BY <1>0, <2>1
  <2>3. Total(f, N) = Total(f, i + 1) + Total(f, k)
    BY <1>2, <2>1, <2>2, <1>0
  <2>4. f[k] = f[i] /\ f[k] \in Int
    BY <2>2 DEF Numbers
  <2>. HIDE DEF i
  <2>5. Total(f, i + 1) = Total(f, i) + f[i] /\ Total(f, i) \in Int
    BY <2>2, TotalFacts
  <2>6. Total(f, k + 1) = Total(f, k) + f[k] /\ Total(f, k) \in Int
    BY <2>2, TotalFacts
  <2>7. Total(f, N) = Total(f, i) + Total(f, k + 1)
    BY <2>3, <2>4, <2>5, <2>6
  <2>. QED
    BY <2>7 DEF i
<1>3. Total(f, N) = Total(f, N - h) + Total(f, h)
  <2>1. \A k \in Nat : k \in S
    <3>. HIDE DEF S
    <3>. QED
      BY <1>1, <1>2, Successor
  <2>. QED
    BY <1>0, <2>1
<1>4. h \in 0 .. N
  BY <1>0
<1>5. Total(f, h) \in Int
  BY <1>4, TotalFacts
<1>6. CASE N % 2 = 1
  <2>1. N - h = h + 1 /\ h \in 0 .. N - 1
    BY <1>0, <1>6
  <2>2. Total(f, h + 1) = Total(f, h) + f[h] /\ f[h] \in Int
    BY <2>1, TotalFacts DEF Numbers
  <2>. QED
    BY <1>3, <1>5, <1>6, <2>1, <2>2 DEF h
<1>7. CASE N % 2 # 1
  <2>1. N - h = h
    BY <1>0, <1>7
  <2>. QED
    BY <1>3, <1>5, <1>7, <2>1 DEF h
<1>. QED
  BY <1>6, <1>7

(* The products from place tx on, iy of them, make column ix if all others *)
(* have a digit above those used.                                          *)
IsWindow(m, n, ix, tx, iy) ==
  /\ tx \in Nat /\ iy \in Nat /\ tx + iy <= ix + 1
  /\ \A i \in 0 .. ix : i < tx => Used(n) <= ix - i
  /\ \A i \in 0 .. ix : tx + iy <= i => Used(m) <= i

Window(m, n, ix, tx, iy) == [iz \in 0 .. iy - 1 |-> Digit(m, tx + iz) * Digit(n, (ix - tx) - iz)]

LEMMA WindowTyped ==
  ASSUME NEW m \in Nat, NEW n \in Nat, NEW ix \in Nat, NEW tx \in Nat, NEW iy \in Nat, tx + iy <= ix + 1
  PROVE  \A iz \in 0 .. iy - 1 :
           /\ Window(m, n, ix, tx, iy)[iz] \in Nat
           /\ Window(m, n, ix, tx, iy)[iz] <= (Radix - 1) * (Radix - 1)
<1>. DEFINE f == Window(m, n, ix, tx, iy)
<1>1. SUFFICES ASSUME NEW iz \in 0 .. iy - 1
               PROVE  f[iz] \in Nat /\ f[iz] <= (Radix - 1) * (Radix - 1)
  OBVIOUS
<1>. DEFINE i == tx + iz
            j == (ix - tx) - iz
            d == Digit(m, i)
            e == Digit(n, j)
<1>2. i \in Nat /\ j \in Nat
  OBVIOUS
<1>3. f[iz] = d * e
  BY DEF Window
<1>. HIDE DEF i, j, f
<1>4. d \in Nat /\ d < Radix
  BY <1>2, DigitNatural
<1>5. e \in Nat /\ e < Radix
  BY <1>2, DigitNatural
<1>6. Radix \in Nat
  BY Weights
<1>. HIDE DEF d, e
<1>7. d <= Radix - 1 /\ e <= Radix - 1 /\ Radix - 1 \in Nat
  BY <1>4, <1>5, <1>6
<1>. DEFINE r == Radix - 1
<1>. HIDE DEF r
<1>8. d * e \in Nat /\ d * e <= r * r
  <2>1. d \in Nat /\ e \in Nat /\ r \in Nat /\ d <= r /\ e <= r
    BY <1>4, <1>5, <1>7 DEF r
  <2>2. d * e <= r * e
    BY <2>1, MonotoneProduct
  <2>3. e * r <= r * r
    BY <2>1, MonotoneProduct
  <2>4. e * r = r * e /\ d * e \in Nat /\ r * e \in Nat /\ r * r \in Nat
    BY <2>1
  <2>. QED
    BY <2>2, <2>3, <2>4
<1>. QED
  BY <1>3, <1>8 DEF r

LEMMA WindowColumn ==
  ASSUME NEW m \in Nat, NEW n \in Nat, NEW ix \in Nat, NEW tx, NEW iy, IsWindow(m, n, ix, tx, iy)
  PROVE  Total(Window(m, n, ix, tx, iy), iy) = Column(m, n, ix)
<1>. DEFINE f == Window(m, n, ix, tx, iy)
            g == [i \in 0 .. ix |-> Digit(m, i) * Digit(n, ix - i)]
<1>1. tx \in Nat /\ iy \in Nat /\ tx + iy <= ix + 1
  BY DEF IsWindow
<1>2. Numbers(g, ix + 1) /\ Column(m, n, ix) = Total(g, ix + 1)
  BY ColumnTyped DEF Column
<1>3. ASSUME NEW i \in 0 .. ix, i < tx \/ tx + iy <= i PROVE g[i] = 0
  <2>. DEFINE j == ix - i
              d == Digit(m, i)
              e == Digit(n, j)
  <2>1. i \in Nat /\ j \in Nat /\ g[i] = d * e
    OBVIOUS
  <2>2. Used(n) <= j \/ Used(m) <= i
    BY <1>3 DEF IsWindow
  <2>. HIDE DEF j
  <2>3. Used(n) <= j => e = 0
    BY <2>1, LowParts
  <2>4. Used(m) <= i => d = 0
    BY <2>1, LowParts
  <2>5. d \in Nat
    BY <2>1, DigitNatural
  <2>6. e \in Nat
    BY <2>1, DigitNatural
  <2>. HIDE DEF d, e
  <2>. QED
    BY <2>1, <2>2, <2>3, <2>4, <2>5, <2>6
<1>4. ASSUME NEW iz \in 0 .. iy - 1 PROVE f[iz] = g[tx + iz]
  <2>1. tx + iz \in 0 .. ix /\ ix - (tx + iz) = (ix - tx) - iz
    BY <1>1
  <2>2. f[iz] = Digit(m, tx + iz) * Digit(n, (ix - tx) - iz)
    BY DEF Window
  <2>. QED
    BY <2>1, <2>2
<1>. HIDE DEF f, g
<1>. DEFINE M0 == tx + iy
<1>5. Numbers(g, tx) /\ Numbers(g, tx + iy) /\ tx \in 0 .. ix + 1 /\ tx + iy \in 0 .. ix + 1 /\ ix + 1 \in Nat
  BY <1>1, <1>2 DEF Numbers
<1>6. Total(g, tx) = 0
  <2>1. \A i \in 0 .. tx - 1 : g[i] = 0
    BY <1>1, <1>3
  <2>2. 0 \in 0 .. tx
    BY <1>1
  <2>3. Total(g, tx) = Total(g, 0)
    BY <1>1, <1>5, <2>1, <2>2, TotalZeros
  <2>. QED
    BY <1>1, <1>5, <2>3, TotalFacts
<1>7. Total(g, tx + iy) = Total(g, tx) + Total(f, iy) /\ Numbers(f, iy)
  BY <1>1, <1>4, <1>5, TotalFrom
<1>8. Total(g, ix + 1) = Total(g, tx + iy)
  <2>1. \A i \in M0 .. (ix + 1) - 1 : g[i] = 0
    BY <1>1, <1>3
  <2>2. M0 \in 0 .. ix + 1
    BY <1>5
  <2>. HIDE DEF M0
  <2>3. Total(g, ix + 1) = Total(g, M0)
    BY <1>2, <1>5, <2>1, <2>2, TotalZeros
  <2>. QED
    BY <2>3 DEF M0
<1>9. Total(f, iy) \in Int
  <2>1. iy \in 0 .. iy
    BY <1>1
  <2>. QED
    BY <1>1, <1>7, <2>1, TotalFacts
<1>. QED
  BY <1>2, <1>6, <1>7, <1>8, <1>9 DEF f

(* The window of comba, and the sums over it.                              *)
LEMMA CombaWindow ==
  ASSUME NEW m \in Nat, NEW n \in Nat, NEW ix \in Nat
  PROVE  LET ty == MinOf(Used(n) - 1, ix)
             tx == ix - ty
             iy == MaxOf(MinOf(Used(m) - tx, ty + 1), 0)
         IN  IsWindow(m, n, ix, tx, iy) /\ iy <= MinOf(Used(m), Used(n))
<1>. DEFINE u == Used(m)
            v == Used(n)
            ty == MinOf(v - 1, ix)
            tx == ix - ty
            iy == MaxOf(MinOf(u - tx, ty + 1), 0)
<1>1. u \in Nat /\ v \in Nat
  BY UsedFacts
<1>. HIDE DEF u, v
<1>2. tx \in Nat /\ iy \in Nat /\ tx + iy <= ix + 1 /\ iy <= MinOf(u, v)
  BY <1>1 DEF MinOf, MaxOf
<1>3. \A i \in 0 .. ix : i < tx => v <= ix - i
  BY <1>1 DEF MinOf
<1>4. \A i \in 0 .. ix : tx + iy <= i => u <= i
  BY <1>1 DEF MinOf, MaxOf
<1>. HIDE DEF tx, iy
<1>5. IsWindow(m, n, ix, tx, iy)
  BY <1>2, <1>3, <1>4 DEF IsWindow, u, v
<1>. QED
  BY <1>2, <1>5 DEF tx, iy, u, v

LEMMA ColumnBound ==
  ASSUME NEW m \in Nat, NEW n \in Nat, NEW ix \in Nat
  PROVE  /\ Column(m, n, ix) \in Nat
         /\ Column(m, n, ix) <= MinOf(Used(m), Used(n)) * ((Radix - 1) * (Radix - 1))
<1>. DEFINE ty == MinOf(Used(n) - 1, ix)
            tx == ix - ty
            iy == MaxOf(MinOf(Used(m) - tx, ty + 1), 0)
            K == (Radix - 1) * (Radix - 1)
            l == MinOf(Used(m), Used(n))
<1>1. IsWindow(m, n, ix, tx, iy) /\ iy <= l
  BY CombaWindow
<1>2. l \in Nat
  BY UsedFacts DEF MinOf
<1>. HIDE DEF tx, iy, l
<1>3. tx \in Nat /\ iy \in Nat /\ tx + iy <= ix + 1
  BY <1>1 DEF IsWindow
<1>. DEFINE f == Window(m, n, ix, tx, iy)
<1>4. \A iz \in 0 .. iy - 1 : f[iz] \in Nat /\ f[iz] <= K
  BY <1>3, WindowTyped
<1>5. K \in Nat
  <2>1. Radix - 1 \in Nat
    BY Weights
  <2>. QED
    BY <2>1
<1>6. Column(m, n, ix) = Total(f, iy)
  BY <1>1, WindowColumn
<1>. HIDE DEF f, K
<1>7. Total(f, iy) \in Nat /\ Total(f, iy) <= iy * K
  BY <1>3, <1>4, <1>5, TotalBound
<1>8. iy * K <= l * K
  BY <1>1, <1>2, <1>3, <1>5, MonotoneProduct
<1>9. iy * K \in Nat /\ l * K \in Nat
  BY <1>2, <1>3, <1>5
<1>10. Total(f, iy) <= l * K
  <2>. DEFINE x == iy * K
              y == l * K
  <2>. HIDE DEF x, y
  <2>1. x \in Nat /\ y \in Nat /\ x <= y /\ Total(f, iy) <= x /\ Total(f, iy) \in Nat
    BY <1>7, <1>8, <1>9 DEF x, y
  <2>2. Total(f, iy) <= y
    BY <2>1
  <2>. QED
    BY <2>2 DEF y
<1>. QED
  BY <1>6, <1>7, <1>10 DEF K, l

LEMMA ProductsColumn ==
  ASSUME A \in Int, B \in Int, NEW ix \in Nat
  PROVE  Products(ix) = Column(Magnitude(A), Magnitude(B), ix)
<1>. DEFINE m == Magnitude(A)
            n == Magnitude(B)
            ty == MinOf(Used(B) - 1, ix)
            tx == ix - ty
            iy == MaxOf(MinOf(Used(A) - tx, ty + 1), 0)
            f == [iz \in 0 .. iy - 1 |-> Digit(A, tx + iz) * Digit(B, ty - iz)]
<1>1. m \in Nat /\ n \in Nat /\ Used(A) = Used(m) /\ Used(B) = Used(n)
  BY UsedTyped
<1>2. \A i : Digit(A, i) = Digit(m, i) /\ Digit(B, i) = Digit(n, i)
  BY DigitsOfMagnitude
<1>. HIDE DEF m, n
<1>3. IsWindow(m, n, ix, tx, iy)
  BY <1>1, CombaWindow
<1>4. Products(ix) = Total(f, iy)
  BY DEF Products
<1>5. f = Window(m, n, ix, tx, iy)
  <2>1. ix - tx = ty
    <3>1. ty \in Int
      BY <1>1, UsedFacts DEF MinOf
    <3>. HIDE DEF ty
    <3>. QED
      BY <3>1
  <2>2. f = [iz \in 0 .. iy - 1 |-> Digit(m, tx + iz) * Digit(n, ty - iz)]
    BY <1>2, Zenon
  <2>. HIDE DEF f, tx, iy, ty
  <2>. QED
    BY <2>1, <2>2, Zenon DEF Window
<1>. HIDE DEF f, tx, iy
<1>. QED
  BY <1>1, <1>3, <1>4, <1>5, WindowColumn DEF m, n

LEMMA SquaresColumn ==
  ASSUME A \in Int, NEW ix \in Nat, ix < 2 * Used(A)
  PROVE  Squares(ix) = Column(Magnitude(A), Magnitude(A), ix)
<1>. DEFINE m == Magnitude(A)
            u == Used(A)
            ty == MinOf(u - 1, ix)
            tx == ix - ty
            iw == MaxOf(MinOf(u - tx, ty + 1), 0)
            iy == MinOf(MinOf(u - tx, ty + 1), (ty - tx + 1) \div 2)
            f == [iz \in 0 .. iy - 1 |-> Digit(A, tx + iz) * Digit(A, ty - iz)]
            w == Window(m, m, ix, tx, iw)
<1>1. m \in Nat /\ u = Used(m) /\ u \in Nat /\ ix < 2 * u
  BY UsedTyped
<1>2. \A i : Digit(A, i) = Digit(m, i)
  BY DigitsOfMagnitude
<1>3. IsWindow(m, m, ix, tx, iw)
  BY <1>1, CombaWindow
<1>4. Squares(ix) = 2 * Total(f, iy) + (IF IsEven(ix) THEN Digit(A, ix \div 2) * Digit(A, ix \div 2) ELSE 0)
  BY DEF Squares
<1>. HIDE DEF m, u
<1>5. /\ tx \in Nat /\ ty \in Nat /\ ix - tx = ty /\ iw = ty - tx + 1 /\ iw \in Nat /\ iy = iw \div 2
      /\ iy \in Nat /\ iy <= iw /\ ix = ty + tx /\ tx + iw <= ix + 1
  <2>1. ty \in Nat /\ ty <= ix /\ ty <= u - 1 /\ (ty = ix \/ ty = u - 1)
    BY <1>1 DEF MinOf
  <2>. HIDE DEF ty
  <2>2. tx \in Nat /\ ix - tx = ty /\ ix = ty + tx
    BY <2>1
  <2>. DEFINE l == ty - tx + 1
  <2>3. l \in Nat /\ l <= u - tx /\ l <= ty + 1 /\ (l = u - tx \/ l = ty + 1) /\ tx + l <= ix + 1
    BY <1>1, <2>1
  <2>4. u - tx \in Int /\ ty + 1 \in Int
    BY <1>1, <2>1, <2>2
  <2>5. MinOf(u - tx, ty + 1) = l
    <3>. DEFINE x == u - tx
                y == ty + 1
    <3>. HIDE DEF x, y, l
    <3>. QED
      BY <2>3, <2>4 DEF MinOf, x, y
  <2>6. iw = MaxOf(l, 0) /\ iy = MinOf(l, l \div 2)
    BY <2>5, Zenon
  <2>. HIDE DEF l, tx, iw, iy
  <2>7. l \div 2 \in Nat /\ l \div 2 <= l
    BY <2>3
  <2>8. iw = l /\ iy = l \div 2
    BY <2>3, <2>6, <2>7 DEF MinOf, MaxOf
  <2>. QED
    BY <2>1, <2>2, <2>3, <2>7, <2>8 DEF l
<1>. HIDE DEF ty, tx, iw, iy
<1>6. iw % 2 = 1 <=> ix % 2 = 0
  <2>1. iw = (ix + 1) - 2 * tx
    BY <1>5
  <2>. QED
    BY <1>5, <2>1
<1>7. ix % 2 = 0 => tx + iy = ix \div 2 /\ (ix - tx) - iy = ix \div 2
  <2>1. SUFFICES ASSUME ix % 2 = 0 PROVE tx + iy = ix \div 2 /\ (ix - tx) - iy = ix \div 2
    OBVIOUS
  <2>2. iw = 2 * iy + 1
    BY <1>5, <1>6, <2>1
  <2>3. ix = 2 * (tx + iy)
    BY <1>5, <2>2
  <2>. QED
    BY <1>5, <2>3
<1>8. \A iz \in 0 .. iw - 1 : w[iz] \in Nat
  BY <1>1, <1>5, WindowTyped
<1>9. \A iz \in 0 .. iw - 1 : w[iz] = Digit(m, tx + iz) * Digit(m, (ix - tx) - iz)
  BY DEF Window
<1>. HIDE DEF w
<1>10. ASSUME NEW iz \in 0 .. iw - 1 PROVE w[iz] = w[iw - 1 - iz]
  <2>. DEFINE i == tx + iz
              j == (ix - tx) - iz
              k == iw - 1 - iz
              d == Digit(m, i)
              e == Digit(m, j)
  <2>1. /\ i \in Nat /\ j \in Nat /\ k \in 0 .. iw - 1 /\ tx + k = j /\ (ix - tx) - k = i
    BY <1>5
  <2>2. w[iz] = d * e
    BY <1>9
  <2>3. w[k] = e * d
    BY <1>9, <2>1
  <2>. HIDE DEF i, j, k
  <2>4. d \in Nat
    BY <1>1, <2>1, DigitNatural
  <2>5. e \in Nat
    BY <1>1, <2>1, DigitNatural
  <2>6. d * e = e * d
    <3>. HIDE DEF d, e
    <3>. QED
      BY <2>4, <2>5
  <2>. QED
    BY <2>2, <2>3, <2>6 DEF k
<1>11. Numbers(w, iw)
  BY <1>8 DEF Numbers
<1>12. Total(w, iw) = 2 * Total(w, iy) + (IF iw % 2 = 1 THEN w[iy] ELSE 0)
  BY <1>5, <1>10, <1>11, TotalSymmetric
<1>13. Total(f, iy) = Total(w, iy)
  <2>1. ASSUME NEW iz \in 0 .. iy - 1 PROVE w[iz] = f[iz] /\ iz \in 0 .. iw - 1
    <3>1. iz \in 0 .. iw - 1
      BY <1>5
    <3>2. f[iz] = Digit(A, tx + iz) * Digit(A, ty - iz)
      OBVIOUS
    <3>. HIDE DEF f
    <3>. QED
      BY <1>2, <1>5, <1>9, <3>1, <3>2
  <2>. HIDE DEF f
  <2>2. Numbers(w, iy)
    BY <1>11, <2>1 DEF Numbers
  <2>. QED
    BY <1>5, <2>1, <2>2, TotalSame
<1>14. Total(w, iw) = Column(m, m, ix)
  BY <1>1, <1>3, WindowColumn DEF w
<1>15. (IF IsEven(ix) THEN Digit(A, ix \div 2) * Digit(A, ix \div 2) ELSE 0) = (IF iw % 2 = 1 THEN w[iy] ELSE 0)
  <2>1. CASE ix % 2 = 0
    <3>1. iy \in 0 .. iw - 1
      BY <1>5, <1>6, <2>1
    <3>2. w[iy] = Digit(m, tx + iy) * Digit(m, (ix - tx) - iy)
      BY <1>9, <3>1
    <3>3. w[iy] = Digit(A, ix \div 2) * Digit(A, ix \div 2)
      BY <1>2, <1>7, <2>1, <3>2
    <3>. QED
      BY <1>6, <2>1, <3>3 DEF IsEven
  <2>2. CASE ix % 2 # 0
    BY <1>6, <2>2 DEF IsEven
  <2>. QED
    BY <2>1, <2>2
<1>. HIDE DEF f
<1>16. Squares(ix) = Column(m, m, ix)
  BY <1>4, <1>12, <1>13, <1>14, <1>15, Zenon
<1>. QED
  BY <1>16 DEF m

-----------------------------------------------------------------------------
(* A word holds the products of a column and the carry into it.            *)
LEMMA WordFacts ==
  /\ MP_MAX_COMBA \in Nat /\ MP_MAX_COMBA > 1 /\ 2 ^ MP_WORD_BIT \in Nat
  /\ 2 ^ MP_WORD_BIT = MP_MAX_COMBA * (Radix * Radix)
<1>. DEFINE d == MP_DIGIT_BIT
            e == MP_WORD_BIT - 2 * d
            s == e + d
<1>1. d \in Nat /\ e \in Nat /\ e > 0 /\ s \in Nat /\ s + d = MP_WORD_BIT
  BY DigitBitAssumption, WordAssumption
<1>2. MP_MAX_COMBA = 2 ^ e /\ Radix = 2 ^ d
  BY DEF MP_MAX_COMBA, Radix
<1>3. 2 ^ s = 2 ^ e * 2 ^ d
  <2>. HIDE DEF d, e
  <2>. QED
    BY <1>1, TwoToSum DEF s
<1>. HIDE DEF d, e, s
<1>4. 2 ^ (s + d) = 2 ^ s * 2 ^ d
  BY <1>1, TwoToSum
<1>5. 2 ^ e \in Nat
  BY <1>1, TwoTo
<1>6. 2 ^ d \in Nat
  BY <1>1, TwoTo
<1>7. 2 ^ e > 1
  <2>1. 1 \in Nat /\ 0 \in Nat /\ 1 <= e /\ 0 + 1 = 1
    BY <1>1
  <2>2. 2 ^ 1 <= 2 ^ e
    BY <1>1, <2>1, TwoToMonotone
  <2>3. 2 ^ 0 = 1 /\ 2 ^ (0 + 1) = 2 * 2 ^ 0
    BY <2>1, TwoTo
  <2>. QED
    BY <1>5, <2>1, <2>2, <2>3
<1>. DEFINE x == 2 ^ e
            y == 2 ^ d
<1>8. (x * y) * y = x * (y * y) /\ x * (y * y) \in Nat
  <2>1. x \in Nat /\ y \in Nat
    BY <1>5, <1>6
  <2>. HIDE DEF x, y
  <2>. QED
    BY <2>1
<1>9. 2 ^ MP_WORD_BIT = x * (y * y)
  BY <1>1, <1>3, <1>4, <1>8
<1>. QED
  BY <1>2, <1>5, <1>7, <1>8, <1>9

LEMMA WordOf ==
  ASSUME NEW n \in Nat, n < 2 ^ MP_WORD_BIT
  PROVE  Word(n) = n
<1>. DEFINE w == 2 ^ MP_WORD_BIT
<1>1. w \in Nat /\ w > 0 /\ n = w * 0 + n /\ n \in 0 .. w - 1
  BY WordFacts
<1>2. Word(n) = n % w
  BY DEF Word
<1>. HIDE DEF w
<1>3. (w * 0 + n) % w = n
  BY <1>1, DivisionUnique
<1>. QED
  BY <1>1, <1>2, <1>3

LEMMA CombaCarry ==
  ASSUME NEW m \in Nat, NEW n \in Nat, NEW ix \in Nat, MinOf(Used(m), Used(n)) <= MP_MAX_COMBA,
         NEW carry \in Nat, carry <= MP_MAX_COMBA * (Radix - 1)
  PROVE  LET sum == Word(carry + Column(m, n, ix))
         IN  /\ sum = carry + Column(m, n, ix)
             /\ sum \div Radix \in Nat /\ sum \div Radix <= MP_MAX_COMBA * (Radix - 1)
             /\ sum % Radix \in 0 .. Radix - 1 /\ sum = Radix * (sum \div Radix) + (sum % Radix)
<1>. DEFINE c == Column(m, n, ix)
            l == MinOf(Used(m), Used(n))
            k == MP_MAX_COMBA
            r == Radix - 1
            sum == carry + c
<1>1. k \in Nat /\ r \in Nat /\ r > 0 /\ Radix = r + 1 /\ Radix \in Nat /\ Radix > 0
  BY WordFacts, Weights
<1>2. l \in Nat /\ l <= k
  BY UsedFacts DEF MinOf
<1>3. c \in Nat /\ c <= l * (r * r)
  BY ColumnBound
<1>4. 2 ^ MP_WORD_BIT = k * (Radix * Radix)
  BY WordFacts
<1>. HIDE DEF c, l, k, r
<1>5. r * r \in Nat /\ k * r \in Nat
  BY <1>1
<1>6. l * (r * r) <= k * (r * r)
  BY <1>1, <1>2, <1>5, MonotoneProduct
<1>7. (k * r) * Radix = k * r + k * (r * r)
  <2>1. (k * r) * (r + 1) = k * r + k * (r * r)
    BY <1>1
  <2>. QED
    BY <1>1, <2>1
<1>8. (k * r) * Radix < k * (Radix * Radix)
  <2>1. k > 0
    BY WordFacts DEF k
  <2>2. k * Radix > 0 /\ k * Radix \in Nat
    BY <1>1, <2>1
  <2>3. (k * Radix) * (r + 1) = (k * Radix) * r + k * Radix /\ (k * Radix) * r = (k * r) * Radix
    BY <1>1
  <2>4. k * (Radix * Radix) = (k * Radix) * (r + 1)
    BY <1>1
  <2>5. (k * r) * Radix \in Nat
    BY <1>1, <1>5
  <2>. DEFINE x == (k * r) * Radix
              y == k * Radix
              z == k * (Radix * Radix)
  <2>6. z = x + y
    BY <2>3, <2>4
  <2>. HIDE DEF x, y, z
  <2>. QED
    <3>1. x \in Nat /\ y \in Nat /\ y > 0
      BY <2>2, <2>5 DEF x, y
    <3>2. x < z
      BY <2>6, <3>1
    <3>. QED
      BY <3>2 DEF x, z
<1>9. sum \in Nat /\ sum <= (k * r) * Radix
  <2>. DEFINE x == l * (r * r)
              y == k * (r * r)
              z == k * r
  <2>1. x \in Nat /\ y \in Nat /\ z \in Nat /\ x <= y /\ c <= x /\ carry <= z
    BY <1>1, <1>2, <1>3, <1>5, <1>6 DEF k, r
  <2>2. (k * r) * Radix = z + y
    BY <1>7
  <2>. HIDE DEF x, y, z
  <2>. QED
    BY <1>3, <2>1, <2>2
<1>. HIDE DEF sum
<1>10. sum < 2 ^ MP_WORD_BIT
  <2>. DEFINE x == (k * r) * Radix
              z == k * (Radix * Radix)
  <2>1. x \in Int /\ z \in Int
    BY <1>1, <1>5
  <2>. HIDE DEF x, z
  <2>2. sum < z
    BY <1>8, <1>9, <2>1 DEF x, z
  <2>. QED
    BY <1>4, <2>2 DEF z
<1>11. Word(sum) = sum
  BY <1>9, <1>10, WordOf
<1>. DEFINE q == sum \div Radix
<1>12. q \in Nat /\ sum % Radix \in 0 .. Radix - 1 /\ sum = Radix * q + (sum % Radix)
  <2>1. q \in Nat
    BY <1>1, <1>9, Greatest
  <2>2. sum % Radix \in 0 .. Radix - 1 /\ sum = Radix * q + (sum % Radix)
    BY <1>1, <1>9, Division
  <2>. QED
    BY <2>1, <2>2
<1>13. q <= k * r
  <2>1. q * Radix <= sum
    BY <1>1, <1>9, Greatest
  <2>2. q * Radix \in Nat /\ (k * r) * Radix \in Nat
    BY <1>1, <1>5, <1>12
  <2>. DEFINE x == q * Radix
              z == (k * r) * Radix
  <2>3. x <= z
    <3>. HIDE DEF x, z
    <3>1. x \in Nat /\ z \in Nat /\ x <= sum /\ sum <= z
      BY <1>9, <2>1, <2>2 DEF x, z
    <3>. QED
      BY <1>9, <3>1
  <2>. HIDE DEF q
  <2>. QED
    BY <1>1, <1>5, <1>12, <2>3, MonotoneProduct
<1>. QED
  BY <1>11, <1>12, <1>13 DEF sum, c, k, r

(* What comba has after the columns from first up to ix.                   *)
CombaState(m, n, first, pa, W, ix, carry) ==
  /\ W \in [0 .. pa - 1 -> 0 .. Radix - 1]
  /\ \A i \in 0 .. pa - 1 : i < first => W[i] = 0
  /\ carry \in Nat /\ carry <= MP_MAX_COMBA * (Radix - 1)
  /\ Number(W, ix) + carry * Weight(ix) = ColumnsBelow(m, n, ix) - ColumnsBelow(m, n, first)

LEMMA CombaStep ==
  ASSUME NEW m \in Nat, NEW n \in Nat, NEW first \in Nat, NEW pa \in Nat, NEW ix \in Nat,
         MinOf(Used(m), Used(n)) <= MP_MAX_COMBA, first <= ix, ix < pa, NEW W, NEW carry,
         CombaState(m, n, first, pa, W, ix, carry), NEW sum, sum = Word(carry + Column(m, n, ix))
  PROVE  CombaState(m, n, first, pa, [W EXCEPT ![ix] = sum % Radix], ix + 1, sum \div Radix)
<1>. DEFINE c == Column(m, n, ix)
            w == Weight(ix)
            d == sum % Radix
            q == sum \div Radix
            V == [W EXCEPT ![ix] = d]
            x == Number(W, ix)
            y == ColumnsBelow(m, n, ix)
            z == ColumnsBelow(m, n, first)
<1>1. W \in [0 .. pa - 1 -> 0 .. Radix - 1] /\ carry \in Nat /\ carry <= MP_MAX_COMBA * (Radix - 1)
        /\ (\A i \in 0 .. pa - 1 : i < first => W[i] = 0)
        /\ x + carry * w = y - z
  BY DEF CombaState
<1>2. sum = carry + c /\ q \in Nat /\ q <= MP_MAX_COMBA * (Radix - 1) /\ d \in 0 .. Radix - 1 /\ sum = Radix * q + d
  BY <1>1, CombaCarry
<1>3. Radix \in Nat /\ w \in Nat /\ Weight(ix + 1) = w * Radix
  BY Weights
<1>4. ix \in 0 .. pa - 1 /\ ix + 1 \in Nat /\ ix + 1 <= pa
  OBVIOUS
<1>. HIDE DEF d, q, w
<1>5. V \in [0 .. pa - 1 -> 0 .. Radix - 1] /\ V[ix] = d /\ (\A i \in 0 .. pa - 1 : i # ix => V[i] = W[i])
  BY <1>1, <1>2, <1>4
<1>6. \A i \in 0 .. pa - 1 : i < first => V[i] = 0
  BY <1>1, <1>5
<1>. HIDE DEF V
<1>7. Numbers(W, ix) /\ Numbers(V, ix + 1) /\ (\A i \in 0 .. ix - 1 : V[i] = W[i])
  <2>1. 0 .. Radix - 1 \subseteq Int
    BY <1>3
  <2>2. \A i \in 0 .. pa - 1 : W[i] \in Int /\ V[i] \in Int
    BY <1>1, <1>5, <2>1
  <2>. QED
    BY <1>4, <1>5, <2>2 DEF Numbers
<1>8. Number(V, ix) = x /\ x \in Int
  <2>1. Number(V, ix) = x
    BY <1>7, NumberSame
  <2>2. ix \in 0 .. ix
    OBVIOUS
  <2>. QED
    BY <1>7, <2>1, <2>2, NumberFacts
<1>9. Number(V, ix + 1) = x + d * w
  <2>1. ix \in 0 .. (ix + 1) - 1
    OBVIOUS
  <2>. QED
    BY <1>4, <1>5, <1>7, <1>8, <2>1, NumberFacts DEF w
<1>10. ColumnsBelow(m, n, ix + 1) = y + c * w
  BY ColumnTyped DEF w
<1>11. y \in Nat /\ z \in Nat /\ c \in Nat
  BY ColumnTyped
<1>. HIDE DEF x, y, z, c
<1>12. (carry + c) * w = carry * w + c * w /\ (Radix * q + d) * w = q * (w * Radix) + d * w
  <2>1. d \in Nat
    BY <1>2, <1>3
  <2>. QED
    BY <1>1, <1>2, <1>3, <1>11, <2>1
<1>13. (x + d * w) + q * (w * Radix) = (y + c * w) - z
  <2>. DEFINE cw == carry * w
              ew == c * w
              qw == q * (w * Radix)
              dw == d * w
  <2>1. d \in Nat
    BY <1>2, <1>3
  <2>2. cw \in Nat /\ ew \in Nat /\ qw \in Nat /\ dw \in Nat
    BY <1>1, <1>2, <1>3, <1>11, <2>1
  <2>3. cw + ew = qw + dw /\ x + cw = y - z
    <3>1. (carry + c) * w = (Radix * q + d) * w
      BY <1>2
    <3>. QED
      BY <1>1, <1>12, <3>1
  <2>. HIDE DEF cw, ew, qw, dw
  <2>4. (x + dw) + qw = (y + ew) - z
    BY <1>8, <1>11, <2>2, <2>3
  <2>. QED
    BY <2>4 DEF dw, qw, ew
<1>14. Number(V, ix + 1) + q * Weight(ix + 1) = ColumnsBelow(m, n, ix + 1) - ColumnsBelow(m, n, first)
  BY <1>3, <1>9, <1>10, <1>13 DEF z
<1>. QED
  BY <1>2, <1>5, <1>6, <1>14 DEF CombaState, V, d, q

(* What the columns hold at the end.                                       *)
LEMMA QuotientAndRest ==
  ASSUME NEW w \in Nat, w > 0, NEW q \in Int, NEW x \in Nat, x < w
  PROVE  (x + q * w) % w = x /\ (x + q * w) \div w = q
<1>1. x + q * w = w * q + x /\ x \in 0 .. w - 1
  OBVIOUS
<1>2. (w * q + x) % w = x /\ (w * q + x) \div w = q
  BY <1>1, DivisionUnique
<1>. QED
  BY <1>1, <1>2

LEMMA ProductBelow ==
  ASSUME NEW m \in Nat, NEW n \in Nat, NEW c \in Nat, Used(m) + Used(n) <= c
  PROVE  m * n < Weight(c)
<1>. DEFINE u == Used(m)
            v == Used(n)
            x == Weight(u)
            y == Weight(v)
<1>1. u \in Nat /\ m < x
  BY UsedFacts
<1>2. v \in Nat /\ n < y
  BY UsedFacts
<1>3. x \in Nat /\ y \in Nat
  BY <1>1, <1>2, Weights
<1>4. Weight(u + v) = x * y
  BY <1>1, <1>2, WeightSum
<1>5. u + v \in Nat /\ u + v <= c
  BY <1>1, <1>2
<1>6. Weight(u + v) <= Weight(c)
  <2>. DEFINE s == u + v
  <2>. HIDE DEF s
  <2>1. Weight(s) <= Weight(c)
    BY <1>5, WeightMonotone DEF s
  <2>. QED
    BY <2>1 DEF s
<1>. HIDE DEF x, y, u, v
<1>7. m * n < x * y
  <2>1. m * n <= m * y
    <3>1. n * m <= y * m
      BY <1>2, <1>3, MonotoneProduct
    <3>. QED
      BY <1>3, <3>1
  <2>2. m * y < x * y
    BY <1>1, <1>2, <1>3, MonotoneProduct
  <2>. QED
    BY <1>3, <2>1, <2>2
<1>8. m * n \in Nat /\ x * y \in Nat /\ Weight(c) \in Nat
  BY <1>3, Weights
<1>. QED
  BY <1>4, <1>6, <1>7, <1>8

LEMMA CombaNumber ==
  ASSUME NEW m \in Nat, NEW n \in Nat, NEW first \in Nat, NEW pa \in Nat, NEW W, NEW carry,
         CombaState(m, n, first, pa, W, pa, carry)
  PROVE  /\ Number(W, pa) \in Nat /\ Number(W, pa) < Weight(pa) /\ carry \in Nat
         /\ Number(W, pa) + carry * Weight(pa) = ColumnsBelow(m, n, pa) - ColumnsBelow(m, n, first)
<1>1. AreDigits(W, pa)
  BY DEF CombaState, AreDigits
<1>2. pa \in 0 .. pa
  OBVIOUS
<1>3. Number(W, pa) \in Nat /\ Number(W, pa) < Weight(pa)
  BY <1>1, <1>2, NumberBound
<1>. QED
  BY <1>3 DEF CombaState

LEMMA NothingBelow ==
  ASSUME NEW m \in Nat, NEW n \in Nat
  PROVE  ColumnsBelow(m, n, 0) = 0
<1>. DEFINE f == [j \in 0 .. 0 - 1 |-> Column(m, n, j) * Weight(j)]
<1>1. Numbers(f, 0) /\ ColumnsBelow(m, n, 0) = Total(f, 0)
  BY DEF Numbers, ColumnsBelow
<1>. HIDE DEF f
<1>. QED
  BY <1>1, TotalFacts

LEMMA CombaLow ==
  ASSUME NEW m \in Nat, NEW n \in Nat, NEW digs \in Nat, NEW pa, NEW W, NEW carry,
         pa = MinOf(digs, Used(m) + Used(n)), CombaState(m, n, 0, pa, W, pa, carry)
  PROVE  Number(W, pa) = (m * n) % Weight(MinOf(digs, Used(m) + Used(n) + 1))
<1>. DEFINE u == Used(m) + Used(n)
            e == MinOf(digs, u + 1)
            x == Number(W, pa)
            w == Weight(pa)
<1>1. u \in Nat
  BY UsedFacts
<1>. HIDE DEF u
<1>2. pa \in Nat /\ e \in Nat /\ pa <= u /\ (e = pa \/ (pa = u /\ u <= e))
  BY <1>1 DEF MinOf, u
<1>. HIDE DEF e
<1>3. x \in Nat /\ x < w /\ carry \in Nat /\ x + carry * w = ColumnsBelow(m, n, pa)
  <2>1. x + carry * w = ColumnsBelow(m, n, pa) - 0
    BY <1>2, CombaNumber, NothingBelow
  <2>2. ColumnsBelow(m, n, pa) \in Nat
    BY <1>2, ColumnTyped
  <2>. QED
    BY <1>2, <2>1, <2>2, CombaNumber
<1>4. MultipleAbove(m * n, ColumnsBelow(m, n, pa), w)
  BY <1>2, ColumnsModulo
<1>5. PICK q \in Nat : m * n = ColumnsBelow(m, n, pa) + q * w
  BY <1>4 DEF MultipleAbove
<1>6. w \in Nat /\ w > 0
  BY <1>2, Weights
<1>. HIDE DEF x, w
<1>7. m * n = x + (carry + q) * w
  <2>1. (carry + q) * w = carry * w + q * w /\ carry * w \in Nat /\ q * w \in Nat
    BY <1>3, <1>6
  <2>. QED
    BY <1>3, <1>5, <2>1
<1>8. CASE e = pa
  <2>1. carry + q \in Int
    BY <1>3
  <2>2. (x + (carry + q) * w) % w = x
    BY <1>3, <1>6, <2>1, QuotientAndRest
  <2>. QED
    BY <1>7, <1>8, <2>2 DEF e, x, w, u
<1>9. CASE pa = u /\ u <= e
  <2>1. u <= u
    BY <1>1
  <2>2. ColumnsBelow(m, n, pa) = m * n /\ m * n < w
    BY <1>1, <1>2, <1>9, <2>1, ColumnsProduct, ProductBelow DEF u, w
  <2>3. m * n < Weight(e)
    BY <1>2, <1>9, ProductBelow DEF u
  <2>4. carry = 0
    <3>1. carry * w \in Nat /\ (carry > 0 => carry * w >= w)
      BY <1>3, <1>6
    <3>. DEFINE p == carry * w
    <3>. HIDE DEF p
    <3>2. p \in Nat /\ (carry > 0 => p >= w) /\ x + p < w
      BY <1>3, <2>2, <3>1 DEF p
    <3>. QED
      BY <1>3, <1>6, <3>2
  <2>5. x = m * n
    <3>1. 0 * w = 0
      BY <1>6
    <3>. QED
      BY <1>3, <2>2, <2>4, <3>1
  <2>. DEFINE v == Weight(e)
  <2>6. v \in Nat /\ v > 0
    BY <1>2, Weights
  <2>. HIDE DEF v
  <2>7. x % v = x
    <3>1. x < v
      BY <2>3, <2>5 DEF v
    <3>2. (x + 0 * v) % v = x
      BY <1>3, <2>6, <3>1, QuotientAndRest
    <3>3. x + 0 * v = x
      BY <1>3, <2>6
    <3>. QED
      BY <3>2, <3>3
  <2>. QED
    BY <2>5, <2>7 DEF x, v, e, u
<1>. QED
  BY <1>2, <1>8, <1>9

(* The upper columns, from digs on.                                        *)
HighPart(m, n, digs) ==
  ColumnsBelow(m, n, Used(m) + Used(n)) - ColumnsBelow(m, n, MinOf(digs, Used(m) + Used(n)))

LEMMA HighColumnsPart ==
  ASSUME NEW x \in Int, NEW y \in Int, NEW digs \in Nat
  PROVE  HighColumns(x, y, digs) = HighPart(Magnitude(x), Magnitude(y), digs)
<1>. DEFINE m == Magnitude(x)
            n == Magnitude(y)
            u == Used(x) + Used(y)
            l == MinOf(digs, u)
            column(ix) == Total([i \in 0 .. ix |-> Digit(x, i) * Digit(y, ix - i)], ix + 1)
            h == [ix \in 0 .. u - 1 |-> IF ix < digs THEN 0 ELSE column(ix) * Weight(ix)]
            f == [j \in 0 .. u - 1 |-> Column(m, n, j) * Weight(j)]
            g == [j \in 0 .. u - 1 |-> IF j < digs THEN f[j] ELSE 0]
            k == [j \in 0 .. l - 1 |-> Column(m, n, j) * Weight(j)]
<1>1. m \in Nat /\ n \in Nat /\ u = Used(m) + Used(n) /\ u \in Nat
  BY UsedTyped
<1>2. \A i : Digit(x, i) = Digit(m, i) /\ Digit(y, i) = Digit(n, i)
  BY DigitsOfMagnitude
<1>3. HighColumns(x, y, digs) = Total(h, u)
  BY DEF HighColumns
<1>4. \A ix : column(ix) = Column(m, n, ix)
  BY <1>2, Zenon DEF Column
<1>. HIDE DEF m, n, u, column
<1>5. \A j \in 0 .. u - 1 : f[j] \in Nat
  <2>1. ASSUME NEW j \in 0 .. u - 1 PROVE f[j] \in Nat
    <3>1. j \in Nat /\ f[j] = Column(m, n, j) * Weight(j)
      OBVIOUS
    <3>2. Column(m, n, j) * Weight(j) \in Nat
      BY <1>1, <3>1, ColumnTyped, Weights
    <3>. HIDE DEF f
    <3>. QED
      BY <3>1, <3>2
  <2>. QED
    BY <2>1
<1>6. ASSUME NEW j \in 0 .. u - 1 PROVE h[j] = IF j < digs THEN 0 ELSE f[j]
  BY <1>4
<1>7. ASSUME NEW j \in 0 .. u - 1 PROVE g[j] = IF j < digs THEN f[j] ELSE 0
  OBVIOUS
<1>8. l \in 0 .. u /\ l \in Nat /\ (\A j \in 0 .. l - 1 : j < digs) /\ (\A j \in l .. u - 1 : ~ (j < digs))
  BY <1>1 DEF MinOf
<1>9. \A j \in 0 .. l - 1 : k[j] = f[j]
  <2>. HIDE DEF l
  <2>1. ASSUME NEW j \in 0 .. l - 1 PROVE k[j] = f[j]
    <3>1. j \in 0 .. u - 1
      BY <1>1, <1>8
    <3>. QED
      BY <3>1
  <2>. QED
    BY <2>1
<1>10. ColumnsBelow(m, n, u) = Total(f, u) /\ ColumnsBelow(m, n, l) = Total(k, l)
  BY DEF ColumnsBelow
<1>. HIDE DEF f, g, h, k, l
<1>11. Numbers(f, u) /\ Numbers(g, u) /\ Numbers(h, u)
  BY <1>5, <1>6, <1>7 DEF Numbers
<1>12. \A j \in 0 .. u - 1 : f[j] = g[j] + h[j]
  BY <1>5, <1>6, <1>7
<1>13. Total(f, u) = Total(g, u) + Total(h, u)
  BY <1>1, <1>11, <1>12, TotalSum
<1>14. Total(g, u) = Total(g, l)
  <2>1. \A j \in l .. u - 1 : g[j] = 0
    <3>1. \A j \in l .. u - 1 : j \in 0 .. u - 1
      BY <1>8
    <3>. QED
      BY <1>7, <1>8, <3>1
  <2>. QED
    BY <1>1, <1>8, <1>11, <2>1, TotalZeros
<1>15. Total(g, l) = Total(k, l)
  <2>1. \A j \in 0 .. l - 1 : j \in 0 .. u - 1
    BY <1>1, <1>8
  <2>2. \A j \in 0 .. l - 1 : k[j] = g[j]
    BY <1>7, <1>8, <1>9, <2>1
  <2>3. Numbers(g, l)
    BY <1>11, <2>1 DEF Numbers
  <2>. QED
    BY <1>8, <2>2, <2>3, TotalSame
<1>16. Total(h, u) \in Int /\ Total(g, u) \in Int
  <2>1. u \in 0 .. u
    BY <1>1
  <2>. QED
    BY <1>1, <1>11, <2>1, TotalFacts
<1>17. Total(h, u) = ColumnsBelow(m, n, u) - ColumnsBelow(m, n, l)
  BY <1>10, <1>13, <1>14, <1>15, <1>16
<1>. QED
  BY <1>1, <1>3, <1>17 DEF HighPart, l, m, n, u

HighDone(m, n, digs, pa, W, carry) ==
  \/ digs <= pa /\ CombaState(m, n, digs, pa, W, pa, carry)
  \/ digs > pa /\ W \in [0 .. pa - 1 -> 0 .. Radix - 1] /\ \A i \in 0 .. pa - 1 : i < digs => W[i] = 0

HighMade(x, m, n, digs) == x \div Weight(digs) = HighPart(m, n, digs) \div Weight(digs)

LEMMA CombaHigh ==
  ASSUME NEW m \in Nat, NEW n \in Nat, NEW digs \in Nat, NEW pa, pa = Used(m) + Used(n), NEW W,
         NEW carry, NEW below \in Nat, below < Weight(MinOf(digs, pa)),
         HighDone(m, n, digs, pa, W, carry)
  PROVE  Number(W, pa) \in Nat /\ HighMade(below + Number(W, pa), m, n, digs)
<1>. DEFINE x == Number(W, pa)
            w == Weight(digs)
<1>1. pa \in Nat
  <2>1. Used(m) \in Nat
    BY UsedFacts
  <2>2. Used(n) \in Nat
    BY UsedFacts
  <2>. QED
    BY <2>1, <2>2
<1>2. w \in Nat /\ w > 0
  BY Weights
<1>3. CASE digs <= pa /\ CombaState(m, n, digs, pa, W, pa, carry)
  <2>. DEFINE v == Weight(pa)
              e == pa - digs
              y == ColumnsBelow(m, n, pa)
              z == ColumnsBelow(m, n, digs)
  <2>1. x \in Nat /\ x < v /\ carry \in Nat /\ x + carry * v = y - z
    BY <1>1, <1>3, CombaNumber
  <2>2. pa <= pa
    BY <1>1
  <2>3. y = m * n /\ m * n < v
    BY <1>1, <2>2, ColumnsProduct, ProductBelow
  <2>4. z \in Nat /\ y \in Nat
    BY <1>1, ColumnTyped
  <2>5. v \in Nat /\ v > 0
    BY <1>1, Weights
  <2>6. e \in Nat /\ digs + e = pa /\ MinOf(digs, pa) = digs
    BY <1>1, <1>3 DEF MinOf
  <2>. HIDE DEF e
  <2>7. MultipleAbove(ColumnsBelow(m, n, digs + e), z, w)
    BY <2>6, ColumnsAbove
  <2>8. PICK q \in Nat : y = z + q * w
    BY <2>6, <2>7 DEF MultipleAbove
  <2>. HIDE DEF x, y, z, v, w
  <2>9. carry = 0
    <3>1. carry * v \in Nat /\ (carry > 0 => carry * v >= v)
      BY <2>1, <2>5
    <3>. DEFINE p == carry * v
    <3>. HIDE DEF p
    <3>2. p \in Nat /\ (carry > 0 => p >= v) /\ x + p = y - z /\ y < v
      BY <2>1, <2>3, <3>1 DEF p
    <3>. QED
      BY <2>1, <2>4, <2>5, <3>2
  <2>10. x = q * w /\ y - z = q * w
    <3>1. 0 * v = 0 /\ q * w \in Nat
      BY <1>2, <2>5
    <3>. QED
      BY <2>1, <2>4, <2>8, <2>9, <3>1
  <2>11. below < w
    BY <2>6 DEF w
  <2>12. (below + q * w) \div w = q
    BY <1>2, <2>11, QuotientAndRest
  <2>13. (q * w) \div w = q
    <3>1. (0 + q * w) \div w = q
      BY <1>2, QuotientAndRest
    <3>2. 0 + q * w = q * w
      BY <1>2
    <3>. QED
      BY <3>1, <3>2
  <2>14. HighPart(m, n, digs) = y - z
    BY <2>6 DEF HighPart, y, z
  <2>. QED
    BY <2>1, <2>10, <2>12, <2>13, <2>14 DEF HighMade, x, w
<1>4. CASE digs > pa /\ W \in [0 .. pa - 1 -> 0 .. Radix - 1] /\ \A i \in 0 .. pa - 1 : i < digs => W[i] = 0
  <2>1. \A i \in 0 .. pa - 1 : W[i] = 0
    BY <1>1, <1>4
  <2>2. Numbers(W, pa)
    BY <2>1 DEF Numbers
  <2>3. 0 \in 0 .. pa
    BY <1>1
  <2>4. x = 0
    BY <1>1, <2>1, <2>2, <2>3, NumberZeros, NumberFacts
  <2>5. MinOf(digs, pa) = pa /\ pa <= digs
    BY <1>1, <1>4 DEF MinOf
  <2>6. HighPart(m, n, digs) = 0
    <3>1. ColumnsBelow(m, n, pa) \in Nat
      BY <1>1, ColumnTyped
    <3>2. HighPart(m, n, digs) = ColumnsBelow(m, n, pa) - ColumnsBelow(m, n, pa)
      BY <2>5 DEF HighPart
    <3>. QED
      BY <3>1, <3>2
  <2>7. below < w
    <3>1. Weight(pa) <= w /\ Weight(pa) \in Nat
      BY <1>1, <2>5, WeightMonotone, Weights
    <3>. QED
      BY <1>2, <2>5, <3>1
  <2>. HIDE DEF x, w
  <2>8. below \div w = 0 /\ 0 \div w = 0
    <3>1. (below + 0 * w) \div w = 0
      BY <1>2, <2>7, QuotientAndRest
    <3>2. (0 + 0 * w) \div w = 0
      BY <1>2, QuotientAndRest
    <3>3. below + 0 * w = below /\ 0 + 0 * w = 0
      BY <1>2
    <3>. QED
      BY <3>1, <3>2, <3>3
  <2>9. below + x = below
    BY <2>4
  <2>. QED
    BY <2>4, <2>6, <2>8, <2>9 DEF HighMade, x, w
<1>. QED
  BY <1>3, <1>4 DEF HighDone

-----------------------------------------------------------------------------
(* A row of products.  The type of a digit holds two digits and more, a    *)
(* word two squares of the radix.                                          *)
LEMMA DigitTypeOf ==
  ASSUME NEW n \in Nat, n < 2 * Radix
  PROVE  DigitType(n) = n
<1>. DEFINE h == MP_WORD_BIT \div 2
            d == MP_DIGIT_BIT
            e == d + 1
            w == 2 ^ h
<1>1. d \in Nat /\ h \in Nat /\ e \in Nat /\ e <= h
  BY DigitBitAssumption, WordAssumption
<1>2. 2 ^ e = 2 * 2 ^ d /\ Radix = 2 ^ d
  <2>. HIDE DEF d
  <2>1. 2 ^ (d + 1) = 2 * 2 ^ d
    BY <1>1, TwoTo
  <2>. QED
    BY <2>1 DEF e, d, Radix
<1>. HIDE DEF e, h
<1>3. 2 ^ e <= 2 ^ h
  BY <1>1, TwoToMonotone
<1>4. w \in Nat /\ w > 0
  BY <1>1, TwoTo
<1>5. 2 ^ e \in Nat
  BY <1>1, TwoTo
<1>6. n < w
  BY <1>2, <1>3, <1>4, <1>5, Weights
<1>7. DigitType(n) = n % w
  BY DEF DigitType, h, w
<1>. HIDE DEF w
<1>8. (n + 0 * w) % w = n
  BY <1>4, <1>6, QuotientAndRest
<1>9. n + 0 * w = n
  BY <1>4
<1>. QED
  BY <1>7, <1>8, <1>9

LEMMA TwoSquares ==
  /\ Radix * Radix \in Nat /\ 2 ^ MP_WORD_BIT \in Nat
  /\ 2 * (Radix * Radix) <= 2 ^ MP_WORD_BIT
<1>. DEFINE c == MP_MAX_COMBA
            r == Radix * Radix
            z == 2
<1>1. c \in Nat /\ z <= c /\ z \in Nat
  BY WordFacts
<1>2. r \in Nat
  BY Weights
<1>. HIDE DEF c, r, z
<1>3. z * r <= c * r
  BY <1>1, <1>2, MonotoneProduct
<1>. QED
  BY <1>2, <1>3, WordFacts DEF c, r, z

(* A product of digits, a digit and a carry.                               *)
Carried(u, f) == u \in Nat /\ u < f * Radix

Fits(n, f) ==
  /\ n \in Nat /\ Word(n) = n
  /\ DigitType(n \div Radix) = n \div Radix /\ Carried(n \div Radix, f)
  /\ n % Radix \in 0 .. Radix - 1 /\ n = Radix * (n \div Radix) + (n % Radix)

LEMMA WordStep ==
  ASSUME NEW x \in Nat, x < Radix, NEW d \in Nat, d < Radix, NEW e \in Nat, e < Radix,
         NEW f \in {1, 2}, NEW u, Carried(u, f)
  PROVE  Fits(x + f * d * e + u, f)
<1>0. u \in Nat /\ u < f * Radix
  BY DEF Carried
<1>. DEFINE r == Radix
            s == r * r
            p == d * e
            n == x + f * d * e + u
            q == n \div r
<1>1. r \in Nat /\ r >= 4 /\ s \in Nat
  BY Weights
<1>2. p \in Nat /\ p <= s - 2 * r + 1
  <2>1. d <= r - 1 /\ e <= r - 1 /\ r - 1 \in Nat
    BY <1>1
  <2>. DEFINE g == r - 1
  <2>2. d * e <= g * e
    <3>. HIDE DEF g
    <3>. QED
      BY <2>1, MonotoneProduct DEF g
  <2>3. e * g <= g * g
    <3>. HIDE DEF g
    <3>. QED
      BY <2>1, MonotoneProduct DEF g
  <2>4. g * g = s - 2 * r + 1
    BY <1>1
  <2>5. d * e \in Nat /\ g * e \in Nat /\ e * g = g * e
    BY <2>1
  <2>. DEFINE dd == d * e
              ge == g * e
              gg == g * g
  <2>6. dd <= ge /\ ge <= gg /\ dd \in Nat /\ ge \in Nat /\ gg = s - 2 * r + 1
    BY <2>2, <2>3, <2>4, <2>5
  <2>7. p = dd
    OBVIOUS
  <2>. HIDE DEF dd, ge, gg, p, s, r
  <2>. QED
    BY <1>1, <2>6, <2>7
<1>3. n = x + f * p + u
  OBVIOUS
<1>. HIDE DEF r, s, p
<1>4. n \in Nat /\ n < f * s
  <2>1. f = 1 \/ f = 2
    OBVIOUS
  <2>. QED
    BY <1>0, <1>1, <1>2, <1>3, <2>1 DEF r
<1>5. f * s <= 2 * s
  BY <1>1
<1>. HIDE DEF n
<1>6. Word(n) = n
  BY <1>1, <1>4, <1>5, TwoSquares, WordOf DEF r, s
<1>7. q \in Nat /\ n % r \in 0 .. r - 1 /\ n = r * q + (n % r)
  BY <1>1, <1>4, Division
<1>8. q < f * r
  <2>1. r * q <= n
    BY <1>1, <1>4, <1>7
  <2>2. f * s = (f * r) * r
    BY <1>1 DEF s
  <2>3. r * q = q * r /\ q * r \in Nat /\ f * r \in Nat
    BY <1>1, <1>7
  <2>4. q * r < (f * r) * r
    BY <1>1, <1>4, <2>1, <2>2, <2>3
  <2>. DEFINE k == f * r
  <2>. HIDE DEF k, q
  <2>5. q * r < k * r
    BY <2>4 DEF k
  <2>6. q < k
    BY <1>1, <1>7, <2>3, <2>5, MonotoneProduct DEF k
  <2>. QED
    BY <2>6 DEF k
<1>9. q < 2 * r
  BY <1>1, <1>7, <1>8
<1>. HIDE DEF q
<1>10. DigitType(q) = q
  BY <1>7, <1>9, DigitTypeOf DEF r
<1>. QED
  BY <1>4, <1>6, <1>7, <1>8, <1>10 DEF n, r, q, Fits, Carried

(* A recursive function on an interval.                                    *)
Recurs(lo, hi, u, next) ==
  \E c \in [lo .. hi -> Int] :
    \A i \in lo .. hi : c[i] = IF i = lo THEN u ELSE next[<< i - 1, c[i - 1] >>]

LEMMA Recurrence ==
  ASSUME NEW lo \in Nat, NEW hi \in Nat, NEW u \in Int, NEW next \in [Nat \X Int -> Int]
  PROVE  Recurs(lo, hi, u, next)
<1>. DEFINE first == [k \in Nat |-> u]
            prev == [k \in Nat |-> IF k = 0 THEN 0 ELSE k - 1]
            step == [p \in Nat \X Int |-> IF p[1] = 0 THEN u ELSE next[<< lo + (p[1] - 1), p[2] >>]]
<1>1. PICK T \in [Nat -> Int] : SolvesAll(T, Nat, {0}, first, prev, step)
  <2>1. first \in [Nat -> Int] /\ prev \in [Nat -> Nat]
    OBVIOUS
  <2>2. step \in [Nat \X Int -> Int]
    <3>1. ASSUME NEW p \in Nat \X Int PROVE step[p] \in Int
      <4>1. CASE p[1] = 0
        BY <4>1
      <4>2. CASE p[1] # 0
        <5>1. << lo + (p[1] - 1), p[2] >> \in Nat \X Int
          BY <4>2
        <5>2. next[<< lo + (p[1] - 1), p[2] >>] \in Int
          BY <5>1
        <5>. QED
          BY <4>2, <5>2
      <4>. QED
        BY <4>1, <4>2
    <3>2. step = [p \in Nat \X Int |-> step[p]]
      OBVIOUS
    <3>. HIDE DEF step
    <3>. QED
      BY <3>1, <3>2
  <2>3. Descends(Nat, {0}, prev)
    BY DEF Descends
  <2>4. Nat \in SUBSET Nat
    OBVIOUS
  <2>. HIDE DEF first, prev, step
  <2>. QED
    BY <2>1, <2>2, <2>3, <2>4, RecursionSolved
<1>2. T[0] = u
  BY <1>1 DEF SolvesAll
<1>3. ASSUME NEW k \in Nat PROVE T[k + 1] = next[<< lo + k, T[k] >>]
  <2>1. k + 1 \in Nat /\ k + 1 # 0 /\ prev[k + 1] = k /\ T[k] \in Int
    OBVIOUS
  <2>2. T[k + 1] = step[<< k + 1, T[k] >>]
    <3>. HIDE DEF step, prev, first
    <3>1. T[k + 1] = IF k + 1 \in {0} THEN first[k + 1] ELSE step[<< k + 1, T[prev[k + 1]] >>]
      BY <1>1, <2>1 DEF SolvesAll
    <3>. QED
      BY <2>1, <3>1
  <2>3. step[<< k + 1, T[k] >>] = next[<< lo + ((k + 1) - 1), T[k] >>]
    BY <2>1
  <2>4. (k + 1) - 1 = k
    OBVIOUS
  <2>. QED
    BY <2>2, <2>3, <2>4
<1>. DEFINE c == [i \in lo .. hi |-> T[i - lo]]
<1>4. ASSUME NEW i \in lo .. hi PROVE c[i] \in Int /\ c[i] = T[i - lo]
  OBVIOUS
<1>5. c \in [lo .. hi -> Int]
  BY <1>4
<1>. HIDE DEF first, prev, step
<1>6. ASSUME NEW i \in lo .. hi PROVE c[i] = IF i = lo THEN u ELSE next[<< i - 1, c[i - 1] >>]
  <2>1. CASE i = lo
    BY <1>2, <1>4, <2>1
  <2>2. CASE i # lo
    <3>. DEFINE k == i - 1 - lo
    <3>1. k \in Nat /\ k + 1 = i - lo /\ lo + k = i - 1 /\ i - 1 \in lo .. hi /\ k = (i - 1) - lo
      BY <2>2
    <3>. HIDE DEF k
    <3>2. T[k + 1] = next[<< lo + k, T[k] >>]
      BY <1>3, <3>1
    <3>3. c[i - 1] = T[(i - 1) - lo]
      BY <1>4, <3>1
    <3>. QED
      BY <1>4, <2>2, <3>1, <3>2, <3>3
  <2>. QED
    BY <2>1, <2>2
<1>. HIDE DEF c
<1>. QED
  BY <1>5, <1>6 DEF Recurs

(* The carries of a row are what their recursive definition says.          *)
CarriesOf(c, t, ix, lo, hi, factor, u) ==
  /\ DOMAIN c = lo .. hi /\ c[lo] = u
  /\ \A iy \in lo .. hi - 1 : c[iy + 1] = DigitType(Sum(t, ix, iy, factor, c[iy]) \div Radix)

LEMMA RemainderTyped ==
  ASSUME NEW n \in Int, NEW k \in Nat
  PROVE  n % 2 ^ k \in Int
<1>1. 2 ^ k \in Nat /\ 2 ^ k > 0
  BY TwoTo
<1>. QED
  BY <1>1, Division

LEMMA DigitInteger ==
  ASSUME NEW n \in Int, NEW i \in Nat
  PROVE  Digit(n, i) \in Nat /\ Digit(n, i) < Radix
<1>1. Magnitude(n) \in Nat
  BY UsedTyped
<1>2. Digit(n, i) = Digit(Magnitude(n), i)
  BY DigitsOfMagnitude
<1>. QED
  BY <1>1, <1>2, DigitNatural

LEMMA CarriesFacts ==
  ASSUME A \in Int, B \in Int, NEW t, NEW ix \in Nat, NEW lo \in Nat, NEW hi \in Nat, lo <= hi,
         NEW factor \in Int, NEW u \in Int, \A iy \in lo .. hi - 1 : t[ix + iy] \in Int
  PROVE  CarriesOf(Carries(t, ix, lo, hi, factor, u), t, ix, lo, hi, factor, u)
<1>. DEFINE V(k, v) == DigitType(Sum(t, ix, k, factor, v) \div Radix)
            next == [p \in Nat \X Int |-> IF p[1] \in lo .. hi - 1 THEN V(p[1], p[2]) ELSE 0]
            P(c) == c = [iy \in lo .. hi |-> IF iy = lo THEN u ELSE V(iy - 1, c[iy - 1])]
            c0 == CHOOSE c : P(c)
<1>1. ASSUME NEW k \in lo .. hi - 1, NEW v \in Int PROVE V(k, v) \in Int
  <2>. DEFINE x == t[ix + k] + factor * Digit(A, ix) * Digit(B, k) + v
  <2>1. Digit(A, ix) \in Int /\ Digit(B, k) \in Int
    BY DigitInteger
  <2>2. x \in Int
    BY <2>1
  <2>3. Word(x) \in Int
    <3>. HIDE DEF x
    <3>. QED
      BY <2>2, RemainderTyped, WordAssumption DEF Word
  <2>4. Word(x) \div Radix \in Int
    BY <2>3, Weights, Division
  <2>5. DigitType(Word(x) \div Radix) \in Int
    <3>. DEFINE y == Word(x) \div Radix
                h == MP_WORD_BIT \div 2
    <3>1. h \in Nat
      BY WordAssumption
    <3>. HIDE DEF y, h
    <3>2. y % 2 ^ h \in Int
      BY <2>4, <3>1, RemainderTyped DEF y
    <3>. QED
      BY <3>2 DEF DigitType, y, h
  <2>. QED
    BY <2>5 DEF Sum
<1>. HIDE DEF V
<1>2. next \in [Nat \X Int -> Int]
  BY <1>1
<1>3. PICK r \in [lo .. hi -> Int] :
        \A i \in lo .. hi : r[i] = IF i = lo THEN u ELSE next[<< i - 1, r[i - 1] >>]
  <2>. HIDE DEF next
  <2>1. Recurs(lo, hi, u, next)
    BY <1>2, Recurrence
  <2>. QED
    BY <2>1 DEF Recurs
<1>4. ASSUME NEW i \in lo .. hi PROVE r[i] = IF i = lo THEN u ELSE V(i - 1, r[i - 1])
  <2>1. CASE i = lo
    BY <1>3, <2>1
  <2>2. CASE i # lo
    <3>1. i - 1 \in lo .. hi - 1 /\ i - 1 \in Nat /\ r[i - 1] \in Int
      BY <2>2
    <3>2. next[<< i - 1, r[i - 1] >>] = V(i - 1, r[i - 1])
      BY <3>1
    <3>. QED
      BY <1>3, <2>2, <3>2
  <2>. QED
    BY <2>1, <2>2
<1>. HIDE DEF next
<1>5. P(r)
  <2>1. r = [i \in lo .. hi |-> r[i]]
    OBVIOUS
  <2>. QED
    BY <1>4, <2>1
<1>6. P(c0)
  <2>. HIDE DEF P
  <2>. QED
    BY <1>5
<1>7. Carries(t, ix, lo, hi, factor, u) = c0
  BY Zenon DEF Carries, V
<1>. HIDE DEF c0
<1>8. lo \in lo .. hi /\ \A iy \in lo .. hi - 1 : iy + 1 \in lo .. hi /\ iy + 1 # lo /\ (iy + 1) - 1 = iy
  OBVIOUS
<1>9. DOMAIN c0 = lo .. hi /\ c0[lo] = u
  BY <1>6, <1>8
<1>10. \A iy \in lo .. hi - 1 : c0[iy + 1] = V(iy, c0[iy])
  BY <1>6, <1>8
<1>. QED
  BY <1>7, <1>9, <1>10 DEF CarriesOf, V

LEMMA NumberTail ==
  ASSUME NEW N \in Nat, NEW t, NEW s, Numbers(t, N), Numbers(s, N), NEW k \in 0 .. N,
         \A i \in k .. N - 1 : s[i] = t[i]
  PROVE  Number(s, N) - Number(s, k) = Number(t, N) - Number(t, k)
<1>. DEFINE S == {j \in Nat : k + j <= N =>
                     Number(s, k + j) - Number(s, k) = Number(t, k + j) - Number(t, k)}
<1>1. 0 \in S
  <2>1. k + 0 = k /\ k \in 0 .. N
    OBVIOUS
  <2>2. Number(s, k) \in Int /\ Number(t, k) \in Int
    BY NumberFacts
  <2>3. Number(s, k + 0) - Number(s, k) = Number(t, k + 0) - Number(t, k)
    BY <2>1, <2>2
  <2>. QED
    BY <2>3
<1>2. ASSUME NEW j \in Nat, j \in S PROVE j + 1 \in S
  <2>1. SUFFICES ASSUME k + (j + 1) <= N
                 PROVE  Number(s, k + (j + 1)) - Number(s, k) = Number(t, k + (j + 1)) - Number(t, k)
    OBVIOUS
  <2>. DEFINE e == k + j
  <2>2. e \in 0 .. N - 1 /\ e \in 0 .. N /\ k + (j + 1) = e + 1 /\ e \in k .. N - 1 /\ e \in Nat
    BY <2>1
  <2>3. Number(s, e) - Number(s, k) = Number(t, e) - Number(t, k)
    BY <1>2, <2>1
  <2>. HIDE DEF e
  <2>4. Number(s, e + 1) = Number(s, e) + s[e] * Weight(e)
    BY <2>2, NumberFacts
  <2>5. Number(t, e + 1) = Number(t, e) + t[e] * Weight(e)
    BY <2>2, NumberFacts
  <2>6. s[e] = t[e] /\ t[e] * Weight(e) \in Int
    <3>1. t[e] \in Int /\ Weight(e) \in Nat
      BY <2>2, Weights DEF Numbers
    <3>. QED
      BY <2>2, <3>1
  <2>. DEFINE x == t[e] * Weight(e)
  <2>. HIDE DEF x
  <2>7. Number(s, e + 1) = Number(s, e) + x /\ Number(t, e + 1) = Number(t, e) + x /\ x \in Int
    BY <2>4, <2>5, <2>6 DEF x
  <2>8. Number(s, e) \in Int /\ Number(t, e) \in Int /\ Number(s, k) \in Int /\ Number(t, k) \in Int
    BY <2>2, NumberFacts
  <2>. QED
    BY <2>2, <2>3, <2>7, <2>8
<1>3. \A j \in Nat : j \in S
  <2>. HIDE DEF S
  <2>. QED
    BY <1>1, <1>2, Successor
<1>4. N - k \in Nat /\ k + (N - k) = N
  OBVIOUS
<1>5. N - k \in S
  <2>. HIDE DEF S
  <2>. QED
    BY <1>3, <1>4
<1>. QED
  BY <1>4, <1>5

PutSum(s, t, N, k) == Number(s, N) + t[k] * Weight(k) = Number(t, N) + s[k] * Weight(k)

LEMMA NumberPut ==
  ASSUME NEW N \in Nat, NEW t, NEW s, Numbers(t, N), Numbers(s, N), NEW k \in 0 .. N - 1,
         \A i \in 0 .. N - 1 : i # k => s[i] = t[i]
  PROVE  PutSum(s, t, N, k)
<1>1. k \in Nat /\ k \in 0 .. N /\ k + 1 \in 0 .. N /\ k \in 0 .. N - 1
  OBVIOUS
<1>2. Number(s, k) = Number(t, k)
  <2>1. Numbers(t, k)
    BY <1>1 DEF Numbers
  <2>2. \A i \in 0 .. k - 1 : s[i] = t[i]
    BY <1>1
  <2>. QED
    BY <1>1, <2>1, <2>2, NumberSame
<1>3. Number(s, k + 1) = Number(s, k) + s[k] * Weight(k)
  BY <1>1, NumberFacts
<1>4. Number(t, k + 1) = Number(t, k) + t[k] * Weight(k)
  BY <1>1, NumberFacts
<1>5. Number(s, N) - Number(s, k + 1) = Number(t, N) - Number(t, k + 1)
  <2>. DEFINE e == k + 1
  <2>1. e \in 0 .. N /\ \A i \in e .. N - 1 : s[i] = t[i]
    BY <1>1
  <2>. HIDE DEF e
  <2>2. Number(s, N) - Number(s, e) = Number(t, N) - Number(t, e)
    BY <2>1, NumberTail
  <2>. QED
    BY <2>2 DEF e
<1>6. s[k] \in Int /\ t[k] \in Int /\ Weight(k) \in Nat
  BY <1>1, Weights DEF Numbers
<1>. DEFINE x == t[k] * Weight(k)
            y == s[k] * Weight(k)
<1>7. x \in Int /\ y \in Int
  BY <1>6
<1>8. N \in 0 .. N
  OBVIOUS
<1>9. Number(s, k) \in Int /\ Number(t, N) \in Int /\ Number(s, N) \in Int
  BY <1>1, <1>8, NumberFacts
<1>. HIDE DEF x, y
<1>10. Number(s, N) + x = Number(t, N) + y
  BY <1>2, <1>3, <1>4, <1>5, <1>7, <1>9 DEF x, y
<1>. QED
  BY <1>10 DEF x, y, PutSum

(* A row holds digits and the carry out of it is less than twice the radix *)
(* or the radix; together they are what they were and the products.        *)
RowSum(s, t, n, ix, lo, hi, factor, carry) ==
  Number(s, ix + hi) + carry[hi] * Weight(ix + hi)
    = Number(t, ix + hi) + carry[lo] * Weight(ix + lo)
        + (factor * Weight(ix)) * (LowPart(n, hi) - LowPart(n, lo))

LEMMA RowSums ==
  ASSUME NEW N \in Nat, NEW t, NEW s, Numbers(t, N), Numbers(s, N), NEW n \in Nat, NEW ix \in Nat,
         NEW lo \in Nat, NEW hi \in Nat, lo <= hi, ix + hi <= N, NEW factor \in Int, NEW carry,
         \A j \in lo .. hi : carry[j] \in Int,
         \A i \in 0 .. ix + lo - 1 : s[i] = t[i],
         RowAdded(s, t, n, ix, lo, hi, factor, carry)
  PROVE  RowSum(s, t, n, ix, lo, hi, factor, carry)
BY RowAdds DEF RowSum

(* As the digits above the row are the same, so for the whole numbers.     *)
RowWholly(s, t, N, n, ix, lo, hi, factor, carry) ==
  Number(s, N) + carry[hi] * Weight(ix + hi)
    = Number(t, N) + carry[lo] * Weight(ix + lo)
        + (factor * Weight(ix)) * (LowPart(n, hi) - LowPart(n, lo))

LEMMA RowWhole ==
  ASSUME NEW N \in Nat, NEW t, NEW s, Numbers(t, N), Numbers(s, N), NEW n \in Nat, NEW ix \in Nat,
         NEW lo \in Nat, NEW hi \in Nat, ix + hi <= N, NEW factor \in Int, NEW carry,
         carry[hi] \in Int, carry[lo] \in Int,
         \A i \in ix + hi .. N - 1 : s[i] = t[i],
         RowSum(s, t, n, ix, lo, hi, factor, carry)
  PROVE  RowWholly(s, t, N, n, ix, lo, hi, factor, carry)
<1>. DEFINE k == ix + hi
            l == ix + lo
            x == LowPart(n, hi)
            y == LowPart(n, lo)
            w == Weight(ix)
            p == (factor * w) * (x - y)
            g == carry[hi] * Weight(k)
            h == carry[lo] * Weight(l)
<1>1. Number(s, k) + g = Number(t, k) + h + p
  BY DEF RowSum
<1>2. k \in Nat /\ l \in Nat /\ hi \in Int /\ lo \in Int
  OBVIOUS
<1>3. k \in 0 .. N /\ N \in 0 .. N /\ \A i \in k .. N - 1 : s[i] = t[i]
  OBVIOUS
<1>4. x \in Nat
  BY <1>2, LowPartNatural
<1>5. y \in Nat
  BY <1>2, LowPartNatural
<1>6. w \in Nat
  BY Weights
<1>. HIDE DEF k, l, x, y, w
<1>7. Weight(k) \in Nat
  BY <1>2, Weights
<1>8. Weight(l) \in Nat
  BY <1>2, Weights
<1>9. g \in Int /\ h \in Int /\ p \in Int
  BY <1>4, <1>5, <1>6, <1>7, <1>8
<1>. HIDE DEF g, h, p
<1>10. Number(s, N) - Number(s, k) = Number(t, N) - Number(t, k)
  BY <1>3, NumberTail
<1>11. Number(s, N) \in Int /\ Number(s, k) \in Int
  BY <1>3, NumberFacts
<1>12. Number(t, N) \in Int /\ Number(t, k) \in Int
  BY <1>3, NumberFacts
<1>13. Number(s, N) + g = Number(t, N) + h + p
  BY <1>1, <1>9, <1>10, <1>11, <1>12
<1>. QED
  BY <1>13 DEF RowWholly, g, h, k, l, p, x, y, w

RowAddedUp(s, t, N, ix, lo, hi, f, c, u, d, n) ==
  /\ s \in [0 .. N - 1 -> 0 .. Radix - 1]
  /\ \A i \in 0 .. N - 1 : i < ix + lo \/ i >= ix + hi => s[i] = t[i]
  /\ Carried(c[hi], f)
  /\ Number(s, N) + c[hi] * Weight(ix + hi)
       = Number(t, N) + u * Weight(ix + lo) + ((f * d) * Weight(ix)) * (LowPart(n, hi) - LowPart(n, lo))

LEMMA RowStep ==
  ASSUME A \in Int, B \in Int, NEW N \in Nat, NEW t \in [0 .. N - 1 -> 0 .. Radix - 1],
         NEW ix \in Nat, NEW lo \in Nat, NEW hi \in Nat, lo <= hi, ix + hi <= N,
         NEW factor \in {1, 2}, NEW u, Carried(u, factor),
         NEW c, c = Carries(t, ix, lo, hi, factor, u), NEW s, s = Row(t, ix, c, factor)
  PROVE  RowAddedUp(s, t, N, ix, lo, hi, factor, c, u, Digit(A, ix), Magnitude(B))
<1>0. u \in Nat
  BY DEF Carried
<1>. DEFINE d == Digit(A, ix)
            n == Magnitude(B)
            x(j) == t[ix + j] + factor * d * Digit(B, j) + c[j]
<1>1. d \in Nat /\ d < Radix
  BY DigitInteger
<1>2. ASSUME NEW j \in lo .. hi - 1
      PROVE  j \in Nat /\ ix + j \in 0 .. N - 1 /\ t[ix + j] \in Nat /\ t[ix + j] < Radix
  <2>1. ix + j \in 0 .. N - 1
    OBVIOUS
  <2>2. t[ix + j] \in 0 .. Radix - 1
    BY <2>1
  <2>3. Radix \in Nat
    BY Weights
  <2>. QED
    BY <2>1, <2>2, <2>3
<1>3. CarriesOf(c, t, ix, lo, hi, factor, u)
  <2>1. \A iy \in lo .. hi - 1 : t[ix + iy] \in Int
    BY <1>2
  <2>2. factor \in Int
    OBVIOUS
  <2>. QED
    BY <1>0, <2>1, <2>2, CarriesFacts
<1>4. DOMAIN c = lo .. hi /\ c[lo] = u
  BY <1>3 DEF CarriesOf
<1>5. ASSUME NEW j \in lo .. hi - 1, Carried(c[j], factor)
      PROVE  /\ Carried(c[j + 1], factor)
             /\ Sum(t, ix, j, factor, c[j]) % Radix \in 0 .. Radix - 1
             /\ x(j) = Radix * c[j + 1] + (Sum(t, ix, j, factor, c[j]) % Radix)
  <2>. DEFINE e == Digit(B, j)
              z == t[ix + j]
              v == c[j]
              y == z + factor * d * e + v
  <2>1. e \in Nat /\ e < Radix /\ z \in Nat /\ z < Radix /\ Carried(v, factor)
    BY <1>2, <1>5, DigitInteger
  <2>2. x(j) = y /\ Sum(t, ix, j, factor, c[j]) = Word(y)
    BY DEF Sum
  <2>3. c[j + 1] = DigitType(Word(y) \div Radix)
    BY <1>3, <2>2 DEF CarriesOf
  <2>. HIDE DEF d, e, z, v
  <2>4. Fits(y, factor)
    BY <1>1, <2>1, WordStep
  <2>. HIDE DEF x, y
  <2>. QED
    BY <2>2, <2>3, <2>4 DEF Fits
<1>6. \A j \in lo .. hi : Carried(c[j], factor)
  <2>. DEFINE S == {k \in Nat : lo + k <= hi => Carried(c[lo + k], factor)}
  <2>1. 0 \in S
    BY <1>4
  <2>2. ASSUME NEW k \in Nat, k \in S PROVE k + 1 \in S
    <3>1. SUFFICES ASSUME lo + (k + 1) <= hi
                   PROVE  Carried(c[lo + (k + 1)], factor)
      OBVIOUS
    <3>. DEFINE j == lo + k
    <3>2. j \in lo .. hi - 1 /\ lo + (k + 1) = j + 1 /\ Carried(c[j], factor)
      BY <2>2, <3>1
    <3>. HIDE DEF j, x
    <3>3. Carried(c[j + 1], factor)
      BY <1>5, <3>2
    <3>. QED
      BY <3>2, <3>3
  <2>3. \A k \in Nat : k \in S
    <3>. HIDE DEF S
    <3>. QED
      BY <2>1, <2>2, Successor
  <2>4. ASSUME NEW j \in lo .. hi PROVE Carried(c[j], factor)
    <3>1. j - lo \in Nat /\ lo + (j - lo) = j
      OBVIOUS
    <3>2. j - lo \in S
      <4>. HIDE DEF S
      <4>. QED
        BY <2>3, <3>1
    <3>. QED
      BY <3>1, <3>2
  <2>. QED
    BY <2>4
<1>7. ASSUME NEW j \in lo .. hi - 1
      PROVE  /\ Sum(t, ix, j, factor, c[j]) % Radix \in 0 .. Radix - 1
             /\ x(j) = Radix * c[j + 1] + (Sum(t, ix, j, factor, c[j]) % Radix)
  <2>1. j \in lo .. hi
    OBVIOUS
  <2>. HIDE DEF x
  <2>. QED
    BY <1>5, <1>6, <2>1
<1>8. ASSUME NEW i \in 0 .. N - 1
      PROVE  /\ i < ix + lo \/ i >= ix + hi => s[i] = t[i]
             /\ ~ (i < ix + lo \/ i >= ix + hi) => s[i] = Sum(t, ix, i - ix, factor, c[i - ix]) % Radix
  <2>1. DOMAIN t = 0 .. N - 1
    OBVIOUS
  <2>2. s[i] = IF i - ix \in DOMAIN c /\ i - ix + 1 \in DOMAIN c
               THEN Sum(t, ix, i - ix, factor, c[i - ix]) % Radix ELSE t[i]
    BY <2>1 DEF Row
  <2>3. (i - ix \in lo .. hi /\ i - ix + 1 \in lo .. hi) <=> ~ (i < ix + lo \/ i >= ix + hi)
    OBVIOUS
  <2>. QED
    BY <1>4, <2>2, <2>3
<1>9. s \in [0 .. N - 1 -> 0 .. Radix - 1]
  <2>1. ASSUME NEW i \in 0 .. N - 1 PROVE s[i] \in 0 .. Radix - 1
    <3>1. CASE i < ix + lo \/ i >= ix + hi
      BY <1>8, <3>1
    <3>2. CASE ~ (i < ix + lo \/ i >= ix + hi)
      <4>. DEFINE j == i - ix
      <4>1. j \in lo .. hi - 1
        BY <3>2
      <4>. HIDE DEF j, x
      <4>2. Sum(t, ix, j, factor, c[j]) % Radix \in 0 .. Radix - 1
        BY <1>7, <4>1
      <4>. QED
        BY <1>8, <3>2, <4>2 DEF j
    <3>. QED
      BY <3>1, <3>2
  <2>2. DOMAIN s = 0 .. N - 1 /\ s = [i \in 0 .. N - 1 |-> s[i]]
    BY DEF Row
  <2>. QED
    BY <2>1, <2>2
<1>10. hi \in lo .. hi /\ Carried(c[hi], factor)
  BY <1>6
<1>11. Numbers(t, N) /\ Numbers(s, N)
  <2>1. Radix \in Nat
    BY Weights
  <2>. QED
    BY <1>9, <2>1 DEF Numbers
<1>. DEFINE f == factor * d
<1>12. RowAdded(s, t, n, ix, lo, hi, f, c)
  <2>1. ASSUME NEW j \in lo .. hi - 1
        PROVE  s[ix + j] + c[j + 1] * Radix = t[ix + j] + f * Digit(n, j) + c[j]
    <3>. DEFINE i == ix + j
    <3>1. i \in 0 .. N - 1 /\ ~ (i < ix + lo \/ i >= ix + hi) /\ i - ix = j
      OBVIOUS
    <3>. HIDE DEF i
    <3>2. s[i] = Sum(t, ix, j, factor, c[j]) % Radix
      BY <1>8, <3>1
    <3>3. x(j) = Radix * c[j + 1] + s[i] /\ s[i] \in 0 .. Radix - 1
      <4>. HIDE DEF x
      <4>. QED
        BY <1>7, <3>2
    <3>4. Digit(B, j) = Digit(n, j)
      BY DigitsOfMagnitude
    <3>5. x(j) = t[i] + f * Digit(n, j) + c[j]
      BY <3>4 DEF i
    <3>6. c[j + 1] \in Nat /\ Radix \in Nat /\ s[i] \in Nat
      <4>1. j + 1 \in lo .. hi
        OBVIOUS
      <4>2. c[j + 1] \in Nat
        BY <1>6, <4>1 DEF Carried
      <4>3. Radix \in Nat
        BY Weights
      <4>. QED
        BY <3>3, <4>2, <4>3
    <3>7. Radix * c[j + 1] = c[j + 1] * Radix /\ c[j + 1] * Radix \in Nat
      BY <3>6
    <3>. HIDE DEF x, f
    <3>8. s[i] + c[j + 1] * Radix = x(j)
      <4>. DEFINE y == c[j + 1] * Radix
      <4>. HIDE DEF y
      <4>1. x(j) = y + s[i] /\ y \in Nat
        BY <3>3, <3>7 DEF y
      <4>2. s[i] + y = x(j)
        BY <3>6, <4>1
      <4>. QED
        BY <4>2 DEF y
    <3>. QED
      BY <3>5, <3>8 DEF i
  <2>. HIDE DEF f, n, x
  <2>. QED
    BY <2>1 DEF RowAdded
<1>13. f \in Int /\ n \in Nat
  <2>1. f \in Int
    BY <1>1
  <2>2. n \in Nat
    BY UsedTyped
  <2>. QED
    BY <2>1, <2>2
<1>. HIDE DEF f, n, d, x
<1>14. RowSum(s, t, n, ix, lo, hi, f, c)
  <2>1. \A j \in lo .. hi : c[j] \in Int
    BY <1>6 DEF Carried
  <2>2. \A i \in 0 .. ix + lo - 1 : s[i] = t[i]
    BY <1>8
  <2>. QED
    BY <1>11, <1>12, <1>13, <2>1, <2>2, RowSums
<1>15. \A i \in ix + hi .. N - 1 : s[i] = t[i]
  BY <1>8
<1>16. c[hi] \in Int /\ c[lo] \in Int
  BY <1>0, <1>4, <1>10 DEF Carried
<1>17. RowWholly(s, t, N, n, ix, lo, hi, f, c)
  BY <1>11, <1>13, <1>14, <1>15, <1>16, RowWhole
<1>18. \A i \in 0 .. N - 1 : i < ix + lo \/ i >= ix + hi => s[i] = t[i]
  BY <1>8
<1>. QED
  BY <1>4, <1>9, <1>10, <1>17, <1>18 DEF f, n, d, RowAddedUp, RowWholly

(* The rows of s_mp_mul: as many digits as asked for of the product by the *)
(* digits of the rows done.                                                *)
Alike(x, y, w) == \E q \in Int : x = y + q * w

LEMMA LowPartRest ==
  ASSUME NEW n \in Nat, NEW k \in Nat
  PROVE  Alike(n, LowPart(n, k), Weight(k))
<1>. DEFINE w == Weight(k)
            q == n \div w
<1>1. w \in Nat /\ w > 0
  BY Weights
<1>2. LowPart(n, k) = n % w
  BY DEF LowPart
<1>. HIDE DEF w
<1>3. q \in Int /\ n = w * q + (n % w) /\ n % w \in 0 .. w - 1
  BY <1>1, Division
<1>. HIDE DEF q
<1>4. w * q = q * w /\ q * w \in Int
  BY <1>1, <1>3
<1>5. n = (n % w) + q * w
  BY <1>3, <1>4
<1>. QED
  BY <1>2, <1>3, <1>5 DEF Alike, w

MulState(m, n, digs, t, ix) ==
  /\ t \in [0 .. digs - 1 -> 0 .. Radix - 1]
  /\ \A i \in 0 .. digs - 1 : i >= ix + Used(n) => t[i] = 0
  /\ Alike(LowPart(m, ix) * n, Number(t, digs), Weight(digs))

(* A row f added, as far as it does not go beyond.                         *)
LEMMA CongruentRow ==
  ASSUME NEW l \in Int, NEW f \in Int, NEW n \in Int, NEW x \in Int, NEW y \in Int, NEW w \in Int,
         Alike(l * n, x, w), Alike(x + f * n, y, w)
  PROVE  Alike((l + f) * n, y, w)
<1>1. PICK q \in Int : l * n = x + q * w
  BY DEF Alike
<1>2. PICK r \in Int : x + f * n = y + r * w
  BY DEF Alike
<1>. DEFINE a == l * n
            b == f * n
            c == q * w
            d == r * w
<1>3. a \in Int /\ b \in Int /\ c \in Int /\ d \in Int /\ (l + f) * n = a + b /\ (q + r) * w = c + d
  OBVIOUS
<1>4. a = x + c /\ x + b = y + d
  BY <1>1, <1>2
<1>. HIDE DEF a, b, c, d
<1>5. a + b = y + (c + d)
  BY <1>3, <1>4
<1>6. (l + f) * n = y + (q + r) * w /\ q + r \in Int
  BY <1>3, <1>5
<1>. QED
  BY <1>6 DEF Alike

LEMMA MulRowTyped ==
  ASSUME NEW m \in Nat, NEW n \in Nat, NEW ix \in Nat
  PROVE  /\ LowPart(m, ix) \in Int /\ Digit(m, ix) * Weight(ix) \in Int
         /\ LowPart(m, ix + 1) = LowPart(m, ix) + Digit(m, ix) * Weight(ix)
<1>1. LowPart(m, ix) \in Nat
  <2>1. ix \in Int
    OBVIOUS
  <2>. QED
    BY <2>1, LowPartNatural
<1>2. Digit(m, ix) \in Nat /\ Weight(ix) \in Nat
  BY DigitNatural, Weights
<1>. QED
  BY <1>1, <1>2, LowPartGrows

(* Beyond the digits asked for nothing is added.                           *)
LEMMA MulRowBeyond ==
  ASSUME NEW m \in Nat, NEW n \in Nat, NEW digs \in Nat, NEW ix \in Nat, digs <= ix, NEW t,
         MulState(m, n, digs, t, ix)
  PROVE  MulState(m, n, digs, t, ix + 1)
<1>. DEFINE l == LowPart(m, ix)
            d == Digit(m, ix)
            v == Weight(ix)
            w == Weight(digs)
            u == Weight(ix - digs)
            f == d * v
            x == Number(t, digs)
<1>1. l \in Int /\ f \in Int /\ LowPart(m, ix + 1) = l + f
  BY MulRowTyped
<1>2. d \in Nat /\ w \in Nat
  BY DigitNatural, Weights
<1>3. ix - digs \in Nat /\ v = w * u
  BY WeightMonotone
<1>4. u \in Nat
  BY <1>3, Weights
<1>5. x \in Int
  <2>1. AreDigits(t, digs)
    BY DEF MulState, AreDigits
  <2>2. digs \in 0 .. digs
    OBVIOUS
  <2>3. Number(t, digs) \in Nat
    BY <2>1, <2>2, NumberBound
  <2>. QED
    BY <2>3
<1>6. Alike(l * n, x, w)
  BY DEF MulState
<1>. HIDE DEF l, x
<1>7. Alike(x + f * n, x, w)
  <2>1. f * n = ((d * u) * n) * w /\ (d * u) * n \in Int
    <3>. HIDE DEF d, v, w, u
    <3>. QED
      BY <1>2, <1>3, <1>4
  <2>. QED
    BY <2>1 DEF Alike
<1>. HIDE DEF f, w
<1>8. Alike((l + f) * n, x, w)
  BY <1>1, <1>2, <1>5, <1>6, <1>7, CongruentRow
<1>9. Alike(LowPart(m, ix + 1) * n, Number(t, digs), Weight(digs))
  BY <1>1, <1>8 DEF x, w
<1>10. \A i \in 0 .. digs - 1 : i >= (ix + 1) + Used(n) => t[i] = 0
  <2>1. Used(n) \in Nat
    BY UsedFacts
  <2>. QED
    BY <2>1
<1>. QED
  BY <1>9, <1>10 DEF MulState

LEMMA DigitsNumbers ==
  ASSUME NEW N \in Nat, NEW t \in [0 .. N - 1 -> 0 .. Radix - 1]
  PROVE  Numbers(t, N) /\ AreDigits(t, N) /\ Number(t, N) \in Nat /\ Number(t, N) < Weight(N)
<1>1. Radix \in Nat
  BY Weights
<1>2. \A i \in 0 .. N - 1 : t[i] \in 0 .. Radix - 1
  OBVIOUS
<1>3. AreDigits(t, N)
  BY <1>2 DEF AreDigits
<1>4. N \in 0 .. N
  OBVIOUS
<1>5. Numbers(t, N)
  BY <1>1, <1>2 DEF Numbers
<1>. QED
  BY <1>3, <1>4, <1>5, NumberBound

(* What a row adds from its first digit on, written out.                   *)
RowPlain(s, t, N, ix, hi, c, d, n) ==
  /\ s \in [0 .. N - 1 -> 0 .. Radix - 1]
  /\ \A i \in 0 .. N - 1 : i < ix \/ i >= ix + hi => s[i] = t[i]
  /\ c[hi] \in 0 .. Radix - 1
  /\ Number(s, N) + c[hi] * Weight(ix + hi) = Number(t, N) + (d * Weight(ix)) * LowPart(n, hi)

LEMMA RowFromZero ==
  ASSUME NEW N \in Nat, NEW t \in [0 .. N - 1 -> 0 .. Radix - 1], NEW ix \in Nat, NEW hi \in Nat,
         NEW c, NEW s, NEW m \in Nat, NEW n \in Nat,
         RowAddedUp(s, t, N, ix, 0, hi, 1, c, 0, Digit(m, ix), n)
  PROVE  RowPlain(s, t, N, ix, hi, c, Digit(m, ix), n)
<1>. DEFINE d == Digit(m, ix)
            w == Weight(ix)
            l == LowPart(n, hi)
            g == c[hi] * Weight(ix + hi)
            x == Number(t, N)
            y == Number(s, N)
<1>1. d \in Nat /\ w \in Nat
  BY DigitNatural, Weights
<1>2. l \in Nat
  <2>1. hi \in Int
    OBVIOUS
  <2>. QED
    BY <2>1, LowPartNatural
<1>3. x \in Nat
  BY DigitsNumbers
<1>4. LowPart(n, 0) = 0
  BY LowParts
<1>5. ix + 0 = ix
  OBVIOUS
<1>6. y + g = x + 0 * Weight(ix) + ((1 * d) * w) * (l - 0)
  BY <1>4, <1>5 DEF RowAddedUp
<1>7. 0 * Weight(ix) = 0 /\ ((1 * d) * w) * (l - 0) = (d * w) * l /\ (d * w) * l \in Nat
  BY <1>1, <1>2
<1>. HIDE DEF d, w, l, g, x, y
<1>8. y + g = x + (d * w) * l
  <2>. DEFINE p == (d * w) * l
              q == ((1 * d) * w) * (l - 0)
              z == 0 * Weight(ix)
  <2>1. q = p /\ p \in Nat /\ z = 0 /\ y + g = x + z + q
    BY <1>6, <1>7
  <2>. HIDE DEF p, q, z
  <2>2. y + g = x + p
    BY <1>3, <2>1
  <2>. QED
    BY <2>2 DEF p
<1>9. c[hi] \in 0 .. Radix - 1
  <2>1. c[hi] \in Nat /\ c[hi] < 1 * Radix
    BY DEF RowAddedUp, Carried
  <2>2. Radix \in Nat /\ 1 * Radix = Radix
    BY Weights
  <2>. QED
    BY <2>1, <2>2
<1>10. \A i \in 0 .. N - 1 : i < ix \/ i >= ix + hi => s[i] = t[i]
  BY <1>5 DEF RowAddedUp
<1>. QED
  BY <1>8, <1>9, <1>10 DEF RowAddedUp, RowPlain, d, w, l, g, x, y

(* The row ends below the last digit, and its carry is written there.      *)
Puts(s, t, N, k, x) ==
  /\ s \in [0 .. N - 1 -> 0 .. Radix - 1] /\ s[k] = x
  /\ \A i \in 0 .. N - 1 : i # k => s[i] = t[i]

PutOnto(s, t, N, k, x) == Number(s, N) = Number(t, N) + x * Weight(k)

LEMMA PutAdds ==
  ASSUME NEW N \in Nat, NEW t \in [0 .. N - 1 -> 0 .. Radix - 1], NEW k \in 0 .. N - 1, t[k] = 0,
         NEW x \in Nat, NEW s, Puts(s, t, N, k, x)
  PROVE  PutOnto(s, t, N, k, x)
<1>1. s \in [0 .. N - 1 -> 0 .. Radix - 1] /\ s[k] = x /\ \A i \in 0 .. N - 1 : i # k => s[i] = t[i]
  BY DEF Puts
<1>2. Numbers(s, N) /\ Number(s, N) \in Nat
  BY <1>1, DigitsNumbers
<1>3. Numbers(t, N) /\ Number(t, N) \in Nat
  BY DigitsNumbers
<1>4. PutSum(s, t, N, k)
  BY <1>1, <1>2, <1>3, NumberPut
<1>5. Weight(k) \in Nat
  BY Weights
<1>6. t[k] * Weight(k) = 0 /\ s[k] * Weight(k) = x * Weight(k) /\ x * Weight(k) \in Nat
  BY <1>1, <1>5
<1>. QED
  BY <1>2, <1>3, <1>4, <1>6 DEF PutSum, PutOnto

LEMMA MulRowBelow ==
  ASSUME NEW m \in Nat, NEW n \in Nat, NEW digs \in Nat, NEW ix \in Nat, ix + Used(n) < digs,
         NEW t, MulState(m, n, digs, t, ix), NEW c, NEW row, NEW s,
         RowAddedUp(row, t, digs, ix, 0, Used(n), 1, c, 0, Digit(m, ix), n),
         Puts(s, row, digs, ix + Used(n), c[Used(n)])
  PROVE  MulState(m, n, digs, s, ix + 1)
<1>. DEFINE h == Used(n)
            k == ix + h
            l == LowPart(m, ix)
            f == Digit(m, ix) * Weight(ix)
            g == c[h] * Weight(k)
            x == Number(t, digs)
            y == Number(row, digs)
            z == Number(s, digs)
            w == Weight(digs)
<1>1. h \in Nat
  BY UsedFacts
<1>2. k \in 0 .. digs - 1 /\ k \in Nat /\ k >= ix + Used(n)
  BY <1>1
<1>3. t \in [0 .. digs - 1 -> 0 .. Radix - 1] /\ t[k] = 0
  BY <1>2 DEF MulState
<1>4. RowPlain(row, t, digs, ix, h, c, Digit(m, ix), n)
  <2>. HIDE DEF h
  <2>. QED
    BY <1>1, <1>3, RowFromZero DEF h
<1>5. row \in [0 .. digs - 1 -> 0 .. Radix - 1]
  BY <1>4 DEF RowPlain
<1>6. \A i \in 0 .. digs - 1 : i < ix \/ i >= ix + h => row[i] = t[i]
  BY <1>4 DEF RowPlain
<1>7. c[h] \in 0 .. Radix - 1
  BY <1>4 DEF RowPlain
<1>8. y + g = x + f * LowPart(n, h)
  BY <1>4 DEF RowPlain
<1>9. LowPart(n, h) = n
  BY <1>1, LowParts
<1>10. l \in Int /\ f \in Int /\ LowPart(m, ix + 1) = l + f
  BY MulRowTyped
<1>11. row[k] = 0
  BY <1>2, <1>3, <1>6
<1>12. Puts(s, row, digs, k, c[h])
  OBVIOUS
<1>13. s \in [0 .. digs - 1 -> 0 .. Radix - 1] /\ \A i \in 0 .. digs - 1 : i # k => s[i] = row[i]
  BY <1>12 DEF Puts
<1>14. x \in Nat
  BY <1>3, DigitsNumbers
<1>15. y \in Nat
  BY <1>5, DigitsNumbers
<1>16. z \in Nat
  BY <1>13, DigitsNumbers
<1>17. c[h] \in Nat
  BY <1>7, Weights
<1>. HIDE DEF h, k
<1>18. z = y + g
  <2>1. PutOnto(s, row, digs, k, c[h])
    BY <1>2, <1>11, <1>12, <1>17, <1>5, PutAdds
  <2>. QED
    BY <2>1 DEF PutOnto
<1>. HIDE DEF l, f, g, x, y, z
<1>19. z = x + f * n
  BY <1>9, <1>18, <1>8
<1>20. Alike(l * n, x, w)
  BY DEF MulState, l, x
<1>21. w \in Nat
  BY Weights
<1>. HIDE DEF w
<1>22. Alike(x + f * n, z, w)
  <2>1. z = z + 0 * w
    BY <1>16, <1>21
  <2>. QED
    BY <1>19, <2>1 DEF Alike
<1>23. Alike((l + f) * n, z, w)
  <2>1. x \in Int /\ z \in Int /\ w \in Int /\ n \in Int
    BY <1>10, <1>14, <1>16, <1>20, <1>21, <1>22
  <2>2. Alike(l * n, x, w) /\ Alike(x + f * n, z, w) /\ l \in Int /\ f \in Int
    BY <1>10, <1>14, <1>16, <1>20, <1>21, <1>22
  <2>. QED
    BY <2>1, <2>2, CongruentRow, Zenon
<1>24. \A i \in 0 .. digs - 1 : i >= (ix + 1) + Used(n) => s[i] = 0
  <2>1. ASSUME NEW i \in 0 .. digs - 1, i >= (ix + 1) + Used(n) PROVE s[i] = 0
    <3>1. i # k /\ i >= ix + h /\ i >= ix + Used(n)
      BY <1>1, <2>1 DEF k, h
    <3>2. t[i] = 0
      BY <3>1 DEF MulState
    <3>. QED
      BY <1>6, <1>13, <3>1, <3>2
  <2>. QED
    BY <2>1
<1>. QED
  BY <1>10, <1>23, <1>24, <1>13 DEF MulState, w, z

(* The row is cut off where the digits asked for end.                      *)
LEMMA MulRowCut ==
  ASSUME NEW m \in Nat, NEW n \in Nat, NEW digs \in Nat, NEW ix \in Nat, NEW hi \in Nat,
         ix + hi = digs, hi <= Used(n), NEW t, MulState(m, n, digs, t, ix), NEW c, NEW s,
         RowAddedUp(s, t, digs, ix, 0, hi, 1, c, 0, Digit(m, ix), n)
  PROVE  MulState(m, n, digs, s, ix + 1)
<1>. DEFINE l == LowPart(m, ix)
            d == Digit(m, ix)
            v == Weight(ix)
            u == Weight(hi)
            f == d * v
            w == Weight(digs)
            p == LowPart(n, hi)
            x == Number(t, digs)
            y == Number(s, digs)
            e == c[hi]
<1>1. t \in [0 .. digs - 1 -> 0 .. Radix - 1]
  BY DEF MulState
<1>2. /\ s \in [0 .. digs - 1 -> 0 .. Radix - 1]
      /\ e \in 0 .. Radix - 1
      /\ y + e * w = x + f * p
  <2>1. RowPlain(s, t, digs, ix, hi, c, d, n)
    BY <1>1, RowFromZero
  <2>. QED
    BY <2>1 DEF RowPlain
<1>3. l \in Int /\ f \in Int /\ LowPart(m, ix + 1) = l + f
  BY MulRowTyped
<1>4. x \in Nat
  BY <1>1, DigitsNumbers
<1>5. y \in Nat
  BY <1>2, DigitsNumbers
<1>6. d \in Nat /\ v \in Nat
  BY DigitNatural, Weights
<1>7. u \in Nat
  BY Weights
<1>8. w \in Nat
  BY Weights
<1>9. w = v * u
  BY WeightSum
<1>10. p \in Nat
  <2>1. hi \in Int
    OBVIOUS
  <2>. QED
    BY <2>1, LowPartNatural
<1>11. Alike(n, p, u)
  BY LowPartRest
<1>12. PICK q \in Int : n = p + q * u
  BY <1>11 DEF Alike
<1>13. e \in Nat
  BY <1>2, Weights
<1>. HIDE DEF l, d, v, u, w, p, x, y, e
<1>14. f * n = f * p + (d * q) * w
  <2>1. f * n = f * (p + q * u)
    BY <1>12
  <2>2. f * (p + q * u) = f * p + f * (q * u)
    <3>. DEFINE a == q * u
    <3>1. a \in Int
      BY <1>7
    <3>. HIDE DEF a, f
    <3>. QED
      BY <1>3, <1>10, <3>1 DEF a
  <2>3. f * (q * u) = (d * q) * (v * u)
    BY <1>6, <1>7
  <2>. QED
    BY <1>9, <2>1, <2>2, <2>3
<1>. DEFINE a == f * p
            b == (d * q) * w
            g == e * w
<1>15. a \in Int /\ b \in Int /\ g \in Int /\ (d * q + e) * w = b + g /\ d * q + e \in Int
  <2>1. d * q \in Int
    BY <1>6
  <2>2. a \in Int
    <3>. HIDE DEF f
    <3>. QED
      BY <1>3, <1>10
  <2>. DEFINE r == d * q
  <2>. HIDE DEF r
  <2>3. r * w \in Int /\ e * w \in Int /\ (r + e) * w = r * w + e * w /\ r + e \in Int
    BY <1>8, <1>13, <2>1 DEF r
  <2>. QED
    BY <2>2, <2>3 DEF r
<1>16. f * n = a + b /\ y + g = x + a
  BY <1>2, <1>14
<1>. HIDE DEF a, b, g, f
<1>17. x + f * n = y + (b + g)
  BY <1>4, <1>5, <1>15, <1>16
<1>18. Alike(x + f * n, y, w)
  BY <1>15, <1>17 DEF Alike
<1>19. Alike(l * n, x, w)
  BY DEF MulState, l, x, w
<1>20. Alike((l + f) * n, y, w)
  BY <1>3, <1>4, <1>5, <1>8, <1>18, <1>19, CongruentRow
<1>21. \A i \in 0 .. digs - 1 : i >= (ix + 1) + Used(n) => s[i] = 0
  <2>1. Used(n) \in Nat
    BY UsedFacts
  <2>. QED
    BY <2>1
<1>. QED
  BY <1>2, <1>3, <1>20, <1>21 DEF MulState, w, y

LEMMA MulRow ==
  ASSUME A \in Int, B \in Int, NEW digs \in Nat, NEW t, NEW ix \in Nat,
         MulState(Magnitude(A), Magnitude(B), digs, t, ix),
         NEW pb, pb = MaxOf(MinOf(Used(B), digs - ix), 0),
         NEW c, c = Carries(t, ix, 0, pb, 1, 0), NEW row, row = Row(t, ix, c, 1)
  PROVE  MulState(Magnitude(A), Magnitude(B), digs,
                  IF ix + pb < digs THEN [row EXCEPT ![ix + pb] = c[pb]] ELSE row, ix + 1)
<1>. DEFINE m == Magnitude(A)
            n == Magnitude(B)
            d == Digit(m, ix)
<1>1. m \in Nat
  BY UsedTyped
<1>2. n \in Nat /\ Used(B) = Used(n) /\ Used(n) \in Nat
  BY UsedTyped
<1>3. t \in [0 .. digs - 1 -> 0 .. Radix - 1]
  BY DEF MulState
<1>4. d = Digit(A, ix)
  BY DigitsOfMagnitude
<1>5. CASE digs <= ix
  <2>1. pb = 0
    BY <1>2, <1>5 DEF MaxOf, MinOf
  <2>2. CarriesOf(c, t, ix, 0, pb, 1, 0)
    <3>1. \A iy \in 0 .. pb - 1 : t[ix + iy] \in Int
      BY <2>1
    <3>2. 0 \in Nat /\ pb \in Nat /\ 0 <= pb /\ 1 \in Int /\ 0 \in Int
      BY <2>1
    <3>. QED
      BY <3>1, <3>2, CarriesFacts
  <2>3. DOMAIN c = 0 .. 0
    BY <2>1, <2>2 DEF CarriesOf
  <2>4. row = t
    <3>1. ASSUME NEW i \in 0 .. digs - 1 PROVE i - ix \notin DOMAIN c
      BY <1>5, <2>3
    <3>2. row = [i \in 0 .. digs - 1 |-> t[i]]
      <4>1. DOMAIN t = 0 .. digs - 1
        BY <1>3
      <4>. QED
        BY <3>1, <4>1 DEF Row
    <3>. QED
      BY <1>3, <3>2
  <2>5. ~ (ix + pb < digs)
    BY <1>5, <2>1
  <2>. HIDE DEF m, n
  <2>6. MulState(m, n, digs, t, ix + 1)
    BY <1>1, <1>2, <1>5, MulRowBeyond DEF m, n
  <2>. QED
    BY <2>4, <2>5, <2>6 DEF m, n
<1>6. CASE ix < digs
  <2>1. /\ pb \in Nat /\ pb <= Used(n) /\ 0 <= pb /\ ix + pb <= digs
        /\ ix + pb = digs \/ (pb = Used(n) /\ ix + pb < digs)
    BY <1>2, <1>6 DEF MaxOf, MinOf
  <2>2. Carried(0, 1)
    BY Weights DEF Carried
  <2>3. RowAddedUp(row, t, digs, ix, 0, pb, 1, c, 0, d, n)
    <3>1. RowAddedUp(row, t, digs, ix, 0, pb, 1, c, 0, Digit(A, ix), Magnitude(B))
      <4>1. 1 \in {1, 2} /\ 0 \in Nat
        OBVIOUS
      <4>. QED
        BY <1>3, <2>1, <2>2, <4>1, RowStep
    <3>. QED
      BY <1>4, <3>1
  <2>. HIDE DEF m, n
  <2>4. CASE ix + pb = digs
    <3>1. MulState(m, n, digs, row, ix + 1)
      BY <1>1, <1>2, <2>1, <2>3, <2>4, MulRowCut DEF m, n
    <3>. QED
      BY <2>1, <2>4, <3>1 DEF m, n
  <2>5. CASE pb = Used(n) /\ ix + pb < digs
    <3>. DEFINE s == [row EXCEPT ![ix + pb] = c[pb]]
    <3>1. row \in [0 .. digs - 1 -> 0 .. Radix - 1] /\ Carried(c[pb], 1)
      BY <2>3 DEF RowAddedUp
    <3>2. c[pb] \in 0 .. Radix - 1
      <4>1. c[pb] \in Nat /\ c[pb] < 1 * Radix
        BY <3>1 DEF Carried
      <4>2. Radix \in Nat /\ 1 * Radix = Radix
        BY Weights
      <4>. QED
        BY <4>1, <4>2
    <3>3. Puts(s, row, digs, ix + pb, c[pb])
      <4>. DEFINE k == ix + pb
      <4>1. k \in 0 .. digs - 1
        BY <2>1, <2>5
      <4>. HIDE DEF k
      <4>. QED
        BY <3>1, <3>2, <4>1 DEF Puts, k
    <3>. HIDE DEF s
    <3>4. MulState(m, n, digs, s, ix + 1)
      BY <1>1, <1>2, <2>3, <2>5, <3>3, MulRowBelow DEF m, n
    <3>. QED
      BY <2>5, <3>4 DEF m, n, s
  <2>. QED
    BY <2>1, <2>4, <2>5
<1>7. digs <= ix \/ ix < digs
  OBVIOUS
<1>. QED
  BY <1>5, <1>6, <1>7

LEMMA ZerosNumber ==
  ASSUME NEW N \in Nat
  PROVE  /\ Zeros(N) \in [0 .. N - 1 -> 0 .. Radix - 1] /\ \A i \in 0 .. N - 1 : Zeros(N)[i] = 0
         /\ Number(Zeros(N), N) = 0
<1>1. 0 \in 0 .. Radix - 1
  BY Weights
<1>2. Zeros(N) \in [0 .. N - 1 -> 0 .. Radix - 1] /\ \A i \in 0 .. N - 1 : Zeros(N)[i] = 0
  BY <1>1 DEF Zeros
<1>3. Numbers(Zeros(N), N)
  BY <1>2, DigitsNumbers
<1>4. 0 \in 0 .. N
  OBVIOUS
<1>5. Number(Zeros(N), N) = Number(Zeros(N), 0) /\ Number(Zeros(N), 0) = 0
  BY <1>2, <1>3, <1>4, NumberZeros, NumberFacts
<1>. QED
  BY <1>2, <1>5

LEMMA MulStart ==
  ASSUME NEW m \in Nat, NEW n \in Nat, NEW digs \in Nat
  PROVE  MulState(m, n, digs, Zeros(digs), 0)
<1>. DEFINE w == Weight(digs)
<1>1. LowPart(m, 0) = 0
  BY LowParts
<1>2. w \in Nat
  BY Weights
<1>. HIDE DEF w
<1>3. 0 * n = 0 + 0 * w
  BY <1>2
<1>4. Alike(0 * n, 0, w)
  BY <1>3 DEF Alike
<1>. QED
  BY <1>1, <1>4, ZerosNumber DEF MulState, w

LowProduct(m, n, digs) == (m * n) % Weight(MinOf(digs, Used(m) + Used(n) + 1))

LEMMA LowOf ==
  ASSUME NEW m \in Nat, NEW n \in Nat, NEW digs \in Nat
  PROVE  (m * n) % Weight(digs) = LowProduct(m, n, digs)
<1>. DEFINE u == Used(m) + Used(n)
            p == m * n
            w == Weight(digs)
            v == Weight(u + 1)
<1>1. u \in Nat
  <2>1. Used(m) \in Nat
    BY UsedFacts
  <2>2. Used(n) \in Nat
    BY UsedFacts
  <2>. QED
    BY <2>1, <2>2
<1>2. CASE digs <= u + 1
  <2>1. MinOf(digs, u + 1) = digs
    BY <1>1, <1>2 DEF MinOf
  <2>. HIDE DEF w
  <2>. QED
    BY <2>1 DEF LowProduct, w, u
<1>3. CASE u + 1 < digs
  <2>1. MinOf(digs, u + 1) = u + 1
    BY <1>1, <1>3 DEF MinOf
  <2>2. w \in Nat /\ w > 0
    BY Weights
  <2>3. u + 1 \in Nat /\ u <= u + 1 /\ u <= digs
    BY <1>1, <1>3
  <2>4. v \in Nat /\ v > 0
    BY <2>3, Weights
  <2>5. p < w
    BY <2>3, ProductBelow
  <2>6. p < v
    BY <2>3, ProductBelow
  <2>7. p \in Nat
    OBVIOUS
  <2>8. LowProduct(m, n, digs) = p % v
    BY <2>1 DEF LowProduct
  <2>. HIDE DEF p, w, v, u
  <2>9. (p + 0 * w) % w = p /\ p + 0 * w = p
    BY <2>2, <2>5, <2>7, QuotientAndRest
  <2>10. (p + 0 * v) % v = p /\ p + 0 * v = p
    BY <2>4, <2>6, <2>7, QuotientAndRest
  <2>11. p % w = p % v
    BY <2>9, <2>10
  <2>. QED
    BY <2>8, <2>11 DEF p, w
<1>4. digs <= u + 1 \/ u + 1 < digs
  BY <1>1
<1>. QED
  BY <1>2, <1>3, <1>4

LEMMA MulEnd ==
  ASSUME NEW m \in Nat, NEW n \in Nat, NEW digs \in Nat, NEW ix \in Nat, Used(m) <= ix, NEW t,
         MulState(m, n, digs, t, ix)
  PROVE  Number(t, digs) = LowProduct(m, n, digs)
<1>. DEFINE p == m * n
            w == Weight(digs)
            x == Number(t, digs)
<1>1. LowPart(m, ix) = m
  BY LowParts
<1>2. Alike(p, x, w)
  BY <1>1 DEF MulState
<1>3. t \in [0 .. digs - 1 -> 0 .. Radix - 1]
  BY DEF MulState
<1>4. x \in Nat /\ x < w
  BY <1>3, DigitsNumbers
<1>5. w \in Nat /\ w > 0
  BY Weights
<1>. HIDE DEF p, w, x
<1>6. PICK q \in Int : p = x + q * w
  BY <1>2 DEF Alike
<1>7. (x + q * w) % w = x
  BY <1>4, <1>5, QuotientAndRest
<1>8. p % w = x
  BY <1>6, <1>7
<1>. QED
  BY <1>8, LowOf DEF p, w, x

(* The rows of s_mp_mul_high start where the digits asked for do.          *)
LEMMA RowsNext ==
  ASSUME NEW m \in Nat, NEW n \in Nat, NEW c \in Int, NEW k \in Nat
  PROVE  RowsBelow(m, n, c, k + 1) = RowsBelow(m, n, c, k) + RowBelow(m, n, c, k)
<1>. DEFINE e == k + 1
            f == RowsOf(m, n, c, k)
            g == RowsOf(m, n, c, e)
<1>1. e \in Nat /\ k \in 0 .. e - 1 /\ \A i \in 0 .. k - 1 : i \in 0 .. e - 1
  OBVIOUS
<1>2. RowsBelow(m, n, c, k) = Total(f, k) /\ RowsBelow(m, n, c, e) = Total(g, e)
  BY DEF RowsBelow
<1>. HIDE DEF e, f, g
<1>3. Numbers(f, k) /\ \A i \in 0 .. k - 1 : f[i] = RowBelow(m, n, c, i)
  BY RowsTyped DEF f
<1>4. Numbers(g, e) /\ \A i \in 0 .. e - 1 : g[i] = RowBelow(m, n, c, i)
  BY <1>1, RowsTyped DEF g
<1>5. \A i \in 0 .. k - 1 : f[i] = g[i]
  BY <1>1, <1>3, <1>4
<1>6. Total(f, k) = Total(g, k)
  BY <1>3, <1>5, TotalSame
<1>7. Total(g, k + 1) = Total(g, k) + g[k]
  BY <1>1, <1>4, TotalFacts
<1>8. g[k] = RowBelow(m, n, c, k)
  BY <1>1, <1>4
<1>. QED
  BY <1>2, <1>6, <1>7, <1>8 DEF e

HighHolds(x, m, n, digs, ix) == x + RowsBelow(m, n, digs, ix) = LowPart(m, ix) * n

HighState(m, n, digs, N, t, ix) ==
  /\ t \in [0 .. N - 1 -> 0 .. Radix - 1]
  /\ \A i \in 0 .. N - 1 : i < digs \/ i >= ix + Used(n) => t[i] = 0
  /\ HighHolds(Number(t, N), m, n, digs, ix)

(* The product by one more digit, of what comes before and after.          *)
HighAdds(x, y, m, n, digs, ix) ==
  y = x + (Digit(m, ix) * Weight(ix)) * (n - LowPart(n, digs - ix))

LEMMA HighSum ==
  ASSUME NEW m \in Nat, NEW n \in Nat, NEW digs \in Int, NEW ix \in Nat, NEW x \in Int, NEW y \in Int,
         HighHolds(x, m, n, digs, ix), HighAdds(x, y, m, n, digs, ix)
  PROVE  HighHolds(y, m, n, digs, ix + 1)
<1>. DEFINE l == LowPart(m, ix)
            f == Digit(m, ix) * Weight(ix)
            p == LowPart(n, digs - ix)
            r == RowsBelow(m, n, digs, ix)
            s == RowBelow(m, n, digs, ix)
            a == l * n
            b == f * n
            c == f * p
<1>1. l \in Int /\ f \in Int /\ LowPart(m, ix + 1) = l + f
  BY MulRowTyped
<1>2. p \in Nat
  <2>1. digs - ix \in Int
    OBVIOUS
  <2>. QED
    BY <2>1, LowPartNatural
<1>3. r \in Int
  BY RowsTyped
<1>4. RowsBelow(m, n, digs, ix + 1) = r + s
  BY RowsNext
<1>5. s = c
  BY DEF RowBelow
<1>. HIDE DEF l, f, p, r, s
<1>6. a \in Int /\ b \in Int /\ c \in Int /\ f * (n - p) = b - c /\ (l + f) * n = a + b
  BY <1>1, <1>2
<1>7. x + r = a /\ y = x + (b - c)
  BY <1>6 DEF l, f, p, r, HighHolds, HighAdds
<1>. HIDE DEF a, b, c
<1>8. y + (r + c) = a + b
  BY <1>3, <1>6, <1>7
<1>. QED
  BY <1>1, <1>4, <1>5, <1>6, <1>8 DEF HighHolds

(* The row has digits from the first asked for on.                         *)
LEMMA HighRowAbove ==
  ASSUME NEW m \in Nat, NEW n \in Nat, NEW digs \in Nat, NEW N \in Nat, NEW ix \in Nat, NEW lo \in Nat,
         ix + lo = digs, lo <= Used(n), ix + Used(n) < N,
         NEW t, HighState(m, n, digs, N, t, ix), NEW c, NEW row, NEW s,
         RowAddedUp(row, t, N, ix, lo, Used(n), 1, c, 0, Digit(m, ix), n),
         Puts(s, row, N, ix + Used(n), c[Used(n)])
  PROVE  HighState(m, n, digs, N, s, ix + 1)
<1>. DEFINE h == Used(n)
            k == ix + h
            d == Digit(m, ix)
            v == Weight(ix)
            p == LowPart(n, lo)
            x == Number(t, N)
            y == Number(row, N)
            z == Number(s, N)
            g == c[h] * Weight(k)
<1>1. h \in Nat
  BY UsedFacts
<1>2. k \in 0 .. N - 1 /\ k \in Nat /\ k >= ix + Used(n) /\ digs <= k
  BY <1>1
<1>3. t \in [0 .. N - 1 -> 0 .. Radix - 1]
  BY DEF HighState
<1>4. row \in [0 .. N - 1 -> 0 .. Radix - 1]
  BY DEF RowAddedUp
<1>5. \A i \in 0 .. N - 1 : i < ix + lo \/ i >= ix + h => row[i] = t[i]
  BY DEF RowAddedUp
<1>6. c[h] \in Nat
  BY DEF RowAddedUp, Carried
<1>7. t[k] = 0
  BY <1>2 DEF HighState
<1>8. row[k] = 0
  BY <1>2, <1>5, <1>7
<1>9. s \in [0 .. N - 1 -> 0 .. Radix - 1] /\ \A i \in 0 .. N - 1 : i # k => s[i] = row[i]
  BY DEF Puts
<1>10. x \in Nat
  BY <1>3, DigitsNumbers
<1>11. y \in Nat
  BY <1>4, DigitsNumbers
<1>12. z \in Nat
  BY <1>9, DigitsNumbers
<1>13. PutOnto(s, row, N, k, c[h])
  <2>. HIDE DEF h
  <2>1. Puts(s, row, N, k, c[h])
    BY DEF h
  <2>. HIDE DEF k
  <2>. QED
    BY <1>2, <1>4, <1>6, <1>8, <2>1, PutAdds
<1>14. z = y + g
  BY <1>13 DEF PutOnto
<1>15. p \in Nat
  <2>1. lo \in Int
    OBVIOUS
  <2>. QED
    BY <2>1, LowPartNatural
<1>16. LowPart(n, h) = n
  BY <1>1, LowParts
<1>17. d \in Nat /\ v \in Nat
  BY DigitNatural, Weights
<1>18. y + g = x + 0 * Weight(ix + lo) + ((1 * d) * v) * (n - p)
  BY <1>16 DEF RowAddedUp
<1>19. Weight(ix + lo) \in Nat
  BY Weights
<1>. HIDE DEF h, d, v, p, x, y, z, g
<1>20. z = x + (d * v) * (n - p)
  <2>1. 1 * d = d /\ 0 * Weight(ix + lo) = 0
    BY <1>17, <1>19
  <2>. DEFINE q == (d * v) * (n - p)
  <2>2. q \in Int
    BY <1>15, <1>17
  <2>3. y + g = x + 0 + q
    BY <1>18, <2>1
  <2>. HIDE DEF q
  <2>4. z = x + q
    BY <1>10, <1>14, <2>2, <2>3
  <2>. QED
    BY <2>4 DEF q
<1>21. digs - ix = lo
  OBVIOUS
<1>22. HighHolds(z, m, n, digs, ix + 1)
  <2>1. HighHolds(x, m, n, digs, ix)
    BY DEF HighState, x
  <2>2. HighAdds(x, z, m, n, digs, ix)
    BY <1>20, <1>21 DEF d, v, p, HighAdds
  <2>3. x \in Int /\ z \in Int /\ digs \in Int
    BY <1>10, <1>12
  <2>. QED
    BY <2>1, <2>2, <2>3, HighSum
<1>23. ASSUME NEW i \in 0 .. N - 1, i < digs \/ i >= (ix + 1) + Used(n) PROVE s[i] = 0
  <2>1. i # k /\ (i < digs \/ i >= ix + Used(n))
    BY <1>1, <1>2, <1>23 DEF h
  <2>2. t[i] = 0
    BY <2>1 DEF HighState
  <2>3. i < ix + lo \/ i >= ix + h
    BY <2>1 DEF h
  <2>. QED
    BY <1>5, <1>9, <2>1, <2>2, <2>3
<1>. QED
  BY <1>9, <1>22, <1>23 DEF HighState, z

(* The row ends before.                                                    *)
LEMMA HighRowNone ==
  ASSUME NEW m \in Nat, NEW n \in Nat, NEW digs \in Nat, NEW N \in Nat, NEW ix \in Nat,
         Used(n) <= digs - ix, NEW t, HighState(m, n, digs, N, t, ix)
  PROVE  HighState(m, n, digs, N, t, ix + 1)
<1>. DEFINE x == Number(t, N)
            f == Digit(m, ix) * Weight(ix)
<1>1. Used(n) \in Nat
  BY UsedFacts
<1>2. t \in [0 .. N - 1 -> 0 .. Radix - 1]
  BY DEF HighState
<1>3. x \in Nat
  BY <1>2, DigitsNumbers
<1>4. LowPart(n, digs - ix) = n
  <2>. DEFINE lo == digs - ix
  <2>1. lo \in Nat /\ Used(n) <= lo
    BY <1>1
  <2>. HIDE DEF lo
  <2>2. LowPart(n, lo) = n
    BY <2>1, LowParts
  <2>. QED
    BY <2>2 DEF lo
<1>5. f \in Int
  BY MulRowTyped
<1>. HIDE DEF x
<1>6. x = x + f * (n - n)
  <2>. HIDE DEF f
  <2>1. n - n = 0 /\ f * 0 = 0
    BY <1>5
  <2>. QED
    BY <1>3, <2>1
<1>7. HighHolds(x, m, n, digs, ix + 1)
  <2>1. HighHolds(x, m, n, digs, ix)
    BY DEF HighState, x
  <2>2. HighAdds(x, x, m, n, digs, ix)
    BY <1>4, <1>6 DEF HighAdds
  <2>3. x \in Int /\ digs \in Int
    BY <1>3
  <2>. QED
    BY <2>1, <2>2, <2>3, HighSum
<1>8. \A i \in 0 .. N - 1 : i < digs \/ i >= (ix + 1) + Used(n) => t[i] = 0
  BY <1>1 DEF HighState
<1>. QED
  BY <1>2, <1>7, <1>8 DEF HighState, x

LEMMA HighRow ==
  ASSUME A \in Int, B \in Int, NEW digs \in Nat, NEW N \in Nat, NEW ix \in Nat, ix <= digs,
         ix + Used(B) < N, NEW t, HighState(Magnitude(A), Magnitude(B), digs, N, t, ix),
         NEW pb, pb = MaxOf(Used(B), digs - ix),
         NEW c, c = Carries(t, ix, digs - ix, pb, 1, 0), NEW row, row = Row(t, ix, c, 1)
  PROVE  HighState(Magnitude(A), Magnitude(B), digs, N, [row EXCEPT ![ix + Used(B)] = c[pb]], ix + 1)
<1>. DEFINE m == Magnitude(A)
            n == Magnitude(B)
            d == Digit(m, ix)
            lo == digs - ix
            k == ix + Used(B)
            s == [row EXCEPT ![k] = c[pb]]
<1>1. m \in Nat
  BY UsedTyped
<1>2. n \in Nat /\ Used(B) = Used(n) /\ Used(n) \in Nat
  BY UsedTyped
<1>3. t \in [0 .. N - 1 -> 0 .. Radix - 1] /\ \A i \in 0 .. N - 1 : i < digs => t[i] = 0
  BY DEF HighState
<1>4. d = Digit(A, ix)
  BY DigitsOfMagnitude
<1>5. lo \in Nat /\ ix + lo = digs /\ pb \in Nat /\ lo <= pb /\ k \in 0 .. N - 1 /\ k \in Nat
  BY <1>2 DEF MaxOf
<1>6. CASE Used(B) < lo
  <2>1. pb = lo
    BY <1>2, <1>6 DEF MaxOf
  <2>2. CarriesOf(c, t, ix, lo, pb, 1, 0)
    <3>1. \A iy \in lo .. pb - 1 : t[ix + iy] \in Int
      BY <1>5, <2>1
    <3>2. 0 \in Int /\ 1 \in Int
      OBVIOUS
    <3>3. c = Carries(t, ix, lo, pb, 1, 0)
      OBVIOUS
    <3>4. lo \in Nat /\ pb \in Nat /\ lo <= pb
      BY <1>5
    <3>. HIDE DEF lo
    <3>5. CarriesOf(Carries(t, ix, lo, pb, 1, 0), t, ix, lo, pb, 1, 0)
      BY <3>1, <3>2, <3>4, CarriesFacts
    <3>. QED
      BY <3>3, <3>5
  <2>3. DOMAIN c = lo .. lo /\ c[pb] = 0
    BY <2>1, <2>2 DEF CarriesOf
  <2>4. row = t
    <3>1. ASSUME NEW i \in 0 .. N - 1 PROVE ~ (i - ix \in DOMAIN c /\ i - ix + 1 \in DOMAIN c)
      BY <1>5, <2>3
    <3>2. row = [i \in 0 .. N - 1 |-> t[i]]
      <4>1. DOMAIN t = 0 .. N - 1
        BY <1>3
      <4>. QED
        BY <3>1, <4>1 DEF Row
    <3>. QED
      BY <1>3, <3>2
  <2>5. t[k] = 0
    <3>1. k < digs
      BY <1>2, <1>5, <1>6
    <3>. HIDE DEF k
    <3>. QED
      BY <1>3, <1>5, <3>1
  <2>6. s = t
    <3>. HIDE DEF k
    <3>1. s = [i \in 0 .. N - 1 |-> t[i]]
      BY <1>3, <1>5, <2>3, <2>4, <2>5
    <3>. QED
      BY <1>3, <3>1
  <2>7. Used(n) <= digs - ix
    BY <1>2, <1>6
  <2>. HIDE DEF m, n, s
  <2>8. HighState(m, n, digs, N, t, ix + 1)
    BY <1>1, <1>2, <2>7, HighRowNone DEF m, n
  <2>. QED
    BY <2>6, <2>8 DEF m, n, s, k
<1>7. CASE lo <= Used(B)
  <2>1. pb = Used(B)
    BY <1>2, <1>7 DEF MaxOf
  <2>2. Carried(0, 1)
    BY Weights DEF Carried
  <2>3. ix + pb <= N
    BY <1>5, <2>1
  <2>4. RowAddedUp(row, t, N, ix, lo, pb, 1, c, 0, Digit(A, ix), Magnitude(B))
    <3>1. 1 \in {1, 2}
      OBVIOUS
    <3>2. c = Carries(t, ix, lo, pb, 1, 0)
      OBVIOUS
    <3>. HIDE DEF lo
    <3>. QED
      BY <1>3, <1>5, <2>2, <2>3, <3>1, <3>2, RowStep
  <2>5. RowAddedUp(row, t, N, ix, lo, Used(n), 1, c, 0, d, n)
    BY <1>2, <1>4, <2>1, <2>4
  <2>6. row \in [0 .. N - 1 -> 0 .. Radix - 1] /\ Carried(c[pb], 1)
    BY <2>4 DEF RowAddedUp
  <2>7. c[pb] \in 0 .. Radix - 1
    <3>1. c[pb] \in Nat /\ c[pb] < 1 * Radix
      BY <2>6 DEF Carried
    <3>2. Radix \in Nat /\ 1 * Radix = Radix
      BY Weights
    <3>. QED
      BY <3>1, <3>2
  <2>8. Puts(s, row, N, k, c[pb])
    <3>. HIDE DEF k
    <3>. QED
      BY <1>5, <2>6, <2>7 DEF Puts
  <2>9. Puts(s, row, N, ix + Used(n), c[Used(n)])
    BY <1>2, <2>1, <2>8
  <2>10. lo <= Used(n) /\ ix + Used(n) < N
    BY <1>2, <1>7
  <2>. HIDE DEF m, n, s, lo
  <2>11. HighState(m, n, digs, N, s, ix + 1)
    BY <1>1, <1>2, <1>5, <2>5, <2>9, <2>10, HighRowAbove DEF m, n
  <2>. QED
    BY <2>11 DEF m, n, s, k
<1>8. Used(B) < lo \/ lo <= Used(B)
  BY <1>2, <1>5
<1>. QED
  BY <1>6, <1>7, <1>8

LEMMA HighStart ==
  ASSUME NEW m \in Nat, NEW n \in Nat, NEW digs \in Nat, NEW N \in Nat
  PROVE  HighState(m, n, digs, N, Zeros(N), 0)
<1>1. LowPart(m, 0) = 0
  BY LowParts
<1>2. RowsBelow(m, n, digs, 0) = 0
  <2>. DEFINE f == RowsOf(m, n, digs, 0)
  <2>1. 0 \in Nat
    OBVIOUS
  <2>2. Numbers(f, 0)
    BY DEF Numbers
  <2>3. RowsBelow(m, n, digs, 0) = Total(f, 0)
    BY DEF RowsBelow
  <2>. HIDE DEF f
  <2>. QED
    BY <2>1, <2>2, <2>3, TotalFacts
<1>3. HighHolds(0, m, n, digs, 0)
  <2>1. 0 * n = 0
    OBVIOUS
  <2>. QED
    BY <1>1, <1>2, <2>1 DEF HighHolds
<1>. QED
  BY <1>3, ZerosNumber DEF HighState

LEMMA HighEnd ==
  ASSUME NEW m \in Nat, NEW n \in Nat, NEW digs \in Nat, NEW N \in Nat, NEW ix \in Nat,
         Used(m) <= ix, NEW t, HighState(m, n, digs, N, t, ix)
  PROVE  Number(t, N) = HighPart(m, n, digs)
<1>. DEFINE u == Used(m) + Used(n)
            x == Number(t, N)
            y == ColumnsBelow(m, n, digs)
<1>1. u \in Nat /\ u <= u
  <2>1. Used(m) \in Nat
    BY UsedFacts
  <2>2. Used(n) \in Nat
    BY UsedFacts
  <2>. QED
    BY <2>1, <2>2
<1>2. LowPart(m, ix) = m
  BY LowParts
<1>3. RowsBelow(m, n, digs, ix) = y
  BY ColumnsAreRows
<1>4. x + y = m * n
  BY <1>2, <1>3 DEF HighState, HighHolds
<1>5. x \in Nat
  BY DigitsNumbers DEF HighState
<1>6. y \in Nat
  BY ColumnTyped
<1>7. ColumnsBelow(m, n, u) = m * n
  BY <1>1, ColumnsProduct
<1>8. ColumnsBelow(m, n, MinOf(digs, u)) = y
  <2>1. CASE digs <= u
    BY <2>1 DEF MinOf
  <2>2. CASE ~ (digs <= u)
    <3>1. y = m * n
      BY <1>1, <2>2, ColumnsProduct
    <3>. QED
      BY <1>7, <2>2, <3>1 DEF MinOf
  <2>. QED
    BY <2>1, <2>2
<1>9. HighPart(m, n, digs) = m * n - y
  BY <1>7, <1>8 DEF HighPart
<1>. DEFINE p == m * n
<1>10. p \in Nat
  OBVIOUS
<1>. HIDE DEF x, y, p
<1>11. x = p - y
  BY <1>4, <1>5, <1>6, <1>10 DEF p
<1>. QED
  BY <1>9, <1>11 DEF p, x

(* The rows of s_mp_sqr.  The carry of a row goes up: what is left at the  *)
(* end belongs above the last digit.                                       *)
UpOf(up, t, N, place, u) ==
  /\ DOMAIN up = place .. N /\ up[place] = u
  /\ \A i \in place .. N - 1 :
       up[i + 1] = (up[i] \div Radix) + (DigitType(t[i] + (up[i] % Radix)) \div Radix)

UpDigits(s, up, t, N, place) ==
  /\ s = [i \in 0 .. N - 1 |-> IF i < place THEN t[i] ELSE DigitType(t[i] + (up[i] % Radix)) % Radix]

LEMMA DigitTypeTyped ==
  ASSUME NEW n \in Int
  PROVE  DigitType(n) \in Int
<1>. DEFINE h == MP_WORD_BIT \div 2
<1>1. h \in Nat
  BY WordAssumption
<1>. HIDE DEF h
<1>2. n % 2 ^ h \in Int
  BY <1>1, RemainderTyped
<1>. QED
  BY <1>2 DEF DigitType, h

Goes(t, N, place, u, s) == \E up : UpOf(up, t, N, place, u) /\ UpDigits(s, up, t, N, place)

UpwardsOver(D, N, t, u, place) ==
  LET Added(n, d) == DigitType(d + (n % Radix))
      up[i \in place .. N] ==
        IF i = place THEN u ELSE (up[i - 1] \div Radix) + (Added(up[i - 1], t[i - 1]) \div Radix)
  IN  [i \in D |-> IF i < place THEN t[i] ELSE Added(up[i], t[i]) % Radix]

LEMMA UpwardsSame ==
  ASSUME NEW t, NEW u, NEW place
  PROVE  Upwards(t, u, place) = UpwardsOver(DOMAIN t, Places("sqr"), t, u, place)
BY Zenon DEF Upwards, UpwardsOver

LEMMA UpwardsGoes ==
  ASSUME NEW N \in Nat, N = Places("sqr"), NEW t \in [0 .. N - 1 -> 0 .. Radix - 1],
         NEW place \in Nat, place <= N, NEW u \in Int
  PROVE  Goes(t, N, place, u, Upwards(t, u, place))
<1>. DEFINE Added(n, d) == DigitType(d + (n % Radix))
            V(k, v) == (v \div Radix) + (Added(v, t[k]) \div Radix)
            next == [p \in Nat \X Int |-> IF p[1] \in place .. N - 1 THEN V(p[1], p[2]) ELSE 0]
            P(f) == f = [i \in place .. N |-> IF i = place THEN u ELSE V(i - 1, f[i - 1])]
            up == CHOOSE f : P(f)
            s == [i \in 0 .. N - 1 |-> IF i < place THEN t[i] ELSE Added(up[i], t[i]) % Radix]
<1>1. DOMAIN t = 0 .. N - 1 /\ Places("sqr") = N
  OBVIOUS
<1>2. ASSUME NEW k \in place .. N - 1, NEW v \in Int PROVE V(k, v) \in Int
  <2>1. t[k] \in Int /\ Radix \in Nat /\ Radix > 0
    <3>1. k \in 0 .. N - 1
      OBVIOUS
    <3>2. Radix \in Nat /\ Radix > 0
      BY Weights
    <3>3. t[k] \in 0 .. Radix - 1
      BY <3>1
    <3>. QED
      BY <3>2, <3>3
  <2>2. v \div Radix \in Int /\ v % Radix \in Int
    BY <2>1, Division
  <2>3. DigitType(t[k] + (v % Radix)) \in Int
    BY <2>1, <2>2, DigitTypeTyped
  <2>4. DigitType(t[k] + (v % Radix)) \div Radix \in Int
    BY <2>1, <2>3, Division
  <2>. QED
    BY <2>2, <2>4
<1>. HIDE DEF V
<1>3. next \in [Nat \X Int -> Int]
  BY <1>2
<1>4. PICK r \in [place .. N -> Int] :
        \A i \in place .. N : r[i] = IF i = place THEN u ELSE next[<< i - 1, r[i - 1] >>]
  <2>. HIDE DEF next
  <2>1. Recurs(place, N, u, next)
    BY <1>3, Recurrence
  <2>. QED
    BY <2>1 DEF Recurs
<1>5. ASSUME NEW i \in place .. N PROVE r[i] = IF i = place THEN u ELSE V(i - 1, r[i - 1])
  <2>1. CASE i = place
    BY <1>4, <2>1
  <2>2. CASE i # place
    <3>1. i - 1 \in place .. N - 1 /\ i - 1 \in Nat /\ r[i - 1] \in Int
      BY <2>2
    <3>2. next[<< i - 1, r[i - 1] >>] = V(i - 1, r[i - 1])
      BY <3>1
    <3>. QED
      BY <1>4, <2>2, <3>2
  <2>. QED
    BY <2>1, <2>2
<1>. HIDE DEF next
<1>6. P(r)
  <2>1. r = [i \in place .. N |-> r[i]]
    OBVIOUS
  <2>. QED
    BY <1>5, <2>1
<1>7. P(up)
  <2>. HIDE DEF P
  <2>. QED
    BY <1>6
<1>8. Upwards(t, u, place) = s
  <2>1. Upwards(t, u, place) = UpwardsOver(DOMAIN t, Places("sqr"), t, u, place)
    BY UpwardsSame
  <2>2. UpwardsOver(DOMAIN t, Places("sqr"), t, u, place) = UpwardsOver(0 .. N - 1, N, t, u, place)
    BY <1>1, Zenon
  <2>3. UpwardsOver(0 .. N - 1, N, t, u, place) = s
    BY Zenon DEF UpwardsOver, V
  <2>. QED
    BY <2>1, <2>2, <2>3
<1>. HIDE DEF up
<1>9. place \in place .. N
      /\ \A i \in place .. N - 1 : i + 1 \in place .. N /\ i + 1 # place /\ (i + 1) - 1 = i
  OBVIOUS
<1>10. DOMAIN up = place .. N /\ up[place] = u
  BY <1>7, <1>9
<1>11. \A i \in place .. N - 1 : up[i + 1] = V(i, up[i])
  BY <1>7, <1>9
<1>12. UpOf(up, t, N, place, u)
  BY <1>10, <1>11 DEF UpOf, V
<1>13. UpDigits(s, up, t, N, place)
  BY DEF UpDigits
<1>. QED
  BY <1>8, <1>12, <1>13 DEF Goes

LEMMA UpDigit ==
  ASSUME NEW x \in Nat, x < Radix, NEW v, Carried(v, 2)
  PROVE  LET n == DigitType(x + (v % Radix))
             w == (v \div Radix) + (n \div Radix)
         IN  /\ n % Radix \in 0 .. Radix - 1 /\ Carried(w, 2)
             /\ (n % Radix) + w * Radix = x + v
<1>. DEFINE r == Radix
            y == v % r
            q == v \div r
            m == x + y
            n == DigitType(m)
            p == n \div r
            z == n % r
<1>1. r \in Nat /\ r >= 4
  BY Weights
<1>2. v \in Nat /\ v < 2 * r
  BY DEF Carried
<1>. HIDE DEF r
<1>3. q \in Int /\ y \in 0 .. r - 1 /\ v = r * q + y
  BY <1>1, <1>2, Division
<1>. HIDE DEF y, q
<1>4. m \in Nat /\ m < 2 * r
  BY <1>1, <1>3 DEF r
<1>. HIDE DEF m
<1>5. n = m
  BY <1>4, DigitTypeOf DEF r
<1>. HIDE DEF n
<1>6. p \in Int /\ z \in 0 .. r - 1 /\ m = r * p + z
  BY <1>1, <1>4, <1>5, Division
<1>. HIDE DEF p, z
<1>7. q \in {0, 1} /\ p \in {0, 1}
  BY <1>1, <1>2, <1>3, <1>4, <1>6
<1>8. q + p \in Nat /\ q + p < 2 * r
  BY <1>1, <1>7
<1>9. z + (q + p) * r = x + v
  <2>1. (q + p) * r = r * q + r * p /\ r * q \in Int /\ r * p \in Int
    BY <1>1, <1>7
  <2>2. m = x + y
    BY DEF m
  <2>. QED
    BY <1>1, <1>2, <1>3, <1>6, <2>1, <2>2
<1>. QED
  BY <1>6, <1>8, <1>9 DEF Carried, r, y, q, m, n, p, z

Upped(s, t, N, place, u) ==
  /\ s \in [0 .. N - 1 -> 0 .. Radix - 1]
  /\ \E e \in Nat : Number(s, N) + e * Weight(N) = Number(t, N) + u * Weight(place)

LEMMA UpwardsAdds ==
  ASSUME NEW N \in Nat, NEW t \in [0 .. N - 1 -> 0 .. Radix - 1],
         NEW place \in Nat, place <= N, NEW u, Carried(u, 2), NEW s, Goes(t, N, place, u, s)
  PROVE  Upped(s, t, N, place, u)
<1>1. PICK up : UpOf(up, t, N, place, u) /\ UpDigits(s, up, t, N, place)
  BY DEF Goes
<1>2. up[place] = u /\ u \in Nat
  BY <1>1 DEF UpOf, Carried
<1>3. ASSUME NEW i \in 0 .. N - 1 PROVE t[i] \in Nat /\ t[i] < Radix
  <2>1. Radix \in Nat
    BY Weights
  <2>2. t[i] \in 0 .. Radix - 1
    OBVIOUS
  <2>. QED
    BY <2>1, <2>2
<1>4. ASSUME NEW i \in place .. N - 1, Carried(up[i], 2)
      PROVE  /\ Carried(up[i + 1], 2) /\ s[i] \in 0 .. Radix - 1
             /\ s[i] + up[i + 1] * Radix = t[i] + up[i]
  <2>. DEFINE x == t[i]
              v == up[i]
              n == DigitType(x + (v % Radix))
              w == (v \div Radix) + (n \div Radix)
  <2>1. i \in 0 .. N - 1 /\ ~ (i < place)
    OBVIOUS
  <2>2. x \in Nat /\ x < Radix /\ Carried(v, 2)
    BY <1>3, <1>4, <2>1
  <2>3. up[i + 1] = w
    BY <1>1 DEF UpOf
  <2>4. s[i] = n % Radix
    BY <1>1, <2>1 DEF UpDigits
  <2>. HIDE DEF x, v
  <2>5. n % Radix \in 0 .. Radix - 1 /\ Carried(w, 2) /\ (n % Radix) + w * Radix = x + v
    BY <2>2, UpDigit
  <2>. HIDE DEF n, w
  <2>. QED
    BY <2>3, <2>4, <2>5 DEF x, v
<1>5. \A j \in place .. N : Carried(up[j], 2)
  <2>. DEFINE S == {k \in Nat : place + k <= N => Carried(up[place + k], 2)}
  <2>1. 0 \in S
    BY <1>2
  <2>2. ASSUME NEW k \in Nat, k \in S PROVE k + 1 \in S
    <3>1. SUFFICES ASSUME place + (k + 1) <= N PROVE Carried(up[place + (k + 1)], 2)
      OBVIOUS
    <3>. DEFINE j == place + k
    <3>2. j \in place .. N - 1 /\ place + (k + 1) = j + 1 /\ Carried(up[j], 2)
      BY <2>2, <3>1
    <3>. HIDE DEF j
    <3>3. Carried(up[j + 1], 2)
      BY <1>4, <3>2
    <3>. QED
      BY <3>2, <3>3
  <2>3. \A k \in Nat : k \in S
    <3>. HIDE DEF S
    <3>. QED
      BY <2>1, <2>2, Successor
  <2>4. ASSUME NEW j \in place .. N PROVE Carried(up[j], 2)
    <3>1. j - place \in Nat /\ place + (j - place) = j
      OBVIOUS
    <3>2. j - place \in S
      <4>. HIDE DEF S
      <4>. QED
        BY <2>3, <3>1
    <3>. QED
      BY <3>1, <3>2
  <2>. QED
    BY <2>4
<1>6. ASSUME NEW i \in 0 .. N - 1 PROVE (i < place => s[i] = t[i]) /\ s[i] \in 0 .. Radix - 1
  <2>1. CASE i < place
    BY <1>1, <2>1 DEF UpDigits
  <2>2. CASE ~ (i < place)
    <3>1. i \in place .. N - 1 /\ i \in place .. N
      BY <2>2
    <3>. QED
      BY <1>4, <1>5, <2>2, <3>1
  <2>. QED
    BY <2>1, <2>2
<1>7. s \in [0 .. N - 1 -> 0 .. Radix - 1]
  <2>1. DOMAIN s = 0 .. N - 1 /\ s = [i \in 0 .. N - 1 |-> s[i]]
    BY <1>1 DEF UpDigits
  <2>. QED
    BY <1>6, <2>1
<1>8. Numbers(s, N) /\ Number(s, N) \in Nat
  BY <1>7, DigitsNumbers
<1>9. Numbers(t, N) /\ Number(t, N) \in Nat
  BY DigitsNumbers
<1>10. RowAdded(s, t, 0, 0, place, N, 0, up)
  <2>1. ASSUME NEW j \in place .. N - 1
        PROVE  s[0 + j] + up[j + 1] * Radix = t[0 + j] + 0 * Digit(0, j) + up[j]
    <3>1. j \in place .. N /\ j \in 0 .. N - 1 /\ j + 1 \in place .. N /\ 0 + j = j /\ j \in Nat
      OBVIOUS
    <3>2. s[j] + up[j + 1] * Radix = t[j] + up[j]
      BY <1>4, <1>5, <3>1
    <3>3. Digit(0, j) \in Nat
      <4>1. j \in Nat /\ 0 \in Int
        BY <3>1
      <4>. QED
        BY <4>1, DigitInteger, Zenon
    <3>4. t[j] \in Nat /\ 0 * Digit(0, j) = 0
      BY <1>3, <3>1, <3>3
    <3>. QED
      BY <3>1, <3>2, <3>4
  <2>. QED
    BY <2>1 DEF RowAdded
<1>11. RowSum(s, t, 0, 0, place, N, 0, up)
  <2>1. \A j \in place .. N : up[j] \in Int
    BY <1>5 DEF Carried
  <2>2. \A i \in 0 .. 0 + place - 1 : s[i] = t[i]
    BY <1>6
  <2>3. 0 \in Nat /\ 0 \in Int /\ 0 + N <= N
    OBVIOUS
  <2>. QED
    BY <1>8, <1>9, <1>10, <2>1, <2>2, <2>3, RowSums
<1>12. 0 + N = N /\ 0 + place = place
  OBVIOUS
<1>13. Number(s, N) + up[N] * Weight(N)
         = Number(t, N) + u * Weight(place) + (0 * Weight(0)) * (LowPart(0, N) - LowPart(0, place))
  BY <1>2, <1>11, <1>12 DEF RowSum
<1>14. (0 * Weight(0)) * (LowPart(0, N) - LowPart(0, place)) = 0
  <2>1. Weight(0) \in Nat
    BY Weights
  <2>2. LowPart(0, N) \in Nat
    <3>1. N \in Int /\ 0 \in Nat
      OBVIOUS
    <3>. QED
      BY <3>1, LowPartNatural
  <2>3. LowPart(0, place) \in Nat
    <3>1. place \in Int /\ 0 \in Nat
      OBVIOUS
    <3>. QED
      BY <3>1, LowPartNatural
  <2>. QED
    BY <2>1, <2>2, <2>3
<1>15. Weight(place) \in Nat
  BY Weights
<1>16. Number(s, N) + up[N] * Weight(N) = Number(t, N) + u * Weight(place)
  <2>. DEFINE x == u * Weight(place)
  <2>1. x \in Nat
    BY <1>2, <1>15
  <2>. HIDE DEF x
  <2>2. Number(s, N) + up[N] * Weight(N) = Number(t, N) + x + 0
    BY <1>13, <1>14 DEF x
  <2>3. Number(t, N) + x + 0 = Number(t, N) + x
    BY <1>9, <2>1
  <2>. QED
    BY <2>2, <2>3 DEF x
<1>17. up[N] \in Nat
  <2>1. N \in place .. N
    OBVIOUS
  <2>. QED
    BY <1>5, <2>1 DEF Carried
<1>. QED
  BY <1>7, <1>16, <1>17 DEF Upped

SquareAdded(s, t, N, k, d, u) ==
  /\ s \in [0 .. N - 1 -> 0 .. Radix - 1] /\ Carried(u, 2)
  /\ Number(s, N) + u * Weight(k + 1) = Number(t, N) + (d * d) * Weight(k)

LEMMA AddedAcross ==
  ASSUME NEW s \in Nat, NEW t \in Nat, NEW x \in Nat, NEW z \in Nat, NEW q \in Nat, NEW e \in Nat,
         s + x = t + z, q + z = x + e
  PROVE  s + q = t + e
OBVIOUS

LEMMA SquareFirst ==
  ASSUME NEW N \in Nat, NEW t \in [0 .. N - 1 -> 0 .. Radix - 1], NEW k \in 0 .. N - 1,
         NEW d \in Nat, d < Radix, NEW r, r = Word(t[k] + d * d)
  PROVE  SquareAdded([t EXCEPT ![k] = r % Radix], t, N, k, d, DigitType(r \div Radix))
<1>. DEFINE x == t[k]
            n == x + 1 * d * d + 0
            q == n \div Radix
            z == n % Radix
            s == [t EXCEPT ![k] = z]
            w == Weight(k)
            e == d * d
<1>1. Radix \in Nat /\ Radix >= 4
  BY Weights
<1>2. x \in Nat /\ x < Radix
  <2>1. x \in 0 .. Radix - 1
    OBVIOUS
  <2>. QED
    BY <1>1, <2>1
<1>3. Fits(n, 1)
  <2>1. Carried(0, 1) /\ 1 \in {1, 2}
    BY <1>1 DEF Carried
  <2>. HIDE DEF x
  <2>. QED
    BY <1>2, <2>1, WordStep
<1>4. n = x + e /\ e \in Nat
  BY <1>2
<1>5. Word(n) = n /\ DigitType(q) = q /\ Carried(q, 1) /\ z \in 0 .. Radix - 1 /\ n = Radix * q + z
  BY <1>3 DEF Fits
<1>6. r = n
  BY <1>4, <1>5
<1>. HIDE DEF n, q, z, e
<1>7. q \in Nat /\ q < 1 * Radix
  BY <1>5 DEF Carried
<1>8. Carried(q, 2)
  BY <1>1, <1>7 DEF Carried
<1>9. s \in [0 .. N - 1 -> 0 .. Radix - 1] /\ s[k] = z /\ \A i \in 0 .. N - 1 : i # k => s[i] = t[i]
  BY <1>5
<1>. HIDE DEF s
<1>10. Numbers(s, N) /\ Number(s, N) \in Nat
  BY <1>9, DigitsNumbers
<1>11. Numbers(t, N) /\ Number(t, N) \in Nat
  BY DigitsNumbers
<1>12. PutSum(s, t, N, k)
  BY <1>9, <1>10, <1>11, NumberPut
<1>13. Number(s, N) + x * w = Number(t, N) + z * w
  BY <1>9, <1>12 DEF PutSum
<1>14. k \in Nat
  OBVIOUS
<1>15. w \in Nat /\ Weight(k + 1) = w * Radix
  BY <1>14, Weights
<1>16. z \in Nat
  BY <1>1, <1>5
<1>. HIDE DEF x, w
<1>17. q * (w * Radix) + z * w = x * w + e * w
  <2>1. Radix * q + z = x + e
    BY <1>4, <1>5
  <2>2. (Radix * q + z) * w = q * (w * Radix) + z * w
    BY <1>1, <1>7, <1>15, <1>16
  <2>3. (x + e) * w = x * w + e * w
    BY <1>2, <1>4, <1>15
  <2>. QED
    BY <2>1, <2>2, <2>3
<1>. DEFINE xw == x * w
            zw == z * w
            qw == q * (w * Radix)
            ew == e * w
<1>18. xw \in Nat /\ zw \in Nat /\ qw \in Nat /\ ew \in Nat
  BY <1>1, <1>2, <1>4, <1>7, <1>15, <1>16
<1>19. Number(s, N) + xw = Number(t, N) + zw /\ qw + zw = xw + ew
  BY <1>13, <1>17
<1>20. qw = q * Weight(k + 1)
  BY <1>15
<1>. HIDE DEF xw, zw, qw, ew
<1>. DEFINE ns == Number(s, N)
            nt == Number(t, N)
<1>22. ns \in Nat /\ nt \in Nat /\ ns + xw = nt + zw
  BY <1>10, <1>11, <1>19
<1>. HIDE DEF ns, nt
<1>21. ns + qw = nt + ew
  BY <1>18, <1>19, <1>22, AddedAcross
<1>. QED
  BY <1>5, <1>6, <1>8, <1>9, <1>20, <1>21 DEF SquareAdded, s, q, z, ew, e, w, ns, nt

SqrState(a, N, t, ix) ==
  /\ t \in [0 .. N - 1 -> 0 .. Radix - 1]
  /\ Number(t, N) = LowPart(a, ix) * (2 * a - LowPart(a, ix))

(* The square of the digits done and their products with the others grow   *)
(* by the square of a digit and twice its products with those above.       *)
LEMMA SquareGrows ==
  ASSUME NEW l \in Int, NEW f \in Int, NEW a \in Int
  PROVE  (l * (2 * a - l)) + f * f + (2 * f) * (a - (l + f)) = (l + f) * (2 * a - (l + f))
OBVIOUS

LEMMA SquareBelow ==
  ASSUME NEW a \in Nat, NEW l \in Nat, l <= a, NEW N \in Nat, Used(a) + Used(a) <= N
  PROVE  l * (2 * a - l) \in Nat /\ l * (2 * a - l) < Weight(N)
<1>. DEFINE r == a - l
            p == l * (2 * a - l)
<1>1. r \in Nat /\ a = l + r
  OBVIOUS
<1>2. a * a < Weight(N)
  BY ProductBelow
<1>3. p \in Nat /\ p <= a * a
  <2>1. p = l * (l + 2 * r) /\ a * a = l * (l + 2 * r) + r * r
    <3>. HIDE DEF r
    <3>. QED
      BY <1>1
  <2>2. l * (l + 2 * r) \in Nat /\ r * r \in Nat
    <3>. HIDE DEF r
    <3>. QED
      BY <1>1
  <2>. QED
    BY <2>1, <2>2
<1>4. Weight(N) \in Nat
  BY Weights
<1>5. a * a \in Nat
  OBVIOUS
<1>. HIDE DEF p
<1>6. p < Weight(N)
  BY <1>2, <1>3, <1>4, <1>5
<1>. QED
  BY <1>3, <1>6 DEF p

LEMMA SqrRowAdds ==
  ASSUME NEW a \in Nat, NEW N \in Nat, N = Used(a) + Used(a) + 1, NEW ix \in Nat, ix < Used(a), NEW t,
         SqrState(a, N, t, ix), NEW s, NEW u, SquareAdded(s, t, N, 2 * ix, Digit(a, ix), u),
         NEW c, NEW row, RowAddedUp(row, s, N, ix, ix + 1, Used(a), 2, c, u, Digit(a, ix), a),
         NEW x, Upped(x, row, N, ix + Used(a), c[Used(a)])
  PROVE  SqrState(a, N, x, ix + 1)
<1>. DEFINE d == Digit(a, ix)
            v == Weight(ix)
            f == d * v
            l == LowPart(a, ix)
            h == Used(a)
            k == ix + h
            nt == Number(t, N)
            ns == Number(s, N)
            nr == Number(row, N)
            nx == Number(x, N)
            w == Weight(N)
            g == c[h] * Weight(k)
            y == u * Weight(2 * ix + 1)
<1>1. h \in Nat
  BY UsedFacts
<1>2. LowPart(a, h) = a
  BY <1>1, LowParts
<1>3. l \in Nat /\ l <= a
  <2>1. ix \in Int
    OBVIOUS
  <2>. QED
    BY <2>1, LowPartNatural
<1>4. f \in Int /\ LowPart(a, ix + 1) = l + f
  BY MulRowTyped
<1>5. LowPart(a, ix + 1) \in Nat /\ LowPart(a, ix + 1) <= a
  <2>1. ix + 1 \in Int
    OBVIOUS
  <2>. QED
    BY <2>1, LowPartNatural
<1>6. d \in Nat /\ v \in Nat
  BY DigitNatural, Weights
<1>7. Weight(2 * ix) = v * v
  <2>1. ix + ix = 2 * ix /\ Weight(ix + ix) = v * v
    BY WeightSum
  <2>. QED
    BY <2>1
<1>8. nt \in Nat /\ nt = l * (2 * a - l)
  <2>1. t \in [0 .. N - 1 -> 0 .. Radix - 1] /\ nt = l * (2 * a - l)
    BY DEF SqrState
  <2>. QED
    BY <2>1, DigitsNumbers
<1>9. s \in [0 .. N - 1 -> 0 .. Radix - 1] /\ u \in Nat /\ ns + y = nt + (d * d) * Weight(2 * ix)
  BY DEF SquareAdded, Carried
<1>10. ns \in Nat
  BY <1>9, DigitsNumbers
<1>11. row \in [0 .. N - 1 -> 0 .. Radix - 1] /\ c[h] \in Nat
  BY DEF RowAddedUp, Carried
<1>12. nr \in Nat
  BY <1>11, DigitsNumbers
<1>13. ix + (ix + 1) = 2 * ix + 1
  OBVIOUS
<1>14. nr + g = ns + y + ((2 * d) * v) * (a - (l + f))
  BY <1>2, <1>4, <1>13 DEF RowAddedUp
<1>15. x \in [0 .. N - 1 -> 0 .. Radix - 1]
  BY DEF Upped
<1>16. PICK e \in Nat : nx + e * w = nr + g
  BY DEF Upped
<1>17. nx \in Nat
  BY <1>15, DigitsNumbers
<1>18. w \in Nat /\ w > 0
  BY Weights
<1>19. y \in Nat /\ g \in Nat
  <2>1. Weight(2 * ix + 1) \in Nat
    BY Weights
  <2>2. k \in Nat
    BY <1>1
  <2>. HIDE DEF k
  <2>3. Weight(k) \in Nat
    BY <2>2, Weights
  <2>. QED
    BY <1>9, <1>11, <2>1, <2>3
<1>. DEFINE b == l + f
            p == b * (2 * a - b)
<1>20. p \in Nat /\ p < w
  <2>1. b \in Nat /\ b <= a
    BY <1>4, <1>5
  <2>2. Used(a) + Used(a) <= N
    BY <1>1
  <2>. HIDE DEF b
  <2>. QED
    BY <2>1, <2>2, SquareBelow
<1>21. (d * d) * Weight(2 * ix) = f * f /\ (2 * d) * v = 2 * f
  <2>1. (d * d) * (v * v) = f * f
    <3>. HIDE DEF d, v
    <3>. QED
      BY <1>6
  <2>2. (2 * d) * v = 2 * f
    <3>. HIDE DEF d, v
    <3>. QED
      BY <1>6
  <2>. QED
    BY <1>7, <2>1, <2>2
<1>. HIDE DEF d, v, f, l, h, k, ns, nr, nx, w, g, y
<1>22. nt + f * f + (2 * f) * (a - (l + f)) = p
  <2>1. l \in Int /\ a \in Int
    BY <1>3
  <2>2. (l * (2 * a - l)) + f * f + (2 * f) * (a - (l + f)) = (l + f) * (2 * a - (l + f))
    BY <1>4, <2>1, SquareGrows
  <2>. QED
    BY <1>8, <2>2
<1>23. nx + e * w = p
  <2>. DEFINE ff == f * f
              fa == (2 * f) * (a - (l + f))
  <2>1. ff \in Int /\ fa \in Int
    BY <1>3, <1>4
  <2>2. ns + y = nt + ff /\ nr + g = ns + y + fa /\ nt + ff + fa = p
    BY <1>9, <1>14, <1>21, <1>22
  <2>. HIDE DEF ff, fa, p, nt
  <2>. QED
    BY <1>8, <1>10, <1>12, <1>16, <1>19, <2>1, <2>2
<1>24. e = 0
  <2>. DEFINE q == e * w
  <2>1. q \in Nat /\ (e > 0 => q >= w)
    BY <1>18
  <2>. HIDE DEF q, p
  <2>2. nx + q = p
    BY <1>23 DEF q
  <2>. QED
    BY <1>17, <1>18, <1>20, <2>1, <2>2
<1>25. nx = p
  <2>1. 0 * w = 0
    BY <1>18
  <2>. HIDE DEF p
  <2>. QED
    BY <1>17, <1>20, <1>23, <1>24, <2>1
<1>. QED
  BY <1>4, <1>15, <1>25 DEF SqrState, nx

LEMMA SqrRow ==
  ASSUME A \in Int, B \in Int, A = B, NEW N, N = Places("sqr"), NEW ix \in Nat, ix < Used(A),
         NEW t, SqrState(Magnitude(A), N, t, ix), NEW r, r = Word(t[2 * ix] + Digit(A, ix) * Digit(A, ix)),
         NEW s, s = [t EXCEPT ![2 * ix] = r % Radix],
         NEW c, c = Carries(s, ix, ix + 1, Used(A), 2, DigitType(r \div Radix))
  PROVE  SqrState(Magnitude(A), N, Upwards(Row(s, ix, c, 2), c[Used(A)], ix + Used(A)), ix + 1)
<1>. DEFINE a == Magnitude(A)
            d == Digit(a, ix)
            h == Used(a)
            u == DigitType(r \div Radix)
            row == Row(s, ix, c, 2)
            x == Upwards(row, c[h], ix + h)
<1>1. a \in Nat /\ Used(A) = h /\ h \in Nat /\ Magnitude(B) = a
  BY UsedTyped
<1>2. d = Digit(A, ix) /\ d \in Nat /\ d < Radix
  <2>1. d = Digit(A, ix)
    BY DigitsOfMagnitude
  <2>2. Digit(A, ix) \in Nat /\ Digit(A, ix) < Radix
    BY DigitInteger
  <2>. QED
    BY <2>1, <2>2
<1>3. N = h + h + 1 /\ N \in Nat
  <2>1. Places("sqr") = Used(A) + Used(B) + 1
    BY DEF Places
  <2>. QED
    BY <1>1, <2>1
<1>4. t \in [0 .. N - 1 -> 0 .. Radix - 1]
  BY DEF SqrState
<1>5. SquareAdded(s, t, N, 2 * ix, d, u)
  <2>. DEFINE k == 2 * ix
              q == r \div Radix
  <2>1. k \in 0 .. N - 1
    BY <1>1, <1>3
  <2>2. r = Word(t[k] + d * d) /\ s = [t EXCEPT ![k] = r % Radix]
    BY <1>2
  <2>. HIDE DEF k, d
  <2>3. SquareAdded([t EXCEPT ![k] = r % Radix], t, N, k, d, DigitType(r \div Radix))
    BY <1>2, <1>3, <1>4, <2>1, <2>2, SquareFirst
  <2>. QED
    BY <2>2, <2>3 DEF k
<1>6. s \in [0 .. N - 1 -> 0 .. Radix - 1] /\ Carried(u, 2)
  BY <1>5 DEF SquareAdded
<1>7. RowAddedUp(row, s, N, ix, ix + 1, h, 2, c, u, d, a)
  <2>. DEFINE lo == ix + 1
  <2>1. lo \in Nat /\ lo <= h /\ ix + h <= N /\ 2 \in {1, 2}
    BY <1>1, <1>3
  <2>2. c = Carries(s, ix, lo, h, 2, u)
    BY <1>1
  <2>. HIDE DEF lo, h, u, row
  <2>3. row = Row(s, ix, c, 2)
    BY DEF row
  <2>4. RowAddedUp(row, s, N, ix, lo, h, 2, c, u, Digit(A, ix), Magnitude(B))
    BY <1>1, <1>3, <1>6, <2>1, <2>2, <2>3, RowStep
  <2>. QED
    BY <1>1, <1>2, <2>4 DEF lo
<1>8. row \in [0 .. N - 1 -> 0 .. Radix - 1] /\ Carried(c[h], 2)
  BY <1>7 DEF RowAddedUp
<1>9. Goes(row, N, ix + h, c[h], x)
  <2>. DEFINE k == ix + h
              v == c[h]
  <2>1. k \in Nat /\ k <= N
    BY <1>1, <1>3
  <2>2. v \in Int
    BY <1>8 DEF Carried
  <2>. HIDE DEF k, v, row
  <2>3. Goes(row, N, k, v, Upwards(row, v, k))
    BY <1>3, <1>8, <2>1, <2>2, UpwardsGoes
  <2>. QED
    BY <2>3 DEF k, v
<1>10. Upped(x, row, N, ix + h, c[h])
  <2>. DEFINE k == ix + h
              v == c[h]
  <2>1. k \in Nat /\ k <= N /\ Carried(v, 2) /\ Goes(row, N, k, v, x)
    BY <1>1, <1>3, <1>8, <1>9
  <2>. HIDE DEF k, v, row, x
  <2>2. Upped(x, row, N, k, v)
    BY <1>3, <1>8, <2>1, UpwardsAdds
  <2>. QED
    BY <2>2 DEF k, v
<1>11. SqrState(a, N, x, ix + 1)
  <2>1. SqrState(a, N, t, ix) /\ ix < h
    BY <1>1
  <2>. HIDE DEF a, row, x, u
  <2>. QED
    BY <1>1, <1>3, <1>5, <1>7, <1>10, <2>1, SqrRowAdds
<1>. QED
  BY <1>1, <1>11

LEMMA SqrStart ==
  ASSUME NEW a \in Nat, NEW N \in Nat
  PROVE  SqrState(a, N, Zeros(N), 0)
<1>1. LowPart(a, 0) = 0
  BY LowParts
<1>2. 0 * (2 * a - 0) = 0
  OBVIOUS
<1>. QED
  BY <1>1, <1>2, ZerosNumber DEF SqrState

LEMMA SqrEnd ==
  ASSUME NEW a \in Nat, NEW N \in Nat, NEW ix \in Nat, Used(a) <= ix, NEW t, SqrState(a, N, t, ix)
  PROVE  Number(t, N) = a * a
<1>1. LowPart(a, ix) = a
  BY LowParts
<1>2. a * (2 * a - a) = a * a
  OBVIOUS
<1>. QED
  BY <1>1, <1>2 DEF SqrState

(* s_mp_mul_balance: the slices done of the longer number by the shorter.  *)
LEMMA SlicePart ==
  ASSUME NEW m \in Nat, NEW k \in Nat, NEW l \in Nat
  PROVE  LowPart(m, k + l) = LowPart(m, k) + ((m \div Weight(k)) % Weight(l)) * Weight(k)
<1>. DEFINE v == Weight(k)
            w == Weight(l)
            q == m \div v
            x == m % v
            p == q \div w
            y == q % w
<1>1. v \in Nat /\ v > 0
  BY Weights
<1>2. w \in Nat /\ w > 0
  BY Weights
<1>3. Weight(k + l) = v * w
  BY WeightSum
<1>4. LowPart(m, k) = x /\ LowPart(m, k + l) = m % (v * w)
  BY <1>3 DEF LowPart
<1>. HIDE DEF v, w
<1>5. q \in Int /\ x \in 0 .. v - 1 /\ m = v * q + x
  BY <1>1, Division
<1>. HIDE DEF q, x
<1>6. p \in Int /\ y \in 0 .. w - 1 /\ q = w * p + y
  BY <1>2, <1>5, Division
<1>. HIDE DEF p, y
<1>. DEFINE z == x + y * v
            f == v * w
<1>7. z \in Nat /\ z < f /\ f \in Nat /\ f > 0
  <2>1. y * v \in Nat /\ (y + 1) * v <= w * v /\ (y + 1) * v = y * v + v /\ w * v = v * w
    BY <1>1, <1>2, <1>6
  <2>2. f \in Nat /\ f > 0
    BY <1>1, <1>2
  <2>. DEFINE yv == y * v
  <2>3. x < v /\ x \in Nat
    BY <1>1, <1>5
  <2>4. yv \in Nat /\ yv + v <= f
    BY <1>1, <2>1
  <2>. HIDE DEF yv, f
  <2>5. x + yv \in Nat /\ x + yv < f
    BY <1>1, <2>2, <2>3, <2>4
  <2>. QED
    BY <2>2, <2>5 DEF yv
<1>8. m = z + p * f
  <2>1. v * (w * p + y) = y * v + p * (v * w)
    BY <1>1, <1>2, <1>6
  <2>2. v * q = y * v + p * (v * w)
    BY <1>6, <2>1
  <2>. DEFINE a == v * q
              b == y * v
              c == p * (v * w)
  <2>3. a \in Int /\ b \in Int /\ c \in Int /\ a = b + c /\ m = a + x
    BY <1>1, <1>2, <1>5, <1>6, <2>2
  <2>4. z = x + b /\ p * f = c
    OBVIOUS
  <2>. HIDE DEF a, b, c, z, f
  <2>. QED
    BY <1>5, <2>3, <2>4
<1>. HIDE DEF z, f
<1>9. (z + p * f) % f = z
  BY <1>6, <1>7, QuotientAndRest
<1>10. m % f = z
  BY <1>8, <1>9
<1>. QED
  BY <1>4, <1>10 DEF z, f, y, q, v, w

SliceState(m, s, b, i, r) == r = LowPart(m, b * i) * s

LEMMA SliceStep ==
  ASSUME NEW m \in Nat, NEW s \in Int, NEW b \in Nat, NEW i \in Nat, NEW r, SliceState(m, s, b, i, r)
  PROVE  SliceState(m, s, b, i + 1, r + ((m \div Weight(b * i)) % Weight(b)) * s * Weight(b * i))
<1>. DEFINE k == b * i
            l == LowPart(m, k)
            y == (m \div Weight(k)) % Weight(b)
            w == Weight(k)
<1>1. k \in Nat /\ b * (i + 1) = k + b
  OBVIOUS
<1>. HIDE DEF k
<1>2. LowPart(m, k + b) = l + y * w
  BY <1>1, SlicePart
<1>3. l \in Nat
  <2>1. k \in Int
    BY <1>1
  <2>. QED
    BY <2>1, LowPartNatural
<1>4. w \in Nat /\ w > 0
  BY <1>1, Weights
<1>5. y \in Int
  <2>1. m \div w \in Int
    BY <1>4, Division
  <2>. DEFINE q == m \div w
              v == Weight(b)
  <2>2. v \in Nat /\ v > 0
    BY Weights
  <2>. HIDE DEF q, v
  <2>3. q % v \in Int
    BY <2>1, <2>2, Division DEF q
  <2>. QED
    BY <2>3 DEF q, v
<1>6. r = l * s
  BY DEF SliceState, k
<1>. HIDE DEF l, y, w
<1>7. l * s + y * s * w = (l + y * w) * s
  BY <1>3, <1>4, <1>5
<1>. QED
  BY <1>1, <1>2, <1>6, <1>7 DEF SliceState, k, y, w

LEMMA SlicesAll ==
  ASSUME NEW u \in Nat, NEW b \in Nat, b > 0, NEW n,
         n = u \div b + (IF b * (u \div b) < u THEN 1 ELSE 0)
  PROVE  n \in Nat /\ u <= b * n
<1>. DEFINE q == u \div b
            x == u % b
<1>1. q \in Int /\ x \in 0 .. b - 1 /\ u = b * q + x
  BY Division
<1>. HIDE DEF q, x
<1>2. q >= 0
  <2>1. ASSUME q < 0 PROVE FALSE
    <3>1. b * q <= - b
      <4>1. q <= -1
        BY <1>1, <2>1
      <4>2. b * q <= b * (-1)
        BY <1>1, <4>1
      <4>. QED
        BY <4>2
    <3>. DEFINE p == b * q
    <3>2. p \in Int
      BY <1>1
    <3>. HIDE DEF p
    <3>. QED
      BY <1>1, <3>1, <3>2 DEF p
  <2>. QED
    BY <1>1, <2>1
<1>3. b * (q + 1) = b * q + b /\ b * q \in Int
  BY <1>1
<1>4. CASE b * q < u
  BY <1>1, <1>2, <1>3, <1>4 DEF q
<1>5. CASE ~ (b * q < u)
  BY <1>1, <1>2, <1>3, <1>5 DEF q
<1>. QED
  BY <1>4, <1>5

LEMMA SliceEnd ==
  ASSUME NEW m \in Nat, NEW s \in Int, NEW b \in Nat, b > 0, NEW n,
         n = Used(m) \div b + (IF b * (Used(m) \div b) < Used(m) THEN 1 ELSE 0), NEW r, SliceState(m, s, b, n, r)
  PROVE  r = m * s
<1>. DEFINE u == Used(m)
            k == b * n
<1>1. u \in Nat
  BY UsedFacts
<1>. HIDE DEF u
<1>2. n \in Nat /\ u <= k
  BY <1>1, SlicesAll DEF u
<1>3. k \in Nat
  BY <1>2
<1>. HIDE DEF k
<1>4. LowPart(m, k) = m
  BY <1>2, <1>3, LowParts DEF u
<1>. QED
  BY <1>4 DEF SliceState, k

-----------------------------------------------------------------------------
(* The lists of calls.  What a call makes of the numbers held, h, in the   *)
(* temporaries and the destination.                                        *)
Outcome(call, h, part) ==
  LET x == h[call[3]]
      y == h[call[4]]
      op == call[2]
  IN  CASE op = "*" -> x * y [] op = "+" -> x + y [] op = "-" -> x - y
        [] op = "s+" -> Magnitude(x) + Magnitude(y) [] op = "s-" -> Magnitude(x) - Magnitude(y)
        [] op = "div" -> Quotient(x, call[4]) [] op = "lshd" -> x * Weight(part * call[4])

After(call, h, part) == [h EXCEPT ![call[1]] = Outcome(call, h, part)]

Held(routine) == [t \in Temporaries(routine) \cup {"c"} |-> Operand(t)]

LEMMA AfterIs ==
  ASSUME NEW d, NEW s, NEW t, NEW h, NEW part
  PROVE  /\ After(<< d, "*", s, t >>, h, part) = [h EXCEPT ![d] = h[s] * h[t]]
         /\ After(<< d, "+", s, t >>, h, part) = [h EXCEPT ![d] = h[s] + h[t]]
         /\ After(<< d, "-", s, t >>, h, part) = [h EXCEPT ![d] = h[s] - h[t]]
         /\ After(<< d, "s+", s, t >>, h, part) = [h EXCEPT ![d] = Magnitude(h[s]) + Magnitude(h[t])]
         /\ After(<< d, "s-", s, t >>, h, part) = [h EXCEPT ![d] = Magnitude(h[s]) - Magnitude(h[t])]
         /\ After(<< d, "div", s, t >>, h, part) = [h EXCEPT ![d] = Quotient(h[s], t)]
         /\ After(<< d, "lshd", s, t >>, h, part) = [h EXCEPT ![d] = h[s] * Weight(part * t)]
BY DEF After, Outcome

LEMMA QuotientExact ==
  ASSUME NEW z \in Int
  PROVE  Quotient(2 * z, 2) = z /\ Quotient(3 * z, 3) = z
<1>1. Magnitude(2) = 2 /\ Magnitude(3) = 3 /\ Sgn(2) = 1 /\ Sgn(3) = 1
  BY DEF Magnitude, Sgn
<1>2. CASE z >= 0
  <2>1. Sgn(2 * z) = 1 /\ Sgn(3 * z) = 1 /\ Magnitude(2 * z) = 2 * z /\ Magnitude(3 * z) = 3 * z
    BY <1>2 DEF Magnitude, Sgn
  <2>2. (2 * z) \div 2 = z /\ (3 * z) \div 3 = z
    OBVIOUS
  <2>. QED
    BY <1>1, <2>1, <2>2 DEF Quotient
<1>3. CASE z < 0
  <2>1. Sgn(2 * z) = -1 /\ Sgn(3 * z) = -1 /\ Magnitude(2 * z) = 2 * (- z) /\ Magnitude(3 * z) = 3 * (- z)
    BY <1>3 DEF Magnitude, Sgn
  <2>2. (2 * (- z)) \div 2 = - z /\ (3 * (- z)) \div 3 = - z
    OBVIOUS
  <2>3. -1 * 1 * (- z) = z
    OBVIOUS
  <2>. QED
    BY <1>1, <2>1, <2>2, <2>3 DEF Quotient
<1>. QED
  BY <1>2, <1>3

LEMMA NaturalMagnitude == \A z \in Nat : Magnitude(z) = z
BY MagnitudeProperties

LEMMA OutcomeIs ==
  ASSUME NEW temps, NEW call, IsCall(call, temps), NEW h,
         \A t \in temps \cup {"c"} : h[t] = Operand(t)
  PROVE  Result(call) = Outcome(call, h, loc.part)
<1>. DEFINE x == Operand(call[3])
            y == Operand(call[4])
<1>1. h[call[3]] = x
  BY DEF IsCall
<1>2. CASE call[2] \in {"*", "+", "-", "s+", "s-"} /\ call[4] \in temps \cup {"c"}
  <2>1. h[call[4]] = y
    BY <1>2
  <2>. HIDE DEF x, y
  <2>2. CASE call[2] = "*"
    BY <1>1, <2>1, <2>2 DEF Result, Outcome, x, y
  <2>3. CASE call[2] = "+"
    BY <1>1, <2>1, <2>3 DEF Result, Outcome, x, y
  <2>4. CASE call[2] = "-"
    BY <1>1, <2>1, <2>4 DEF Result, Outcome, x, y
  <2>5. CASE call[2] = "s+"
    BY <1>1, <2>1, <2>5 DEF Result, Outcome, x, y
  <2>6. CASE call[2] = "s-"
    BY <1>1, <2>1, <2>6 DEF Result, Outcome, x, y
  <2>. QED
    BY <1>2, <2>2, <2>3, <2>4, <2>5, <2>6
<1>3. CASE call[2] = "div"
  BY <1>1, <1>3 DEF Result, Outcome
<1>4. CASE call[2] = "lshd"
  BY <1>1, <1>4 DEF Result, Outcome
<1>. QED
  BY <1>2, <1>3, <1>4 DEF IsCall
-----------------------------------------------------------------------------
(* The four routines, call by call: what is held before the i-th call, of  *)
(* the parts x and y of the operands, the coefficients w of the product,   *)
(* and s, those that have been shifted to their places.                    *)
Shifted(w, s, part, n) == \A k \in 1 .. n : w[k] * Weight(part * k) = s[k]

KaratsubaProducts(x, y, w) ==
  /\ x[0] * y[0] = w[0]
  /\ x[1] * y[1] = w[2]
  /\ (x[1] + x[0]) * (y[1] + y[0]) = w[0] + w[1] + w[2]

KaratsubaAt(i, h, x, y, w, s) ==
  /\ i \in 1 .. 3 => h["x0"] = x[0]
  /\ i \in 1 .. 3 => h["x1"] = x[1]
  /\ i \in 1 .. 4 => h["y0"] = y[0]
  /\ i \in 1 .. 4 => h["y1"] = y[1]
  /\ i \in 2 .. 10 => h["x0y0"] = w[0]
  /\ i \in 3 .. 9 => h["x1y1"] = w[2]
  /\ i \in 4 .. 5 => h["t1"] = x[1] + x[0]
  /\ i = 5 => h["x0"] = y[1] + y[0]
  /\ i \in 6 .. 7 => h["t1"] = w[0] + w[1] + w[2]
  /\ i = 7 => h["x0"] = w[0] + w[2]
  /\ i = 8 => h["t1"] = w[1]
  /\ i \in 9 .. 10 => h["t1"] = s[1]
  /\ i \in 10 .. 11 => h["x1y1"] = s[2]
  /\ i = 11 => h["t1"] = w[0] + s[1]
  /\ i = 12 => h["c"] = w[0] + s[1] + s[2]

LEMMA KaratsubaStep ==
  ASSUME NEW h, KaratsubaTemps \cup {"c"} \subseteq DOMAIN h, NEW part,
         NEW x \in [0 .. 1 -> Nat], NEW y \in [0 .. 1 -> Nat], NEW w \in [0 .. 2 -> Nat], NEW s \in [0 .. 2 -> Nat],
         KaratsubaProducts(x, y, w), Shifted(w, s, part, 2),
         NEW i \in 1 .. 11, KaratsubaAt(i, h, x, y, w, s)
  PROVE  KaratsubaAt(i + 1, After(Karatsuba[i], h, part), x, y, w, s)
<1>. DEFINE g == After(Karatsuba[i], h, part)
<1>. SUFFICES KaratsubaAt(i + 1, g, x, y, w, s)
  OBVIOUS
<1>1. x[0] \in Nat /\ x[1] \in Nat
  OBVIOUS
<1>2. y[0] \in Nat /\ y[1] \in Nat
  OBVIOUS
<1>3. /\ w[0] \in Nat /\ w[1] \in Nat /\ w[2] \in Nat
      /\ s[0] \in Nat /\ s[1] \in Nat /\ s[2] \in Nat
  OBVIOUS
<1>4. \A d \in KaratsubaTemps \cup {"c"} : d \in DOMAIN h
  OBVIOUS
<1>. HIDE DEF g
<1>5. CASE i = 1
  <2>1. /\ h["x0"] = x[0]
        /\ h["x1"] = x[1]
        /\ h["y0"] = y[0]
        /\ h["y1"] = y[1]
    BY <1>5 DEF KaratsubaAt
  <2>2. Karatsuba[i] = << "x0y0", "*", "x0", "y0" >>
    BY <1>5 DEF Karatsuba
  <2>3. g = [h EXCEPT !["x0y0"] = h["x0"] * h["y0"]]
    BY <2>2 DEF g, After, Outcome
  <2>4. h["x0"] * h["y0"] = w[0]
    BY <2>1 DEF KaratsubaProducts
  <2>5. "x0y0" \in DOMAIN h
    BY <1>4 DEF KaratsubaTemps
  <2>6. /\ g["x0"] = x[0]
        /\ g["x1"] = x[1]
        /\ g["y0"] = y[0]
        /\ g["y1"] = y[1]
        /\ g["x0y0"] = w[0]
    BY <2>1, <2>3, <2>4, <2>5
  <2>. QED
    BY <1>5, <2>6 DEF KaratsubaAt
<1>6. CASE i = 2
  <2>1. /\ h["x0"] = x[0]
        /\ h["x1"] = x[1]
        /\ h["y0"] = y[0]
        /\ h["y1"] = y[1]
        /\ h["x0y0"] = w[0]
    BY <1>6 DEF KaratsubaAt
  <2>2. Karatsuba[i] = << "x1y1", "*", "x1", "y1" >>
    BY <1>6 DEF Karatsuba
  <2>3. g = [h EXCEPT !["x1y1"] = h["x1"] * h["y1"]]
    BY <2>2 DEF g, After, Outcome
  <2>4. h["x1"] * h["y1"] = w[2]
    BY <2>1 DEF KaratsubaProducts
  <2>5. "x1y1" \in DOMAIN h
    BY <1>4 DEF KaratsubaTemps
  <2>6. /\ g["x0"] = x[0]
        /\ g["x1"] = x[1]
        /\ g["y0"] = y[0]
        /\ g["y1"] = y[1]
        /\ g["x0y0"] = w[0]
        /\ g["x1y1"] = w[2]
    BY <2>1, <2>3, <2>4, <2>5
  <2>. QED
    BY <1>6, <2>6 DEF KaratsubaAt
<1>7. CASE i = 3
  <2>1. /\ h["x0"] = x[0]
        /\ h["x1"] = x[1]
        /\ h["y0"] = y[0]
        /\ h["y1"] = y[1]
        /\ h["x0y0"] = w[0]
        /\ h["x1y1"] = w[2]
    BY <1>7 DEF KaratsubaAt
  <2>2. Karatsuba[i] = << "t1", "s+", "x1", "x0" >>
    BY <1>7 DEF Karatsuba
  <2>3. g = [h EXCEPT !["t1"] = Magnitude(h["x1"]) + Magnitude(h["x0"])]
    BY <2>2 DEF g, After, Outcome
  <2>4. Magnitude(h["x1"]) + Magnitude(h["x0"]) = x[1] + x[0]
    BY <2>1, <1>1, <1>2, <1>3, NaturalMagnitude
  <2>5. "t1" \in DOMAIN h
    BY <1>4 DEF KaratsubaTemps
  <2>6. /\ g["y0"] = y[0]
        /\ g["y1"] = y[1]
        /\ g["x0y0"] = w[0]
        /\ g["x1y1"] = w[2]
        /\ g["t1"] = x[1] + x[0]
    BY <2>1, <2>3, <2>4, <2>5
  <2>. QED
    BY <1>7, <2>6 DEF KaratsubaAt
<1>8. CASE i = 4
  <2>1. /\ h["y0"] = y[0]
        /\ h["y1"] = y[1]
        /\ h["x0y0"] = w[0]
        /\ h["x1y1"] = w[2]
        /\ h["t1"] = x[1] + x[0]
    BY <1>8 DEF KaratsubaAt
  <2>2. Karatsuba[i] = << "x0", "s+", "y1", "y0" >>
    BY <1>8 DEF Karatsuba
  <2>3. g = [h EXCEPT !["x0"] = Magnitude(h["y1"]) + Magnitude(h["y0"])]
    BY <2>2 DEF g, After, Outcome
  <2>4. Magnitude(h["y1"]) + Magnitude(h["y0"]) = y[1] + y[0]
    BY <2>1, <1>1, <1>2, <1>3, NaturalMagnitude
  <2>5. "x0" \in DOMAIN h
    BY <1>4 DEF KaratsubaTemps
  <2>6. /\ g["x0y0"] = w[0]
        /\ g["x1y1"] = w[2]
        /\ g["t1"] = x[1] + x[0]
        /\ g["x0"] = y[1] + y[0]
    BY <2>1, <2>3, <2>4, <2>5
  <2>. QED
    BY <1>8, <2>6 DEF KaratsubaAt
<1>9. CASE i = 5
  <2>1. /\ h["x0y0"] = w[0]
        /\ h["x1y1"] = w[2]
        /\ h["t1"] = x[1] + x[0]
        /\ h["x0"] = y[1] + y[0]
    BY <1>9 DEF KaratsubaAt
  <2>2. Karatsuba[i] = << "t1", "*", "t1", "x0" >>
    BY <1>9 DEF Karatsuba
  <2>3. g = [h EXCEPT !["t1"] = h["t1"] * h["x0"]]
    BY <2>2 DEF g, After, Outcome
  <2>4. h["t1"] * h["x0"] = w[0] + w[1] + w[2]
    BY <2>1 DEF KaratsubaProducts
  <2>5. "t1" \in DOMAIN h
    BY <1>4 DEF KaratsubaTemps
  <2>6. /\ g["x0y0"] = w[0]
        /\ g["x1y1"] = w[2]
        /\ g["t1"] = w[0] + w[1] + w[2]
    BY <2>1, <2>3, <2>4, <2>5
  <2>. QED
    BY <1>9, <2>6 DEF KaratsubaAt
<1>10. CASE i = 6
  <2>1. /\ h["x0y0"] = w[0]
        /\ h["x1y1"] = w[2]
        /\ h["t1"] = w[0] + w[1] + w[2]
    BY <1>10 DEF KaratsubaAt
  <2>2. Karatsuba[i] = << "x0", "+", "x0y0", "x1y1" >>
    BY <1>10 DEF Karatsuba
  <2>3. g = [h EXCEPT !["x0"] = h["x0y0"] + h["x1y1"]]
    BY <2>2 DEF g, After, Outcome
  <2>4. h["x0y0"] + h["x1y1"] = w[0] + w[2]
    BY <2>1, <1>1, <1>2, <1>3
  <2>5. "x0" \in DOMAIN h
    BY <1>4 DEF KaratsubaTemps
  <2>6. /\ g["x0y0"] = w[0]
        /\ g["x1y1"] = w[2]
        /\ g["t1"] = w[0] + w[1] + w[2]
        /\ g["x0"] = w[0] + w[2]
    BY <2>1, <2>3, <2>4, <2>5
  <2>. QED
    BY <1>10, <2>6 DEF KaratsubaAt
<1>11. CASE i = 7
  <2>1. /\ h["x0y0"] = w[0]
        /\ h["x1y1"] = w[2]
        /\ h["t1"] = w[0] + w[1] + w[2]
        /\ h["x0"] = w[0] + w[2]
    BY <1>11 DEF KaratsubaAt
  <2>2. Karatsuba[i] = << "t1", "s-", "t1", "x0" >>
    BY <1>11 DEF Karatsuba
  <2>3. g = [h EXCEPT !["t1"] = Magnitude(h["t1"]) - Magnitude(h["x0"])]
    BY <2>2 DEF g, After, Outcome
  <2>4. Magnitude(h["t1"]) - Magnitude(h["x0"]) = w[1]
    BY <2>1, <1>1, <1>2, <1>3, NaturalMagnitude
  <2>5. "t1" \in DOMAIN h
    BY <1>4 DEF KaratsubaTemps
  <2>6. /\ g["x0y0"] = w[0]
        /\ g["x1y1"] = w[2]
        /\ g["t1"] = w[1]
    BY <2>1, <2>3, <2>4, <2>5
  <2>. QED
    BY <1>11, <2>6 DEF KaratsubaAt
<1>12. CASE i = 8
  <2>1. /\ h["x0y0"] = w[0]
        /\ h["x1y1"] = w[2]
        /\ h["t1"] = w[1]
    BY <1>12 DEF KaratsubaAt
  <2>2. Karatsuba[i] = << "t1", "lshd", "t1", 1 >>
    BY <1>12 DEF Karatsuba
  <2>3. g = [h EXCEPT !["t1"] = h["t1"] * Weight(part * 1)]
    BY <2>2 DEF g, After, Outcome
  <2>4. h["t1"] * Weight(part * 1) = s[1]
    BY <2>1 DEF Shifted
  <2>5. "t1" \in DOMAIN h
    BY <1>4 DEF KaratsubaTemps
  <2>6. /\ g["x0y0"] = w[0]
        /\ g["x1y1"] = w[2]
        /\ g["t1"] = s[1]
    BY <2>1, <2>3, <2>4, <2>5
  <2>. QED
    BY <1>12, <2>6 DEF KaratsubaAt
<1>13. CASE i = 9
  <2>1. /\ h["x0y0"] = w[0]
        /\ h["x1y1"] = w[2]
        /\ h["t1"] = s[1]
    BY <1>13 DEF KaratsubaAt
  <2>2. Karatsuba[i] = << "x1y1", "lshd", "x1y1", 2 >>
    BY <1>13 DEF Karatsuba
  <2>3. g = [h EXCEPT !["x1y1"] = h["x1y1"] * Weight(part * 2)]
    BY <2>2 DEF g, After, Outcome
  <2>4. h["x1y1"] * Weight(part * 2) = s[2]
    BY <2>1 DEF Shifted
  <2>5. "x1y1" \in DOMAIN h
    BY <1>4 DEF KaratsubaTemps
  <2>6. /\ g["x0y0"] = w[0]
        /\ g["t1"] = s[1]
        /\ g["x1y1"] = s[2]
    BY <2>1, <2>3, <2>4, <2>5
  <2>. QED
    BY <1>13, <2>6 DEF KaratsubaAt
<1>14. CASE i = 10
  <2>1. /\ h["x0y0"] = w[0]
        /\ h["t1"] = s[1]
        /\ h["x1y1"] = s[2]
    BY <1>14 DEF KaratsubaAt
  <2>2. Karatsuba[i] = << "t1", "+", "x0y0", "t1" >>
    BY <1>14 DEF Karatsuba
  <2>3. g = [h EXCEPT !["t1"] = h["x0y0"] + h["t1"]]
    BY <2>2 DEF g, After, Outcome
  <2>4. h["x0y0"] + h["t1"] = w[0] + s[1]
    BY <2>1, <1>1, <1>2, <1>3
  <2>5. "t1" \in DOMAIN h
    BY <1>4 DEF KaratsubaTemps
  <2>6. /\ g["x1y1"] = s[2]
        /\ g["t1"] = w[0] + s[1]
    BY <2>1, <2>3, <2>4, <2>5
  <2>. QED
    BY <1>14, <2>6 DEF KaratsubaAt
<1>15. CASE i = 11
  <2>1. /\ h["x1y1"] = s[2]
        /\ h["t1"] = w[0] + s[1]
    BY <1>15 DEF KaratsubaAt
  <2>2. Karatsuba[i] = << "c", "+", "t1", "x1y1" >>
    BY <1>15 DEF Karatsuba
  <2>3. g = [h EXCEPT !["c"] = h["t1"] + h["x1y1"]]
    BY <2>2 DEF g, After, Outcome
  <2>4. h["t1"] + h["x1y1"] = w[0] + s[1] + s[2]
    BY <2>1, <1>1, <1>2, <1>3
  <2>5. "c" \in DOMAIN h
    BY <1>4 DEF KaratsubaTemps
  <2>6. /\ g["c"] = w[0] + s[1] + s[2]
    BY <2>1, <2>3, <2>4, <2>5
  <2>. QED
    BY <1>15, <2>6 DEF KaratsubaAt
<1>. QED
  BY <1>5, <1>6, <1>7, <1>8, <1>9, <1>10, <1>11, <1>12, <1>13, <1>14, <1>15

SqrKaratsubaProducts(x, w) ==
  /\ x[0] * x[0] = w[0]
  /\ x[1] * x[1] = w[2]
  /\ (x[1] + x[0]) * (x[1] + x[0]) = w[0] + w[1] + w[2]

SqrKaratsubaAt(i, h, x, w, s) ==
  /\ i \in 1 .. 3 => h["x0"] = x[0]
  /\ i \in 1 .. 3 => h["x1"] = x[1]
  /\ i \in 2 .. 9 => h["x0x0"] = w[0]
  /\ i \in 3 .. 8 => h["x1x1"] = w[2]
  /\ i = 4 => h["t1"] = x[1] + x[0]
  /\ i \in 5 .. 6 => h["t1"] = w[0] + w[1] + w[2]
  /\ i = 6 => h["t2"] = w[0] + w[2]
  /\ i = 7 => h["t1"] = w[1]
  /\ i \in 8 .. 9 => h["t1"] = s[1]
  /\ i \in 9 .. 10 => h["x1x1"] = s[2]
  /\ i = 10 => h["t1"] = w[0] + s[1]
  /\ i = 11 => h["c"] = w[0] + s[1] + s[2]

LEMMA SqrKaratsubaStep ==
  ASSUME NEW h, SqrKaratsubaTemps \cup {"c"} \subseteq DOMAIN h, NEW part,
         NEW x \in [0 .. 1 -> Nat], NEW w \in [0 .. 2 -> Nat], NEW s \in [0 .. 2 -> Nat],
         SqrKaratsubaProducts(x, w), Shifted(w, s, part, 2),
         NEW i \in 1 .. 10, SqrKaratsubaAt(i, h, x, w, s)
  PROVE  SqrKaratsubaAt(i + 1, After(SqrKaratsuba[i], h, part), x, w, s)
<1>. DEFINE g == After(SqrKaratsuba[i], h, part)
<1>. SUFFICES SqrKaratsubaAt(i + 1, g, x, w, s)
  OBVIOUS
<1>1. x[0] \in Nat /\ x[1] \in Nat
  OBVIOUS
<1>3. /\ w[0] \in Nat /\ w[1] \in Nat /\ w[2] \in Nat
      /\ s[0] \in Nat /\ s[1] \in Nat /\ s[2] \in Nat
  OBVIOUS
<1>4. \A d \in SqrKaratsubaTemps \cup {"c"} : d \in DOMAIN h
  OBVIOUS
<1>. HIDE DEF g
<1>5. CASE i = 1
  <2>1. /\ h["x0"] = x[0]
        /\ h["x1"] = x[1]
    BY <1>5 DEF SqrKaratsubaAt
  <2>2. SqrKaratsuba[i] = << "x0x0", "*", "x0", "x0" >>
    BY <1>5 DEF SqrKaratsuba
  <2>3. g = [h EXCEPT !["x0x0"] = h["x0"] * h["x0"]]
    BY <2>2 DEF g, After, Outcome
  <2>4. h["x0"] * h["x0"] = w[0]
    BY <2>1 DEF SqrKaratsubaProducts
  <2>5. "x0x0" \in DOMAIN h
    BY <1>4 DEF SqrKaratsubaTemps
  <2>6. /\ g["x0"] = x[0]
        /\ g["x1"] = x[1]
        /\ g["x0x0"] = w[0]
    BY <2>1, <2>3, <2>4, <2>5
  <2>. QED
    BY <1>5, <2>6 DEF SqrKaratsubaAt
<1>6. CASE i = 2
  <2>1. /\ h["x0"] = x[0]
        /\ h["x1"] = x[1]
        /\ h["x0x0"] = w[0]
    BY <1>6 DEF SqrKaratsubaAt
  <2>2. SqrKaratsuba[i] = << "x1x1", "*", "x1", "x1" >>
    BY <1>6 DEF SqrKaratsuba
  <2>3. g = [h EXCEPT !["x1x1"] = h["x1"] * h["x1"]]
    BY <2>2 DEF g, After, Outcome
  <2>4. h["x1"] * h["x1"] = w[2]
    BY <2>1 DEF SqrKaratsubaProducts
  <2>5. "x1x1" \in DOMAIN h
    BY <1>4 DEF SqrKaratsubaTemps
  <2>6. /\ g["x0"] = x[0]
        /\ g["x1"] = x[1]
        /\ g["x0x0"] = w[0]
        /\ g["x1x1"] = w[2]
    BY <2>1, <2>3, <2>4, <2>5
  <2>. QED
    BY <1>6, <2>6 DEF SqrKaratsubaAt
<1>7. CASE i = 3
  <2>1. /\ h["x0"] = x[0]
        /\ h["x1"] = x[1]
        /\ h["x0x0"] = w[0]
        /\ h["x1x1"] = w[2]
    BY <1>7 DEF SqrKaratsubaAt
  <2>2. SqrKaratsuba[i] = << "t1", "s+", "x1", "x0" >>
    BY <1>7 DEF SqrKaratsuba
  <2>3. g = [h EXCEPT !["t1"] = Magnitude(h["x1"]) + Magnitude(h["x0"])]
    BY <2>2 DEF g, After, Outcome
  <2>4. Magnitude(h["x1"]) + Magnitude(h["x0"]) = x[1] + x[0]
    BY <2>1, <1>1, <1>3, NaturalMagnitude
  <2>5. "t1" \in DOMAIN h
    BY <1>4 DEF SqrKaratsubaTemps
  <2>6. /\ g["x0x0"] = w[0]
        /\ g["x1x1"] = w[2]
        /\ g["t1"] = x[1] + x[0]
    BY <2>1, <2>3, <2>4, <2>5
  <2>. QED
    BY <1>7, <2>6 DEF SqrKaratsubaAt
<1>8. CASE i = 4
  <2>1. /\ h["x0x0"] = w[0]
        /\ h["x1x1"] = w[2]
        /\ h["t1"] = x[1] + x[0]
    BY <1>8 DEF SqrKaratsubaAt
  <2>2. SqrKaratsuba[i] = << "t1", "*", "t1", "t1" >>
    BY <1>8 DEF SqrKaratsuba
  <2>3. g = [h EXCEPT !["t1"] = h["t1"] * h["t1"]]
    BY <2>2 DEF g, After, Outcome
  <2>4. h["t1"] * h["t1"] = w[0] + w[1] + w[2]
    BY <2>1 DEF SqrKaratsubaProducts
  <2>5. "t1" \in DOMAIN h
    BY <1>4 DEF SqrKaratsubaTemps
  <2>6. /\ g["x0x0"] = w[0]
        /\ g["x1x1"] = w[2]
        /\ g["t1"] = w[0] + w[1] + w[2]
    BY <2>1, <2>3, <2>4, <2>5
  <2>. QED
    BY <1>8, <2>6 DEF SqrKaratsubaAt
<1>9. CASE i = 5
  <2>1. /\ h["x0x0"] = w[0]
        /\ h["x1x1"] = w[2]
        /\ h["t1"] = w[0] + w[1] + w[2]
    BY <1>9 DEF SqrKaratsubaAt
  <2>2. SqrKaratsuba[i] = << "t2", "s+", "x0x0", "x1x1" >>
    BY <1>9 DEF SqrKaratsuba
  <2>3. g = [h EXCEPT !["t2"] = Magnitude(h["x0x0"]) + Magnitude(h["x1x1"])]
    BY <2>2 DEF g, After, Outcome
  <2>4. Magnitude(h["x0x0"]) + Magnitude(h["x1x1"]) = w[0] + w[2]
    BY <2>1, <1>1, <1>3, NaturalMagnitude
  <2>5. "t2" \in DOMAIN h
    BY <1>4 DEF SqrKaratsubaTemps
  <2>6. /\ g["x0x0"] = w[0]
        /\ g["x1x1"] = w[2]
        /\ g["t1"] = w[0] + w[1] + w[2]
        /\ g["t2"] = w[0] + w[2]
    BY <2>1, <2>3, <2>4, <2>5
  <2>. QED
    BY <1>9, <2>6 DEF SqrKaratsubaAt
<1>10. CASE i = 6
  <2>1. /\ h["x0x0"] = w[0]
        /\ h["x1x1"] = w[2]
        /\ h["t1"] = w[0] + w[1] + w[2]
        /\ h["t2"] = w[0] + w[2]
    BY <1>10 DEF SqrKaratsubaAt
  <2>2. SqrKaratsuba[i] = << "t1", "s-", "t1", "t2" >>
    BY <1>10 DEF SqrKaratsuba
  <2>3. g = [h EXCEPT !["t1"] = Magnitude(h["t1"]) - Magnitude(h["t2"])]
    BY <2>2 DEF g, After, Outcome
  <2>4. Magnitude(h["t1"]) - Magnitude(h["t2"]) = w[1]
    BY <2>1, <1>1, <1>3, NaturalMagnitude
  <2>5. "t1" \in DOMAIN h
    BY <1>4 DEF SqrKaratsubaTemps
  <2>6. /\ g["x0x0"] = w[0]
        /\ g["x1x1"] = w[2]
        /\ g["t1"] = w[1]
    BY <2>1, <2>3, <2>4, <2>5
  <2>. QED
    BY <1>10, <2>6 DEF SqrKaratsubaAt
<1>11. CASE i = 7
  <2>1. /\ h["x0x0"] = w[0]
        /\ h["x1x1"] = w[2]
        /\ h["t1"] = w[1]
    BY <1>11 DEF SqrKaratsubaAt
  <2>2. SqrKaratsuba[i] = << "t1", "lshd", "t1", 1 >>
    BY <1>11 DEF SqrKaratsuba
  <2>3. g = [h EXCEPT !["t1"] = h["t1"] * Weight(part * 1)]
    BY <2>2 DEF g, After, Outcome
  <2>4. h["t1"] * Weight(part * 1) = s[1]
    BY <2>1 DEF Shifted
  <2>5. "t1" \in DOMAIN h
    BY <1>4 DEF SqrKaratsubaTemps
  <2>6. /\ g["x0x0"] = w[0]
        /\ g["x1x1"] = w[2]
        /\ g["t1"] = s[1]
    BY <2>1, <2>3, <2>4, <2>5
  <2>. QED
    BY <1>11, <2>6 DEF SqrKaratsubaAt
<1>12. CASE i = 8
  <2>1. /\ h["x0x0"] = w[0]
        /\ h["x1x1"] = w[2]
        /\ h["t1"] = s[1]
    BY <1>12 DEF SqrKaratsubaAt
  <2>2. SqrKaratsuba[i] = << "x1x1", "lshd", "x1x1", 2 >>
    BY <1>12 DEF SqrKaratsuba
  <2>3. g = [h EXCEPT !["x1x1"] = h["x1x1"] * Weight(part * 2)]
    BY <2>2 DEF g, After, Outcome
  <2>4. h["x1x1"] * Weight(part * 2) = s[2]
    BY <2>1 DEF Shifted
  <2>5. "x1x1" \in DOMAIN h
    BY <1>4 DEF SqrKaratsubaTemps
  <2>6. /\ g["x0x0"] = w[0]
        /\ g["t1"] = s[1]
        /\ g["x1x1"] = s[2]
    BY <2>1, <2>3, <2>4, <2>5
  <2>. QED
    BY <1>12, <2>6 DEF SqrKaratsubaAt
<1>13. CASE i = 9
  <2>1. /\ h["x0x0"] = w[0]
        /\ h["t1"] = s[1]
        /\ h["x1x1"] = s[2]
    BY <1>13 DEF SqrKaratsubaAt
  <2>2. SqrKaratsuba[i] = << "t1", "+", "x0x0", "t1" >>
    BY <1>13 DEF SqrKaratsuba
  <2>3. g = [h EXCEPT !["t1"] = h["x0x0"] + h["t1"]]
    BY <2>2 DEF g, After, Outcome
  <2>4. h["x0x0"] + h["t1"] = w[0] + s[1]
    BY <2>1, <1>1, <1>3
  <2>5. "t1" \in DOMAIN h
    BY <1>4 DEF SqrKaratsubaTemps
  <2>6. /\ g["x1x1"] = s[2]
        /\ g["t1"] = w[0] + s[1]
    BY <2>1, <2>3, <2>4, <2>5
  <2>. QED
    BY <1>13, <2>6 DEF SqrKaratsubaAt
<1>14. CASE i = 10
  <2>1. /\ h["x1x1"] = s[2]
        /\ h["t1"] = w[0] + s[1]
    BY <1>14 DEF SqrKaratsubaAt
  <2>2. SqrKaratsuba[i] = << "c", "+", "t1", "x1x1" >>
    BY <1>14 DEF SqrKaratsuba
  <2>3. g = [h EXCEPT !["c"] = h["t1"] + h["x1x1"]]
    BY <2>2 DEF g, After, Outcome
  <2>4. h["t1"] + h["x1x1"] = w[0] + s[1] + s[2]
    BY <2>1, <1>1, <1>3
  <2>5. "c" \in DOMAIN h
    BY <1>4 DEF SqrKaratsubaTemps
  <2>6. /\ g["c"] = w[0] + s[1] + s[2]
    BY <2>1, <2>3, <2>4, <2>5
  <2>. QED
    BY <1>14, <2>6 DEF SqrKaratsubaAt
<1>. QED
  BY <1>5, <1>6, <1>7, <1>8, <1>9, <1>10, <1>11, <1>12, <1>13, <1>14

ToomProducts(x, y, w) ==
  /\ (y[2] + y[1] + y[0]) * (x[2] + x[1] + x[0]) = w[0] + w[1] + w[2] + w[3] + w[4]
  /\ (4 * x[2] + 2 * x[1] + x[0]) * (4 * y[2] + 2 * y[1] + y[0]) = w[0] + 2 * w[1] + 4 * w[2] + 8 * w[3] + 16 * w[4]
  /\ (x[2] - x[1] + x[0]) * (y[2] - y[1] + y[0]) = w[0] - w[1] + w[2] - w[3] + w[4]
  /\ x[2] * y[2] = w[4]
  /\ x[0] * y[0] = w[0]

ToomAt(i, h, x, y, w, s) ==
  /\ i \in 1 .. 23 => h["a0"] = x[0]
  /\ i \in 1 .. 13 => h["a1"] = x[1]
  /\ i \in 1 .. 18 => h["a2"] = x[2]
  /\ i \in 1 .. 23 => h["b0"] = y[0]
  /\ i \in 1 .. 15 => h["b1"] = y[1]
  /\ i \in 1 .. 18 => h["b2"] = y[2]
  /\ i \in 2 .. 6 => h["T1"] = x[2] + x[1]
  /\ i \in 3 .. 5 => h["S2"] = x[2] + x[1] + x[0]
  /\ i \in 4 .. 9 => h["c"] = y[2] + y[1]
  /\ i = 5 => h["S1"] = y[2] + y[1] + y[0]
  /\ i \in 6 .. 24 => h["S1"] = w[0] + w[1] + w[2] + w[3] + w[4]
  /\ i = 7 => h["T1"] = 2 * x[2] + x[1]
  /\ i = 8 => h["T1"] = 4 * x[2] + 2 * x[1]
  /\ i \in 9 .. 12 => h["T1"] = 4 * x[2] + 2 * x[1] + x[0]
  /\ i = 10 => h["c"] = 2 * y[2] + y[1]
  /\ i = 11 => h["c"] = 4 * y[2] + 2 * y[1]
  /\ i = 12 => h["c"] = 4 * y[2] + 2 * y[1] + y[0]
  /\ i \in 13 .. 19 => h["S2"] = w[0] + 2 * w[1] + 4 * w[2] + 8 * w[3] + 16 * w[4]
  /\ i = 14 => h["a1"] = x[2] - x[1]
  /\ i \in 15 .. 17 => h["a1"] = x[2] - x[1] + x[0]
  /\ i = 16 => h["b1"] = y[2] - y[1]
  /\ i = 17 => h["b1"] = y[2] - y[1] + y[0]
  /\ i \in 18 .. 21 => h["a1"] = w[0] - w[1] + w[2] - w[3] + w[4]
  /\ i \in 19 .. 32 => h["b1"] = w[4]
  /\ i = 20 => h["S2"] = 3 * w[1] + 3 * w[2] + 9 * w[3] + 15 * w[4]
  /\ i \in 21 .. 25 => h["S2"] = w[1] + w[2] + 3 * w[3] + 5 * w[4]
  /\ i = 22 => h["a1"] = 2 * w[1] + 2 * w[3]
  /\ i \in 23 .. 31 => h["a1"] = w[1] + w[3]
  /\ i \in 24 .. 39 => h["a0"] = w[0]
  /\ i \in 25 .. 27 => h["S1"] = w[1] + w[2] + w[3] + w[4]
  /\ i = 26 => h["S2"] = 2 * w[3] + 4 * w[4]
  /\ i \in 27 .. 30 => h["S2"] = w[3] + 2 * w[4]
  /\ i = 28 => h["S1"] = w[2] + w[4]
  /\ i \in 29 .. 35 => h["S1"] = w[2]
  /\ i = 30 => h["T1"] = 2 * w[4]
  /\ i \in 31 .. 33 => h["S2"] = w[3]
  /\ i \in 32 .. 37 => h["a1"] = w[1]
  /\ i \in 33 .. 34 => h["b1"] = s[4]
  /\ i = 34 => h["S2"] = s[3]
  /\ i \in 35 .. 36 => h["b1"] = s[4] + s[3]
  /\ i = 36 => h["S1"] = s[2]
  /\ i \in 37 .. 38 => h["b1"] = s[4] + s[3] + s[2]
  /\ i = 38 => h["a1"] = s[1]
  /\ i = 39 => h["b1"] = s[4] + s[3] + s[2] + s[1]
  /\ i = 40 => h["c"] = s[4] + s[3] + s[2] + s[1] + w[0]

LEMMA ToomStep ==
  ASSUME NEW h, ToomTemps \cup {"c"} \subseteq DOMAIN h, NEW part,
         NEW x \in [0 .. 2 -> Nat], NEW y \in [0 .. 2 -> Nat], NEW w \in [0 .. 4 -> Nat], NEW s \in [0 .. 4 -> Nat],
         ToomProducts(x, y, w), Shifted(w, s, part, 4),
         NEW i \in 1 .. 39, ToomAt(i, h, x, y, w, s)
  PROVE  ToomAt(i + 1, After(Toom[i], h, part), x, y, w, s)
<1>. DEFINE g == After(Toom[i], h, part)
<1>. SUFFICES ToomAt(i + 1, g, x, y, w, s)
  OBVIOUS
<1>1. x[0] \in Nat /\ x[1] \in Nat /\ x[2] \in Nat
  OBVIOUS
<1>2. y[0] \in Nat /\ y[1] \in Nat /\ y[2] \in Nat
  OBVIOUS
<1>3. /\ w[0] \in Nat /\ w[1] \in Nat /\ w[2] \in Nat /\ w[3] \in Nat /\ w[4] \in Nat
      /\ s[0] \in Nat /\ s[1] \in Nat /\ s[2] \in Nat /\ s[3] \in Nat /\ s[4] \in Nat
  OBVIOUS
<1>4. \A d \in ToomTemps \cup {"c"} : d \in DOMAIN h
  OBVIOUS
<1>. HIDE DEF g
<1>5. CASE i = 1
  <2>1. /\ h["a0"] = x[0]
        /\ h["a1"] = x[1]
        /\ h["a2"] = x[2]
        /\ h["b0"] = y[0]
        /\ h["b1"] = y[1]
        /\ h["b2"] = y[2]
    BY <1>5 DEF ToomAt
  <2>2. Toom[i] = << "T1", "+", "a2", "a1" >>
    BY <1>5 DEF Toom
  <2>3. g = [h EXCEPT !["T1"] = h["a2"] + h["a1"]]
    BY <2>2 DEF g, After, Outcome
  <2>4. h["a2"] + h["a1"] = x[2] + x[1]
    BY <2>1, <1>1, <1>2, <1>3
  <2>5. "T1" \in DOMAIN h
    BY <1>4 DEF ToomTemps
  <2>6. /\ g["a0"] = x[0]
        /\ g["a1"] = x[1]
        /\ g["a2"] = x[2]
        /\ g["b0"] = y[0]
        /\ g["b1"] = y[1]
        /\ g["b2"] = y[2]
        /\ g["T1"] = x[2] + x[1]
    BY <2>1, <2>3, <2>4, <2>5
  <2>. QED
    BY <1>5, <2>6 DEF ToomAt
<1>6. CASE i = 2
  <2>1. /\ h["a0"] = x[0]
        /\ h["a1"] = x[1]
        /\ h["a2"] = x[2]
        /\ h["b0"] = y[0]
        /\ h["b1"] = y[1]
        /\ h["b2"] = y[2]
        /\ h["T1"] = x[2] + x[1]
    BY <1>6 DEF ToomAt
  <2>2. Toom[i] = << "S2", "+", "T1", "a0" >>
    BY <1>6 DEF Toom
  <2>3. g = [h EXCEPT !["S2"] = h["T1"] + h["a0"]]
    BY <2>2 DEF g, After, Outcome
  <2>4. h["T1"] + h["a0"] = x[2] + x[1] + x[0]
    BY <2>1, <1>1, <1>2, <1>3
  <2>5. "S2" \in DOMAIN h
    BY <1>4 DEF ToomTemps
  <2>6. /\ g["a0"] = x[0]
        /\ g["a1"] = x[1]
        /\ g["a2"] = x[2]
        /\ g["b0"] = y[0]
        /\ g["b1"] = y[1]
        /\ g["b2"] = y[2]
        /\ g["T1"] = x[2] + x[1]
        /\ g["S2"] = x[2] + x[1] + x[0]
    BY <2>1, <2>3, <2>4, <2>5
  <2>. QED
    BY <1>6, <2>6 DEF ToomAt
<1>7. CASE i = 3
  <2>1. /\ h["a0"] = x[0]
        /\ h["a1"] = x[1]
        /\ h["a2"] = x[2]
        /\ h["b0"] = y[0]
        /\ h["b1"] = y[1]
        /\ h["b2"] = y[2]
        /\ h["T1"] = x[2] + x[1]
        /\ h["S2"] = x[2] + x[1] + x[0]
    BY <1>7 DEF ToomAt
  <2>2. Toom[i] = << "c", "+", "b2", "b1" >>
    BY <1>7 DEF Toom
  <2>3. g = [h EXCEPT !["c"] = h["b2"] + h["b1"]]
    BY <2>2 DEF g, After, Outcome
  <2>4. h["b2"] + h["b1"] = y[2] + y[1]
    BY <2>1, <1>1, <1>2, <1>3
  <2>5. "c" \in DOMAIN h
    BY <1>4 DEF ToomTemps
  <2>6. /\ g["a0"] = x[0]
        /\ g["a1"] = x[1]
        /\ g["a2"] = x[2]
        /\ g["b0"] = y[0]
        /\ g["b1"] = y[1]
        /\ g["b2"] = y[2]
        /\ g["T1"] = x[2] + x[1]
        /\ g["S2"] = x[2] + x[1] + x[0]
        /\ g["c"] = y[2] + y[1]
    BY <2>1, <2>3, <2>4, <2>5
  <2>. QED
    BY <1>7, <2>6 DEF ToomAt
<1>8. CASE i = 4
  <2>1. /\ h["a0"] = x[0]
        /\ h["a1"] = x[1]
        /\ h["a2"] = x[2]
        /\ h["b0"] = y[0]
        /\ h["b1"] = y[1]
        /\ h["b2"] = y[2]
        /\ h["T1"] = x[2] + x[1]
        /\ h["S2"] = x[2] + x[1] + x[0]
        /\ h["c"] = y[2] + y[1]
    BY <1>8 DEF ToomAt
  <2>2. Toom[i] = << "S1", "+", "c", "b0" >>
    BY <1>8 DEF Toom
  <2>3. g = [h EXCEPT !["S1"] = h["c"] + h["b0"]]
    BY <2>2 DEF g, After, Outcome
  <2>4. h["c"] + h["b0"] = y[2] + y[1] + y[0]
    BY <2>1, <1>1, <1>2, <1>3
  <2>5. "S1" \in DOMAIN h
    BY <1>4 DEF ToomTemps
  <2>6. /\ g["a0"] = x[0]
        /\ g["a1"] = x[1]
        /\ g["a2"] = x[2]
        /\ g["b0"] = y[0]
        /\ g["b1"] = y[1]
        /\ g["b2"] = y[2]
        /\ g["T1"] = x[2] + x[1]
        /\ g["S2"] = x[2] + x[1] + x[0]
        /\ g["c"] = y[2] + y[1]
        /\ g["S1"] = y[2] + y[1] + y[0]
    BY <2>1, <2>3, <2>4, <2>5
  <2>. QED
    BY <1>8, <2>6 DEF ToomAt
<1>9. CASE i = 5
  <2>1. /\ h["a0"] = x[0]
        /\ h["a1"] = x[1]
        /\ h["a2"] = x[2]
        /\ h["b0"] = y[0]
        /\ h["b1"] = y[1]
        /\ h["b2"] = y[2]
        /\ h["T1"] = x[2] + x[1]
        /\ h["S2"] = x[2] + x[1] + x[0]
        /\ h["c"] = y[2] + y[1]
        /\ h["S1"] = y[2] + y[1] + y[0]
    BY <1>9 DEF ToomAt
  <2>2. Toom[i] = << "S1", "*", "S1", "S2" >>
    BY <1>9 DEF Toom
  <2>3. g = [h EXCEPT !["S1"] = h["S1"] * h["S2"]]
    BY <2>2 DEF g, After, Outcome
  <2>4. h["S1"] * h["S2"] = w[0] + w[1] + w[2] + w[3] + w[4]
    BY <2>1 DEF ToomProducts
  <2>5. "S1" \in DOMAIN h
    BY <1>4 DEF ToomTemps
  <2>6. /\ g["a0"] = x[0]
        /\ g["a1"] = x[1]
        /\ g["a2"] = x[2]
        /\ g["b0"] = y[0]
        /\ g["b1"] = y[1]
        /\ g["b2"] = y[2]
        /\ g["T1"] = x[2] + x[1]
        /\ g["c"] = y[2] + y[1]
        /\ g["S1"] = w[0] + w[1] + w[2] + w[3] + w[4]
    BY <2>1, <2>3, <2>4, <2>5
  <2>. QED
    BY <1>9, <2>6 DEF ToomAt
<1>10. CASE i = 6
  <2>1. /\ h["a0"] = x[0]
        /\ h["a1"] = x[1]
        /\ h["a2"] = x[2]
        /\ h["b0"] = y[0]
        /\ h["b1"] = y[1]
        /\ h["b2"] = y[2]
        /\ h["T1"] = x[2] + x[1]
        /\ h["c"] = y[2] + y[1]
        /\ h["S1"] = w[0] + w[1] + w[2] + w[3] + w[4]
    BY <1>10 DEF ToomAt
  <2>2. Toom[i] = << "T1", "+", "T1", "a2" >>
    BY <1>10 DEF Toom
  <2>3. g = [h EXCEPT !["T1"] = h["T1"] + h["a2"]]
    BY <2>2 DEF g, After, Outcome
  <2>4. h["T1"] + h["a2"] = 2 * x[2] + x[1]
    BY <2>1, <1>1, <1>2, <1>3
  <2>5. "T1" \in DOMAIN h
    BY <1>4 DEF ToomTemps
  <2>6. /\ g["a0"] = x[0]
        /\ g["a1"] = x[1]
        /\ g["a2"] = x[2]
        /\ g["b0"] = y[0]
        /\ g["b1"] = y[1]
        /\ g["b2"] = y[2]
        /\ g["c"] = y[2] + y[1]
        /\ g["S1"] = w[0] + w[1] + w[2] + w[3] + w[4]
        /\ g["T1"] = 2 * x[2] + x[1]
    BY <2>1, <2>3, <2>4, <2>5
  <2>. QED
    BY <1>10, <2>6 DEF ToomAt
<1>11. CASE i = 7
  <2>1. /\ h["a0"] = x[0]
        /\ h["a1"] = x[1]
        /\ h["a2"] = x[2]
        /\ h["b0"] = y[0]
        /\ h["b1"] = y[1]
        /\ h["b2"] = y[2]
        /\ h["c"] = y[2] + y[1]
        /\ h["S1"] = w[0] + w[1] + w[2] + w[3] + w[4]
        /\ h["T1"] = 2 * x[2] + x[1]
    BY <1>11 DEF ToomAt
  <2>2. Toom[i] = << "T1", "+", "T1", "T1" >>
    BY <1>11 DEF Toom
  <2>3. g = [h EXCEPT !["T1"] = h["T1"] + h["T1"]]
    BY <2>2 DEF g, After, Outcome
  <2>4. h["T1"] + h["T1"] = 4 * x[2] + 2 * x[1]
    BY <2>1, <1>1, <1>2, <1>3
  <2>5. "T1" \in DOMAIN h
    BY <1>4 DEF ToomTemps
  <2>6. /\ g["a0"] = x[0]
        /\ g["a1"] = x[1]
        /\ g["a2"] = x[2]
        /\ g["b0"] = y[0]
        /\ g["b1"] = y[1]
        /\ g["b2"] = y[2]
        /\ g["c"] = y[2] + y[1]
        /\ g["S1"] = w[0] + w[1] + w[2] + w[3] + w[4]
        /\ g["T1"] = 4 * x[2] + 2 * x[1]
    BY <2>1, <2>3, <2>4, <2>5
  <2>. QED
    BY <1>11, <2>6 DEF ToomAt
<1>12. CASE i = 8
  <2>1. /\ h["a0"] = x[0]
        /\ h["a1"] = x[1]
        /\ h["a2"] = x[2]
        /\ h["b0"] = y[0]
        /\ h["b1"] = y[1]
        /\ h["b2"] = y[2]
        /\ h["c"] = y[2] + y[1]
        /\ h["S1"] = w[0] + w[1] + w[2] + w[3] + w[4]
        /\ h["T1"] = 4 * x[2] + 2 * x[1]
    BY <1>12 DEF ToomAt
  <2>2. Toom[i] = << "T1", "+", "T1", "a0" >>
    BY <1>12 DEF Toom
  <2>3. g = [h EXCEPT !["T1"] = h["T1"] + h["a0"]]
    BY <2>2 DEF g, After, Outcome
  <2>4. h["T1"] + h["a0"] = 4 * x[2] + 2 * x[1] + x[0]
    BY <2>1, <1>1, <1>2, <1>3
  <2>5. "T1" \in DOMAIN h
    BY <1>4 DEF ToomTemps
  <2>6. /\ g["a0"] = x[0]
        /\ g["a1"] = x[1]
        /\ g["a2"] = x[2]
        /\ g["b0"] = y[0]
        /\ g["b1"] = y[1]
        /\ g["b2"] = y[2]
        /\ g["c"] = y[2] + y[1]
        /\ g["S1"] = w[0] + w[1] + w[2] + w[3] + w[4]
        /\ g["T1"] = 4 * x[2] + 2 * x[1] + x[0]
    BY <2>1, <2>3, <2>4, <2>5
  <2>. QED
    BY <1>12, <2>6 DEF ToomAt
<1>13. CASE i = 9
  <2>1. /\ h["a0"] = x[0]
        /\ h["a1"] = x[1]
        /\ h["a2"] = x[2]
        /\ h["b0"] = y[0]
        /\ h["b1"] = y[1]
        /\ h["b2"] = y[2]
        /\ h["c"] = y[2] + y[1]
        /\ h["S1"] = w[0] + w[1] + w[2] + w[3] + w[4]
        /\ h["T1"] = 4 * x[2] + 2 * x[1] + x[0]
    BY <1>13 DEF ToomAt
  <2>2. Toom[i] = << "c", "+", "c", "b2" >>
    BY <1>13 DEF Toom
  <2>3. g = [h EXCEPT !["c"] = h["c"] + h["b2"]]
    BY <2>2 DEF g, After, Outcome
  <2>4. h["c"] + h["b2"] = 2 * y[2] + y[1]
    BY <2>1, <1>1, <1>2, <1>3
  <2>5. "c" \in DOMAIN h
    BY <1>4 DEF ToomTemps
  <2>6. /\ g["a0"] = x[0]
        /\ g["a1"] = x[1]
        /\ g["a2"] = x[2]
        /\ g["b0"] = y[0]
        /\ g["b1"] = y[1]
        /\ g["b2"] = y[2]
        /\ g["S1"] = w[0] + w[1] + w[2] + w[3] + w[4]
        /\ g["T1"] = 4 * x[2] + 2 * x[1] + x[0]
        /\ g["c"] = 2 * y[2] + y[1]
    BY <2>1, <2>3, <2>4, <2>5
  <2>. QED
    BY <1>13, <2>6 DEF ToomAt
<1>14. CASE i = 10
  <2>1. /\ h["a0"] = x[0]
        /\ h["a1"] = x[1]
        /\ h["a2"] = x[2]
        /\ h["b0"] = y[0]
        /\ h["b1"] = y[1]
        /\ h["b2"] = y[2]
        /\ h["S1"] = w[0] + w[1] + w[2] + w[3] + w[4]
        /\ h["T1"] = 4 * x[2] + 2 * x[1] + x[0]
        /\ h["c"] = 2 * y[2] + y[1]
    BY <1>14 DEF ToomAt
  <2>2. Toom[i] = << "c", "+", "c", "c" >>
    BY <1>14 DEF Toom
  <2>3. g = [h EXCEPT !["c"] = h["c"] + h["c"]]
    BY <2>2 DEF g, After, Outcome
  <2>4. h["c"] + h["c"] = 4 * y[2] + 2 * y[1]
    BY <2>1, <1>1, <1>2, <1>3
  <2>5. "c" \in DOMAIN h
    BY <1>4 DEF ToomTemps
  <2>6. /\ g["a0"] = x[0]
        /\ g["a1"] = x[1]
        /\ g["a2"] = x[2]
        /\ g["b0"] = y[0]
        /\ g["b1"] = y[1]
        /\ g["b2"] = y[2]
        /\ g["S1"] = w[0] + w[1] + w[2] + w[3] + w[4]
        /\ g["T1"] = 4 * x[2] + 2 * x[1] + x[0]
        /\ g["c"] = 4 * y[2] + 2 * y[1]
    BY <2>1, <2>3, <2>4, <2>5
  <2>. QED
    BY <1>14, <2>6 DEF ToomAt
<1>15. CASE i = 11
  <2>1. /\ h["a0"] = x[0]
        /\ h["a1"] = x[1]
        /\ h["a2"] = x[2]
        /\ h["b0"] = y[0]
        /\ h["b1"] = y[1]
        /\ h["b2"] = y[2]
        /\ h["S1"] = w[0] + w[1] + w[2] + w[3] + w[4]
        /\ h["T1"] = 4 * x[2] + 2 * x[1] + x[0]
        /\ h["c"] = 4 * y[2] + 2 * y[1]
    BY <1>15 DEF ToomAt
  <2>2. Toom[i] = << "c", "+", "c", "b0" >>
    BY <1>15 DEF Toom
  <2>3. g = [h EXCEPT !["c"] = h["c"] + h["b0"]]
    BY <2>2 DEF g, After, Outcome
  <2>4. h["c"] + h["b0"] = 4 * y[2] + 2 * y[1] + y[0]
    BY <2>1, <1>1, <1>2, <1>3
  <2>5. "c" \in DOMAIN h
    BY <1>4 DEF ToomTemps
  <2>6. /\ g["a0"] = x[0]
        /\ g["a1"] = x[1]
        /\ g["a2"] = x[2]
        /\ g["b0"] = y[0]
        /\ g["b1"] = y[1]
        /\ g["b2"] = y[2]
        /\ g["S1"] = w[0] + w[1] + w[2] + w[3] + w[4]
        /\ g["T1"] = 4 * x[2] + 2 * x[1] + x[0]
        /\ g["c"] = 4 * y[2] + 2 * y[1] + y[0]
    BY <2>1, <2>3, <2>4, <2>5
  <2>. QED
    BY <1>15, <2>6 DEF ToomAt
<1>16. CASE i = 12
  <2>1. /\ h["a0"] = x[0]
        /\ h["a1"] = x[1]
        /\ h["a2"] = x[2]
        /\ h["b0"] = y[0]
        /\ h["b1"] = y[1]
        /\ h["b2"] = y[2]
        /\ h["S1"] = w[0] + w[1] + w[2] + w[3] + w[4]
        /\ h["T1"] = 4 * x[2] + 2 * x[1] + x[0]
        /\ h["c"] = 4 * y[2] + 2 * y[1] + y[0]
    BY <1>16 DEF ToomAt
  <2>2. Toom[i] = << "S2", "*", "T1", "c" >>
    BY <1>16 DEF Toom
  <2>3. g = [h EXCEPT !["S2"] = h["T1"] * h["c"]]
    BY <2>2 DEF g, After, Outcome
  <2>4. h["T1"] * h["c"] = w[0] + 2 * w[1] + 4 * w[2] + 8 * w[3] + 16 * w[4]
    BY <2>1 DEF ToomProducts
  <2>5. "S2" \in DOMAIN h
    BY <1>4 DEF ToomTemps
  <2>6. /\ g["a0"] = x[0]
        /\ g["a1"] = x[1]
        /\ g["a2"] = x[2]
        /\ g["b0"] = y[0]
        /\ g["b1"] = y[1]
        /\ g["b2"] = y[2]
        /\ g["S1"] = w[0] + w[1] + w[2] + w[3] + w[4]
        /\ g["S2"] = w[0] + 2 * w[1] + 4 * w[2] + 8 * w[3] + 16 * w[4]
    BY <2>1, <2>3, <2>4, <2>5
  <2>. QED
    BY <1>16, <2>6 DEF ToomAt
<1>17. CASE i = 13
  <2>1. /\ h["a0"] = x[0]
        /\ h["a1"] = x[1]
        /\ h["a2"] = x[2]
        /\ h["b0"] = y[0]
        /\ h["b1"] = y[1]
        /\ h["b2"] = y[2]
        /\ h["S1"] = w[0] + w[1] + w[2] + w[3] + w[4]
        /\ h["S2"] = w[0] + 2 * w[1] + 4 * w[2] + 8 * w[3] + 16 * w[4]
    BY <1>17 DEF ToomAt
  <2>2. Toom[i] = << "a1", "-", "a2", "a1" >>
    BY <1>17 DEF Toom
  <2>3. g = [h EXCEPT !["a1"] = h["a2"] - h["a1"]]
    BY <2>2 DEF g, After, Outcome
  <2>4. h["a2"] - h["a1"] = x[2] - x[1]
    BY <2>1, <1>1, <1>2, <1>3
  <2>5. "a1" \in DOMAIN h
    BY <1>4 DEF ToomTemps
  <2>6. /\ g["a0"] = x[0]
        /\ g["a2"] = x[2]
        /\ g["b0"] = y[0]
        /\ g["b1"] = y[1]
        /\ g["b2"] = y[2]
        /\ g["S1"] = w[0] + w[1] + w[2] + w[3] + w[4]
        /\ g["S2"] = w[0] + 2 * w[1] + 4 * w[2] + 8 * w[3] + 16 * w[4]
        /\ g["a1"] = x[2] - x[1]
    BY <2>1, <2>3, <2>4, <2>5
  <2>. QED
    BY <1>17, <2>6 DEF ToomAt
<1>18. CASE i = 14
  <2>1. /\ h["a0"] = x[0]
        /\ h["a2"] = x[2]
        /\ h["b0"] = y[0]
        /\ h["b1"] = y[1]
        /\ h["b2"] = y[2]
        /\ h["S1"] = w[0] + w[1] + w[2] + w[3] + w[4]
        /\ h["S2"] = w[0] + 2 * w[1] + 4 * w[2] + 8 * w[3] + 16 * w[4]
        /\ h["a1"] = x[2] - x[1]
    BY <1>18 DEF ToomAt
  <2>2. Toom[i] = << "a1", "+", "a1", "a0" >>
    BY <1>18 DEF Toom
  <2>3. g = [h EXCEPT !["a1"] = h["a1"] + h["a0"]]
    BY <2>2 DEF g, After, Outcome
  <2>4. h["a1"] + h["a0"] = x[2] - x[1] + x[0]
    BY <2>1, <1>1, <1>2, <1>3
  <2>5. "a1" \in DOMAIN h
    BY <1>4 DEF ToomTemps
  <2>6. /\ g["a0"] = x[0]
        /\ g["a2"] = x[2]
        /\ g["b0"] = y[0]
        /\ g["b1"] = y[1]
        /\ g["b2"] = y[2]
        /\ g["S1"] = w[0] + w[1] + w[2] + w[3] + w[4]
        /\ g["S2"] = w[0] + 2 * w[1] + 4 * w[2] + 8 * w[3] + 16 * w[4]
        /\ g["a1"] = x[2] - x[1] + x[0]
    BY <2>1, <2>3, <2>4, <2>5
  <2>. QED
    BY <1>18, <2>6 DEF ToomAt
<1>19. CASE i = 15
  <2>1. /\ h["a0"] = x[0]
        /\ h["a2"] = x[2]
        /\ h["b0"] = y[0]
        /\ h["b1"] = y[1]
        /\ h["b2"] = y[2]
        /\ h["S1"] = w[0] + w[1] + w[2] + w[3] + w[4]
        /\ h["S2"] = w[0] + 2 * w[1] + 4 * w[2] + 8 * w[3] + 16 * w[4]
        /\ h["a1"] = x[2] - x[1] + x[0]
    BY <1>19 DEF ToomAt
  <2>2. Toom[i] = << "b1", "-", "b2", "b1" >>
    BY <1>19 DEF Toom
  <2>3. g = [h EXCEPT !["b1"] = h["b2"] - h["b1"]]
    BY <2>2 DEF g, After, Outcome
  <2>4. h["b2"] - h["b1"] = y[2] - y[1]
    BY <2>1, <1>1, <1>2, <1>3
  <2>5. "b1" \in DOMAIN h
    BY <1>4 DEF ToomTemps
  <2>6. /\ g["a0"] = x[0]
        /\ g["a2"] = x[2]
        /\ g["b0"] = y[0]
        /\ g["b2"] = y[2]
        /\ g["S1"] = w[0] + w[1] + w[2] + w[3] + w[4]
        /\ g["S2"] = w[0] + 2 * w[1] + 4 * w[2] + 8 * w[3] + 16 * w[4]
        /\ g["a1"] = x[2] - x[1] + x[0]
        /\ g["b1"] = y[2] - y[1]
    BY <2>1, <2>3, <2>4, <2>5
  <2>. QED
    BY <1>19, <2>6 DEF ToomAt
<1>20. CASE i = 16
  <2>1. /\ h["a0"] = x[0]
        /\ h["a2"] = x[2]
        /\ h["b0"] = y[0]
        /\ h["b2"] = y[2]
        /\ h["S1"] = w[0] + w[1] + w[2] + w[3] + w[4]
        /\ h["S2"] = w[0] + 2 * w[1] + 4 * w[2] + 8 * w[3] + 16 * w[4]
        /\ h["a1"] = x[2] - x[1] + x[0]
        /\ h["b1"] = y[2] - y[1]
    BY <1>20 DEF ToomAt
  <2>2. Toom[i] = << "b1", "+", "b1", "b0" >>
    BY <1>20 DEF Toom
  <2>3. g = [h EXCEPT !["b1"] = h["b1"] + h["b0"]]
    BY <2>2 DEF g, After, Outcome
  <2>4. h["b1"] + h["b0"] = y[2] - y[1] + y[0]
    BY <2>1, <1>1, <1>2, <1>3
  <2>5. "b1" \in DOMAIN h
    BY <1>4 DEF ToomTemps
  <2>6. /\ g["a0"] = x[0]
        /\ g["a2"] = x[2]
        /\ g["b0"] = y[0]
        /\ g["b2"] = y[2]
        /\ g["S1"] = w[0] + w[1] + w[2] + w[3] + w[4]
        /\ g["S2"] = w[0] + 2 * w[1] + 4 * w[2] + 8 * w[3] + 16 * w[4]
        /\ g["a1"] = x[2] - x[1] + x[0]
        /\ g["b1"] = y[2] - y[1] + y[0]
    BY <2>1, <2>3, <2>4, <2>5
  <2>. QED
    BY <1>20, <2>6 DEF ToomAt
<1>21. CASE i = 17
  <2>1. /\ h["a0"] = x[0]
        /\ h["a2"] = x[2]
        /\ h["b0"] = y[0]
        /\ h["b2"] = y[2]
        /\ h["S1"] = w[0] + w[1] + w[2] + w[3] + w[4]
        /\ h["S2"] = w[0] + 2 * w[1] + 4 * w[2] + 8 * w[3] + 16 * w[4]
        /\ h["a1"] = x[2] - x[1] + x[0]
        /\ h["b1"] = y[2] - y[1] + y[0]
    BY <1>21 DEF ToomAt
  <2>2. Toom[i] = << "a1", "*", "a1", "b1" >>
    BY <1>21 DEF Toom
  <2>3. g = [h EXCEPT !["a1"] = h["a1"] * h["b1"]]
    BY <2>2 DEF g, After, Outcome
  <2>4. h["a1"] * h["b1"] = w[0] - w[1] + w[2] - w[3] + w[4]
    BY <2>1 DEF ToomProducts
  <2>5. "a1" \in DOMAIN h
    BY <1>4 DEF ToomTemps
  <2>6. /\ g["a0"] = x[0]
        /\ g["a2"] = x[2]
        /\ g["b0"] = y[0]
        /\ g["b2"] = y[2]
        /\ g["S1"] = w[0] + w[1] + w[2] + w[3] + w[4]
        /\ g["S2"] = w[0] + 2 * w[1] + 4 * w[2] + 8 * w[3] + 16 * w[4]
        /\ g["a1"] = w[0] - w[1] + w[2] - w[3] + w[4]
    BY <2>1, <2>3, <2>4, <2>5
  <2>. QED
    BY <1>21, <2>6 DEF ToomAt
<1>22. CASE i = 18
  <2>1. /\ h["a0"] = x[0]
        /\ h["a2"] = x[2]
        /\ h["b0"] = y[0]
        /\ h["b2"] = y[2]
        /\ h["S1"] = w[0] + w[1] + w[2] + w[3] + w[4]
        /\ h["S2"] = w[0] + 2 * w[1] + 4 * w[2] + 8 * w[3] + 16 * w[4]
        /\ h["a1"] = w[0] - w[1] + w[2] - w[3] + w[4]
    BY <1>22 DEF ToomAt
  <2>2. Toom[i] = << "b1", "*", "a2", "b2" >>
    BY <1>22 DEF Toom
  <2>3. g = [h EXCEPT !["b1"] = h["a2"] * h["b2"]]
    BY <2>2 DEF g, After, Outcome
  <2>4. h["a2"] * h["b2"] = w[4]
    BY <2>1 DEF ToomProducts
  <2>5. "b1" \in DOMAIN h
    BY <1>4 DEF ToomTemps
  <2>6. /\ g["a0"] = x[0]
        /\ g["b0"] = y[0]
        /\ g["S1"] = w[0] + w[1] + w[2] + w[3] + w[4]
        /\ g["S2"] = w[0] + 2 * w[1] + 4 * w[2] + 8 * w[3] + 16 * w[4]
        /\ g["a1"] = w[0] - w[1] + w[2] - w[3] + w[4]
        /\ g["b1"] = w[4]
    BY <2>1, <2>3, <2>4, <2>5
  <2>. QED
    BY <1>22, <2>6 DEF ToomAt
<1>23. CASE i = 19
  <2>1. /\ h["a0"] = x[0]
        /\ h["b0"] = y[0]
        /\ h["S1"] = w[0] + w[1] + w[2] + w[3] + w[4]
        /\ h["S2"] = w[0] + 2 * w[1] + 4 * w[2] + 8 * w[3] + 16 * w[4]
        /\ h["a1"] = w[0] - w[1] + w[2] - w[3] + w[4]
        /\ h["b1"] = w[4]
    BY <1>23 DEF ToomAt
  <2>2. Toom[i] = << "S2", "-", "S2", "a1" >>
    BY <1>23 DEF Toom
  <2>3. g = [h EXCEPT !["S2"] = h["S2"] - h["a1"]]
    BY <2>2 DEF g, After, Outcome
  <2>4. h["S2"] - h["a1"] = 3 * w[1] + 3 * w[2] + 9 * w[3] + 15 * w[4]
    BY <2>1, <1>1, <1>2, <1>3
  <2>5. "S2" \in DOMAIN h
    BY <1>4 DEF ToomTemps
  <2>6. /\ g["a0"] = x[0]
        /\ g["b0"] = y[0]
        /\ g["S1"] = w[0] + w[1] + w[2] + w[3] + w[4]
        /\ g["a1"] = w[0] - w[1] + w[2] - w[3] + w[4]
        /\ g["b1"] = w[4]
        /\ g["S2"] = 3 * w[1] + 3 * w[2] + 9 * w[3] + 15 * w[4]
    BY <2>1, <2>3, <2>4, <2>5
  <2>. QED
    BY <1>23, <2>6 DEF ToomAt
<1>24. CASE i = 20
  <2>1. /\ h["a0"] = x[0]
        /\ h["b0"] = y[0]
        /\ h["S1"] = w[0] + w[1] + w[2] + w[3] + w[4]
        /\ h["a1"] = w[0] - w[1] + w[2] - w[3] + w[4]
        /\ h["b1"] = w[4]
        /\ h["S2"] = 3 * w[1] + 3 * w[2] + 9 * w[3] + 15 * w[4]
    BY <1>24 DEF ToomAt
  <2>2. Toom[i] = << "S2", "div", "S2", 3 >>
    BY <1>24 DEF Toom
  <2>3. g = [h EXCEPT !["S2"] = Quotient(h["S2"], 3)]
    BY <2>2 DEF g, After, Outcome
  <2>4. Quotient(h["S2"], 3) = w[1] + w[2] + 3 * w[3] + 5 * w[4]
    BY <2>1, <1>1, <1>2, <1>3, QuotientExact
  <2>5. "S2" \in DOMAIN h
    BY <1>4 DEF ToomTemps
  <2>6. /\ g["a0"] = x[0]
        /\ g["b0"] = y[0]
        /\ g["S1"] = w[0] + w[1] + w[2] + w[3] + w[4]
        /\ g["a1"] = w[0] - w[1] + w[2] - w[3] + w[4]
        /\ g["b1"] = w[4]
        /\ g["S2"] = w[1] + w[2] + 3 * w[3] + 5 * w[4]
    BY <2>1, <2>3, <2>4, <2>5
  <2>. QED
    BY <1>24, <2>6 DEF ToomAt
<1>25. CASE i = 21
  <2>1. /\ h["a0"] = x[0]
        /\ h["b0"] = y[0]
        /\ h["S1"] = w[0] + w[1] + w[2] + w[3] + w[4]
        /\ h["a1"] = w[0] - w[1] + w[2] - w[3] + w[4]
        /\ h["b1"] = w[4]
        /\ h["S2"] = w[1] + w[2] + 3 * w[3] + 5 * w[4]
    BY <1>25 DEF ToomAt
  <2>2. Toom[i] = << "a1", "-", "S1", "a1" >>
    BY <1>25 DEF Toom
  <2>3. g = [h EXCEPT !["a1"] = h["S1"] - h["a1"]]
    BY <2>2 DEF g, After, Outcome
  <2>4. h["S1"] - h["a1"] = 2 * w[1] + 2 * w[3]
    BY <2>1, <1>1, <1>2, <1>3
  <2>5. "a1" \in DOMAIN h
    BY <1>4 DEF ToomTemps
  <2>6. /\ g["a0"] = x[0]
        /\ g["b0"] = y[0]
        /\ g["S1"] = w[0] + w[1] + w[2] + w[3] + w[4]
        /\ g["b1"] = w[4]
        /\ g["S2"] = w[1] + w[2] + 3 * w[3] + 5 * w[4]
        /\ g["a1"] = 2 * w[1] + 2 * w[3]
    BY <2>1, <2>3, <2>4, <2>5
  <2>. QED
    BY <1>25, <2>6 DEF ToomAt
<1>26. CASE i = 22
  <2>1. /\ h["a0"] = x[0]
        /\ h["b0"] = y[0]
        /\ h["S1"] = w[0] + w[1] + w[2] + w[3] + w[4]
        /\ h["b1"] = w[4]
        /\ h["S2"] = w[1] + w[2] + 3 * w[3] + 5 * w[4]
        /\ h["a1"] = 2 * w[1] + 2 * w[3]
    BY <1>26 DEF ToomAt
  <2>2. Toom[i] = << "a1", "div", "a1", 2 >>
    BY <1>26 DEF Toom
  <2>3. g = [h EXCEPT !["a1"] = Quotient(h["a1"], 2)]
    BY <2>2 DEF g, After, Outcome
  <2>4. Quotient(h["a1"], 2) = w[1] + w[3]
    BY <2>1, <1>1, <1>2, <1>3, QuotientExact
  <2>5. "a1" \in DOMAIN h
    BY <1>4 DEF ToomTemps
  <2>6. /\ g["a0"] = x[0]
        /\ g["b0"] = y[0]
        /\ g["S1"] = w[0] + w[1] + w[2] + w[3] + w[4]
        /\ g["b1"] = w[4]
        /\ g["S2"] = w[1] + w[2] + 3 * w[3] + 5 * w[4]
        /\ g["a1"] = w[1] + w[3]
    BY <2>1, <2>3, <2>4, <2>5
  <2>. QED
    BY <1>26, <2>6 DEF ToomAt
<1>27. CASE i = 23
  <2>1. /\ h["a0"] = x[0]
        /\ h["b0"] = y[0]
        /\ h["S1"] = w[0] + w[1] + w[2] + w[3] + w[4]
        /\ h["b1"] = w[4]
        /\ h["S2"] = w[1] + w[2] + 3 * w[3] + 5 * w[4]
        /\ h["a1"] = w[1] + w[3]
    BY <1>27 DEF ToomAt
  <2>2. Toom[i] = << "a0", "*", "a0", "b0" >>
    BY <1>27 DEF Toom
  <2>3. g = [h EXCEPT !["a0"] = h["a0"] * h["b0"]]
    BY <2>2 DEF g, After, Outcome
  <2>4. h["a0"] * h["b0"] = w[0]
    BY <2>1 DEF ToomProducts
  <2>5. "a0" \in DOMAIN h
    BY <1>4 DEF ToomTemps
  <2>6. /\ g["S1"] = w[0] + w[1] + w[2] + w[3] + w[4]
        /\ g["b1"] = w[4]
        /\ g["S2"] = w[1] + w[2] + 3 * w[3] + 5 * w[4]
        /\ g["a1"] = w[1] + w[3]
        /\ g["a0"] = w[0]
    BY <2>1, <2>3, <2>4, <2>5
  <2>. QED
    BY <1>27, <2>6 DEF ToomAt
<1>28. CASE i = 24
  <2>1. /\ h["S1"] = w[0] + w[1] + w[2] + w[3] + w[4]
        /\ h["b1"] = w[4]
        /\ h["S2"] = w[1] + w[2] + 3 * w[3] + 5 * w[4]
        /\ h["a1"] = w[1] + w[3]
        /\ h["a0"] = w[0]
    BY <1>28 DEF ToomAt
  <2>2. Toom[i] = << "S1", "-", "S1", "a0" >>
    BY <1>28 DEF Toom
  <2>3. g = [h EXCEPT !["S1"] = h["S1"] - h["a0"]]
    BY <2>2 DEF g, After, Outcome
  <2>4. h["S1"] - h["a0"] = w[1] + w[2] + w[3] + w[4]
    BY <2>1, <1>1, <1>2, <1>3
  <2>5. "S1" \in DOMAIN h
    BY <1>4 DEF ToomTemps
  <2>6. /\ g["b1"] = w[4]
        /\ g["S2"] = w[1] + w[2] + 3 * w[3] + 5 * w[4]
        /\ g["a1"] = w[1] + w[3]
        /\ g["a0"] = w[0]
        /\ g["S1"] = w[1] + w[2] + w[3] + w[4]
    BY <2>1, <2>3, <2>4, <2>5
  <2>. QED
    BY <1>28, <2>6 DEF ToomAt
<1>29. CASE i = 25
  <2>1. /\ h["b1"] = w[4]
        /\ h["S2"] = w[1] + w[2] + 3 * w[3] + 5 * w[4]
        /\ h["a1"] = w[1] + w[3]
        /\ h["a0"] = w[0]
        /\ h["S1"] = w[1] + w[2] + w[3] + w[4]
    BY <1>29 DEF ToomAt
  <2>2. Toom[i] = << "S2", "-", "S2", "S1" >>
    BY <1>29 DEF Toom
  <2>3. g = [h EXCEPT !["S2"] = h["S2"] - h["S1"]]
    BY <2>2 DEF g, After, Outcome
  <2>4. h["S2"] - h["S1"] = 2 * w[3] + 4 * w[4]
    BY <2>1, <1>1, <1>2, <1>3
  <2>5. "S2" \in DOMAIN h
    BY <1>4 DEF ToomTemps
  <2>6. /\ g["b1"] = w[4]
        /\ g["a1"] = w[1] + w[3]
        /\ g["a0"] = w[0]
        /\ g["S1"] = w[1] + w[2] + w[3] + w[4]
        /\ g["S2"] = 2 * w[3] + 4 * w[4]
    BY <2>1, <2>3, <2>4, <2>5
  <2>. QED
    BY <1>29, <2>6 DEF ToomAt
<1>30. CASE i = 26
  <2>1. /\ h["b1"] = w[4]
        /\ h["a1"] = w[1] + w[3]
        /\ h["a0"] = w[0]
        /\ h["S1"] = w[1] + w[2] + w[3] + w[4]
        /\ h["S2"] = 2 * w[3] + 4 * w[4]
    BY <1>30 DEF ToomAt
  <2>2. Toom[i] = << "S2", "div", "S2", 2 >>
    BY <1>30 DEF Toom
  <2>3. g = [h EXCEPT !["S2"] = Quotient(h["S2"], 2)]
    BY <2>2 DEF g, After, Outcome
  <2>4. Quotient(h["S2"], 2) = w[3] + 2 * w[4]
    BY <2>1, <1>1, <1>2, <1>3, QuotientExact
  <2>5. "S2" \in DOMAIN h
    BY <1>4 DEF ToomTemps
  <2>6. /\ g["b1"] = w[4]
        /\ g["a1"] = w[1] + w[3]
        /\ g["a0"] = w[0]
        /\ g["S1"] = w[1] + w[2] + w[3] + w[4]
        /\ g["S2"] = w[3] + 2 * w[4]
    BY <2>1, <2>3, <2>4, <2>5
  <2>. QED
    BY <1>30, <2>6 DEF ToomAt
<1>31. CASE i = 27
  <2>1. /\ h["b1"] = w[4]
        /\ h["a1"] = w[1] + w[3]
        /\ h["a0"] = w[0]
        /\ h["S1"] = w[1] + w[2] + w[3] + w[4]
        /\ h["S2"] = w[3] + 2 * w[4]
    BY <1>31 DEF ToomAt
  <2>2. Toom[i] = << "S1", "-", "S1", "a1" >>
    BY <1>31 DEF Toom
  <2>3. g = [h EXCEPT !["S1"] = h["S1"] - h["a1"]]
    BY <2>2 DEF g, After, Outcome
  <2>4. h["S1"] - h["a1"] = w[2] + w[4]
    BY <2>1, <1>1, <1>2, <1>3
  <2>5. "S1" \in DOMAIN h
    BY <1>4 DEF ToomTemps
  <2>6. /\ g["b1"] = w[4]
        /\ g["a1"] = w[1] + w[3]
        /\ g["a0"] = w[0]
        /\ g["S2"] = w[3] + 2 * w[4]
        /\ g["S1"] = w[2] + w[4]
    BY <2>1, <2>3, <2>4, <2>5
  <2>. QED
    BY <1>31, <2>6 DEF ToomAt
<1>32. CASE i = 28
  <2>1. /\ h["b1"] = w[4]
        /\ h["a1"] = w[1] + w[3]
        /\ h["a0"] = w[0]
        /\ h["S2"] = w[3] + 2 * w[4]
        /\ h["S1"] = w[2] + w[4]
    BY <1>32 DEF ToomAt
  <2>2. Toom[i] = << "S1", "-", "S1", "b1" >>
    BY <1>32 DEF Toom
  <2>3. g = [h EXCEPT !["S1"] = h["S1"] - h["b1"]]
    BY <2>2 DEF g, After, Outcome
  <2>4. h["S1"] - h["b1"] = w[2]
    BY <2>1, <1>1, <1>2, <1>3
  <2>5. "S1" \in DOMAIN h
    BY <1>4 DEF ToomTemps
  <2>6. /\ g["b1"] = w[4]
        /\ g["a1"] = w[1] + w[3]
        /\ g["a0"] = w[0]
        /\ g["S2"] = w[3] + 2 * w[4]
        /\ g["S1"] = w[2]
    BY <2>1, <2>3, <2>4, <2>5
  <2>. QED
    BY <1>32, <2>6 DEF ToomAt
<1>33. CASE i = 29
  <2>1. /\ h["b1"] = w[4]
        /\ h["a1"] = w[1] + w[3]
        /\ h["a0"] = w[0]
        /\ h["S2"] = w[3] + 2 * w[4]
        /\ h["S1"] = w[2]
    BY <1>33 DEF ToomAt
  <2>2. Toom[i] = << "T1", "+", "b1", "b1" >>
    BY <1>33 DEF Toom
  <2>3. g = [h EXCEPT !["T1"] = h["b1"] + h["b1"]]
    BY <2>2 DEF g, After, Outcome
  <2>4. h["b1"] + h["b1"] = 2 * w[4]
    BY <2>1, <1>1, <1>2, <1>3
  <2>5. "T1" \in DOMAIN h
    BY <1>4 DEF ToomTemps
  <2>6. /\ g["b1"] = w[4]
        /\ g["a1"] = w[1] + w[3]
        /\ g["a0"] = w[0]
        /\ g["S2"] = w[3] + 2 * w[4]
        /\ g["S1"] = w[2]
        /\ g["T1"] = 2 * w[4]
    BY <2>1, <2>3, <2>4, <2>5
  <2>. QED
    BY <1>33, <2>6 DEF ToomAt
<1>34. CASE i = 30
  <2>1. /\ h["b1"] = w[4]
        /\ h["a1"] = w[1] + w[3]
        /\ h["a0"] = w[0]
        /\ h["S2"] = w[3] + 2 * w[4]
        /\ h["S1"] = w[2]
        /\ h["T1"] = 2 * w[4]
    BY <1>34 DEF ToomAt
  <2>2. Toom[i] = << "S2", "-", "S2", "T1" >>
    BY <1>34 DEF Toom
  <2>3. g = [h EXCEPT !["S2"] = h["S2"] - h["T1"]]
    BY <2>2 DEF g, After, Outcome
  <2>4. h["S2"] - h["T1"] = w[3]
    BY <2>1, <1>1, <1>2, <1>3
  <2>5. "S2" \in DOMAIN h
    BY <1>4 DEF ToomTemps
  <2>6. /\ g["b1"] = w[4]
        /\ g["a1"] = w[1] + w[3]
        /\ g["a0"] = w[0]
        /\ g["S1"] = w[2]
        /\ g["S2"] = w[3]
    BY <2>1, <2>3, <2>4, <2>5
  <2>. QED
    BY <1>34, <2>6 DEF ToomAt
<1>35. CASE i = 31
  <2>1. /\ h["b1"] = w[4]
        /\ h["a1"] = w[1] + w[3]
        /\ h["a0"] = w[0]
        /\ h["S1"] = w[2]
        /\ h["S2"] = w[3]
    BY <1>35 DEF ToomAt
  <2>2. Toom[i] = << "a1", "-", "a1", "S2" >>
    BY <1>35 DEF Toom
  <2>3. g = [h EXCEPT !["a1"] = h["a1"] - h["S2"]]
    BY <2>2 DEF g, After, Outcome
  <2>4. h["a1"] - h["S2"] = w[1]
    BY <2>1, <1>1, <1>2, <1>3
  <2>5. "a1" \in DOMAIN h
    BY <1>4 DEF ToomTemps
  <2>6. /\ g["b1"] = w[4]
        /\ g["a0"] = w[0]
        /\ g["S1"] = w[2]
        /\ g["S2"] = w[3]
        /\ g["a1"] = w[1]
    BY <2>1, <2>3, <2>4, <2>5
  <2>. QED
    BY <1>35, <2>6 DEF ToomAt
<1>36. CASE i = 32
  <2>1. /\ h["b1"] = w[4]
        /\ h["a0"] = w[0]
        /\ h["S1"] = w[2]
        /\ h["S2"] = w[3]
        /\ h["a1"] = w[1]
    BY <1>36 DEF ToomAt
  <2>2. Toom[i] = << "b1", "lshd", "b1", 4 >>
    BY <1>36 DEF Toom
  <2>3. g = [h EXCEPT !["b1"] = h["b1"] * Weight(part * 4)]
    BY <2>2 DEF g, After, Outcome
  <2>4. h["b1"] * Weight(part * 4) = s[4]
    BY <2>1 DEF Shifted
  <2>5. "b1" \in DOMAIN h
    BY <1>4 DEF ToomTemps
  <2>6. /\ g["a0"] = w[0]
        /\ g["S1"] = w[2]
        /\ g["S2"] = w[3]
        /\ g["a1"] = w[1]
        /\ g["b1"] = s[4]
    BY <2>1, <2>3, <2>4, <2>5
  <2>. QED
    BY <1>36, <2>6 DEF ToomAt
<1>37. CASE i = 33
  <2>1. /\ h["a0"] = w[0]
        /\ h["S1"] = w[2]
        /\ h["S2"] = w[3]
        /\ h["a1"] = w[1]
        /\ h["b1"] = s[4]
    BY <1>37 DEF ToomAt
  <2>2. Toom[i] = << "S2", "lshd", "S2", 3 >>
    BY <1>37 DEF Toom
  <2>3. g = [h EXCEPT !["S2"] = h["S2"] * Weight(part * 3)]
    BY <2>2 DEF g, After, Outcome
  <2>4. h["S2"] * Weight(part * 3) = s[3]
    BY <2>1 DEF Shifted
  <2>5. "S2" \in DOMAIN h
    BY <1>4 DEF ToomTemps
  <2>6. /\ g["a0"] = w[0]
        /\ g["S1"] = w[2]
        /\ g["a1"] = w[1]
        /\ g["b1"] = s[4]
        /\ g["S2"] = s[3]
    BY <2>1, <2>3, <2>4, <2>5
  <2>. QED
    BY <1>37, <2>6 DEF ToomAt
<1>38. CASE i = 34
  <2>1. /\ h["a0"] = w[0]
        /\ h["S1"] = w[2]
        /\ h["a1"] = w[1]
        /\ h["b1"] = s[4]
        /\ h["S2"] = s[3]
    BY <1>38 DEF ToomAt
  <2>2. Toom[i] = << "b1", "+", "b1", "S2" >>
    BY <1>38 DEF Toom
  <2>3. g = [h EXCEPT !["b1"] = h["b1"] + h["S2"]]
    BY <2>2 DEF g, After, Outcome
  <2>4. h["b1"] + h["S2"] = s[4] + s[3]
    BY <2>1, <1>1, <1>2, <1>3
  <2>5. "b1" \in DOMAIN h
    BY <1>4 DEF ToomTemps
  <2>6. /\ g["a0"] = w[0]
        /\ g["S1"] = w[2]
        /\ g["a1"] = w[1]
        /\ g["b1"] = s[4] + s[3]
    BY <2>1, <2>3, <2>4, <2>5
  <2>. QED
    BY <1>38, <2>6 DEF ToomAt
<1>39. CASE i = 35
  <2>1. /\ h["a0"] = w[0]
        /\ h["S1"] = w[2]
        /\ h["a1"] = w[1]
        /\ h["b1"] = s[4] + s[3]
    BY <1>39 DEF ToomAt
  <2>2. Toom[i] = << "S1", "lshd", "S1", 2 >>
    BY <1>39 DEF Toom
  <2>3. g = [h EXCEPT !["S1"] = h["S1"] * Weight(part * 2)]
    BY <2>2 DEF g, After, Outcome
  <2>4. h["S1"] * Weight(part * 2) = s[2]
    BY <2>1 DEF Shifted
  <2>5. "S1" \in DOMAIN h
    BY <1>4 DEF ToomTemps
  <2>6. /\ g["a0"] = w[0]
        /\ g["a1"] = w[1]
        /\ g["b1"] = s[4] + s[3]
        /\ g["S1"] = s[2]
    BY <2>1, <2>3, <2>4, <2>5
  <2>. QED
    BY <1>39, <2>6 DEF ToomAt
<1>40. CASE i = 36
  <2>1. /\ h["a0"] = w[0]
        /\ h["a1"] = w[1]
        /\ h["b1"] = s[4] + s[3]
        /\ h["S1"] = s[2]
    BY <1>40 DEF ToomAt
  <2>2. Toom[i] = << "b1", "+", "b1", "S1" >>
    BY <1>40 DEF Toom
  <2>3. g = [h EXCEPT !["b1"] = h["b1"] + h["S1"]]
    BY <2>2 DEF g, After, Outcome
  <2>4. h["b1"] + h["S1"] = s[4] + s[3] + s[2]
    BY <2>1, <1>1, <1>2, <1>3
  <2>5. "b1" \in DOMAIN h
    BY <1>4 DEF ToomTemps
  <2>6. /\ g["a0"] = w[0]
        /\ g["a1"] = w[1]
        /\ g["b1"] = s[4] + s[3] + s[2]
    BY <2>1, <2>3, <2>4, <2>5
  <2>. QED
    BY <1>40, <2>6 DEF ToomAt
<1>41. CASE i = 37
  <2>1. /\ h["a0"] = w[0]
        /\ h["a1"] = w[1]
        /\ h["b1"] = s[4] + s[3] + s[2]
    BY <1>41 DEF ToomAt
  <2>2. Toom[i] = << "a1", "lshd", "a1", 1 >>
    BY <1>41 DEF Toom
  <2>3. g = [h EXCEPT !["a1"] = h["a1"] * Weight(part * 1)]
    BY <2>2 DEF g, After, Outcome
  <2>4. h["a1"] * Weight(part * 1) = s[1]
    BY <2>1 DEF Shifted
  <2>5. "a1" \in DOMAIN h
    BY <1>4 DEF ToomTemps
  <2>6. /\ g["a0"] = w[0]
        /\ g["b1"] = s[4] + s[3] + s[2]
        /\ g["a1"] = s[1]
    BY <2>1, <2>3, <2>4, <2>5
  <2>. QED
    BY <1>41, <2>6 DEF ToomAt
<1>42. CASE i = 38
  <2>1. /\ h["a0"] = w[0]
        /\ h["b1"] = s[4] + s[3] + s[2]
        /\ h["a1"] = s[1]
    BY <1>42 DEF ToomAt
  <2>2. Toom[i] = << "b1", "+", "b1", "a1" >>
    BY <1>42 DEF Toom
  <2>3. g = [h EXCEPT !["b1"] = h["b1"] + h["a1"]]
    BY <2>2 DEF g, After, Outcome
  <2>4. h["b1"] + h["a1"] = s[4] + s[3] + s[2] + s[1]
    BY <2>1, <1>1, <1>2, <1>3
  <2>5. "b1" \in DOMAIN h
    BY <1>4 DEF ToomTemps
  <2>6. /\ g["a0"] = w[0]
        /\ g["b1"] = s[4] + s[3] + s[2] + s[1]
    BY <2>1, <2>3, <2>4, <2>5
  <2>. QED
    BY <1>42, <2>6 DEF ToomAt
<1>43. CASE i = 39
  <2>1. /\ h["a0"] = w[0]
        /\ h["b1"] = s[4] + s[3] + s[2] + s[1]
    BY <1>43 DEF ToomAt
  <2>2. Toom[i] = << "c", "+", "b1", "a0" >>
    BY <1>43 DEF Toom
  <2>3. g = [h EXCEPT !["c"] = h["b1"] + h["a0"]]
    BY <2>2 DEF g, After, Outcome
  <2>4. h["b1"] + h["a0"] = s[4] + s[3] + s[2] + s[1] + w[0]
    BY <2>1, <1>1, <1>2, <1>3
  <2>5. "c" \in DOMAIN h
    BY <1>4 DEF ToomTemps
  <2>6. /\ g["c"] = s[4] + s[3] + s[2] + s[1] + w[0]
    BY <2>1, <2>3, <2>4, <2>5
  <2>. QED
    BY <1>43, <2>6 DEF ToomAt
<1>. QED
  BY <1>5, <1>6, <1>7, <1>8, <1>9, <1>10, <1>11, <1>12, <1>13, <1>14, <1>15, <1>16, <1>17, <1>18, <1>19, <1>20, <1>21, <1>22, <1>23, <1>24, <1>25, <1>26, <1>27, <1>28, <1>29, <1>30, <1>31, <1>32, <1>33, <1>34, <1>35, <1>36, <1>37, <1>38, <1>39, <1>40, <1>41, <1>42, <1>43

SqrToomProducts(x, w) ==
  /\ x[0] * x[0] = w[0]
  /\ (x[0] + x[2] + x[1]) * (x[0] + x[2] + x[1]) = w[0] + w[1] + w[2] + w[3] + w[4]
  /\ (x[0] + x[2] - x[1]) * (x[0] + x[2] - x[1]) = w[0] - w[1] + w[2] - w[3] + w[4]
  /\ x[1] * x[2] + x[1] * x[2] = w[3]
  /\ x[2] * x[2] = w[4]

SqrToomAt(i, h, x, w, s) ==
  /\ i \in 1 .. 2 => h["a0"] = x[0]
  /\ i \in 1 .. 7 => h["a1"] = x[1]
  /\ i \in 1 .. 9 => h["a2"] = x[2]
  /\ i \in 2 .. 23 => h["S0"] = w[0]
  /\ i \in 3 .. 4 => h["a0"] = x[0] + x[2]
  /\ i \in 4 .. 6 => h["c"] = x[0] + x[2] - x[1]
  /\ i = 5 => h["a0"] = x[0] + x[2] + x[1]
  /\ i \in 6 .. 12 => h["a0"] = w[0] + w[1] + w[2] + w[3] + w[4]
  /\ i \in 7 .. 10 => h["c"] = w[0] - w[1] + w[2] - w[3] + w[4]
  /\ i = 8 => h["a1"] = x[1] * x[2]
  /\ i \in 9 .. 17 => h["a1"] = w[3]
  /\ i \in 10 .. 16 => h["a2"] = w[4]
  /\ i = 11 => h["c"] = 2 * w[0] + 2 * w[2] + 2 * w[4]
  /\ i \in 12 .. 14 => h["c"] = w[0] + w[2] + w[4]
  /\ i = 13 => h["a0"] = w[1] + w[3]
  /\ i \in 14 .. 19 => h["a0"] = w[1]
  /\ i = 15 => h["c"] = w[0] + w[2]
  /\ i \in 16 .. 18 => h["c"] = w[2]
  /\ i \in 17 .. 20 => h["a2"] = s[4]
  /\ i \in 18 .. 20 => h["a1"] = s[3]
  /\ i \in 19 .. 21 => h["c"] = s[2]
  /\ i \in 20 .. 22 => h["a0"] = s[1]
  /\ i = 21 => h["a2"] = s[4] + s[3]
  /\ i = 22 => h["c"] = s[4] + s[3] + s[2]
  /\ i = 23 => h["c"] = s[4] + s[3] + s[2] + s[1]
  /\ i = 24 => h["c"] = s[4] + s[3] + s[2] + s[1] + w[0]

LEMMA SqrToomStep ==
  ASSUME NEW h, SqrToomTemps \cup {"c"} \subseteq DOMAIN h, NEW part,
         NEW x \in [0 .. 2 -> Nat], NEW w \in [0 .. 4 -> Nat], NEW s \in [0 .. 4 -> Nat],
         SqrToomProducts(x, w), Shifted(w, s, part, 4),
         NEW i \in 1 .. 23, SqrToomAt(i, h, x, w, s)
  PROVE  SqrToomAt(i + 1, After(SqrToom[i], h, part), x, w, s)
<1>. DEFINE g == After(SqrToom[i], h, part)
<1>. SUFFICES SqrToomAt(i + 1, g, x, w, s)
  OBVIOUS
<1>1. x[0] \in Nat /\ x[1] \in Nat /\ x[2] \in Nat
  OBVIOUS
<1>3. /\ w[0] \in Nat /\ w[1] \in Nat /\ w[2] \in Nat /\ w[3] \in Nat /\ w[4] \in Nat
      /\ s[0] \in Nat /\ s[1] \in Nat /\ s[2] \in Nat /\ s[3] \in Nat /\ s[4] \in Nat
  OBVIOUS
<1>4. \A d \in SqrToomTemps \cup {"c"} : d \in DOMAIN h
  OBVIOUS
<1>. HIDE DEF g
<1>5. CASE i = 1
  <2>1. /\ h["a0"] = x[0]
        /\ h["a1"] = x[1]
        /\ h["a2"] = x[2]
    BY <1>5 DEF SqrToomAt
  <2>2. SqrToom[i] = << "S0", "*", "a0", "a0" >>
    BY <1>5 DEF SqrToom
  <2>3. g = [h EXCEPT !["S0"] = h["a0"] * h["a0"]]
    BY <2>2 DEF g, After, Outcome
  <2>4. h["a0"] * h["a0"] = w[0]
    BY <2>1 DEF SqrToomProducts
  <2>5. "S0" \in DOMAIN h
    BY <1>4 DEF SqrToomTemps
  <2>6. /\ g["a0"] = x[0]
        /\ g["a1"] = x[1]
        /\ g["a2"] = x[2]
        /\ g["S0"] = w[0]
    BY <2>1, <2>3, <2>4, <2>5
  <2>. QED
    BY <1>5, <2>6 DEF SqrToomAt
<1>6. CASE i = 2
  <2>1. /\ h["a0"] = x[0]
        /\ h["a1"] = x[1]
        /\ h["a2"] = x[2]
        /\ h["S0"] = w[0]
    BY <1>6 DEF SqrToomAt
  <2>2. SqrToom[i] = << "a0", "+", "a0", "a2" >>
    BY <1>6 DEF SqrToom
  <2>3. g = [h EXCEPT !["a0"] = h["a0"] + h["a2"]]
    BY <2>2 DEF g, After, Outcome
  <2>4. h["a0"] + h["a2"] = x[0] + x[2]
    BY <2>1, <1>1, <1>3
  <2>5. "a0" \in DOMAIN h
    BY <1>4 DEF SqrToomTemps
  <2>6. /\ g["a1"] = x[1]
        /\ g["a2"] = x[2]
        /\ g["S0"] = w[0]
        /\ g["a0"] = x[0] + x[2]
    BY <2>1, <2>3, <2>4, <2>5
  <2>. QED
    BY <1>6, <2>6 DEF SqrToomAt
<1>7. CASE i = 3
  <2>1. /\ h["a1"] = x[1]
        /\ h["a2"] = x[2]
        /\ h["S0"] = w[0]
        /\ h["a0"] = x[0] + x[2]
    BY <1>7 DEF SqrToomAt
  <2>2. SqrToom[i] = << "c", "-", "a0", "a1" >>
    BY <1>7 DEF SqrToom
  <2>3. g = [h EXCEPT !["c"] = h["a0"] - h["a1"]]
    BY <2>2 DEF g, After, Outcome
  <2>4. h["a0"] - h["a1"] = x[0] + x[2] - x[1]
    BY <2>1, <1>1, <1>3
  <2>5. "c" \in DOMAIN h
    BY <1>4 DEF SqrToomTemps
  <2>6. /\ g["a1"] = x[1]
        /\ g["a2"] = x[2]
        /\ g["S0"] = w[0]
        /\ g["a0"] = x[0] + x[2]
        /\ g["c"] = x[0] + x[2] - x[1]
    BY <2>1, <2>3, <2>4, <2>5
  <2>. QED
    BY <1>7, <2>6 DEF SqrToomAt
<1>8. CASE i = 4
  <2>1. /\ h["a1"] = x[1]
        /\ h["a2"] = x[2]
        /\ h["S0"] = w[0]
        /\ h["a0"] = x[0] + x[2]
        /\ h["c"] = x[0] + x[2] - x[1]
    BY <1>8 DEF SqrToomAt
  <2>2. SqrToom[i] = << "a0", "+", "a0", "a1" >>
    BY <1>8 DEF SqrToom
  <2>3. g = [h EXCEPT !["a0"] = h["a0"] + h["a1"]]
    BY <2>2 DEF g, After, Outcome
  <2>4. h["a0"] + h["a1"] = x[0] + x[2] + x[1]
    BY <2>1, <1>1, <1>3
  <2>5. "a0" \in DOMAIN h
    BY <1>4 DEF SqrToomTemps
  <2>6. /\ g["a1"] = x[1]
        /\ g["a2"] = x[2]
        /\ g["S0"] = w[0]
        /\ g["c"] = x[0] + x[2] - x[1]
        /\ g["a0"] = x[0] + x[2] + x[1]
    BY <2>1, <2>3, <2>4, <2>5
  <2>. QED
    BY <1>8, <2>6 DEF SqrToomAt
<1>9. CASE i = 5
  <2>1. /\ h["a1"] = x[1]
        /\ h["a2"] = x[2]
        /\ h["S0"] = w[0]
        /\ h["c"] = x[0] + x[2] - x[1]
        /\ h["a0"] = x[0] + x[2] + x[1]
    BY <1>9 DEF SqrToomAt
  <2>2. SqrToom[i] = << "a0", "*", "a0", "a0" >>
    BY <1>9 DEF SqrToom
  <2>3. g = [h EXCEPT !["a0"] = h["a0"] * h["a0"]]
    BY <2>2 DEF g, After, Outcome
  <2>4. h["a0"] * h["a0"] = w[0] + w[1] + w[2] + w[3] + w[4]
    BY <2>1 DEF SqrToomProducts
  <2>5. "a0" \in DOMAIN h
    BY <1>4 DEF SqrToomTemps
  <2>6. /\ g["a1"] = x[1]
        /\ g["a2"] = x[2]
        /\ g["S0"] = w[0]
        /\ g["c"] = x[0] + x[2] - x[1]
        /\ g["a0"] = w[0] + w[1] + w[2] + w[3] + w[4]
    BY <2>1, <2>3, <2>4, <2>5
  <2>. QED
    BY <1>9, <2>6 DEF SqrToomAt
<1>10. CASE i = 6
  <2>1. /\ h["a1"] = x[1]
        /\ h["a2"] = x[2]
        /\ h["S0"] = w[0]
        /\ h["c"] = x[0] + x[2] - x[1]
        /\ h["a0"] = w[0] + w[1] + w[2] + w[3] + w[4]
    BY <1>10 DEF SqrToomAt
  <2>2. SqrToom[i] = << "c", "*", "c", "c" >>
    BY <1>10 DEF SqrToom
  <2>3. g = [h EXCEPT !["c"] = h["c"] * h["c"]]
    BY <2>2 DEF g, After, Outcome
  <2>4. h["c"] * h["c"] = w[0] - w[1] + w[2] - w[3] + w[4]
    BY <2>1 DEF SqrToomProducts
  <2>5. "c" \in DOMAIN h
    BY <1>4 DEF SqrToomTemps
  <2>6. /\ g["a1"] = x[1]
        /\ g["a2"] = x[2]
        /\ g["S0"] = w[0]
        /\ g["a0"] = w[0] + w[1] + w[2] + w[3] + w[4]
        /\ g["c"] = w[0] - w[1] + w[2] - w[3] + w[4]
    BY <2>1, <2>3, <2>4, <2>5
  <2>. QED
    BY <1>10, <2>6 DEF SqrToomAt
<1>11. CASE i = 7
  <2>1. /\ h["a1"] = x[1]
        /\ h["a2"] = x[2]
        /\ h["S0"] = w[0]
        /\ h["a0"] = w[0] + w[1] + w[2] + w[3] + w[4]
        /\ h["c"] = w[0] - w[1] + w[2] - w[3] + w[4]
    BY <1>11 DEF SqrToomAt
  <2>2. SqrToom[i] = << "a1", "*", "a1", "a2" >>
    BY <1>11 DEF SqrToom
  <2>3. g = [h EXCEPT !["a1"] = h["a1"] * h["a2"]]
    BY <2>2 DEF g, After, Outcome
  <2>4. h["a1"] * h["a2"] = x[1] * x[2]
    BY <2>1
  <2>5. "a1" \in DOMAIN h
    BY <1>4 DEF SqrToomTemps
  <2>6. /\ g["a2"] = x[2]
        /\ g["S0"] = w[0]
        /\ g["a0"] = w[0] + w[1] + w[2] + w[3] + w[4]
        /\ g["c"] = w[0] - w[1] + w[2] - w[3] + w[4]
        /\ g["a1"] = x[1] * x[2]
    BY <2>1, <2>3, <2>4, <2>5
  <2>. QED
    BY <1>11, <2>6 DEF SqrToomAt
<1>12. CASE i = 8
  <2>1. /\ h["a2"] = x[2]
        /\ h["S0"] = w[0]
        /\ h["a0"] = w[0] + w[1] + w[2] + w[3] + w[4]
        /\ h["c"] = w[0] - w[1] + w[2] - w[3] + w[4]
        /\ h["a1"] = x[1] * x[2]
    BY <1>12 DEF SqrToomAt
  <2>2. SqrToom[i] = << "a1", "+", "a1", "a1" >>
    BY <1>12 DEF SqrToom
  <2>3. g = [h EXCEPT !["a1"] = h["a1"] + h["a1"]]
    BY <2>2 DEF g, After, Outcome
  <2>4. h["a1"] + h["a1"] = w[3]
    BY <2>1 DEF SqrToomProducts
  <2>5. "a1" \in DOMAIN h
    BY <1>4 DEF SqrToomTemps
  <2>6. /\ g["a2"] = x[2]
        /\ g["S0"] = w[0]
        /\ g["a0"] = w[0] + w[1] + w[2] + w[3] + w[4]
        /\ g["c"] = w[0] - w[1] + w[2] - w[3] + w[4]
        /\ g["a1"] = w[3]
    BY <2>1, <2>3, <2>4, <2>5
  <2>. QED
    BY <1>12, <2>6 DEF SqrToomAt
<1>13. CASE i = 9
  <2>1. /\ h["a2"] = x[2]
        /\ h["S0"] = w[0]
        /\ h["a0"] = w[0] + w[1] + w[2] + w[3] + w[4]
        /\ h["c"] = w[0] - w[1] + w[2] - w[3] + w[4]
        /\ h["a1"] = w[3]
    BY <1>13 DEF SqrToomAt
  <2>2. SqrToom[i] = << "a2", "*", "a2", "a2" >>
    BY <1>13 DEF SqrToom
  <2>3. g = [h EXCEPT !["a2"] = h["a2"] * h["a2"]]
    BY <2>2 DEF g, After, Outcome
  <2>4. h["a2"] * h["a2"] = w[4]
    BY <2>1 DEF SqrToomProducts
  <2>5. "a2" \in DOMAIN h
    BY <1>4 DEF SqrToomTemps
  <2>6. /\ g["S0"] = w[0]
        /\ g["a0"] = w[0] + w[1] + w[2] + w[3] + w[4]
        /\ g["c"] = w[0] - w[1] + w[2] - w[3] + w[4]
        /\ g["a1"] = w[3]
        /\ g["a2"] = w[4]
    BY <2>1, <2>3, <2>4, <2>5
  <2>. QED
    BY <1>13, <2>6 DEF SqrToomAt
<1>14. CASE i = 10
  <2>1. /\ h["S0"] = w[0]
        /\ h["a0"] = w[0] + w[1] + w[2] + w[3] + w[4]
        /\ h["c"] = w[0] - w[1] + w[2] - w[3] + w[4]
        /\ h["a1"] = w[3]
        /\ h["a2"] = w[4]
    BY <1>14 DEF SqrToomAt
  <2>2. SqrToom[i] = << "c", "+", "a0", "c" >>
    BY <1>14 DEF SqrToom
  <2>3. g = [h EXCEPT !["c"] = h["a0"] + h["c"]]
    BY <2>2 DEF g, After, Outcome
  <2>4. h["a0"] + h["c"] = 2 * w[0] + 2 * w[2] + 2 * w[4]
    BY <2>1, <1>1, <1>3
  <2>5. "c" \in DOMAIN h
    BY <1>4 DEF SqrToomTemps
  <2>6. /\ g["S0"] = w[0]
        /\ g["a0"] = w[0] + w[1] + w[2] + w[3] + w[4]
        /\ g["a1"] = w[3]
        /\ g["a2"] = w[4]
        /\ g["c"] = 2 * w[0] + 2 * w[2] + 2 * w[4]
    BY <2>1, <2>3, <2>4, <2>5
  <2>. QED
    BY <1>14, <2>6 DEF SqrToomAt
<1>15. CASE i = 11
  <2>1. /\ h["S0"] = w[0]
        /\ h["a0"] = w[0] + w[1] + w[2] + w[3] + w[4]
        /\ h["a1"] = w[3]
        /\ h["a2"] = w[4]
        /\ h["c"] = 2 * w[0] + 2 * w[2] + 2 * w[4]
    BY <1>15 DEF SqrToomAt
  <2>2. SqrToom[i] = << "c", "div", "c", 2 >>
    BY <1>15 DEF SqrToom
  <2>3. g = [h EXCEPT !["c"] = Quotient(h["c"], 2)]
    BY <2>2 DEF g, After, Outcome
  <2>4. Quotient(h["c"], 2) = w[0] + w[2] + w[4]
    BY <2>1, <1>1, <1>3, QuotientExact
  <2>5. "c" \in DOMAIN h
    BY <1>4 DEF SqrToomTemps
  <2>6. /\ g["S0"] = w[0]
        /\ g["a0"] = w[0] + w[1] + w[2] + w[3] + w[4]
        /\ g["a1"] = w[3]
        /\ g["a2"] = w[4]
        /\ g["c"] = w[0] + w[2] + w[4]
    BY <2>1, <2>3, <2>4, <2>5
  <2>. QED
    BY <1>15, <2>6 DEF SqrToomAt
<1>16. CASE i = 12
  <2>1. /\ h["S0"] = w[0]
        /\ h["a0"] = w[0] + w[1] + w[2] + w[3] + w[4]
        /\ h["a1"] = w[3]
        /\ h["a2"] = w[4]
        /\ h["c"] = w[0] + w[2] + w[4]
    BY <1>16 DEF SqrToomAt
  <2>2. SqrToom[i] = << "a0", "-", "a0", "c" >>
    BY <1>16 DEF SqrToom
  <2>3. g = [h EXCEPT !["a0"] = h["a0"] - h["c"]]
    BY <2>2 DEF g, After, Outcome
  <2>4. h["a0"] - h["c"] = w[1] + w[3]
    BY <2>1, <1>1, <1>3
  <2>5. "a0" \in DOMAIN h
    BY <1>4 DEF SqrToomTemps
  <2>6. /\ g["S0"] = w[0]
        /\ g["a1"] = w[3]
        /\ g["a2"] = w[4]
        /\ g["c"] = w[0] + w[2] + w[4]
        /\ g["a0"] = w[1] + w[3]
    BY <2>1, <2>3, <2>4, <2>5
  <2>. QED
    BY <1>16, <2>6 DEF SqrToomAt
<1>17. CASE i = 13
  <2>1. /\ h["S0"] = w[0]
        /\ h["a1"] = w[3]
        /\ h["a2"] = w[4]
        /\ h["c"] = w[0] + w[2] + w[4]
        /\ h["a0"] = w[1] + w[3]
    BY <1>17 DEF SqrToomAt
  <2>2. SqrToom[i] = << "a0", "-", "a0", "a1" >>
    BY <1>17 DEF SqrToom
  <2>3. g = [h EXCEPT !["a0"] = h["a0"] - h["a1"]]
    BY <2>2 DEF g, After, Outcome
  <2>4. h["a0"] - h["a1"] = w[1]
    BY <2>1, <1>1, <1>3
  <2>5. "a0" \in DOMAIN h
    BY <1>4 DEF SqrToomTemps
  <2>6. /\ g["S0"] = w[0]
        /\ g["a1"] = w[3]
        /\ g["a2"] = w[4]
        /\ g["c"] = w[0] + w[2] + w[4]
        /\ g["a0"] = w[1]
    BY <2>1, <2>3, <2>4, <2>5
  <2>. QED
    BY <1>17, <2>6 DEF SqrToomAt
<1>18. CASE i = 14
  <2>1. /\ h["S0"] = w[0]
        /\ h["a1"] = w[3]
        /\ h["a2"] = w[4]
        /\ h["c"] = w[0] + w[2] + w[4]
        /\ h["a0"] = w[1]
    BY <1>18 DEF SqrToomAt
  <2>2. SqrToom[i] = << "c", "-", "c", "a2" >>
    BY <1>18 DEF SqrToom
  <2>3. g = [h EXCEPT !["c"] = h["c"] - h["a2"]]
    BY <2>2 DEF g, After, Outcome
  <2>4. h["c"] - h["a2"] = w[0] + w[2]
    BY <2>1, <1>1, <1>3
  <2>5. "c" \in DOMAIN h
    BY <1>4 DEF SqrToomTemps
  <2>6. /\ g["S0"] = w[0]
        /\ g["a1"] = w[3]
        /\ g["a2"] = w[4]
        /\ g["a0"] = w[1]
        /\ g["c"] = w[0] + w[2]
    BY <2>1, <2>3, <2>4, <2>5
  <2>. QED
    BY <1>18, <2>6 DEF SqrToomAt
<1>19. CASE i = 15
  <2>1. /\ h["S0"] = w[0]
        /\ h["a1"] = w[3]
        /\ h["a2"] = w[4]
        /\ h["a0"] = w[1]
        /\ h["c"] = w[0] + w[2]
    BY <1>19 DEF SqrToomAt
  <2>2. SqrToom[i] = << "c", "-", "c", "S0" >>
    BY <1>19 DEF SqrToom
  <2>3. g = [h EXCEPT !["c"] = h["c"] - h["S0"]]
    BY <2>2 DEF g, After, Outcome
  <2>4. h["c"] - h["S0"] = w[2]
    BY <2>1, <1>1, <1>3
  <2>5. "c" \in DOMAIN h
    BY <1>4 DEF SqrToomTemps
  <2>6. /\ g["S0"] = w[0]
        /\ g["a1"] = w[3]
        /\ g["a2"] = w[4]
        /\ g["a0"] = w[1]
        /\ g["c"] = w[2]
    BY <2>1, <2>3, <2>4, <2>5
  <2>. QED
    BY <1>19, <2>6 DEF SqrToomAt
<1>20. CASE i = 16
  <2>1. /\ h["S0"] = w[0]
        /\ h["a1"] = w[3]
        /\ h["a2"] = w[4]
        /\ h["a0"] = w[1]
        /\ h["c"] = w[2]
    BY <1>20 DEF SqrToomAt
  <2>2. SqrToom[i] = << "a2", "lshd", "a2", 4 >>
    BY <1>20 DEF SqrToom
  <2>3. g = [h EXCEPT !["a2"] = h["a2"] * Weight(part * 4)]
    BY <2>2 DEF g, After, Outcome
  <2>4. h["a2"] * Weight(part * 4) = s[4]
    BY <2>1 DEF Shifted
  <2>5. "a2" \in DOMAIN h
    BY <1>4 DEF SqrToomTemps
  <2>6. /\ g["S0"] = w[0]
        /\ g["a1"] = w[3]
        /\ g["a0"] = w[1]
        /\ g["c"] = w[2]
        /\ g["a2"] = s[4]
    BY <2>1, <2>3, <2>4, <2>5
  <2>. QED
    BY <1>20, <2>6 DEF SqrToomAt
<1>21. CASE i = 17
  <2>1. /\ h["S0"] = w[0]
        /\ h["a1"] = w[3]
        /\ h["a0"] = w[1]
        /\ h["c"] = w[2]
        /\ h["a2"] = s[4]
    BY <1>21 DEF SqrToomAt
  <2>2. SqrToom[i] = << "a1", "lshd", "a1", 3 >>
    BY <1>21 DEF SqrToom
  <2>3. g = [h EXCEPT !["a1"] = h["a1"] * Weight(part * 3)]
    BY <2>2 DEF g, After, Outcome
  <2>4. h["a1"] * Weight(part * 3) = s[3]
    BY <2>1 DEF Shifted
  <2>5. "a1" \in DOMAIN h
    BY <1>4 DEF SqrToomTemps
  <2>6. /\ g["S0"] = w[0]
        /\ g["a0"] = w[1]
        /\ g["c"] = w[2]
        /\ g["a2"] = s[4]
        /\ g["a1"] = s[3]
    BY <2>1, <2>3, <2>4, <2>5
  <2>. QED
    BY <1>21, <2>6 DEF SqrToomAt
<1>22. CASE i = 18
  <2>1. /\ h["S0"] = w[0]
        /\ h["a0"] = w[1]
        /\ h["c"] = w[2]
        /\ h["a2"] = s[4]
        /\ h["a1"] = s[3]
    BY <1>22 DEF SqrToomAt
  <2>2. SqrToom[i] = << "c", "lshd", "c", 2 >>
    BY <1>22 DEF SqrToom
  <2>3. g = [h EXCEPT !["c"] = h["c"] * Weight(part * 2)]
    BY <2>2 DEF g, After, Outcome
  <2>4. h["c"] * Weight(part * 2) = s[2]
    BY <2>1 DEF Shifted
  <2>5. "c" \in DOMAIN h
    BY <1>4 DEF SqrToomTemps
  <2>6. /\ g["S0"] = w[0]
        /\ g["a0"] = w[1]
        /\ g["a2"] = s[4]
        /\ g["a1"] = s[3]
        /\ g["c"] = s[2]
    BY <2>1, <2>3, <2>4, <2>5
  <2>. QED
    BY <1>22, <2>6 DEF SqrToomAt
<1>23. CASE i = 19
  <2>1. /\ h["S0"] = w[0]
        /\ h["a0"] = w[1]
        /\ h["a2"] = s[4]
        /\ h["a1"] = s[3]
        /\ h["c"] = s[2]
    BY <1>23 DEF SqrToomAt
  <2>2. SqrToom[i] = << "a0", "lshd", "a0", 1 >>
    BY <1>23 DEF SqrToom
  <2>3. g = [h EXCEPT !["a0"] = h["a0"] * Weight(part * 1)]
    BY <2>2 DEF g, After, Outcome
  <2>4. h["a0"] * Weight(part * 1) = s[1]
    BY <2>1 DEF Shifted
  <2>5. "a0" \in DOMAIN h
    BY <1>4 DEF SqrToomTemps
  <2>6. /\ g["S0"] = w[0]
        /\ g["a2"] = s[4]
        /\ g["a1"] = s[3]
        /\ g["c"] = s[2]
        /\ g["a0"] = s[1]
    BY <2>1, <2>3, <2>4, <2>5
  <2>. QED
    BY <1>23, <2>6 DEF SqrToomAt
<1>24. CASE i = 20
  <2>1. /\ h["S0"] = w[0]
        /\ h["a2"] = s[4]
        /\ h["a1"] = s[3]
        /\ h["c"] = s[2]
        /\ h["a0"] = s[1]
    BY <1>24 DEF SqrToomAt
  <2>2. SqrToom[i] = << "a2", "+", "a2", "a1" >>
    BY <1>24 DEF SqrToom
  <2>3. g = [h EXCEPT !["a2"] = h["a2"] + h["a1"]]
    BY <2>2 DEF g, After, Outcome
  <2>4. h["a2"] + h["a1"] = s[4] + s[3]
    BY <2>1, <1>1, <1>3
  <2>5. "a2" \in DOMAIN h
    BY <1>4 DEF SqrToomTemps
  <2>6. /\ g["S0"] = w[0]
        /\ g["c"] = s[2]
        /\ g["a0"] = s[1]
        /\ g["a2"] = s[4] + s[3]
    BY <2>1, <2>3, <2>4, <2>5
  <2>. QED
    BY <1>24, <2>6 DEF SqrToomAt
<1>25. CASE i = 21
  <2>1. /\ h["S0"] = w[0]
        /\ h["c"] = s[2]
        /\ h["a0"] = s[1]
        /\ h["a2"] = s[4] + s[3]
    BY <1>25 DEF SqrToomAt
  <2>2. SqrToom[i] = << "c", "+", "a2", "c" >>
    BY <1>25 DEF SqrToom
  <2>3. g = [h EXCEPT !["c"] = h["a2"] + h["c"]]
    BY <2>2 DEF g, After, Outcome
  <2>4. h["a2"] + h["c"] = s[4] + s[3] + s[2]
    BY <2>1, <1>1, <1>3
  <2>5. "c" \in DOMAIN h
    BY <1>4 DEF SqrToomTemps
  <2>6. /\ g["S0"] = w[0]
        /\ g["a0"] = s[1]
        /\ g["c"] = s[4] + s[3] + s[2]
    BY <2>1, <2>3, <2>4, <2>5
  <2>. QED
    BY <1>25, <2>6 DEF SqrToomAt
<1>26. CASE i = 22
  <2>1. /\ h["S0"] = w[0]
        /\ h["a0"] = s[1]
        /\ h["c"] = s[4] + s[3] + s[2]
    BY <1>26 DEF SqrToomAt
  <2>2. SqrToom[i] = << "c", "+", "c", "a0" >>
    BY <1>26 DEF SqrToom
  <2>3. g = [h EXCEPT !["c"] = h["c"] + h["a0"]]
    BY <2>2 DEF g, After, Outcome
  <2>4. h["c"] + h["a0"] = s[4] + s[3] + s[2] + s[1]
    BY <2>1, <1>1, <1>3
  <2>5. "c" \in DOMAIN h
    BY <1>4 DEF SqrToomTemps
  <2>6. /\ g["S0"] = w[0]
        /\ g["c"] = s[4] + s[3] + s[2] + s[1]
    BY <2>1, <2>3, <2>4, <2>5
  <2>. QED
    BY <1>26, <2>6 DEF SqrToomAt
<1>27. CASE i = 23
  <2>1. /\ h["S0"] = w[0]
        /\ h["c"] = s[4] + s[3] + s[2] + s[1]
    BY <1>27 DEF SqrToomAt
  <2>2. SqrToom[i] = << "c", "+", "c", "S0" >>
    BY <1>27 DEF SqrToom
  <2>3. g = [h EXCEPT !["c"] = h["c"] + h["S0"]]
    BY <2>2 DEF g, After, Outcome
  <2>4. h["c"] + h["S0"] = s[4] + s[3] + s[2] + s[1] + w[0]
    BY <2>1, <1>1, <1>3
  <2>5. "c" \in DOMAIN h
    BY <1>4 DEF SqrToomTemps
  <2>6. /\ g["c"] = s[4] + s[3] + s[2] + s[1] + w[0]
    BY <2>1, <2>3, <2>4, <2>5
  <2>. QED
    BY <1>27, <2>6 DEF SqrToomAt
<1>. QED
  BY <1>5, <1>6, <1>7, <1>8, <1>9, <1>10, <1>11, <1>12, <1>13, <1>14, <1>15, <1>16, <1>17, <1>18, <1>19, <1>20, <1>21, <1>22, <1>23, <1>24, <1>25, <1>26, <1>27


(* The numbers that the parts and the coefficients stand for.              *)
LEMMA TwoByTwo ==
  ASSUME NEW a \in Int, NEW b \in Int, NEW c \in Int, NEW d \in Int, NEW P \in Int
  PROVE  /\ (a + b * P) * (c + d * P) = a * c + (a * d + b * c) * P + (b * d) * (P * P)
         /\ (b + a) * (d + c) = a * c + (a * d + b * c) + b * d
OBVIOUS

LEMMA ThreeByThree ==
  ASSUME NEW a0 \in Int, NEW a1 \in Int, NEW a2 \in Int,
         NEW b0 \in Int, NEW b1 \in Int, NEW b2 \in Int, NEW P \in Int,
         NEW w1 \in Int, w1 = a0 * b1 + a1 * b0, NEW w2 \in Int, w2 = a0 * b2 + a1 * b1 + a2 * b0,
         NEW w3 \in Int, w3 = a1 * b2 + a2 * b1
  PROVE  /\ (a0 + a1 * P + a2 * (P * P)) * (b0 + b1 * P + b2 * (P * P))
              = a0 * b0 + w1 * P + w2 * (P * P) + w3 * (P * (P * P)) + (a2 * b2) * ((P * P) * (P * P))
         /\ (b2 + b1 + b0) * (a2 + a1 + a0) = a0 * b0 + w1 + w2 + w3 + a2 * b2
         /\ (4 * a2 + 2 * a1 + a0) * (4 * b2 + 2 * b1 + b0)
              = a0 * b0 + 2 * w1 + 4 * w2 + 8 * w3 + 16 * (a2 * b2)
         /\ (a2 - a1 + a0) * (b2 - b1 + b0) = a0 * b0 - w1 + w2 - w3 + a2 * b2
OBVIOUS

LEMMA ThreeSquared ==
  ASSUME NEW a0 \in Int, NEW a1 \in Int, NEW a2 \in Int,
         NEW w1 \in Int, w1 = a0 * a1 + a1 * a0, NEW w2 \in Int, w2 = a0 * a2 + a1 * a1 + a2 * a0,
         NEW w3 \in Int, w3 = a1 * a2 + a2 * a1
  PROVE  /\ (a0 + a2 + a1) * (a0 + a2 + a1) = a0 * a0 + w1 + w2 + w3 + a2 * a2
         /\ (a0 + a2 - a1) * (a0 + a2 - a1) = a0 * a0 - w1 + w2 - w3 + a2 * a2
         /\ a1 * a2 + a1 * a2 = w3
OBVIOUS

LEMMA TwoParts ==
  ASSUME NEW m \in Nat, NEW P \in Nat, P > 0
  PROVE  m % P \in Nat /\ m \div P \in Nat /\ m = (m % P) + (m \div P) * P
<1>. DEFINE q == m \div P
            r == m % P
<1>1. q \in Int /\ r \in 0 .. P - 1 /\ m = P * q + r
  BY Division
<1>. HIDE DEF q, r
<1>2. q \in Nat
  BY Greatest DEF q
<1>3. P * q = q * P /\ q * P \in Int
  BY <1>1
<1>4. m = r + q * P
  BY <1>1, <1>3
<1>. QED
  BY <1>1, <1>2, <1>4 DEF q, r

LEMMA ThreeParts ==
  ASSUME NEW m \in Nat, NEW P \in Nat, P > 0
  PROVE  /\ m % P \in Nat /\ (m \div P) % P \in Nat /\ m \div (P * P) \in Nat
         /\ m = (m % P) + ((m \div P) % P) * P + (m \div (P * P)) * (P * P)
<1>. DEFINE q == m \div P
            a == m % P
            b == q % P
            c == q \div P
<1>1. a \in Nat /\ q \in Nat /\ m = a + q * P
  BY TwoParts
<1>. HIDE DEF q, a
<1>2. b \in Nat /\ c \in Nat /\ q = b + c * P
  BY <1>1, TwoParts
<1>3. m \div (P * P) = c
  BY DivTwice DEF q
<1>. HIDE DEF b, c
<1>4. (b + c * P) * P = b * P + c * (P * P)
  BY <1>2
<1>5. b * P \in Int /\ c * (P * P) \in Int
  BY <1>2
<1>6. m = a + b * P + c * (P * P)
  <2>. DEFINE v == q * P
              x == b * P
              y == c * (P * P)
  <2>1. v = x + y
    BY <1>2, <1>4
  <2>2. x \in Int /\ y \in Int /\ m = a + v
    BY <1>1, <1>5
  <2>. HIDE DEF v, x, y
  <2>3. m = a + x + y
    BY <1>1, <2>1, <2>2
  <2>. QED
    BY <2>3 DEF x, y
<1>. QED
  BY <1>1, <1>2, <1>3, <1>6 DEF a, b, q

(* So many numbers.                                                        *)
Two(a, b) == [k \in 0 .. 1 |-> IF k = 0 THEN a ELSE b]
Three(a, b, c) == [k \in 0 .. 2 |-> IF k = 0 THEN a ELSE IF k = 1 THEN b ELSE c]
Five(a, b, c, d, e) ==
  [k \in 0 .. 4 |-> IF k = 0 THEN a ELSE IF k = 1 THEN b ELSE IF k = 2 THEN c ELSE IF k = 3 THEN d ELSE e]

LEMMA PartWeights ==
  ASSUME NEW part \in Nat, NEW P, P = Weight(part)
  PROVE  /\ P \in Nat /\ P > 0
         /\ Weight(part * 1) = P /\ Weight(part * 2) = P * P
         /\ Weight(part * 3) = P * (P * P) /\ Weight(part * 4) = (P * P) * (P * P)
<1>1. part * 1 = part /\ part * 2 = part + part /\ part * 3 = part + part * 2
        /\ part * 4 = part * 2 + part * 2 /\ part * 2 \in Nat
  OBVIOUS
<1>2. Weight(part + part) = P * P
  BY WeightSum
<1>3. Weight(part + part * 2) = P * Weight(part * 2)
  BY <1>1, WeightSum
<1>4. Weight(part * 2 + part * 2) = Weight(part * 2) * Weight(part * 2)
  BY <1>1, WeightSum
<1>5. P \in Nat /\ P > 0
  BY Weights
<1>. QED
  BY <1>1, <1>2, <1>3, <1>4, <1>5

KaratsubaState(h, i, part, r) ==
  \E x, y \in [0 .. 1 -> Nat], w, s \in [0 .. 2 -> Nat] :
    /\ KaratsubaProducts(x, y, w) /\ Shifted(w, s, part, 2) /\ r = w[0] + s[1] + s[2]
    /\ KaratsubaAt(i, h, x, y, w, s)

SqrKaratsubaState(h, i, part, r) ==
  \E x \in [0 .. 1 -> Nat], w, s \in [0 .. 2 -> Nat] :
    /\ SqrKaratsubaProducts(x, w) /\ Shifted(w, s, part, 2) /\ r = w[0] + s[1] + s[2]
    /\ SqrKaratsubaAt(i, h, x, w, s)

ToomState(h, i, part, r) ==
  \E x, y \in [0 .. 2 -> Nat], w, s \in [0 .. 4 -> Nat] :
    /\ ToomProducts(x, y, w) /\ Shifted(w, s, part, 4) /\ r = s[4] + s[3] + s[2] + s[1] + w[0]
    /\ ToomAt(i, h, x, y, w, s)

SqrToomState(h, i, part, r) ==
  \E x \in [0 .. 2 -> Nat], w, s \in [0 .. 4 -> Nat] :
    /\ SqrToomProducts(x, w) /\ Shifted(w, s, part, 4) /\ r = s[4] + s[3] + s[2] + s[1] + w[0]
    /\ SqrToomAt(i, h, x, w, s)

LEMMA KaratsubaNext ==
  ASSUME NEW h, KaratsubaTemps \cup {"c"} \subseteq DOMAIN h, NEW part, NEW r, NEW i \in 1 .. 11,
         KaratsubaState(h, i, part, r)
  PROVE  KaratsubaState(After(Karatsuba[i], h, part), i + 1, part, r)
<1>. DEFINE g == After(Karatsuba[i], h, part)
<1>1. PICK x \in [0 .. 1 -> Nat], y \in [0 .. 1 -> Nat], w \in [0 .. 2 -> Nat], s \in [0 .. 2 -> Nat] :
        /\ KaratsubaProducts(x, y, w) /\ Shifted(w, s, part, 2) /\ r = w[0] + s[1] + s[2]
        /\ KaratsubaAt(i, h, x, y, w, s)
  BY Zenon DEF KaratsubaState
<1>2. KaratsubaAt(i + 1, g, x, y, w, s)
  BY <1>1, KaratsubaStep
<1>. HIDE DEF g
<1>3. KaratsubaState(g, i + 1, part, r)
  BY <1>1, <1>2, Zenon DEF KaratsubaState
<1>. QED
  BY <1>3 DEF g

LEMMA SqrKaratsubaNext ==
  ASSUME NEW h, SqrKaratsubaTemps \cup {"c"} \subseteq DOMAIN h, NEW part, NEW r, NEW i \in 1 .. 10,
         SqrKaratsubaState(h, i, part, r)
  PROVE  SqrKaratsubaState(After(SqrKaratsuba[i], h, part), i + 1, part, r)
<1>. DEFINE g == After(SqrKaratsuba[i], h, part)
<1>1. PICK x \in [0 .. 1 -> Nat], w \in [0 .. 2 -> Nat], s \in [0 .. 2 -> Nat] :
        /\ SqrKaratsubaProducts(x, w) /\ Shifted(w, s, part, 2) /\ r = w[0] + s[1] + s[2]
        /\ SqrKaratsubaAt(i, h, x, w, s)
  BY Zenon DEF SqrKaratsubaState
<1>2. SqrKaratsubaAt(i + 1, g, x, w, s)
  BY <1>1, SqrKaratsubaStep
<1>. HIDE DEF g
<1>3. SqrKaratsubaState(g, i + 1, part, r)
  BY <1>1, <1>2, Zenon DEF SqrKaratsubaState
<1>. QED
  BY <1>3 DEF g

LEMMA ToomNext ==
  ASSUME NEW h, ToomTemps \cup {"c"} \subseteq DOMAIN h, NEW part, NEW r, NEW i \in 1 .. 39,
         ToomState(h, i, part, r)
  PROVE  ToomState(After(Toom[i], h, part), i + 1, part, r)
<1>. DEFINE g == After(Toom[i], h, part)
<1>1. PICK x \in [0 .. 2 -> Nat], y \in [0 .. 2 -> Nat], w \in [0 .. 4 -> Nat], s \in [0 .. 4 -> Nat] :
        /\ ToomProducts(x, y, w) /\ Shifted(w, s, part, 4) /\ r = s[4] + s[3] + s[2] + s[1] + w[0]
        /\ ToomAt(i, h, x, y, w, s)
  BY Zenon DEF ToomState
<1>2. ToomAt(i + 1, g, x, y, w, s)
  BY <1>1, ToomStep
<1>. HIDE DEF g
<1>3. ToomState(g, i + 1, part, r)
  BY <1>1, <1>2, Zenon DEF ToomState
<1>. QED
  BY <1>3 DEF g

LEMMA SqrToomNext ==
  ASSUME NEW h, SqrToomTemps \cup {"c"} \subseteq DOMAIN h, NEW part, NEW r, NEW i \in 1 .. 23,
         SqrToomState(h, i, part, r)
  PROVE  SqrToomState(After(SqrToom[i], h, part), i + 1, part, r)
<1>. DEFINE g == After(SqrToom[i], h, part)
<1>1. PICK x \in [0 .. 2 -> Nat], w \in [0 .. 4 -> Nat], s \in [0 .. 4 -> Nat] :
        /\ SqrToomProducts(x, w) /\ Shifted(w, s, part, 4) /\ r = s[4] + s[3] + s[2] + s[1] + w[0]
        /\ SqrToomAt(i, h, x, w, s)
  BY Zenon DEF SqrToomState
<1>2. SqrToomAt(i + 1, g, x, w, s)
  BY <1>1, SqrToomStep
<1>. HIDE DEF g
<1>3. SqrToomState(g, i + 1, part, r)
  BY <1>1, <1>2, Zenon DEF SqrToomState
<1>. QED
  BY <1>3 DEF g

LEMMA PartsEnd ==
  ASSUME NEW h, NEW part, NEW r
  PROVE  /\ KaratsubaState(h, 12, part, r) => h["c"] = r
         /\ SqrKaratsubaState(h, 11, part, r) => h["c"] = r
         /\ ToomState(h, 40, part, r) => h["c"] = r
         /\ SqrToomState(h, 24, part, r) => h["c"] = r
<1>1. KaratsubaState(h, 12, part, r) => h["c"] = r
  BY DEF KaratsubaState, KaratsubaAt
<1>2. SqrKaratsubaState(h, 11, part, r) => h["c"] = r
  BY DEF SqrKaratsubaState, SqrKaratsubaAt
<1>3. ToomState(h, 40, part, r) => h["c"] = r
  BY DEF ToomState, ToomAt
<1>4. SqrToomState(h, 24, part, r) => h["c"] = r
  BY DEF SqrToomState, SqrToomAt
<1>. QED
  BY <1>1, <1>2, <1>3, <1>4

LEMMA KaratsubaBegins ==
  ASSUME NEW m \in Nat, NEW n \in Nat, NEW part \in Nat, NEW h,
         h["x0"] = m % Weight(part), h["x1"] = m \div Weight(part),
         h["y0"] = n % Weight(part), h["y1"] = n \div Weight(part)
  PROVE  KaratsubaState(h, 1, part, m * n)
<1>. DEFINE P == Weight(part)
            a == m % P
            b == m \div P
            c == n % P
            d == n \div P
            u == a * d + b * c
<1>1. /\ P \in Nat /\ P > 0
      /\ Weight(part * 1) = P /\ Weight(part * 2) = P * P
  BY PartWeights
<1>2. h["x0"] = a /\ h["x1"] = b /\ h["y0"] = c /\ h["y1"] = d
  OBVIOUS
<1>. HIDE DEF P
<1>3. a \in Nat /\ b \in Nat /\ c \in Nat /\ d \in Nat /\ m = a + b * P /\ n = c + d * P
  BY <1>1, TwoParts
<1>. HIDE DEF a, b, c, d
<1>4. /\ (a + b * P) * (c + d * P) = a * c + u * P + (b * d) * (P * P)
      /\ (b + a) * (d + c) = a * c + u + b * d
  BY <1>1, <1>3, TwoByTwo
<1>5. a * c \in Nat /\ u \in Nat /\ b * d \in Nat
  BY <1>3
<1>. HIDE DEF u
<1>6. u * P \in Nat /\ (b * d) * (P * P) \in Nat
  BY <1>1, <1>5
<1>. DEFINE x == Two(a, b)
<1>7. x \in [0 .. 1 -> Nat] /\ x[0] = a /\ x[1] = b
  BY <1>3 DEF Two
<1>. HIDE DEF x
<1>. DEFINE y == Two(c, d)
<1>8. y \in [0 .. 1 -> Nat] /\ y[0] = c /\ y[1] = d
  BY <1>3 DEF Two
<1>. HIDE DEF y
<1>. DEFINE w == Three(a * c, u, b * d)
<1>9. w \in [0 .. 2 -> Nat] /\ w[0] = a * c /\ w[1] = u /\ w[2] = b * d
  BY <1>5 DEF Three
<1>. HIDE DEF w
<1>. DEFINE s == Three(0, u * P, (b * d) * (P * P))
<1>10. s \in [0 .. 2 -> Nat] /\ s[0] = 0 /\ s[1] = u * P /\ s[2] = (b * d) * (P * P)
  BY <1>6 DEF Three
<1>. HIDE DEF s
<1>11. KaratsubaProducts(x, y, w)
  BY <1>4, <1>7, <1>8, <1>9 DEF KaratsubaProducts
<1>12. Shifted(w, s, part, 2)
  <2>1. w[1] * Weight(part * 1) = s[1] /\ w[2] * Weight(part * 2) = s[2]
    BY <1>1, <1>9, <1>10
  <2>2. \A k \in 1 .. 2 : k = 1 \/ k = 2
    OBVIOUS
  <2>. QED
    BY <2>1, <2>2, Zenon DEF Shifted
<1>13. m * n = w[0] + s[1] + s[2]
  BY <1>3, <1>4, <1>9, <1>10, Zenon
<1>14. KaratsubaAt(1, h, x, y, w, s)
  BY <1>2, <1>7, <1>8 DEF KaratsubaAt
<1>. QED
  BY <1>7, <1>8, <1>9, <1>10, <1>11, <1>12, <1>13, <1>14, Zenon DEF KaratsubaState

LEMMA SqrKaratsubaBegins ==
  ASSUME NEW m \in Nat, NEW part \in Nat, NEW h,
         h["x0"] = m % Weight(part), h["x1"] = m \div Weight(part)
  PROVE  SqrKaratsubaState(h, 1, part, m * m)
<1>. DEFINE P == Weight(part)
            a == m % P
            b == m \div P
            u == a * b + b * a
<1>1. /\ P \in Nat /\ P > 0
      /\ Weight(part * 1) = P /\ Weight(part * 2) = P * P
  BY PartWeights
<1>2. h["x0"] = a /\ h["x1"] = b
  OBVIOUS
<1>. HIDE DEF P
<1>3. a \in Nat /\ b \in Nat /\ m = a + b * P
  BY <1>1, TwoParts
<1>. HIDE DEF a, b
<1>4. /\ (a + b * P) * (a + b * P) = a * a + u * P + (b * b) * (P * P)
      /\ (b + a) * (b + a) = a * a + u + b * b
  BY <1>1, <1>3, TwoByTwo
<1>5. a * a \in Nat /\ u \in Nat /\ b * b \in Nat
  BY <1>3
<1>. HIDE DEF u
<1>6. u * P \in Nat /\ (b * b) * (P * P) \in Nat
  BY <1>1, <1>5
<1>. DEFINE x == Two(a, b)
<1>7. x \in [0 .. 1 -> Nat] /\ x[0] = a /\ x[1] = b
  BY <1>3 DEF Two
<1>. HIDE DEF x
<1>. DEFINE w == Three(a * a, u, b * b)
<1>8. w \in [0 .. 2 -> Nat] /\ w[0] = a * a /\ w[1] = u /\ w[2] = b * b
  BY <1>5 DEF Three
<1>. HIDE DEF w
<1>. DEFINE s == Three(0, u * P, (b * b) * (P * P))
<1>9. s \in [0 .. 2 -> Nat] /\ s[0] = 0 /\ s[1] = u * P /\ s[2] = (b * b) * (P * P)
  BY <1>6 DEF Three
<1>. HIDE DEF s
<1>10. SqrKaratsubaProducts(x, w)
  BY <1>4, <1>7, <1>8 DEF SqrKaratsubaProducts
<1>11. Shifted(w, s, part, 2)
  <2>1. w[1] * Weight(part * 1) = s[1] /\ w[2] * Weight(part * 2) = s[2]
    BY <1>1, <1>8, <1>9
  <2>2. \A k \in 1 .. 2 : k = 1 \/ k = 2
    OBVIOUS
  <2>. QED
    BY <2>1, <2>2, Zenon DEF Shifted
<1>12. m * m = w[0] + s[1] + s[2]
  BY <1>3, <1>4, <1>8, <1>9, Zenon
<1>13. SqrKaratsubaAt(1, h, x, w, s)
  BY <1>2, <1>7 DEF SqrKaratsubaAt
<1>. QED
  BY <1>7, <1>8, <1>9, <1>10, <1>11, <1>12, <1>13, Zenon DEF SqrKaratsubaState

(* A number of three parts, and the weights of the coefficients.           *)
LEMMA FourShifted ==
  ASSUME NEW w, NEW s, NEW part,
         w[1] * Weight(part * 1) = s[1], w[2] * Weight(part * 2) = s[2],
         w[3] * Weight(part * 3) = s[3], w[4] * Weight(part * 4) = s[4]
  PROVE  Shifted(w, s, part, 4)
<1>1. \A k \in 1 .. 4 : k = 1 \/ k = 2 \/ k = 3 \/ k = 4
  OBVIOUS
<1>. QED
  BY <1>1, Zenon DEF Shifted

LEMMA ToomBegins ==
  ASSUME NEW m \in Nat, NEW n \in Nat, NEW part \in Nat, NEW h,
         h["a0"] = m % Weight(part), h["a1"] = (m \div Weight(part)) % Weight(part),
         h["a2"] = m \div (Weight(part) * Weight(part)),
         h["b0"] = n % Weight(part), h["b1"] = (n \div Weight(part)) % Weight(part),
         h["b2"] = n \div (Weight(part) * Weight(part))
  PROVE  ToomState(h, 1, part, m * n)
<1>. DEFINE P == Weight(part)
            a0 == m % P
            a1 == (m \div P) % P
            a2 == m \div (P * P)
            b0 == n % P
            b1 == (n \div P) % P
            b2 == n \div (P * P)
            w0 == a0 * b0
            w1 == a0 * b1 + a1 * b0
            w2 == a0 * b2 + a1 * b1 + a2 * b0
            w3 == a1 * b2 + a2 * b1
            w4 == a2 * b2
<1>1. /\ P \in Nat /\ P > 0
      /\ Weight(part * 1) = P /\ Weight(part * 2) = P * P
      /\ Weight(part * 3) = P * (P * P) /\ Weight(part * 4) = (P * P) * (P * P)
  BY PartWeights
<1>2. /\ h["a0"] = a0 /\ h["a1"] = a1 /\ h["a2"] = a2
      /\ h["b0"] = b0 /\ h["b1"] = b1 /\ h["b2"] = b2
  OBVIOUS
<1>. HIDE DEF P
<1>3. /\ a0 \in Nat /\ a1 \in Nat /\ a2 \in Nat /\ m = a0 + a1 * P + a2 * (P * P)
      /\ b0 \in Nat /\ b1 \in Nat /\ b2 \in Nat /\ n = b0 + b1 * P + b2 * (P * P)
  BY <1>1, ThreeParts
<1>. HIDE DEF a0, a1, a2, b0, b1, b2
<1>4. w0 \in Nat /\ w1 \in Nat /\ w2 \in Nat /\ w3 \in Nat /\ w4 \in Nat
  BY <1>3
<1>5. w1 = a0 * b1 + a1 * b0 /\ w2 = a0 * b2 + a1 * b1 + a2 * b0 /\ w3 = a1 * b2 + a2 * b1
  OBVIOUS
<1>. HIDE DEF w1, w2, w3
<1>6. /\ (a0 + a1 * P + a2 * (P * P)) * (b0 + b1 * P + b2 * (P * P))
            = w0 + w1 * P + w2 * (P * P) + w3 * (P * (P * P)) + w4 * ((P * P) * (P * P))
      /\ (b2 + b1 + b0) * (a2 + a1 + a0) = w0 + w1 + w2 + w3 + w4
      /\ (4 * a2 + 2 * a1 + a0) * (4 * b2 + 2 * b1 + b0) = w0 + 2 * w1 + 4 * w2 + 8 * w3 + 16 * w4
      /\ (a2 - a1 + a0) * (b2 - b1 + b0) = w0 - w1 + w2 - w3 + w4
  BY <1>1, <1>3, <1>4, <1>5, ThreeByThree
<1>7. w0 = a0 * b0 /\ w4 = a2 * b2
  OBVIOUS
<1>. HIDE DEF w0, w4
<1>. DEFINE s1 == w1 * P
            s2 == w2 * (P * P)
            s3 == w3 * (P * (P * P))
            s4 == w4 * ((P * P) * (P * P))
<1>8. s1 \in Nat /\ s2 \in Nat /\ s3 \in Nat /\ s4 \in Nat
  BY <1>1, <1>4
<1>9. m * n = w0 + s1 + s2 + s3 + s4
  BY <1>3, <1>6, Zenon
<1>10. /\ s1 = w1 * Weight(part * 1) /\ s2 = w2 * Weight(part * 2)
       /\ s3 = w3 * Weight(part * 3) /\ s4 = w4 * Weight(part * 4)
  BY <1>1
<1>. HIDE DEF s1, s2, s3, s4
<1>11. m * n = s4 + s3 + s2 + s1 + w0
  <2>1. w0 + s1 + s2 + s3 + s4 = s4 + s3 + s2 + s1 + w0
    BY <1>4, <1>8
  <2>. QED
    BY <1>9, <2>1, Zenon
<1>. DEFINE x == Three(a0, a1, a2)
<1>12. x \in [0 .. 2 -> Nat] /\ x[0] = a0 /\ x[1] = a1 /\ x[2] = a2
  BY <1>3 DEF Three
<1>. HIDE DEF x
<1>. DEFINE y == Three(b0, b1, b2)
<1>13. y \in [0 .. 2 -> Nat] /\ y[0] = b0 /\ y[1] = b1 /\ y[2] = b2
  BY <1>3 DEF Three
<1>. HIDE DEF y
<1>. DEFINE w == Five(w0, w1, w2, w3, w4)
<1>14. w \in [0 .. 4 -> Nat] /\ w[0] = w0 /\ w[1] = w1 /\ w[2] = w2 /\ w[3] = w3 /\ w[4] = w4
  BY <1>4 DEF Five
<1>. HIDE DEF w
<1>. DEFINE s == Five(0, s1, s2, s3, s4)
<1>15. s \in [0 .. 4 -> Nat] /\ s[0] = 0 /\ s[1] = s1 /\ s[2] = s2 /\ s[3] = s3 /\ s[4] = s4
  BY <1>8 DEF Five
<1>. HIDE DEF s
<1>16. ToomProducts(x, y, w)
  BY <1>6, <1>7, <1>12, <1>13, <1>14, Zenon DEF ToomProducts
<1>17. Shifted(w, s, part, 4)
  BY <1>10, <1>14, <1>15, FourShifted
<1>18. m * n = s[4] + s[3] + s[2] + s[1] + w[0]
  BY <1>11, <1>14, <1>15, Zenon
<1>19. ToomAt(1, h, x, y, w, s)
  BY <1>2, <1>12, <1>13 DEF ToomAt
<1>. QED
  BY <1>12, <1>13, <1>14, <1>15, <1>16, <1>17, <1>18, <1>19, Zenon DEF ToomState

LEMMA SqrToomBegins ==
  ASSUME NEW m \in Nat, NEW part \in Nat, NEW h,
         h["a0"] = m % Weight(part), h["a1"] = (m \div Weight(part)) % Weight(part),
         h["a2"] = m \div (Weight(part) * Weight(part))
  PROVE  SqrToomState(h, 1, part, m * m)
<1>. DEFINE P == Weight(part)
            a0 == m % P
            a1 == (m \div P) % P
            a2 == m \div (P * P)
            w0 == a0 * a0
            w1 == a0 * a1 + a1 * a0
            w2 == a0 * a2 + a1 * a1 + a2 * a0
            w3 == a1 * a2 + a2 * a1
            w4 == a2 * a2
<1>1. /\ P \in Nat /\ P > 0
      /\ Weight(part * 1) = P /\ Weight(part * 2) = P * P
      /\ Weight(part * 3) = P * (P * P) /\ Weight(part * 4) = (P * P) * (P * P)
  BY PartWeights
<1>2. h["a0"] = a0 /\ h["a1"] = a1 /\ h["a2"] = a2
  OBVIOUS
<1>. HIDE DEF P
<1>3. a0 \in Nat /\ a1 \in Nat /\ a2 \in Nat /\ m = a0 + a1 * P + a2 * (P * P)
  BY <1>1, ThreeParts
<1>. HIDE DEF a0, a1, a2
<1>4. w0 \in Nat /\ w1 \in Nat /\ w2 \in Nat /\ w3 \in Nat /\ w4 \in Nat
  BY <1>3
<1>5. w1 = a0 * a1 + a1 * a0 /\ w2 = a0 * a2 + a1 * a1 + a2 * a0 /\ w3 = a1 * a2 + a2 * a1
  OBVIOUS
<1>. HIDE DEF w1, w2, w3
<1>6. (a0 + a1 * P + a2 * (P * P)) * (a0 + a1 * P + a2 * (P * P))
        = w0 + w1 * P + w2 * (P * P) + w3 * (P * (P * P)) + w4 * ((P * P) * (P * P))
  BY <1>1, <1>3, <1>4, <1>5, ThreeByThree
<1>7. /\ (a0 + a2 + a1) * (a0 + a2 + a1) = w0 + w1 + w2 + w3 + w4
      /\ (a0 + a2 - a1) * (a0 + a2 - a1) = w0 - w1 + w2 - w3 + w4
      /\ a1 * a2 + a1 * a2 = w3
  BY <1>3, <1>4, <1>5, ThreeSquared
<1>8. w0 = a0 * a0 /\ w4 = a2 * a2
  OBVIOUS
<1>. HIDE DEF w0, w4
<1>. DEFINE s1 == w1 * P
            s2 == w2 * (P * P)
            s3 == w3 * (P * (P * P))
            s4 == w4 * ((P * P) * (P * P))
<1>9. s1 \in Nat /\ s2 \in Nat /\ s3 \in Nat /\ s4 \in Nat
  BY <1>1, <1>4
<1>10. m * m = w0 + s1 + s2 + s3 + s4
  BY <1>3, <1>6, Zenon
<1>11. /\ s1 = w1 * Weight(part * 1) /\ s2 = w2 * Weight(part * 2)
       /\ s3 = w3 * Weight(part * 3) /\ s4 = w4 * Weight(part * 4)
  BY <1>1
<1>. HIDE DEF s1, s2, s3, s4
<1>12. m * m = s4 + s3 + s2 + s1 + w0
  <2>1. w0 + s1 + s2 + s3 + s4 = s4 + s3 + s2 + s1 + w0
    BY <1>4, <1>9
  <2>. QED
    BY <1>10, <2>1, Zenon
<1>. DEFINE x == Three(a0, a1, a2)
<1>13. x \in [0 .. 2 -> Nat] /\ x[0] = a0 /\ x[1] = a1 /\ x[2] = a2
  BY <1>3 DEF Three
<1>. HIDE DEF x
<1>. DEFINE w == Five(w0, w1, w2, w3, w4)
<1>14. w \in [0 .. 4 -> Nat] /\ w[0] = w0 /\ w[1] = w1 /\ w[2] = w2 /\ w[3] = w3 /\ w[4] = w4
  BY <1>4 DEF Five
<1>. HIDE DEF w
<1>. DEFINE s == Five(0, s1, s2, s3, s4)
<1>15. s \in [0 .. 4 -> Nat] /\ s[0] = 0 /\ s[1] = s1 /\ s[2] = s2 /\ s[3] = s3 /\ s[4] = s4
  BY <1>9 DEF Five
<1>. HIDE DEF s
<1>16. SqrToomProducts(x, w)
  BY <1>7, <1>8, <1>13, <1>14, Zenon DEF SqrToomProducts
<1>17. Shifted(w, s, part, 4)
  BY <1>11, <1>14, <1>15, FourShifted
<1>18. m * m = s[4] + s[3] + s[2] + s[1] + w[0]
  BY <1>12, <1>14, <1>15, Zenon
<1>19. SqrToomAt(1, h, x, w, s)
  BY <1>2, <1>13 DEF SqrToomAt
<1>. QED
  BY <1>13, <1>14, <1>15, <1>16, <1>17, <1>18, <1>19, Zenon DEF SqrToomState

(* What the temporaries and the destination hold before the i-th call of a *)
(* routine that is to make r.                                              *)
PartsState(routine, h, i, part, r) ==
  /\ routine = "karatsuba" => KaratsubaState(h, i, part, r)
  /\ routine = "sqr_karatsuba" => SqrKaratsubaState(h, i, part, r)
  /\ routine = "toom" => ToomState(h, i, part, r)
  /\ routine = "sqr_toom" => SqrToomState(h, i, part, r)

PartsHeld(routine, r) ==
  \E h : /\ Temporaries(routine) \cup {"c"} \subseteq DOMAIN h
         /\ \A t \in Temporaries(routine) \cup {"c"} : h[t] = Operand(t)
         /\ PartsState(routine, h, loc.i, loc.part, r)

LEMMA PartsNext ==
  ASSUME NEW routine \in PartRoutines, NEW i \in 1 .. Len(Calls(routine)), NEW h,
         Temporaries(routine) \cup {"c"} \subseteq DOMAIN h,
         NEW part, NEW r, PartsState(routine, h, i, part, r)
  PROVE  /\ PartsState(routine, After(Calls(routine)[i], h, part), i + 1, part, r)
         /\ i = Len(Calls(routine)) => Outcome(Calls(routine)[i], h, part) = r
<1>. DEFINE last(call) == After(call, h, part)["c"]
<1>1. ASSUME NEW call, call[1] = "c" PROVE last(call) = Outcome(call, h, part)
  BY <1>1 DEF After
<1>. HIDE DEF last
<1>2. CASE routine = "karatsuba"
  <2>1. Calls(routine) = Karatsuba
    BY <1>2 DEF Calls
  <2>2. i \in 1 .. 11 /\ Len(Karatsuba) = 11
    BY <2>1, KaratsubaCalls
  <2>3. KaratsubaTemps \cup {"c"} \subseteq DOMAIN h /\ KaratsubaState(h, i, part, r)
    BY <1>2, PartTemporaries DEF PartsState
  <2>4. KaratsubaState(After(Karatsuba[i], h, part), i + 1, part, r)
    BY <2>2, <2>3, KaratsubaNext
  <2>5. i = 11 => After(Karatsuba[i], h, part)["c"] = r
    BY <2>4, PartsEnd
  <2>6. Karatsuba[11][1] = "c"
    BY DEF Karatsuba
  <2>. QED
    BY <1>1, <1>2, <2>1, <2>2, <2>4, <2>5, <2>6 DEF PartsState, last
<1>3. CASE routine = "sqr_karatsuba"
  <2>1. Calls(routine) = SqrKaratsuba
    BY <1>3 DEF Calls
  <2>2. i \in 1 .. 10 /\ Len(SqrKaratsuba) = 10
    BY <2>1, SqrKaratsubaCalls
  <2>3. SqrKaratsubaTemps \cup {"c"} \subseteq DOMAIN h /\ SqrKaratsubaState(h, i, part, r)
    BY <1>3, PartTemporaries DEF PartsState
  <2>4. SqrKaratsubaState(After(SqrKaratsuba[i], h, part), i + 1, part, r)
    BY <2>2, <2>3, SqrKaratsubaNext
  <2>5. i = 10 => After(SqrKaratsuba[i], h, part)["c"] = r
    BY <2>4, PartsEnd
  <2>6. SqrKaratsuba[10][1] = "c"
    BY DEF SqrKaratsuba
  <2>. QED
    BY <1>1, <1>3, <2>1, <2>2, <2>4, <2>5, <2>6 DEF PartsState, last
<1>4. CASE routine = "toom"
  <2>1. Calls(routine) = Toom
    BY <1>4 DEF Calls
  <2>2. i \in 1 .. 39 /\ Len(Toom) = 39
    BY <2>1, ToomCalls
  <2>3. ToomTemps \cup {"c"} \subseteq DOMAIN h /\ ToomState(h, i, part, r)
    BY <1>4, PartTemporaries DEF PartsState
  <2>4. ToomState(After(Toom[i], h, part), i + 1, part, r)
    BY <2>2, <2>3, ToomNext
  <2>5. i = 39 => After(Toom[i], h, part)["c"] = r
    BY <2>4, PartsEnd
  <2>6. Toom[39][1] = "c"
    BY DEF Toom
  <2>. QED
    BY <1>1, <1>4, <2>1, <2>2, <2>4, <2>5, <2>6 DEF PartsState, last
<1>5. CASE routine = "sqr_toom"
  <2>1. Calls(routine) = SqrToom
    BY <1>5 DEF Calls
  <2>2. i \in 1 .. 23 /\ Len(SqrToom) = 23
    BY <2>1, SqrToomCalls
  <2>3. SqrToomTemps \cup {"c"} \subseteq DOMAIN h /\ SqrToomState(h, i, part, r)
    BY <1>5, PartTemporaries DEF PartsState
  <2>4. SqrToomState(After(SqrToom[i], h, part), i + 1, part, r)
    BY <2>2, <2>3, SqrToomNext
  <2>5. i = 23 => After(SqrToom[i], h, part)["c"] = r
    BY <2>4, PartsEnd
  <2>6. SqrToom[23][1] = "c"
    BY DEF SqrToom
  <2>. QED
    BY <1>1, <1>5, <2>1, <2>2, <2>4, <2>5, <2>6 DEF PartsState, last
<1>. QED
  BY <1>2, <1>3, <1>4, <1>5 DEF PartRoutines

LEMMA PartsResult ==
  ASSUME NEW routine \in PartRoutines, loc.i \in 1 .. Len(Calls(routine)),
         NEW r, PartsHeld(routine, r), loc.i = Len(Calls(routine))
  PROVE  Result(Calls(routine)[loc.i]) = r
<1>. DEFINE call == Calls(routine)[loc.i]
<1>1. PICK h : /\ Temporaries(routine) \cup {"c"} \subseteq DOMAIN h
               /\ \A t \in Temporaries(routine) \cup {"c"} : h[t] = Operand(t)
               /\ PartsState(routine, h, loc.i, loc.part, r)
  BY Zenon DEF PartsHeld
<1>2. IsCall(call, Temporaries(routine))
  BY PartCalls
<1>3. Outcome(call, h, loc.part) = r
  BY <1>1, PartsNext
<1>. HIDE DEF call
<1>4. Result(call) = Outcome(call, h, loc.part)
  BY <1>1, <1>2, OutcomeIs
<1>. QED
  BY <1>3, <1>4 DEF call

LEMMA PartsCalled ==
  ASSUME MulContext, NEW routine \in PartRoutines, loc.routine = routine, PartLocals,
         NEW r, PartsHeld(routine, r), NEW call, call = Calls(routine)[loc.i],
         \/ call[1] = "c" /\ Put(fr.c, Result(call)) /\ loc' = [loc EXCEPT !.i = @ + 1]
         \/ /\ call[1] # "c" /\ UNCHANGED val
            /\ loc' = [[loc EXCEPT !.i = @ + 1] EXCEPT !.t[call[1]] = Result(call)]
  PROVE  PartsHeld(routine, r)'
<1>. DEFINE temps == Temporaries(routine)
            n == Result(call)
<1>1. PICK h : /\ temps \cup {"c"} \subseteq DOMAIN h
               /\ \A t \in temps \cup {"c"} : h[t] = Operand(t)
               /\ PartsState(routine, h, loc.i, loc.part, r)
  BY Zenon DEF PartsHeld
<1>2. loc.i \in 1 .. Len(Calls(routine)) /\ DOMAIN loc = {"neg", "routine", "i", "part", "t"}
      /\ DOMAIN loc.t = temps
  BY DEF PartLocals
<1>3. IsCall(call, temps) /\ PartsState(routine, After(call, h, loc.part), loc.i + 1, loc.part, r)
  BY <1>1, <1>2, PartCalls, PartsNext
<1>4. n = Outcome(call, h, loc.part)
  BY <1>1, <1>3, OutcomeIs
<1>. DEFINE g == After(call, h, loc.part)
<1>5. g = [h EXCEPT ![call[1]] = n] /\ call[1] \in temps \cup {"c"}
  BY <1>3, <1>4 DEF After, IsCall
<1>6. PartsState(routine, g, loc.i + 1, loc.part, r)
  BY <1>3
<1>. HIDE DEF g, n
<1>7. DOMAIN g = DOMAIN h /\ g[call[1]] = n /\ \A t \in DOMAIN h : t # call[1] => g[t] = h[t]
  BY <1>1, <1>5
<1>8. temps \cup {"c"} \subseteq DOMAIN g
  BY <1>1, <1>7
<1>9. loc'.i = loc.i + 1 /\ loc'.part = loc.part
  BY <1>2
<1>10. fr.c \in Ints /\ DOMAIN val = Ints /\ fr' = fr
  BY DEF MulContext, MulFrames, Remembered
<1>11. \A t \in temps \cup {"c"} : g[t] = Operand(t)'
  <2>1. CASE call[1] = "c" /\ Put(fr.c, Result(call)) /\ loc' = [loc EXCEPT !.i = @ + 1]
    <3>1. loc'.t = loc.t /\ val'[fr.c] = n
      BY <1>2, <1>10, <2>1 DEF Put, n
    <3>2. ASSUME NEW t \in temps \cup {"c"} PROVE g[t] = Operand(t)'
      <4>1. CASE t = "c"
        BY <1>7, <1>10, <2>1, <3>1, <4>1 DEF Operand
      <4>2. CASE t # "c"
        BY <1>1, <1>7, <2>1, <3>1, <4>2 DEF Operand
      <4>. QED
        BY <4>1, <4>2
    <3>. QED
      BY <3>2
  <2>2. CASE /\ call[1] # "c" /\ UNCHANGED val
             /\ loc' = [[loc EXCEPT !.i = @ + 1] EXCEPT !.t[call[1]] = Result(call)]
    <3>1. loc'.t = [loc.t EXCEPT ![call[1]] = n]
      <4>. DEFINE next == [loc EXCEPT !.i = @ + 1]
      <4>1. DOMAIN next = {"neg", "routine", "i", "part", "t"} /\ next.t = loc.t
        BY <1>2
      <4>2. loc' = [next EXCEPT !.t[call[1]] = n]
        BY <2>2 DEF n
      <4>. HIDE DEF next
      <4>. QED
        BY <4>1, <4>2
    <3>2. call[1] \in temps
      BY <1>5, <2>2
    <3>3. loc'.t[call[1]] = n /\ \A t \in temps : t # call[1] => loc'.t[t] = loc.t[t]
      BY <1>2, <3>1, <3>2
    <3>4. ASSUME NEW t \in temps \cup {"c"} PROVE g[t] = Operand(t)'
      <4>1. CASE t = "c"
        BY <1>1, <1>7, <1>10, <2>2, <4>1 DEF Operand
      <4>2. CASE t # "c" /\ t # call[1]
        BY <1>1, <1>7, <3>3, <4>2 DEF Operand
      <4>3. CASE t # "c" /\ t = call[1]
        BY <1>7, <3>3, <4>3 DEF Operand
      <4>. QED
        BY <4>1, <4>2, <4>3
    <3>. QED
      BY <3>4
  <2>. QED
    BY <2>1, <2>2
<1>12. PartsState(routine, g, loc'.i, loc'.part, r)
  BY <1>6, <1>9
<1>. QED
  BY <1>8, <1>11, <1>12, Zenon DEF PartsHeld

LEMMA PartsHeldBegins ==
  ASSUME NEW routine \in PartRoutines, A \in Int, B \in Int,
         routine \in {"sqr_karatsuba", "sqr_toom"} => fr.a = fr.b,
         loc'.i = 1, loc'.part = Part(routine), loc'.t = Parts(routine),
         NEW r, r = Magnitude(A) * Magnitude(B)
  PROVE  PartsHeld(routine, r)'
<1>. DEFINE temps == Temporaries(routine)
            part == Part(routine)
            m == Magnitude(A)
            n == Magnitude(B)
            W == Weight(part)
            h == [t \in temps \cup {"c"} |-> Operand(t)']
<1>1. m \in Nat /\ n \in Nat /\ part \in Nat
  BY MagnitudeProperties, PartsTyped
<1>2. \A t \in temps : t # "c" => h[t] = Parts(routine)[t]
  BY DEF Operand
<1>3. DOMAIN h = temps \cup {"c"} /\ \A t \in temps \cup {"c"} : h[t] = Operand(t)'
  OBVIOUS
<1>. HIDE DEF h
<1>4. Parts(routine) =
        [t \in temps |->
           CASE t \in {"x0", "a0"} -> m % W [] t = "x1" -> m \div W
             [] t = "a1" -> (m \div W) % W [] t = "a2" -> m \div (W * W)
             [] t \in {"y0", "b0"} -> n % W [] t = "y1" -> n \div W
             [] t = "b1" -> (n \div W) % W [] t = "b2" -> n \div (W * W)
             [] OTHER -> 0]
  BY DEF Parts
<1>5. routine \in {"sqr_karatsuba", "sqr_toom"} => n = m
  BY DEF A, B
<1>. HIDE DEF temps, part, m, n
<1>6. PartsState(routine, h, 1, part, m * n)
  <2>1. CASE routine = "karatsuba"
    <3>1. {"x0", "x1", "y0", "y1"} \subseteq temps
      BY <2>1, PartTemporaries DEF KaratsubaTemps, temps
    <3>2. h["x0"] = m % W /\ h["x1"] = m \div W /\ h["y0"] = n % W /\ h["y1"] = n \div W
      BY <1>2, <1>4, <3>1
    <3>3. KaratsubaState(h, 1, part, m * n)
      BY <1>1, <3>2, KaratsubaBegins
    <3>. QED
      BY <2>1, <3>3 DEF PartsState
  <2>2. CASE routine = "sqr_karatsuba"
    <3>1. {"x0", "x1"} \subseteq temps
      BY <2>2, PartTemporaries DEF SqrKaratsubaTemps, temps
    <3>2. h["x0"] = m % W /\ h["x1"] = m \div W
      BY <1>2, <1>4, <3>1
    <3>3. SqrKaratsubaState(h, 1, part, m * m)
      BY <1>1, <3>2, SqrKaratsubaBegins
    <3>. QED
      BY <1>5, <2>2, <3>3 DEF PartsState
  <2>3. CASE routine = "toom"
    <3>1. {"a0", "a1", "a2", "b0", "b1", "b2"} \subseteq temps
      BY <2>3, PartTemporaries DEF ToomTemps, temps
    <3>2. /\ h["a0"] = m % W /\ h["a1"] = (m \div W) % W /\ h["a2"] = m \div (W * W)
          /\ h["b0"] = n % W /\ h["b1"] = (n \div W) % W /\ h["b2"] = n \div (W * W)
      BY <1>2, <1>4, <3>1
    <3>3. ToomState(h, 1, part, m * n)
      BY <1>1, <3>2, ToomBegins
    <3>. QED
      BY <2>3, <3>3 DEF PartsState
  <2>4. CASE routine = "sqr_toom"
    <3>1. {"a0", "a1", "a2"} \subseteq temps
      BY <2>4, PartTemporaries DEF SqrToomTemps, temps
    <3>2. h["a0"] = m % W /\ h["a1"] = (m \div W) % W /\ h["a2"] = m \div (W * W)
      BY <1>2, <1>4, <3>1
    <3>3. SqrToomState(h, 1, part, m * m)
      BY <1>1, <3>2, SqrToomBegins
    <3>. QED
      BY <1>5, <2>4, <3>3 DEF PartsState
  <2>. QED
    BY <2>1, <2>2, <2>3, <2>4 DEF PartRoutines
<1>7. PartsState(routine, h, loc'.i, loc'.part, r)
  BY <1>6 DEF part, m, n
<1>. QED
  BY <1>3, <1>7, Zenon DEF PartsHeld, temps

-----------------------------------------------------------------------------
(* The product a call is to make, by the operands it was given.            *)
Asked == IF fr.op = "mul" THEN Used(old[fr.a]) + Used(old[fr.b]) + 1 ELSE fr.digs

MulMade(n) ==
  LET a == Magnitude(old[fr.a])
      b == Magnitude(old[fr.b])
  IN  /\ n \in Int
      /\ fr.op = "mul" => Magnitude(n) = a * b
      /\ fr.op = "low" => Magnitude(n) = LowProduct(a, b, Asked)
      /\ fr.op = "high" => Magnitude(n) \div Weight(Asked) = HighPart(a, b, Asked) \div Weight(Asked)

(* The routine chosen is one of those for the call, and may be used for    *)
(* operands so long.                                                       *)
MulChosen ==
  /\ Asked \in Nat
  /\ fr.op = "low" => loc.routine \in {"comba", "mul"}
  /\ fr.op = "high" => loc.routine \in {"high_comba", "mul_high"}
  /\ fr.op = "mul" =>
       loc.routine \in {"none", "comba", "mul", "sqr_comba", "sqr", "balance"} \cup PartRoutines
  /\ loc.routine \in {"sqr_comba", "sqr", "sqr_karatsuba", "sqr_toom"} => fr.a = fr.b
  /\ loc.routine \in Columns => MinOf(Used(old[fr.a]), Used(old[fr.b])) <= MP_MAX_COMBA
  /\ loc.routine = "none" => "mul" \notin fr.has
  /\ loc.routine = "balance" => MinOf(Used(old[fr.a]), Used(old[fr.b])) > 0

LEMMA MulOperands ==
  ASSUME MulContext,
         \/ pc \in MulOps \cup {"mul_begins"}
         \/ pc = "mul_runs" /\ loc.routine \notin {"toom", "sqr_toom"}
  PROVE  /\ A = old[fr.a] /\ B = old[fr.b] /\ A \in Int /\ B \in Int
         /\ fr.c \in Ints /\ val[fr.c] \in Int
<1>1. fr.a \in Ints /\ fr.b \in Ints /\ fr.c \in Ints
  BY DEF MulContext, MulFrames
<1>2. old[fr.a] \in Int /\ old[fr.b] \in Int /\ old[fr.c] \in Int
  BY <1>1 DEF MulContext, Remembered
<1>3. \A s \in Ints : val[s] = old[s]
  BY DEF MulContext, MulWrites
<1>. QED
  BY <1>1, <1>2, <1>3 DEF A, B

LEMMA OldOperands ==
  ASSUME MulContext
  PROVE  /\ old[fr.a] \in Int /\ old[fr.b] \in Int /\ fr.c \in Ints /\ DOMAIN val = Ints
         /\ Magnitude(old[fr.a]) \in Nat /\ Magnitude(old[fr.b]) \in Nat
         /\ Used(old[fr.a]) \in Nat /\ Used(old[fr.b]) \in Nat
         /\ Used(Magnitude(old[fr.a])) = Used(old[fr.a]) /\ Used(Magnitude(old[fr.b])) = Used(old[fr.b])
<1>1. fr.a \in Ints /\ fr.b \in Ints /\ fr.c \in Ints
  BY DEF MulContext, MulFrames
<1>2. old[fr.a] \in Int /\ old[fr.b] \in Int /\ DOMAIN val = Ints
  BY <1>1 DEF MulContext, Remembered
<1>. QED
  BY <1>1, <1>2, UsedTyped

(* mp_mul gives the magnitude its sign.                                    *)
LEMMA SignedProduct ==
  ASSUME NEW x \in Int, NEW y \in Int, NEW n, n = Magnitude(x) * Magnitude(y)
  PROVE  (IF Sgn(x) # Sgn(y) THEN - n ELSE n) = x * y
<1>. DEFINE s == Sgn(x)
            t == Sgn(y)
            m == Magnitude(x)
            k == Magnitude(y)
<1>1. m \in Nat /\ k \in Nat /\ s \in {-1, 1} /\ t \in {-1, 1} /\ x = s * m /\ y = t * k
  BY MagnitudeProperties
<1>2. n = m * k
  OBVIOUS
<1>. HIDE DEF s, t, m, k
<1>3. (IF s # t THEN - n ELSE n) = x * y
  <2>1. CASE s = 1 /\ t = 1
    BY <1>1, <1>2, <2>1
  <2>2. CASE s = 1 /\ t = -1
    BY <1>1, <1>2, <2>2
  <2>3. CASE s = -1 /\ t = 1
    BY <1>1, <1>2, <2>3
  <2>4. CASE s = -1 /\ t = -1
    BY <1>1, <1>2, <2>4
  <2>. QED
    BY <1>1, <2>1, <2>2, <2>3, <2>4
<1>. QED
  BY <1>3 DEF s, t

LEMMA ProductDelivered ==
  ASSUME MulContext, pc = "mul_runs", NEW n, MulMade(n), Asked \in Nat,
         NEW cleared, Deliver("OKAY", n, cleared)
  PROVE  ProductCorrect'
<1>. DEFINE a == old[fr.a]
            b == old[fr.b]
            c == val'[fr.c]
<1>1. /\ a \in Int /\ b \in Int /\ fr.c \in Ints /\ DOMAIN val = Ints
      /\ Used(Magnitude(a)) = Used(a) /\ Used(Magnitude(b)) = Used(b)
  BY OldOperands
<1>2. /\ c = (IF fr.op = "mul" THEN IF loc.neg THEN - Magnitude(n) ELSE Magnitude(n) ELSE n)
      /\ pc' = "done" /\ err' = "OKAY" /\ fr' = fr /\ old' = old
  BY <1>1 DEF Deliver, Put, Return, MulContext
<1>3. fr.op = "mul" => loc.neg = (Sgn(a) # Sgn(b))
  BY DEF MulContext, MulWrites, MulLocals
<1>4. fr.op \in MulOps
  BY DEF MulContext
<1>. HIDE DEF a, b, c
<1>5. CASE fr.op = "mul"
  <2>1. Magnitude(n) = Magnitude(a) * Magnitude(b)
    BY <1>5 DEF MulMade, a, b
  <2>2. c = a * b
    BY <1>1, <1>2, <1>3, <1>5, <2>1, SignedProduct
  <2>. QED
    BY <1>2, <1>5, <2>2 DEF ProductCorrect, Succeeded, Done, a, b, c
<1>6. CASE fr.op = "low"
  <2>1. Asked = fr.digs
    BY <1>6 DEF Asked
  <2>2. Magnitude(n) = LowProduct(Magnitude(a), Magnitude(b), fr.digs)
    BY <1>6, <2>1 DEF MulMade, a, b
  <2>3. Magnitude(c) = (Magnitude(a) * Magnitude(b)) % Weight(MinOf(fr.digs, Used(a) + Used(b) + 1))
    BY <1>1, <1>2, <1>6, <2>2 DEF LowProduct
  <2>. QED
    BY <1>2, <1>6, <2>3 DEF ProductCorrect, Succeeded, Done, a, b, c
<1>7. CASE fr.op = "high"
  <2>1. Asked = fr.digs /\ fr.digs \in Nat
    BY <1>7 DEF Asked
  <2>2. Magnitude(n) \div Weight(fr.digs) = HighPart(Magnitude(a), Magnitude(b), fr.digs) \div Weight(fr.digs)
    BY <1>7, <2>1 DEF MulMade, a, b
  <2>3. HighColumns(a, b, fr.digs) = HighPart(Magnitude(a), Magnitude(b), fr.digs)
    BY <1>1, <2>1, HighColumnsPart
  <2>4. Magnitude(c) \div Weight(fr.digs) = HighColumns(a, b, fr.digs) \div Weight(fr.digs)
    BY <1>2, <1>7, <2>2, <2>3
  <2>. QED
    BY <1>2, <1>7, <2>4 DEF ProductCorrect, Succeeded, Done, a, b, c
<1>. QED
  BY <1>4, <1>5, <1>6, <1>7 DEF MulOps

LEMMA ProductRefused ==
  ASSUME fr' = fr, pc' = "done", err' \in {"MEM", "VAL"},
         fr.op = "mul" /\ err' = "VAL" => "mul" \notin fr.has
  PROVE  ProductCorrect'
BY DEF ProductCorrect, Succeeded, Done


LEMMA RoutineChosen ==
  ASSUME Used(A) \in Nat, Used(B) \in Nat, NEW r, r = MulRoutine
  PROVE  /\ r \in {"none", "comba", "mul", "sqr_comba", "sqr", "balance"} \cup PartRoutines
         /\ r \in {"sqr_comba", "sqr", "sqr_karatsuba", "sqr_toom"} => fr.a = fr.b
         /\ r \in Columns => MinOf(Used(A), Used(B)) <= MP_MAX_COMBA
         /\ r = "none" => "mul" \notin fr.has
         /\ r = "balance" => MinOf(Used(A), Used(B)) > 0
<1>. DEFINE min == MinOf(Used(A), Used(B))
            max == MaxOf(Used(A), Used(B))
            cut == MP_MUL_KARATSUBA_CUTOFF
            square == fr.a = fr.b
            first ==
              /\ square
              /\ \/ r \in {"sqr_toom", "sqr_karatsuba", "sqr"}
                 \/ r = "sqr_comba" /\ UsesComba(2 * Used(A) + 1, Used(A))
            second ==
              \/ r = "balance" /\ min >= cut
              \/ r \in {"toom", "karatsuba", "mul"}
              \/ r = "comba" /\ UsesComba(Used(A) + Used(B) + 1, min)
              \/ r = "none" /\ ~ Has("mul")
              \/ r = "comba" /\ PassesOn(Used(A) + Used(B) + 1)
<1>1. first \/ second
  BY Zenon DEF MulRoutine
<1>2. min \in Nat /\ cut \in Nat /\ cut > 0
  BY CutoffAssumption DEF MinOf
<1>3. MP_MAX_COMBA \in Int
  BY WordFacts
<1>4. CASE first
  <2>1. r = "sqr_comba" => Used(A) <= MP_MAX_COMBA
    BY <1>4 DEF UsesComba
  <2>2. min = Used(A)
    BY <1>4 DEF MinOf, A, B
  <2>. QED
    BY <1>4, <2>1, <2>2 DEF PartRoutines, Columns
<1>5. CASE second
  <2>1. r = "comba" => min <= MP_MAX_COMBA
    BY <1>2, <1>3, <1>5 DEF UsesComba, PassesOn
  <2>. QED
    BY <1>2, <1>5, <2>1 DEF PartRoutines, Columns, Has
<1>. QED
  BY <1>1, <1>4, <1>5

LEMMA MulChooses ==
  ASSUME MulContext, mp_mul \/ s_mp_mul \/ s_mp_mul_high
  PROVE  \/ pc' = "mul_begins" /\ MulChosen' /\ loc'.digs = Asked
         \/ pc' = "done" /\ ProductCorrect'
<1>1. /\ A = old[fr.a] /\ B = old[fr.b] /\ Used(A) \in Nat /\ Used(B) \in Nat
      /\ fr' = fr /\ old' = old
  <2>1. pc \in MulOps
    BY DEF mp_mul, s_mp_mul, s_mp_mul_high, MulOps
  <2>2. A = old[fr.a] /\ B = old[fr.b]
    BY <2>1, MulOperands
  <2>. QED
    BY <2>2, OldOperands DEF MulContext
<1>2. pc \in MulOps => fr.op = pc
  BY DEF MulContext, MulOwns
<1>3. Asked' = Asked
  BY <1>1 DEF Asked
<1>4. CASE mp_mul
  <2>1. fr.op = "mul" /\ pc' = "mul_begins" /\ loc'.routine = MulRoutine
          /\ loc'.digs = Used(A) + Used(B) + 1
    BY <1>2, <1>4 DEF mp_mul, Goto, MulOps
  <2>2. Asked = Used(A) + Used(B) + 1 /\ Asked \in Nat
    BY <1>1, <2>1 DEF Asked
  <2>3. MulChosen'
    <3>. DEFINE r == loc'.routine
    <3>1. r = MulRoutine
      BY <2>1
    <3>. HIDE DEF r
    <3>2. /\ r \in {"none", "comba", "mul", "sqr_comba", "sqr", "balance"} \cup PartRoutines
          /\ r \in {"sqr_comba", "sqr", "sqr_karatsuba", "sqr_toom"} => fr.a = fr.b
          /\ r \in Columns => MinOf(Used(A), Used(B)) <= MP_MAX_COMBA
          /\ r = "none" => "mul" \notin fr.has
          /\ r = "balance" => MinOf(Used(A), Used(B)) > 0
      BY <1>1, <3>1, RoutineChosen
    <3>. QED
      BY <1>1, <1>3, <2>1, <2>2, <3>2 DEF MulChosen, r
  <2>. QED
    BY <2>1, <2>2, <2>3
<1>5. CASE s_mp_mul \/ s_mp_mul_high
  <2>1. fr.op \in {"low", "high"} /\ (s_mp_mul => fr.op = "low") /\ (s_mp_mul_high => fr.op = "high")
    BY <1>2, <1>5 DEF s_mp_mul, s_mp_mul_high, MulOps
  <2>2. Asked = fr.digs
    BY <2>1 DEF Asked
  <2>3. CASE fr.digs < 0 /\ Refuse("VAL", {})
    BY <1>1, <2>1, <2>3, ProductRefused DEF Refuse, Return
  <2>4. CASE /\ fr.digs >= 0 /\ loc'.digs = fr.digs /\ pc' = "mul_begins"
             /\ fr.op = "low" => loc'.routine \in {"comba", "mul"}
             /\ fr.op = "high" => loc'.routine \in {"high_comba", "mul_high"}
             /\ loc'.routine \in {"comba", "high_comba"} => MinOf(Used(A), Used(B)) <= MP_MAX_COMBA
    <3>1. fr.digs \in Int
      BY <2>1 DEF MulContext, MulFrames
    <3>. QED
      BY <1>1, <1>3, <2>1, <2>2, <2>4, <3>1 DEF MulChosen, Columns
  <2>5. \A digs : PassesOn(digs) => MinOf(Used(A), Used(B)) <= MP_MAX_COMBA
    BY <1>1, WordFacts DEF PassesOn, MinOf
  <2>6. CASE s_mp_mul
    BY <2>1, <2>3, <2>4, <2>5, <2>6 DEF s_mp_mul, Goto
  <2>7. CASE s_mp_mul_high
    BY <2>1, <2>3, <2>4, <2>5, <2>7 DEF s_mp_mul_high, Goto
  <2>. QED
    BY <1>5, <2>6, <2>7
<1>. QED
  BY <1>4, <1>5

-----------------------------------------------------------------------------
(* Columns: from the first on they hold what belongs to them, and a first  *)
(* one above all of them leaves them as they were.                         *)
ColumnsHeld(m, n, first, pa, W, ix, carry) ==
  /\ ix \in Nat
  /\ \/ first <= ix /\ ix <= pa /\ CombaState(m, n, first, pa, W, ix, carry)
     \/ pa < first /\ ix = first /\ W = Zeros(pa)

FirstColumn == IF loc.routine = "high_comba" THEN Asked ELSE 0
LastColumn ==
  LET all == Used(old[fr.a]) + Used(old[fr.b])
  IN  IF loc.routine = "comba" THEN MinOf(Asked, all) ELSE all

ColumnsRun ==
  /\ DOMAIN loc = {"neg", "routine", "ix", "first", "pa", "W", "carry"}
  /\ loc.first = FirstColumn /\ loc.pa = LastColumn
  /\ ColumnsHeld(Magnitude(old[fr.a]), Magnitude(old[fr.b]), loc.first, loc.pa, loc.W, loc.ix, loc.carry)

LEMMA ColumnsAsked ==
  ASSUME MulContext, MulChosen
  PROVE  FirstColumn \in Nat /\ LastColumn \in Nat
<1>1. Used(old[fr.a]) \in Nat /\ Used(old[fr.b]) \in Nat
  BY OldOperands
<1>. QED
  BY <1>1 DEF FirstColumn, LastColumn, MulChosen, MinOf

LEMMA ColumnsStart ==
  ASSUME NEW m \in Nat, NEW n \in Nat, NEW first \in Nat, NEW pa \in Nat
  PROVE  ColumnsHeld(m, n, first, pa, Zeros(pa), first, 0)
<1>1. CASE pa < first
  BY <1>1 DEF ColumnsHeld
<1>2. CASE first <= pa
  <2>1. /\ Zeros(pa) \in [0 .. pa - 1 -> 0 .. Radix - 1] /\ \A i \in 0 .. pa - 1 : Zeros(pa)[i] = 0
        /\ Number(Zeros(pa), pa) = 0
    BY ZerosNumber
  <2>2. Numbers(Zeros(pa), pa)
    BY <2>1, DigitsNumbers
  <2>3. first \in 0 .. pa /\ \A i \in first .. pa - 1 : Zeros(pa)[i] = 0
    BY <1>2, <2>1
  <2>4. Number(Zeros(pa), pa) = Number(Zeros(pa), first)
    BY <2>2, <2>3, NumberZeros
  <2>5. 0 <= MP_MAX_COMBA * (Radix - 1)
    <3>1. MP_MAX_COMBA \in Nat /\ Radix - 1 \in Nat
      BY WordFacts, Weights
    <3>2. MP_MAX_COMBA * (Radix - 1) \in Nat
      BY <3>1, IntegerProducts
    <3>. QED
      BY <3>2
  <2>6. ColumnsBelow(m, n, first) \in Int /\ Weight(first) \in Int
    <3>1. ColumnsBelow(m, n, first) \in Nat
      BY ColumnTyped, Zenon
    <3>2. Weight(first) \in Nat
      BY Weights
    <3>. QED
      BY <3>1, <3>2
  <2>7. Number(Zeros(pa), first) + 0 * Weight(first) = ColumnsBelow(m, n, first) - ColumnsBelow(m, n, first)
    BY <2>1, <2>4, <2>6
  <2>8. CombaState(m, n, first, pa, Zeros(pa), first, 0)
    BY <2>1, <2>5, <2>7 DEF CombaState
  <2>. QED
    BY <1>2, <2>8 DEF ColumnsHeld
<1>. QED
  BY <1>1, <1>2


LEMMA ColumnsBegin ==
  ASSUME MulContext, MulChosen, comba_begin, loc.digs = Asked
  PROVE  \/ pc' = "mul_runs" /\ loc'.routine = loc.routine /\ ColumnsRun'
         \/ pc' = "done" /\ ProductCorrect'
<1>1. PICK routine \in {"comba", "sqr_comba", "high_comba"} :
        /\ pc = "mul_begins" /\ loc.routine = routine
        /\ \/ Fail({})
           \/ LET first == IF routine = "high_comba" THEN loc.digs ELSE 0
                  pa == IF routine = "comba" THEN MinOf(loc.digs, Used(A) + Used(B)) ELSE Used(A) + Used(B)
              IN  /\ loc' = [neg |-> loc.neg, routine |-> routine, ix |-> first, first |-> first,
                             pa |-> pa, W |-> Zeros(pa), carry |-> 0]
                  /\ Goto("mul_runs")
  BY DEF comba_begin, Begins
<1>2. A = old[fr.a] /\ B = old[fr.b] /\ fr' = fr /\ old' = old
  BY <1>1, MulOperands DEF MulContext
<1>3. CASE Fail({})
  BY <1>2, <1>3, ProductRefused DEF Fail, Deliver, Return
<1>. DEFINE first == FirstColumn
            pa == LastColumn
<1>4. CASE /\ loc' = [neg |-> loc.neg, routine |-> routine, ix |-> first, first |-> first,
                      pa |-> pa, W |-> Zeros(pa), carry |-> 0]
           /\ pc' = "mul_runs"
  <2>1. first \in Nat /\ pa \in Nat
    BY ColumnsAsked
  <2>2. Magnitude(old[fr.a]) \in Nat /\ Magnitude(old[fr.b]) \in Nat
    BY OldOperands
  <2>3. ColumnsHeld(Magnitude(old[fr.a]), Magnitude(old[fr.b]), first, pa, Zeros(pa), first, 0)
    BY <2>1, <2>2, ColumnsStart
  <2>4. loc'.routine = loc.routine
    BY <1>1, <1>4
  <2>5. FirstColumn' = first /\ LastColumn' = pa
    BY <1>2, <2>4 DEF FirstColumn, LastColumn, Asked
  <2>. HIDE DEF first, pa
  <2>. QED
    BY <1>2, <1>4, <2>3, <2>4, <2>5 DEF ColumnsRun
<1>5. /\ (IF routine = "high_comba" THEN loc.digs ELSE 0) = first
      /\ (IF routine = "comba" THEN MinOf(loc.digs, Used(A) + Used(B)) ELSE Used(A) + Used(B)) = pa
  BY <1>1, <1>2 DEF FirstColumn, LastColumn
<1>. HIDE DEF first, pa
<1>. QED
  BY <1>1, <1>3, <1>4, <1>5 DEF Goto

LEMMA ColumnsNext ==
  ASSUME MulContext, MulChosen, comba_column, ColumnsRun
  PROVE  pc' = "mul_runs" /\ loc'.routine = loc.routine /\ ColumnsRun'
<1>1. PICK routine \in {"comba", "sqr_comba", "high_comba"} :
        /\ pc = "mul_runs" /\ loc.routine = routine /\ loc.ix < loc.pa
        /\ LET column == IF routine = "sqr_comba" THEN Squares(loc.ix) ELSE Products(loc.ix)
               sum == Word(loc.carry + column)
           IN  loc' = [loc EXCEPT !.ix = @ + 1, !.W[loc.ix] = sum % Radix, !.carry = sum \div Radix]
        /\ pc' = "mul_runs"
  BY DEF comba_column, Runs, Goto
<1>. DEFINE m == Magnitude(old[fr.a])
            n == Magnitude(old[fr.b])
            ix == loc.ix
            column == IF routine = "sqr_comba" THEN Squares(ix) ELSE Products(ix)
            sum == Word(loc.carry + column)
            next == [loc.W EXCEPT ![ix] = sum % Radix]
<1>2. /\ A = old[fr.a] /\ B = old[fr.b] /\ A \in Int /\ B \in Int /\ fr' = fr /\ old' = old
  BY <1>1, MulOperands DEF MulContext
<1>3. /\ m \in Nat /\ n \in Nat /\ Used(m) = Used(A) /\ Used(n) = Used(B)
      /\ Used(A) \in Nat /\ Used(B) \in Nat
  BY <1>2, OldOperands
<1>4. FirstColumn \in Nat /\ LastColumn \in Nat
  BY ColumnsAsked
<1>5. /\ DOMAIN loc = {"neg", "routine", "ix", "first", "pa", "W", "carry"}
      /\ loc.first = FirstColumn /\ loc.pa = LastColumn
      /\ ColumnsHeld(m, n, FirstColumn, LastColumn, loc.W, ix, loc.carry)
  BY DEF ColumnsRun
<1>6. /\ ix \in Nat /\ ix < LastColumn /\ FirstColumn <= ix
      /\ CombaState(m, n, FirstColumn, LastColumn, loc.W, ix, loc.carry)
  BY <1>1, <1>4, <1>5 DEF ColumnsHeld
<1>7. MinOf(Used(m), Used(n)) <= MP_MAX_COMBA
  BY <1>1, <1>2, <1>3 DEF MulChosen, Columns
<1>8. column = Column(m, n, ix)
  <2>1. CASE routine = "sqr_comba"
    <3>1. old[fr.b] = old[fr.a]
      BY <1>1, <2>1 DEF MulChosen
    <3>2. ix < 2 * Used(A)
      BY <1>1, <1>2, <1>3, <1>6, <2>1, <3>1 DEF LastColumn
    <3>3. Squares(ix) = Column(Magnitude(A), Magnitude(A), ix)
      BY <1>2, <1>6, <3>2, SquaresColumn
    <3>. QED
      BY <1>2, <2>1, <3>1, <3>3
  <2>2. CASE routine # "sqr_comba"
    <3>1. Products(ix) = Column(Magnitude(A), Magnitude(B), ix)
      BY <1>2, <1>6, ProductsColumn
    <3>. QED
      BY <1>2, <2>2, <3>1
  <2>. QED
    BY <2>1, <2>2
<1>9. loc' = [loc EXCEPT !.ix = @ + 1, !.W = next, !.carry = sum \div Radix]
  BY <1>1
<1>. HIDE DEF m, n, ix, column
<1>10. CombaState(m, n, FirstColumn, LastColumn, next, ix + 1, sum \div Radix)
  BY <1>3, <1>4, <1>6, <1>7, <1>8, CombaStep
<1>. HIDE DEF next, sum
<1>11. /\ DOMAIN loc' = DOMAIN loc /\ loc'.ix = ix + 1 /\ loc'.W = next /\ loc'.carry = sum \div Radix
       /\ loc'.first = loc.first /\ loc'.pa = loc.pa /\ loc'.routine = loc.routine
  BY <1>5, <1>9 DEF ix
<1>12. FirstColumn' = FirstColumn /\ LastColumn' = LastColumn
  BY <1>2, <1>11 DEF FirstColumn, LastColumn, Asked
<1>13. ColumnsHeld(m, n, FirstColumn, LastColumn, next, ix + 1, sum \div Radix)
  BY <1>4, <1>6, <1>10 DEF ColumnsHeld
<1>14. m = Magnitude(old'[fr'.a]) /\ n = Magnitude(old'[fr'.b])
  BY <1>2 DEF m, n
<1>. QED
  BY <1>1, <1>5, <1>11, <1>12, <1>13, <1>14 DEF ColumnsRun


LEMMA LowProductWhole ==
  ASSUME NEW m \in Nat, NEW n \in Nat
  PROVE  LowProduct(m, n, Used(m) + Used(n) + 1) = m * n
<1>. DEFINE c == Used(m) + Used(n) + 1
            p == m * n
            w == Weight(c)
<1>1. c \in Nat /\ Used(m) + Used(n) <= c
  BY UsedTyped
<1>2. p < w
  BY <1>1, ProductBelow
<1>3. p \in Nat /\ w \in Nat
  BY <1>1, Weights, IntegerProducts
<1>4. MinOf(c, c) = c
  BY DEF MinOf
<1>5. LowProduct(m, n, c) = p % w
  BY <1>4 DEF LowProduct
<1>. HIDE DEF p, w, c
<1>6. p % w = p
  <2>1. p + 0 * w = p /\ w > 0
    BY <1>2, <1>3
  <2>2. (p + 0 * w) % w = p
    BY <1>2, <1>3, <2>1, QuotientAndRest
  <2>. QED
    BY <2>1, <2>2
<1>. QED
  BY <1>5, <1>6 DEF p, c

LEMMA SignedMagnitude ==
  ASSUME NEW s \in {-1, 1}, NEW x \in Nat
  PROVE  s * x \in Int /\ Magnitude(s * x) = x
<1>1. CASE s = 1
  BY <1>1, MagnitudeProperties
<1>2. CASE s = -1
  <2>1. s * x = - x /\ - x \in Int
    BY <1>2
  <2>2. Magnitude(- x) = x
    <3>1. Magnitude(- x) = IF - x < 0 THEN - (- x) ELSE - x
      BY <2>1, MagnitudeProperties
    <3>. QED
      BY <3>1
  <2>. QED
    BY <2>1, <2>2
<1>. QED
  BY <1>1, <1>2

LEMMA ColumnsEnd ==
  ASSUME MulContext, MulChosen, comba_end, ColumnsRun
  PROVE  ProductCorrect'
<1>1. PICK routine \in {"comba", "sqr_comba", "high_comba"} :
        /\ pc = "mul_runs" /\ loc.routine = routine /\ loc.ix >= loc.pa
        /\ Deliver("OKAY", Sgn(val[fr.c]) * (BelowFirst + Number(loc.W, loc.pa)), {})
  BY DEF comba_end, Runs
<1>. DEFINE m == Magnitude(old[fr.a])
            n == Magnitude(old[fr.b])
            first == FirstColumn
            pa == LastColumn
            below == BelowFirst
            W == loc.W
            carry == loc.carry
            x == Number(W, pa)
            made == Sgn(val[fr.c]) * (below + x)
<1>2. val[fr.c] \in Int /\ Sgn(val[fr.c]) \in {-1, 1} /\ Magnitude(val[fr.c]) \in Nat
  BY <1>1, MulOperands, MagnitudeProperties
<1>3. /\ m \in Nat /\ n \in Nat /\ Used(m) = Used(old[fr.a]) /\ Used(n) = Used(old[fr.b])
      /\ Used(m) \in Nat /\ Used(n) \in Nat
  BY OldOperands
<1>4. first \in Nat /\ pa \in Nat /\ Asked \in Nat
  BY ColumnsAsked DEF MulChosen
<1>5. loc.first = first /\ loc.pa = pa /\ ColumnsHeld(m, n, first, pa, W, loc.ix, carry)
  BY DEF ColumnsRun
<1>6. \/ first <= pa /\ CombaState(m, n, first, pa, W, pa, carry)
      \/ pa < first /\ W = Zeros(pa)
  <2>1. loc.ix >= pa
    BY <1>1, <1>5
  <2>2. loc.ix <= pa => loc.ix = pa
    BY <1>4, <1>5, <2>1 DEF ColumnsHeld
  <2>. QED
    BY <1>5, <2>2 DEF ColumnsHeld
<1>7. below \in Nat /\ below < Weight(MinOf(first, pa)) /\ (first = 0 => below = 0)
  <2>. DEFINE k == MinOf(first, pa)
              v == Magnitude(val[fr.c])
              w == Weight(k)
  <2>1. k \in Nat /\ (first = 0 => k = 0)
    BY <1>4 DEF MinOf
  <2>2. below = v % w
    BY <1>5 DEF BelowFirst
  <2>. HIDE DEF k, v
  <2>3. w \in Nat /\ w > 0 /\ (k = 0 => w = 1)
    BY <2>1, Weights
  <2>4. v \in Int
    BY <1>2 DEF v
  <2>. HIDE DEF w, below
  <2>5. below \in 0 .. w - 1
    BY <2>2, <2>3, <2>4, Division
  <2>. QED
    BY <2>1, <2>3, <2>5 DEF w, k
<1>8. Deliver("OKAY", made, {})
  BY <1>1, <1>5
<1>. HIDE DEF m, n, first, pa, below, W, carry
<1>9. made \in Int /\ (x \in Nat => Magnitude(made) = below + x) /\ MulMade(made)
  <2>1. CASE routine \in {"comba", "sqr_comba"}
    <3>1. fr.op \in {"mul", "low"} /\ first = 0 /\ pa = MinOf(Asked, Used(m) + Used(n))
      <4>1. fr.op \in {"mul", "low"} /\ (routine = "sqr_comba" => fr.op = "mul")
        BY <1>1, <2>1 DEF MulChosen, MulContext, MulOps
      <4>2. first = 0
        BY <1>1, <2>1 DEF first, FirstColumn
      <4>3. routine = "sqr_comba" => Asked = Used(m) + Used(n) + 1
        BY <1>3, <4>1 DEF Asked
      <4>4. pa = MinOf(Asked, Used(m) + Used(n))
        BY <1>1, <1>3, <2>1, <4>3 DEF pa, LastColumn, MinOf
      <4>. QED
        BY <4>1, <4>2, <4>4
    <3>2. below = 0
      BY <1>7, <3>1
    <3>3. CombaState(m, n, 0, pa, W, pa, carry)
      BY <1>4, <1>6, <3>1
    <3>4. x = LowProduct(m, n, Asked)
      BY <1>3, <1>4, <3>1, <3>3, CombaLow DEF LowProduct
    <3>5. x \in Nat
      BY <1>3, <1>4, <3>3, CombaNumber
    <3>. HIDE DEF x
    <3>6. made \in Int /\ Magnitude(made) = x
      <4>1. below + x = x
        BY <3>2, <3>5
      <4>. QED
        BY <1>2, <3>5, <4>1, SignedMagnitude
    <3>7. fr.op = "mul" => x = m * n
      <4>1. fr.op = "mul" => Asked = Used(m) + Used(n) + 1
        BY <1>3 DEF Asked
      <4>. QED
        BY <1>3, <3>4, <4>1, LowProductWhole
    <3>. HIDE DEF made
    <3>8. MulMade(made)
      BY <3>1, <3>4, <3>6, <3>7 DEF MulMade, m, n
    <3>9. below + x = x
      BY <3>2, <3>5
    <3>. QED
      BY <3>6, <3>8, <3>9 DEF x
  <2>2. CASE routine = "high_comba"
    <3>1. fr.op = "high" /\ first = Asked /\ pa = Used(m) + Used(n)
      BY <1>1, <1>3, <2>2 DEF MulChosen, MulContext, MulOps, first, FirstColumn, pa, LastColumn, PartRoutines
    <3>2. HighDone(m, n, Asked, pa, W, carry)
      <4>1. CASE pa < first /\ W = Zeros(pa)
        <5>1. Asked > pa /\ W \in [0 .. pa - 1 -> 0 .. Radix - 1] /\ \A i \in 0 .. pa - 1 : W[i] = 0
          BY <1>4, <3>1, <4>1, ZerosNumber
        <5>. QED
          BY <5>1 DEF HighDone
      <4>. QED
        BY <1>6, <3>1, <4>1 DEF HighDone
    <3>3. x \in Nat /\ HighMade(below + x, m, n, Asked)
      <4>1. below \in Nat /\ below < Weight(MinOf(Asked, pa)) /\ pa = Used(m) + Used(n)
        BY <1>7, <3>1
      <4>. QED
        BY <1>3, <1>4, <3>2, <4>1, CombaHigh
    <3>. HIDE DEF x
    <3>4. below + x \in Nat
      BY <1>7, <3>3
    <3>5. made \in Int /\ Magnitude(made) = below + x
      BY <1>2, <3>4, SignedMagnitude
    <3>. HIDE DEF made
    <3>6. MulMade(made)
      BY <3>1, <3>3, <3>5 DEF MulMade, HighMade, m, n
    <3>. QED
      BY <3>5, <3>6
  <2>. QED
    BY <2>1, <2>2
<1>. HIDE DEF made
<1>. QED
  BY <1>1, <1>4, <1>8, <1>9, ProductDelivered


-----------------------------------------------------------------------------
(* Rows: as far as they have been added they are what they should be.      *)
RowsHeld(routine, m, n, digs, N, t, ix) ==
  /\ ix \in Nat /\ ix <= Used(m)
  /\ routine = "mul" => MulState(m, n, digs, t, ix)
  /\ routine = "sqr" => SqrState(m, N, t, ix)
  /\ routine = "mul_high" => HighState(m, n, digs, N, t, ix)

AllPlaces == Used(old[fr.a]) + Used(old[fr.b]) + 1

RowsRun ==
  /\ DOMAIN loc = {"neg", "routine", "digs", "ix", "t"}
  /\ loc.digs = Asked
  /\ RowsHeld(loc.routine, Magnitude(old[fr.a]), Magnitude(old[fr.b]), Asked, AllPlaces, loc.t, loc.ix)

(* s_mp_mul_high is asked for digits of a product not much below those of  *)
(* the first operand.                                                      *)
HighAsks == fr.op = "high" /\ fr.digs >= 0 => Used(old[fr.a]) <= fr.digs + 1

LEMMA RowsStart ==
  ASSUME NEW m \in Nat, NEW n \in Nat, NEW digs \in Nat, NEW N \in Nat,
         NEW routine \in Rows, NEW places, places = IF routine = "mul" THEN digs ELSE N
  PROVE  RowsHeld(routine, m, n, digs, N, Zeros(places), 0)
<1>1. MulState(m, n, digs, Zeros(digs), 0)
  BY MulStart
<1>2. SqrState(m, N, Zeros(N), 0)
  BY SqrStart
<1>3. HighState(m, n, digs, N, Zeros(N), 0)
  BY HighStart
<1>4. 0 <= Used(m)
  BY UsedTyped
<1>. QED
  BY <1>1, <1>2, <1>3, <1>4 DEF RowsHeld, Rows

LEMMA RowsBegin ==
  ASSUME MulContext, MulChosen, row_begin, loc.digs = Asked
  PROVE  \/ pc' = "mul_runs" /\ loc'.routine = loc.routine /\ RowsRun'
         \/ pc' = "done" /\ ProductCorrect'
<1>1. PICK routine \in {"mul", "sqr", "mul_high"} :
        /\ pc = "mul_begins" /\ loc.routine = routine
        /\ \/ Fail({})
           \/ /\ loc' = [neg |-> loc.neg, routine |-> routine, digs |-> loc.digs, ix |-> 0,
                         t |-> Zeros(Places(routine))]
              /\ pc' = "mul_runs"
  BY DEF row_begin, Begins
<1>2. A = old[fr.a] /\ B = old[fr.b] /\ fr' = fr /\ old' = old
  BY <1>1, MulOperands DEF MulContext
<1>3. CASE Fail({})
  BY <1>2, <1>3, ProductRefused DEF Fail, Deliver, Return
<1>. DEFINE m == Magnitude(old[fr.a])
            n == Magnitude(old[fr.b])
            digs == Asked
            N == AllPlaces
            places == Places(routine)
<1>4. CASE /\ loc' = [neg |-> loc.neg, routine |-> routine, digs |-> loc.digs, ix |-> 0,
                      t |-> Zeros(places)]
           /\ pc' = "mul_runs"
  <2>1. m \in Nat /\ n \in Nat /\ digs \in Nat /\ N \in Nat
    BY OldOperands DEF MulChosen, AllPlaces
  <2>2. places = IF routine = "mul" THEN digs ELSE N
    BY <1>1, <1>2 DEF Places, AllPlaces
  <2>3. Asked' = digs /\ AllPlaces' = N /\ m = Magnitude(old'[fr'.a]) /\ n = Magnitude(old'[fr'.b])
    BY <1>2 DEF Asked, AllPlaces
  <2>. HIDE DEF m, n, digs, N, places
  <2>4. RowsHeld(routine, m, n, digs, N, Zeros(places), 0)
    BY <2>1, <2>2, RowsStart DEF Rows
  <2>. DEFINE next == [neg |-> loc.neg, routine |-> routine, digs |-> loc.digs, ix |-> 0, t |-> Zeros(places)]
  <2>5. /\ DOMAIN next = {"neg", "routine", "digs", "ix", "t"}
        /\ next.digs = loc.digs /\ next.routine = routine /\ next.ix = 0 /\ next.t = Zeros(places)
    OBVIOUS
  <2>6. loc' = next
    BY <1>4
  <2>. HIDE DEF next
  <2>. QED
    BY <1>1, <1>4, <2>3, <2>4, <2>5, <2>6 DEF RowsRun, digs
<1>. QED
  BY <1>1, <1>3, <1>4

(* The rows of the locals, after a row.                                    *)
LEMMA RowsGoOn ==
  ASSUME MulContext, RowsRun, NEW t, NextRow(t),
         RowsHeld(loc.routine, Magnitude(old[fr.a]), Magnitude(old[fr.b]), Asked, AllPlaces, t, loc.ix + 1)
  PROVE  loc'.routine = loc.routine /\ RowsRun'
<1>1. /\ DOMAIN loc = {"neg", "routine", "digs", "ix", "t"} /\ loc.digs = Asked
      /\ loc' = [loc EXCEPT !.t = t, !.ix = @ + 1]
  BY DEF RowsRun, NextRow
<1>2. /\ DOMAIN loc' = DOMAIN loc /\ loc'.routine = loc.routine /\ loc'.digs = loc.digs
      /\ loc'.t = t /\ loc'.ix = loc.ix + 1
  BY <1>1
<1>3. fr' = fr /\ old' = old
  BY DEF MulContext
<1>4. Asked' = Asked /\ AllPlaces' = AllPlaces
  BY <1>3 DEF Asked, AllPlaces
<1>5. RowsHeld(loc.routine, Magnitude(old'[fr'.a]), Magnitude(old'[fr'.b]), Asked', AllPlaces', t, loc.ix + 1)
  BY <1>3, <1>4
<1>. QED
  BY <1>1, <1>2, <1>4, <1>5 DEF RowsRun

LEMMA RowsGo ==
  ASSUME MulContext, MulChosen, HighAsks, mul_row \/ sqr_row \/ mul_high_row, RowsRun
  PROVE  pc' = "mul_runs" /\ loc'.routine = loc.routine /\ RowsRun'
<1>. DEFINE m == Magnitude(A)
            n == Magnitude(B)
            digs == Asked
            N == AllPlaces
            ix == loc.ix
            t == loc.t
<1>1. /\ pc = "mul_runs" /\ pc' = "mul_runs" /\ loc.routine \in Rows /\ ix < Used(A)
      /\ (mul_row => loc.routine = "mul") /\ (sqr_row => loc.routine = "sqr")
      /\ (mul_high_row => loc.routine = "mul_high")
  BY DEF mul_row, sqr_row, mul_high_row, RowsLeft, Runs, Goto, Rows
<1>2. A = old[fr.a] /\ B = old[fr.b] /\ A \in Int /\ B \in Int
  BY <1>1, MulOperands DEF Rows
<1>3. /\ m \in Nat /\ n \in Nat /\ Used(m) = Used(A) /\ Used(n) = Used(B)
      /\ Used(A) \in Nat /\ Used(B) \in Nat
  BY <1>2, OldOperands
<1>4. digs \in Nat /\ N = Used(A) + Used(B) + 1 /\ N \in Nat /\ loc.digs = digs
  BY <1>2, <1>3 DEF MulChosen, AllPlaces, RowsRun
<1>5. ix \in Nat /\ ix + 1 <= Used(m) /\ RowsHeld(loc.routine, m, n, digs, N, t, ix)
  BY <1>1, <1>2, <1>3 DEF RowsRun, RowsHeld
<1>6. ASSUME NEW s, NextRow(s), RowsHeld(loc.routine, m, n, digs, N, s, ix + 1)
      PROVE  pc' = "mul_runs" /\ loc'.routine = loc.routine /\ RowsRun'
  BY <1>1, <1>2, <1>6, RowsGoOn
<1>7. CASE mul_row
  <2>. DEFINE pb == MaxOf(MinOf(Used(B), digs - ix), 0)
              c == Carries(t, ix, 0, pb, 1, 0)
              row == Row(t, ix, c, 1)
              s == IF ix + pb < digs THEN [row EXCEPT ![ix + pb] = c[pb]] ELSE row
  <2>1. NextRow(s)
    BY <1>4, <1>7 DEF mul_row
  <2>2. MulState(m, n, digs, t, ix)
    BY <1>1, <1>5, <1>7 DEF RowsHeld
  <2>. HIDE DEF digs, ix, t
  <2>3. MulState(m, n, digs, s, ix + 1)
    BY <1>2, <1>4, <1>5, <2>2, MulRow
  <2>. HIDE DEF s, m, n
  <2>4. RowsHeld(loc.routine, m, n, digs, N, s, ix + 1)
    BY <1>1, <1>5, <1>7, <2>3 DEF RowsHeld
  <2>. QED
    BY <1>6, <2>1, <2>4
<1>8. CASE sqr_row
  <2>. DEFINE r == Word(t[2 * ix] + Digit(A, ix) * Digit(A, ix))
              x == [t EXCEPT ![2 * ix] = r % Radix]
              c == Carries(x, ix, ix + 1, Used(A), 2, DigitType(r \div Radix))
              s == Upwards(Row(x, ix, c, 2), c[Used(A)], ix + Used(A))
  <2>1. NextRow(s)
    BY <1>8 DEF sqr_row
  <2>2. SqrState(m, N, t, ix)
    BY <1>1, <1>5, <1>8 DEF RowsHeld
  <2>3. A = B
    BY <1>1, <1>2, <1>8 DEF MulChosen
  <2>4. N = Places("sqr")
    BY <1>4 DEF Places
  <2>. HIDE DEF ix, t, N
  <2>5. SqrState(m, N, s, ix + 1)
    <3>1. ix < Used(A)
      BY <1>1 DEF ix
    <3>. QED
      BY <1>2, <1>5, <2>2, <2>3, <2>4, <3>1, SqrRow
  <2>. HIDE DEF s, m, n, digs
  <2>6. RowsHeld(loc.routine, m, n, digs, N, s, ix + 1)
    BY <1>1, <1>5, <1>8, <2>5 DEF RowsHeld
  <2>. QED
    BY <1>6, <2>1, <2>6
<1>9. CASE mul_high_row
  <2>. DEFINE pb == MaxOf(Used(B), digs - ix)
              c == Carries(t, ix, digs - ix, pb, 1, 0)
              row == Row(t, ix, c, 1)
              s == [row EXCEPT ![ix + Used(B)] = c[pb]]
  <2>1. NextRow(s)
    BY <1>4, <1>9 DEF mul_high_row
  <2>2. HighState(m, n, digs, N, t, ix)
    BY <1>1, <1>5, <1>9 DEF RowsHeld
  <2>3. fr.op = "high"
    BY <1>1, <1>9 DEF MulChosen, MulContext, MulOps, PartRoutines
  <2>4. ix <= digs
    <3>1. Asked = fr.digs
      BY <2>3 DEF Asked
    <3>2. Used(A) <= digs + 1
      BY <1>2, <1>4, <2>3, <3>1 DEF HighAsks
    <3>. QED
      BY <1>1, <1>3, <1>4, <1>5, <3>2
  <2>5. ix + Used(B) < N
    BY <1>1, <1>3, <1>4, <1>5
  <2>. HIDE DEF digs, ix, t, N
  <2>6. HighState(m, n, digs, N, s, ix + 1)
    BY <1>2, <1>4, <1>5, <2>2, <2>4, <2>5, HighRow
  <2>. HIDE DEF s, m, n
  <2>7. RowsHeld(loc.routine, m, n, digs, N, s, ix + 1)
    BY <1>1, <1>5, <1>9, <2>6 DEF RowsHeld
  <2>. QED
    BY <1>6, <2>1, <2>7
<1>. QED
  BY <1>7, <1>8, <1>9

LEMMA RowsEnd ==
  ASSUME MulContext, MulChosen, row_end, RowsRun
  PROVE  ProductCorrect'
<1>1. PICK routine \in {"mul", "sqr", "mul_high"} :
        /\ pc = "mul_runs" /\ loc.routine = routine /\ loc.ix >= Used(A)
        /\ Deliver("OKAY", Number(loc.t, Places(routine)), {"t"})
  BY DEF row_end, Runs
<1>. DEFINE m == Magnitude(A)
            n == Magnitude(B)
            digs == Asked
            N == AllPlaces
            ix == loc.ix
            t == loc.t
            x == Number(t, Places(routine))
<1>2. A = old[fr.a] /\ B = old[fr.b] /\ A \in Int /\ B \in Int
  BY <1>1, MulOperands
<1>3. /\ m \in Nat /\ n \in Nat /\ Used(m) = Used(A) /\ Used(n) = Used(B)
      /\ Used(A) \in Nat /\ Used(B) \in Nat
  BY <1>2, OldOperands
<1>4. /\ digs \in Nat /\ N = Used(A) + Used(B) + 1 /\ N \in Nat /\ loc.digs = digs
      /\ (fr.op = "mul" => digs = N)
  BY <1>2, <1>3 DEF MulChosen, AllPlaces, RowsRun, Asked
<1>5. ix \in Nat /\ Used(m) <= ix /\ RowsHeld(routine, m, n, digs, N, t, ix)
  BY <1>1, <1>2, <1>3 DEF RowsRun, RowsHeld
<1>6. x = Number(t, IF routine = "mul" THEN digs ELSE N)
  BY <1>4 DEF Places
<1>7. /\ routine = "mul" => fr.op \in {"mul", "low"}
      /\ routine = "sqr" => fr.op = "mul" /\ A = B
      /\ routine = "mul_high" => fr.op = "high"
  BY <1>1, <1>2 DEF MulChosen, MulContext, MulOps, PartRoutines
<1>8. MulMade(x)
  <2>. SUFFICES /\ x \in Nat
                /\ fr.op = "mul" => x = m * n
                /\ fr.op = "low" => x = LowProduct(m, n, digs)
                /\ fr.op = "high" => x = HighPart(m, n, digs)
    <3>. HIDE DEF x
    <3>1. ASSUME x \in Nat PROVE Magnitude(x) = x /\ x \in Int
      BY <3>1, MagnitudeProperties
    <3>. QED
      BY <1>2, <3>1 DEF MulMade
  <2>. HIDE DEF m, n, digs, N, t, ix, x
  <2>1. CASE routine = "mul"
    <3>1. MulState(m, n, digs, t, ix)
      BY <1>5, <2>1 DEF RowsHeld
    <3>2. Number(t, digs) = LowProduct(m, n, digs)
      BY <1>3, <1>4, <1>5, <3>1, MulEnd
    <3>3. Number(t, digs) \in Nat
      <4>1. t \in [0 .. digs - 1 -> 0 .. Radix - 1]
        BY <3>1 DEF MulState
      <4>. QED
        BY <1>4, <4>1, DigitsNumbers
    <3>4. fr.op = "mul" => digs = Used(m) + Used(n) + 1
      BY <1>3, <1>4
    <3>5. LowProduct(m, n, Used(m) + Used(n) + 1) = m * n
      BY <1>3, LowProductWhole
    <3>. QED
      BY <1>6, <1>7, <2>1, <3>2, <3>3, <3>4, <3>5
  <2>2. CASE routine = "sqr"
    <3>1. SqrState(m, N, t, ix)
      BY <1>5, <2>2 DEF RowsHeld
    <3>2. Number(t, N) = m * m
      BY <1>3, <1>4, <1>5, <3>1, SqrEnd
    <3>3. m * m \in Nat /\ m = n
      BY <1>3, <1>7, <2>2, IntegerProducts DEF m, n
    <3>. QED
      BY <1>6, <1>7, <2>2, <3>2, <3>3
  <2>3. CASE routine = "mul_high"
    <3>1. HighState(m, n, digs, N, t, ix)
      BY <1>5, <2>3 DEF RowsHeld
    <3>2. Number(t, N) = HighPart(m, n, digs)
      <4>1. m \in Nat /\ n \in Nat /\ digs \in Nat /\ N \in Nat /\ ix \in Nat /\ Used(m) <= ix
        BY <1>3, <1>4, <1>5
      <4>. QED
        BY <3>1, <4>1, HighEnd
    <3>3. Number(t, N) \in Nat
      <4>1. t \in [0 .. N - 1 -> 0 .. Radix - 1]
        BY <3>1 DEF HighState
      <4>. QED
        BY <1>4, <4>1, DigitsNumbers
    <3>. QED
      BY <1>6, <1>7, <2>3, <3>2, <3>3
  <2>. QED
    BY <2>1, <2>2, <2>3
<1>9. Deliver("OKAY", x, {"t"})
  BY <1>1
<1>. HIDE DEF x
<1>. QED
  BY <1>1, <1>4, <1>8, <1>9, ProductDelivered


-----------------------------------------------------------------------------
(* Slices: those taken times the shorter number have been added up.        *)
BalanceRun ==
  /\ DOMAIN loc = {"neg", "routine", "i", "r"} /\ loc.i \in Nat
  /\ SliceState(Magnitude(longer), shorter, bsize, loc.i, loc.r)

LEMMA LongerShorter ==
  ASSUME A \in Int, B \in Int
  PROVE  /\ longer \in Int /\ shorter \in Int /\ bsize = MinOf(Used(A), Used(B)) /\ bsize \in Nat
         /\ Magnitude(longer) \in Nat /\ Used(Magnitude(longer)) = Used(longer)
         /\ Magnitude(longer) * Magnitude(shorter) = Magnitude(A) * Magnitude(B)
<1>1. Used(A) \in Nat /\ Used(B) \in Nat
  BY UsedTyped
<1>2. Magnitude(A) \in Nat /\ Magnitude(B) \in Nat
  BY UsedTyped
<1>3. CASE Used(A) < Used(B)
  <2>1. longer = B /\ shorter = A
    BY <1>3 DEF longer, shorter
  <2>2. bsize = MinOf(Used(A), Used(B))
    BY <1>1, <1>3, <2>1 DEF bsize, MinOf
  <2>3. Magnitude(B) * Magnitude(A) = Magnitude(A) * Magnitude(B)
    BY <1>2
  <2>. QED
    BY <1>1, <2>1, <2>2, <2>3, UsedTyped DEF bsize
<1>4. CASE ~ (Used(A) < Used(B))
  <2>1. longer = A /\ shorter = B
    BY <1>4 DEF longer, shorter
  <2>2. bsize = MinOf(Used(A), Used(B))
    BY <1>1, <1>4, <2>1 DEF bsize, MinOf
  <2>. QED
    BY <1>1, <2>1, <2>2, UsedTyped DEF bsize
<1>. QED
  BY <1>3, <1>4

LEMMA BalanceBegin ==
  ASSUME MulContext, MulChosen, balance_begin
  PROVE  \/ pc' = "mul_runs" /\ loc'.routine = loc.routine /\ BalanceRun'
         \/ pc' = "done" /\ ProductCorrect'
<1>1. pc = "mul_begins" /\ loc.routine = "balance"
  BY DEF balance_begin, Begins
<1>2. A \in Int /\ B \in Int /\ fr' = fr
  BY <1>1, MulOperands DEF MulContext
<1>3. CASE CannotInitialise("balance")
  BY <1>2, <1>3, ProductRefused DEF CannotInitialise
<1>4. CASE Starts("balance", [neg |-> loc.neg, routine |-> "balance", i |-> 0, r |-> 0])
  <2>1. pc' = "mul_runs" /\ val' = val
    BY <1>4 DEF Starts
  <2>2. loc' = [neg |-> loc.neg, routine |-> "balance", i |-> 0, r |-> 0]
    BY <1>4 DEF Starts
  <2>3. DOMAIN loc' = {"neg", "routine", "i", "r"} /\ loc'.routine = "balance" /\ loc'.i = 0 /\ loc'.r = 0
    BY <2>2
  <2>4. longer' = longer /\ shorter' = shorter /\ bsize' = bsize
    BY <1>2, <2>1 DEF longer, shorter, bsize, A, B
  <2>. DEFINE m == Magnitude(longer)
              s == shorter
              b == bsize
  <2>5. m \in Nat /\ s \in Int /\ b \in Nat
    BY <1>2, LongerShorter
  <2>. HIDE DEF m, s, b
  <2>6. SliceState(m, s, b, 0, 0)
    <3>1. b * 0 = 0
      BY <2>5
    <3>2. LowPart(m, 0) = 0
      BY <2>5, LowParts
    <3>3. 0 * s = 0
      BY <2>5
    <3>. QED
      BY <3>1, <3>2, <3>3 DEF SliceState
  <2>. QED
    BY <1>1, <2>1, <2>3, <2>4, <2>6 DEF BalanceRun, m, s, b
<1>. QED
  BY <1>3, <1>4 DEF balance_begin

LEMMA BalanceNext ==
  ASSUME MulContext, MulChosen, balance_slice, BalanceRun
  PROVE  \/ pc' = "mul_runs" /\ loc'.routine = loc.routine /\ BalanceRun'
         \/ pc' = "done" /\ ProductCorrect'
<1>1. pc = "mul_runs" /\ loc.routine = "balance"
  BY DEF balance_slice, Runs
<1>2. A \in Int /\ B \in Int /\ fr' = fr
  BY <1>1, MulOperands DEF MulContext
<1>3. CASE Fail(Temporaries("balance"))
  BY <1>2, <1>3, ProductRefused DEF Fail, Deliver, Return
<1>. DEFINE m == Magnitude(longer)
            s == shorter
            b == bsize
            i == loc.i
            r == loc.r
            w == Weight(b * i)
            next == r + ((m \div w) % Weight(b)) * s * w
<1>4. CASE /\ loc' = [loc EXCEPT !.i = @ + 1, !.r = @ + Slice(loc.i) * shorter * Weight(bsize * loc.i)]
           /\ Goto("mul_runs")
  <2>1. DOMAIN loc = {"neg", "routine", "i", "r"} /\ i \in Nat /\ SliceState(m, s, b, i, r)
    BY DEF BalanceRun
  <2>2. pc' = "mul_runs" /\ val' = val
    BY <1>4 DEF Goto
  <2>3. loc' = [loc EXCEPT !.i = @ + 1, !.r = next]
    BY <1>4, <2>1 DEF Slice
  <2>4. longer' = longer /\ shorter' = shorter /\ bsize' = bsize
    BY <1>2, <2>2 DEF longer, shorter, bsize, A, B
  <2>5. m \in Nat /\ s \in Int /\ b \in Nat
    BY <1>2, LongerShorter
  <2>. HIDE DEF m, s, b, i, r
  <2>6. SliceState(m, s, b, i + 1, next)
    BY <2>1, <2>5, SliceStep
  <2>. HIDE DEF next
  <2>7. /\ DOMAIN loc' = {"neg", "routine", "i", "r"} /\ loc'.routine = loc.routine
        /\ loc'.i = i + 1 /\ loc'.r = next
    BY <2>1, <2>3 DEF i
  <2>8. i + 1 \in Nat
    BY <2>1
  <2>. QED
    BY <2>2, <2>4, <2>6, <2>7, <2>8 DEF BalanceRun, m, s, b
<1>. QED
  BY <1>3, <1>4 DEF balance_slice

LEMMA MagnitudeOfProduct ==
  ASSUME NEW m \in Nat, NEW s \in Int
  PROVE  m * s \in Int /\ Magnitude(m * s) = m * Magnitude(s)
<1>. DEFINE t == Sgn(s)
            k == Magnitude(s)
            p == m * k
<1>1. k \in Nat /\ t \in {-1, 1} /\ s = t * k
  BY MagnitudeProperties
<1>. HIDE DEF t, k
<1>2. p \in Nat
  BY <1>1, IntegerProducts
<1>3. m * s = t * p
  <2>1. CASE t = 1
    BY <1>1, <2>1
  <2>2. CASE t = -1
    BY <1>1, <2>2
  <2>. QED
    BY <1>1, <2>1, <2>2
<1>. HIDE DEF p
<1>4. t * p \in Int /\ Magnitude(t * p) = p
  BY <1>1, <1>2, SignedMagnitude
<1>. QED
  BY <1>3, <1>4 DEF p, k

LEMMA BalanceEnd ==
  ASSUME MulContext, MulChosen, balance_end, BalanceRun
  PROVE  ProductCorrect'
<1>1. /\ pc = "mul_runs" /\ loc.routine = "balance" /\ loc.i = Slices
      /\ Deliver("OKAY", loc.r, Temporaries("balance"))
  BY DEF balance_end, Runs
<1>2. A = old[fr.a] /\ B = old[fr.b] /\ A \in Int /\ B \in Int
  BY <1>1, MulOperands
<1>3. fr.op = "mul"
  BY <1>1 DEF MulChosen, MulContext, MulOps
<1>. DEFINE m == Magnitude(longer)
            s == shorter
            b == bsize
            n == loc.i
            r == loc.r
            u == Used(longer)
<1>4. /\ m \in Nat /\ s \in Int /\ b \in Nat /\ Used(m) = u
      /\ m * Magnitude(s) = Magnitude(A) * Magnitude(B) /\ b = MinOf(Used(A), Used(B))
  BY <1>2, LongerShorter
<1>5. b > 0
  BY <1>1, <1>2, <1>4 DEF MulChosen
<1>6. n = u \div b + (IF b * (u \div b) < u THEN 1 ELSE 0)
  BY <1>1 DEF Slices
<1>7. SliceState(m, s, b, n, r)
  BY DEF BalanceRun
<1>. HIDE DEF m, s, b, n, u
<1>8. n = Used(m) \div b + (IF b * (Used(m) \div b) < Used(m) THEN 1 ELSE 0)
  BY <1>4, <1>6
<1>. HIDE DEF r
<1>9. r = m * s
  BY <1>4, <1>5, <1>7, <1>8, SliceEnd
<1>10. r \in Int /\ Magnitude(r) = m * Magnitude(s)
  BY <1>4, <1>9, MagnitudeOfProduct
<1>11. MulMade(r)
  BY <1>2, <1>3, <1>4, <1>10 DEF MulMade
<1>12. Asked \in Nat /\ Deliver("OKAY", r, Temporaries("balance"))
  BY <1>1 DEF MulChosen, r
<1>. QED
  BY <1>1, <1>11, <1>12, ProductDelivered


-----------------------------------------------------------------------------
(* The parts of the operands, as far as the calls have combined them.      *)
PartsRun ==
  PartsHeld(loc.routine, Magnitude(old[fr.a]) * Magnitude(old[fr.b]))

LEMMA PartsGoOn ==
  ASSUME NEW routine, NEW r, PartsHeld(routine, r)', loc'.routine = routine,
         r = Magnitude(old'[fr'.a]) * Magnitude(old'[fr'.b])
  PROVE  PartsRun'
BY DEF PartsRun

LEMMA PartsBegin ==
  ASSUME MulContext, MulChosen, parts_begin
  PROVE  \/ pc' = "mul_runs" /\ loc'.routine = loc.routine /\ PartsRun'
         \/ pc' = "done" /\ ProductCorrect'
<1>1. PICK routine \in PartRoutines :
        /\ pc = "mul_begins" /\ loc.routine = routine
        /\ \/ CannotInitialise(routine)
           \/ /\ loc' = [neg |-> loc.neg, routine |-> routine, i |-> 1,
                         part |-> Part(routine), t |-> Parts(routine)]
              /\ pc' = "mul_runs"
  BY DEF parts_begin, Begins, Starts
<1>2. A = old[fr.a] /\ B = old[fr.b] /\ A \in Int /\ B \in Int /\ fr' = fr /\ old' = old
  BY <1>1, MulOperands DEF MulContext
<1>3. CASE CannotInitialise(routine)
  BY <1>2, <1>3, ProductRefused DEF CannotInitialise
<1>4. CASE /\ loc' = [neg |-> loc.neg, routine |-> routine, i |-> 1,
                      part |-> Part(routine), t |-> Parts(routine)]
           /\ pc' = "mul_runs"
  <2>1. PICK r : r = Magnitude(A) * Magnitude(B)
    OBVIOUS
  <2>2. loc'.i = 1 /\ loc'.part = Part(routine) /\ loc'.t = Parts(routine) /\ loc'.routine = routine
    BY <1>4
  <2>3. routine \in {"sqr_karatsuba", "sqr_toom"} => fr.a = fr.b
    BY <1>1 DEF MulChosen
  <2>4. PartsHeld(routine, r)'
    BY <1>2, <2>1, <2>2, <2>3, PartsHeldBegins
  <2>5. r = Magnitude(old'[fr'.a]) * Magnitude(old'[fr'.b])
    BY <1>2, <2>1
  <2>6. PartsRun'
    BY <2>2, <2>4, <2>5, PartsGoOn
  <2>. QED
    BY <1>1, <1>4, <2>2, <2>6
<1>. QED
  BY <1>1, <1>3, <1>4

LEMMA PartsCall ==
  ASSUME MulContext, MulChosen, parts_call, PartsRun
  PROVE  \/ pc' = "mul_runs" /\ loc'.routine = loc.routine /\ PartsRun'
         \/ pc' = "done" /\ ProductCorrect'
<1>1. PICK routine \in PartRoutines :
        /\ Runs(routine)
        /\ LET call == Calls(routine)[loc.i]
               n == Result(call)
               next == [loc EXCEPT !.i = @ + 1]
           IN  \/ Fail(Temporaries(routine))
               \/ /\ loc.i = Len(Calls(routine))
                  /\ Deliver("OKAY", n, Temporaries(routine))
               \/ /\ loc.i < Len(Calls(routine)) /\ call[1] = "c"
                  /\ Put(fr.c, n) /\ loc' = next
                  /\ UNCHANGED << live, pc, fr, err, old >>
               \/ /\ loc.i < Len(Calls(routine)) /\ call[1] # "c"
                  /\ loc' = [next EXCEPT !.t[call[1]] = n]
                  /\ Goto("mul_runs")
  BY DEF parts_call
<1>. DEFINE call == Calls(routine)[loc.i]
            n == Result(call)
            next == [loc EXCEPT !.i = @ + 1]
<1>2. pc = "mul_runs" /\ loc.routine = routine /\ fr' = fr /\ old' = old /\ fr.op \in MulOps
  BY <1>1 DEF Runs, MulContext
<1>3. PartLocals
  BY <1>2 DEF MulContext, MulWrites
<1>4. fr.op = "mul"
  BY <1>2 DEF MulChosen, PartRoutines, MulOps
<1>5. PICK r : r = Magnitude(old[fr.a]) * Magnitude(old[fr.b])
  OBVIOUS
<1>6. PartsHeld(routine, r)
  BY <1>2, <1>5 DEF PartsRun
<1>7. r = Magnitude(old'[fr'.a]) * Magnitude(old'[fr'.b])
  BY <1>2, <1>5
<1>8. CASE Fail(Temporaries(routine))
  BY <1>2, <1>8, ProductRefused DEF Fail, Deliver, Return
<1>9. CASE loc.i = Len(Calls(routine)) /\ Deliver("OKAY", n, Temporaries(routine))
  <2>1. loc.i \in 1 .. Len(Calls(routine))
    BY <1>2, <1>3 DEF PartLocals
  <2>2. n = r
    BY <1>6, <1>9, <2>1, PartsResult
  <2>. HIDE DEF n
  <2>3. MulMade(n)
    <3>1. Magnitude(old[fr.a]) \in Nat /\ Magnitude(old[fr.b]) \in Nat
      BY OldOperands
    <3>2. r \in Nat
      BY <1>5, <3>1, IntegerProducts
    <3>3. Magnitude(r) = r
      BY <3>2, MagnitudeProperties
    <3>. QED
      BY <1>4, <1>5, <2>2, <3>2, <3>3 DEF MulMade
  <2>4. Asked \in Nat
    BY DEF MulChosen
  <2>5. ProductCorrect'
    BY <1>2, <1>9, <2>3, <2>4, ProductDelivered
  <2>6. pc' = "done"
    BY <1>9 DEF Deliver, Return
  <2>. QED
    BY <2>5, <2>6
<1>10. ASSUME \/ call[1] = "c" /\ Put(fr.c, n) /\ loc' = next
              \/ call[1] # "c" /\ UNCHANGED val /\ loc' = [next EXCEPT !.t[call[1]] = n]
       PROVE  loc'.routine = routine /\ PartsRun'
  <2>1. PartsHeld(routine, r)'
    BY <1>2, <1>3, <1>6, <1>10, PartsCalled
  <2>2. loc'.routine = routine
    <3>1. DOMAIN loc = {"neg", "routine", "i", "part", "t"}
      BY <1>3 DEF PartLocals
    <3>2. next.routine = routine /\ DOMAIN next = DOMAIN loc
      BY <1>2, <3>1
    <3>. HIDE DEF next, n, call
    <3>. QED
      BY <1>10, <3>1, <3>2
  <2>. QED
    BY <1>7, <2>1, <2>2, PartsGoOn
<1>11. pc' = "mul_runs" \/ Fail(Temporaries(routine)) \/ (loc.i = Len(Calls(routine)) /\ Deliver("OKAY", n, Temporaries(routine)))
  BY <1>1, <1>2 DEF Goto
<1>. QED
  BY <1>1, <1>2, <1>8, <1>9, <1>10, <1>11 DEF Goto


-----------------------------------------------------------------------------
(* From the choice of a routine to the end of it.                          *)
RoutineRun ==
  /\ loc.routine \in Columns => ColumnsRun
  /\ loc.routine \in Rows => RowsRun
  /\ loc.routine = "balance" => BalanceRun
  /\ loc.routine \in PartRoutines => PartsRun

MulProducts ==
  fr.op \in MulOps =>
    /\ pc \in {"mul_begins", "mul_runs"} => MulChosen
    /\ pc = "mul_begins" => loc.digs = Asked
    /\ pc = "mul_runs" => RoutineRun
    /\ pc = "done" => ProductCorrect

LEMMA ProductRuns ==
  ASSUME MulContext, MulChosen,
         \/ pc' = "mul_runs" /\ loc'.routine = loc.routine /\ RoutineRun'
         \/ pc' = "done" /\ ProductCorrect'
  PROVE  MulProducts'
<1>1. fr' = fr /\ old' = old
  BY DEF MulContext
<1>2. Asked' = Asked
  BY <1>1 DEF Asked
<1>3. loc'.routine = loc.routine => MulChosen'
  BY <1>1, <1>2 DEF MulChosen
<1>. QED
  BY <1>1, <1>3 DEF MulProducts

LEMMA MulProductsKept ==
  ASSUME fr \in MulFrames, MulOwns, Remembered, MulWrites, HighAsks, MulProducts, MulNext
  PROVE  MulProducts'
<1>1. fr.op \in MulOps
  BY DEF MulFrames, MulOps
<1>2. fr' = fr /\ old' = old
  BY DEF MulNext, mp_mul, s_mp_mul, s_mp_mul_high, no_routine, comba_begin, comba_column, comba_end,
         row_begin, mul_row, sqr_row, mul_high_row, row_end, balance_begin, balance_slice,
         balance_end, parts_begin, parts_call, Begins, Runs, RowsLeft, NextRow, Deliver, Fail,
         CannotInitialise, Starts, Refuse, Return, Goto
<1>3. MulContext
  BY <1>1, <1>2 DEF MulContext
<1>4. /\ pc \in {"mul_begins", "mul_runs"} => MulChosen
      /\ pc = "mul_begins" => loc.digs = Asked
      /\ pc = "mul_runs" => RoutineRun
  BY <1>1 DEF MulProducts
<1>5. ASSUME pc' = "done", ProductCorrect' PROVE MulProducts'
  BY <1>5 DEF MulProducts
<1>6. CASE mp_mul \/ s_mp_mul \/ s_mp_mul_high
  <2>1. \/ pc' = "mul_begins" /\ MulChosen' /\ loc'.digs = Asked
        \/ pc' = "done" /\ ProductCorrect'
    BY <1>3, <1>6, MulChooses
  <2>2. Asked' = Asked
    BY <1>2 DEF Asked
  <2>. QED
    BY <2>1, <2>2 DEF MulProducts
<1>7. CASE no_routine
  <2>1. pc = "mul_begins" /\ loc.routine = "none" /\ pc' = "done" /\ err' = "VAL"
    BY <1>7 DEF no_routine, Begins, Deliver, Return
  <2>2. "mul" \notin fr.has
    BY <1>4, <2>1 DEF MulChosen
  <2>. QED
    BY <1>2, <1>5, <2>1, <2>2, ProductRefused
<1>8. CASE comba_begin \/ comba_column \/ comba_end
  <2>1. /\ loc.routine \in Columns /\ pc \in {"mul_begins", "mul_runs"}
        /\ (comba_begin => pc = "mul_begins") /\ (comba_column \/ comba_end => pc = "mul_runs")
        /\ (comba_end => pc' = "done")
    BY <1>8 DEF comba_begin, comba_column, comba_end, Begins, Runs, Columns, Deliver, Return
  <2>2. \/ pc' = "mul_runs" /\ loc'.routine = loc.routine /\ ColumnsRun'
        \/ pc' = "done" /\ ProductCorrect'
    <3>1. pc = "mul_runs" => ColumnsRun
      BY <1>4, <2>1 DEF RoutineRun
    <3>2. CASE comba_begin
      BY <1>3, <1>4, <2>1, <3>2, ColumnsBegin
    <3>3. CASE comba_column
      BY <1>3, <1>4, <2>1, <3>1, <3>3, ColumnsNext
    <3>4. CASE comba_end
      BY <1>3, <1>4, <2>1, <3>1, <3>4, ColumnsEnd
    <3>. QED
      BY <1>8, <3>2, <3>3, <3>4
  <2>3. loc'.routine = loc.routine /\ ColumnsRun' => RoutineRun'
    BY <2>1 DEF RoutineRun, Columns, Rows, PartRoutines
  <2>. QED
    BY <1>3, <1>4, <2>1, <2>2, <2>3, ProductRuns
<1>9. CASE row_begin \/ mul_row \/ sqr_row \/ mul_high_row \/ row_end
  <2>1. /\ loc.routine \in Rows /\ pc \in {"mul_begins", "mul_runs"}
        /\ (row_begin => pc = "mul_begins") /\ (~ row_begin => pc = "mul_runs")
        /\ (row_end => pc' = "done")
    BY <1>9 DEF row_begin, mul_row, sqr_row, mul_high_row, row_end, RowsLeft, Begins, Runs, Rows, Deliver, Return
  <2>2. \/ pc' = "mul_runs" /\ loc'.routine = loc.routine /\ RowsRun'
        \/ pc' = "done" /\ ProductCorrect'
    <3>1. pc = "mul_runs" => RowsRun
      BY <1>4, <2>1 DEF RoutineRun
    <3>2. CASE row_begin
      <4>1. pc = "mul_begins"
        BY <3>2 DEF row_begin, Begins
      <4>. QED
        BY <1>3, <1>4, <3>2, <4>1, RowsBegin
    <3>3. CASE mul_row \/ sqr_row \/ mul_high_row
      <4>1. pc = "mul_runs"
        BY <3>3 DEF mul_row, sqr_row, mul_high_row, RowsLeft, Runs
      <4>. QED
        BY <1>3, <1>4, <3>1, <3>3, <4>1, RowsGo
    <3>4. CASE row_end
      <4>1. pc = "mul_runs"
        BY <3>4 DEF row_end, Runs
      <4>. QED
        BY <1>3, <1>4, <2>1, <3>1, <3>4, <4>1, RowsEnd
    <3>. QED
      BY <1>9, <3>2, <3>3, <3>4
  <2>3. loc'.routine = loc.routine /\ RowsRun' => RoutineRun'
    BY <2>1 DEF RoutineRun, Columns, Rows, PartRoutines
  <2>. QED
    BY <1>3, <1>4, <2>1, <2>2, <2>3, ProductRuns
<1>10. CASE balance_begin \/ balance_slice \/ balance_end
  <2>1. loc.routine = "balance" /\ pc \in {"mul_begins", "mul_runs"}
    BY <1>10 DEF balance_begin, balance_slice, balance_end, Begins, Runs
  <2>2. \/ pc' = "mul_runs" /\ loc'.routine = loc.routine /\ BalanceRun'
        \/ pc' = "done" /\ ProductCorrect'
    <3>1. pc = "mul_runs" => BalanceRun
      BY <1>4, <2>1 DEF RoutineRun
    <3>2. CASE balance_begin
      BY <1>3, <1>4, <2>1, <3>2, BalanceBegin
    <3>3. CASE balance_slice
      <4>1. pc = "mul_runs"
        BY <3>3 DEF balance_slice, Runs
      <4>. QED
        BY <1>3, <1>4, <3>1, <3>3, <4>1, BalanceNext
    <3>4. CASE balance_end
      <4>1. pc = "mul_runs" /\ pc' = "done"
        BY <3>4 DEF balance_end, Runs, Deliver, Return
      <4>. QED
        BY <1>3, <1>4, <3>1, <3>4, <4>1, BalanceEnd
    <3>. QED
      BY <1>10, <3>2, <3>3, <3>4
  <2>3. loc'.routine = loc.routine /\ BalanceRun' => RoutineRun'
    BY <2>1 DEF RoutineRun, Columns, Rows, PartRoutines
  <2>. QED
    BY <1>3, <1>4, <2>1, <2>2, <2>3, ProductRuns
<1>11. CASE parts_begin \/ parts_call
  <2>1. loc.routine \in PartRoutines /\ pc \in {"mul_begins", "mul_runs"}
    BY <1>11 DEF parts_begin, parts_call, Begins, Runs
  <2>2. \/ pc' = "mul_runs" /\ loc'.routine = loc.routine /\ PartsRun'
        \/ pc' = "done" /\ ProductCorrect'
    <3>1. pc = "mul_runs" => PartsRun
      BY <1>4, <2>1 DEF RoutineRun
    <3>2. CASE parts_begin
      BY <1>3, <1>4, <2>1, <3>2, PartsBegin
    <3>3. CASE parts_call
      <4>1. pc = "mul_runs"
        BY <3>3 DEF parts_call, Runs
      <4>. QED
        BY <1>3, <1>4, <3>1, <3>3, <4>1, PartsCall
    <3>. QED
      BY <1>11, <3>2, <3>3
  <2>3. loc'.routine = loc.routine /\ PartsRun' => RoutineRun'
    BY <2>1 DEF RoutineRun, Columns, Rows, PartRoutines
  <2>. QED
    BY <1>3, <1>4, <2>1, <2>2, <2>3, ProductRuns
<1>. QED
  BY <1>6, <1>7, <1>8, <1>9, <1>10, <1>11 DEF MulNext

=============================================================================
