---------------------------- MODULE MC_MpNumbers ----------------------------
(* Model-checking instance of MpNumbers.  The first argument is i1; the    *)
(* others are every choice of structures, up to their names.  A structure  *)
(* that is no operand holds - Spare.  The values are chosen by function:   *)
(* those at the boundaries of digits and of halves and thirds of numbers,  *)
(* moduli of every kind with numbers that reach each correction.           *)
EXTENDS MpNumbers

CONSTANTS i1, i2, i3,            \* the structures
          Spare,
          Factors, MinusFactors, \* operands of products, and the absolute values of negative ones
          DigitsAsked,
          Moduli, Fractions,     \* moduli, and in how many parts what is reduced is cut
          RhoBits,
          LongDivisors, LongQuotients, LongDividends,
          LogNumbers, LogBases, LogLimits,
          TestedMax, Tested, TestBases, FrobeniusMax, NextMax, Next3,
          PrimeSizes, TrialBits,
          TextMax, TextNumbers, Radices, RoomMax, SizeLimits,
          Strings, ReadRadices, ByteValues, Nails, Widths, MachineMax,
          FormatsSet, FormatsGot, BytesMax

MCInts == {i1, i2, i3}

MCDeterministic == << [bases |-> 3, below |-> 2047], [bases |-> 4, below |-> 5000] >>

MCFormatsSet == {<< 1, 3 >>, << 3, 4 >>}
MCFormatsGot == {<< 1, 4 >>, << 3, 4 >>, << 3, 5 >>}

Idle == {- Spare}

Minuses(S) == {- n : n \in S}

(* The destinations, given the second operand.                             *)
Others(b) == IF b = i1 THEN {i1, i2} ELSE {i1, i2, i3}

(* Builds: all routines, those without the Toom-Cook ones, the small ones. *)
Builds ==
  {Routines, Routines \ {"toom", "sqr_toom"}, {"comba", "mul", "sqr"}, {"mul"}, {}}

MCMulFrames ==
  UNION {[op : {"mul"}, a : {i1}, b : {b}, c : Others(b), has : Builds]
           \cup [op : {"low", "high"}, a : {i1}, b : {b}, c : Others(b), digs : {-1} \cup DigitsAsked,
                 has : {{"high_comba"}, {}}] : b \in {i1, i2}}

MCReduceFrames ==
  [op : {"barrett"}, x : {i1}, m : {i2}, d : {i3}, high : {"mul_high", "high_comba", "none"}] \cup
  [op : {"montgomery"}, x : {i1}, m : {i2}, above : {0, 3}] \cup
  [op : {"dr", "2k", "normalization"}, x : {i1}, m : {i2}] \cup
  [op : {"2k_l"}, x : {i1}, m : {i2}, d : {i3}] \cup
  UNION {[op : {"rho"}, digit : 1 .. 2 ^ MinOf(bits, 5) \cup {2 ^ bits - 1, 2 ^ bits - 3}, bits : {bits}] :
           bits \in RhoBits}

MCRecursionFrames ==
  [op : {"recursive"}, a : {i1}, b : {i2}, c : {i1, i2, NULL}, d : {i3}] \cup
  [op : {"recursive"}, a : {i1}, b : {i2}, c : {i3}, d : {i1, i2, NULL}]

MCLogFrames ==
  [op : {"log"}, a : {i1}, b : {i1, i2}, small : BOOLEAN, limit : LogLimits] \cup
  [op : {"log_n"}, a : {i1}, base : {-1, 1, 2, 3, 10}, small : {FALSE}, limit : {100}]

MCPrimeFrames ==
  [op : {"fermat", "miller_rabin"}, a : {i1}, b : {i2}] \cup
  [op : {"lucas", "frobenius"}, a : {i1}] \cup
  [op : {"is_prime"}, a : {i1}, t : {-1, 0, 2}, build : {"lucas", "frobenius", "none"}] \cup
  [op : {"next_prime"}, a : {i1}, bbs : BOOLEAN, bits : {3, 8}] \cup
  [op : {"prime_rand"}, a : {i1}, size : PrimeSizes, flags : SUBSET {"BBS", "SAFE", "2MSB_ON"}] \cup
  [op : {"prime_rand"}, a : {i1}, size : {9}, flags : {{"2MSB_ON"}, {"2MSB_ON", "SAFE"}}] \cup
  [op : {"rand"}, a : {i1}, digits : -1 .. 3] \cup
  [op : {"trials"}, size : TrialBits]

(* A string of digits with or without a sign and something at its end; one *)
(* of anything.                                                            *)
Texts ==
  {(IF neg THEN << Minus >> ELSE << >>) \o digits \o end :
     neg \in BOOLEAN, digits \in {<< >>, << 0 >>, << 1, 0 >>, << 9, 10, 36 >>, << 63, 35 >>},
     end \in {<< >>, << NewLine >>, << Illegal, 1 >>, << Minus >>, << NewLine, 0 >>}}
    \cup UNION {[1 .. k -> {1, 11, Minus, NewLine}] : k \in 0 .. Strings}

MCPackings ==
  {p \in [order : {"MSB_FIRST", "LSB_FIRST"}, size : 1 .. 3, endian : {"BIG", "LITTLE"}, nails : Nails] :
     p.nails < 8 * p.size}

ByteStrings == UNION {[1 .. k -> ByteValues] : k \in 0 .. 3}

MCTextFrames ==
  [op : {"to_radix"}, a : {i1}, radix : {1, 65} \cup Radices, maxlen : 0 .. RoomMax] \cup
  [op : {"radix_size"}, a : {i1}, radix : 1 .. 65, limit : SizeLimits] \cup
  [op : {"overestimate"}, a : {i1}, radix : 1 .. 65] \cup
  [op : {"fwrite"}, a : {i1}, radix : {1, 65} \cup Radices] \cup
  [op : {"read_radix", "fread"}, a : {i1}, radix : {1, 65} \cup ReadRadices, text : Texts]

MCBytesFrames ==
  [op : {"to_ubin", "to_sbin"}, a : {i1}, maxlen : 0 .. 4] \cup
  [op : {"from_ubin"}, a : {i1}, bytes : ByteStrings] \cup
  {f \in [op : {"from_sbin"}, a : {i1}, bytes : ByteStrings \ {<< >>}] :
     Head(f.bytes) = 0 \/ \E i \in 2 .. Len(f.bytes) : f.bytes[i] # 0} \cup
  [op : {"pack"}, a : {i1}, maxcount : {1, 3}, p : MCPackings] \cup
  {f \in [op : {"unpack"}, a : {i1}, bytes : ByteStrings, p : MCPackings] :
     Len(f.bytes) % f.p.size = 0}

MCMachineFrames ==
  {f \in [op : {"set", "init_set"}, a : {i1}, signed : BOOLEAN, width : Widths,
          b : (- MachineMax) .. MachineMax] :
     IF f.signed THEN f.b >= - 2 ^ (f.width - 1) /\ f.b < 2 ^ (f.width - 1)
                 ELSE f.b >= 0 /\ f.b < 2 ^ f.width} \cup
  [op : {"get"}, a : {i1}, signed : BOOLEAN, width : Widths] \cup
  [op : {"cmp"}, a : {i1}, b : {i1, i2}]

(* Formats with bits of a fraction and of an exponent.                     *)
MCDoubleFrames ==
  UNION {[op : {"set_double"}, a : {i1}, fraction : {s[1]}, exponent : {s[2]},
          dbl : [sign : {0, 1}, exp : 0 .. 2 ^ s[2] - 1, frac : 0 .. 2 ^ s[1] - 1]] : s \in FormatsSet} \cup
  UNION {[op : {"get_double"}, a : {i1}, fraction : {s[1]}, exponent : {s[2]}, digit : {2, 6, 7}] :
           s \in FormatsGot}

MCHashFrames ==
  [op : {"hash"}, a : {i1}, digit : {9, 11}, width : {12}, init : {3357}, prime : {403}]

MCSourceFrames ==
  [op : {"random"}, own : BOOLEAN, size : 0 .. BytesMax,
   has : {{}, {"urandom"}, {"wincsp"}, {"getrandom"}, {"getrandom", "urandom"}, {"arc4random", "urandom"}}]

MCFrames ==
  UNION {MCMulFrames, MCReduceFrames, MCRecursionFrames, MCLogFrames, MCPrimeFrames, MCTextFrames,
         MCBytesFrames, MCMachineFrames, MCDoubleFrames, MCHashFrames, MCSourceFrames}

(* The moduli a reduction is for, ...                                      *)
Suits(op, m) ==
  CASE op = "dr" -> mp_dr_is_modulus(m)
    [] op = "2k" -> m # 0 /\ mp_reduce_is_2k(m)
    [] op \in {"2k_l", "normalization"} -> m # 0
    [] OTHER -> TRUE

(* ... and the numbers it reduces: from zero to the greatest it is for.    *)
Reducible(op, m) ==
  LET top == IF op = "montgomery" THEN m * Radix ^ Used(m) - 1
             ELSE IF op = "dr" THEN (m - 1) * (m - 1)
             ELSE m * m - 1
      parts == 0 .. Fractions
  IN  IF m = 0 \/ op = "normalization" THEN {3}
      ELSE IF top < 40 THEN 0 .. top
      ELSE {n \in UNION {{k, (m * k) \div 3, m * k - 1, top - k, (k * top) \div Fractions} : k \in parts} : n >= 0}

(* Dividends for a divisor: near its multiples, and the longest ones.      *)
Dividends(b) ==
  {a \in UNION {{b * q, b * q + b - 1, - (b * q + 5)} : q \in {q \in LongQuotients : q < 2 ^ 27 \div b}}
           \cup LongDividends : SentHere(a, b)}

(* What i1, i2 and i3 hold.                                                *)
MCOperands(f) ==
  LET op == f.op
      Signed(S, T) == S \cup Minuses(T)
      fs == Signed(Factors, MinusFactors)
      Sent == {"overestimate", "fwrite", "to_radix", "to_ubin", "to_sbin", "pack", "get", "get_double", "hash"}
  IN  CASE op = "mul" -> fs \X (IF f.b = i1 THEN Idle ELSE fs) \X Idle
        [] op \in {"low", "high"} ->
             {n \in fs \X (IF f.b = i1 THEN Idle ELSE Factors) \X (Idle \cup IF op = "high" THEN {4095} ELSE {}) :
                op = "high" => f.digs < 0 \/ Used(n[1]) <= f.digs + 1}
        [] op \in ReductionOps \ {"rho"} ->
             UNION {Reducible(op, m) \X {m} \X Idle : m \in {m \in Moduli : Suits(op, m)}}
        [] op = "recursive" ->
             UNION {Dividends(Magnitude(b)) \X {b} \X Idle : b \in LongDivisors \cup Minuses({1023})}
        [] op \in {"log", "log_n"} ->
             {n \in Signed(LogNumbers, {3}) \X (IF op = "log" /\ f.b = i2 THEN Signed(LogBases, {2}) ELSE Idle) \X Idle :
                Used(n[1]) <= f.limit /\ (~ f.small => n[1] < 16384)}
        [] op \in {"fermat", "miller_rabin"} ->
             {n \in 3 .. TestedMax \cup Tested : ~ IsEven(n)} \X Signed(TestBases, {1}) \X Idle
        [] op = "lucas" -> {n \in 1 .. TestedMax \cup Tested : ~ IsEven(n)} \X Idle \X Idle
        [] op = "frobenius" ->
             {n \in 3 .. TestedMax \cup Tested : ~ IsEven(n) /\ n < FrobeniusMax} \X Idle \X Idle
        [] op = "is_prime" -> ((-5) .. TestedMax \cup Tested) \X Idle \X Idle
        [] op = "next_prime" -> ((-5) .. NextMax \cup Next3) \X Idle \X Idle
        [] op = "radix_size" ->
             {n \in ((- TextMax) .. TextMax \cup Signed(TextNumbers, TextNumbers)) \X Idle \X Idle :
                Used(n[1]) <= f.limit}
        [] op \in Sent -> ((- TextMax) .. TextMax \cup Signed(TextNumbers, TextNumbers)) \X Idle \X Idle
        [] op = "cmp" -> ((-4) .. 4) \X (IF f.b = i1 THEN Idle ELSE (-4) .. 4) \X Idle
        [] OTHER -> Idle \X Idle \X Idle

MCContents(f) ==
  {[s \in MCInts |-> IF s = i1 THEN n[1] ELSE IF s = i2 THEN n[2] ELSE n[3]] : n \in MCOperands(f)}
=============================================================================
