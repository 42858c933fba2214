------------------------------- MODULE MpText -------------------------------
(***************************************************************************)
(* Numbers outside of the library: text in a radix, in memory and in a     *)
(* file, and the length of it; bytes, unsigned, signed and packed in words *)
(* with nails; machine integers; and the order of two numbers.             *)
(*                                                                         *)
(* A character is the value it has in the map of the radices, or one of    *)
(* three others.  A text is a sequence without the terminating zero, which *)
(* every length counts.                                                    *)
(***************************************************************************)
EXTENDS MpCall, Sequences

LOCAL INSTANCE SequencesExt

Minus == 100
NewLine == 101     \* \r or \n
Illegal == 102
Characters == 0 .. 63 \cup {Minus, NewLine, Illegal}

Packing ==
  {p \in [order : {"MSB_FIRST", "LSB_FIRST"}, size : Nat \ {0},
          endian : {"BIG", "LITTLE"}, nails : Nat] : p.nails < 8 * p.size}

TextFrames ==
  [op : {"to_radix"}, a : Ints, radix : Int, maxlen : Nat] \cup
  [op : {"radix_size"}, a : Ints, radix : Int, limit : Nat] \cup
  [op : {"overestimate", "fwrite"}, a : Ints, radix : Int] \cup
  [op : {"read_radix", "fread"}, a : Ints, radix : Int, text : Seq(Characters)]

(* mp_from_sbin is not given a negative zero, which mp_to_sbin never       *)
(* writes; the words to be unpacked are whole.                             *)
BytesFrames ==
  [op : {"to_ubin", "to_sbin"}, a : Ints, maxlen : Nat] \cup
  [op : {"from_ubin"}, a : Ints, bytes : Seq(0 .. 255)] \cup
  {f \in [op : {"from_sbin"}, a : Ints, bytes : Seq(0 .. 255)] :
     f.bytes # << >> /\ (Head(f.bytes) = 0 \/ \E i \in 2 .. Len(f.bytes) : f.bytes[i] # 0)} \cup
  [op : {"pack"}, a : Ints, maxcount : Nat, p : Packing] \cup
  {f \in [op : {"unpack"}, a : Ints, bytes : Seq(0 .. 255), p : Packing] :
     Len(f.bytes) % f.p.size = 0}

(* width is the number of bits of the machine's type.                      *)
MachineFrames ==
  {f \in [op : {"set", "init_set"}, a : Ints, signed : BOOLEAN, width : Nat \ {0}, b : Int] :
     IF f.signed THEN f.b >= - 2 ^ (f.width - 1) /\ f.b < 2 ^ (f.width - 1)
                 ELSE f.b >= 0 /\ f.b < 2 ^ f.width} \cup
  [op : {"get"}, a : Ints, signed : BOOLEAN, width : Nat \ {0}] \cup
  [op : {"cmp"}, a : Ints, b : Ints]

Neg(n) == IF n < 0 THEN 1 ELSE 0
RadixOK == fr.radix \in 2 .. 64
Approximated == A # 0 /\ 2 ^ mp_cnt_lsb(fr.radix) # fr.radix

-----------------------------------------------------------------------------
(* Sizes of texts.  The logarithm is mp_log_n's, which may be too small if *)
(* the next power of the radix may be too long.  A function that fails     *)
(* does not touch the size.                                                *)
Logarithm(n, r) ==
  LET log[m \in Nat] == IF m < r THEN 0 ELSE 1 + log[m \div r] IN log[n]

LogarithmsFound(n, r) ==
  {e \in 0 .. Logarithm(n, r) : e = Logarithm(n, r) \/ (Approximated /\ PerhapsTooLong(r ^ (e + 1)))}

radix_size ==
  /\ pc = "radix_size"
  /\ \/ ~ RadixOK /\ Refuse("VAL", {})
     \/ RadixOK /\ A = 0 /\ Answer(2, {})
     \/ RadixOK /\ A # 0 /\ Refuse("MEM", {})
     \/ /\ RadixOK /\ A # 0
        /\ \E b \in LogarithmsFound(Magnitude(A), fr.radix) : Answer(b + 2 + Neg(A), {})

(* The logarithm of two to the base of every radix, in units of 2 ^ -29.   *)
s_log_bases == <<
  0, \h20000001, \h14309399, \h10000001, \hdc81a35, \hc611924, \hb660c9e, \haaaaaab, \ha1849cd,
  \h9a209a9, \h94004e1, \h8ed19c2, \h8a5ca7d, \h867a000, \h830cee3, \h8000001, \h7d42d60, \h7ac8b32,
  \h7887847, \h7677349, \h749131f, \h72d0163, \h712f657, \h6fab5db, \h6e40d1b, \h6ced0d0, \h6badbde,
  \h6a80e3b, \h6964c19, \h6857d31, \h6758c38, \h6666667, \h657fb21, \h64a3b9f, \h63d1ab4, \h6308c92,
  \h624869e, \h618ff47, \h60dedea, \h6034ab0, \h5f90e7b, \h5ef32cb, \h5e5b1b2, \h5dc85c3, \h5d3aa02,
  \h5cb19d9, \h5c2d10f, \h5bacbbf, \h5b3064f, \h5ab7d68, \h5a42df0, \h59d1506, \h5962ffe, \h58f7c57,
  \h588f7bc, \h582a000, \h57c7319, \h5766f1d, \h5709243, \h56adad9, \h565474d, \h55fd61f, \h55a85e8,
  \h5555556 >>

s_mp_log_2expt(n, b) == (mp_count_bits(n) - 1) \div mp_cnt_lsb(b)

(* The product of the bits and the table's entry, over 2 ^ 29: in two      *)
(* parts, as it is a long one.                                             *)
s_mp_radix_size_overestimate(n, r) ==
  IF n = 0 THEN 2
  ELSE IF 2 ^ mp_cnt_lsb(r) = r THEN s_mp_log_2expt(n, r) + 3
  ELSE LET bits == mp_count_bits(n)
           k == s_log_bases[r]
       IN  (bits * (k \div 2 ^ 14) + ((bits * (k % 2 ^ 14)) \div 2 ^ 14)) \div 2 ^ 15 + 3

mp_radix_size_overestimate ==
  /\ pc = "overestimate"
  /\ \/ ~ RadixOK /\ Refuse("VAL", {})
     \/ RadixOK /\ Approximated /\ Refuse("MEM", {})
     \/ RadixOK /\ Answer(s_mp_radix_size_overestimate(A, fr.radix), {})

-----------------------------------------------------------------------------
(* Writing.  mp_fwrite's text goes through a buffer as long as the         *)
(* overestimate.                                                           *)
fwrite_begin ==
  /\ pc = "fwrite"
  /\ \/ ~ RadixOK /\ Refuse("VAL", {})
     \/ RadixOK /\ Refuse("MEM", {})
     \/ /\ RadixOK
        /\ loc' = [maxlen |-> s_mp_radix_size_overestimate(A, fr.radix)]
        /\ live' = {"buf"}
        /\ pc' = "to_radix"
        /\ UNCHANGED << val, fr, err, old >>

maxlen == IF fr.op = "fwrite" THEN loc.maxlen ELSE fr.maxlen
Buffers == {"t", "buf"}

(* A written text is the answer, or goes to the file.                      *)
Written(text) ==
  IF fr.op = "fwrite"
  THEN /\ loc' = [text |-> text] /\ live' = live \ {"t"}
       /\ pc' = "fwrite_end"
       /\ UNCHANGED << val, fr, err, old >>
  ELSE Answer(text, Buffers)

(* Mutated: the sign takes no room.                                        *)
Mut_to_radix_begin ==
  /\ pc = "to_radix" /\ maxlen >= 2 /\ RadixOK
  /\ \/ A = 0 /\ Written(<< 0 >>)
     \/ /\ A # 0
        /\ loc' = [t |-> Magnitude(A), digits |-> << >>, room |-> maxlen]
        /\ live' = live \cup {"t"}
        /\ pc' = "to_radix_digit"
        /\ UNCHANGED << val, fr, err, old >>

to_radix_begin ==
  /\ pc = "to_radix"
  /\ \/ maxlen < 2 /\ Refuse("BUF", Buffers)
     \/ maxlen >= 2 /\ ~ RadixOK /\ Refuse("VAL", Buffers)
     \/ maxlen >= 2 /\ RadixOK /\ A = 0 /\ Written(<< 0 >>)
     \/ maxlen >= 2 /\ RadixOK /\ A # 0 /\ Refuse("MEM", Buffers)
     \/ /\ maxlen >= 2 /\ RadixOK /\ A # 0
        /\ loc' = [t |-> Magnitude(A), digits |-> << >>, room |-> maxlen - Neg(A)]
        /\ live' = live \cup {"t"}
        /\ pc' = "to_radix_digit"
        /\ UNCHANGED << val, fr, err, old >>

(* A failure leaves in the buffer what it has got, the digits in the order *)
(* they were found, and no terminating zero.                               *)
Leave(code) ==
  /\ pc' = "done" /\ err' = code
  /\ live' = live \ Buffers
  /\ loc' = [str |-> (IF A < 0 THEN << Minus >> ELSE << >>) \o loc.digits]
  /\ UNCHANGED << val, fr, old >>

to_radix_digit ==
  /\ pc = "to_radix_digit" /\ loc.t # 0
  /\ \/ loc.room - 1 < 1 /\ Leave("BUF")
     \/ loc.room - 1 >= 1 /\ Leave("MEM")
     \/ /\ loc.room - 1 >= 1
        /\ loc' = [t |-> loc.t \div fr.radix, digits |-> Append(loc.digits, loc.t % fr.radix),
                   room |-> loc.room - 1]
        /\ Goto("to_radix_digit")

to_radix_end ==
  /\ pc = "to_radix_digit" /\ loc.t = 0
  /\ Written((IF A < 0 THEN << Minus >> ELSE << >>) \o Reverse(loc.digits))

fwrite_end ==
  /\ pc = "fwrite_end"
  /\ Refuse("ERR", Buffers) \/ Answer(loc.text, Buffers)

-----------------------------------------------------------------------------
(* Reading.  Up to radix 36 small letters are capital ones.                *)
MP_TOUPPER(y) == IF y \in 36 .. 61 THEN y - 26 ELSE y

DigitOf(y) == IF fr.radix <= 36 THEN MP_TOUPPER(y) ELSE y

Unsigned(text) == IF text # << >> /\ Head(text) = Minus THEN Tail(text) ELSE text

(* An empty file, or one that ends after the sign, is an error; an empty   *)
(* text is zero.                                                           *)
read_begin ==
  /\ pc \in {"read_radix", "fread"}
  /\ \/ ~ RadixOK /\ Refuse("VAL", {})
     \/ RadixOK /\ pc = "fread" /\ Unsigned(fr.text) = << >> /\ Refuse("ERR", {})
     \/ /\ RadixOK
        /\ pc = "fread" => Unsigned(fr.text) # << >>
        /\ Put(fr.a, 0)
        /\ loc' = [rest |-> Unsigned(fr.text), neg |-> Unsigned(fr.text) # fr.text]
        /\ pc' = "read_digit"
        /\ UNCHANGED << live, fr, err, old >>

AtDigit == loc.rest # << >> /\ DigitOf(Head(loc.rest)) < fr.radix

(* A digit: the number is multiplied, which may fail, then the digit is    *)
(* added, which may fail, too.                                             *)
read_digit ==
  /\ pc = "read_digit" /\ AtDigit
  /\ \/ Refuse("MEM", {})
     \/ Put(fr.a, A * fr.radix) /\ Return("MEM", {})
     \/ /\ Put(fr.a, A * fr.radix + DigitOf(Head(loc.rest)))
        /\ loc' = [loc EXCEPT !.rest = Tail(loc.rest)]
        /\ UNCHANGED << live, pc, fr, err, old >>

AtEnd == loc.rest # << >> => Head(loc.rest) = NewLine

(* mp_read_radix takes the end or a new line for the end; for any other    *)
(* character it fails, and the number has no sign.  mp_fread stops at any  *)
(* character, and has taken it from the file.                              *)
read_end ==
  /\ pc = "read_digit" /\ ~ AtDigit
  /\ \/ fr.op = "read_radix" /\ ~ AtEnd /\ Refuse("VAL", {})
     \/ /\ fr.op = "read_radix" => AtEnd
        /\ Put(fr.a, IF loc.neg THEN - A ELSE A)
        /\ loc' = [answer |-> IF loc.rest = << >> \/ fr.op = "read_radix" THEN loc.rest
                              ELSE Tail(loc.rest)]
        /\ pc' = "done" /\ err' = "OKAY"
        /\ UNCHANGED << live, fr, old >>

-----------------------------------------------------------------------------
(* Bytes.                                                                  *)
mp_ubin_size(n) == mp_count_bits(n) \div 8 + (IF mp_count_bits(n) % 8 # 0 THEN 1 ELSE 0)
mp_sbin_size(n) == 1 + mp_ubin_size(n)

(* The bytes of a magnitude, the most significant first.                   *)
Bytes(n) ==
  LET count == mp_ubin_size(n)
  IN  [i \in 1 .. count |-> (Magnitude(n) \div 256 ^ (count - i)) % 256]

mp_to_ubin ==
  /\ pc = "to_ubin"
  /\ \/ mp_ubin_size(A) > fr.maxlen /\ Refuse("BUF", {})
     \/ mp_ubin_size(A) <= fr.maxlen /\ Refuse("MEM", {})
     \/ mp_ubin_size(A) <= fr.maxlen /\ Answer(Bytes(A), {})

mp_to_sbin ==
  /\ pc = "to_sbin"
  /\ LET fits == fr.maxlen # 0 /\ mp_ubin_size(A) <= fr.maxlen - 1
     IN  \/ ~ fits /\ Refuse("BUF", {})
         \/ fits /\ Refuse("MEM", {})
         \/ fits /\ Answer(<< Neg(A) >> \o Bytes(A), {})

(* A failure leaves the bytes read until then.                             *)
ReadBytes(bytes, n) ==
  LET read[k \in 0 .. n] == IF k = 0 THEN 0 ELSE read[k - 1] * 256 + bytes[k]
  IN  read[n]

mp_from_ubin ==
  /\ pc = "from_ubin"
  /\ \/ Refuse("MEM", {})
     \/ \E k \in 0 .. Len(fr.bytes) - 1 : Put(fr.a, ReadBytes(fr.bytes, k)) /\ Return("MEM", {})
     \/ Put(fr.a, ReadBytes(fr.bytes, Len(fr.bytes))) /\ Return("OKAY", {})

mp_from_sbin ==
  /\ pc = "from_sbin"
  /\ LET size == Len(fr.bytes) - 1
     IN  \/ Refuse("MEM", {})
         \/ \E k \in 0 .. size - 1 : Put(fr.a, ReadBytes(Tail(fr.bytes), k)) /\ Return("MEM", {})
         \/ /\ Put(fr.a, (IF Head(fr.bytes) # 0 THEN -1 ELSE 1) * ReadBytes(Tail(fr.bytes), size))
            /\ Return("OKAY", {})

(* Words of some bytes, of which the first bits, the nails, are not used.  *)
odd_nails == fr.p.nails % 8
nail_bytes == fr.p.nails \div 8

mp_pack_count(n, nails, size) ==
  LET bits == mp_count_bits(n)
      word == size * 8 - nails
  IN  bits \div word + (IF bits % word # 0 THEN 1 ELSE 0)

(* Byte j of word i, from the least significant ones.                      *)
PackedByte(i, j) ==
  LET size == fr.p.size
      shift == i * (size * 8 - fr.p.nails) + 8 * j
      t == IF shift >= mp_count_bits(A) THEN 0 ELSE Magnitude(A) \div 2 ^ shift
  IN  IF j >= size - nail_bytes THEN 0
      ELSE IF j = size - nail_bytes - 1 THEN t % 2 ^ (8 - odd_nails) ELSE t % 256

mp_pack ==
  /\ pc = "pack"
  /\ LET size == fr.p.size
         count == mp_pack_count(A, fr.p.nails, size)
         Word(k) == IF fr.p.order = "LSB_FIRST" THEN k ELSE count - 1 - k
         Byte(k) == IF fr.p.endian = "LITTLE" THEN k ELSE size - 1 - k
     IN  \/ count > fr.maxcount /\ Refuse("BUF", {})
         \/ count <= fr.maxcount /\ Refuse("MEM", {})
         \/ /\ count <= fr.maxcount
            /\ Answer([k \in 1 .. count * size |->
                         PackedByte(Word((k - 1) \div size), Byte((k - 1) % size))], {})

(* The number made of the first n bytes that count, from the most          *)
(* significant one.                                                        *)
Unpacked(n) ==
  LET size == fr.p.size
      count == Len(fr.bytes) \div size
      used == size - nail_bytes
      byte(i, j) == fr.bytes[(IF fr.p.order = "MSB_FIRST" THEN i ELSE count - 1 - i) * size
                             + (IF fr.p.endian = "BIG" THEN j + nail_bytes ELSE size - 1 - j - nail_bytes) + 1]
      read[k \in 0 .. n] ==
        IF k = 0 THEN 0
        ELSE LET i == (k - 1) \div used
                 j == (k - 1) % used
             IN  IF j = 0 THEN read[k - 1] * 2 ^ (8 - odd_nails) + (byte(i, j) % 2 ^ (8 - odd_nails))
                 ELSE read[k - 1] * 256 + byte(i, j)
  IN  read[n]

mp_unpack ==
  /\ pc = "unpack"
  /\ LET all == (Len(fr.bytes) \div fr.p.size) * (fr.p.size - nail_bytes)
     IN  \/ \E k \in 0 .. all - 1 : Put(fr.a, Unpacked(k)) /\ Return("MEM", {})
         \/ Put(fr.a, Unpacked(all)) /\ Return("OKAY", {})

-----------------------------------------------------------------------------
(* Machine integers, digit by digit; a type that fits a digit is one.      *)
MP_SET_UNSIGNED(b) ==
  LET digits[n \in Nat] ==
        IF n = 0 THEN 0
        ELSE IF fr.width <= MP_DIGIT_BIT THEN n % Radix
        ELSE (n % Radix) + Radix * digits[n \div Radix]
  IN  digits[b]

MP_SET_SIGNED(b) ==
  LET magnitude == MP_SET_UNSIGNED((IF b < 0 THEN - b ELSE b) % 2 ^ fr.width)
  IN  IF b < 0 THEN - magnitude ELSE magnitude

MP_INIT_INT ==
  /\ pc \in {"set", "init_set"}
  /\ \/ pc = "init_set" /\ Refuse("MEM", {})
     \/ /\ Put(fr.a, IF fr.signed THEN MP_SET_SIGNED(fr.b) ELSE MP_SET_UNSIGNED(fr.b))
        /\ Return("OKAY", {})

(* The low bits of the magnitude.                                          *)
MP_GET_MAG(n) ==
  LET n0 == MinOf(Used(n), (fr.width + MP_DIGIT_BIT - 1) \div MP_DIGIT_BIT)
      shift == IF fr.width <= MP_DIGIT_BIT THEN 1 ELSE Radix
      res[i \in 0 .. n0] ==
        IF i = n0 THEN 0 ELSE (res[i + 1] * shift + Digit(n, i)) % 2 ^ fr.width
  IN  res[0]

MP_GET_SIGNED(n) ==
  LET res == IF n < 0 THEN (- MP_GET_MAG(n)) % 2 ^ fr.width ELSE MP_GET_MAG(n)
  IN  IF res >= 2 ^ (fr.width - 1) THEN res - 2 ^ fr.width ELSE res

mp_get == pc = "get" /\ Answer(IF fr.signed THEN MP_GET_SIGNED(A) ELSE MP_GET_MAG(A), {})

(* By the signs, then by the magnitudes, exchanged for negative numbers.   *)
mp_cmp ==
  /\ pc = "cmp"
  /\ LET mag(m, n) == IF m < n THEN -1 ELSE IF m = n THEN 0 ELSE 1
     IN  \/ /\ Neg(A) # Neg(B)
            /\ Answer(IF A < 0 THEN -1 ELSE 1, {})
         \/ /\ Neg(A) = Neg(B)
            /\ Answer(IF A < 0 THEN mag(Magnitude(B), Magnitude(A))
                      ELSE mag(Magnitude(A), Magnitude(B)), {})

TextNext ==
  \/ radix_size \/ mp_radix_size_overestimate
  \/ fwrite_begin \/ to_radix_begin \/ to_radix_digit \/ to_radix_end \/ fwrite_end
  \/ read_begin \/ read_digit \/ read_end
  \/ mp_to_ubin \/ mp_to_sbin \/ mp_from_ubin \/ mp_from_sbin \/ mp_pack \/ mp_unpack
  \/ MP_INIT_INT \/ mp_get \/ mp_cmp

-----------------------------------------------------------------------------
(* The number a text or a sequence of words stands for: the sum of the     *)
(* digits times their powers.                                              *)
Value(digits, r) ==
  LET sum[i \in 0 .. Len(digits)] ==
        IF i = 0 THEN 0 ELSE sum[i - 1] + digits[i] * r ^ (Len(digits) - i)
  IN  sum[Len(digits)]

TextOf(n, text) ==
  LET digits == Unsigned(text)
  IN  /\ digits # << >> /\ (n < 0 <=> digits # text)
      /\ \A i \in 1 .. Len(digits) : digits[i] \in 0 .. fr.radix - 1
      /\ digits[1] = 0 => n = 0
      /\ Magnitude(n) = Value(digits, fr.radix)

(* A text as short as can be stands for the number; a refusal is due to    *)
(* the radix or to a buffer that is too short, and mp_fwrite's never is.   *)
(* A buffer too short has got the sign and as many digits of the low end   *)
(* as it holds, the last one first, and no terminating zero, which the     *)
(* comment on mp_to_radix and the manual promise.  mp_radix_size is the    *)
(* length of the text, with the terminating zero, or less for numbers that *)
(* have almost as many digits as there can be; the overestimate is at most *)
(* five more.                                                              *)
ExactSize(n) ==
  CHOOSE s \in 2 .. mp_count_bits(n) + 3 :
    LET d == s - 1 - Neg(n)
    IN  d > 0 /\ Magnitude(n) < fr.radix ^ d /\ (d > 1 => Magnitude(n) >= fr.radix ^ (d - 1))

WritingCorrect ==
  /\ \A op \in {"to_radix", "fwrite"} :
       /\ Done(op) /\ err = "VAL" => ~ RadixOK
       /\ Succeeded(op) => RadixOK /\ TextOf(old[fr.a], loc.answer)
  /\ Succeeded("to_radix") => Len(loc.answer) + 1 <= fr.maxlen
  /\ Done("to_radix") /\ err = "BUF" /\ RadixOK =>
       /\ fr.maxlen < ExactSize(old[fr.a])
       /\ fr.maxlen >= 2 =>
            LET digits == Unsigned(loc.str)
            IN  /\ Len(loc.str) = fr.maxlen - 1 /\ (A < 0 <=> digits # loc.str)
                /\ Value(Reverse(digits), fr.radix) = Magnitude(A) % fr.radix ^ Len(digits)
  /\ Done("fwrite") => err # "BUF"
  /\ Succeeded("radix_size") =>
       \/ loc.answer = ExactSize(old[fr.a])
       \/ loc.answer < ExactSize(old[fr.a]) /\ PerhapsTooLong(old[fr.a])
  /\ Succeeded("overestimate") =>
       loc.answer \in ExactSize(old[fr.a]) .. ExactSize(old[fr.a]) + 5

(* The digits at the beginning of a text, after the sign, are the number.  *)
(* mp_read_radix succeeds when they are all there is on the line, even if  *)
(* there are none or other lines follow, for which the manual promises a   *)
(* refusal; mp_fread whatever follows, the first character after them      *)
(* being gone.                                                             *)
ReadingCorrect ==
  \A op \in {"read_radix", "fread"} :
    pc = "done" /\ fr.op = op /\ err \in {"OKAY", "VAL"} /\ RadixOK =>
      LET text == Unsigned(fr.text)
          legal == {k \in 0 .. Len(text) : \A i \in 1 .. k : DigitOf(text[i]) < fr.radix}
          len == CHOOSE k \in legal : \A j \in legal : j <= k
          n == Value([i \in 1 .. len |-> DigitOf(text[i])], fr.radix)
      IN  IF op = "read_radix" /\ len < Len(text) /\ text[len + 1] # NewLine
          THEN err = "VAL" /\ A = n
          ELSE /\ err = "OKAY"
               /\ A = IF text # fr.text THEN - n ELSE n
               /\ op = "fread" => loc.answer = SubSeq(text, len + 2, Len(text))

(* The bits of word i that are no nails; a word of packed bytes has no     *)
(* bits but those.                                                         *)
WordValue(bytes, i) ==
  LET p == fr.p
      word == SubSeq(bytes, i * p.size + 1, (i + 1) * p.size)
  IN  Value(IF p.endian = "BIG" THEN word ELSE Reverse(word), 256)

PackedValue(bytes) ==
  LET p == fr.p
      count == Len(bytes) \div p.size
      bits == 2 ^ (8 * p.size - p.nails)
      words == [i \in 1 .. count |-> WordValue(bytes, i - 1) % bits]
  IN  Value(IF p.order = "MSB_FIRST" THEN words ELSE Reverse(words), bits)

(* Bytes and words stand for the number, as many as the sizes say.         *)
BytesCorrect ==
  /\ Succeeded("to_ubin") =>
       /\ Value(loc.answer, 256) = Magnitude(A)
       /\ Len(loc.answer) = mp_ubin_size(A) /\ (A # 0 => loc.answer[1] # 0)
  /\ Succeeded("to_sbin") =>
       /\ Value(Tail(loc.answer), 256) * (IF Head(loc.answer) = 1 THEN -1 ELSE 1) = A
       /\ Len(loc.answer) = mp_sbin_size(A) /\ Len(loc.answer) <= fr.maxlen
  /\ Done("to_sbin") /\ err = "BUF" => fr.maxlen < mp_sbin_size(A)
  /\ Succeeded("from_ubin") => A = Value(fr.bytes, 256)
  /\ Succeeded("from_sbin") =>
       A = Value(Tail(fr.bytes), 256) * (IF Head(fr.bytes) = 0 THEN 1 ELSE -1)
  /\ Succeeded("pack") =>
       LET count == Len(loc.answer) \div fr.p.size
       IN  /\ PackedValue(loc.answer) = Magnitude(A)
           /\ \A i \in 0 .. count - 1 :
                WordValue(loc.answer, i) < 2 ^ (8 * fr.p.size - fr.p.nails)
  /\ Succeeded("unpack") => A = PackedValue(fr.bytes)

(* A machine integer keeps its value; the low bits of a longer number are  *)
(* read, in two's complement for a signed type.  mp_cmp is the order.      *)
MachineIntegersCorrect ==
  /\ Succeeded("set") \/ Succeeded("init_set") => A = fr.b
  /\ Succeeded("get") =>
       /\ (loc.answer - (IF fr.signed THEN A ELSE Magnitude(A))) % 2 ^ fr.width = 0
       /\ IF fr.signed THEN loc.answer >= - 2 ^ (fr.width - 1) /\ loc.answer < 2 ^ (fr.width - 1)
          ELSE loc.answer >= 0 /\ loc.answer < 2 ^ fr.width
  /\ Succeeded("cmp") => loc.answer = (IF A > B THEN 1 ELSE IF A = B THEN 0 ELSE -1)

TextCorrect == WritingCorrect /\ ReadingCorrect /\ BytesCorrect /\ MachineIntegersCorrect
=============================================================================
