------------------------------ MODULE MpPrimes ------------------------------
(***************************************************************************)
(* Primality: the tests of Fermat, of Miller and Rabin, of Lucas in the    *)
(* strong form with Selfridge's parameters, of Frobenius and Underwood;    *)
(* mp_prime_is_prime, which makes a sequence of them; the next prime, by a *)
(* sieve; and numbers and primes drawn from the random source.  A test is  *)
(* an operator; what the tests call, powers and symbols among it, gives    *)
(* what it promises or fails.                                              *)
(***************************************************************************)
EXTENDS MpCall, Sequences

CONSTANTS MP_PRIME_TAB_SIZE,
          Deterministic,              \* numbers of bases, and below what they prove
          INT_MAX,                    \* the greatest parameter Selfridge's search tries
          LTM_FROBENIUS_UNDERWOOD_A   \* and that of Frobenius' and Underwood's

ASSUME PrimeTabAssumption == MP_PRIME_TAB_SIZE \in Nat \ {0}
ASSUME DeterministicAssumption ==
  \A i \in 1 .. Len(Deterministic) : Deterministic[i].bases \in 3 .. MP_PRIME_TAB_SIZE

(* build is the further test a build has, bits the size of a digit.        *)
PrimeFrames ==
  [op : {"fermat", "miller_rabin"}, a : Ints, b : Ints] \cup
  [op : {"lucas", "frobenius"}, a : Ints] \cup
  [op : {"is_prime"}, a : Ints, t : Int, build : {"lucas", "frobenius", "none"}] \cup
  [op : {"next_prime"}, a : Ints, bbs : BOOLEAN, bits : Nat] \cup
  [op : {"prime_rand"}, a : Ints, size : Int, flags : SUBSET {"BBS", "SAFE", "2MSB_ON"}] \cup
  [op : {"rand"}, a : Ints, digits : Int] \cup
  [op : {"trials"}, size : Int]

IsPrimeNumber(n) ==
  LET none[d \in Nat] == IF d * d > n THEN TRUE ELSE n % d # 0 /\ none[d + 1]
  IN  n > 1 /\ none[2]

(* The table holds the first primes.                                       *)
s_mp_prime_tab ==
  LET after[n \in Nat] == IF IsPrimeNumber(n + 1) THEN n + 1 ELSE after[n + 1]
      tab[i \in 0 .. MP_PRIME_TAB_SIZE] == IF i = 0 THEN 1 ELSE after[tab[i - 1]]
  IN  [i \in 1 .. MP_PRIME_TAB_SIZE |-> tab[i]]

(* The symbols of Jacobi, and the greatest common divisor.                 *)
Jacobi(m, n) ==
  LET j[a \in Nat, b \in Nat] ==
        IF b = 1 THEN 1 ELSE IF a = 0 THEN 0
        ELSE IF IsEven(a) THEN j[a \div 2, b] * (IF b % 8 \in {1, 7} THEN 1 ELSE -1)
        ELSE j[b % a, a] * (IF a % 4 = 3 /\ b % 4 = 3 THEN -1 ELSE 1)
  IN  j[m % n, n]

GcdOf(m, n) ==
  LET g[a \in Nat, b \in Nat] == IF b = 0 THEN a ELSE g[b, a % b]
  IN  g[m, n]

-----------------------------------------------------------------------------
(* Fermat's test compares the power with b, not with its residue.          *)
Fermat(a, b) == PowMod(b, a, a) = b

(* Mutated: the last of the squares is not looked at.                      *)
Mut_MillerRabin(a, b) ==
  LET s == mp_cnt_lsb(a - 1)
      y[j \in 0 .. s] == IF j = 0 THEN PowMod(b, (a - 1) \div 2 ^ s, a) ELSE (y[j - 1] * y[j - 1]) % a
  IN  y[0] = 1 \/ \E j \in 0 .. s - 2 : y[j] = a - 1

(* One and minus one first, then minus one among the squares.              *)
MillerRabin(a, b) ==
  LET n1 == a - 1
      s == mp_cnt_lsb(n1)
      r == n1 \div 2 ^ s
      y[j \in 0 .. s] == IF j = 0 THEN PowMod(b, r, a) ELSE (y[j - 1] * y[j - 1]) % a
  IN  y[0] = 1 \/ y[0] = n1 \/ \E j \in 1 .. s - 1 : y[j] = n1

(* The first of 5, -7, 9, -11, ... whose symbol is -1; zero when a divisor *)
(* of a turns up before, one when none is small enough.                    *)
SelfridgeD(a) ==
  LET try[D \in Nat] ==
        LET Ds == IF D % 4 = 1 THEN D ELSE - D
            gcd == GcdOf(a, D)
        IN  IF gcd > 1 /\ gcd < a THEN 0
            ELSE IF Jacobi(Ds, a) = -1 THEN Ds
            ELSE IF D + 2 > INT_MAX - 2 THEN 1
            ELSE try[D + 2]
  IN  try[5]

(* The Lucas sequences modulo a, with P = 1, at the odd part of a + 1, by  *)
(* the bits of it; then V and the power of Q at its doubles.               *)
StrongLucas(a, Ds) ==
  LET Q == (1 - Ds) \div 4
      s == mp_cnt_lsb(a + 1)
      Dz == (a + 1) \div 2 ^ s
      Half(n) == (IF IsEven(n) THEN n ELSE n + a) \div 2
      at[u \in 0 .. mp_count_bits(Dz) - 1] ==
        IF u = 0 THEN [U |-> 1, V |-> 1, U2m |-> 1, V2m |-> 1, Qm |-> Q, Qkd |-> Q]
        ELSE LET p == at[u - 1]
                 U2m == (p.U2m * p.V2m) % a
                 V2m == (p.V2m * p.V2m - 2 * p.Qm) % a
                 Qm == (p.Qm * p.Qm) % a
                 next == [p EXCEPT !.U2m = U2m, !.V2m = V2m, !.Qm = Qm]
             IN  IF IsEven(Dz \div 2 ^ u) THEN next
                 ELSE [next EXCEPT !.U = Half(U2m * p.V + p.U * V2m) % a,
                                   !.V = Half(V2m * p.V + U2m * p.U * Ds) % a,
                                   !.Qkd = (p.Qkd * Qm) % a]
      last == at[mp_count_bits(Dz) - 1]
      double[r \in 0 .. s - 1] ==
        IF r = 0 THEN [V |-> last.V, Qkd |-> last.Qkd]
        ELSE LET p == double[r - 1]
             IN  [V |-> (p.V * p.V - 2 * p.Qkd) % a, Qkd |-> (p.Qkd * p.Qkd) % a]
  IN  last.U = 0 \/ \E r \in 0 .. s - 1 : double[r].V = 0

(* The first parameter with a symbol of -1: -1 when a divisor turns up     *)
(* before, the limit when there is none below it.                          *)
UnderwoodA(N) ==
  LET Skipped == {2, 4, 7, 8, 10, 14, 18, 23, 26, 28}
      try[a \in Nat] ==
        IF a >= LTM_FROBENIUS_UNDERWOOD_A THEN LTM_FROBENIUS_UNDERWOOD_A
        ELSE IF a \in Skipped THEN try[a + 1]
        ELSE LET j == Jacobi(a * a - 4, N) IN IF j = -1 THEN a ELSE IF j = 0 THEN -1 ELSE try[a + 1]
  IN  try[0]

FrobeniusUnderwood(N, a) ==
  LET top == mp_count_bits(N + 1) - 1
      at[i \in 0 .. top] ==
        IF i = top THEN [s |-> 1, t |-> 2]
        ELSE LET p == at[i + 1]
                 t == ((p.s + p.t) * (p.t - p.s)) % N
                 s == ((a * p.s + 2 * p.t) * p.s) % N
             IN  IF IsEven((N + 1) \div 2 ^ i) THEN [s |-> s, t |-> t]
                 ELSE [s |-> (a + 2) * s + t, t |-> 2 * t - s]
  IN  /\ GcdOf(N, (a + 4) * (2 * a + 5)) = 1
      /\ at[0].s = 0 /\ at[0].t = (2 * a + 5) % N

(* mp_prime_rabin_miller_trials: the size in bits, the number of rounds.   *)
TrialSizes ==
  << <<80, -1>>, <<81, 37>>, <<96, 32>>, <<128, 40>>, <<160, 35>>, <<256, 27>>, <<384, 16>>,
     <<512, 18>>, <<768, 11>>, <<896, 10>>, <<1024, 12>>, <<1536, 8>>, <<2048, 6>>, <<3072, 4>>,
     <<4096, 5>>, <<5120, 4>>, <<6144, 4>>, <<8192, 3>>, <<9216, 3>>, <<10240, 2>> >>

Trials(size) ==
  LET from[x \in 1 .. Len(TrialSizes) + 1] ==
        IF x > Len(TrialSizes) THEN TrialSizes[x - 1][2]
        ELSE IF TrialSizes[x][1] = size THEN TrialSizes[x][2]
        ELSE IF TrialSizes[x][1] > size THEN TrialSizes[IF x = 1 THEN 1 ELSE x - 1][2]
        ELSE from[x + 1]
  IN  from[1]

-----------------------------------------------------------------------------
(* The tests called by themselves.                                         *)
single_test ==
  \/ /\ pc \in {"fermat", "miller_rabin"}
     /\ \/ B <= 1 /\ Refuse("VAL", {})
        \/ B > 1 /\ Refuse("MEM", {})
        \/ B > 1 /\ Answer(IF pc = "fermat" THEN Fermat(A, B) ELSE MillerRabin(A, B), {})
  \/ /\ pc = "lucas"
     /\ LET Ds == SelfridgeD(A)
        IN  \/ Refuse("MEM", {})
            \/ Ds = 1 /\ Refuse("VAL", {})
            \/ Ds # 1 /\ Answer(Ds # 0 /\ StrongLucas(A, Ds), {})
  \/ /\ pc = "frobenius"
     /\ LET a == UnderwoodA(A)
        IN  \/ Refuse("MEM", {})
            \/ a = LTM_FROBENIUS_UNDERWOOD_A /\ Refuse("ITER", {})
            \/ /\ a # LTM_FROBENIUS_UNDERWOOD_A
               /\ Answer(a # -1 /\ FrobeniusUnderwood(A, a), {})
  \/ pc = "trials" /\ Answer(Trials(fr.size), {})

-----------------------------------------------------------------------------
(* mp_prime_is_prime.  A test that fails ends it, and so does one that is  *)
(* not passed.                                                             *)
InTable(n) == \E i \in 1 .. MP_PRIME_TAB_SIZE : s_mp_prime_tab[i] = n
Divisible(n) == \E i \in 1 .. MP_PRIME_TAB_SIZE : n % s_mp_prime_tab[i] = 0
IsSquare(n) == \E r \in 0 .. n : r * r <= n /\ r * r = n

is_prime_shortcut ==
  /\ pc = "is_prime"
  /\ LET small == Magnitude(A) <= 2
     IN  \/ (small \/ IsEven(A)) /\ Answer(Magnitude(A) = 2, {})
         \/ ~ small /\ ~ IsEven(A) /\ A < 0 /\ Refuse("VAL", {})
         \/ ~ small /\ ~ IsEven(A) /\ A > 0 /\ Refuse("MEM", {})
         \/ /\ ~ small /\ ~ IsEven(A) /\ A > 0
            /\ IsSquare(A) \/ InTable(A) \/ Divisible(A)
            /\ Answer(InTable(A) /\ ~ IsSquare(A), {})
         \/ /\ ~ small /\ ~ IsEven(A) /\ A > 0
            /\ ~ IsSquare(A) /\ ~ InTable(A) /\ ~ Divisible(A)
            /\ loc' = [b |-> 2]
            /\ live' = {"b"}
            /\ pc' = "is_prime_bases"
            /\ UNCHANGED << val, fr, err, old >>

(* The function goes on if the test is passed.                             *)
Passes(passed, l, next) ==
  \/ Refuse("MEM", {"b"})
  \/ ~ passed /\ Answer(FALSE, {"b"})
  \/ passed /\ loc' = l /\ Goto(next)

(* Two and three, ...                                                      *)
is_prime_bases ==
  /\ pc = "is_prime_bases"
  /\ Passes(MillerRabin(A, loc.b), [b |-> loc.b + 1],
            IF loc.b = 2 THEN "is_prime_bases" ELSE "is_prime_further")

(* ... the further test of the build, which may find no parameter, ...     *)
is_prime_further ==
  /\ pc = "is_prime_further"
  /\ LET Ds == SelfridgeD(A)
         a == UnderwoodA(A)
         passed == CASE fr.t < 0 \/ fr.build = "none" -> TRUE
                     [] fr.t >= 0 /\ fr.build = "lucas" -> Ds # 0 /\ StrongLucas(A, Ds)
                     [] fr.t >= 0 /\ fr.build = "frobenius" ->
                          a = LTM_FROBENIUS_UNDERWOOD_A \/ (a # -1 /\ FrobeniusUnderwood(A, a))
         stopped == fr.t >= 0 /\ fr.build = "lucas" /\ Ds = 1
     IN  \/ stopped /\ Refuse("VAL", {"b"})
         \/ ~ stopped /\ Passes(passed, [ix |-> IF fr.t < 0 THEN 2 ELSE 0], "is_prime_rounds")

(* ... the bases that prove the number prime, if t is negative, ...        *)
is_prime_deterministic ==
  /\ pc = "is_prime_rounds" /\ fr.t < 0
  /\ LET proving == {i \in 1 .. Len(Deterministic) : A < Deterministic[i].below}
         p_max == Deterministic[CHOOSE i \in proving : \A j \in proving : i <= j].bases
     IN  \/ proving = {} /\ (Refuse("VAL", {"b"}) \/ Refuse("MEM", {"b"}))
         \/ /\ proving # {} /\ loc.ix < p_max
            /\ Passes(MillerRabin(A, s_mp_prime_tab[loc.ix + 1]), [ix |-> loc.ix + 1], "is_prime_rounds")
         \/ /\ proving # {} /\ loc.ix = p_max
            /\ Answer(TRUE, {"b"})

(* ... or random ones.  A base drawn is cut to fewer bits than a, and      *)
(* drawn again if it is three or less.                                     *)
rounds == IF fr.t = 0 THEN 1 ELSE fr.t

is_prime_random ==
  /\ pc = "is_prime_rounds" /\ fr.t >= 0 /\ loc.ix < rounds
  /\ \/ Refuse("MEM", {"b"})
     \/ \E r \in 1 .. Radix - 1 :
          LET size_a == mp_count_bits(A)
              mask == 2 ^ (mp_count_bits(size_a) - 1) - 1
              fips_rand == r % (mask + 1)
              len == (fips_rand + MP_DIGIT_BIT) \div MP_DIGIT_BIT
          IN  \E b \in Weight(len - 1) .. Weight(len) - 1 :
                LET cut == b \div (IF mp_count_bits(b) >= size_a
                                   THEN 2 ^ (mp_count_bits(b) - size_a + 1) ELSE 1)
                IN  \/ cut <= 3 /\ loc' = loc /\ Goto("is_prime_rounds")
                    \/ cut > 3 /\ Passes(MillerRabin(A, cut), [ix |-> loc.ix + 1], "is_prime_rounds")

is_prime_passed ==
  pc = "is_prime_rounds" /\ fr.t >= 0 /\ loc.ix = rounds /\ Answer(TRUE, {"b"})

-----------------------------------------------------------------------------
(* mp_prime_next_prime.  The result replaces the number, its magnitude at  *)
(* once.                                                                   *)
kstep == IF fr.bbs THEN 4 ELSE 2

Become(n, l, next) ==
  /\ Put(fr.a, n) /\ loc' = l /\ pc' = next
  /\ UNCHANGED << live, fr, err, old >>

next_prime_table ==
  /\ pc = "next_prime"
  /\ LET a == Magnitude(A)
         after == {i \in 1 .. MP_PRIME_TAB_SIZE :
                     s_mp_prime_tab[i] > a /\ (fr.bbs => s_mp_prime_tab[i] % 4 = 3)}
         i == CHOOSE i \in after : \A j \in after : i <= j
     IN  \/ after # {} /\ Put(fr.a, s_mp_prime_tab[i]) /\ Return("OKAY", {})
         \/ after = {} /\ Become(a, NoLocals, "next_prime_start")

(* To the candidate below; its residues.                                   *)
next_prime_start ==
  /\ pc = "next_prime_start"
  /\ LET start == IF fr.bbs THEN (IF A % 4 = 3 THEN A ELSE A - (1 + (A % 4)))
                  ELSE IF IsEven(A) THEN A - 1 ELSE A
         res_tab == [x \in 2 .. MP_PRIME_TAB_SIZE |-> start % s_mp_prime_tab[x]]
     IN  \/ \E n \in {A, start} : Put(fr.a, n) /\ Return("MEM", {})
         \/ Become(start, [res_tab |-> res_tab, step |-> 0, y |-> TRUE], "next_prime_sieve")

limit == 2 ^ fr.bits - kstep

(* A residue is brought below its prime by one subtraction, which for      *)
(* steps of four is not enough for three.                                  *)
next_prime_step ==
  /\ pc = "next_prime_sieve" /\ loc.y /\ (loc.step = 0 \/ loc.step < limit)
  /\ LET Sieve(r, p) == IF r + kstep >= p THEN r + kstep - p ELSE r + kstep
         res_tab == [x \in DOMAIN loc.res_tab |-> Sieve(loc.res_tab[x], s_mp_prime_tab[x])]
     IN  loc' = [res_tab |-> res_tab, step |-> loc.step + kstep,
                 y |-> \E x \in DOMAIN res_tab : res_tab[x] = 0]
  /\ Goto("next_prime_sieve")

(* The candidate is reached and tested, unless the sieve has stopped for   *)
(* the size of the step only.                                              *)
next_prime_test ==
  /\ pc = "next_prime_sieve" /\ loc.step > 0 /\ (~ loc.y \/ loc.step >= limit)
  /\ LET candidate == A + loc.step
         again == [loc EXCEPT !.step = 0, !.y = TRUE]
     IN  \/ \E n \in {A, candidate} : Put(fr.a, n) /\ Return("MEM", {})
         \/ (loc.y \/ ~ IsPrimeNumber(candidate)) /\ Become(candidate, again, "next_prime_sieve")
         \/ ~ loc.y /\ IsPrimeNumber(candidate) /\ Put(fr.a, candidate) /\ Return("OKAY", {})

-----------------------------------------------------------------------------
(* mp_prime_rand.                                                          *)
flags == IF "SAFE" \in fr.flags THEN fr.flags \cup {"BBS"} ELSE fr.flags
buffer_size == fr.size \div 8 + (IF fr.size % 8 = 0 THEN 0 ELSE 1)

SetBit(n, k) == IF IsEven(n \div 2 ^ k) THEN n + 2 ^ k ELSE n

(* The bytes n drawn, the first and the last of them masked; the second    *)
(* bit is in the second byte if the first has one bit only.                *)
Candidate(n) ==
  LET bit(byte, k) == 8 * (buffer_size - 1 - byte) + k
      maskAND == IF fr.size % 8 = 0 THEN 8 ELSE fr.size % 8
      maskOR_msb_offset == IF fr.size % 8 = 1 THEN 1 ELSE 0
      top == SetBit(n % 2 ^ bit(0, maskAND), bit(0, (fr.size - 1) % 8))
      second == IF "2MSB_ON" \in flags THEN SetBit(top, bit(maskOR_msb_offset, 7 - ((9 - fr.size) % 8)))
                ELSE top
      odd == SetBit(second, 0)
  IN  IF "BBS" \in flags THEN SetBit(odd, 1) ELSE odd

(* Whether a candidate is taken; what a safe one is tested as.             *)
Taken(n) == IsPrimeNumber(n) /\ ("SAFE" \in flags => IsPrimeNumber((n - 1) \div 2))
Tried(n) == IF "SAFE" \in flags /\ IsPrimeNumber(n) THEN (n - 1) \div 2 ELSE n

(* The locals have what can be drawn, but for the bits maskAND clears, and *)
(* what of it is taken.                                                    *)
prime_rand_begin ==
  /\ pc = "prime_rand"
  /\ \/ fr.size <= 1 /\ Refuse("VAL", {})
     \/ fr.size > 1 /\ Refuse("MEM", {})
     \/ /\ fr.size > 1
        /\ LET candidates == {Candidate(n) : n \in 0 .. 2 ^ fr.size - 1}
           IN  loc' = [candidates |-> candidates, taken |-> {n \in candidates : Taken(n)}]
        /\ live' = {"tmp"}
        /\ pc' = "prime_rand_draw"
        /\ UNCHANGED << val, fr, err, old >>

prime_rand_draw ==
  /\ pc = "prime_rand_draw"
  /\ \/ Refuse("ERR", {"tmp"})
     \/ \E n \in loc.candidates \ loc.taken :
          /\ Put(fr.a, Tried(n))
          /\ UNCHANGED << loc, live, pc, fr, err, old >>

prime_rand_fail ==
  /\ pc = "prime_rand_draw"
  /\ \E n \in loc.candidates : \E m \in {A, 0, n, n - 1, Tried(n), 2 * Tried(n)} : Put(fr.a, m)
  /\ Return("MEM", {"tmp"})

prime_rand_found ==
  /\ pc = "prime_rand_draw"
  /\ \E n \in loc.taken : Put(fr.a, n)
  /\ Return("OKAY", {"tmp"})

-----------------------------------------------------------------------------
(* mp_rand: the first digit is drawn again while it is zero; the number is *)
(* zero until it is complete.  A source that fails may have written some   *)
(* of the bytes: the digits above used, here a number, are no longer zero. *)
LeaveAbove(raw) ==
  /\ pc' = "done" /\ err' = "ERR" /\ loc' = [above |-> raw]
  /\ UNCHANGED << live, fr, old >>

mp_rand ==
  /\ pc = "rand"
  /\ \/ fr.digits <= 0 /\ Put(fr.a, 0) /\ Return("OKAY", {})
     \/ fr.digits > 0 /\ Put(fr.a, 0) /\ Return("MEM", {})
     \/ /\ fr.digits > 0 /\ Put(fr.a, 0)
        /\ \E raw \in 0 .. Weight(fr.digits) - 1 : LeaveAbove(raw)
     \/ /\ fr.digits > 0
        /\ \E low \in 0 .. Weight(fr.digits - 1) - 1 : Become(0, [low |-> low], "rand_top")

rand_again ==
  /\ pc = "rand_top"
  /\ \/ /\ \E top \in 0 .. Radix - 1 : LeaveAbove(top * Weight(fr.digits - 1) + loc.low)
        /\ UNCHANGED val
     \/ loc' = loc /\ Goto("rand_top")

rand_top ==
  /\ pc = "rand_top"
  /\ \E top \in 1 .. Radix - 1 : Put(fr.a, top * Weight(fr.digits - 1) + loc.low)
  /\ Return("OKAY", {})

PrimeNext ==
  \/ single_test
  \/ is_prime_shortcut \/ is_prime_bases \/ is_prime_further \/ is_prime_deterministic
  \/ is_prime_random \/ is_prime_passed
  \/ next_prime_table \/ next_prime_start \/ next_prime_step \/ next_prime_test
  \/ prime_rand_begin \/ prime_rand_draw \/ prime_rand_fail \/ prime_rand_found
  \/ mp_rand \/ rand_again \/ rand_top

-----------------------------------------------------------------------------
(* No prime is refused by the tests of Miller and Rabin, of Lucas, and of  *)
(* Frobenius and Underwood if its parameter is prime to it; Fermat's takes *)
(* the bases below the number only.  mp_prime_is_prime tells primes from   *)
(* other numbers, of negative ones it takes -2 for a prime.                *)
TestsCorrect ==
  LET a == old[fr.a]
      b == old[fr.b]
  IN  /\ Succeeded("fermat") => (loc.answer <=> b < a /\ (PowMod(b, a, a) - b) % a = 0)
      /\ Succeeded("miller_rabin") /\ IsPrimeNumber(a) /\ ~ Divides(a, b) => loc.answer
      /\ Succeeded("lucas") /\ IsPrimeNumber(a) => loc.answer
      /\ Succeeded("frobenius") /\ IsPrimeNumber(a) /\ a \notin {5, 7} => loc.answer
      /\ Succeeded("is_prime") => (loc.answer <=> IsPrimeNumber(a) \/ a = -2)
      /\ Done("is_prime") /\ err = "VAL" =>
           \/ a < 0
           \/ fr.t < 0 /\ \A i \in 1 .. Len(Deterministic) : a >= Deterministic[i].below
           \/ fr.t >= 0 /\ fr.build = "lucas" /\ SelfridgeD(a) = 1

(* mp_prime_next_prime leaves the smallest prime above the magnitude, of   *)
(* those congruent to three modulo four if asked for, whatever the sieve   *)
(* overlooks and wherever it stops.  A prime drawn has the bits and the    *)
(* form asked for, and a random number the digits.  If the source fails    *)
(* the number is zero, but above used there are digits that were drawn,    *)
(* the first of which mp_cmp_d reads.                                      *)
PrimesCorrect ==
  LET a == val[fr.a]
      o == Magnitude(old[fr.a])
      Fits(p) == IsPrimeNumber(p) /\ (fr.bbs => p % 4 = 3)
  IN  /\ Succeeded("next_prime") => a > o /\ Fits(a) /\ \A p \in o + 1 .. a - 1 : ~ Fits(p)
      /\ Succeeded("prime_rand") =>
           /\ IsPrimeNumber(a) /\ mp_count_bits(a) = fr.size
           /\ "BBS" \in fr.flags => a % 4 = 3
           /\ "SAFE" \in fr.flags => a % 4 = 3 /\ IsPrimeNumber((a - 1) \div 2)
           /\ "2MSB_ON" \in fr.flags => (a \div 2 ^ (fr.size - 2)) % 2 = 1
      /\ Succeeded("rand") => a >= 0 /\ Used(a) = (IF fr.digits > 0 THEN fr.digits ELSE 0)
      /\ Done("rand") /\ err = "ERR" => a = 0 /\ Used(loc.above) <= fr.digits
      /\ Done("trials") =>
           \A i \in 1 .. Len(TrialSizes) :
             /\ TrialSizes[i][1] <= fr.size
             /\ i = Len(TrialSizes) \/ fr.size < TrialSizes[i + 1][1]
             => loc.answer = TrialSizes[i][2]

(* The residues of the sieve are those of the candidate, for three but in  *)
(* steps of four, where they may be three times too large and hide a       *)
(* multiple; nothing is taken for a multiple that is none.                 *)
SieveInvariant ==
  pc = "next_prime_sieve" =>
    \A x \in DOMAIN loc.res_tab :
      LET p == s_mp_prime_tab[x]
      IN  /\ (loc.res_tab[x] - (A + loc.step)) % p = 0
          /\ loc.res_tab[x] < p \/ (p = 3 /\ fr.bbs)
=============================================================================
