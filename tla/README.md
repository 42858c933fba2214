# libtommath in TLA+

A formal model of [libtommath](../src), the multiple-precision integer library:
what its functions do to the structures, the digits and the heap of their
caller, model-checked with TLC on small instances and, where it matters most,
proved for every radix, length and operand with the TLA+ proof system.

## The system

libtommath is a sequential C library. It keeps no state of its own but two sets
of globals (the random source and the algorithm cut-offs); its state is that of
the `mp_int` structures of the client: `used` digits out of `alloc` allocated
ones at `dp`, and a `sign`. A digit has `MP_DIGIT_BIT` bits and is kept in an
`mp_digit`, which has at least one bit more, for carries; products are formed in
an `mp_word` of twice that size. A function reads its operands, writes its
destinations and returns a code: `MP_OKAY`, `MP_MEM` when the allocator refuses,
`MP_OVF` when a number would need more than `MP_MAX_DIGIT_COUNT` digits, `MP_VAL`
for an argument out of its domain. Nothing runs concurrently and nothing is
stored outside memory. What is hard about this code is therefore

* **failure**: every function that may allocate can fail at each of its
  allocations, and must then release its temporaries and leave its destination
  usable;
* **aliasing**: the manual allows a source operand to be the destination, so the
  digit loops overwrite what they read, and a reallocation of the destination
  moves an operand;
* **stale digits**: the digits between `used` and `alloc` are taken for zero by
  some functions and left as they were by others;
* **carries and estimates at the edge**: the last carry of an addition, the
  borrow of a subtraction, quotient digits and roots that are estimated and then
  corrected;
* **termination** of the loops that are not bounded by a digit count: gcd,
  Newton's iterations, modular inverses, prime generation.

### Components

| component | state and operations | how it is modelled |
|---|---|---|
| lifecycle: `mp_init*`, `mp_clear*`, `mp_grow`, `mp_shrink`, `mp_exch`, `mp_copy`, `mp_abs`, `mp_neg`, `mp_zero`, `mp_set`, `mp_lshd`, `mp_rshd` | structures and heap blocks | `MpLifecycle`, its contract `MpValues` |
| representation: `mp_clamp`, `mp_cmp_mag`, the digit vectors | a digit vector | `MpNat` |
| `mp_add`, `mp_sub`, `s_mp_add`, `s_mp_sub` | digits of three structures | `MpAddSub` |
| digit, shift and bit operations | digits of two structures | `MpDigit` |
| `mp_mod`, `mp_addmod`, `mp_submod`, `mp_mulmod`, `mp_sqrmod` | integers of four structures | `MpModular` |
| `mp_gcd`, `mp_lcm` | integers and temporaries | `MpGcd` |
| `mp_sqrt`, `mp_root_n` | integers and Newton's temporaries | `MpRoots` |
| `mp_div` by `s_mp_div_school` and `s_mp_div_small` | integers, their digits, temporaries | `MpDiv` |
| `s_mp_div_recursive` | dividend, quotient and rest, temporaries | `MpRecursion` |
| `mp_invmod`, `s_mp_invmod`, `s_mp_invmod_odd`, `mp_exteuclid` | integers, coefficients, temporaries | `MpInverse` |
| `mp_expt_n`, `mp_exptmod`, `s_mp_exptmod`, `s_mp_exptmod_fast` | the table, the window over the exponent's digits | `MpPowers` |
| `mp_kronecker`, `mp_is_square`, `mp_sqrtmod_prime` | integers and temporaries | `MpResidues` |
| multiplication and squaring: dispatch, columns and rows, balance, Karatsuba, Toom-Cook | the digits of the product, carries, the parts of operands | `MpMul` |
| reductions: Barrett, Montgomery, diminished radix, 2^p - d, and their set-up | the number in place, the digits above it | `MpReduce`; their choice in `MpCall` |
| logarithms | the estimate and its power | `MpLogs` |
| primality: the tests, `mp_prime_is_prime`, `mp_prime_next_prime`, `mp_prime_rand` | witnesses, the residues of the sieve, the bytes drawn | `MpPrimes` |
| `mp_rand`, the random sources | the number drawn; the buffer, what of it is filled, the open device | `MpPrimes`, `MpSources` |
| conversions to text, files, bytes, words and machine integers; `mp_cmp` | texts and bytes read or written, sizes, room left | `MpText` |
| doubles, `mp_hash` | none but the number | `MpMachine` |

The layers call downwards only: lifecycle, then digit loops, then division and
multiplication, then the functions on integers. A model at one layer uses what
the models below it establish: the integer layers take a sum, a product or a
quotient for what it is, and keep of the digit layers the ways they fail.

## The modules

**`MpLifecycle`** has the structures (`mp`), the heap (`heap`, blocks with a size
and digits), the structures the client may use (`ready`) and the last code
(`err`). One action is one call. Any allocation may fail; a reallocation may move
the block, and what it adds holds the largest digit until the code has written
there. The client keeps the contract of the manual: it initialises what owns
nothing, and uses what was initialised. `MP_MALLOC` and its relatives are
modelled from their use (`tommath_private.h:91-105`).

* `Ownership`: every allocated block belongs to one structure, and its size is
  the structure's `alloc`. No leak, no double free, no shared digits.
* `ExcessZero`: the digits from `used` on are zero.
* `Canonical`: no leading zero digit and no negative zero, over the operations
  that promise it.
* `FailureChangesNothing`: a call that returns an error leaves every number.
* `ImplementsValues`: the structures, seen as numbers only, behave as
  `MpValues`, which knows neither `alloc` nor heap: assignments, sign changes and
  multiplications and divisions by powers of the radix, each of which may fail
  without effect. This is the refinement `MpLifecycle => MpValues`.

**`MpNat`** has the digit vectors, `Mag`, `IntVal` (the number a vector stands for,
a recursive function of its length), `mp_clamp`, `MagLT` (`mp_cmp_mag`), `Growths`
(what `mp_grow` may do to one number).

**`MpAddSub`** executes `mp_add` and `mp_sub`: the choice of routine, operand order
and sign; the growth of the destination; then one action per digit of the loops
of `s_mp_add` and `s_mp_sub`, with C's modular arithmetic on `mp_digit`
(`DigitMod`), so that the borrow is the top bit of the type as in the code. The
operands are names of structures: the loops read digits of `num[a]` and write
digits of `num[c]`, which may be the same.

**`MpDigit`** executes one call per action; a digit loop is the recursive function
of its carries. It covers the fast paths, the shallow copies of an operand with
another sign, the two's complement loops of the bit operations, the division by
three, and what a failure in the middle leaves in the destination. An operand that was copied,
pointer and all, before the destination it may be was moved (`mp_complement.c:9`) has any digits
(`Dangling`).

**`MpCall`** is the frame of the other functions on integers. `val` holds what the
client's structures hold, `fr` the function called with its arguments (`Frames`
has the calls of an instance, `Contents` what the structures may hold), `pc` the
part of the function to be executed next, `loc` its locals, `err` its code; `live` are the temporaries that own memory, so that a
forgotten `mp_clear` and a wrong label are visible. A call that cannot
be given what it needs ends with `Refuse`. Failures are one code, `MP_MEM`, which stands for `MP_OVF` too. The other modules on integers extend it:
**`MpIntegers`** composes six of them, **`MpNumbers`** the others, and in each a client calls
one of the functions. `MpCall` also has what several of them use: the predicates that choose a
reduction, `mp_count_bits`, `mp_cnt_lsb`, and what a product leaves of its destination when it fails
(`FailedProducts`): the magnitude that was there with the sign of the product (`mp_mul.c:65`), or,
of numbers long enough, what the routines of Toom and Cook had by then put there
(`s_mp_mul_toom.c:82`, `s_mp_sqr_toom.c:59`), one of the constant `Scraps`.

**`MpModular`** reduces, adds, subtracts, multiplies and squares modulo a structure that
may be the destination, too. It is an instance by itself, with its own `ModularInit` and `ModularNext` and
all the calls that its structures allow (`ModularFrames`) in place of `Frames` and `Contents`;
what a call that fails leaves in the destination is part of its action (`FailedSum`, `FailedProducts`).

**`MpDiv`** divides: `mp_div` chooses; `s_mp_div_school` normalises, counts the
leading digit, and then, a digit at a time, estimates (`Estimate`), decrements
(`TooLarge`), multiplies and subtracts, and adds back. A number is an integer that
`Digit` and `Used` take apart as the code does with `dp[i]` and `used`. The digits of
the quotient are kept as the array they are (`loc.q`), decremented modulo the
radix. `s_mp_div_small`, which takes its place where the former is not built, is
the second value of `routine`; it reads the sign of its dividend where that has by then been put, which
may be a result. The operands
it sends to `s_mp_div_recursive` are those of `MpRecursion`.

**`MpGcd`** and **`MpRoots`** have the binary gcd, `mp_lcm`, which calls it with a
temporary of its own as the destination, and Newton's iterations, a round an action.

**`MpInverse`** has the two binary inverses, which share their actions: what the one
for odd moduli does not keep is zero (`loc.odd`). `routine` says whether a build has
`s_mp_invmod_odd`, without which odd moduli go to `s_mp_invmod` as well
(`tommath_superclass.h:90`). `mp_exteuclid` may be asked for any of its three results.

**`MpPowers`** has `mp_expt_n` and `mp_exptmod`. The latter takes the inverse for a
negative exponent, looks at the digits of the modulus to choose a reduction
(`Reduction`), fills the table of powers and reads the exponent from its highest digit,
a bit per action, into the window (`mode`, `bitcnt`, `bitbuf`, `bitcpy`, `digidx` as in the
code). `s_mp_exptmod` and `s_mp_exptmod_fast` are the same machine with different
reductions; Montgomery's keeps its factor, `Unit`, in every number. What
a reduction and `mp_invmod` return is their promise, not their code. A build without
`s_mp_exptmod` is the second value of `routine`. The limit of the window under
`MP_LOW_MEM` is left out.

**`MpResidues`** has the Kronecker symbol with its table and the two bits
reciprocity is read off, `mp_is_square` with its filters (`rem_128`, `rem_105` and the
masks of seven primes) and the algorithm of Tonelli and Shanks; the last takes
the symbols and powers it asks for at their word.

**`MpMul`** has `mp_mul`, the conditions by which it chooses (`MulRoutine`), and the routines.
`has` in a frame is the set of routines of the build. The routines over digits are
executed a column or a row an action: `Word` and `DigitType` cut every sum and carry to the
width of `mp_word` and `mp_digit`, so that a column that is too long would lose its top.
`s_mp_mul_balance` is a slice an action. Karatsuba's and the Toom-Cook routines are the list
of the library calls they make (`Calls`), a call an action, each of which may fail with
the temporaries that are then initialised (`Before`) and those the label clears (`Cleared`). The
products of shorter numbers they ask for are taken at their word: the same property, of
shorter operands. `low` and `high` are the calls of `s_mp_mul` and of the routines for the upper half by
their callers, with the number of digits asked for. The cut-offs of `mp_cutoffs.c` are constants.

**`MpReduce`** reduces: the set-up of a modulus, then a reduction, as the callers have it.
Barrett's calls the routine for the upper half; Montgomery's is the row by row one or the comba one
(`MontgomeryComba` has the condition), with what was left above the number as an argument
(`above`); `mp_dr_reduce` is a pass over both halves an action, with the carry it
stores; `mp_reduce_2k` and `mp_reduce_2k_l` share their pass. `Rho` is the lifting of
`mp_montgomery_setup`, for digits of the sizes a build may have.

**`MpRecursion`** has `s_mp_div_recursive`, a chunk of the dividend an action; `s_recursion` is the
recursive function `DivRem`, which also counts how often a divisor is added back.

**`MpLogs`** has `mp_log` and `mp_log_n`: the shortcuts, the estimate from
fixed-point logarithms of the leading bits (`LogFraction`, the loop of `s_mp_fp_log_d` with its
precision), and the multiplications or divisions that correct it. The digit limit is an
argument (`limit`).

**`MpPrimes`** has the single tests as operators that follow the code (the witness sequence, the
search for Selfridge's D and Underwood's a, the Lucas and Frobenius chains modulo the number), the order in which
`mp_prime_is_prime` applies them, for builds with one or the other further test and with neither, for each
sign of `t`; the table, the start, the residues and the steps of
`mp_prime_next_prime`; the masks of `mp_prime_rand` bit by bit; `mp_rand`, with what a failing source has
written above `used` (`LeaveAbove`). Powers modulo the number,
gcds and symbols are taken at the word the other modules check. The length of the prime table and the list of bounds for the
deterministic test are constants.

**`MpText`** has the conversions. A character is its place in the map of digits (`Illegal` for one that
is not there), a file is the text read or written; bytes are numbers below 256. A call that
finds its buffer too short leaves there what it had written (`Leave`). The size of a text takes any
logarithm `mp_log_n` may give it. The packed
words have all their order, endianness and nails. The setters, initialisers and
getters of machine integers are the macros they are made of, with the width and
the sign as arguments.

**`MpMachine`** has `mp_set_double` and `mp_get_double`, for a format with any number of bits in its
fraction and its exponent: a double is its three parts, an integer one also the
integer it stands for, and every operation rounds as the machine does (`Rounded`, to the nearest, then
to even, to infinity above the greatest). `mp_hash` is computed with its masks and shifts.

**`MpSources`** has the random source: the client's, or those of the platform, one after the
other. `getrandom` and the device give some of the bytes a call, are interrupted, or fail at any
point; every byte of the buffer is known by the source that has written it. The
system calls are external: of a call it is taken that it gives at least a byte and not more than asked for.

Actions carry the names of the functions or of the parts of them they execute.
`old` is the state at the call, a history variable.

### What makes each component correct

| module | properties |
|---|---|
| `MpLifecycle` | the six above |
| `MpAddSub` | `ResultCorrect`: the sum or difference of what the operands held; `ResultWellFormed`: clamped, no negative zero, within `alloc`; `InBounds`: no digit is written beyond `alloc`; `FailureKeepsMagnitude`: a failed call may change the sign of its destination (and does, `mp_add.c:25`) but nothing else |
| `MpDigit` | `CallCorrect`: each operation computes what its comment says (`Meaning`), even when called on what another operation left above `used`, except the two calls that read what is not theirs (`ReadsAmiss`): `mp_2expt` then, and `mp_complement` in place without a digit to spare; `Canonical`, with `mp_cmp_d`; `ExcessZeroKept`: who leaves digits above `used`; `FailureLeaves`: what a failed call leaves |
| `MpModular` | `ReducedApart`: a residue of the sign of the modulus, for any aliasing but one; `RefusedOnlyForZero`: a modulus is refused if it is zero, and only then |
| `MpGcd` | `GcdAndLcmCorrect` against divisors and multiples |
| `MpDiv` | `DivCorrect`: quotient and remainder, but where `s_mp_div_small` loses the sign of a dividend it replaces (`SignLost`); `EstimateClose`: the estimate is never below the true digit and after correction at most one above |
| `MpRoots` | `RootsCorrect` against powers, with the three exceptions of `mp_root_n` |
| `MpInverse` | `InversesCorrect`: the inverse, and exactly what is refused; the linear combination, whichever results are asked for |
| `MpPowers` | `PowersCorrect`: the power, in the range of residues (but for the modulus one, which gives one for the exponent zero), and exactly what is refused |
| `MpResidues` | `ResiduesCorrect` against the definition of the symbol, squares, and square roots of residues |
| `MpIntegers` | `LoopInvariant`: of the gcd's loop, that Newton's iterates never pass the root, of quotient so far and rest, of the coefficients of the inverses, of the window against what is gone of the exponent, of the symbol, of Tonelli's R, T and C; `FailureLeaves`: nothing but for `mp_gcd`, `mp_lcm` and `mp_expt_n`, whose destinations may hold the odd part of the result, an absolute value, a lower power of either sign, or the scraps of a product that failed; `TemporariesCleared` (but for one leak); `OthersReturn`: every call ends but for the inverse below, and roots modulo composites, of which `doc/bn.tex` promises nothing |
| `MpMul` | `ProductCorrect`: the product, whichever routine and aliasing; the digits asked for of a part of it |
| `MpReduce` | `ReductionCorrect`: the residue each reduction is for, and what is refused |
| `MpRecursion` | `RecursionCorrect`: quotient and remainder, for any aliasing of results with operands |
| `MpLogs` | `LogCorrect`: the exponent, but for numbers at the digit limit, and exactly what is refused |
| `MpPrimes` | `PrimalityCorrect`: what each test may not refuse, exactly the primes by `mp_prime_is_prime`, the *next* prime, bits and form of a prime drawn; `MP_VAL` only where Lucas' test ran out of candidates for D |
| `MpText` | `ConversionsCorrect`: what is written stands for the number, fits its buffer and has the size announced (but for one that is too small for a number at the digit limit), a refusal is due, and what is left in a buffer that is too short; what is read is the number written; a machine integer keeps its value or its low bits |
| `MpMachine` | its part of `ConversionsCorrect`: the integer part of a double, and what is refused; exact doubles, and less than a unit of the last place otherwise; the digits a hash is made of |
| `MpSources` | its part of `PrimalityCorrect`: bytes all of one source that has succeeded |
| `MpNumbers` | `TypeOK`: places of rows and columns hold digits, carries and sums their words; `LoopInvariant`: exact divisions and ordered subtractions in the Toom-Cook lists, Barrett's quotient at most two too small, columns of Montgomery zero, the carry of `mp_dr_reduce`, quotient and rest by chunks with at most four divisors added back, the logarithm's estimate within two, the sieve's residues, the bytes of a buffer so far; `FailureLeaves`: only the destination, only by those functions that write it early, and all temporaries cleared and the device closed; `EveryCallReturns`, but for safe primes of two bits |

A type invariant that bounds digits below the radix is more than a type here: the
decrements and increments of `MpDiv`, the two's complement of `MpDigit` and the
borrow of `MpAddSub` wrap, and a digit that wraps where it should not leaves the range.

## The runs

Every run is `tlc -config <cfg> <module>` on a small instance; each passing run ends
within minutes. No state is excluded by a constraint: the bounds are the constants.

| run | instance | why it is enough |
|---|---|---|
| `MC_MpLifecycle` | 3 structures, 4 blocks, digits 0 and 1, at most 4 digits, any sequence of calls | two operands and a destination; a block more than structures, so that a reallocation can move when all are live; `mp_grow` reaches the maximum digit count |
| `MC_MpAddSub` | radix 4 in a type of 8, up to 2 digits and the longest of 3 | all aliasings of three operands; carries and borrows through every digit; the result that is one digit too long |
| `MC_MpDigit` | radix 8 in a type of 16, up to 2 digits of {0, 1, 6, 7} and the longest of 4; one call from each pair, or two calls in sequence from fewer | the boundary digits decide the fast paths; two calls suffice for what one leaves above `used` to reach another |
| `MC_MpModular` | 4 structures holding -3..3 or 16 | operands, modulus and destination all different or not; remainders of both signs; 16, in radix 4, is long enough for the routines of Toom and Cook, whose scraps are 0 and 5 |
| `MC_MpIntegers` | radix 4, the first operand one structure, the others every choice; operands by function, a value being added for each branch | gcd and lcm: -3..12, common factors even and odd, squares, coprimes, zero; 16 and 18, for a product that fails with scraps. Division: -2..12 and nine values up to 1023, that is divisors of one to five digits; estimates that are reduced, digits that are skipped, equal leading digits and divisors that are added back all occur. Roots: -9..28 and neighbours of 64, 125, 243, 289, orders -1, 1..5, of which the last two exceed `MP_DIGIT_MAX`: several rounds and both corrections. Inverses: moduli up to 15 and 27, 47, 253, 777, where the inverse needs the correction from above. Powers: exponents of up to five digits with full, partial and no windows of two and of three bits; moduli of every reduction, one and zero among them. Symbols: -17..17. Squares: each value up to 140 and squares up to 105^2, for every filter. Modular roots: primes 1 and 3 modulo 4 up to 97, with composites |
| `MC_MpNumbers` | radix 4, words of 6 bits, so that columns of up to 4 products fit one; Karatsuba from 2 digits, Toom-Cook from 3; five builds; destination and second operand every choice | products: operands of one to seven digits with all digits full among them, of equal and of very different lengths, so that each condition of `mp_mul` decides both ways and the longest column is reached. Reductions: 22 moduli, for every form, against all numbers below m^2 (or m R^n) near the multiples of m and at the ends of the range. Division: divisors of 5 and 6 digits, dividends of up to 14, with several chunks, several levels and divisors added back. Logarithms: powers and their neighbours, word-sized digits, three digit limits. Primes: every number up to 130, one for which no D is found among the ints of the instance, and the pseudoprimes to the bases 2 and 3 and to Lucas' test; a table of 4 primes, so that numbers are left to the tests and the sieve overlooks some; a type whose largest step is reached by the sieve. Texts: radices 2, 10, 16, 36, 37, 64 and those refused, two digit limits for the size, rooms of 0 to 6, all strings of up to three of four kinds of characters. Bytes: strings of up to three, words of one to three bytes with 0 to 11 nails. Machine types of 1, 2, 3 and 5 bits, shorter and longer than a digit, and their values up to 17. Doubles: every one of two formats, with 1 and 3 bits of fraction and exponents that shift to both sides; numbers to doubles of three formats, with digits shorter and longer than their precision, up to infinity and beyond. Sources: six builds and a client's, 0 to 3 bytes in all the ways they may come in |

Six runs state a claim of the documentation that the code does not meet:

| run | claim | what happens |
|---|---|---|
| `MC_MpTwoExpt` | `mp_2expt` computes a power of two | after `mp_and`, `mp_or` or `mp_xor` the destination has digits above `used`, which it takes for zero |
| `MC_MpComplement` | `b = ~a`, and sources may be destinations | `mp_complement` hands on a copy of `a`, the pointer to its digits included, and only then is `b` grown: in place, with no digit to spare, the digits are read after they were freed |
| `MC_MpModularAliased` | sources may be destinations | `mp_mod` and its relatives with the modulus as destination use it after overwriting it |
| `MC_MpIntegersLeak` | temporaries are freed | `mp_gcd` frees `v` instead of `u` when `v` cannot be allocated |
| `MC_MpIntegersRoots` | `c^b <= a < (c+1)^b`, sign of the input, sources may be destinations | `mp_root_n` in place loses the sign of a negative operand, gives zero the root one, and does not store a first root |
| `MC_MpIntegersQuotient` | `bc + d = a`, sources may be destinations | `s_mp_div_small` in place takes the sign of the remainder from the quotient, or from the remainder itself |

Further remarks: `mp_expt_n` gives one for a negative exponent, and leaves a lower power
when it fails (`FailureLeaves` has this exception); in a build without `s_mp_exptmod`,
`mp_exptmod` refuses even moduli of no special form. The comment at `s_mp_div_school.c:41` has the leading digit of the
divisor at least half the radix; the code makes it at least a quarter (`MP_DIGIT_BIT - 1`
bits). `EstimateClose` shows that one addition still suffices, which is owed to the
comparison over three digits that follows the estimate.

More of what the models show and the properties state, as their exceptions or as what there is instead of what was promised:

* `mp_to_radix`, given a buffer that is too short, leaves in it the sign and the lowest digits, the lowest first, and no
  zero byte (`WritingCorrect`). Its comment (`mp_to_radix.c:19`) promises "always a NULL byte", `doc/bn.tex:2388-2390` the least
  significant digits, terminated; the calls that would show it are commented out in `demo/test.c:1173-1183`.
* `mp_read_radix` takes a carriage return or a line feed for the end of the text and answers `MP_OKAY` whatever
  follows (`mp_read_radix.c:59`, `ReadingCorrect`); `doc/bn.tex:2434` promises `MP_VAL` for any character that is no digit.
* `mp_rand`, when its source fails, leaves what was drawn as digits above a `used` of zero (`mp_rand.c:21`, `27`).
  `mp_cmp_d` (`mp_cmp_d.c:20`) and `mp_sub_d` in place (`mp_sub_d.c:20`) read the first digit of such a zero
  as if it were one (`PrimesCorrect`).
* `s_mp_div_recursive` jumps, when its temporaries cannot be initialised, to the label that clears
  them all, though some were never written (`s_mp_div_recursive.c:88`, in `s_recursion` at 27; in
  `FailureLeaves` by `RecursionClears`); `doc/bn.tex:554` has `mp_clear` expect what was initialised.
* `s_mp_invmod`, which gets odd moduli in a build without `s_mp_invmod_odd`, halves zero for ever when the operand is
  a multiple of the modulus, where an error is due (`HalvesZero`, which `OthersReturn` leaves out).

Smaller ones:
`mp_mul` gives its destination the sign of the product even when it fails, and a failing routine of
Toom and Cook's has computed there; so a failing `mp_expt_n` with a negative base may leave -1 for the
power zero, and a failing `mp_lcm` something unrelated. The lost sign of a remainder that replaces its dividend reaches, in a
build with `s_mp_div_small`, all functions that reduce a negative number in place (`mp_mod` with `c == a`, `mp_addmod` and
its relatives); `MpModular` takes the division as `s_mp_div_school` has it.
`doc/bn.tex:2400` and `doc/bn.tex:2409` promise a size of zero when the functions for the size of a text fail; they do not
touch it. That size is too small by one where the logarithm is, see below.
`mp_prime_rand` does not end for a safe prime of two bits: three is the only candidate, and
(3-1)/2 is none. `mp_prime_is_prime` takes -2 for a prime. `mp_prime_fermat` compares with the
base, not its residue, and refuses primes below the base. The Frobenius test refuses
5, which its caller never gives it. The residue of three in the sieve of
`mp_prime_next_prime` with steps of four exceeds three, after which multiples of three go
unnoticed by the sieve, not by the test that follows. `mp_fread` of a text without digits leaves zero and
returns `MP_OKAY`. `mp_log` may answer an exponent that is too small where the power above it does
not fit the digit limit. `mp_from_sbin` of a zero with the byte of a negative sign makes a negative zero
(excluded by the instance: no function of the library writes it).
`mp_hash` leaves out the last byte of the number: its digits are those of the number shifted right by
eight bits, so that numbers which differ in that byte only have the same hash
(`mp_hash.c:26`; `doc/bn.tex:1455` calls the hash FNV-1a, which has all bytes).

### Fairness

`FairSpec` adds weak fairness of `Next`, and nothing else but for `mp_prime_rand` below: the program is sequential,
and a function that has a next statement executes it. Nothing is assumed of the choices
within `Next`, in particular not that an allocation succeeds.
`mp_rand`, and `mp_prime_is_prime` for its random bases, draw again what does not suit them. A second draw changes
nothing of the state, nor does an interrupted system call; that it does not go on for ever is what weak fairness of
`Next` says there. The draw of a prime by `mp_prime_rand` has strong fairness (`prime_rand_found`):
the source is taken to return at some time one of the candidates that pass. If no
candidate can, it assumes nothing, and the call with no answer above is found. `CHECK_DEADLOCK FALSE`
is in the configurations whose behaviours are a single call and end with its return.

## The proofs

`tlapm` checks eight modules of theorems, for all values of the constants that satisfy
the named assumptions: any radix of at least two that fits the digit type, any number
of digits, structures and blocks. What is assumed beyond their types: that a digit type has at most twice the bits of
a digit (`SpareBitsAssumption`, for the wrapped digits of freed memory), that Toom-Cook's cut-offs are
at least three (`ToomCookAssumption`), and what is said of the others below.

* **`MpLifecycle_proofs`**: `TypeOK`, `Ownership`, `ExcessZero`, `Canonical` as
  invariants, and the action property `FailureChangesNothing`. The inductive
  invariant is the conjunction of the four: that digits above `used` are zero
  survives `mp_copy` and `mp_lshd` only because `used` is within `alloc` (`Canonical`) and
  `alloc` is the block's size, and a write through one structure leaves the others
  alone only because blocks are not shared (`Ownership`). Most operations end in
  `Store`; `StoreKeepsInv` says once what its caller owes (`Storable`).
  Its second half shows that `MpLifecycle` implements `MpValues`: every call, with its
  allocations and failures, is a step of the values or none. It rests on the invariants,
  as the number of a structure survives a reallocation only if its block is
  its own. The shifts by digits are where values and digits meet: that `mp_lshd` multiplies by a
  power of the radix needs the digits above `used`.
* **`MpNat_proofs`**: the value of a digit vector by recursion on its length, derived
  without the library's induction theorems (which take an operator) from the induction
  over sets of `NatSetInduction`; its bounds, how it changes with a digit, and that
  `mp_cmp_mag` orders (`MagLTCorrect`) and `mp_clamp` keeps (`ClampKeepsMag`) the number.
* **`MpAddSub_proofs`**: all safety properties of addition and subtraction. The inductive
  invariant `IInv` ties the digits written so far, with the carry or the borrow, to the
  digits read (`SoFar`), keeps the digits not yet reached those of the operand, should
  the destination be one (`LoopBounds`), and remembers why the routine and the sign
  were chosen (`RightRoutine`): without the last the borrow out of the last digit could
  not be excluded. `AddDigit` and `SubDigit` are the arithmetic of one digit, the wrap
  of the C type included.
* **`MpDigit_proofs`**: all properties of the seventeen calls on digits, shifts and bits, for
  every radix that is a power of two and every type that holds a bit more than a digit. The invariant `IInv` is that
  every number is `Proper`: like `WellFormed`, but with anything above `used`, since
  `mp_and`, `mp_or` and `mp_xor` leave digits there; only the first digit of a zero must be zero, which `mp_cmp_d`
  and the fast path of `mp_sub_d` read. A call is described by what it delivers (`Delivers`): the integer
  if it succeeds, the integers that may be left if it fails, and no digits above `used` if there were
  none; so the calls that a call makes (`mp_copy`, `mp_grow`, `mp_lshd`, `mp_add_d` from `mp_signed_rsh`)
  compose. Underneath, a loop over digits is solved once, upwards and
  downwards (`LoopSpells`, `LoopUpwards`, `LoopDownwards`): if each place is right with its carry, the digits spell the
  number. What each loop owes is the arithmetic of one place: `Wrapped`, the borrow that is the
  highest bit of the type; `ProductWord`, that a product and its carry fit an `mp_word`; `ThirdOfWord`, that
  the multiplication by a third of the radix never gives too much, so that the loop of `s_mp_div_3` has only to add;
  `ShiftUpDigit` and `ShiftDownDigit`, the bits that pass between digits. For the bit operations `TwosBits`
  shows that the digits of `TwosComplement` are the low bits of the integer, negative or not, `HighBits` that
  all others are those of its sign, and `SignedBits` that what is converted back has the combined bits at every
  place, not at those of `BitPlaces` only.
* **`MpCall_proofs`** has the arithmetic that the functions on integers need and the provers do not
  know: division with its signs (`Division`), divisors, greatest common divisors and Bezout's
  equation, bits (`mp_count_bits`, `mp_cnt_lsb`), digits as quotients (`Digit`, `Used`, `Weight`),
  powers. What the model defines by recursion is shown to satisfy its equation
  (`RecursionSolved`), and the equation is used by `NatSetInduction`, over a set in place of an operator.
* **`MpIntegers_proofs`** begins with `Ownership`: where a call may be, and which temporaries own
  memory there. A step is one of the component its call belongs to (`StepsAtHome`), so that each
  component has an inductive invariant of its own. `Cleared` follows at once: whichever call fails,
  the label it leaves by clears what is owned.
  `GcdInv` has for its loop that the divisor of `u` and `v`, times a power of two, is that of the operands.
  `InverseInv` has that both pairs of coefficients still make `u` and `v` of the operands, or that the
  one kept does so modulo `b` (`Fits`), that `u` and `v` are never both even, and that their greatest
  common divisor is that of the operands, whence exactly those without an inverse are refused; that a
  coefficient is even when it is halved is owed to the odd operand among the two.
  `ExptInv` has the square, the power so far and the bits that are left.
  `ExptmodInv` follows the window of `mp_exptmod`. `Represents` says of a number that it is a power of
  the base times the factor of the representation, one or Montgomery's, modulo the modulus; products and
  squarings of such numbers, reduced, represent the sums and doubles of their exponents
  (`ReduxMultiplies`, `SquaredRepresents`), so that the table and the result so far stand for the exponents they should
  (`TableRight`, `WindowInv`). The window holds the lowest bits of those read (`Reading`), and the
  strengthening without which a full one could not index the table: the highest of them is set. That a
  call is refused just for the reasons `ExptmodCorrect` lists needs that what was begun has an inverse
  of the base and a reduction (`Started`, `NotRefused`).
  `RootInv` has that Newton's iterate is not below the root: for the square root in the form
  `t1 (t1 + 2) > a`, which the first mean gives even for an estimate that is too small,
  and for other orders through Bernoulli's inequality for integers (`Bernoulli`), by which a mean of
  iterate and quotient does not fall below the root (`MeanNotBelow`). A square root
  that the mean no longer lowers is the root; other orders are brought down to it by `root_down`. `WriteLast` has that no component but the three
  `FailureLeaves` names writes before it succeeds; for two of these, `FailedProductFacts` has what a product
that fails may have written, which is why the failure of a power and of a least common multiple depend on
the length of what was multiplied.
  Both routines of `mp_div` leave quotient and remainder, but for the sign of a remainder under `SignLost`: `DivInv`
  says of every place what is counted in `loc.q`, what is left in `loc.x` and that this is less than the
  divisor at the place (`AtTop`, `AtEstimate`, `AtDigit`). That an estimate is never below the digit is
  elementary; that it is at most one above it after the comparison of three digits (`Leads`, `FromTwo`) needs that
  the leading digit of the divisor is at least a quarter of the radix. Both
  together give `EstimateIsClose`, for every radix, so that the single addition back of the code
  suffices and no digit of the quotient wraps.
  At its end are the theorems of `MpModular`, for all integers of both signs: `Adjusted` is the
  lemma of the code's last step, that the remainder of the sign of the dividend, corrected
  by the modulus when the signs differ, is the residue of the sign of the modulus.
* **`MpMul_proofs`** has what products write (`MulWrites`) and what they compute: `MulProducts` says of every
  routine what is done between two of its steps. A column of at most `Longest` products and the
  carry of the columns below fit an `mp_word` (`ColumnBound`, `CombaCarry`), which is what `MP_MAX_COMBA` is for, so
  that the digits and the carry spell the columns so far (`CombaStep`, also for the doubled
  columns of the squares, `SquaresColumn`); columns summed are rows summed (`ColumnsAreRows`), and
  both the product. A row adds a multiple of the other operand with a carry that stays
  within a digit (`RowStep`, `MulRow`, `SqrRow`, `HighRow`); a row cut off at the digits asked for is right modulo
  their weight (`MulRowCut`). The routines that work by parts are identities of polynomials at the weight of
  a part: the lists of calls are followed one by one (`KaratsubaStep`, `SqrKaratsubaStep`, `ToomStep`,
  `SqrToomStep`), the halves and thirds that Toom and Cook's take being exact, and so are the
  slices of `s_mp_mul_balance` (`SliceStep`). `s_mp_mul_high` is right only while no operand is
  longer than the columns asked for permit, `HighAssumption`: its row `ix` starts at the digit `digs - ix` of
  the other operand. `mp_reduce`, its caller, has at most `digs + 1` digits left of
  the number after it has shifted it by `digs - 1`.
* **`MpNumbers_proofs`** has the same frame for the calls of `MpNumbers`: `Ownership`, a conjunct for each
  component, and `StepsAtHome`. For `FailedCallsLeave` three more invariants are needed: what the call
  remembers of its arguments (`Remembered`), that functions that are no products write at most what
  `FailureLeaves` allows them (`OthersWrite`), and `MulWrites` for the products: the destination holds
  what it held until the routine delivers, unless the routine is one of Toom and Cook's, which was chosen
  for the length of the operands and keeps integers, if not those of the destination, in its temporaries
  (`PartCalls`, `ResultTyped` go through the lists of calls).
  `ProductsMade` needs `MulProducts` with them: that the destination may be an operand is harmless as the
  routines read what the operands held until they deliver.
  `Logarithms`: the argument is untouched and the power is that of its exponent (`LogRuns`), so that a step up or
  down that stops has the exponent between two powers; that the first exponent is at least one, without
  which a step down could leave the naturals, needs bounds of the fixed-point logarithm
  (`FpLogBounds`, `ApproxLog`) from `LogWordAssumption`, that an mp_word holds the logarithm of every number.
  `RecursiveDivision`: what is defined by `DivRem` is exact division (`DivRemDivides`). It is well-founded as the upper
  parts of dividend and divisor are shorter and again in the proportion the recursion asks for (`PartsRecursible`,
  by induction on the length); each half leaves a rest that the divisors added back bring between zero and the
  divisor (`AddedBack`), so that the next half is in proportion, too, and both together divide (`BothHalves`).
  `ChunksDone` is the invariant over the chunks: quotient so far times divisor at its place, plus the
  rest, is the shifted dividend, and the rest is short enough for the next chunk; `ShiftedDivision` takes the
  shift back out of quotient and rest.

Only model-checked:

* liveness (`EveryCallReturns`, `OthersReturn`), which is out of the prover's reach, as is induction over data in general;
* of `MpNumbers`, all but `FailureLeaves`, `ProductCorrect`, `LogCorrect` and `RecursionCorrect`;
* of `MpIntegers`: `ResiduesCorrect`, which rests on the law of quadratic reciprocity
  and Euler's criterion; `InverseLoopInvariant`, whose bounds of coefficients the result does not
  depend on; `TypeOK`, but for its part on division (`DivTypeCorrect`).

## What is not modelled

* The order zero of `mp_root_n`, which divides by it (`mp_root_n.c:60`): undefined.
* Text of errors, memory wiping, `s_mp_get_bit` (in its callers): no state and no logic of its own.
* What a system call does, beyond what it gives; the quality of a hash.
* The streams under `mp_fread` and `mp_fwrite`, beyond the characters that pass.
* `MP_LOW_MEM`'s limit on the window of exponentiation, and the measured cut-offs.
* The tests, the tuning and timing tools, the build files. `mtest/` vendors another library.
* Concurrency: the manual calls the library thread safe (`doc/bn.tex:431`), and a call
  works on its arguments alone; two calls on one number are the client's to order. The
  two sets of globals are read and written without synchronisation.
* The distribution of the random numbers and the error probability of the primality tests.

## The plan

Done, in this order: `MpValues`, `MpLifecycle`; `MpNat`, `MpAddSub`; `MpDigit`;
`MpCall` with `MpModular`; `MpGcd`, `MpRoots`, `MpDiv`, `MpInverse`, `MpPowers`,
`MpResidues` and `MpIntegers`; `MpMul`, `MpReduce`, `MpRecursion`,
`MpLogs`, `MpPrimes`, `MpText`, `MpMachine`, `MpSources` and `MpNumbers`; the eight proof modules.

Theorems to come, by importance: that the filters of
`mp_is_square` refuse no square; the types of `MpIntegers`; the bounds of Montgomery's and
Barrett's reductions, whose rows and columns are those of `MpMul_proofs`.
