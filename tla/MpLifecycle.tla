----------------------------- MODULE MpLifecycle -----------------------------
(***************************************************************************)
(* The mp_int structures of a client and the heap blocks their digits are  *)
(* kept in: mp_init*, mp_clear*, mp_grow, mp_shrink, mp_exch, and the      *)
(* operations that only move digits about (mp_copy, mp_abs, mp_neg,        *)
(* mp_zero, mp_set, mp_lshd, mp_rshd).  Any allocation may fail; a         *)
(* reallocation may move the block.                                        *)
(*                                                                         *)
(* The client is sequential and keeps the contract of the library: it      *)
(* initialises a structure that owns nothing, and passes to the other      *)
(* operations structures whose initialisation succeeded.                   *)
(***************************************************************************)
EXTENDS Integers, FiniteSets, Sequences

CONSTANTS Ints,                    \* the mp_int structures of the client
          Blocks,                  \* the addresses the allocator hands out
          NULL,                    \* the null pointer
          GARBAGE,                 \* the dp of a structure never written
          MP_DIGIT_MAX,            \* largest digit
          MP_DEFAULT_DIGIT_COUNT,  \* digits mp_init allocates
          MP_MIN_DIGIT_COUNT,      \* fewest digits an mp_int is given
          MP_MAX_DIGIT_COUNT,      \* most digits an mp_int is given
          MaxShift                 \* bound on the argument of the shifts

ASSUME PointersDiffer == NULL \notin Blocks /\ GARBAGE \notin Blocks /\ NULL # GARBAGE
ASSUME DigitMaxAssumption == MP_DIGIT_MAX \in Nat \ {0}
ASSUME DigitCountAssumption ==
  /\ MP_MIN_DIGIT_COUNT \in Nat
  /\ MP_DEFAULT_DIGIT_COUNT \in Nat
  /\ MP_MAX_DIGIT_COUNT \in Nat
  /\ 3 <= MP_MIN_DIGIT_COUNT
  /\ MP_MIN_DIGIT_COUNT <= MP_DEFAULT_DIGIT_COUNT
  /\ MP_DEFAULT_DIGIT_COUNT <= MP_MAX_DIGIT_COUNT
ASSUME MaxShiftAssumption == MaxShift \in Nat

VARIABLES mp,     \* mp[x]: the members of structure x
          heap,   \* heap[b]: the size of block b in digits and its digits
          ready,  \* the structures the client may use
          err     \* the code the last call returned

vars == << mp, heap, ready, err >>

Digits == 0 .. MP_DIGIT_MAX
Places == 0 .. MP_MAX_DIGIT_COUNT - 1
Counts == 0 .. MP_MAX_DIGIT_COUNT

MP_ZPOS == "ZPOS"
MP_NEG  == "NEG"
Signs   == {MP_ZPOS, MP_NEG}
Codes   == {"OKAY", "MEM", "VAL", "OVF"}

MaxOf(m, n) == IF m >= n THEN m ELSE n

(***************************************************************************)
(* The heap.  A block of size 0 is free; what a free block holds is not    *)
(* modelled (NoDigits), and the places of a block at or above its size are *)
(* not addressable.                                                        *)
(***************************************************************************)
NoDigits == [i \in Places |-> 0]
FreeBlock == [size |-> 0, digit |-> NoDigits]

IsFree(b) == heap[b].size = 0

(* MP_CALLOC of n digits.                                                  *)
Zeroed(n) == [size |-> n, digit |-> NoDigits]

(* MP_REALLOC of a block to n digits: the digits both sizes have are kept, *)
(* the others are what the allocator left there.                           *)
Resized(block, n, left) ==
  [size  |-> n,
   digit |-> [i \in Places |-> IF i >= n THEN 0
                               ELSE IF i < block.size THEN block.digit[i] ELSE left]]

(* s_mp_zero_digs(dp + from, count)                                        *)
ZeroDigs(block, from, count) ==
  [block EXCEPT !.digit = [i \in Places |-> IF from <= i /\ i < from + count THEN 0 ELSE @[i]]]

(* The two addresses a reallocation of block b may return.                 *)
ReallocTargets(b) == {b} \cup {n \in Blocks : IsFree(n)}

(* Mutated: the old block of a reallocation that moved is not freed.       *)
Mut_MoveBlock(h, from, to, block) == [h EXCEPT ![to] = block]

MoveBlock(h, from, to, block) ==
  [b \in Blocks |-> IF b = to THEN block ELSE IF b = from THEN FreeBlock ELSE h[b]]

Dp(x) == heap[mp[x].dp]
iszero(x) == mp[x].used = 0
isneg(x) == mp[x].sign = MP_NEG

Uninitialised(x) == x \in Ints \ ready
Fail(code) == err' = code /\ UNCHANGED << mp, heap, ready >>

-----------------------------------------------------------------------------
(* mp_init_size and the members it sets; mp_init is the same with the      *)
(* default count.                                                          *)
Fresh(b, n) == [used |-> 0, alloc |-> n, sign |-> MP_ZPOS, dp |-> b]

AllocFails(a) ==
  /\ err' = "MEM"
  /\ mp' = [mp EXCEPT ![a].dp = NULL]
  /\ UNCHANGED << heap, ready >>

AllocSucceeds(a, n) ==
  \E b \in Blocks :
    /\ IsFree(b)
    /\ heap' = [heap EXCEPT ![b] = Zeroed(n)]
    /\ mp' = [mp EXCEPT ![a] = Fresh(b, n)]
    /\ ready' = ready \cup {a}
    /\ err' = "OKAY"

mp_init(a) ==
  /\ Uninitialised(a)
  /\ AllocFails(a) \/ AllocSucceeds(a, MP_DEFAULT_DIGIT_COUNT)

mp_init_size(a, size) ==
  /\ Uninitialised(a)
  /\ \/ size < 0 /\ Fail("VAL")
     \/ /\ size >= 0
        /\ LET n == MaxOf(MP_MIN_DIGIT_COUNT, size)
           IN  \/ n > MP_MAX_DIGIT_COUNT /\ Fail("OVF")
               \/ /\ n <= MP_MAX_DIGIT_COUNT
                  /\ AllocFails(a) \/ AllocSucceeds(a, n)

(* mp_init_multi over the distinct structures s[1], s[2], ...  When the    *)
(* k-th initialisation fails, those before it are cleared again.           *)
Cleared == [used |-> 0, alloc |-> 0, sign |-> MP_ZPOS, dp |-> NULL]

mp_init_multi(s) ==
  /\ \A k \in DOMAIN s : Uninitialised(s[k])
  /\ \/ \E at \in [DOMAIN s -> {b \in Blocks : IsFree(b)}] :
          /\ \A j, k \in DOMAIN s : j # k => at[j] # at[k]
          /\ heap' = [b \in Blocks |-> IF \E k \in DOMAIN s : at[k] = b
                                         THEN Zeroed(MP_DEFAULT_DIGIT_COUNT)
                                         ELSE heap[b]]
          /\ mp' = [x \in Ints |-> IF \E k \in DOMAIN s : s[k] = x
                                     THEN Fresh(at[CHOOSE k \in DOMAIN s : s[k] = x],
                                                MP_DEFAULT_DIGIT_COUNT)
                                     ELSE mp[x]]
          /\ ready' = ready \cup {s[k] : k \in DOMAIN s}
          /\ err' = "OKAY"
     \/ \E k \in DOMAIN s :
          /\ mp' = [x \in Ints |-> IF \E j \in DOMAIN s : j < k /\ s[j] = x THEN Cleared
                                   ELSE IF x = s[k] THEN [mp[x] EXCEPT !.dp = NULL]
                                   ELSE mp[x]]
          /\ err' = "MEM"
          /\ UNCHANGED << heap, ready >>

(* mp_clear, also of a structure already cleared or whose initialisation   *)
(* the allocator refused: both have a null dp, and nothing happens.        *)
mp_clear(a) ==
  /\ mp[a].dp # GARBAGE
  /\ err' = "OKAY"
  /\ IF mp[a].dp # NULL
       THEN /\ heap' = [heap EXCEPT ![mp[a].dp] = FreeBlock]
            /\ mp' = [mp EXCEPT ![a] = Cleared]
            /\ ready' = ready \ {a}
       ELSE UNCHANGED << mp, heap, ready >>

mp_clear_multi(X) ==
  /\ \A x \in X : mp[x].dp # GARBAGE
  /\ LET gone == {mp[x].dp : x \in X} \ {NULL}
     IN  heap' = [b \in Blocks |-> IF b \in gone THEN FreeBlock ELSE heap[b]]
  /\ mp' = [x \in Ints |-> IF x \in X /\ mp[x].dp # NULL THEN Cleared ELSE mp[x]]
  /\ ready' = ready \ X
  /\ err' = "OKAY"

-----------------------------------------------------------------------------
(* mp_grow(x, size): the results it can have, each with the place, size    *)
(* and digits x then has.  Only a success changes anything.                *)
Kept(x) == [code |-> "OKAY", dp |-> mp[x].dp, block |-> Dp(x)]

Grown(x, size, to) ==
  [code  |-> "OKAY",
   dp    |-> to,
   block |-> ZeroDigs(Resized(Dp(x), size, MP_DIGIT_MAX),
                      mp[x].alloc, size - mp[x].alloc)]

Refused(x, code) == [Kept(x) EXCEPT !.code = code]

(* Mutated: the check against MP_MAX_DIGIT_COUNT is missing.               *)
Mut_Growths(x, size) ==
  IF size <= mp[x].alloc THEN {Kept(x)}
  ELSE {Grown(x, size, to) : to \in ReallocTargets(mp[x].dp)}

Growths(x, size) ==
  IF size < 0 THEN {Refused(x, "VAL")}
  ELSE IF size <= mp[x].alloc THEN {Kept(x)}
  ELSE IF size > MP_MAX_DIGIT_COUNT THEN {Refused(x, "OVF")}
  ELSE {Refused(x, "MEM")} \cup {Grown(x, size, to) : to \in ReallocTargets(mp[x].dp)}

(* x is left with the block of a growth g holding the given digits.        *)
Store(x, g, used, sign, digit) ==
  /\ heap' = MoveBlock(heap, mp[x].dp, g.dp, [g.block EXCEPT !.digit = digit])
  /\ mp' = [mp EXCEPT ![x] = [used |-> used, alloc |-> g.block.size, sign |-> sign, dp |-> g.dp]]
  /\ err' = "OKAY"
  /\ UNCHANGED ready

(* Mutated: alloc is set before MP_REALLOC is known to have succeeded.     *)
Mut_mp_grow(x, size) ==
  /\ x \in ready
  /\ \E g \in Growths(x, size) :
       \/ /\ g.code # "OKAY" /\ err' = g.code
          /\ mp' = [mp EXCEPT ![x].alloc = size]
          /\ UNCHANGED << heap, ready >>
       \/ g.code = "OKAY" /\ Store(x, g, mp[x].used, mp[x].sign, g.block.digit)

mp_grow(x, size) ==
  /\ x \in ready
  /\ \E g \in Growths(x, size) :
       \/ g.code # "OKAY" /\ Fail(g.code)
       \/ g.code = "OKAY" /\ Store(x, g, mp[x].used, mp[x].sign, g.block.digit)

mp_shrink(x) ==
  /\ x \in ready
  /\ LET alloc == MaxOf(MP_MIN_DIGIT_COUNT, mp[x].used)
     IN  \/ /\ mp[x].alloc = alloc
            /\ err' = "OKAY"
            /\ UNCHANGED << mp, heap, ready >>
         \/ /\ mp[x].alloc # alloc
            /\ \/ Fail("MEM")
               \/ \E to \in ReallocTargets(mp[x].dp) :
                    LET block == Resized(Dp(x), alloc, MP_DIGIT_MAX)
                    IN  Store(x, [dp |-> to, block |-> block],
                              mp[x].used, mp[x].sign, block.digit)

mp_exch(a, b) ==
  /\ a \in ready /\ b \in ready
  /\ mp' = [mp EXCEPT ![a] = mp[b], ![b] = mp[a]]
  /\ err' = "OKAY"
  /\ UNCHANGED << heap, ready >>

(* Mutated: the digits the destination had above are not cleared.          *)
Mut_CopiedDigits(from, n, block, oldused) ==
  [i \in Places |-> IF i < n THEN from.digit[i] ELSE block.digit[i]]

(* s_mp_copy_digs of the digits of a, then s_mp_zero_digs up to the used   *)
(* count the destination had.                                              *)
CopiedDigits(from, n, block, oldused) ==
  [i \in Places |-> IF i < n THEN from.digit[i]
                    ELSE IF i < oldused THEN 0 ELSE block.digit[i]]

(* mp_copy(a, b) and the sign the caller then gives b.                     *)
CopyWithSign(a, b, sign) ==
  /\ a \in ready /\ b \in ready
  /\ \/ a = b /\ Store(b, Kept(b), mp[b].used, sign, Dp(b).digit)
     \/ /\ a # b
        /\ \E g \in Growths(b, mp[a].used) :
             \/ g.code # "OKAY" /\ Fail(g.code)
             \/ /\ g.code = "OKAY"
                /\ Store(b, g, mp[a].used, sign,
                         CopiedDigits(Dp(a), mp[a].used, g.block, mp[b].used))

(* Mutated: the sign is not copied; a zero is negated.                     *)
Mut_mp_copy(a, b) == CopyWithSign(a, b, mp[b].sign)
Mut_mp_neg(a, b) == CopyWithSign(a, b, IF ~ isneg(a) THEN MP_NEG ELSE MP_ZPOS)

mp_copy(a, b) == CopyWithSign(a, b, mp[a].sign)

mp_abs(a, b) == CopyWithSign(a, b, MP_ZPOS)

mp_neg(a, b) ==
  CopyWithSign(a, b, IF ~ iszero(a) /\ ~ isneg(a) THEN MP_NEG ELSE MP_ZPOS)

(* mp_init_size for the digits of b, then mp_copy, which has the room it   *)
(* needs: the only failures are those of the initialisation.               *)
mp_init_copy(a, b) ==
  /\ Uninitialised(a)
  /\ b \in ready
  /\ LET n == MaxOf(MP_MIN_DIGIT_COUNT, mp[b].used)
     IN  \/ AllocFails(a)
         \/ \E to \in Blocks :
              /\ IsFree(to)
              /\ heap' = [heap EXCEPT ![to] =
                           [Zeroed(n) EXCEPT !.digit = CopiedDigits(Dp(b), mp[b].used, Zeroed(n), 0)]]
              /\ mp' = [mp EXCEPT ![a] = [used |-> mp[b].used, alloc |-> n,
                                           sign |-> mp[b].sign, dp |-> to]]
              /\ ready' = ready \cup {a}
              /\ err' = "OKAY"

mp_zero(a) ==
  /\ a \in ready
  /\ Store(a, Kept(a), 0, MP_ZPOS, ZeroDigs(Dp(a), 0, mp[a].used).digit)

mp_set(a, d) ==
  /\ a \in ready
  /\ LET used == IF d # 0 THEN 1 ELSE 0
         set == [Dp(a) EXCEPT !.digit[0] = d]
     IN  Store(a, Kept(a), used, MP_ZPOS, ZeroDigs(set, used, mp[a].used - used).digit)

(* The digits move up by n places, the lowest n become zero.               *)
mp_lshd(a, n) ==
  /\ a \in ready
  /\ \/ /\ n <= 0 \/ iszero(a)
        /\ err' = "OKAY"
        /\ UNCHANGED << mp, heap, ready >>
     \/ /\ n > 0 /\ ~ iszero(a)
        /\ \E g \in Growths(a, mp[a].used + n) :
             \/ g.code # "OKAY" /\ Fail(g.code)
             \/ /\ g.code = "OKAY"
                /\ Store(a, g, mp[a].used + n, mp[a].sign,
                         [i \in Places |-> IF i < n THEN 0
                                           ELSE IF i < mp[a].used + n THEN g.block.digit[i - n]
                                           ELSE g.block.digit[i]])

(* The digits move down by n places; the n places above them become zero.  *)
mp_rshd(a, n) ==
  /\ a \in ready
  /\ \/ n <= 0 /\ err' = "OKAY" /\ UNCHANGED << mp, heap, ready >>
     \/ n > 0 /\ mp[a].used <= n /\ mp_zero(a)
     \/ /\ n > 0 /\ mp[a].used > n
        /\ LET left == mp[a].used - n
               slid == [Dp(a) EXCEPT !.digit = [i \in Places |-> IF i < left THEN @[i + n] ELSE @[i]]]
           IN  Store(a, Kept(a), left, mp[a].sign, ZeroDigs(slid, left, n).digit)

-----------------------------------------------------------------------------
Init ==
  /\ mp = [x \in Ints |-> [used |-> 0, alloc |-> 0, sign |-> MP_ZPOS, dp |-> GARBAGE]]
  /\ heap = [b \in Blocks |-> FreeBlock]
  /\ ready = {}
  /\ err = "OKAY"

Next ==
  \/ \E a \in Ints : mp_init(a) \/ mp_clear(a) \/ mp_shrink(a) \/ mp_zero(a)
  \/ \E a \in Ints, n \in -1 .. MP_MAX_DIGIT_COUNT + 1 : mp_init_size(a, n) \/ mp_grow(a, n)
  \/ \E a, b \in Ints : a # b /\ mp_init_multi(<< a, b >>)
  \/ \E X \in SUBSET Ints : mp_clear_multi(X)
  \/ \E a, b \in Ints :
       mp_init_copy(a, b) \/ mp_exch(a, b) \/ mp_copy(a, b) \/ mp_abs(a, b) \/ mp_neg(a, b)
  \/ \E a \in Ints, d \in Digits : mp_set(a, d)
  \/ \E a \in Ints, n \in 0 .. MaxShift : mp_lshd(a, n) \/ mp_rshd(a, n)

Spec == Init /\ [][Next]_vars

-----------------------------------------------------------------------------
(* Every member and every block has its type.                              *)
TypeOK ==
  /\ mp \in [Ints -> [used : Counts, alloc : Counts, sign : Signs,
                      dp : Blocks \cup {NULL, GARBAGE}]]
  /\ heap \in [Blocks -> [size : Counts, digit : [Places -> Digits]]]
  /\ ready \in SUBSET Ints
  /\ err \in Codes

(* The blocks in use and the structures a client may use correspond one to *)
(* one, and a structure knows the size of its block: no block is leaked,   *)
(* shared or freed under a structure, through any sequence of failed       *)
(* initialisations, moves by mp_grow and mp_shrink, and exchanges.         *)
Ownership ==
  /\ \A x \in ready : mp[x].dp \in Blocks /\ mp[x].alloc = heap[mp[x].dp].size
  /\ \A x \in ready : mp[x].alloc >= MP_MIN_DIGIT_COUNT
  /\ \A x \in Ints \ ready : mp[x].dp \notin Blocks
  /\ \A x, y \in ready : mp[x].dp = mp[y].dp => x = y
  /\ \A b \in Blocks : heap[b].size # 0 => \E x \in ready : mp[x].dp = b

(* The digits of an mp_int above its used count are zero.  mp_cmp_d,       *)
(* mp_add_d and mp_sub_d read dp[0] of a zero, and mp_montgomery_reduce    *)
(* raises used without clearing, so they rely on it.                       *)
ExcessZero ==
  \A x \in ready : \A i \in Places :
    mp[x].used <= i /\ i < mp[x].alloc => Dp(x).digit[i] = 0

(* The leading digit of an mp_int is not zero and zero is not negative:    *)
(* mp_cmp and mp_cmp_mag decide by sign and by used before any digit.      *)
Canonical ==
  \A x \in ready :
    /\ mp[x].used <= mp[x].alloc
    /\ mp[x].used > 0 => Dp(x).digit[mp[x].used - 1] # 0
    /\ mp[x].used = 0 => mp[x].sign = MP_ZPOS

(* A call that fails leaves every usable mp_int and the heap as they were, *)
(* whatever it had allocated before the failure.                           *)
FailureChangesNothing ==
  [][err' # "OKAY" =>
       /\ ready' = ready
       /\ heap' = heap
       /\ \A x \in ready : mp'[x] = mp[x]]_vars

-----------------------------------------------------------------------------
(* The value each structure holds, as the client sees it.                  *)
Absent == [neg |-> TRUE, mag |-> << >>]   \* negative zero: no mp_int holds it

ValueOf(x) ==
  [neg |-> isneg(x), mag |-> [i \in 1 .. mp[x].used |-> Dp(x).digit[i - 1]]]

valuation == [x \in Ints |-> IF x \in ready THEN ValueOf(x) ELSE Absent]

Values == INSTANCE MpValues WITH val <- valuation

(* Every call acts on the values as the abstract operation says: only its  *)
(* destination changes, a move of a block changes none, and a failed call  *)
(* is a stutter.                                                           *)
ImplementsValues == Values!Spec
=============================================================================
