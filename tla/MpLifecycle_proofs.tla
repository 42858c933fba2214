------------------------- MODULE MpLifecycle_proofs -------------------------
(***************************************************************************)
(* Proofs about MpLifecycle, for any number of structures and blocks and   *)
(* any digit counts.  The inductive invariant is the conjunction of the    *)
(* four invariants the runs check: mp_copy and mp_lshd keep the excess     *)
(* digits zero only because used is within alloc (Canonical) and alloc is  *)
(* the size of the block (Ownership), and every write to a block leaves    *)
(* the other structures alone only because blocks are not shared.  The     *)
(* second half shows that MpLifecycle implements MpValues.                 *)
(***************************************************************************)
EXTENDS MpLifecycle, SequenceTheorems, TLAPS

Inv == TypeOK /\ Ownership /\ ExcessZero /\ Canonical

Members == [used : Counts, alloc : Counts, sign : Signs, dp : Blocks \cup {NULL, GARBAGE}]
Block == [size : Counts, digit : [Places -> Digits]]

(* What the caller of Store must have established for Inv to survive: the  *)
(* place is the structure's own or free, the digits fit, and the number is *)
(* well formed in them.                                                    *)
Storable(x, g, used, sign, digit) ==
  /\ g.dp \in ReallocTargets(mp[x].dp)
  /\ g.block \in Block
  /\ g.block.size >= MP_MIN_DIGIT_COUNT
  /\ used \in 0 .. g.block.size
  /\ sign \in Signs
  /\ digit \in [Places -> Digits]
  /\ \A i \in Places : used <= i /\ i < g.block.size => digit[i] = 0
  /\ used > 0 => digit[used - 1] # 0
  /\ used = 0 => sign = MP_ZPOS

LEMMA Constants ==
  /\ MP_DIGIT_MAX \in Nat /\ MP_DIGIT_MAX > 0
  /\ MP_MIN_DIGIT_COUNT \in Nat /\ MP_MIN_DIGIT_COUNT >= 3
  /\ MP_DEFAULT_DIGIT_COUNT \in Nat /\ MP_DEFAULT_DIGIT_COUNT >= MP_MIN_DIGIT_COUNT
  /\ MP_MAX_DIGIT_COUNT \in Nat /\ MP_MAX_DIGIT_COUNT >= MP_DEFAULT_DIGIT_COUNT
BY DigitMaxAssumption, DigitCountAssumption

(* Facts about the structures in use, drawn from Inv.                      *)
LEMMA ReadyFacts ==
  ASSUME Inv, NEW x \in ready
  PROVE  /\ x \in Ints /\ mp[x] \in Members /\ mp[x].dp \in Blocks
         /\ Dp(x) \in Block /\ mp[x].alloc = Dp(x).size
         /\ mp[x].alloc \in Counts /\ mp[x].alloc >= MP_MIN_DIGIT_COUNT
         /\ mp[x].used \in 0 .. mp[x].alloc /\ mp[x].sign \in Signs
         /\ Dp(x).digit \in [Places -> Digits]
         /\ \A i \in Places : mp[x].used <= i /\ i < mp[x].alloc => Dp(x).digit[i] = 0
         /\ mp[x].used > 0 => Dp(x).digit[mp[x].used - 1] # 0
         /\ mp[x].used = 0 => mp[x].sign = MP_ZPOS
<1>1. x \in Ints /\ mp[x] \in Members
  BY DEF Inv, TypeOK, Members
<1>2. mp[x].dp \in Blocks /\ mp[x].alloc = Dp(x).size /\ mp[x].alloc >= MP_MIN_DIGIT_COUNT
  BY DEF Inv, Ownership, Dp
<1>3. Dp(x) \in Block
  BY <1>2 DEF Inv, TypeOK, Block, Dp
<1>4. /\ mp[x].used <= mp[x].alloc
      /\ mp[x].used > 0 => Dp(x).digit[mp[x].used - 1] # 0
      /\ mp[x].used = 0 => mp[x].sign = MP_ZPOS
      /\ \A i \in Places : mp[x].used <= i /\ i < mp[x].alloc => Dp(x).digit[i] = 0
  BY DEF Inv, Canonical, ExcessZero
<1>. QED
  BY <1>1, <1>2, <1>3, <1>4, Constants DEF Members, Block, Counts

LEMMA StoreKeepsInv ==
  ASSUME Inv, NEW x \in ready, NEW g, NEW used, NEW sign, NEW digit,
         Storable(x, g, used, sign, digit), Store(x, g, used, sign, digit)
  PROVE  Inv'
<1>. DEFINE new == [g.block EXCEPT !.digit = digit]
            rec == [used |-> used, alloc |-> g.block.size, sign |-> sign, dp |-> g.dp]
<1>1. x \in Ints /\ mp[x].dp \in Blocks /\ mp \in [Ints -> Members] /\ heap \in [Blocks -> Block]
  BY ReadyFacts DEF Inv, TypeOK, Members, Block
<1>2. /\ g.dp \in Blocks /\ (g.dp = mp[x].dp \/ heap[g.dp].size = 0)
      /\ g.block.size \in Counts /\ g.block.size >= MP_MIN_DIGIT_COUNT
      /\ used \in 0 .. g.block.size /\ sign \in Signs /\ digit \in [Places -> Digits]
  BY <1>1 DEF Storable, ReallocTargets, IsFree, Block
<1>3. new \in Block /\ new.size = g.block.size /\ new.digit = digit
  BY <1>2 DEF Storable, Block
<1>4. rec \in Members
  BY <1>2, Constants DEF Members, Counts
<1>5. /\ mp' = [mp EXCEPT ![x] = rec] /\ ready' = ready /\ err' = "OKAY"
      /\ heap' = [b \in Blocks |-> IF b = g.dp THEN new
                                   ELSE IF b = mp[x].dp THEN FreeBlock ELSE heap[b]]
  BY DEF Store, MoveBlock
<1>6. FreeBlock \in Block
  BY Constants DEF FreeBlock, Block, NoDigits, Digits, Counts
<1>7. mp'[x] = rec /\ \A y \in Ints : y # x => mp'[y] = mp[y]
  BY <1>1, <1>5
<1>8. heap'[g.dp] = new
  BY <1>2, <1>5
<1>. HIDE DEF new, rec
<1>9. ASSUME NEW y \in ready, y # x
      PROVE  /\ mp[y].dp \in Blocks /\ mp[y].dp # g.dp /\ mp[y].dp # mp[x].dp
             /\ heap'[mp[y].dp] = heap[mp[y].dp] /\ mp'[y] = mp[y]
  <2>1. y \in Ints /\ mp[y].dp \in Blocks /\ heap[mp[y].dp].size >= MP_MIN_DIGIT_COUNT
    BY ReadyFacts DEF Dp
  <2>2. mp[y].dp # mp[x].dp
    BY <1>9 DEF Inv, Ownership
  <2>3. mp[y].dp # g.dp
    BY <2>1, <2>2, <1>2, Constants
  <2>. QED
    BY <2>1, <2>2, <2>3, <1>5, <1>7, <1>9
<1>10. TypeOK'
  BY <1>1, <1>3, <1>4, <1>5, <1>6 DEF Inv, TypeOK, Members, Block, Codes
<1>11. rec.dp = g.dp /\ rec.alloc = new.size /\ rec.used = used /\ rec.sign = sign
       /\ new.size = g.block.size
  BY <1>3 DEF rec
<1>12. Ownership'
  <2>1. \A y \in ready : mp'[y].dp \in Blocks /\ mp'[y].alloc = heap'[mp'[y].dp].size
                         /\ mp'[y].alloc >= MP_MIN_DIGIT_COUNT
    BY <1>2, <1>7, <1>8, <1>9, <1>11 DEF Inv, Ownership
  <2>2. \A y \in Ints \ ready : mp'[y].dp \notin Blocks
    BY <1>7 DEF Inv, Ownership
  <2>3. \A y, z \in ready : mp'[y].dp = mp'[z].dp => y = z
    BY <1>7, <1>9, <1>11 DEF Inv, Ownership
  <2>4. ASSUME NEW b \in Blocks, heap'[b].size # 0 PROVE \E y \in ready : mp'[y].dp = b
    <3>1. CASE b = g.dp
      BY <3>1, <1>7, <1>11
    <3>2. CASE b # g.dp
      <4>1. b # mp[x].dp /\ heap[b].size # 0
        BY <3>2, <2>4, <1>5 DEF FreeBlock
      <4>2. PICK y \in ready : mp[y].dp = b
        BY <4>1 DEF Inv, Ownership
      <4>. QED
        BY <4>1, <4>2, <1>9
    <3>. QED
      BY <3>1, <3>2
  <2>. QED
    BY <2>1, <2>2, <2>3, <2>4, <1>5 DEF Ownership
<1>13. ExcessZero'
  <2>1. ASSUME NEW y \in ready, NEW i \in Places, mp'[y].used <= i, i < mp'[y].alloc
        PROVE  heap'[mp'[y].dp].digit[i] = 0
    <3>1. CASE y = x
      BY <3>1, <2>1, <1>3, <1>7, <1>8, <1>11 DEF Storable
    <3>2. CASE y # x
      BY <3>2, <2>1, <1>9 DEF Inv, ExcessZero, Dp
    <3>. QED
      BY <3>1, <3>2
  <2>. QED
    BY <2>1, <1>5 DEF ExcessZero, Dp
<1>14. Canonical'
  <2>1. ASSUME NEW y \in ready
        PROVE  /\ mp'[y].used <= mp'[y].alloc
               /\ mp'[y].used > 0 => heap'[mp'[y].dp].digit[mp'[y].used - 1] # 0
               /\ mp'[y].used = 0 => mp'[y].sign = MP_ZPOS
    <3>1. CASE y = x
      BY <3>1, <1>2, <1>3, <1>7, <1>8, <1>11 DEF Storable
    <3>2. CASE y # x
      BY <3>2, <1>9 DEF Inv, Canonical, Dp
    <3>. QED
      BY <3>1, <3>2
  <2>. QED
    BY <2>1, <1>5 DEF Canonical, Dp
<1>. QED
  BY <1>10, <1>12, <1>13, <1>14 DEF Inv

-----------------------------------------------------------------------------
(* What a growth that succeeds gives: room for size digits, those below    *)
(* the old alloc kept, those between it and size cleared.                  *)
LEMMA GrowthFacts ==
  ASSUME Inv, NEW x \in ready, NEW size \in Int, NEW g \in Growths(x, size), g.code = "OKAY"
  PROVE  /\ g.dp \in ReallocTargets(mp[x].dp)
         /\ g.block \in Block
         /\ g.block.size >= size /\ g.block.size >= mp[x].alloc
         /\ \A i \in Places : i < mp[x].alloc => g.block.digit[i] = Dp(x).digit[i]
         /\ \A i \in Places : mp[x].alloc <= i /\ i < g.block.size => g.block.digit[i] = 0
<1>1. /\ mp[x].dp \in Blocks /\ Dp(x) \in Block /\ mp[x].alloc = Dp(x).size
      /\ mp[x].alloc \in Nat /\ mp[x].alloc \in Counts
  BY ReadyFacts, Constants DEF Counts
<1>2. \A code : Refused(x, code).code = code
  BY DEF Refused, Kept
<1>3. CASE size <= mp[x].alloc
  <2>1. g = Kept(x)
    BY <1>1, <1>2, <1>3 DEF Growths
  <2>2. g.dp = mp[x].dp /\ g.block = Dp(x)
    BY <2>1 DEF Kept
  <2>. QED
    <3>1. g.block \in Block /\ g.block.size = mp[x].alloc /\ g.dp \in ReallocTargets(mp[x].dp)
      BY <1>1, <2>2 DEF ReallocTargets
    <3>2. \A i \in Places : ~ (mp[x].alloc <= i /\ i < mp[x].alloc)
      BY <1>1, Constants DEF Places
    <3>. QED
      BY <1>1, <1>3, <2>2, <3>1, <3>2
<1>4. CASE size > mp[x].alloc
  <2>0. size <= MP_MAX_DIGIT_COUNT /\ size \in Counts
    BY <1>1, <1>2, <1>4, Constants DEF Growths, Counts
  <2>1. PICK to \in ReallocTargets(mp[x].dp) : g = Grown(x, size, to)
    BY <1>1, <1>2, <1>4 DEF Growths
  <2>. DEFINE raw == Resized(Dp(x), size, MP_DIGIT_MAX)
              d == [i \in Places |-> IF mp[x].alloc <= i /\ i < mp[x].alloc + (size - mp[x].alloc)
                                       THEN 0 ELSE raw.digit[i]]
  <2>2. /\ raw.size = size
        /\ raw.digit = [i \in Places |-> IF i >= size THEN 0
                          ELSE IF i < Dp(x).size THEN Dp(x).digit[i] ELSE MP_DIGIT_MAX]
        /\ raw = [size |-> raw.size, digit |-> raw.digit]
    BY DEF Resized
  <2>. HIDE DEF raw
  <2>3. g.dp = to /\ g.block = [raw EXCEPT !.digit = d]
    BY <2>1 DEF Grown, ZeroDigs, raw
  <2>4. g.block = [size |-> size, digit |-> d]
    BY <2>2, <2>3
  <2>5. raw.digit \in [Places -> Digits]
    BY <1>1, <2>2, Constants DEF Block, Digits
  <2>6. d \in [Places -> Digits]
    BY <2>5, Constants DEF Digits
  <2>7. g.block.size = size /\ g.block.digit = d /\ g.block \in Block
    BY <2>0, <2>4, <2>6 DEF Block
  <2>8. ASSUME NEW i \in Places, i < mp[x].alloc
        PROVE  d[i] = Dp(x).digit[i]
    BY <1>1, <1>4, <2>8, <2>2, Constants DEF Places
  <2>9. ASSUME NEW i \in Places, mp[x].alloc <= i, i < size
        PROVE  d[i] = 0
    BY <1>1, <2>9, <2>2, Constants DEF Places, Counts
  <2>. HIDE DEF d
  <2>. QED
    BY <1>1, <1>4, <2>3, <2>7, <2>8, <2>9, Constants DEF Counts
<1>. QED
  BY <1>1, <1>3, <1>4, Constants DEF Counts

LEMMA GrowthCodes ==
  ASSUME NEW x, NEW size \in Int, NEW g \in Growths(x, size)
  PROVE  g.code \in Codes
<1>1. \A code : Refused(x, code).code = code
  BY DEF Refused, Kept
<1>. QED
  BY <1>1 DEF Growths, Kept, Grown, Codes

-----------------------------------------------------------------------------
(* Steps that write nothing but the returned code.                         *)
LEMMA CodeKeepsInv ==
  ASSUME Inv, err' \in Codes, UNCHANGED << mp, heap, ready >>
  PROVE  Inv'
BY DEF Inv, TypeOK, Ownership, ExcessZero, Canonical, Dp

(* A structure becomes usable with a block that was free.                  *)
Startable(a, b, block, rec) ==
  /\ a \in Ints \ ready
  /\ b \in Blocks /\ IsFree(b)
  /\ block \in Block /\ rec \in Members
  /\ block.size >= MP_MIN_DIGIT_COUNT
  /\ rec.dp = b /\ rec.alloc = block.size
  /\ rec.used <= rec.alloc
  /\ rec.used > 0 => block.digit[rec.used - 1] # 0
  /\ rec.used = 0 => rec.sign = MP_ZPOS
  /\ \A i \in Places : rec.used <= i /\ i < rec.alloc => block.digit[i] = 0

Start(a, b, block, rec) ==
  /\ heap' = [heap EXCEPT ![b] = block]
  /\ mp' = [mp EXCEPT ![a] = rec]
  /\ ready' = ready \cup {a}
  /\ err' = "OKAY"

LEMMA StartKeepsInv ==
  ASSUME Inv, NEW a, NEW b, NEW block, NEW rec,
         Startable(a, b, block, rec), Start(a, b, block, rec)
  PROVE  Inv'
<1>. USE DEF Startable, Start
<1>1. mp \in [Ints -> Members] /\ heap \in [Blocks -> Block] /\ ready \subseteq Ints
  BY DEF Inv, TypeOK, Members, Block
<1>2. mp'[a] = rec /\ heap'[b] = block
  BY <1>1
<1>3. ASSUME NEW y \in ready
      PROVE  /\ y # a /\ mp'[y] = mp[y] /\ mp[y].dp \in Blocks /\ mp[y].dp # b
             /\ heap'[mp[y].dp] = heap[mp[y].dp]
  <2>1. heap[mp[y].dp].size >= MP_MIN_DIGIT_COUNT /\ mp[y].dp \in Blocks /\ y \in Ints
    BY ReadyFacts DEF Dp
  <2>2. heap[b].size = 0
    BY DEF IsFree
  <2>. QED
    BY <1>1, <2>1, <2>2, Constants
<1>4. TypeOK'
  BY <1>1 DEF Inv, TypeOK, Members, Block, Codes
<1>5. Ownership'
  <2>1. \A y \in ready' : mp'[y].dp \in Blocks /\ mp'[y].alloc = heap'[mp'[y].dp].size
                         /\ mp'[y].alloc >= MP_MIN_DIGIT_COUNT
    BY <1>2, <1>3 DEF Inv, Ownership
  <2>2. \A y \in Ints \ ready' : mp'[y].dp \notin Blocks
    BY <1>1 DEF Inv, Ownership
  <2>3. \A y, z \in ready' : mp'[y].dp = mp'[z].dp => y = z
    BY <1>2, <1>3 DEF Inv, Ownership
  <2>4. \A c \in Blocks : heap'[c].size # 0 => \E y \in ready' : mp'[y].dp = c
    BY <1>1, <1>2, <1>3 DEF Inv, Ownership
  <2>. QED
    BY <2>1, <2>2, <2>3, <2>4 DEF Ownership
<1>6. ExcessZero'
  BY <1>2, <1>3 DEF Inv, ExcessZero, Dp
<1>7. Canonical'
  BY <1>2, <1>3 DEF Inv, Canonical, Dp
<1>. QED
  BY <1>4, <1>5, <1>6, <1>7 DEF Inv

LEMMA AllocFailsKeepsInv ==
  ASSUME Inv, NEW a \in Ints, a \notin ready, AllocFails(a)
  PROVE  Inv'
<1>1. mp' = [mp EXCEPT ![a] = [mp[a] EXCEPT !.dp = NULL]] /\ heap' = heap /\ ready' = ready
  BY DEF AllocFails
<1>2. mp \in [Ints -> Members] /\ ready \subseteq Ints
  BY DEF Inv, TypeOK, Members
<1>3. [mp[a] EXCEPT !.dp = NULL] \in Members /\ [mp[a] EXCEPT !.dp = NULL].dp = NULL
  BY <1>2 DEF Members
<1>4. mp'[a].dp = NULL /\ \A y \in ready : mp'[y] = mp[y]
  BY <1>1, <1>2, <1>3
<1>5. TypeOK'
  BY <1>1, <1>2, <1>3 DEF Inv, TypeOK, Members, AllocFails, Codes
<1>6. Ownership'
  BY <1>1, <1>2, <1>4, PointersDiffer DEF Inv, Ownership
<1>. QED
  BY <1>1, <1>4, <1>5, <1>6 DEF Inv, ExcessZero, Canonical, Dp

LEMMA AllocSucceedsKeepsInv ==
  ASSUME Inv, NEW a \in Ints, a \notin ready, NEW n \in Counts, n >= MP_MIN_DIGIT_COUNT,
         AllocSucceeds(a, n)
  PROVE  Inv'
<1>1. PICK b \in Blocks : /\ IsFree(b)
                          /\ heap' = [heap EXCEPT ![b] = Zeroed(n)]
                          /\ mp' = [mp EXCEPT ![a] = Fresh(b, n)]
                          /\ ready' = ready \cup {a}
                          /\ err' = "OKAY"
  BY DEF AllocSucceeds
<1>2. /\ Zeroed(n) \in Block /\ Zeroed(n).size = n
      /\ \A i \in Places : Zeroed(n).digit[i] = 0
  BY Constants DEF Zeroed, Block, NoDigits, Digits
<1>3. /\ Fresh(b, n) \in Members /\ Fresh(b, n).dp = b /\ Fresh(b, n).alloc = n
      /\ Fresh(b, n).used = 0 /\ Fresh(b, n).sign = MP_ZPOS
  BY Constants DEF Fresh, Members, Counts, Signs
<1>4. Startable(a, b, Zeroed(n), Fresh(b, n))
  BY <1>1, <1>2, <1>3, Constants DEF Startable, Counts
<1>5. Start(a, b, Zeroed(n), Fresh(b, n))
  BY <1>1 DEF Start
<1>. QED
  BY <1>4, <1>5, StartKeepsInv

-----------------------------------------------------------------------------
(* One lemma per operation.                                                *)
LEMMA InitKeepsInv ==
  ASSUME Inv, NEW a \in Ints, mp_init(a)
  PROVE  Inv'
<1>1. MP_DEFAULT_DIGIT_COUNT \in Counts /\ MP_DEFAULT_DIGIT_COUNT >= MP_MIN_DIGIT_COUNT
  BY Constants DEF Counts
<1>. QED
  BY <1>1, AllocFailsKeepsInv, AllocSucceedsKeepsInv DEF mp_init, Uninitialised

LEMMA InitSizeKeepsInv ==
  ASSUME Inv, NEW a \in Ints, NEW size \in Int, mp_init_size(a, size)
  PROVE  Inv'
<1>. DEFINE n == MaxOf(MP_MIN_DIGIT_COUNT, size)
<1>1. CASE Fail("VAL") \/ Fail("OVF")
  BY <1>1, CodeKeepsInv DEF Fail, Codes
<1>2. CASE n <= MP_MAX_DIGIT_COUNT /\ (AllocFails(a) \/ AllocSucceeds(a, n))
  <2>1. n \in Counts /\ n >= MP_MIN_DIGIT_COUNT /\ a \notin ready
    BY <1>2, Constants DEF MaxOf, Counts, mp_init_size, Uninitialised
  <2>. QED
    BY <1>2, <2>1, AllocFailsKeepsInv, AllocSucceedsKeepsInv
<1>. QED
  BY <1>1, <1>2 DEF mp_init_size

(* The structures of X lose their blocks.                                  *)
LEMMA ClearMultiKeepsInv ==
  ASSUME Inv, NEW X \in SUBSET Ints, mp_clear_multi(X)
  PROVE  Inv'
<1>. DEFINE gone == {mp[x].dp : x \in X} \ {NULL}
<1>1. /\ mp \in [Ints -> Members] /\ heap \in [Blocks -> Block] /\ ready \subseteq Ints
  BY DEF Inv, TypeOK, Members, Block
<1>2. /\ heap' = [b \in Blocks |-> IF b \in gone THEN FreeBlock ELSE heap[b]]
      /\ mp' = [x \in Ints |-> IF x \in X /\ mp[x].dp # NULL THEN Cleared ELSE mp[x]]
      /\ ready' = ready \ X /\ err' = "OKAY"
  BY DEF mp_clear_multi
<1>3. FreeBlock \in Block /\ FreeBlock.size = 0
  BY Constants DEF FreeBlock, Block, NoDigits, Digits, Counts
<1>4. Cleared \in Members /\ Cleared.dp = NULL
  BY Constants DEF Cleared, Members, Counts, Signs
<1>5. ASSUME NEW y \in ready \ X
      PROVE  /\ mp[y].dp \in Blocks /\ mp[y].dp \notin gone /\ mp'[y] = mp[y]
             /\ heap'[mp[y].dp] = heap[mp[y].dp]
  <2>1. mp[y].dp \in Blocks /\ y \in Ints
    BY ReadyFacts
  <2>2. \A x \in X : mp[x].dp # mp[y].dp
    BY <1>5, <2>1 DEF Inv, Ownership
  <2>. QED
    BY <1>2, <2>1, <2>2
<1>6. \A x \in X : mp'[x].dp \notin Blocks
  BY <1>2, <1>4, PointersDiffer
<1>. HIDE DEF gone
<1>7. TypeOK'
  BY <1>1, <1>2, <1>3, <1>4 DEF Inv, TypeOK, Members, Block, Codes
<1>8. Ownership'
  <2>1. \A y \in ready' : mp'[y].dp \in Blocks /\ mp'[y].alloc = heap'[mp'[y].dp].size
                         /\ mp'[y].alloc >= MP_MIN_DIGIT_COUNT
    BY <1>2, <1>5 DEF Inv, Ownership
  <2>2. \A y \in Ints \ ready' : mp'[y].dp \notin Blocks
    <3>1. ASSUME NEW y \in Ints \ ready', y \notin X PROVE mp'[y].dp \notin Blocks
      BY <1>2, <3>1 DEF Inv, Ownership
    <3>. QED
      BY <1>6, <3>1
  <2>3. \A y, z \in ready' : mp'[y].dp = mp'[z].dp => y = z
    BY <1>2, <1>5 DEF Inv, Ownership
  <2>4. ASSUME NEW b \in Blocks, heap'[b].size # 0 PROVE \E y \in ready' : mp'[y].dp = b
    <3>1. b \notin gone /\ heap[b].size # 0
      BY <2>4, <1>2, <1>3
    <3>2. PICK y \in ready : mp[y].dp = b
      BY <3>1 DEF Inv, Ownership
    <3>3. y \notin X
      BY <3>1, <3>2, PointersDiffer DEF gone
    <3>. QED
      BY <3>2, <3>3, <1>2, <1>5
  <2>. QED
    BY <2>1, <2>2, <2>3, <2>4 DEF Ownership
<1>9. ExcessZero'
  BY <1>2, <1>5 DEF Inv, ExcessZero, Dp
<1>10. Canonical'
  BY <1>2, <1>5 DEF Inv, Canonical, Dp
<1>. QED
  BY <1>7, <1>8, <1>9, <1>10 DEF Inv

LEMMA ClearKeepsInv ==
  ASSUME Inv, NEW a \in Ints, mp_clear(a)
  PROVE  Inv'
<1>1. CASE mp[a].dp = NULL
  BY <1>1, CodeKeepsInv DEF mp_clear, Codes
<1>2. CASE mp[a].dp # NULL
  <2>1. mp \in [Ints -> Members] /\ heap \in [Blocks -> Block]
    BY DEF Inv, TypeOK, Members, Block
  <2>2. {mp[x].dp : x \in {a}} \ {NULL} = {mp[a].dp}
    BY <1>2
  <2>3. heap' = [b \in Blocks |-> IF b \in {mp[a].dp} THEN FreeBlock ELSE heap[b]]
    BY <1>2, <2>1 DEF mp_clear
  <2>4. mp' = [x \in Ints |-> IF x \in {a} /\ mp[x].dp # NULL THEN Cleared ELSE mp[x]]
    BY <1>2, <2>1 DEF mp_clear
  <2>5. mp_clear_multi({a})
    BY <1>2, <2>2, <2>3, <2>4 DEF mp_clear, mp_clear_multi
  <2>. QED
    BY <2>5, ClearMultiKeepsInv
<1>. QED
  BY <1>1, <1>2

LEMMA ExchKeepsInv ==
  ASSUME Inv, NEW a \in Ints, NEW b \in Ints, mp_exch(a, b)
  PROVE  Inv'
<1>1. mp \in [Ints -> Members] /\ a \in ready /\ b \in ready /\ ready \subseteq Ints
  BY DEF Inv, TypeOK, Members, mp_exch
<1>2. /\ mp' = [mp EXCEPT ![a] = mp[b], ![b] = mp[a]]
      /\ heap' = heap /\ ready' = ready /\ err' = "OKAY"
  BY DEF mp_exch
<1>. DEFINE other(y) == IF y = a THEN b ELSE IF y = b THEN a ELSE y
<1>3. \A y \in Ints : mp'[y] = mp[other(y)] /\ (other(y) \in ready <=> y \in ready)
  BY <1>1, <1>2
<1>4. \A y, z : other(y) = other(z) => y = z
  OBVIOUS
<1>5. \A y \in Ints : other(y) \in Ints /\ other(other(y)) = y
  OBVIOUS
<1>6. TypeOK'
  BY <1>1, <1>2 DEF Inv, TypeOK, Members, Codes
<1>. HIDE DEF other
<1>7. Ownership'
  <2>1. \A y \in ready : mp'[y].dp \in Blocks /\ mp'[y].alloc = heap[mp'[y].dp].size
                         /\ mp'[y].alloc >= MP_MIN_DIGIT_COUNT
    BY <1>1, <1>3 DEF Inv, Ownership
  <2>2. \A y \in Ints \ ready : mp'[y].dp \notin Blocks
    BY <1>3, <1>5 DEF Inv, Ownership
  <2>3. \A y, z \in ready : mp'[y].dp = mp'[z].dp => y = z
    BY <1>1, <1>3, <1>4 DEF Inv, Ownership
  <2>4. \A c \in Blocks : heap[c].size # 0 => \E y \in ready : mp'[y].dp = c
    <3>1. ASSUME NEW c \in Blocks, heap[c].size # 0 PROVE \E y \in ready : mp'[y].dp = c
      <4>1. PICK y \in ready : mp[y].dp = c
        BY <3>1 DEF Inv, Ownership
      <4>2. other(y) \in ready /\ mp'[other(y)] = mp[y]
        BY <1>1, <1>3, <1>5
      <4>. QED
        BY <4>1, <4>2
    <3>. QED
      BY <3>1
  <2>. QED
    <3>1. ready' = ready /\ heap' = heap
      BY <1>2
    <3>2. \A y \in ready : mp'[y].dp \in Blocks /\ mp'[y].alloc = heap[mp'[y].dp].size
      BY <2>1
    <3>3. \A y \in ready : mp'[y].alloc >= MP_MIN_DIGIT_COUNT
      BY <2>1
    <3>. QED
      BY <2>2, <2>3, <2>4, <3>1, <3>2, <3>3, Zenon DEF Ownership
<1>8. ExcessZero'
  BY <1>1, <1>2, <1>3 DEF Inv, ExcessZero, Dp
<1>9. Canonical'
  BY <1>1, <1>2, <1>3 DEF Inv, Canonical, Dp
<1>. QED
  BY <1>6, <1>7, <1>8, <1>9 DEF Inv

(* All of s are initialised, each in a block of its own, or none is.       *)
LEMMA InitMultiKeepsInv ==
  ASSUME Inv, NEW a \in Ints, NEW b \in Ints, a # b, mp_init_multi(<< a, b >>)
  PROVE  Inv'
<1>. DEFINE s == << a, b >>
<1>1. mp \in [Ints -> Members] /\ heap \in [Blocks -> Block] /\ ready \subseteq Ints
  BY DEF Inv, TypeOK, Members, Block
<1>2. DOMAIN s = {1, 2} /\ s[1] = a /\ s[2] = b
  OBVIOUS
<1>. HIDE DEF s
<1>3. a \notin ready /\ b \notin ready
  BY <1>2 DEF mp_init_multi, s, Uninitialised
<1>4. ASSUME NEW k \in DOMAIN s,
             mp' = [x \in Ints |-> IF \E j \in DOMAIN s : j < k /\ s[j] = x THEN Cleared
                                   ELSE IF x = s[k] THEN [mp[x] EXCEPT !.dp = NULL]
                                   ELSE mp[x]],
             err' = "MEM", UNCHANGED << heap, ready >>
      PROVE  Inv'
  <2>1. \A x \in Ints : x # a /\ x # b => mp'[x] = mp[x]
    BY <1>2, <1>4
  <2>2. Cleared \in Members /\ Cleared.dp = NULL
    BY Constants DEF Cleared, Members, Counts, Signs
  <2>3. \A x \in Ints : [mp[x] EXCEPT !.dp = NULL] \in Members /\ [mp[x] EXCEPT !.dp = NULL].dp = NULL
    BY <1>1 DEF Members
  <2>4. mp' \in [Ints -> Members] /\ \A x \in Ints : mp'[x] = mp[x] \/ mp'[x].dp = NULL
    BY <1>1, <1>4, <2>2, <2>3
  <2>5. \A x \in ready : mp'[x] = mp[x]
    BY <1>1, <1>3, <2>1
  <2>6. heap' = heap /\ ready' = ready /\ err' \in Codes
    BY <1>4 DEF Codes
  <2>7. TypeOK'
    BY <2>4, <2>6 DEF Inv, TypeOK, Members
  <2>8. Ownership'
    BY <2>4, <2>5, <2>6, PointersDiffer DEF Inv, Ownership
  <2>. QED
    BY <2>5, <2>6, <2>7, <2>8 DEF Inv, ExcessZero, Canonical, Dp
<1>5. ASSUME NEW at \in [DOMAIN s -> {c \in Blocks : IsFree(c)}],
             \A j, k \in DOMAIN s : j # k => at[j] # at[k],
             heap' = [c \in Blocks |-> IF \E k \in DOMAIN s : at[k] = c
                                         THEN Zeroed(MP_DEFAULT_DIGIT_COUNT) ELSE heap[c]],
             mp' = [x \in Ints |-> IF \E k \in DOMAIN s : s[k] = x
                                     THEN Fresh(at[CHOOSE k \in DOMAIN s : s[k] = x],
                                                MP_DEFAULT_DIGIT_COUNT)
                                     ELSE mp[x]],
             ready' = ready \cup {s[k] : k \in DOMAIN s},
             err' = "OKAY"
      PROVE  Inv'
  <2>. DEFINE n == MP_DEFAULT_DIGIT_COUNT
  <2>1. at[1] \in Blocks /\ at[2] \in Blocks /\ at[1] # at[2] /\ IsFree(at[1]) /\ IsFree(at[2])
    BY <1>2, <1>5
  <2>2. mp'[a] = Fresh(at[1], n) /\ mp'[b] = Fresh(at[2], n)
    <3>1. (CHOOSE k \in DOMAIN s : s[k] = a) = 1 /\ (CHOOSE k \in DOMAIN s : s[k] = b) = 2
      BY <1>2
    <3>. QED
      BY <1>2, <1>5, <3>1
  <2>3. heap'[at[1]] = Zeroed(n) /\ heap'[at[2]] = Zeroed(n)
    BY <1>2, <1>5, <2>1
  <2>4. ready' = ready \cup {a, b}
    BY <1>2, <1>5
  <2>5. /\ Zeroed(n) \in Block /\ Zeroed(n).size = n
        /\ \A i \in Places : Zeroed(n).digit[i] = 0
    BY Constants DEF Zeroed, Block, NoDigits, Digits, Counts
  <2>6. \A c \in Blocks : /\ Fresh(c, n) \in Members /\ Fresh(c, n).dp = c /\ Fresh(c, n).alloc = n
                          /\ Fresh(c, n).used = 0 /\ Fresh(c, n).sign = MP_ZPOS
    BY Constants DEF Fresh, Members, Counts, Signs
  <2>7. n \in Nat /\ n >= MP_MIN_DIGIT_COUNT
    BY Constants
  <2>8. ASSUME NEW y \in ready
        PROVE  /\ y # a /\ y # b /\ mp'[y] = mp[y] /\ mp[y].dp \in Blocks
               /\ mp[y].dp # at[1] /\ mp[y].dp # at[2] /\ heap'[mp[y].dp] = heap[mp[y].dp]
    <3>1. heap[mp[y].dp].size >= MP_MIN_DIGIT_COUNT /\ mp[y].dp \in Blocks /\ y \in Ints
      BY ReadyFacts DEF Dp
    <3>2. heap[at[1]].size = 0 /\ heap[at[2]].size = 0
      BY <2>1 DEF IsFree
    <3>. QED
      BY <1>2, <1>3, <1>5, <3>1, <3>2, Constants
  <2>9. TypeOK'
    <3>1. mp' \in [Ints -> Members]
      <4>1. ASSUME NEW x \in Ints PROVE mp'[x] \in Members
        <5>1. CASE x = a \/ x = b
          BY <5>1, <2>1, <2>2, <2>6
        <5>2. CASE x # a /\ x # b
          BY <5>2, <1>1, <1>2, <1>5
        <5>. QED
          BY <5>1, <5>2
      <4>. QED
        BY <4>1, <1>5
    <3>2. heap' \in [Blocks -> Block]
      BY <1>1, <1>5, <2>5
    <3>. QED
      BY <1>1, <1>5, <2>4, <3>1, <3>2 DEF TypeOK, Members, Block, Codes
  <2>. HIDE DEF n
  <2>10. Ownership'
    <3>1. \A y \in ready' : mp'[y].dp \in Blocks /\ mp'[y].alloc = heap'[mp'[y].dp].size
                           /\ mp'[y].alloc >= MP_MIN_DIGIT_COUNT
      BY <2>1, <2>2, <2>3, <2>4, <2>5, <2>6, <2>7, <2>8 DEF Inv, Ownership
    <3>2. \A y \in Ints \ ready' : mp'[y].dp \notin Blocks
      BY <1>2, <1>5, <2>4 DEF Inv, Ownership
    <3>3. \A y, z \in ready' : mp'[y].dp = mp'[z].dp => y = z
      BY <2>1, <2>2, <2>4, <2>6, <2>8 DEF Inv, Ownership
    <3>4. ASSUME NEW c \in Blocks, heap'[c].size # 0 PROVE \E y \in ready' : mp'[y].dp = c
      <4>1. CASE c = at[1] \/ c = at[2]
        BY <4>1, <2>1, <2>2, <2>4, <2>6
      <4>2. CASE c # at[1] /\ c # at[2]
        <5>1. heap[c].size # 0
          BY <4>2, <3>4, <1>2, <1>5
        <5>. QED
          BY <5>1, <2>4, <2>8 DEF Inv, Ownership
      <4>. QED
        BY <4>1, <4>2
    <3>. QED
      BY <3>1, <3>2, <3>3, <3>4 DEF Ownership
  <2>11. ExcessZero'
    BY <2>1, <2>2, <2>3, <2>4, <2>5, <2>6, <2>8 DEF Inv, ExcessZero, Dp
  <2>12. Canonical'
    BY <2>1, <2>2, <2>4, <2>6, <2>7, <2>8 DEF Inv, Canonical, Dp
  <2>. QED
    BY <2>9, <2>10, <2>11, <2>12 DEF Inv
<1>. QED
  BY <1>4, <1>5 DEF mp_init_multi, s

LEMMA InitCopyKeepsInv ==
  ASSUME Inv, NEW a \in Ints, NEW b \in Ints, mp_init_copy(a, b)
  PROVE  Inv'
<1>. DEFINE n == MaxOf(MP_MIN_DIGIT_COUNT, mp[b].used)
            d == CopiedDigits(Dp(b), mp[b].used, Zeroed(n), 0)
            block == [Zeroed(n) EXCEPT !.digit = d]
<1>1. a \in Ints \ ready /\ b \in ready
  BY DEF mp_init_copy, Uninitialised
<1>2. n \in Counts /\ n \in Nat /\ n >= MP_MIN_DIGIT_COUNT /\ mp[b].used \in 0 .. n
  BY <1>1, ReadyFacts, Constants DEF MaxOf, Counts
<1>. HIDE DEF n
<1>3. d = [i \in Places |-> IF i < mp[b].used THEN Dp(b).digit[i] ELSE 0]
  BY Constants DEF CopiedDigits, Zeroed, NoDigits, Places
<1>4. d \in [Places -> Digits]
  BY <1>1, <1>3, ReadyFacts, Constants DEF Digits
<1>5. block = [size |-> n, digit |-> d]
  BY DEF Zeroed
<1>. HIDE DEF block, d
<1>6. CASE AllocFails(a)
  BY <1>1, <1>6, AllocFailsKeepsInv
<1>7. ASSUME NEW to \in Blocks, IsFree(to), heap' = [heap EXCEPT ![to] = block],
             mp' = [mp EXCEPT ![a] = [used |-> mp[b].used, alloc |-> n, sign |-> mp[b].sign, dp |-> to]],
             ready' = ready \cup {a}, err' = "OKAY"
      PROVE  Inv'
  <2>. DEFINE rec == [used |-> mp[b].used, alloc |-> n, sign |-> mp[b].sign, dp |-> to]
  <2>2. rec \in Members
    BY <1>1, <1>2, ReadyFacts DEF Members
  <2>3. \A i \in Places : mp[b].used <= i => d[i] = 0
    BY <1>2, <1>3 DEF Places
  <2>4. mp[b].used > 0 => d[mp[b].used - 1] # 0
    BY <1>1, <1>2, <1>3, ReadyFacts, Constants DEF Places, Counts
  <2>5. block \in Block /\ block.size = n /\ block.digit = d
    BY <1>2, <1>4, <1>5 DEF Block
  <2>6. Startable(a, to, block, rec)
    BY <1>1, <1>2, <1>7, <2>2, <2>3, <2>4, <2>5, ReadyFacts DEF Startable
  <2>7. Start(a, to, block, rec)
    BY <1>7 DEF Start
  <2>. QED
    BY <2>6, <2>7, StartKeepsInv
<1>. QED
  BY <1>6, <1>7 DEF mp_init_copy, n, d, block

LEMMA GrowKeepsInv ==
  ASSUME Inv, NEW x \in Ints, NEW size \in Int, mp_grow(x, size)
  PROVE  Inv'
<1>1. x \in ready
  BY DEF mp_grow
<1>2. PICK g \in Growths(x, size) :
        \/ g.code # "OKAY" /\ Fail(g.code)
        \/ g.code = "OKAY" /\ Store(x, g, mp[x].used, mp[x].sign, g.block.digit)
  BY DEF mp_grow
<1>3. CASE Fail(g.code)
  BY <1>3, CodeKeepsInv, GrowthCodes DEF Fail
<1>4. CASE g.code = "OKAY" /\ Store(x, g, mp[x].used, mp[x].sign, g.block.digit)
  <2>1. /\ g.dp \in ReallocTargets(mp[x].dp) /\ g.block \in Block
        /\ g.block.size >= mp[x].alloc
        /\ \A i \in Places : i < mp[x].alloc => g.block.digit[i] = Dp(x).digit[i]
        /\ \A i \in Places : mp[x].alloc <= i /\ i < g.block.size => g.block.digit[i] = 0
    BY <1>1, <1>4, GrowthFacts
  <2>2. /\ g.block.size \in Counts /\ g.block.digit \in [Places -> Digits]
        /\ g.block.size >= MP_MIN_DIGIT_COUNT /\ mp[x].used \in 0 .. g.block.size
    BY <1>1, <2>1, ReadyFacts, Constants DEF Block, Counts
  <2>3. \A i \in Places : mp[x].used <= i /\ i < g.block.size => g.block.digit[i] = 0
    BY <1>1, <2>1, <2>2, ReadyFacts, Constants DEF Places, Counts
  <2>4. mp[x].used > 0 => g.block.digit[mp[x].used - 1] # 0
    BY <1>1, <2>1, <2>2, ReadyFacts, Constants, SMTT(30) DEF Places, Counts
  <2>5. Storable(x, g, mp[x].used, mp[x].sign, g.block.digit)
    BY <1>1, <2>1, <2>2, <2>3, <2>4, ReadyFacts DEF Storable
  <2>. QED
    BY <1>1, <1>4, <2>5, StoreKeepsInv
<1>. QED
  BY <1>2, <1>3, <1>4

LEMMA ShrinkKeepsInv ==
  ASSUME Inv, NEW x \in Ints, mp_shrink(x)
  PROVE  Inv'
<1>. DEFINE alloc == MaxOf(MP_MIN_DIGIT_COUNT, mp[x].used)
            block == Resized(Dp(x), alloc, MP_DIGIT_MAX)
<1>1. x \in ready
  BY DEF mp_shrink
<1>2. /\ alloc \in Counts /\ alloc >= MP_MIN_DIGIT_COUNT /\ alloc <= mp[x].alloc
      /\ mp[x].used \in 0 .. alloc
  BY <1>1, ReadyFacts, Constants DEF MaxOf, Counts
<1>. HIDE DEF alloc
<1>3. CASE err' \in {"OKAY", "MEM"} /\ UNCHANGED << mp, heap, ready >>
  BY <1>3, CodeKeepsInv DEF Codes
<1>4. ASSUME NEW to \in ReallocTargets(mp[x].dp),
             Store(x, [dp |-> to, block |-> block], mp[x].used, mp[x].sign, block.digit)
      PROVE  Inv'
  <2>. DEFINE g == [dp |-> to, block |-> block]
  <2>1. /\ block.size = alloc
        /\ block.digit = [i \in Places |-> IF i >= alloc THEN 0
                          ELSE IF i < Dp(x).size THEN Dp(x).digit[i] ELSE MP_DIGIT_MAX]
        /\ block = [size |-> block.size, digit |-> block.digit]
    BY DEF Resized
  <2>2. \A i \in Places : i < alloc => block.digit[i] = Dp(x).digit[i]
    BY <1>1, <1>2, <2>1, ReadyFacts, Constants DEF Places, Counts
  <2>3. block.digit \in [Places -> Digits]
    BY <1>1, <2>1, ReadyFacts, Constants DEF Digits
  <2>4. block \in Block
    BY <1>2, <2>1, <2>3 DEF Block
  <2>. HIDE DEF block
  <2>5. g.dp = to /\ g.block = block
    OBVIOUS
  <2>6. Storable(x, g, mp[x].used, mp[x].sign, block.digit)
    BY <1>1, <1>2, <2>1, <2>2, <2>3, <2>4, <2>5, ReadyFacts, Constants, SMTT(30)
    DEF Storable, Places, Counts
  <2>. QED
    BY <1>1, <1>4, <2>6, StoreKeepsInv
<1>. QED
  BY <1>3, <1>4 DEF mp_shrink, Fail, alloc, block

(* mp_copy, mp_abs and mp_neg: a zero that is copied is given the sign of  *)
(* zero.                                                                   *)
LEMMA CopyKeepsInv ==
  ASSUME Inv, NEW a \in Ints, NEW b \in Ints, NEW sign \in Signs,
         a \in ready /\ mp[a].used = 0 => sign = MP_ZPOS,
         CopyWithSign(a, b, sign)
  PROVE  Inv'
<1>1. a \in ready /\ b \in ready
  BY DEF CopyWithSign
<1>2. CASE a = b /\ Store(b, Kept(b), mp[b].used, sign, Dp(b).digit)
  <2>1. Kept(b).dp = mp[b].dp /\ Kept(b).block = Dp(b)
    BY DEF Kept
  <2>2. Storable(b, Kept(b), mp[b].used, sign, Dp(b).digit)
    BY <1>1, <1>2, <2>1, ReadyFacts, Constants DEF Storable, ReallocTargets
  <2>. QED
    BY <1>1, <1>2, <2>2, StoreKeepsInv
<1>3. ASSUME NEW g \in Growths(b, mp[a].used), a # b,
             \/ g.code # "OKAY" /\ Fail(g.code)
             \/ /\ g.code = "OKAY"
                /\ Store(b, g, mp[a].used, sign,
                         CopiedDigits(Dp(a), mp[a].used, g.block, mp[b].used))
      PROVE  Inv'
  <2>1. mp[a].used \in Int
    BY <1>1, ReadyFacts
  <2>2. CASE g.code # "OKAY"
    BY <1>3, <2>1, <2>2, CodeKeepsInv, GrowthCodes DEF Fail
  <2>3. CASE g.code = "OKAY"
    <3>. DEFINE d == CopiedDigits(Dp(a), mp[a].used, g.block, mp[b].used)
    <3>1. /\ g.dp \in ReallocTargets(mp[b].dp) /\ g.block \in Block
          /\ g.block.size >= mp[a].used /\ g.block.size >= mp[b].alloc
          /\ \A i \in Places : i < mp[b].alloc => g.block.digit[i] = Dp(b).digit[i]
          /\ \A i \in Places : mp[b].alloc <= i /\ i < g.block.size => g.block.digit[i] = 0
      BY <1>1, <2>1, <2>3, GrowthFacts
    <3>2. d = [i \in Places |-> IF i < mp[a].used THEN Dp(a).digit[i]
                                ELSE IF i < mp[b].used THEN 0 ELSE g.block.digit[i]]
      BY DEF CopiedDigits
    <3>. HIDE DEF d
    <3>3. d \in [Places -> Digits]
      BY <1>1, <3>1, <3>2, ReadyFacts, Constants DEF Block, Digits
    <3>4. \A i \in Places : mp[a].used <= i /\ i < g.block.size => d[i] = 0
      <4>1. ASSUME NEW i \in Places, mp[a].used <= i, i < g.block.size PROVE d[i] = 0
        <5>1. d[i] = IF i < mp[b].used THEN 0 ELSE g.block.digit[i]
          BY <1>1, <3>2, <4>1, ReadyFacts, Constants DEF Places
        <5>. QED
          BY <1>1, <3>1, <4>1, <5>1, ReadyFacts, Constants DEF Places, Counts
      <4>. QED
        BY <4>1
    <3>5. mp[a].used > 0 => d[mp[a].used - 1] # 0
      BY <1>1, <3>2, ReadyFacts, Constants DEF Places, Counts
    <3>6. g.block.size \in Counts /\ g.block.size >= MP_MIN_DIGIT_COUNT /\ mp[a].used \in 0 .. g.block.size
      BY <1>1, <3>1, ReadyFacts, Constants DEF Block, Counts
    <3>7. Storable(b, g, mp[a].used, sign, d)
      BY <1>1, <3>1, <3>3, <3>4, <3>5, <3>6 DEF Storable
    <3>. QED
      BY <1>1, <1>3, <2>3, <3>7, StoreKeepsInv DEF d
  <2>. QED
    BY <2>2, <2>3
<1>. QED
  BY <1>2, <1>3 DEF CopyWithSign

(* Calls that stay in the block the structure has.                         *)
LEMMA InPlaceKeepsInv ==
  ASSUME Inv, NEW a \in ready, NEW used, NEW sign, NEW digit,
         used \in 0 .. mp[a].alloc, sign \in Signs, digit \in [Places -> Digits],
         \A i \in Places : used <= i /\ i < mp[a].alloc => digit[i] = 0,
         used > 0 => digit[used - 1] # 0,
         used = 0 => sign = MP_ZPOS,
         Store(a, Kept(a), used, sign, digit)
  PROVE  Inv'
<1>1. Kept(a).dp = mp[a].dp /\ Kept(a).block = Dp(a)
  BY DEF Kept
<1>2. Storable(a, Kept(a), used, sign, digit)
  BY <1>1, ReadyFacts DEF Storable, ReallocTargets
<1>. QED
  BY <1>2, StoreKeepsInv

LEMMA ZeroKeepsInv ==
  ASSUME Inv, NEW a \in Ints, mp_zero(a)
  PROVE  Inv'
<1>. DEFINE d == ZeroDigs(Dp(a), 0, mp[a].used).digit
<1>1. a \in ready
  BY DEF mp_zero
<1>2. Dp(a) \in Block /\ mp[a].used \in Nat
  BY <1>1, ReadyFacts
<1>3. d = [i \in Places |-> IF 0 <= i /\ i < 0 + mp[a].used THEN 0 ELSE Dp(a).digit[i]]
  BY <1>2 DEF ZeroDigs, Block
<1>. HIDE DEF d
<1>4. d \in [Places -> Digits]
  BY <1>1, <1>3, ReadyFacts, Constants DEF Digits
<1>5. \A i \in Places : 0 <= i /\ i < mp[a].alloc => d[i] = 0
  BY <1>1, <1>2, <1>3, ReadyFacts DEF Places
<1>6. Store(a, Kept(a), 0, MP_ZPOS, d)
  BY DEF mp_zero, d
<1>7. 0 \in 0 .. mp[a].alloc /\ MP_ZPOS \in Signs
  BY <1>1, ReadyFacts, Constants DEF Signs, Counts
<1>. QED
  BY <1>1, <1>4, <1>5, <1>6, <1>7, InPlaceKeepsInv

LEMMA SetKeepsInv ==
  ASSUME Inv, NEW a \in Ints, NEW d \in Digits, mp_set(a, d)
  PROVE  Inv'
<1>. DEFINE used == IF d # 0 THEN 1 ELSE 0
            set == [Dp(a) EXCEPT !.digit[0] = d]
            new == ZeroDigs(set, used, mp[a].used - used).digit
<1>1. a \in ready
  BY DEF mp_set
<1>2. Dp(a) \in Block /\ mp[a].used \in Nat /\ Dp(a).digit \in [Places -> Digits]
  BY <1>1, ReadyFacts
<1>3. set \in Block /\ set.digit = [Dp(a).digit EXCEPT ![0] = d]
  BY <1>2 DEF Block
<1>. HIDE DEF set
<1>4. new = [i \in Places |-> IF used <= i /\ i < used + (mp[a].used - used)
                              THEN 0 ELSE set.digit[i]]
  BY <1>3 DEF ZeroDigs, Block
<1>. HIDE DEF new
<1>5. new \in [Places -> Digits]
  BY <1>2, <1>3, <1>4, Constants DEF Block, Digits
<1>6. used \in 0 .. mp[a].alloc /\ used \in {0, 1} /\ MP_ZPOS \in Signs
  BY <1>1, ReadyFacts, Constants DEF Signs, Counts
<1>7. \A i \in Places : used <= i /\ i < mp[a].alloc => new[i] = 0
  <2>1. ASSUME NEW i \in Places, used <= i, i < mp[a].alloc PROVE new[i] = 0
    <3>1. CASE i < mp[a].used
      BY <3>1, <2>1, <1>2, <1>4, <1>6 DEF Places
    <3>2. CASE i >= mp[a].used
      <4>1. new[i] = set.digit[i]
        BY <3>2, <2>1, <1>2, <1>4, <1>6 DEF Places
      <4>2. set.digit[i] = Dp(a).digit[i] \/ (i = 0 /\ d = 0)
        BY <2>1, <1>2, <1>3, <1>6 DEF Places
      <4>. QED
        BY <4>1, <4>2, <3>2, <2>1, <1>1, <1>2, <1>3, ReadyFacts, Constants DEF Places
    <3>. QED
      BY <3>1, <3>2, <1>2 DEF Places
  <2>. QED
    BY <2>1
<1>8. used > 0 => new[used - 1] # 0
  <2>1. ASSUME d # 0 PROVE new[0] = d
    BY <2>1, <1>2, <1>3, <1>4, Constants DEF Places
  <2>. QED
    BY <2>1
<1>9. Store(a, Kept(a), used, MP_ZPOS, new)
  BY DEF mp_set, set, new
<1>. HIDE DEF used
<1>. QED
  BY <1>1, <1>5, <1>6, <1>7, <1>8, <1>9, InPlaceKeepsInv

LEMMA RShdKeepsInv ==
  ASSUME Inv, NEW a \in Ints, NEW n \in Int, mp_rshd(a, n)
  PROVE  Inv'
<1>1. a \in ready
  BY DEF mp_rshd
<1>2. CASE n <= 0 /\ err' = "OKAY" /\ UNCHANGED << mp, heap, ready >>
  BY <1>2, CodeKeepsInv DEF Codes
<1>3. CASE mp_zero(a)
  BY <1>3, ZeroKeepsInv
<1>. DEFINE left == mp[a].used - n
            slid == [Dp(a) EXCEPT !.digit = [i \in Places |-> IF i < left THEN @[i + n] ELSE @[i]]]
            new == ZeroDigs(slid, left, n).digit
<1>4. CASE n > 0 /\ mp[a].used > n /\ Store(a, Kept(a), left, mp[a].sign, new)
  <2>1. Dp(a) \in Block /\ mp[a].used \in Nat /\ Dp(a).digit \in [Places -> Digits]
        /\ mp[a].used <= mp[a].alloc /\ mp[a].alloc <= MP_MAX_DIGIT_COUNT /\ mp[a].alloc \in Nat
    BY <1>1, ReadyFacts, Constants DEF Counts
  <2>2. slid \in Block /\ slid.digit = [i \in Places |-> IF i < left THEN Dp(a).digit[i + n]
                                                         ELSE Dp(a).digit[i]]
    <3>1. \A i \in Places : i < left => i + n \in Places
      BY <2>1, <1>4, Constants, SMTT(40) DEF Places
    <3>. QED
      BY <2>1, <3>1 DEF Block
  <2>. HIDE DEF slid
  <2>3. new = [i \in Places |-> IF left <= i /\ i < left + n THEN 0 ELSE slid.digit[i]]
    BY <2>2 DEF ZeroDigs, Block
  <2>. HIDE DEF new
  <2>4. new \in [Places -> Digits]
    BY <2>2, <2>3, Constants DEF Block, Digits
  <2>5. left \in 0 .. mp[a].alloc /\ left > 0 /\ left - 1 \in Places /\ left - 1 + n = mp[a].used - 1
    <3>1. n > 0 /\ mp[a].used > n
      BY <1>4
    <3>2. left \in Nat /\ left > 0 /\ left <= mp[a].alloc /\ left - 1 < MP_MAX_DIGIT_COUNT
      BY <3>1, <2>1, Constants
    <3>3. left - 1 + n = mp[a].used - 1
      BY <2>1
    <3>. QED
      BY <3>2, <3>3, <2>1, Constants DEF Places
  <2>6. \A i \in Places : left <= i /\ i < mp[a].alloc => new[i] = 0
    <3>1. ASSUME NEW i \in Places, left <= i, i < mp[a].alloc PROVE new[i] = 0
      <4>1. CASE i < mp[a].used
        BY <4>1, <3>1, <2>1, <2>3 DEF Places
      <4>2. CASE i >= mp[a].used
        <5>1. new[i] = Dp(a).digit[i]
          BY <4>2, <3>1, <2>1, <2>2, <2>3, <1>4 DEF Places
        <5>. QED
          BY <5>1, <4>2, <3>1, <1>1, ReadyFacts
      <4>. QED
        BY <4>1, <4>2, <2>1 DEF Places
    <3>. QED
      BY <3>1
  <2>7. new[left - 1] # 0
    <3>1. new[left - 1] = Dp(a).digit[left - 1 + n]
      BY <2>1, <2>2, <2>3, <2>5, <1>4 DEF Places
    <3>. QED
      BY <3>1, <2>1, <2>5, <1>1, <1>4, ReadyFacts
  <2>8. mp[a].sign \in Signs
    BY <1>1, ReadyFacts
  <2>. HIDE DEF left
  <2>. QED
    BY <1>1, <1>4, <2>4, <2>5, <2>6, <2>7, <2>8, InPlaceKeepsInv
<1>. QED
  BY <1>2, <1>3, <1>4 DEF mp_rshd

LEMMA LShdKeepsInv ==
  ASSUME Inv, NEW a \in Ints, NEW n \in Int, mp_lshd(a, n)
  PROVE  Inv'
<1>1. a \in ready
  BY DEF mp_lshd
<1>2. CASE err' = "OKAY" /\ UNCHANGED << mp, heap, ready >>
  BY <1>2, CodeKeepsInv DEF Codes
<1>3. ASSUME n > 0, ~ iszero(a), NEW g \in Growths(a, mp[a].used + n),
             \/ g.code # "OKAY" /\ Fail(g.code)
             \/ /\ g.code = "OKAY"
                /\ Store(a, g, mp[a].used + n, mp[a].sign,
                         [i \in Places |-> IF i < n THEN 0
                                           ELSE IF i < mp[a].used + n THEN g.block.digit[i - n]
                                           ELSE g.block.digit[i]])
      PROVE  Inv'
  <2>1. /\ mp[a].used \in Nat /\ mp[a].used > 0 /\ mp[a].used <= mp[a].alloc
        /\ mp[a].alloc \in Nat /\ mp[a].alloc >= MP_MIN_DIGIT_COUNT
    BY <1>1, <1>3, ReadyFacts, Constants DEF iszero, Counts
  <2>2. mp[a].used + n \in Int
    BY <2>1
  <2>3. CASE g.code # "OKAY"
    BY <1>3, <2>2, <2>3, CodeKeepsInv, GrowthCodes DEF Fail
  <2>4. CASE g.code = "OKAY"
    <3>. DEFINE d == [i \in Places |-> IF i < n THEN 0
                                       ELSE IF i < mp[a].used + n THEN g.block.digit[i - n]
                                       ELSE g.block.digit[i]]
    <3>1. /\ g.dp \in ReallocTargets(mp[a].dp) /\ g.block \in Block
          /\ g.block.size >= mp[a].used + n /\ g.block.size >= mp[a].alloc
          /\ \A i \in Places : i < mp[a].alloc => g.block.digit[i] = Dp(a).digit[i]
          /\ \A i \in Places : mp[a].alloc <= i /\ i < g.block.size => g.block.digit[i] = 0
      BY <1>1, <2>2, <2>4, GrowthFacts
    <3>2. g.block.size \in Nat /\ g.block.size <= MP_MAX_DIGIT_COUNT
          /\ g.block.digit \in [Places -> Digits]
      BY <3>1, Constants DEF Block, Counts
    <3>3. d \in [Places -> Digits]
      <4>1. \A i \in Places : ~ (i < n) /\ i < mp[a].used + n => i - n \in Places
        BY <2>1, <1>3, Constants DEF Places
      <4>2. 0 \in Digits
        BY Constants DEF Digits
      <4>. QED
        BY <4>1, <4>2, <3>2
    <3>4. ASSUME NEW i \in Places, mp[a].used + n <= i, i < g.block.size PROVE d[i] = 0
      <4>1. d[i] = g.block.digit[i] /\ i > mp[a].used
        BY <1>3, <2>1, <3>4 DEF Places
      <4>2. CASE i < mp[a].alloc
        BY <4>1, <4>2, <3>1, <1>1, <2>1, ReadyFacts DEF Places
      <4>3. CASE i >= mp[a].alloc
        BY <4>1, <4>3, <3>1, <3>4
      <4>. QED
        BY <4>2, <4>3, <2>1 DEF Places
    <3>5. d[mp[a].used + n - 1] # 0
      <4>1. mp[a].used + n - 1 \in Places /\ mp[a].used - 1 \in Places
            /\ (mp[a].used + n - 1) - n = mp[a].used - 1
        <5>1. n > 0 /\ mp[a].used + n <= MP_MAX_DIGIT_COUNT
          BY <1>3, <2>1, <3>1, <3>2, Constants
        <5>. QED
          BY <5>1, <2>1, Constants DEF Places
      <4>2. d[mp[a].used + n - 1] = g.block.digit[mp[a].used - 1]
        BY <1>3, <2>1, <4>1
      <4>3. g.block.digit[mp[a].used - 1] = Dp(a).digit[mp[a].used - 1]
        BY <2>1, <3>1, <4>1
      <4>. QED
        BY <4>2, <4>3, <1>1, <2>1, ReadyFacts
    <3>6. mp[a].used + n \in 0 .. g.block.size /\ mp[a].used + n > 0 /\ g.block.size >= MP_MIN_DIGIT_COUNT
      BY <1>3, <2>1, <3>1, <3>2, Constants
    <3>7. Storable(a, g, mp[a].used + n, mp[a].sign, d)
      BY <1>1, <3>1, <3>3, <3>4, <3>5, <3>6, ReadyFacts DEF Storable
    <3>. QED
      BY <1>1, <1>3, <2>4, <3>7, StoreKeepsInv
  <2>. QED
    BY <2>3, <2>4
<1>. QED
  BY <1>2, <1>3 DEF mp_lshd

-----------------------------------------------------------------------------
LEMMA InitInv == Init => Inv
<1>1. FreeBlock \in Block /\ FreeBlock.size = 0
  BY Constants DEF FreeBlock, Block, NoDigits, Digits, Counts
<1>2. 0 \in Counts
  BY Constants DEF Counts
<1>. QED
  BY <1>1, <1>2, PointersDiffer
  DEF Init, Inv, TypeOK, Ownership, ExcessZero, Canonical, Block, Signs, Codes

LEMMA NextInv == Inv /\ [Next]_vars => Inv'
<1>. SUFFICES ASSUME Inv, [Next]_vars PROVE Inv'
  OBVIOUS
<1>1. ASSUME NEW a \in Ints, mp_init(a) \/ mp_clear(a) \/ mp_shrink(a) \/ mp_zero(a)
      PROVE  Inv'
  BY <1>1, InitKeepsInv, ClearKeepsInv, ShrinkKeepsInv, ZeroKeepsInv
<1>2. ASSUME NEW a \in Ints, NEW n \in -1 .. MP_MAX_DIGIT_COUNT + 1,
             mp_init_size(a, n) \/ mp_grow(a, n)
      PROVE  Inv'
  BY <1>2, InitSizeKeepsInv, GrowKeepsInv
<1>3. ASSUME NEW a \in Ints, NEW b \in Ints, a # b, mp_init_multi(<< a, b >>)
      PROVE  Inv'
  BY <1>3, InitMultiKeepsInv
<1>4. ASSUME NEW X \in SUBSET Ints, mp_clear_multi(X)
      PROVE  Inv'
  BY <1>4, ClearMultiKeepsInv
<1>5. ASSUME NEW a \in Ints, NEW b \in Ints,
             mp_init_copy(a, b) \/ mp_exch(a, b) \/ mp_copy(a, b) \/ mp_abs(a, b) \/ mp_neg(a, b)
      PROVE  Inv'
  <2>1. CASE mp_copy(a, b)
    <3>1. a \in ready /\ mp[a].sign \in Signs /\ (mp[a].used = 0 => mp[a].sign = MP_ZPOS)
      BY <2>1, ReadyFacts DEF mp_copy, CopyWithSign
    <3>. QED
      BY <2>1, <3>1, CopyKeepsInv DEF mp_copy
  <2>2. CASE mp_abs(a, b)
    BY <2>2, CopyKeepsInv DEF mp_abs, Signs
  <2>3. CASE mp_neg(a, b)
    BY <2>3, CopyKeepsInv DEF mp_neg, Signs, iszero
  <2>. QED
    BY <1>5, <2>1, <2>2, <2>3, InitCopyKeepsInv, ExchKeepsInv
<1>6. ASSUME NEW a \in Ints, NEW d \in Digits, mp_set(a, d)
      PROVE  Inv'
  BY <1>6, SetKeepsInv
<1>7. ASSUME NEW a \in Ints, NEW n \in 0 .. MaxShift, mp_lshd(a, n) \/ mp_rshd(a, n)
      PROVE  Inv'
  BY <1>7, LShdKeepsInv, RShdKeepsInv
<1>8. CASE UNCHANGED vars
  BY <1>8 DEF vars, Inv, TypeOK, Ownership, ExcessZero, Canonical, Dp
<1>. QED
  BY <1>1, <1>2, <1>3, <1>4, <1>5, <1>6, <1>7, <1>8 DEF Next

(* Inv holds throughout, for any number of structures, blocks and digits.  *)
THEOREM Invariance == Spec => []Inv
BY InitInv, NextInv, PTL DEF Spec

(* Every member and every block has its type: no operation of the module   *)
(* makes used or alloc larger than MP_MAX_DIGIT_COUNT.                     *)
THEOREM TypeCorrect == Spec => []TypeOK
<1>1. Inv => TypeOK
  BY DEF Inv
<1>. QED
  BY <1>1, Invariance, PTL

(* No block is leaked, shared or freed under a structure (mp_init*,        *)
(* mp_clear*, and the blocks that mp_grow and mp_shrink move).             *)
THEOREM BlocksOwned == Spec => []Ownership
<1>1. Inv => Ownership
  BY DEF Inv
<1>. QED
  BY <1>1, Invariance, PTL

(* The digits above used are zero: s_mp_zero_digs is called wherever used  *)
(* goes down or alloc goes up.                                             *)
THEOREM ExcessDigitsZero == Spec => []ExcessZero
<1>1. Inv => ExcessZero
  BY DEF Inv
<1>. QED
  BY <1>1, Invariance, PTL

(* The leading digit is not zero, and zero is not negative.                *)
THEOREM NumbersCanonical == Spec => []Canonical
<1>1. Inv => Canonical
  BY DEF Inv
<1>. QED
  BY <1>1, Invariance, PTL

-----------------------------------------------------------------------------
(* What a step that returns an error may do to the structures in use.      *)
LEMMA StepFailure ==
  ASSUME Inv, Next, err' # "OKAY"
  PROVE  ready' = ready /\ heap' = heap /\ \A x \in ready : mp'[x] = mp[x]
<1>. DEFINE Nothing == ready' = ready /\ heap' = heap /\ \A x \in ready : mp'[x] = mp[x]
<1>1. mp \in [Ints -> Members] /\ ready \subseteq Ints
  BY DEF Inv, TypeOK, Members
<1>2. \A code : Fail(code) => Nothing
  BY DEF Fail
<1>3. \A a : Uninitialised(a) /\ AllocFails(a) => Nothing
  BY <1>1 DEF Uninitialised, AllocFails
<1>4. \A x, g, used, sign, digit : ~ Store(x, g, used, sign, digit)
  BY DEF Store
<1>5. \A a, n : ~ AllocSucceeds(a, n)
  BY DEF AllocSucceeds
<1>. HIDE DEF Nothing
<1>6. ASSUME NEW a \in Ints, mp_init(a) \/ mp_clear(a) \/ mp_shrink(a) \/ mp_zero(a)
      PROVE  Nothing
  BY <1>2, <1>3, <1>4, <1>5, <1>6 DEF mp_init, mp_clear, mp_shrink, mp_zero
<1>7. ASSUME NEW a \in Ints, NEW n \in -1 .. MP_MAX_DIGIT_COUNT + 1,
             mp_init_size(a, n) \/ mp_grow(a, n)
      PROVE  Nothing
  BY <1>2, <1>3, <1>4, <1>5, <1>7 DEF mp_init_size, mp_grow
<1>8. ASSUME NEW a \in Ints, NEW b \in Ints, mp_init_multi(<< a, b >>)
      PROVE  Nothing
  <2>. DEFINE s == << a, b >>
  <2>1. DOMAIN s = {1, 2} /\ s[1] = a /\ s[2] = b
    OBVIOUS
  <2>. HIDE DEF s
  <2>2. a \notin ready /\ b \notin ready
    BY <1>8, <2>1 DEF mp_init_multi, s, Uninitialised
  <2>3. PICK k \in DOMAIN s :
          /\ mp' = [x \in Ints |-> IF \E j \in DOMAIN s : j < k /\ s[j] = x THEN Cleared
                                   ELSE IF x = s[k] THEN [mp[x] EXCEPT !.dp = NULL]
                                   ELSE mp[x]]
          /\ UNCHANGED << heap, ready >>
    BY <1>8 DEF mp_init_multi, s
  <2>4. \A x \in Ints : x # a /\ x # b => mp'[x] = mp[x]
    BY <2>1, <2>3
  <2>. QED
    BY <1>1, <2>2, <2>3, <2>4 DEF Nothing
<1>9. ASSUME NEW a \in Ints, NEW b \in Ints,
             mp_init_copy(a, b) \/ mp_exch(a, b) \/ mp_copy(a, b) \/ mp_abs(a, b) \/ mp_neg(a, b)
      PROVE  Nothing
  <2>1. \A sign : CopyWithSign(a, b, sign) => Nothing
    BY <1>2, <1>4 DEF CopyWithSign
  <2>2. mp_init_copy(a, b) => Nothing
    BY <1>3 DEF mp_init_copy
  <2>. QED
    BY <1>9, <2>1, <2>2 DEF mp_exch, mp_copy, mp_abs, mp_neg
<1>10. ASSUME NEW a \in Ints, NEW d \in Digits, mp_set(a, d)
       PROVE  Nothing
  BY <1>4, <1>10 DEF mp_set
<1>11. ASSUME NEW a \in Ints, NEW n \in 0 .. MaxShift, mp_lshd(a, n) \/ mp_rshd(a, n)
       PROVE  Nothing
  BY <1>2, <1>4, <1>11 DEF mp_lshd, mp_rshd, mp_zero
<1>12. \A X \in SUBSET Ints : ~ mp_clear_multi(X)
  BY DEF mp_clear_multi
<1>. QED
  BY <1>6, <1>7, <1>8, <1>9, <1>10, <1>11, <1>12 DEF Next, Nothing

(* A call that fails leaves every usable mp_int and the heap alone.        *)
THEOREM FailuresHarmless == Spec => FailureChangesNothing
<1>. DEFINE Harmless == err' # "OKAY" =>
       /\ ready' = ready
       /\ heap' = heap
       /\ \A x \in ready : mp'[x] = mp[x]
<1>1. Inv /\ [Next]_vars => [Harmless]_vars
  BY StepFailure
<1>. QED
  BY <1>1, Invariance, PTL DEF Spec, FailureChangesNothing

-----------------------------------------------------------------------------
(* MpLifecycle implements MpValues: seen as numbers only, the structures   *)
(* change as the abstract operation of each call says, or not at all.  The *)
(* invariant Inv is what makes it so: a write to one block changes one     *)
(* number because blocks are not shared, and a number in use is never the  *)
(* value of an absent one because zero is not negative.                    *)

(* The number that used digits and a sign stand for.                       *)
Number(sign, digit, used) ==
  [neg |-> sign = MP_NEG, mag |-> [i \in 1 .. used |-> digit[i - 1]]]

LEMMA ValueOfNumber ==
  ASSUME NEW x
  PROVE  ValueOf(x) = Number(mp[x].sign, Dp(x).digit, mp[x].used)
BY DEF ValueOf, Number, isneg

(* Another sign, another magnitude.                                        *)
LEMMA ValueParts ==
  ASSUME NEW x
  PROVE  /\ \A sign : Number(sign, Dp(x).digit, mp[x].used)
                       = [ValueOf(x) EXCEPT !.neg = (sign = MP_NEG)]
         /\ \A m : [neg |-> mp[x].sign = MP_NEG, mag |-> m] = [ValueOf(x) EXCEPT !.mag = m]
<1>. DEFINE m == [i \in 1 .. mp[x].used |-> Dp(x).digit[i - 1]]
<1>1. ValueOf(x) = [neg |-> mp[x].sign = MP_NEG, mag |-> m]
  BY DEF ValueOf, isneg
<1>2. \A sign : Number(sign, Dp(x).digit, mp[x].used) = [neg |-> sign = MP_NEG, mag |-> m]
  BY DEF Number
<1>. HIDE DEF m
<1>. QED
  BY <1>1, <1>2

LEMMA FunctionIsSeq ==
  ASSUME NEW S, NEW n \in Nat, NEW m \in [1 .. n -> S]
  PROVE  m \in Seq(S) /\ Len(m) = n
<1>1. m \in Seq(S)
  BY SeqDef
<1>2. DOMAIN m = 1 .. n
  OBVIOUS
<1>. QED
  BY <1>1, <1>2, LenProperties

LEMMA ValuationFacts ==
  /\ \A x \in Ints : valuation[x] = IF x \in ready THEN ValueOf(x) ELSE Absent
  /\ \A x \in Ints : valuation'[x] = IF x \in ready' THEN ValueOf(x)' ELSE Absent
  /\ DOMAIN valuation = Ints /\ DOMAIN valuation' = Ints
  /\ valuation = [x \in Ints |-> valuation[x]]
  /\ valuation' = [x \in Ints |-> valuation'[x]]
BY DEF valuation

(* The magnitude of a number in use is a sequence of its used digits, and  *)
(* it is not the value of an absent one.                                   *)
LEMMA MagnitudeFacts ==
  ASSUME Inv, NEW x \in ready
  PROVE  /\ ValueOf(x).mag \in Seq(Digits)
         /\ Len(ValueOf(x).mag) = mp[x].used
         /\ \A i \in 1 .. mp[x].used : ValueOf(x).mag[i] = Dp(x).digit[i - 1]
         /\ ValueOf(x).neg = isneg(x)
         /\ ValueOf(x).mag = << >> <=> iszero(x)
         /\ ValueOf(x) # Absent
<1>1. /\ mp[x].used \in Nat /\ mp[x].used <= MP_MAX_DIGIT_COUNT
      /\ Dp(x).digit \in [Places -> Digits]
      /\ mp[x].used = 0 => mp[x].sign = MP_ZPOS
  BY ReadyFacts, Constants DEF Counts
<1>2. \A i \in 1 .. mp[x].used : Dp(x).digit[i - 1] \in Digits
  BY <1>1, Constants DEF Places
<1>. DEFINE m == [i \in 1 .. mp[x].used |-> Dp(x).digit[i - 1]]
<1>3. m \in [1 .. mp[x].used -> Digits]
  BY <1>2
<1>6. ValueOf(x).mag = m /\ ValueOf(x).neg = isneg(x)
  BY DEF ValueOf
<1>7. \A i \in 1 .. mp[x].used : m[i] = Dp(x).digit[i - 1]
  OBVIOUS
<1>. HIDE DEF m
<1>4. m \in Seq(Digits) /\ Len(m) = mp[x].used
  BY <1>1, <1>3, FunctionIsSeq
<1>9. m = << >> <=> iszero(x)
  BY <1>4, EmptySeq DEF iszero
<1>10. iszero(x) => ~ isneg(x)
  BY <1>1 DEF iszero, isneg, MP_ZPOS, MP_NEG
<1>11. Absent.neg /\ Absent.mag = << >>
  BY DEF Absent
<1>12. ValueOf(x) # Absent
  BY <1>6, <1>9, <1>10, <1>11, Zenon
<1>. QED
  BY <1>4, <1>6, <1>7, <1>9, <1>12

(* What Store does to the memory: the structure gets its members, the      *)
(* block its digits, and no other structure in use is touched.             *)
LEMMA StoreEffect ==
  ASSUME Inv, NEW x \in ready, NEW g, NEW used, NEW sign, NEW digit,
         g.dp \in ReallocTargets(mp[x].dp), g.block \in Block,
         Store(x, g, used, sign, digit)
  PROVE  /\ ready' = ready
         /\ mp'[x].used = used /\ mp'[x].sign = sign /\ Dp(x)'.digit = digit
         /\ \A y \in ready : y # x => mp'[y] = mp[y] /\ Dp(y)' = Dp(y)
<1>. DEFINE new == [g.block EXCEPT !.digit = digit]
            rec == [used |-> used, alloc |-> g.block.size, sign |-> sign, dp |-> g.dp]
<1>1. x \in Ints /\ mp[x].dp \in Blocks /\ mp \in [Ints -> Members]
  BY ReadyFacts DEF Inv, TypeOK, Members
<1>2. g.dp \in Blocks /\ (g.dp = mp[x].dp \/ heap[g.dp].size = 0)
  BY <1>1 DEF ReallocTargets, IsFree
<1>3. new.digit = digit
  BY DEF Block
<1>4. rec.dp = g.dp /\ rec.used = used /\ rec.sign = sign
  OBVIOUS
<1>5. /\ mp' = [mp EXCEPT ![x] = rec] /\ ready' = ready
      /\ heap' = [b \in Blocks |-> IF b = g.dp THEN new
                                   ELSE IF b = mp[x].dp THEN FreeBlock ELSE heap[b]]
  BY DEF Store, MoveBlock
<1>. HIDE DEF new, rec
<1>6. mp'[x] = rec /\ heap'[g.dp] = new
  BY <1>1, <1>2, <1>5
<1>7. ASSUME NEW y \in ready, y # x
      PROVE  mp'[y] = mp[y] /\ heap'[mp[y].dp] = heap[mp[y].dp]
  <2>1. y \in Ints /\ mp[y].dp \in Blocks /\ heap[mp[y].dp].size >= MP_MIN_DIGIT_COUNT
    BY ReadyFacts DEF Dp
  <2>2. mp[y].dp # mp[x].dp
    BY <1>7 DEF Inv, Ownership
  <2>3. mp[y].dp # g.dp
    BY <2>1, <2>2, <1>2, Constants
  <2>. QED
    BY <2>1, <2>2, <2>3, <1>1, <1>5, <1>7
<1>. QED
  BY <1>3, <1>4, <1>5, <1>6, <1>7 DEF Dp

(* So it assigns one number and leaves the others.                         *)
LEMMA StoreAssigns ==
  ASSUME Inv, NEW x \in ready, NEW g, NEW used, NEW sign, NEW digit,
         g.dp \in ReallocTargets(mp[x].dp), g.block \in Block,
         Store(x, g, used, sign, digit)
  PROVE  valuation' = [valuation EXCEPT ![x] = Number(sign, digit, used)]
<1>1. /\ ready' = ready /\ x \in Ints
      /\ mp'[x].used = used /\ mp'[x].sign = sign /\ Dp(x)'.digit = digit
      /\ \A y \in ready : y # x => mp'[y] = mp[y] /\ Dp(y)' = Dp(y)
  BY StoreEffect, ReadyFacts
<1>2. ValueOf(x)' = Number(sign, digit, used)
  BY <1>1 DEF ValueOf, Number, isneg
<1>3. \A y \in ready : y # x => ValueOf(y)' = ValueOf(y)
  BY <1>1 DEF ValueOf, isneg
<1>. QED
  BY <1>1, <1>2, <1>3, ValuationFacts
-----------------------------------------------------------------------------
(* Steps the client does not see.                                          *)
Stutter == valuation' = valuation

(* A step maps to an abstract one or to a stutter.                         *)
Mapped == Values!Next \/ Stutter

LEMMA NothingMoves ==
  ASSUME UNCHANGED << mp, heap, ready >>
  PROVE  Stutter
BY DEF Stutter, valuation, ValueOf, isneg, Dp

(* Members of structures the client may not use do not count.              *)
LEMMA OthersMove ==
  ASSUME ready \subseteq Ints, \A x \in ready : mp'[x] = mp[x],
         heap' = heap, ready' = ready
  PROVE  Stutter
<1>1. \A x \in ready : ValueOf(x)' = ValueOf(x)
  BY DEF ValueOf, isneg, Dp
<1>. QED
  BY <1>1, ValuationFacts DEF Stutter

LEMMA AllocFailsStutters ==
  ASSUME Inv, NEW a \in Ints, a \notin ready, AllocFails(a)
  PROVE  Stutter
<1>1. mp \in [Ints -> Members] /\ ready \subseteq Ints
  BY DEF Inv, TypeOK, Members
<1>2. \A y \in ready : mp'[y] = mp[y]
  BY <1>1 DEF AllocFails
<1>. QED
  BY <1>1, <1>2, OthersMove DEF AllocFails

(* A store of the number the structure has.                                *)
LEMMA StoreStutters ==
  ASSUME Inv, NEW x \in ready, NEW g, NEW digit,
         g.dp \in ReallocTargets(mp[x].dp), g.block \in Block,
         \A i \in Places : i < mp[x].used => digit[i] = Dp(x).digit[i],
         Store(x, g, mp[x].used, mp[x].sign, digit)
  PROVE  Stutter
<1>1. valuation' = [valuation EXCEPT ![x] = Number(mp[x].sign, digit, mp[x].used)]
  BY StoreAssigns
<1>2. x \in Ints /\ mp[x].used \in Nat /\ mp[x].used <= MP_MAX_DIGIT_COUNT
  BY ReadyFacts, Constants DEF Counts
<1>3. \A i \in 1 .. mp[x].used : digit[i - 1] = Dp(x).digit[i - 1]
  BY <1>2, Constants DEF Places
<1>4. Number(mp[x].sign, digit, mp[x].used) = ValueOf(x)
  BY <1>3, ValueOfNumber DEF Number
<1>5. valuation[x] = ValueOf(x)
  BY <1>2, ValuationFacts
<1>. QED
  BY <1>1, <1>4, <1>5, ValuationFacts DEF Stutter

LEMMA GrowStutters ==
  ASSUME Inv, NEW x \in Ints, NEW size \in Int, mp_grow(x, size)
  PROVE  Stutter
<1>1. x \in ready
  BY DEF mp_grow
<1>2. PICK g \in Growths(x, size) :
        \/ g.code # "OKAY" /\ Fail(g.code)
        \/ g.code = "OKAY" /\ Store(x, g, mp[x].used, mp[x].sign, g.block.digit)
  BY DEF mp_grow
<1>3. CASE Fail(g.code)
  BY <1>3, NothingMoves DEF Fail
<1>4. CASE g.code = "OKAY" /\ Store(x, g, mp[x].used, mp[x].sign, g.block.digit)
  <2>1. /\ g.dp \in ReallocTargets(mp[x].dp) /\ g.block \in Block
        /\ \A i \in Places : i < mp[x].alloc => g.block.digit[i] = Dp(x).digit[i]
    BY <1>1, <1>4, GrowthFacts
  <2>2. \A i \in Places : i < mp[x].used => g.block.digit[i] = Dp(x).digit[i]
    BY <1>1, <2>1, ReadyFacts, Constants DEF Places, Counts
  <2>. QED
    BY <1>1, <1>4, <2>1, <2>2, StoreStutters
<1>. QED
  BY <1>2, <1>3, <1>4

LEMMA ShrinkStutters ==
  ASSUME Inv, NEW x \in Ints, mp_shrink(x)
  PROVE  Stutter
<1>. DEFINE alloc == MaxOf(MP_MIN_DIGIT_COUNT, mp[x].used)
            block == Resized(Dp(x), alloc, MP_DIGIT_MAX)
<1>1. x \in ready
  BY DEF mp_shrink
<1>2. alloc \in Counts /\ mp[x].used \in 0 .. alloc /\ mp[x].used <= Dp(x).size
  BY <1>1, ReadyFacts, Constants DEF MaxOf, Counts
<1>. HIDE DEF alloc
<1>3. CASE UNCHANGED << mp, heap, ready >>
  BY <1>3, NothingMoves
<1>4. ASSUME NEW to \in ReallocTargets(mp[x].dp),
             Store(x, [dp |-> to, block |-> block], mp[x].used, mp[x].sign, block.digit)
      PROVE  Stutter
  <2>. DEFINE g == [dp |-> to, block |-> block]
  <2>1. /\ block.size = alloc
        /\ block.digit = [i \in Places |-> IF i >= alloc THEN 0
                          ELSE IF i < Dp(x).size THEN Dp(x).digit[i] ELSE MP_DIGIT_MAX]
        /\ block = [size |-> block.size, digit |-> block.digit]
    BY DEF Resized
  <2>2. \A i \in Places : i < mp[x].used => block.digit[i] = Dp(x).digit[i]
    BY <1>1, <1>2, <2>1, ReadyFacts, Constants DEF Places, Counts
  <2>3. block.digit \in [Places -> Digits]
    BY <1>1, <2>1, ReadyFacts, Constants DEF Digits
  <2>4. block \in Block
    BY <1>2, <2>1, <2>3 DEF Block
  <2>. HIDE DEF block
  <2>5. g.dp = to /\ g.block = block
    OBVIOUS
  <2>. QED
    BY <1>1, <1>4, <2>2, <2>4, <2>5, StoreStutters
<1>. QED
  BY <1>3, <1>4 DEF mp_shrink, Fail, alloc, block

-----------------------------------------------------------------------------
(* Structures that come into use and go out of it.                         *)
LEMMA StartSets ==
  ASSUME Inv, NEW a \in Ints, a \notin ready, NEW b \in Blocks, IsFree(b),
         NEW block \in Block, NEW rec \in Members, rec.dp = b,
         Start(a, b, block, rec)
  PROVE  valuation' = [valuation EXCEPT ![a] = Number(rec.sign, block.digit, rec.used)]
<1>1. mp \in [Ints -> Members] /\ heap \in [Blocks -> Block] /\ ready \subseteq Ints
  BY DEF Inv, TypeOK, Members, Block
<1>2. mp'[a] = rec /\ heap'[b] = block /\ ready' = ready \cup {a}
  BY <1>1 DEF Start
<1>3. \A y \in ready : mp'[y] = mp[y] /\ Dp(y)' = Dp(y)
  <2>1. \A y \in ready : heap[mp[y].dp].size >= MP_MIN_DIGIT_COUNT /\ mp[y].dp \in Blocks
    BY ReadyFacts DEF Dp
  <2>2. \A y \in ready : mp[y].dp # b
    BY <2>1, Constants DEF IsFree
  <2>. QED
    BY <1>1, <2>1, <2>2 DEF Start, Dp
<1>4. ValueOf(a)' = Number(rec.sign, block.digit, rec.used)
  BY <1>2 DEF ValueOf, Number, isneg, Dp
<1>5. \A y \in ready : ValueOf(y)' = ValueOf(y)
  BY <1>3 DEF ValueOf, isneg
<1>. QED
  BY <1>1, <1>2, <1>4, <1>5, ValuationFacts

LEMMA ZeroNumber ==
  ASSUME NEW digit
  PROVE  Number(MP_ZPOS, digit, 0) = Values!Zero
<1>. DEFINE m == [i \in 1 .. 0 |-> digit[i - 1]]
<1>1. m \in [1 .. 0 -> {}]
  OBVIOUS
<1>. HIDE DEF m
<1>2. m = << >>
  BY <1>1, FunctionIsSeq, EmptySeq
<1>. QED
  BY <1>2 DEF Number, Values!Zero, m, MP_ZPOS, MP_NEG

LEMMA AllocSucceedsMaps ==
  ASSUME Inv, NEW a \in Ints, a \notin ready, NEW n \in Counts, AllocSucceeds(a, n)
  PROVE  Mapped
<1>1. PICK b \in Blocks : /\ IsFree(b)
                          /\ heap' = [heap EXCEPT ![b] = Zeroed(n)]
                          /\ mp' = [mp EXCEPT ![a] = Fresh(b, n)]
                          /\ ready' = ready \cup {a}
                          /\ err' = "OKAY"
  BY DEF AllocSucceeds
<1>2. Zeroed(n) \in Block
  BY Constants DEF Zeroed, Block, NoDigits, Digits
<1>3. Fresh(b, n) \in Members /\ Fresh(b, n).dp = b /\ Fresh(b, n).used = 0 /\ Fresh(b, n).sign = MP_ZPOS
  BY Constants DEF Fresh, Members, Counts, Signs
<1>4. valuation' = [valuation EXCEPT ![a] = Values!Zero]
  <2>1. Start(a, b, Zeroed(n), Fresh(b, n))
    BY <1>1 DEF Start
  <2>2. valuation' = [valuation EXCEPT ![a] = Number(MP_ZPOS, Zeroed(n).digit, 0)]
    BY <1>1, <1>2, <1>3, <2>1, StartSets
  <2>. QED
    BY <2>2, ZeroNumber
<1>5. valuation[a] = Absent
  BY ValuationFacts
<1>6. Values!Create({a})
  BY <1>4, <1>5, ValuationFacts DEF Values!Create
<1>. QED
  BY <1>6 DEF Mapped, Values!Next

LEMMA InitMaps ==
  ASSUME Inv, NEW a \in Ints, mp_init(a)
  PROVE  Mapped
<1>1. MP_DEFAULT_DIGIT_COUNT \in Counts
  BY Constants DEF Counts
<1>. QED
  BY <1>1, AllocFailsStutters, AllocSucceedsMaps DEF mp_init, Uninitialised, Mapped

LEMMA InitSizeMaps ==
  ASSUME Inv, NEW a \in Ints, NEW size \in Int, mp_init_size(a, size)
  PROVE  Mapped
<1>. DEFINE n == MaxOf(MP_MIN_DIGIT_COUNT, size)
<1>1. CASE Fail("VAL") \/ Fail("OVF")
  BY <1>1, NothingMoves DEF Fail, Mapped
<1>2. CASE n <= MP_MAX_DIGIT_COUNT /\ (AllocFails(a) \/ AllocSucceeds(a, n))
  <2>1. n \in Counts /\ a \notin ready
    BY <1>2, Constants DEF MaxOf, Counts, mp_init_size, Uninitialised
  <2>. QED
    BY <1>2, <2>1, AllocFailsStutters, AllocSucceedsMaps DEF Mapped
<1>. QED
  BY <1>1, <1>2 DEF mp_init_size
(* A step that takes the structures of X, whose blocks are their own, out  *)
(* of use.                                                                 *)
LEMMA ClearMultiMaps ==
  ASSUME Inv, NEW X \in SUBSET Ints, mp_clear_multi(X)
  PROVE  Mapped
<1>. DEFINE gone == {mp[x].dp : x \in X} \ {NULL}
<1>1. ready \subseteq Ints
  BY DEF Inv, TypeOK
<1>2. /\ heap' = [b \in Blocks |-> IF b \in gone THEN FreeBlock ELSE heap[b]]
      /\ mp' = [x \in Ints |-> IF x \in X /\ mp[x].dp # NULL THEN Cleared ELSE mp[x]]
      /\ ready' = ready \ X
  BY DEF mp_clear_multi
<1>3. ASSUME NEW y \in ready \ X
      PROVE  mp'[y] = mp[y] /\ heap'[mp[y].dp] = heap[mp[y].dp]
  <2>1. mp[y].dp \in Blocks /\ y \in Ints
    BY ReadyFacts
  <2>2. \A x \in X : mp[x].dp # mp[y].dp
    BY <1>3, <2>1 DEF Inv, Ownership
  <2>. QED
    BY <1>2, <2>1, <2>2
<1>4. \A y \in ready \ X : ValueOf(y)' = ValueOf(y)
  BY <1>3 DEF ValueOf, isneg, Dp
<1>5. valuation' = [x \in Ints |-> IF x \in X THEN Absent ELSE valuation[x]]
  BY <1>1, <1>2, <1>4, ValuationFacts
<1>6. Values!Destroy(X)
  BY <1>5 DEF Values!Destroy
<1>. QED
  BY <1>6 DEF Mapped, Values!Next

LEMMA ClearMaps ==
  ASSUME Inv, NEW a \in Ints, mp_clear(a)
  PROVE  Mapped
<1>1. CASE mp[a].dp = NULL
  BY <1>1, NothingMoves DEF mp_clear, Mapped
<1>2. CASE mp[a].dp # NULL
  <2>1. mp \in [Ints -> Members] /\ heap \in [Blocks -> Block]
    BY DEF Inv, TypeOK, Members, Block
  <2>2. {mp[x].dp : x \in {a}} \ {NULL} = {mp[a].dp}
    BY <1>2
  <2>3. heap' = [b \in Blocks |-> IF b \in {mp[a].dp} THEN FreeBlock ELSE heap[b]]
    BY <1>2, <2>1 DEF mp_clear
  <2>4. mp' = [x \in Ints |-> IF x \in {a} /\ mp[x].dp # NULL THEN Cleared ELSE mp[x]]
    BY <1>2, <2>1 DEF mp_clear
  <2>5. mp_clear_multi({a})
    BY <1>2, <2>2, <2>3, <2>4 DEF mp_clear, mp_clear_multi
  <2>. QED
    BY <2>5, ClearMultiMaps
<1>. QED
  BY <1>1, <1>2

LEMMA InitMultiMaps ==
  ASSUME Inv, NEW a \in Ints, NEW b \in Ints, a # b, mp_init_multi(<< a, b >>)
  PROVE  Mapped
<1>. DEFINE s == << a, b >>
<1>1. mp \in [Ints -> Members] /\ heap \in [Blocks -> Block] /\ ready \subseteq Ints
  BY DEF Inv, TypeOK, Members, Block
<1>2. DOMAIN s = {1, 2} /\ s[1] = a /\ s[2] = b
  OBVIOUS
<1>. HIDE DEF s
<1>3. a \notin ready /\ b \notin ready
  BY <1>2 DEF mp_init_multi, s, Uninitialised
<1>4. ASSUME NEW k \in DOMAIN s,
             mp' = [x \in Ints |-> IF \E j \in DOMAIN s : j < k /\ s[j] = x THEN Cleared
                                   ELSE IF x = s[k] THEN [mp[x] EXCEPT !.dp = NULL]
                                   ELSE mp[x]],
             UNCHANGED << heap, ready >>
      PROVE  Stutter
  <2>1. \A x \in Ints : x # a /\ x # b => mp'[x] = mp[x]
    BY <1>2, <1>4
  <2>. QED
    BY <1>1, <1>3, <1>4, <2>1, OthersMove
<1>5. ASSUME NEW at \in [DOMAIN s -> {c \in Blocks : IsFree(c)}],
             heap' = [c \in Blocks |-> IF \E k \in DOMAIN s : at[k] = c
                                         THEN Zeroed(MP_DEFAULT_DIGIT_COUNT) ELSE heap[c]],
             mp' = [x \in Ints |-> IF \E k \in DOMAIN s : s[k] = x
                                     THEN Fresh(at[CHOOSE k \in DOMAIN s : s[k] = x],
                                                MP_DEFAULT_DIGIT_COUNT)
                                     ELSE mp[x]],
             ready' = ready \cup {s[k] : k \in DOMAIN s}
      PROVE  Values!Create({a, b})
  <2>. DEFINE n == MP_DEFAULT_DIGIT_COUNT
  <2>1. \A c : Fresh(c, n).used = 0 /\ Fresh(c, n).sign = MP_ZPOS
    BY DEF Fresh
  <2>2. \A y \in {a, b} : mp'[y].used = 0 /\ mp'[y].sign = MP_ZPOS
    BY <1>2, <1>5, <2>1
  <2>3. ready' = ready \cup {a, b}
    BY <1>2, <1>5
  <2>4. ASSUME NEW y \in ready
        PROVE  mp'[y] = mp[y] /\ heap'[mp[y].dp] = heap[mp[y].dp]
    <3>1. heap[mp[y].dp].size >= MP_MIN_DIGIT_COUNT /\ mp[y].dp \in Blocks /\ y \in Ints
      BY ReadyFacts DEF Dp
    <3>2. \A k \in DOMAIN s : heap[at[k]].size = 0
      BY <1>5 DEF IsFree
    <3>. QED
      BY <1>2, <1>3, <1>5, <3>1, <3>2, Constants
  <2>. HIDE DEF n
  <2>5. \A y \in {a, b} : ValueOf(y)' = Number(MP_ZPOS, Dp(y)'.digit, 0)
    BY <2>2 DEF ValueOf, Number, isneg
  <2>6. \A y \in {a, b} : ValueOf(y)' = Values!Zero
    BY <2>5, ZeroNumber
  <2>7. \A y \in ready : ValueOf(y)' = ValueOf(y)
    BY <2>4 DEF ValueOf, isneg, Dp
  <2>8. valuation' = [x \in Ints |-> IF x \in {a, b} THEN Values!Zero ELSE valuation[x]]
    BY <1>1, <1>3, <2>3, <2>6, <2>7, ValuationFacts
  <2>9. \A x \in {a, b} : valuation[x] = Absent
    BY <1>3, ValuationFacts
  <2>. QED
    BY <2>8, <2>9 DEF Values!Create
<1>6. {a, b} \in SUBSET Ints
  OBVIOUS
<1>. QED
  BY <1>4, <1>5, <1>6 DEF mp_init_multi, s, Mapped, Values!Next

LEMMA InitCopyMaps ==
  ASSUME Inv, NEW a \in Ints, NEW b \in Ints, mp_init_copy(a, b)
  PROVE  Mapped
<1>. DEFINE n == MaxOf(MP_MIN_DIGIT_COUNT, mp[b].used)
            d == CopiedDigits(Dp(b), mp[b].used, Zeroed(n), 0)
            block == [Zeroed(n) EXCEPT !.digit = d]
<1>1. a \notin ready /\ b \in ready
  BY DEF mp_init_copy, Uninitialised
<1>2. n \in Counts /\ mp[b].used \in Counts /\ mp[b].used \in 0 .. n
  BY <1>1, ReadyFacts, Constants DEF MaxOf, Counts
<1>. HIDE DEF n
<1>3. d = [i \in Places |-> IF i < mp[b].used THEN Dp(b).digit[i] ELSE 0]
  BY Constants DEF CopiedDigits, Zeroed, NoDigits, Places
<1>4. d \in [Places -> Digits]
  BY <1>1, <1>3, ReadyFacts, Constants DEF Digits
<1>5. block = [size |-> n, digit |-> d]
  BY DEF Zeroed
<1>6. \A i \in 1 .. mp[b].used : d[i - 1] = Dp(b).digit[i - 1]
  BY <1>2, <1>3, Constants DEF Places, Counts
<1>. HIDE DEF block, d
<1>7. CASE AllocFails(a)
  BY <1>1, <1>7, AllocFailsStutters DEF Mapped
<1>8. ASSUME NEW to \in Blocks, IsFree(to), heap' = [heap EXCEPT ![to] = block],
             mp' = [mp EXCEPT ![a] = [used |-> mp[b].used, alloc |-> n, sign |-> mp[b].sign, dp |-> to]],
             ready' = ready \cup {a}, err' = "OKAY"
      PROVE  Values!Clone(a, b)
  <2>. DEFINE rec == [used |-> mp[b].used, alloc |-> n, sign |-> mp[b].sign, dp |-> to]
  <2>1. rec \in Members /\ rec.dp = to /\ rec.used = mp[b].used /\ rec.sign = mp[b].sign
    BY <1>1, <1>2, ReadyFacts DEF Members
  <2>2. block \in Block /\ block.digit = d
    BY <1>2, <1>4, <1>5 DEF Block
  <2>3. Start(a, to, block, rec)
    BY <1>8 DEF Start
  <2>. HIDE DEF rec
  <2>4. valuation' = [valuation EXCEPT ![a] = Number(mp[b].sign, d, mp[b].used)]
    BY <1>1, <1>8, <2>1, <2>2, <2>3, StartSets
  <2>5. Number(mp[b].sign, d, mp[b].used) = ValueOf(b)
    BY <1>6, ValueOfNumber DEF Number
  <2>6. valuation[a] = Absent /\ valuation[b] = ValueOf(b) /\ ValueOf(b) # Absent
    BY <1>1, ValuationFacts, MagnitudeFacts
  <2>. QED
    BY <2>4, <2>5, <2>6 DEF Values!Clone
<1>. QED
  BY <1>7, <1>8 DEF mp_init_copy, n, d, block, Mapped, Values!Next

LEMMA ExchMaps ==
  ASSUME Inv, NEW a \in Ints, NEW b \in Ints, mp_exch(a, b)
  PROVE  Mapped
<1>1. mp \in [Ints -> Members] /\ a \in ready /\ b \in ready /\ ready \subseteq Ints
  BY DEF Inv, TypeOK, Members, mp_exch
<1>2. mp' = [mp EXCEPT ![a] = mp[b], ![b] = mp[a]] /\ heap' = heap /\ ready' = ready
  BY DEF mp_exch
<1>. DEFINE other(y) == IF y = a THEN b ELSE IF y = b THEN a ELSE y
<1>3. \A y \in Ints : mp'[y] = mp[other(y)] /\ other(y) \in Ints /\ (other(y) \in ready <=> y \in ready)
  BY <1>1, <1>2
<1>. HIDE DEF other
<1>4. \A y \in Ints : valuation'[y] = valuation[other(y)]
  <2>1. ASSUME NEW y \in Ints PROVE ValueOf(y)' = ValueOf(other(y))
    <3>. DEFINE z == other(y)
    <3>1. mp'[y] = mp[z] /\ heap' = heap
      BY <1>2, <1>3
    <3>. HIDE DEF z
    <3>2. ValueOf(y)' = ValueOf(z)
      BY <3>1 DEF ValueOf, isneg, Dp
    <3>. QED
      BY <3>2 DEF z
  <2>. QED
    BY <1>2, <1>3, <2>1, ValuationFacts
<1>5. valuation' = [valuation EXCEPT ![a] = valuation[b], ![b] = valuation[a]]
  BY <1>4, ValuationFacts DEF other
<1>6. Values!Swap(a, b)
  BY <1>5 DEF Values!Swap
<1>. QED
  BY <1>6 DEF Mapped, Values!Next
-----------------------------------------------------------------------------
(* Assignments.  mp_copy, mp_abs and mp_neg store the digits of a under a  *)
(* sign.                                                                   *)
LEMMA CopyAssigns ==
  ASSUME Inv, NEW a \in Ints, NEW b \in Ints, NEW sign, CopyWithSign(a, b, sign)
  PROVE  \/ Stutter
         \/ /\ a \in ready /\ b \in ready
            /\ valuation' = [valuation EXCEPT ![b] = Number(sign, Dp(a).digit, mp[a].used)]
<1>1. a \in ready /\ b \in ready
  BY DEF CopyWithSign
<1>2. CASE a = b /\ Store(b, Kept(b), mp[b].used, sign, Dp(b).digit)
  <2>1. Kept(b).dp \in ReallocTargets(mp[b].dp) /\ Kept(b).block \in Block
    BY <1>1, ReadyFacts DEF Kept, ReallocTargets
  <2>. QED
    BY <1>1, <1>2, <2>1, StoreAssigns
<1>3. ASSUME NEW g \in Growths(b, mp[a].used), a # b,
             \/ g.code # "OKAY" /\ Fail(g.code)
             \/ /\ g.code = "OKAY"
                /\ Store(b, g, mp[a].used, sign,
                         CopiedDigits(Dp(a), mp[a].used, g.block, mp[b].used))
      PROVE  \/ Stutter
             \/ valuation' = [valuation EXCEPT ![b] = Number(sign, Dp(a).digit, mp[a].used)]
  <2>1. CASE Fail(g.code)
    BY <2>1, NothingMoves DEF Fail
  <2>2. CASE /\ g.code = "OKAY"
             /\ Store(b, g, mp[a].used, sign,
                      CopiedDigits(Dp(a), mp[a].used, g.block, mp[b].used))
    <3>. DEFINE d == CopiedDigits(Dp(a), mp[a].used, g.block, mp[b].used)
    <3>1. mp[a].used \in Nat /\ mp[a].used <= MP_MAX_DIGIT_COUNT
      BY <1>1, ReadyFacts, Constants DEF Counts
    <3>2. g.dp \in ReallocTargets(mp[b].dp) /\ g.block \in Block
      BY <1>1, <2>2, <3>1, GrowthFacts
    <3>3. \A i \in 1 .. mp[a].used : d[i - 1] = Dp(a).digit[i - 1]
      BY <3>1, Constants DEF CopiedDigits, Places
    <3>. HIDE DEF d
    <3>4. valuation' = [valuation EXCEPT ![b] = Number(sign, d, mp[a].used)]
      BY <1>1, <2>2, <3>2, StoreAssigns DEF d
    <3>5. Number(sign, d, mp[a].used) = Number(sign, Dp(a).digit, mp[a].used)
      BY <3>3 DEF Number
    <3>. QED
      BY <3>4, <3>5
  <2>. QED
    BY <1>3, <2>1, <2>2
<1>. QED
  BY <1>1, <1>2, <1>3 DEF CopyWithSign

LEMMA CopyMaps ==
  ASSUME Inv, NEW a \in Ints, NEW b \in Ints,
         mp_copy(a, b) \/ mp_abs(a, b) \/ mp_neg(a, b)
  PROVE  Mapped
<1>. DEFINE N(sign) == Number(sign, Dp(a).digit, mp[a].used)
<1>1. ASSUME a \in ready
      PROVE  /\ valuation[a] = ValueOf(a) /\ ValueOf(a) # Absent
             /\ ValueOf(a).neg = isneg(a) /\ (ValueOf(a).mag = << >> <=> iszero(a))
             /\ N(mp[a].sign) = ValueOf(a)
             /\ N(MP_ZPOS) = [ValueOf(a) EXCEPT !.neg = FALSE]
             /\ N(MP_NEG) = [ValueOf(a) EXCEPT !.neg = TRUE]
  <2>1. a \in Ints /\ valuation[a] = ValueOf(a) /\ N(mp[a].sign) = ValueOf(a)
    BY <1>1, ValuationFacts, ValueOfNumber
  <2>2. /\ ValueOf(a) # Absent /\ ValueOf(a).neg = isneg(a)
        /\ ValueOf(a).mag = << >> <=> iszero(a)
    BY <1>1, MagnitudeFacts
  <2>3. N(MP_ZPOS) = [ValueOf(a) EXCEPT !.neg = FALSE] /\ N(MP_NEG) = [ValueOf(a) EXCEPT !.neg = TRUE]
    <3>1. (MP_ZPOS = MP_NEG) = FALSE /\ (MP_NEG = MP_NEG) = TRUE
      BY DEF MP_ZPOS, MP_NEG
    <3>. QED
      BY <3>1, ValueParts, Zenon
  <2>. QED
    BY <2>1, <2>2, <2>3
<1>2. ASSUME b \in ready PROVE valuation[b] # Absent
  BY <1>2, ValuationFacts, MagnitudeFacts
<1>. HIDE DEF N
<1>3. CASE mp_copy(a, b)
  <2>1. \/ Stutter
        \/ /\ a \in ready /\ b \in ready
           /\ valuation' = [valuation EXCEPT ![b] = N(mp[a].sign)]
    BY <1>3, CopyAssigns DEF mp_copy, N
  <2>2. Stutter \/ Values!Copy(a, b)
    BY <2>1, <1>1, <1>2 DEF Values!Copy, Values!Assign
  <2>. QED
    BY <2>2 DEF Mapped, Values!Next
<1>4. CASE mp_abs(a, b)
  <2>1. \/ Stutter
        \/ /\ a \in ready /\ b \in ready
           /\ valuation' = [valuation EXCEPT ![b] = N(MP_ZPOS)]
    BY <1>4, CopyAssigns DEF mp_abs, N
  <2>2. Stutter \/ Values!Abs(a, b)
    BY <2>1, <1>1, <1>2 DEF Values!Abs, Values!Assign
  <2>. QED
    BY <2>2 DEF Mapped, Values!Next
<1>5. CASE mp_neg(a, b)
  <2>. DEFINE sign == IF ~ iszero(a) /\ ~ isneg(a) THEN MP_NEG ELSE MP_ZPOS
  <2>1. \/ Stutter
        \/ /\ a \in ready /\ b \in ready
           /\ valuation' = [valuation EXCEPT ![b] = N(sign)]
    BY <1>5, CopyAssigns DEF mp_neg, N
  <2>2. ASSUME a \in ready
        PROVE  N(sign) = [valuation[a] EXCEPT
                             !.neg = ~ Values!IsZero(valuation[a]) /\ ~ @]
    <3>1. Values!IsZero(valuation[a]) <=> iszero(a)
      BY <1>1, <2>2 DEF Values!IsZero
    <3>2. valuation[a].neg = isneg(a)
      BY <1>1, <2>2
    <3>3. CASE ~ iszero(a) /\ ~ isneg(a)
      <4>1. (~ Values!IsZero(valuation[a]) /\ ~ valuation[a].neg) = TRUE
        BY <3>1, <3>2, <3>3
      <4>2. N(sign) = N(MP_NEG)
        BY <3>3
      <4>. QED
        BY <4>1, <4>2, <1>1, <2>2
    <3>4. CASE ~ (~ iszero(a) /\ ~ isneg(a))
      <4>1. (~ Values!IsZero(valuation[a]) /\ ~ valuation[a].neg) = FALSE
        BY <3>1, <3>2, <3>4
      <4>2. N(sign) = N(MP_ZPOS)
        BY <3>4
      <4>. QED
        BY <4>1, <4>2, <1>1, <2>2
    <3>. QED
      BY <3>3, <3>4
  <2>. HIDE DEF sign
  <2>3. Stutter \/ Values!Neg(a, b)
    BY <2>1, <2>2, <1>1, <1>2 DEF Values!Neg, Values!Assign
  <2>. QED
    BY <2>3 DEF Mapped, Values!Next
<1>. QED
  BY <1>3, <1>4, <1>5

(* A store in the block the structure has.                                 *)
LEMMA InPlaceAssigns ==
  ASSUME Inv, NEW a \in ready, NEW used, NEW sign, NEW digit,
         Store(a, Kept(a), used, sign, digit)
  PROVE  valuation' = [valuation EXCEPT ![a] = Number(sign, digit, used)]
<1>1. Kept(a).dp \in ReallocTargets(mp[a].dp) /\ Kept(a).block \in Block
  BY ReadyFacts DEF Kept, ReallocTargets
<1>. QED
  BY <1>1, StoreAssigns

LEMMA ZeroAssigns ==
  ASSUME Inv, NEW a \in Ints, mp_zero(a)
  PROVE  /\ a \in ready /\ valuation[a] # Absent
         /\ valuation' = [valuation EXCEPT ![a] = Values!Zero]
<1>1. a \in ready
  BY DEF mp_zero
<1>2. valuation' = [valuation EXCEPT ![a] = Number(MP_ZPOS, ZeroDigs(Dp(a), 0, mp[a].used).digit, 0)]
  BY <1>1, InPlaceAssigns DEF mp_zero
<1>3. valuation[a] # Absent
  BY <1>1, ValuationFacts, MagnitudeFacts
<1>. QED
  BY <1>1, <1>2, <1>3, ZeroNumber

LEMMA ZeroMaps ==
  ASSUME Inv, NEW a \in Ints, mp_zero(a)
  PROVE  Mapped
<1>1. Values!Zero = [neg |-> FALSE, mag |-> IF 0 = 0 THEN << >> ELSE << 0 >>]
  BY DEF Values!Zero
<1>2. Values!SetDigit(a, 0)
  BY <1>1, ZeroAssigns DEF Values!SetDigit, Values!Assign
<1>3. 0 \in Digits
  BY Constants DEF Digits
<1>. QED
  BY <1>2, <1>3 DEF Mapped, Values!Next

LEMMA SetMaps ==
  ASSUME Inv, NEW a \in Ints, NEW d \in Digits, mp_set(a, d)
  PROVE  Mapped
<1>. DEFINE used == IF d # 0 THEN 1 ELSE 0
            set == [Dp(a) EXCEPT !.digit[0] = d]
            new == ZeroDigs(set, used, mp[a].used - used).digit
<1>1. a \in ready /\ Store(a, Kept(a), used, MP_ZPOS, new)
  BY DEF mp_set
<1>2. valuation' = [valuation EXCEPT ![a] = Number(MP_ZPOS, new, used)]
  BY <1>1, InPlaceAssigns
<1>3. valuation[a] # Absent
  BY <1>1, ValuationFacts, MagnitudeFacts
<1>4. CASE d = 0
  <2>1. Number(MP_ZPOS, new, used) = Values!Zero
    BY <1>4, ZeroNumber
  <2>2. Values!SetDigit(a, d)
    BY <1>2, <1>3, <1>4, <2>1 DEF Values!SetDigit, Values!Assign, Values!Zero
  <2>. QED
    BY <2>2 DEF Mapped, Values!Next
<1>5. CASE d # 0
  <2>1. Dp(a) \in Block /\ mp[a].used \in Nat /\ Dp(a).digit \in [Places -> Digits]
    BY <1>1, ReadyFacts
  <2>2. set \in Block /\ set.digit = [Dp(a).digit EXCEPT ![0] = d]
    BY <2>1 DEF Block
  <2>. HIDE DEF set
  <2>3. new = [i \in Places |-> IF 1 <= i /\ i < 1 + (mp[a].used - 1) THEN 0 ELSE set.digit[i]]
    BY <1>5, <2>2 DEF ZeroDigs, Block
  <2>4. new[0] = d
    BY <2>1, <2>2, <2>3, Constants DEF Places
  <2>. HIDE DEF new
  <2>5. [i \in 1 .. 1 |-> new[i - 1]] = << d >>
    <3>1. \A i \in 1 .. 1 : new[i - 1] = d
      BY <2>4
    <3>2. [i \in 1 .. 1 |-> new[i - 1]] = [i \in 1 .. 1 |-> d]
      BY <3>1
    <3>3. << d >> = [i \in 1 .. 1 |-> d]
      OBVIOUS
    <3>. QED
      BY <3>2, <3>3
  <2>6. Number(MP_ZPOS, new, used) = [neg |-> FALSE, mag |-> << d >>]
    BY <1>5, <2>5 DEF Number, MP_ZPOS, MP_NEG
  <2>7. Values!SetDigit(a, d)
    BY <1>2, <1>3, <1>5, <2>6 DEF Values!SetDigit, Values!Assign
  <2>. QED
    BY <2>7 DEF Mapped, Values!Next
<1>. QED
  BY <1>4, <1>5

(* A shift by n > 0 places of a number that is not zero.                   *)
LEMMA LShdMaps ==
  ASSUME Inv, NEW a \in Ints, NEW n \in 0 .. MaxShift, mp_lshd(a, n)
  PROVE  Mapped
<1>1. a \in ready /\ n \in Int
  BY Constants DEF mp_lshd
<1>2. CASE UNCHANGED << mp, heap, ready >>
  BY <1>2, NothingMoves DEF Mapped
<1>. DEFINE used == mp[a].used + n
            d(g) == [i \in Places |-> IF i < n THEN 0
                                      ELSE IF i < mp[a].used + n THEN g.block.digit[i - n]
                                      ELSE g.block.digit[i]]
<1>3. ASSUME n > 0, ~ iszero(a), NEW g \in Growths(a, used),
             \/ g.code # "OKAY" /\ Fail(g.code)
             \/ g.code = "OKAY" /\ Store(a, g, used, mp[a].sign, d(g))
      PROVE  Mapped
  <2>1. /\ mp[a].used \in Nat /\ mp[a].used <= mp[a].alloc /\ mp[a].alloc \in Nat
        /\ used \in Int
    BY <1>1, ReadyFacts, Constants DEF Counts
  <2>2. CASE Fail(g.code)
    BY <2>2, NothingMoves DEF Fail, Mapped
  <2>3. CASE g.code = "OKAY" /\ Store(a, g, used, mp[a].sign, d(g))
    <3>. DEFINE v == ValueOf(a)
                up == Values!ShiftUp(v.mag, n)
    <3>1. /\ g.dp \in ReallocTargets(mp[a].dp) /\ g.block \in Block /\ g.block.size >= used
          /\ \A i \in Places : i < mp[a].alloc => g.block.digit[i] = Dp(a).digit[i]
      BY <1>1, <2>1, <2>3, GrowthFacts
    <3>2. used <= MP_MAX_DIGIT_COUNT
      BY <2>1, <3>1, Constants DEF Block, Counts
    <3>3. valuation' = [valuation EXCEPT ![a] = Number(mp[a].sign, d(g), used)]
      BY <1>1, <2>3, <3>1, StoreAssigns
    <3>4. /\ v # Absent /\ v.mag # << >> /\ valuation[a] = v /\ Len(v.mag) = mp[a].used
          /\ \A i \in 1 .. mp[a].used : v.mag[i] = Dp(a).digit[i - 1]
      BY <1>1, <1>3, ValuationFacts, MagnitudeFacts
    <3>. HIDE DEF v
    <3>5. up = [i \in 1 .. used |-> IF i <= n THEN 0 ELSE v.mag[i - n]]
      BY <3>4 DEF Values!ShiftUp
    <3>6. ASSUME NEW i \in 1 .. used PROVE d(g)[i - 1] = IF i <= n THEN 0 ELSE v.mag[i - n]
      <4>1. i - 1 \in Places /\ i - 1 < used
        BY <2>1, <3>2, Constants DEF Places
      <4>2. CASE i <= n
        BY <1>1, <4>1, <4>2
      <4>3. CASE i > n
        <5>. DEFINE l == mp[a].used
                    m == mp[a].alloc
                    z == MP_MAX_DIGIT_COUNT
        <5>0. /\ l \in Nat /\ m \in Nat /\ l <= m /\ used = l + n /\ used <= z
              /\ n \in Int /\ z \in Int
          <6>1. n \in Int /\ z \in Int
            BY Constants
          <6>. QED
            BY <1>1, <2>1, <3>2, <6>1
        <5>. HIDE DEF l, m, z
        <5>6. i \in Int /\ i <= l + n /\ i > n
          BY <4>3, <5>0
        <5>7. i - 1 - n \in 0 .. z - 1 /\ i - 1 - n < m /\ i - n \in 1 .. l
                /\ i - n - 1 = i - 1 - n
          <6>1. n >= 0
            BY <1>1
          <6>. QED
            BY <5>0, <5>6, <6>1
        <5>1. i - 1 - n \in Places /\ i - 1 - n < mp[a].alloc /\ i - n \in 1 .. mp[a].used
              /\ i - n - 1 = i - 1 - n
          BY <5>7 DEF Places, l, m, z
        <5>2. d(g)[i - 1] = g.block.digit[i - 1 - n]
          BY <1>1, <4>1, <4>3
        <5>. QED
          BY <3>1, <3>4, <4>3, <5>1, <5>2
      <4>. QED
        BY <1>1, <4>2, <4>3
    <3>. HIDE DEF d, used, up
    <3>7. Number(mp[a].sign, d(g), used) = [v EXCEPT !.mag = up]
      <4>1. [i \in 1 .. used |-> d(g)[i - 1]] = up
        BY <3>5, <3>6
      <4>. QED
        BY <4>1, ValueParts DEF Number, v
    <3>8. Values!ShiftLeft(a, n)
      BY <3>3, <3>4, <3>7 DEF Values!ShiftLeft, Values!Assign, Values!IsZero, up
    <3>. QED
      BY <1>3, <3>4, <3>8 DEF Mapped, Values!Next
  <2>. QED
    BY <1>3, <2>2, <2>3
<1>. QED
  BY <1>2, <1>3 DEF mp_lshd

LEMMA RShdMaps ==
  ASSUME Inv, NEW a \in Ints, NEW n \in 0 .. MaxShift, mp_rshd(a, n)
  PROVE  Mapped
<1>1. a \in ready /\ n \in Int
  BY Constants DEF mp_rshd
<1>2. CASE UNCHANGED << mp, heap, ready >>
  BY <1>2, NothingMoves DEF Mapped
<1>3. CASE mp_zero(a)
  BY <1>3, ZeroMaps
<1>. DEFINE left == mp[a].used - n
            slid == [Dp(a) EXCEPT !.digit = [i \in Places |-> IF i < left THEN @[i + n] ELSE @[i]]]
            new == ZeroDigs(slid, left, n).digit
            v == ValueOf(a)
            down == SubSeq(v.mag, n + 1, Len(v.mag))
<1>4. CASE n > 0 /\ mp[a].used > n /\ Store(a, Kept(a), left, mp[a].sign, new)
  <2>1. /\ Dp(a) \in Block /\ mp[a].used \in Nat /\ Dp(a).digit \in [Places -> Digits]
        /\ mp[a].used <= MP_MAX_DIGIT_COUNT /\ left \in Nat
    BY <1>1, <1>4, ReadyFacts, Constants DEF Counts
  <2>2. slid.digit = [i \in Places |-> IF i < left THEN Dp(a).digit[i + n] ELSE Dp(a).digit[i]]
    BY <2>1 DEF Block
  <2>3. new = [i \in Places |-> IF left <= i /\ i < left + n THEN 0 ELSE slid.digit[i]]
    BY <2>1 DEF ZeroDigs, Block
  <2>4. valuation' = [valuation EXCEPT ![a] = Number(mp[a].sign, new, left)]
    BY <1>1, <1>4, InPlaceAssigns
  <2>5. /\ v # Absent /\ valuation[a] = v /\ Len(v.mag) = mp[a].used /\ v.mag \in Seq(Digits)
        /\ \A i \in 1 .. mp[a].used : v.mag[i] = Dp(a).digit[i - 1]
    BY <1>1, ValuationFacts, MagnitudeFacts
  <2>. HIDE DEF v, slid, new
  <2>6. \A i \in (n + 1) .. Len(v.mag) : v.mag[i] \in Digits
    BY <1>1, <1>4, <2>1, <2>5
  <2>7. /\ down \in Seq(Digits) /\ Len(down) = left
        /\ \A i \in 1 .. left : down[i] = v.mag[n + 1 + i - 1]
    <3>1. n + 1 \in Int /\ Len(v.mag) \in Int
      BY <1>1, <2>1, <2>5
    <3>. HIDE DEF left
    <3>2. /\ down \in Seq(Digits)
          /\ Len(down) = IF n + 1 <= Len(v.mag) THEN Len(v.mag) - (n + 1) + 1 ELSE 0
          /\ \A i \in 1 .. Len(v.mag) - (n + 1) + 1 : down[i] = v.mag[n + 1 + i - 1]
      BY <2>6, <3>1, SubSeqProperties
    <3>3. Len(v.mag) - (n + 1) + 1 = left /\ n + 1 <= Len(v.mag)
      BY <1>1, <1>4, <2>1, <2>5 DEF left
    <3>. QED
      BY <3>2, <3>3
  <2>. DEFINE m == [i \in 1 .. left |-> new[i - 1]]
  <2>8. ASSUME NEW i \in 1 .. left PROVE new[i - 1] = down[i] /\ new[i - 1] \in Digits
    <3>1. /\ i \in Int /\ 1 <= i /\ i <= left /\ n \in Int /\ n > 0
          /\ MP_MAX_DIGIT_COUNT \in Int /\ left + n = mp[a].used
      BY <1>1, <1>4, <2>1, Constants
    <3>. HIDE DEF left
    <3>2. i - 1 \in Places /\ i - 1 < left /\ i - 1 + n \in Places
      BY <2>1, <3>1 DEF Places
    <3>3. n + i \in 1 .. mp[a].used /\ n + i - 1 = i - 1 + n /\ n + 1 + i - 1 = n + i
      BY <2>1, <3>1
    <3>4. new[i - 1] = Dp(a).digit[i - 1 + n]
      BY <2>1, <2>2, <2>3, <3>1, <3>2
    <3>5. down[i] = Dp(a).digit[i - 1 + n]
      <4>1. down[i] = v.mag[n + i]
        BY <2>7, <3>3 DEF left
      <4>. HIDE DEF down
      <4>. QED
        BY <2>5, <3>3, <4>1
    <3>. QED
      BY <2>1, <3>2, <3>4, <3>5
  <2>9. m \in Seq(Digits) /\ Len(m) = left
    <3>1. m \in [1 .. left -> Digits]
      BY <2>8
    <3>. HIDE DEF m, left
    <3>. QED
      BY <2>1, <3>1, FunctionIsSeq
  <2>10. m = down
    <3>1. \A i \in 1 .. Len(m) : m[i] = down[i]
      BY <2>8, <2>9
    <3>. HIDE DEF m, left, down
    <3>. QED
      BY <2>7, <2>9, <3>1, SeqEqual
  <2>11. Number(mp[a].sign, new, left) = [v EXCEPT !.mag = down]
    <3>1. Number(mp[a].sign, new, left) = [neg |-> mp[a].sign = MP_NEG, mag |-> m]
      BY DEF Number
    <3>. HIDE DEF m, down
    <3>2. [neg |-> mp[a].sign = MP_NEG, mag |-> down] = [v EXCEPT !.mag = down]
      BY ValueParts DEF v
    <3>. QED
      BY <2>10, <3>1, <3>2
  <2>12. ~ (Len(v.mag) <= n)
    BY <1>1, <1>4, <2>1, <2>5
  <2>13. Values!ShiftRight(a, n)
    BY <2>4, <2>5, <2>11, <2>12 DEF Values!ShiftRight, Values!Assign
  <2>. QED
    BY <1>4, <2>5, <2>13 DEF Mapped, Values!Next
<1>. QED
  BY <1>2, <1>3, <1>4 DEF mp_rshd

-----------------------------------------------------------------------------
LEMMA InitMapped == Init => Values!Init
BY DEF Init, Values!Init, valuation

LEMMA NextMapped == Inv /\ [Next]_vars => [Values!Next]_valuation
<1>. SUFFICES ASSUME Inv, [Next]_vars PROVE Mapped
  BY DEF Mapped, Stutter
<1>1. ASSUME NEW a \in Ints, mp_init(a) \/ mp_clear(a) \/ mp_shrink(a) \/ mp_zero(a)
      PROVE  Mapped
  BY <1>1, InitMaps, ClearMaps, ShrinkStutters, ZeroMaps DEF Mapped
<1>2. ASSUME NEW a \in Ints, NEW n \in -1 .. MP_MAX_DIGIT_COUNT + 1,
             mp_init_size(a, n) \/ mp_grow(a, n)
      PROVE  Mapped
  BY <1>2, InitSizeMaps, GrowStutters DEF Mapped
<1>3. ASSUME NEW a \in Ints, NEW b \in Ints, a # b, mp_init_multi(<< a, b >>)
      PROVE  Mapped
  BY <1>3, InitMultiMaps
<1>4. ASSUME NEW X \in SUBSET Ints, mp_clear_multi(X)
      PROVE  Mapped
  BY <1>4, ClearMultiMaps
<1>5. ASSUME NEW a \in Ints, NEW b \in Ints,
             mp_init_copy(a, b) \/ mp_exch(a, b) \/ mp_copy(a, b) \/ mp_abs(a, b) \/ mp_neg(a, b)
      PROVE  Mapped
  BY <1>5, InitCopyMaps, ExchMaps, CopyMaps
<1>6. ASSUME NEW a \in Ints, NEW d \in Digits, mp_set(a, d)
      PROVE  Mapped
  BY <1>6, SetMaps
<1>7. ASSUME NEW a \in Ints, NEW n \in 0 .. MaxShift, mp_lshd(a, n) \/ mp_rshd(a, n)
      PROVE  Mapped
  BY <1>7, LShdMaps, RShdMaps
<1>8. CASE UNCHANGED vars
  BY <1>8, NothingMoves DEF vars, Mapped
<1>. QED
  BY <1>1, <1>2, <1>3, <1>4, <1>5, <1>6, <1>7, <1>8 DEF Next

(* Every call of the storage layer acts on the numbers as its abstract     *)
(* operation says, whatever blocks it moves, and a call that fails does    *)
(* not act on them: MpLifecycle implements MpValues.                       *)
THEOREM Implementation == Spec => ImplementsValues
BY InitMapped, NextMapped, Invariance, PTL DEF Spec, ImplementsValues, Values!Spec
=============================================================================
