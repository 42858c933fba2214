-------------------------- MODULE MpNumbers_proofs --------------------------
(***************************************************************************)
(* Theorems about the calls of MpNumbers, for every radix, every client    *)
(* and all integers.  A call stays in the component it was made of, so     *)
(* that the invariant of a component is kept by the steps of the others.   *)
(***************************************************************************)
EXTENDS MpNumbers, MpMul_proofs

ReduceOps == {"barrett", "montgomery", "dr", "2k", "2k_l", "normalization", "rho"}
RecursionOps == {"recursive"}
LogOps == {"log", "log_n"}
PrimeOps ==
  {"fermat", "miller_rabin", "lucas", "frobenius", "is_prime", "next_prime", "prime_rand", "rand",
   "trials"}
SourceOps == {"random"}
TextOps ==
  {"to_radix", "radix_size", "overestimate", "fwrite", "read_radix", "fread", "to_ubin", "to_sbin",
   "from_ubin", "from_sbin", "pack", "unpack", "set", "init_set", "get", "cmp"}
MachineOps == {"set_double", "get_double", "hash"}

LEMMA Operations ==
  ASSUME fr \in Frames
  PROVE  fr.op \in MulOps \cup ReduceOps \cup RecursionOps \cup LogOps \cup PrimeOps \cup SourceOps
                     \cup TextOps \cup MachineOps
<1>1. fr \in MulFrames \cup ReduceFrames \cup RecursionFrames \cup LogFrames \cup PrimeFrames
               \cup TextFrames \cup BytesFrames \cup MachineFrames \cup DoubleFrames \cup HashFrames
               \cup SourceFrames
  BY NumbersFramesAssumption
<1>2. fr \in MulFrames => fr.op \in MulOps
  BY DEF MulFrames, MulOps
<1>3. fr \in ReduceFrames => fr.op \in ReduceOps
  BY DEF ReduceFrames, ReduceOps
<1>4. fr \in RecursionFrames => fr.op \in RecursionOps
  BY DEF RecursionFrames, RecursionOps
<1>5. fr \in LogFrames => fr.op \in LogOps
  BY DEF LogFrames, LogOps
<1>6. fr \in PrimeFrames => fr.op \in PrimeOps
  BY DEF PrimeFrames, PrimeOps
<1>7. fr \in SourceFrames => fr.op \in SourceOps
  BY DEF SourceFrames, SourceOps
<1>8. fr \in TextFrames \cup BytesFrames \cup MachineFrames => fr.op \in TextOps
  BY DEF TextFrames, BytesFrames, MachineFrames, TextOps
<1>9. fr \in DoubleFrames \cup HashFrames => fr.op \in MachineOps
  BY DEF DoubleFrames, HashFrames, MachineOps
<1>. QED
  BY <1>1, <1>2, <1>3, <1>4, <1>5, <1>6, <1>7, <1>8, <1>9

-----------------------------------------------------------------------------
(* Where a call is, and the temporaries it owns there.                     *)
BarrettPcs == {"reduce", "reduce_rest", "reduce_back"}
MontgomeryPcs == {"montgomery_reduce", "montgomery_rows", "montgomery_columns", "montgomery_sub"}

ReduceOwns ==
  fr.op \in ReduceOps =>
    /\ pc \in ReduceOps \cup BarrettPcs \cup MontgomeryPcs
                \cup {"doublings", "dr_pass", "dr_compare", "2k_pass", "done"}
    /\ pc \in ReduceOps => fr.op = pc
    /\ fr.op = "rho" => pc \in {"rho", "done"}
    /\ live \subseteq {"q"}
    /\ pc \notin {"reduce_rest", "reduce_back", "2k_pass"} => live = {}

RecursionOwns ==
  fr.op \in RecursionOps =>
    /\ pc \in {"recursive", "chunks", "recursive_end", "done"}
    /\ pc \in {"recursive", "done"} => live = {}
    /\ pc \in {"chunks", "recursive_end"} => live = Locals
    /\ pc \in {"chunks", "recursive_end"} =>
         DOMAIN loc = {"A", "B", "Q", "m", "sigma", "back"}

LogOwns ==
  fr.op \in LogOps =>
    /\ pc \in {"log_n", "log", "log_power", "log_correct", "done"}
    /\ live \subseteq LogTemporaries
    /\ pc \in {"log_n", "done"} => live = {}

PrimePcs ==
  {"is_prime_bases", "is_prime_further", "is_prime_rounds", "next_prime_start", "next_prime_sieve",
   "prime_rand_draw", "rand_top"}

PrimeOwns ==
  fr.op \in PrimeOps =>
    /\ pc \in PrimeOps \cup PrimePcs \cup {"done"}
    /\ pc \in PrimeOps => fr.op = pc
    /\ pc \in {"is_prime_bases", "is_prime_further", "is_prime_rounds"} =>
         fr.op = "is_prime" /\ live = {"b"}
    /\ pc \in {"next_prime_start", "next_prime_sieve"} => fr.op = "next_prime" /\ live = {}
    /\ pc = "prime_rand_draw" => fr.op = "prime_rand" /\ live = {"tmp"}
    /\ pc = "rand_top" => fr.op = "rand" /\ live = {}
    /\ pc \in PrimeOps \cup {"done"} => live = {}

SourcePcs == {"arc4random", "wincsp", "getrandom", "urandom"}

SourceOwns ==
  fr.op \in SourceOps =>
    /\ pc \in {"random", "platform", "read", "done"} \cup SourcePcs
    /\ pc = "read" => live = {"fd"}
    /\ pc # "read" => live = {}
    /\ pc \in {"platform", "read"} \cup SourcePcs =>
         DOMAIN loc = {"tried", "p", "q", "n"} /\ loc.tried \in 0 .. 4

TextOwns ==
  fr.op \in TextOps =>
    /\ pc \in TextOps \cup {"to_radix_digit", "fwrite_end", "read_digit", "done"}
    /\ pc \in TextOps => fr.op = pc \/ (pc = "to_radix" /\ fr.op = "fwrite")
    /\ pc \in {"to_radix_digit", "fwrite_end"} => fr.op \in {"to_radix", "fwrite"}
    /\ pc = "read_digit" => fr.op \in {"read_radix", "fread"}
    /\ live \subseteq Buffers
    /\ pc \notin {"to_radix", "to_radix_digit", "fwrite_end"} => live = {}
    /\ pc = "to_radix" /\ fr.op # "fwrite" => live = {}

MachineOwns ==
  fr.op \in MachineOps =>
    /\ pc \in MachineOps \cup {"done"}
    /\ pc # "done" => pc = fr.op
    /\ live = {}

(* What a call leaves behind: only the recursive division leaves strays.   *)
StraysOwned ==
  pc = "done" /\ "stray" \in DOMAIN loc => fr.op = "recursive" /\ err = "MEM"

Ownership ==
  /\ fr \in Frames /\ StraysOwned
  /\ MulOwns /\ ReduceOwns /\ RecursionOwns /\ LogOwns
  /\ PrimeOwns /\ SourceOwns /\ TextOwns /\ MachineOwns

(* A step is one of the component the call belongs to.                     *)
LEMMA StepsAtHome ==
  ASSUME Ownership
  PROVE  /\ MulNext => fr.op \in MulOps /\ fr' = fr /\ pc # "done"
         /\ ReduceNext => fr.op \in ReduceOps /\ fr' = fr /\ pc # "done"
         /\ RecursionNext => fr.op \in RecursionOps /\ fr' = fr /\ pc # "done"
         /\ LogNext => fr.op \in LogOps /\ fr' = fr /\ pc # "done"
         /\ PrimeNext => fr.op \in PrimeOps /\ fr' = fr /\ pc # "done"
         /\ SourceNext => fr.op \in SourceOps /\ fr' = fr /\ pc # "done"
         /\ TextNext => fr.op \in TextOps /\ fr' = fr /\ pc # "done"
         /\ MachineNext => fr.op \in MachineOps /\ fr' = fr /\ pc # "done"
<1>. USE Operations DEF Ownership, MulOwns, ReduceOwns, RecursionOwns, LogOwns, PrimeOwns,
         SourceOwns, TextOwns, MachineOwns, MulOps, ReduceOps, RecursionOps, LogOps, PrimeOps,
         SourceOps, TextOps, MachineOps, PrimePcs, SourcePcs, BarrettPcs, MontgomeryPcs
<1>1. MulNext => pc \in MulOps \cup {"mul_begins", "mul_runs"} /\ fr' = fr
  BY DEF MulNext, mp_mul, s_mp_mul, s_mp_mul_high, no_routine, comba_begin, comba_column, comba_end,
         row_begin, mul_row, sqr_row, mul_high_row, row_end, balance_begin, balance_slice,
         balance_end, parts_begin, parts_call, Begins, Runs, RowsLeft, NextRow, Deliver, Fail,
         CannotInitialise, Starts, Refuse, Return, Goto
<1>2. ReduceNext => pc \in ReduceOps \cup BarrettPcs \cup MontgomeryPcs
                             \cup {"doublings", "dr_pass", "dr_compare", "2k_pass"} /\ fr' = fr
  BY DEF ReduceNext, mp_reduce_setup, reduce_quotient, reduce_rest, reduce_back,
         mp_montgomery_setup, mp_montgomery_reduce, montgomery_row, montgomery_shift,
         s_mp_montgomery_reduce_comba, montgomery_column, montgomery_carry, montgomery_sub,
         mp_montgomery_calc_normalization, normalization_double, normalization_end,
         mp_dr_setup, dr_pass, dr_compare, mp_reduce_2k_setup, mp_reduce_2k_setup_l, reduce_2k_pass,
         Reduced, FailWith, Refuse, Return, Goto, Answer
<1>3. RecursionNext => pc \in {"recursive", "chunks", "recursive_end"} /\ fr' = fr
  BY DEF RecursionNext, recursive_begin, recursive_chunk, recursive_last, recursive_end, ChunkFails,
         FailInitialising, Refuse, Return, Goto
<1>4. LogNext => pc \in {"log_n", "log", "log_power", "log_correct"} /\ fr' = fr
  BY DEF LogNext, mp_log_n, log_shortcut, log_estimate, log_power, log_up, log_exact, log_down,
         Refuse, Return, Goto, Answer
<1>5. PrimeNext => pc \in PrimeOps \cup PrimePcs /\ fr' = fr
  BY DEF PrimeNext, single_test, is_prime_shortcut, is_prime_bases, is_prime_further,
         is_prime_deterministic, is_prime_random, is_prime_passed, next_prime_table,
         next_prime_start, next_prime_step, next_prime_test, prime_rand_begin, prime_rand_draw,
         prime_rand_fail, prime_rand_found, mp_rand, rand_again, rand_top, Become, Passes,
         Refuse, Return, Goto, Answer, LeaveAbove
<1>6. SourceNext => pc \in {"random", "platform", "read"} \cup SourcePcs /\ fr' = fr
  BY DEF SourceNext, mp_rand_source, s_mp_rand_platform, s_read_arc4random, s_read_wincsp,
         s_read_getrandom, urandom_open, s_read_urandom, TryNext, Interrupted,
         Refuse, Return, Goto, Answer
<1>7. TextNext => pc \in TextOps \cup {"to_radix_digit", "fwrite_end", "read_digit"} /\ fr' = fr
  BY DEF TextNext, radix_size, mp_radix_size_overestimate, fwrite_begin, to_radix_begin,
         to_radix_digit, to_radix_end, fwrite_end, read_begin, read_digit, read_end, mp_to_ubin,
         mp_to_sbin, mp_from_ubin, mp_from_sbin, mp_pack, mp_unpack, MP_INIT_INT, mp_get, mp_cmp,
         Written, Refuse, Return, Goto, Answer, Leave
<1>8. MachineNext => pc \in MachineOps /\ fr' = fr
  BY DEF MachineNext, mp_set_double, mp_get_double, mp_hash, Refuse, Return, Answer
<1>9. (MulNext => fr.op \in MulOps /\ fr' = fr /\ pc # "done") /\ (ReduceNext => fr.op \in ReduceOps /\ fr' = fr /\ pc # "done")
  BY <1>1, <1>2
<1>10. (RecursionNext => fr.op \in RecursionOps /\ fr' = fr /\ pc # "done")
         /\ (LogNext => fr.op \in LogOps /\ fr' = fr /\ pc # "done")
  BY <1>3, <1>4
<1>11. PrimeNext => fr.op \in PrimeOps /\ fr' = fr /\ pc # "done"
  BY <1>5
<1>12. (SourceNext => fr.op \in SourceOps /\ fr' = fr /\ pc # "done")
         /\ (TextNext => fr.op \in TextOps /\ fr' = fr /\ pc # "done")
  BY <1>6, <1>7
<1>13. MachineNext => fr.op \in MachineOps /\ fr' = fr /\ pc # "done"
  BY <1>8
<1>. QED
  BY <1>9, <1>10, <1>11, <1>12, <1>13

LEMMA Strays == "stray" \notin DOMAIN NoLocals /\ \A n : "stray" \notin DOMAIN [answer |-> n]
BY DEF NoLocals

LEMMA MulOwnsKept ==
  ASSUME Ownership, MulNext
  PROVE  MulOwns' /\ StraysOwned'
<1>. USE DEF MulOps, Columns, Rows, MulTemps
<1>0. MulOwns /\ fr.op \in MulOps /\ fr' = fr
  BY StepsAtHome DEF Ownership
<1>1. CASE mp_mul
  BY <1>0, <1>1, Strays DEF StraysOwned, MulOwns, mp_mul, Goto
<1>2. CASE s_mp_mul
  BY <1>0, <1>2, Strays DEF StraysOwned, MulOwns, s_mp_mul, Refuse, Return, Goto
<1>3. CASE s_mp_mul_high
  BY <1>0, <1>3, Strays DEF StraysOwned, MulOwns, s_mp_mul_high, Refuse, Return, Goto
<1>4. CASE no_routine
  BY <1>0, <1>4, Strays DEF StraysOwned, MulOwns, no_routine, Begins, Deliver, Return
<1>5. CASE comba_begin
  BY <1>0, <1>5, Strays DEF StraysOwned, MulOwns, comba_begin, Begins, Fail, Goto, Deliver, Return
<1>6. CASE comba_column
  BY <1>0, <1>6, Strays DEF StraysOwned, MulOwns, comba_column, Runs, Goto
<1>7. CASE comba_end
  BY <1>0, <1>7, Strays DEF StraysOwned, MulOwns, comba_end, Runs, Deliver, Return
<1>8. CASE row_begin
  BY <1>0, <1>8, Strays DEF StraysOwned, MulOwns, row_begin, Begins, Fail, Deliver, Return
<1>9. CASE mul_row
  BY <1>0, <1>9, Strays DEF StraysOwned, MulOwns, mul_row, RowsLeft, Runs, NextRow, Goto
<1>10. CASE sqr_row
  BY <1>0, <1>10, Strays DEF StraysOwned, MulOwns, sqr_row, RowsLeft, Runs, NextRow, Goto
<1>11. CASE mul_high_row
  BY <1>0, <1>11, Strays DEF StraysOwned, MulOwns, mul_high_row, RowsLeft, Runs, NextRow, Goto
<1>12. CASE row_end
  BY <1>0, <1>12, Strays DEF StraysOwned, MulOwns, row_end, Runs, Deliver, Return
<1>13. CASE balance_begin
  BY <1>0, <1>13, Strays DEF StraysOwned, MulOwns, balance_begin, Begins, CannotInitialise, Cleared, Starts
<1>14. CASE balance_slice
  BY <1>0, <1>14, Strays DEF StraysOwned, MulOwns, balance_slice, Runs, Fail, Goto, Deliver, Return
<1>15. CASE balance_end
  BY <1>0, <1>15, Strays DEF StraysOwned, MulOwns, balance_end, Runs, Deliver, Return
<1>16. CASE parts_begin
  BY <1>0, <1>16, Strays DEF StraysOwned, MulOwns, parts_begin, Begins, CannotInitialise, Cleared, Starts, PartRoutines
<1>17. CASE parts_call
  BY <1>0, <1>17, Strays DEF StraysOwned, MulOwns, parts_call, Runs, Fail, Goto, PartRoutines, Deliver, Return
<1>. QED
  BY <1>1, <1>2, <1>3, <1>4, <1>5, <1>6, <1>7, <1>8, <1>9, <1>10, <1>11, <1>12, <1>13, <1>14, <1>15, <1>16, <1>17 DEF MulNext

LEMMA ReduceOwnsKept ==
  ASSUME Ownership, ReduceNext
  PROVE  ReduceOwns' /\ StraysOwned'
<1>. USE DEF ReduceOps, BarrettPcs, MontgomeryPcs
<1>0. ReduceOwns /\ fr.op \in ReduceOps /\ fr' = fr
  BY StepsAtHome DEF Ownership
<1>1. CASE mp_reduce_setup
  BY <1>0, <1>1, Strays DEF StraysOwned, ReduceOwns, mp_reduce_setup, Refuse, Return
<1>2. CASE reduce_quotient
  BY <1>0, <1>2, Strays DEF StraysOwned, ReduceOwns, reduce_quotient, Refuse, Return
<1>3. CASE reduce_rest
  BY <1>0, <1>3, Strays DEF StraysOwned, ReduceOwns, reduce_rest, Refuse, Return, Reduced, FailWith
<1>4. CASE reduce_back
  BY <1>0, <1>4, Strays DEF StraysOwned, ReduceOwns, reduce_back, Refuse, Return, Reduced
<1>5. CASE mp_montgomery_setup
  BY <1>0, <1>5, Strays DEF StraysOwned, ReduceOwns, mp_montgomery_setup, Refuse, Return, Goto, Answer
<1>6. CASE mp_montgomery_reduce
  BY <1>0, <1>6, Strays DEF StraysOwned, ReduceOwns, mp_montgomery_reduce, Refuse, Return, Goto
<1>7. CASE montgomery_row
  BY <1>0, <1>7, Strays DEF StraysOwned, ReduceOwns, montgomery_row, Goto
<1>8. CASE montgomery_shift
  BY <1>0, <1>8, Strays DEF StraysOwned, ReduceOwns, montgomery_shift, Reduced
<1>9. CASE s_mp_montgomery_reduce_comba
  BY <1>0, <1>9, Strays DEF StraysOwned, ReduceOwns, s_mp_montgomery_reduce_comba, Refuse, Return, Goto
<1>10. CASE montgomery_column
  BY <1>0, <1>10, Strays DEF StraysOwned, ReduceOwns, montgomery_column, Goto
<1>11. CASE montgomery_carry
  BY <1>0, <1>11, Strays DEF StraysOwned, ReduceOwns, montgomery_carry, Reduced
<1>12. CASE montgomery_sub
  BY <1>0, <1>12, Strays DEF StraysOwned, ReduceOwns, montgomery_sub, Refuse, Return
<1>13. CASE mp_montgomery_calc_normalization
  BY <1>0, <1>13, Strays DEF StraysOwned, ReduceOwns, mp_montgomery_calc_normalization, Refuse, Return
<1>14. CASE normalization_double
  BY <1>0, <1>14, Strays DEF StraysOwned, ReduceOwns, normalization_double, FailWith, Refuse, Return
<1>15. CASE normalization_end
  BY <1>0, <1>15, Strays DEF StraysOwned, ReduceOwns, normalization_end, Refuse, Return
<1>16. CASE mp_dr_setup
  BY <1>0, <1>16, Strays DEF StraysOwned, ReduceOwns, mp_dr_setup, Refuse, Return, Goto
<1>17. CASE dr_pass
  BY <1>0, <1>17, Strays DEF StraysOwned, ReduceOwns, dr_pass, Reduced
<1>18. CASE dr_compare
  BY <1>0, <1>18, Strays DEF StraysOwned, ReduceOwns, dr_compare, Refuse, Return, Reduced
<1>19. CASE mp_reduce_2k_setup
  BY <1>0, <1>19, Strays DEF StraysOwned, ReduceOwns, mp_reduce_2k_setup, Refuse, Return, Goto
<1>20. CASE mp_reduce_2k_setup_l
  BY <1>0, <1>20, Strays DEF StraysOwned, ReduceOwns, mp_reduce_2k_setup_l, Refuse, Return
<1>21. CASE reduce_2k_pass
  BY <1>0, <1>21, Strays DEF StraysOwned, ReduceOwns, reduce_2k_pass, FailWith, Refuse, Return
<1>. QED
  BY <1>1, <1>2, <1>3, <1>4, <1>5, <1>6, <1>7, <1>8, <1>9, <1>10, <1>11, <1>12, <1>13, <1>14, <1>15, <1>16, <1>17, <1>18, <1>19, <1>20, <1>21 DEF ReduceNext

LEMMA RecursionOwnsKept ==
  ASSUME Ownership, RecursionNext
  PROVE  RecursionOwns' /\ StraysOwned'
<1>. USE DEF RecursionOps
<1>0. RecursionOwns /\ fr.op \in RecursionOps /\ fr' = fr
  BY StepsAtHome DEF Ownership
<1>1. CASE recursive_begin
  BY <1>0, <1>1, Strays DEF StraysOwned, RecursionOwns, recursive_begin, Refuse, Return, FailInitialising
<1>2. CASE recursive_chunk
  BY <1>0, <1>2, Strays DEF StraysOwned, RecursionOwns, recursive_chunk, Refuse, Return, Goto, ChunkFails, FailInitialising
<1>3. CASE recursive_last
  BY <1>0, <1>3, Strays DEF StraysOwned, RecursionOwns, recursive_last, Refuse, Return, Goto, ChunkFails, FailInitialising
<1>4. CASE recursive_end
  BY <1>0, <1>4, Strays DEF StraysOwned, RecursionOwns, recursive_end, Return
<1>. QED
  BY <1>1, <1>2, <1>3, <1>4 DEF RecursionNext

LEMMA LogOwnsKept ==
  ASSUME Ownership, LogNext
  PROVE  LogOwns' /\ StraysOwned'
<1>. USE DEF LogOps, LogTemporaries
<1>0. LogOwns /\ fr.op \in LogOps /\ fr' = fr
  BY StepsAtHome DEF Ownership
<1>1. CASE mp_log_n
  BY <1>0, <1>1, Strays DEF StraysOwned, LogOwns, mp_log_n, Refuse, Return
<1>2. CASE log_shortcut
  BY <1>0, <1>2, Strays DEF StraysOwned, LogOwns, log_shortcut, Refuse, Return, Answer
<1>3. CASE log_estimate
  BY <1>0, <1>3, Strays DEF StraysOwned, LogOwns, log_estimate, Refuse, Return
<1>4. CASE log_power
  BY <1>0, <1>4, Strays DEF StraysOwned, LogOwns, log_power, Refuse, Return, Goto
<1>5. CASE log_up
  BY <1>0, <1>5, Strays DEF StraysOwned, LogOwns, log_up, Refuse, Return, Goto, Answer
<1>6. CASE log_exact
  BY <1>0, <1>6, Strays DEF StraysOwned, LogOwns, log_exact, Answer
<1>7. CASE log_down
  BY <1>0, <1>7, Strays DEF StraysOwned, LogOwns, log_down, Refuse, Return, Goto, Answer
<1>. QED
  BY <1>1, <1>2, <1>3, <1>4, <1>5, <1>6, <1>7 DEF LogNext

LEMMA PrimeOwnsKept ==
  ASSUME Ownership, PrimeNext
  PROVE  PrimeOwns' /\ StraysOwned'
<1>. USE DEF PrimeOps, PrimePcs
<1>0. PrimeOwns /\ fr.op \in PrimeOps /\ fr' = fr
  BY StepsAtHome DEF Ownership
<1>1. CASE single_test
  BY <1>0, <1>1, Strays DEF StraysOwned, PrimeOwns, single_test, Refuse, Return, Answer
<1>2. CASE is_prime_shortcut
  BY <1>0, <1>2, Strays DEF StraysOwned, PrimeOwns, is_prime_shortcut, Refuse, Return, Answer
<1>3. CASE is_prime_bases
  BY <1>0, <1>3, Strays DEF StraysOwned, PrimeOwns, is_prime_bases, Refuse, Return, Goto, Answer, Passes
<1>4. CASE is_prime_further
  BY <1>0, <1>4, Strays DEF StraysOwned, PrimeOwns, is_prime_further, Refuse, Return, Goto, Answer, Passes
<1>5. CASE is_prime_deterministic
  BY <1>0, <1>5, Strays DEF StraysOwned, PrimeOwns, is_prime_deterministic, Refuse, Return, Goto, Answer, Passes
<1>6. CASE is_prime_random
  BY <1>0, <1>6, Strays DEF StraysOwned, PrimeOwns, is_prime_random, Refuse, Return, Goto, Answer, Passes
<1>7. CASE is_prime_passed
  BY <1>0, <1>7, Strays DEF StraysOwned, PrimeOwns, is_prime_passed, Answer
<1>8. CASE next_prime_table
  BY <1>0, <1>8, Strays DEF StraysOwned, PrimeOwns, next_prime_table, Return, Become
<1>9. CASE next_prime_start
  BY <1>0, <1>9, Strays DEF StraysOwned, PrimeOwns, next_prime_start, Return, Become
<1>10. CASE next_prime_step
  BY <1>0, <1>10, Strays DEF StraysOwned, PrimeOwns, next_prime_step, Goto
<1>11. CASE next_prime_test
  BY <1>0, <1>11, Strays DEF StraysOwned, PrimeOwns, next_prime_test, Return, Become
<1>12. CASE prime_rand_begin
  BY <1>0, <1>12, Strays DEF StraysOwned, PrimeOwns, prime_rand_begin, Refuse, Return
<1>13. CASE prime_rand_draw
  BY <1>0, <1>13, Strays DEF StraysOwned, PrimeOwns, prime_rand_draw, Refuse, Return
<1>14. CASE prime_rand_fail
  BY <1>0, <1>14, Strays DEF StraysOwned, PrimeOwns, prime_rand_fail, Return
<1>15. CASE prime_rand_found
  BY <1>0, <1>15, Strays DEF StraysOwned, PrimeOwns, prime_rand_found, Return
<1>16. CASE mp_rand
  BY <1>0, <1>16, Strays DEF StraysOwned, PrimeOwns, mp_rand, Return, Become, LeaveAbove
<1>17. CASE rand_again
  BY <1>0, <1>17, Strays DEF StraysOwned, PrimeOwns, rand_again, Refuse, Return, Goto, LeaveAbove
<1>18. CASE rand_top
  BY <1>0, <1>18, Strays DEF StraysOwned, PrimeOwns, rand_top, Return
<1>. QED
  BY <1>1, <1>2, <1>3, <1>4, <1>5, <1>6, <1>7, <1>8, <1>9, <1>10, <1>11, <1>12, <1>13, <1>14, <1>15, <1>16, <1>17, <1>18 DEF PrimeNext

LEMMA FirstSource ==
  ASSUME NEW left, left \subseteq 1 .. Len(PlatformSources), left # {}
  PROVE  LET next == CHOOSE i \in left : \A j \in left : i <= j
         IN  /\ next \in left /\ PlatformSources[next] \in SourcePcs
             /\ \A j \in left : next <= j
<1>1. left \subseteq 1 .. 4
  BY DEF PlatformSources
<1>2. \A k \in 1 .. 4 : PlatformSources[k] \in SourcePcs
  BY DEF PlatformSources, SourcePcs
<1>3. \E i \in left : \A j \in left : i <= j
  <2>1. left \subseteq Nat
    BY <1>1
  <2>. QED
    BY <2>1, LeastElement
<1>. QED
  BY <1>1, <1>2, <1>3

LEMMA SourceOwnsKept ==
  ASSUME Ownership, SourceNext
  PROVE  SourceOwns' /\ StraysOwned'
<1>. USE DEF SourceOps, SourcePcs
<1>0. SourceOwns /\ fr.op \in SourceOps /\ fr' = fr
  BY StepsAtHome DEF Ownership
<1>1. CASE mp_rand_source
  BY <1>0, <1>1, Strays DEF StraysOwned, SourceOwns, mp_rand_source, Refuse, Return, Goto, Answer
<1>2. CASE s_mp_rand_platform
  <2>. DEFINE left == {i \in loc.tried + 1 .. Len(PlatformSources) : PlatformSources[i] \in fr.has}
              next == CHOOSE i \in left : \A j \in left : i <= j
  <2>1. pc = "platform" /\ Len(PlatformSources) = 4 /\ left \subseteq 1 .. Len(PlatformSources)
    BY <1>0, <1>2 DEF s_mp_rand_platform, SourceOwns, PlatformSources
  <2>2. CASE left = {} /\ Refuse("ERR", {})
    BY <1>0, <2>1, <2>2, Strays DEF StraysOwned, SourceOwns, Refuse, Return
  <2>3. CASE /\ left # {}
             /\ loc' = [loc EXCEPT !.tried = next, !.q = 0, !.n = fr.size]
             /\ Goto(PlatformSources[next])
    <3>1. next \in 1 .. 4 /\ PlatformSources[next] \in SourcePcs
      BY <2>1, <2>3, FirstSource DEF PlatformSources
    <3>. HIDE DEF left, next
    <3>. QED
      BY <1>0, <2>1, <2>3, <3>1 DEF StraysOwned, SourceOwns, Goto
  <2>. QED
    BY <1>2, <2>2, <2>3 DEF s_mp_rand_platform
<1>3. CASE s_read_arc4random
  BY <1>0, <1>3, Strays DEF StraysOwned, SourceOwns, s_read_arc4random, Answer
<1>4. CASE s_read_wincsp
  BY <1>0, <1>4, Strays DEF StraysOwned, SourceOwns, s_read_wincsp, Answer, TryNext
<1>5. CASE s_read_getrandom
  BY <1>0, <1>5, Strays DEF Given, StraysOwned, SourceOwns, s_read_getrandom, Answer, TryNext, Interrupted, Goto
<1>6. CASE urandom_open
  BY <1>0, <1>6, Strays DEF StraysOwned, SourceOwns, urandom_open, TryNext, Interrupted, Goto
<1>7. CASE s_read_urandom
  BY <1>0, <1>7, Strays DEF Given, StraysOwned, SourceOwns, s_read_urandom, Answer, TryNext, Interrupted, Goto
<1>. QED
  BY <1>1, <1>2, <1>3, <1>4, <1>5, <1>6, <1>7 DEF SourceNext

LEMMA TextOwnsKept ==
  ASSUME Ownership, TextNext
  PROVE  TextOwns' /\ StraysOwned'
<1>. USE DEF TextOps, Buffers
<1>0. TextOwns /\ fr.op \in TextOps /\ fr' = fr
  BY StepsAtHome DEF Ownership
<1>1. CASE radix_size
  BY <1>0, <1>1, Strays DEF StraysOwned, TextOwns, radix_size, Refuse, Return, Answer
<1>2. CASE mp_radix_size_overestimate
  BY <1>0, <1>2, Strays DEF StraysOwned, TextOwns, mp_radix_size_overestimate, Refuse, Return, Answer
<1>3. CASE fwrite_begin
  BY <1>0, <1>3, Strays DEF StraysOwned, TextOwns, fwrite_begin, Refuse, Return
<1>4. CASE to_radix_begin
  BY <1>0, <1>4, Strays DEF StraysOwned, TextOwns, to_radix_begin, Refuse, Return, Answer, Written
<1>5. CASE to_radix_digit
  BY <1>0, <1>5, Strays DEF StraysOwned, TextOwns, to_radix_digit, Refuse, Return, Goto, Leave
<1>6. CASE to_radix_end
  BY <1>0, <1>6, Strays DEF StraysOwned, TextOwns, to_radix_end, Written, Answer
<1>7. CASE fwrite_end
  BY <1>0, <1>7, Strays DEF StraysOwned, TextOwns, fwrite_end, Refuse, Return, Answer
<1>8. CASE read_begin
  BY <1>0, <1>8, Strays DEF StraysOwned, TextOwns, read_begin, Refuse, Return
<1>9. CASE read_digit
  BY <1>0, <1>9, Strays DEF StraysOwned, TextOwns, read_digit, Refuse, Return
<1>10. CASE read_end
  BY <1>0, <1>10, Strays DEF StraysOwned, TextOwns, read_end, Refuse, Return
<1>11. CASE mp_to_ubin
  BY <1>0, <1>11, Strays DEF StraysOwned, TextOwns, mp_to_ubin, Refuse, Return, Answer
<1>12. CASE mp_to_sbin
  BY <1>0, <1>12, Strays DEF StraysOwned, TextOwns, mp_to_sbin, Refuse, Return, Answer
<1>13. CASE mp_from_ubin
  BY <1>0, <1>13, Strays DEF StraysOwned, TextOwns, mp_from_ubin, Refuse, Return
<1>14. CASE mp_from_sbin
  BY <1>0, <1>14, Strays DEF StraysOwned, TextOwns, mp_from_sbin, Refuse, Return
<1>15. CASE mp_pack
  BY <1>0, <1>15, Strays DEF StraysOwned, TextOwns, mp_pack, Refuse, Return, Answer
<1>16. CASE mp_unpack
  BY <1>0, <1>16, Strays DEF StraysOwned, TextOwns, mp_unpack, Refuse, Return
<1>17. CASE MP_INIT_INT
  BY <1>0, <1>17, Strays DEF StraysOwned, TextOwns, MP_INIT_INT, Refuse, Return
<1>18. CASE mp_get
  BY <1>0, <1>18, Strays DEF StraysOwned, TextOwns, mp_get, Answer
<1>19. CASE mp_cmp
  BY <1>0, <1>19, Strays DEF StraysOwned, TextOwns, mp_cmp, Answer
<1>. QED
  BY <1>1, <1>2, <1>3, <1>4, <1>5, <1>6, <1>7, <1>8, <1>9, <1>10, <1>11, <1>12, <1>13, <1>14, <1>15, <1>16, <1>17, <1>18, <1>19 DEF TextNext

LEMMA MachineOwnsKept ==
  ASSUME Ownership, MachineNext
  PROVE  MachineOwns' /\ StraysOwned'
<1>. USE DEF MachineOps
<1>0. MachineOwns /\ fr.op \in MachineOps /\ fr' = fr
  BY StepsAtHome DEF Ownership
<1>1. CASE mp_set_double
  BY <1>0, <1>1, Strays DEF StraysOwned, MachineOwns, mp_set_double, Refuse, Return
<1>2. CASE mp_get_double
  BY <1>0, <1>2, Strays DEF StraysOwned, MachineOwns, mp_get_double, Answer
<1>3. CASE mp_hash
  BY <1>0, <1>3, Strays DEF StraysOwned, MachineOwns, mp_hash, Answer
<1>. QED
  BY <1>1, <1>2, <1>3 DEF MachineNext

LEMMA OwnershipKept ==
  ASSUME Ownership, [Next]_vars
  PROVE  Ownership'
<1>. USE StepsAtHome
<1>1. CASE UNCHANGED vars
  BY <1>1 DEF vars, Ownership, StraysOwned, MulOwns, ReduceOwns, RecursionOwns, LogOwns, PrimeOwns,
              SourceOwns, TextOwns, MachineOwns
<1>2. CASE MulNext
  BY <1>2, MulOwnsKept DEF Ownership, ReduceOwns, RecursionOwns, LogOwns, PrimeOwns, SourceOwns,
     TextOwns, MachineOwns, MulOps, ReduceOps, RecursionOps, LogOps, PrimeOps, SourceOps, TextOps,
     MachineOps
<1>3. CASE ReduceNext
  BY <1>3, ReduceOwnsKept DEF Ownership, MulOwns, RecursionOwns, LogOwns, PrimeOwns, SourceOwns,
     TextOwns, MachineOwns, MulOps, ReduceOps, RecursionOps, LogOps, PrimeOps, SourceOps, TextOps,
     MachineOps
<1>4. CASE RecursionNext
  BY <1>4, RecursionOwnsKept DEF Ownership, MulOwns, ReduceOwns, LogOwns, PrimeOwns, SourceOwns,
     TextOwns, MachineOwns, MulOps, ReduceOps, RecursionOps, LogOps, PrimeOps, SourceOps, TextOps,
     MachineOps
<1>5. CASE LogNext
  BY <1>5, LogOwnsKept DEF Ownership, MulOwns, ReduceOwns, RecursionOwns, PrimeOwns, SourceOwns,
     TextOwns, MachineOwns, MulOps, ReduceOps, RecursionOps, LogOps, PrimeOps, SourceOps, TextOps,
     MachineOps
<1>6. CASE PrimeNext
  BY <1>6, PrimeOwnsKept DEF Ownership, MulOwns, ReduceOwns, RecursionOwns, LogOwns, SourceOwns,
     TextOwns, MachineOwns, MulOps, ReduceOps, RecursionOps, LogOps, PrimeOps, SourceOps, TextOps,
     MachineOps
<1>7. CASE SourceNext
  BY <1>7, SourceOwnsKept DEF Ownership, MulOwns, ReduceOwns, RecursionOwns, LogOwns, PrimeOwns,
     TextOwns, MachineOwns, MulOps, ReduceOps, RecursionOps, LogOps, PrimeOps, SourceOps, TextOps,
     MachineOps
<1>8. CASE TextNext
  BY <1>8, TextOwnsKept DEF Ownership, MulOwns, ReduceOwns, RecursionOwns, LogOwns, PrimeOwns,
     SourceOwns, MachineOwns, MulOps, ReduceOps, RecursionOps, LogOps, PrimeOps, SourceOps, TextOps,
     MachineOps
<1>9. CASE MachineNext
  BY <1>9, MachineOwnsKept DEF Ownership, MulOwns, ReduceOwns, RecursionOwns, LogOwns, PrimeOwns,
     SourceOwns, TextOwns, MulOps, ReduceOps, RecursionOps, LogOps, PrimeOps, SourceOps, TextOps,
     MachineOps
<1>. QED
  BY <1>1, <1>2, <1>3, <1>4, <1>5, <1>6, <1>7, <1>8, <1>9 DEF Next

LEMMA Owned == Spec => []Ownership
<1>1. Init => Ownership
  <2>. SUFFICES ASSUME Init PROVE Ownership
    OBVIOUS
  <2>1. fr \in Frames /\ pc = fr.op /\ live = {} /\ "stray" \notin DOMAIN loc
    BY Strays DEF Init
  <2>2. StraysOwned /\ MulOwns /\ ReduceOwns /\ RecursionOwns /\ LogOwns
    BY <2>1 DEF StraysOwned, MulOwns, ReduceOwns, RecursionOwns, LogOwns, MulOps, ReduceOps,
                RecursionOps, LogOps, BarrettPcs, MontgomeryPcs
  <2>3. PrimeOwns /\ SourceOwns /\ TextOwns /\ MachineOwns
    BY <2>1 DEF PrimeOwns, SourceOwns, TextOwns, MachineOwns, PrimeOps, SourceOps, TextOps,
                MachineOps, PrimePcs, SourcePcs
  <2>. QED
    BY <2>1, <2>2, <2>3 DEF Ownership
<1>. QED
  BY <1>1, OwnershipKept, PTL DEF Spec

-----------------------------------------------------------------------------
(* What is written before a call has succeeded.                            *)
LEMMA FrameOfOp ==
  ASSUME fr \in Frames
  PROVE  /\ fr.op \in MulOps => fr \in MulFrames
         /\ fr.op \in ReduceOps => fr \in ReduceFrames
         /\ fr.op \in RecursionOps => fr \in RecursionFrames
         /\ fr.op \in LogOps => fr \in LogFrames
         /\ fr.op \in PrimeOps => fr \in PrimeFrames
         /\ fr.op \in SourceOps => fr \in SourceFrames
         /\ fr.op \in TextOps => fr \in TextFrames \cup BytesFrames \cup MachineFrames
         /\ fr.op \in MachineOps => fr \in DoubleFrames \cup HashFrames
<1>1. fr \in MulFrames \cup ReduceFrames \cup RecursionFrames \cup LogFrames \cup PrimeFrames
               \cup TextFrames \cup BytesFrames \cup MachineFrames \cup DoubleFrames \cup HashFrames
               \cup SourceFrames
  BY NumbersFramesAssumption
<1>2. fr \in MulFrames => fr.op \in MulOps
  BY DEF MulFrames, MulOps
<1>3. fr \in ReduceFrames => fr.op \in ReduceOps
  BY DEF ReduceFrames, ReduceOps
<1>4. fr \in RecursionFrames => fr.op \in RecursionOps
  BY DEF RecursionFrames, RecursionOps
<1>5. fr \in LogFrames => fr.op \in LogOps
  BY DEF LogFrames, LogOps
<1>6. fr \in PrimeFrames => fr.op \in PrimeOps
  BY DEF PrimeFrames, PrimeOps
<1>7. fr \in SourceFrames => fr.op \in SourceOps
  BY DEF SourceFrames, SourceOps
<1>8. fr \in TextFrames \cup BytesFrames \cup MachineFrames => fr.op \in TextOps
  BY DEF TextFrames, BytesFrames, MachineFrames, TextOps
<1>9. fr \in DoubleFrames \cup HashFrames => fr.op \in MachineOps
  BY DEF DoubleFrames, HashFrames, MachineOps
<1>. QED
  BY <1>1, <1>2, <1>3, <1>4, <1>5, <1>6, <1>7, <1>8, <1>9
     DEF MulOps, ReduceOps, RecursionOps, LogOps, PrimeOps, SourceOps, TextOps, MachineOps

Writers == MulOps \cup ReduceOps \cup ChangesOnFailure

LEMMA RememberedKept ==
  ASSUME Remembered, [Next]_vars
  PROVE  Remembered'
<1>1. CASE UNCHANGED vars
  BY <1>1 DEF vars, Remembered
<1>2. CASE MulNext
  BY <1>2 DEF Remembered, MulNext, mp_mul, s_mp_mul, s_mp_mul_high, no_routine, comba_begin,
         comba_column, comba_end, row_begin, mul_row, sqr_row, mul_high_row, row_end,
         balance_begin, balance_slice, balance_end, parts_begin, parts_call, Begins, Runs,
         RowsLeft, NextRow, Deliver, Fail, CannotInitialise, Starts, Refuse, Return, Goto, Put
<1>3. CASE ReduceNext
  BY <1>3 DEF Remembered, ReduceNext, mp_reduce_setup, reduce_quotient, reduce_rest, reduce_back,
         mp_montgomery_setup, mp_montgomery_reduce, montgomery_row, montgomery_shift,
         s_mp_montgomery_reduce_comba, montgomery_column, montgomery_carry, montgomery_sub,
         mp_montgomery_calc_normalization, normalization_double, normalization_end,
         mp_dr_setup, dr_pass, dr_compare, mp_reduce_2k_setup, mp_reduce_2k_setup_l, reduce_2k_pass,
         Reduced, FailWith, Refuse, Return, Goto, Answer, Put
<1>4. CASE RecursionNext
  BY <1>4 DEF Remembered, RecursionNext, recursive_begin, recursive_chunk, recursive_last,
         recursive_end, ChunkFails, FailInitialising, Refuse, Return, Goto
<1>5. CASE LogNext
  BY <1>5 DEF Remembered, LogNext, mp_log_n, log_shortcut, log_estimate, log_power, log_up,
         log_exact, log_down, Refuse, Return, Goto, Answer
<1>6. CASE PrimeNext
  BY <1>6 DEF Remembered, PrimeNext, single_test, is_prime_shortcut, is_prime_bases,
         is_prime_further, is_prime_deterministic, is_prime_random, is_prime_passed,
         next_prime_table, next_prime_start, next_prime_step, next_prime_test, prime_rand_begin,
         prime_rand_draw, prime_rand_fail, prime_rand_found, mp_rand, rand_again, rand_top, Become,
         Passes, Refuse, Return, Goto, Answer, Put, LeaveAbove
<1>7. CASE SourceNext
  BY <1>7 DEF Remembered, SourceNext, mp_rand_source, s_mp_rand_platform, s_read_arc4random,
         s_read_wincsp, s_read_getrandom, urandom_open, s_read_urandom, TryNext, Interrupted,
         Refuse, Return, Goto, Answer
<1>8. CASE TextNext
  BY <1>8 DEF Remembered, TextNext, radix_size, mp_radix_size_overestimate, fwrite_begin,
         to_radix_begin, to_radix_digit, to_radix_end, fwrite_end, read_begin, read_digit,
         read_end, mp_to_ubin, mp_to_sbin, mp_from_ubin, mp_from_sbin, mp_pack, mp_unpack,
         MP_INIT_INT, mp_get, mp_cmp, Written, Refuse, Return, Goto, Answer, Put, Leave
<1>9. CASE MachineNext
  BY <1>9 DEF Remembered, MachineNext, mp_set_double, mp_get_double, mp_hash, Refuse, Return,
         Answer, Put
<1>. QED
  BY <1>1, <1>2, <1>3, <1>4, <1>5, <1>6, <1>7, <1>8, <1>9 DEF Next

OthersWrite ==
  /\ fr.op \in ReduceOps => ReduceFailure
  /\ fr.op \in ChangesOnFailure => \A s \in Ints \ {fr.a} : val[s] = old[s]
  /\ fr.op \notin Writers => val = old \/ (pc = "done" /\ err = "OKAY")

LEMMA ReduceWritesKept ==
  ASSUME Ownership, Remembered, OthersWrite, ReduceNext
  PROVE  OthersWrite'
<1>1. fr.op \in ReduceOps /\ fr' = fr /\ ReduceFailure /\ pc # "done"
  BY StepsAtHome DEF OthersWrite
<1>2. fr.op \notin ChangesOnFailure /\ fr.op \in Writers
  BY <1>1 DEF ReduceOps, ChangesOnFailure, Writers
<1>3. fr \in ReduceFrames
  <2>1. fr \in Frames
    BY DEF Ownership
  <2>. QED
    BY <1>1, <2>1, FrameOfOp
<1>4. /\ fr.op # "rho" => "x" \in DOMAIN fr
      /\ fr.op \in {"barrett", "2k_l"} => "d" \in DOMAIN fr
  BY <1>3 DEF ReduceFrames
<1>5. old' = old
  BY DEF ReduceNext, mp_reduce_setup, reduce_quotient, reduce_rest, reduce_back,
         mp_montgomery_setup, mp_montgomery_reduce, montgomery_row, montgomery_shift,
         s_mp_montgomery_reduce_comba, montgomery_column, montgomery_carry, montgomery_sub,
         mp_montgomery_calc_normalization, normalization_double, normalization_end,
         mp_dr_setup, dr_pass, dr_compare, mp_reduce_2k_setup, mp_reduce_2k_setup_l, reduce_2k_pass,
         Reduced, FailWith, Refuse, Return, Goto, Answer
<1>6. \/ UNCHANGED val
      \/ \E n : val' = [val EXCEPT ![fr.x] = n] /\ pc # "rho"
      \/ \E n : val' = [val EXCEPT ![fr.d] = n] /\ pc \in {"barrett", "2k_l"}
  BY DEF ReduceNext, mp_reduce_setup, reduce_quotient, reduce_rest, reduce_back,
         mp_montgomery_setup, mp_montgomery_reduce, montgomery_row, montgomery_shift,
         s_mp_montgomery_reduce_comba, montgomery_column, montgomery_carry, montgomery_sub,
         mp_montgomery_calc_normalization, normalization_double, normalization_end,
         mp_dr_setup, dr_pass, dr_compare, mp_reduce_2k_setup, mp_reduce_2k_setup_l, reduce_2k_pass,
         Reduced, FailWith, Refuse, Return, Goto, Answer, Put
<1>7. ReduceFailure'
  <2>1. CASE UNCHANGED val
    BY <1>1, <1>5, <2>1 DEF ReduceFailure
  <2>2. CASE \E n : val' = [val EXCEPT ![fr.x] = n] /\ pc # "rho"
    <3>1. "x" \in DOMAIN fr
      BY <1>1, <1>4, <2>2 DEF Ownership, ReduceOwns, ReduceOps
    <3>. QED
      BY <1>1, <1>5, <2>2, <3>1 DEF ReduceFailure, Remembered
  <2>3. CASE \E n : val' = [val EXCEPT ![fr.d] = n] /\ pc \in {"barrett", "2k_l"}
    <3>1. "d" \in DOMAIN fr
      BY <1>1, <1>4, <2>3 DEF Ownership, ReduceOwns, ReduceOps
    <3>. QED
      BY <1>1, <1>5, <2>3, <3>1 DEF ReduceFailure, Remembered
  <2>. QED
    BY <1>6, <2>1, <2>2, <2>3
<1>. QED
  BY <1>1, <1>2, <1>7 DEF OthersWrite

(* A step of another component that writes the number it is to change, if *)
(* it writes at all.                                                       *)
LEMMA OwnWritesKept ==
  ASSUME Ownership, Remembered, OthersWrite, fr' = fr, old' = old, pc # "done",
         fr.op \notin ReduceOps,
         \/ UNCHANGED val
         \/ fr.op \in ChangesOnFailure /\ \E n : val' = [val EXCEPT ![fr.a] = n]
         \/ fr.op \notin ChangesOnFailure /\ pc' = "done" /\ err' = "OKAY"
  PROVE  OthersWrite'
<1>1. CASE UNCHANGED val
  BY <1>1 DEF OthersWrite
<1>2. CASE fr.op \in ChangesOnFailure /\ \E n : val' = [val EXCEPT ![fr.a] = n]
  <2>1. \A s \in Ints \ {fr.a} : val'[s] = val[s]
    BY <1>2 DEF Remembered
  <2>. QED
    BY <1>2, <2>1 DEF OthersWrite, Writers
<1>3. CASE fr.op \notin ChangesOnFailure /\ pc' = "done" /\ err' = "OKAY"
  BY <1>3 DEF OthersWrite
<1>. QED
  BY <1>1, <1>2, <1>3

LEMMA PrimeWritesKept ==
  ASSUME Ownership, Remembered, OthersWrite, PrimeNext
  PROVE  OthersWrite'
<1>1. fr.op \in PrimeOps /\ fr' = fr /\ pc # "done"
  BY StepsAtHome
<1>2. fr.op \notin ReduceOps
  BY <1>1 DEF ReduceOps, PrimeOps
<1>3. old' = old
  BY DEF PrimeNext, single_test, is_prime_shortcut, is_prime_bases, is_prime_further,
         is_prime_deterministic, is_prime_random, is_prime_passed, next_prime_table,
         next_prime_start, next_prime_step, next_prime_test, prime_rand_begin, prime_rand_draw,
         prime_rand_fail, prime_rand_found, mp_rand, rand_again, rand_top, Become, Passes,
         Refuse, Return, Goto, Answer, LeaveAbove
<1>4. \/ UNCHANGED val
      \/ /\ \E n : val' = [val EXCEPT ![fr.a] = n]
         /\ pc \in {"next_prime", "next_prime_start", "next_prime_sieve", "prime_rand",
                    "prime_rand_draw", "rand", "rand_top"}
  BY DEF PrimeNext, single_test, is_prime_shortcut, is_prime_bases, is_prime_further,
         is_prime_deterministic, is_prime_random, is_prime_passed, next_prime_table,
         next_prime_start, next_prime_step, next_prime_test, prime_rand_begin, prime_rand_draw,
         prime_rand_fail, prime_rand_found, mp_rand, rand_again, rand_top, Become, Passes,
         Refuse, Return, Goto, Answer, Put, LeaveAbove
<1>5. pc \in {"next_prime", "next_prime_start", "next_prime_sieve", "prime_rand",
              "prime_rand_draw", "rand", "rand_top"} => fr.op \in ChangesOnFailure
  <2>1. pc \in {"next_prime_start", "next_prime_sieve", "prime_rand_draw", "rand_top"}
          => fr.op \in {"next_prime", "prime_rand", "rand"}
    BY <1>1 DEF Ownership, PrimeOwns
  <2>2. pc \in {"next_prime", "prime_rand", "rand"} => fr.op = pc
    BY <1>1 DEF Ownership, PrimeOwns, PrimeOps
  <2>. QED
    BY <2>1, <2>2 DEF ChangesOnFailure
<1>. QED
  BY <1>1, <1>2, <1>3, <1>4, <1>5, OwnWritesKept

LEMMA TextWritesKept ==
  ASSUME Ownership, Remembered, OthersWrite, TextNext
  PROVE  OthersWrite'
<1>1. fr.op \in TextOps /\ fr' = fr /\ pc # "done"
  BY StepsAtHome
<1>2. fr.op \notin ReduceOps
  BY <1>1 DEF ReduceOps, TextOps
<1>3. old' = old
  BY DEF TextNext, radix_size, mp_radix_size_overestimate, fwrite_begin,
         to_radix_begin, to_radix_digit, to_radix_end, fwrite_end, read_begin, read_digit,
         read_end, mp_to_ubin, mp_to_sbin, mp_from_ubin, mp_from_sbin, mp_pack, mp_unpack,
         MP_INIT_INT, mp_get, mp_cmp, Written, Refuse, Return, Goto, Answer, Leave
<1>4. \/ UNCHANGED val
      \/ /\ \E n : val' = [val EXCEPT ![fr.a] = n]
         /\ pc \in {"read_radix", "fread", "read_digit", "from_ubin", "from_sbin", "unpack"}
      \/ pc \in {"set", "init_set"} /\ pc' = "done" /\ err' = "OKAY"
  BY DEF TextNext, radix_size, mp_radix_size_overestimate, fwrite_begin,
         to_radix_begin, to_radix_digit, to_radix_end, fwrite_end, read_begin, read_digit,
         read_end, mp_to_ubin, mp_to_sbin, mp_from_ubin, mp_from_sbin, mp_pack, mp_unpack,
         MP_INIT_INT, mp_get, mp_cmp, Written, Refuse, Return, Goto, Answer, Put, Leave
<1>5. pc \in {"read_radix", "fread", "read_digit", "from_ubin", "from_sbin", "unpack"}
        => fr.op \in ChangesOnFailure
  <2>1. pc = "read_digit" => fr.op \in {"read_radix", "fread"}
    BY <1>1 DEF Ownership, TextOwns
  <2>2. pc \in {"read_radix", "fread", "from_ubin", "from_sbin", "unpack"} => fr.op = pc
    BY <1>1 DEF Ownership, TextOwns, TextOps
  <2>. QED
    BY <2>1, <2>2 DEF ChangesOnFailure
<1>6. pc \in {"set", "init_set"} => fr.op \notin ChangesOnFailure
  <2>1. pc \in {"set", "init_set"} => fr.op = pc
    BY <1>1 DEF Ownership, TextOwns, TextOps
  <2>. QED
    BY <2>1 DEF ChangesOnFailure
<1>. QED
  BY <1>1, <1>2, <1>3, <1>4, <1>5, <1>6, OwnWritesKept

LEMMA MachineWritesKept ==
  ASSUME Ownership, Remembered, OthersWrite, MachineNext
  PROVE  OthersWrite'
<1>1. fr.op \in MachineOps /\ fr' = fr /\ pc # "done"
  BY StepsAtHome
<1>2. fr.op \notin ReduceOps
  BY <1>1 DEF ReduceOps, MachineOps
<1>3. old' = old
  BY DEF MachineNext, mp_set_double, mp_get_double, mp_hash, Refuse, Return, Answer
<1>4. \/ UNCHANGED val
      \/ (\E n : val' = [val EXCEPT ![fr.a] = n]) /\ pc = "set_double"
  BY DEF MachineNext, mp_set_double, mp_get_double, mp_hash, Refuse, Return, Answer, Put
<1>5. pc = "set_double" => fr.op \in ChangesOnFailure
  BY <1>1 DEF Ownership, MachineOwns, ChangesOnFailure
<1>. QED
  BY <1>1, <1>2, <1>3, <1>4, <1>5, OwnWritesKept

LEMMA ReadersWriteNothing ==
  ASSUME Ownership, Remembered, OthersWrite, RecursionNext \/ LogNext \/ SourceNext
  PROVE  OthersWrite'
<1>1. fr.op \in RecursionOps \cup LogOps \cup SourceOps /\ fr' = fr /\ pc # "done"
  BY StepsAtHome
<1>2. fr.op \notin ReduceOps \cup ChangesOnFailure
  BY <1>1 DEF ReduceOps, RecursionOps, LogOps, SourceOps, ChangesOnFailure
<1>3. RecursionNext => old' = old /\ (UNCHANGED val \/ (pc' = "done" /\ err' = "OKAY"))
  BY DEF RecursionNext, recursive_begin, recursive_chunk, recursive_last,
         recursive_end, ChunkFails, FailInitialising, Refuse, Return, Goto
<1>4. LogNext => old' = old /\ UNCHANGED val
  BY DEF LogNext, mp_log_n, log_shortcut, log_estimate, log_power, log_up,
         log_exact, log_down, Refuse, Return, Goto, Answer
<1>5. SourceNext => old' = old /\ UNCHANGED val
  BY DEF SourceNext, mp_rand_source, s_mp_rand_platform, s_read_arc4random,
         s_read_wincsp, s_read_getrandom, urandom_open, s_read_urandom, TryNext, Interrupted,
         Refuse, Return, Goto, Answer
<1>. QED
  BY <1>1, <1>2, <1>3, <1>4, <1>5, OwnWritesKept

LEMMA OthersWriteKept ==
  ASSUME Ownership, Remembered, OthersWrite, [Next]_vars, ~ MulNext
  PROVE  OthersWrite'
<1>1. CASE UNCHANGED vars
  BY <1>1 DEF vars, OthersWrite, ReduceFailure
<1>. QED
  BY <1>1, ReduceWritesKept, PrimeWritesKept, TextWritesKept, MachineWritesKept,
     ReadersWriteNothing DEF Next

LEMMA MulWritesInit ==
  ASSUME Init
  PROVE  Remembered /\ OthersWrite /\ MulWrites
<1>1. fr \in Frames /\ old = val /\ old \in Contents(fr) /\ pc = fr.op /\ err = "OKAY"
  BY DEF Init
<1>2. old \in [Ints -> Int]
  BY <1>1, ContentsAssumption
<1>3. Remembered
  BY <1>1, <1>2 DEF Remembered
<1>4. OthersWrite
  BY <1>1 DEF OthersWrite, ReduceFailure
<1>5. fr.op \in MulOps => pc \notin {"mul_begins", "mul_runs", "done"}
  BY <1>1 DEF MulOps
<1>6. MulWrites
  BY <1>1, <1>5 DEF MulWrites
<1>. QED
  BY <1>3, <1>4, <1>6

LEMMA WritesKept ==
  ASSUME Ownership, Remembered, OthersWrite, MulWrites, [Next]_vars
  PROVE  OthersWrite' /\ MulWrites'
<1>1. CASE MulNext
  <2>1. fr.op \in MulOps /\ fr' = fr
    BY <1>1, StepsAtHome
  <2>2. fr.op \notin ReduceOps /\ fr.op \notin ChangesOnFailure /\ fr.op \in Writers
    BY <2>1 DEF MulOps, ReduceOps, ChangesOnFailure, Writers
  <2>. QED
    BY <1>1, <2>1, <2>2, FrameOfOp, MulWritesKept DEF OthersWrite, Ownership
<1>2. CASE UNCHANGED vars
  BY <1>2 DEF vars, OthersWrite, MulWrites, MulLocals, PartLocals, MulFailure, ReduceFailure,
              TakesToom
<1>3. CASE ~ MulNext /\ ~ UNCHANGED vars
  <2>1. OthersWrite'
    BY <1>3, OthersWriteKept
  <2>2. fr.op \notin MulOps /\ fr' = fr
    BY <1>3, StepsAtHome DEF Next, MulOps, ReduceOps, RecursionOps, LogOps, PrimeOps, SourceOps,
       TextOps, MachineOps
  <2>. QED
    BY <2>1, <2>2 DEF MulWrites
<1>. QED
  BY <1>1, <1>2, <1>3

(* A call that fails has changed nothing but what its function may change, *)
(* and every call has given back its temporaries and closed its device:    *)
(* for every client, radix and choice of routines.  The clean-up labels of *)
(* all these functions are what is at stake, and the destination that a    *)
(* routine of Toom and Cook uses for its own purposes.                     *)
THEOREM FailedCallsLeave == Spec => []FailureLeaves
<1>1. Init => Remembered /\ OthersWrite /\ MulWrites
  BY MulWritesInit
<1>2. Ownership /\ (Remembered /\ OthersWrite /\ MulWrites) /\ [Next]_vars
        => (Remembered /\ OthersWrite /\ MulWrites)'
  BY WritesKept, RememberedKept
<1>3. Ownership /\ Remembered /\ OthersWrite /\ MulWrites => FailureLeaves
  <2>. SUFFICES ASSUME Ownership, Remembered, OthersWrite, MulWrites, pc = "done"
                PROVE  /\ live = {} /\ RecursionClears
                       /\ err # "OKAY" =>
                            IF fr.op \in {"mul", "low", "high"} THEN MulFailure
                            ELSE IF fr.op \in ReductionOps THEN ReduceFailure
                            ELSE IF fr.op \in ChangesOnFailure
                                 THEN \A s \in Ints \ {fr.a} : val[s] = old[s]
                            ELSE val = old
    BY DEF FailureLeaves
  <2>1. live = {}
    BY Operations DEF Ownership, MulOwns, ReduceOwns, RecursionOwns, LogOwns, PrimeOwns,
       SourceOwns, TextOwns, MachineOwns, PrimeOps, MulOps, ReduceOps, RecursionOps, LogOps, 
       SourceOps, TextOps, MachineOps
  <2>2. RecursionClears
    BY DEF Ownership, StraysOwned, RecursionClears
  <2>3. err # "OKAY" /\ fr.op \in MulOps => MulFailure
    BY DEF MulWrites
  <2>4. err # "OKAY" /\ fr.op \notin Writers => val = old
    BY DEF OthersWrite
  <2>. QED
    BY <2>1, <2>2, <2>3, <2>4 DEF OthersWrite, MulOps, ReductionOps, ReduceOps, Writers
<1>. QED
  BY <1>1, <1>2, <1>3, Owned, PTL DEF Spec

(* Products: mp_mul leaves the product of its operands, whichever of the   *)
(* routines the build has and the lengths choose, for every radix, width   *)
(* of a word and cutoff, and whichever operand it replaces; s_mp_mul and   *)
(* s_mp_mul_high leave the digits asked for.  No product is taken for one  *)
(* that comba's columns or the carries of a row cannot hold.               *)
THEOREM ProductsMade == Spec => []ProductCorrect
<1>1. Init => Remembered /\ OthersWrite /\ MulWrites /\ MulProducts
  <2>. SUFFICES ASSUME Init PROVE MulProducts
    BY MulWritesInit
  <2>1. fr.op \in MulOps => pc \notin {"mul_begins", "mul_runs", "done"}
    BY DEF Init, MulOps
  <2>. QED
    BY <2>1 DEF MulProducts
<1>2. Ownership /\ (Remembered /\ OthersWrite /\ MulWrites /\ MulProducts) /\ [Next]_vars
        => (Remembered /\ OthersWrite /\ MulWrites /\ MulProducts)'
  <2>. SUFFICES ASSUME Ownership, Remembered, OthersWrite, MulWrites, MulProducts, [Next]_vars
                PROVE  MulProducts'
    BY RememberedKept, WritesKept
  <2>1. CASE MulNext
    <3>1. fr \in MulFrames /\ MulOwns /\ fr \in Frames
      BY <2>1, StepsAtHome, FrameOfOp DEF Ownership
    <3>2. HighAsks
      BY <3>1, HighAssumption DEF HighAsks, Remembered
    <3>. QED
      BY <2>1, <3>1, <3>2, MulProductsKept
  <2>2. CASE UNCHANGED vars
    BY <2>2, Zenon DEF vars, MulProducts, MulChosen, RoutineRun, ColumnsRun, RowsRun, BalanceRun,
       PartsRun, PartsHeld, Operand, Asked, AllPlaces, FirstColumn, LastColumn, ProductCorrect,
       Succeeded, Done, longer, shorter, bsize, A, B
  <2>3. CASE Next /\ ~ MulNext
    <3>1. fr' = fr /\ fr.op \notin MulOps
      BY <2>3, StepsAtHome DEF Next, MulOps, ReduceOps, RecursionOps, LogOps, PrimeOps, SourceOps,
         TextOps, MachineOps
    <3>. QED
      BY <3>1 DEF MulProducts
  <2>. QED
    BY <2>1, <2>2, <2>3
<1>3. MulProducts => ProductCorrect
  BY DEF MulProducts, ProductCorrect, Succeeded, Done, MulOps
<1>. QED
  BY <1>1, <1>2, <1>3, Owned, PTL DEF Spec

-----------------------------------------------------------------------------
(* The logarithm in fixed point is that of the bits, and less than one     *)
(* above it, whatever its fraction.                                        *)
LEMMA WordType ==
  /\ MP_WORD_BIT \in Nat /\ 2 ^ MP_WORD_BIT \in Nat /\ 2 ^ MP_WORD_BIT > 0
  /\ MP_PRECISION_FIXED_LOG \in Nat /\ MP_PRECISION_FIXED_LOG > 0
  /\ \A n \in Int : Word(n) \in Nat /\ (n \in 0 .. 2 ^ MP_WORD_BIT - 1 => Word(n) = n)
<1>1. MP_WORD_BIT \in Nat /\ MP_WORD_BIT >= 5
  BY WordAssumption, DigitBitAssumption
<1>2. MP_PRECISION_FIXED_LOG \in Nat /\ MP_PRECISION_FIXED_LOG > 0
  BY <1>1 DEF MP_PRECISION_FIXED_LOG
<1>. DEFINE w == 2 ^ MP_WORD_BIT
<1>3. w \in Nat /\ w > 0
  BY <1>1, TwoTo
<1>. HIDE DEF w
<1>4. ASSUME NEW n \in Int PROVE n % w \in Nat /\ (n \in 0 .. w - 1 => n % w = n)
  <2>1. n % w \in Nat
    BY <1>3, Division
  <2>2. ASSUME n \in 0 .. w - 1 PROVE n % w = n
    <3>1. (w * 0 + n) % w = n /\ w * 0 = 0
      BY <1>3, <2>2, DivisionUnique
    <3>. QED
      BY <3>1
  <2>. QED
    BY <2>1, <2>2
<1>. QED
  BY <1>1, <1>2, <1>3, <1>4 DEF Word, w

LEMMA FixedType ==
  \A n \in Int : Fixed(n) \in Int /\ (n \in Nat => Fixed(n) \in Nat) /\ (~ fr.small => Fixed(n) \in Nat)
BY WordType DEF Fixed

LEMMA LogFractionBounds ==
  ASSUME NEW x \in Nat, x > 0, mp_count_bits(x) <= MP_PRECISION_FIXED_LOG + 1
  PROVE  /\ LogFraction(x) \in Nat
         /\ (mp_count_bits(x) - 1) * 2 ^ MP_PRECISION_FIXED_LOG <= LogFraction(x)
         /\ LogFraction(x) < mp_count_bits(x) * 2 ^ MP_PRECISION_FIXED_LOG
<1>. DEFINE p == MP_PRECISION_FIXED_LOG
            L == mp_count_bits(x) - 1
            D == 0 .. p
            V == [a_bar : Int, L_out : Int]
            start == [a_bar |-> x * 2 ^ (p - L), L_out |-> L * 2 ^ p]
            small(i, r) == Fixed(r.a_bar * r.a_bar) \div 2 ^ p < 2 ^ (p + 1)
            step(i, r) ==
              LET square == Fixed(r.a_bar * r.a_bar) \div 2 ^ p
              IN  IF square < 2 ^ (p + 1) THEN [a_bar |-> square, L_out |-> r.L_out]
                  ELSE [a_bar |-> square \div 2, L_out |-> r.L_out + 2 ^ (p - i)]
            P(s) == s = [i \in D |-> IF i = 0 THEN start ELSE step(i, s[i - 1])]
            s0 == CHOOSE s : P(s)
<1>1. p \in Nat /\ p > 0 /\ L \in Nat /\ L <= p
  BY WordType, CountBits
<1>. HIDE DEF p, L
<1>2. \A i \in Nat : 2 ^ i \in Nat /\ 2 ^ i > 0
  BY TwoTo
<1>3. start \in V
  <2>1. 2 ^ (p - L) \in Nat /\ 2 ^ p \in Nat
    BY <1>1, <1>2
  <2>2. x * 2 ^ (p - L) \in Int /\ L * 2 ^ p \in Int
    BY <1>1, <2>1
  <2>. QED
    BY <2>2
<1>4. ASSUME NEW i \in 1 .. p, NEW r \in V
      PROVE  /\ step(i, r) \in V
             /\ step(i, r).L_out \in {r.L_out, r.L_out + 2 ^ (p - i)}
  <2>. DEFINE square == Fixed(r.a_bar * r.a_bar) \div 2 ^ p
  <2>1. r.a_bar \in Int /\ r.L_out \in Int /\ r.a_bar * r.a_bar \in Int
    OBVIOUS
  <2>2. Fixed(r.a_bar * r.a_bar) \in Int
    BY <2>1, FixedType
  <2>3. square \in Int
    BY <1>1, <1>2, <2>2, Division
  <2>. HIDE DEF square
  <2>4. square \div 2 \in Int
    BY <2>3
  <2>5. p - i \in Nat
    BY <1>1
  <2>6. 2 ^ (p - i) \in Nat
    BY <1>2, <2>5
  <2>7. r.L_out + 2 ^ (p - i) \in Int
    BY <2>1, <2>6
  <2>8. step(i, r) = IF square < 2 ^ (p + 1) THEN [a_bar |-> square, L_out |-> r.L_out]
                     ELSE [a_bar |-> square \div 2, L_out |-> r.L_out + 2 ^ (p - i)]
    BY DEF square
  <2>. QED
    BY <2>1, <2>3, <2>4, <2>7, <2>8
<1>. HIDE DEF step, start
<1>. DEFINE first == [i \in D |-> start]
            prev == [i \in D |-> IF i = 0 THEN 0 ELSE i - 1]
            next == [c \in D \X V |-> IF c[1] = 0 THEN start ELSE step(c[1], c[2])]
<1>5. PICK f \in [D -> V] : SolvesAll(f, D, {0}, first, prev, next)
  <2>1. first \in [D -> V]
    BY <1>3
  <2>2. prev \in [D -> D] /\ Descends(D, {0}, prev)
    BY <1>1 DEF Descends
  <2>3. next \in [D \X V -> V]
    <3>. HIDE DEF V
    <3>1. \A i \in D, r \in V : i # 0 => step(i, r) \in V
      <4>1. \A i \in D : i # 0 => i \in 1 .. p
        OBVIOUS
      <4>. QED
        BY <1>4, <4>1
    <3>. HIDE DEF D
    <3>. QED
      BY <1>3, <3>1
  <2>4. D \in SUBSET Nat
    OBVIOUS
  <2>. HIDE DEF first, prev, next, D, V
  <2>. QED
    BY <2>1, <2>2, <2>3, <2>4, RecursionSolved
<1>. HIDE DEF V
<1>6. ASSUME NEW i \in D PROVE f[i] = IF i = 0 THEN start ELSE step(i, f[i - 1])
  <2>1. CASE i = 0
    <3>1. first[i] = start
      OBVIOUS
    <3>. QED
      BY <1>5, <2>1, <3>1 DEF SolvesAll
  <2>2. CASE i # 0
    <3>1. prev[i] = i - 1 /\ i - 1 \in D
      BY <1>1, <2>2
    <3>2. f[i - 1] \in V
      BY <1>5, <3>1
    <3>3. next[<< i, f[i - 1] >>] = step(i, f[i - 1])
      BY <2>2, <3>2
    <3>. HIDE DEF first, prev, next, D
    <3>4. f[i] = next[<< i, f[i - 1] >>]
      BY <1>5, <2>2, <3>1 DEF SolvesAll
    <3>. QED
      BY <2>2, <3>3, <3>4
  <2>. QED
    BY <2>1, <2>2
<1>7. P(f)
  BY <1>5, <1>6
<1>8. P(s0)
  <2>. HIDE DEF P
  <2>. QED
    BY <1>7
<1>9. LogFraction(x) = s0[p].L_out
  BY DEF LogFraction, s0, P, step, start, D, p, L
<1>. HIDE DEF s0
<1>10. \A i \in D : s0[i] = IF i = 0 THEN start ELSE step(i, s0[i - 1])
  BY <1>8
<1>. DEFINE low == L * 2 ^ p
            Bound(i) == s0[i].L_out \in Int /\ low <= s0[i].L_out /\ s0[i].L_out <= low + (2 ^ p - 2 ^ (p - i))
            S == {i \in Nat : i \in D => s0[i] \in V /\ Bound(i)}
<1>11. low \in Nat /\ (L + 1) * 2 ^ p = low + 2 ^ p
  <2>1. 2 ^ p \in Nat
    BY <1>1, <1>2
  <2>. QED
    BY <1>1, <2>1
<1>12. 0 \in S
  <2>1. s0[0] = start /\ start.L_out = low
    <3>1. 0 \in D
      BY <1>1
    <3>. QED
      BY <1>10, <3>1 DEF start
  <2>2. p - 0 = p /\ 2 ^ p \in Nat
    BY <1>1, <1>2
  <2>. HIDE DEF low
  <2>. QED
    BY <1>3, <1>11, <2>1, <2>2
<1>13. ASSUME NEW i \in Nat, i \in S PROVE i + 1 \in S
  <2>. SUFFICES ASSUME i + 1 \in D PROVE s0[i + 1] \in V /\ Bound(i + 1)
    OBVIOUS
  <2>1. i \in D /\ i + 1 \in 1 .. p /\ (i + 1) - 1 = i /\ i + 1 # 0
    <3>1. i + 1 \in 0 .. p
      OBVIOUS
    <3>2. i + 1 <= p
      BY <3>1
    <3>. QED
      BY <1>1, <3>2
  <2>2. s0[i] \in V /\ Bound(i)
    BY <1>13, <2>1
  <2>3. s0[i + 1] = step(i + 1, s0[i])
    BY <1>10, <2>1
  <2>4. /\ s0[i + 1] \in V
        /\ s0[i + 1].L_out \in {s0[i].L_out, s0[i].L_out + 2 ^ (p - (i + 1))}
    BY <1>4, <2>1, <2>2, <2>3
  <2>5. PICK k \in Nat : k = p - (i + 1)
    BY <1>1, <2>1
  <2>6. p - i = k + 1 /\ 2 ^ (k + 1) = 2 * 2 ^ k /\ 2 ^ k \in Nat /\ 2 ^ p \in Nat
    BY <1>1, <1>2, <2>5, TwoTo
  <2>. DEFINE pk == 2 ^ k
              pp == 2 ^ p
  <2>7. pk \in Nat /\ pp \in Nat /\ 2 ^ (p - i) = 2 * pk /\ 2 ^ (p - (i + 1)) = pk
    BY <2>5, <2>6
  <2>. HIDE DEF low, pk
  <2>. DEFINE now == s0[i].L_out
              then == s0[i + 1].L_out
  <2>8. now \in Int /\ low <= now /\ now <= low + (2 ^ p - 2 ^ (p - i))
    BY <2>2
  <2>9. then \in {now, now + 2 ^ (p - (i + 1))}
    BY <2>4
  <2>10. 2 ^ p = pp
    OBVIOUS
  <2>. HIDE DEF pp, now, then, low, pk
  <2>11. now <= low + (pp - 2 * pk) /\ then \in {now, now + pk}
    BY <2>7, <2>8, <2>9, <2>10
  <2>12. then \in Int /\ low <= then /\ then <= low + (pp - pk)
    BY <1>11, <2>7, <2>8, <2>11
  <2>13. then <= low + (2 ^ p - 2 ^ (p - (i + 1)))
    BY <2>7, <2>10, <2>12
  <2>14. Bound(i + 1)
    BY <2>12, <2>13 DEF then
  <2>. QED
    BY <2>4, <2>14
<1>14. p \in S
  <2>. HIDE DEF S
  <2>. QED
    BY <1>1, <1>12, <1>13, Successor
<1>15. Bound(p)
  <2>1. p \in D
    BY <1>1
  <2>. QED
    BY <1>14, <2>1
<1>16. 2 ^ (p - p) = 1
  <2>1. p - p = 0
    BY <1>1
  <2>. QED
    BY <2>1, TwoTo
<1>17. 2 ^ p \in Nat
  BY <1>1, <1>2
<1>. DEFINE pp == 2 ^ p
<1>18. LogFraction(x) \in Nat /\ low <= LogFraction(x) /\ LogFraction(x) < low + pp
  <2>. HIDE DEF low
  <2>. QED
    BY <1>9, <1>11, <1>15, <1>16, <1>17
<1>19. mp_count_bits(x) = L + 1
  BY CountBits DEF L
<1>. QED
  BY <1>11, <1>18, <1>19 DEF p, L

LEMMA FpLogBounds ==
  ASSUME NEW n \in Nat, n > 0,
         ~ fr.small => mp_count_bits(n) * 2 ^ MP_PRECISION_FIXED_LOG <= 2 ^ MP_WORD_BIT
  PROVE  /\ s_mp_fp_log(n) \in Nat
         /\ (mp_count_bits(n) - 1) * 2 ^ MP_PRECISION_FIXED_LOG <= s_mp_fp_log(n)
         /\ s_mp_fp_log(n) < mp_count_bits(n) * 2 ^ MP_PRECISION_FIXED_LOG
<1>. DEFINE p == MP_PRECISION_FIXED_LOG
            bits == mp_count_bits(n)
            P == 2 ^ p
            shift == bits - 1 - p
<1>1. p \in Nat /\ P \in Nat /\ P > 0 /\ bits \in Nat /\ bits > 0
  BY WordType, TwoTo, CountBits
<1>2. CASE ~ shift > 0
  <2>1. bits <= p + 1
    BY <1>1, <1>2
  <2>2. s_mp_fp_log(n) = LogFraction(n)
    BY <1>2 DEF s_mp_fp_log
  <2>. QED
    BY <2>1, <2>2, LogFractionBounds
<1>3. CASE shift > 0
  <2>. DEFINE s == 2 ^ shift
              y == n \div s
  <2>1. shift \in Nat /\ s \in Nat /\ s > 0
    BY <1>1, <1>3, TwoTo
  <2>2. 2 ^ (bits - 1) <= n /\ n < 2 ^ bits
    BY CountBits
  <2>3. 2 ^ (bits - 1) = P * s /\ 2 ^ bits = 2 ^ (p + 1) * s
    <3>1. bits - 1 = p + shift /\ bits = (p + 1) + shift
      BY <1>1
    <3>2. 2 ^ (p + shift) = P * s
      BY <1>1, <2>1, TwoToSum
    <3>0. p + 1 \in Nat
      BY <1>1
    <3>3. 2 ^ ((p + 1) + shift) = 2 ^ (p + 1) * s
      BY <2>1, <3>0, TwoToSum
    <3>. HIDE DEF shift, p, bits, s, P
    <3>. QED
      BY <3>1, <3>2, <3>3
  <2>4. 2 ^ (p + 1) \in Nat
    BY <1>1, TwoTo
  <2>. DEFINE P2 == 2 ^ (p + 1)
              sh == shift
  <2>. HIDE DEF s, P
  <2>5. y \in Nat /\ y * s \in Nat /\ y * s <= n /\ n < (y + 1) * s /\ (\A k \in Nat : k <= y <=> k * s <= n)
    BY <2>1, Greatest
  <2>. HIDE DEF y, P2
  <2>6. P <= y
    <3>1. P * s <= n
      BY <2>2, <2>3
    <3>. QED
      BY <1>1, <2>5, <3>1
  <2>7. y < P2
    <3>1. n < P2 * s
      BY <2>2, <2>3 DEF P2
    <3>2. ASSUME P2 <= y PROVE FALSE
      <4>0. P2 \in Nat
        BY <2>4 DEF P2
      <4>1. P2 * s <= n
        BY <2>5, <3>2, <4>0
      <4>2. P2 * s \in Nat
        BY <4>0, <2>1
      <4>. QED
        BY <3>1, <4>1, <4>2
    <3>. QED
      BY <2>4, <2>5, <3>2 DEF P2
  <2>8. mp_count_bits(y) = p + 1
    BY <1>1, <2>5, <2>6, <2>7, CountBitsUnique DEF P, P2
  <2>. DEFINE f == LogFraction(y)
              a == p * P
              d == shift * P
  <2>9. f \in Nat /\ a <= f /\ f < (p + 1) * P
    <3>1. y > 0
      BY <1>1, <2>5, <2>6
    <3>2. (p + 1) - 1 = p
      BY <1>1
    <3>. QED
      BY <1>1, <2>5, <2>8, <3>1, <3>2, LogFractionBounds DEF P
  <2>10. /\ a \in Nat /\ d \in Nat /\ (p + 1) * P = a + P
         /\ (bits - 1) * P = a + d /\ bits * P = (a + P) + d
    <3>1. bits - 1 = p + shift /\ bits = (p + 1) + shift
      BY <1>1
    <3>2. a \in Nat /\ d \in Nat /\ (p + 1) * P = a + P
      BY <1>1, <2>1
    <3>3. (p + shift) * P = a + d
      BY <1>1, <2>1, IntegerProducts
    <3>4. ((p + 1) + shift) * P = (p + 1) * P + d
      BY <1>1, <2>1, IntegerProducts
    <3>. HIDE DEF shift, p, bits, a, d
    <3>. QED
      BY <3>1, <3>2, <3>3, <3>4
  <2>11. s_mp_fp_log(n) = Fixed(f + d)
    BY <1>3 DEF s_mp_fp_log, P, y, s
  <2>. HIDE DEF f, a, d, shift, p
  <2>12. f + d \in Nat /\ a + d <= f + d /\ f + d < (a + P) + d
    BY <1>1, <2>9, <2>10
  <2>13. Fixed(f + d) = f + d
    <3>1. CASE fr.small
      BY <3>1 DEF Fixed
    <3>2. CASE ~ fr.small
      <4>1. bits * P <= 2 ^ MP_WORD_BIT
        BY <3>2 DEF P, p
      <4>2. f + d \in 0 .. 2 ^ MP_WORD_BIT - 1
        BY <1>1, <2>10, <2>12, <4>1, WordType
      <4>. QED
        BY <3>2, <4>2, <2>12, WordType DEF Fixed
    <3>. QED
      BY <3>1, <3>2
  <2>. QED
    BY <2>10, <2>11, <2>12, <2>13 DEF P, p
<1>. QED
  BY <1>2, <1>3

(* The estimate is an exponent that is at least one, whatever the width    *)
(* of a word, for a base with half of the bits of the number or little     *)
(* more.                                                                   *)
LEMMA ApproxLog ==
  ASSUME NEW n \in Nat, n > 0, NEW b \in Nat, b > 0, mp_count_bits(b) >= 2,
         2 * (mp_count_bits(b) - 1) - 1 <= mp_count_bits(n) - 1,
         ~ fr.small => /\ mp_count_bits(n) * 2 ^ MP_PRECISION_FIXED_LOG <= 2 ^ MP_WORD_BIT
                       /\ mp_count_bits(b) * 2 ^ MP_PRECISION_FIXED_LOG <= 2 ^ MP_WORD_BIT
  PROVE  s_approx_log(n, b) \in Nat /\ s_approx_log(n, b) >= 1
<1>. DEFINE p == MP_PRECISION_FIXED_LOG
            P == 2 ^ p
            c == mp_count_bits(n)
            d == mp_count_bits(b)
            La == s_mp_fp_log(n)
            Lb == s_mp_fp_log(b)
            h == (Lb + 1) \div 2
            x == La - h
<1>1. P \in Nat /\ P > 0 /\ c \in Nat /\ c > 0 /\ d \in Nat /\ d >= 2
  BY WordType, TwoTo, CountBits
<1>2. La \in Nat /\ (c - 1) * P <= La
  BY FpLogBounds
<1>3. Lb \in Nat /\ (d - 1) * P <= Lb /\ Lb < d * P
  BY FpLogBounds
<1>4. c >= 2 * d - 2
  BY <1>1
<1>5. s_approx_log(n, b) = Fixed(x) \div Lb + 1
  BY DEF s_approx_log
<1>. HIDE DEF p, P, c, d, La, Lb
<1>. DEFINE e == d * P
<1>6. PICK k \in Nat : c = 2 * d - 2 + k
  BY <1>1, <1>4
<1>7. e \in Nat /\ (d - 1) * P = e - P /\ (c - 1) * P = 2 * e - 3 * P + k * P /\ k * P \in Nat
  <2>1. e \in Nat /\ k * P \in Nat /\ (d - 1) * P = e - P
    BY <1>1, <1>6
  <2>2. c - 1 = 2 * d - 3 + k
    BY <1>6, <1>1
  <2>3. (2 * d - 3 + k) * P = 2 * (d * P) - 3 * P + k * P
    BY <1>1, <1>6
  <2>. QED
    BY <2>1, <2>2, <2>3
<1>8. e >= 2 * P
  <2>1. PICK j \in Nat : d = 2 + j
    BY <1>1
  <2>2. (2 + j) * P = 2 * P + j * P /\ j * P \in Nat
    BY <1>1, <2>1
  <2>. QED
    BY <1>1, <2>1, <2>2
<1>9. La >= 2 * e - 3 * P /\ Lb >= e - P /\ Lb < e
  <2>. DEFINE kP == k * P
              c1 == (c - 1) * P
              d1 == (d - 1) * P
  <2>1. c1 <= La /\ d1 <= Lb /\ Lb < e /\ kP \in Nat /\ d1 = e - P /\ c1 = 2 * e - 3 * P + kP
    BY <1>2, <1>3, <1>7
  <2>2. e \in Nat
    BY <1>7
  <2>. HIDE DEF kP, c1, d1, e
  <2>. QED
    BY <2>1, <2>2, <1>1, <1>2, <1>3
<1>10. e \in Nat
  BY <1>7
<1>. HIDE DEF e
<1>11. Lb > 0 /\ x \in Nat
  <2>1. h \in Nat /\ 2 * h <= Lb + 1
    BY <1>3
  <2>. HIDE DEF h
  <2>. QED
    BY <1>1, <1>2, <1>3, <1>8, <1>9, <1>10, <2>1
<1>12. Fixed(x) \in Nat
  <2>. HIDE DEF x
  <2>. QED
    BY <1>11, FixedType
<1>13. Fixed(x) \div Lb \in Nat
  BY <1>3, <1>11, <1>12, Greatest
<1>. QED
  BY <1>5, <1>13

-----------------------------------------------------------------------------
(* Logarithms.                                                             *)
LEMMA PowersOfTwo ==
  ASSUME NEW n \in Nat, MP_IS_POWER_OF_TWO(n)
  PROVE  /\ mp_cnt_lsb(n) \in Nat /\ n = 2 ^ mp_cnt_lsb(n)
         /\ \A q \in Nat : Power(n, q) = 2 ^ (mp_cnt_lsb(n) * q)
<1>. DEFINE k == mp_cnt_lsb(n)
<1>1. n > 0 /\ mp_count_bits(n) - 1 = k
  BY DEF MP_IS_POWER_OF_TWO
<1>2. k \in Nat /\ mp_count_bits(n) = k + 1
  BY <1>1, CntLsb, CountBits
<1>3. n < 2 ^ (k + 1) /\ 2 ^ (k + 1) = 2 * 2 ^ k /\ 2 ^ k \in Nat /\ 2 ^ k > 0
  BY <1>1, <1>2, CountBits, TwoTo
<1>4. PICK m \in Nat : m % 2 = 1 /\ n = m * 2 ^ k
  BY <1>1, CntLsb
<1>. HIDE DEF k
<1>5. m = 1
  <2>. DEFINE t == 2 ^ k
  <2>1. t \in Nat /\ t > 0 /\ m * t < 2 * t
    BY <1>3, <1>4
  <2>. HIDE DEF t
  <2>2. m < 2
    BY <2>1, MonotoneProduct
  <2>. QED
    BY <1>4, <2>2
<1>6. n = 2 ^ k
  BY <1>3, <1>4, <1>5
<1>. DEFINE S == {q \in Nat : Power(n, q) = 2 ^ (k * q)}
<1>7. 0 \in S
  <2>1. k * 0 = 0
    BY <1>2
  <2>2. Power(n, 0) = 1
    BY PowerFacts
  <2>3. 2 ^ (k * 0) = 1
    BY <2>1, TwoTo, Zenon
  <2>. QED
    BY <2>2, <2>3
<1>8. ASSUME NEW q \in Nat, q \in S PROVE q + 1 \in S
  <2>1. Power(n, q + 1) = Power(n, q) * n
    BY PowerFacts
  <2>. DEFINE kq == k * q
  <2>2. k * (q + 1) = kq + k /\ kq \in Nat
    BY <1>2
  <2>. HIDE DEF kq
  <2>3. 2 ^ (kq + k) = 2 ^ kq * 2 ^ k
    BY <1>2, <2>2, TwoToSum
  <2>4. Power(n, q) = 2 ^ kq
    BY <1>8 DEF kq
  <2>5. Power(n, q + 1) = 2 ^ (k * (q + 1))
    BY <1>6, <2>1, <2>2, <2>3, <2>4
  <2>. QED
    BY <2>5
<1>. HIDE DEF S
<1>9. \A q \in Nat : q \in S
  BY <1>7, <1>8, Successor
<1>. QED
  BY <1>2, <1>6, <1>9 DEF k, S

(* What it means that n has logarithm e to the base b.                     *)
LEMMA LogMeans ==
  ASSUME NEW n \in Nat, n > 0, NEW b \in Nat, b >= 2, NEW e \in Nat
  PROVE  /\ Power(b, e) <= n => n \div Power(b, e) > 0
         /\ n < Power(b, e + 1) => n \div Power(b, e) < b
<1>. DEFINE d == Power(b, e)
            q == n \div d
<1>1. d \in Nat /\ d > 0 /\ Power(b, e + 1) = d * b
  <2>1. b \in Int /\ b > 0
    OBVIOUS
  <2>2. d \in Int /\ Power(b, e + 1) = d * b
    BY <2>1, PowerFacts
  <2>3. d > 0
    BY <2>1, PowerPositive
  <2>. QED
    BY <2>2, <2>3
<1>. HIDE DEF d
<1>2. q \in Nat /\ \A k \in Nat : k <= q <=> k * d <= n
  BY <1>1, Greatest
<1>. HIDE DEF q
<1>3. ASSUME d <= n PROVE q > 0
  <2>1. 1 * d <= n
    BY <1>1, <1>3
  <2>. QED
    BY <1>2, <2>1
<1>4. ASSUME n < d * b PROVE q < b
  <2>. SUFFICES ASSUME b <= q PROVE FALSE
    BY <1>2
  <2>1. b * d <= n
    BY <1>2
  <2>2. d * b = b * d /\ b * d \in Nat
    BY <1>1
  <2>. QED
    BY <1>4, <2>1, <2>2
<1>. QED
  BY <1>1, <1>3, <1>4 DEF d, q

LEMMA LogOfPowersOfTwo ==
  ASSUME NEW n \in Nat, n > 0, NEW b \in Nat, b >= 2, MP_IS_POWER_OF_TWO(b)
  PROVE  LET e == (mp_count_bits(n) - 1) \div mp_cnt_lsb(b)
         IN  e \in Nat /\ Power(b, e) <= n /\ n < Power(b, e + 1)
<1>. DEFINE k == mp_cnt_lsb(b)
            c == mp_count_bits(n) - 1
            e == c \div k
<1>1. k \in Nat /\ b = 2 ^ k /\ \A q \in Nat : Power(b, q) = 2 ^ (k * q)
  BY PowersOfTwo
<1>2. c \in Nat /\ 2 ^ c <= n /\ n < 2 ^ (c + 1)
  <2>1. mp_count_bits(n) = c + 1 /\ c \in Nat
    BY CountBits
  <2>. QED
    BY <2>1, CountBits
<1>. HIDE DEF k, c
<1>3. k > 0
  <2>1. k = 0 => b = 1
    BY <1>1, TwoTo, Zenon
  <2>. QED
    BY <1>1, <2>1
<1>4. e \in Nat /\ e * k \in Nat /\ e * k <= c /\ c < (e + 1) * k
  BY <1>1, <1>2, <1>3, Greatest
<1>. HIDE DEF e
<1>5. e * k = k * e /\ (e + 1) * k = k * (e + 1) /\ k * e \in Nat /\ k * (e + 1) \in Nat
  BY <1>1, <1>4
<1>. DEFINE u == k * e
            v == k * (e + 1)
<1>6. u \in Nat /\ v \in Nat /\ u <= c /\ c + 1 <= v
  BY <1>2, <1>4, <1>5
<1>7. Power(b, e) = 2 ^ u /\ Power(b, e + 1) = 2 ^ v
  BY <1>1, <1>4
<1>. HIDE DEF u, v
<1>8. 2 ^ u <= 2 ^ c /\ 2 ^ (c + 1) <= 2 ^ v
  <2>1. c + 1 \in Nat
    BY <1>2
  <2>. QED
    BY <1>2, <1>6, <2>1, TwoToMonotone
<1>9. 2 ^ u \in Nat /\ 2 ^ v \in Nat /\ 2 ^ c \in Nat /\ 2 ^ (c + 1) \in Nat
  BY <1>2, <1>6, TwoTo
<1>10. Power(b, e) <= n /\ n < Power(b, e + 1)
  BY <1>2, <1>7, <1>8, <1>9
<1>. QED
  BY <1>4, <1>10 DEF e, c, k

LEMMA LogOfLongBase ==
  ASSUME NEW n \in Nat, NEW b \in Nat, b >= 2, n > b,
         2 * (mp_count_bits(b) - 1) - 1 > mp_count_bits(n) - 1
  PROVE  Power(b, 1) <= n /\ n < Power(b, 2)
<1>. DEFINE k == mp_count_bits(b) - 1
            c == mp_count_bits(n)
            t == 2 ^ k
<1>1. k \in Nat /\ c \in Nat /\ t \in Nat /\ t > 0 /\ t <= b
  BY CountBits, TwoTo
<1>2. n < 2 ^ c
  BY CountBits
<1>3. c <= k + k
  BY <1>1
<1>. HIDE DEF k, c
<1>4. 2 ^ c <= 2 ^ (k + k) /\ 2 ^ (k + k) = t * t /\ 2 ^ c \in Nat
  <2>1. k + k \in Nat
    BY <1>1
  <2>. QED
    BY <1>1, <1>3, <2>1, TwoTo, TwoToMonotone, TwoToSum
<1>. HIDE DEF t
<1>5. t * t <= t * b /\ t * b <= b * b
  <2>1. t * t <= b * t /\ b * t = t * b
    BY <1>1, MonotoneProduct
  <2>2. t * b <= b * b
    BY <1>1, MonotoneProduct
  <2>. QED
    BY <2>1, <2>2
<1>6. t * t \in Nat /\ t * b \in Nat /\ b * b \in Nat
  BY <1>1
<1>. DEFINE tt == t * t
            tb == t * b
            bb == b * b
<1>7. n < bb
  <2>1. n < 2 ^ c /\ 2 ^ c <= tt /\ tt <= tb /\ tb <= bb
    BY <1>2, <1>4, <1>5
  <2>2. tt \in Nat /\ tb \in Nat /\ bb \in Nat
    BY <1>6
  <2>. HIDE DEF tt, tb, bb
  <2>. QED
    BY <1>4, <2>1, <2>2
<1>8. Power(b, 1) = b /\ Power(b, 2) = bb
  BY SmallPowers
<1>. QED
  BY <1>7, <1>8

(* The exponent the function is about to answer.                           *)
IsLog(e) ==
  /\ e \in Nat /\ Power(base, e) <= A
  /\ A < Power(base, e + 1) \/ PerhapsTooLong(A)

LogAnswered ==
  /\ err = "VAL" => A <= 0 \/ base < 2
  /\ err = "OKAY" => A > 0 /\ base >= 2 /\ IsLog(loc.answer)

(* The arguments are not touched; the power the loops correct is that of   *)
(* its exponent, and the first exponent tried, or the one after it, is     *)
(* none of the negative ones.                                              *)
LogRuns ==
  fr.op \in LogOps =>
    /\ val = old
    /\ pc \in {"log_power", "log_correct"} => A > base /\ base >= 2 /\ loc.n \in Nat
    /\ pc = "log_power" /\ ~ loc.again => loc.n >= 1
    /\ pc = "log_correct" => loc.bn = Power(base, loc.n)
    /\ pc = "done" => LogAnswered

LEMMA LogArguments ==
  ASSUME Ownership, Remembered, LogRuns, fr.op \in LogOps
  PROVE  /\ A \in Int /\ base \in Int /\ fr.limit \in Nat
         /\ ~ fr.small =>
              /\ mp_count_bits(A) * 2 ^ MP_PRECISION_FIXED_LOG <= 2 ^ MP_WORD_BIT
              /\ mp_count_bits(base) * 2 ^ MP_PRECISION_FIXED_LOG <= 2 ^ MP_WORD_BIT
<1>1. fr \in Frames /\ fr \in LogFrames
  BY FrameOfOp DEF Ownership
<1>2. val = old /\ val \in [Ints -> Int] /\ val \in Contents(fr)
  BY DEF Remembered, LogRuns
<1>3. /\ fr.op \in {"log", "log_n"} /\ fr.a \in Ints /\ fr.limit \in Nat
      /\ fr.op = "log" => fr.b \in Ints
      /\ fr.op # "log" => fr.base \in Int
  BY <1>1 DEF LogFrames
<1>4. A \in Int /\ base \in Int
  BY <1>2, <1>3 DEF base, A, B
<1>5. A = val[fr.a] /\ base = IF fr.op = "log" THEN val[fr.b] ELSE fr.base
  BY DEF base, A, B
<1>6. ASSUME ~ fr.small, NEW n \in {A, base}
      PROVE  mp_count_bits(n) * 2 ^ MP_PRECISION_FIXED_LOG <= 2 ^ MP_WORD_BIT
  <2>1. n \in {val[fr.a], IF fr.op = "log" THEN val[fr.b] ELSE fr.base}
    BY <1>5, <1>6
  <2>. QED
    BY <1>1, <1>2, <1>3, <1>6, <2>1, LogWordAssumption
<1>. QED
  BY <1>3, <1>4, <1>6

LEMMA LogSteps ==
  ASSUME Ownership, Remembered, LogRuns, LogNext
  PROVE  LogRuns'
<1>0. fr.op \in LogOps /\ fr' = fr /\ pc # "done"
  BY StepsAtHome
<1>1. A \in Int /\ base \in Int /\ val = old
  BY <1>0, LogArguments DEF LogRuns
<1>2. SUFFICES /\ val' = val /\ old' = old
               /\ pc' \in {"log_power", "log_correct"} => A > base /\ base >= 2 /\ loc'.n \in Nat
               /\ pc' = "log_power" /\ ~ loc'.again => loc'.n >= 1
               /\ pc' = "log_correct" => loc'.bn = Power(base, loc'.n)
               /\ pc' = "done" => /\ err' = "VAL" => A <= 0 \/ base < 2
                                  /\ err' = "OKAY" => A > 0 /\ base >= 2 /\ IsLog(loc'.answer)
  <2>1. ASSUME val' = val PROVE A' = A /\ base' = base
    BY <1>0, <2>1 DEF base, A, B
  <2>2. ASSUME val' = val, NEW n PROVE PerhapsTooLong(n)' <=> PerhapsTooLong(n)
    BY <1>0 DEF PerhapsTooLong
  <2>. QED
    BY <1>0, <1>1, <1>2, <2>1, <2>2 DEF LogRuns, LogAnswered, IsLog, PerhapsTooLong
<1>3. CASE mp_log_n
  BY <1>1, <1>3 DEF mp_log_n, Refuse, Return
<1>4. CASE log_shortcut
  <2>1. CASE (A <= 0 \/ base < 2) /\ Refuse("VAL", LogTemporaries)
    BY <2>1 DEF Refuse, Return
  <2>. DEFINE fla == mp_count_bits(A) - 1
              flb == mp_count_bits(base) - 1
  <2>2. ASSUME A > 0, base >= 2, NEW e \in Nat, Power(base, e) <= A, A < Power(base, e + 1),
               Answer(e, LogTemporaries)
        PROVE  /\ val' = val /\ old' = old /\ pc' = "done" /\ err' = "OKAY"
               /\ IsLog(loc'.answer)
    BY <2>2 DEF Answer, IsLog
  <2>3. CASE /\ A > 0 /\ base >= 2 /\ MP_IS_POWER_OF_TWO(base)
             /\ Answer(fla \div mp_cnt_lsb(base), LogTemporaries)
    <3>. DEFINE e == fla \div mp_cnt_lsb(base)
    <3>1. e \in Nat /\ Power(base, e) <= A /\ A < Power(base, e + 1)
      <4>1. PICK n \in Nat : n = A
        BY <1>1, <2>3
      <4>2. PICK b \in Nat : b = base
        BY <1>1, <2>3
      <4>. QED
        BY <2>3, <4>1, <4>2, LogOfPowersOfTwo
    <3>. HIDE DEF e
    <3>. QED
      BY <2>2, <2>3, <3>1 DEF e
  <2>4. CASE A > 0 /\ base >= 2 /\ A <= base /\ Answer(IF A = base THEN 1 ELSE 0, LogTemporaries)
    <3>. DEFINE e == IF A = base THEN 1 ELSE 0
    <3>1. Power(base, 0) = 1 /\ Power(base, 1) = base /\ Power(base, 2) = base * base
      BY <1>1, PowerFacts, SmallPowers
    <3>2. base * base > base
      <4>1. PICK b \in Nat : b = base /\ b >= 2
        BY <1>1, <2>4
      <4>2. 2 * b <= b * b
        BY <4>1, MonotoneProduct
      <4>3. b * b \in Nat
        BY <4>1
      <4>. QED
        BY <4>1, <4>2, <4>3
    <3>3. e \in Nat /\ Power(base, e) <= A /\ A < Power(base, e + 1)
      <4>1. CASE A = base
        <5>1. e = 1 /\ e + 1 = 2
          BY <4>1
        <5>. QED
          BY <1>1, <3>1, <3>2, <4>1, <5>1
      <4>2. CASE A # base
        <5>1. e = 0 /\ e + 1 = 1
          BY <4>2
        <5>. QED
          BY <1>1, <2>4, <3>1, <4>2, <5>1
      <4>. QED
        BY <4>1, <4>2
    <3>. HIDE DEF e
    <3>. QED
      BY <2>2, <2>4, <3>3 DEF e
  <2>5. CASE A > 0 /\ base >= 2 /\ A > base /\ 2 * flb - 1 > fla /\ Answer(1, LogTemporaries)
    <3>1. Power(base, 1) <= A /\ A < Power(base, 1 + 1)
      <4>1. PICK n \in Nat : n = A
        BY <1>1, <2>5
      <4>2. PICK b \in Nat : b = base
        BY <1>1, <2>5
      <4>3. 1 + 1 = 2
        OBVIOUS
      <4>. QED
        BY <2>5, <4>1, <4>2, <4>3, LogOfLongBase
    <3>. QED
      BY <2>2, <2>5, <3>1
  <2>6. CASE A > 0 /\ base >= 2 /\ ~ Refuse("VAL", LogTemporaries)
    <3>1. (A <= 0 \/ base < 2) => FALSE
      BY <1>1, <2>6
    <3>. QED
      BY <1>4, <2>3, <2>4, <2>5, <2>6, <3>1 DEF log_shortcut
  <2>. QED
    BY <1>4, <2>1, <2>3, <2>4, <2>5 DEF log_shortcut
<1>5. CASE log_estimate
  <2>1. CASE Refuse("MEM", LogTemporaries)
    BY <2>1 DEF Refuse, Return
  <2>2. CASE /\ loc' = [n |-> s_approx_log(A, base), again |-> FALSE]
             /\ pc' = "log_power" /\ UNCHANGED << val, fr, err, old >>
    <3>1. A > base /\ base >= 2 /\ 2 * (mp_count_bits(base) - 1) - 1 <= mp_count_bits(A) - 1
      BY <1>5 DEF log_estimate
    <3>2. PICK n \in Nat : n = A /\ n > 0
      BY <1>1, <3>1
    <3>3. PICK b \in Nat : b = base /\ b > 0
      BY <1>1, <3>1
    <3>4. mp_count_bits(b) >= 2
      <4>1. mp_count_bits(b) \in Nat /\ mp_count_bits(b) > 0 /\ b < 2 ^ mp_count_bits(b)
        BY <3>3, CountBits
      <4>2. mp_count_bits(b) = 1 => b < 2
        BY <4>1, TwoTo, Zenon
      <4>3. b >= 2
        BY <3>1, <3>3
      <4>. QED
        BY <4>1, <4>2, <4>3
    <3>5. s_approx_log(n, b) \in Nat /\ s_approx_log(n, b) >= 1
      BY <1>0, <3>1, <3>2, <3>3, <3>4, ApproxLog, LogArguments
    <3>. QED
      BY <2>2, <3>1, <3>2, <3>3, <3>5
  <2>. QED
    BY <1>5, <2>1, <2>2 DEF log_estimate
<1>6. CASE log_power
  <2>1. A > base /\ base >= 2 /\ loc.n \in Nat /\ (~ loc.again => loc.n >= 1)
    BY <1>0, <1>6 DEF log_power, LogRuns
  <2>. QED
    BY <1>6, <2>1 DEF log_power, Goto, Refuse, Return
<1>7. CASE log_up \/ log_exact \/ log_down
  <2>1. A > base /\ base >= 2 /\ loc.n \in Nat /\ loc.bn = Power(base, loc.n)
    BY <1>0, <1>7 DEF log_up, log_exact, log_down, LogRuns
  <2>2. PICK b \in Nat : b = base
    BY <1>1, <2>1
  <2>3. PICK n \in Nat : n = loc.n
    BY <2>1
  <2>4. PICK d \in Nat : d = loc.bn /\ d > 0
    <3>0. b \in Int /\ b > 0
      BY <2>1, <2>2
    <3>1. Power(b, n) \in Int /\ Power(b, n) > 0
      BY <3>0, PowerFacts, PowerPositive
    <3>2. Power(b, n) = loc.bn
      BY <2>1, <2>2, <2>3
    <3>. HIDE DEF Power
    <3>. QED
      BY <3>1, <3>2
  <2>5. PICK a \in Nat : a = A
    BY <1>1, <2>1
  <2>6. d * b \in Nat /\ Power(b, n + 1) = d * b /\ d < d * b
    <3>1. Power(b, n + 1) = d * b
      <4>1. Power(b, n + 1) = Power(b, n) * b
        BY <2>2, PowerFacts
      <4>2. Power(b, n) = d
        BY <2>1, <2>2, <2>3, <2>4
      <4>. QED
        BY <4>1, <4>2
    <3>2. 1 * d < b * d /\ 1 * d = d /\ b * d = d * b
      BY <2>1, <2>2, <2>4, MonotoneProduct
    <3>3. d * b \in Nat
      BY <2>2, <2>4
    <3>. QED
      BY <3>1, <3>2, <3>3
  <2>. DEFINE next == d * b
  <2>7. next \in Nat /\ Power(base, loc.n + 1) = next /\ d < next /\ Power(base, loc.n) = d
    BY <2>1, <2>2, <2>3, <2>4, <2>6
  <2>8. loc.bn * base = next
    BY <2>2, <2>4
  <2>. HIDE DEF next
  <2>9. CASE log_up
    <3>1. d < a
      BY <1>7, <2>4, <2>5, <2>9 DEF log_up
    <3>2. next <= a => Used(next) <= Used(a) /\ Used(next) \in Nat /\ Used(a) \in Nat
      <4>1. a < Weight(Used(a)) /\ Used(a) \in Nat /\ Weight(Used(a)) \in Nat /\ Used(next) \in Nat
        BY <2>5, <2>7, UsedFacts, Weights
      <4>2. next <= a => next < Weight(Used(a))
        BY <2>7, <4>1
      <4>. QED
        BY <2>7, <4>1, <4>2, UsedLess
    <3>3. PerhapsTooLong(next) => IsLog(loc.n)
      <4>1. next <= a /\ PerhapsTooLong(next) => PerhapsTooLong(A)
        BY <1>0, <2>5, <3>2, LogArguments DEF PerhapsTooLong
      <4>. QED
        BY <2>1, <2>5, <2>7, <3>1, <4>1 DEF IsLog
    <3>4. next > A => IsLog(loc.n)
      BY <2>1, <2>5, <2>7, <3>1 DEF IsLog
    <3>5. CASE Refuse("MEM", LogTemporaries)
      BY <3>5 DEF Refuse, Return
    <3>6. CASE IsLog(loc.n) /\ Answer(loc.n, LogTemporaries)
      BY <2>1, <2>2, <2>5, <3>6 DEF Answer
    <3>7. CASE loc' = [n |-> loc.n + 1, bn |-> next] /\ Goto("log_correct")
      BY <2>1, <2>7, <3>7 DEF Goto
    <3>8. \/ Refuse("MEM", LogTemporaries)
          \/ PerhapsTooLong(next) /\ Answer(loc.n, LogTemporaries)
          \/ loc' = [n |-> loc.n + 1, bn |-> next] /\ Goto("log_correct")
          \/ next > A /\ Answer(loc.n, LogTemporaries)
      BY <2>8, <2>9 DEF log_up
    <3>9. CASE PerhapsTooLong(next) /\ Answer(loc.n, LogTemporaries)
      BY <3>3, <3>6, <3>9
    <3>10. CASE next > A /\ Answer(loc.n, LogTemporaries)
      BY <3>4, <3>6, <3>10
    <3>. QED
      BY <3>5, <3>7, <3>8, <3>9, <3>10, Zenon
  <2>10. CASE log_exact
    <3>1. IsLog(loc.n)
      BY <2>1, <2>4, <2>5, <2>7, <2>10 DEF IsLog, log_exact
    <3>2. /\ val' = val /\ old' = old /\ pc' = "done" /\ err' = "OKAY"
          /\ loc' = [answer |-> loc.n]
      BY <2>10 DEF log_exact, Answer
    <3>3. A > 0
      BY <2>1, <2>2, <2>5
    <3>4. loc'.answer = loc.n
      BY <3>2
    <3>5. IsLog(loc'.answer)
      BY <3>1, <3>4, Zenon
    <3>. QED
      BY <2>1, <3>2, <3>3, <3>5
  <2>11. CASE log_down
    <3>1. d > a /\ a > 1
      BY <2>1, <2>2, <2>4, <2>5, <2>11 DEF log_down
    <3>2. n > 0
      <4>1. n = 0 => d = 1
        BY <2>1, <2>2, <2>3, <2>4, PowerFacts
      <4>. QED
        BY <3>1, <4>1
    <3>3. PICK k \in Nat : n = k + 1
      BY <3>2
    <3>4. PICK e \in Nat : e = Power(b, k) /\ e > 0
      <4>0. b \in Int /\ b > 0
        BY <2>1, <2>2
      <4>1. Power(b, k) \in Int /\ Power(b, k) > 0
        BY <4>0, PowerFacts, PowerPositive
      <4>. DEFINE e == Power(b, k)
      <4>2. e \in Nat /\ e > 0
        BY <4>1
      <4>. QED
        BY <4>2
    <3>5. d = e * b
      BY <2>1, <2>2, <2>3, <2>4, <3>3, <3>4, PowerFacts
    <3>6. d \div b = e
      <4>1. b * e + 0 = d /\ b > 0 /\ 0 \in 0 .. b - 1
        BY <2>1, <2>2, <3>4, <3>5
      <4>2. (b * e + 0) \div b = e
        BY <3>4, <4>1, DivisionUnique
      <4>. QED
        BY <4>1, <4>2
    <3>7. loc.bn \div base = e /\ loc.n - 1 = k /\ e = Power(base, k) /\ Power(base, k + 1) = d
      BY <2>1, <2>2, <2>3, <2>4, <3>3, <3>4, <3>6
    <3>8. e <= A => IsLog(k)
      BY <2>5, <3>1, <3>7 DEF IsLog
    <3>9. CASE Refuse("MEM", LogTemporaries)
      BY <3>9 DEF Refuse, Return
    <3>10. CASE loc' = [n |-> k, bn |-> e] /\ Goto("log_correct")
      BY <2>1, <3>7, <3>10 DEF Goto
    <3>11. CASE IsLog(k) /\ Answer(k, LogTemporaries)
      BY <2>1, <2>2, <2>5, <3>11 DEF Answer
    <3>. QED
      BY <2>11, <3>7, <3>8, <3>9, <3>10, <3>11 DEF log_down
  <2>. QED
    BY <1>7, <2>9, <2>10, <2>11
<1>. QED
  BY <1>3, <1>4, <1>5, <1>6, <1>7 DEF LogNext

(* mp_log and mp_log_n are exact: for every base and number, whatever the  *)
(* precision of the estimate and the width of its word, the answer is the  *)
(* greatest exponent whose power is not above the number; unless the       *)
(* number has so many digits that a power above it may not fit.            *)
THEOREM Logarithms == Spec => []LogCorrect
<1>1. Init => Remembered /\ LogRuns
  BY ContentsAssumption DEF Init, Remembered, LogRuns, LogOps
<1>2. Ownership /\ (Remembered /\ LogRuns) /\ [Next]_vars => (Remembered /\ LogRuns)'
  <2>. SUFFICES ASSUME Ownership, Remembered, LogRuns, [Next]_vars PROVE LogRuns'
    BY RememberedKept
  <2>1. CASE LogNext
    BY <2>1, LogSteps
  <2>2. CASE UNCHANGED vars
    BY <2>2, Zenon DEF vars, LogRuns, LogAnswered, IsLog, PerhapsTooLong, base, A, B
  <2>3. CASE Next /\ ~ LogNext
    <3>1. fr' = fr /\ fr.op \notin LogOps
      BY <2>3, StepsAtHome DEF Next, MulOps, ReduceOps, RecursionOps, LogOps, PrimeOps, SourceOps,
         TextOps, MachineOps
    <3>. QED
      BY <3>1 DEF LogRuns
  <2>. QED
    BY <2>1, <2>2, <2>3
<1>3. Ownership /\ Remembered /\ LogRuns => LogCorrect
  <2>. SUFFICES ASSUME Ownership, Remembered, LogRuns, fr.op \in LogOps, pc = "done"
                PROVE  /\ err = "VAL" => A <= 0 \/ base < 2
                       /\ err = "OKAY" =>
                            /\ A > 0 /\ base >= 2
                            /\ A \div Power(base, loc.answer) > 0
                            /\ A \div Power(base, loc.answer) < base \/ PerhapsTooLong(A)
    BY DEF LogCorrect, Done, Succeeded, LogOps
  <2>1. LogAnswered
    BY DEF LogRuns
  <2>2. A \in Int /\ base \in Int
    BY LogArguments
  <2>3. ASSUME err = "OKAY"
        PROVE  /\ A \div Power(base, loc.answer) > 0
               /\ A \div Power(base, loc.answer) < base \/ PerhapsTooLong(A)
    <3>1. A > 0 /\ base >= 2 /\ IsLog(loc.answer)
      BY <2>1, <2>3 DEF LogAnswered
    <3>2. PICK n \in Nat : n = A /\ n > 0
      BY <2>2, <3>1
    <3>3. PICK b \in Nat : b = base /\ b >= 2
      BY <2>2, <3>1
    <3>4. PICK e \in Nat : e = loc.answer
      BY <3>1 DEF IsLog
    <3>5. /\ Power(b, e) <= n => n \div Power(b, e) > 0
          /\ n < Power(b, e + 1) => n \div Power(b, e) < b
      BY <3>2, <3>3, LogMeans
    <3>. QED
      BY <3>1, <3>2, <3>3, <3>4, <3>5, Zenon DEF IsLog
  <2>. QED
    BY <2>1, <2>3 DEF LogAnswered
<1>. QED
  BY <1>1, <1>2, <1>3, Owned, PTL DEF Spec

-----------------------------------------------------------------------------
(* A function that is defined by its values at places of lower rank.       *)
LowerOnly(D, V, rank, next) ==
  \A x \in D : \A f, g \in [D -> V] :
    (\A y \in D : rank[y] < rank[x] => f[y] = g[y]) => next[<< x, f >>] = next[<< x, g >>]

SolvesRanked(f, D, next) == \A x \in D : f[x] = next[<< x, f >>]

LEMMA RankedRecursion ==
  ASSUME NEW D, NEW V, NEW v0 \in V, NEW rank \in [D -> Nat],
         NEW next \in [D \X [D -> V] -> V], LowerOnly(D, V, rank, next)
  PROVE  \E f \in [D -> V] : SolvesRanked(f, D, next)
<1>. DEFINE F == [D -> V]
            Upto(n) == {f \in F : \A x \in D : rank[x] < n => f[x] = next[<< x, f >>]}
            S == {n \in Nat : Upto(n) # {}}
            T == {n \in Nat : \A i, j \in Nat : n < i /\ n < j =>
                     \A f \in Upto(i), g \in Upto(j) : \A x \in D : rank[x] = n => f[x] = g[x]}
<1>1. 0 \in S
  <2>. DEFINE c == [x \in D |-> v0]
  <2>1. c \in F
    OBVIOUS
  <2>2. c \in Upto(0)
    BY <2>1
  <2>. QED
    BY <2>2
<1>2. ASSUME NEW n \in Nat, n \in S PROVE n + 1 \in S
  <2>1. PICK f \in F : \A x \in D : rank[x] < n => f[x] = next[<< x, f >>]
    BY <1>2
  <2>. DEFINE g == [x \in D |-> next[<< x, f >>]]
  <2>2. g \in F
    OBVIOUS
  <2>3. ASSUME NEW x \in D, rank[x] < n + 1 PROVE g[x] = next[<< x, g >>]
    <3>. USE DEF LowerOnly
    <3>1. \A y \in D : rank[y] < rank[x] => f[y] = g[y]
      <4>1. ASSUME NEW y \in D, rank[y] < rank[x] PROVE f[y] = g[y]
        <5>1. rank[y] < n
          BY <2>3, <4>1
        <5>. QED
          BY <2>1, <5>1
      <4>. QED
        BY <4>1
    <3>2. g[x] = next[<< x, f >>]
      OBVIOUS
    <3>. HIDE DEF g
    <3>. QED
      BY <2>2, <3>1, <3>2
  <2>4. g \in Upto(n + 1)
    <3>. HIDE DEF g
    <3>. QED
      BY <2>2, <2>3
  <2>. HIDE DEF Upto, g
  <2>5. Upto(n + 1) # {}
    BY <2>4
  <2>6. n + 1 \in Nat
    OBVIOUS
  <2>. QED
    BY <2>5, <2>6
<1>3. \A n \in Nat : Upto(n) # {}
  <2>. HIDE DEF S
  <2>1. \A n \in Nat : n \in S
    BY <1>1, <1>2, Successor
  <2>. QED
    BY <2>1 DEF S
<1>4. ASSUME NEW n \in Nat, \A m \in 0 .. n - 1 : m \in T PROVE n \in T
  <2>. SUFFICES ASSUME NEW i \in Nat, NEW j \in Nat, n < i, n < j, NEW f \in Upto(i),
                       NEW g \in Upto(j), NEW x \in D, rank[x] = n
                PROVE  f[x] = g[x]
    OBVIOUS
  <2>. USE DEF LowerOnly
  <2>1. f[x] = next[<< x, f >>] /\ g[x] = next[<< x, g >>] /\ f \in F /\ g \in F
    OBVIOUS
  <2>2. ASSUME NEW y \in D, rank[y] < rank[x] PROVE f[y] = g[y]
    <3>1. PICK m \in Nat : m = rank[y]
      OBVIOUS
    <3>2. m \in 0 .. n - 1 /\ m < i /\ m < j
      BY <2>2, <3>1
    <3>3. m \in T
      BY <1>4, <3>2
    <3>. QED
      BY <3>1, <3>2, <3>3
  <2>. QED
    BY <2>1, <2>2
<1>5. \A n \in Nat : n \in T
  <2>. HIDE DEF T
  <2>. QED
    BY <1>4, Below
<1>. DEFINE best(n) == CHOOSE f : f \in Upto(n)
            h == [x \in D |-> best(rank[x] + 1)[x]]
<1>6. ASSUME NEW n \in Nat PROVE best(n) \in Upto(n)
  <2>1. \E f : f \in Upto(n)
    BY <1>3
  <2>. HIDE DEF Upto
  <2>. QED
    BY <2>1, Zenon
<1>. HIDE DEF best
<1>7. h \in F
  <2>1. ASSUME NEW x \in D PROVE best(rank[x] + 1)[x] \in V
    <3>1. best(rank[x] + 1) \in F
      BY <1>6
    <3>. QED
      BY <3>1
  <2>. QED
    BY <2>1
<1>8. ASSUME NEW x \in D PROVE h[x] = next[<< x, h >>]
  <2>1. PICK n \in Nat : n = rank[x]
    OBVIOUS
  <2>. DEFINE b == best(n + 1)
  <2>2. b \in Upto(n + 1) /\ b \in F
    <3>1. n + 1 \in Nat
      OBVIOUS
    <3>2. b \in Upto(n + 1)
      BY <1>6, <3>1
    <3>. HIDE DEF b
    <3>. QED
      BY <3>2
  <2>3. h[x] = b[x]
    BY <2>1
  <2>4. ASSUME NEW y \in D, rank[y] < rank[x] PROVE b[y] = h[y]
    <3>1. PICK m \in Nat : m = rank[y]
      OBVIOUS
    <3>. DEFINE c == best(m + 1)
    <3>2. m + 1 \in Nat /\ n + 1 \in Nat /\ m < n + 1 /\ m < m + 1
      BY <2>1, <2>4, <3>1
    <3>3. c \in Upto(m + 1)
      BY <1>6, <3>2
    <3>4. h[y] = c[y]
      BY <3>1
    <3>5. m \in T
      BY <1>5
    <3>. HIDE DEF b, c, h, Upto
    <3>6. b[y] = c[y]
      BY <2>2, <3>1, <3>2, <3>3, <3>5
    <3>. QED
      BY <3>4, <3>6
  <2>. HIDE DEF h, b
  <2>. USE DEF LowerOnly
  <2>5. b[x] = next[<< x, b >>]
    BY <2>1, <2>2
  <2>. QED
    BY <1>7, <2>2, <2>3, <2>4, <2>5
<1>. QED
  BY <1>7, <1>8 DEF SolvesRanked

(* What is added back, and how long a part is.                             *)
LEMMA AddedBack ==
  ASSUME NEW n \in Int, NEW d \in Nat, d > 0, n < d
  PROVE  AddBacks(n, d) \in Nat /\ n + AddBacks(n, d) * d \in 0 .. d - 1
<1>1. CASE n >= 0
  <2>1. AddBacks(n, d) = 0 /\ 0 * d = 0
    BY <1>1 DEF AddBacks
  <2>. QED
    BY <1>1, <2>1
<1>2. CASE n < 0
  <2>. DEFINE m == (- n) + d - 1
              t == m \div d
              p == t * d
  <2>1. AddBacks(n, d) = t
    BY <1>2 DEF AddBacks
  <2>2. m \in Nat
    BY <1>2
  <2>. HIDE DEF m
  <2>3. t \in Nat /\ p \in Nat /\ p <= m /\ m < (t + 1) * d
    BY <2>2, Greatest
  <2>. HIDE DEF t
  <2>4. (t + 1) * d = p + d
    BY <2>3
  <2>. HIDE DEF p
  <2>5. n + p \in 0 .. d - 1
    BY <1>2, <2>3, <2>4 DEF m
  <2>. QED
    BY <2>1, <2>3, <2>5 DEF p
<1>. QED
  BY <1>1, <1>2

LEMMA UsedTop ==
  ASSUME NEW n \in Nat, NEW k \in Nat
  PROVE  /\ n \div Weight(k) \in Nat /\ n % Weight(k) \in 0 .. Weight(k) - 1
         /\ \A i \in Nat : Used(n \div Weight(k)) <= i <=> Used(n) <= i + k
<1>. DEFINE P == Weight(k)
            q == n \div P
<1>1. P \in Nat /\ P > 0
  BY Weights
<1>. HIDE DEF P
<1>2. q \in Nat /\ q * P \in Nat /\ q * P <= n /\ n < (q + 1) * P /\ (\A j \in Nat : j <= q <=> j * P <= n)
  BY <1>1, Greatest
<1>3. n % P \in 0 .. P - 1
  BY <1>1, Division
<1>. HIDE DEF q
<1>4. ASSUME NEW i \in Nat PROVE Used(q) <= i <=> Used(n) <= i + k
  <2>. DEFINE w == Weight(i)
  <2>1. w \in Nat /\ w > 0 /\ Weight(i + k) = w * P /\ i + k \in Nat
    <3>1. Weight(i + k) = Weight(i) * Weight(k)
      BY WeightSum
    <3>2. w \in Nat /\ w > 0
      BY Weights
    <3>3. Weight(i + k) = w * P
      BY <3>1 DEF P
    <3>. QED
      BY <3>2, <3>3
  <2>2. (Used(q) <= i <=> q < w) /\ (Used(n) <= i + k <=> n < w * P)
    <3>1. n < Weight(i + k) <=> Used(n) <= i + k
      BY <2>1, UsedLess
    <3>2. q < Weight(i) <=> Used(q) <= i
      BY <1>2, UsedLess
    <3>. QED
      BY <2>1, <3>1, <3>2
  <2>. HIDE DEF w
  <2>3. w <= q <=> w * P <= n
    BY <1>2, <2>1
  <2>4. w * P \in Nat
    BY <1>1, <2>1
  <2>. QED
    BY <1>2, <2>1, <2>2, <2>3, <2>4
<1>. QED
  BY <1>2, <1>3, <1>4 DEF q, P

(* The rest of x by t * S + u, whose upper part t divides that of x.       *)
LEMMA RestOfParts ==
  ASSUME NEW x \in Nat, NEW S \in Nat, S > 0, NEW t \in Nat, t > 0, NEW u \in Nat
  PROVE  LET q == (x \div S) \div t
             d == t * S + u
             rest == ((x \div S) % t) * S + (x % S) - q * u
         IN  q \in Nat /\ d \in Nat /\ d > 0 /\ rest \in Int /\ rest = x - q * d /\ rest < d
<1>. DEFINE top == x \div S
            low == x % S
            q == top \div t
            r == top % t
            d == t * S + u
            rest == r * S + low - q * u
<1>1. top \in Nat /\ low \in 0 .. S - 1 /\ x = S * top + low
  <2>1. top \in Nat
    BY Greatest
  <2>. QED
    BY <2>1, Division
<1>. HIDE DEF top, low
<1>2. q \in Nat /\ r \in 0 .. t - 1 /\ top = t * q + r
  <2>1. q \in Nat
    BY <1>1, Greatest
  <2>. QED
    BY <1>1, <2>1, Division
<1>. HIDE DEF q, r
<1>3. t * S \in Nat /\ t * S > 0
  BY IntegerProducts
<1>4. q * u \in Nat /\ q * d \in Int /\ r * S \in Nat /\ q * (t * S) \in Nat
  BY <1>2, <1>3
<1>5. x = q * (t * S) + r * S + low
  <2>1. S * top = q * (t * S) + r * S
    BY <1>2
  <2>. QED
    BY <1>1, <2>1
<1>6. q * d = q * (t * S) + q * u
  BY <1>2, <1>3
<1>7. rest = x - q * d
  <2>. DEFINE qd == q * d
              qu == q * u
              qS == q * (t * S)
              rS == r * S
  <2>1. x = qS + rS + low /\ qd = qS + qu /\ rest = rS + low - qu
    BY <1>5, <1>6
  <2>2. qd \in Int /\ qS \in Int /\ qu \in Int /\ rS \in Int /\ low \in Int
    BY <1>1, <1>4
  <2>. HIDE DEF rest, qd, qS, qu, rS
  <2>. QED
    BY <2>1, <2>2 DEF qd
<1>8. rest < d
  <2>1. (r + 1) * S <= t * S
    <3>1. r + 1 \in Nat /\ r + 1 <= t
      BY <1>2
    <3>. QED
      BY <3>1, MonotoneProduct
  <2>2. (r + 1) * S = r * S + S
    BY <1>2
  <2>. DEFINE rS == r * S
              tS == t * S
              qu == q * u
  <2>3. rS + S <= tS /\ rest = rS + low - qu /\ d = tS + u
    BY <2>1, <2>2
  <2>4. rS \in Nat /\ tS \in Nat /\ qu \in Nat
    BY <1>3, <1>4
  <2>. HIDE DEF rS, tS, qu, rest, d
  <2>. QED
    BY <1>1, <2>3, <2>4
<1>9. d \in Nat /\ d > 0 /\ rest \in Int
  BY <1>1, <1>3, <1>4
<1>. QED
  BY <1>2, <1>7, <1>8, <1>9 DEF top, low, q, r

(* The two halves of a step of the recursion, a the dividend, b the        *)
(* divisor, of which the k-th digit and those above it are taken first.    *)
FirstRest(a, b, P, q, r) == r * P * P + (a % (P * P)) - q * (b % P) * P
SecondRest(a, b, P, q, r) == r * P + (a % P) - q * (b % P)

LEMMA FirstHalf ==
  ASSUME NEW a \in Nat, NEW b \in Nat, NEW P \in Nat, P > 0, b \div P > 0
  PROVE  LET t == b \div P
             q == (a \div (P * P)) \div t
             rest == FirstRest(a, b, P, q, (a \div (P * P)) % t)
             back == AddBacks(rest, P * b)
             a1 == rest + back * P * b
         IN  /\ q \in Nat /\ back \in Nat /\ a1 \in Nat
             /\ a1 < P * b /\ a1 = a - (q - back) * (P * b)
<1>. DEFINE t == b \div P
            u == b % P
            S == P * P
            uP == u * P
            q == (a \div S) \div t
            r == (a \div S) % t
            rest == FirstRest(a, b, P, q, r)
            back == AddBacks(rest, P * b)
            a1 == rest + back * P * b
            d == P * b
<1>1. t \in Nat /\ t > 0 /\ u \in 0 .. P - 1 /\ b = P * t + u
  <2>1. t \in Nat
    BY Greatest
  <2>. QED
    BY <2>1, Division
<1>2. S \in Nat /\ S > 0
  BY IntegerProducts
<1>. HIDE DEF t, u
<1>3. uP \in Nat /\ t * S + uP = d /\ d \in Nat
  <2>1. t * S = P * (P * t) /\ P * b = P * (P * t) + u * P
    BY <1>1
  <2>2. u * P \in Nat /\ P * b \in Nat
    BY <1>1
  <2>. QED
    BY <2>1, <2>2
<1>. HIDE DEF uP
<1>4. LET z == r * S + (a % S) - q * uP
      IN  q \in Nat /\ d \in Nat /\ d > 0 /\ z \in Int /\ z = a - q * d /\ z < d
  <2>. HIDE DEF S, d
  <2>. QED
    BY <1>1, <1>2, <1>3, RestOfParts
<1>5. r \in Nat /\ a % S \in Nat
  <2>1. a \div S \in Nat /\ a % S \in Nat
    BY <1>2, Greatest, Division
  <2>. HIDE DEF S
  <2>2. r \in 0 .. t - 1
    BY <1>1, <2>1, Division
  <2>. QED
    BY <2>1, <2>2
<1>6. rest = r * S + (a % S) - q * uP
  <2>. HIDE DEF q, r, t
  <2>1. rest = r * P * P + (a % (P * P)) - q * u * P
    BY DEF FirstRest, u
  <2>2. r * P * P = r * (P * P) /\ q * u * P = q * (u * P)
    BY <1>1, <1>4, <1>5, IntegerProducts
  <2>. QED
    BY <2>1, <2>2 DEF uP
<1>. HIDE DEF rest
<1>7. rest \in Int /\ rest = a - q * d /\ rest < d /\ q \in Nat /\ d \in Nat /\ d > 0
  BY <1>4, <1>6
<1>. HIDE DEF d, q
<1>8. back \in Nat /\ rest + back * d \in 0 .. d - 1
  BY <1>7, AddedBack DEF d
<1>. HIDE DEF back
<1>9. back * P * b = back * d
  BY <1>8, IntegerProducts DEF d
<1>10. a1 \in Nat /\ a1 < d
  BY <1>7, <1>8, <1>9
<1>11. a1 = a - (q - back) * d
  <2>1. (q - back) * d = q * d - back * d /\ q * d \in Int /\ back * d \in Int
    BY <1>7, <1>8, IntegerProducts
  <2>. QED
    BY <1>7, <1>9, <2>1
<1>. QED
  BY <1>7, <1>8, <1>10, <1>11 DEF t, S, q, r, rest, back, d

LEMMA SecondHalf ==
  ASSUME NEW a \in Nat, NEW b \in Nat, NEW P \in Nat, P > 0, b \div P > 0
  PROVE  LET t == b \div P
             q == (a \div P) \div t
             rest == SecondRest(a, b, P, q, (a \div P) % t)
             back == AddBacks(rest, b)
             a2 == rest + back * b
         IN  q \in Nat /\ back \in Nat /\ a2 \in 0 .. b - 1 /\ a2 = a - (q - back) * b
<1>. DEFINE t == b \div P
            u == b % P
            q == (a \div P) \div t
            r == (a \div P) % t
            rest == SecondRest(a, b, P, q, r)
            back == AddBacks(rest, b)
            a2 == rest + back * b
<1>1. t \in Nat /\ t > 0 /\ u \in 0 .. P - 1 /\ b = t * P + u
  <2>1. t \in Nat
    BY Greatest
  <2>. QED
    BY <2>1, Division
<1>. HIDE DEF t, u
<1>2. LET z == r * P + (a % P) - q * u
          d == t * P + u
      IN  q \in Nat /\ d \in Nat /\ d > 0 /\ z \in Int /\ z = a - q * d /\ z < d
  BY <1>1, RestOfParts
<1>3. rest = r * P + (a % P) - q * u
  BY DEF SecondRest, u
<1>. HIDE DEF rest
<1>4. rest \in Int /\ rest = a - q * b /\ rest < b /\ q \in Nat /\ b > 0
  BY <1>1, <1>2, <1>3
<1>. HIDE DEF q
<1>5. back \in Nat /\ a2 \in 0 .. b - 1
  BY <1>4, AddedBack
<1>. HIDE DEF back
<1>6. a2 = a - (q - back) * b
  <2>1. (q - back) * b = q * b - back * b /\ q * b \in Int /\ back * b \in Int
    BY <1>4, <1>5, IntegerProducts
  <2>. QED
    BY <1>4, <2>1
<1>. QED
  BY <1>4, <1>5, <1>6 DEF t, q, r, rest, back

LEMMA BothHalves ==
  ASSUME NEW a \in Nat, NEW b \in Nat, b > 0, NEW P \in Nat, NEW a1 \in Int, NEW h \in Int,
         NEW l \in Int, NEW r \in 0 .. b - 1, a1 = a - h * (P * b), r = a1 - l * b
  PROVE  h * P + l = a \div b /\ r = a % b
<1>. DEFINE q == h * P + l
<1>1. q \in Int
  BY IntegerProducts
<1>2. b * q + r = a
  <2>1. b * q = h * (P * b) + l * b
    OBVIOUS
  <2>2. h * (P * b) \in Int /\ l * b \in Int
    OBVIOUS
  <2>. DEFINE x == h * (P * b)
              y == l * b
  <2>. HIDE DEF x, y
  <2>3. a1 = a - x /\ r = a1 - y /\ x \in Int /\ y \in Int /\ b * q = x + y
    BY <2>1, <2>2 DEF x, y
  <2>. QED
    BY <2>3
<1>. HIDE DEF q
<1>3. (b * q + r) \div b = q /\ (b * q + r) % b = r
  BY <1>1, DivisionUnique
<1>. QED
  BY <1>2, <1>3 DEF q

LEMMA PartsRecursible ==
  ASSUME NEW a \in Nat, NEW b \in Nat, b > 0, Used(a) <= 2 * Used(b), Used(a) - Used(b) >= 2
  PROVE  LET k == (Used(a) - Used(b)) \div 2
             P == Weight(k)
         IN  /\ P \in Nat /\ P > 0 /\ b \div P \in Nat /\ b \div P > 0 /\ b \div P < b
             /\ a \div (P * P) \in Nat
             /\ Used(a \div (P * P)) <= 2 * Used(b \div P)
             /\ \A n \in Nat : n < P * b => n \div P \in Nat /\ Used(n \div P) <= 2 * Used(b \div P)
<1>. DEFINE u == Used(a)
            v == Used(b)
            k == (u - v) \div 2
            P == Weight(k)
            t == b \div P
            w == Used(t)
<1>1. u \in Nat /\ v \in Nat /\ u <= 2 * v /\ u - v >= 2
  BY UsedFacts
<1>2. k \in Nat /\ k >= 1 /\ 2 * k <= u - v /\ u - v <= 2 * k + 1
  <2>. HIDE DEF u, v
  <2>. QED
    BY <1>1
<1>. HIDE DEF k
<1>3. P \in Nat /\ P > 0 /\ P > 1
  <2>1. PICK i \in Nat : k = i + 1
    BY <1>2
  <2>2. Weight(i + 1) = Weight(i) * Radix /\ Weight(i) \in Nat /\ Weight(i) > 0 /\ Radix \in Nat /\ Radix >= 4
    BY Weights
  <2>. DEFINE x == Weight(i)
  <2>3. 1 * Radix <= x * Radix /\ x * Radix \in Nat
    BY <2>2, MonotoneProduct
  <2>. QED
    BY <2>1, <2>2, <2>3
<1>4. t \in Nat /\ \A i \in Nat : w <= i <=> v <= i + k
  BY <1>2, UsedTop
<1>5. w \in Nat /\ v <= w + k /\ w > 0
  <2>1. w \in Nat
    BY <1>4, UsedFacts
  <2>2. v <= w + k
    <3>. HIDE DEF w, v
    <3>. QED
      BY <1>4, <2>1
  <2>. HIDE DEF w, v, u
  <2>. QED
    BY <1>1, <1>2, <2>1, <2>2
<1>6. t > 0
  <2>1. Used(0) <= 0
    <3>1. 0 < Weight(0)
      BY Weights
    <3>. QED
      BY <3>1, UsedLess
  <2>2. t = 0 => w <= 0
    BY <2>1
  <2>. HIDE DEF t
  <2>. QED
    BY <1>4, <1>5, <2>2
<1>7. t < b
  <2>1. t * P <= b /\ t * P \in Nat
    BY <1>3, Greatest
  <2>. HIDE DEF t, P
  <2>2. t * 1 < t * P
    <3>1. 1 * t < P * t
      BY <1>3, <1>4, <1>6, MonotoneProduct
    <3>. QED
      BY <1>3, <1>4, <3>1
  <2>. QED
    BY <1>4, <2>1, <2>2
<1>8. a \div (P * P) \in Nat /\ Used(a \div (P * P)) <= 2 * w
  <2>1. P * P = Weight(k + k) /\ k + k \in Nat
    BY <1>2, WeightSum
  <2>2. u <= 2 * w + (k + k)
    <3>. HIDE DEF u, v, w
    <3>. QED
      BY <1>1, <1>2, <1>5
  <2>3. 2 * w \in Nat
    BY <1>5
  <2>. DEFINE z == a \div Weight(k + k)
  <2>4. z \in Nat /\ Used(z) <= 2 * w
    BY <2>1, <2>2, <2>3, UsedTop
  <2>. QED
    BY <2>1, <2>4
<1>9. ASSUME NEW n \in Nat, n < P * b PROVE n \div P \in Nat /\ Used(n \div P) <= 2 * w
  <2>. DEFINE m == n \div P
  <2>1. m \in Nat /\ m * P <= n /\ m * P \in Nat
    BY <1>3, Greatest
  <2>2. m < b
    <3>. HIDE DEF m
    <3>1. P * b = b * P /\ b * P \in Nat
      BY <1>3
    <3>2. m * P < b * P
      BY <1>9, <2>1, <3>1
    <3>. QED
      BY <1>3, <2>1, <3>2, MonotoneProduct
  <2>3. Used(m) <= v /\ Used(m) \in Nat
    <3>1. b < Weight(v) /\ Weight(v) \in Nat
      BY <1>1, UsedFacts, Weights
    <3>. HIDE DEF m, v
    <3>2. m < Weight(v)
      BY <2>1, <2>2, <3>1
    <3>. QED
      BY <1>1, <2>1, <3>2, UsedLess, UsedFacts
  <2>4. v <= 2 * w
    <3>. HIDE DEF u, v, w
    <3>. QED
      BY <1>1, <1>2, <1>5
  <2>. HIDE DEF m, v, w
  <2>. QED
    BY <1>1, <1>5, <2>1, <2>3, <2>4 DEF m
<1>. QED
  BY <1>3, <1>4, <1>6, <1>7, <1>8, <1>9 DEF u, v, k, P, t, w

-----------------------------------------------------------------------------
(* The recursion on chunks: its operands, and what it computes from the    *)
(* quotients and remainders of their parts.                                *)
Small(p) == Used(p[1]) - Used(p[2]) < MP_MUL_KARATSUBA_CUTOFF
Half(p) == Weight((Used(p[1]) - Used(p[2])) \div 2)
Quot(p) == p[1] \div p[2]
Rem(p) == p[1] % p[2]
High(p) == << p[1] \div (Half(p) * Half(p)), p[2] \div Half(p) >>

HighRest(p, q, r) == FirstRest(p[1], p[2], Half(p), q, r)
HighBack(p, q, r) == AddBacks(HighRest(p, q, r), Half(p) * p[2])
Middle(p, q, r) == HighRest(p, q, r) + HighBack(p, q, r) * Half(p) * p[2]
Low(p, q, r) == << Middle(p, q, r) \div Half(p), p[2] \div Half(p) >>
LowRest(p, a1, q, r) == SecondRest(a1, p[2], Half(p), q, r)
LowBack(p, a1, q, r) == AddBacks(LowRest(p, a1, q, r), p[2])

TrueMiddle(p) == Middle(p, Quot(High(p)), Rem(High(p)))
TrueLow(p) == Low(p, Quot(High(p)), Rem(High(p)))
TrueBack1(p) == HighBack(p, Quot(High(p)), Rem(High(p)))
TrueBack0(p) == LowBack(p, TrueMiddle(p), Quot(TrueLow(p)), Rem(TrueLow(p)))
TrueRest(p) == LowRest(p, TrueMiddle(p), Quot(TrueLow(p)), Rem(TrueLow(p)))

LEMMA RecursionStep ==
  ASSUME NEW p \in Recursible, ~ Small(p)
  PROVE  /\ High(p) \in Recursible /\ High(p)[2] < p[2]
         /\ TrueLow(p) \in Recursible /\ TrueLow(p)[2] < p[2]
         /\ TrueBack1(p) \in Nat /\ TrueBack0(p) \in Nat
         /\ (Quot(High(p)) - TrueBack1(p)) * Half(p) + Quot(TrueLow(p)) - TrueBack0(p) = Quot(p)
         /\ TrueRest(p) + TrueBack0(p) * p[2] = Rem(p)
<1>. DEFINE a == p[1]
            b == p[2]
            P == Half(p)
            t == b \div P
<1>1. a \in Nat /\ b \in Nat /\ b > 0 /\ Used(a) <= 2 * Used(b) /\ Used(a) - Used(b) >= 2
  <2>1. a \in Nat /\ b \in Nat /\ b > 0 /\ Used(a) <= 2 * Used(b)
    BY DEF Recursible
  <2>2. Used(a) \in Nat /\ Used(b) \in Nat
    BY <2>1, UsedFacts
  <2>. QED
    BY <2>1, <2>2, CutoffAssumption DEF Small
<1>2. /\ P \in Nat /\ P > 0 /\ t \in Nat /\ t > 0 /\ t < b
      /\ a \div (P * P) \in Nat
      /\ Used(a \div (P * P)) <= 2 * Used(t)
      /\ \A n \in Nat : n < P * b => n \div P \in Nat /\ Used(n \div P) <= 2 * Used(t)
  <2>. HIDE DEF a, b
  <2>. QED
    BY <1>1, PartsRecursible DEF Half, a, b
<1>. DEFINE q1 == Quot(High(p))
            r1 == Rem(High(p))
            a1 == TrueMiddle(p)
            back1 == TrueBack1(p)
            q0 == Quot(TrueLow(p))
            r0 == Rem(TrueLow(p))
            back0 == TrueBack0(p)
            a2 == TrueRest(p) + back0 * b
<1>3. q1 = (a \div (P * P)) \div t /\ r1 = (a \div (P * P)) % t
  BY DEF Quot, Rem, High
<1>4. /\ back1 = AddBacks(FirstRest(a, b, P, q1, r1), P * b)
      /\ a1 = FirstRest(a, b, P, q1, r1) + back1 * P * b
  BY DEF TrueMiddle, TrueBack1, Middle, HighBack, HighRest
<1>5. q0 = (a1 \div P) \div t /\ r0 = (a1 \div P) % t
  BY DEF Quot, Rem, TrueLow, Low, TrueMiddle
<1>6. /\ back0 = AddBacks(SecondRest(a1, b, P, q0, r0), b)
      /\ a2 = SecondRest(a1, b, P, q0, r0) + back0 * b
  BY DEF TrueRest, TrueBack0, LowBack, LowRest
<1>7. TrueLow(p) = << a1 \div P, t >> /\ High(p) = << a \div (P * P), t >>
  BY DEF TrueLow, Low, TrueMiddle, High
<1>8. Quot(p) = a \div b /\ Rem(p) = a % b
  BY DEF Quot, Rem
<1>. HIDE DEF a, b, P, q1, r1, a1, back1, q0, r0, back0, a2
<1>9. q1 \in Nat /\ back1 \in Nat /\ a1 \in Nat /\ a1 < P * b /\ a1 = a - (q1 - back1) * (P * b)
  BY <1>1, <1>2, <1>3, <1>4, FirstHalf
<1>10. q0 \in Nat /\ back0 \in Nat /\ a2 \in 0 .. b - 1 /\ a2 = a1 - (q0 - back0) * b
  BY <1>1, <1>2, <1>5, <1>6, <1>9, SecondHalf
<1>11. (q1 - back1) * P + (q0 - back0) = a \div b /\ a2 = a % b
  <2>. DEFINE h == q1 - back1
              l == q0 - back0
  <2>1. h \in Int /\ l \in Int /\ a1 = a - h * (P * b) /\ a2 = a1 - l * b
    BY <1>9, <1>10
  <2>. HIDE DEF h, l
  <2>2. h * P + l = a \div b /\ a2 = a % b
    BY <1>1, <1>2, <1>9, <1>10, <2>1, BothHalves
  <2>. QED
    BY <2>2 DEF h, l
<1>12. (q1 - back1) * P + (q0 - back0) = (q1 - back1) * P + q0 - back0
  <2>. DEFINE x == (q1 - back1) * P
  <2>1. x \in Int
    BY <1>2, <1>9
  <2>. HIDE DEF x
  <2>2. x + (q0 - back0) = x + q0 - back0
    BY <1>10, <2>1
  <2>. QED
    BY <2>2 DEF x
<1>13. << a1 \div P, t >> \in Recursible /\ << a \div (P * P), t >> \in Recursible
  BY <1>2, <1>9 DEF Recursible
<1>14. (q1 - back1) * P + q0 - back0 = Quot(p) /\ a2 = Rem(p)
  BY <1>8, <1>11, <1>12, Zenon
<1>15. << a1 \div P, t >>[2] < b /\ << a \div (P * P), t >>[2] < b
  BY <1>2
<1>. QED
  BY <1>7, <1>9, <1>10, <1>13, <1>14, <1>15 DEF a, b, P, q1, r1, a1, back1, q0, r0, back0, a2

(* One value of the recursion from those of others.                        *)
Body(f, p) ==
  IF Small(p) THEN [q |-> Quot(p), r |-> Rem(p), back |-> 0]
  ELSE LET high == f[High(p)]
           a1 == Middle(p, high.q, high.r)
           low == f[Low(p, high.q, high.r)]
           back1 == HighBack(p, high.q, high.r)
           back0 == LowBack(p, a1, low.q, low.r)
       IN  [q |-> (high.q - back1) * Half(p) + low.q - back0,
            r |-> LowRest(p, a1, low.q, low.r) + back0 * p[2],
            back |-> MaxOf(MaxOf(back1, back0), MaxOf(high.back, low.back))]

LEMMA BodySolves ==
  ASSUME NEW f, NEW p \in Recursible, ~ Small(p),
         f[High(p)].q = Quot(High(p)), f[High(p)].r = Rem(High(p)),
         f[TrueLow(p)].q = Quot(TrueLow(p)), f[TrueLow(p)].r = Rem(TrueLow(p))
  PROVE  Body(f, p) =
           [q |-> Quot(p), r |-> Rem(p),
            back |-> MaxOf(MaxOf(TrueBack1(p), TrueBack0(p)),
                           MaxOf(f[High(p)].back, f[TrueLow(p)].back))]
<1>. DEFINE high == f[High(p)]
            low == f[Low(p, high.q, high.r)]
            a1 == Middle(p, high.q, high.r)
<1>1. high.q = Quot(High(p)) /\ high.r = Rem(High(p))
  OBVIOUS
<1>2. a1 = TrueMiddle(p) /\ HighBack(p, high.q, high.r) = TrueBack1(p) /\ low = f[TrueLow(p)]
  BY <1>1, Zenon DEF TrueMiddle, TrueBack1, TrueLow
<1>3. low.q = Quot(TrueLow(p)) /\ low.r = Rem(TrueLow(p))
  BY <1>2
<1>4. LowRest(p, a1, low.q, low.r) = TrueRest(p) /\ LowBack(p, a1, low.q, low.r) = TrueBack0(p)
  BY <1>2, <1>3, Zenon DEF TrueRest, TrueBack0
<1>5. Body(f, p) =
        [q |-> (high.q - HighBack(p, high.q, high.r)) * Half(p) + low.q - LowBack(p, a1, low.q, low.r),
         r |-> LowRest(p, a1, low.q, low.r) + LowBack(p, a1, low.q, low.r) * p[2],
         back |-> MaxOf(MaxOf(HighBack(p, high.q, high.r), LowBack(p, a1, low.q, low.r)),
                        MaxOf(high.back, low.back))]
  BY Zenon DEF Body
<1>6. Body(f, p) =
        [q |-> (Quot(High(p)) - TrueBack1(p)) * Half(p) + Quot(TrueLow(p)) - TrueBack0(p),
         r |-> TrueRest(p) + TrueBack0(p) * p[2],
         back |-> MaxOf(MaxOf(TrueBack1(p), TrueBack0(p)),
                        MaxOf(f[High(p)].back, f[TrueLow(p)].back))]
  <2>. HIDE DEF high, low, a1
  <2>1. high = f[High(p)]
    BY DEF high
  <2>. QED
    BY <1>1, <1>2, <1>3, <1>4, <1>5, <2>1, Zenon
<1>. QED
  BY <1>6, RecursionStep, Zenon

LEMMA DivRemSolves == \A p \in Recursible : DivRem[p] = Body(DivRem, p)
<1>. DEFINE D == Recursible
            F == [D -> Nat]
            rank == [p \in D |-> p[2]]
            next == [c \in D \X F |->
                       IF Small(c[1]) THEN 0
                       ELSE MaxOf(MaxOf(TrueBack1(c[1]), TrueBack0(c[1])),
                                  MaxOf(c[2][High(c[1])], c[2][TrueLow(c[1])]))]
            P(f) == f = [p \in D |-> Body(f, p)]
<1>1. rank \in [D -> Nat]
  BY DEF Recursible
<1>2. ASSUME NEW p \in D, NEW f \in F, ~ Small(p)
      PROVE  MaxOf(MaxOf(TrueBack1(p), TrueBack0(p)), MaxOf(f[High(p)], f[TrueLow(p)])) \in Nat
  <2>1. f[High(p)] \in Nat /\ f[TrueLow(p)] \in Nat /\ TrueBack1(p) \in Nat /\ TrueBack0(p) \in Nat
    BY <1>2, RecursionStep
  <2>2. \A x, y \in Nat : MaxOf(x, y) \in Nat
    BY DEF MaxOf
  <2>. HIDE DEF F, D
  <2>. QED
    BY <2>1, <2>2
<1>3. next \in [D \X F -> Nat]
  <2>1. ASSUME NEW c \in D \X F
        PROVE  (IF Small(c[1]) THEN 0
                ELSE MaxOf(MaxOf(TrueBack1(c[1]), TrueBack0(c[1])),
                           MaxOf(c[2][High(c[1])], c[2][TrueLow(c[1])]))) \in Nat
    <3>1. c[1] \in D /\ c[2] \in F
      OBVIOUS
    <3>. HIDE DEF F, D
    <3>. QED
      BY <1>2, <3>1
  <2>. HIDE DEF F, D
  <2>. QED
    BY <2>1
<1>4. ASSUME NEW x \in D, NEW f \in F, NEW g \in F, \A y \in D : rank[y] < rank[x] => f[y] = g[y]
      PROVE  next[<< x, f >>] = next[<< x, g >>]
  <2>1. CASE Small(x)
    BY <2>1
  <2>2. CASE ~ Small(x)
    <3>1. High(x) \in D /\ TrueLow(x) \in D /\ rank[High(x)] < rank[x] /\ rank[TrueLow(x)] < rank[x]
      BY <2>2, RecursionStep
    <3>2. f[High(x)] = g[High(x)] /\ f[TrueLow(x)] = g[TrueLow(x)]
      BY <1>4, <3>1
    <3>3. next[<< x, f >>] = MaxOf(MaxOf(TrueBack1(x), TrueBack0(x)), MaxOf(f[High(x)], f[TrueLow(x)]))
      BY <2>2
    <3>4. next[<< x, g >>] = MaxOf(MaxOf(TrueBack1(x), TrueBack0(x)), MaxOf(g[High(x)], g[TrueLow(x)]))
      BY <2>2
    <3>. QED
      BY <3>2, <3>3, <3>4
  <2>. QED
    BY <2>1, <2>2
<1>5. PICK bk \in F : \A x \in D : bk[x] = next[<< x, bk >>]
  <2>1. LowerOnly(D, Nat, rank, next)
    <3>. HIDE DEF D, rank, next
    <3>. QED
      BY <1>4 DEF LowerOnly
  <2>. HIDE DEF D, rank, next
  <2>2. \E f \in F : SolvesRanked(f, D, next)
    BY <1>1, <1>3, <2>1, RankedRecursion
  <2>. QED
    BY <2>2 DEF SolvesRanked
<1>. DEFINE sol == [p \in D |-> [q |-> Quot(p), r |-> Rem(p), back |-> bk[p]]]
<1>6. ASSUME NEW p \in D PROVE sol[p] = Body(sol, p)
  <2>1. CASE Small(p)
    <3>1. bk[p] = 0
      BY <1>5, <2>1
    <3>. QED
      BY <2>1, <3>1 DEF Body
  <2>2. CASE ~ Small(p)
    <3>1. High(p) \in D /\ TrueLow(p) \in D
      BY <2>2, RecursionStep
    <3>2. bk[p] = MaxOf(MaxOf(TrueBack1(p), TrueBack0(p)), MaxOf(bk[High(p)], bk[TrueLow(p)]))
      BY <1>5, <2>2
    <3>3. /\ sol[High(p)] = [q |-> Quot(High(p)), r |-> Rem(High(p)), back |-> bk[High(p)]]
          /\ sol[TrueLow(p)] = [q |-> Quot(TrueLow(p)), r |-> Rem(TrueLow(p)), back |-> bk[TrueLow(p)]]
          /\ sol[p] = [q |-> Quot(p), r |-> Rem(p), back |-> bk[p]]
      BY <3>1
    <3>. HIDE DEF sol
    <3>4. /\ sol[High(p)].q = Quot(High(p)) /\ sol[High(p)].r = Rem(High(p))
          /\ sol[High(p)].back = bk[High(p)]
          /\ sol[TrueLow(p)].q = Quot(TrueLow(p)) /\ sol[TrueLow(p)].r = Rem(TrueLow(p))
          /\ sol[TrueLow(p)].back = bk[TrueLow(p)]
      BY <3>3
    <3>5. Body(sol, p) = [q |-> Quot(p), r |-> Rem(p),
                          back |-> MaxOf(MaxOf(TrueBack1(p), TrueBack0(p)),
                                         MaxOf(sol[High(p)].back, sol[TrueLow(p)].back))]
      BY <2>2, <3>4, BodySolves
    <3>. QED
      BY <3>2, <3>3, <3>4, <3>5, Zenon
  <2>. QED
    BY <2>1, <2>2
<1>7. P(sol)
  <2>. DEFINE T == [p \in D |-> Body(sol, p)]
  <2>1. \A p \in D : sol[p] = T[p]
    BY <1>6
  <2>. QED
    BY <2>1
<1>8. DivRem = CHOOSE f : P(f)
  BY DEF DivRem, Body, Small, Half, Quot, Rem, High, HighRest, HighBack, Middle, Low, LowRest, LowBack,
         FirstRest, SecondRest
<1>9. P(DivRem)
  <2>. HIDE DEF P
  <2>. QED
    BY <1>7, <1>8
<1>. QED
  BY <1>9

(* It is division, however often a divisor has to be added back.           *)
LEMMA DivRemDivides ==
  ASSUME NEW p \in Recursible
  PROVE  DivRem[p].q = Quot(p) /\ DivRem[p].r = Rem(p)
<1>. DEFINE S == {n \in Nat : \A x \in Recursible : x[2] = n => DivRem[x].q = Quot(x) /\ DivRem[x].r = Rem(x)}
<1>1. ASSUME NEW n \in Nat, \A m \in 0 .. n - 1 : m \in S PROVE n \in S
  <2>. SUFFICES ASSUME NEW x \in Recursible, x[2] = n
                PROVE  DivRem[x].q = Quot(x) /\ DivRem[x].r = Rem(x)
    OBVIOUS
  <2>1. DivRem[x] = Body(DivRem, x)
    BY DivRemSolves
  <2>2. CASE Small(x)
    BY <2>1, <2>2 DEF Body
  <2>3. CASE ~ Small(x)
    <3>1. High(x) \in Recursible /\ High(x)[2] < n /\ TrueLow(x) \in Recursible /\ TrueLow(x)[2] < n
      BY <2>3, RecursionStep
    <3>2. High(x)[2] \in 0 .. n - 1 /\ TrueLow(x)[2] \in 0 .. n - 1
      BY <3>1 DEF Recursible
    <3>3. /\ DivRem[High(x)].q = Quot(High(x)) /\ DivRem[High(x)].r = Rem(High(x))
          /\ DivRem[TrueLow(x)].q = Quot(TrueLow(x)) /\ DivRem[TrueLow(x)].r = Rem(TrueLow(x))
      BY <1>1, <3>1, <3>2
    <3>. QED
      BY <2>1, <2>3, <3>3, BodySolves
  <2>. QED
    BY <2>2, <2>3
<1>2. p[2] \in Nat
  BY DEF Recursible
<1>3. p[2] \in S
  <2>. HIDE DEF S
  <2>1. \A n \in Nat : n \in S
    BY <1>1, Below
  <2>. QED
    BY <1>2, <2>1
<1>. QED
  BY <1>3

-----------------------------------------------------------------------------
(* The chunks of a call.                                                   *)
LEMMA ChunkStep ==
  ASSUME NEW n \in Nat, NEW b \in Nat, b > 0, NEW Q \in Nat, NEW m \in Nat, m > Used(b),
         Used(n) <= m + Used(b)
  PROVE  LET c == Used(b)
             power == Weight(m - c)
             s == DivRem[<< n \div power, b >>]
             rest == s.r * power + (n % power)
             quotient == Q * Weight(c) + s.q
         IN  /\ rest \in Nat /\ quotient \in Nat /\ m - c \in Nat
             /\ Used(rest) <= (m - c) + c
             /\ Q * (b * Weight(m)) + n = quotient * (b * Weight(m - c)) + rest
<1>. DEFINE c == Used(b)
            j == m - c
            power == Weight(j)
            top == n \div power
            low == n % power
            wc == Weight(c)
            s == DivRem[<< top, b >>]
            q == top \div b
            r == top % b
            rest == s.r * power + low
            quotient == Q * wc + s.q
<1>1. c \in Nat /\ b < wc /\ wc \in Nat /\ wc > 0
  BY UsedFacts, Weights
<1>2. j \in Nat /\ m = c + j /\ m = j + c
  <2>. HIDE DEF c
  <2>. QED
    BY <1>1 DEF c
<1>3. power \in Nat /\ power > 0 /\ Weight(m) = wc * power
  <2>. HIDE DEF c, j
  <2>1. Weight(c + j) = Weight(c) * Weight(j)
    BY <1>1, <1>2, WeightSum
  <2>. QED
    BY <1>2, <2>1, Weights
<1>4. top \in Nat /\ low \in 0 .. power - 1 /\ n = power * top + low
  <2>. HIDE DEF power
  <2>1. top \in Nat
    BY <1>3, Greatest
  <2>. QED
    BY <1>3, <2>1, Division
<1>5. Used(top) <= 2 * c
  <2>. HIDE DEF c, j
  <2>1. Used(n) <= 2 * c + j /\ 2 * c \in Nat
    <3>1. Used(n) \in Nat
      BY UsedFacts
    <3>2. Used(n) <= m + c
      BY DEF c
    <3>. QED
      BY <1>1, <1>2, <3>1, <3>2
  <2>. QED
    BY <1>2, <2>1, UsedTop
<1>6. s.q = q /\ s.r = r
  <2>1. << top, b >> \in Recursible
    <3>. HIDE DEF top
    <3>. QED
      BY <1>4, <1>5 DEF Recursible
  <2>. HIDE DEF top
  <2>2. DivRem[<< top, b >>].q = Quot(<< top, b >>) /\ DivRem[<< top, b >>].r = Rem(<< top, b >>)
    BY <2>1, DivRemDivides
  <2>. QED
    BY <2>2 DEF Quot, Rem
<1>. HIDE DEF top, low
<1>7. q \in Nat /\ r \in 0 .. b - 1 /\ top = b * q + r
  <2>1. q \in Nat
    BY <1>4, Greatest
  <2>. QED
    BY <1>4, <2>1, Division
<1>. HIDE DEF q, r, s, power, wc, j
<1>8. rest \in Nat /\ quotient \in Nat
  BY <1>1, <1>3, <1>4, <1>6, <1>7
<1>9. rest < b * power
  <2>1. (r + 1) * power <= b * power /\ (r + 1) * power = r * power + power
    <3>1. r + 1 \in Nat /\ r + 1 <= b /\ r \in Nat
      BY <1>7
    <3>. QED
      BY <1>3, <3>1, MonotoneProduct, IntegerProducts
  <2>2. r * power \in Nat /\ b * power \in Nat
    BY <1>3, <1>7
  <2>. DEFINE rp == r * power
              bp == b * power
  <2>3. rp + power <= bp /\ rp \in Nat /\ bp \in Nat /\ rest = rp + low
    BY <1>6, <2>1, <2>2
  <2>. HIDE DEF rp, bp, rest
  <2>4. rest < bp
    BY <1>3, <1>4, <2>3
  <2>. QED
    BY <2>4 DEF bp
<1>10. Used(rest) <= m
  <2>1. b * power <= wc * power /\ b * power \in Nat /\ wc * power \in Nat
    BY <1>1, <1>3, MonotoneProduct, IntegerProducts
  <2>. HIDE DEF rest
  <2>2. rest < Weight(m)
    BY <1>3, <1>8, <1>9, <2>1
  <2>. QED
    BY <1>8, <2>2, UsedLess
<1>11. Q * (b * Weight(m)) + n = quotient * (b * power) + rest
  <2>1. Q * (b * (wc * power)) = (Q * wc) * (b * power) /\ Q * wc \in Nat
    BY <1>1, <1>3
  <2>2. quotient * (b * power) = (Q * wc) * (b * power) + q * (b * power)
    <3>. DEFINE x == Q * wc
                y == b * power
    <3>1. x \in Nat /\ y \in Nat
      BY <1>1, <1>3
    <3>. HIDE DEF x, y
    <3>2. (x + q) * y = x * y + q * y
      BY <1>7, <3>1
    <3>. QED
      BY <1>6, <3>2 DEF x, y
  <2>3. n = q * (b * power) + rest
    <3>1. power * top = q * (b * power) + r * power
      BY <1>3, <1>7
    <3>2. power * top \in Nat /\ q * (b * power) \in Nat /\ r * power \in Nat
      BY <1>3, <1>4, <1>7
    <3>. DEFINE x == q * (b * power)
                y == r * power
                z == power * top
    <3>. HIDE DEF x, y, z
    <3>3. z = x + y /\ n = z + low /\ rest = y + low /\ x \in Nat /\ y \in Nat
      BY <1>4, <1>6, <3>1, <3>2 DEF x, y, z
    <3>. HIDE DEF rest
    <3>4. n = x + rest
      BY <1>4, <3>3
    <3>. QED
      BY <3>4 DEF x
  <2>. DEFINE x == (Q * wc) * (b * power)
              y == q * (b * power)
  <2>4. x \in Nat /\ y \in Nat
    BY <1>1, <1>3, <1>7
  <2>. HIDE DEF x, y, rest, quotient
  <2>5. Q * (b * Weight(m)) = x /\ quotient * (b * power) = x + y /\ n = y + rest
    BY <1>3, <2>1, <2>2, <2>3 DEF x, y
  <2>. QED
    BY <1>8, <2>4, <2>5
<1>. QED
  BY <1>2, <1>8, <1>10, <1>11 DEF s, power, wc, j, top, low

LEMMA LastStep ==
  ASSUME NEW n \in Nat, NEW b \in Nat, b > 0, NEW Q \in Nat, NEW m \in Nat, m <= Used(b),
         Used(n) <= m + Used(b)
  PROVE  LET s == DivRem[<< n, b >>]
             quotient == Q * Weight(m) + s.q
         IN  /\ s.r \in Nat /\ s.r < b /\ quotient \in Nat
             /\ Q * (b * Weight(m)) + n = quotient * (b * Weight(0)) + s.r
<1>. DEFINE c == Used(b)
            w == Weight(m)
            q == n \div b
            r == n % b
<1>1. c \in Nat /\ w \in Nat /\ Used(n) \in Nat
  BY UsedFacts, Weights
<1>2. << n, b >> \in Recursible
  BY <1>1 DEF Recursible
<1>3. DivRem[<< n, b >>].q = q /\ DivRem[<< n, b >>].r = r
  BY <1>2, DivRemDivides DEF Quot, Rem
<1>4. q \in Nat /\ r \in 0 .. b - 1 /\ n = b * q + r
  <2>1. q \in Nat
    BY Greatest
  <2>. QED
    BY <2>1, Division
<1>. HIDE DEF q, r, w
<1>5. Q * w + q \in Nat /\ Q * (b * w) + n = (Q * w + q) * (b * 1) + r
  <2>1. (Q * w + q) * (b * 1) = Q * (b * w) + b * q
    BY <1>1, <1>4
  <2>2. Q * (b * w) \in Nat /\ b * q \in Nat /\ Q * w + q \in Nat
    BY <1>1, <1>4
  <2>. DEFINE x == Q * (b * w)
              y == b * q
              z == (Q * w + q) * (b * 1)
  <2>3. z = x + y /\ n = y + r /\ x \in Nat /\ y \in Nat
    BY <1>4, <2>1, <2>2
  <2>. HIDE DEF x, y, z
  <2>4. x + n = z + r
    BY <1>4, <2>3
  <2>. QED
    BY <2>2, <2>4 DEF x, z
<1>6. Weight(0) = 1
  BY Weights
<1>. QED
  BY <1>3, <1>4, <1>5, <1>6 DEF w

LEMMA ShiftedDivision ==
  ASSUME NEW a \in Nat, NEW b \in Nat, b > 0, NEW t \in Nat, t > 0, NEW Q \in Nat, NEW r \in Nat,
         r < b * t, a * t = Q * (b * t) + r
  PROVE  Q = a \div b /\ r \div t = a % b /\ r \div t = a - Q * b
<1>. DEFINE p == Q * b
            e == a - p
<1>1. p \in Nat
  BY IntegerProducts
<1>2. p * t = Q * (b * t) /\ p * t \in Nat /\ a * t \in Nat
  BY <1>1
<1>. HIDE DEF p
<1>3. p * t <= a * t
  BY <1>2
<1>4. e \in Nat
  <2>1. p <= a
    BY <1>1, <1>3, MonotoneProduct
  <2>. QED
    BY <1>1, <2>1
<1>5. e * t = r
  <2>1. e * t = a * t - p * t
    BY <1>1, IntegerProducts
  <2>. DEFINE x == a * t
              y == p * t
  <2>2. x = y + r /\ e * t = x - y /\ x \in Nat /\ y \in Nat
    BY <1>2, <2>1
  <2>. HIDE DEF x, y
  <2>. QED
    BY <2>2
<1>. HIDE DEF e
<1>6. e < b
  <2>1. e * t < b * t
    BY <1>5
  <2>. QED
    BY <1>4, <2>1, MonotoneProduct
<1>7. r \div t = e
  <2>1. t * e + 0 = r /\ 0 \in 0 .. t - 1
    BY <1>4, <1>5
  <2>2. (t * e + 0) \div t = e
    BY <1>4, <2>1, DivisionUnique
  <2>. QED
    BY <2>1, <2>2
<1>8. b * Q + e = a
  BY <1>1, <1>4 DEF e, p
<1>9. (b * Q + e) \div b = Q /\ (b * Q + e) % b = e
  BY <1>4, <1>6, DivisionUnique
<1>. QED
  BY <1>7, <1>8, <1>9 DEF e, p

(* Quotient so far and rest make the dividend; the chunks still to come    *)
(* are no longer than the recursion takes.                                 *)
ChunksDone ==
  /\ loc.sigma \in Nat /\ loc.A \in Nat /\ loc.Q \in Nat /\ loc.m \in Nat
  /\ loc.B \in Nat /\ loc.B > 0 /\ loc.B = Magnitude(B) * 2 ^ loc.sigma
  /\ Magnitude(A) * 2 ^ loc.sigma = loc.Q * (loc.B * Weight(loc.m)) + loc.A
  /\ pc = "chunks" => Used(loc.A) <= loc.m + chunk
  /\ pc = "recursive_end" => loc.m = 0 /\ loc.A < loc.B

Divided ==
  LET a == old[fr.a]
      b == old[fr.b]
  IN  /\ fr.c # NULL => val[fr.c] = Quotient(a, b)
      /\ fr.d # NULL => val[fr.d] = a - Quotient(a, b) * b

RecursionRuns ==
  fr.op \in RecursionOps =>
    /\ pc # "done" => val = old
    /\ pc \in {"chunks", "recursive_end"} => ChunksDone
    /\ pc = "done" /\ err = "OKAY" => Divided

LEMMA RecursionArguments ==
  ASSUME Ownership, Remembered, fr.op \in RecursionOps, val = old
  PROVE  /\ fr.a \in Ints /\ fr.b \in Ints /\ fr.c \in Ints \cup {NULL} /\ fr.d \in Ints \cup {NULL}
         /\ fr.c = fr.d => fr.c = NULL
         /\ A \in Int /\ B \in Int /\ B # 0
         /\ Magnitude(B) \in Nat /\ Magnitude(B) > 0
         /\ Magnitude(A) \in Nat /\ Magnitude(B) <= Magnitude(A)
<1>1. fr \in Frames /\ fr \in RecursionFrames /\ val \in [Ints -> Int] /\ val \in Contents(fr)
  BY FrameOfOp DEF Ownership, Remembered
<1>2. /\ fr.op = "recursive" /\ fr.a \in Ints /\ fr.b \in Ints /\ fr.c \in Ints \cup {NULL}
      /\ fr.d \in Ints \cup {NULL} /\ (fr.c = fr.d => fr.c = NULL)
  BY <1>1 DEF RecursionFrames
<1>3. A \in Int /\ B \in Int
  BY <1>1, <1>2 DEF A, B
<1>4. SentHere(A, B)
  BY <1>1, <1>2, NumbersFramesAssumption DEF A, B
<1>5. Magnitude(A) \in Nat /\ Used(A) = Used(Magnitude(A)) /\ Used(A) \in Nat
  BY <1>3, UsedTyped
<1>6. Magnitude(B) \in Nat /\ Used(B) = Used(Magnitude(B)) /\ Used(B) \in Nat
  BY <1>3, UsedTyped
<1>. DEFINE u == Used(A)
            v == Used(B)
<1>7. v > 0 /\ v < u
  <2>1. v > 2 * MP_MUL_KARATSUBA_CUTOFF /\ v <= (u \div 3) * 2 /\ u \in Nat /\ v \in Nat
    BY <1>4, <1>5, <1>6 DEF SentHere
  <2>. HIDE DEF u, v
  <2>. QED
    BY <2>1, CutoffAssumption
<1>8. Magnitude(B) <= Magnitude(A)
  <2>1. Magnitude(B) > Magnitude(A) => Used(Magnitude(A)) <= Used(Magnitude(B))
    BY <1>5, <1>6, UsedMonotone
  <2>. QED
    BY <1>5, <1>6, <1>7, <2>1
<1>9. Magnitude(B) > 0 /\ B # 0
  <2>1. Used(0) <= 0
    <3>1. 0 < Weight(0)
      BY Weights
    <3>. QED
      BY <3>1, UsedLess
  <2>2. Magnitude(B) # 0
    BY <1>6, <1>7, <2>1
  <2>. QED
    BY <1>3, <1>6, <2>2, MagnitudeProperties
<1>. QED
  BY <1>2, <1>3, <1>5, <1>6, <1>8, <1>9

LEMMA RecursionBegins ==
  ASSUME Ownership, Remembered, fr.op \in RecursionOps, val = old, NEW sigma,
         sigma = (MP_DIGIT_BIT - (mp_count_bits(B) % MP_DIGIT_BIT)) % MP_DIGIT_BIT
  PROVE  LET a == Magnitude(A) * 2 ^ sigma
             b == Magnitude(B) * 2 ^ sigma
         IN  /\ sigma \in Nat /\ a \in Nat /\ b \in Nat /\ b > 0
             /\ Used(a) \in Nat /\ Used(b) \in Nat /\ Used(a) - Used(b) \in Nat
             /\ a = 0 * (b * Weight(Used(a) - Used(b))) + a
<1>. DEFINE a == Magnitude(A) * 2 ^ sigma
            b == Magnitude(B) * 2 ^ sigma
            r == mp_count_bits(B) % MP_DIGIT_BIT
            t == 2 ^ sigma
<1>1. /\ Magnitude(A) \in Nat /\ Magnitude(B) \in Nat /\ Magnitude(B) > 0 /\ B \in Int
      /\ Magnitude(B) <= Magnitude(A)
  BY RecursionArguments
<1>2. mp_count_bits(B) \in Nat /\ MP_DIGIT_BIT \in Nat /\ MP_DIGIT_BIT > 0
  BY <1>1, UsedTyped, DigitBitAssumption
<1>3. r \in 0 .. MP_DIGIT_BIT - 1
  BY <1>2, Division
<1>4. sigma \in Nat
  <2>. HIDE DEF r
  <2>1. MP_DIGIT_BIT - r \in Nat
    BY <1>2, <1>3
  <2>2. (MP_DIGIT_BIT - r) % MP_DIGIT_BIT \in 0 .. MP_DIGIT_BIT - 1
    BY <1>2, <2>1, Division
  <2>. QED
    BY <1>2, <2>2 DEF r
<1>5. t \in Nat /\ t > 0
  BY <1>4, TwoTo
<1>. HIDE DEF t
<1>6. a \in Nat /\ b \in Nat /\ b > 0 /\ b <= a
  <2>. DEFINE x == Magnitude(A)
              y == Magnitude(B)
  <2>1. x \in Nat /\ y \in Nat /\ y > 0 /\ y <= x
    BY <1>1
  <2>. HIDE DEF x, y
  <2>2. x * t \in Nat /\ y * t \in Nat /\ y * t > 0 /\ y * t <= x * t
    BY <1>5, <2>1, MonotoneProduct, IntegerProducts
  <2>. QED
    BY <2>2 DEF t, x, y
<1>. HIDE DEF a, b
<1>7. Used(b) <= Used(a) /\ Used(a) \in Nat /\ Used(b) \in Nat
  BY <1>6, UsedMonotone, UsedFacts
<1>. DEFINE m == Used(a) - Used(b)
<1>8. m \in Nat
  BY <1>7
<1>9. a = 0 * (b * Weight(m)) + a
  <2>. DEFINE w == b * Weight(m)
  <2>1. w \in Nat
    BY <1>6, <1>8, Weights
  <2>. HIDE DEF w
  <2>2. a = 0 * w + a
    BY <1>6, <2>1
  <2>. QED
    BY <2>2 DEF w
<1>. QED
  BY <1>4, <1>6, <1>7, <1>8, <1>9 DEF a, b

LEMMA RecursionAnswers ==
  ASSUME Ownership, Remembered, fr.op \in RecursionOps, val = old, ChunksDone,
         pc = "recursive_end"
  PROVE  /\ Sgn(A) * Sgn(B) * loc.Q = Quotient(A, B)
         /\ (IF loc.Q = 0 THEN 1 ELSE Sgn(A)) * (loc.A \div 2 ^ loc.sigma) = A - Quotient(A, B) * B
<1>. DEFINE a == Magnitude(A)
            b == Magnitude(B)
            t == 2 ^ loc.sigma
            sa == Sgn(A)
            sb == Sgn(B)
<1>1. A \in Int /\ B \in Int /\ a \in Nat /\ b \in Nat /\ b > 0 /\ b <= a
  BY RecursionArguments
<1>2. PICK Q \in Nat : Q = loc.Q
  BY DEF ChunksDone
<1>3. PICK r \in Nat : r = loc.A
  BY DEF ChunksDone
<1>4. t \in Nat /\ t > 0
  BY TwoTo DEF ChunksDone
<1>. HIDE DEF a, b, t
<1>5. loc.B = b * t /\ b * t \in Nat
  BY <1>1, <1>4 DEF ChunksDone, b, t
<1>6. r < b * t /\ a * t = Q * (b * t) + r
  <2>1. loc.m = 0 /\ Weight(loc.m) = 1
    BY Weights DEF ChunksDone
  <2>2. loc.B * Weight(loc.m) = b * t
    BY <1>5, <2>1
  <2>3. a * t = loc.Q * (loc.B * Weight(loc.m)) + loc.A
    BY DEF ChunksDone, a, t
  <2>4. loc.A < loc.B
    BY DEF ChunksDone
  <2>. QED
    BY <1>2, <1>3, <1>5, <2>2, <2>3, <2>4
<1>7. Q = a \div b /\ r \div t = a - Q * b
  BY <1>1, <1>4, <1>6, ShiftedDivision
<1>8. Q > 0
  <2>1. 1 * b <= a
    BY <1>1
  <2>. QED
    BY <1>1, <1>7, <2>1, Greatest
<1>9. Quotient(A, B) = sa * sb * Q
  BY <1>7 DEF Quotient, a, b
<1>10. sa \in {-1, 1} /\ sb \in {-1, 1} /\ A = sa * a /\ B = sb * b
  BY <1>1, MagnitudeProperties DEF a, b
<1>11. sa * (a - Q * b) = A - sa * sb * Q * B
  <2>. DEFINE p == Q * b
  <2>1. p \in Nat
    BY <1>1
  <2>. HIDE DEF sa, sb
  <2>2. sa * sb * Q * B = sa * p
    <3>1. Q * (- b) = - p /\ (- 1) * p = - p
      BY <1>1
    <3>2. CASE sb = 1
      <4>1. sa * sb * Q * B = sa * Q * b /\ sa * Q * b = sa * p
        BY <1>1, <1>10, <3>2
      <4>. QED
        BY <4>1
    <3>3. CASE sb = -1
      <4>1. B = - b /\ sa * sb = - sa
        BY <1>1, <1>10, <3>3
      <4>2. (- sa) * Q * (- b) = sa * p
        BY <1>1, <1>10
      <4>. QED
        BY <4>1, <4>2
    <3>. QED
      BY <1>10, <3>2, <3>3
  <2>. HIDE DEF p
  <2>3. sa * (a - p) = sa * a - sa * p
    BY <1>1, <1>10, <2>1
  <2>. QED
    BY <1>10, <2>2, <2>3 DEF p
<1>. HIDE DEF sa, sb
<1>12. (IF loc.Q = 0 THEN 1 ELSE sa) * (loc.A \div t) = sa * (a - Q * b)
  BY <1>2, <1>3, <1>7, <1>8
<1>. QED
  BY <1>2, <1>9, <1>11, <1>12 DEF sa, sb, t

LEMMA RecursionSteps ==
  ASSUME Ownership, Remembered, RecursionRuns, RecursionNext
  PROVE  RecursionRuns'
<1>0. fr.op \in RecursionOps /\ fr' = fr /\ pc # "done"
  BY StepsAtHome
<1>1. val = old
  BY <1>0 DEF RecursionRuns
<1>2. /\ fr.a \in Ints /\ fr.b \in Ints /\ fr.c \in Ints \cup {NULL} /\ fr.d \in Ints \cup {NULL}
      /\ fr.c = fr.d => fr.c = NULL
      /\ A \in Int /\ B \in Int /\ val \in [Ints -> Int]
  BY <1>0, <1>1, RecursionArguments DEF Remembered
<1>3. ASSUME \E T : Refuse("MEM", T) PROVE RecursionRuns'
  BY <1>3 DEF Refuse, Return, RecursionRuns
<1>4. ASSUME \E locals : FailInitialising(locals) PROVE RecursionRuns'
  BY <1>4 DEF FailInitialising, RecursionRuns
<1>5. ASSUME val' = val, ChunksDone', pc' \in {"chunks", "recursive_end"}, old' = old
      PROVE  RecursionRuns'
  BY <1>1, <1>5 DEF RecursionRuns
<1>6. ASSUME val' = val PROVE A' = A /\ B' = B
  BY <1>0, <1>6 DEF A, B
<1>7. CASE recursive_begin
  <2>. DEFINE sigma == (MP_DIGIT_BIT - (mp_count_bits(B) % MP_DIGIT_BIT)) % MP_DIGIT_BIT
              b == Magnitude(B) * 2 ^ sigma
              a == Magnitude(A) * 2 ^ sigma
              next == [A |-> a, B |-> b, Q |-> 0, m |-> Used(a) - Used(b), sigma |-> sigma, back |-> 0]
  <2>1. CASE loc' = next /\ pc' = "chunks" /\ UNCHANGED << val, fr, err, old >>
    <3>1. /\ sigma \in Nat /\ a \in Nat /\ b \in Nat /\ b > 0
          /\ Used(a) \in Nat /\ Used(b) \in Nat /\ Used(a) - Used(b) \in Nat
          /\ a = 0 * (b * Weight(Used(a) - Used(b))) + a
      BY <1>0, <1>1, RecursionBegins
    <3>2. A' = A /\ B' = B
      BY <1>6, <2>1
    <3>. DEFINE m == Used(a) - Used(b)
    <3>3. Used(a) <= m + Used(b)
      BY <3>1
    <3>4. /\ loc'.A = a /\ loc'.B = b /\ loc'.Q = 0 /\ loc'.m = m /\ loc'.sigma = sigma
      BY <2>1
    <3>5. /\ b = Magnitude(B) * 2 ^ sigma /\ a = Magnitude(A) * 2 ^ sigma
      OBVIOUS
    <3>. HIDE DEF sigma, a, b, next, m
    <3>6. chunk' = Used(b)
      BY <3>4 DEF chunk
    <3>7. /\ Magnitude(A)' * 2 ^ loc'.sigma = a /\ loc'.B = Magnitude(B)' * 2 ^ loc'.sigma
          /\ loc'.Q * (loc'.B * Weight(loc'.m)) + loc'.A = a
      BY <3>1, <3>2, <3>4, <3>5, Zenon DEF m
    <3>8. ChunksDone'
      BY <2>1, <3>1, <3>3, <3>4, <3>6, <3>7 DEF ChunksDone, m
    <3>. QED
      BY <1>5, <2>1, <3>8
  <2>. QED
    BY <1>3, <1>4, <1>7, <2>1 DEF recursive_begin
<1>8. CASE pc = "chunks" /\ (recursive_chunk \/ recursive_last)
  <2>1. ChunksDone /\ DOMAIN loc = {"A", "B", "Q", "m", "sigma", "back"} /\ Used(loc.A) <= loc.m + chunk
    BY <1>0, <1>8 DEF RecursionRuns, Ownership, RecursionOwns, ChunksDone
  <2>2. PICK n \in Nat : n = loc.A
    BY <2>1 DEF ChunksDone
  <2>3. PICK b \in Nat : b = loc.B /\ b > 0
    BY <2>1 DEF ChunksDone
  <2>4. PICK Q \in Nat : Q = loc.Q
    BY <2>1 DEF ChunksDone
  <2>5. PICK m \in Nat : m = loc.m
    BY <2>1 DEF ChunksDone
  <2>6. chunk = Used(b) /\ Used(n) <= m + Used(b)
    BY <2>1, <2>2, <2>3, <2>5 DEF chunk
  <2>7. ASSUME NEW next, DOMAIN next = DOMAIN loc, loc' = next, val' = val,
               next.B = b, next.sigma = loc.sigma,
               next.A \in Nat, next.Q \in Nat, next.m \in Nat,
               Q * (b * Weight(m)) + n = next.Q * (b * Weight(next.m)) + next.A,
               pc' = "chunks" => Used(next.A) <= next.m + Used(b),
               pc' = "recursive_end" => next.m = 0 /\ next.A < b
        PROVE  ChunksDone'
    <3>1. A' = A /\ B' = B
      BY <1>6, <2>7
    <3>2. chunk' = Used(b)
      BY <2>7 DEF chunk
    <3>3. /\ loc.sigma \in Nat /\ loc.B = Magnitude(B) * 2 ^ loc.sigma
          /\ Magnitude(A) * 2 ^ loc.sigma = Q * (b * Weight(m)) + n
      BY <2>1, <2>2, <2>3, <2>4, <2>5 DEF ChunksDone
    <3>4. /\ loc'.B = Magnitude(B)' * 2 ^ loc'.sigma /\ loc'.sigma \in Nat
          /\ Magnitude(A)' * 2 ^ loc'.sigma = loc'.Q * (loc'.B * Weight(loc'.m)) + loc'.A
      BY <2>3, <2>7, <3>1, <3>3, Zenon
    <3>. QED
      BY <2>3, <2>7, <3>2, <3>4 DEF ChunksDone
  <2>8. CASE recursive_chunk
    <3>. DEFINE c == Used(b)
                power == Weight(m - c)
                s == DivRem[<< n \div power, b >>]
                rest == s.r * power + (n % power)
                quotient == Q * Weight(c) + s.q
    <3>1. /\ rest \in Nat /\ quotient \in Nat /\ m - c \in Nat
          /\ Used(rest) <= (m - c) + c
          /\ Q * (b * Weight(m)) + n = quotient * (b * Weight(m - c)) + rest
      <4>1. m > Used(b)
        BY <2>5, <2>6, <2>8 DEF recursive_chunk
      <4>. QED
        BY <2>3, <2>6, <4>1, ChunkStep
    <3>2. \/ ChunkFails(loc.A \div Weight(loc.m - chunk))
          \/ /\ loc' = [loc EXCEPT !.A = rest, !.Q = quotient, !.m = m - c, !.back = s.back]
             /\ Goto("chunks")
      BY <2>2, <2>3, <2>4, <2>5, <2>6, <2>8 DEF recursive_chunk
    <3>. HIDE DEF rest, quotient, s
    <3>. DEFINE next == [loc EXCEPT !.A = rest, !.Q = quotient, !.m = m - c, !.back = s.back]
    <3>3. CASE loc' = next /\ Goto("chunks")
      <4>1. /\ DOMAIN next = DOMAIN loc /\ next.A = rest /\ next.Q = quotient /\ next.m = m - c
            /\ next.B = loc.B /\ next.sigma = loc.sigma
        BY <2>1
      <4>. HIDE DEF next
      <4>2. /\ val' = val /\ old' = old /\ pc' = "chunks"
        BY <3>3 DEF Goto
      <4>3. ChunksDone'
        BY <2>3, <2>7, <3>1, <3>3, <4>1, <4>2
      <4>. QED
        BY <1>5, <4>2, <4>3
    <3>. QED
      BY <1>3, <1>4, <3>2, <3>3 DEF ChunkFails
  <2>9. CASE recursive_last
    <3>. DEFINE s == DivRem[<< n, b >>]
                quotient == Q * Weight(m) + s.q
    <3>1. /\ s.r \in Nat /\ s.r < b /\ quotient \in Nat
          /\ Q * (b * Weight(m)) + n = quotient * (b * Weight(0)) + s.r
      <4>1. m <= Used(b)
        BY <2>5, <2>6, <2>9 DEF recursive_last
      <4>. QED
        BY <2>3, <2>6, <4>1, LastStep
    <3>2. \/ ChunkFails(loc.A)
          \/ /\ loc' = [loc EXCEPT !.A = s.r, !.Q = quotient, !.m = 0, !.back = s.back]
             /\ Goto("recursive_end")
      BY <2>2, <2>3, <2>4, <2>5, <2>9 DEF recursive_last
    <3>. HIDE DEF quotient, s
    <3>. DEFINE next == [loc EXCEPT !.A = s.r, !.Q = quotient, !.m = 0, !.back = s.back]
    <3>3. CASE loc' = next /\ Goto("recursive_end")
      <4>1. /\ DOMAIN next = DOMAIN loc /\ next.A = s.r /\ next.Q = quotient /\ next.m = 0
            /\ next.B = loc.B /\ next.sigma = loc.sigma
        BY <2>1
      <4>. HIDE DEF next
      <4>2. /\ val' = val /\ old' = old /\ pc' = "recursive_end"
        BY <3>3 DEF Goto
      <4>3. ChunksDone'
        BY <2>3, <2>7, <3>1, <3>3, <4>1, <4>2
      <4>. QED
        BY <1>5, <4>2, <4>3
    <3>. QED
      BY <1>3, <1>4, <3>2, <3>3 DEF ChunkFails
  <2>. QED
    BY <1>8, <2>8, <2>9
<1>9. CASE recursive_end
  <2>. DEFINE R == (IF loc.Q = 0 THEN 1 ELSE Sgn(A)) * (loc.A \div 2 ^ loc.sigma)
              Q == Sgn(A) * Sgn(B) * loc.Q
              stored == IF fr.c = NULL THEN val ELSE [val EXCEPT ![fr.c] = Q]
  <2>1. pc = "recursive_end" /\ ChunksDone
    BY <1>0, <1>9 DEF RecursionRuns, recursive_end
  <2>2. Q = Quotient(A, B) /\ R = A - Quotient(A, B) * B
    BY <1>0, <1>1, <2>1, RecursionAnswers
  <2>3. /\ val' = IF fr.d = NULL THEN stored ELSE [stored EXCEPT ![fr.d] = R]
        /\ pc' = "done" /\ old' = old
    BY <1>9 DEF recursive_end, Return
  <2>. HIDE DEF R, Q
  <2>4. /\ fr.c # NULL => val'[fr.c] = Q
        /\ fr.d # NULL => val'[fr.d] = R
    BY <1>2, <2>3, NullAssumption
  <2>5. A = old[fr.a] /\ B = old[fr.b]
    BY <1>1 DEF A, B
  <2>6. Divided'
    BY <1>0, <2>2, <2>3, <2>4, <2>5 DEF Divided
  <2>. QED
    BY <2>3, <2>6 DEF RecursionRuns
<1>. QED
  BY <1>7, <1>8, <1>9 DEF RecursionNext, recursive_chunk, recursive_last

(* Division that goes down recursively is exact, too: s_mp_div_recursive   *)
(* leaves the truncated quotient and the remainder of the dividend's sign  *)
(* for every dividend and divisor that mp_div sends it, whichever operand  *)
(* they replace, as the halves that are divided are never longer than      *)
(* twice their divisor and what is added back makes up for the digits of   *)
(* the divisor they left out.                                              *)
THEOREM RecursiveDivision == Spec => []RecursionCorrect
<1>1. Init => Remembered /\ RecursionRuns
  BY ContentsAssumption DEF Init, Remembered, RecursionRuns, RecursionOps
<1>2. Ownership /\ (Remembered /\ RecursionRuns) /\ [Next]_vars => (Remembered /\ RecursionRuns)'
  <2>. SUFFICES ASSUME Ownership, Remembered, RecursionRuns, [Next]_vars PROVE RecursionRuns'
    BY RememberedKept
  <2>1. CASE RecursionNext
    BY <2>1, RecursionSteps
  <2>2. CASE UNCHANGED vars
    BY <2>2, Zenon DEF vars, RecursionRuns, ChunksDone, Divided, chunk, A, B
  <2>3. CASE Next /\ ~ RecursionNext
    <3>1. fr' = fr /\ fr.op \notin RecursionOps
      BY <2>3, StepsAtHome DEF Next, MulOps, ReduceOps, RecursionOps, LogOps, PrimeOps, SourceOps,
         TextOps, MachineOps
    <3>. QED
      BY <3>1 DEF RecursionRuns
  <2>. QED
    BY <2>1, <2>2, <2>3
<1>3. RecursionRuns => RecursionCorrect
  BY DEF RecursionRuns, RecursionCorrect, Divided, Succeeded, Done, RecursionOps
<1>. QED
  BY <1>1, <1>2, <1>3, Owned, PTL DEF Spec
=============================================================================
