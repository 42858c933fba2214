----------------------------- MODULE MC_MpDigit -----------------------------
(* Model-checking instance of MpDigit: before a single call, the numbers   *)
(* of at most MaxUsed digits from SampleDigits and the two numbers of full *)
(* length; before a sequence of calls, fewer short ones.                   *)
EXTENDS MpDigit, TLC

CONSTANTS MaxUsed, AllocDigits, SampleDigits, FirstUsed, FirstDigits

Short(used, digits) ==
  {n \in [used : 0 .. used, alloc : {AllocDigits}, sign : Signs,
          digit : [Places -> digits]] : WellFormed(n)}
Full ==
  [used : {MP_MAX_DIGIT_COUNT}, alloc : {MP_MAX_DIGIT_COUNT}, sign : Signs,
   digit : {[i \in Places |-> Radix - 1]}]

MCNumbers == Short(MaxUsed, SampleDigits) \cup Full
MCFirstNumbers == Short(FirstUsed, FirstDigits) \cup Full
MCBitCounts == -1 .. 2 * MP_DIGIT_BIT + 1

Symmetry == Permutations(Ints)
=============================================================================
