---------------------------- MODULE MC_MpAddSub ----------------------------
(* Model-checking instance of MpAddSub: the numbers of at most MaxUsed     *)
(* digits from SampleDigits, in AllocDigits of them, and the two numbers   *)
(* of full length, whose sum or difference needs one digit too many.       *)
EXTENDS MpAddSub, TLC

CONSTANTS MaxUsed, AllocDigits, SampleDigits

Short ==
  {n \in [used : 0 .. MaxUsed, alloc : {AllocDigits}, sign : Signs,
          digit : [Places -> SampleDigits]] : WellFormed(n)}
Full ==
  [used : {MP_MAX_DIGIT_COUNT}, alloc : {MP_MAX_DIGIT_COUNT}, sign : Signs,
   digit : {[i \in Places |-> Radix - 1]}]

MCNumbers == Short \cup Full
=============================================================================
