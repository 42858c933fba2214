---------------------------- MODULE MC_MpModular ----------------------------
(* Model-checking instance of MpModular: four structures, so that operands,*)
(* modulus and destination can all differ, small integers of each sign, a  *)
(* long one to be multiplied.                                              *)
EXTENDS MpModular, TLC

CONSTANTS MaxValue, Long

MCValues == - MaxValue .. MaxValue \cup Long
MCContents(f) == [Ints -> MCValues]

Symmetry == Permutations(Ints)
=============================================================================
