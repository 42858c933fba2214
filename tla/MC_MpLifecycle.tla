--------------------------- MODULE MC_MpLifecycle ---------------------------
(* Model-checking instance of MpLifecycle: the block addresses are         *)
(* interchangeable, and so are the structures.                             *)
EXTENDS MpLifecycle, TLC

Symmetry == Permutations(Blocks) \cup Permutations(Ints)
=============================================================================
