------------------------------ MODULE MCBelady ------------------------------
(* Four blocks of one file, with room for three of size 1; one size fills  *)
(* the cache, and one is too big.                                          *)
EXTENDS Belady, TLC

CONSTANTS b1, b2, b3, b4, f1

MCBlock == {b1, b2, b3, b4}
MCFileOf == [b \in MCBlock |-> f1]
Symmetry == Permutations(MCBlock)
=============================================================================
