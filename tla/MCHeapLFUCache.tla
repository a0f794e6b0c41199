--------------------------- MODULE MCHeapLFUCache ---------------------------
(* Seven blocks, six of which fit: a heap of three levels, in which an     *)
(* entry that replaces a removed one may have to rise.                     *)
EXTENDS HeapLFUCache, TLC

CONSTANTS b1, b2, b3, b4, b5, b6, b7, f1, f2

MCBlock == {b1, b2, b3, b4, b5, b6, b7}
MCFile == {f1, f2}
MCFileOf == [b \in MCBlock |-> IF b \in {b6, b7} THEN f2 ELSE f1]

\* Blocks of one file are interchangeable.
Symmetry == Permutations({b1, b2, b3, b4, b5}) \cup Permutations({b6, b7})
=============================================================================
