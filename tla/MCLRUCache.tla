----------------------------- MODULE MCLRUCache -----------------------------
(* Four blocks of two files; sizes from an empty block to one too big.     *)
EXTENDS LRUCache, TLC

CONSTANTS b1, b2, b3, b4, f1, f2

MCBlock == {b1, b2, b3, b4}
MCFile == {f1, f2}
MCFileOf == (b1 :> f1) @@ (b2 :> f1) @@ (b3 :> f1) @@ (b4 :> f2)
MCSize == {0, 1, 2, 4}
=============================================================================
