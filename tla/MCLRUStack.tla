----------------------------- MODULE MCLRUStack -----------------------------
(* Five blocks of unequal sizes in two files; caches of 3 and 5 bytes.     *)
EXTENDS LRUStack, TLC

CONSTANTS b1, b2, b3, b4, b5, f1, f2

MCBlock == {b1, b2, b3, b4, b5}
MCFile == {f1, f2}
MCFileOf == (b1 :> f1) @@ (b2 :> f1) @@ (b3 :> f1) @@ (b4 :> f2) @@ (b5 :> f2)
MCSizeOf == (b1 :> 1) @@ (b2 :> 2) @@ (b3 :> 3) @@ (b4 :> 1) @@ (b5 :> 2)
=============================================================================
