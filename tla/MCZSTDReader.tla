---------------------------- MODULE MCZSTDReader ----------------------------
(* All files of up to three units, bad ones among them.                    *)
EXTENDS ZSTDReader

MCFiles == BoundedSeq({"x", CR, LF, "header", "bad"}, 3)
=============================================================================
