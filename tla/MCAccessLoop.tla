---------------------------- MODULE MCAccessLoop ----------------------------
(* Two files, of one and two filter blocks; a read is the index block and  *)
(* a data block, or a data block alone and one that is not looked up.      *)
EXTENDS AccessLoop, TLC

CONSTANTS f1, f2

MCFile == {f1, f2}
MCTotalModules == (f1 :> 1) @@ (f2 :> 2)
MCErrorRate == [f \in MCFile |-> [num |-> 1, den |-> 4]]
Half == [num |-> 1, den |-> 2]
Read(type, id) == [type |-> type, id |-> id]
MCReads == {<<Read("index", 0), Read("data", 1)>>, <<Read("data", 2), Read("undefined", 3)>>}
=============================================================================
