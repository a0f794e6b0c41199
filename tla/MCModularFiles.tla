--------------------------- MODULE MCModularFiles ---------------------------
(* Three files with as many filter modules each, and so interchangeable.   *)
EXTENDS ModularFiles, TLC

CONSTANTS f1, f2, f3

MCFile == {f1, f2, f3}
MCTotalModules == [f \in MCFile |-> 3]
MCErrorRate == [f \in MCFile |-> [num |-> 1, den |-> 4]]
Tenth == [num |-> 1, den |-> 10]
Fifth == [num |-> 1, den |-> 5]
Symmetry == Permutations(MCFile)
=============================================================================
