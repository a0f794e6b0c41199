---------------------------- MODULE MCOptimalLoop ----------------------------
(* Two files that are created and one whose create record is lost.  A read *)
(* is the index block and a data block, or a data block alone.             *)
EXTENDS OptimalLoop, TLC

CONSTANTS f1, f2, lost

Read(type, id) == [type |-> type, id |-> id]
ProbeOf(f, l, outcome, reads) == [file |-> f, level |-> l, outcome |-> outcome, reads |-> reads]
Both == <<Read("index", 0), Read("data", 1)>>
Data == <<Read("data", 1)>>

MCFile == {f1, f2, lost}
MCLost == {lost}
MCTotalModules == (f1 :> 1) @@ (f2 :> 2) @@ (lost :> 1)
MCErrorRate == [f \in MCFile |-> [num |-> 1, den |-> 4]]
Half == [num |-> 1, den |-> 2]
MCGets ==
    {<<>>, <<ProbeOf(f1, 0, "found", Data)>>, <<ProbeOf(f2, 1, "not_found", Both)>>,
     <<ProbeOf(f1, 0, "not_found", Data)>>,
     <<ProbeOf(f2, 1, "not_found", Both), ProbeOf(f1, 0, "error", Data)>>,
     <<ProbeOf(lost, 0, "not_found", Data)>>}
=============================================================================
