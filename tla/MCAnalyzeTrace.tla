--------------------------- MODULE MCAnalyzeTrace ---------------------------
(* A Get makes no probe, any one that finds nothing, or any one that finds *)
(* its key and then one of the second file on level 1, which may be a      *)
(* probe of the same file on the same level again.                         *)
EXTENDS AnalyzeTrace

Second == [file |-> 2, level |-> 1, not_found |-> TRUE]
MCGets ==
    {<<>>} \cup {<<p>> : p \in {q \in Probe : q.not_found}}
        \cup {<<p, Second>> : p \in {q \in Probe : ~ q.not_found}}
=============================================================================
