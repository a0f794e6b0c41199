---------------------------- MODULE ModularFiles ----------------------------
(***************************************************************************)
(* How simulate_modular (simulators.cc) keeps its file counts over a       *)
(* trace.  A step is a record of the trace, or one probe of a Get record.  *)
(* The trace is well formed: a file is created once, deleted at most once, *)
(* and probed only after its creation, but possibly after its deletion.    *)
(***************************************************************************)
EXTENDS FileMap

VARIABLE probed         \* history: the probes of each file while it was live

modularVars == <<counts, files, probed>>

Live == {f \in DOMAIN file_map : ~ file_map[f].deleted}

ModularInit ==
    /\ FileCountsInit /\ FilesInit
    /\ probed = [f \in File |-> [total |-> 0, empty |-> 0]]

CreateRecord(f, l) ==
    /\ touched = {}
    /\ f \notin DOMAIN file_map
    /\ file_map' = Add(file_map, f, [level |-> l, deleted |-> FALSE,
                                     creation_lookup |-> lookup_count])
    /\ CountFile(f)
    /\ UNCHANGED <<lookup_count, touched, probed>>

\* The level of a file is written here and read nowhere.
MoveRecord(f, l) ==
    /\ touched = {}
    /\ f \in Live
    /\ file_map' = [file_map EXCEPT ![f].level = l]
    /\ UNCHANGED <<counts, lookup_count, touched, probed>>

DeleteRecord(f) ==
    /\ touched = {}
    /\ f \in Live
    /\ file_map' = [file_map EXCEPT ![f].deleted = TRUE]
    /\ UncountFile(f)
    /\ UNCHANGED <<lookup_count, touched, probed>>

\* One probe of a Get: the file had the key (not_found FALSE) or not.
GetProbe(f, l, not_found) ==
    /\ lookup_count < MaxLookups
    /\ f \in DOMAIN file_map \ touched
    /\ IF file_map[f].deleted THEN UNCHANGED <<counts, probed>>
       ELSE /\ CountProbe(f, l, not_found)
            /\ probed' = [probed EXCEPT ![f].total = @ + 1,
                                        ![f].empty = IF not_found THEN @ + 1 ELSE @]
    /\ touched' = touched \cup {f}
    /\ UNCHANGED <<file_map, lookup_count>>

GetRecord ==
    /\ lookup_count < MaxLookups
    /\ lookup_count' = lookup_count + 1
    /\ touched' = {}
    /\ UNCHANGED <<counts, file_map, probed>>

ModularNext ==
    \/ \E f \in File, l \in Level : CreateRecord(f, l) \/ MoveRecord(f, l)
    \/ \E f \in File : DeleteRecord(f)
    \/ \E f \in File, l \in Level, not_found \in BOOLEAN : GetProbe(f, l, not_found)
    \/ GetRecord

ModularSpec == ModularInit /\ [][ModularNext]_modularVars

(***************************************************************************)
(* Properties.                                                             *)
(***************************************************************************)
\* The comments on the lists ("sorted on empty_count", "file_id to index map"):
\* both list exactly the live files, in order, each where its index says.
ListsIndexed == Indexed /\ Files(total) = Live /\ Files(empty) = Live

\* "non-zero entries form a prefix of empty_access_list", which
\* empty_nonzero_count measures, also when files in the prefix are deleted.
NonZeroPrefix == PrefixNonZero

\* Through all the exchanges of entries, a live file's counts are its own: the
\* probes it had, and those of them that found nothing.
CountsAreTrue ==
    \A f \in Live :
        TotalCount(f) = probed[f].total /\ EmptyCount(f) = probed[f].empty

\* "holds every file with a non-zero total count", each under its present
\* ratio: every key that changes was found and erased first.
RatioTreeMatches == TreeMatches

\* Among files with as many modules, one with more empty probes does not get
\* fewer of them by the percentile or, against as many lookups, the cost model,
\* nor one with the higher ratio by the ratio; and none gets more than it has.
MoreEmptyMoreModules ==
    \A f, g \in Live : TotalModules[f] = TotalModules[g] /\ TotalCount(f) * TotalCount(g) > 0 =>
        /\ PercentileLimit(f) \in 0 .. TotalModules[f]
        /\ \A n \in 0 .. MaxLookups : CostModelLimit(f, n) \in 0 .. TotalModules[f]
        /\ EmptyCount(f) > EmptyCount(g) =>
              /\ PercentileLimit(f) >= PercentileLimit(g)
              /\ \A n \in 0 .. MaxLookups : CostModelLimit(f, n) >= CostModelLimit(g, n)
        /\ policy = "ratio" => \A l \in Level :
              /\ RatioLimit(f, LevelFraction(l)) \in 0 .. TotalModules[f]
              /\ LessOrEqual(RatioKey(total, empty, g), RatioKey(total, empty, f)) =>
                    RatioLimit(f, LevelFraction(l)) >= RatioLimit(g, LevelFraction(l))
=============================================================================
