----------------------------- MODULE FileCounts -----------------------------
(***************************************************************************)
(* What simulate_modular (simulators.cc) and simulate_optimal_modular      *)
(* (optimal_simulators.cc) count about files, how a file and a probe enter *)
(* and leave the counts, and the number of filter modules a probe may use  *)
(* by them (simulator_utils.h).  Doubles are exact fractions here.         *)
(***************************************************************************)
EXTENDS RatioTree

CONSTANTS File, Level,
          Policies,         \* values of config.module_limit_optimized
          TotalModules,     \* [File -> Nat]: get_filter_blocks of a file
          ErrorRate,        \* [File -> fraction]: that one of its modules errs
          FullThreshold, PartialThreshold   \* the mbf_ thresholds of config

Fraction == [num : Nat, den : Nat \ {0}]

\* "none" is no value of the config: the simulators that are not modular.
ASSUME FileCountsAssumption ==
    /\ IsFiniteSet(File)
    /\ Level \subseteq Nat
    /\ Policies \subseteq
         {"none", "vanilla", "cost_model", "percentile", "ratio", "work_info"}
    /\ TotalModules \in [File -> Nat]
    /\ ErrorRate \in [File -> Fraction]
    \* fpr_per_module: an exponential of - bits_per_key / total_modules.
    /\ \A f \in File : ErrorRate[f].num <= ErrorRate[f].den
    /\ \A f, g \in File : TotalModules[f] = TotalModules[g] => ErrorRate[f] = ErrorRate[g]
    /\ {FullThreshold, PartialThreshold} \subseteq Fraction

VARIABLES policy, total, empty, empty_nonzero_count, ratio_tree,
          levelwise_total_count, levelwise_empty_count

lists == <<total, empty, empty_nonzero_count, ratio_tree>>
levels == <<levelwise_total_count, levelwise_empty_count>>
counts == <<policy, lists, levels>>

FileCountsInit ==
    /\ policy \in Policies
    /\ total = NoAccesses
    /\ empty = NoAccesses
    /\ empty_nonzero_count = 0
    /\ ratio_tree = {}
    /\ levelwise_total_count = [l \in Level |-> 0]
    /\ levelwise_empty_count = [l \in Level |-> 0]

Modular == policy # "none"

EmptyCount(f) == CountOf(empty, f)
TotalCount(f) == CountOf(total, f)

\* Fault: the key under the old ratio stays.
ErasedNot(f) == ratio_tree
\* The tree around a change of the counts of f: its key under the old ratio is
\* erased, one under the new ratio inserted.
Erased(f) ==
    IF policy = "ratio" THEN EraseKey(ratio_tree, RatioKey(total, empty, f)) ELSE ratio_tree
ErasedIfCounted(f) == IF TotalCount(f) > 0 THEN Erased(f) ELSE ratio_tree
Inserted(tree, f) ==
    IF policy = "ratio" THEN InsertKey(tree, RatioKey(total', empty', f)) ELSE tree

\* Fault: a probe that found the key is taken back as an empty one too.
AddToLevelAsEmpty(by, l, not_found) ==
    /\ levelwise_total_count' = [levelwise_total_count EXCEPT ![l] = @ + by]
    /\ levelwise_empty_count' =
          IF not_found \/ by < 0 THEN [levelwise_empty_count EXCEPT ![l] = @ + by]
          ELSE levelwise_empty_count
AddToLevel(by, l, not_found) ==
    /\ levelwise_total_count' = [levelwise_total_count EXCEPT ![l] = @ + by]
    /\ levelwise_empty_count' =
          IF not_found THEN [levelwise_empty_count EXCEPT ![l] = @ + by]
          ELSE levelwise_empty_count

(***************************************************************************)
(* A file enters and leaves the counts.                                    *)
(***************************************************************************)
CountFile(f) ==
    /\ total' = PushBack(total, f)
    /\ empty' = PushBack(empty, f)
    /\ UNCHANGED <<policy, empty_nonzero_count, ratio_tree, levels>>

\* Fault: empty_nonzero_count still counts the file.
NonZeroStill(f) == empty_nonzero_count
NonZeroWithout(f) ==
    IF EmptyCount(f) > 0 THEN empty_nonzero_count - 1 ELSE empty_nonzero_count

\* The lists lose the entry at the place the index gives for f, whatever that is.
UncountFile(f) ==
    /\ ratio_tree' = ErasedIfCounted(f)
    /\ empty_nonzero_count' = NonZeroWithout(f)
    /\ empty' = Remove(empty, f)
    /\ total' = Remove(total, f)
    /\ UNCHANGED <<policy, levels>>

(***************************************************************************)
(* A probe of f on level l enters and leaves: not_found, or the key found. *)
(* The ratio of f looks f up in both lists, changed or not.                *)
(***************************************************************************)
CountProbe(f, l, not_found) ==
    /\ total' = Increment(total, f)
    /\ empty' = IF not_found THEN Increment(empty, f)
                ELSE IF policy = "ratio" THEN LookedUp(empty, f) ELSE empty
    /\ empty_nonzero_count' = IF not_found /\ EmptyCount(f) = 0
                              THEN empty_nonzero_count + 1 ELSE empty_nonzero_count
    /\ ratio_tree' = Inserted(ErasedIfCounted(f), f)
    /\ AddToLevel(1, l, not_found)
    /\ UNCHANGED policy

UncountProbe(f, l, not_found) ==
    /\ total' = Decrement(total, f)
    /\ empty' = IF not_found THEN Decrement(empty, f)
                ELSE IF policy = "ratio" THEN LookedUp(empty, f) ELSE empty
    /\ empty_nonzero_count' = IF not_found /\ EmptyCount(f) = 1
                              THEN empty_nonzero_count - 1 ELSE empty_nonzero_count
    /\ ratio_tree' = IF TotalCount(f) > 1 THEN Inserted(Erased(f), f) ELSE Erased(f)
    /\ AddToLevel(-1, l, not_found)
    /\ UNCHANGED policy

(***************************************************************************)
(* The modules a probe of f may use, by each policy.                       *)
(***************************************************************************)
\* Fault: the share of the files that rank higher.
ShareOfHigher(f, lower_equal, higher) ==
    LET d == higher + lower_equal
        n == (2 * TotalModules[f] * higher + d) \div (2 * d)
    IN  IF n < TotalModules[f] THEN n ELSE TotalModules[f]
\* round(modules * share of the files that rank no higher), at most modules.
Share(f, lower_equal, higher) ==
    LET d == higher + lower_equal
        n == (2 * TotalModules[f] * lower_equal + d) \div (2 * d)
    IN  IF n < TotalModules[f] THEN n ELSE TotalModules[f]

PercentileLimit(f) ==
    IF EmptyCount(f) = 0 THEN 0
    ELSE Share(f, empty_nonzero_count - (IndexOf(empty, f) - 1), IndexOf(empty, f) - 1)

\* empty_fraction of the level of a probe.
LevelFraction(l) ==
    IF levelwise_total_count[l] = 0 THEN [num |-> 0, den |-> 1]
    ELSE [num |-> levelwise_empty_count[l], den |-> levelwise_total_count[l]]

RatioLimit(f, fraction) ==
    LET lower_equal == OrderOfRatio(ratio_tree, RatioKey(total, empty, f)) IN
    IF EmptyCount(f) = 0 THEN 0
    ELSE (fraction.num * Share(f, lower_equal, Cardinality(ratio_tree) - lower_equal))
            \div fraction.den

\* pow(x, n)
Power(x, n) ==
    LET power[i \in 0 .. n] == IF i = 0 THEN 1 ELSE x * power[i - 1]
    IN  power[n]

\* Module i saves empty / lookups * error^(i-1) * (1 - error) of an I/O.  With
\* no probe or no lookup yet that is not a number, and below no threshold.
Saves(f, lookups, i, threshold) ==
    LET q == ErrorRate[f] IN
    EmptyCount(f) * (Power(q.num, i - 1) * (q.den - q.num) * threshold.den)
        >= threshold.num * lookups * Power(q.den, i)

Useful(f, lookups, i) ==
    Saves(f, lookups, i, IF i = 1 THEN FullThreshold ELSE PartialThreshold)

CostModelLimit(f, lookups) ==
    IF TotalCount(f) = 0 \/ lookups = 0 THEN TotalModules[f]
    ELSE Cardinality({n \in 1 .. TotalModules[f] : \A i \in 1 .. n : Useful(f, lookups, i)})

\* ceil(fraction * modules); all of them if it is no fraction of a whole.
WorkloadLimit(f, fraction) ==
    IF fraction.num > fraction.den THEN TotalModules[f]
    ELSE (fraction.num * TotalModules[f] + fraction.den - 1) \div fraction.den

\* lookups: those the cost model counts f against; fraction: of empty probes on
\* the level of the probe; workload: the one kWorkInfo goes by.
Limit(f, lookups, fraction, workload) ==
    CASE policy = "cost_model" -> CostModelLimit(f, lookups)
      [] policy = "percentile" -> PercentileLimit(f)
      [] policy = "ratio" -> RatioLimit(f, fraction)
      [] policy = "work_info" -> WorkloadLimit(f, workload)
      [] OTHER -> TotalModules[f]

\* modular_filter_verdict: the modules used, and what they say.  If the key is
\* there, or none may be used, the answer is yes; else each may say no.
Verdicts(found, limit) ==
    IF found \/ limit = 0 THEN {<<limit, TRUE>>}
    ELSE ((1 .. limit) \X {FALSE}) \cup {<<limit, TRUE>>}

\* A filter that is not modular is looked at whole, and may err.
FilterUses(f, found, limit) ==
    IF Modular THEN Verdicts(found, limit)
    ELSE {TotalModules[f]} \X (IF found THEN {TRUE} ELSE BOOLEAN)

(***************************************************************************)
(* What the comments on the declarations say of the state.                 *)
(***************************************************************************)
\* "sorted on empty_count", "file_id to index map".
Indexed == \A l \in {total, empty} : Descending(l) /\ IndexAgrees(l)

\* "non-zero entries form a prefix of empty_access_list".
PrefixNonZero ==
    \A i \in 1 .. Len(empty.list) : (empty.list[i].count > 0) <=> (i <= empty_nonzero_count)

\* "holds every file with a non-zero total count", under its present ratio.
TreeMatches ==
    LET probed == {f \in Files(total) : TotalCount(f) > 0} IN
    policy = "ratio" =>
        /\ Cardinality(ratio_tree) = Cardinality(probed)
        /\ \A f \in probed : \E k \in ratio_tree : SameKey(k, RatioKey(total, empty, f))
=============================================================================
