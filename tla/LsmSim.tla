------------------------------- MODULE LsmSim -------------------------------
(***************************************************************************)
(* main.cc: the simulations one process runs, and the files it writes.     *)
(* After the caches without modular filters come those with, a policy for  *)
(* the module limit at a time; module_limit_optimized of the config file   *)
(* is overwritten before it is used.                                       *)
(***************************************************************************)
EXTENDS SimulationConfig, FiniteSets

CONSTANTS PolicyOrder,  \* of main: "none", VANILLA, COSTMODEL, FILEINFO_PERCENTILE, ...
          CacheOrder    \* of main: LRU, LFU, LFUABS, OPTIMAL

ASSUME CallsAssumption ==
    /\ PolicyOrder \in Seq(ToSet(PolicyOrder)) /\ IsInjective(PolicyOrder)
    /\ CacheOrder \in Seq(ToSet(CacheOrder)) /\ IsInjective(CacheOrder)

Calls ==
    [i \in 1 .. Len(PolicyOrder) * Len(CacheOrder) |->
        [policy |-> PolicyOrder[((i - 1) \div Len(CacheOrder)) + 1],
         cache |-> CacheOrder[((i - 1) % Len(CacheOrder)) + 1]]]

\* Fault: the simulators of one cache name their results alike.
ResultNameOfCache(call, config) == <<"none", call.cache, [k \in NameFields |-> config[k]]>>

\* cache_policy_name (a prefix for the policy, the name both caches have), and
\* the fields of the config.
ResultName(call, config) == <<call.policy, call.cache, [k \in NameFields |-> config[k]]>>

Names(config) == {ResultName(Calls[i], config) : i \in 1 .. Len(Calls)}
=============================================================================
