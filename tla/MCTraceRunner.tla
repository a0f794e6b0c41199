---------------------------- MODULE MCTraceRunner ----------------------------
(* Three traces; the first two, equal in name and directory, share a log    *)
(* directory, so that the first to end takes the config from the other.    *)
(* The third is named for a fraction of 1, one of the configs divides by 0.*)
EXTENDS TraceRunner, TLC

CONSTANTS t1, t2, t3, d1, d3

MCTraces == <<t1, t2, t3>>
MCLogDir == (t1 :> d1) @@ (t2 :> d1) @@ (t3 :> d3)
MCPercent == (t1 :> None) @@ (t2 :> None) @@ (t3 :> 100)
MCPolicyOrder == <<"none", "WORKINFO">>
MCCacheOrder == <<"LRU", "LFU">>

Asked == <<ConfigLine("mode", "int", 0), ConfigLine("filter_cache_size", "int", 4),
           ConfigLine("data_cache_size", "int", 7)>>
Usual == Asked \o <<ConfigLine("workload_empty_fraction", "real", 50),
                    ConfigLine("shard_count", "int", 256),
                    ConfigLine("optimal_lookahead", "none", 0)>>
MCConfigs ==
    {Usual, Asked \o <<ConfigLine("bits_per_key", "int", 0)>>, Tail(Asked), Asked \o Asked}
=============================================================================
