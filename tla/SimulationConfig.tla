-------------------------- MODULE SimulationConfig --------------------------
(***************************************************************************)
(* SimulationConfig::read_from_file (simulation_config_result.h): what a   *)
(* simulator takes from the lines of a config file.  A line has a key and  *)
(* a value: "int" if it reads as a uint64_t, "real" if only as a double    *)
(* (in hundredths here), "none" if the line is not two fields or the value *)
(* no number.                                                              *)
(***************************************************************************)
EXTENDS Integers, SequencesExt

CONSTANTS Byte, Word, DWord     \* values of a uint8_t, uint16_t, uint32_t

ASSUME WidthAssumption == {Byte, Word, DWord} \subseteq Nat \ {0}

Defaults ==
    [mode |-> 1, module_limit_optimized |-> 0,
     filter_cache_size |-> 524288, data_cache_size |-> 524288, default_block_size |-> 4096,
     shard_count |-> 1, bits_per_key |-> 16,
     optimal_lookahead |-> 1000, modular_lookahead |-> 100, series_per_record |-> 10000,
     mbf_partial_threshold |-> 10, mbf_full_threshold |-> 20, workload_empty_fraction |-> 20]

\* All keys the code does not know are alike to it.
ConfigLines ==
    [key : DOMAIN Defaults \cup {"cache_size", "unknown"},
     kind : {"int", "real", "none"}, value : Int]
ConfigLine(key, kind, value) == [key |-> key, kind |-> kind, value |-> value]

RealKeys == {"mbf_partial_threshold", "mbf_full_threshold", "workload_empty_fraction"}

\* The keys whose value is taken only if it fits, by the values that fit.
Width ==
    [shard_count |-> Byte, bits_per_key |-> Byte,
     optimal_lookahead |-> Word, modular_lookahead |-> Word, series_per_record |-> DWord]

\* A real key takes no value that reads as an integer, any other no real one.
Assign(config, line) ==
    LET k == line.key
        n == line.value
    IN  CASE line.kind = "real" /\ k \in RealKeys -> [config EXCEPT ![k] = n]
          [] line.kind = "int" /\ k \in {"filter_cache_size", "data_cache_size",
                                         "default_block_size"} -> [config EXCEPT ![k] = n]
          [] line.kind = "int" /\ k \in DOMAIN Width /\ n < Width[k] -> [config EXCEPT ![k] = n]
          [] line.kind = "int" /\ k = "cache_size" ->
                [config EXCEPT !.filter_cache_size = n, !.data_cache_size = n]
          [] line.kind = "int" /\ k = "mode" -> [config EXCEPT !.mode = n % Byte]
          [] line.kind = "int" /\ k = "module_limit_optimized" ->
                [config EXCEPT ![k] = IF n \in 1 .. 4 THEN n ELSE 0]
          [] OTHER -> config

Parsed(lines) ==
    LET after[n \in 0 .. Len(lines)] ==
            IF n = 0 THEN Defaults ELSE Assign(after[n - 1], lines[n])
    IN  after[Len(lines)]

\* filter_keys_per_block = ... / bits_per_key, at the end, divides by zero.
Readable(config) == config.bits_per_key # 0

\* generate_result_filename: the fields of the config in the name of a log.
NameFields == {"mode", "filter_cache_size", "data_cache_size", "default_block_size",
               "shard_count", "optimal_lookahead", "modular_lookahead", "bits_per_key"}
=============================================================================
