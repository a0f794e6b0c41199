------------------------------ MODULE FileMap ------------------------------
(***************************************************************************)
(* file_map of simulate_normal and simulate_modular (simulators.cc): what  *)
(* is known of the files that the trace has created so far.                *)
(***************************************************************************)
EXTENDS FileCounts

CONSTANT MaxLookups         \* bound: Get records in the trace

ASSUME FileMapAssumption == MaxLookups \in Nat

VARIABLES file_map, lookup_count,
          touched           \* the files the Get record at hand has probed so far

files == <<file_map, lookup_count, touched>>

FilesInit == file_map = <<>> /\ lookup_count = 0 /\ touched = {}
=============================================================================
