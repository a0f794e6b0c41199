---------------------------- MODULE HeapLFUCache ----------------------------
(***************************************************************************)
(* HeapLFUCache (lfu_cache.h, lfu_cache.cc): a min heap of blocks on how   *)
(* often they were used, since admission (access_count_) or, when          *)
(* is_absolute_, since the beginning of the trace (access_map_).           *)
(***************************************************************************)
EXTENDS HeapCache

CONSTANT MaxAccess      \* bound: accesses of one block in a behaviour

VARIABLES is_absolute_,     \* given to the constructor
          access_map_, access_count_

uses == <<access_map_, access_count_>>
lfuVars == <<is_absolute_, contents, uses, call>>

LFUInit ==
    /\ HeapCacheInit
    /\ is_absolute_ \in BOOLEAN
    /\ access_map_ = [b \in Block |-> 0]
    /\ access_count_ = <<>>

UseKey(map, count) == IF is_absolute_ THEN map ELSE count
Key == UseKey(access_map_, access_count_)

record_access(b) ==
    IF exists(b)
    THEN LET counts == [access_count_ EXCEPT ![b] = @ + 1]
             map == [access_map_ EXCEPT ![b] = @ + 1]
             down == PercolateDown(Heap, UseKey(map, counts), cache_map_[b])
         IN  /\ access_count_' = counts
             /\ access_map_' = map
             /\ HeapBecomes(Settle(down, b))
             /\ UNCHANGED <<size_, curr_size_, block_count_>>
    ELSE UNCHANGED <<contents, uses>>

(***************************************************************************)
(* The calls.                                                              *)
(***************************************************************************)
RecordAccess(b) ==
    /\ call = Idle
    /\ access_map_[b] < MaxAccess
    /\ record_access(b)
    /\ UNCHANGED call

InsertTooBig(b, s) ==
    /\ call = Idle
    /\ s > MaxSize
    /\ call' = Exited
    /\ UNCHANGED <<contents, uses>>

InsertResident(b, s) ==
    /\ call = Idle
    /\ s <= MaxSize
    /\ exists(b)
    /\ access_map_[b] < MaxAccess
    /\ record_access(b)
    /\ UNCHANGED call

\* The use is counted before anything is evicted.
InsertNew(b, s) ==
    /\ call = Idle
    /\ s <= MaxSize
    /\ ~ exists(b)
    /\ access_map_[b] < MaxAccess
    /\ access_map_' = [access_map_ EXCEPT ![b] = @ + 1]
    /\ call' = Inserting(b, s)
    /\ UNCHANGED <<contents, access_count_>>

AdmitUsed ==
    /\ call.op = "insert"
    /\ access_count_' = Add(access_count_, call.block, 1)
    /\ Admit(UseKey(access_map_, access_count_'))
    /\ UNCHANGED access_map_

Counting ==
    \/ \E b \in Block : RecordAccess(b)
    \/ \E b \in Block, s \in Size :
          InsertTooBig(b, s) \/ InsertResident(b, s) \/ InsertNew(b, s)
    \/ AdmitUsed

\* A block that goes takes its count along; access_map_ remembers its uses.
Removing ==
    /\ (\E b \in Block : RemoveBlock(Key, b)) \/ EvictBlock(Key)
          \/ EvictForInsert(Key) \/ PurgeNext(Key)
    /\ access_count_' = Remaining(access_count_)
    /\ UNCHANGED access_map_

FileCall ==
    /\ (\E f \in File : RemoveFileBlocks(f)) \/ PurgeReturn
    /\ UNCHANGED uses

LFUNext == (Counting \/ Removing \/ FileCall) /\ UNCHANGED is_absolute_

LFUSpec == LFUInit /\ [][LFUNext]_lfuVars

(***************************************************************************)
(* Properties.                                                             *)
(***************************************************************************)
\* insert_block evicts a block that no resident block was used less than, by
\* the count the policy goes by.
VictimLeastUsed ==
    [][ call.op = "insert" =>
          \A v \in DOMAIN cache_map_ \ DOMAIN cache_map_' :
              \A b \in DOMAIN cache_map_ : Key[v] <= Key[b] ]_lfuVars
=============================================================================
