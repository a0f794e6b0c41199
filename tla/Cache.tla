-------------------------------- MODULE Cache --------------------------------
(***************************************************************************)
(* What every cache of the simulator promises (class Cache of cache.h): a  *)
(* bounded set of blocks, filled by insert_block, which evicts only while  *)
(* the new block does not fit, and emptied by remove_block and             *)
(* remove_file_blocks.  Which block is the victim is left open: LRUCache,  *)
(* HeapLFUCache and OptimalCache each choose one.                          *)
(*                                                                         *)
(* A call that loops (insert_block evicting, remove_file_blocks removing)  *)
(* is in progress while `call' says so; every other call is one step.      *)
(***************************************************************************)
EXTENDS ResidentBytes

CONSTANTS
    Block,      \* the blocks of a trace, by the value of CacheBlock::hash()
    File,       \* file ids
    FileOf,     \* CacheBlock::file_id_ of each block
    Size,       \* the sizes a block may be presented with (uncomp_bytes)
    MaxSize     \* Cache::max_size_

VARIABLES resident,   \* the blocks held, with their sizes
          call        \* the call in progress

vars == <<resident, call>>

Idle == [op |-> "none"]
Exited == [op |-> "exit"]
Inserting(b, s) == [op |-> "insert", block |-> b, size |-> s]
Purging(f) == [op |-> "remove_file", file |-> f]

Init ==
    /\ resident = <<>>
    /\ call = Idle

Fits(s) == TotalSize(resident) + s <= MaxSize

\* insert_block of a block bigger than the whole cache ends the program.
InsertTooBig(b, s) ==
    /\ call = Idle
    /\ s > MaxSize
    /\ call' = Exited
    /\ UNCHANGED resident

\* insert_block of a resident block is an access to it, and changes nothing here.
InsertNew(b, s) ==
    /\ call = Idle
    /\ s <= MaxSize
    /\ b \notin DOMAIN resident
    /\ call' = Inserting(b, s)
    /\ UNCHANGED resident

\* One eviction: allowed only while the block being inserted does not fit.
Evict(b) ==
    /\ call.op = "insert"
    /\ ~ Fits(call.size)
    /\ b \in DOMAIN resident
    /\ resident' = Drop(resident, b)
    /\ UNCHANGED call

Admit ==
    /\ call.op = "insert"
    /\ Fits(call.size)
    /\ resident' = Add(resident, call.block, call.size)
    /\ call' = Idle

\* remove_block of a block that is resident (also evict_block called directly).
RemoveBlock(b) ==
    /\ call = Idle
    /\ b \in DOMAIN resident
    /\ resident' = Drop(resident, b)
    /\ UNCHANGED call

RemoveFileBlocks(f) ==
    /\ call = Idle
    /\ call' = Purging(f)
    /\ UNCHANGED resident

PurgeOne(b) ==
    /\ call.op = "remove_file"
    /\ b \in DOMAIN resident
    /\ FileOf[b] = call.file
    /\ resident' = Drop(resident, b)
    /\ UNCHANGED call

\* remove_file_blocks returns only when nothing of the file is left.
PurgeReturn ==
    /\ call.op = "remove_file"
    /\ \A b \in DOMAIN resident : FileOf[b] # call.file
    /\ call' = Idle
    /\ UNCHANGED resident

Next ==
    \/ \E b \in Block, s \in Size : InsertTooBig(b, s) \/ InsertNew(b, s)
    \/ \E b \in Block : Evict(b) \/ RemoveBlock(b) \/ PurgeOne(b)
    \/ \E f \in File : RemoveFileBlocks(f)
    \/ Admit
    \/ PurgeReturn

Spec == Init /\ [][Next]_vars
=============================================================================
