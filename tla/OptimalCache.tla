---------------------------- MODULE OptimalCache ----------------------------
(***************************************************************************)
(* OptimalCache (optimal_cache.h, optimal_cache.cc): Belady's policy over  *)
(* a window of the future.  add_lookahead appends to the window,           *)
(* advance_lookahead consumes its front, and the victim is the root of a   *)
(* max heap on nearest_access_, the time of a block's next use in the      *)
(* window.  Times are values of lookahead_counter_.                        *)
(***************************************************************************)
EXTENDS HeapCache

CONSTANT MaxAdded       \* bound: add_lookahead calls in a behaviour

ASSUME OptimalAssumption == MaxAdded \in Nat

VARIABLES access_distance_map_, lookahead_, lookahead_counter_, nearest_access_

window == <<access_distance_map_, lookahead_, lookahead_counter_>>
optimalVars == <<contents, nearest_access_, window, call>>

Never == MaxAdded + 1     \* UINT64_MAX: later than any time

OptimalInit ==
    /\ HeapCacheInit
    /\ access_distance_map_ = <<>>
    /\ lookahead_ = <<>>
    /\ lookahead_counter_ = 0
    /\ nearest_access_ = <<>>

(***************************************************************************)
(* The heap.                                                               *)
(***************************************************************************)
\* Fault: a min heap, the next block used at its root.
MinKey(nearest) == nearest

\* A max heap: the min helpers on negated keys.
MaxKey(nearest) == [b \in DOMAIN nearest |-> - nearest[b]]

Soonest == MaxKey(nearest_access_)

\* Fault: a block whose next use moved away may sink, but never rises.
RepositionDown(b, time) ==
    LET nearest == [nearest_access_ EXCEPT ![b] = time]
        down == PercolateDown(Heap, MaxKey(nearest), cache_map_[b])
    IN  /\ HeapBecomes(Settle(down, b))
        /\ nearest_access_' = nearest
        /\ UNCHANGED <<size_, curr_size_, block_count_>>

\* nearest_access_ of a resident block changes: percolate down, then up.
Reposition(b, time) ==
    LET nearest == [nearest_access_ EXCEPT ![b] = time]
        down == PercolateDown(Heap, MaxKey(nearest), cache_map_[b])
        up == PercolateUp([heap |-> down.heap, map |-> down.map], MaxKey(nearest), down.index)
    IN  /\ HeapBecomes(Settle(up, b))
        /\ nearest_access_' = nearest
        /\ UNCHANGED <<size_, curr_size_, block_count_>>

(***************************************************************************)
(* The window.                                                             *)
(***************************************************************************)
\* The uses of a block in the window; no entry is kept for none.
UsesAhead(b) ==
    IF b \in DOMAIN access_distance_map_ THEN access_distance_map_[b] ELSE <<>>

WithUses(b, times) ==
    IF times = <<>> THEN Drop(access_distance_map_, b)
                    ELSE Add(access_distance_map_, b, times)

FirstOrNever(times) == IF times = <<>> THEN Never ELSE Head(times)

pop_lookahead_front ==
    LET front == Head(lookahead_)
        b == front.block
        times == Tail(UsesAhead(b))
        stale == UsesAhead(b) = <<>> \/ Head(UsesAhead(b)) # front.time
    IN  /\ lookahead_' = Tail(lookahead_)
        /\ UNCHANGED lookahead_counter_
        /\ access_distance_map_' = IF stale THEN access_distance_map_
                                            ELSE WithUses(b, times)
        /\ IF stale \/ ~ exists(b) THEN UNCHANGED <<contents, nearest_access_>>
                                   ELSE Reposition(b, FirstOrNever(times))

(***************************************************************************)
(* The calls.                                                              *)
(***************************************************************************)
\* Fault: a resident block is not told that it is used again.
AddLookaheadUnseen(b, s) ==
    /\ call = Idle
    /\ lookahead_counter_ < MaxAdded
    /\ LET now == lookahead_counter_ + 1
       IN  /\ lookahead_counter_' = now
           /\ access_distance_map_' = WithUses(b, Append(UsesAhead(b), now))
           /\ lookahead_' = Append(lookahead_, [block |-> b, size |-> s, time |-> now])
    /\ UNCHANGED <<contents, nearest_access_, call>>

AddLookahead(b, s) ==
    /\ call = Idle
    /\ lookahead_counter_ < MaxAdded
    /\ LET now == lookahead_counter_ + 1
           times == Append(UsesAhead(b), now)
       IN  /\ lookahead_counter_' = now
           /\ access_distance_map_' = WithUses(b, times)
           /\ lookahead_' = Append(lookahead_, [block |-> b, size |-> s, time |-> now])
           /\ IF exists(b) /\ Len(times) = 1 THEN Reposition(b, now)
                                             ELSE UNCHANGED <<contents, nearest_access_>>
    /\ UNCHANGED call

\* advance_lookahead, which passes the front of the window on, so that the
\* order check of record_access and insert_block is satisfied: a hit ...
AdvanceHit ==
    /\ call = Idle
    /\ lookahead_ # <<>>
    /\ exists(Head(lookahead_).block)
    /\ pop_lookahead_front
    /\ UNCHANGED call

\* ... or a miss, and insert_block up to its loop.
AdvanceTooBig ==
    /\ call = Idle
    /\ lookahead_ # <<>>
    /\ ~ exists(Head(lookahead_).block)
    /\ Head(lookahead_).size > MaxSize
    /\ call' = Exited
    /\ UNCHANGED <<contents, nearest_access_, window>>

AdvanceMiss ==
    /\ call = Idle
    /\ lookahead_ # <<>>
    /\ ~ exists(Head(lookahead_).block)
    /\ Head(lookahead_).size <= MaxSize
    /\ pop_lookahead_front
    /\ call' = Inserting(Head(lookahead_).block, Head(lookahead_).size)

AdmitAhead ==
    /\ call.op = "insert"
    /\ nearest_access_' =
          Add(nearest_access_, call.block, FirstOrNever(UsesAhead(call.block)))
    /\ Admit(MaxKey(nearest_access_'))
    /\ UNCHANGED window

\* A block that goes takes its nearest_access_ along; the window remembers.
Forget == nearest_access_' = Remaining(nearest_access_) /\ UNCHANGED window

EvictAhead == EvictForInsert(Soonest) /\ Forget

Remove == ((\E b \in Block : RemoveBlock(Soonest, b)) \/ EvictBlock(Soonest)) /\ Forget

Purge ==
    \/ PurgeNext(Soonest) /\ Forget
    \/ PurgeReturn /\ UNCHANGED <<nearest_access_, window>>

PurgeBegin(f) == RemoveFileBlocks(f) /\ UNCHANGED <<nearest_access_, window>>

OptimalNext ==
    \/ \E b \in Block, s \in Size : AddLookahead(b, s)
    \/ AdvanceHit \/ AdvanceTooBig \/ AdvanceMiss
    \/ EvictAhead \/ AdmitAhead
    \/ Remove
    \/ \E f \in File : PurgeBegin(f)
    \/ Purge

OptimalSpec == OptimalInit /\ [][OptimalNext]_optimalVars

(***************************************************************************)
(* Properties.                                                             *)
(***************************************************************************)
\* When b is used next, as far as the window tells.
TimesInWindow(b) ==
    {lookahead_[i].time : i \in {j \in 1 .. Len(lookahead_) : lookahead_[j].block = b}}

NextUse(b) ==
    IF TimesInWindow(b) = {} THEN Never
    ELSE CHOOSE t \in TimesInWindow(b) : \A u \in TimesInWindow(b) : t <= u

\* nearest_access_ of every resident block is its next use in the window,
\* whenever the block came, was used, or was added to the window again.
NearestIsNextUse ==
    \A b \in DOMAIN cache_map_ : nearest_access_[b] = NextUse(b)

\* The victim of insert_block is a block whose next use in the window is
\* furthest away, or that has none.
VictimUsedLast ==
    [][ call.op = "insert" =>
          \A v \in DOMAIN cache_map_ \ DOMAIN cache_map_' :
              \A b \in DOMAIN cache_map_ : NextUse(b) <= NextUse(v) ]_optimalVars
=============================================================================
