------------------------------- MODULE HeapOps -------------------------------
(***************************************************************************)
(* The percolate helpers of heap_utils.h, and with them the insertion into *)
(* a heap of blocks and the removal from it.  A heap is a record h of the  *)
(* entries, h.heap (cache_heap_), and the place of each block, h.map       *)
(* (cache_map_).  h.heap[1] is the root, as in the code, where element 0   *)
(* of the vector is a dummy.  `key' gives the field a block is ordered by: *)
(* smallest at the root for the min helpers; the max helpers are the same  *)
(* with every key negated, ties included.  The _absolute variants differ   *)
(* only in reading the key from access_map.                                *)
(***************************************************************************)
EXTENDS ResidentBytes, ListOps

Parent(i) == i \div 2
Left(i) == 2 * i
Right(i) == 2 * i + 1

\* The child to compare with: the smaller one, the right one in a tie.
SmallerChild(heap, key, i) ==
    IF Right(i) <= Len(heap) /\ ~ (key[heap[Left(i)]] < key[heap[Right(i)]])
    THEN Right(i)
    ELSE Left(i)

\* Whether the loop of min_percolate_down, or of min_percolate_up, goes on at i.
Sinks(heap, key, i) ==
    /\ Left(i) <= Len(heap)
    /\ key[heap[SmallerChild(heap, key, i)]] < key[heap[i]]

Rises(heap, key, i) ==
    /\ i > 1
    /\ key[heap[i]] < key[heap[Parent(i)]]

\* cache_map[h]: operator[] of a missing key yields (and inserts) 0.
At(map, h) == IF h \in DOMAIN map THEN map[h] ELSE 0

\* Fault: the entries of the heap are swapped, those of the map are not.
SwapMappedNot(map, a, b) == [x \in DOMAIN map \cup {a, b} |-> At(map, x)]

\* std::swap(cache_map[a], cache_map[b])
SwapMapped(map, a, b) ==
    [x \in DOMAIN map \cup {a, b} |->
        IF x = a THEN At(map, b) ELSE IF x = b THEN At(map, a) ELSE At(map, x)]

\* Swapping two entries, as every iteration of a percolate helper does.
SwapEntries(h, i, j) ==
    [heap |-> Swap(h.heap, i, j), map |-> SwapMapped(h.map, h.heap[i], h.heap[j])]

\* The state p of a percolate loop is a heap and `index'; an iteration swaps.
LoopAt(h, i) == [heap |-> h.heap, map |-> h.map, index |-> i]

SinkOnce(p, key) ==
    IF Sinks(p.heap, key, p.index)
    THEN LET child == SmallerChild(p.heap, key, p.index)
         IN  LoopAt(SwapEntries(p, p.index, child), child)
    ELSE p

RiseOnce(p, key) ==
    IF Rises(p.heap, key, p.index)
    THEN LoopAt(SwapEntries(p, p.index, Parent(p.index)), Parent(p.index))
    ELSE p

\* The loops, which end within as many iterations as the heap has entries.
PercolateDown(h, key, i) ==
    LET after[n \in 0 .. Len(h.heap)] ==
            IF n = 0 THEN LoopAt(h, i) ELSE SinkOnce(after[n - 1], key)
    IN  after[Len(h.heap)]

PercolateUp(h, key, i) ==
    LET after[n \in 0 .. Len(h.heap)] ==
            IF n = 0 THEN LoopAt(h, i) ELSE RiseOnce(after[n - 1], key)
    IN  after[Len(h.heap)]

\* cache_map_[b] = <the index a percolate call returned>
Settle(p, b) == [heap |-> p.heap, map |-> Add(p.map, b, p.index)]

\* insert_block: push_back, map entry, percolate up.
PushBlock(h, key, b) ==
    LET n == Len(h.heap) + 1
        pushed == [heap |-> Append(h.heap, b), map |-> Add(h.map, b, n)]
    IN  Settle(PercolateUp(pushed, key, n), b)

\* remove_block of a resident block: swap with the last entry, pop, erase.
Popped(h, b) ==
    LET last == Len(h.heap)
        swapped == SwapEntries(h, h.map[b], last)
    IN  [heap |-> SubSeq(swapped.heap, 1, last - 1), map |-> Drop(swapped.map, b)]

\* Faults for DeleteBlock: the map keeps the block; its successor never rises.
DeleteBlockKeepingEntry(h, key, b) ==
    LET pos == h.map[b]
        last == Len(h.heap)
        moved == h.heap[last]
        swapped == SwapEntries(h, pos, last)
        popped == [heap |-> SubSeq(swapped.heap, 1, last - 1), map |-> swapped.map]
    IN  IF moved = b THEN popped
        ELSE Settle(PercolateDown(popped, key, pos), moved)

DeleteBlockNotRising(h, key, b) ==
    LET moved == h.heap[Len(h.heap)]
    IN  IF moved = b THEN Popped(h, b)
        ELSE Settle(PercolateDown(Popped(h, b), key, h.map[b]), moved)

\* Then the entry that took its place sinks, or rises if it did not sink.
DeleteBlock(h, key, b) ==
    LET pos == h.map[b]
        moved == h.heap[Len(h.heap)]
        sunk == PercolateDown(Popped(h, b), key, pos)
    IN  IF moved = b THEN Popped(h, b)
        ELSE IF sunk.index # pos THEN Settle(sunk, moved)
        ELSE Settle(PercolateUp(Settle(sunk, moved), key, pos), moved)

\* The map agrees with the heap when it gives every block its place.
MapAgrees(heap, map) ==
    /\ DOMAIN map = Elements(heap)
    /\ \A i \in 1 .. Len(heap) : map[heap[i]] = i
=============================================================================
