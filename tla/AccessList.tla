----------------------------- MODULE AccessList -----------------------------
(***************************************************************************)
(* The access lists of the modular simulators: a vector of <file_id,       *)
(* count> kept in descending order of count, with a map from a file to its *)
(* place.  l.list and l.index are empty_access_list and empty_access_index *)
(* (or total_...); places count from 1, where the code counts from 0.      *)
(***************************************************************************)
EXTENDS ResidentBytes, ListOps

NoAccesses == [list |-> <<>>, index |-> <<>>]

\* access_index[f]: operator[] yields the first place for a file it lacks, and
\* makes an entry of the index that says so.
IndexOf(l, f) == IF f \in DOMAIN l.index THEN l.index[f] ELSE 1
LookedUp(l, f) == [list |-> l.list, index |-> Add(l.index, f, IndexOf(l, f))]
CountOf(l, f) == l.list[IndexOf(l, f)].count
Files(l) == {l.list[i].file : i \in 1 .. Len(l.list)}

\* A new file goes last: no count is below 0.
PushBack(l, f) ==
    [list |-> Append(l.list, [file |-> f, count |-> 0]),
     index |-> Add(l.index, f, Len(l.list) + 1)]

\* Fault: the entries change places, the index does not follow.
ExchangeUnindexed(list, index, i, n) == [list |-> Swap(list, i, n), index |-> index]

\* Puts the entry at place i at place n, and the one there at i.
Exchange(list, index, i, n) ==
    IF n = i THEN [list |-> list, index |-> index]
    ELSE LET moved == Swap(list, i, n) IN
         [list |-> moved,
          index |-> Add(Add(index, moved[i].file, i), moved[n].file, n)]

\* The first of the entries before place i, i included, that all count less
\* than the entry at i; the last of those behind it that all count more.
FirstBelow(list, i) ==
    CHOOSE n \in 1 .. i :
        /\ \A k \in n .. i - 1 : list[k].count < list[i].count
        /\ n > 1 => list[n - 1].count >= list[i].count

LastAbove(list, i) ==
    CHOOSE n \in i .. Len(list) :
        /\ \A k \in i + 1 .. n : list[k].count > list[i].count
        /\ n < Len(list) => list[n + 1].count <= list[i].count

\* One access more: the entry changes places with the first that now counts
\* less.  One access fewer: with the last that now counts more.
Increment(l, f) ==
    LET i == IndexOf(l, f)
        list == [l.list EXCEPT ![i].count = @ + 1]
    IN  Exchange(list, LookedUp(l, f).index, i, FirstBelow(list, i))

\* Fault: the entry stays in its place.
DecrementInPlace(l, f) ==
    [list |-> [l.list EXCEPT ![IndexOf(l, f)].count = @ - 1], index |-> l.index]

Decrement(l, f) ==
    LET i == IndexOf(l, f)
        list == [l.list EXCEPT ![i].count = @ - 1]
    IN  Exchange(list, LookedUp(l, f).index, i, LastAbove(list, i))

\* Fault: the entries behind the erased one are not indexed again.
RemoveUnshifted(l, f) == [list |-> Erase(l.list, IndexOf(l, f)), index |-> Drop(l.index, f)]

\* The entry at f's place goes; those behind it are indexed again.
Remove(l, f) ==
    LET i == IndexOf(l, f)
        list == Erase(l.list, i)
        Shifted(g) == {k \in i .. Len(list) : list[k].file = g}
    IN  [list |-> list,
         index |-> [g \in DOMAIN l.index \ {f} |->
                       IF Shifted(g) = {} THEN l.index[g]
                       ELSE CHOOSE k \in Shifted(g) : TRUE]]

\* What the lists are for: places in descending order of count, each file listed
\* once, where the index says, and the index of exactly the files listed.
Descending(l) ==
    \A i, j \in 1 .. Len(l.list) : i <= j => l.list[i].count >= l.list[j].count

WellPlaced(l) ==
    /\ Files(l) \subseteq DOMAIN l.index
    /\ \A f \in Files(l) :
          l.index[f] \in 1 .. Len(l.list) /\ l.list[l.index[f]].file = f
    /\ Len(l.list) = Cardinality(Files(l))

IndexAgrees(l) == DOMAIN l.index = Files(l) /\ WellPlaced(l)
=============================================================================
