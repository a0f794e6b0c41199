------------------------------- MODULE ListOps -------------------------------
(***************************************************************************)
(* std::list and std::vector as this code uses them, as sequences.         *)
(***************************************************************************)
EXTENDS Integers, Sequences, FiniteSets

\* erase of the element at place i: everything behind it moves up.
Erase(s, i) == SubSeq(s, 1, i - 1) \o SubSeq(s, i + 1, Len(s))

\* std::swap of two elements.
Swap(s, i, j) == [s EXCEPT ![i] = s[j], ![j] = s[i]]

\* The elements of s at some of its places, in their order: what a loop keeps.
Kept(s, places) ==
    [k \in 1 .. Cardinality(places) |->
        s[CHOOSE i \in places : Cardinality(places \cap (1 .. i)) = k]]

\* remove_if: what is left of s without the elements in T.
Without(s, T) == Kept(s, {i \in 1 .. Len(s) : s[i] \notin T})

Elements(s) == {s[i] : i \in 1 .. Len(s)}
NoRepeat(s) == \A i, j \in 1 .. Len(s) : s[i] = s[j] => i = j
=============================================================================
