----------------------------- MODULE RatioTree -----------------------------
(***************************************************************************)
(* RatioTree of simulator_utils.h: an order-statistics tree of the keys    *)
(* <empty^2 / total, file>, the quotient kept here as a fraction.  A key   *)
(* is found by its value: keys that compare equal are one.                 *)
(***************************************************************************)
EXTENDS AccessList

\* get_adjusted_ratio of f in the lists tot and emp, with the file.
RatioKey(tot, emp, f) ==
    [num |-> CountOf(emp, f) * CountOf(emp, f), den |-> CountOf(tot, f), file |-> f]

LessOrEqual(k, m) == k.num * m.den <= m.num * k.den
SameKey(k, m) == k.file = m.file /\ k.num * m.den = m.num * k.den

EraseKey(tree, key) == {k \in tree : ~ SameKey(k, key)}
InsertKey(tree, key) ==
    IF \E k \in tree : SameKey(k, key) THEN tree ELSE tree \cup {key}

\* order_of_key({ratio of key, UINT64_MAX}): the keys of no greater ratio.
OrderOfRatio(tree, key) == Cardinality({k \in tree : LessOrEqual(k, key)})
=============================================================================
