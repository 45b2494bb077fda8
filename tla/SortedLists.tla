------------------------------ MODULE SortedLists ------------------------------
(***************************************************************************)
(* Sorted lists without duplicates, as sets of integers: the place of an   *)
(* element, and the pieces that slicing the list n at a time yields.  And  *)
(* the list of a set's elements in some other order.                       *)
(***************************************************************************)
EXTENDS Integers, FiniteSets

\* The place of a key among others, in ascending order.
Rank(k, keys) == Cardinality({m \in keys : m <= k})

\* The i-th slice of n keys of the sorted list: keys[(i - 1) * n : i * n].
Piece(keys, n, i) ==
    {k \in keys : (i - 1) * n < Rank(k, keys) /\ Rank(k, keys) <= i * n}

\* A set of keys, cut into pieces of n in ascending order.
Pieces(keys, n) ==
    [i \in 1 .. (Cardinality(keys) + n - 1) \div n |-> Piece(keys, n, i)]

\* The elements of a finite set as a list sorted by "before", the pairs of a
\* strict total order.
InOrder(set, before) ==
    [i \in 1 .. Cardinality(set) |->
        CHOOSE x \in set : Cardinality({y \in set : <<y, x>> \in before}) = i - 1]

===============================================================================
