------------------------------ MODULE RankedLists ------------------------------
(***************************************************************************)
(* sort_by(), filter() and take() on lists, as the search command, the     *)
(* live engines, the discovery of seeds and the store's queries use them.  *)
(***************************************************************************)
EXTENDS Integers, Sequences, FiniteSets

\* ORDER BY, and sort_by(): each element after as many as precede it.
InOrder(set, Precedes(_, _)) ==
    [n \in 1..Cardinality(set) |->
        CHOOSE x \in set : Cardinality({y \in set : Precedes(y, x)}) = n - 1]

\* filter(): what is at these places of a list, in its order.
At(places, seq) ==
    LET order == InOrder(places, <) IN [n \in 1..Len(order) |-> seq[order[n]]]

LeastOf(n, m) == IF n < m THEN n ELSE m

\* take().
First(n, seq) == SubSeq(seq, 1, LeastOf(n, Len(seq)))
=============================================================================
