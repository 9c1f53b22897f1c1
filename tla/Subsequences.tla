---------------------------- MODULE Subsequences ----------------------------
(***************************************************************************)
(* What the loops over slices compute: those that append the elements they *)
(* keep to a slice, as the pruning loops of internal/intelligence do, by   *)
(* the positions kept; and the sorting of positions, as the tables of      *)
(* internal/tui do it, by the order they are put in.                       *)
(***************************************************************************)
EXTENDS Integers, Sequences, FiniteSets

\* The k-th of a set of positions.
Nth(S, k) == CHOOSE i \in S : Cardinality({j \in S : j < i}) = k - 1

\* The elements of q at the positions of S, in their order.
Picked(q, S) == [k \in 1 .. Cardinality(S) |-> q[Nth(S, k)]]

\* The elements of S in the order of R, a set of pairs <<earlier, later>>.
SortedBy(S, R) ==
    [k \in 1 .. Cardinality(S) |->
        CHOOSE x \in S : Cardinality({y \in S : <<y, x>> \in R}) = k - 1]
=============================================================================
