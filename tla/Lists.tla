-------------------------------- MODULE Lists --------------------------------
(* The items of a list at some of its positions, in their order: a list       *)
(* comprehension or a loop that keeps some of the items.                       *)
EXTENDS Integers, FiniteSets, Sequences

ItemsAt(list, at) ==
    [k \in 1..Cardinality(at) |-> list[CHOOSE i \in at : Cardinality({j \in at : j <= i}) = k]]

(* A set in an order that is total on it.                                      *)
InOrder(S, before(_, _)) ==
    [i \in 1..Cardinality(S) |-> CHOOSE x \in S : Cardinality({y \in S : before(y, x)}) = i - 1]
=============================================================================
