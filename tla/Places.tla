-------------------------------- MODULE Places --------------------------------
(***************************************************************************)
(* Choosing from a list by places: what the loops and comprehensions of the *)
(* program that pass over some elements leave, in their order.              *)
(***************************************************************************)
EXTENDS Naturals, Sequences, FiniteSets

\* The n-th number of a set.
Nth(set, n) == CHOOSE i \in set : Cardinality({j \in set : j <= i}) = n

\* What a list has at these places, in its order.
Select(list, places) == [n \in 1 .. Cardinality(places) |-> list[Nth(places, n)]]
=============================================================================
