-------------------------------- MODULE Ranks --------------------------------
(***************************************************************************)
(* The numbers of a finite set in their order, for code that takes the     *)
(* oldest few of a list.                                                   *)
(***************************************************************************)
EXTENDS Naturals, FiniteSets

\* The place of i in S, counted from the least, and the number at a place.
Rank(S, i) == Cardinality({j \in S : j <= i})

Nth(S, m) == CHOOSE i \in S : Rank(S, i) = m
=============================================================================
