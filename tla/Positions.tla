----------------------------- MODULE Positions -----------------------------
(***************************************************************************)
(* What a loop over a list collects of it.                                 *)
(***************************************************************************)
EXTENDS Naturals, FiniteSets

\* The numbers of a finite set, in ascending order.
Ascending[S \in SUBSET Nat] ==
  [n \in 1..Cardinality(S) |-> CHOOSE i \in S : Cardinality({j \in S : j < i}) = n - 1]
=============================================================================
