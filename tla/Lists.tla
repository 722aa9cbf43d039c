--------------------------------- MODULE Lists ---------------------------------
(***************************************************************************)
(* Loops over arrays, as functions: picking elements in their order, and   *)
(* adding up lengths.                                                      *)
(***************************************************************************)
EXTENDS Naturals, FiniteSets

\* The numbers of a finite set in ascending order.
InOrder(S) ==
  [n \in 1 .. Cardinality(S) |-> CHOOSE i \in S : Cardinality({j \in S : j <= i}) = n]

\* The elements of a sequence at some of its positions.
Picked(seq, S) == LET order == InOrder(S) IN [n \in DOMAIN order |-> seq[order[n]]]

\* The sum of the first k of some lengths.
Total(lens, k) ==
  LET Sum[n \in 0 .. k] == IF n = 0 THEN 0 ELSE Sum[n - 1] + lens[n]
  IN  Sum[k]
=============================================================================
