------------------------------ MODULE Selection ------------------------------
(***************************************************************************)
(* What a query or a filter leaves of a sequence.  SelectSeq says the same *)
(* by recursion; this form can be reasoned about.                          *)
(***************************************************************************)
EXTENDS Naturals, FiniteSets, Sequences

\* The elements of s at the positions in I, in their order.
Picked(s, I) ==
    [n \in 1..Cardinality(I) |->
       s[CHOOSE i \in I : Cardinality({j \in I : j < i}) = n - 1]]
=============================================================================
