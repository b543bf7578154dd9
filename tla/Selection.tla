------------------------------ MODULE Selection ------------------------------
(***************************************************************************)
(* The part of a sequence that is at given positions, in its order: what   *)
(* SelectSeq does, in a form that can be proved about.                     *)
(***************************************************************************)
EXTENDS Naturals, FiniteSets

\* How many positions come before one, and the one that is the k-th.
Preceding(I, i) == Cardinality({j \in I : j < i})
Nth(I, k)    == CHOOSE i \in I : Preceding(I, i) = k - 1

Chosen(s, I) == [k \in 1 .. Cardinality(I) |-> s[Nth(I, k)]]
=============================================================================
