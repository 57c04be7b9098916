------------------------------ MODULE Positions ------------------------------
(***************************************************************************)
(* Filtering a list, in the form in which the loops of the code do it:     *)
(* append the elements that pass a test to a new list.                     *)
(*                                                                         *)
(* SelectSeq says the same recursively.  Here position k of the result     *)
(* comes from the position of T that has k - 1 others of T before it,      *)
(* which can be reasoned about without an induction.                       *)
(***************************************************************************)
EXTENDS Integers, Sequences, FiniteSets

\* The entries of s at the positions T, in their order.  (With SubSeq TLC computes
\* the list once, and not an entry of it each time it is asked for.)
At(s, T) ==
  LET n == Cardinality(T)
      entry(k) == s[CHOOSE i \in T : Cardinality({j \in T : j < i}) = k - 1]
  IN  SubSeq([k \in 1..n |-> entry(k)], 1, n)
=============================================================================
