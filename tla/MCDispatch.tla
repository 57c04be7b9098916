----------------------------- MODULE MCDispatch -----------------------------
(* Small instance of Dispatch for TLC. *)
EXTENDS Dispatch, TLC

CONSTANTS a1, a2, n1, n2, c1

\* Total weights 1, 2 and 3.
Weights == (a1 :> {0, 1, 2}) @@ (a2 :> {1})
=============================================================================
