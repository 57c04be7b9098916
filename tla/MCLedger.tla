------------------------------ MODULE MCLedger ------------------------------
(* Small instances of Ledger for TLC. *)
EXTENDS Ledger, TLC

CONSTANTS t1, t2, h1, h2

\* The first tenant imports; the second is deleted, and damaged on disk.
MCKinds == (t1 :> {"add", "import"}) @@ (t2 :> {"add", "delete", "read"})
=============================================================================
