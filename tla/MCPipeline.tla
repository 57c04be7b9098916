----------------------------- MODULE MCPipeline -----------------------------
(* Small instances of Pipeline for TLC. *)
EXTENDS Pipeline, TLC

CONSTANTS t1, t2, c1, c2

\* One stage instead of two, a new name, and a new name with bad stages.
SomeBodies == {[name |-> Keep, stages |-> 1], [name |-> "second", stages |-> Keep],
               [name |-> "second", stages |-> Bad]}

=============================================================================
