----------------------------- MODULE MCStorage ------------------------------
(* Small instances of Storage for TLC. *)
EXTENDS Storage, TLC

CONSTANTS w1, w2

None == [k \in Kind |-> 0]
Dir(d, b, r, budget) ==
  [db |-> d, legacy |-> [blocks |-> b, routes |-> r], budget |-> budget]

MCScenarios ==
  \* a directory of an older version, of either kind, and crashes and failures of starts;
  {Dir(Missing, b, r, [None EXCEPT !["start"] = 2, !["crash"] = 2, !["fail"] = 1]) :
     b \in Body, r \in {"none", "good", "corrupt"}}
  \cup {Dir({"old"}, "none", "none", [None EXCEPT !["start"] = 2, !["crash"] = 2, !["fail"] = 2]),
  \* so many starts that backups are given up;
        Dir({"old"}, "none", "none", [None EXCEPT !["start"] = 4, !["crash"] = 3, !["twin"] = 1]),
  \* an operator at work, between two starts and during a start.
        Dir({"old"}, "none", "none", [None EXCEPT !["start"] = 2, !["crash"] = 1, !["ctl"] = 3]),
        Dir(Missing, "good", "none", [None EXCEPT !["start"] = 2, !["crash"] = 2, !["ctl"] = 2]),
        Dir({"old"}, "none", "none", [None EXCEPT !["start"] = 1, !["ctl"] = 1, !["fail"] = 1]),
  \* JSON files beside a database, without and with data.
        Dir({"old"}, "good", "none", [None EXCEPT !["start"] = 2, !["crash"] = 1, !["fail"] = 1]),
        Dir({"genesis"}, "good", "good", [None EXCEPT !["start"] = 2, !["crash"] = 1]),
        Dir({"old"}, "none", "none",
            [None EXCEPT !["start"] = 3, !["crash"] = 2, !["ctl"] = 1, !["online"] = 1])}

Symmetric == Permutations({w1, w2})
=============================================================================
