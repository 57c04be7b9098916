------------------------------ MODULE MCAgents ------------------------------
(* Small instances of Agents for TLC. *)
EXTENDS Agents, TLC

CONSTANTS k1, k2, t1, c1, a1, a2, ck

MCTenantOf == [k \in Agent |-> t1]
MCOffers == [k \in Agent |-> {c1}]
MCRank == [s \in Status |-> CASE s = "healthy" -> 2 [] s = "degraded" -> 1 [] OTHER -> 0]

\* A rule for all events, and for those of the registry.
MCNewRules == {[tenant |-> t1, types |-> {}], [tenant |-> t1, types |-> {"agent_registered"}]}
MCPatches == {[types |-> Keep, active |-> FALSE], [types |-> Keep, active |-> TRUE],
              [types |-> {"job.created"}, active |-> Keep]}

None == [k \in Kind |-> 0]
\* Rules that change while events come in; workers and the checker; one of each.
MCBudgets ==
  {[None EXCEPT !["event"] = 2, !["rule"] = 2, !["fail"] = 1, !["crash"] = 1],
   [None EXCEPT !["event"] = 1, !["rule"] = 3, !["crash"] = 1],
   [None EXCEPT !["start"] = 1, !["tick"] = 2, !["lost"] = 1, !["crash"] = 1, !["stop"] = 1],
   [None EXCEPT !["start"] = 1, !["tick"] = 2, !["api"] = 1, !["round"] = 1],
   [None EXCEPT !["start"] = 1, !["stop"] = 1, !["api"] = 1, !["round"] = 1],
   [None EXCEPT !["start"] = 2, !["tick"] = 1, !["api"] = 1],
   [None EXCEPT !["start"] = 1, !["rule"] = 1, !["round"] = 1]}
=============================================================================
