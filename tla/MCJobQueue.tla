----------------------------- MODULE MCJobQueue -----------------------------
(* Small instances of JobQueue for TLC. *)
EXTENDS JobQueue, TLC

CONSTANTS t1, t2, a1, a2, cA, cB, p1, p2

Req(t, a, c, p, ttl) ==
  [tenant |-> t, agent |-> a, capability |-> c, priority |-> p, ttl |-> ttl]

\* a1 and a2 work for t1, a2 has both capabilities.
OffersBoth == (a1 :> {cA}) @@ (a2 :> {cA, cB})
HomeBoth   == (a1 :> t1) @@ (a2 :> t1)

\* One agent per tenant.
OffersEach == (a1 :> {cA}) @@ (a2 :> {cA})
HomeEach   == (a1 :> t1) @@ (a2 :> t2)

\* An agent of t1 alone; t2's jobs are claimed by other API clients.
OffersOne == a1 :> {cA}
HomeOne   == a1 :> t1
ForEach   == {Req(t1, None, cA, 0, 0), Req(t2, a1, cA, 0, 0)}

\* A job by capability for each tenant.
ByCapability == {Req(t1, None, cA, 0, 0), Req(t2, None, cA, 0, 0)}

\* Assigned and unassigned work with two priorities, some of it with a TTL.
Mixed == {Req(t1, a1, cA, 0, 0), Req(t1, None, cA, 1, 1), Req(t1, None, cB, 0, 0),
          Req(t1, a1, cB, 0, 1)}

ScheduleT1 == {Req(t1, None, cA, 0, 0)}
NoRequests == {}
=============================================================================
