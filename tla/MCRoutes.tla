------------------------------ MODULE MCRoutes ------------------------------
(* Small instance of Routes for TLC. *)
EXTENDS Routes, TLC

CONSTANTS d1, d2, g1, s1, h1, h2

Symmetric == Permutations(Handler)

R(d, lat, thr, sat, region, site) ==
  [dst |-> d, lat |-> lat, thr |-> thr, satellite |-> sat, region |-> region, site |-> site]

\* A site route that expires; two routes to d2 of one region; an untagged
\* satellite route to d1.
Site   == [r |-> R(d1, 2, 1, FALSE, g1, s1), ttl |-> 1]
Region == [r |-> R(d2, 1, 0, FALSE, g1, NoTag), ttl |-> 0]
Sat    == [r |-> R(d1, 1, 1, TRUE, NoTag, NoTag), ttl |-> 0]

MCOffers    == {<<Site>>, <<Region, Sat>>}
MCDeletions == {<<d2, d1>>}
MCPatches   == {[dst |-> d1, lat |-> 0, thr |-> Unset, ttl |-> Unset],
                [dst |-> d1, lat |-> Unset, thr |-> 2, ttl |-> 1]}

Defaults == [region |-> NoTag, site |-> NoTag, maxScope |-> "global", alternatives |-> 1,
             maxLatency |-> 0, minThroughput |-> 0, satellite |-> Unset, penalty |-> 3]
Nothing  == [k \in DOMAIN Defaults |-> Unset]

\* What a client asks for: the same defaults and one or two fields more.
MCRequests ==
  {[defaults |-> Defaults, item |-> i] : i \in
     {Nothing, [Nothing EXCEPT !.region = g1],
      [Nothing EXCEPT !.maxLatency = 1, !.alternatives = 0],
      [Nothing EXCEPT !.satellite = FALSE, !.site = s1],
      [Nothing EXCEPT !.region = g1, !.site = s1, !.maxScope = "region"],
      [Nothing EXCEPT !.region = g1, !.maxScope = "site"]}}
=============================================================================
