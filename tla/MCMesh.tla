------------------------------- MODULE MCMesh -------------------------------
(* Mutual peers a <-> b <-> c of which b gossips.  All but c are bound to the default  *)
(* address, and a and b have a key of their own, each under the other's peer address.  *)
EXTENDS Mesh, TLC

CONSTANTS a, b, c, a1, b1, c1, any, s1, k1, k2, ab

MCBind == [n \in Node |-> IF n = c THEN c1 ELSE any]
MCSource == a :> a1 @@ b :> b1 @@ c :> c1
MCHome == [s \in Service |-> b]
MCPeers == a :> (b1 :> b) @@ b :> (a1 :> a @@ c1 :> c) @@ c :> (b1 :> b)
MCPeerKeys == a :> (b1 :> ab) @@ b :> (a1 :> ab) @@ c :> <<>>
MCHops == a :> 2 @@ b :> 1 @@ c :> 2

\* The old key is replaced by the new one; no two nodes would understand each other at the
\* first and at the last of the lists.
MCRollout == <<<<k1, k2>>, <<k2, k1>>, <<k2>>>>

\* A datagram that does not parse, and one without signature.
MCStray ==
  {[to |-> b, from |-> Nobody, addr |-> Nobody, routes |-> <<>>, ok |-> ok, own |-> TRUE,
    sig |-> NoKey, sent |-> 0] : ok \in BOOLEAN}

\* Four scenarios: gossip about what falls silent, a service that comes and goes while its
\* home restarts, a roll-out of keys, the counters.
MCBudgets ==
  {[tick |-> 7, send |-> 2, copy |-> 0, stray |-> 0, edit |-> 0, stop |-> 0, sample |-> 0],
   [tick |-> 3, send |-> 1, copy |-> 0, stray |-> 0, edit |-> 2, stop |-> 1, sample |-> 0],
   [tick |-> 2, send |-> 1, copy |-> 0, stray |-> 0, edit |-> 0, stop |-> 5, sample |-> 0],
   [tick |-> 0, send |-> 1, copy |-> 1, stray |-> 2, edit |-> 0, stop |-> 0, sample |-> 3]}

MCThreshold == <<1, 2>>
=============================================================================
