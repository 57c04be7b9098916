-------------------------------- MODULE Mesh --------------------------------
(***************************************************************************)
(* The UDP mesh: pkg/mesh/mesh.go and the loop updateMeshMetrics of        *)
(* cmd/spectral-cloud/main.go.                                             *)
(*                                                                         *)
(* A node has four goroutines: one reads packets and handles them one at a *)
(* time, in several critical sections; one sends heartbeats; one sends     *)
(* the first routes of the table as gossip; one samples the counters.  The *)
(* API of the server works on the same table.  The network loses,          *)
(* duplicates and reorders packets.                                        *)
(*                                                                         *)
(* Addresses are strings host:port.  A node claims the one it is bound to, *)
(* 0.0.0.0:7000 unless it is told otherwise, so that several nodes may     *)
(* claim the same; its packets come from another; and its peers know it    *)
(* under a third.  Latencies are left out, so is the difference between    *)
(* HANDSHAKE and HEARTBEAT, which are handled alike.                       *)
(***************************************************************************)
EXTENDS Positions

CONSTANTS
  Node,
  Address,        \* host:port, by name or by number
  Bind, Source,   \* MESH_UDP_BIND of every node, and where its packets come from
  Service, Home,  \* destinations that the API adds, and the node where it adds them
  Peers,          \* MESH_PEERS of every node: from addresses to the nodes they lead to
  PeerKeys,       \* MESH_PEER_KEYS of every node: a function on some addresses
  Rollout,        \* the successive values of MESH_SHARED_KEYS, the same for all
  Gossips,        \* the nodes with a MESH_GOSSIP_INTERVAL; there is none by default
  Settled, Hops,  \* nodes at the end of finitely many hops of gossip, and how many
  Stray,          \* packets that no node sent
  NoTime, NoKey, Nobody,
  RouteTTL, GossipMaxRoutes,
  MaxDelay,       \* a packet is handled within this time, or it is lost
  Threshold,      \* MESH_REJECT_RATE_THRESHOLD, as a pair <<numerator, denominator>>
  Burst, MinSamples, Window,
  Budgets         \* bounds on what happens: functions on Kind to numbers

Destination == Address \cup Service
Sender == Address \cup {Nobody}
Time == Nat
Kind == {"tick", "send", "copy", "stray", "edit", "stop", "sample"}

EntriesOf(s) == {s[i] : i \in DOMAIN s}

SharedKey == UNION {EntriesOf(Rollout[i]) : i \in DOMAIN Rollout}
Key == SharedKey \cup UNION {{PeerKeys[n][p] : p \in DOMAIN PeerKeys[n]} : n \in Node}

KeysOf(n, p) == IF p \in DOMAIN PeerKeys[n] THEN {PeerKeys[n][p]} ELSE {}

\* from is the address a packet came from, addr the one in its payload; ok: it parses;
\* own: its tenant is empty or that of the node.  A signature is the key it was made with.
Packet ==
  [to : Node, from : Sender, addr : Sender,
   routes : Seq(Destination \cup {Nobody}), ok : BOOLEAN, own : BOOLEAN,
   sig : Key \cup {NoKey} \cup {p.sig : p \in Stray}, sent : Time]

ASSUME MeshAssumption ==
  /\ IsFiniteSet(Address) /\ NoTime \notin Int
  /\ Nobody \notin Destination /\ Address \cap Service = {}
  /\ Bind \in [Node -> Address] /\ Source \in [Node -> Address]
  /\ Home \in [Service -> Node]
  /\ \A n \in Node : \A p \in DOMAIN Peers[n] : Peers[n][p] \in Node
  /\ RouteTTL \in Nat \ {0} /\ MaxDelay \in Nat
  /\ {GossipMaxRoutes, Burst, MinSamples, Window} \subseteq Nat
  /\ Threshold \in Nat \X Nat
  /\ Budgets \subseteq [Kind -> Nat]

\* The shared keys may be replaced altogether, in steps: the key that signs under a list
\* verifies under the list before and the one after.  A node that has a key of its own for a
\* peer finds that key there under the address it claims or under the one it sends from;
\* where it has none, the shared keys decide, and without those the peer has none for it.
ASSUME KeyAssumption ==
  /\ Rollout \in Seq(Seq(SharedKey)) /\ Rollout # <<>>
  /\ \A i, j \in DOMAIN Rollout : Rollout[i] = <<>> <=> Rollout[j] = <<>>
  /\ \A i, j \in DOMAIN Rollout :
       j \in i - 1 .. i + 1 /\ Rollout[i] # <<>> => Head(Rollout[i]) \in EntriesOf(Rollout[j])
  /\ \A n \in Node : \A p \in DOMAIN Peers[n] :
       LET found == KeysOf(Peers[n][p], Bind[n]) \cup KeysOf(Peers[n][p], Source[n])
       IN  IF p \in DOMAIN PeerKeys[n] THEN PeerKeys[n][p] \in found
           ELSE Rollout[1] # <<>> \/ found = {}
  /\ NoKey \notin Key

\* What comes from outside may be anything that is rejected; else it is no news of the mesh.
ASSUME StrayAssumption ==
  /\ Stray \subseteq Packet
  /\ \A p \in Stray :
       /\ p.from = Nobody
       /\ \/ ~p.ok \/ ~p.own
          \/ Rollout[1] # <<>> /\ p.sig \notin Key
          \/ p.addr = Nobody /\ p.routes = <<>>

\* What a settled node is told of, nodes tell that are settled and nearer.  Without gossip
\* every node is settled; in a circle of nodes that gossip none is.
ASSUME SettledAssumption ==
  /\ Settled \subseteq Node /\ Hops \in [Settled -> Nat \ {0}]
  /\ \A n \in Gossips \cap Node : \A p \in DOMAIN Peers[n] :
       Peers[n][p] \in Settled => n \in Settled /\ Hops[n] < Hops[Peers[n][p]]

VARIABLES
  up,      \* the nodes that run
  stage,   \* which value of Rollout a node was started with
  rolled,  \* when a node was last started with the next one
  table,   \* re.Routes of the mesh tenant
  kept,   \* the table as the last API call stored it
  peers,   \* n.peers: LastSeen and Packets
  stats,   \* n.stats
  hand,    \* what the read loop is working on
  net,     \* the packets under way
  last, exported, rates, anomaly,  \* updateMeshMetrics
  now,
  \* for the properties only:
  spoke,   \* when a destination last vouched for itself
  dropped, \* the destinations that the API deleted since they were last added
  refused, \* senders of packets that were rejected for their tenant or signature
  left     \* what is left of the budget

node == <<up, stage, rolled, kept>>
sampler == <<last, exported, rates, anomaly>>
ghosts == <<spoke, dropped, refused, left>>
vars == <<node, table, peers, stats, hand, net, sampler, now, ghosts>>

Spend(k) == left[k] > 0 /\ left' = [left EXCEPT ![k] = @ - 1]

Zero == [received |-> 0, accepted |-> 0, auth |-> 0, parse |-> 0]
rejected(s) == s.auth + s.parse   \* Rejected is counted together with either
Unseen == [at |-> NoTime, packets |-> 0]
NoSample == [received |-> 0, rejected |-> 0, reason |-> "none"]

Init ==
  /\ up = Node /\ stage = [n \in Node |-> 1] /\ rolled = 0
  /\ table = [n \in Node |-> <<>>] /\ kept = [n \in Node |-> <<>>]
  /\ peers = [n \in Node |-> [p \in Sender |-> Unseen]]
  /\ stats = [n \in Node |-> Zero]
  /\ hand = [n \in Node |-> [step |-> "none"]]
  /\ net = {}
  /\ last = [n \in Node |-> Zero] /\ exported = [n \in Node |-> Zero]
  /\ rates = [n \in Node |-> <<>>] /\ anomaly = [n \in Node |-> NoSample]
  /\ now = MaxDelay + 1
  /\ spoke = [d \in Destination |-> NoTime]
  /\ dropped = [n \in Node |-> {}]
  /\ refused = {}
  /\ left \in Budgets

-----------------------------------------------------------------------------
(* Keys and signatures. *)

SharedKeys(n) == Rollout[stage[n]]

sharedKeyFor(n, p) ==
  CASE p \in DOMAIN PeerKeys[n] -> PeerKeys[n][p]
    [] p \notin DOMAIN PeerKeys[n] /\ SharedKeys(n) # <<>> -> Head(SharedKeys(n))
    [] OTHER -> NoKey

\* Mutation of keyCandidates: only the key that signs is tried.
KeyCandidatesFirst(n, from, claimed) ==
  KeysOf(n, claimed) \cup KeysOf(n, from)
    \cup IF SharedKeys(n) = <<>> THEN {} ELSE {Head(SharedKeys(n))}

keyCandidates(n, from, claimed) ==
  KeysOf(n, claimed) \cup KeysOf(n, from) \cup EntriesOf(SharedKeys(n))

verifyControlPayload(sig, keys) == keys = {} \/ (sig # NoKey /\ sig \in keys)

-----------------------------------------------------------------------------
(* The table. *)

Live(r) == r.expires = NoTime \/ now <= r.expires

\* Mutation of ListRoutes: expired routes are listed as well.
ListAll(n) == table[n]

\* pruneExpiredLocked
Prune(tab) == At(tab, {i \in DOMAIN tab : Live(tab[i])})

\* The routes that are live; the others leave the table.
ListRoutes(n) == Prune(table[n])

AddRouteWithTTL(n, d, ttl) ==
  Append(table[n], [dst |-> d, expires |-> IF ttl > 0 THEN now + ttl ELSE NoTime])

Permanent(tab, d) == \E i \in DOMAIN tab : tab[i].dst = d /\ tab[i].expires = NoTime

\* A service speaks for itself as long as its home has a route without TTL.
Vouched(tab, t) ==
  [d \in Destination |->
     IF d \in Service /\ Permanent(tab[Home[d]], d) THEN t ELSE spoke[d]]

-----------------------------------------------------------------------------
(* Sending. *)

\* The key is that of the peer as it is configured; the payload has the bind address.
Broadcast(n, routes) ==
  /\ net' = net \cup
       {[to |-> Peers[n][p], from |-> Source[n], addr |-> Bind[n], routes |-> routes,
         ok |-> TRUE, own |-> TRUE, sig |-> sharedKeyFor(n, p), sent |-> now]
          : p \in DOMAIN Peers[n]}
  /\ Spend("send")
  /\ spoke' = [spoke EXCEPT ![Bind[n]] = now]

\* heartbeatLoop and handshakeOnce.
broadcastControl(n) ==
  /\ n \in up /\ left["send"] > 0
  /\ Broadcast(n, <<>>)
  /\ UNCHANGED <<node, table, peers, stats, hand, sampler, now, dropped, refused>>

\* gossipLoop: the first routes of the table, whatever they are.
broadcastGossip(n) ==
  /\ n \in up \cap Gossips /\ left["send"] > 0
  /\ table' = [table EXCEPT ![n] = ListRoutes(n)]
  /\ LET routes == [i \in DOMAIN ListRoutes(n) |-> ListRoutes(n)[i].dst]
         most   == IF Len(routes) > GossipMaxRoutes THEN GossipMaxRoutes ELSE Len(routes)
     IN  \/ routes = <<>> /\ UNCHANGED <<net, left, spoke>>
         \/ routes # <<>> /\ Broadcast(n, SubSeq(routes, 1, most))
  /\ UNCHANGED <<node, peers, stats, hand, sampler, now, dropped, refused>>

-----------------------------------------------------------------------------
(* The network, which is external: it may hand over a packet at any time *)
(* until MaxDelay, more than once or not at all.                          *)

Send(p) ==
  /\ Spend("stray")
  /\ net' = net \cup {[p EXCEPT !.sent = now]}
  /\ UNCHANGED <<node, table, peers, stats, hand, sampler, now,
                 spoke, dropped, refused>>

-----------------------------------------------------------------------------
(* readLoop and handlePacket. *)

Count(n, field) == stats' = [stats EXCEPT ![n][field] = @ + 1]
Go(n, step) == hand' = [hand EXCEPT ![n].step = step]
Finish(n) == hand' = [hand EXCEPT ![n] = [step |-> "none"]]

Receive(n, p) ==
  /\ n \in up /\ hand[n].step = "none" /\ p.to = n
  /\ \/ net' = net \ {p} /\ UNCHANGED left
     \/ net' = net /\ Spend("copy")
  /\ Count(n, "received")
  /\ hand' = [hand EXCEPT ![n] = [step |-> "check", packet |-> p, rest |-> p.routes]]
  /\ UNCHANGED <<node, table, peers, sampler, now, spoke, dropped, refused>>

Signed(n) ==
  LET p == hand[n].packet
  IN  p.own /\ verifyControlPayload(p.sig, keyCandidates(n, p.from, p.addr))

RejectParse(n) ==
  /\ hand[n].step = "check" /\ ~hand[n].packet.ok
  /\ Count(n, "parse") /\ Finish(n)
  /\ UNCHANGED <<node, table, peers, net, sampler, now, ghosts>>

RejectAuth(n) ==
  /\ hand[n].step = "check" /\ hand[n].packet.ok /\ ~Signed(n)
  /\ Count(n, "auth") /\ Finish(n)
  /\ refused' = refused \cup {hand[n].packet.from}
  /\ UNCHANGED <<node, table, peers, net, sampler, now, spoke, dropped, left>>

RouteSender(n) ==
  /\ hand[n].step = "check" /\ hand[n].packet.ok /\ Signed(n)
  /\ table' = [table EXCEPT ![n] = AddRouteWithTTL(n, hand[n].packet.addr, RouteTTL)]
  /\ dropped' = [dropped EXCEPT ![n] = @ \ {hand[n].packet.addr}]
  /\ Go(n, "gossip")
  /\ UNCHANGED <<node, peers, stats, net, sampler, now, spoke, refused, left>>

\* Each route of the packet starts a life of its own, however old it was.
ApplyGossip(n) ==
  /\ hand[n].step = "gossip" /\ hand[n].rest # <<>>
  /\ table' = [table EXCEPT ![n] = AddRouteWithTTL(n, Head(hand[n].rest), RouteTTL)]
  /\ hand' = [hand EXCEPT ![n].rest = Tail(@)]
  /\ UNCHANGED <<node, peers, stats, net, sampler, now, ghosts>>

NotePeer(n) ==
  /\ hand[n].step = "gossip" /\ hand[n].rest = <<>>
  /\ peers' = [peers EXCEPT ![n][hand[n].packet.addr] = [at |-> now, packets |-> @.packets + 1]]
  /\ Go(n, "accept")
  /\ UNCHANGED <<node, table, stats, net, sampler, now, ghosts>>

\* Mutation of Accept: a packet without news is not counted.
AcceptNews(n) ==
  /\ hand[n].step = "accept"
  /\ IF hand[n].packet.routes = <<>> THEN stats' = stats ELSE Count(n, "accepted")
  /\ Finish(n)
  /\ UNCHANGED <<node, table, peers, net, sampler, now, ghosts>>

Accept(n) ==
  /\ hand[n].step = "accept"
  /\ Count(n, "accepted") /\ Finish(n)
  /\ UNCHANGED <<node, table, peers, net, sampler, now, ghosts>>

-----------------------------------------------------------------------------
(* updateMeshMetrics. *)

\* Rates are pairs, compared crosswise.
Below(a, b) == a[1] * b[2] < b[1] * a[2]

detectAnomaly(rate, window) ==
  LET n == Len(window)
      rising == /\ n >= 3 /\ Below(window[n-2], window[n-1]) /\ Below(window[n-1], window[n])
                /\ ~Below(window[n], <<Threshold[1], 2 * Threshold[2]>>)
  IN  IF rate[2] < MinSamples THEN "none"
      ELSE IF Burst > 0 /\ rate[1] >= Burst THEN "reject_burst"
      ELSE IF Threshold[1] > 0 /\ ~Below(rate, Threshold) THEN "reject_rate"
      ELSE IF Threshold[1] > 0 /\ rising THEN "reject_rate_trend"
      ELSE "none"

Trim(s) == IF Window > 0 /\ Len(s) > Window THEN SubSeq(s, Len(s) - Window + 1, Len(s)) ELSE s

Remembered(n) == stats[n]

\* One tick: the counters are exported; without a packet the rest stays as it was.
Sample(n) ==
  LET received == stats[n].received - last[n].received
      rate == <<rejected(stats[n]) - rejected(last[n]), received>>
      reason == detectAnomaly(rate, rates'[n])
  IN  /\ n \in up /\ Spend("sample")
      /\ exported' = [exported EXCEPT ![n] =
                         [f \in DOMAIN Zero |-> @[f] + stats[n][f] - last[n][f]]]
      /\ last' = [last EXCEPT ![n] = Remembered(n)]
      /\ \/ received = 0 /\ UNCHANGED <<rates, anomaly>>
         \/ /\ received > 0
            /\ rates' = [rates EXCEPT ![n] = Trim(Append(@, rate))]
            /\ anomaly' = [anomaly EXCEPT ![n] =
                 [received |-> received, rejected |-> rate[1],
                  reason |-> IF reason = "none" THEN @.reason ELSE reason]]
      /\ UNCHANGED <<node, table, peers, stats, hand, net, now, spoke, dropped, refused>>

-----------------------------------------------------------------------------
(* The API on the same table, restarts, and time. *)

AddService(s) ==
  LET n == Home[s]
      added == AddRouteWithTTL(n, s, 0)
  IN  /\ n \in up /\ Spend("edit")
      /\ table' = [table EXCEPT ![n] = Prune(added)]
      /\ kept' = [kept EXCEPT ![n] = table'[n]]
      /\ spoke' = Vouched(table', now)
      /\ dropped' = [dropped EXCEPT ![n] = @ \ {s}]
      /\ UNCHANGED <<up, stage, rolled, peers, stats, hand, net, sampler, now, refused>>

\* The first route to the destination.
Delete(n, d) ==
  /\ n \in up /\ Spend("edit")
  /\ \E i \in DOMAIN table[n] :
       /\ table[n][i].dst = d /\ \A j \in 1..(i-1) : table[n][j].dst # d
       /\ table' = [table EXCEPT ![n] = Prune(SubSeq(@, 1, i - 1) \o SubSeq(@, i + 1, Len(@)))]
  /\ kept' = [kept EXCEPT ![n] = table'[n]]
  /\ dropped' = [dropped EXCEPT ![n] = @ \cup {d}]
  /\ UNCHANGED <<up, stage, rolled, peers, stats, hand, net, sampler, now, spoke, refused>>

\* A node stops; what it had not stored is lost.
Stop(n) ==
  /\ n \in up /\ Spend("stop")
  /\ up' = up \ {n}
  /\ table' = [table EXCEPT ![n] = <<>>]
  /\ peers' = [peers EXCEPT ![n] = [p \in DOMAIN @ |-> Unseen]]
  /\ stats' = [stats EXCEPT ![n] = Zero]
  /\ Finish(n)
  /\ last' = [last EXCEPT ![n] = Zero] /\ exported' = [exported EXCEPT ![n] = Zero]
  /\ rates' = [rates EXCEPT ![n] = <<>>] /\ anomaly' = [anomaly EXCEPT ![n] = NoSample]
  /\ dropped' = [dropped EXCEPT ![n] = {}]
  /\ UNCHANGED <<stage, rolled, kept, net, now, spoke, refused>>

\* The roll-out goes step by step: no node is two lists ahead of another, and between two
\* steps the packets signed under the older list arrive.
MayRoll(n) ==
  /\ stage[n] + 1 \in DOMAIN Rollout
  /\ \A m \in Node : stage[n] <= stage[m]
  /\ (\A m \in Node : stage[m] = stage[n]) => now > rolled + MaxDelay

\* It starts with the keys it had, or with the next ones of the roll-out.
Start(n) ==
  /\ n \notin up
  /\ up' = up \cup {n}
  /\ \/ UNCHANGED <<stage, rolled>>
     \/ MayRoll(n) /\ stage' = [stage EXCEPT ![n] = @ + 1] /\ rolled' = now
  /\ table' = [table EXCEPT ![n] = Prune(kept[n])]
  /\ spoke' = Vouched(table', now)
  /\ UNCHANGED <<kept, peers, stats, hand, net, sampler, now, dropped, refused, left>>

\* What is not handled within MaxDelay is lost.
Tick ==
  /\ Spend("tick")
  /\ now' = now + 1
  /\ \A n \in Node : hand[n].step # "none" => now' <= hand[n].packet.sent + MaxDelay
  /\ net' = {p \in net : now' <= p.sent + MaxDelay}
  /\ spoke' = Vouched(table, now')
  /\ UNCHANGED <<node, table, peers, stats, hand, sampler, dropped, refused>>

Next ==
  \/ \E n \in Node :
       \/ broadcastControl(n) \/ broadcastGossip(n)
       \/ \E p \in net : Receive(n, p)
       \/ RejectParse(n) \/ RejectAuth(n)
       \/ RouteSender(n) \/ ApplyGossip(n) \/ NotePeer(n) \/ Accept(n)
       \/ Sample(n)
       \/ \E d \in Destination : Delete(n, d)
       \/ Stop(n) \/ Start(n)
  \/ \E s \in Service : AddService(s)
  \/ \E p \in Stray : Send(p)
  \/ Tick

Spec == Init /\ [][Next]_vars

-----------------------------------------------------------------------------
(* Properties. *)

\* Every variable has its type; the counters never overtake each other.
TypeOK ==
  /\ up \subseteq Node /\ stage \in [Node -> DOMAIN Rollout] /\ rolled \in 0 .. now
  /\ \A n \in Node : \A i \in DOMAIN table[n] :
       /\ table[n][i].dst \in Destination \cup {Nobody}
       /\ table[n][i].expires \in Time \cup {NoTime}
  /\ \A n \in Node :
       /\ \A f \in DOMAIN Zero : last[n][f] <= stats[n][f]
       /\ Window > 0 => Len(rates[n]) <= Window
       /\ hand[n].step \in {"none", "check", "gossip", "accept"}
  /\ now \in Time

Served(n, d) == \E i \in DOMAIN table[n] : table[n][i].dst = d /\ Live(table[n][i])

\* Gossip renews the life of a route at each hop (handlePacket gives the routes it is told
\* the full RouteTTL), yet a node that gossip reaches over finitely many hops, every node
\* where none gossips, forgets a silent address or service within RouteTTL + MaxDelay per hop.
ForgottenInTime ==
  \A n \in Settled, d \in Destination :
    Served(n, d) =>
      /\ spoke[d] # NoTime
      /\ now <= spoke[d] + Hops[n] * (RouteTTL + MaxDelay)

\* A peer that PeerHealth shows as seen lately has a live route, unless the API deleted it:
\* handlePacket notes the peer after it has added the route, by at most the time a packet
\* may take, and that is what the RouteTTL is short of.
SeenPeerHasRoute ==
  \A n \in Node, p \in Address :
    LET seen == peers[n][p].at
    IN  (seen # NoTime /\ now + MaxDelay <= seen + RouteTTL /\ p \notin dropped[n]) => Served(n, p)

\* While the shared keys are replaced, node by node and list by list, no packet of a node of
\* the mesh is rejected, whatever it was signed with when it was sent and however the nodes
\* have restarted since: the first key signs, all keys verify (docs/configuration.md).
OwnPacketsAccepted == refused \cap {Source[n] : n \in Node} = {}

\* The sum of f over a finite set.
Sum(f, S) == LET sum[T \in SUBSET S] ==
                   IF T = {} THEN 0
                   ELSE LET x == CHOOSE x \in T : TRUE IN f[x] + sum[T \ {x}]
             IN  sum[S]

\* The counters of Snapshot add up at any moment: a packet received is accepted, rejected or
\* in the hand of the read loop, and the accepted ones are the packets of the peers.
PacketsAccountedFor ==
  \A n \in Node :
    LET s == stats[n]
        noted == Sum([p \in Sender |-> peers[n][p].packets], Sender)
    IN  /\ s.received = s.accepted + rejected(s) + IF hand[n].step = "none" THEN 0 ELSE 1
        /\ noted = s.accepted + IF hand[n].step = "accept" THEN 1 ELSE 0

\* The exported counters are those of the last sample, whatever fell between two samples,
\* and an interval counts at most one rejection more than arrivals: the packet that was in
\* hand when it began (so a reject rate above 1 is possible).
SamplesFollow ==
  \A n \in Node :
    /\ exported[n] = last[n]
    /\ anomaly[n].rejected <= anomaly[n].received + 1

\* Routes follow the peers: a peer that is seen has one, in every mesh, and what falls silent
\* is forgotten in bounded time wherever gossip does not go round.
RoutesFollowPeers == ForgottenInTime /\ SeenPeerHasRoute

\* The counters add up in every state between the critical sections of the read
\* loop, and the samples taken of them follow.
CountersAddUp == TypeOK /\ PacketsAccountedFor /\ SamplesFollow
=============================================================================
