---------------------------- MODULE Traffic_proofs ----------------------------
(***************************************************************************)
(* Proofs about what directs the traffic: the mesh, and the agent groups   *)
(* with their breakers.                                                    *)
(*                                                                         *)
(* The mesh: for any nodes, peers and addresses, any roll-out of keys in   *)
(* which the key that signs under a list verifies under the next and the   *)
(* one before, any network that loses, duplicates and reorders, and any    *)
(* RouteTTL, delay, window and thresholds.  The groups: for any agents,    *)
(* groups, callers and weights.                                            *)
(***************************************************************************)
EXTENDS Mesh, Dispatch, FiniteSetTheorems, SequenceTheorems, WellFoundedInduction, TLAPS

-----------------------------------------------------------------------------
(* Numbers. *)

\* A set of numbers has a least one.
LEMMA LeastNat == ASSUME NEW T, T \subseteq Nat, T # {} PROVE \E x \in T : \A y \in T : x <= y
<1>1. PICK x \in T : \A y \in T : ~(<<y, x>> \in OpToRel(<, Nat))
  <2>1. \E x \in T : \A y \in T : ~(<<y, x>> \in OpToRel(<, Nat))
    BY NatLessThanWellFounded, WFMin
  <2>2. QED BY <2>1
<1>2. ASSUME NEW y \in T PROVE x <= y
  <2>1. ~(y < x)
    BY <1>1 DEF OpToRel
  <2>2. QED BY <2>1
<1>3. QED BY <1>2

\* If they are bounded there is a greatest one.
LEMMA Greatest ==
  ASSUME NEW n \in Nat, NEW T, T \subseteq 0 .. n, T # {}
  PROVE  \E x \in T : \A y \in T : y <= x
<1>1. DEFINE D == {n - x : x \in T}
<1>2. D \subseteq Nat /\ D # {}
  OBVIOUS
<1>3. PICK d \in D : \A e \in D : d <= e
  BY <1>2, LeastNat
<1>4. PICK x \in T : d = n - x
  OBVIOUS
<1>5. ASSUME NEW y \in T PROVE y <= x
  <2>1. n - y \in D /\ n - x <= n - y
    BY <1>3, <1>4
  <2>2. QED BY <2>1
<1>6. QED BY <1>5

\* The numbers from 1 to n.
LEMMA FirstNumbers == ASSUME NEW n \in Nat PROVE IsFiniteSet(1 .. n) /\ Cardinality(1 .. n) = n
<1>1. 1 \in Int /\ n \in Int
  OBVIOUS
<1>2. QED BY <1>1, FS_Interval

-----------------------------------------------------------------------------
(* Filtered lists: what At keeps. *)

\* The smaller elements of a finite set of numbers: fewer than the set has, and more for
\* a greater number.
LEMMA SmallerOnes ==
  ASSUME NEW T, T \subseteq Nat, IsFiniteSet(T)
  PROVE  /\ \A i \in T : Cardinality({j \in T : j < i}) \in 0 .. Cardinality(T) - 1
         /\ \A i, k \in T : i < k => Cardinality({j \in T : j < i}) < Cardinality({j \in T : j < k})
<1>1. ASSUME NEW U, U \subseteq T, NEW V, V \subseteq U, NEW x \in U, x \notin V
      PROVE  /\ Cardinality(V) \in Nat /\ Cardinality(U) \in Nat
             /\ Cardinality(V) < Cardinality(U)
  <2>1. IsFiniteSet(U) /\ Cardinality(U) \in Nat
    BY <1>1, FS_Subset, FS_CardinalityType
  <2>2. IsFiniteSet(V) /\ Cardinality(V) \in Nat /\ Cardinality(V) <= Cardinality(U)
    BY <1>1, <2>1, FS_Subset, FS_CardinalityType
  <2>3. Cardinality(V) # Cardinality(U)
    BY <1>1, <2>1, FS_Subset
  <2>4. QED BY <2>1, <2>2, <2>3
<1>2. ASSUME NEW i \in T PROVE Cardinality({j \in T : j < i}) \in 0 .. Cardinality(T) - 1
  <2>1. i \notin {j \in T : j < i}
    OBVIOUS
  <2>2. QED BY <1>1, <2>1
<1>3. ASSUME NEW i \in T, NEW k \in T, i < k
      PROVE  Cardinality({j \in T : j < i}) < Cardinality({j \in T : j < k})
  <2>1. i \notin {j \in T : j < i} /\ i \in {j \in T : j < k}
    BY <1>3
  <2>2. {j \in T : j < i} \subseteq {j \in T : j < k}
    <3>1. ASSUME NEW j \in T, j < i PROVE j < k
      <4>1. j \in Nat /\ i \in Nat /\ k \in Nat
        OBVIOUS
      <4>2. QED BY <1>3, <3>1, <4>1
    <3>2. QED BY <3>1
  <2>3. QED BY <1>1, <2>1, <2>2
<1>4. QED BY <1>2, <1>3

\* Hence every number below the size of the set is reached.
LEMMA Ranks ==
  ASSUME NEW T, T \subseteq Nat, IsFiniteSet(T), NEW k \in 1 .. Cardinality(T)
  PROVE  \E i \in T : Cardinality({j \in T : j < i}) = k - 1
<1>1. DEFINE N == Cardinality(T)
             f == [i \in T |-> Cardinality({j \in T : j < i})]
<1>2. N \in Nat
  BY FS_CardinalityType
<1>3. f \in Injection(T, 0 .. N - 1)
  <2>1. f \in [T -> 0 .. N - 1]
    BY SmallerOnes
  <2>2. ASSUME NEW i \in T, NEW j \in T, f[i] = f[j] PROVE i = j
    <3>1. ~(i < j) /\ ~(j < i)
      <4>1. f[i] \in Int /\ f[j] \in Int
        BY <2>1, <1>2
      <4>2. (i < j => f[i] < f[j]) /\ (j < i => f[j] < f[i])
        BY SmallerOnes
      <4>3. QED BY <4>1, <4>2, <2>2
    <3>2. QED BY <3>1
  <2>3. QED BY <2>1, <2>2 DEF Injection, IsInjective
<1>4. IsFiniteSet(0 .. N - 1) /\ Cardinality(0 .. N - 1) = N
  <2> HIDE DEF N
  <2>1. 0 \in Int /\ N - 1 \in Int
    BY <1>2
  <2>2. QED BY <1>2, <2>1, FS_Interval
<1>5. f \in Surjection(T, 0 .. N - 1)
  BY <1>3, <1>4, FS_Injection
<1>6. k - 1 \in 0 .. N - 1
  BY <1>2
<1>7. PICK i \in T : f[i] = k - 1
  BY <1>5, <1>6 DEF Surjection
<1>8. QED BY <1>7

\* From the first entry to the last it is the list.
LEMMA SubSeqAll ==
  ASSUME NEW n \in Nat, NEW F, F = [k \in 1 .. n |-> F[k]]
  PROVE  SubSeq(F, 1, n) = F
<1>1. 1 + n - 1 = n /\ \A k \in 1 .. n : k + 1 - 1 = k
  OBVIOUS
<1>2. SubSeq(F, 1, n) = [k \in 1 .. n |-> F[k]]
  BY <1>1 DEF SubSeq
<1>3. QED BY <1>2

\* At keeps exactly the entries at the given positions.
LEMMA AtFacts ==
  ASSUME NEW S, NEW s \in Seq(S), NEW T, T \subseteq DOMAIN s
  PROVE  /\ At(s, T) \in Seq(S)
         /\ \A k \in DOMAIN At(s, T) : \E i \in T : At(s, T)[k] = s[i]
         /\ \A i \in T : \E k \in DOMAIN At(s, T) : At(s, T)[k] = s[i]
<1>1. DOMAIN s = 1 .. Len(s) /\ Len(s) \in Nat
  OBVIOUS
<1>2. IsFiniteSet(T) /\ T \subseteq Nat
  <2>1. IsFiniteSet(1 .. Len(s))
    BY <1>1, FS_Interval
  <2>2. QED BY <1>1, <2>1, FS_Subset
<1>3. DEFINE N == Cardinality(T)
             below(i) == Cardinality({j \in T : j < i})
             pos(k) == CHOOSE i \in T : below(i) = k - 1
<1>4. N \in Nat
  BY <1>2, FS_CardinalityType
<1>5. ASSUME NEW k \in 1 .. N PROVE pos(k) \in T /\ below(pos(k)) = k - 1
  <2>1. \E i \in T : below(i) = k - 1
    BY <1>2, Ranks
  <2>2. QED BY <2>1
<1>6. At(s, T) = [k \in 1 .. N |-> s[pos(k)]]
  <2>1. PICK F : F = [k \in 1 .. N |-> s[pos(k)]]
    OBVIOUS
  <2>2. At(s, T) = SubSeq(F, 1, N)
    BY <2>1 DEF At
  <2>3. F = [k \in 1 .. N |-> F[k]] /\ N \in Nat
    BY <2>1, <1>4
  <2>4. QED BY <2>1, <2>2, <2>3, SubSeqAll
<1>7. At(s, T) \in Seq(S) /\ DOMAIN At(s, T) = 1 .. N
  <2> HIDE DEF pos, N
  <2>1. ASSUME NEW k \in 1 .. N PROVE s[pos(k)] \in S
    <3>1. pos(k) \in DOMAIN s
      BY <1>5
    <3>2. QED BY <1>1, <3>1
  <2>2. QED BY <1>4, <1>6, <2>1
<1>8. ASSUME NEW i \in T PROVE \E k \in DOMAIN At(s, T) : At(s, T)[k] = s[i]
  <2>1. below(i) \in 0 .. N - 1
    BY <1>2, SmallerOnes
  <2>2. PICK k \in 1 .. N : k = below(i) + 1
    <3> HIDE DEF below, N
    <3>1. below(i) + 1 \in 1 .. N
      BY <1>4, <2>1
    <3>2. QED BY <3>1
  <2>3. pos(k) \in T /\ below(pos(k)) = below(i)
    <3>1. pos(k) \in T /\ below(pos(k)) = k - 1
      BY <1>5
    <3>2. k - 1 = below(i)
      <4> HIDE DEF below
      <4>1. QED BY <2>2, <2>1
    <3>3. QED BY <3>1, <3>2
  <2>4. pos(k) = i
    <3>1. \A x, y \in T : x < y => below(x) < below(y)
      BY <1>2, SmallerOnes
    <3>2. below(i) \in Int
      BY <2>1, <1>4
    <3> HIDE DEF below, pos
    <3>3. QED BY <1>2, <2>3, <3>1, <3>2
  <2>5. QED BY <1>6, <1>7, <2>4
<1>9. ASSUME NEW k \in DOMAIN At(s, T) PROVE \E i \in T : At(s, T)[k] = s[i]
  BY <1>5, <1>6, <1>7
<1>10. QED BY <1>7, <1>8, <1>9

\* Each entry has a place of its own in the list it comes from.
LEMMA AtPlaces ==
  ASSUME NEW S, NEW s \in Seq(S), NEW T, T \subseteq DOMAIN s, NEW r, r = At(s, T)
  PROVE  \E p : /\ \A k \in DOMAIN r : p[k] \in T /\ r[k] = s[p[k]]
                /\ \A k, l \in DOMAIN r : p[k] = p[l] => k = l
<1>1. DOMAIN s = 1 .. Len(s) /\ Len(s) \in Nat
  OBVIOUS
<1>2. IsFiniteSet(T) /\ T \subseteq Nat
  <2>1. IsFiniteSet(1 .. Len(s))
    BY <1>1, FS_Interval
  <2>2. QED BY <1>1, <2>1, FS_Subset
<1>3. DEFINE N == Cardinality(T)
             below(i) == Cardinality({j \in T : j < i})
             pos(k) == CHOOSE i \in T : below(i) = k - 1
<1>4. N \in Nat
  BY <1>2, FS_CardinalityType
<1>5. ASSUME NEW k \in 1 .. N PROVE pos(k) \in T /\ below(pos(k)) = k - 1
  <2>1. \E i \in T : below(i) = k - 1
    BY <1>2, Ranks
  <2>2. QED BY <2>1
<1>6. r = [k \in 1 .. N |-> s[pos(k)]]
  <2>1. PICK F : F = [k \in 1 .. N |-> s[pos(k)]]
    OBVIOUS
  <2>2. r = SubSeq(F, 1, N)
    BY <2>1 DEF At
  <2>3. F = [k \in 1 .. N |-> F[k]] /\ N \in Nat
    BY <2>1, <1>4
  <2>4. QED BY <2>1, <2>2, <2>3, SubSeqAll
<1>7. DEFINE p == [k \in 1 .. N |-> pos(k)]
<1>8. \A k \in DOMAIN r : p[k] \in T /\ r[k] = s[p[k]]
  BY <1>5, <1>6
<1>9. ASSUME NEW k \in DOMAIN r, NEW l \in DOMAIN r, p[k] = p[l] PROVE k = l
  <2>1. k \in 1 .. N /\ l \in 1 .. N
    BY <1>6
  <2>2. below(pos(k)) = k - 1 /\ below(pos(l)) = l - 1
    BY <1>5, <2>1
  <2>3. pos(k) = pos(l)
    BY <1>9, <2>1
  <2> HIDE DEF pos, below, N
  <2>4. k - 1 = l - 1
    BY <2>2, <2>3
  <2>5. QED BY <1>4, <2>1, <2>4
<1>10. QED BY <1>8, <1>9

-----------------------------------------------------------------------------
(* The mesh: the first invariant, in parts: types, and where packets come from. *)

Place == Destination \cup {Nobody}
Route == [dst : Place, expires : Time \cup {NoTime}]
PeerStat == [at : Time \cup {NoTime}, packets : Nat]
Hand == [step : {"none"}] \cup
        [step : {"check", "gossip", "accept"}, packet : Packet, rest : Seq(Place)]

Types ==
  /\ up \in SUBSET Node /\ stage \in [Node -> DOMAIN Rollout]
  /\ table \in [Node -> Seq(Route)] /\ kept \in [Node -> Seq(Route)]
  /\ peers \in [Node -> [Sender -> PeerStat]]
  /\ hand \in [Node -> Hand] /\ net \subseteq Packet
  /\ now \in Time /\ rolled \in Time /\ rolled <= now
  /\ spoke \in [Destination -> Time \cup {NoTime}]
  /\ dropped \in [Node -> SUBSET Place]

\* The key that node m signs with for its peer q under the i-th list of the roll-out.
KeyAt(m, q, i) ==
  IF q \in DOMAIN PeerKeys[m] THEN PeerKeys[m][q]
  ELSE IF Rollout[i] = <<>> THEN NoKey ELSE Head(Rollout[i])

SentBy(p, m, q, i) ==
  /\ p.to = Peers[m][q] /\ p.from = Source[m] /\ p.addr = Bind[m]
  /\ p.ok /\ p.own /\ p.sig = KeyAt(m, q, i)

\* A packet of a node is a whole one; one from outside is rejected, or says nothing.
Origin(p) ==
  \/ /\ p.from # Nobody
     /\ \E m \in Node : \E q \in DOMAIN Peers[m] : \E i \in DOMAIN Rollout : SentBy(p, m, q, i)
  \/ /\ p.from = Nobody
     /\ \/ ~p.ok \/ ~p.own
        \/ Rollout[1] # <<>> /\ p.sig \notin Key
        \/ p.addr = Nobody /\ p.routes = <<>>

\* What is in hand came in a packet to this node; past the check it is no outsider's news.
HandOK(n) ==
  hand[n].step # "none" =>
    /\ hand[n].packet.to = n /\ Origin(hand[n].packet) /\ n \in up
    /\ \A i \in DOMAIN hand[n].rest :
         \E j \in DOMAIN hand[n].packet.routes : hand[n].rest[i] = hand[n].packet.routes[j]
    /\ hand[n].step # "check" =>
         \/ hand[n].packet.from # Nobody
         \/ hand[n].packet.addr = Nobody /\ hand[n].packet.routes = <<>>

TypeInv ==
  /\ Types
  /\ \A p \in net : Origin(p)
  /\ \A n \in Node : HandOK(n)

-----------------------------------------------------------------------------
(* Helpers of the steps. *)

\* Pruning keeps the live routes, and no other.
LEMMA PruneFacts ==
  ASSUME NEW tab \in Seq(Route)
  PROVE  /\ Prune(tab) \in Seq(Route)
         /\ \A k \in DOMAIN Prune(tab) :
              \E i \in DOMAIN tab : Prune(tab)[k] = tab[i] /\ Live(tab[i])
         /\ \A i \in DOMAIN tab : Live(tab[i]) =>
              \E k \in DOMAIN Prune(tab) : Prune(tab)[k] = tab[i]
<1>1. DEFINE T == {i \in DOMAIN tab : Live(tab[i])}
<1>2. Prune(tab) = At(tab, T)
  BY DEF Prune
<1>3. T \subseteq DOMAIN tab
  OBVIOUS
<1>4. /\ At(tab, T) \in Seq(Route)
      /\ \A k \in DOMAIN At(tab, T) : \E i \in T : At(tab, T)[k] = tab[i]
      /\ \A i \in T : \E k \in DOMAIN At(tab, T) : At(tab, T)[k] = tab[i]
  <2> HIDE DEF T
  <2>1. QED BY <1>3, AtFacts
<1>5. QED BY <1>2, <1>4

\* A route added comes last, and expires after the TTL.
LEMMA AddFacts ==
  ASSUME Types, NEW n \in Node, NEW d \in Place, NEW ttl \in Nat
  PROVE  LET new == AddRouteWithTTL(n, d, ttl)
             r == [dst |-> d, expires |-> IF ttl > 0 THEN now + ttl ELSE NoTime]
         IN  /\ r \in Route /\ new \in Seq(Route)
             /\ DOMAIN new = DOMAIN table[n] \cup {Len(table[n]) + 1}
             /\ \A i \in DOMAIN table[n] : new[i] = table[n][i] /\ i # Len(table[n]) + 1
             /\ new[Len(table[n]) + 1] = r
<1>1. DEFINE r == [dst |-> d, expires |-> IF ttl > 0 THEN now + ttl ELSE NoTime]
<1>2. r \in Route
  BY DEF Types, Route, Time
<1>3. table[n] \in Seq(Route)
  BY DEF Types
<1>4. AddRouteWithTTL(n, d, ttl) = Append(table[n], r)
  BY DEF AddRouteWithTTL
<1> HIDE DEF r
<1>5. /\ Append(table[n], r) \in Seq(Route)
      /\ DOMAIN Append(table[n], r) = DOMAIN table[n] \cup {Len(table[n]) + 1}
      /\ \A i \in DOMAIN table[n] : Append(table[n], r)[i] = table[n][i] /\ i # Len(table[n]) + 1
      /\ Append(table[n], r)[Len(table[n]) + 1] = r
  BY <1>2, <1>3
<1>6. QED BY <1>2, <1>4, <1>5 DEF r

\* The packets that a node sends.
LEMMA BroadcastFacts ==
  ASSUME Types, NEW n \in Node, NEW rs \in Seq(Place), Broadcast(n, rs)
  PROVE  /\ \A p \in net' : p \in net \/
              /\ p \in Packet /\ Origin(p) /\ p.routes = rs /\ p.sent = now
              /\ p.addr = Bind[n] /\ stage[n] \in DOMAIN Rollout
              /\ \E q \in DOMAIN Peers[n] : p.to = Peers[n][q] /\ SentBy(p, n, q, stage[n])
         /\ spoke' = [spoke EXCEPT ![Bind[n]] = now]
<1>1. ASSUME NEW p \in DOMAIN Peers[n]
      PROVE  LET q == [to |-> Peers[n][p], from |-> Source[n], addr |-> Bind[n], routes |-> rs,
                       ok |-> TRUE, own |-> TRUE, sig |-> sharedKeyFor(n, p), sent |-> now]
             IN  q \in Packet /\ Origin(q) /\ SentBy(q, n, p, stage[n])
  <2>1. DEFINE q == [to |-> Peers[n][p], from |-> Source[n], addr |-> Bind[n], routes |-> rs,
                     ok |-> TRUE, own |-> TRUE, sig |-> sharedKeyFor(n, p), sent |-> now]
  <2>2. /\ Peers[n][p] \in Node /\ stage[n] \in DOMAIN Rollout
        /\ Source[n] \in Address /\ Bind[n] \in Address /\ Nobody \notin Address
    BY <1>1, MeshAssumption DEF MeshAssumption, Types, Destination
  <2>3. /\ Rollout[stage[n]] \in Seq(SharedKey)
        /\ Rollout[stage[n]] # <<>> => Head(Rollout[stage[n]]) \in SharedKey
    BY <2>2, KeyAssumption DEF KeyAssumption
  <2>4. sharedKeyFor(n, p) = KeyAt(n, p, stage[n])
    BY DEF sharedKeyFor, SharedKeys, KeyAt
  <2>5. sharedKeyFor(n, p) \in Key \cup {NoKey}
    <3>1. CASE p \in DOMAIN PeerKeys[n]
      BY <2>4, <3>1 DEF Key, KeyAt
    <3>2. CASE p \notin DOMAIN PeerKeys[n]
      BY <2>3, <2>4, <3>2 DEF Key, KeyAt
    <3>3. QED BY <3>1, <3>2
  <2>6. q \in Packet
    BY <2>2, <2>5 DEF Packet, Types, Place, Sender
  <2>7. SentBy(q, n, p, stage[n])
    BY <2>4 DEF SentBy
  <2>8. q.from # Nobody
    BY <2>2
  <2> HIDE DEF q
  <2>9. Origin(q)
    BY <1>1, <2>2, <2>7, <2>8 DEF Origin
  <2>10. QED BY <2>6, <2>7, <2>9 DEF q
<1>2. stage[n] \in DOMAIN Rollout
  BY DEF Types
<1>3. QED BY <1>1, <1>2 DEF Broadcast

\* What gossip says: the destinations of live routes.
LEMMA GossipFacts ==
  ASSUME Types, NEW n \in Node
  PROVE  LET routes == [i \in DOMAIN ListRoutes(n) |-> ListRoutes(n)[i].dst]
             most == IF Len(routes) > GossipMaxRoutes THEN GossipMaxRoutes ELSE Len(routes)
             said == SubSeq(routes, 1, most)
         IN  /\ said \in Seq(Place)
             /\ \A k \in DOMAIN said : \E i \in DOMAIN table[n] :
                  said[k] = table[n][i].dst /\ Live(table[n][i])
<1>1. DEFINE L == ListRoutes(n)
             routes == [i \in DOMAIN L |-> L[i].dst]
             most == IF Len(routes) > GossipMaxRoutes THEN GossipMaxRoutes ELSE Len(routes)
             said == SubSeq(routes, 1, most)
<1>2. /\ L \in Seq(Route)
      /\ \A k \in DOMAIN L : \E i \in DOMAIN table[n] : L[k] = table[n][i] /\ Live(table[n][i])
  <2>1. table[n] \in Seq(Route)
    BY DEF Types
  <2>2. QED BY <2>1, PruneFacts DEF ListRoutes
<1> HIDE DEF L
<1>3. routes \in Seq(Place) /\ DOMAIN routes = DOMAIN L /\ DOMAIN L = 1 .. Len(routes)
  <2>1. \A i \in DOMAIN L : L[i].dst \in Place
    <3>1. ASSUME NEW i \in DOMAIN L PROVE L[i].dst \in Place
      <4>1. L[i] \in Route
        BY <1>2
      <4>2. QED BY <4>1 DEF Route
    <3>2. QED BY <3>1
  <2>2. QED BY <1>2, <2>1
<1> HIDE DEF routes
<1>4. most \in Nat /\ most <= Len(routes)
  BY <1>3, MeshAssumption DEF MeshAssumption
<1> HIDE DEF most
<1>5. /\ said \in Seq(Place) /\ Len(said) = most
      /\ \A k \in 1 .. most : said[k] = routes[k]
  <2>1. \A i \in 1 .. most : routes[i] \in Place
    BY <1>3, <1>4
  <2>2. /\ said \in Seq(Place) /\ Len(said) = IF 1 <= most THEN most - 1 + 1 ELSE 0
        /\ \A k \in 1 .. most - 1 + 1 : said[k] = routes[1 + k - 1]
    BY <1>4, <2>1, SubSeqProperties
  <2>3. QED BY <1>4, <2>2
<1>6. ASSUME NEW k \in DOMAIN said
      PROVE  \E i \in DOMAIN table[n] : said[k] = table[n][i].dst /\ Live(table[n][i])
  <2>1. k \in DOMAIN L /\ said[k] = routes[k]
    BY <1>3, <1>4, <1>5
  <2>2. routes[k] = L[k].dst
    BY <2>1 DEF routes
  <2>3. QED BY <1>2, <2>1, <2>2
<1>7. QED BY <1>5, <1>6 DEF L, routes, most

\* Deleting the i-th route leaves the others.
LEMMA RemoveFacts ==
  ASSUME NEW tab \in Seq(Route), NEW i \in DOMAIN tab
  PROVE  LET rest == SubSeq(tab, 1, i - 1) \o SubSeq(tab, i + 1, Len(tab))
         IN  /\ rest \in Seq(Route)
             /\ \A k \in DOMAIN rest : \E j \in DOMAIN tab : rest[k] = tab[j]
             /\ \A j \in DOMAIN tab : j # i => \E k \in DOMAIN rest : rest[k] = tab[j]
<1>1. DEFINE n == Len(tab)
             a == SubSeq(tab, 1, i - 1)
             b == SubSeq(tab, i + 1, Len(tab))
<1>2. n \in Nat /\ DOMAIN tab = 1 .. n /\ i \in 1 .. n /\ \A j \in 1 .. n : tab[j] \in Route
  OBVIOUS
<1>3. /\ a \in Seq(Route) /\ Len(a) = i - 1
      /\ \A j \in 1 .. i - 1 : a[j] = tab[j]
  <2>1. \A j \in 1 .. i - 1 : tab[j] \in Route
    BY <1>2
  <2>2. /\ a \in Seq(Route) /\ Len(a) = IF 1 <= i - 1 THEN i - 1 - 1 + 1 ELSE 0
        /\ \A j \in 1 .. i - 1 - 1 + 1 : a[j] = tab[1 + j - 1]
    BY <1>2, <2>1, SubSeqProperties
  <2>3. QED BY <1>2, <2>2
<1>4. /\ b \in Seq(Route) /\ Len(b) = n - i
      /\ \A j \in 1 .. n - i : b[j] = tab[i + j]
  <2>1. \A j \in i + 1 .. n : tab[j] \in Route
    BY <1>2
  <2>2. /\ b \in Seq(Route) /\ Len(b) = IF i + 1 <= n THEN n - (i + 1) + 1 ELSE 0
        /\ \A j \in 1 .. n - (i + 1) + 1 : b[j] = tab[i + 1 + j - 1]
    BY <1>2, <2>1, SubSeqProperties
  <2> HIDE DEF b, n
  <2>3. Len(b) = n - i /\ n - (i + 1) + 1 = n - i
    BY <1>2, <2>2
  <2>4. ASSUME NEW j \in 1 .. n - i PROVE b[j] = tab[i + j]
    <3>1. i + 1 + j - 1 = i + j
      BY <1>2
    <3>2. QED BY <2>2, <2>3, <3>1
  <2>5. QED BY <2>2, <2>3, <2>4
<1> HIDE DEF a, b, n
<1>5. /\ a \o b \in Seq(Route) /\ DOMAIN (a \o b) = 1 .. n - 1
      /\ \A j \in 1 .. i - 1 : (a \o b)[j] = a[j]
      /\ \A j \in 1 .. n - i : (a \o b)[i - 1 + j] = b[j]
  <2>1. /\ a \o b \in Seq(Route) /\ Len(a \o b) = Len(a) + Len(b)
        /\ \A j \in 1 .. Len(a) + Len(b) :
             (a \o b)[j] = IF j <= Len(a) THEN a[j] ELSE b[j - Len(a)]
    BY <1>3, <1>4, ConcatProperties
  <2>2. Len(a) + Len(b) = n - 1
    BY <1>2, <1>3, <1>4
  <2>3. ASSUME NEW j \in 1 .. i - 1 PROVE (a \o b)[j] = a[j]
    <3>1. j \in 1 .. n - 1 /\ j <= i - 1
      BY <1>2
    <3>2. QED BY <1>3, <2>1, <2>2, <3>1
  <2>4. ASSUME NEW j \in 1 .. n - i PROVE (a \o b)[i - 1 + j] = b[j]
    <3>1. i - 1 + j \in 1 .. n - 1 /\ ~(i - 1 + j <= i - 1) /\ i - 1 + j - (i - 1) = j
      BY <1>2
    <3>2. (a \o b)[i - 1 + j] = b[i - 1 + j - Len(a)]
      <4>1. i - 1 + j \in 1 .. Len(a) + Len(b) /\ ~(i - 1 + j <= Len(a))
        BY <1>3, <2>2, <3>1
      <4>2. QED BY <2>1, <4>1
    <3>3. QED BY <1>3, <3>1, <3>2
  <2>5. DOMAIN (a \o b) = 1 .. n - 1
    BY <2>1, <2>2
  <2>6. QED BY <2>1, <2>3, <2>4, <2>5
<1>6. ASSUME NEW k \in 1 .. n - 1 PROVE \E j \in 1 .. n : (a \o b)[k] = tab[j]
  <2>1. CASE k \in 1 .. i - 1
    BY <1>2, <1>3, <1>5, <2>1
  <2>2. CASE k \notin 1 .. i - 1
    <3>1. PICK j \in 1 .. n - i : k = i - 1 + j
      <4>1. k - (i - 1) \in 1 .. n - i /\ k = i - 1 + (k - (i - 1))
        BY <1>2, <2>2
      <4>2. QED BY <4>1
    <3>2. (a \o b)[k] = tab[i + j] /\ i + j \in 1 .. n
      BY <1>2, <1>4, <1>5, <3>1
    <3>3. QED BY <3>2
  <2>3. QED BY <2>1, <2>2
<1>7. ASSUME NEW j \in 1 .. n, j # i PROVE \E k \in 1 .. n - 1 : (a \o b)[k] = tab[j]
  <2>1. CASE j < i
    <3>1. j \in 1 .. i - 1 /\ j \in 1 .. n - 1
      BY <1>2, <2>1
    <3>2. QED BY <1>3, <1>5, <3>1
  <2>2. CASE j > i
    <3>1. j - i \in 1 .. n - i /\ i - 1 + (j - i) = j - 1 /\ i + (j - i) = j /\ j - 1 \in 1 .. n - 1
      BY <1>2, <2>2
    <3>2. (a \o b)[i - 1 + (j - i)] = b[j - i] /\ b[j - i] = tab[i + (j - i)]
      BY <1>4, <1>5, <3>1
    <3>3. QED BY <3>1, <3>2
  <2>3. j < i \/ j > i
    BY <1>2, <1>7
  <2>4. QED BY <2>1, <2>2, <2>3
<1>8. QED BY <1>2, <1>5, <1>6, <1>7 DEF a, b, n

\* What a step does to a table: it takes new routes of the kinds that a node adds, or is
\* made of what was there, or of what was kept.
NewRoute(n, r) ==
  \/ /\ hand[n].step = "check" /\ hand[n].packet.ok /\ Signed(n)
     /\ r = [dst |-> hand[n].packet.addr, expires |-> now + RouteTTL]
  \/ /\ hand[n].step = "gossip" /\ hand[n].rest # <<>>
     /\ r = [dst |-> Head(hand[n].rest), expires |-> now + RouteTTL]
  \/ \E s \in Service : /\ n = Home[s] /\ AddService(s)
                        /\ r = [dst |-> s, expires |-> NoTime]

LEMMA HandTypes ==
  ASSUME Types, NEW n \in Node, hand[n].step # "none"
  PROVE  /\ hand[n].step \in {"check", "gossip", "accept"}
         /\ hand[n].packet \in Packet /\ hand[n].rest \in Seq(Place)
         /\ hand[n] = [step |-> hand[n].step, packet |-> hand[n].packet, rest |-> hand[n].rest]
<1>1. hand[n] \in Hand
  BY DEF Types
<1>2. hand[n] \in [step : {"check", "gossip", "accept"}, packet : Packet, rest : Seq(Place)]
  BY <1>1 DEF Hand
<1>3. QED BY <1>2

\* A table with one route more.
LEMMA AddedRoute ==
  ASSUME TypeInv, NEW n \in Node, NEW d \in Place, NEW ttl \in Nat,
         NewRoute(n, [dst |-> d, expires |-> IF ttl > 0 THEN now + ttl ELSE NoTime])
  PROVE  LET new == AddRouteWithTTL(n, d, ttl)
         IN  /\ new \in Seq(Route)
             /\ \A k \in DOMAIN new : \/ \E i \in DOMAIN table[n] : new[k] = table[n][i]
                                     \/ NewRoute(n, new[k])
             /\ \A i \in DOMAIN table[n] : \E k \in DOMAIN new : new[k] = table[n][i]
<1>1. DEFINE new == AddRouteWithTTL(n, d, ttl)
             r == [dst |-> d, expires |-> IF ttl > 0 THEN now + ttl ELSE NoTime]
<1>2. /\ new \in Seq(Route) /\ DOMAIN new = DOMAIN table[n] \cup {Len(table[n]) + 1}
      /\ \A i \in DOMAIN table[n] : new[i] = table[n][i]
      /\ new[Len(table[n]) + 1] = r
  <2>1. Types
    BY DEF TypeInv
  <2>2. QED BY <2>1, AddFacts
<1>3. NewRoute(n, r)
  OBVIOUS
<1> HIDE DEF new, r
<1>4. QED BY <1>2, <1>3 DEF new

LEMMA TableStep ==
  ASSUME TypeInv, [Next]_vars
  PROVE  /\ table' \in [Node -> Seq(Route)]
         /\ \A n \in Node : \A k \in DOMAIN table'[n] :
              \/ \E i \in DOMAIN table[n] : table'[n][k] = table[n][i]
              \/ NewRoute(n, table'[n][k])
              \/ Start(n) /\ \E i \in DOMAIN kept[n] : table'[n][k] = kept[n][i]
         /\ \A n \in Node : \A i \in DOMAIN table[n] :
              \/ \E k \in DOMAIN table'[n] : table'[n][k] = table[n][i]
              \/ ~Live(table[n][i]) \/ Stop(n) \/ Start(n) \/ Delete(n, table[n][i].dst)
<1> DEFINE P(m, new) ==
      /\ new \in Seq(Route)
      /\ \A k \in DOMAIN new :
           \/ \E i \in DOMAIN table[m] : new[k] = table[m][i]
           \/ NewRoute(m, new[k])
           \/ Start(m) /\ \E i \in DOMAIN kept[m] : new[k] = kept[m][i]
      /\ \A i \in DOMAIN table[m] :
           \/ \E k \in DOMAIN new : new[k] = table[m][i]
           \/ ~Live(table[m][i]) \/ Stop(m) \/ Start(m) \/ Delete(m, table[m][i].dst)
<1>1. table \in [Node -> Seq(Route)] /\ kept \in [Node -> Seq(Route)]
  BY DEF TypeInv, Types
<1>2. \A m \in Node : P(m, table[m])
  BY <1>1
<1>3. ASSUME NEW m \in Node, NEW new, P(m, new), table' = [table EXCEPT ![m] = new]
      PROVE  \A k \in Node : P(k, table'[k])
  <2>1. ASSUME NEW k \in Node PROVE P(k, table'[k])
    <3>1. table'[k] = IF k = m THEN new ELSE table[k]
      BY <1>1, <1>3
    <3> HIDE DEF P
    <3>2. QED BY <1>2, <1>3, <3>1
  <2> HIDE DEF P
  <2>2. QED BY <2>1
<1>4. \/ table' = table
      \/ \E new : \E m \in Node : P(m, new) /\ table' = [table EXCEPT ![m] = new]
  <2>1. ASSUME NEW n \in Node, broadcastGossip(n) PROVE P(n, Prune(table[n]))
    BY <1>1, PruneFacts
  <2>2. ASSUME NEW n \in Node, RouteSender(n)
        PROVE  P(n, AddRouteWithTTL(n, hand[n].packet.addr, RouteTTL))
    <3>1. hand[n].packet.addr \in Place /\ RouteTTL \in Nat /\ RouteTTL > 0
      <4>1. hand[n].packet \in Packet
        BY <2>2, HandTypes DEF RouteSender, TypeInv
      <4>2. QED BY <4>1, MeshAssumption DEF Sender, Packet, Place, Destination, MeshAssumption
    <3>2. NewRoute(n, [dst |-> hand[n].packet.addr,
                       expires |-> IF RouteTTL > 0 THEN now + RouteTTL ELSE NoTime])
      BY <2>2, <3>1 DEF RouteSender, NewRoute
    <3>3. QED BY <3>1, <3>2, AddedRoute
  <2>3. ASSUME NEW n \in Node, ApplyGossip(n)
        PROVE  P(n, AddRouteWithTTL(n, Head(hand[n].rest), RouteTTL))
    <3>1. Head(hand[n].rest) \in Place /\ RouteTTL \in Nat /\ RouteTTL > 0
      <4>1. hand[n].rest \in Seq(Place) /\ hand[n].rest # <<>>
        BY <2>3, HandTypes DEF ApplyGossip, TypeInv
      <4>2. QED BY <4>1, MeshAssumption DEF MeshAssumption
    <3>2. NewRoute(n, [dst |-> Head(hand[n].rest),
                       expires |-> IF RouteTTL > 0 THEN now + RouteTTL ELSE NoTime])
      BY <2>3, <3>1 DEF ApplyGossip, NewRoute
    <3>3. QED BY <3>1, <3>2, AddedRoute
  <2>4. ASSUME NEW s \in Service, AddService(s)
        PROVE  P(Home[s], Prune(AddRouteWithTTL(Home[s], s, 0)))
    <3>1. Home[s] \in Node /\ s \in Place
      BY MeshAssumption DEF MeshAssumption, Place, Destination
    <3>2. NewRoute(Home[s], [dst |-> s, expires |-> NoTime])
      BY <2>4 DEF NewRoute
    <3>3. DEFINE new == AddRouteWithTTL(Home[s], s, 0)
    <3>4. /\ new \in Seq(Route)
          /\ \A i \in DOMAIN new : \/ \E j \in DOMAIN table[Home[s]] : new[i] = table[Home[s]][j]
                                   \/ NewRoute(Home[s], new[i])
          /\ \A j \in DOMAIN table[Home[s]] : \E i \in DOMAIN new : new[i] = table[Home[s]][j]
      <4>1. PICK n \in Node, z \in Nat : n = Home[s] /\ z = 0
        BY <3>1
      <4>2. NewRoute(n, [dst |-> s, expires |-> IF z > 0 THEN now + z ELSE NoTime])
        BY <3>2, <4>1
      <4>3. LET made == AddRouteWithTTL(n, s, z)
            IN  /\ made \in Seq(Route)
                /\ \A i \in DOMAIN made : \/ \E j \in DOMAIN table[n] : made[i] = table[n][j]
                                         \/ NewRoute(n, made[i])
                /\ \A j \in DOMAIN table[n] : \E i \in DOMAIN made : made[i] = table[n][j]
        BY <3>1, <4>2, AddedRoute
      <4>4. QED BY <4>1, <4>3
    <3> HIDE DEF new
    <3>5. QED BY <3>4, PruneFacts DEF new
  <2>5. ASSUME NEW n \in Node, NEW i \in DOMAIN table[n], Delete(n, table[n][i].dst)
        PROVE  P(n, Prune(SubSeq(table[n], 1, i - 1)
                            \o SubSeq(table[n], i + 1, Len(table[n]))))
    <3>1. DEFINE new == SubSeq(table[n], 1, i - 1) \o SubSeq(table[n], i + 1, Len(table[n]))
    <3>2. /\ new \in Seq(Route)
          /\ \A k \in DOMAIN new : \E j \in DOMAIN table[n] : new[k] = table[n][j]
          /\ \A j \in DOMAIN table[n] : j # i => \E k \in DOMAIN new : new[k] = table[n][j]
      BY <1>1, RemoveFacts
    <3> HIDE DEF new
    <3>3. /\ Prune(new) \in Seq(Route)
          /\ \A k \in DOMAIN Prune(new) : \E j \in DOMAIN new : Prune(new)[k] = new[j]
          /\ \A j \in DOMAIN new : Live(new[j]) =>
               \E k \in DOMAIN Prune(new) : Prune(new)[k] = new[j]
      BY <3>2, PruneFacts
    <3>4. ASSUME NEW j \in DOMAIN table[n]
          PROVE  \/ \E k \in DOMAIN Prune(new) : Prune(new)[k] = table[n][j]
                 \/ ~Live(table[n][j]) \/ Delete(n, table[n][j].dst)
      <4>1. CASE j = i
        BY <2>5, <4>1
      <4>2. CASE j # i
        <5>1. PICK k \in DOMAIN new : new[k] = table[n][j]
          BY <3>2, <4>2
        <5>2. QED BY <3>3, <5>1
      <4>3. QED BY <4>1, <4>2
    <3>5. \A k \in DOMAIN Prune(new) : \E j \in DOMAIN table[n] : Prune(new)[k] = table[n][j]
      BY <3>2, <3>3
    <3>6. P(n, Prune(new))
      BY <3>3, <3>4, <3>5
    <3>7. QED BY <3>6 DEF new
  <2>6. ASSUME NEW n \in Node, Stop(n) PROVE P(n, <<>>)
    BY <2>6
  <2>7. ASSUME NEW n \in Node, Start(n) PROVE P(n, Prune(kept[n]))
    BY <1>1, <2>7, PruneFacts
  <2> HIDE DEF P
  <2>8. CASE UNCHANGED vars
    BY <2>8 DEF vars
  <2>9. ASSUME NEW n \in Node, NEW d \in Destination, Delete(n, d)
        PROVE  \E new : \E m \in Node : P(m, new) /\ table' = [table EXCEPT ![m] = new]
    <3>1. PICK i \in DOMAIN table[n] :
            /\ table[n][i].dst = d
            /\ table' = [table EXCEPT ![n] = Prune(SubSeq(table[n], 1, i - 1)
                            \o SubSeq(table[n], i + 1, Len(table[n])))]
      BY <1>1, <2>9 DEF Delete
    <3>2. QED BY <2>5, <2>9, <3>1
  <2>10. ASSUME NEW n \in Node,
                \/ broadcastControl(n) \/ RejectParse(n) \/ RejectAuth(n) \/ NotePeer(n)
                \/ Accept(n) \/ Sample(n) \/ \E p \in net : Receive(n, p)
         PROVE  table' = table
    BY <2>10 DEF broadcastControl, RejectParse, RejectAuth, NotePeer, Accept, Sample, Receive
  <2>11. CASE Tick \/ \E p \in Stray : Send(p)
    BY <2>11 DEF Tick, Send
  <2>12. ASSUME NEW s \in Service, AddService(s)
         PROVE  \E new : \E m \in Node : P(m, new) /\ table' = [table EXCEPT ![m] = new]
    <3>1. Home[s] \in Node
      BY MeshAssumption DEF MeshAssumption
    <3>2. table' = [table EXCEPT ![Home[s]] = Prune(AddRouteWithTTL(Home[s], s, 0))]
      BY <2>12 DEF AddService
    <3>3. QED BY <2>4, <2>12, <3>1, <3>2
  <2>13. ASSUME NEW n \in Node,
                \/ broadcastGossip(n) \/ RouteSender(n) \/ ApplyGossip(n) \/ Stop(n) \/ Start(n)
         PROVE  \E new : \E m \in Node : P(m, new) /\ table' = [table EXCEPT ![m] = new]
    <3>1. CASE broadcastGossip(n)
      BY <2>1, <3>1 DEF broadcastGossip, ListRoutes
    <3>2. CASE RouteSender(n)
      BY <2>2, <3>2 DEF RouteSender
    <3>3. CASE ApplyGossip(n)
      BY <2>3, <3>3 DEF ApplyGossip
    <3>4. CASE Stop(n)
      BY <2>6, <3>4 DEF Stop
    <3>5. CASE Start(n)
      BY <2>7, <3>5 DEF Start
    <3>6. QED BY <2>13, <3>1, <3>2, <3>3, <3>4, <3>5
  <2>14. QED BY <2>8, <2>9, <2>10, <2>11, <2>12, <2>13 DEF Next
<1>5. CASE table' = table
  BY <1>1, <1>2, <1>5
<1>6. CASE \E new : \E m \in Node : P(m, new) /\ table' = [table EXCEPT ![m] = new]
  <2>1. PICK new : \E m \in Node : P(m, new) /\ table' = [table EXCEPT ![m] = new]
    BY <1>6
  <2>2. PICK m \in Node : P(m, new) /\ table' = [table EXCEPT ![m] = new]
    BY <2>1
  <2>3. table' \in [Node -> Seq(Route)]
    BY <1>1, <2>2
  <2>4. \A k \in Node : P(k, table'[k])
    <3> HIDE DEF P
    <3>1. QED BY <1>3, <2>2
  <2>5. QED BY <2>3, <2>4
<1>7. QED BY <1>4, <1>5, <1>6

-----------------------------------------------------------------------------
(* Types and origins are kept. *)

LEMMA TypeInit == Init => TypeInv
<1> SUFFICES ASSUME Init PROVE TypeInv
  OBVIOUS
<1>1. 1 \in DOMAIN Rollout /\ MaxDelay + 1 \in Nat /\ 0 <= MaxDelay + 1
  BY KeyAssumption, MeshAssumption DEF KeyAssumption, MeshAssumption
<1>2. Types
  BY <1>1 DEF Init, Types, Hand, PeerStat, Unseen, Time
<1>3. QED BY <1>2 DEF TypeInv, HandOK, Init

\* A packet that passes the check is of a node, or says nothing.
LEMMA SignedOutsider ==
  ASSUME Types, NEW n \in Node, hand[n].step = "check", Origin(hand[n].packet),
         hand[n].packet.to = n, hand[n].packet.ok, Signed(n)
  PROVE  \/ hand[n].packet.from # Nobody
         \/ hand[n].packet.addr = Nobody /\ hand[n].packet.routes = <<>>
<1> DEFINE p == hand[n].packet
<1>1. CASE p.from # Nobody
  BY <1>1
<1>2. CASE p.from = Nobody
  <2>1. p.own /\ verifyControlPayload(p.sig, keyCandidates(n, p.from, p.addr))
    BY DEF Signed
  <2>2. ~(Rollout[1] # <<>> /\ p.sig \notin Key)
    <3>1. SUFFICES ASSUME Rollout[1] # <<>>, p.sig \notin Key PROVE FALSE
      OBVIOUS
    <3>2. stage[n] \in DOMAIN Rollout /\ 1 \in DOMAIN Rollout
      BY KeyAssumption DEF Types, KeyAssumption
    <3>3. Rollout[stage[n]] # <<>> /\ Rollout[stage[n]] \in Seq(SharedKey)
      BY <3>1, <3>2, KeyAssumption DEF KeyAssumption
    <3>4. Head(Rollout[stage[n]]) \in keyCandidates(n, p.from, p.addr)
      BY <3>3 DEF keyCandidates, SharedKeys, EntriesOf
    <3>5. keyCandidates(n, p.from, p.addr) \subseteq Key
      BY <3>2 DEF keyCandidates, SharedKeys, KeysOf, Key, SharedKey
    <3>6. QED BY <2>1, <3>1, <3>4, <3>5 DEF verifyControlPayload
  <2>3. QED BY <1>2, <2>1, <2>2 DEF Origin
<1>3. QED BY <1>1, <1>2

\* Tables in place, the rest of the types is a matter of each action.
LEMMA TypeStep == TypeInv /\ [Next]_vars => TypeInv'
<1> SUFFICES ASSUME TypeInv, [Next]_vars PROVE TypeInv'
  OBVIOUS
<1>1. table' \in [Node -> Seq(Route)]
  BY TableStep
<1>2. Types
  BY DEF TypeInv
<1> DEFINE SameHand == UNCHANGED <<up, hand>>
           SameNet == net' \subseteq net
           SamePeers == UNCHANGED peers
<1>3. ASSUME SameHand PROVE \A n \in Node : HandOK(n)'
  BY <1>3 DEF TypeInv, HandOK
<1>4. ASSUME SameNet PROVE net' \subseteq Packet /\ \A p \in net' : Origin(p)
  BY <1>4 DEF TypeInv, Types
<1>5. \A t \in Time : \A tab : Vouched(tab, t) \in [Destination -> Time \cup {NoTime}]
  <2>1. ASSUME NEW t \in Time, NEW tab, NEW d \in Destination
        PROVE  (IF d \in Service /\ Permanent(tab[Home[d]], d) THEN t ELSE spoke[d])
                 \in Time \cup {NoTime}
    BY DEF TypeInv, Types
  <2>2. QED BY <2>1 DEF Vouched
<1>6. CASE UNCHANGED vars
  <2>1. UNCHANGED <<up, stage, rolled, kept, peers, hand, net, now, spoke, dropped, refused>>
    BY <1>6 DEF vars, node, ghosts
  <2>2. QED BY <1>1, <1>3, <1>4, <2>1 DEF TypeInv, Types
<1>7. ASSUME NEW n \in Node, broadcastControl(n) PROVE TypeInv'
  <2>1. <<>> \in Seq(Place)
    OBVIOUS
  <2>2. /\ net' \subseteq Packet /\ \A p \in net' : Origin(p)
        /\ spoke' = [spoke EXCEPT ![Bind[n]] = now]
    BY <1>2, <1>7, <2>1, BroadcastFacts DEF broadcastControl, TypeInv, Types
  <2>3. spoke' \in [Destination -> Time \cup {NoTime}]
    BY <2>2 DEF TypeInv, Types
  <2>4. QED BY <1>1, <1>3, <1>7, <2>2, <2>3 DEF broadcastControl, node, TypeInv, Types
<1>8. ASSUME NEW n \in Node, broadcastGossip(n) PROVE TypeInv'
  <2>1. DEFINE routes == [i \in DOMAIN ListRoutes(n) |-> ListRoutes(n)[i].dst]
               most == IF Len(routes) > GossipMaxRoutes THEN GossipMaxRoutes ELSE Len(routes)
               said == SubSeq(routes, 1, most)
  <2>2. said \in Seq(Place)
    BY <1>2, GossipFacts
  <2>3. \/ UNCHANGED <<net, spoke>>
        \/ Broadcast(n, said)
    BY <1>8 DEF broadcastGossip
  <2> HIDE DEF said
  <2>4. /\ net' \subseteq Packet /\ \A p \in net' : Origin(p)
        /\ spoke' = spoke \/ spoke' = [spoke EXCEPT ![Bind[n]] = now]
    <3>1. CASE UNCHANGED <<net, spoke>>
      BY <3>1, <1>4
    <3>2. CASE Broadcast(n, said)
      BY <1>2, <2>2, <3>2, BroadcastFacts DEF TypeInv, Types
    <3>3. QED BY <2>3, <3>1, <3>2
  <2>5. spoke' \in [Destination -> Time \cup {NoTime}]
    BY <2>4 DEF TypeInv, Types
  <2>6. UNCHANGED <<node, peers, hand, now, dropped, refused>>
    BY <1>8 DEF broadcastGossip
  <2>7. QED BY <1>1, <1>3, <2>4, <2>5, <2>6 DEF node, TypeInv, Types
<1>9. ASSUME NEW n \in Node, NEW p \in net, Receive(n, p) PROVE TypeInv'
  <2>1. p \in Packet /\ Origin(p) /\ p.to = n /\ n \in up
    BY <1>9 DEF TypeInv, Types, Receive
  <2>2. hand' = [hand EXCEPT ![n] = [step |-> "check", packet |-> p, rest |-> p.routes]]
    BY <1>9 DEF Receive
  <2>3. p.routes \in Seq(Place)
    BY <2>1 DEF Packet, Place
  <2>4. hand' \in [Node -> Hand]
    BY <2>1, <2>2, <2>3 DEF TypeInv, Types, Hand
  <2>5. ASSUME NEW m \in Node PROVE HandOK(m)'
    <3>1. CASE m = n
      BY <1>9, <2>1, <2>2, <3>1 DEF HandOK, Receive, node, TypeInv, Types
    <3>2. CASE m # n
      <4>1. hand'[m] = hand[m] /\ up' = up
        BY <1>9, <2>2, <3>2 DEF Receive, node, TypeInv, Types
      <4>2. QED BY <4>1 DEF HandOK, TypeInv
    <3>3. QED BY <3>1, <3>2
  <2>6. QED BY <1>1, <1>4, <1>9, <2>4, <2>5 DEF Receive, node, TypeInv, Types
<1>10. ASSUME NEW n \in Node, RejectParse(n) \/ RejectAuth(n) \/ Accept(n) PROVE TypeInv'
  <2>1. /\ hand' = [hand EXCEPT ![n] = [step |-> "none"]]
        /\ UNCHANGED <<node, table, peers, net, now, spoke, dropped>>
    BY <1>10 DEF RejectParse, RejectAuth, Accept, Finish, ghosts
  <2>2. hand' \in [Node -> Hand]
    BY <2>1 DEF TypeInv, Types, Hand
  <2>3. ASSUME NEW m \in Node PROVE HandOK(m)'
    BY <2>1 DEF HandOK, node, TypeInv, Types
  <2>4. QED BY <1>1, <1>4, <2>1, <2>2, <2>3 DEF node, TypeInv, Types
<1>11. ASSUME NEW n \in Node, RouteSender(n) \/ NotePeer(n) \/ ApplyGossip(n) PROVE TypeInv'
  <2>1. hand[n].step # "none"
    BY <1>11 DEF RouteSender, NotePeer, ApplyGossip
  <2>2. /\ hand[n].step \in {"check", "gossip", "accept"}
        /\ hand[n].packet \in Packet /\ hand[n].rest \in Seq(Place)
        /\ hand[n] = [step |-> hand[n].step, packet |-> hand[n].packet, rest |-> hand[n].rest]
    BY <1>2, <2>1, HandTypes
  <2>3. PICK s \in {"gossip", "accept"}, rest \in Seq(Place) :
          /\ hand' = [hand EXCEPT ![n] = [step |-> s, packet |-> hand[n].packet, rest |-> rest]]
          /\ \A i \in DOMAIN rest : \E j \in DOMAIN hand[n].rest : rest[i] = hand[n].rest[j]
    <3>1. CASE RouteSender(n) \/ NotePeer(n)
      <4>1. PICK s \in {"gossip", "accept"} : hand' = [hand EXCEPT ![n].step = s]
        BY <3>1 DEF RouteSender, NotePeer, Go
      <4>2. [hand[n] EXCEPT !.step = s] = [step |-> s, packet |-> hand[n].packet, rest |-> hand[n].rest]
        BY <2>2
      <4>3. hand' = [hand EXCEPT ![n] = [step |-> s, packet |-> hand[n].packet, rest |-> hand[n].rest]]
        BY <4>1, <4>2 DEF TypeInv, Types
      <4>4. QED BY <2>2, <4>3
    <3>2. CASE ApplyGossip(n)
      <4>1. /\ hand' = [hand EXCEPT ![n].rest = Tail(@)] /\ hand[n].step = "gossip"
            /\ hand[n].rest # <<>>
        BY <3>2 DEF ApplyGossip
      <4>2. /\ Tail(hand[n].rest) \in Seq(Place)
            /\ \A i \in DOMAIN Tail(hand[n].rest) :
                 \E j \in DOMAIN hand[n].rest : Tail(hand[n].rest)[i] = hand[n].rest[j]
        <5>1. /\ Tail(hand[n].rest) \in Seq(Place)
              /\ Len(Tail(hand[n].rest)) = Len(hand[n].rest) - 1
              /\ \A i \in 1 .. Len(Tail(hand[n].rest)) :
                   Tail(hand[n].rest)[i] = hand[n].rest[i + 1]
          BY <2>2, <4>1, HeadTailProperties
        <5>2. ASSUME NEW i \in DOMAIN Tail(hand[n].rest)
              PROVE  \E j \in DOMAIN hand[n].rest : Tail(hand[n].rest)[i] = hand[n].rest[j]
          <6>1. i \in 1 .. Len(Tail(hand[n].rest)) /\ i + 1 \in DOMAIN hand[n].rest
            BY <2>2, <5>1
          <6>2. QED BY <5>1, <6>1
        <5>3. QED BY <5>1, <5>2
      <4>3. hand' = [hand EXCEPT ![n] = [step |-> "gossip", packet |-> hand[n].packet,
                                         rest |-> Tail(hand[n].rest)]]
        <5>1. PICK x : x = Tail(hand[n].rest)
          OBVIOUS
        <5>2. hand' = [hand EXCEPT ![n] = [hand[n] EXCEPT !.rest = Tail(hand[n].rest)]]
          BY <4>1
        <5>3. PICK pk, r : hand[n] = [step |-> "gossip", packet |-> pk, rest |-> r]
          BY <2>2, <4>1
        <5>4. [hand[n] EXCEPT !.rest = x] = [step |-> "gossip", packet |-> pk, rest |-> x]
          BY <5>3
        <5>5. hand[n].packet = pk
          BY <5>3
        <5>6. QED BY <5>1, <5>2, <5>4, <5>5
      <4>4. QED BY <4>2, <4>3
    <3>3. QED BY <1>11, <3>1, <3>2
  <2>4. /\ UNCHANGED <<node, net, now, spoke, refused>>
        /\ dropped' \in [Node -> SUBSET Place]
    <3>1. dropped \in [Node -> SUBSET Place]
      BY DEF TypeInv, Types
    <3>2. CASE RouteSender(n)
      BY <3>1, <3>2 DEF RouteSender
    <3>3. CASE NotePeer(n) \/ ApplyGossip(n)
      BY <3>1, <3>3 DEF NotePeer, ApplyGossip, ghosts
    <3>4. QED BY <1>11, <3>2, <3>3
  <2>5. peers' \in [Node -> [Sender -> PeerStat]]
    <3>1. CASE RouteSender(n) \/ ApplyGossip(n)
      BY <3>1 DEF RouteSender, ApplyGossip, TypeInv, Types
    <3>2. CASE NotePeer(n)
      <4>1. DEFINE a == hand[n].packet.addr
                   q == [at |-> now, packets |-> peers[n][a].packets + 1]
      <4>2. a \in Sender
        BY <2>2 DEF Packet
      <4>3. peers' = [peers EXCEPT ![n][a] = q]
        BY <3>2 DEF NotePeer
      <4>4. q \in PeerStat
        <5>1. peers[n][a] \in PeerStat
          BY <4>2 DEF TypeInv, Types
        <5>2. QED BY <5>1 DEF PeerStat, TypeInv, Types
      <4> HIDE DEF a, q
      <4>5. QED BY <4>2, <4>3, <4>4 DEF TypeInv, Types
    <3>3. QED BY <1>11, <3>1, <3>2
  <2>6. hand' \in [Node -> Hand]
    BY <2>2, <2>3 DEF TypeInv, Types, Hand
  <2>7. ASSUME NEW m \in Node PROVE HandOK(m)'
    <3>1. CASE m = n
      <4>1. hand'[n] = [step |-> s, packet |-> hand[n].packet, rest |-> rest]
        BY <2>3 DEF TypeInv, Types
      <4>2. /\ hand[n].packet.to = n /\ Origin(hand[n].packet) /\ n \in up
            /\ \A i \in DOMAIN hand[n].rest :
                 \E j \in DOMAIN hand[n].packet.routes : hand[n].rest[i] = hand[n].packet.routes[j]
        BY <2>1 DEF TypeInv, HandOK
      <4>3. \/ hand[n].packet.from # Nobody
            \/ hand[n].packet.addr = Nobody /\ hand[n].packet.routes = <<>>
        <5>1. CASE RouteSender(n)
          BY <1>2, <4>2, <5>1, SignedOutsider DEF RouteSender
        <5>2. CASE NotePeer(n) \/ ApplyGossip(n)
          BY <5>2 DEF NotePeer, ApplyGossip, TypeInv, HandOK
        <5>3. QED BY <1>11, <5>1, <5>2
      <4>4. /\ hand'[n].packet = hand[n].packet /\ hand'[n].rest = rest /\ hand'[n].step = s
            /\ up' = up
        BY <2>4, <4>1 DEF node
      <4>5. \A i \in DOMAIN rest :
              \E j \in DOMAIN hand[n].packet.routes : rest[i] = hand[n].packet.routes[j]
        BY <2>3, <4>2
      <4>6. QED BY <3>1, <4>2, <4>3, <4>4, <4>5 DEF HandOK
    <3>2. CASE m # n
      <4>1. hand'[m] = hand[m] /\ up' = up
        BY <2>3, <2>4, <3>2 DEF node, TypeInv, Types
      <4>2. QED BY <4>1 DEF HandOK, TypeInv
    <3>3. QED BY <3>1, <3>2
  <2>8. QED BY <1>1, <1>4, <2>4, <2>5, <2>6, <2>7 DEF node, TypeInv, Types
<1>12. ASSUME NEW n \in Node, Sample(n) PROVE TypeInv'
  BY <1>1, <1>3, <1>4, <1>12 DEF Sample, node, TypeInv, Types
<1>13. ASSUME NEW n \in Node, NEW d \in Destination, Delete(n, d) PROVE TypeInv'
  <2>1. /\ dropped' = [dropped EXCEPT ![n] = @ \cup {d}]
        /\ kept' = [kept EXCEPT ![n] = table'[n]]
        /\ UNCHANGED <<up, stage, rolled, peers, hand, net, now, spoke, refused>>
    BY <1>13 DEF Delete
  <2>2. dropped' \in [Node -> SUBSET Place] /\ kept' \in [Node -> Seq(Route)]
    BY <1>1, <2>1 DEF TypeInv, Types, Place
  <2>3. QED BY <1>1, <1>3, <1>4, <2>1, <2>2 DEF TypeInv, Types
<1>14. ASSUME NEW s \in Service, AddService(s) PROVE TypeInv'
  <2>1. /\ dropped' = [dropped EXCEPT ![Home[s]] = @ \ {s}]
        /\ kept' = [kept EXCEPT ![Home[s]] = table'[Home[s]]]
        /\ spoke' = Vouched(table', now)
        /\ UNCHANGED <<up, stage, rolled, peers, hand, net, now, refused>>
    BY <1>14 DEF AddService
  <2>2. Home[s] \in Node
    BY MeshAssumption DEF MeshAssumption
  <2>3. /\ dropped' \in [Node -> SUBSET Place] /\ kept' \in [Node -> Seq(Route)]
        /\ spoke' \in [Destination -> Time \cup {NoTime}]
    BY <1>1, <1>5, <2>1, <2>2 DEF TypeInv, Types
  <2>4. QED BY <1>1, <1>3, <1>4, <2>1, <2>3 DEF TypeInv, Types
<1>15. ASSUME NEW n \in Node, Stop(n) PROVE TypeInv'
  <2>1. /\ up' = up \ {n} /\ hand' = [hand EXCEPT ![n] = [step |-> "none"]]
        /\ peers' = [peers EXCEPT ![n] = [p \in DOMAIN @ |-> Unseen]]
        /\ dropped' = [dropped EXCEPT ![n] = {}]
        /\ UNCHANGED <<stage, rolled, kept, net, now, spoke, refused>>
    BY <1>15 DEF Stop, Finish
  <2>2. hand' \in [Node -> Hand] /\ dropped' \in [Node -> SUBSET Place] /\ up' \subseteq Node
    BY <2>1 DEF TypeInv, Types, Hand
  <2>3. peers' \in [Node -> [Sender -> PeerStat]]
    <3>1. [p \in DOMAIN peers[n] |-> Unseen] \in [Sender -> PeerStat]
      BY DEF TypeInv, Types, Unseen, PeerStat
    <3>2. QED BY <2>1, <3>1 DEF TypeInv, Types
  <2>4. ASSUME NEW m \in Node PROVE HandOK(m)'
    <3>1. CASE m = n
      BY <2>1, <3>1 DEF HandOK, TypeInv, Types
    <3>2. CASE m # n
      <4>1. hand'[m] = hand[m] /\ (m \in up => m \in up')
        BY <2>1, <3>2 DEF TypeInv, Types
      <4>2. QED BY <4>1 DEF HandOK, TypeInv
    <3>3. QED BY <3>1, <3>2
  <2>5. QED BY <1>1, <1>4, <2>1, <2>2, <2>3, <2>4 DEF TypeInv, Types
<1>16. ASSUME NEW n \in Node, Start(n) PROVE TypeInv'
  <2>1. /\ stage' \in [Node -> DOMAIN Rollout] /\ rolled' \in Time /\ rolled' <= now
    <3>1. now \in Time /\ now <= now
      BY DEF TypeInv, Types, Time
    <3>2. CASE UNCHANGED <<stage, rolled>>
      BY <3>2 DEF TypeInv, Types
    <3>3. CASE MayRoll(n) /\ stage' = [stage EXCEPT ![n] = @ + 1] /\ rolled' = now
      BY <3>1, <3>3 DEF MayRoll, TypeInv, Types
    <3>4. QED BY <1>16, <3>2, <3>3 DEF Start
  <2>2. /\ up' = up \cup {n} /\ spoke' = Vouched(table', now)
        /\ UNCHANGED <<kept, peers, hand, net, now, dropped, refused>>
    BY <1>16 DEF Start
  <2>3. spoke' \in [Destination -> Time \cup {NoTime}]
    BY <1>5, <2>2 DEF TypeInv, Types
  <2>4. \A m \in Node : HandOK(m)'
    BY <2>2 DEF HandOK, TypeInv
  <2>5. QED BY <1>1, <1>4, <2>1, <2>2, <2>3, <2>4 DEF TypeInv, Types
<1>17. ASSUME NEW p \in Stray, Send(p) PROVE TypeInv'
  <2>1. DEFINE q == [p EXCEPT !.sent = now]
  <2>2. p \in Packet /\ p.from = Nobody
    BY StrayAssumption DEF StrayAssumption
  <2>3. q \in Packet /\ Origin(q)
    <3>1. q \in Packet
      BY <2>2 DEF Packet, TypeInv, Types
    <3>2. /\ q.from = p.from /\ q.ok = p.ok /\ q.own = p.own /\ q.sig = p.sig
          /\ q.addr = p.addr /\ q.routes = p.routes
      BY <2>2 DEF Packet
    <3> HIDE DEF q
    <3>3. QED BY <2>2, <3>1, <3>2, StrayAssumption DEF StrayAssumption, Origin
  <2> HIDE DEF q
  <2>4. net' = net \cup {q} /\ UNCHANGED <<node, peers, hand, now, spoke, dropped, refused>>
    BY <1>17 DEF Send, q
  <2>5. net' \subseteq Packet /\ \A r \in net' : Origin(r)
    BY <2>3, <2>4 DEF TypeInv, Types
  <2>6. QED BY <1>1, <1>3, <2>4, <2>5 DEF node, TypeInv, Types
<1>18. CASE Tick
  <2>1. /\ now' \in Time /\ rolled <= now' /\ net' \subseteq net /\ spoke' = Vouched(table, now')
        /\ UNCHANGED <<node, peers, hand, dropped, refused>>
    BY <1>18 DEF Tick, Time, TypeInv, Types
  <2>2. spoke' \in [Destination -> Time \cup {NoTime}]
    BY <1>5, <2>1
  <2>3. QED BY <1>1, <1>3, <1>4, <2>1, <2>2 DEF node, TypeInv, Types
<1>19. QED
  BY <1>6, <1>7, <1>8, <1>9, <1>10, <1>11, <1>12, <1>13, <1>14, <1>15, <1>16, <1>17, <1>18
     DEF Next

-----------------------------------------------------------------------------
(* How long a silent address or service is remembered. *)

\* The time that one hop takes.
HopTime == RouteTTL + MaxDelay

\* The time t is at most x after d has spoken.
Within(d, t, x) == spoke[d] # NoTime /\ t <= spoke[d] + x

\* A route without TTL is of a service of this node; another one is as old as its hops allow.
RouteOK(n, r) ==
  r.dst \in Destination =>
    IF r.expires = NoTime THEN r.dst \in Service /\ n = Home[r.dst]
    ELSE n \in Settled => Within(r.dst, r.expires, Hops[n] * HopTime)

\* What a packet to a settled node says was live when it was sent, and leaves time for a hop.
PacketOK(p) ==
  /\ p.sent <= now /\ now <= p.sent + MaxDelay
  /\ p.from # Nobody =>
       /\ p.addr \in Address /\ Within(p.addr, p.sent, 0)
       /\ p.to \in Settled =>
            \A i \in DOMAIN p.routes :
              p.routes[i] \in Destination =>
                Within(p.routes[i], p.sent + HopTime, Hops[p.to] * HopTime)

SoundInv ==
  /\ \A d \in Destination : spoke[d] # NoTime => spoke[d] <= now
  /\ \A d \in Service : Permanent(table[Home[d]], d) => spoke[d] = now
  /\ \A n \in Node : \A i \in DOMAIN table[n] : RouteOK(n, table[n][i])
  /\ \A n \in Node : \A i \in DOMAIN kept[n] : RouteOK(n, kept[n][i])
  /\ \A p \in net : PacketOK(p)
  /\ \A n \in Node : hand[n].step # "none" => PacketOK(hand[n].packet)

LEMMA Products ==
  ASSUME NEW a \in Nat, NEW b \in Nat, NEW h \in Nat
  PROVE  /\ a * h \in Nat
         /\ a <= b => a * h <= b * h
         /\ a < b => a * h + h <= b * h
<1>1. a * h \in Nat /\ b * h \in Nat
  OBVIOUS
<1>2. ASSUME a <= b PROVE a * h <= b * h
  <2>1. PICK c \in Nat : b = a + c
    <3>1. b - a \in Nat /\ b = a + (b - a)
      BY <1>2
    <3>2. QED BY <3>1
  <2>2. b * h = a * h + c * h /\ c * h \in Nat
    BY <2>1
  <2>3. QED BY <1>1, <2>2
<1>3. ASSUME a < b PROVE a * h + h <= b * h
  <2>1. PICK c \in Nat : b = a + 1 + c
    <3>1. b - a - 1 \in Nat /\ b = a + 1 + (b - a - 1)
      BY <1>3
    <3>2. QED BY <3>1
  <2>2. b * h = a * h + h + c * h /\ c * h \in Nat
    BY <2>1
  <2>3. QED BY <1>1, <2>2
<1>4. QED BY <1>1, <1>2, <1>3

LEMMA HopFacts ==
  /\ HopTime \in Nat /\ HopTime = RouteTTL + MaxDelay
  /\ \A n \in Settled : n \in Node /\ Hops[n] * HopTime \in Nat /\ HopTime <= Hops[n] * HopTime
  /\ \A m, n \in Settled : Hops[m] < Hops[n] => Hops[m] * HopTime + HopTime <= Hops[n] * HopTime
<1>1. HopTime \in Nat /\ HopTime = RouteTTL + MaxDelay
  BY MeshAssumption DEF MeshAssumption, HopTime
<1>2. \A n \in Settled : n \in Node /\ Hops[n] \in Nat /\ 1 <= Hops[n]
  BY SettledAssumption DEF SettledAssumption
<1>3. ASSUME NEW n \in Settled PROVE Hops[n] * HopTime \in Nat /\ HopTime <= Hops[n] * HopTime
  <2>1. 1 * HopTime = HopTime
    BY <1>1
  <2>2. Hops[n] * HopTime \in Nat /\ 1 * HopTime <= Hops[n] * HopTime
    BY <1>1, <1>2, Products
  <2>3. QED BY <2>1, <2>2
<1>4. ASSUME NEW m \in Settled, NEW n \in Settled, Hops[m] < Hops[n]
      PROVE  Hops[m] * HopTime + HopTime <= Hops[n] * HopTime
  BY <1>1, <1>2, <1>4, Products
<1>5. QED BY <1>1, <1>2, <1>3, <1>4

\* A destination speaks now, or has spoken when it had; time does not go back.
LEMMA SpokeStep ==
  ASSUME TypeInv, [Next]_vars
  PROVE  /\ now' \in Nat /\ now <= now'
         /\ \A d \in Destination : spoke'[d] = spoke[d] \/ spoke'[d] = now'
<1>1. now \in Nat /\ spoke \in [Destination -> Time \cup {NoTime}]
  BY DEF TypeInv, Types, Time
<1>2. \A tab : \A t : \A d \in Destination :
        Vouched(tab, t)[d] = spoke[d] \/ Vouched(tab, t)[d] = t
  BY DEF Vouched
<1>3. CASE Tick
  <2>1. now' = now + 1 /\ spoke' = Vouched(table, now')
    BY <1>3 DEF Tick
  <2>2. QED BY <1>1, <1>2, <2>1
<1>4. ASSUME NEW n \in Node, broadcastControl(n) \/ broadcastGossip(n)
      PROVE  now' = now /\ (spoke' = spoke \/ spoke' = [spoke EXCEPT ![Bind[n]] = now])
  BY <1>4 DEF broadcastControl, broadcastGossip, Broadcast
<1>5. CASE \/ \E s \in Service : AddService(s)
           \/ \E n \in Node : Start(n)
  <2>1. now' = now /\ spoke' = Vouched(table', now)
    BY <1>5 DEF AddService, Start
  <2>2. QED BY <1>1, <1>2, <2>1
<1>6. CASE UNCHANGED <<now, spoke>>
  BY <1>1, <1>6
<1>7. \/ Tick \/ UNCHANGED <<now, spoke>>
      \/ \E n \in Node : broadcastControl(n) \/ broadcastGossip(n)
      \/ \E s \in Service : AddService(s)
      \/ \E n \in Node : Start(n)
  <2>1. CASE UNCHANGED vars
    BY <2>1 DEF vars, ghosts
  <2>2. ASSUME NEW n \in Node,
               \/ RejectParse(n) \/ RejectAuth(n) \/ RouteSender(n) \/ ApplyGossip(n)
               \/ NotePeer(n) \/ Accept(n) \/ Sample(n) \/ Stop(n)
               \/ (\E p \in net : Receive(n, p)) \/ \E d \in Destination : Delete(n, d)
        PROVE  UNCHANGED <<now, spoke>>
    BY <2>2 DEF RejectParse, RejectAuth, RouteSender, ApplyGossip, NotePeer, Accept, Sample,
                Stop, Receive, Delete, ghosts
  <2>3. ASSUME NEW p \in Stray, Send(p) PROVE UNCHANGED <<now, spoke>>
    BY <2>3 DEF Send
  <2>4. QED BY <2>1, <2>2, <2>3 DEF Next
<1>8. QED
  <2>1. CASE \E n \in Node : broadcastControl(n) \/ broadcastGossip(n)
    <3>1. PICK n \in Node : broadcastControl(n) \/ broadcastGossip(n)
      BY <2>1
    <3>2. now' = now /\ (spoke' = spoke \/ spoke' = [spoke EXCEPT ![Bind[n]] = now])
      BY <1>4, <3>1
    <3>3. QED BY <1>1, <3>2
  <2>2. QED BY <1>3, <1>5, <1>6, <1>7, <2>1

\* So that what was within the time stays so.
LEMMA WithinStep ==
  ASSUME TypeInv, SoundInv, [Next]_vars, NEW d \in Destination, NEW t \in Nat, NEW x \in Nat,
         Within(d, t, x)
  PROVE  Within(d, t, x)'
<1>1. /\ now \in Nat /\ now' \in Nat /\ now <= now' /\ NoTime \notin Int
      /\ spoke[d] \in Nat \cup {NoTime} /\ (spoke[d] # NoTime => spoke[d] <= now)
      /\ spoke'[d] = spoke[d] \/ spoke'[d] = now'
  BY SpokeStep, MeshAssumption DEF TypeInv, Types, Time, SoundInv, MeshAssumption
<1>2. QED BY <1>1 DEF Within

LEMMA RouteStep ==
  ASSUME TypeInv, SoundInv, [Next]_vars, NEW n \in Node, NEW r \in Route, RouteOK(n, r)
  PROVE  RouteOK(n, r)'
<1>1. CASE r.dst \in Destination /\ r.expires # NoTime /\ n \in Settled
  <2>1. r.expires \in Nat /\ Hops[n] * HopTime \in Nat
    BY <1>1, HopFacts DEF Route, Time
  <2>2. Within(r.dst, r.expires, Hops[n] * HopTime)
    BY <1>1 DEF RouteOK
  <2>3. Within(r.dst, r.expires, Hops[n] * HopTime)'
    BY <1>1, <2>1, <2>2, WithinStep
  <2>4. QED BY <1>1, <2>3 DEF RouteOK, Within
<1>2. CASE ~(r.dst \in Destination /\ r.expires # NoTime /\ n \in Settled)
  BY <1>2 DEF RouteOK
<1>3. QED BY <1>1, <1>2

LEMMA PacketStep ==
  ASSUME TypeInv, SoundInv, [Next]_vars, NEW p \in Packet, PacketOK(p), now' <= p.sent + MaxDelay
  PROVE  PacketOK(p)'
<1>1. p.sent \in Nat /\ p.sent <= now /\ now \in Nat /\ now' \in Nat /\ now <= now'
  BY SpokeStep DEF PacketOK, Packet, Time, TypeInv, Types
<1>2. ASSUME p.from # Nobody
      PROVE  /\ p.addr \in Address /\ Within(p.addr, p.sent, 0)'
             /\ p.to \in Settled =>
                  \A i \in DOMAIN p.routes :
                    p.routes[i] \in Destination =>
                      Within(p.routes[i], p.sent + HopTime, Hops[p.to] * HopTime)'
  <2>1. p.addr \in Destination /\ p.addr \in Address
    BY <1>2 DEF PacketOK, Destination
  <2>2. Within(p.addr, p.sent, 0)'
    BY <1>1, <1>2, <2>1, WithinStep DEF PacketOK
  <2>3. ASSUME p.to \in Settled, NEW i \in DOMAIN p.routes, p.routes[i] \in Destination
        PROVE  Within(p.routes[i], p.sent + HopTime, Hops[p.to] * HopTime)'
    <3>1. p.sent + HopTime \in Nat /\ Hops[p.to] * HopTime \in Nat
      BY <1>1, <2>3, HopFacts
    <3>2. Within(p.routes[i], p.sent + HopTime, Hops[p.to] * HopTime)
      BY <1>2, <2>3 DEF PacketOK
    <3>3. QED BY <2>3, <3>1, <3>2, WithinStep
  <2>4. QED BY <2>1, <2>2, <2>3
<1>3. QED BY <1>1, <1>2 DEF PacketOK, Within

\* A route that a node adds is no older than the packet it comes from, and one hop further.
LEMMA NewRouteOK ==
  ASSUME TypeInv, SoundInv, NEW n \in Node, NEW r \in Route, NewRoute(n, r)
  PROVE  RouteOK(n, r)
<1> DEFINE p == hand[n].packet
<1>1. /\ now \in Nat /\ HopTime \in Nat /\ HopTime = RouteTTL + MaxDelay
      /\ RouteTTL \in Nat /\ MaxDelay \in Nat /\ NoTime \notin Int
      /\ \A d \in Destination : spoke[d] \in Nat \cup {NoTime}
  BY HopFacts, MeshAssumption DEF TypeInv, Types, Time, MeshAssumption
<1>2. ASSUME NEW d \in Destination, n \in Settled, p.sent \in Nat, now <= p.sent + MaxDelay,
             \/ Within(d, p.sent, 0)
             \/ Within(d, p.sent + HopTime, Hops[n] * HopTime)
      PROVE  Within(d, now + RouteTTL, Hops[n] * HopTime)
  <2>1. PICK b \in Nat : b = Hops[n] * HopTime /\ HopTime <= b
    BY <1>2, HopFacts
  <2>2. spoke[d] # NoTime /\ (p.sent <= spoke[d] \/ p.sent + HopTime <= spoke[d] + b)
    BY <1>1, <1>2, <2>1 DEF Within
  <2>3. now + RouteTTL <= spoke[d] + b
    BY <1>1, <1>2, <2>1, <2>2
  <2>4. QED BY <2>1, <2>2, <2>3 DEF Within
<1>3. CASE /\ hand[n].step = "check" /\ hand[n].packet.ok /\ Signed(n)
           /\ r = [dst |-> hand[n].packet.addr, expires |-> now + RouteTTL]
  <2>1. p \in Packet /\ PacketOK(p) /\ p.to = n /\ Origin(p)
    BY <1>3, HandTypes DEF TypeInv, SoundInv, HandOK
  <2>2. \/ p.from # Nobody
        \/ p.addr = Nobody
    BY <1>3, <2>1, SignedOutsider DEF TypeInv
  <2>3. r.dst = p.addr /\ r.expires = now + RouteTTL /\ r.expires # NoTime
    BY <1>1, <1>3
  <2>4. CASE p.from # Nobody
    <3>1. /\ p.addr \in Destination /\ Within(p.addr, p.sent, 0) /\ p.sent \in Nat
          /\ now <= p.sent + MaxDelay
      BY <2>1, <2>4 DEF PacketOK, Packet, Time, Destination
    <3>2. n \in Settled => Within(p.addr, now + RouteTTL, Hops[n] * HopTime)
      BY <1>2, <3>1
    <3>3. QED BY <2>3, <3>2 DEF RouteOK
  <2>5. CASE p.addr = Nobody
    BY <2>3, <2>5, MeshAssumption DEF RouteOK, MeshAssumption
  <2>6. QED BY <2>2, <2>4, <2>5
<1>4. CASE /\ hand[n].step = "gossip" /\ hand[n].rest # <<>>
           /\ r = [dst |-> Head(hand[n].rest), expires |-> now + RouteTTL]
  <2>1. p \in Packet /\ PacketOK(p) /\ p.to = n /\ Origin(p) /\ hand[n].rest \in Seq(Place)
    BY <1>4, HandTypes DEF TypeInv, SoundInv, HandOK
  <2>2. PICK j \in DOMAIN p.routes : Head(hand[n].rest) = p.routes[j]
    <3>1. 1 \in DOMAIN hand[n].rest /\ Head(hand[n].rest) = hand[n].rest[1]
      BY <1>4, <2>1
    <3>2. QED BY <1>4, <3>1 DEF TypeInv, HandOK
  <2>3. p.from # Nobody
    <3>1. p.routes # <<>>
      BY <2>2
    <3>2. QED BY <1>4, <3>1 DEF TypeInv, HandOK
  <2>4. r.dst = p.routes[j] /\ r.expires = now + RouteTTL /\ r.expires # NoTime
    BY <1>1, <1>4, <2>2
  <2>5. p.sent \in Nat /\ now <= p.sent + MaxDelay
    BY <2>1 DEF PacketOK, Packet, Time
  <2>6. ASSUME r.dst \in Destination, n \in Settled
        PROVE  Within(r.dst, now + RouteTTL, Hops[n] * HopTime)
    <3>1. Within(p.routes[j], p.sent + HopTime, Hops[n] * HopTime)
      BY <2>1, <2>3, <2>4, <2>6 DEF PacketOK
    <3>2. QED BY <1>2, <2>4, <2>5, <2>6, <3>1
  <2>7. QED BY <2>4, <2>6 DEF RouteOK
<1>5. CASE \E s \in Service : /\ n = Home[s] /\ AddService(s)
                              /\ r = [dst |-> s, expires |-> NoTime]
  BY <1>5 DEF RouteOK
<1>6. QED BY <1>3, <1>4, <1>5 DEF NewRoute

\* The tables after a step, and what is kept of them.
LEMMA TablesSound ==
  ASSUME TypeInv, SoundInv, [Next]_vars
  PROVE  /\ \A n \in Node : \A i \in DOMAIN table'[n] : RouteOK(n, table[n][i])'
         /\ \A n \in Node : \A i \in DOMAIN kept'[n] : RouteOK(n, kept[n][i])'
<1>1. table' \in [Node -> Seq(Route)]
  BY TableStep
<1>2. ASSUME NEW n \in Node, NEW k \in DOMAIN table'[n] PROVE RouteOK(n, table[n][k])'
  <2>1. PICK r : r = table'[n][k]
    OBVIOUS
  <2>2. r \in Route
    BY <1>1, <2>1
  <2>3. RouteOK(n, r)
    <3>1. CASE \E i \in DOMAIN table[n] : r = table[n][i]
      BY <3>1 DEF SoundInv
    <3>2. CASE NewRoute(n, r)
      BY <2>2, <3>2, NewRouteOK
    <3>3. CASE \E i \in DOMAIN kept[n] : r = kept[n][i]
      BY <3>3 DEF SoundInv
    <3>4. QED BY <2>1, <3>1, <3>2, <3>3, TableStep
  <2>4. RouteOK(n, r)'
    BY <2>2, <2>3, RouteStep
  <2>5. QED BY <2>1, <2>4 DEF RouteOK, Within
<1>3. \/ kept' = kept
      \/ \E n \in Node : kept' = [kept EXCEPT ![n] = table'[n]]
  <2>1. CASE UNCHANGED vars
    BY <2>1 DEF vars, node
  <2>2. ASSUME NEW n \in Node,
               \/ broadcastControl(n) \/ broadcastGossip(n)
               \/ RejectParse(n) \/ RejectAuth(n) \/ RouteSender(n) \/ ApplyGossip(n)
               \/ NotePeer(n) \/ Accept(n) \/ Sample(n) \/ Stop(n) \/ Start(n)
               \/ (\E p \in net : Receive(n, p))
        PROVE  kept' = kept
    BY <2>2 DEF broadcastControl, broadcastGossip, RejectParse, RejectAuth, RouteSender,
                ApplyGossip, NotePeer, Accept, Sample, Stop, Start, Receive, node
  <2>3. CASE Tick \/ \E p \in Stray : Send(p)
    BY <2>3 DEF Tick, Send, node
  <2>4. ASSUME NEW s \in Service, AddService(s)
        PROVE  \E n \in Node : kept' = [kept EXCEPT ![n] = table'[n]]
    BY <2>4, MeshAssumption DEF AddService, MeshAssumption
  <2>5. ASSUME NEW n \in Node, NEW d \in Destination, Delete(n, d)
        PROVE  \E m \in Node : kept' = [kept EXCEPT ![m] = table'[m]]
    BY <2>5 DEF Delete
  <2>6. QED BY <2>1, <2>2, <2>3, <2>4, <2>5 DEF Next
<1>4. ASSUME NEW n \in Node, NEW k \in DOMAIN kept'[n] PROVE RouteOK(n, kept[n][k])'
  <2>1. kept'[n] = kept[n] \/ kept'[n] = table'[n]
    BY <1>3 DEF TypeInv, Types
  <2>2. CASE kept'[n] = kept[n]
    <3>1. PICK r : r = kept[n][k] /\ r = kept'[n][k]
      BY <2>2
    <3>2. r \in Route /\ RouteOK(n, r)
      BY <2>2, <3>1 DEF TypeInv, Types, SoundInv
    <3>3. RouteOK(n, r)'
      BY <3>2, RouteStep
    <3>4. QED BY <3>1, <3>3 DEF RouteOK, Within
  <2>3. CASE kept'[n] = table'[n]
    <3>1. RouteOK(n, table[n][k])'
      BY <1>2, <2>3
    <3>2. QED BY <2>3, <3>1 DEF RouteOK, Within
  <2>4. QED BY <2>1, <2>2, <2>3
<1>5. QED BY <1>2, <1>4

\* A service whose home has a route without TTL speaks at every moment.
LEMMA ServicesSpeak ==
  ASSUME TypeInv, SoundInv, [Next]_vars, NEW d \in Service, Permanent(table'[Home[d]], d)
  PROVE  spoke'[d] = now'
<1>1. d \in Destination /\ Home[d] \in Node /\ \A n \in Node : Bind[n] # d
  BY MeshAssumption DEF MeshAssumption, Destination
<1>2. CASE Tick \/ (\E s \in Service : AddService(s)) \/ \E n \in Node : Start(n)
  <2>1. spoke' = Vouched(table', now')
    BY <1>2 DEF Tick, AddService, Start, node
  <2>2. QED BY <1>1, <2>1 DEF Vouched
<1>3. CASE ~(Tick \/ (\E s \in Service : AddService(s)) \/ \E n \in Node : Start(n))
  <2>1. now' = now /\ spoke'[d] = spoke[d]
    <3>1. CASE UNCHANGED vars
      BY <3>1 DEF vars, ghosts
    <3>2. ASSUME NEW n \in Node, broadcastControl(n) \/ broadcastGossip(n)
          PROVE  now' = now /\ spoke'[d] = spoke[d]
      <4>1. now' = now /\ (spoke' = spoke \/ spoke' = [spoke EXCEPT ![Bind[n]] = now])
        BY <3>2 DEF broadcastControl, broadcastGossip, Broadcast
      <4>2. QED BY <1>1, <4>1 DEF TypeInv, Types
    <3>3. ASSUME NEW n \in Node,
                 \/ RejectParse(n) \/ RejectAuth(n) \/ RouteSender(n) \/ ApplyGossip(n)
                 \/ NotePeer(n) \/ Accept(n) \/ Sample(n) \/ Stop(n)
                 \/ (\E p \in net : Receive(n, p)) \/ \E e \in Destination : Delete(n, e)
          PROVE  UNCHANGED <<now, spoke>>
      BY <3>3 DEF RejectParse, RejectAuth, RouteSender, ApplyGossip, NotePeer, Accept, Sample,
                  Stop, Receive, Delete, ghosts
    <3>4. ASSUME NEW p \in Stray, Send(p) PROVE UNCHANGED <<now, spoke>>
      BY <3>4 DEF Send
    <3>5. QED BY <1>3, <3>1, <3>2, <3>3, <3>4 DEF Next
  <2>2. PICK k \in DOMAIN table'[Home[d]] :
          table'[Home[d]][k].dst = d /\ table'[Home[d]][k].expires = NoTime
    BY DEF Permanent
  <2>3. ~NewRoute(Home[d], table'[Home[d]][k])
    <3>1. now + RouteTTL # NoTime
      BY MeshAssumption DEF MeshAssumption, TypeInv, Types, Time
    <3>2. PICK r : r = table'[Home[d]][k]
      OBVIOUS
    <3>3. r.expires = NoTime /\ r.expires # now + RouteTTL
      BY <2>2, <3>1, <3>2
    <3>4. \A x : r # [dst |-> x, expires |-> now + RouteTTL]
      BY <3>3
    <3>5. ~NewRoute(Home[d], r)
      BY <1>3, <3>4 DEF NewRoute
    <3>6. QED BY <3>2, <3>5
  <2>4. PICK i \in DOMAIN table[Home[d]] : table'[Home[d]][k] = table[Home[d]][i]
    BY <1>1, <1>3, <2>3, TableStep
  <2>5. Permanent(table[Home[d]], d)
    BY <2>2, <2>4 DEF Permanent
  <2>6. QED BY <2>1, <2>5 DEF SoundInv
<1>4. QED BY <1>2, <1>3

\* What a node sends is true of its table.
LEMMA SentSound ==
  ASSUME TypeInv, SoundInv, [Next]_vars, NEW n \in Node, NEW rs \in Seq(Place), Broadcast(n, rs),
         now' = now, n \in Gossips \/ rs = <<>>,
         \A k \in DOMAIN rs : \E i \in DOMAIN table[n] :
           rs[k] = table[n][i].dst /\ Live(table[n][i])
  PROVE  \A p \in net' : p \in net \/ PacketOK(p)'
<1>1. SUFFICES ASSUME NEW p \in net', p \notin net PROVE PacketOK(p)'
  OBVIOUS
<1>2. /\ p \in Packet /\ p.addr = Bind[n] /\ p.routes = rs /\ p.sent = now
      /\ \E q \in DOMAIN Peers[n] : p.to = Peers[n][q]
      /\ spoke' = [spoke EXCEPT ![Bind[n]] = now]
  BY <1>1, BroadcastFacts DEF TypeInv
<1>3. /\ now \in Nat /\ MaxDelay \in Nat /\ NoTime \notin Int
      /\ spoke \in [Destination -> Nat \cup {NoTime}]
      /\ Bind[n] \in Destination /\ Bind[n] \in Address
  BY MeshAssumption DEF TypeInv, Types, Time, MeshAssumption, Destination
<1>4. spoke'[Bind[n]] = now /\ spoke'[Bind[n]] # NoTime /\ now <= spoke'[Bind[n]] + 0
  BY <1>2, <1>3
<1>5. ASSUME p.to \in Settled, NEW k \in DOMAIN rs, rs[k] \in Destination
      PROVE  Within(rs[k], now + HopTime, Hops[p.to] * HopTime)'
  <2>1. PICK i \in DOMAIN table[n] : rs[k] = table[n][i].dst /\ Live(table[n][i])
    OBVIOUS
  <2>2. n \in Settled /\ Hops[n] < Hops[p.to]
    <3>1. n \in Gossips
      OBVIOUS
    <3>2. QED BY <1>2, <1>5, <3>1, SettledAssumption DEF SettledAssumption
  <2>3. PICK a \in Nat, b \in Nat :
          a = Hops[n] * HopTime /\ b = Hops[p.to] * HopTime /\ a + HopTime <= b
    BY <1>5, <2>2, HopFacts
  <2>4. table[n][i] \in Route /\ RouteOK(n, table[n][i]) /\ HopTime \in Nat
    BY HopFacts DEF TypeInv, Types, SoundInv
  <2>5. spoke[rs[k]] \in Nat /\ now <= spoke[rs[k]] + a
    <3>1. CASE table[n][i].expires = NoTime
      <4>1. rs[k] \in Service /\ n = Home[rs[k]]
        BY <1>5, <2>1, <2>4, <3>1 DEF RouteOK
      <4>2. Permanent(table[Home[rs[k]]], rs[k])
        BY <2>1, <3>1, <4>1 DEF Permanent
      <4>3. spoke[rs[k]] = now
        BY <4>1, <4>2 DEF SoundInv
      <4>4. QED BY <1>3, <4>3
    <3>2. CASE table[n][i].expires # NoTime
      <4>1. /\ Within(rs[k], table[n][i].expires, a)
            /\ table[n][i].expires \in Nat /\ now <= table[n][i].expires
        BY <1>5, <2>1, <2>2, <2>3, <2>4, <3>2 DEF RouteOK, Route, Time, Live
      <4>2. QED BY <1>3, <1>5, <4>1 DEF Within
    <3>3. QED BY <3>1, <3>2
  <2>6. PICK d \in Destination, t \in Nat, x \in Nat :
          d = rs[k] /\ t = now + HopTime /\ x = Hops[p.to] * HopTime
    BY <1>3, <1>5, <2>3, <2>4
  <2>7. Within(d, t, x)
    <3>1. spoke[rs[k]] # NoTime /\ t <= spoke[rs[k]] + x
      <4>1. t = now + HopTime /\ x = b
        BY <2>3, <2>6
      <4>2. now \in Nat /\ HopTime \in Nat /\ a + HopTime <= b /\ now <= spoke[rs[k]] + a
        BY <1>3, <2>3, <2>4, <2>5
      <4>3. spoke[rs[k]] # NoTime
        BY <1>3, <2>5
      <4>4. QED BY <2>5, <4>1, <4>2, <4>3
    <3>2. QED BY <2>6, <3>1 DEF Within
  <2>8. Within(d, t, x)'
    BY <2>7, WithinStep
  <2>9. QED BY <2>6, <2>8 DEF Within
<1>6. QED BY <1>2, <1>3, <1>4, <1>5 DEF PacketOK, Within

LEMMA SoundInit == Init => SoundInv
<1> SUFFICES ASSUME Init PROVE SoundInv
  OBVIOUS
<1>1. \A n \in Node : DOMAIN table[n] = {} /\ DOMAIN kept[n] = {} /\ hand[n].step = "none"
  BY DEF Init
<1>2. \A d \in Service : ~Permanent(table[Home[d]], d)
  BY <1>1, MeshAssumption DEF Permanent, MeshAssumption
<1>3. net = {} /\ \A d \in Destination : spoke[d] = NoTime
  BY DEF Init
<1>4. QED BY <1>1, <1>2, <1>3 DEF SoundInv

LEMMA SoundStep == TypeInv /\ SoundInv /\ [Next]_vars => SoundInv'
<1> SUFFICES ASSUME TypeInv, SoundInv, [Next]_vars PROVE SoundInv'
  OBVIOUS
<1>1. \A d \in Destination : spoke'[d] # NoTime => spoke'[d] <= now'
  <2>1. ASSUME NEW d \in Destination, spoke'[d] # NoTime PROVE spoke'[d] <= now'
    <3>1. /\ now \in Nat /\ now' \in Nat /\ now <= now' /\ spoke[d] \in Nat \cup {NoTime}
          /\ spoke'[d] = spoke[d] \/ spoke'[d] = now'
          /\ spoke[d] # NoTime => spoke[d] <= now
      BY SpokeStep DEF TypeInv, Types, Time, SoundInv
    <3>2. QED BY <2>1, <3>1
  <2>2. QED BY <2>1
<1>2. \A d \in Service : Permanent(table'[Home[d]], d) => spoke'[d] = now'
  BY ServicesSpeak
<1>3. /\ now \in Nat /\ now' \in Nat /\ now <= now'
      /\ \A p \in net : p \in Packet /\ p.sent \in Nat
  BY SpokeStep DEF TypeInv, Types, Time, Packet
<1>4. ASSUME NEW p \in net, now' <= p.sent + MaxDelay PROVE PacketOK(p)'
  BY <1>3, <1>4, PacketStep DEF SoundInv
<1>5. ASSUME NEW n \in Node, hand[n].step # "none", now' <= hand[n].packet.sent + MaxDelay,
             hand'[n].packet = hand[n].packet
      PROVE  PacketOK(hand[n].packet)'
  <2>1. PICK p : p = hand[n].packet
    OBVIOUS
  <2>2. p \in Packet /\ PacketOK(p)
    BY <1>5, <2>1, HandTypes DEF TypeInv, SoundInv
  <2>3. PacketOK(p)'
    BY <1>5, <2>1, <2>2, PacketStep
  <2>4. p = hand'[n].packet
    BY <1>5, <2>1
  <2>5. QED BY <2>3, <2>4 DEF PacketOK, Within
<1>6. /\ \A p \in net' : PacketOK(p)'
      /\ \A n \in Node : hand'[n].step # "none" => PacketOK(hand[n].packet)'
  <2>1. ASSUME now' = now, net' \subseteq net PROVE \A p \in net' : PacketOK(p)'
    BY <1>4, <2>1 DEF SoundInv, PacketOK
  <2>2. ASSUME now' = now,
               \A n \in Node : \/ hand'[n].step = "none"
                               \/ hand[n].step # "none" /\ hand'[n].packet = hand[n].packet
        PROVE  \A n \in Node : hand'[n].step # "none" => PacketOK(hand[n].packet)'
    BY <1>5, <2>2 DEF SoundInv, PacketOK
  <2>3. CASE UNCHANGED vars
    <3>1. UNCHANGED <<now, net, hand>>
      BY <2>3 DEF vars
    <3>2. QED BY <2>1, <2>2, <3>1
  <2>4. ASSUME NEW n \in Node, broadcastControl(n)
        PROVE  /\ \A p \in net' : PacketOK(p)'
               /\ \A m \in Node : hand'[m].step # "none" => PacketOK(hand[m].packet)'
    <3>1. Broadcast(n, <<>>) /\ UNCHANGED <<now, hand>>
      BY <2>4 DEF broadcastControl
    <3>2. \A p \in net' : p \in net \/ PacketOK(p)'
      <4>1. <<>> \in Seq(Place) /\ DOMAIN <<>> = {}
        OBVIOUS
      <4>2. PICK rs \in Seq(Place) : rs = <<>> /\ DOMAIN rs = {}
        BY <4>1
      <4>3. Broadcast(n, rs)
        BY <3>1, <4>2
      <4>4. QED BY <3>1, <4>2, <4>3, SentSound
    <3>3. QED BY <1>4, <2>2, <3>1, <3>2 DEF SoundInv, PacketOK
  <2>5. ASSUME NEW n \in Node, broadcastGossip(n)
        PROVE  /\ \A p \in net' : PacketOK(p)'
               /\ \A m \in Node : hand'[m].step # "none" => PacketOK(hand[m].packet)'
    <3>1. DEFINE routes == [i \in DOMAIN ListRoutes(n) |-> ListRoutes(n)[i].dst]
                 most == IF Len(routes) > GossipMaxRoutes THEN GossipMaxRoutes ELSE Len(routes)
                 said == SubSeq(routes, 1, most)
    <3>2. /\ UNCHANGED <<now, hand>>
          /\ net' = net \/ Broadcast(n, said)
          /\ n \in Gossips
      BY <2>5 DEF broadcastGossip
    <3>3. /\ said \in Seq(Place)
          /\ \A k \in DOMAIN said : \E i \in DOMAIN table[n] :
               said[k] = table[n][i].dst /\ Live(table[n][i])
      BY GossipFacts DEF TypeInv
    <3> HIDE DEF said
    <3>4. \A p \in net' : p \in net \/ PacketOK(p)'
      BY <3>2, <3>3, SentSound
    <3>5. QED BY <1>4, <2>2, <3>2, <3>4 DEF SoundInv, PacketOK
  <2>6. ASSUME NEW n \in Node, NEW p \in net, Receive(n, p)
        PROVE  /\ \A q \in net' : PacketOK(q)'
               /\ \A m \in Node : hand'[m].step # "none" => PacketOK(hand[m].packet)'
    <3>1. /\ now' = now /\ net' \subseteq net
          /\ hand' = [hand EXCEPT ![n] = [step |-> "check", packet |-> p, rest |-> p.routes]]
      BY <2>6 DEF Receive
    <3>2. \A q \in net : PacketOK(q)'
      BY <1>4, <3>1 DEF SoundInv, PacketOK
    <3>3. ASSUME NEW m \in Node, hand'[m].step # "none" PROVE PacketOK(hand[m].packet)'
      <4>1. CASE m = n
        <5>1. hand'[m].packet = p
          BY <3>1, <4>1 DEF TypeInv, Types
        <5>2. QED BY <3>2, <5>1 DEF PacketOK, Within
      <4>2. CASE m # n
        <5>1. hand'[m] = hand[m]
          BY <3>1, <4>2 DEF TypeInv, Types
        <5>2. QED BY <1>5, <3>1, <3>3, <5>1 DEF SoundInv, PacketOK
      <4>3. QED BY <4>1, <4>2
    <3>4. QED BY <3>1, <3>2, <3>3
  <2>7. ASSUME NEW n \in Node, RejectParse(n) \/ RejectAuth(n) \/ Accept(n) \/ Stop(n)
        PROVE  /\ \A p \in net' : PacketOK(p)'
               /\ \A m \in Node : hand'[m].step # "none" => PacketOK(hand[m].packet)'
    <3>1. UNCHANGED <<now, net>> /\ hand' = [hand EXCEPT ![n] = [step |-> "none"]]
      BY <2>7 DEF RejectParse, RejectAuth, Accept, Stop, Finish
    <3>2. \A m \in Node : hand'[m].step = "none" \/ hand'[m] = hand[m]
      BY <3>1 DEF TypeInv, Types
    <3>3. QED BY <2>1, <2>2, <3>1, <3>2
  <2>8. ASSUME NEW n \in Node, RouteSender(n) \/ NotePeer(n) \/ ApplyGossip(n)
        PROVE  /\ \A p \in net' : PacketOK(p)'
               /\ \A m \in Node : hand'[m].step # "none" => PacketOK(hand[m].packet)'
    <3>1. UNCHANGED <<now, net>> /\ hand[n].step # "none"
      BY <2>8 DEF RouteSender, NotePeer, ApplyGossip
    <3>2. \A m \in Node : hand'[m] = hand[m] \/ (m = n /\ hand'[m].packet = hand[m].packet)
      <4>1. "packet" \in DOMAIN hand[n] /\ "rest" \in DOMAIN hand[n]
        <5>1. Types
          BY DEF TypeInv
        <5>2. hand[n] = [step |-> hand[n].step, packet |-> hand[n].packet, rest |-> hand[n].rest]
          BY <3>1, <5>1, HandTypes
        <5>3. QED BY <5>2
      <4>2. CASE RouteSender(n) \/ NotePeer(n)
        <5>1. PICK s : hand' = [hand EXCEPT ![n].step = s]
          BY <4>2 DEF RouteSender, NotePeer, Go
        <5>2. QED BY <4>1, <5>1 DEF TypeInv, Types
      <4>3. CASE ApplyGossip(n)
        <5>1. hand' = [hand EXCEPT ![n].rest = Tail(@)]
          BY <4>3 DEF ApplyGossip
        <5>2. QED BY <4>1, <5>1 DEF TypeInv, Types
      <4>4. QED BY <2>8, <4>2, <4>3
    <3>3. \A m \in Node : \/ hand'[m].step = "none"
                          \/ hand[m].step # "none" /\ hand'[m].packet = hand[m].packet
      BY <3>1, <3>2
    <3>4. QED BY <2>1, <2>2, <3>1, <3>3
  <2>9. ASSUME \/ \E n \in Node : \/ Sample(n) \/ Start(n)
                                  \/ \E d \in Destination : Delete(n, d)
               \/ \E s \in Service : AddService(s)
        PROVE  /\ \A p \in net' : PacketOK(p)'
               /\ \A m \in Node : hand'[m].step # "none" => PacketOK(hand[m].packet)'
    <3>1. UNCHANGED <<now, net, hand>>
      BY <2>9 DEF Sample, Start, Delete, AddService
    <3>2. QED BY <2>1, <2>2, <3>1
  <2>10. ASSUME NEW p \in Stray, Send(p)
         PROVE  /\ \A q \in net' : PacketOK(q)'
                /\ \A m \in Node : hand'[m].step # "none" => PacketOK(hand[m].packet)'
    <3>1. PICK q : q = [p EXCEPT !.sent = now]
      OBVIOUS
    <3>2. q.from = Nobody /\ q.sent = now
      BY <3>1, StrayAssumption DEF StrayAssumption, Packet
    <3>3. net' = net \cup {q} /\ UNCHANGED <<now, hand>>
      BY <2>10, <3>1 DEF Send
    <3>4. PacketOK(q)'
      <4>1. MaxDelay \in Nat
        BY MeshAssumption DEF MeshAssumption
      <4>2. QED BY <1>3, <3>2, <3>3, <4>1 DEF PacketOK
    <3>5. \A r \in net : PacketOK(r)'
      BY <1>4, <3>3 DEF SoundInv, PacketOK
    <3>6. QED BY <2>2, <3>3, <3>4, <3>5
  <2>11. CASE Tick
    <3>1. /\ hand' = hand
          /\ \A n \in Node : hand[n].step # "none" => now' <= hand[n].packet.sent + MaxDelay
          /\ \A p \in net' : p \in net /\ now' <= p.sent + MaxDelay
      BY <2>11 DEF Tick
    <3>2. QED BY <1>4, <1>5, <3>1
  <2>12. QED
    BY <2>3, <2>4, <2>5, <2>6, <2>7, <2>8, <2>9, <2>10, <2>11 DEF Next
<1>7. QED BY <1>1, <1>2, <1>6, TablesSound DEF SoundInv

LEMMA SoundForgets == TypeInv /\ SoundInv => ForgottenInTime
<1> SUFFICES ASSUME TypeInv, SoundInv, NEW n \in Settled, NEW d \in Destination, Served(n, d)
             PROVE  /\ spoke[d] # NoTime
                    /\ now <= spoke[d] + Hops[n] * (RouteTTL + MaxDelay)
  BY DEF ForgottenInTime
<1>1. PICK i \in DOMAIN table[n] : table[n][i].dst = d /\ Live(table[n][i])
  BY DEF Served
<1>2. n \in Node /\ table[n][i] \in Route /\ RouteOK(n, table[n][i])
  BY HopFacts DEF TypeInv, Types, SoundInv
<1>3. now \in Nat /\ spoke[d] \in Nat \cup {NoTime} /\ NoTime \notin Int
  BY MeshAssumption DEF TypeInv, Types, Time, MeshAssumption
<1>4. PICK a \in Nat : a = Hops[n] * HopTime /\ a = Hops[n] * (RouteTTL + MaxDelay)
  BY HopFacts
<1>5. CASE table[n][i].expires = NoTime
  <2>1. d \in Service /\ n = Home[d]
    BY <1>1, <1>2, <1>5 DEF RouteOK
  <2>2. spoke[d] = now
    BY <1>1, <1>5, <2>1 DEF SoundInv, Permanent
  <2>3. QED BY <1>3, <1>4, <2>2
<1>6. CASE table[n][i].expires # NoTime
  <2>1. /\ spoke[d] # NoTime /\ table[n][i].expires \in Nat /\ table[n][i].expires <= spoke[d] + a
        /\ now <= table[n][i].expires
    BY <1>1, <1>2, <1>4, <1>6 DEF RouteOK, Within, Route, Time, Live
  <2>2. QED BY <1>3, <1>4, <2>1
<1>7. QED BY <1>5, <1>6

-----------------------------------------------------------------------------
(* A peer that was seen has a route. *)

\* A route to d that lives until t at least.
Fresh(n, d, t) ==
  \E i \in DOMAIN table[n] :
    table[n][i].dst = d /\ (table[n][i].expires = NoTime \/ t <= table[n][i].expires)

SeenInv ==
  /\ \A n \in Node : n \notin up => \A p \in Address : peers[n][p].at = NoTime
  /\ \A n \in Node, p \in Address :
       LET seen == peers[n][p].at
       IN  seen # NoTime =>
             /\ seen <= now
             /\ p \notin dropped[n] /\ now <= seen + RouteTTL - MaxDelay =>
                  Fresh(n, p, seen + RouteTTL - MaxDelay)
  /\ \A n \in Node :
       hand[n].step \in {"gossip", "accept"} =>
         LET p == hand[n].packet
         IN  p.addr \notin dropped[n] /\ now <= p.sent + RouteTTL =>
               Fresh(n, p.addr, p.sent + RouteTTL)

\* Who changes what of a node.
LEMMA SeenFrame ==
  ASSUME TypeInv, [Next]_vars, NEW n \in Node
  PROVE  /\ n \notin up' => n \notin up \/ Stop(n)
         /\ peers'[n] = peers[n] \/ NotePeer(n) \/ Stop(n)
         /\ hand'[n].step \in {"gossip", "accept"} =>
              \/ RouteSender(n)
              \/ hand[n].step \in {"gossip", "accept"} /\ hand'[n].packet = hand[n].packet
         /\ \/ dropped'[n] = dropped[n] \/ Stop(n)
            \/ RouteSender(n)
            \/ \E s \in Service : dropped'[n] = dropped[n] \ {s}
            \/ \E d \in Destination : Delete(n, d) /\ dropped'[n] = dropped[n] \cup {d}
<1> DEFINE P == /\ n \notin up' => n \notin up \/ Stop(n)
                /\ peers'[n] = peers[n] \/ NotePeer(n) \/ Stop(n)
                /\ hand'[n].step \in {"gossip", "accept"} =>
                     \/ RouteSender(n)
                     \/ hand[n].step \in {"gossip", "accept"} /\ hand'[n].packet = hand[n].packet
                /\ \/ dropped'[n] = dropped[n] \/ Stop(n)
                   \/ RouteSender(n)
                   \/ \E s \in Service : dropped'[n] = dropped[n] \ {s}
                   \/ \E d \in Destination : Delete(n, d) /\ dropped'[n] = dropped[n] \cup {d}
<1>1. /\ peers \in [Node -> [Sender -> PeerStat]] /\ hand \in [Node -> Hand]
      /\ dropped \in [Node -> SUBSET Place]
  BY DEF TypeInv, Types
<1>2. CASE UNCHANGED vars
  BY <1>2 DEF vars, node, ghosts
<1>3. ASSUME NEW m \in Node,
             broadcastControl(m) \/ broadcastGossip(m) \/ Sample(m)
      PROVE  P
  BY <1>3 DEF broadcastControl, broadcastGossip, Sample, node
<1>4. CASE Tick \/ \E p \in Stray : Send(p)
  BY <1>4 DEF Tick, Send, node
<1>5. ASSUME NEW m \in Node, NEW p \in net, Receive(m, p) PROVE P
  <2>1. /\ UNCHANGED <<up, peers, dropped>>
        /\ hand' = [hand EXCEPT ![m] = [step |-> "check", packet |-> p, rest |-> p.routes]]
    BY <1>5 DEF Receive, node
  <2>2. hand'[n] = hand[n] \/ hand'[n].step = "check"
    BY <1>1, <2>1
  <2>3. QED BY <2>1, <2>2
<1>6. ASSUME NEW m \in Node, RejectParse(m) \/ RejectAuth(m) \/ Accept(m) PROVE P
  <2>1. UNCHANGED <<up, peers, dropped>> /\ hand' = [hand EXCEPT ![m] = [step |-> "none"]]
    BY <1>6 DEF RejectParse, RejectAuth, Accept, Finish, node, ghosts
  <2>2. hand'[n] = hand[n] \/ hand'[n].step = "none"
    BY <1>1, <2>1
  <2>3. QED BY <2>1, <2>2
<1>7. ASSUME NEW m \in Node, RouteSender(m) PROVE P
  <2>1. /\ UNCHANGED <<up, peers>> /\ hand' = [hand EXCEPT ![m].step = "gossip"]
        /\ dropped' = [dropped EXCEPT ![m] = @ \ {hand[m].packet.addr}]
    BY <1>7 DEF RouteSender, Go, node
  <2>2. CASE m = n
    BY <1>7, <2>1, <2>2
  <2>3. CASE m # n
    <3>1. hand'[n] = hand[n] /\ dropped'[n] = dropped[n]
      BY <1>1, <2>1, <2>3
    <3>2. QED BY <2>1, <3>1
  <2>4. QED BY <2>2, <2>3
<1>8. ASSUME NEW m \in Node, ApplyGossip(m) PROVE P
  <2>1. /\ UNCHANGED <<up, peers, dropped>> /\ hand' = [hand EXCEPT ![m].rest = Tail(@)]
        /\ hand[m].step = "gossip"
    BY <1>8 DEF ApplyGossip, node, ghosts
  <2>2. "packet" \in DOMAIN hand[m] /\ "step" \in DOMAIN hand[m]
    <3>1. PICK s, p, r : hand[m] = [step |-> s, packet |-> p, rest |-> r]
      BY <2>1, HandTypes DEF TypeInv
    <3>2. QED BY <3>1
  <2>3. hand'[n] = hand[n] \/ (n = m /\ hand'[n].step = hand[n].step /\ hand'[n].packet = hand[n].packet)
    BY <1>1, <2>1, <2>2
  <2>4. QED BY <2>1, <2>3
<1>9. ASSUME NEW m \in Node, NotePeer(m) PROVE P
  <2>1. /\ UNCHANGED <<up, dropped>> /\ hand' = [hand EXCEPT ![m].step = "accept"]
        /\ hand[m].step = "gossip"
    BY <1>9 DEF NotePeer, Go, node, ghosts
  <2>2. "packet" \in DOMAIN hand[m]
    <3>1. PICK s, p, r : hand[m] = [step |-> s, packet |-> p, rest |-> r]
      BY <2>1, HandTypes DEF TypeInv
    <3>2. QED BY <3>1
  <2>3. hand'[n] = hand[n] \/ (n = m /\ hand'[n].packet = hand[n].packet)
    BY <1>1, <2>1, <2>2
  <2>4. peers'[n] = peers[n] \/ NotePeer(n)
    <3>1. CASE m = n
      BY <1>9, <3>1
    <3>2. CASE m # n
      BY <1>1, <1>9, <3>2 DEF NotePeer
    <3>3. QED BY <3>1, <3>2
  <2>5. QED BY <2>1, <2>3, <2>4
<1>10. ASSUME NEW m \in Node, NEW d \in Destination, Delete(m, d) PROVE P
  <2>1. /\ UNCHANGED <<up, peers, hand>> /\ dropped' = [dropped EXCEPT ![m] = @ \cup {d}]
    BY <1>10 DEF Delete
  <2>2. dropped'[n] = dropped[n] \/ (m = n /\ dropped'[n] = dropped[n] \cup {d})
    BY <1>1, <2>1
  <2>3. QED BY <1>10, <2>1, <2>2
<1>11. ASSUME NEW s \in Service, AddService(s) PROVE P
  <2>1. /\ UNCHANGED <<up, peers, hand>> /\ dropped' = [dropped EXCEPT ![Home[s]] = @ \ {s}]
    BY <1>11 DEF AddService
  <2>2. dropped'[n] = dropped[n] \/ dropped'[n] = dropped[n] \ {s}
    BY <1>1, <2>1
  <2>3. QED BY <2>1, <2>2
<1>12. ASSUME NEW m \in Node, Stop(m) PROVE P
  <2>1. CASE m = n
    <3>1. hand'[n].step = "none"
      BY <1>1, <1>12, <2>1 DEF Stop, Finish
    <3>2. QED BY <1>12, <2>1, <3>1
  <2>2. CASE m # n
    <3>1. /\ up' = up \ {m} /\ peers'[n] = peers[n] /\ hand'[n] = hand[n]
          /\ dropped'[n] = dropped[n]
      BY <1>1, <1>12, <2>2 DEF Stop, Finish
    <3>2. QED BY <2>2, <3>1
  <2>3. QED BY <2>1, <2>2
<1>13. ASSUME NEW m \in Node, Start(m) PROVE P
  BY <1>13 DEF Start
<1> HIDE DEF P
<1>14. P
  BY <1>2, <1>3, <1>4, <1>5, <1>6, <1>7, <1>8, <1>9, <1>10, <1>11, <1>12, <1>13 DEF Next, P
<1>15. QED BY <1>14 DEF P

\* A route that still lives is kept, unless the API deletes it or the node stops.
LEMMA FreshStep ==
  ASSUME TypeInv, [Next]_vars, NEW n \in Node, NEW d, NEW t \in Int, Fresh(n, d, t), now <= t,
         ~Stop(n), ~Start(n), ~Delete(n, d)
  PROVE  Fresh(n, d, t)'
<1>1. PICK i \in DOMAIN table[n] :
        table[n][i].dst = d /\ (table[n][i].expires = NoTime \/ t <= table[n][i].expires)
  BY DEF Fresh
<1>2. Live(table[n][i])
  <2>1. table[n][i] \in Route /\ now \in Nat
    BY DEF TypeInv, Types, Time
  <2>2. QED BY <1>1, <2>1 DEF Live, Route, Time
<1>3. PICK k \in DOMAIN table'[n] : table'[n][k] = table[n][i]
  BY <1>1, <1>2, TableStep
<1>4. QED BY <1>1, <1>3 DEF Fresh

LEMMA SenderKept ==
  ASSUME TypeInv, NEW n \in Node, RouteSender(n)
  PROVE  hand'[n].packet = hand[n].packet
<1>1. PICK s, p, r : hand[n] = [step |-> s, packet |-> p, rest |-> r]
  BY HandTypes DEF RouteSender, TypeInv
<1>2. hand' = [hand EXCEPT ![n].step = "gossip"]
  BY DEF RouteSender, Go
<1>3. QED BY <1>1, <1>2 DEF TypeInv, Types

\* The route to the sender is the last of the table.
LEMMA SenderFresh ==
  ASSUME TypeInv, NEW n \in Node, RouteSender(n), NEW t \in Int, t <= now + RouteTTL
  PROVE  Fresh(n, hand[n].packet.addr, t)'
<1>1. /\ hand[n].packet.addr \in Place /\ RouteTTL \in Nat /\ RouteTTL > 0 /\ Types
  <2>1. hand[n].packet \in Packet
    BY HandTypes DEF RouteSender, TypeInv
  <2>2. QED BY <2>1, MeshAssumption DEF Sender, Packet, Place, Destination, MeshAssumption, TypeInv
<1>2. table'[n] = AddRouteWithTTL(n, hand[n].packet.addr, RouteTTL)
  BY DEF RouteSender, TypeInv, Types
<1>3. PICK k : /\ k = Len(table[n]) + 1 /\ k \in DOMAIN table'[n]
               /\ table'[n][k] = [dst |-> hand[n].packet.addr, expires |-> now + RouteTTL]
  <2>1. DEFINE new == AddRouteWithTTL(n, hand[n].packet.addr, RouteTTL)
               r == [dst |-> hand[n].packet.addr,
                     expires |-> IF RouteTTL > 0 THEN now + RouteTTL ELSE NoTime]
  <2>2. /\ DOMAIN new = DOMAIN table[n] \cup {Len(table[n]) + 1}
        /\ new[Len(table[n]) + 1] = r
    BY <1>1, AddFacts
  <2>3. r = [dst |-> hand[n].packet.addr, expires |-> now + RouteTTL]
    BY <1>1
  <2> HIDE DEF new, r
  <2>4. table'[n] = new
    BY <1>2 DEF new
  <2>5. QED BY <2>2, <2>3, <2>4
<1>4. table'[n][k].dst = hand[n].packet.addr /\ table'[n][k].expires = now + RouteTTL
  BY <1>3
<1>5. PICK a : a = hand[n].packet.addr
  OBVIOUS
<1>6. Fresh(n, a, t)'
  BY <1>3, <1>4, <1>5 DEF Fresh
<1>7. hand'[n].packet = hand[n].packet
  BY SenderKept
<1>8. QED BY <1>5, <1>6, <1>7

LEMMA SeenInit == Init => SeenInv
<1> SUFFICES ASSUME Init PROVE SeenInv
  OBVIOUS
<1>1. \A n \in Node : \A p \in Address : peers[n][p].at = NoTime
  BY DEF Sender, Init, Unseen
<1>2. \A n \in Node : hand[n].step = "none"
  BY DEF Init
<1>3. QED BY <1>1, <1>2 DEF SeenInv

LEMMA SeenStep == TypeInv /\ SoundInv /\ SeenInv /\ [Next]_vars => SeenInv'
<1> SUFFICES ASSUME TypeInv, SoundInv, SeenInv, [Next]_vars PROVE SeenInv'
  OBVIOUS
<1>1. /\ now \in Nat /\ now' \in Nat /\ now <= now' /\ RouteTTL \in Nat /\ MaxDelay \in Nat
      /\ NoTime \notin Int
  BY SpokeStep, MeshAssumption DEF TypeInv, Types, Time, MeshAssumption
<1>2. ASSUME NEW n \in Node, NEW p \in Address
      PROVE  peers[n][p].at \in Nat \cup {NoTime} /\ peers'[n][p].at \in Nat \cup {NoTime}
  <2>1. TypeInv'
    BY TypeStep
  <2>2. QED BY <2>1 DEF Sender, TypeInv, Types, PeerStat, Time
<1>3. ASSUME NEW n \in Node, Stop(n) PROVE \A p \in Address : peers'[n][p].at = NoTime
  BY <1>3 DEF Sender, Stop, TypeInv, Types, Unseen
<1>4. ASSUME NEW n \in Node, hand[n].step # "none"
      PROVE  /\ hand[n].packet \in Packet /\ hand[n].packet.sent \in Nat /\ n \in up
             /\ hand[n].packet.sent <= now /\ now <= hand[n].packet.sent + MaxDelay
             /\ hand[n].packet.addr \in Sender /\ hand[n].packet.addr \notin Service
  <2>1. hand[n].packet \in Packet /\ n \in up /\ PacketOK(hand[n].packet)
    BY <1>4, HandTypes DEF TypeInv, HandOK, SoundInv
  <2>2. QED BY <2>1, MeshAssumption DEF Packet, Time, PacketOK, MeshAssumption, Destination, Sender
<1>5. ASSUME NEW n \in Node, NotePeer(n)
      PROVE  LET a == hand[n].packet.addr
             IN  /\ peers'[n][a].at = now /\ \A p \in Address : p # a => peers'[n][p] = peers[n][p]
                 /\ UNCHANGED <<table, dropped, now, up>> /\ hand[n].step = "gossip"
  <2>1. DEFINE a == hand[n].packet.addr
  <2>2. /\ hand[n].step = "gossip" /\ UNCHANGED <<table, dropped, now, up>>
        /\ peers' = [peers EXCEPT ![n][a] = [at |-> now, packets |-> peers[n][a].packets + 1]]
    BY <1>5 DEF NotePeer, ghosts, node
  <2>3. a \in Sender
    BY <1>4, <2>2
  <2> HIDE DEF a
  <2>4. peers'[n] = [peers[n] EXCEPT ![a] = [at |-> now, packets |-> peers[n][a].packets + 1]]
    BY <2>2 DEF TypeInv, Types
  <2>5. peers'[n][a] = [at |-> now, packets |-> peers[n][a].packets + 1]
    BY <2>3, <2>4 DEF TypeInv, Types
  <2>6. \A p \in Address : p # a => peers'[n][p] = peers[n][p]
    BY <2>4 DEF TypeInv, Types
  <2>7. peers'[n][a].at = now
    BY <2>5
  <2>8. QED BY <2>2, <2>6, <2>7 DEF a
<1>6. ASSUME NEW n \in Node, n \notin up', NEW p \in Address PROVE peers'[n][p].at = NoTime
  <2>1. CASE Stop(n)
    BY <1>3, <2>1
  <2>2. CASE ~Stop(n)
    <3>1. n \notin up
      BY <1>6, <2>2, SeenFrame
    <3>2. ~NotePeer(n)
      BY <1>4, <3>1 DEF NotePeer
    <3>3. peers'[n] = peers[n]
      BY <2>2, <3>2, SeenFrame
    <3>4. QED BY <3>1, <3>3 DEF SeenInv
  <2>3. QED BY <2>1, <2>2
<1>7. ASSUME NEW n \in Node, NEW p \in Address, peers'[n][p].at # NoTime
      PROVE  /\ peers'[n][p].at <= now'
             /\ p \notin dropped'[n] /\ now' <= peers'[n][p].at + RouteTTL - MaxDelay =>
                  Fresh(n, p, peers[n][p].at + RouteTTL - MaxDelay)'
  <2>1. PICK u : u = peers'[n][p].at
    OBVIOUS
  <2>2. u \in Nat
    BY <1>2, <1>7, <2>1
  <2>3. SUFFICES /\ u <= now'
                 /\ p \notin dropped'[n] /\ now' <= u + RouteTTL - MaxDelay =>
                      Fresh(n, p, u + RouteTTL - MaxDelay)'
    BY <2>1 DEF Fresh
  <2>4. CASE NotePeer(n) /\ p = hand[n].packet.addr
    <3>1. /\ hand[n].step = "gossip" /\ u = now /\ UNCHANGED <<table, dropped, now>>
      BY <1>5, <2>1, <2>4
    <3>2. ASSUME p \notin dropped'[n], now' <= u + RouteTTL - MaxDelay
          PROVE  Fresh(n, p, u + RouteTTL - MaxDelay)'
      <4>1. PICK x \in Nat : x = hand[n].packet.sent
        BY <1>4, <3>1
      <4>2. /\ x <= now /\ now <= x + MaxDelay /\ now <= x + RouteTTL
            /\ u + RouteTTL - MaxDelay <= x + RouteTTL
        BY <1>1, <1>4, <3>1, <3>2, <4>1
      <4>3. Fresh(n, p, x + RouteTTL)
        BY <2>4, <3>1, <3>2, <4>1, <4>2 DEF SeenInv
      <4>4. Fresh(n, p, u + RouteTTL - MaxDelay)
        <5>1. PICK i \in DOMAIN table[n] :
                /\ table[n][i].dst = p
                /\ table[n][i].expires = NoTime \/ x + RouteTTL <= table[n][i].expires
          BY <4>3 DEF Fresh
        <5>2. table[n][i].expires \in Nat \cup {NoTime}
          <6>1. table[n][i] \in Route
            BY DEF TypeInv, Types
          <6>2. QED BY <6>1 DEF Route, Time
        <5>3. table[n][i].expires = NoTime \/ u + RouteTTL - MaxDelay <= table[n][i].expires
          BY <1>1, <2>2, <4>2, <5>1, <5>2
        <5>4. QED BY <5>1, <5>3 DEF Fresh
      <4>5. QED BY <3>1, <4>4 DEF Fresh
    <3>3. QED BY <1>1, <3>1, <3>2
  <2>5. CASE ~(NotePeer(n) /\ p = hand[n].packet.addr)
    <3>1. ~Stop(n)
      BY <1>3, <1>7
    <3>2. peers'[n][p] = peers[n][p]
      <4>1. CASE NotePeer(n)
        BY <1>5, <2>5, <4>1
      <4>2. CASE ~NotePeer(n)
        BY <3>1, <4>2, SeenFrame
      <4>3. QED BY <4>1, <4>2
    <3>3. u = peers[n][p].at /\ u # NoTime /\ u <= now /\ n \in up
      BY <1>7, <2>1, <3>2 DEF SeenInv
    <3>4. ~Start(n)
      BY <3>3 DEF Start
    <3>5. ASSUME p \notin dropped'[n], now' <= u + RouteTTL - MaxDelay
          PROVE  Fresh(n, p, u + RouteTTL - MaxDelay)'
      <4>1. PICK t \in Int : t = u + RouteTTL - MaxDelay
        BY <1>1, <2>2
      <4>2. now <= t /\ t <= now + RouteTTL
        BY <1>1, <2>2, <3>3, <3>5, <4>1
      <4>3. CASE p \notin dropped[n]
        <5>1. Fresh(n, p, t)
          BY <3>3, <4>1, <4>2, <4>3 DEF SeenInv
        <5>2. ~Delete(n, p)
          BY <3>5 DEF Delete, TypeInv, Types
        <5>3. Fresh(n, p, t)'
          BY <3>1, <3>4, <4>2, <5>1, <5>2, FreshStep
        <5>4. QED BY <4>1, <5>3
      <4>4. CASE p \in dropped[n]
        <5>1. RouteSender(n) /\ p = hand[n].packet.addr
          <6>1. RouteSender(n)
            <7>1. p \notin Service
              BY MeshAssumption DEF MeshAssumption
            <7>2. QED BY <3>1, <3>5, <4>4, <7>1, SeenFrame
          <6>2. dropped'[n] = dropped[n] \ {hand[n].packet.addr}
            BY <6>1 DEF RouteSender, TypeInv, Types
          <6>3. QED BY <3>5, <4>4, <6>1, <6>2
        <5>2. Fresh(n, hand[n].packet.addr, t)'
          BY <4>2, <5>1, SenderFresh
        <5>3. hand'[n].packet = hand[n].packet
          BY <5>1, SenderKept
        <5>4. QED BY <4>1, <5>1, <5>2, <5>3
      <4>5. QED BY <4>3, <4>4
    <3>6. QED BY <1>1, <2>2, <3>3, <3>5
  <2>6. QED BY <2>4, <2>5
<1>8. ASSUME NEW n \in Node, hand'[n].step \in {"gossip", "accept"},
             hand'[n].packet.addr \notin dropped'[n],
             now' <= hand'[n].packet.sent + RouteTTL
      PROVE  Fresh(n, hand[n].packet.addr, hand[n].packet.sent + RouteTTL)'
  <2>1. CASE RouteSender(n)
    <3>1. hand'[n].packet = hand[n].packet
      BY <2>1, SenderKept
    <3>2. PICK t \in Int : t = hand[n].packet.sent + RouteTTL /\ t <= now + RouteTTL
      BY <1>1, <1>4, <2>1 DEF RouteSender
    <3>3. Fresh(n, hand[n].packet.addr, t)'
      BY <2>1, <3>2, SenderFresh
    <3>4. t = hand'[n].packet.sent + RouteTTL
      BY <3>1, <3>2
    <3>5. QED BY <3>3, <3>4
  <2>2. CASE ~RouteSender(n)
    <3>1. hand[n].step \in {"gossip", "accept"} /\ hand'[n].packet = hand[n].packet
      BY <1>8, <2>2, SeenFrame
    <3>2. PICK a, t : a = hand[n].packet.addr /\ t = hand[n].packet.sent + RouteTTL
      OBVIOUS
    <3>3. /\ n \in up /\ t \in Int /\ a \notin Service /\ a \notin dropped'[n] /\ now' <= t
          /\ now <= t
      BY <1>1, <1>4, <1>8, <3>1, <3>2
    <3>4. ~Stop(n) /\ ~Start(n)
      BY <1>8, <3>3 DEF Stop, Start, Finish, TypeInv, Types
    <3>5. a \notin dropped[n]
      BY <2>2, <3>3, <3>4, SeenFrame
    <3>6. Fresh(n, a, t)
      BY <3>1, <3>2, <3>3, <3>5 DEF SeenInv
    <3>7. ~Delete(n, a)
      BY <3>3 DEF Delete, TypeInv, Types
    <3>8. Fresh(n, a, t)'
      BY <3>3, <3>4, <3>6, <3>7, FreshStep
    <3>9. a = hand'[n].packet.addr /\ t = hand'[n].packet.sent + RouteTTL
      BY <3>1, <3>2
    <3>10. QED BY <3>8, <3>9
  <2>3. QED BY <2>1, <2>2
<1>9. QED BY <1>6, <1>7, <1>8 DEF SeenInv

LEMMA SeenHaveRoutes == TypeInv /\ SeenInv => SeenPeerHasRoute
<1> SUFFICES ASSUME TypeInv, SeenInv, NEW n \in Node, NEW p \in Address,
                    peers[n][p].at # NoTime, now + MaxDelay <= peers[n][p].at + RouteTTL,
                    p \notin dropped[n]
             PROVE  Served(n, p)
  BY DEF SeenPeerHasRoute
<1>1. PICK t : t = peers[n][p].at + RouteTTL - MaxDelay
  OBVIOUS
<1>2. peers[n][p].at \in Nat /\ now \in Nat /\ RouteTTL \in Nat /\ MaxDelay \in Nat
  BY MeshAssumption DEF Sender, TypeInv, Types, PeerStat, Time, MeshAssumption
<1>3. t \in Int /\ now <= t
  BY <1>1, <1>2
<1>4. Fresh(n, p, t)
  BY <1>1, <1>3 DEF SeenInv
<1>5. PICK i \in DOMAIN table[n] :
        table[n][i].dst = p /\ (table[n][i].expires = NoTime \/ t <= table[n][i].expires)
  BY <1>4 DEF Fresh
<1>6. table[n][i].expires \in Nat \cup {NoTime}
  <2>1. table[n][i] \in Route
    BY DEF TypeInv, Types
  <2>2. QED BY <2>1 DEF Route, Time
<1>7. Live(table[n][i])
  BY <1>2, <1>3, <1>5, <1>6 DEF Live
<1>8. QED BY <1>5, <1>7 DEF Served

\* A node that gossip reaches over finitely many hops, every node where none gossips, forgets
\* a silent address or service within RouteTTL + MaxDelay per hop, although gossip renews the
\* life of a route at each hop (handlePacket); and in every mesh a peer that PeerHealth shows
\* as seen lately has a live route.
THEOREM RoutesFollowPeersAlways == Spec => []RoutesFollowPeers
<1>1. TypeInv /\ SoundInv /\ SeenInv => RoutesFollowPeers
  BY SoundForgets, SeenHaveRoutes DEF RoutesFollowPeers
<1>2. Init => TypeInv /\ SoundInv /\ SeenInv
  BY TypeInit, SoundInit, SeenInit
<1>3. TypeInv /\ SoundInv /\ SeenInv /\ [Next]_vars => (TypeInv /\ SoundInv /\ SeenInv)'
  BY TypeStep, SoundStep, SeenStep
<1>4. QED BY <1>1, <1>2, <1>3, PTL DEF Spec

-----------------------------------------------------------------------------
(* The roll-out: what a node signs, its peers verify when it arrives. *)

\* A packet of a node is signed under a list that is at most one step from that of any node
\* now, and if no node has moved since it was sent, under the list that its sender has.
Current(p) ==
  p.from # Nobody =>
    \E m \in Node : \E q \in DOMAIN Peers[m] : \E i \in DOMAIN Rollout :
      /\ SentBy(p, m, q, i)
      /\ \A r \in Node : i <= stage[r] + 1 /\ stage[r] <= i + 1
      /\ rolled < p.sent => i = stage[m]

RollInv ==
  /\ \A m, n \in Node : stage[m] <= stage[n] + 1
  /\ \A p \in net : Current(p)
  /\ \A n \in Node : hand[n].step # "none" => Current(hand[n].packet)
  /\ refused \cap {Source[n] : n \in Node} = {}

\* Where the packets of a step come from, and what it does to the stages.
LEMMA PacketFrame ==
  ASSUME TypeInv, [Next]_vars
  PROVE  /\ \A p \in net' :
              \/ p \in net \/ p.from = Nobody
              \/ /\ p.sent = now /\ UNCHANGED <<stage, rolled>>
                 /\ \E n \in Node : \E q \in DOMAIN Peers[n] : SentBy(p, n, q, stage[n])
         /\ \A n \in Node : hand'[n].step # "none" =>
              \/ hand'[n].packet \in net
              \/ hand[n].step # "none" /\ hand'[n].packet = hand[n].packet
         /\ \/ UNCHANGED <<stage, rolled>>
            \/ \E n \in Node : /\ MayRoll(n) /\ stage' = [stage EXCEPT ![n] = @ + 1]
                               /\ rolled' = now /\ now' = now
         /\ refused' = refused \/ \E n \in Node : RejectAuth(n)
<1> DEFINE Sent(p) == /\ p.sent = now
                      /\ \E n \in Node : \E q \in DOMAIN Peers[n] : SentBy(p, n, q, stage[n])
           N == \A p \in net' : p \in net \/ p.from = Nobody \/ (UNCHANGED <<stage, rolled>> /\ Sent(p))
           H == \A n \in Node : hand'[n].step # "none" =>
                  \/ hand'[n].packet \in net
                  \/ hand[n].step # "none" /\ hand'[n].packet = hand[n].packet
           S == \/ UNCHANGED <<stage, rolled>>
                \/ \E n \in Node : /\ MayRoll(n) /\ stage' = [stage EXCEPT ![n] = @ + 1]
                                   /\ rolled' = now /\ now' = now
           R == refused' = refused \/ \E n \in Node : RejectAuth(n)
           P == N /\ H /\ S /\ R
<1> HIDE DEF Sent
<1>1. hand \in [Node -> Hand] /\ Types
  BY DEF TypeInv, Types
<1>2. ASSUME UNCHANGED vars PROVE P
  <2>1. UNCHANGED <<net, hand, stage, rolled, refused>>
    BY <1>2 DEF vars, node, ghosts
  <2>2. QED BY <2>1
<1>3. ASSUME NEW n \in Node, broadcastControl(n) \/ broadcastGossip(n) PROVE P
  <2>1. UNCHANGED <<hand, stage, rolled, refused>>
    BY <1>3 DEF broadcastControl, broadcastGossip, node
  <2>2. net' = net \/ \E rs \in Seq(Place) : Broadcast(n, rs)
    <3>1. CASE broadcastControl(n)
      <4>1. <<>> \in Seq(Place)
        OBVIOUS
      <4>2. QED BY <3>1, <4>1 DEF broadcastControl
    <3>2. CASE broadcastGossip(n)
      <4>1. DEFINE routes == [i \in DOMAIN ListRoutes(n) |-> ListRoutes(n)[i].dst]
                   most == IF Len(routes) > GossipMaxRoutes THEN GossipMaxRoutes ELSE Len(routes)
                   said == SubSeq(routes, 1, most)
      <4>2. said \in Seq(Place)
        BY <1>1, GossipFacts
      <4>3. net' = net \/ Broadcast(n, said)
        BY <3>2 DEF broadcastGossip
      <4> HIDE DEF said
      <4>4. QED BY <4>2, <4>3
    <3>3. QED BY <1>3, <3>1, <3>2
  <2>3. ASSUME NEW rs \in Seq(Place), Broadcast(n, rs), NEW p \in net', p \notin net PROVE Sent(p)
    BY <1>1, <2>3, BroadcastFacts DEF Sent
  <2>4. N
    BY <2>1, <2>2, <2>3
  <2>5. QED BY <2>1, <2>4
<1>4. ASSUME NEW n \in Node, NEW p \in net, Receive(n, p) PROVE P
  <2>1. /\ net' \subseteq net /\ UNCHANGED <<stage, rolled, refused>>
        /\ hand' = [hand EXCEPT ![n] = [step |-> "check", packet |-> p, rest |-> p.routes]]
    BY <1>4 DEF Receive, node
  <2>2. \A m \in Node : hand'[m] = hand[m] \/ hand'[m].packet = p
    BY <1>1, <2>1
  <2>3. H
    BY <2>2
  <2>4. QED BY <2>1, <2>3
<1>5. ASSUME NEW n \in Node, RejectParse(n) \/ RejectAuth(n) \/ Accept(n) \/ Stop(n)
      PROVE  P
  <2>1. net' = net /\ UNCHANGED <<stage, rolled>> /\ hand' = [hand EXCEPT ![n] = [step |-> "none"]]
    BY <1>5 DEF RejectParse, RejectAuth, Accept, Stop, Finish, node, ghosts
  <2>2. \A m \in Node : hand'[m].step = "none" \/ hand'[m] = hand[m]
    BY <1>1, <2>1
  <2>3. R
    BY <1>5 DEF RejectParse, Accept, Stop, ghosts
  <2>4. QED BY <2>1, <2>2, <2>3
<1>6. ASSUME NEW n \in Node, RouteSender(n) \/ NotePeer(n) \/ ApplyGossip(n)
      PROVE  P
  <2>1. UNCHANGED <<net, stage, rolled, refused>> /\ hand[n].step # "none"
    BY <1>6 DEF RouteSender, NotePeer, ApplyGossip, node, ghosts
  <2>2. hand[n] = [step |-> hand[n].step, packet |-> hand[n].packet, rest |-> hand[n].rest]
    BY <1>1, <2>1, HandTypes
  <2>3. \/ \E x : hand' = [hand EXCEPT ![n].step = x]
        \/ \E x : hand' = [hand EXCEPT ![n].rest = x]
    BY <1>6 DEF RouteSender, NotePeer, ApplyGossip, Go
  <2>4. \A m \in Node : hand'[m] = hand[m] \/ (m = n /\ hand'[m].packet = hand[m].packet)
    <3>1. "packet" \in DOMAIN hand[n]
      BY <2>2
    <3>2. QED BY <1>1, <2>3, <3>1
  <2>5. H
    BY <2>1, <2>4
  <2>6. QED BY <2>1, <2>5
<1>7. ASSUME \/ \E n \in Node : Sample(n) \/ \E d \in Destination : Delete(n, d)
             \/ \E s \in Service : AddService(s)
      PROVE  P
  <2>1. UNCHANGED <<net, hand, stage, rolled, refused>>
    BY <1>7 DEF Sample, Delete, AddService, node
  <2>2. QED BY <2>1
<1>8. ASSUME NEW n \in Node, Start(n) PROVE P
  <2>1. /\ UNCHANGED <<net, hand, refused, now>>
        /\ \/ UNCHANGED <<stage, rolled>>
           \/ MayRoll(n) /\ stage' = [stage EXCEPT ![n] = @ + 1] /\ rolled' = now
    BY <1>8 DEF Start
  <2>2. QED BY <2>1
<1>9. ASSUME NEW p \in Stray, Send(p) PROVE P
  <2>1. PICK q : q = [p EXCEPT !.sent = now]
    OBVIOUS
  <2>2. q.from = Nobody
    BY <2>1, StrayAssumption DEF StrayAssumption, Packet
  <2>3. net' = net \cup {q} /\ UNCHANGED <<hand, stage, rolled, refused>>
    BY <1>9, <2>1 DEF Send, node
  <2>4. QED BY <2>2, <2>3
<1>10. ASSUME Tick PROVE P
  <2>1. net' \subseteq net /\ UNCHANGED <<hand, stage, rolled, refused>>
    BY <1>10 DEF Tick, node
  <2>2. QED BY <2>1
<1> HIDE DEF P
<1>11. P
  BY <1>2, <1>3, <1>4, <1>5, <1>6, <1>7, <1>8, <1>9, <1>10 DEF Next
<1>12. QED BY <1>11 DEF P, Sent

\* A packet that is current passes the check of the node it is for.
LEMMA OwnAreSigned ==
  ASSUME Types, NEW n \in Node, hand[n].step = "check", Current(hand[n].packet),
         hand[n].packet.to = n, hand[n].packet.from # Nobody
  PROVE  Signed(n)
<1> DEFINE p == hand[n].packet
           keys == keyCandidates(n, p.from, p.addr)
<1>0. PICK m \in Node : \E q \in DOMAIN Peers[m] : \E i \in DOMAIN Rollout :
        SentBy(p, m, q, i) /\ i <= stage[n] + 1 /\ stage[n] <= i + 1
  BY DEF Current
<1>1. PICK q \in DOMAIN Peers[m], i \in DOMAIN Rollout :
        SentBy(p, m, q, i) /\ i <= stage[n] + 1 /\ stage[n] <= i + 1
  BY <1>0
<1>2. /\ Peers[m][q] = n /\ p.from = Source[m] /\ p.addr = Bind[m] /\ p.own
      /\ p.sig = KeyAt(m, q, i)
  BY <1>1 DEF SentBy
<1>3. /\ stage[n] \in DOMAIN Rollout /\ 1 \in DOMAIN Rollout /\ stage[n] \in i - 1 .. i + 1
      /\ i \in Int
  <2>1. Rollout \in Seq(Seq(SharedKey)) /\ Rollout # <<>> /\ stage[n] \in DOMAIN Rollout
    BY KeyAssumption DEF KeyAssumption, Types
  <2>2. QED BY <1>1, <2>1
<1> DEFINE found == KeysOf(n, Bind[m]) \cup KeysOf(n, Source[m])
<1>4. keys = found \cup EntriesOf(Rollout[stage[n]])
  BY <1>2 DEF keyCandidates, SharedKeys
<1>5. IF q \in DOMAIN PeerKeys[m] THEN PeerKeys[m][q] \in found ELSE Rollout[1] # <<>> \/ found = {}
  BY <1>2, KeyAssumption DEF KeyAssumption
<1>6. NoKey \notin Key /\ found \subseteq Key
  BY KeyAssumption DEF KeyAssumption, KeysOf, Key
<1> HIDE DEF found, keys
<1>7. verifyControlPayload(p.sig, keys)
  <2>1. CASE q \in DOMAIN PeerKeys[m]
    <3>1. p.sig \in found
      BY <1>2, <1>5, <2>1 DEF KeyAt
    <3>2. QED BY <1>4, <1>6, <3>1 DEF verifyControlPayload
  <2>2. CASE q \notin DOMAIN PeerKeys[m] /\ Rollout[i] = <<>>
    <3>1. Rollout[1] = <<>> /\ Rollout[stage[n]] = <<>>
      BY <1>3, <2>2, KeyAssumption DEF KeyAssumption
    <3>2. keys = {}
      BY <1>4, <1>5, <2>2, <3>1 DEF EntriesOf
    <3>3. QED BY <3>2 DEF verifyControlPayload
  <2>3. CASE q \notin DOMAIN PeerKeys[m] /\ Rollout[i] # <<>>
    <3>1. Head(Rollout[i]) \in EntriesOf(Rollout[stage[n]])
      BY <1>3, <2>3, KeyAssumption DEF KeyAssumption
    <3>2. p.sig = Head(Rollout[i])
      BY <1>2, <2>3 DEF KeyAt
    <3>3. p.sig \in Key /\ p.sig \in keys
      BY <1>3, <1>4, <3>1, <3>2 DEF Key, SharedKey
    <3>4. QED BY <1>6, <3>3 DEF verifyControlPayload
  <2>4. QED BY <2>1, <2>2, <2>3
<1>8. QED BY <1>2, <1>7 DEF Signed, keys

LEMMA RollInit == Init => RollInv
<1> SUFFICES ASSUME Init PROVE RollInv
  OBVIOUS
<1>1. \A n \in Node : stage[n] = 1 /\ hand[n].step = "none"
  BY DEF Init
<1>2. net = {} /\ refused = {}
  BY DEF Init
<1>3. QED BY <1>1, <1>2 DEF RollInv

\* What was current is so after the step: either nobody moves, or the one who does was not
\* ahead of anybody, and if it is the first to move the packet was sent since the last move.
LEMMA CurrentStep ==
  ASSUME TypeInv, RollInv, [Next]_vars, NEW p \in Packet, Current(p), p.sent <= now,
         now <= p.sent + MaxDelay
  PROVE  Current(p)'
<1> SUFFICES ASSUME p.from # Nobody PROVE Current(p)'
  BY DEF Current
<1>0. PICK m \in Node : \E q \in DOMAIN Peers[m] : \E i \in DOMAIN Rollout :
        /\ SentBy(p, m, q, i) /\ (rolled < p.sent => i = stage[m])
        /\ \A r \in Node : i <= stage[r] + 1 /\ stage[r] <= i + 1
  BY DEF Current
<1>1. PICK q \in DOMAIN Peers[m], i \in DOMAIN Rollout :
        /\ SentBy(p, m, q, i) /\ (rolled < p.sent => i = stage[m])
        /\ \A r \in Node : i <= stage[r] + 1 /\ stage[r] <= i + 1
  BY <1>0
<1>2. CASE UNCHANGED <<stage, rolled>>
  BY <1>1, <1>2 DEF Current, SentBy
<1>3. ASSUME NEW n \in Node, MayRoll(n), stage' = [stage EXCEPT ![n] = @ + 1], rolled' = now
      PROVE  Current(p)'
  <2>1. /\ i \in Nat /\ p.sent \in Nat /\ now \in Nat /\ rolled \in Nat /\ MaxDelay \in Nat
        /\ \A r \in Node : stage[r] \in Nat /\ stage'[r] = IF r = n THEN stage[r] + 1 ELSE stage[r]
        /\ \A r \in Node : stage[n] <= stage[r] /\ stage[r] <= stage[n] + 1
    <3>1. /\ DOMAIN Rollout \subseteq Nat /\ p.sent \in Nat /\ now \in Nat /\ rolled \in Nat
          /\ stage \in [Node -> DOMAIN Rollout]
      <4>1. DOMAIN Rollout \subseteq Nat
        BY KeyAssumption DEF KeyAssumption
      <4>2. QED BY <4>1 DEF Packet, Time, TypeInv, Types
    <3>2. QED BY <1>3, <3>1, MeshAssumption DEF MayRoll, RollInv, MeshAssumption
  <2>2. ~(rolled' < p.sent)
    BY <1>3, <2>1
  <2>3. i <= stage[n] + 1 /\ stage[n] <= i
    <3>1. CASE \A r \in Node : stage[r] = stage[n]
      <4>1. now > rolled + MaxDelay
        BY <1>3, <3>1 DEF MayRoll
      <4>2. rolled < p.sent
        BY <2>1, <4>1
      <4>3. QED BY <1>1, <2>1, <3>1, <4>2
    <3>2. ASSUME NEW r \in Node, stage[r] # stage[n] PROVE i <= stage[n] + 1 /\ stage[n] <= i
      BY <1>1, <2>1, <3>2
    <3>3. QED BY <3>1, <3>2
  <2>4. \A r \in Node : i <= stage'[r] + 1 /\ stage'[r] <= i + 1
    BY <1>1, <2>1, <2>3
  <2>5. SentBy(p, m, q, i)
    BY <1>1
  <2>6. QED BY <2>2, <2>4, <2>5 DEF Current, SentBy
<1>4. QED BY <1>2, <1>3, PacketFrame

LEMMA RollStep == TypeInv /\ SoundInv /\ RollInv /\ [Next]_vars => RollInv'
<1> SUFFICES ASSUME TypeInv, SoundInv, RollInv, [Next]_vars PROVE RollInv'
  OBVIOUS
<1>1. \A n \in Node : stage[n] \in Nat
  <2>1. DOMAIN Rollout \subseteq Nat /\ stage \in [Node -> DOMAIN Rollout]
    BY KeyAssumption DEF KeyAssumption, TypeInv, Types
  <2>2. QED BY <2>1
<1>2. \A m, n \in Node : stage'[m] <= stage'[n] + 1
  <2>1. CASE UNCHANGED stage
    BY <2>1 DEF RollInv
  <2>2. ASSUME NEW k \in Node, MayRoll(k), stage' = [stage EXCEPT ![k] = @ + 1]
        PROVE  \A m, n \in Node : stage'[m] <= stage'[n] + 1
    <3>1. \A r \in Node : /\ stage'[r] = IF r = k THEN stage[r] + 1 ELSE stage[r]
                          /\ stage[k] <= stage[r]
      BY <2>2 DEF MayRoll, TypeInv, Types
    <3>2. QED BY <1>1, <3>1 DEF RollInv
  <2>3. QED BY <2>1, <2>2, PacketFrame
<1>3. ASSUME NEW p \in net PROVE Current(p)'
  <2>1. p \in Packet /\ PacketOK(p) /\ Current(p)
    BY DEF TypeInv, Types, SoundInv, RollInv
  <2>2. QED BY <2>1, CurrentStep DEF PacketOK
<1>4. ASSUME NEW p \in net' PROVE Current(p)'
  <2>1. CASE p \in net
    BY <1>3, <2>1
  <2>2. CASE p.from = Nobody
    BY <2>2 DEF Current
  <2>3. ASSUME NEW n \in Node, NEW q \in DOMAIN Peers[n], SentBy(p, n, q, stage[n]), p.sent = now,
               UNCHANGED <<stage, rolled>>
        PROVE  Current(p)'
    <3>1. stage[n] \in DOMAIN Rollout
      BY DEF TypeInv, Types
    <3>2. \A r \in Node : stage[n] <= stage[r] + 1 /\ stage[r] <= stage[n] + 1
      BY DEF RollInv
    <3>3. QED BY <2>3, <3>1, <3>2 DEF Current, SentBy
  <2>4. QED BY <2>1, <2>2, <2>3, PacketFrame
<1>5. ASSUME NEW n \in Node, hand'[n].step # "none" PROVE Current(hand[n].packet)'
  <2>1. PICK p : p = hand'[n].packet
    OBVIOUS
  <2>2. Current(p)'
    <3>1. CASE p \in net
      BY <1>3, <3>1
    <3>2. CASE hand[n].step # "none" /\ p = hand[n].packet
      <4>1. p \in Packet /\ PacketOK(p) /\ Current(p)
        BY <3>2, HandTypes DEF TypeInv, SoundInv, RollInv
      <4>2. QED BY <4>1, CurrentStep DEF PacketOK
    <3>3. QED BY <1>5, <2>1, <3>1, <3>2, PacketFrame
  <2>3. QED BY <2>1, <2>2 DEF Current, SentBy
<1>6. refused' \cap {Source[n] : n \in Node} = {}
  <2>1. CASE refused' = refused
    BY <2>1 DEF RollInv
  <2>2. ASSUME NEW n \in Node, RejectAuth(n) PROVE refused' \cap {Source[m] : m \in Node} = {}
    <3>1. /\ hand[n].step = "check" /\ ~Signed(n)
          /\ refused' = refused \cup {hand[n].packet.from}
      BY <2>2 DEF RejectAuth
    <3>2. Types /\ Current(hand[n].packet) /\ hand[n].packet.to = n
      BY <3>1 DEF TypeInv, HandOK, RollInv
    <3>3. hand[n].packet.from = Nobody
      BY <3>1, <3>2, OwnAreSigned
    <3>4. Nobody \notin {Source[m] : m \in Node}
      BY MeshAssumption DEF MeshAssumption, Destination
    <3>5. QED BY <3>1, <3>3, <3>4 DEF RollInv
  <2>3. QED BY <2>1, <2>2, PacketFrame
<1>7. QED BY <1>2, <1>4, <1>5, <1>6 DEF RollInv

\* While the shared keys are replaced, node by node and list by list, a node rejects no packet
\* of another for its tenant or signature (handlePacket, keyCandidates), although the keys of
\* the first list and of the last may have nothing in common: a packet arrives before the
\* nodes are two lists further than its sender was.
THEOREM OwnPacketsAcceptedAlways == Spec => []OwnPacketsAccepted
<1>1. RollInv => OwnPacketsAccepted
  BY DEF RollInv, OwnPacketsAccepted
<1>2. Init => TypeInv /\ SoundInv /\ RollInv
  BY TypeInit, SoundInit, RollInit
<1>3. TypeInv /\ SoundInv /\ RollInv /\ [Next]_vars => (TypeInv /\ SoundInv /\ RollInv)'
  BY TypeStep, SoundStep, RollStep
<1>4. QED BY <1>1, <1>2, <1>3, PTL DEF Spec

-----------------------------------------------------------------------------
(* Sums over finite sets: the recursion of Sum, and what one more does to it. *)

LEMMA LeastOf == ASSUME NEW T, T \subseteq Nat, T # {} PROVE \E x \in T : \A y \in T : x <= y
<1>1. PICK x \in T : \A y \in T : ~(<<y, x>> \in OpToRel(<, Nat))
  <2>1. \E x \in T : \A y \in T : ~(<<y, x>> \in OpToRel(<, Nat))
    BY NatLessThanWellFounded, WFMin
  <2>2. QED BY <2>1
<1>2. ASSUME NEW y \in T PROVE x <= y
  <2>1. ~(y < x)
    BY <1>1 DEF OpToRel
  <2>2. QED BY <2>1
<1>3. QED BY <1>2

\* Of a family of subsets of a finite set, one has no more elements than the others.
LEMMA SmallestOf ==
  ASSUME NEW S, IsFiniteSet(S), NEW B, B \subseteq SUBSET S, B # {}
  PROVE  \E T \in B : \A U \in B : Cardinality(T) <= Cardinality(U)
<1> DEFINE C == {Cardinality(T) : T \in B}
<1>1. C \subseteq Nat /\ C # {}
  <2>1. ASSUME NEW T \in B PROVE Cardinality(T) \in Nat
    BY FS_Subset, FS_CardinalityType
  <2>2. QED BY <2>1
<1>2. PICK c \in C : \A d \in C : c <= d
  BY <1>1, LeastOf
<1>3. QED BY <1>2

\* The equation that Sum solves.
Adds(sum, f, S) ==
  \A T \in SUBSET S :
    sum[T] = IF T = {} THEN 0
             ELSE f[CHOOSE x \in T : TRUE] + sum[T \ {CHOOSE x \in T : TRUE}]

\* It has a solution: otherwise there were a least number of elements up to which it has none.
LEMMA SumExists ==
  ASSUME NEW S, IsFiniteSet(S), NEW f, \A x \in S : f[x] \in Nat
  PROVE  \E sum \in [SUBSET S -> Nat] : Adds(sum, f, S)
<1> DEFINE pick(T) == CHOOSE x \in T : TRUE
           body(g, T) == IF T = {} THEN 0 ELSE f[pick(T)] + g[T \ {pick(T)}]
           E(n) == \E g \in [SUBSET S -> Nat] :
                     \A T \in SUBSET S : Cardinality(T) <= n => g[T] = body(g, T)
           Bad == {n \in Nat : ~E(n)}
<1>1. \A T \in SUBSET S : IsFiniteSet(T) /\ Cardinality(T) \in Nat
  BY FS_Subset, FS_CardinalityType
<1>2. \A T \in SUBSET S : T # {} => /\ pick(T) \in T /\ T \ {pick(T)} \in SUBSET S
                                    /\ Cardinality(T \ {pick(T)}) = Cardinality(T) - 1
  BY <1>1, FS_RemoveElement
<1>3. E(0)
  <2>1. [T \in SUBSET S |-> 0] \in [SUBSET S -> Nat]
    OBVIOUS
  <2>2. \A T \in SUBSET S : Cardinality(T) <= 0 => T = {}
    BY <1>1, FS_EmptySet
  <2>3. QED BY <2>1, <2>2
<1>4. ASSUME NEW n \in Nat, E(n) PROVE E(n + 1)
  <2>1. PICK g \in [SUBSET S -> Nat] :
          \A T \in SUBSET S : Cardinality(T) <= n => g[T] = body(g, T)
    BY <1>4
  <2>2. DEFINE h == [T \in SUBSET S |-> IF Cardinality(T) <= n THEN g[T] ELSE body(g, T)]
  <2>3. h \in [SUBSET S -> Nat]
    <3>1. \A T \in SUBSET S : body(g, T) \in Nat
      BY <1>2
    <3> HIDE DEF body
    <3>2. QED BY <3>1
  <2>4. ASSUME NEW T \in SUBSET S, Cardinality(T) <= n + 1 PROVE h[T] = body(h, T)
    <3>1. body(h, T) = body(g, T)
      <4>1. CASE T = {}
        BY <4>1
      <4>2. CASE T # {}
        <5>1. Cardinality(T \ {pick(T)}) <= n /\ T \ {pick(T)} \in SUBSET S
          BY <1>1, <1>2, <2>4, <4>2
        <5>2. h[T \ {pick(T)}] = g[T \ {pick(T)}]
          BY <5>1
        <5> HIDE DEF h, pick
        <5>3. QED BY <4>2, <5>2
      <4>3. QED BY <4>1, <4>2
    <3>2. h[T] = body(g, T)
      <4> HIDE DEF body
      <4>1. QED BY <2>1
    <3>3. QED BY <3>1, <3>2
  <2> HIDE DEF h, body
  <2>5. QED BY <2>3, <2>4
<1>5. Bad = {}
  <2>1. SUFFICES ASSUME Bad # {} PROVE FALSE
    OBVIOUS
  <2>2. PICK m \in Bad : \A k \in Bad : m <= k
    <3> HIDE DEF E
    <3>1. Bad \subseteq Nat
      OBVIOUS
    <3> HIDE DEF Bad
    <3>2. QED BY <2>1, <3>1, LeastOf
  <2> HIDE DEF E
  <2>3. m \in Nat /\ ~E(m) /\ m # 0
    BY <1>3
  <2>4. PICK k \in Nat : m = k + 1
    <3>1. m - 1 \in Nat /\ m = m - 1 + 1
      BY <2>3
    <3>2. QED BY <3>1
  <2>5. ~(m <= k)
    BY <2>4
  <2>6. E(k)
    BY <2>2, <2>5
  <2>7. QED BY <1>4, <2>3, <2>4, <2>6
<1>6. Cardinality(S) \in Nat
  BY FS_CardinalityType
<1>7. E(Cardinality(S))
  <2> HIDE DEF E
  <2>1. QED BY <1>5, <1>6
<1>8. PICK g \in [SUBSET S -> Nat] :
        \A T \in SUBSET S : Cardinality(T) <= Cardinality(S) => g[T] = body(g, T)
  BY <1>7
<1>9. \A T \in SUBSET S : g[T] = body(g, T)
  <2>1. \A T \in SUBSET S : Cardinality(T) <= Cardinality(S)
    BY FS_Subset
  <2> HIDE DEF body
  <2>2. QED BY <1>8, <2>1
<1>10. QED BY <1>9 DEF Adds

LEMMA SumFacts ==
  ASSUME NEW S, IsFiniteSet(S), NEW f, \A x \in S : f[x] \in Nat
  PROVE  \E sum : Adds(sum, f, S) /\ Sum(f, S) = sum[S]
<1> DEFINE F(g) == [T \in SUBSET S |-> IF T = {} THEN 0
                      ELSE f[CHOOSE x \in T : TRUE] + g[T \ {CHOOSE x \in T : TRUE}]]
           sum == CHOOSE g : g = F(g)
<1>1. Sum(f, S) = sum[S]
  BY DEF Sum
<1>2. \E g : g = F(g)
  <2>1. PICK g \in [SUBSET S -> Nat] : Adds(g, f, S)
    BY SumExists
  <2>2. g = F(g)
    BY <2>1 DEF Adds
  <2>3. QED BY <2>2
<1>3. sum = F(sum)
  <2> HIDE DEF F
  <2>1. QED BY <1>2
<1>4. Adds(sum, f, S)
  <2>1. PICK g : g = sum /\ g = F(g)
    BY <1>3
  <2>2. Adds(g, f, S)
    BY <2>1 DEF Adds
  <2>3. QED BY <2>1, <2>2
<1>5. QED BY <1>1, <1>4

\* Nothing but zeros sums up to zero.
LEMMA SumZero ==
  ASSUME NEW S, IsFiniteSet(S), NEW f, \A x \in S : f[x] = 0
  PROVE  Sum(f, S) = 0
<1>1. PICK sum : Adds(sum, f, S) /\ Sum(f, S) = sum[S]
  BY SumFacts
<1> DEFINE Bad == {T \in SUBSET S : sum[T] # 0}
<1>2. Bad = {}
  <2>1. SUFFICES ASSUME Bad # {} PROVE FALSE
    OBVIOUS
  <2>2. PICK T \in Bad : \A U \in Bad : Cardinality(T) <= Cardinality(U)
    BY <2>1, SmallestOf
  <2>3. PICK x : x = CHOOSE y \in T : TRUE
    OBVIOUS
  <2>4. T \in SUBSET S /\ T # {}
    BY <1>1 DEF Adds
  <2>5. x \in T /\ sum[T] = f[x] + sum[T \ {x}]
    BY <1>1, <2>3, <2>4 DEF Adds
  <2>6. Cardinality(T \ {x}) = Cardinality(T) - 1 /\ Cardinality(T) \in Nat
    BY <2>4, <2>5, FS_Subset, FS_CardinalityType, FS_RemoveElement
  <2>7. T \ {x} \notin Bad
    BY <2>2, <2>6
  <2>8. sum[T \ {x}] = 0 /\ f[x] = 0
    BY <2>4, <2>5, <2>7
  <2>9. QED BY <2>2, <2>5, <2>8
<1>3. QED BY <1>1, <1>2

\* One more at p is one more in the sum.
LEMMA SumAdd ==
  ASSUME NEW S, IsFiniteSet(S), NEW f, \A x \in S : f[x] \in Nat,
         NEW p \in S, NEW h, h[p] = f[p] + 1, \A x \in S : x # p => h[x] = f[x]
  PROVE  Sum(h, S) = Sum(f, S) + 1
<1>1. PICK sum : Adds(sum, f, S) /\ Sum(f, S) = sum[S]
  BY SumFacts
<1>2. PICK new : Adds(new, h, S) /\ Sum(h, S) = new[S]
  <2>1. \A x \in S : h[x] \in Nat
    OBVIOUS
  <2>2. QED BY <2>1, SumFacts
<1> DEFINE OK(T) == sum[T] \in Nat /\ new[T] = sum[T] + IF p \in T THEN 1 ELSE 0
           Bad == {T \in SUBSET S : ~OK(T)}
<1>3. Bad = {}
  <2>1. SUFFICES ASSUME Bad # {} PROVE FALSE
    OBVIOUS
  <2>2. PICK T \in Bad : \A U \in Bad : Cardinality(T) <= Cardinality(U)
    <3> HIDE DEF OK
    <3>1. QED BY <2>1, SmallestOf
  <2>3. PICK x : x = CHOOSE y \in T : TRUE
    OBVIOUS
  <2>4. T \in SUBSET S /\ T # {}
    <3>1. T \in SUBSET S
      OBVIOUS
    <3>2. SUFFICES ASSUME T = {} PROVE FALSE
      BY <3>1
    <3>3. sum[T] = 0 /\ new[T] = 0 /\ p \notin T
      BY <1>1, <1>2, <3>1, <3>2 DEF Adds
    <3>4. OK(T)
      BY <3>3
    <3>5. QED BY <2>2, <3>4
  <2>5. /\ x \in T /\ x \in S
        /\ sum[T] = f[x] + sum[T \ {x}] /\ new[T] = h[x] + new[T \ {x}]
    BY <1>1, <1>2, <2>3, <2>4 DEF Adds
  <2>6. Cardinality(T \ {x}) = Cardinality(T) - 1 /\ Cardinality(T) \in Nat
    BY <2>4, <2>5, FS_Subset, FS_CardinalityType, FS_RemoveElement
  <2>7. T \ {x} \notin Bad
    BY <2>2, <2>6
  <2>8. OK(T \ {x})
    BY <2>4, <2>7
  <2>9. PICK a \in Nat, b \in Nat : a = sum[T \ {x}] /\ b = f[x]
    BY <2>5, <2>8
  <2>10. CASE x = p
    <3>1. new[T \ {x}] = a /\ h[x] = b + 1 /\ p \in T
      BY <2>5, <2>8, <2>9, <2>10
    <3>2. sum[T] = b + a /\ new[T] = b + 1 + a
      BY <2>5, <2>9, <3>1
    <3>3. QED BY <2>2, <3>1, <3>2
  <2>11. CASE x # p
    <3>1. new[T \ {x}] = a + (IF p \in T THEN 1 ELSE 0) /\ h[x] = b
      BY <2>5, <2>8, <2>9, <2>11
    <3>2. sum[T] = b + a /\ new[T] = b + (a + IF p \in T THEN 1 ELSE 0)
      BY <2>5, <2>9, <3>1
    <3>3. QED BY <2>2, <3>2
  <2>12. QED BY <2>10, <2>11
<1>4. OK(S)
  <2>1. S \notin Bad
    BY <1>3
  <2>2. QED BY <2>1
<1>5. QED BY <1>1, <1>2, <1>4

-----------------------------------------------------------------------------
(* The counters. *)

Counters == [received : Nat, accepted : Nat, auth : Nat, parse : Nat]

CountTypes ==
  /\ stats \in [Node -> Counters] /\ last \in [Node -> Counters] /\ exported = last
  /\ rates \in [Node -> Seq(Int \X Int)] /\ DOMAIN anomaly = Node

\* At a sample the counters were as they are at any moment, but for one packet in hand; and
\* they never go back.
Balanced(n) ==
  LET s == stats[n]
      l == last[n]
  IN  /\ s.received = s.accepted + (s.auth + s.parse) + IF hand[n].step = "none" THEN 0 ELSE 1
      /\ l.accepted + (l.auth + l.parse) <= l.received
      /\ l.received <= l.accepted + (l.auth + l.parse) + 1
      /\ l.received <= s.received /\ l.accepted <= s.accepted
      /\ l.auth <= s.auth /\ l.parse <= s.parse

Sampled(n) ==
  /\ anomaly[n].received \in Int /\ anomaly[n].rejected \in Int
  /\ anomaly[n].rejected <= anomaly[n].received + 1
  /\ Window > 0 => Len(rates[n]) <= Window

Packets(n) == [p \in Sender |-> peers[n][p].packets]

Noted(n) ==
  Sum(Packets(n), Sender) = stats[n].accepted + IF hand[n].step = "accept" THEN 1 ELSE 0

CountInv ==
  /\ CountTypes
  /\ \A n \in Node : Balanced(n) /\ Sampled(n) /\ Noted(n)

LEMMA Neighbours == IsFiniteSet(Sender)
  BY MeshAssumption, FS_AddElement DEF MeshAssumption, Sender

\* What a step leaves alone at a node.
LEMMA SameBalance ==
  ASSUME NEW n \in Node, Balanced(n), stats'[n] = stats[n], last'[n] = last[n],
         hand'[n].step = "none" <=> hand[n].step = "none"
  PROVE  Balanced(n)'
  BY DEF Balanced

LEMMA SameSample ==
  ASSUME NEW n \in Node, Sampled(n), anomaly'[n] = anomaly[n], rates'[n] = rates[n]
  PROVE  Sampled(n)'
  BY DEF Sampled

LEMMA SameNotes ==
  ASSUME NEW n \in Node, Noted(n), peers'[n] = peers[n],
         stats'[n].accepted = stats[n].accepted,
         hand'[n].step = "accept" <=> hand[n].step = "accept"
  PROVE  Noted(n)'
<1>1. Packets(n)' = Packets(n)
  BY DEF Packets
<1>2. QED BY <1>1 DEF Noted

\* The counter that a critical section of the read loop raises.
LEMMA Counted ==
  ASSUME CountTypes, NEW n \in Node, NEW f \in {"received", "accepted", "auth", "parse"},
         Count(n, f)
  PROVE  /\ stats' \in [Node -> Counters]
         /\ \A m \in Node : m # n => stats'[m] = stats[m]
         /\ \A g \in {"received", "accepted", "auth", "parse"} :
              stats'[n][g] = stats[n][g] + IF g = f THEN 1 ELSE 0
<1>1. PICK a \in Nat, b \in Nat, c \in Nat, d \in Nat :
        stats[n] = [received |-> a, accepted |-> b, auth |-> c, parse |-> d]
  <2>1. stats[n] \in Counters
    BY DEF CountTypes
  <2>2. QED BY <2>1 DEF Counters
<1>2. stats' = [stats EXCEPT ![n] = [stats[n] EXCEPT ![f] = stats[n][f] + 1]]
  BY DEF Count
<1> DEFINE new == [received |-> a + IF f = "received" THEN 1 ELSE 0,
                   accepted |-> b + IF f = "accepted" THEN 1 ELSE 0,
                   auth |-> c + IF f = "auth" THEN 1 ELSE 0,
                   parse |-> d + IF f = "parse" THEN 1 ELSE 0]
<1>3. [stats[n] EXCEPT ![f] = stats[n][f] + 1] = new
  <2>1. CASE f = "received"
    BY <1>1, <2>1
  <2>2. CASE f = "accepted"
    BY <1>1, <2>2
  <2>3. CASE f = "auth"
    BY <1>1, <2>3
  <2>4. CASE f = "parse"
    BY <1>1, <2>4
  <2>5. QED BY <2>1, <2>2, <2>3, <2>4
<1>4. new \in Counters
  BY DEF Counters
<1>5. stats' \in [Node -> Counters] /\ stats'[n] = new
      /\ \A m \in Node : m # n => stats'[m] = stats[m]
  <2> HIDE DEF new
  <2>1. QED BY <1>2, <1>3, <1>4 DEF CountTypes
<1>6. QED BY <1>1, <1>5

LEMMA CountInit == Init => CountInv
<1> SUFFICES ASSUME Init PROVE CountInv
  OBVIOUS
<1>1. CountTypes
  BY DEF Init, CountTypes, Counters, Zero
<1>2. ASSUME NEW n \in Node PROVE Balanced(n) /\ Sampled(n)
  BY MeshAssumption DEF Init, Balanced, Sampled, Zero, NoSample, MeshAssumption
<1>3. ASSUME NEW n \in Node PROVE Noted(n)
  <2>1. \A p \in Sender : Packets(n)[p] = 0
    BY DEF Init, Packets, Unseen
  <2>2. Sum(Packets(n), Sender) = 0
    <3>1. PICK f : f = Packets(n)
      OBVIOUS
    <3>2. QED BY <2>1, <3>1, Neighbours, SumZero
  <2>3. stats[n].accepted = 0 /\ hand[n].step = "none"
    BY DEF Init, Zero
  <2>4. QED BY <2>2, <2>3 DEF Noted
<1>4. QED BY <1>1, <1>2, <1>3 DEF CountInv

\* The new length of the window of rates.
LEMMA Trimmed ==
  ASSUME NEW s \in Seq(Int \X Int), NEW r \in Int \X Int, Window > 0 => Len(s) <= Window
  PROVE  /\ Trim(Append(s, r)) \in Seq(Int \X Int)
         /\ Window > 0 => Len(Trim(Append(s, r))) <= Window
<1>1. PICK t \in Seq(Int \X Int) : t = Append(s, r) /\ Len(t) = Len(s) + 1
  <2>1. Append(s, r) \in Seq(Int \X Int) /\ Len(Append(s, r)) = Len(s) + 1
    BY AppendProperties
  <2>2. QED BY <2>1
<1>2. Window \in Nat /\ Len(t) \in Nat
  BY MeshAssumption DEF MeshAssumption
<1>3. CASE Window > 0 /\ Len(t) > Window
  <2>1. ASSUME NEW i \in Len(t) - Window + 1 .. Len(t) PROVE t[i] \in Int \X Int
    <3>1. PICK S : S = Int \X Int
      OBVIOUS
    <3>2. t \in Seq(S) /\ i \in 1 .. Len(t)
      BY <1>2, <1>3, <3>1
    <3>3. QED BY <3>1, <3>2, ElementOfSeq
  <2>2. /\ SubSeq(t, Len(t) - Window + 1, Len(t)) \in Seq(Int \X Int)
        /\ Len(SubSeq(t, Len(t) - Window + 1, Len(t))) =
             IF Len(t) - Window + 1 <= Len(t) THEN Len(t) - (Len(t) - Window + 1) + 1 ELSE 0
    BY <1>2, <1>3, <2>1, SubSeqProperties
  <2>3. QED BY <1>1, <1>2, <1>3, <2>2 DEF Trim
<1>4. CASE ~(Window > 0 /\ Len(t) > Window)
  BY <1>1, <1>2, <1>4 DEF Trim
<1>5. QED BY <1>3, <1>4

\* The rejections of an interval exceed its arrivals by one at most.
LEMMA SampleCounts ==
  ASSUME CountInv, NEW n \in Node
  PROVE  LET received == stats[n].received - last[n].received
             rejections == rejected(stats[n]) - rejected(last[n])
         IN  /\ received \in Int /\ rejections \in Int /\ rejections <= received + 1
             /\ <<rejections, received>> \in Int \X Int
<1>1. PICK s \in Counters, l \in Counters : s = stats[n] /\ l = last[n]
  BY DEF CountInv, CountTypes
<1>2. /\ s.received \in Nat /\ s.accepted \in Nat /\ s.auth \in Nat /\ s.parse \in Nat
      /\ l.received \in Nat /\ l.accepted \in Nat /\ l.auth \in Nat /\ l.parse \in Nat
  BY DEF Counters
<1>3. /\ s.received = s.accepted + (s.auth + s.parse) \/ s.received = s.accepted + (s.auth + s.parse) + 1
      /\ l.accepted + (l.auth + l.parse) <= l.received
      /\ l.received <= l.accepted + (l.auth + l.parse) + 1
      /\ l.accepted <= s.accepted
  BY <1>1, <1>2 DEF CountInv, Balanced
<1>4. /\ rejected(stats[n]) = s.auth + s.parse /\ rejected(last[n]) = l.auth + l.parse
  BY <1>1 DEF rejected
<1>5. (s.auth + s.parse) - (l.auth + l.parse) <= (s.received - l.received) + 1
  BY <1>2, <1>3
<1>6. QED BY <1>1, <1>2, <1>4, <1>5

LEMMA CountStep == TypeInv /\ CountInv /\ [Next]_vars => CountInv'
<1> SUFFICES ASSUME TypeInv, CountInv, [Next]_vars PROVE CountInv'
  OBVIOUS
<1>1. hand \in [Node -> Hand] /\ peers \in [Node -> [Sender -> PeerStat]]
  BY DEF TypeInv, Types
<1>2. CountTypes /\ \A n \in Node : Balanced(n) /\ Sampled(n) /\ Noted(n)
  BY DEF CountInv
<1>3. ASSUME UNCHANGED <<stats, hand, peers, sampler>> PROVE CountInv'
  <2>1. UNCHANGED <<stats, hand, peers, last, exported, rates, anomaly>>
    BY <1>3 DEF sampler
  <2>2. CountTypes'
    BY <1>2, <2>1 DEF CountTypes
  <2>3. ASSUME NEW n \in Node PROVE Balanced(n)' /\ Sampled(n)' /\ Noted(n)'
    BY <1>2, <2>1, SameBalance, SameSample, SameNotes
  <2>4. QED BY <2>2, <2>3 DEF CountInv
\* A critical section of the read loop of n, which may raise a counter.
<1>4. ASSUME NEW n \in Node, UNCHANGED <<peers, sampler>>,
             NEW f \in {"received", "accepted", "auth", "parse"}, Count(n, f),
             NEW s \in {"none", "check"}, hand'[n].step = s,
             \A m \in Node : m # n => hand'[m] = hand[m],
             \/ f = "received" /\ s = "check" /\ hand[n].step = "none"
             \/ f \in {"auth", "parse"} /\ s = "none" /\ hand[n].step = "check"
             \/ f = "accepted" /\ s = "none" /\ hand[n].step = "accept"
      PROVE  CountInv'
  <2>1. UNCHANGED <<peers, last, exported, rates, anomaly>>
    BY <1>4 DEF sampler
  <2>2. /\ stats' \in [Node -> Counters]
        /\ \A m \in Node : m # n => stats'[m] = stats[m]
        /\ \A g \in {"received", "accepted", "auth", "parse"} :
             stats'[n][g] = stats[n][g] + IF g = f THEN 1 ELSE 0
    BY <1>2, <1>4, Counted
  <2>3. CountTypes'
    BY <1>2, <2>1, <2>2 DEF CountTypes
  <2>4. ASSUME NEW m \in Node PROVE Sampled(m)'
    BY <1>2, <2>1, SameSample
  <2>5. ASSUME NEW m \in Node, m # n PROVE Balanced(m)' /\ Noted(m)'
    BY <1>2, <1>4, <2>1, <2>2, <2>5, SameBalance, SameNotes
  <2>6. /\ stats[n].received \in Nat /\ stats[n].accepted \in Nat
        /\ stats[n].auth \in Nat /\ stats[n].parse \in Nat
        /\ last[n].received \in Nat /\ last[n].accepted \in Nat
        /\ last[n].auth \in Nat /\ last[n].parse \in Nat
    BY <1>2 DEF CountTypes, Counters
  <2>7. /\ stats'[n].received = stats[n].received + IF "received" = f THEN 1 ELSE 0
        /\ stats'[n].accepted = stats[n].accepted + IF "accepted" = f THEN 1 ELSE 0
        /\ stats'[n].auth = stats[n].auth + IF "auth" = f THEN 1 ELSE 0
        /\ stats'[n].parse = stats[n].parse + IF "parse" = f THEN 1 ELSE 0
    BY <2>2
  <2>8. Balanced(n)
    BY <1>2
  <2>9. Balanced(n)'
    <3>1. CASE f = "received"
      BY <1>4, <2>1, <2>6, <2>7, <2>8, <3>1 DEF Balanced
    <3>2. CASE f = "accepted"
      BY <1>4, <2>1, <2>6, <2>7, <2>8, <3>2 DEF Balanced
    <3>3. CASE f = "auth"
      BY <1>4, <2>1, <2>6, <2>7, <2>8, <3>3 DEF Balanced
    <3>4. CASE f = "parse"
      BY <1>4, <2>1, <2>6, <2>7, <2>8, <3>4 DEF Balanced
    <3>5. QED BY <3>1, <3>2, <3>3, <3>4
  <2>10. Noted(n)'
    <3>1. Packets(n)' = Packets(n) /\ Noted(n)
      BY <1>2, <2>1 DEF Packets
    <3>2. stats'[n].accepted + (IF hand'[n].step = "accept" THEN 1 ELSE 0)
            = stats[n].accepted + IF hand[n].step = "accept" THEN 1 ELSE 0
      BY <1>4, <2>6, <2>7
    <3>3. QED BY <3>1, <3>2 DEF Noted
  <2>11. QED BY <2>3, <2>4, <2>5, <2>9, <2>10 DEF CountInv
<1>5. ASSUME NEW n \in Node, NEW p \in net, Receive(n, p) PROVE CountInv'
  <2>1. /\ hand[n].step = "none" /\ Count(n, "received") /\ UNCHANGED <<peers, sampler>>
        /\ hand' = [hand EXCEPT ![n] = [step |-> "check", packet |-> p, rest |-> p.routes]]
    BY <1>5 DEF Receive
  <2>2. hand'[n].step = "check" /\ \A m \in Node : m # n => hand'[m] = hand[m]
    BY <1>1, <2>1
  <2>3. QED BY <1>4, <2>1, <2>2
<1>6. ASSUME NEW n \in Node, RejectParse(n) \/ RejectAuth(n) \/ Accept(n) PROVE CountInv'
  <2>1. PICK f \in {"accepted", "auth", "parse"} :
          /\ Count(n, f) /\ UNCHANGED <<peers, sampler>>
          /\ hand' = [hand EXCEPT ![n] = [step |-> "none"]]
          /\ hand[n].step = IF f = "accepted" THEN "accept" ELSE "check"
    BY <1>6 DEF RejectParse, RejectAuth, Accept, Finish
  <2>2. hand'[n].step = "none" /\ \A m \in Node : m # n => hand'[m] = hand[m]
    BY <1>1, <2>1
  <2>3. QED BY <1>4, <2>1, <2>2
<1>7. ASSUME NEW n \in Node, RouteSender(n) \/ NotePeer(n) \/ ApplyGossip(n) PROVE CountInv'
  <2>1. /\ UNCHANGED <<stats, last, exported, rates, anomaly>>
        /\ hand[n].step \in {"check", "gossip"} /\ hand[n].step # "none"
    BY <1>7 DEF RouteSender, NotePeer, ApplyGossip, sampler
  <2>2. /\ hand[n].packet \in Packet
        /\ hand[n] = [step |-> hand[n].step, packet |-> hand[n].packet, rest |-> hand[n].rest]
    BY <2>1, HandTypes DEF TypeInv
  <2>3. /\ hand'[n].step = IF NotePeer(n) THEN "accept" ELSE "gossip"
        /\ \A m \in Node : m # n => hand'[m] = hand[m]
    <3>1. CASE RouteSender(n) \/ NotePeer(n)
      <4>1. PICK s : /\ hand' = [hand EXCEPT ![n].step = s]
                     /\ s = IF NotePeer(n) THEN "accept" ELSE "gossip"
        BY <3>1 DEF RouteSender, NotePeer, Go
      <4>2. [hand[n] EXCEPT !.step = s] = [step |-> s, packet |-> hand[n].packet, rest |-> hand[n].rest]
        BY <2>2
      <4>3. QED BY <1>1, <4>1, <4>2
    <3>2. CASE ApplyGossip(n)
      <4>1. PICK x : x = Tail(hand[n].rest) /\ hand' = [hand EXCEPT ![n] = [hand[n] EXCEPT !.rest = x]]
        BY <3>2 DEF ApplyGossip
      <4>2. PICK pk, r : hand[n] = [step |-> "gossip", packet |-> pk, rest |-> r]
        BY <2>2, <3>2 DEF ApplyGossip
      <4>3. [hand[n] EXCEPT !.rest = x] = [step |-> "gossip", packet |-> pk, rest |-> x]
        BY <4>2
      <4>4. ~NotePeer(n)
        BY <3>2 DEF ApplyGossip, NotePeer
      <4>5. QED BY <1>1, <4>1, <4>3, <4>4
    <3>3. QED BY <1>7, <3>1, <3>2
  <2>4. CountTypes'
    BY <1>2, <2>1 DEF CountTypes
  <2>5. ASSUME NEW m \in Node PROVE Balanced(m)' /\ Sampled(m)'
    <3>1. hand'[m].step = "none" <=> hand[m].step = "none"
      BY <2>1, <2>3
    <3>2. QED BY <1>2, <2>1, <3>1, SameBalance, SameSample
  <2>6. ASSUME NEW m \in Node PROVE Noted(m)'
    <3>1. CASE m = n /\ NotePeer(n)
      <4>1. PICK a \in Sender : a = hand[n].packet.addr
        BY <2>2 DEF Packet
      <4>2. PICK q : /\ peers' = [peers EXCEPT ![n][a] = q]
                     /\ q.packets = peers[n][a].packets + 1
        <5>1. PICK q : q = [at |-> now, packets |-> peers[n][a].packets + 1]
          OBVIOUS
        <5>2. peers' = [peers EXCEPT ![n][a] = q]
          BY <3>1, <4>1, <5>1 DEF NotePeer
        <5>3. q.packets = peers[n][a].packets + 1
          BY <5>1
        <5>4. QED BY <5>2, <5>3
      <4>3. PICK f, h : f = Packets(n) /\ h = Packets(n)'
        OBVIOUS
      <4>4. /\ h[a] = f[a] + 1
            /\ \A x \in Sender : x # a => h[x] = f[x]
        BY <1>1, <4>1, <4>2, <4>3 DEF Packets
      <4>5. ASSUME NEW x \in Sender PROVE f[x] \in Nat
        <5>1. peers[n][x] \in PeerStat
          BY <1>1
        <5>2. QED BY <4>3, <5>1 DEF Packets, PeerStat
      <4>6. Sum(h, Sender) = Sum(f, Sender) + 1
        BY <4>1, <4>4, <4>5, Neighbours, SumAdd
      <4>7. Sum(f, Sender) = stats[n].accepted
        <5>1. hand[n].step # "accept" /\ stats[n].accepted \in Nat
          BY <1>2, <2>1 DEF CountTypes, Counters
        <5>2. stats[n].accepted + (IF hand[n].step = "accept" THEN 1 ELSE 0) = stats[n].accepted
          BY <5>1
        <5>3. Noted(n)
          BY <1>2
        <5>4. QED BY <4>3, <5>2, <5>3 DEF Noted
      <4>8. QED BY <2>1, <2>3, <3>1, <4>3, <4>6, <4>7 DEF Noted
    <3>2. CASE ~(m = n /\ NotePeer(n))
      <4>1. peers'[m] = peers[m]
        <5>1. CASE NotePeer(n)
          BY <1>1, <3>2, <5>1 DEF NotePeer
        <5>2. CASE RouteSender(n) \/ ApplyGossip(n)
          BY <5>2 DEF RouteSender, ApplyGossip
        <5>3. QED BY <1>7, <5>1, <5>2
      <4>2. hand'[m].step = "accept" <=> hand[m].step = "accept"
        BY <2>1, <2>3, <3>2
      <4>3. QED BY <1>2, <2>1, <4>1, <4>2, SameNotes
    <3>3. QED BY <3>1, <3>2
  <2>7. QED BY <2>4, <2>5, <2>6 DEF CountInv
<1>8. ASSUME NEW n \in Node, Sample(n) PROVE CountInv'
  <2>1. DEFINE received == stats[n].received - last[n].received
               rejections == rejected(stats[n]) - rejected(last[n])
               rate == <<rejections, received>>
  <2>2. /\ received \in Int /\ rejections \in Int /\ rejections <= received + 1
        /\ rate \in Int \X Int
    BY SampleCounts
  <2>3. /\ last' = [last EXCEPT ![n] = stats[n]]
        /\ exported' = [exported EXCEPT ![n] =
                         [f \in DOMAIN Zero |-> exported[n][f] + stats[n][f] - last[n][f]]]
        /\ UNCHANGED <<stats, hand, peers>>
    BY <1>8 DEF Sample, Remembered
  <2>4. \/ UNCHANGED <<rates, anomaly>>
        \/ /\ rates' = [rates EXCEPT ![n] = Trim(Append(rates[n], rate))]
           /\ \E reason : anomaly' = [anomaly EXCEPT ![n] =
                             [received |-> received, rejected |-> rejections, reason |-> reason]]
    BY <1>8 DEF Sample
  <2>5. exported' = last' /\ last' \in [Node -> Counters]
    <3>1. PICK a \in Nat, b \in Nat, c \in Nat, d \in Nat :
            stats[n] = [received |-> a, accepted |-> b, auth |-> c, parse |-> d]
      <4>1. stats[n] \in Counters
        BY <1>2 DEF CountTypes
      <4>2. QED BY <4>1 DEF Counters
    <3>2. exported[n] = last[n] /\ last[n] \in Counters
      BY <1>2 DEF CountTypes
    <3>3. [f \in DOMAIN Zero |-> exported[n][f] + stats[n][f] - last[n][f]] = stats[n]
      <4>1. ASSUME NEW f \in DOMAIN Zero
            PROVE  exported[n][f] + stats[n][f] - last[n][f] = stats[n][f]
        <5>1. exported[n][f] = last[n][f] /\ last[n][f] \in Nat /\ stats[n][f] \in Nat
          BY <3>1, <3>2 DEF Counters, Zero
        <5>2. QED BY <5>1
      <4>2. DOMAIN Zero = DOMAIN stats[n] /\ stats[n] = [f \in DOMAIN stats[n] |-> stats[n][f]]
        BY <3>1 DEF Zero
      <4>3. QED BY <4>1, <4>2
    <3>4. QED BY <1>2, <2>3, <3>3 DEF CountTypes
  <2> HIDE DEF received, rejections, rate
  <2>6. PICK w : w = Trim(Append(rates[n], rate))
    OBVIOUS
  <2>7. w \in Seq(Int \X Int) /\ (Window > 0 => Len(w) <= Window)
    <3>1. rates[n] \in Seq(Int \X Int) /\ (Window > 0 => Len(rates[n]) <= Window)
      BY <1>2 DEF CountTypes, Sampled
    <3>2. QED BY <2>2, <2>6, <3>1, Trimmed
  <2>8. rates' \in [Node -> Seq(Int \X Int)] /\ DOMAIN anomaly' = Node
    BY <1>2, <2>4, <2>6, <2>7 DEF CountTypes
  <2>9. CountTypes'
    BY <1>2, <2>3, <2>5, <2>8 DEF CountTypes
  <2>10. ASSUME NEW m \in Node PROVE Sampled(m)'
    <3>1. CASE anomaly'[m] = anomaly[m] /\ rates'[m] = rates[m]
      BY <1>2, <3>1, SameSample
    <3>2. CASE ~(anomaly'[m] = anomaly[m] /\ rates'[m] = rates[m])
      <4>1. PICK reason :
              /\ rates' = [rates EXCEPT ![n] = w]
              /\ anomaly' = [anomaly EXCEPT ![n] =
                   [received |-> received, rejected |-> rejections, reason |-> reason]]
        BY <2>4, <2>6, <3>2
      <4>2. m = n
        BY <1>2, <3>2, <4>1 DEF CountTypes
      <4>3. rates'[n] = w /\ anomaly'[n].received = received /\ anomaly'[n].rejected = rejections
        BY <1>2, <4>1 DEF CountTypes
      <4>4. QED BY <2>2, <2>7, <4>2, <4>3 DEF Sampled
    <3>3. QED BY <3>1, <3>2
  <2>11. ASSUME NEW m \in Node PROVE Balanced(m)'
    <3>1. CASE m # n
      BY <1>2, <2>3, <3>1, SameBalance DEF CountTypes
    <3>2. CASE m = n
      <4>1. /\ stats[n].received \in Nat /\ stats[n].accepted \in Nat
            /\ stats[n].auth \in Nat /\ stats[n].parse \in Nat
        BY <1>2 DEF CountTypes, Counters
      <4>2. last'[n] = stats[n] /\ stats'[n] = stats[n] /\ hand'[n] = hand[n]
        BY <1>2, <2>3 DEF CountTypes
      <4>3. QED BY <1>2, <3>2, <4>1, <4>2 DEF Balanced
    <3>3. QED BY <3>1, <3>2
  <2>12. ASSUME NEW m \in Node PROVE Noted(m)'
    BY <1>2, <2>3, SameNotes
  <2>13. QED BY <2>9, <2>10, <2>11, <2>12 DEF CountInv
<1>9. ASSUME NEW n \in Node, Stop(n) PROVE CountInv'
  <2>1. /\ hand' = [hand EXCEPT ![n] = [step |-> "none"]]
        /\ peers' = [peers EXCEPT ![n] = [p \in DOMAIN @ |-> Unseen]]
        /\ stats' = [stats EXCEPT ![n] = Zero]
        /\ last' = [last EXCEPT ![n] = Zero] /\ exported' = [exported EXCEPT ![n] = Zero]
        /\ rates' = [rates EXCEPT ![n] = <<>>] /\ anomaly' = [anomaly EXCEPT ![n] = NoSample]
    BY <1>9 DEF Stop, Finish
  <2>2. Zero \in Counters /\ <<>> \in Seq(Int \X Int)
    BY DEF Zero, Counters
  <2>3. CountTypes'
    BY <1>2, <2>1, <2>2 DEF CountTypes
  <2>4. ASSUME NEW m \in Node, m # n PROVE Balanced(m)' /\ Sampled(m)' /\ Noted(m)'
    <3>1. /\ stats'[m] = stats[m] /\ last'[m] = last[m] /\ rates'[m] = rates[m]
          /\ anomaly'[m] = anomaly[m] /\ peers'[m] = peers[m] /\ hand'[m] = hand[m]
      BY <1>1, <1>2, <2>1, <2>4 DEF CountTypes
    <3>2. QED BY <1>2, <3>1, SameBalance, SameSample, SameNotes
  <2>5. /\ stats'[n] = Zero /\ last'[n] = Zero /\ rates'[n] = <<>> /\ anomaly'[n] = NoSample
        /\ hand'[n].step = "none" /\ peers'[n] = [p \in Sender |-> Unseen]
    BY <1>1, <1>2, <2>1 DEF CountTypes
  <2>6. Balanced(n)' /\ Sampled(n)'
    BY <2>5, MeshAssumption DEF Balanced, Sampled, Zero, NoSample, MeshAssumption
  <2>7. Noted(n)'
    <3>1. PICK f : f = Packets(n)'
      OBVIOUS
    <3>2. \A p \in Sender : f[p] = 0
      BY <2>5, <3>1 DEF Packets, Unseen
    <3>3. Sum(f, Sender) = 0
      BY <3>2, Neighbours, SumZero
    <3>4. QED BY <2>5, <3>1, <3>3 DEF Noted, Zero
  <2>8. QED BY <2>3, <2>4, <2>6, <2>7 DEF CountInv
<1>10. CASE UNCHANGED vars
  BY <1>3, <1>10 DEF vars
<1>11. ASSUME NEW n \in Node, broadcastControl(n) \/ broadcastGossip(n) \/ Start(n) PROVE CountInv'
  BY <1>3, <1>11 DEF broadcastControl, broadcastGossip, Start
<1>12. ASSUME NEW n \in Node, NEW d \in Destination, Delete(n, d) PROVE CountInv'
  BY <1>3, <1>12 DEF Delete
<1>13. ASSUME NEW s \in Service, AddService(s) PROVE CountInv'
  BY <1>3, <1>13 DEF AddService
<1>14. ASSUME NEW p \in Stray, Send(p) PROVE CountInv'
  BY <1>3, <1>14 DEF Send
<1>15. CASE Tick
  BY <1>3, <1>15 DEF Tick
<1>16. QED
  BY <1>5, <1>6, <1>7, <1>8, <1>9, <1>10, <1>11, <1>12, <1>13, <1>14, <1>15 DEF Next

\* The counters of a node say what the read loop did with the packets, whatever falls between
\* two samples, and the samples follow them (handlePacket, Snapshot, updateMeshMetrics).
THEOREM CountersAddUpAlways == Spec => []CountersAddUp
<1>1. TypeInv /\ CountInv => CountersAddUp
  <2> SUFFICES ASSUME TypeInv, CountInv PROVE CountersAddUp
    OBVIOUS
  <2>1. CountTypes /\ \A n \in Node : Balanced(n) /\ Sampled(n) /\ Noted(n)
    BY DEF CountInv
  <2>2. PacketsAccountedFor
    <3>1. ASSUME NEW n \in Node
          PROVE  /\ stats[n].received = stats[n].accepted + rejected(stats[n])
                                          + IF hand[n].step = "none" THEN 0 ELSE 1
                 /\ Sum(Packets(n), Sender)
                      = stats[n].accepted + IF hand[n].step = "accept" THEN 1 ELSE 0
      BY <2>1 DEF Balanced, Noted, rejected
    <3>2. QED BY <3>1 DEF PacketsAccountedFor, Packets
  <2>3. SamplesFollow
    BY <2>1 DEF CountTypes, Sampled, SamplesFollow
  <2>4. TypeOK
    <3>1. ASSUME NEW n \in Node, NEW i \in DOMAIN table[n]
          PROVE  /\ table[n][i].dst \in Destination \cup {Nobody}
                 /\ table[n][i].expires \in Time \cup {NoTime}
      <4>1. table[n] \in Seq(Route)
        BY DEF TypeInv, Types
      <4>2. table[n][i] \in Route
        BY <4>1
      <4>3. QED BY <4>2 DEF Route, Place
    <3>2. ASSUME NEW n \in Node PROVE hand[n].step \in {"none", "check", "gossip", "accept"}
      <4>1. hand[n] \in Hand
        BY DEF TypeInv, Types
      <4>2. QED BY <4>1 DEF Hand
    <3>3. ASSUME NEW n \in Node, NEW f \in DOMAIN Zero PROVE last[n][f] <= stats[n][f]
      BY <2>1 DEF Balanced, Zero
    <3>4. /\ up \subseteq Node /\ stage \in [Node -> DOMAIN Rollout] /\ now \in Time
          /\ rolled \in 0 .. now
      BY DEF TypeInv, Types, Time
    <3>5. QED BY <2>1, <3>1, <3>2, <3>3, <3>4 DEF Sampled, TypeOK
  <2>5. QED BY <2>2, <2>3, <2>4 DEF CountersAddUp
<1>2. Init => TypeInv /\ CountInv
  BY TypeInit, CountInit
<1>3. TypeInv /\ CountInv /\ [Next]_vars => (TypeInv /\ CountInv)'
  BY TypeStep, CountStep
<1>4. QED BY <1>1, <1>2, <1>3, PTL DEF Spec

-----------------------------------------------------------------------------
(* Groups: the inductive invariant, in parts. *)

\* A call has members to try, and a try left.
CallsOK ==
  \A c \in Caller : calls[c] # NoCall =>
    /\ calls[c].members # <<>>
    /\ calls[c].at = "try" => calls[c].left # 0

\* The agents of ms begin with those found.
Shows(ms, found) == \A i \in DOMAIN found : i \in DOMAIN ms /\ ms[i].agent = found[i]

\* The cells of an answer, and the group as long as its array is theirs, show what was found.
Reader == [group : GroupId, cells : Seq(Member), shared : BOOLEAN, found : Seq(Agent),
           removed : BOOLEAN]
ReaderOK ==
  reader # NoRead =>
    /\ reader \in Reader /\ reader.group <= counter
    /\ ~reader.removed =>
         /\ Shows(reader.cells, reader.found)
         /\ reader.shared /\ groups[reader.group] # NoGroup =>
              Shows(groups[reader.group].members, reader.found)

\* So that no group begins anew under a reader.
IdsOK == \A g \in GroupId : groups[g] # NoGroup => g <= counter

DispatchInv == DispatchTypeOK /\ StoreMirrorsGroups /\ CallsOK /\ ReaderOK /\ IdsOK

-----------------------------------------------------------------------------
(* Breakers and slices. *)

\* A breaker has its type after each call; it never counts up to the threshold.
LEMMA BreakerFacts ==
  ASSUME NEW b \in Breaker
  PROVE  /\ NewBreaker \in Breaker
         /\ RecordSuccess(b) \in Breaker /\ RecordFailure(b) \in Breaker
         /\ Allow(b).b \in Breaker
<1>1. PICK n \in Nat \ {0}, m \in Nat \ {0} : n = CircuitThreshold /\ m = ResetTimeout
  BY DispatchAssumption DEF DispatchAssumption
<1>2. /\ DOMAIN b = {"state", "failures", "age"} /\ b.state \in {"closed", "open", "half_open"}
      /\ b.failures \in 0 .. n - 1 /\ b.age \in 0 .. m
      /\ b = [state |-> b.state, failures |-> b.failures, age |-> b.age]
  BY <1>1 DEF Breaker
<1>3. NewBreaker \in Breaker
  BY <1>1 DEF NewBreaker, Breaker
<1>4. RecordSuccess(b) \in Breaker
  BY <1>3 DEF RecordSuccess
<1>5. RecordFailure(b) \in Breaker
  <2>1. [state |-> "open", failures |-> 0, age |-> 0] \in Breaker
    BY <1>1 DEF Breaker
  <2>2. b.failures + 1 < n => [b EXCEPT !.failures = b.failures + 1] \in Breaker
    BY <1>1, <1>2 DEF Breaker
  <2>3. b.failures + 1 >= n \/ b.failures + 1 < n
    BY <1>1, <1>2
  <2>4. QED BY <1>1, <1>2, <2>1, <2>2, <2>3 DEF RecordFailure
<1>6. Allow(b).b \in Breaker
  <2>1. [state |-> "half_open", failures |-> b.failures, age |-> 0] \in Breaker
    BY <1>1, <1>2 DEF Breaker
  <2>4. [b EXCEPT !.state = "half_open", !.age = 0]
          = [state |-> "half_open", failures |-> b.failures, age |-> 0]
    <3>1. PICK r : r = [b EXCEPT !.state = "half_open", !.age = 0]
      OBVIOUS
    <3>2. /\ DOMAIN r = {"state", "failures", "age"}
          /\ r.state = "half_open" /\ r.failures = b.failures /\ r.age = 0
      BY <1>2, <3>1
    <3>3. r = [x \in {"state", "failures", "age"} |-> r[x]]
      BY <3>1, <3>2
    <3>4. r = [state |-> r.state, failures |-> r.failures, age |-> r.age]
      BY <3>2, <3>3
    <3>5. QED BY <3>1, <3>2, <3>4
  <2>2. b.age < m \/ b.age >= m
    BY <1>1, <1>2
  <2>3. QED BY <1>1, <1>2, <2>1, <2>2, <2>4 DEF Allow
<1>7. QED BY <1>3, <1>4, <1>5, <1>6

\* A recursive sum over a list exists: a shortest prefix without one would get it from the
\* prefix before it.
LEMMA CursorExists ==
  ASSUME NEW n \in Nat, NEW ms
  PROVE  \E f : f = [i \in 0 .. n |-> IF i = 0 THEN 0 ELSE f[i - 1] + ms[i].weight]
<1>1. DEFINE Sums(f, k) == f = [i \in 0 .. k |-> IF i = 0 THEN 0 ELSE f[i - 1] + ms[i].weight]
             T == {k \in 0 .. n : ~(\E f : Sums(f, k))}
<1>2. ASSUME T # {} PROVE FALSE
  <2>1. T \subseteq Nat
    OBVIOUS
  <2>2. PICK k \in T : \A j \in T : k <= j
    BY <1>2, <2>1, LeastNat
  <2>3. k \in 0 .. n /\ ~(\E f : Sums(f, k))
    OBVIOUS
  <2>4. CASE k = 0
    <3>1. Sums([i \in 0 .. 0 |-> 0], 0)
      OBVIOUS
    <3>2. QED BY <2>3, <2>4, <3>1
  <2>5. CASE k # 0
    <3>1. k - 1 \in 0 .. n /\ k - 1 \notin T
      <4>1. k - 1 \in 0 .. n /\ ~(k <= k - 1)
        BY <2>3, <2>5
      <4>2. HIDE DEF T
      <4>3. QED BY <2>2, <4>1
    <3>2. PICK g : Sums(g, k - 1)
      BY <3>1
    <3>3. PICK f : f = [i \in 0 .. k |-> IF i = k THEN g[k - 1] + ms[k].weight ELSE g[i]]
      OBVIOUS
    <3>4. ASSUME NEW i \in 0 .. k PROVE f[i] = IF i = 0 THEN 0 ELSE f[i - 1] + ms[i].weight
      <4>1. CASE i = k
        <5>1. i - 1 \in 0 .. k /\ i - 1 # k
          BY <2>3, <2>5, <4>1
        <5>2. QED BY <2>5, <3>3, <4>1, <5>1
      <4>2. CASE i # k /\ i # 0
        <5>1. i \in 0 .. k - 1 /\ i - 1 \in 0 .. k /\ i - 1 # k
          BY <2>3, <4>2
        <5>2. g[i] = g[i - 1] + ms[i].weight
          BY <3>2, <4>2, <5>1
        <5>3. QED BY <3>3, <4>2, <5>1, <5>2
      <4>3. CASE i # k /\ i = 0
        <5>1. 0 \in 0 .. k - 1
          BY <2>3, <2>5
        <5>2. g[0] = 0
          BY <3>2, <5>1
        <5>3. QED BY <3>3, <4>3, <5>2
      <4>4. QED BY <4>1, <4>2, <4>3
    <3>5. Sums(f, k)
      BY <3>3, <3>4
    <3>6. QED BY <2>3, <3>5
  <2>6. QED BY <2>4, <2>5
<1>3. n \notin T
  BY <1>2
<1>4. QED BY <1>3

\* The cursor is the sum of the weights up to a member, and so grows with each.
LEMMA CursorFacts ==
  ASSUME NEW ms \in Seq(Member), NEW n, n = Len(ms), NEW f, f = Cursors(ms)
  PROVE  /\ n \in Nat /\ DOMAIN ms = 1 .. n /\ f[0] = 0
         /\ \A i \in 1 .. n : /\ ms[i] \in Member /\ ms[i].weight \in Nat \ {0}
                              /\ f[i] = f[i - 1] + ms[i].weight
         /\ \A i \in 0 .. n : f[i] \in Nat
         /\ \A i, j \in 0 .. n : i < j => f[i] < f[j]
<1>1. n \in Nat /\ DOMAIN ms = 1 .. n
  OBVIOUS
<1>2. PICK w : w = [i \in 1 .. n |-> ms[i].weight]
  OBVIOUS
<1>3. \A i \in 1 .. n : w[i] \in Nat \ {0} /\ ms[i] \in Member
  <2>1. ASSUME NEW i \in 1 .. n PROVE ms[i] \in Member
    BY <1>1
  <2>2. QED BY <1>2, <2>1 DEF Member
<1>4. f = [i \in 0 .. n |-> IF i = 0 THEN 0 ELSE f[i - 1] + ms[i].weight]
  <2>1. \E g : g = [i \in 0 .. n |-> IF i = 0 THEN 0 ELSE g[i - 1] + ms[i].weight]
    BY <1>1, CursorExists
  <2>2. f = CHOOSE g : g = [i \in 0 .. n |-> IF i = 0 THEN 0 ELSE g[i - 1] + ms[i].weight]
    BY DEF Cursors
  <2>3. QED BY <2>1, <2>2
<1>5. f[0] = 0 /\ \A i \in 1 .. n : f[i] = f[i - 1] + w[i]
  <2>1. 0 \in 0 .. n /\ \A i \in 1 .. n : i \in 0 .. n /\ i # 0
    BY <1>1
  <2>2. QED BY <1>2, <1>4, <2>1
<1>6. DEFINE T == {k \in 0 .. n : ~(f[k] \in Nat /\ \A i \in 0 .. n : i < k => f[i] < f[k])}
<1>7. ASSUME T # {} PROVE FALSE
  <2>1. T \subseteq Nat
    BY <1>1
  <2>2. PICK k \in T : \A j \in T : k <= j
    BY <1>7, <2>1, LeastNat
  <2>3. k \in 0 .. n /\ ~(f[k] \in Nat /\ \A i \in 0 .. n : i < k => f[i] < f[k])
    OBVIOUS
  <2>4. CASE k = 0
    BY <1>1, <1>5, <2>3, <2>4
  <2>5. CASE k # 0
    <3>1. k - 1 \in 0 .. n /\ k - 1 \notin T /\ k \in 1 .. n
      <4>1. k - 1 \in 0 .. n /\ ~(k <= k - 1) /\ k \in 1 .. n
        BY <1>1, <2>3, <2>5
      <4>2. HIDE DEF T
      <4>3. QED BY <2>2, <4>1
    <3>2. f[k - 1] \in Nat /\ \A i \in 0 .. n : i < k - 1 => f[i] < f[k - 1]
      BY <3>1
    <3>3. f[k] = f[k - 1] + w[k] /\ w[k] \in Nat \ {0}
      BY <1>3, <1>5, <3>1
    <3>4. f[k] \in Nat /\ f[k - 1] < f[k]
      BY <3>2, <3>3
    <3>5. ASSUME NEW i \in 0 .. n, i < k PROVE f[i] < f[k]
      <4>1. i = k - 1 \/ i < k - 1
        BY <1>1, <2>3, <3>5
      <4>2. CASE i = k - 1
        BY <3>4, <4>2
      <4>3. CASE i < k - 1
        <5>1. i \notin T
          <6>1. ~(k <= i)
            BY <1>1, <2>3, <3>5
          <6>2. HIDE DEF T
          <6>3. QED BY <2>2, <6>1
        <5>2. f[i] \in Nat
          BY <5>1
        <5>3. f[i] < f[k - 1]
          BY <3>2, <4>3
        <5>4. QED BY <3>2, <3>4, <5>2, <5>3
      <4>4. QED BY <4>1, <4>2, <4>3
    <3>6. QED BY <2>3, <3>4, <3>5
  <2>6. QED BY <2>4, <2>5
<1>8. \A k \in 0 .. n : f[k] \in Nat /\ \A i \in 0 .. n : i < k => f[i] < f[k]
  BY <1>7
<1>9. \A i \in 1 .. n : /\ ms[i] \in Member /\ ms[i].weight \in Nat \ {0}
                        /\ f[i] = f[i - 1] + ms[i].weight
  BY <1>2, <1>3, <1>5
<1>10. QED BY <1>1, <1>5, <1>8, <1>9

\* So the total weight of members is positive.
LEMMA TotalFacts ==
  ASSUME NEW ms \in Seq(Member), ms # <<>>
  PROVE  TotalWeight(ms) \in Nat \ {0}
<1>1. PICK n, f : n = Len(ms) /\ f = Cursors(ms)
  OBVIOUS
<1>2. /\ n \in Nat /\ f[0] = 0 /\ \A i \in 0 .. n : f[i] \in Nat
      /\ \A i, j \in 0 .. n : i < j => f[i] < f[j]
  BY <1>1, CursorFacts
<1>3. n # 0
  BY <1>1
<1>4. 0 \in 0 .. n /\ n \in 0 .. n /\ 0 < n
  BY <1>2, <1>3
<1>5. f[n] \in Nat /\ 0 < f[n]
  BY <1>2, <1>4
<1>6. QED BY <1>1, <1>5 DEF TotalWeight

\* The slots from one cursor to the next are those of a member, and there are no others.
LEMMA CandidateFacts ==
  ASSUME NEW ms \in Seq(Member), NEW n, n = Len(ms), NEW f, f = Cursors(ms)
  PROVE  /\ \A i \in 1 .. n, s \in Nat : f[i - 1] <= s /\ s < f[i] => Candidate(ms, s) = ms[i].agent
         /\ \A s \in Nat : s < f[n] => \E i \in 1 .. n : f[i - 1] <= s /\ s < f[i]
<1>1. /\ n \in Nat /\ DOMAIN ms = 1 .. n /\ f[0] = 0
      /\ \A i \in 0 .. n : f[i] \in Nat
      /\ \A i, j \in 0 .. n : i < j => f[i] < f[j]
  BY CursorFacts
<1>2. ASSUME NEW i \in 1 .. n, NEW s \in Nat, f[i - 1] <= s, s < f[i]
      PROVE  Candidate(ms, s) = ms[i].agent
  <2>1. PICK D : D = DOMAIN ms
    OBVIOUS
  <2>2. Candidate(ms, s) = ms[CHOOSE j \in D : s < f[j] /\ \A k \in 1 .. j - 1 : s >= f[k]].agent
    BY <2>1 DEF Candidate
  <2>3. \A k \in 1 .. i - 1 : s >= f[k]
    <3>1. ASSUME NEW k \in 1 .. i - 1 PROVE s >= f[k]
      <4>1. k \in 0 .. n /\ i - 1 \in 0 .. n /\ (k = i - 1 \/ k < i - 1)
        BY <1>1
      <4>2. f[k] <= f[i - 1] /\ f[k] \in Nat /\ f[i - 1] \in Nat
        BY <1>1, <4>1
      <4>3. QED BY <1>2, <4>2
    <3>2. QED BY <3>1
  <2>4. ASSUME NEW j \in D, s < f[j], \A k \in 1 .. j - 1 : s >= f[k] PROVE j = i
    <3>1. j \in 1 .. n /\ i \in 0 .. n /\ j \in 0 .. n
      BY <1>1, <2>1
    <3>2. f[i] \in Nat /\ f[j] \in Nat
      BY <1>1, <3>1
    <3>3. ~(i < j)
      <4>1. i < j => i \in 1 .. j - 1
        BY <3>1
      <4>2. QED BY <1>2, <2>4, <3>2, <4>1
    <3>4. ~(j < i)
      <4>1. j < i => j \in 1 .. i - 1
        BY <3>1
      <4>2. QED BY <2>3, <2>4, <3>2, <4>1
    <3>5. QED BY <3>1, <3>3, <3>4
  <2>5. i \in D
    BY <1>1, <2>1
  <2>6. (CHOOSE j \in D : s < f[j] /\ \A k \in 1 .. j - 1 : s >= f[k]) = i
    BY <1>2, <2>3, <2>4, <2>5
  <2>7. QED BY <2>2, <2>6
<1>3. ASSUME NEW s \in Nat, s < f[n] PROVE \E i \in 1 .. n : f[i - 1] <= s /\ s < f[i]
  <2>1. DEFINE T == {k \in 0 .. n : s < f[k]}
  <2>2. T \subseteq Nat /\ n \in T
    BY <1>1, <1>3
  <2>3. PICK i \in T : \A j \in T : i <= j
    <3>1. T # {}
      BY <2>2
    <3>2. HIDE DEF T
    <3>3. QED BY <2>2, <3>1, LeastNat
  <2>4. i \in 0 .. n /\ s < f[i]
    OBVIOUS
  <2>5. i # 0
    BY <1>1, <2>4
  <2>6. i - 1 \in 0 .. n /\ ~(i <= i - 1) /\ i \in 1 .. n
    BY <1>1, <2>4, <2>5
  <2>7. i - 1 \notin T
    <3>1. HIDE DEF T
    <3>2. QED BY <2>3, <2>6
  <2>8. ~(s < f[i - 1]) /\ f[i - 1] \in Nat
    BY <1>1, <2>6, <2>7
  <2>9. f[i - 1] <= s
    BY <2>8
  <2>10. QED BY <2>4, <2>6, <2>9
<1>4. QED BY <1>2, <1>3

\* A change of the members leaves a group one.
LEMMA SliceFacts ==
  ASSUME NEW gr \in Group, NEW a \in Agent, NEW w \in Nat \ {0}
  PROVE  /\ AddMemberWithWeight(gr, a, w) \in Group
         /\ RemoveMember(gr, a) \in Group
         /\ UpdateMemberWeight(gr, a, w) \in Group
<1>1. PICK S : S = Member
  OBVIOUS
<1>2. PICK ms : ms = gr.members
  OBVIOUS
<1>3. ms \in Seq(S) /\ gr.capacity \in Nat /\ gr.name \in Name
  BY <1>1, <1>2 DEF Group
<1>4. /\ \A s \in Seq(S), k \in Nat : [gr EXCEPT !.members = s, !.capacity = k] \in Group
      /\ \A s \in Seq(S) : [gr EXCEPT !.members = s] \in Group
  BY <1>1 DEF Group
<1>5. AddMemberWithWeight(gr, a, w) \in Group
  <2>1. PICK m : m = [agent |-> a, weight |-> w]
    OBVIOUS
  <2>2. m \in S
    BY <1>1, <2>1 DEF Member
  <2>3. Append(ms, m) \in Seq(S)
    BY <1>3, <2>2, AppendProperties
  <2>4. PICK c \in Nat : c = gr.capacity
    BY <1>3
  <2>5. PICK k : k = IF Len(ms) < c THEN c ELSE Grown(c)
    OBVIOUS
  <2>6. k \in Nat
    <3>1. Grown(c) \in Nat
      BY DEF Grown
    <3>2. QED BY <2>5, <3>1
  <2>7. [gr EXCEPT !.members = Append(ms, m), !.capacity = k] \in Group
    BY <1>4, <2>3, <2>6
  <2>8. QED BY <1>2, <2>1, <2>4, <2>5, <2>7 DEF AddMemberWithWeight
<1>6. RemoveMember(gr, a) \in Group
  <2>1. PICK T : T = {i \in DOMAIN ms : ms[i].agent # a}
    OBVIOUS
  <2>2. T \subseteq DOMAIN ms
    BY <2>1
  <2>3. At(ms, T) \in Seq(S)
    <3>1. /\ At(ms, T) \in Seq(S)
          /\ \A k \in DOMAIN At(ms, T) : \E i \in T : At(ms, T)[k] = ms[i]
          /\ \A i \in T : \E k \in DOMAIN At(ms, T) : At(ms, T)[k] = ms[i]
      BY <1>3, <2>2, AtFacts
    <3>2. QED BY <3>1
  <2>4. QED BY <1>2, <1>4, <2>1, <2>3 DEF RemoveMember, Without
<1>7. UpdateMemberWeight(gr, a, w) \in Group
  <2>1. PICK s : s = [i \in DOMAIN ms |->
                        IF ms[i].agent = a THEN [ms[i] EXCEPT !.weight = w] ELSE ms[i]]
    OBVIOUS
  <2>2. ASSUME NEW i \in DOMAIN ms PROVE s[i] \in S
    <3>1. ms[i] \in S
      BY <1>3, ElementOfSeq
    <3>2. [ms[i] EXCEPT !.weight = w] \in Member
      BY <1>1, <3>1 DEF Member
    <3>3. QED BY <1>1, <2>1, <3>1, <3>2
  <2>3. s \in Seq(S)
    <3>1. PICK n \in Nat : DOMAIN ms = 1 .. n
      BY <1>3
    <3>2. s \in [1 .. n -> S]
      BY <2>1, <2>2, <3>1
    <3>3. QED BY <3>2
  <2>4. QED BY <1>2, <1>4, <2>1, <2>3 DEF UpdateMemberWeight
<1>8. QED BY <1>5, <1>6, <1>7

\* Nobody who stays changes its place, unless somebody leaves.
Gentle(gr, new) ==
  Agents(gr.members) \subseteq Agents(new.members) =>
    \A i \in DOMAIN gr.members :
      i \in DOMAIN new.members /\ new.members[i].agent = gr.members[i].agent

LEMMA GentleFacts ==
  ASSUME NEW gr \in Group, NEW a \in Agent, NEW w \in Nat \ {0}
  PROVE  /\ Gentle(gr, AddMemberWithWeight(gr, a, w))
         /\ a \in Agents(gr.members) => Gentle(gr, RemoveMember(gr, a))
         /\ Gentle(gr, UpdateMemberWeight(gr, a, w))
         /\ \A n : Gentle(gr, [gr EXCEPT !.name = n])
<1>1. PICK S : S = Member
  OBVIOUS
<1>2. PICK ms : ms = gr.members
  OBVIOUS
<1>3. ms \in Seq(S) /\ DOMAIN gr = {"name", "members", "capacity"}
  BY <1>1, <1>2 DEF Group
<1>4. Gentle(gr, AddMemberWithWeight(gr, a, w))
  <2>1. CASE a \in Agents(ms)
    BY <1>2, <2>1 DEF AddMemberWithWeight, Gentle
  <2>2. CASE a \notin Agents(ms)
    <3>1. PICK m : m = [agent |-> a, weight |-> w]
      OBVIOUS
    <3>2. m \in S
      BY <1>1, <3>1 DEF Member
    <3>3. AddMemberWithWeight(gr, a, w).members = Append(ms, m)
      BY <1>2, <1>3, <2>2, <3>1 DEF AddMemberWithWeight
    <3>4. \A i \in DOMAIN ms : i \in DOMAIN Append(ms, m) /\ Append(ms, m)[i] = ms[i]
      <4>1. PICK k \in Nat : k = Len(ms) /\ DOMAIN ms = 1 .. k
        BY <1>3
      <4>2. PICK q : q = Append(ms, m)
        OBVIOUS
      <4>3. DOMAIN q = 1 .. k + 1 /\ \A i \in 1 .. k : q[i] = ms[i]
        BY <1>3, <3>2, <4>1, <4>2, AppendProperties
      <4>4. QED BY <4>1, <4>2, <4>3
    <3>5. QED BY <1>2, <3>3, <3>4 DEF Gentle
  <2>3. QED BY <2>1, <2>2
<1>5. ASSUME a \in Agents(gr.members) PROVE Gentle(gr, RemoveMember(gr, a))
  <2>1. PICK T : T = {i \in DOMAIN ms : ms[i].agent # a}
    OBVIOUS
  <2>2. RemoveMember(gr, a).members = At(ms, T)
    BY <1>2, <1>3, <2>1 DEF RemoveMember, Without
  <2>3. \A k \in DOMAIN At(ms, T) : \E i \in T : At(ms, T)[k] = ms[i]
    <3>1. T \subseteq DOMAIN ms
      BY <2>1
    <3>2. /\ At(ms, T) \in Seq(S)
          /\ \A k \in DOMAIN At(ms, T) : \E i \in T : At(ms, T)[k] = ms[i]
          /\ \A i \in T : \E k \in DOMAIN At(ms, T) : At(ms, T)[k] = ms[i]
      BY <1>3, <3>1, AtFacts
    <3>3. QED BY <3>2
  <2>4. a \notin Agents(RemoveMember(gr, a).members)
    BY <2>1, <2>2, <2>3 DEF Agents
  <2>5. QED BY <1>5, <2>4 DEF Gentle
<1>6. Gentle(gr, UpdateMemberWeight(gr, a, w))
  <2>1. PICK q : q = [i \in DOMAIN ms |->
                        IF ms[i].agent = a THEN [ms[i] EXCEPT !.weight = w] ELSE ms[i]]
    OBVIOUS
  <2>2. UpdateMemberWeight(gr, a, w).members = q /\ DOMAIN q = DOMAIN ms
    BY <1>2, <1>3, <2>1 DEF UpdateMemberWeight
  <2>3. ASSUME NEW i \in DOMAIN ms PROVE q[i].agent = ms[i].agent
    <3>1. ms[i] \in S
      BY <1>3, ElementOfSeq
    <3>2. [ms[i] EXCEPT !.weight = w].agent = ms[i].agent
      BY <1>1, <3>1 DEF Member
    <3>3. QED BY <2>1, <3>2
  <2>4. QED BY <1>2, <2>2, <2>3 DEF Gentle
<1>7. \A n : Gentle(gr, [gr EXCEPT !.name = n])
  <2>1. \A n : [gr EXCEPT !.name = n].members = gr.members
    BY <1>3
  <2>2. QED BY <2>1 DEF Gentle
<1>8. QED BY <1>4, <1>5, <1>6, <1>7

\* A save changes the key of its group or nothing, and says which.
LEMMA PersistFacts ==
  ASSUME DispatchTypeOK, NEW g \in GroupId, NEW new \in Group \cup {NoGroup}, persist(g, new)
  PROVE  /\ stored' \in [GroupId -> Group \cup {NoGroup}] /\ unsaved' \subseteq GroupId
         /\ \A h \in GroupId : h # g => stored'[h] = stored[h] /\ (h \in unsaved' <=> h \in unsaved)
         /\ g \notin unsaved' => stored'[g] = new
         /\ stored'[g] = new \/ stored'[g] = stored[g]
<1>1. stored \in [GroupId -> Group \cup {NoGroup}] /\ unsaved \subseteq GroupId
  BY DEF DispatchTypeOK
<1>2. PICK G : G = Group \cup {NoGroup}
  OBVIOUS
<1>3. CASE stored' = [stored EXCEPT ![g] = new] /\ unsaved' = unsaved \ {g}
  BY <1>1, <1>2, <1>3
<1>4. CASE stored' = stored /\ unsaved' = unsaved \cup {g}
  BY <1>1, <1>2, <1>4
<1>5. QED BY <1>3, <1>4 DEF persist

\* So does a new name, and a copy has the capacity it is given.
LEMMA GroupFacts ==
  ASSUME NEW gr \in Group
  PROVE  /\ gr # NoGroup
         /\ [gr EXCEPT !.capacity = gr.capacity] = gr
         /\ \A n \in Name : [gr EXCEPT !.name = n] \in Group
         /\ Decoded(gr) \in Group /\ [gr EXCEPT !.capacity = Decoded(gr).capacity] = Decoded(gr)
         /\ Agents(gr.members) \subseteq Agent
<1>1. gr # NoGroup
  BY DispatchAssumption DEF DispatchAssumption
<1>2. PICK ms, k, n : gr = [name |-> n, members |-> ms, capacity |-> k]
                      /\ n \in Name /\ ms \in Seq(Member) /\ k \in Nat
  BY DEF Group
<1>3. gr.members = ms /\ gr.capacity = k
  BY <1>2
<1>4. [gr EXCEPT !.capacity = gr.capacity] = gr
  BY <1>2
<1>5. \A m \in Name : [gr EXCEPT !.name = m] \in Group
  BY DEF Group
<1>6. PICK c : c = CASE Len(ms) = 0 -> 0 [] Len(ms) = 1 -> 1 [] Len(ms) = 2 -> 2 [] OTHER -> 4
  OBVIOUS
<1>7. c \in Nat
  BY <1>6
<1>8. Decoded(gr) = [gr EXCEPT !.capacity = c]
  BY <1>1, <1>3, <1>6 DEF Decoded
<1>9. [gr EXCEPT !.capacity = c] = [name |-> n, members |-> ms, capacity |-> c]
  BY <1>2
<1>10. Decoded(gr) \in Group /\ Decoded(gr).capacity = c
  BY <1>2, <1>7, <1>8, <1>9 DEF Group
<1>11. Agents(gr.members) \subseteq Agent
  <2>1. \A i \in DOMAIN ms : ms[i].agent \in Agent
    <3>1. PICK S : S = Member
      OBVIOUS
    <3>2. \A i \in DOMAIN ms : ms[i] \in S
      BY <1>2, <3>1, ElementOfSeq
    <3>3. \A m \in S : m.agent \in Agent
      BY <3>1 DEF Member
    <3>4. QED BY <3>2, <3>3
  <2>2. QED BY <1>3, <2>1 DEF Agents
<1>12. QED BY <1>1, <1>4, <1>5, <1>8, <1>10, <1>11

-----------------------------------------------------------------------------
(* Each step. *)

LEMMA DispatchInitInv == DispatchInit => DispatchInv
<1> SUFFICES ASSUME DispatchInit PROVE DispatchInv
  OBVIOUS
<1>1. PICK n \in Nat \ {0}, m \in Nat \ {0}, p \in Nat \ {0}, q \in Nat \ {0} :
        n = CircuitThreshold /\ m = ResetTimeout /\ p = Period /\ q = MaxGroup
  BY DispatchAssumption DEF DispatchAssumption
<1>2. NewBreaker \in Breaker
  BY <1>1 DEF NewBreaker, Breaker
<1>3. DispatchTypeOK
  <2>1. breakers \in [Agent -> Breaker]
    BY <1>2 DEF DispatchInit
  <2>2. counter \in 0 .. MaxGroup /\ rrIndex \in [GroupId -> 0 .. Period - 1]
    BY <1>1 DEF DispatchInit
  <2>3. dealt \in [GroupId -> [Agent -> Nat]] /\ steady \in [Caller -> SUBSET Agent]
    BY DEF DispatchInit, NoDraws
  <2>4. edits \in 0 .. MaxEdit /\ crashes \in 0 .. MaxCrash
    BY DispatchAssumption DEF DispatchInit, DispatchAssumption
  <2>5. QED BY <2>1, <2>2, <2>3, <2>4 DEF DispatchInit, DispatchTypeOK
<1>4. StoreMirrorsGroups /\ CallsOK /\ ReaderOK /\ IdsOK
  BY DEF DispatchInit, StoreMirrorsGroups, CallsOK, ReaderOK, IdsOK
<1>5. QED BY <1>3, <1>4 DEF DispatchInv

\* A breaker changes, and with it who is steady.
LEMMA SetBreakerFacts ==
  ASSUME DispatchInv, NEW a, NEW b, a \in Agent => b \in Breaker, SetBreaker(a, b)
  PROVE  breakers' \in [Agent -> Breaker] /\ steady' \in [Caller -> SUBSET Agent]
<1>1. breakers' \in [Agent -> Breaker]
  BY DEF DispatchInv, DispatchTypeOK, SetBreaker
<1>2. steady' \in [Caller -> SUBSET Agent]
  <2>1. \A c \in Caller : steady[c] \subseteq Agent
    BY DEF DispatchInv, DispatchTypeOK
  <2>2. QED BY <2>1 DEF SetBreaker, StillClosed
<1>3. QED BY <1>1, <1>2

LEMMA BreakerStep ==
  ASSUME DispatchInv, NEW a \in Agent,
         Reset(a) \/ \E ok \in BOOLEAN : Record(a, ok)
  PROVE  DispatchInv'
<1>1. PICK b \in Breaker : SetBreaker(a, b)
  <2>1. breakers[a] \in Breaker
    BY DEF DispatchInv, DispatchTypeOK
  <2>2. /\ NewBreaker \in Breaker /\ RecordSuccess(breakers[a]) \in Breaker
        /\ RecordFailure(breakers[a]) \in Breaker
    BY <2>1, BreakerFacts
  <2>3. QED BY <2>2 DEF Reset, Record
<1>2. breakers' \in [Agent -> Breaker] /\ steady' \in [Caller -> SUBSET Agent]
  BY <1>1, SetBreakerFacts
<1>3. UNCHANGED <<groups, counter, rrIndex, stored, calls, reader, unsaved, dealt, edits, crashes>>
  BY DEF Reset, Record
<1>4. QED BY <1>2, <1>3 DEF DispatchInv, DispatchTypeOK, StoreMirrorsGroups, CallsOK, ReaderOK, IdsOK, Shows

LEMMA BreakersTickStep == ASSUME DispatchInv, BreakersTick PROVE DispatchInv'
<1>1. ASSUME NEW a \in Agent, breakers[a].state = "open", breakers[a].age < ResetTimeout
      PROVE  [breakers[a] EXCEPT !.age = @ + 1] \in Breaker
  <2>1. PICK b \in Breaker : b = breakers[a]
    BY DEF DispatchInv, DispatchTypeOK
  <2>2. PICK m \in Nat : m = ResetTimeout
    BY DispatchAssumption DEF DispatchAssumption
  <2>3. b.age + 1 \in 0 .. m
    BY <1>1, <2>1, <2>2 DEF Breaker
  <2>4. [b EXCEPT !.age = b.age + 1] \in Breaker
    BY <2>2, <2>3 DEF Breaker
  <2>5. QED BY <2>1, <2>4
<1>2. breakers' \in [Agent -> Breaker]
  <2>1. \A a \in Agent : breakers[a] \in Breaker
    BY DEF DispatchInv, DispatchTypeOK
  <2>2. QED BY <1>1, <2>1 DEF BreakersTick
<1>3. UNCHANGED <<groups, counter, rrIndex, stored, calls, reader, unsaved, dealt, steady, edits, crashes>>
  BY DEF BreakersTick
<1>4. QED BY <1>2, <1>3 DEF DispatchInv, DispatchTypeOK, StoreMirrorsGroups, CallsOK, ReaderOK, IdsOK, Shows

\* A snapshot of a group shows what was found, until somebody leaves.
LEMMA AliasedFacts ==
  ASSUME NEW r, r \in Reader, NEW g \in GroupId, NEW gr \in Group, NEW new \in Group,
         Gentle(gr, new),
         ~r.removed => /\ Shows(r.cells, r.found)
                       /\ r.group = g /\ r.shared => Shows(gr.members, r.found)
  PROVE  LET x == Aliased(r, g, gr, new)
         IN  \/ x = NoRead
             \/ x = r /\ r.group # g
             \/ /\ x \in Reader /\ x.group = g /\ r.group = g
                /\ ~x.removed => /\ Shows(x.cells, x.found)
                                 /\ x.shared => Shows(new.members, x.found)
<1>1. CASE r = NoRead \/ r.group # g
  BY <1>1 DEF Aliased
<1>2. CASE r # NoRead /\ r.group = g
  <2>1. PICK S : S = Member
    OBVIOUS
  <2>2. PICK ms : ms = new.members
    OBVIOUS
  <2>3. PICK cells, found : cells = r.cells /\ found = r.found
    OBVIOUS
  <2>4. ms \in Seq(S) /\ cells \in Seq(S) /\ r.removed \in BOOLEAN
    BY <2>1, <2>2, <2>3 DEF Group, Reader
  <2>5. PICK both : both = (r.shared /\ new.capacity = gr.capacity) /\ both \in BOOLEAN
    OBVIOUS
  <2>6. PICK n \in Nat : n = Len(ms) /\ DOMAIN ms = 1 .. n
    BY <2>4
  <2>7. PICK k \in Nat : k = Len(cells) /\ DOMAIN cells = 1 .. k
    BY <2>4
  <2>8. PICK cs : cs = IF ~both THEN cells
                       ELSE [i \in DOMAIN cells |-> IF i <= n THEN ms[i] ELSE cells[i]]
    OBVIOUS
  <2>9. DOMAIN cs = 1 .. k
    BY <2>7, <2>8
  <2>10. \A i \in 1 .. k : cs[i] \in S
    <3>1. ASSUME NEW i \in 1 .. k PROVE cs[i] \in S
      <4>1. cells[i] \in S
        BY <2>4, <2>7, ElementOfSeq
      <4>2. \A j \in DOMAIN ms : ms[j] \in S
        BY <2>4, ElementOfSeq
      <4>3. i <= n => i \in DOMAIN ms
        BY <2>6
      <4>4. cs[i] = cells[i] \/ (i <= n /\ cs[i] = ms[i])
        BY <2>7, <2>8
      <4>5. QED BY <4>1, <4>2, <4>3, <4>4
    <3>2. QED BY <3>1
  <2>11. cs \in Seq(S)
    <3>1. cs = [i \in 1 .. k |-> cs[i]]
      <4>1. cells = [i \in 1 .. k |-> cells[i]]
        BY <2>4, <2>7
      <4>2. CASE both
        BY <2>7, <2>8, <4>2
      <4>3. CASE ~both
        BY <2>8, <4>1, <4>3
      <4>4. QED BY <4>2, <4>3
    <3>2. cs \in [1 .. k -> S]
      BY <2>10, <3>1
    <3>3. QED BY <3>2
  <2>12. PICK gone \in BOOLEAN :
           gone = (r.removed \/ ~(Agents(gr.members) \subseteq Agents(ms)))
    OBVIOUS
  <2>15. PICK x : x = [r EXCEPT !.shared = both, !.cells = cs, !.removed = gone]
    OBVIOUS
  <2>16. Aliased(r, g, gr, new) = x
    BY <1>2, <2>2, <2>3, <2>5, <2>6, <2>8, <2>12, <2>15 DEF Aliased
  <2>17. x \in Reader
    <3>1. \A q \in Seq(S), w, u \in BOOLEAN :
            [r EXCEPT !.shared = w, !.cells = q, !.removed = u] \in Reader
      BY <2>1 DEF Reader
    <3>2. QED BY <2>5, <2>11, <2>12, <2>15, <3>1
  <2>18. /\ x.group = r.group /\ x.cells = cs /\ x.found = found
         /\ x.shared = both /\ x.removed = gone
    BY <2>3, <2>15 DEF Reader
  <2>19. ASSUME ~gone PROVE Shows(cs, found) /\ (both => Shows(ms, found))
    <3>1. ~r.removed /\ Agents(gr.members) \subseteq Agents(ms)
      BY <2>12, <2>19
    <3>2. Shows(cells, found) /\ (both => Shows(gr.members, found))
      BY <1>2, <2>3, <2>5, <3>1
    <3>3. \A i \in DOMAIN gr.members : i \in DOMAIN ms /\ ms[i].agent = gr.members[i].agent
      BY <2>2, <3>1 DEF Gentle
    <3>4. both => Shows(ms, found)
      BY <3>2, <3>3 DEF Shows
    <3>5. Shows(cs, found)
      <4>1. ASSUME NEW i \in DOMAIN found PROVE i \in DOMAIN cs /\ cs[i].agent = found[i]
        <5>1. i \in 1 .. k /\ cells[i].agent = found[i]
          BY <2>7, <3>2 DEF Shows
        <5>2. both => i \in DOMAIN ms /\ ms[i].agent = found[i]
          BY <3>4 DEF Shows
        <5>3. cs[i] = cells[i] \/ (both /\ cs[i] = ms[i])
          BY <2>7, <2>8, <5>1
        <5>4. QED BY <2>9, <5>1, <5>2, <5>3
      <4>2. QED BY <4>1 DEF Shows
    <3>6. QED BY <3>4, <3>5
  <2>20. QED BY <1>2, <2>2, <2>16, <2>17, <2>18, <2>19
<1>3. QED BY <1>1, <1>2

LEMMA SetGroupStep ==
  ASSUME DispatchInv, NEW g \in GroupId, groups[g] # NoGroup, NEW new \in Group,
         Gentle(groups[g], new), SetGroup(g, new)
  PROVE  DispatchInv'
<1>1. groups[g] \in Group
  BY DEF DispatchInv, DispatchTypeOK
<1>2. UNCHANGED <<breakers, rrIndex, calls, counter, crashes>>
  BY DEF SetGroup
<1>10. /\ groups' = [groups EXCEPT ![g] = new] /\ DOMAIN groups = GroupId
  BY DEF DispatchInv, DispatchTypeOK, SetGroup
<1>11. /\ stored' \in [GroupId -> Group \cup {NoGroup}] /\ unsaved' \subseteq GroupId
       /\ \A h \in GroupId : h # g => stored'[h] = stored[h] /\ (h \in unsaved' <=> h \in unsaved)
       /\ g \notin unsaved' => stored'[g] = new
  BY PersistFacts DEF SetGroup, DispatchInv
<1>3. DispatchTypeOK'
  <2>1. groups' \in [GroupId -> Group \cup {NoGroup}]
    BY DEF DispatchInv, DispatchTypeOK, SetGroup
  <2>2. dealt' \in [GroupId -> [Agent -> Nat]]
    BY DEF DispatchInv, DispatchTypeOK, SetGroup, NoDraws
  <2>3. steady' \in [Caller -> SUBSET Agent]
    <3>1. \A c \in Caller : steady[c] \in SUBSET Agent
      BY DEF DispatchInv, DispatchTypeOK
    <3>2. QED BY <3>1 DEF SetGroup
  <2>4. edits' \in 0 .. MaxEdit
    <3>1. MaxEdit \in Nat /\ edits \in 0 .. MaxEdit
      BY DispatchAssumption DEF DispatchAssumption, DispatchInv, DispatchTypeOK
    <3>2. QED BY <3>1 DEF SetGroup
  <2>5. QED BY <1>2, <1>11, <2>1, <2>2, <2>3, <2>4 DEF DispatchInv, DispatchTypeOK
<1>4. StoreMirrorsGroups'
  <2>1. new # NoGroup /\ [new EXCEPT !.capacity = new.capacity] = new
    BY GroupFacts
  <2>3. StoreMirrorsGroups
    BY DEF DispatchInv
  <2>4. QED BY <1>10, <1>11, <2>1, <2>3 DEF StoreMirrorsGroups
<1>5. CallsOK'
  BY <1>2 DEF DispatchInv, CallsOK
<1>6. ReaderOK'
  <2>1. reader' = Aliased(reader, g, groups[g], new)
    BY DEF SetGroup
  <2>2. CASE reader = NoRead
    BY <2>1, <2>2 DEF Aliased, ReaderOK
  <2>3. CASE reader # NoRead
    <3>1. /\ reader \in Reader /\ reader.group <= counter
          /\ ~reader.removed =>
               /\ Shows(reader.cells, reader.found)
               /\ reader.shared /\ groups[reader.group] # NoGroup =>
                    Shows(groups[reader.group].members, reader.found)
      BY <2>3 DEF DispatchInv, ReaderOK
    <3>2. PICK x : x = Aliased(reader, g, groups[g], new)
      OBVIOUS
    <3>3. \/ x = NoRead
          \/ x = reader /\ reader.group # g
          \/ /\ x \in Reader /\ x.group = g /\ reader.group = g
             /\ ~x.removed => /\ Shows(x.cells, x.found)
                              /\ x.shared => Shows(new.members, x.found)
      BY <1>1, <3>1, <3>2, AliasedFacts
    <3>4. reader' = x /\ counter' = counter
      BY <1>2, <2>1, <3>2
    <3>5. CASE x = reader /\ reader.group # g
      <4>1. groups'[reader.group] = groups[reader.group]
        BY <1>10, <3>1, <3>5 DEF Reader
      <4>2. QED BY <3>1, <3>4, <3>5, <4>1 DEF ReaderOK, Shows
    <3>6. CASE /\ x \in Reader /\ x.group = g /\ reader.group = g
               /\ ~x.removed => /\ Shows(x.cells, x.found)
                                /\ x.shared => Shows(new.members, x.found)
      <4>1. groups'[g] = new
        BY <1>10
      <4>2. QED BY <3>1, <3>4, <3>6, <4>1 DEF ReaderOK, Shows
    <3>7. QED BY <3>3, <3>4, <3>5, <3>6 DEF ReaderOK
  <2>4. QED BY <2>2, <2>3
<1>7. IdsOK'
  BY <1>2, <1>10 DEF DispatchInv, IdsOK
<1>8. QED BY <1>3, <1>4, <1>5, <1>6, <1>7 DEF DispatchInv

\* What the handlers make of a group.
LEMMA EditedGroup ==
  ASSUME DispatchInv, NEW g \in GroupId,
         \/ \E n \in Name : Update(g, n)
         \/ \E a \in Agent : \/ DeleteMember(g, a)
                             \/ \E w \in Weight[a] : PatchMember(g, a, w) \/ PostMember(g, a, w)
  PROVE  groups[g] # NoGroup /\ \E new \in Group : SetGroup(g, new) /\ Gentle(groups[g], new)
<1>1. groups[g] # NoGroup
  BY DEF Update, DeleteMember, PatchMember, PostMember
<1>2. PICK gr \in Group : gr = groups[g]
  BY <1>1 DEF DispatchInv, DispatchTypeOK
<1>3. \E new \in Group : SetGroup(g, new) /\ Gentle(gr, new)
  <2>1. CASE \E n \in Name : Update(g, n)
    <3>1. PICK n \in Name : Update(g, n)
      BY <2>1
    <3>2. [gr EXCEPT !.name = n] \in Group
      BY GroupFacts
    <3>3. Gentle(gr, [gr EXCEPT !.name = n])
      <4>1. [gr EXCEPT !.name = n].members = gr.members
        BY DEF Group
      <4>2. QED BY <4>1 DEF Gentle
    <3>4. QED BY <1>2, <3>1, <3>2, <3>3 DEF Update
  <2>2. CASE \E a \in Agent : DeleteMember(g, a)
    <3>1. PICK a \in Agent : DeleteMember(g, a)
      BY <2>2
    <3>2. 1 \in Nat \ {0}
      OBVIOUS
    <3>3. RemoveMember(gr, a) \in Group
      BY <3>2, SliceFacts
    <3>5. Gentle(gr, RemoveMember(gr, a))
      BY <1>2, <3>1, <3>2, GentleFacts DEF DeleteMember
    <3>4. QED BY <1>2, <3>1, <3>3, <3>5 DEF DeleteMember
  <2>3. CASE \E a \in Agent : \E w \in Weight[a] : PatchMember(g, a, w) \/ PostMember(g, a, w)
    <3>5. PICK a \in Agent : \E w \in Weight[a] : PatchMember(g, a, w) \/ PostMember(g, a, w)
      BY <2>3
    <3>1. PICK w \in Weight[a] : PatchMember(g, a, w) \/ PostMember(g, a, w)
      BY <3>5
    <3>2. w \in Nat \ {0}
      <4>1. w \in Nat
        BY DispatchAssumption DEF DispatchAssumption
      <4>2. w > 0
        BY <3>1 DEF PatchMember, PostMember
      <4>3. QED BY <4>1, <4>2
    <3>3. AddMemberWithWeight(gr, a, w) \in Group /\ UpdateMemberWeight(gr, a, w) \in Group
      BY <3>2, SliceFacts
    <3>6. Gentle(gr, AddMemberWithWeight(gr, a, w)) /\ Gentle(gr, UpdateMemberWeight(gr, a, w))
      BY <3>2, GentleFacts
    <3>4. QED BY <1>2, <3>1, <3>3, <3>6 DEF PatchMember, PostMember
  <2>4. QED BY <2>1, <2>2, <2>3
<1>4. QED BY <1>1, <1>2, <1>3

LEMMA EditStep ==
  ASSUME DispatchInv, NEW g \in GroupId,
         \/ \E n \in Name : Update(g, n)
         \/ \E a \in Agent : \/ DeleteMember(g, a)
                             \/ \E w \in Weight[a] : PatchMember(g, a, w) \/ PostMember(g, a, w)
  PROVE  DispatchInv'
  BY EditedGroup, SetGroupStep

LEMMA CreateStep == ASSUME DispatchInv, NEW n \in Name, Create(n) PROVE DispatchInv'
<1>1. PICK m \in Nat \ {0}, p \in Nat \ {0} : m = MaxGroup /\ p = Period
  BY DispatchAssumption DEF DispatchAssumption
<1>2. PICK g : g = counter + 1
  OBVIOUS
<1>3. g \in GroupId /\ g \in 0 .. MaxGroup /\ counter' = g
  BY <1>1, <1>2 DEF Create, DispatchInv, DispatchTypeOK, GroupId
<1>4. PICK gr : gr = [name |-> n, members |-> <<>>, capacity |-> 0]
  OBVIOUS
<1>5. gr \in Group
  BY <1>4 DEF Group
<1>6. /\ groups' = [groups EXCEPT ![g] = gr] /\ persist(g, gr)
      /\ rrIndex' = [rrIndex EXCEPT ![g] = 0] /\ dealt' = [dealt EXCEPT ![g] = NoDraws]
      /\ UNCHANGED <<breakers, calls, reader, steady, edits, crashes>>
  BY <1>2, <1>4 DEF Create
<1>10. /\ stored' \in [GroupId -> Group \cup {NoGroup}] /\ unsaved' \subseteq GroupId
       /\ \A h \in GroupId : h # g => stored'[h] = stored[h] /\ (h \in unsaved' <=> h \in unsaved)
       /\ g \notin unsaved' => stored'[g] = gr
  BY <1>3, <1>5, <1>6, PersistFacts DEF DispatchInv
<1>7. DispatchTypeOK'
  <2>1. groups' \in [GroupId -> Group \cup {NoGroup}]
    BY <1>5, <1>6 DEF DispatchInv, DispatchTypeOK
  <2>2. rrIndex' \in [GroupId -> 0 .. Period - 1]
    <3>1. 0 \in 0 .. p - 1
      OBVIOUS
    <3>2. PICK R : R = 0 .. Period - 1
      OBVIOUS
    <3>3. 0 \in R /\ rrIndex \in [GroupId -> R]
      BY <1>1, <3>1, <3>2 DEF DispatchInv, DispatchTypeOK
    <3>4. QED BY <1>6, <3>2, <3>3
  <2>3. dealt' \in [GroupId -> [Agent -> Nat]]
    BY <1>6 DEF DispatchInv, DispatchTypeOK, NoDraws
  <2>4. QED BY <1>3, <1>6, <1>10, <2>1, <2>2, <2>3 DEF DispatchInv, DispatchTypeOK
<1>8. StoreMirrorsGroups'
  <2>1. gr # NoGroup /\ [gr EXCEPT !.capacity = gr.capacity] = gr
    BY <1>5, GroupFacts
  <2>2. DOMAIN groups = GroupId /\ StoreMirrorsGroups
    BY DEF DispatchInv, DispatchTypeOK
  <2>3. QED BY <1>6, <1>10, <2>1, <2>2 DEF StoreMirrorsGroups
<1>11. PICK k \in Nat : k = counter /\ g = k + 1
  BY <1>1, <1>2 DEF DispatchInv, DispatchTypeOK
<1>12. \A h \in GroupId : h # g => groups'[h] = groups[h]
  BY <1>6 DEF DispatchInv, DispatchTypeOK
<1>13. \A h \in GroupId : h \in Nat
  BY <1>1 DEF GroupId
<1>14. IdsOK'
  <2>1. \A h \in GroupId : h <= k => h <= g
    BY <1>11, <1>13
  <2>2. g <= g
    BY <1>11
  <2>3. QED BY <1>3, <1>11, <1>12, <2>1, <2>2 DEF DispatchInv, IdsOK
<1>15. ReaderOK'
  <2>1. CASE reader = NoRead
    BY <1>6, <2>1 DEF ReaderOK
  <2>2. CASE reader # NoRead
    <3>1. reader.group \in GroupId /\ reader.group <= k
      BY <1>11, <2>2 DEF DispatchInv, ReaderOK, Reader
    <3>2. reader.group <= g /\ reader.group # g
      BY <1>11, <1>13, <3>1
    <3>3. groups'[reader.group] = groups[reader.group]
      BY <1>12, <3>1, <3>2
    <3>4. QED BY <1>3, <1>6, <2>2, <3>2, <3>3 DEF DispatchInv, ReaderOK, Shows
  <2>3. QED BY <2>1, <2>2
<1>9. QED BY <1>6, <1>7, <1>8, <1>14, <1>15 DEF DispatchInv, CallsOK

LEMMA DeleteGroupStep == ASSUME DispatchInv, NEW g \in GroupId, DeleteGroup(g) PROVE DispatchInv'
<1>1. UNCHANGED <<breakers, counter, rrIndex, calls, reader, crashes>>
  BY DEF DeleteGroup
<1>5. /\ stored' \in [GroupId -> Group \cup {NoGroup}] /\ unsaved' \subseteq GroupId
      /\ \A h \in GroupId : h # g => stored'[h] = stored[h] /\ (h \in unsaved' <=> h \in unsaved)
      /\ g \notin unsaved' => stored'[g] = NoGroup
  BY PersistFacts DEF DispatchInv, DeleteGroup
<1>6. \A h \in GroupId : groups'[h] = IF h = g THEN NoGroup ELSE groups[h]
  BY DEF DispatchInv, DispatchTypeOK, DeleteGroup
<1>2. DispatchTypeOK'
  <2>1. groups' \in [GroupId -> Group \cup {NoGroup}]
    BY DEF DispatchInv, DispatchTypeOK, DeleteGroup
  <2>2. dealt' \in [GroupId -> [Agent -> Nat]]
    BY DEF DispatchInv, DispatchTypeOK, DeleteGroup, NoDraws
  <2>3. steady' \in [Caller -> SUBSET Agent]
    <3>1. \A c \in Caller : steady[c] \in SUBSET Agent
      BY DEF DispatchInv, DispatchTypeOK
    <3>2. QED BY <3>1 DEF DeleteGroup
  <2>4. edits' \in 0 .. MaxEdit
    <3>1. MaxEdit \in Nat /\ edits \in 0 .. MaxEdit
      BY DispatchAssumption DEF DispatchAssumption, DispatchInv, DispatchTypeOK
    <3>2. QED BY <3>1 DEF DeleteGroup
  <2>5. QED BY <1>1, <1>5, <2>1, <2>2, <2>3, <2>4 DEF DispatchInv, DispatchTypeOK
<1>3. StoreMirrorsGroups'
  BY <1>5, <1>6 DEF DispatchInv, StoreMirrorsGroups
<1>7. ReaderOK'
  <2>1. reader # NoRead => reader.group \in GroupId
    BY DEF DispatchInv, ReaderOK, Reader
  <2>2. QED BY <1>1, <1>6, <2>1 DEF DispatchInv, ReaderOK, Shows
<1>8. IdsOK'
  BY <1>1, <1>6 DEF DispatchInv, IdsOK
<1>4. QED BY <1>1, <1>2, <1>3, <1>7, <1>8 DEF DispatchInv, CallsOK

\* Without its bucket no group of the tenant is saved.
LEMMA DropTenantStep == ASSUME DispatchInv, DropTenant PROVE DispatchInv'
<1>1. /\ UNCHANGED <<breakers, groups, counter, rrIndex, calls, reader, dealt, steady, edits, crashes>>
      /\ stored' = [g \in GroupId |-> NoGroup] /\ unsaved' = {g \in GroupId : groups[g] # NoGroup}
  BY DEF DropTenant
<1>2. stored' \in [GroupId -> Group \cup {NoGroup}] /\ unsaved' \subseteq GroupId
  BY <1>1
<1>3. StoreMirrorsGroups'
  BY <1>1 DEF StoreMirrorsGroups
<1>4. QED BY <1>1, <1>2, <1>3 DEF DispatchInv, DispatchTypeOK, CallsOK, ReaderOK, IdsOK, Shows

LEMMA ReadStep ==
  ASSUME DispatchInv, (\E g \in GroupId : ReadBegin(g)) \/ ReadEnd
  PROVE  DispatchInv'
<1>1. UNCHANGED <<breakers, groups, counter, rrIndex, stored, calls, unsaved, dealt, steady, edits, crashes>>
  BY DEF ReadBegin, ReadEnd
<1>2. ReaderOK'
  <2>1. CASE \E g \in GroupId : ReadBegin(g)
    <3>1. PICK g \in GroupId : ReadBegin(g)
      BY <2>1
    <3>2. PICK gr \in Group : gr = groups[g]
      BY <3>1 DEF DispatchInv, DispatchTypeOK, ReadBegin
    <3>3. PICK S, ms : S = Member /\ ms = gr.members
      OBVIOUS
    <3>4. PICK found : found = [i \in DOMAIN ms |-> ms[i].agent]
      OBVIOUS
    <3>5. PICK k \in Nat : DOMAIN ms = 1 .. k
      BY <3>3 DEF Group
    <3>6. reader' = [group |-> g, cells |-> ms, shared |-> TRUE, found |-> found, removed |-> FALSE]
      BY <3>1, <3>2, <3>3, <3>4 DEF ReadBegin, Get
    <3>7. found \in Seq(Agent)
      <4>1. ASSUME NEW i \in DOMAIN ms PROVE ms[i].agent \in Agent
        <5>1. ms \in Seq(S)
          BY <3>3 DEF Group
        <5>2. ms[i] \in S
          BY <5>1, ElementOfSeq
        <5>3. QED BY <3>3, <5>2 DEF Member
      <4>2. found \in [1 .. k -> Agent]
        BY <3>4, <3>5, <4>1
      <4>3. QED BY <4>2
    <3>8. reader' \in Reader
      BY <3>3, <3>6, <3>7 DEF Reader, Group
    <3>9. Shows(ms, found)
      BY <3>4 DEF Shows
    <3>10. g <= counter' /\ groups'[g].members = ms
      BY <1>1, <3>1, <3>2, <3>3 DEF DispatchInv, IdsOK, ReadBegin
    <3>11. QED BY <3>6, <3>8, <3>9, <3>10 DEF ReaderOK, Shows
  <2>2. CASE ReadEnd
    BY <2>2 DEF ReadEnd, ReaderOK
  <2>3. QED BY <2>1, <2>2
<1>3. QED BY <1>1, <1>2 DEF DispatchInv, DispatchTypeOK, StoreMirrorsGroups, CallsOK, IdsOK

LEMMA NextCopyStep ==
  ASSUME DispatchInv, NEW c \in Caller, NEW g \in GroupId, NextCopy(c, g)
  PROVE  DispatchInv'
<1>1. UNCHANGED <<breakers, groups, counter, rrIndex, stored, reader, unsaved, dealt, edits, crashes>>
  BY DEF NextCopy
<1>2. PICK gr \in Group : gr = groups[g]
  BY DEF DispatchInv, DispatchTypeOK, NextCopy
<1>3. PICK p : p = [group |-> g, members |-> gr.members, at |-> "index", slot |-> 0, left |-> 0]
  OBVIOUS
<1>4. calls' = [calls EXCEPT ![c] = p] /\ gr.members # <<>>
  BY <1>2, <1>3 DEF NextCopy
<1>5. p \in Call
  BY <1>2, <1>3 DEF Call, Group
<1>6. steady' \in [Caller -> SUBSET Agent]
  <2>1. Agents(gr.members) \subseteq Agent
    BY GroupFacts
  <2>2. {a \in Agents(gr.members) : Closed(a)} \in SUBSET Agent
    BY <2>1
  <2>3. QED BY <1>2, <2>2 DEF DispatchInv, DispatchTypeOK, NextCopy
<1>7. calls' \in [Caller -> Call \cup {NoCall}]
  BY <1>4, <1>5 DEF DispatchInv, DispatchTypeOK
<1>8. CallsOK'
  <2>1. DOMAIN calls = Caller /\ CallsOK
    BY DEF DispatchInv, DispatchTypeOK
  <2>2. QED BY <1>3, <1>4, <2>1 DEF CallsOK
<1>9. QED BY <1>1, <1>6, <1>7, <1>8 DEF DispatchInv, DispatchTypeOK, StoreMirrorsGroups, ReaderOK, IdsOK, Shows

LEMMA NextIndexStep == ASSUME DispatchInv, NEW c \in Caller, NextIndex(c) PROVE DispatchInv'
<1>1. UNCHANGED <<breakers, groups, counter, stored, reader, unsaved, steady, edits, crashes>>
  BY DEF NextIndex
<1>2. PICK p \in Call : p = calls[c]
  BY DEF DispatchInv, DispatchTypeOK, NextIndex
<1>3. PICK ms : ms = p.members
  OBVIOUS
<1>4. PICK g \in GroupId : g = p.group
  BY DEF Call
<1>5. ms \in Seq(Member) /\ ms # <<>>
  BY <1>2, <1>3 DEF Call, DispatchInv, CallsOK, NextIndex
<1>6. PICK t \in Nat \ {0} : t = TotalWeight(ms)
  BY <1>5, TotalFacts
<1>7. PICK n \in Nat \ {0} : n = Period
  BY DispatchAssumption DEF DispatchAssumption
<1>8. PICK k \in Nat : k = rrIndex[g] /\ rrIndex \in [GroupId -> 0 .. Period - 1]
  BY <1>7 DEF DispatchInv, DispatchTypeOK
<1>9. k % t \in Nat /\ (k + 1) % n \in 0 .. n - 1
  OBVIOUS
<1>10. PICK q : q = [p EXCEPT !.at = "try", !.slot = k % t, !.left = t]
  OBVIOUS
<1>11. q \in Call /\ q.members = ms /\ q.left = t
  <2>1. q \in Call
    BY <1>6, <1>9, <1>10 DEF Call
  <2>2. QED BY <1>3, <1>10, <2>1 DEF Call
<1>12. calls' = [calls EXCEPT ![c] = q]
  BY <1>2, <1>3, <1>4, <1>6, <1>8, <1>10 DEF NextIndex, Tries
<1>13. rrIndex' \in [GroupId -> 0 .. Period - 1]
  <2>1. rrIndex' = [rrIndex EXCEPT ![g] = (k + 1) % n]
    BY <1>2, <1>4, <1>7, <1>8 DEF NextIndex
  <2>2. QED BY <1>7, <1>8, <1>9, <2>1
<1>14. dealt' \in [GroupId -> [Agent -> Nat]]
  <2>1. dealt \in [GroupId -> [Agent -> Nat]] /\ NoDraws \in [Agent -> Nat]
    BY DEF DispatchInv, DispatchTypeOK, NoDraws
  <2>2. ASSUME NEW d \in [Agent -> Nat], NEW a PROVE Deal(d, ms, a) \in [Agent -> Nat]
    <3>1. PICK e : e = [d EXCEPT ![a] = @ + 1]
      OBVIOUS
    <3>2. e \in [Agent -> Nat]
      <4>1. CASE a \in Agent
        <5>1. d[a] + 1 \in Nat
          BY <4>1
        <5>2. QED BY <3>1, <5>1
      <4>2. CASE a \notin Agent
        BY <3>1, <4>2
      <4>3. QED BY <4>1, <4>2
    <3>3. Deal(d, ms, a) = NoDraws \/ Deal(d, ms, a) = e
      BY <3>1 DEF Deal
    <3>4. QED BY <2>1, <3>2, <3>3
  <2>3. \E d \in [Agent -> Nat] : dealt' = [dealt EXCEPT ![g] = d]
    <3>1. \E a : dealt' = [dealt EXCEPT ![g] = Deal(dealt[g], ms, a)]
                 \/ dealt' = [dealt EXCEPT ![g] = NoDraws]
      BY <1>2, <1>3, <1>4 DEF NextIndex
    <3>2. QED BY <2>1, <2>2, <3>1
  <2>4. QED BY <2>1, <2>3
<1>15. calls' \in [Caller -> Call \cup {NoCall}]
  BY <1>11, <1>12 DEF DispatchInv, DispatchTypeOK
<1>16. CallsOK'
  <2>1. DOMAIN calls = Caller /\ CallsOK
    BY DEF DispatchInv, DispatchTypeOK
  <2>2. QED BY <1>5, <1>6, <1>11, <1>12, <2>1 DEF CallsOK
<1>17. QED BY <1>1, <1>13, <1>14, <1>15, <1>16
           DEF DispatchInv, DispatchTypeOK, StoreMirrorsGroups, ReaderOK, IdsOK, Shows

LEMMA NextTryStep == ASSUME DispatchInv, NEW c \in Caller, NextTry(c) PROVE DispatchInv'
<1>1. UNCHANGED <<groups, counter, rrIndex, stored, reader, unsaved, dealt, edits, crashes>>
  BY DEF NextTry
<1>2. PICK p \in Call : p = calls[c]
  BY DEF DispatchInv, DispatchTypeOK, NextTry
<1>3. PICK ms : ms = p.members
  OBVIOUS
<1>4. ms \in Seq(Member) /\ ms # <<>> /\ p.left # 0 /\ p.left \in Nat /\ p.slot \in Nat
  BY <1>2, <1>3 DEF Call, DispatchInv, CallsOK, NextTry
<1>5. breakers' \in [Agent -> Breaker] /\ steady' \in [Caller -> SUBSET Agent]
  <2>1. PICK a : a = Candidate(p.members, p.slot)
    OBVIOUS
  <2>2. a \in Agent => Allow(breakers[a]).b \in Breaker
    <3>1. a \in Agent => breakers[a] \in Breaker
      BY DEF DispatchInv, DispatchTypeOK
    <3>2. QED BY <3>1, BreakerFacts
  <2>3. SetBreaker(a, Allow(breakers[a]).b)
    BY <1>2, <2>1 DEF NextTry
  <2>4. QED BY <2>2, <2>3, SetBreakerFacts
<1>6. PICK t \in Nat \ {0} : t = TotalWeight(ms)
  BY <1>4, TotalFacts
<1>7. PICK q : q = [p EXCEPT !.slot = (p.slot + 1) % t, !.left = p.left - 1]
  OBVIOUS
<1>8. p.left # 1 => q \in Call /\ q.members = ms /\ q.left # 0
  <2>1. PICK l \in Nat, s \in Nat : l = p.left /\ s = p.slot
    BY <1>4
  <2>2. (s + 1) % t \in Nat /\ (l # 1 => l - 1 \in Nat /\ l - 1 # 0)
    BY <1>4, <2>1
  <2>3. l # 1 => q \in Call
    BY <1>7, <2>1, <2>2 DEF Call
  <2>4. q.members = ms /\ q.left = l - 1
    BY <1>3, <1>7, <2>1 DEF Call
  <2>5. QED BY <2>1, <2>2, <2>3, <2>4
<1>9. calls' = [calls EXCEPT ![c] = NoCall] \/ (p.left # 1 /\ calls' = [calls EXCEPT ![c] = q])
  BY <1>2, <1>3, <1>6, <1>7 DEF NextTry
<1>10. calls' \in [Caller -> Call \cup {NoCall}]
  BY <1>8, <1>9 DEF DispatchInv, DispatchTypeOK
<1>11. CallsOK'
  <2>1. DOMAIN calls = Caller /\ CallsOK
    BY DEF DispatchInv, DispatchTypeOK
  <2>2. QED BY <1>4, <1>8, <1>9, <2>1 DEF CallsOK
<1>12. QED BY <1>1, <1>5, <1>10, <1>11 DEF DispatchInv, DispatchTypeOK, StoreMirrorsGroups, ReaderOK, IdsOK, Shows

\* A restart takes the groups from the bucket, and the counter from their ids.
LEMMA CrashStep == ASSUME DispatchInv, Crash PROVE DispatchInv'
<1>1. UNCHANGED <<stored, edits>>
  BY DEF Crash
<1>2. PICK n \in Nat \ {0}, m \in Nat \ {0}, p \in Nat \ {0}, q \in Nat \ {0} :
        n = CircuitThreshold /\ m = ResetTimeout /\ p = Period /\ q = MaxGroup
  BY DispatchAssumption DEF DispatchAssumption
<1>3. \A g \in GroupId : stored[g] # NoGroup => stored[g] \in Group
  BY DEF DispatchInv, DispatchTypeOK
<1>4. \A g \in GroupId : stored[g] # NoGroup =>
        /\ groups'[g] \in Group /\ groups'[g] # NoGroup
        /\ [stored[g] EXCEPT !.capacity = groups'[g].capacity] = groups'[g]
  <2>1. ASSUME NEW g \in GroupId, stored[g] # NoGroup
        PROVE  /\ groups'[g] \in Group /\ groups'[g] # NoGroup
               /\ [stored[g] EXCEPT !.capacity = groups'[g].capacity] = groups'[g]
    <3>1. PICK gr \in Group : gr = stored[g]
      BY <1>3, <2>1
    <3>2. groups'[g] = Decoded(gr)
      BY <3>1 DEF Crash, Restored
    <3>3. Decoded(gr) \in Group /\ [gr EXCEPT !.capacity = Decoded(gr).capacity] = Decoded(gr)
      BY GroupFacts
    <3>4. Decoded(gr) # NoGroup
      BY <3>3, GroupFacts
    <3>5. QED BY <3>1, <3>2, <3>3, <3>4
  <2>2. QED BY <2>1
<1>5. \A g \in GroupId : stored[g] = NoGroup => groups'[g] = NoGroup
  BY DEF Crash, Restored, Decoded
<1>6. counter' \in 0 .. MaxGroup
  <2>1. PICK ids : ids = {g \in GroupId : stored[g] # NoGroup}
    OBVIOUS
  <2>2. ids \subseteq 0 .. q
    BY <1>2, <2>1 DEF GroupId
  <2>3. counter' = IF ids = {} THEN 0 ELSE CHOOSE x \in ids : \A g \in ids : g <= x
    BY <2>1 DEF Crash, Restored
  <2>4. CASE ids = {}
    BY <1>2, <2>3, <2>4
  <2>5. CASE ids # {}
    <3>1. \E x \in ids : \A y \in ids : y <= x
      BY <2>2, <2>5, Greatest
    <3>2. counter' \in ids
      BY <2>3, <2>5, <3>1
    <3>3. QED BY <1>2, <2>2, <3>2
  <2>6. QED BY <2>4, <2>5
<1>7. DispatchTypeOK'
  <2>1. NewBreaker \in Breaker
    BY <1>2 DEF NewBreaker, Breaker
  <2>2. breakers' \in [Agent -> Breaker]
    BY <2>1 DEF Crash
  <2>3. groups' \in [GroupId -> Group \cup {NoGroup}]
    <3>1. groups' = [g \in GroupId |-> groups'[g]]
      BY DEF Crash, Restored
    <3>2. \A g \in GroupId : groups'[g] \in Group \cup {NoGroup}
      BY <1>4, <1>5
    <3>3. QED BY <3>1, <3>2
  <2>4. rrIndex' \in [GroupId -> 0 .. Period - 1]
    BY <1>2 DEF Crash
  <2>5. /\ calls' \in [Caller -> Call \cup {NoCall}] /\ steady' \in [Caller -> SUBSET Agent]
        /\ dealt' \in [GroupId -> [Agent -> Nat]]
    BY DEF Crash, NoDraws
  <2>6. crashes' \in 0 .. MaxCrash
    <3>1. MaxCrash \in Nat /\ crashes \in 0 .. MaxCrash
      BY DispatchAssumption DEF DispatchAssumption, DispatchInv, DispatchTypeOK
    <3>2. QED BY <3>1 DEF Crash
  <2>8. unsaved' \subseteq GroupId
    BY DEF Crash
  <2>7. QED BY <1>1, <1>6, <2>2, <2>3, <2>4, <2>5, <2>6, <2>8 DEF DispatchInv, DispatchTypeOK
<1>8. StoreMirrorsGroups'
  BY <1>1, <1>4, <1>5 DEF StoreMirrorsGroups
<1>9. CallsOK' /\ ReaderOK'
  BY DEF Crash, CallsOK, ReaderOK
<1>10. IdsOK'
  <2>1. PICK ids : ids = {g \in GroupId : stored[g] # NoGroup}
    OBVIOUS
  <2>2. ids \subseteq 0 .. q
    BY <1>2, <2>1 DEF GroupId
  <2>3. counter' = IF ids = {} THEN 0 ELSE CHOOSE x \in ids : \A g \in ids : g <= x
    BY <2>1 DEF Crash, Restored
  <2>4. ASSUME NEW g \in GroupId, groups'[g] # NoGroup PROVE g <= counter'
    <3>1. g \in ids
      BY <1>5, <2>1, <2>4
    <3>2. \E x \in ids : \A y \in ids : y <= x
      BY <2>2, <3>1, Greatest
    <3>3. QED BY <2>3, <3>1, <3>2
  <2>5. QED BY <2>4 DEF IdsOK
<1>11. QED BY <1>7, <1>8, <1>9, <1>10 DEF DispatchInv

LEMMA DispatchInvStep == DispatchInv /\ [DispatchNext]_dispatchVars => DispatchInv'
<1> SUFFICES ASSUME DispatchInv, [DispatchNext]_dispatchVars PROVE DispatchInv'
  OBVIOUS
<1>1. CASE \E a \in Reported : Reset(a) \/ \E ok \in BOOLEAN : Record(a, ok)
  <2>1. Reported \subseteq Agent
    BY DispatchAssumption DEF DispatchAssumption
  <2>2. QED BY <1>1, <2>1, BreakerStep
<1>2. CASE BreakersTick
  BY <1>2, BreakersTickStep
<1>3. CASE \E n \in Name : Create(n)
  BY <1>3, CreateStep
<1>4. CASE \E g \in GroupId : DeleteGroup(g)
  BY <1>4, DeleteGroupStep
<1>5. CASE (\E g \in GroupId : ReadBegin(g)) \/ ReadEnd
  BY <1>5, ReadStep
<1>6. ASSUME NEW g \in GroupId,
             \/ \E n \in Name : Update(g, n)
             \/ \E a \in Agent : \/ DeleteMember(g, a)
                                 \/ \E w \in Weight[a] : PatchMember(g, a, w) \/ PostMember(g, a, w)
      PROVE  DispatchInv'
  BY <1>6, EditStep
<1>7. CASE \E g \in GroupId : \E c \in Caller : NextCopy(c, g)
  BY <1>7, NextCopyStep
<1>8. CASE \E c \in Caller : NextIndex(c) \/ NextTry(c)
  BY <1>8, NextIndexStep, NextTryStep
<1>9. CASE DropTenant \/ Crash
  BY <1>9, DropTenantStep, CrashStep
<1>10. CASE UNCHANGED dispatchVars
  BY <1>10 DEF dispatchVars, DispatchInv, DispatchTypeOK, StoreMirrorsGroups, CallsOK, ReaderOK, IdsOK, Shows
<1>11. QED
  BY <1>1, <1>2, <1>3, <1>4, <1>5, <1>6, <1>7, <1>8, <1>9, <1>10 DEF DispatchNext

\* Bucket and map agree on every group whose last change was saved, and what later changes
\* write into the array that Get shares does not show, unless a member leaves.
THEOREM GroupsStayExact == DispatchSpec => []GroupsAreExact
<1>1. DispatchInv => GroupsAreExact
  BY DEF DispatchInv, GroupsAreExact, ReaderOK, AnswersAreSnapshots, Shows
<1>2. QED
  BY <1>1, DispatchInitInv, DispatchInvStep, PTL DEF DispatchSpec

-----------------------------------------------------------------------------
(* The next member: the inductive invariant, in parts. *)

\* A slot up to one round ahead, in the round.
Wrap(x, t) == IF x < t THEN x ELSE x - t

\* The call still comes to a, if it gets that far.
WillAsk(p, a) ==
  \E k \in 0 .. p.left - 1 :
    Candidate(p.members, Wrap(p.slot + k, TotalWeight(p.members))) = a

\* A member that stayed with a closed breaker is one of the copy, and still to be asked.
SteadyOK ==
  \A c \in Caller : calls[c] # NoCall =>
    /\ \A a \in steady[c] : Closed(a) /\ a \in Agents(calls[c].members)
    /\ calls[c].at = "try" =>
         /\ calls[c].slot \in 0 .. TotalWeight(calls[c].members) - 1
         /\ calls[c].left \in 1 .. TotalWeight(calls[c].members)
         /\ \A a \in steady[c] : WillAsk(calls[c], a)

\* No agent is twice in a group, and its weight has the bound.
MembersOK(ms) ==
  /\ \A i, j \in DOMAIN ms : ms[i].agent = ms[j].agent => i = j
  /\ TotalWeight(ms) <= MaxWeight

\* Slot s is one of the n before q.
Recent(s, q, n, t) == \/ s < q /\ q - s <= n
                      \/ s >= q /\ q + t - s <= n

\* The slots of a that the last n draws before q took.
Drawn(ms, q, n, a) ==
  {s \in 0 .. TotalWeight(ms) - 1 : Candidate(ms, s) = a /\ Recent(s, q, n, TotalWeight(ms))}

Tally(d, ms, q, n) == \A a \in Agent : d[a] = Cardinality(Drawn(ms, q, n, a))

\* The draws of a round, which d counts, are those of the n slots before the next one.
RoundOf(ms, d, r) ==
  LET t == TotalWeight(ms)
  IN  /\ MembersOK(ms)
      /\ ms # <<>> => \E n \in 0 .. t - 1 : Tally(d, ms, r % t, n)

RoundOK ==
  \A g \in GroupId : groups[g] # NoGroup => RoundOf(groups[g].members, dealt[g], rrIndex[g])

\* The same of the copies in the bucket, which a restart takes whether or not they are the latest.
StoredOK == \A g \in GroupId : stored[g] # NoGroup => MembersOK(stored[g].members)

FairInv == DispatchInv /\ SteadyOK /\ RoundOK /\ StoredOK

-----------------------------------------------------------------------------
(* Slots and rounds. *)

\* Division with remainder.
LEMMA DivMod ==
  ASSUME NEW t \in Nat \ {0}, NEW r \in Nat
  PROVE  r = t * (r \div t) + (r % t) /\ r % t \in 0 .. t - 1 /\ r \div t \in Nat
  OBVIOUS

LEMMA ModOf ==
  ASSUME NEW t \in Nat \ {0}, NEW q \in Nat, NEW x \in 0 .. t - 1
  PROVE  (t * q + x) % t = x
  OBVIOUS

\* The next number has the next remainder.
LEMMA ModNext ==
  ASSUME NEW t \in Nat \ {0}, NEW r \in Nat
  PROVE  (r + 1) % t = IF (r % t) + 1 = t THEN 0 ELSE (r % t) + 1
<1>1. PICK q \in Nat, x \in 0 .. t - 1 : r = t * q + x /\ x = r % t
  BY DivMod
<1>2. CASE x + 1 = t
  <2>1. r + 1 = t * (q + 1) + 0
    <3>1. \A a, b, c \in Int : a = b + x => a + 1 = b + (x + 1)
      OBVIOUS
    <3>2. t * q \in Int /\ t * (q + 1) = t * q + t /\ t * (q + 1) \in Int
      OBVIOUS
    <3>3. r = t * q + x
      BY <1>1
    <3>4. r + 1 = t * q + t
      BY <1>2, <3>1, <3>2, <3>3
    <3>5. QED BY <3>2, <3>4
  <2>2. (t * (q + 1) + 0) % t = 0
    <3>1. 0 \in 0 .. t - 1
      OBVIOUS
    <3>2. QED BY <3>1, ModOf
  <2>3. QED BY <1>1, <1>2, <2>1, <2>2
<1>3. CASE x + 1 # t
  <2>1. r + 1 = t * q + (x + 1) /\ x + 1 \in 0 .. t - 1
    BY <1>1, <1>3
  <2>2. (t * q + (x + 1)) % t = x + 1
    BY <2>1, ModOf
  <2>3. QED BY <1>1, <1>3, <2>1, <2>2
<1>4. QED BY <1>2, <1>3

\* It does so where the numbers wrap, because Period is a multiple of the total weight.
LEMMA NextSlot ==
  ASSUME NEW t \in 1 .. MaxWeight, NEW r \in 0 .. Period - 1
  PROVE  /\ r % t \in 0 .. t - 1
         /\ ((r + 1) % Period) % t = IF (r % t) + 1 = t THEN 0 ELSE (r % t) + 1
<1>1. PICK p \in Nat \ {0}, w \in Nat : p = Period /\ w = MaxWeight
  BY DispatchAssumption DEF DispatchAssumption
<1>2. t \in Nat \ {0} /\ r \in Nat /\ p % t = 0
  BY <1>1, DispatchAssumption DEF DispatchAssumption
<1>3. (r + 1) % t = IF (r % t) + 1 = t THEN 0 ELSE (r % t) + 1
  BY <1>2, ModNext
<1>4. r % t \in 0 .. t - 1
  BY <1>2, DivMod
<1>5. CASE r + 1 = p
  <2>1. p % p = 0 /\ 0 % t = 0
    <3>1. p = p * 1 + 0 /\ 0 = t * 0 + 0 /\ 0 \in 0 .. p - 1 /\ 0 \in 0 .. t - 1 /\ 1 \in Nat /\ 0 \in Nat
      BY <1>1, <1>2
    <3>2. (p * 1 + 0) % p = 0
      BY <3>1, ModOf
    <3>3. (t * 0 + 0) % t = 0
      BY <1>2, <3>1, ModOf
    <3>4. QED BY <3>1, <3>2, <3>3
  <2>2. PICK x \in 0 .. t - 1 : x = r % t
    BY <1>4
  <2>3. p % t = IF x + 1 = t THEN 0 ELSE x + 1
    BY <1>3, <1>5, <2>2
  <2>4. x + 1 = t
    BY <1>2, <2>3
  <2>5. ((r + 1) % Period) % t = 0
    BY <1>1, <1>5, <2>1
  <2>6. QED BY <1>4, <2>2, <2>4, <2>5
<1>6. CASE r + 1 # p
  <2>1. r + 1 \in 0 .. p - 1
    BY <1>1, <1>6
  <2>2. (r + 1) % p = r + 1
    <3>1. r + 1 = p * 0 + (r + 1) /\ 0 \in Nat
      OBVIOUS
    <3>2. (p * 0 + (r + 1)) % p = r + 1
      BY <2>1, <3>1, ModOf
    <3>3. QED BY <3>1, <3>2
  <2>3. QED BY <1>1, <1>3, <1>4, <2>2
<1>7. QED BY <1>5, <1>6

\* Every slot is a member's, and every member has one.
LEMMA EverybodyHasASlot ==
  ASSUME NEW ms \in Seq(Member), ms # <<>>, NEW t, t = TotalWeight(ms)
  PROVE  /\ \A s \in 0 .. t - 1 : Candidate(ms, s) \in Agent
         /\ \A i \in DOMAIN ms : \E s \in 0 .. t - 1 : Candidate(ms, s) = ms[i].agent
<1>1. PICK n, f : n = Len(ms) /\ f = Cursors(ms)
  OBVIOUS
<1>2. /\ n \in Nat /\ DOMAIN ms = 1 .. n /\ f[0] = 0
      /\ \A i \in 1 .. n : ms[i] \in Member
      /\ \A i \in 0 .. n : f[i] \in Nat
      /\ \A i, j \in 0 .. n : i < j => f[i] < f[j]
  BY <1>1, CursorFacts
<1>3. /\ \A i \in 1 .. n, s \in Nat : f[i - 1] <= s /\ s < f[i] => Candidate(ms, s) = ms[i].agent
      /\ \A s \in Nat : s < f[n] => \E i \in 1 .. n : f[i - 1] <= s /\ s < f[i]
  BY <1>1, CandidateFacts
<1>4. t = f[n] /\ t \in Nat \ {0}
  BY <1>1, TotalFacts DEF TotalWeight
<1>5. ASSUME NEW s \in 0 .. t - 1 PROVE Candidate(ms, s) \in Agent
  <2>1. s \in Nat /\ s < f[n]
    BY <1>4
  <2>2. PICK i \in 1 .. n : Candidate(ms, s) = ms[i].agent
    BY <1>3, <2>1
  <2>3. QED BY <1>2, <2>2 DEF Member
<1>6. ASSUME NEW i \in DOMAIN ms PROVE \E s \in 0 .. t - 1 : Candidate(ms, s) = ms[i].agent
  <2>1. i \in 1 .. n /\ i \in 0 .. n /\ i - 1 \in 0 .. n /\ n \in 0 .. n /\ i - 1 < i /\ i - 1 < n
    BY <1>2
  <2>2. f[i - 1] < f[i] /\ f[i - 1] < f[n] /\ f[i - 1] \in Nat /\ f[n] \in Nat
    BY <1>2, <2>1
  <2>3. f[i - 1] \in 0 .. t - 1
    BY <1>4, <2>2
  <2>4. Candidate(ms, f[i - 1]) = ms[i].agent
    BY <1>3, <2>1, <2>2
  <2>5. QED BY <2>3, <2>4
<1>7. QED BY <1>5, <1>6

\* It has as many as its weight.
LEMMA SlotsAreWeights ==
  ASSUME NEW ms \in Seq(Member), ms # <<>>, MembersOK(ms), NEW i \in DOMAIN ms
  PROVE  LET own == {s \in 0 .. TotalWeight(ms) - 1 : Candidate(ms, s) = ms[i].agent}
         IN  IsFiniteSet(own) /\ Cardinality(own) = ms[i].weight
<1>1. PICK n, f, t : n = Len(ms) /\ f = Cursors(ms) /\ t = TotalWeight(ms)
  OBVIOUS
<1>2. /\ n \in Nat /\ DOMAIN ms = 1 .. n /\ f[0] = 0
      /\ \A k \in 1 .. n : ms[k].weight \in Nat \ {0} /\ f[k] = f[k - 1] + ms[k].weight
      /\ \A k \in 0 .. n : f[k] \in Nat
      /\ \A k, j \in 0 .. n : k < j => f[k] < f[j]
  BY <1>1, CursorFacts
<1>3. /\ \A k \in 1 .. n, s \in Nat : f[k - 1] <= s /\ s < f[k] => Candidate(ms, s) = ms[k].agent
      /\ \A s \in Nat : s < f[n] => \E k \in 1 .. n : f[k - 1] <= s /\ s < f[k]
  BY <1>1, CandidateFacts
<1>4. t = f[n] /\ t \in Nat \ {0}
  BY <1>1, TotalFacts DEF TotalWeight
<1>5. PICK x \in Nat, y \in Nat, w \in Nat \ {0} :
        x = f[i - 1] /\ y = f[i] /\ w = ms[i].weight /\ y = x + w /\ y <= t
  <2>1. i \in 1 .. n /\ i \in 0 .. n /\ i - 1 \in 0 .. n /\ n \in 0 .. n /\ (i < n \/ i = n)
    BY <1>2
  <2>2. f[i] <= t
    BY <1>2, <1>4, <2>1
  <2>3. QED BY <1>2, <2>1, <2>2
<1>6. PICK own : own = {s \in 0 .. t - 1 : Candidate(ms, s) = ms[i].agent}
  OBVIOUS
<1>7. \A s : s \in own <=> s \in x .. y - 1
  <2>1. ASSUME NEW s \in x .. y - 1 PROVE s \in own
    <3>1. s \in Nat /\ x <= s /\ s < y /\ s \in 0 .. t - 1
      BY <1>4, <1>5
    <3>2. Candidate(ms, s) = ms[i].agent
      BY <1>2, <1>3, <1>5, <3>1
    <3>3. QED BY <1>6, <3>1, <3>2
  <2>2. ASSUME NEW s \in own PROVE s \in x .. y - 1
    <3>1. s \in 0 .. t - 1 /\ Candidate(ms, s) = ms[i].agent
      BY <1>6
    <3>2. s \in Nat /\ s < f[n]
      BY <1>4, <3>1
    <3>3. PICK k \in 1 .. n : f[k - 1] <= s /\ s < f[k]
      BY <1>3, <3>2
    <3>4. Candidate(ms, s) = ms[k].agent
      BY <1>3, <3>2, <3>3
    <3>5. k = i
      <4>1. k \in DOMAIN ms /\ ms[k].agent = ms[i].agent
        BY <1>2, <3>1, <3>4
      <4>2. QED BY <4>1 DEF MembersOK
    <3>6. x <= s /\ s < y
      BY <1>5, <3>3, <3>5
    <3>7. QED BY <1>5, <3>2, <3>6
  <2>3. QED BY <2>1, <2>2
<1>8. own = x .. y - 1
  BY <1>7
<1>9. IsFiniteSet(x .. y - 1) /\ Cardinality(x .. y - 1) = w
  <2>1. x \in Int /\ y - 1 \in Int /\ x <= y - 1 /\ (y - 1) - x + 1 = w
    BY <1>5
  <2>2. QED BY <2>1, FS_Interval
<1>10. QED BY <1>1, <1>5, <1>6, <1>8, <1>9

\* One draw more is one slot more, that of the candidate.
LEMMA DrawStep ==
  ASSUME NEW ms \in Seq(Member), ms # <<>>, NEW t, t = TotalWeight(ms),
         NEW q \in 0 .. t - 1, NEW n \in 0 .. t - 1, NEW a,
         NEW next, next = IF q + 1 = t THEN 0 ELSE q + 1
  PROVE  /\ Cardinality(Drawn(ms, next, n + 1, a))
              = Cardinality(Drawn(ms, q, n, a)) + (IF Candidate(ms, q) = a THEN 1 ELSE 0)
         /\ Cardinality(Drawn(ms, q, n, a)) \in Nat
<1>1. t \in Nat \ {0}
  BY TotalFacts
<1>2. \A s \in 0 .. t - 1 : Recent(s, next, n + 1, t) <=> s = q \/ Recent(s, q, n, t)
  <2>1. CASE q + 1 = t
    BY <1>1, <2>1 DEF Recent
  <2>2. CASE q + 1 # t
    BY <1>1, <2>2 DEF Recent
  <2>3. QED BY <2>1, <2>2
<1>3. ~Recent(q, q, n, t)
  BY <1>1 DEF Recent
<1>4. PICK D, E : D = Drawn(ms, q, n, a) /\ E = Drawn(ms, next, n + 1, a)
  OBVIOUS
<1>5. /\ \A s : s \in D <=> s \in 0 .. t - 1 /\ Candidate(ms, s) = a /\ Recent(s, q, n, t)
      /\ \A s : s \in E <=> s \in 0 .. t - 1 /\ Candidate(ms, s) = a /\ Recent(s, next, n + 1, t)
  BY <1>4 DEF Drawn
<1>6. IsFiniteSet(D) /\ Cardinality(D) \in Nat
  <2>1. IsFiniteSet(0 .. t - 1)
    <3>1. 0 \in Int /\ t - 1 \in Int
      BY <1>1
    <3>2. QED BY <3>1, FS_Interval
  <2>2. D \subseteq 0 .. t - 1
    BY <1>5
  <2>3. QED BY <2>1, <2>2, FS_Subset, FS_CardinalityType
<1>7. CASE Candidate(ms, q) = a
  <2>1. E = D \cup {q} /\ q \notin D
    BY <1>2, <1>3, <1>5, <1>7
  <2>2. Cardinality(E) = Cardinality(D) + 1
    BY <1>6, <2>1, FS_AddElement
  <2>3. QED BY <1>4, <1>6, <1>7, <2>2
<1>8. CASE Candidate(ms, q) # a
  <2>1. E = D
    BY <1>2, <1>5, <1>8
  <2>2. QED BY <1>4, <1>6, <1>8, <2>1
<1>9. QED BY <1>7, <1>8

\* No draws are no slots, and t draws are all of them.
LEMMA DrawnBounds ==
  ASSUME NEW ms \in Seq(Member), ms # <<>>, NEW t, t = TotalWeight(ms),
         NEW q \in 0 .. t - 1, NEW a
  PROVE  /\ Drawn(ms, q, 0, a) = {}
         /\ Drawn(ms, q, t, a) = {s \in 0 .. t - 1 : Candidate(ms, s) = a}
<1>1. t \in Nat \ {0}
  BY TotalFacts
<1>2. \A s \in 0 .. t - 1 : ~Recent(s, q, 0, t) /\ Recent(s, q, t, t)
  BY <1>1 DEF Recent
<1>3. QED BY <1>2 DEF Drawn

\* What is dealt in a round grows by one for the candidate, or the round is over.
LEMMA DealStep ==
  ASSUME NEW ms \in Seq(Member), ms # <<>>, MembersOK(ms), NEW t, t = TotalWeight(ms),
         NEW q \in 0 .. t - 1, NEW n \in 0 .. t - 1,
         NEW next \in 0 .. t - 1, next = IF q + 1 = t THEN 0 ELSE q + 1,
         NEW d \in [Agent -> Nat], Tally(d, ms, q, n)
  PROVE  \E m \in 0 .. t - 1 : Tally(Deal(d, ms, Candidate(ms, q)), ms, next, m)
<1>1. t \in Nat \ {0}
  BY TotalFacts
<1>2. PICK c \in Agent : c = Candidate(ms, q)
  BY EverybodyHasASlot
<1>3. next \in 0 .. t - 1
  OBVIOUS
<1>4. PICK e : e = [d EXCEPT ![c] = @ + 1]
  OBVIOUS
<1>5. \A a \in Agent : e[a] = Cardinality(Drawn(ms, next, n + 1, a))
  <2>1. ASSUME NEW a \in Agent PROVE e[a] = Cardinality(Drawn(ms, next, n + 1, a))
    <3>1. PICK k : k = Cardinality(Drawn(ms, q, n, a))
      OBVIOUS
    <3>2. Cardinality(Drawn(ms, next, n + 1, a)) = k + (IF Candidate(ms, q) = a THEN 1 ELSE 0)
          /\ k \in Nat
      BY <3>1, DrawStep
    <3>3. PICK l : l = Cardinality(Drawn(ms, next, n + 1, a))
                   /\ l = k + (IF Candidate(ms, q) = a THEN 1 ELSE 0)
      BY <3>2
    <3>4. d[a] = k
      BY <3>1, <3>2 DEF Tally
    <3>5. e[a] = IF a = c THEN k + 1 ELSE k
      BY <1>4, <3>4
    <3>6. QED BY <1>2, <3>1, <3>5, <3>3
  <2>2. QED BY <2>1
<1>6. CASE Deal(d, ms, c) = NoDraws
  <2>1. 0 \in 0 .. t - 1
    BY <1>1
  <2>2. \A a \in Agent : NoDraws[a] = 0 /\ Drawn(ms, next, 0, a) = {}
    BY <1>3, DrawnBounds DEF NoDraws
  <2>3. Cardinality({}) = 0
    BY FS_EmptySet
  <2>4. QED BY <1>2, <1>6, <2>1, <2>2, <2>3 DEF Tally
<1>7. CASE Deal(d, ms, c) # NoDraws
  <2>1. Deal(d, ms, c) = e
    BY <1>4, <1>7 DEF Deal
  <2>2. PICK i \in DOMAIN ms : e[ms[i].agent] # ms[i].weight
    BY <1>4, <1>7 DEF Deal
  <2>3. n + 1 # t
    <3>1. ASSUME n + 1 = t PROVE FALSE
      <4>1. ms[i].agent \in Agent
        <5>1. PICK S : S = Member
          OBVIOUS
        <5>2. ms[i] \in S
          BY <5>1, ElementOfSeq
        <5>3. QED BY <5>1, <5>2 DEF Member
      <4>2. e[ms[i].agent] = Cardinality({s \in 0 .. t - 1 : Candidate(ms, s) = ms[i].agent})
        <5>1. e[ms[i].agent] = Cardinality(Drawn(ms, next, t, ms[i].agent))
          BY <1>5, <3>1, <4>1
        <5>2. Drawn(ms, next, t, ms[i].agent) = {s \in 0 .. t - 1 : Candidate(ms, s) = ms[i].agent}
          BY <1>3, DrawnBounds
        <5>3. QED BY <5>1, <5>2
      <4>3. QED BY <2>2, <4>2, SlotsAreWeights
    <3>2. QED BY <3>1
  <2>4. n + 1 \in 0 .. t - 1
    BY <1>1, <2>3
  <2>5. QED BY <1>2, <1>5, <2>1, <2>4 DEF Tally
<1>8. QED BY <1>6, <1>7

\* A group has only one member of an agent, after each change.
LEMMA StillMembers ==
  ASSUME NEW gr \in Group, MembersOK(gr.members), NEW a \in Agent, NEW w \in Nat \ {0},
         NEW new, TotalWeight(new.members) <= MaxWeight,
         \/ new = AddMemberWithWeight(gr, a, w)
         \/ new = RemoveMember(gr, a)
         \/ new = UpdateMemberWeight(gr, a, w)
         \/ \E x : new = [gr EXCEPT !.name = x]
  PROVE  MembersOK(new.members)
<1>1. PICK ms, S : ms = gr.members /\ S = Member
  OBVIOUS
<1>2. ms \in Seq(S) /\ DOMAIN gr = {"name", "members", "capacity"}
  BY <1>1 DEF Group
<1>3. \A i, j \in DOMAIN ms : ms[i].agent = ms[j].agent => i = j
  BY <1>1 DEF MembersOK
<1>4. PICK n \in Nat : DOMAIN ms = 1 .. n /\ n = Len(ms)
  BY <1>2
<1>5. CASE new = AddMemberWithWeight(gr, a, w)
  <2>1. CASE a \in Agents(ms)
    BY <1>1, <1>5, <2>1 DEF AddMemberWithWeight
  <2>2. CASE a \notin Agents(ms)
    <3>1. PICK m : m = [agent |-> a, weight |-> w]
      OBVIOUS
    <3>2. new.members = Append(ms, m) /\ m.agent = a
      BY <1>1, <1>2, <1>5, <2>2, <3>1 DEF AddMemberWithWeight
    <3>3. PICK r : r = Append(ms, m)
      OBVIOUS
    <3>4. /\ DOMAIN r = 1 .. n + 1 /\ r[n + 1] = m
          /\ \A i \in 1 .. n : r[i] = ms[i]
      <4>1. m \in S
        BY <1>1, <3>1 DEF Member
      <4>2. QED BY <1>2, <1>4, <3>3, <4>1, AppendProperties
    <3>5. \A i \in 1 .. n : ms[i].agent # a
      BY <1>4, <2>2 DEF Agents
    <3>6. \A i \in 1 .. n + 1 : i \in 1 .. n \/ i = n + 1
      OBVIOUS
    <3>7. ASSUME NEW i \in 1 .. n + 1, NEW j \in 1 .. n + 1, r[i].agent = r[j].agent
          PROVE  i = j
      BY <1>3, <1>4, <3>2, <3>4, <3>5, <3>6, <3>7
    <3>8. QED BY <3>2, <3>3, <3>4, <3>7 DEF MembersOK
  <2>3. QED BY <2>1, <2>2
<1>6. CASE new = RemoveMember(gr, a)
  <2>1. PICK T : T = {i \in DOMAIN ms : ms[i].agent # a}
    OBVIOUS
  <2>2. PICK r : r = At(ms, T)
    OBVIOUS
  <2>3. new.members = r
    BY <1>1, <1>2, <1>6, <2>1, <2>2 DEF RemoveMember, Without
  <2>4. T \subseteq DOMAIN ms
    BY <2>1
  <2>5. \A k, l \in DOMAIN r : r[k].agent = r[l].agent => k = l
    <3>1. PICK p : /\ \A k \in DOMAIN r : p[k] \in T /\ r[k] = ms[p[k]]
                   /\ \A k, l \in DOMAIN r : p[k] = p[l] => k = l
      BY <1>2, <2>2, <2>4, AtPlaces
    <3>2. QED BY <1>3, <2>4, <3>1
  <2>6. QED BY <2>3, <2>5 DEF MembersOK
<1>7. CASE new = UpdateMemberWeight(gr, a, w)
  <2>1. PICK r : r = [i \in DOMAIN ms |->
                        IF ms[i].agent = a THEN [ms[i] EXCEPT !.weight = w] ELSE ms[i]]
    OBVIOUS
  <2>2. new.members = r
    BY <1>1, <1>2, <1>7, <2>1 DEF UpdateMemberWeight
  <2>3. \A i \in DOMAIN ms : r[i].agent = ms[i].agent
    <3>1. ASSUME NEW i \in DOMAIN ms PROVE r[i].agent = ms[i].agent
      <4>1. ms[i] \in S
        BY <1>2, ElementOfSeq
      <4>2. [ms[i] EXCEPT !.weight = w].agent = ms[i].agent
        BY <1>1, <4>1 DEF Member
      <4>3. QED BY <2>1, <4>2
    <3>2. QED BY <3>1
  <2>4. DOMAIN r = DOMAIN ms
    BY <2>1
  <2>5. QED BY <1>3, <2>2, <2>3, <2>4 DEF MembersOK
<1>8. CASE \E x : new = [gr EXCEPT !.name = x]
  <2>1. new.members = ms
    BY <1>1, <1>2, <1>8
  <2>2. QED BY <1>1, <2>1
<1>9. QED BY <1>5, <1>6, <1>7, <1>8

-----------------------------------------------------------------------------
(* Steady members and rounds, in each step. *)

LEMMA FairInit == DispatchInit => SteadyOK /\ RoundOK /\ StoredOK
  BY DEF DispatchInit, SteadyOK, RoundOK, StoredOK

\* A step that leaves the calls and the breakers of steady members alone.
LEMMA QuietSteady ==
  ASSUME SteadyOK, calls' = calls,
         \A c \in Caller : calls[c] # NoCall =>
           \A a \in steady'[c] : a \in steady[c] /\ breakers'[a].state = "closed"
  PROVE  SteadyOK'
  BY DEF SteadyOK, Closed, WillAsk

\* A call that has its number asks everybody.
LEMMA IndexSteady ==
  ASSUME DispatchInv, SteadyOK, NEW c \in Caller, NextIndex(c) PROVE SteadyOK'
<1>1. breakers' = breakers /\ steady' = steady
  BY DEF NextIndex
<1>2. PICK p \in Call : p = calls[c]
  BY DEF DispatchInv, DispatchTypeOK, NextIndex
<1>3. PICK ms, g : ms = p.members /\ g = p.group
  OBVIOUS
<1>4. ms \in Seq(Member) /\ ms # <<>> /\ g \in GroupId /\ p # NoCall
  BY <1>2, <1>3 DEF Call, DispatchInv, CallsOK, NextIndex
<1>5. PICK t \in Nat \ {0} : t = TotalWeight(ms)
  BY <1>4, TotalFacts
<1>6. PICK s \in 0 .. t - 1 : s = rrIndex[g] % t
  <2>1. rrIndex[g] \in Nat
    <3>1. PICK n \in Nat : n = Period
      BY DispatchAssumption DEF DispatchAssumption
    <3>2. rrIndex[g] \in 0 .. n - 1
      BY <1>4, <3>1 DEF DispatchInv, DispatchTypeOK
    <3>3. QED BY <3>1, <3>2
  <2>2. QED BY <2>1, DivMod
<1>7. PICK q : q = [p EXCEPT !.at = "try", !.slot = s, !.left = t]
  OBVIOUS
<1>8. q.members = ms /\ q.left = t /\ q.slot = s /\ q.at = "try"
  BY <1>3, <1>7 DEF Call
<1>9. calls' = [calls EXCEPT ![c] = q] /\ DOMAIN calls = Caller
  BY <1>2, <1>3, <1>5, <1>6, <1>7 DEF NextIndex, Tries, DispatchInv, DispatchTypeOK
<1>10. ASSUME NEW a \in steady[c] PROVE WillAsk(q, a)
  <2>1. a \in Agents(ms)
    BY <1>2, <1>3, <1>4 DEF SteadyOK
  <2>2. PICK i \in DOMAIN ms : a = ms[i].agent
    BY <2>1 DEF Agents
  <2>3. PICK x \in 0 .. t - 1 : Candidate(ms, x) = a
    BY <1>4, <1>5, <2>2, EverybodyHasASlot
  <2>4. PICK k \in 0 .. t - 1 : Wrap(s + k, t) = x
    <3>1. CASE s <= x
      <4>1. x - s \in 0 .. t - 1 /\ Wrap(s + (x - s), t) = x
        BY <3>1 DEF Wrap
      <4>2. QED BY <4>1
    <3>2. CASE ~(s <= x)
      <4>1. x - s + t \in 0 .. t - 1 /\ Wrap(s + (x - s + t), t) = x
        BY <3>2 DEF Wrap
      <4>2. QED BY <4>1
    <3>3. QED BY <3>1, <3>2
  <2>5. QED BY <1>5, <1>8, <2>3, <2>4 DEF WillAsk
<1>11. \A a \in steady[c] : Closed(a) /\ a \in Agents(ms)
  BY <1>2, <1>3, <1>4 DEF SteadyOK
<1>12. s \in 0 .. TotalWeight(ms) - 1 /\ t \in 1 .. TotalWeight(ms)
  BY <1>5
<1>13. ASSUME NEW d \in Caller, calls'[d] # NoCall
       PROVE  /\ \A a \in steady'[d] : Closed(a)' /\ a \in Agents(calls'[d].members)
              /\ calls'[d].at = "try" =>
                   /\ calls'[d].slot \in 0 .. TotalWeight(calls'[d].members) - 1
                   /\ calls'[d].left \in 1 .. TotalWeight(calls'[d].members)
                   /\ \A a \in steady'[d] : WillAsk(calls'[d], a)
  <2>1. \A a : Closed(a)' <=> Closed(a)
    BY <1>1 DEF Closed
  <2>2. CASE d = c
    <3>1. calls'[d] = q
      BY <1>9, <2>2
    <3>2. QED BY <1>1, <1>8, <1>10, <1>11, <1>12, <2>1, <2>2, <3>1
  <2>3. CASE d # c
    <3>1. calls'[d] = calls[d] /\ calls[d] # NoCall
      BY <1>9, <1>13, <2>3
    <3>2. QED BY <1>1, <2>1, <3>1 DEF SteadyOK
  <2>4. QED BY <2>2, <2>3
<1>14. QED BY <1>13 DEF SteadyOK, WillAsk

\* A call that goes on has not met a steady member, and comes to each still.
LEMMA TrySteady ==
  ASSUME DispatchInv, SteadyOK, NEW c \in Caller, NextTry(c) PROVE SteadyOK'
<1>1. PICK p \in Call : p = calls[c] /\ p # NoCall /\ p.at = "try"
  BY DEF DispatchInv, DispatchTypeOK, NextTry
<1>2. PICK ms : ms = p.members
  OBVIOUS
<1>3. ms \in Seq(Member) /\ ms # <<>>
  BY <1>1, <1>2 DEF Call, DispatchInv, CallsOK
<1>4. PICK t \in Nat \ {0} : t = TotalWeight(ms)
  BY <1>3, TotalFacts
<1>5. PICK s \in 0 .. t - 1, l \in 1 .. t : s = p.slot /\ l = p.left
  BY <1>1, <1>2, <1>4 DEF SteadyOK
<1>6. \A a \in steady[c] : /\ Closed(a) /\ a \in Agents(ms)
                           /\ \E k \in 0 .. l - 1 : Candidate(ms, Wrap(s + k, t)) = a
  BY <1>1, <1>2, <1>4, <1>5 DEF SteadyOK, WillAsk
<1>7. PICK x : x = Candidate(ms, s)
  OBVIOUS
<1>8. PICK r : r = Allow(breakers[x])
  OBVIOUS
<1>9. SetBreaker(x, r.b)
  BY <1>1, <1>2, <1>5, <1>7, <1>8 DEF NextTry
<1>10. \A d \in Caller : \A a \in steady'[d] : a \in steady[d] /\ Closed(a)'
  BY <1>9 DEF SetBreaker, StillClosed, Closed
<1>11. PICK z \in 0 .. t - 1 : z = (s + 1) % t /\ z = IF s + 1 = t THEN 0 ELSE s + 1
  <2>1. s \in Nat /\ s = t * 0 + s /\ 0 \in Nat
    OBVIOUS
  <2>2. (t * 0 + s) % t = s
    BY <2>1, ModOf
  <2>3. s % t = s
    BY <2>1, <2>2
  <2>4. (s + 1) % t = IF (s % t) + 1 = t THEN 0 ELSE (s % t) + 1
    BY <2>1, ModNext
  <2>5. PICK y : y = (s + 1) % t
    OBVIOUS
  <2>6. y = IF s + 1 = t THEN 0 ELSE s + 1
    BY <2>3, <2>4, <2>5
  <2>7. y \in 0 .. t - 1
    BY <2>6
  <2>8. QED BY <2>5, <2>6, <2>7
<1>12. PICK q : q = [p EXCEPT !.slot = z, !.left = l - 1]
  OBVIOUS
<1>13. q.members = ms /\ q.left = l - 1 /\ q.slot = z
  BY <1>2, <1>12 DEF Call
<1>14. \/ calls' = [calls EXCEPT ![c] = NoCall]
       \/ ~r.ok /\ l # 1 /\ calls' = [calls EXCEPT ![c] = q]
  BY <1>1, <1>2, <1>4, <1>5, <1>7, <1>8, <1>11, <1>12 DEF NextTry
<1>15. ASSUME ~r.ok, l # 1, NEW a \in steady[c] PROVE WillAsk(q, a)
  <2>1. a # x
    BY <1>6, <1>8, <1>15 DEF Allow, Closed
  <2>2. PICK k \in 0 .. l - 1 : Candidate(ms, Wrap(s + k, t)) = a
    BY <1>6
  <2>3. k # 0
    <3>1. ASSUME k = 0 PROVE FALSE
      <4>1. Wrap(s + k, t) = s
        BY <3>1 DEF Wrap
      <4>2. QED BY <1>7, <2>1, <2>2, <4>1
    <3>2. QED BY <3>1
  <2>4. k - 1 \in 0 .. (l - 1) - 1 /\ Wrap(z + (k - 1), t) = Wrap(s + k, t)
    BY <1>11, <2>3 DEF Wrap
  <2>5. QED BY <1>4, <1>13, <2>2, <2>4 DEF WillAsk
<1>16. ASSUME NEW d \in Caller, calls'[d] # NoCall
       PROVE  /\ \A a \in steady'[d] : Closed(a)' /\ a \in Agents(calls'[d].members)
              /\ calls'[d].at = "try" =>
                   /\ calls'[d].slot \in 0 .. TotalWeight(calls'[d].members) - 1
                   /\ calls'[d].left \in 1 .. TotalWeight(calls'[d].members)
                   /\ \A a \in steady'[d] : WillAsk(calls'[d], a)
  <2>1. DOMAIN calls = Caller
    BY DEF DispatchInv, DispatchTypeOK
  <2>2. CASE d = c
    <3>1. calls'[d] = q /\ ~r.ok /\ l # 1
      BY <1>14, <1>16, <2>1, <2>2
    <3>2. z \in 0 .. TotalWeight(ms) - 1 /\ l - 1 \in 1 .. TotalWeight(ms)
      BY <1>4, <3>1
    <3>3. QED BY <1>6, <1>10, <1>13, <1>15, <2>2, <3>1, <3>2
  <2>3. CASE d # c
    <3>1. calls'[d] = calls[d] /\ calls[d] # NoCall
      BY <1>14, <1>16, <2>1, <2>3
    <3>2. QED BY <1>10, <3>1 DEF SteadyOK
  <2>4. QED BY <2>2, <2>3
<1>17. QED BY <1>16 DEF SteadyOK, WillAsk

LEMMA SteadyStep ==
  ASSUME DispatchInv, SteadyOK, [DispatchNext]_dispatchVars PROVE SteadyOK'
<1>1. CASE \E a \in Reported : Reset(a) \/ \E ok \in BOOLEAN : Record(a, ok)
  <2>1. \E a, b : SetBreaker(a, b)
    BY <1>1 DEF Reset, Record
  <2>2. \A c \in Caller : \A a \in steady'[c] : a \in steady[c] /\ breakers'[a].state = "closed"
    BY <2>1 DEF SetBreaker, StillClosed
  <2>3. calls' = calls
    BY <1>1 DEF Reset, Record
  <2>4. QED BY <2>2, <2>3, QuietSteady
<1>2. CASE BreakersTick
  <2>1. calls' = calls /\ steady' = steady
    BY <1>2 DEF BreakersTick
  <2>2. \A a \in Agent : breakers[a].state = "closed" => breakers'[a] = breakers[a]
    BY <1>2 DEF BreakersTick
  <2>3. \A c \in Caller : steady[c] \subseteq Agent
    BY DEF DispatchInv, DispatchTypeOK
  <2>4. \A c \in Caller : calls[c] # NoCall =>
          \A a \in steady'[c] : a \in steady[c] /\ breakers'[a].state = "closed"
    BY <2>1, <2>2, <2>3 DEF SteadyOK, Closed
  <2>5. QED BY <2>1, <2>4, QuietSteady
<1>3. ASSUME calls' = calls, breakers' = breakers, \A c \in Caller : steady'[c] \subseteq steady[c]
      PROVE  SteadyOK'
  <2>1. \A c \in Caller : calls[c] # NoCall =>
          \A a \in steady'[c] : a \in steady[c] /\ breakers'[a].state = "closed"
    BY <1>3 DEF SteadyOK, Closed
  <2>2. QED BY <1>3, <2>1, QuietSteady
<1>4. CASE \/ \E n \in Name : Create(n)
           \/ \E g \in GroupId : DeleteGroup(g) \/ ReadBegin(g)
           \/ ReadEnd \/ DropTenant
  BY <1>3, <1>4 DEF Create, DeleteGroup, ReadBegin, ReadEnd, DropTenant
<1>5. ASSUME NEW g, NEW new, SetGroup(g, new) PROVE SteadyOK'
  BY <1>3, <1>5 DEF SetGroup
<1>6. CASE \E g \in GroupId :
             \/ \E n \in Name : Update(g, n)
             \/ \E a \in Agent : \/ DeleteMember(g, a)
                                 \/ \E w \in Weight[a] : PatchMember(g, a, w) \/ PostMember(g, a, w)
  BY <1>5, <1>6 DEF Update, DeleteMember, PatchMember, PostMember
<1>7. ASSUME NEW g \in GroupId, NEW c \in Caller, NextCopy(c, g) PROVE SteadyOK'
  <2>1. /\ calls' = [calls EXCEPT ![c] = [group |-> g, members |-> groups[g].members,
                                          at |-> "index", slot |-> 0, left |-> 0]]
        /\ steady' = [steady EXCEPT ![c] = {a \in Agents(groups[g].members) : Closed(a)}]
        /\ breakers' = breakers
        /\ DOMAIN calls = Caller /\ DOMAIN steady = Caller
    BY <1>7 DEF NextCopy, DispatchInv, DispatchTypeOK
  <2>2. \A a : Closed(a)' <=> Closed(a)
    BY <2>1 DEF Closed
  <2>3. ASSUME NEW d \in Caller, calls'[d] # NoCall
        PROVE  /\ \A a \in steady'[d] : Closed(a)' /\ a \in Agents(calls'[d].members)
               /\ calls'[d].at = "try" =>
                    /\ calls'[d].slot \in 0 .. TotalWeight(calls'[d].members) - 1
                    /\ calls'[d].left \in 1 .. TotalWeight(calls'[d].members)
                    /\ \A a \in steady'[d] : WillAsk(calls'[d], a)
    <3>1. CASE d = c
      <4>1. calls'[d].members = groups[g].members /\ calls'[d].at = "index"
        BY <2>1, <3>1
      <4>2. steady'[d] = {a \in Agents(groups[g].members) : Closed(a)}
        BY <2>1, <3>1
      <4>3. QED BY <2>2, <4>1, <4>2
    <3>2. CASE d # c
      <4>1. calls'[d] = calls[d] /\ steady'[d] = steady[d]
        BY <2>1, <3>2
      <4>2. QED BY <2>2, <2>3, <4>1 DEF SteadyOK
    <3>3. QED BY <3>1, <3>2
  <2>4. QED BY <2>3 DEF SteadyOK, WillAsk
<1>8. CASE \E c \in Caller : NextIndex(c) \/ NextTry(c)
  BY <1>8, IndexSteady, TrySteady
<1>9. CASE Crash
  BY <1>9 DEF Crash, SteadyOK
<1>10. CASE UNCHANGED dispatchVars
  BY <1>3, <1>10 DEF dispatchVars
<1>11. QED
  BY <1>1, <1>2, <1>4, <1>6, <1>7, <1>8, <1>9, <1>10 DEF DispatchNext

\* A round without draws.
LEMMA NewRound ==
  ASSUME NEW ms \in Seq(Member), ms # <<>>, MembersOK(ms), NEW r \in 0 .. Period - 1,
         NEW t, t = TotalWeight(ms)
  PROVE  \E n \in 0 .. t - 1 : Tally(NoDraws, ms, r % t, n)
<1>1. t \in Nat \ {0}
  BY TotalFacts
<1>2. t \in 1 .. MaxWeight
  <2>1. MaxWeight \in Nat /\ t <= MaxWeight
    BY DispatchAssumption DEF DispatchAssumption, MembersOK
  <2>2. QED BY <1>1, <2>1
<1>3. PICK q \in 0 .. t - 1 : q = r % t
  BY <1>2, NextSlot
<1>4. \A a \in Agent : NoDraws[a] = 0 /\ Drawn(ms, q, 0, a) = {}
  BY DrawnBounds DEF NoDraws
<1>5. 0 \in 0 .. t - 1 /\ Cardinality({}) = 0
  BY <1>1, FS_EmptySet
<1>6. Tally(NoDraws, ms, q, 0)
  BY <1>4, <1>5 DEF Tally
<1>7. QED BY <1>3, <1>5, <1>6

\* Rounds go on on groups that keep their members, or begin again.
LEMMA KeptRounds ==
  ASSUME RoundOK, DispatchInv',
         \A g \in GroupId : groups'[g] # NoGroup =>
           \/ /\ groups[g] # NoGroup /\ groups'[g] = groups[g]
              /\ dealt'[g] = dealt[g] /\ rrIndex'[g] = rrIndex[g]
           \/ MembersOK(groups'[g].members) /\ dealt'[g] = NoDraws
  PROVE  RoundOK'
<1>1. ASSUME NEW g \in GroupId, groups'[g] # NoGroup
      PROVE  RoundOf(groups'[g].members, dealt'[g], rrIndex'[g])
  <2>1. CASE /\ groups[g] # NoGroup /\ groups'[g] = groups[g]
             /\ dealt'[g] = dealt[g] /\ rrIndex'[g] = rrIndex[g]
    BY <2>1 DEF RoundOK
  <2>2. CASE MembersOK(groups'[g].members) /\ dealt'[g] = NoDraws
    <3>1. groups'[g] \in Group /\ rrIndex'[g] \in 0 .. Period - 1
      BY <1>1 DEF DispatchInv, DispatchTypeOK
    <3>2. PICK ms, r, t : ms = groups'[g].members /\ r = rrIndex'[g] /\ t = TotalWeight(ms)
      OBVIOUS
    <3>3. ms \in Seq(Member) /\ MembersOK(ms) /\ r \in 0 .. Period - 1
      BY <2>2, <3>1, <3>2 DEF Group
    <3>4. ms # <<>> => \E n \in 0 .. t - 1 : Tally(NoDraws, ms, r % t, n)
      BY <3>2, <3>3, NewRound
    <3>5. RoundOf(ms, NoDraws, r)
      BY <3>2, <3>3, <3>4 DEF RoundOf
    <3>6. QED BY <2>2, <3>2, <3>5
  <2>3. QED BY <1>1, <2>1, <2>2
<1>2. QED BY <1>1 DEF RoundOK, RoundOf, Tally, Drawn, MembersOK

LEMMA EmptyMembersOK == MembersOK(<<>>)
<1>1. PICK ms \in Seq(Member) : ms = <<>>
  <2>1. <<>> \in Seq(Member)
    OBVIOUS
  <2>2. QED BY <2>1
<1>10. PICK f : f = Cursors(ms)
  OBVIOUS
<1>2. Len(ms) = 0 /\ DOMAIN ms = {}
  BY <1>1
<1>3. f[0] = 0
  BY <1>1, <1>10, CursorFacts
<1>4. TotalWeight(ms) = 0
  BY <1>1, <1>10, <1>2, <1>3 DEF TotalWeight
<1>5. 0 <= MaxWeight
  BY DispatchAssumption DEF DispatchAssumption
<1>6. QED BY <1>1, <1>2, <1>4, <1>5 DEF MembersOK

LEMMA EditRounds ==
  ASSUME DispatchInv, RoundOK, DispatchInv', NEW g \in GroupId,
         \/ \E n \in Name : Update(g, n)
         \/ \E a \in Agent : \/ DeleteMember(g, a)
                             \/ \E w \in Weight[a] : PatchMember(g, a, w) \/ PostMember(g, a, w)
  PROVE  RoundOK'
<1>1. groups[g] # NoGroup
  BY DEF Update, DeleteMember, PatchMember, PostMember
<1>2. PICK gr \in Group : gr = groups[g]
  BY <1>1 DEF DispatchInv, DispatchTypeOK
<1>3. MembersOK(gr.members)
  BY <1>1, <1>2 DEF RoundOK, RoundOf
<1>4. PICK new : SetGroup(g, new) /\ MembersOK(new.members)
  <2>1. CASE \E n \in Name : Update(g, n)
    <3>1. PICK n \in Name : Update(g, n)
      BY <2>1
    <3>2. SetGroup(g, [gr EXCEPT !.name = n])
      BY <1>2, <3>1 DEF Update
    <3>3. gr.members = [gr EXCEPT !.name = n].members
      BY DEF Group
    <3>4. QED BY <1>3, <3>2, <3>3
  <2>2. CASE \E a \in Agent : DeleteMember(g, a)
    <3>1. PICK a \in Agent : DeleteMember(g, a)
      BY <2>2
    <3>2. PICK new : new = RemoveMember(gr, a)
      OBVIOUS
    <3>3. SetGroup(g, new)
      BY <1>2, <3>1, <3>2 DEF DeleteMember
    <3>4. TotalWeight(new.members) <= MaxWeight
      BY <3>3 DEF SetGroup
    <3>5. 1 \in Nat \ {0}
      OBVIOUS
    <3>6. QED BY <1>3, <3>2, <3>3, <3>4, <3>5, StillMembers
  <2>3. CASE \E a \in Agent : \E w \in Weight[a] : PatchMember(g, a, w) \/ PostMember(g, a, w)
    <3>1. PICK a \in Agent : \E w \in Weight[a] : PatchMember(g, a, w) \/ PostMember(g, a, w)
      BY <2>3
    <3>2. PICK w \in Weight[a] : PatchMember(g, a, w) \/ PostMember(g, a, w)
      BY <3>1
    <3>3. w \in Nat \ {0}
      <4>1. w \in Nat
        BY DispatchAssumption DEF DispatchAssumption
      <4>2. w > 0
        BY <3>2 DEF PatchMember, PostMember
      <4>3. QED BY <4>1, <4>2
    <3>4. PICK new : /\ new = AddMemberWithWeight(gr, a, w) \/ new = UpdateMemberWeight(gr, a, w)
                     /\ SetGroup(g, new)
      BY <1>2, <3>2 DEF PatchMember, PostMember
    <3>5. TotalWeight(new.members) <= MaxWeight
      BY <3>4 DEF SetGroup
    <3>6. QED BY <1>3, <3>3, <3>4, <3>5, StillMembers
  <2>4. QED BY <2>1, <2>2, <2>3
<1>5. /\ groups' = [groups EXCEPT ![g] = new] /\ dealt' = [dealt EXCEPT ![g] = NoDraws]
      /\ rrIndex' = rrIndex
      /\ DOMAIN groups = GroupId /\ DOMAIN dealt = GroupId
  BY <1>4 DEF SetGroup, DispatchInv, DispatchTypeOK
<1>6. \A h \in GroupId : groups'[h] # NoGroup =>
        \/ /\ groups[h] # NoGroup /\ groups'[h] = groups[h]
           /\ dealt'[h] = dealt[h] /\ rrIndex'[h] = rrIndex[h]
        \/ MembersOK(groups'[h].members) /\ dealt'[h] = NoDraws
  BY <1>4, <1>5
<1>7. QED BY <1>6, KeptRounds

LEMMA IndexRounds ==
  ASSUME DispatchInv, RoundOK, DispatchInv', NEW c \in Caller, NextIndex(c) PROVE RoundOK'
<1>1. PICK p \in Call : p = calls[c] /\ p # NoCall
  BY DEF DispatchInv, DispatchTypeOK, NextIndex
<1>2. PICK g \in GroupId : g = p.group
  BY DEF Call
<1>3. PICK ms, r : ms = p.members /\ r = rrIndex[g]
  OBVIOUS
<1>4. ms \in Seq(Member) /\ ms # <<>> /\ r \in 0 .. Period - 1
  BY <1>1, <1>3 DEF Call, DispatchInv, DispatchTypeOK, CallsOK
<1>5. PICK t, slot : t = TotalWeight(ms) /\ slot = r % t
  OBVIOUS
<1>6. /\ groups' = groups /\ rrIndex' = [rrIndex EXCEPT ![g] = (r + 1) % Period]
      /\ dealt' = [dealt EXCEPT ![g] =
                     IF groups[g] # NoGroup /\ groups[g].members = ms
                       THEN Deal(dealt[g], ms, Candidate(ms, slot)) ELSE NoDraws]
      /\ DOMAIN rrIndex = GroupId /\ DOMAIN dealt = GroupId
  BY <1>1, <1>2, <1>3, <1>5 DEF NextIndex, DispatchInv, DispatchTypeOK
<1>7. CASE groups[g] # NoGroup /\ groups[g].members = ms
  <2>1. /\ MembersOK(ms)
        /\ \E n \in 0 .. t - 1 : Tally(dealt[g], ms, slot, n)
    BY <1>3, <1>4, <1>5, <1>7 DEF RoundOK, RoundOf
  <2>2. t \in Nat \ {0} /\ t \in 1 .. MaxWeight
    <3>1. t \in Nat \ {0}
      BY <1>4, <1>5, TotalFacts
    <3>2. MaxWeight \in Nat /\ t <= MaxWeight
      BY <1>5, <2>1, DispatchAssumption DEF DispatchAssumption, MembersOK
    <3>3. QED BY <3>1, <3>2
  <2>3. PICK next : next = ((r + 1) % Period) % t
    OBVIOUS
  <2>4. slot \in 0 .. t - 1 /\ next = IF slot + 1 = t THEN 0 ELSE slot + 1
    BY <1>4, <1>5, <2>2, <2>3, NextSlot
  <2>5. dealt[g] \in [Agent -> Nat]
    BY DEF DispatchInv, DispatchTypeOK
  <2>6. PICK d : d = Deal(dealt[g], ms, Candidate(ms, slot))
    OBVIOUS
  <2>7. \E m \in 0 .. t - 1 : Tally(d, ms, next, m)
    <3>1. PICK n \in 0 .. t - 1 : Tally(dealt[g], ms, slot, n)
      BY <2>1
    <3>2. PICK e \in [Agent -> Nat] : e = dealt[g]
      BY <2>5
    <3>3. /\ ms \in Seq(Member) /\ ms # <<>> /\ MembersOK(ms) /\ t = TotalWeight(ms)
          /\ slot \in 0 .. t - 1 /\ next = IF slot + 1 = t THEN 0 ELSE slot + 1
          /\ next \in 0 .. t - 1 /\ Tally(e, ms, slot, n)
      BY <1>4, <1>5, <2>1, <2>2, <2>4, <3>1, <3>2
    <3>4. \E m \in 0 .. t - 1 : Tally(Deal(e, ms, Candidate(ms, slot)), ms, next, m)
      BY <3>3, DealStep
    <3>5. QED BY <2>6, <3>2, <3>4
  <2>8. ASSUME NEW h \in GroupId, groups'[h] # NoGroup
        PROVE  RoundOf(groups'[h].members, dealt'[h], rrIndex'[h])
    <3>1. CASE h = g
      <4>1. groups'[h].members = ms /\ dealt'[h] = d /\ rrIndex'[h] = (r + 1) % Period
        BY <1>6, <1>7, <2>6, <3>1
      <4>2. QED BY <1>5, <2>1, <2>3, <2>7, <4>1 DEF RoundOf
    <3>2. CASE h # g
      <4>1. groups'[h] = groups[h] /\ dealt'[h] = dealt[h] /\ rrIndex'[h] = rrIndex[h]
        BY <1>6, <3>2
      <4>2. QED BY <2>8, <4>1 DEF RoundOK
    <3>3. QED BY <3>1, <3>2
  <2>9. QED BY <2>8 DEF RoundOK, RoundOf, Tally, Drawn, MembersOK
<1>8. CASE ~(groups[g] # NoGroup /\ groups[g].members = ms)
  <2>1. dealt' = [dealt EXCEPT ![g] = NoDraws]
    BY <1>6, <1>8
  <2>2. \A h \in GroupId : groups'[h] # NoGroup =>
          \/ /\ groups[h] # NoGroup /\ groups'[h] = groups[h]
             /\ dealt'[h] = dealt[h] /\ rrIndex'[h] = rrIndex[h]
          \/ MembersOK(groups'[h].members) /\ dealt'[h] = NoDraws
    <3>1. \A h \in GroupId : groups[h] # NoGroup => MembersOK(groups[h].members)
      BY DEF RoundOK, RoundOf
    <3>2. QED BY <1>6, <2>1, <3>1
  <2>3. QED BY <2>2, KeptRounds
<1>9. QED BY <1>7, <1>8

LEMMA RoundStep ==
  ASSUME DispatchInv, RoundOK, StoredOK, DispatchInv', [DispatchNext]_dispatchVars PROVE RoundOK'
<1>1. ASSUME groups' = groups, dealt' = dealt, rrIndex' = rrIndex PROVE RoundOK'
  BY <1>1 DEF RoundOK, RoundOf, Tally, Drawn, MembersOK
<1>2. CASE \/ \E a \in Reported : Reset(a) \/ \E ok \in BOOLEAN : Record(a, ok)
           \/ BreakersTick \/ ReadEnd \/ DropTenant
           \/ \E g \in GroupId : ReadBegin(g) \/ \E c \in Caller : NextCopy(c, g)
           \/ \E c \in Caller : NextTry(c)
           \/ UNCHANGED dispatchVars
  BY <1>1, <1>2 DEF Reset, Record, BreakersTick, ReadEnd, DropTenant, ReadBegin, NextCopy, NextTry,
                    dispatchVars
<1>3. ASSUME NEW n \in Name, Create(n) PROVE RoundOK'
  <2>1. PICK g, gr : g = counter + 1 /\ gr = [name |-> n, members |-> <<>>, capacity |-> 0]
    OBVIOUS
  <2>2. /\ groups' = [groups EXCEPT ![g] = gr] /\ rrIndex' = [rrIndex EXCEPT ![g] = 0]
        /\ dealt' = [dealt EXCEPT ![g] = NoDraws]
        /\ DOMAIN groups = GroupId /\ DOMAIN dealt = GroupId /\ DOMAIN rrIndex = GroupId
    BY <1>3, <2>1 DEF Create, DispatchInv, DispatchTypeOK
  <2>3. MembersOK(gr.members)
    BY <2>1, EmptyMembersOK
  <2>4. \A h \in GroupId : groups'[h] # NoGroup =>
          \/ /\ groups[h] # NoGroup /\ groups'[h] = groups[h]
             /\ dealt'[h] = dealt[h] /\ rrIndex'[h] = rrIndex[h]
          \/ MembersOK(groups'[h].members) /\ dealt'[h] = NoDraws
    BY <2>2, <2>3
  <2>5. QED BY <2>4, KeptRounds
<1>4. ASSUME NEW g \in GroupId, DeleteGroup(g) PROVE RoundOK'
  <2>1. /\ groups' = [groups EXCEPT ![g] = NoGroup] /\ dealt' = [dealt EXCEPT ![g] = NoDraws]
        /\ rrIndex' = rrIndex /\ DOMAIN groups = GroupId /\ DOMAIN dealt = GroupId
    BY <1>4 DEF DeleteGroup, DispatchInv, DispatchTypeOK
  <2>2. \A h \in GroupId : groups'[h] # NoGroup =>
          \/ /\ groups[h] # NoGroup /\ groups'[h] = groups[h]
             /\ dealt'[h] = dealt[h] /\ rrIndex'[h] = rrIndex[h]
          \/ MembersOK(groups'[h].members) /\ dealt'[h] = NoDraws
    BY <2>1
  <2>3. QED BY <2>2, KeptRounds
<1>5. ASSUME NEW g \in GroupId,
             \/ \E n \in Name : Update(g, n)
             \/ \E a \in Agent : \/ DeleteMember(g, a)
                                 \/ \E w \in Weight[a] : PatchMember(g, a, w) \/ PostMember(g, a, w)
      PROVE  RoundOK'
  BY <1>5, EditRounds
<1>6. CASE \E c \in Caller : NextIndex(c)
  BY <1>6, IndexRounds
<1>7. CASE Crash
  <2>1. \A g \in GroupId : dealt'[g] = NoDraws
    BY <1>7 DEF Crash
  <2>2. ASSUME NEW g \in GroupId, groups'[g] # NoGroup PROVE MembersOK(groups'[g].members)
    <3>1. groups'[g] = Decoded(stored[g]) /\ stored[g] # NoGroup
      BY <1>7, <2>2 DEF Crash, Restored, Decoded
    <3>2. PICK gr \in Group : gr = stored[g]
      BY <3>1 DEF DispatchInv, DispatchTypeOK
    <3>3. groups'[g].members = gr.members
      <4>1. Decoded(gr) = [gr EXCEPT !.capacity = Decoded(gr).capacity]
        BY GroupFacts
      <4>2. \A k : [gr EXCEPT !.capacity = k].members = gr.members
        BY DEF Group
      <4>3. QED BY <3>1, <3>2, <4>1, <4>2
    <3>4. QED BY <3>1, <3>2, <3>3 DEF StoredOK
  <2>3. \A g \in GroupId : groups'[g] # NoGroup =>
          MembersOK(groups'[g].members) /\ dealt'[g] = NoDraws
    BY <2>1, <2>2
  <2>4. QED BY <2>3, KeptRounds
<1>8. QED
  BY <1>2, <1>3, <1>4, <1>5, <1>6, <1>7 DEF DispatchNext

\* The copies in the bucket come from the map.
LEMMA StoredStep ==
  ASSUME DispatchInv, StoredOK, RoundOK', [DispatchNext]_dispatchVars PROVE StoredOK'
<1>1. ASSUME NEW g \in GroupId, NEW new \in Group \cup {NoGroup}, persist(g, new),
             groups' = [groups EXCEPT ![g] = new]
      PROVE  StoredOK'
  <2>1. /\ \A h \in GroupId : h # g => stored'[h] = stored[h]
        /\ stored'[g] = new \/ stored'[g] = stored[g]
    BY <1>1, PersistFacts DEF DispatchInv
  <2>2. groups'[g] = new
    BY <1>1 DEF DispatchInv, DispatchTypeOK
  <2>3. new # NoGroup => MembersOK(new.members)
    BY <2>2 DEF RoundOK, RoundOf
  <2>4. \A h \in GroupId : stored'[h] = stored[h] \/ (h = g /\ stored'[h] = new)
    BY <2>1
  <2>5. \A h \in GroupId : stored'[h] # NoGroup => MembersOK(stored'[h].members)
    BY <2>3, <2>4 DEF StoredOK
  <2>6. QED BY <2>5 DEF StoredOK, MembersOK
<1>2. ASSUME stored' = stored PROVE StoredOK'
  BY <1>2 DEF StoredOK, MembersOK
<1>3. ASSUME NEW n \in Name, Create(n) PROVE StoredOK'
  <2>1. PICK g, gr : g = counter + 1 /\ gr = [name |-> n, members |-> <<>>, capacity |-> 0]
    OBVIOUS
  <2>2. persist(g, gr) /\ groups' = [groups EXCEPT ![g] = gr]
    BY <1>3, <2>1 DEF Create
  <2>3. gr \in Group
    BY <2>1 DEF Group
  <2>4. g \in GroupId
    <3>1. PICK m \in Nat \ {0} : m = MaxGroup
      BY DispatchAssumption DEF DispatchAssumption
    <3>2. QED BY <1>3, <2>1, <3>1 DEF Create, DispatchInv, DispatchTypeOK, GroupId
  <2>5. QED BY <1>1, <2>2, <2>3, <2>4
<1>4. ASSUME NEW g \in GroupId, DeleteGroup(g) PROVE StoredOK'
  BY <1>1, <1>4 DEF DeleteGroup
<1>5. ASSUME NEW g \in GroupId,
             \/ \E n \in Name : Update(g, n)
             \/ \E a \in Agent : \/ DeleteMember(g, a)
                                 \/ \E w \in Weight[a] : PatchMember(g, a, w) \/ PostMember(g, a, w)
      PROVE  StoredOK'
  <2>1. PICK new \in Group : SetGroup(g, new)
    BY <1>5, EditedGroup
  <2>2. QED BY <1>1, <2>1 DEF SetGroup
<1>6. CASE \/ \E a \in Reported : Reset(a) \/ \E ok \in BOOLEAN : Record(a, ok)
           \/ BreakersTick \/ ReadEnd \/ Crash
           \/ \E g \in GroupId : ReadBegin(g) \/ \E c \in Caller : NextCopy(c, g)
           \/ \E c \in Caller : NextIndex(c) \/ NextTry(c)
           \/ UNCHANGED dispatchVars
  BY <1>2, <1>6 DEF Reset, Record, BreakersTick, ReadEnd, Crash, ReadBegin, NextCopy, NextIndex,
                    NextTry, dispatchVars
<1>7. CASE DropTenant
  BY <1>7 DEF DropTenant, StoredOK
<1>8. QED
  BY <1>3, <1>4, <1>5, <1>6, <1>7 DEF DispatchNext

\* A round is never unfair before it is over, and 503 is never answered while a member stands
\* by: each draw is a slot of its own, each member has its slots, and all of them are asked.
THEOREM NextStaysFair == DispatchSpec => []NextIsFair
<1>1. DispatchInit => FairInv
  BY DispatchInitInv, FairInit DEF FairInv
<1>2. FairInv /\ [DispatchNext]_dispatchVars => FairInv'
  BY DispatchInvStep, SteadyStep, RoundStep, StoredStep DEF FairInv
<1>3. ASSUME FairInv PROVE FairShare
  <2>1. ASSUME NEW g \in GroupId, groups[g] # NoGroup, NEW i \in DOMAIN groups[g].members
        PROVE  dealt[g][groups[g].members[i].agent] <= groups[g].members[i].weight
    <3>1. PICK ms : ms = groups[g].members
      OBVIOUS
    <3>2. groups[g] \in Group /\ rrIndex[g] \in 0 .. Period - 1
      BY <1>3, <2>1 DEF FairInv, DispatchInv, DispatchTypeOK
    <3>3. ms \in Seq(Member) /\ i \in DOMAIN ms /\ ms # <<>>
      BY <2>1, <3>1, <3>2 DEF Group
    <3>4. PICK t : t = TotalWeight(ms)
      OBVIOUS
    <3>5. MembersOK(ms) /\ \E n \in 0 .. t - 1 : Tally(dealt[g], ms, rrIndex[g] % t, n)
      BY <1>3, <2>1, <3>1, <3>3, <3>4 DEF FairInv, RoundOK, RoundOf
    <3>6. PICK n \in 0 .. t - 1 : \A a \in Agent :
            dealt[g][a] = Cardinality(Drawn(ms, rrIndex[g] % t, n, a))
      BY <3>5 DEF Tally
    <3>7. PICK a \in Agent : a = ms[i].agent
      <4>1. PICK S : S = Member
        OBVIOUS
      <4>2. ms[i] \in S
        BY <3>3, <4>1, ElementOfSeq
      <4>3. QED BY <4>1, <4>2 DEF Member
    <3>8. PICK own : own = {s \in 0 .. t - 1 : Candidate(ms, s) = a}
      OBVIOUS
    <3>9. IsFiniteSet(own) /\ Cardinality(own) = ms[i].weight
      BY <3>3, <3>4, <3>5, <3>7, <3>8, SlotsAreWeights
    <3>10. Drawn(ms, rrIndex[g] % t, n, a) \subseteq own
      BY <3>4, <3>8 DEF Drawn
    <3>11. Cardinality(Drawn(ms, rrIndex[g] % t, n, a)) <= Cardinality(own)
      BY <3>9, <3>10, FS_Subset
    <3>12. QED BY <3>1, <3>6, <3>7, <3>9, <3>11
  <2>2. QED BY <2>1 DEF FairShare
<1>4. ASSUME FairInv PROVE GivesUpForAReason
  <2>1. ASSUME NEW c \in Caller, Trying(c), calls[c].left = 1, ~Allow(breakers[Asks(c)]).ok,
               NEW a \in steady[c]
        PROVE  FALSE
    <3>1. PICK p : p = calls[c] /\ p \in Call /\ p # NoCall /\ p.at = "try"
      BY <1>3, <1>4, <2>1 DEF Trying, FairInv, DispatchInv, DispatchTypeOK
    <3>2. PICK t : t = TotalWeight(p.members)
      OBVIOUS
    <3>3. /\ p.slot \in 0 .. t - 1 /\ Closed(a)
          /\ \E k \in 0 .. p.left - 1 : Candidate(p.members, Wrap(p.slot + k, t)) = a
      BY <1>4, <3>1, <3>2 DEF FairInv, SteadyOK, WillAsk
    <3>4. PICK s \in 0 .. t - 1 : s = p.slot
      BY <3>3
    <3>5. t \in Nat \ {0}
      <4>1. p.members \in Seq(Member) /\ p.members # <<>>
        BY <1>4, <3>1 DEF FairInv, DispatchInv, CallsOK, Call
      <4>2. QED BY <3>2, <4>1, TotalFacts
    <3>6. PICK k \in 0 .. 0 : Candidate(p.members, Wrap(s + k, t)) = a
      <4>1. p.left - 1 = 0
        BY <2>1, <3>1
      <4>2. QED BY <3>3, <3>4, <4>1
    <3>7. Wrap(s + k, t) = s
      BY <3>5 DEF Wrap
    <3>8. Asks(c) = a
      BY <3>1, <3>4, <3>6, <3>7 DEF Asks
    <3>9. QED BY <2>1, <3>3, <3>8 DEF Allow, Closed
  <2>2. QED BY <2>1 DEF GivesUpForAReason
<1>5. FairInv => NextIsFair
  BY <1>3, <1>4 DEF NextIsFair
<1>6. QED
  BY <1>1, <1>2, <1>5, PTL DEF DispatchSpec
=============================================================================
