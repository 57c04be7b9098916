---------------------------- MODULE Agents_proofs -----------------------------
(***************************************************************************)
(* Proofs about the agent registry, the health checker and the             *)
(* notification rules, for any number of tenants, agents, rules and        *)
(* restarts, any ttl and any size of the channel.                          *)
(***************************************************************************)
EXTENDS Agents, FiniteSetTheorems, SequenceTheorems, WellFoundedInduction, TLAPS

-----------------------------------------------------------------------------
(* Numbers and functions. *)

\* A set of numbers has a least one.
LEMMA LeastNat == ASSUME NEW T, T \subseteq Nat, T # {} PROVE \E x \in T : \A y \in T : x <= y
<1>1. PICK x \in T : \A y \in T : ~(<<y, x>> \in OpToRel(<, Nat))
  <2>1. \E x \in T : \A y \in T : ~(<<y, x>> \in OpToRel(<, Nat))
    BY NatLessThanWellFounded, WFMin
  <2>2. QED BY <2>1
<1>2. ASSUME NEW y \in T PROVE x <= y
  <2>1. ~(y < x)
    BY <1>1 DEF OpToRel
  <2>2. QED BY <2>1
<1>3. QED BY <1>2

\* If they are bounded there is a greatest one.
LEMMA Greatest ==
  ASSUME NEW n \in Nat, NEW T, T \subseteq 0 .. n, T # {}
  PROVE  \E x \in T : \A y \in T : y <= x
<1>1. DEFINE D == {n - x : x \in T}
<1>2. D \subseteq Nat /\ D # {}
  OBVIOUS
<1>3. PICK d \in D : \A e \in D : d <= e
  BY <1>2, LeastNat
<1>4. PICK x \in T : d = n - x
  OBVIOUS
<1>5. ASSUME NEW y \in T PROVE y <= x
  <2>1. n - y \in D /\ n - x <= n - y
    BY <1>3, <1>4
  <2>2. QED BY <2>1
<1>6. QED BY <1>5

-----------------------------------------------------------------------------
(* Positions in a sequence: what At keeps. *)

\* The smaller elements of a finite set of numbers: fewer than the set has, and more for
\* a greater number.
LEMMA SmallerOnes ==
  ASSUME NEW T, T \subseteq Nat, IsFiniteSet(T)
  PROVE  /\ \A i \in T : Cardinality({j \in T : j < i}) \in 0 .. Cardinality(T) - 1
         /\ \A i, k \in T : i < k => Cardinality({j \in T : j < i}) < Cardinality({j \in T : j < k})
<1>1. ASSUME NEW U, U \subseteq T, NEW V, V \subseteq U, NEW x \in U, x \notin V
      PROVE  /\ Cardinality(V) \in Nat /\ Cardinality(U) \in Nat
             /\ Cardinality(V) < Cardinality(U)
  <2>1. IsFiniteSet(U) /\ Cardinality(U) \in Nat
    BY <1>1, FS_Subset, FS_CardinalityType
  <2>2. IsFiniteSet(V) /\ Cardinality(V) \in Nat /\ Cardinality(V) <= Cardinality(U)
    BY <1>1, <2>1, FS_Subset, FS_CardinalityType
  <2>3. Cardinality(V) # Cardinality(U)
    BY <1>1, <2>1, FS_Subset
  <2>4. QED BY <2>1, <2>2, <2>3
<1>2. ASSUME NEW i \in T PROVE Cardinality({j \in T : j < i}) \in 0 .. Cardinality(T) - 1
  <2>1. i \notin {j \in T : j < i}
    OBVIOUS
  <2>2. QED BY <1>1, <2>1
<1>3. ASSUME NEW i \in T, NEW k \in T, i < k
      PROVE  Cardinality({j \in T : j < i}) < Cardinality({j \in T : j < k})
  <2>1. i \notin {j \in T : j < i} /\ i \in {j \in T : j < k}
    BY <1>3
  <2>2. {j \in T : j < i} \subseteq {j \in T : j < k}
    <3>1. ASSUME NEW j \in T, j < i PROVE j < k
      <4>1. j \in Nat /\ i \in Nat /\ k \in Nat
        OBVIOUS
      <4>2. QED BY <1>3, <3>1, <4>1
    <3>2. QED BY <3>1
  <2>3. QED BY <1>1, <2>1, <2>2
<1>4. QED BY <1>2, <1>3

\* Hence every number below the size of the set is reached.
LEMMA Ranks ==
  ASSUME NEW T, T \subseteq Nat, IsFiniteSet(T), NEW k \in 1 .. Cardinality(T)
  PROVE  \E i \in T : Cardinality({j \in T : j < i}) = k - 1
<1>1. DEFINE N == Cardinality(T)
             f == [i \in T |-> Cardinality({j \in T : j < i})]
<1>2. N \in Nat
  BY FS_CardinalityType
<1>3. f \in Injection(T, 0 .. N - 1)
  <2>1. f \in [T -> 0 .. N - 1]
    BY SmallerOnes
  <2>2. ASSUME NEW i \in T, NEW j \in T, f[i] = f[j] PROVE i = j
    <3>1. ~(i < j) /\ ~(j < i)
      <4>1. f[i] \in Int /\ f[j] \in Int
        BY <2>1, <1>2
      <4>2. (i < j => f[i] < f[j]) /\ (j < i => f[j] < f[i])
        BY SmallerOnes
      <4>3. QED BY <4>1, <4>2, <2>2
    <3>2. QED BY <3>1
  <2>3. QED BY <2>1, <2>2 DEF Injection, IsInjective
<1>4. IsFiniteSet(0 .. N - 1) /\ Cardinality(0 .. N - 1) = N
  <2> HIDE DEF N
  <2>1. 0 \in Int /\ N - 1 \in Int
    BY <1>2
  <2>2. QED BY <1>2, <2>1, FS_Interval
<1>5. f \in Surjection(T, 0 .. N - 1)
  BY <1>3, <1>4, FS_Injection
<1>6. k - 1 \in 0 .. N - 1
  BY <1>2
<1>7. PICK i \in T : f[i] = k - 1
  BY <1>5, <1>6 DEF Surjection
<1>8. QED BY <1>7

\* From the first entry to the last it is the list.
LEMMA SubSeqAll ==
  ASSUME NEW n \in Nat, NEW F, F = [k \in 1 .. n |-> F[k]]
  PROVE  SubSeq(F, 1, n) = F
<1>1. 1 + n - 1 = n /\ \A k \in 1 .. n : k + 1 - 1 = k
  OBVIOUS
<1>2. SubSeq(F, 1, n) = [k \in 1 .. n |-> F[k]]
  BY <1>1 DEF SubSeq
<1>3. QED BY <1>2

\* At keeps exactly the entries at the given positions.
LEMMA AtFacts ==
  ASSUME NEW S, NEW s \in Seq(S), NEW T, T \subseteq DOMAIN s
  PROVE  /\ At(s, T) \in Seq(S)
         /\ \A k \in DOMAIN At(s, T) : \E i \in T : At(s, T)[k] = s[i]
         /\ \A i \in T : \E k \in DOMAIN At(s, T) : At(s, T)[k] = s[i]
<1>1. DOMAIN s = 1 .. Len(s) /\ Len(s) \in Nat
  OBVIOUS
<1>2. IsFiniteSet(T) /\ T \subseteq Nat
  <2>1. IsFiniteSet(1 .. Len(s))
    BY <1>1, FS_Interval
  <2>2. QED BY <1>1, <2>1, FS_Subset
<1>3. DEFINE N == Cardinality(T)
             below(i) == Cardinality({j \in T : j < i})
             pos(k) == CHOOSE i \in T : below(i) = k - 1
<1>4. N \in Nat
  BY <1>2, FS_CardinalityType
<1>5. ASSUME NEW k \in 1 .. N PROVE pos(k) \in T /\ below(pos(k)) = k - 1
  <2>1. \E i \in T : below(i) = k - 1
    BY <1>2, Ranks
  <2>2. QED BY <2>1
<1>6. At(s, T) = [k \in 1 .. N |-> s[pos(k)]]
  <2>1. PICK F : F = [k \in 1 .. N |-> s[pos(k)]]
    OBVIOUS
  <2>2. At(s, T) = SubSeq(F, 1, N)
    BY <2>1 DEF At
  <2>3. F = [k \in 1 .. N |-> F[k]] /\ N \in Nat
    BY <2>1, <1>4
  <2>4. QED BY <2>1, <2>2, <2>3, SubSeqAll
<1>7. At(s, T) \in Seq(S) /\ DOMAIN At(s, T) = 1 .. N
  <2> HIDE DEF pos, N
  <2>1. ASSUME NEW k \in 1 .. N PROVE s[pos(k)] \in S
    <3>1. pos(k) \in DOMAIN s
      BY <1>5
    <3>2. QED BY <1>1, <3>1
  <2>2. QED BY <1>4, <1>6, <2>1
<1>8. ASSUME NEW i \in T PROVE \E k \in DOMAIN At(s, T) : At(s, T)[k] = s[i]
  <2>1. below(i) \in 0 .. N - 1
    BY <1>2, SmallerOnes
  <2>2. PICK k \in 1 .. N : k = below(i) + 1
    <3> HIDE DEF below, N
    <3>1. below(i) + 1 \in 1 .. N
      BY <1>4, <2>1
    <3>2. QED BY <3>1
  <2>3. pos(k) \in T /\ below(pos(k)) = below(i)
    <3>1. pos(k) \in T /\ below(pos(k)) = k - 1
      BY <1>5
    <3>2. k - 1 = below(i)
      <4> HIDE DEF below
      <4>1. QED BY <2>2, <2>1
    <3>3. QED BY <3>1, <3>2
  <2>4. pos(k) = i
    <3>1. \A x, y \in T : x < y => below(x) < below(y)
      BY <1>2, SmallerOnes
    <3>2. below(i) \in Int
      BY <2>1, <1>4
    <3> HIDE DEF below, pos
    <3>3. QED BY <1>2, <2>3, <3>1, <3>2
  <2>5. QED BY <1>6, <1>7, <2>4
<1>9. ASSUME NEW k \in DOMAIN At(s, T) PROVE \E i \in T : At(s, T)[k] = s[i]
  BY <1>5, <1>6, <1>7
<1>10. QED BY <1>7, <1>8, <1>9

-----------------------------------------------------------------------------
(* The rules and the way of an event: the inductive invariant, in parts. *)

Rule == [name : {"first", "second"}, tenant : Tenant, types : SUBSET STRING,
         active : BOOLEAN, fired : Nat]
Rules(f) == \A r \in DOMAIN f : f[r] \in Rule

\* Ids were given out by the counter, and a stored rule is one of this process.
RulesOK ==
  /\ counter \in Nat /\ Rules(heap) /\ Rules(stored)
  /\ DOMAIN started = DOMAIN heap /\ \A r \in DOMAIN heap : started[r] \in Int
  /\ ids \subseteq DOMAIN heap /\ DOMAIN heap \subseteq 1 .. counter
  /\ DOMAIN stored \subseteq DOMAIN heap

\* The dispatch and the goroutines that fire have rules of this process.
FlowOK ==
  /\ pub \in [Publisher -> Published \cup {NoEvent}] /\ histCount \in Nat
  /\ chan \in Seq(Published) /\ Len(chan) <= BufferSize
  /\ work \in [ev : Published \cup {NoEvent}, refs : SUBSET DOMAIN heap]
  /\ work.ev = NoEvent => work.refs = {}
  /\ IsFiniteSet(fires)
  /\ \A f \in fires : f \in [rule : DOMAIN heap, ev : Published, step : {"post", "count"}]

\* An event is in the hand of one publisher, or in one place of the channel, or dispatched,
\* or behind; and it fires a rule once.
OnceOK ==
  /\ \A e \in DOMAIN fate : e \in Published /\ e.id <= histCount
  /\ \A p \in Publisher : pub[p] # NoEvent =>
       /\ pub[p].id <= histCount /\ pub[p] \notin DOMAIN fate
       /\ \A q \in Publisher : pub[q] = pub[p] => p = q
  /\ \A i \in DOMAIN chan :
       /\ chan[i] \in DOMAIN fate /\ chan[i] # work.ev
       /\ \A j \in DOMAIN chan : chan[i] = chan[j] => i = j
  /\ work.ev # NoEvent => work.ev \in DOMAIN fate
  /\ \A f \in fires :
       /\ f.ev \in DOMAIN fate /\ (f.ev = work.ev => f.rule \notin work.refs)
       /\ \A i \in DOMAIN chan : chan[i] # f.ev
       /\ \A g \in fires : f.rule = g.rule /\ f.ev = g.ev => f = g

\* Who must get an event is still to be served by the dispatch; who is being served was
\* active and matching.
ReachOK ==
  \A e \in DOMAIN fate :
    /\ DOMAIN fate[e] = {"must", "active", "typed", "got"}
    /\ fate[e].must \subseteq Eligible(e)
    /\ {r \in ids : Active(r)} \subseteq fate[e].active
    /\ {r \in ids : matches(r, e)} \subseteq fate[e].typed
    /\ e = work.ev => /\ fate[e].must \subseteq fate[e].got \cup work.refs
                      /\ work.refs \subseteq fate[e].active
                      /\ \A r \in work.refs : matches(r, e) => r \in fate[e].typed

-----------------------------------------------------------------------------
(* The steps of the broker and the rules. *)

\* The first half of Publish, by a handler, the checker or another part of the server.
Publish(p, ev) == Record(p, ev) /\ ev.id = histCount + 1 /\ UNCHANGED <<rules, flow>>

NotifyStep ==
  \/ NotifyNext \/ LoadFromStore \/ UNCHANGED <<rules, broker, pub, flow>>
  \/ \E p \in Publisher, ev \in Published : Publish(p, ev)

\* Rules put into a set of rules.
LEMMA PutRules ==
  ASSUME NEW f, NEW r, NEW rule \in Rule, Rules(f)
  PROVE  Rules(Put(f, r, rule))
BY DEF Put, Rules

\* A failed write leaves the bucket as it was.
LEMMA PersistFacts ==
  ASSUME NEW r, NEW rule, NEW k, persist(r, rule, k)
  PROVE  \/ stored' = Put(stored, r, rule) /\ unsaved' = unsaved \ {r}
         \/ stored' = stored /\ unsaved' = unsaved \cup {r}
BY DEF persist

\* A new rule has a new id.
LEMMA AddFacts ==
  ASSUME RulesOK, NEW b \in NewRules, Add(b)
  PROVE  \E r, rule :
           /\ r = counter + 1 /\ counter' = r /\ r \notin DOMAIN heap /\ r \in 1 .. r
           /\ rule \in Rule /\ rule.fired = 0 /\ rule.active
           /\ DOMAIN heap \subseteq 1 .. r
           /\ heap' = Put(heap, r, rule) /\ ids' = ids \cup {r} /\ started' = Put(started, r, 0)
           /\ \/ stored' = Put(stored, r, rule) /\ unsaved' = unsaved \ {r}
              \/ stored' = stored /\ unsaved' = unsaved \cup {r}
           /\ UNCHANGED <<histCount, pub, chan, work, fires>>
<1>1. PICK r, rule : /\ r = counter + 1
                     /\ rule = [name |-> "first", tenant |-> b.tenant, types |-> b.types,
                                active |-> TRUE, fired |-> 0]
  OBVIOUS
<1>2. /\ counter' = r /\ heap' = Put(heap, r, rule) /\ ids' = ids \cup {r}
      /\ started' = Put(started, r, 0) /\ persist(r, rule, 1)
      /\ UNCHANGED <<histCount, pub, chan, work, fires>>
  BY <1>1 DEF Add, broker
<1>3. rule \in Rule /\ rule.fired = 0 /\ rule.active
  BY <1>1, NotifyAssumption DEF NotifyAssumption, Rule
<1>4. r \notin DOMAIN heap /\ r \in 1 .. r /\ DOMAIN heap \subseteq 1 .. r
  <2>1. PICK n \in Nat : n = counter
    BY DEF RulesOK
  <2>2. r = n + 1 /\ DOMAIN heap \subseteq 1 .. n
    BY <1>1, <2>1 DEF RulesOK
  <2>3. QED BY <2>2
<1>5. QED BY <1>1, <1>2, <1>3, <1>4, PersistFacts

\* A rule that is changed stays one.
LEMMA UpdateFacts ==
  ASSUME RulesOK, NEW r \in ids, NEW patch \in Patches, Update(r, patch)
  PROVE  \E rule \in Rule :
           /\ heap' = [heap EXCEPT ![r] = rule] /\ rule.fired = heap[r].fired
           /\ \/ stored' = Put(stored, r, rule) /\ unsaved' = unsaved \ {r}
              \/ stored' = stored /\ unsaved' = unsaved \cup {r}
           /\ UNCHANGED <<ids, counter, histCount, pub, chan, work, fires, started>>
<1>1. PICK rule : rule = Patched(heap[r], patch)
  OBVIOUS
<1>2. r \in DOMAIN heap /\ heap[r] \in Rule
  BY DEF RulesOK, Rules
<1>3. PICK types \in SUBSET STRING, active \in BOOLEAN :
        rule = [heap[r] EXCEPT !.types = types, !.active = active]
  <2>1. /\ (IF patch.types = Keep THEN heap[r].types ELSE patch.types) \in SUBSET STRING
        /\ (IF patch.active = Keep THEN heap[r].active ELSE patch.active) \in BOOLEAN
    BY <1>2, NotifyAssumption DEF NotifyAssumption, Rule
  <2>2. QED BY <1>1, <2>1 DEF Patched
<1>4. rule \in Rule /\ rule.fired = heap[r].fired
  BY <1>2, <1>3 DEF Rule
<1>5. heap' = [heap EXCEPT ![r] = rule]
  BY <1>1 DEF Update
<1>6. heap'[r] = rule
  BY <1>2, <1>5
<1>7. persist(r, rule, 1)
  BY <1>6 DEF Update
<1>8. UNCHANGED <<ids, counter, histCount, pub, chan, work, fires, started>>
  BY DEF Update, broker
<1>9. QED BY <1>4, <1>5, <1>7, <1>8, PersistFacts

\* A rule that fired, too.
LEMMA FireFacts ==
  ASSUME RulesOK, FlowOK, NEW f \in fires, fire(f)
  PROVE  /\ fires' = fires \ {f} /\ f.rule \in DOMAIN heap
         /\ UNCHANGED <<ids, counter, histCount, pub, chan, work, started, fate>>
         /\ f.rule \in ids =>
              \E rule \in Rule :
                /\ rule = [heap[f.rule] EXCEPT !.fired = heap[f.rule].fired + 1]
                /\ rule.fired = heap[f.rule].fired + 1
                /\ heap' = [heap EXCEPT ![f.rule] = rule]
                /\ \/ stored' = Put(stored, f.rule, rule) /\ unsaved' = unsaved \ {f.rule}
                   \/ stored' = stored /\ unsaved' = unsaved \cup {f.rule}
         /\ f.rule \notin ids => UNCHANGED <<heap, stored, unsaved>>
<1>1. f.rule \in DOMAIN heap /\ heap[f.rule] \in Rule
  BY DEF RulesOK, FlowOK, Rules
<1>2. /\ fires' = fires \ {f}
      /\ UNCHANGED <<ids, counter, histCount, pub, chan, work, started, fate>>
      /\ f.rule \notin ids => UNCHANGED <<heap, stored, unsaved>>
  BY DEF fire, Counted, broker
<1>3. ASSUME f.rule \in ids
      PROVE  \E rule \in Rule :
               /\ rule = [heap[f.rule] EXCEPT !.fired = heap[f.rule].fired + 1]
               /\ rule.fired = heap[f.rule].fired + 1
               /\ heap' = [heap EXCEPT ![f.rule] = rule]
               /\ \/ stored' = Put(stored, f.rule, rule) /\ unsaved' = unsaved \ {f.rule}
                  \/ stored' = stored /\ unsaved' = unsaved \cup {f.rule}
  <2>1. PICK rule : rule = [heap[f.rule] EXCEPT !.fired = heap[f.rule].fired + 1]
    OBVIOUS
  <2>2. rule \in Rule /\ rule.fired = heap[f.rule].fired + 1
    BY <1>1, <2>1 DEF Rule
  <2>3. heap' = [heap EXCEPT ![f.rule] = rule]
    BY <1>3, <2>1 DEF fire, Counted
  <2>4. heap'[f.rule] = rule
    BY <1>1, <2>3
  <2>5. persist(f.rule, rule, 0)
    BY <1>3, <2>4 DEF fire, Counted
  <2>6. QED BY <2>1, <2>2, <2>3, <2>5, PersistFacts
<1>4. QED BY <1>1, <1>2, <1>3

\* The counter starts at the highest stored id.
LEMMA HighestFacts ==
  ASSUME RulesOK
  PROVE  Highest \in Nat /\ DOMAIN stored \subseteq 1 .. Highest
<1>1. PICK n \in Nat : n = counter
  BY DEF RulesOK
<1>2. DOMAIN stored \subseteq 1 .. n
  BY <1>1 DEF RulesOK
<1>3. PICK x \in DOMAIN stored \cup {0} : \A y \in DOMAIN stored \cup {0} : y <= x
  <2>1. DOMAIN stored \cup {0} \subseteq 0 .. n
    BY <1>2
  <2>2. QED BY <2>1, Greatest
<1>4. x \in 0 .. counter /\ x \in DOMAIN stored \cup {0} /\ \A m \in DOMAIN stored : m <= x
  BY <1>1, <1>2, <1>3
<1>5. PICK h : h = Highest
  OBVIOUS
<1>6. h \in 0 .. counter /\ \A m \in DOMAIN stored : m <= h
  BY <1>4, <1>5 DEF Highest
<1>7. h \in Nat /\ DOMAIN stored \subseteq 1 .. h
  BY <1>1, <1>2, <1>6
<1>8. QED BY <1>5, <1>7

\* Ids stay those that the counter gave out.
LEMMA RulesStep == ASSUME RulesOK, FlowOK, NotifyStep PROVE RulesOK'
<1>1. ASSUME NEW b \in NewRules, Add(b) PROVE RulesOK'
  <2>1. PICK r, rule :
          /\ r \in Nat /\ counter' = r /\ r \in 1 .. r /\ rule \in Rule
          /\ DOMAIN heap \subseteq 1 .. r
          /\ heap' = Put(heap, r, rule) /\ ids' = ids \cup {r} /\ started' = Put(started, r, 0)
          /\ stored' = Put(stored, r, rule) \/ stored' = stored
    BY <1>1, AddFacts DEF RulesOK
  <2>2. /\ DOMAIN heap' = DOMAIN heap \cup {r} /\ DOMAIN started' = DOMAIN started \cup {r}
        /\ DOMAIN stored' \in {DOMAIN stored, DOMAIN stored \cup {r}}
    BY <2>1 DEF Put
  <2>3. Rules(heap') /\ Rules(stored')
    BY <2>1, PutRules DEF RulesOK
  <2>5. \A x \in DOMAIN heap' : started'[x] \in Int
    BY <2>1 DEF RulesOK, Put
  <2>4. QED BY <2>1, <2>2, <2>3, <2>5 DEF RulesOK
<1>2. ASSUME NEW r \in ids, RefuseUpdate(r) PROVE RulesOK'
  <2>1. r \in DOMAIN heap /\ heap[r] \in Rule
    BY <1>2 DEF RulesOK, Rules
  <2>2. [heap[r] EXCEPT !.name = "second"] \in Rule
    BY <2>1 DEF Rule
  <2>3. heap' = [heap EXCEPT ![r] = [heap[r] EXCEPT !.name = "second"]]
    BY <1>2 DEF RefuseUpdate
  <2>4. UNCHANGED <<ids, stored, counter, started>>
    BY <1>2 DEF RefuseUpdate, flow
  <2>5. QED BY <2>2, <2>3, <2>4 DEF RulesOK, Rules
<1>3. ASSUME NEW r \in ids, Delete(r) PROVE RulesOK'
  BY <1>3 DEF Delete, RulesOK, Rules, rules, flow, broker
<1>4. ASSUME NEW r \in ids, NEW patch \in Patches, Update(r, patch) PROVE RulesOK'
  <2>1. PICK rule \in Rule :
          /\ heap' = [heap EXCEPT ![r] = rule] /\ UNCHANGED <<ids, counter, started>>
          /\ stored' = Put(stored, r, rule) \/ stored' = stored
    BY <1>4, UpdateFacts
  <2>2. DOMAIN stored' = DOMAIN stored \/ DOMAIN stored' = DOMAIN stored \cup {r}
    BY <2>1 DEF Put
  <2>3. Rules(stored')
    BY <2>1, PutRules DEF RulesOK
  <2>4. QED BY <2>1, <2>2, <2>3 DEF RulesOK, Rules
<1>4a. ASSUME NEW t \in Deletable, DropTenant(t) PROVE RulesOK'
  <2>1. /\ UNCHANGED <<heap, ids, counter, started>>
        /\ stored' = [r \in {x \in DOMAIN stored : heap[x].tenant # t} |-> stored[r]]
    BY <1>4a DEF DropTenant, flow
  <2>2. QED BY <2>1 DEF RulesOK, Rules
<1>5. ASSUME NEW p \in Publisher, Offer(p) PROVE RulesOK'
  BY <1>5 DEF Offer, RulesOK, Rules, rules, flow, broker
<1>6. CASE Take
  BY <1>6 DEF Take, RulesOK, Rules, rules, flow, broker
<1>7. CASE EndDispatch
  BY <1>7 DEF EndDispatch, RulesOK, Rules, rules, flow, broker
<1>8. ASSUME NEW r \in work.refs, dispatch(r) PROVE RulesOK'
  BY <1>8 DEF dispatch, RulesOK, Rules, rules, flow, broker
<1>9. ASSUME NEW f \in fires, Post(f) PROVE RulesOK'
  BY <1>9 DEF Post, RulesOK, Rules, rules, flow, broker
<1>9a. ASSUME NEW f \in fires, NoPost(f) PROVE RulesOK'
  <2>1. f.rule \in DOMAIN started
    BY DEF RulesOK, FlowOK
  <2>2. /\ started' = [started EXCEPT ![f.rule] = started[f.rule] - 1]
        /\ UNCHANGED <<heap, ids, stored, counter>>
    BY <1>9a DEF NoPost, rules
  <2>3. \A x \in DOMAIN started : started[x] \in Int
    BY DEF RulesOK
  <2>4. DOMAIN started' = DOMAIN started /\ \A x \in DOMAIN started : started'[x] \in Int
    BY <2>1, <2>2, <2>3
  <2>5. QED BY <2>2, <2>4 DEF RulesOK, Rules
<1>10. ASSUME NEW f \in fires, fire(f) PROVE RulesOK'
  <2>1. CASE f.rule \in ids
    <3>1. PICK rule \in Rule :
            /\ heap' = [heap EXCEPT ![f.rule] = rule] /\ UNCHANGED <<ids, counter, started>>
            /\ stored' = Put(stored, f.rule, rule) \/ stored' = stored
      BY <1>10, <2>1, FireFacts
    <3>2. DOMAIN stored' = DOMAIN stored \/ DOMAIN stored' = DOMAIN stored \cup {f.rule}
      BY <3>1 DEF Put
    <3>3. Rules(stored')
      BY <3>1, PutRules DEF RulesOK
    <3>4. QED BY <2>1, <3>1, <3>2, <3>3 DEF RulesOK, Rules
  <2>2. CASE f.rule \notin ids
    BY <1>10, <2>2, FireFacts DEF RulesOK
  <2>3. QED BY <2>1, <2>2
<1>11. ASSUME NEW p \in Publisher, NEW ev \in Published, Publish(p, ev) PROVE RulesOK'
  BY <1>11 DEF Publish, Record, RulesOK, Rules, rules, flow, broker
<1>12. CASE LoadFromStore
  <2>1. Highest \in Nat /\ DOMAIN stored \subseteq 1 .. Highest
    BY HighestFacts
  <2>2. /\ heap' = stored /\ stored' = stored /\ ids' = DOMAIN stored /\ counter' = Highest
        /\ started' = [r \in DOMAIN stored |-> stored[r].fired]
    BY <1>12 DEF LoadFromStore
  <2>3. \A r \in DOMAIN stored : stored[r].fired \in Nat
    BY DEF RulesOK, Rules, Rule
  <2>4. QED BY <2>1, <2>2, <2>3 DEF RulesOK
<1>13. CASE UNCHANGED <<rules, broker, pub, flow>>
  BY <1>13 DEF RulesOK, Rules, rules, flow, broker
<1>14. QED
  BY <1>1, <1>2, <1>3, <1>4, <1>4a, <1>5, <1>6, <1>7, <1>8, <1>9, <1>9a, <1>10, <1>11, <1>12,
     <1>13 DEF NotifyStep, NotifyNext

\* The channel keeps its size, and an event goes through it whole.
LEMMA FlowStep == ASSUME RulesOK, FlowOK, NotifyStep PROVE FlowOK'
<1> USE DEF FlowOK
<1>1. ASSUME NEW b \in NewRules, Add(b) PROVE FlowOK'
  <2>1. PICK r, rule : heap' = Put(heap, r, rule) /\ UNCHANGED <<histCount, pub, chan, work, fires>>
    BY <1>1, AddFacts
  <2>2. DOMAIN heap \subseteq DOMAIN heap'
    BY <2>1 DEF Put
  <2>3. QED BY <2>1, <2>2
<1>2. ASSUME NEW r \in ids, RefuseUpdate(r) PROVE FlowOK'
  <2>1. DOMAIN heap' = DOMAIN heap /\ UNCHANGED <<histCount, pub, chan, work, fires>>
    BY <1>2 DEF RefuseUpdate, broker, flow
  <2>2. QED BY <2>1
<1>3. ASSUME NEW r \in ids, Delete(r) PROVE FlowOK'
  <2>1. UNCHANGED <<heap, histCount, pub, chan, work, fires>>
    BY <1>3 DEF Delete, broker, flow
  <2>2. QED BY <2>1
<1>4. ASSUME NEW r \in ids, NEW patch \in Patches, Update(r, patch) PROVE FlowOK'
  <2>1. DOMAIN heap' = DOMAIN heap /\ UNCHANGED <<histCount, pub, chan, work, fires>>
    BY <1>4, UpdateFacts
  <2>2. QED BY <2>1
<1>4a. ASSUME NEW t \in Deletable, DropTenant(t) PROVE FlowOK'
  <2>1. UNCHANGED <<heap, histCount, pub, chan, work, fires>>
    BY <1>4a DEF DropTenant, broker, flow
  <2>2. QED BY <2>1
<1>5. ASSUME NEW p \in Publisher, Offer(p) PROVE FlowOK'
  <2>1. /\ pub[p] \in Published /\ pub' = [pub EXCEPT ![p] = NoEvent]
        /\ chan' = chan \/ (Len(chan) < BufferSize /\ chan' = Append(chan, pub[p]))
        /\ UNCHANGED <<heap, histCount, work, fires>>
    BY <1>5 DEF Offer, Room, rules, broker
  <2>2. chan' \in Seq(Published) /\ Len(chan') <= BufferSize
    <3>1. PICK n \in Nat : n = BufferSize
      BY NotifyAssumption DEF NotifyAssumption
    <3>2. CASE Len(chan) < n /\ chan' = Append(chan, pub[p])
      BY <2>1, <3>1, <3>2 DEF FlowOK
    <3>3. QED BY <2>1, <3>1, <3>2 DEF FlowOK
  <2>3. QED BY <2>1, <2>2
<1>6. CASE Take
  <2>1. /\ chan # <<>> /\ chan' = Tail(chan) /\ work' = [ev |-> Head(chan), refs |-> Snapshot]
        /\ UNCHANGED <<heap, histCount, pub, fires>>
    BY <1>6 DEF Take, rules, broker
  <2>2. chan' \in Seq(Published) /\ Len(chan') <= BufferSize /\ Head(chan) \in Published
    BY <2>1, NotifyAssumption DEF NotifyAssumption
  <2>3. Snapshot \subseteq DOMAIN heap
    BY DEF Snapshot, RulesOK
  <2>4. Head(chan) # NoEvent
    BY <2>2, NotifyAssumption DEF NotifyAssumption
  <2>5. QED BY <2>1, <2>2, <2>3, <2>4
<1>7. CASE EndDispatch
  <2>1. work' = [ev |-> NoEvent, refs |-> {}] /\ UNCHANGED <<heap, histCount, pub, chan, fires>>
    BY <1>7 DEF EndDispatch, NoWork, rules, broker
  <2>2. QED BY <2>1
<1>8. ASSUME NEW r \in work.refs, dispatch(r) PROVE FlowOK'
  <2>1. /\ work' = [work EXCEPT !.refs = work.refs \ {r}]
        /\ UNCHANGED <<heap, histCount, pub, chan>>
        /\ fires' = fires \/ fires' = fires \cup {[rule |-> r, ev |-> work.ev, step |-> "post"]}
    BY <1>8 DEF dispatch, rules, broker
  <2>2. r \in DOMAIN heap /\ work.ev \in Published
    OBVIOUS
  <2>3. IsFiniteSet(fires')
    <3>1. PICK f : f = [rule |-> r, ev |-> work.ev, step |-> "post"]
      OBVIOUS
    <3>2. IsFiniteSet(fires \cup {f})
      BY FS_AddElement
    <3>3. QED BY <2>1, <3>1, <3>2
  <2>4. QED BY <2>1, <2>2, <2>3
<1>9. ASSUME NEW f \in fires, Post(f) PROVE FlowOK'
  <2>1. /\ fires' = (fires \ {f}) \cup {[f EXCEPT !.step = "count"]}
        /\ UNCHANGED <<heap, histCount, pub, chan, work>>
    BY <1>9 DEF Post, rules, broker
  <2>2. IsFiniteSet(fires')
    BY <2>1, FS_RemoveElement, FS_AddElement
  <2>3. [f EXCEPT !.step = "count"]
          \in [rule : DOMAIN heap, ev : Published, step : {"post", "count"}]
    OBVIOUS
  <2>4. QED BY <2>1, <2>2, <2>3
<1>9a. ASSUME NEW f \in fires, NoPost(f) PROVE FlowOK'
  <2>1. fires' = fires \ {f} /\ UNCHANGED <<heap, histCount, pub, chan, work>>
    BY <1>9a DEF NoPost, rules, broker
  <2>2. IsFiniteSet(fires')
    BY <2>1, FS_RemoveElement
  <2>3. QED BY <2>1, <2>2
<1>10. ASSUME NEW f \in fires, fire(f) PROVE FlowOK'
  <2>1. /\ fires' = fires \ {f} /\ DOMAIN heap' = DOMAIN heap
        /\ UNCHANGED <<histCount, pub, chan, work>>
    BY <1>10, FireFacts
  <2>2. IsFiniteSet(fires')
    BY <2>1, FS_RemoveElement
  <2>3. QED BY <2>1, <2>2
<1>11. ASSUME NEW p \in Publisher, NEW ev \in Published, Publish(p, ev) PROVE FlowOK'
  <2>1. /\ pub' = [pub EXCEPT ![p] = ev] /\ histCount' = histCount + 1
        /\ UNCHANGED <<heap, chan, work, fires>>
    BY <1>11 DEF Publish, Record, rules, flow
  <2>2. QED BY <2>1
<1>12. CASE LoadFromStore
  <2>1. /\ pub' = [q \in Publisher |-> NoEvent] /\ histCount' = 0 /\ chan' = <<>>
        /\ work' = [ev |-> NoEvent, refs |-> {}] /\ fires' = {}
    BY <1>12 DEF LoadFromStore, NoWork
  <2>2. chan' \in Seq(Published) /\ Len(chan') = 0
    BY <2>1
  <2>3. QED BY <2>1, <2>2, FS_EmptySet, NotifyAssumption DEF NotifyAssumption
<1>13. CASE UNCHANGED <<rules, broker, pub, flow>>
  <2>1. UNCHANGED <<heap, histCount, pub, chan, work, fires>>
    BY <1>13 DEF rules, flow, broker
  <2>2. QED BY <2>1
<1>14. QED
  BY <1>1, <1>2, <1>3, <1>4, <1>4a, <1>5, <1>6, <1>7, <1>8, <1>9, <1>9a, <1>10, <1>11, <1>12,
     <1>13 DEF NotifyStep, NotifyNext

\* A rule in memory is stored as it is, or its last change was not saved.
LEMMA MirrorStep ==
  ASSUME RulesOK, FlowOK, StoreMirrorsRules, NotifyStep
  PROVE  StoreMirrorsRules'
<1> USE DEF StoreMirrorsRules
<1>1. ASSUME NEW b \in NewRules, Add(b) PROVE StoreMirrorsRules'
  <2>1. PICK r, rule :
          /\ heap' = Put(heap, r, rule) /\ ids' = ids \cup {r} /\ r \notin DOMAIN heap
          /\ \/ stored' = Put(stored, r, rule) /\ unsaved' = unsaved \ {r}
             \/ stored' = stored /\ unsaved' = unsaved \cup {r}
    BY <1>1, AddFacts
  <2>2. ids \subseteq DOMAIN heap /\ DOMAIN stored \subseteq DOMAIN heap
    BY DEF RulesOK
  <2>3. CASE stored' = Put(stored, r, rule) /\ unsaved' = unsaved \ {r}
    BY <2>1, <2>2, <2>3 DEF Put
  <2>4. CASE stored' = stored /\ unsaved' = unsaved \cup {r}
    BY <2>1, <2>2, <2>4 DEF Put
  <2>5. QED BY <2>1, <2>3, <2>4
<1>2. ASSUME NEW r \in ids, RefuseUpdate(r) PROVE StoreMirrorsRules'
  BY <1>2 DEF RefuseUpdate, rules, flow, broker
<1>3. ASSUME NEW r \in ids, Delete(r) PROVE StoreMirrorsRules'
  BY <1>3 DEF Delete
<1>4. ASSUME NEW r \in ids, NEW patch \in Patches, Update(r, patch) PROVE StoreMirrorsRules'
  <2>1. PICK rule \in Rule :
          /\ heap' = [heap EXCEPT ![r] = rule] /\ ids' = ids /\ r \in DOMAIN heap
          /\ \/ stored' = Put(stored, r, rule) /\ unsaved' = unsaved \ {r}
             \/ stored' = stored /\ unsaved' = unsaved \cup {r}
    BY <1>4, UpdateFacts DEF RulesOK
  <2>2. CASE stored' = Put(stored, r, rule) /\ unsaved' = unsaved \ {r}
    BY <2>1, <2>2 DEF Put
  <2>3. CASE stored' = stored /\ unsaved' = unsaved \cup {r}
    BY <2>1, <2>3
  <2>4. QED BY <2>1, <2>2, <2>3
<1>4a. ASSUME NEW t \in Deletable, DropTenant(t) PROVE StoreMirrorsRules'
  BY <1>4a DEF DropTenant
<1>5. ASSUME NEW p \in Publisher, Offer(p) PROVE StoreMirrorsRules'
  BY <1>5 DEF Offer, rules, flow, broker
<1>6. CASE Take
  BY <1>6 DEF Take, rules, flow, broker
<1>7. CASE EndDispatch
  BY <1>7 DEF EndDispatch, rules, flow, broker
<1>8. ASSUME NEW r \in work.refs, dispatch(r) PROVE StoreMirrorsRules'
  BY <1>8 DEF dispatch, rules, flow, broker
<1>9. ASSUME NEW f \in fires, Post(f) PROVE StoreMirrorsRules'
  BY <1>9 DEF Post, rules, flow, broker
<1>9a. ASSUME NEW f \in fires, NoPost(f) PROVE StoreMirrorsRules'
  BY <1>9a DEF NoPost, rules
<1>10. ASSUME NEW f \in fires, fire(f) PROVE StoreMirrorsRules'
  <2>1. CASE f.rule \in ids
    <3>1. PICK rule \in Rule :
            /\ heap' = [heap EXCEPT ![f.rule] = rule] /\ ids' = ids /\ f.rule \in DOMAIN heap
            /\ \/ stored' = Put(stored, f.rule, rule) /\ unsaved' = unsaved \ {f.rule}
               \/ stored' = stored /\ unsaved' = unsaved \cup {f.rule}
      BY <1>10, <2>1, FireFacts
    <3>2. CASE stored' = Put(stored, f.rule, rule) /\ unsaved' = unsaved \ {f.rule}
      BY <2>1, <3>1, <3>2 DEF Put
    <3>3. CASE stored' = stored /\ unsaved' = unsaved \cup {f.rule}
      BY <2>1, <3>1, <3>3
    <3>4. QED BY <3>1, <3>2, <3>3
  <2>2. CASE f.rule \notin ids
    <3>1. UNCHANGED <<heap, ids, stored, unsaved>>
      BY <1>10, <2>2, FireFacts
    <3>2. QED BY <3>1
  <2>3. QED BY <2>1, <2>2
<1>11. ASSUME NEW p \in Publisher, NEW ev \in Published, Publish(p, ev) PROVE StoreMirrorsRules'
  BY <1>11 DEF Publish, Record, rules, flow, broker
<1>12. CASE LoadFromStore
  BY <1>12 DEF LoadFromStore, rules, flow, broker
<1>13. CASE UNCHANGED <<rules, broker, pub, flow>>
  BY <1>13 DEF rules, flow, broker
<1>14. QED
  BY <1>1, <1>2, <1>3, <1>4, <1>4a, <1>5, <1>6, <1>7, <1>8, <1>9, <1>9a, <1>10, <1>11, <1>12,
     <1>13 DEF NotifyStep, NotifyNext

\* The goroutines that fire the rule r.
Firing(r) == {f \in fires : f.rule = r}

\* A goroutine more, or one less.
LEMMA FiringFacts ==
  ASSUME FlowOK, NEW g, NEW r
  PROVE  /\ Cardinality(Firing(r)) \in Nat
         /\ g \notin fires => Cardinality(Firing(r) \cup {g}) = Cardinality(Firing(r)) + 1
         /\ g \in Firing(r) => Cardinality(Firing(r) \ {g}) = Cardinality(Firing(r)) - 1
<1>1. IsFiniteSet(Firing(r))
  <2>1. IsFiniteSet(fires) /\ Firing(r) \subseteq fires
    BY DEF FlowOK, Firing
  <2>2. QED BY <2>1, FS_Subset
<1>2. g \notin fires => g \notin Firing(r)
  BY DEF Firing
<1>3. QED BY <1>1, <1>2, FS_CardinalityType, FS_AddElement, FS_RemoveElement

\* What fired counts, or is under way.
LEMMA CountStep == ASSUME RulesOK, FlowOK, OnceOK, FiresCounted, NotifyStep PROVE FiresCounted'
<1>1. ASSUME NEW b \in NewRules, Add(b) PROVE FiresCounted'
  <2>1. PICK r, rule :
          /\ r \notin DOMAIN heap /\ rule.fired = 0 /\ fires' = fires
          /\ heap' = Put(heap, r, rule) /\ ids' = ids \cup {r} /\ started' = Put(started, r, 0)
    BY <1>1, AddFacts
  <2>2. {f \in fires : f.rule = r} = {}
    BY <2>1 DEF FlowOK
  <2>3. heap'[r].fired + Cardinality({f \in fires' : f.rule = r}) = started'[r]
    BY <2>1, <2>2, FS_EmptySet DEF Put
  <2>4. \A x \in ids : x # r /\ heap'[x] = heap[x] /\ started'[x] = started[x]
    BY <2>1 DEF RulesOK, Put
  <2>5. QED BY <2>1, <2>3, <2>4 DEF FiresCounted
<1>2. ASSUME NEW r \in ids, RefuseUpdate(r) PROVE FiresCounted'
  <2>1. /\ heap' = [heap EXCEPT ![r].name = "second"] /\ UNCHANGED <<ids, fires, started>>
    BY <1>2 DEF RefuseUpdate, flow
  <2>2. \A x \in ids : heap'[x].fired = heap[x].fired
    BY <2>1 DEF RulesOK, Rules, Rule
  <2>3. QED BY <2>1, <2>2 DEF FiresCounted
<1>3. ASSUME NEW r \in ids, Delete(r) PROVE FiresCounted'
  <2>1. UNCHANGED <<heap, fires, started>> /\ ids' = ids \ {r}
    BY <1>3 DEF Delete
  <2>2. QED BY <2>1 DEF FiresCounted
<1>4. ASSUME NEW r \in ids, NEW patch \in Patches, Update(r, patch) PROVE FiresCounted'
  <2>1. /\ \A x \in ids : heap'[x].fired = heap[x].fired
        /\ UNCHANGED <<ids, fires, started>>
    BY <1>4, UpdateFacts DEF RulesOK
  <2>2. QED BY <2>1 DEF FiresCounted
<1>4a. ASSUME NEW t \in Deletable, DropTenant(t) PROVE FiresCounted'
  BY <1>4a DEF DropTenant, FiresCounted, flow
<1>5. ASSUME NEW p \in Publisher, Offer(p) PROVE FiresCounted'
  BY <1>5 DEF Offer, FiresCounted, rules, flow, broker
<1>6. CASE Take
  BY <1>6 DEF Take, FiresCounted, rules, flow, broker
<1>7. CASE EndDispatch
  BY <1>7 DEF EndDispatch, FiresCounted, rules, flow, broker
<1>8. ASSUME NEW r \in work.refs, dispatch(r) PROVE FiresCounted'
  <2>1. heap' = heap /\ ids' = ids
    BY <1>8 DEF dispatch, rules
  <2>2. CASE UNCHANGED <<fires, started>>
    BY <2>1, <2>2 DEF FiresCounted
  <2>3. CASE /\ fires' = fires \cup {[rule |-> r, ev |-> work.ev, step |-> "post"]}
             /\ started' = [started EXCEPT ![r] = @ + 1]
    <3>1. PICK g : g = [rule |-> r, ev |-> work.ev, step |-> "post"]
      OBVIOUS
    <3>2. g \notin fires /\ g.rule = r
      BY <3>1 DEF OnceOK
    <3>3. /\ Firing(r)' = Firing(r) \cup {g}
          /\ \A x \in ids : x # r => Firing(x)' = Firing(x)
      BY <2>3, <3>1, <3>2 DEF Firing
    <3>4. \A x \in ids : started[x] \in Int /\ heap[x].fired \in Nat /\ x \in DOMAIN started
      BY DEF RulesOK, Rules, Rule
    <3>5. /\ Cardinality(Firing(r) \cup {g}) = Cardinality(Firing(r)) + 1
          /\ Cardinality(Firing(r)) \in Nat
      BY <3>2, FiringFacts
    <3>6. ASSUME NEW x \in ids PROVE heap'[x].fired + Cardinality(Firing(x)') = started'[x]
      <4>1. heap[x].fired + Cardinality(Firing(x)) = started[x]
        BY DEF FiresCounted, Firing
      <4>2. CASE x = r
        <5>1. started'[x] = started[x] + 1 /\ heap'[x].fired = heap[x].fired
          BY <2>1, <2>3, <3>4, <4>2
        <5>2. Cardinality(Firing(x)') = Cardinality(Firing(x)) + 1
              /\ Cardinality(Firing(x)) \in Nat /\ heap[x].fired \in Nat
          BY <3>3, <3>4, <3>5, <4>2
        <5>3. QED BY <4>1, <5>1, <5>2
      <4>3. CASE x # r
        BY <2>1, <2>3, <3>3, <3>4, <4>1, <4>3
      <4>4. QED BY <4>2, <4>3
    <3>7. QED BY <2>1, <3>6 DEF FiresCounted, Firing
  <2>4. r \in DOMAIN started
    BY <1>8 DEF RulesOK, FlowOK
  <2>5. QED BY <1>8, <2>2, <2>3, <2>4 DEF dispatch
<1>9. ASSUME NEW f \in fires, Post(f) PROVE FiresCounted'
  <2>1. /\ fires' = (fires \ {f}) \cup {[f EXCEPT !.step = "count"]}
        /\ UNCHANGED <<heap, ids, started>>
    BY <1>9 DEF Post, rules
  <2>2. PICK g : g = [f EXCEPT !.step = "count"]
    OBVIOUS
  <2>3. f.step = "post" /\ g \notin fires /\ g.rule = f.rule /\ g # f
    BY <1>9, <2>2 DEF Post, OnceOK, FlowOK
  <2>4. ASSUME NEW x \in ids PROVE Cardinality(Firing(x)') = Cardinality(Firing(x))
    <3>1. CASE x # f.rule
      <4>1. Firing(x)' = Firing(x)
        BY <2>1, <2>2, <2>3, <3>1 DEF Firing
      <4>2. QED BY <4>1
    <3>2. CASE x = f.rule
      <4>1. Firing(x)' = (Firing(x) \cup {g}) \ {f}
        BY <2>1, <2>2, <2>3, <3>2 DEF Firing
      <4>2. PICK S : S = Firing(x)
        OBVIOUS
      <4>3. f \in S /\ g \notin S /\ IsFiniteSet(S)
        BY <2>3, <3>2, <4>2, FS_Subset DEF Firing, FlowOK
      <4>4. /\ IsFiniteSet(S \cup {g}) /\ Cardinality(S \cup {g}) = Cardinality(S) + 1
            /\ Cardinality(S) \in Nat
        BY <4>3, FS_AddElement, FS_CardinalityType
      <4>5. Cardinality((S \cup {g}) \ {f}) = Cardinality(S \cup {g}) - 1
        BY <4>3, <4>4, FS_RemoveElement
      <4>6. QED BY <4>1, <4>2, <4>4, <4>5
    <3>3. QED BY <3>1, <3>2
  <2>5. QED BY <2>1, <2>4 DEF FiresCounted, Firing
<1>9a. ASSUME NEW f \in fires, NoPost(f) PROVE FiresCounted'
  <2>1. /\ fires' = fires \ {f} /\ UNCHANGED <<heap, ids>>
        /\ started' = [started EXCEPT ![f.rule] = started[f.rule] - 1]
    BY <1>9a DEF NoPost, rules
  <2>2. ASSUME NEW x \in ids PROVE heap'[x].fired + Cardinality(Firing(x)') = started'[x]
    <3>1. heap[x].fired + Cardinality(Firing(x)) = started[x] /\ heap[x].fired \in Nat
      BY DEF FiresCounted, Firing, RulesOK, Rules, Rule
    <3>2. CASE x = f.rule
      <4>1. started'[x] = started[x] - 1
        BY <2>1, <3>2 DEF RulesOK
      <4>2. Firing(x)' = Firing(x) \ {f} /\ f \in Firing(x)
        BY <2>1, <3>2 DEF Firing
      <4>3. /\ Cardinality(Firing(x) \ {f}) = Cardinality(Firing(x)) - 1
            /\ Cardinality(Firing(x)) \in Nat
        BY <4>2, FiringFacts
      <4>4. heap'[x].fired = heap[x].fired
        BY <2>1
      <4>5. QED BY <3>1, <4>1, <4>2, <4>3, <4>4
    <3>3. CASE x # f.rule
      <4>1. Firing(x)' = Firing(x)
        BY <2>1, <3>3 DEF Firing
      <4>2. started'[x] = started[x] /\ heap'[x].fired = heap[x].fired
        BY <2>1, <3>3
      <4>3. QED BY <3>1, <4>1, <4>2
    <3>4. QED BY <3>2, <3>3
  <2>3. QED BY <2>1, <2>2 DEF FiresCounted, Firing
<1>10. ASSUME NEW f \in fires, fire(f) PROVE FiresCounted'
  <2>1. fires' = fires \ {f} /\ ids' = ids /\ started' = started
    BY <1>10, FireFacts
  <2>2. ASSUME NEW x \in ids PROVE heap'[x].fired + Cardinality(Firing(x)') = started'[x]
    <3>1. heap[x].fired + Cardinality(Firing(x)) = started[x] /\ heap[x].fired \in Nat
      BY DEF FiresCounted, Firing, RulesOK, Rules, Rule
    <3>2. CASE x = f.rule
      <4>1. heap'[x].fired = heap[x].fired + 1
        BY <1>10, <3>2, FireFacts
      <4>2. Firing(x)' = Firing(x) \ {f} /\ f \in Firing(x)
        BY <2>1, <3>2 DEF Firing
      <4>3. /\ Cardinality(Firing(x) \ {f}) = Cardinality(Firing(x)) - 1
            /\ Cardinality(Firing(x)) \in Nat
        BY <4>2, FiringFacts
      <4>4. QED BY <2>1, <3>1, <4>1, <4>2, <4>3
    <3>3. CASE x # f.rule
      <4>1. heap'[x] = heap[x]
        <5>1. x \in DOMAIN heap
          BY DEF RulesOK
        <5>2. QED BY <1>10, <3>3, <5>1, FireFacts
      <4>2. Firing(x)' = Firing(x)
        BY <2>1, <3>3 DEF Firing
      <4>3. QED BY <2>1, <3>1, <4>1, <4>2
    <3>4. QED BY <3>2, <3>3
  <2>3. QED BY <2>1, <2>2 DEF FiresCounted, Firing
<1>11. ASSUME NEW p \in Publisher, NEW ev \in Published, Publish(p, ev) PROVE FiresCounted'
  BY <1>11 DEF Publish, Record, FiresCounted, rules, flow, broker
<1>12. CASE LoadFromStore
  <2>1. /\ heap' = stored /\ ids' = DOMAIN stored /\ fires' = {}
        /\ started' = [x \in DOMAIN stored |-> stored[x].fired]
    BY <1>12 DEF LoadFromStore
  <2>2. ASSUME NEW x \in ids'
        PROVE  heap'[x].fired + Cardinality({f \in fires' : f.rule = x}) = started'[x]
    <3>1. {f \in fires' : f.rule = x} = {}
      BY <2>1
    <3>2. stored[x].fired \in Nat
      BY <2>1 DEF RulesOK, Rules, Rule
    <3>3. QED BY <2>1, <3>1, <3>2, FS_EmptySet
  <2>3. QED BY <2>2 DEF FiresCounted
<1>13. CASE UNCHANGED <<rules, broker, pub, flow>>
  BY <1>13 DEF FiresCounted, rules, flow, broker
<1>14. QED
  BY <1>1, <1>2, <1>3, <1>4, <1>4a, <1>5, <1>6, <1>7, <1>8, <1>9, <1>9a, <1>10, <1>11, <1>12,
     <1>13 DEF NotifyStep, NotifyNext

\* An event goes from hand to hand, and to a rule once.
LEMMA OnceStep == ASSUME RulesOK, FlowOK, OnceOK, NotifyStep PROVE OnceOK'
<1> USE DEF OnceOK
<1>1. ASSUME NEW b \in NewRules, Add(b) PROVE OnceOK'
  <2>1. UNCHANGED <<histCount, pub, chan, work, fires>>
    BY <1>1, AddFacts
  <2>2. DOMAIN fate' = DOMAIN fate
    BY <1>1 DEF Add, Revised
  <2>3. QED BY <2>1, <2>2
<1>2. ASSUME NEW r \in ids, RefuseUpdate(r) PROVE OnceOK'
  <2>1. UNCHANGED <<histCount, pub, chan, work, fires, fate>>
    BY <1>2 DEF RefuseUpdate, broker, flow
  <2>2. QED BY <2>1
<1>3. ASSUME NEW r \in ids, Delete(r) PROVE OnceOK'
  <2>1. UNCHANGED <<histCount, pub, chan, work, fires>> /\ DOMAIN fate' = DOMAIN fate
    BY <1>3 DEF Delete, Revised, broker
  <2>2. QED BY <2>1
<1>4. ASSUME NEW r \in ids, NEW patch \in Patches, Update(r, patch) PROVE OnceOK'
  <2>1. UNCHANGED <<histCount, pub, chan, work, fires>> /\ DOMAIN fate' = DOMAIN fate
    BY <1>4 DEF Update, Revised, broker
  <2>2. QED BY <2>1
<1>4a. ASSUME NEW t \in Deletable, DropTenant(t) PROVE OnceOK'
  <2>1. UNCHANGED <<histCount, pub, chan, work, fires, fate>>
    BY <1>4a DEF DropTenant, broker, flow
  <2>2. QED BY <2>1
<1>5. ASSUME NEW p \in Publisher, Offer(p) PROVE OnceOK'
  <2>1. /\ pub[p] # NoEvent /\ pub' = [pub EXCEPT ![p] = NoEvent] /\ pub[p] \in Published
        /\ chan' = chan \/ chan' = Append(chan, pub[p])
        /\ UNCHANGED <<histCount, work, fires>>
    BY <1>5 DEF Offer, rules, broker, FlowOK
  <2>2. DOMAIN fate' = DOMAIN fate \cup {pub[p]}
    BY <1>5 DEF Offer, Put
  <2>3. \A i \in DOMAIN chan' :
          \/ i \in DOMAIN chan /\ chan'[i] = chan[i]
          \/ i = Len(chan) + 1 /\ chan'[i] = pub[p]
    <3>1. CASE chan' = chan
      BY <3>1
    <3>2. CASE chan' = Append(chan, pub[p])
      <4>1. chan \in Seq(Published) /\ DOMAIN chan = 1 .. Len(chan) /\ Len(chan) \in Nat
        BY DEF FlowOK
      <4>2. DOMAIN chan' = 1 .. (Len(chan) + 1) /\ chan'[Len(chan) + 1] = pub[p]
            /\ \A i \in 1 .. Len(chan) : chan'[i] = chan[i]
        BY <2>1, <3>2, <4>1
      <4>3. QED BY <4>1, <4>2
    <3>3. QED BY <2>1, <3>1, <3>2
  <2>4. pub[p] \notin DOMAIN fate /\ pub[p].id <= histCount
    BY <2>1
  <2>5. \A q \in Publisher : pub'[q] # NoEvent => pub'[q] = pub[q] /\ q # p
    BY <2>1 DEF FlowOK
  <2>6. \A q \in Publisher : pub'[q] # NoEvent =>
          /\ pub'[q].id <= histCount /\ pub'[q] \notin DOMAIN fate'
          /\ \A s \in Publisher : pub'[s] = pub'[q] => q = s
    BY <2>1, <2>2, <2>4, <2>5
  <2>7. \A i \in DOMAIN chan' :
          /\ chan'[i] \in DOMAIN fate' /\ chan'[i] # work.ev
          /\ \A j \in DOMAIN chan' : chan'[i] = chan'[j] => i = j
    BY <2>1, <2>2, <2>3, <2>4
  <2>8. \A f \in fires : \A i \in DOMAIN chan' : chan'[i] # f.ev
    BY <2>3, <2>4
  <2>9. QED BY <2>1, <2>2, <2>4, <2>6, <2>7, <2>8
<1>6. CASE Take
  <2>1. /\ work.ev = NoEvent /\ chan # <<>> /\ chan' = Tail(chan)
        /\ work' = [ev |-> Head(chan), refs |-> Snapshot]
        /\ UNCHANGED <<histCount, pub, fires, fate>>
    BY <1>6 DEF Take, rules, broker
  <2>2. /\ 1 \in DOMAIN chan /\ Head(chan) = chan[1]
        /\ \A i \in DOMAIN chan' :
             i + 1 \in DOMAIN chan /\ i + 1 # 1 /\ chan'[i] = chan[i + 1] /\ i \in Nat
    BY <2>1 DEF FlowOK
  <2>3. \A i \in DOMAIN chan' :
          /\ chan'[i] \in DOMAIN fate /\ chan'[i] # chan[1]
          /\ \A j \in DOMAIN chan' : chan'[i] = chan'[j] => i = j
          /\ \A f \in fires : chan'[i] # f.ev
    BY <2>2
  <2>4. \A f \in fires : f.ev # chan[1]
    BY <2>2
  <2>5. work'.ev = chan[1] /\ chan[1] \in DOMAIN fate
    BY <2>1, <2>2
  <2>6. QED BY <2>1, <2>3, <2>4, <2>5
<1>7. CASE EndDispatch
  <2>1. work' = [ev |-> NoEvent, refs |-> {}] /\ UNCHANGED <<histCount, pub, chan, fires, fate>>
    BY <1>7 DEF EndDispatch, NoWork, rules, broker
  <2>2. \A i \in DOMAIN chan : chan[i] # NoEvent
    BY NotifyAssumption DEF NotifyAssumption, FlowOK
  <2>3. QED BY <2>1, <2>2
<1>8. ASSUME NEW r \in work.refs, dispatch(r) PROVE OnceOK'
  <2>1. /\ work'.ev = work.ev /\ work'.refs = work.refs \ {r}
        /\ UNCHANGED <<histCount, pub, chan>> /\ DOMAIN fate' = DOMAIN fate
        /\ fires' = fires \/ fires' = fires \cup {[rule |-> r, ev |-> work.ev, step |-> "post"]}
    BY <1>8 DEF dispatch, rules, broker, FlowOK
  <2>2. work.ev # NoEvent
    BY <1>8 DEF FlowOK
  <2>3. PICK g : g = [rule |-> r, ev |-> work.ev, step |-> "post"]
    OBVIOUS
  <2>4. \A f \in fires' : f \in fires \/ (f = g /\ g.rule = r /\ g.ev = work.ev)
    BY <2>1, <2>3
  <2>5. \A f \in fires : ~(f.rule = r /\ f.ev = work.ev)
    OBVIOUS
  <2>6. \A f, h \in fires' : f.rule = h.rule /\ f.ev = h.ev => f = h
    BY <2>4, <2>5
  <2>7. \A f \in fires' : f.ev \in DOMAIN fate /\ (f.ev = work.ev => f.rule \notin work'.refs)
                        /\ \A i \in DOMAIN chan : chan[i] # f.ev
    BY <2>1, <2>2, <2>4
  <2>8. QED BY <2>1, <2>6, <2>7
<1>9. ASSUME NEW f \in fires, Post(f) PROVE OnceOK'
  <2>1. /\ fires' = (fires \ {f}) \cup {[f EXCEPT !.step = "count"]}
        /\ UNCHANGED <<histCount, pub, chan, work, fate>>
    BY <1>9 DEF Post, rules, broker
  <2>2. PICK g : g = [f EXCEPT !.step = "count"]
    OBVIOUS
  <2>3. g.rule = f.rule /\ g.ev = f.ev
    BY <2>2 DEF FlowOK
  <2>4. \A h \in fires' : h \in fires \ {f} \/ h = g
    BY <2>1, <2>2
  <2>5. \A h, l \in fires' : h.rule = l.rule /\ h.ev = l.ev => h = l
    BY <2>3, <2>4
  <2>6. \A h \in fires' : h.ev \in DOMAIN fate /\ (h.ev = work.ev => h.rule \notin work.refs)
                        /\ \A i \in DOMAIN chan : chan[i] # h.ev
    BY <2>3, <2>4
  <2>7. QED BY <2>1, <2>5, <2>6
<1>9a. ASSUME NEW f \in fires, NoPost(f) PROVE OnceOK'
  <2>1. fires' = fires \ {f} /\ UNCHANGED <<histCount, pub, chan, work, fate>>
    BY <1>9a DEF NoPost, broker
  <2>2. QED BY <2>1
<1>10. ASSUME NEW f \in fires, fire(f) PROVE OnceOK'
  <2>1. fires' = fires \ {f} /\ UNCHANGED <<histCount, pub, chan, work, fate>>
    BY <1>10, FireFacts
  <2>2. QED BY <2>1
<1>11. ASSUME NEW p \in Publisher, NEW ev \in Published, Publish(p, ev) PROVE OnceOK'
  <2>1. /\ pub' = [pub EXCEPT ![p] = ev] /\ histCount' = histCount + 1 /\ ev.id = histCount + 1
        /\ UNCHANGED <<chan, work, fires, fate>>
    BY <1>11 DEF Publish, Record, rules, flow
  <2>2. PICK n \in Nat : n = histCount
    BY DEF FlowOK
  <2>3. \A e \in DOMAIN fate : e \in Published /\ e.id <= n + 1 /\ e # ev
    BY <2>1, <2>2 DEF Published
  <2>4. \A q \in Publisher : q # p /\ pub[q] # NoEvent => pub[q] # ev /\ pub[q].id <= n + 1
    BY <2>1, <2>2 DEF FlowOK, Published
  <2>5. \A q \in Publisher : (q = p /\ pub'[q] = ev) \/ (q # p /\ pub'[q] = pub[q])
    BY <2>1 DEF FlowOK
  <2>6. \A q \in Publisher : pub'[q] # NoEvent =>
          /\ pub'[q].id <= histCount' /\ pub'[q] \notin DOMAIN fate
          /\ \A s \in Publisher : pub'[s] = pub'[q] => q = s
    BY <2>1, <2>2, <2>3, <2>4, <2>5
  <2>7. \A e \in DOMAIN fate : e.id <= histCount'
    BY <2>1, <2>2, <2>3
  <2>8. QED BY <2>1, <2>3, <2>6, <2>7
<1>12. CASE LoadFromStore
  <2>1. /\ pub' = [q \in Publisher |-> NoEvent] /\ histCount' = 0 /\ chan' = <<>>
        /\ work' = [ev |-> NoEvent, refs |-> {}] /\ fires' = {} /\ fate' = <<>>
    BY <1>12 DEF LoadFromStore, NoWork
  <2>2. DOMAIN chan' = {} /\ DOMAIN fate' = {}
    BY <2>1
  <2>3. QED BY <2>1, <2>2
<1>13. CASE UNCHANGED <<rules, broker, pub, flow>>
  <2>1. UNCHANGED <<histCount, pub, chan, work, fires, fate>>
    BY <1>13 DEF rules, flow, broker
  <2>2. QED BY <2>1
<1>14. QED
  BY <1>1, <1>2, <1>3, <1>4, <1>4a, <1>5, <1>6, <1>7, <1>8, <1>9, <1>9a, <1>10, <1>11, <1>12,
     <1>13 DEF NotifyStep, NotifyNext

\* A change of the rules takes them from those that must get an event, and adds to those that
\* may.
LEMMA RevisedFacts ==
  ASSUME ReachOK, ReachesItsRules, Revised, UNCHANGED <<chan, work>>,
         \A e : \A r \in work.refs : r \in ids' \/ (matches(r, e)' => matches(r, e))
  PROVE  ReachOK' /\ ReachesItsRules'
<1>1. DOMAIN fate' = DOMAIN fate
  BY DEF Revised
<1>2. ASSUME NEW e \in DOMAIN fate
      PROVE  /\ DOMAIN fate'[e] = {"must", "active", "typed", "got"}
             /\ fate'[e].must = fate[e].must \cap {r \in ids' : heap'[r].active /\ matches(r, e)'}
             /\ fate'[e].active = fate[e].active \cup {r \in ids' : heap'[r].active}
             /\ fate'[e].typed = fate[e].typed \cup {r \in ids' : matches(r, e)'}
             /\ fate'[e].got = fate[e].got
  <2>1. DOMAIN fate[e] = {"must", "active", "typed", "got"}
    BY DEF ReachOK
  <2>2. fate'[e] =
          [fate[e] EXCEPT
             !.must = fate[e].must \cap {r \in ids' : heap'[r].active /\ matches(r, e)'},
             !.active = fate[e].active \cup {r \in ids' : heap'[r].active},
             !.typed = fate[e].typed \cup {r \in ids' : matches(r, e)'}]
    BY DEF Revised
  <2>3. QED BY <2>1, <2>2
<1>3. ReachOK'
  <2>1. ASSUME NEW e \in DOMAIN fate
        PROVE  /\ fate'[e].must \subseteq Eligible(e)'
               /\ {r \in ids' : Active(r)'} \subseteq fate'[e].active
               /\ {r \in ids' : matches(r, e)'} \subseteq fate'[e].typed
    BY <1>2 DEF Eligible, Active
  <2>2. ASSUME NEW e \in DOMAIN fate, e = work.ev
        PROVE  /\ fate'[e].must \subseteq fate'[e].got \cup work.refs
               /\ work.refs \subseteq fate'[e].active
    BY <1>2, <2>2 DEF ReachOK
  <2>3. ASSUME NEW e \in DOMAIN fate, e = work.ev, NEW r \in work.refs, matches(r, e)'
        PROVE  r \in fate'[e].typed
    <3>1. CASE r \in ids'
      BY <1>2, <2>3, <3>1
    <3>2. CASE r \notin ids'
      <4>1. matches(r, e)
        BY <2>3, <3>2
      <4>2. QED BY <1>2, <2>3, <4>1 DEF ReachOK
    <3>3. QED BY <3>1, <3>2
  <2>4. QED BY <1>1, <1>2, <2>1, <2>2, <2>3 DEF ReachOK
<1>4. ReachesItsRules'
  <2>1. ASSUME NEW e \in DOMAIN fate PROVE Handled(e)' <=> Handled(e)
    BY DEF Handled
  <2>2. QED BY <1>1, <1>2, <2>1 DEF ReachesItsRules
<1>5. QED BY <1>3, <1>4

\* A change that leaves a rule active and matching as it was changes nothing for an event.
LEMMA AlikeFacts ==
  ASSUME ReachOK, ReachesItsRules, UNCHANGED <<ids, chan, work, fate>>,
         \A e : \A r \in ids \cup work.refs :
           (Active(r)' <=> Active(r)) /\ (matches(r, e)' <=> matches(r, e))
  PROVE  ReachOK' /\ ReachesItsRules'
<1>1. ASSUME NEW e PROVE /\ Eligible(e)' = Eligible(e) /\ (Handled(e)' <=> Handled(e))
                         /\ {r \in ids' : Active(r)'} = {r \in ids : Active(r)}
                         /\ {r \in ids' : matches(r, e)'} = {r \in ids : matches(r, e)}
  BY DEF Eligible, Handled
<1>2. QED BY <1>1 DEF ReachOK, ReachesItsRules

\* An event reaches the rules that must get it, and no rule that may not.
LEMMA ReachStep ==
  ASSUME RulesOK, FlowOK, OnceOK, ReachOK, ReachesItsRules, NotifyStep
  PROVE  ReachOK' /\ ReachesItsRules'
<1>1. ASSUME NEW b \in NewRules, Add(b) PROVE ReachOK' /\ ReachesItsRules'
  <2>1. PICK r, rule :
          r \notin DOMAIN heap /\ heap' = Put(heap, r, rule) /\ UNCHANGED <<chan, work>>
    BY <1>1, AddFacts
  <2>2. \A q \in work.refs : heap'[q] = heap[q]
    BY <2>1 DEF FlowOK, Put
  <2>3. Revised
    BY <1>1 DEF Add
  <2>4. \A e : \A q \in work.refs : matches(q, e)' => matches(q, e)
    BY <2>2 DEF matches
  <2>5. QED BY <2>1, <2>3, <2>4, RevisedFacts
<1>2. ASSUME NEW r \in ids, RefuseUpdate(r) PROVE ReachOK' /\ ReachesItsRules'
  <2>1. /\ heap' = [heap EXCEPT ![r] = [heap[r] EXCEPT !.name = "second"]]
        /\ UNCHANGED <<ids, chan, work, fate>>
    BY <1>2 DEF RefuseUpdate, flow
  <2>2. r \in DOMAIN heap /\ heap[r] \in Rule
    BY <1>2 DEF RulesOK, Rules
  <2>3. PICK rule : rule = [heap[r] EXCEPT !.name = "second"]
    OBVIOUS
  <2>4. /\ rule.active = heap[r].active /\ rule.tenant = heap[r].tenant
        /\ rule.types = heap[r].types
    BY <2>2, <2>3 DEF Rule
  <2>5. \A q \in DOMAIN heap : heap'[q] = heap[q] \/ (q = r /\ heap'[q] = rule)
    BY <2>1, <2>2, <2>3
  <2>6. \A e : \A q \in DOMAIN heap : (Active(q)' <=> Active(q)) /\ (matches(q, e)' <=> matches(q, e))
    BY <2>4, <2>5 DEF Active, matches
  <2>7. QED BY <2>1, <2>6, AlikeFacts DEF RulesOK, FlowOK
<1>3. ASSUME NEW r \in ids, Delete(r) PROVE ReachOK' /\ ReachesItsRules'
  <2>1. Revised /\ UNCHANGED <<heap, chan, work>>
    BY <1>3 DEF Delete
  <2>2. \A q, e : matches(q, e)' => matches(q, e)
    BY <2>1 DEF matches
  <2>3. QED BY <2>1, <2>2, RevisedFacts
<1>4. ASSUME NEW r \in ids, NEW patch \in Patches, Update(r, patch)
      PROVE  ReachOK' /\ ReachesItsRules'
  <2>1. PICK rule : heap' = [heap EXCEPT ![r] = rule] /\ UNCHANGED <<ids, chan, work>>
    BY <1>4, UpdateFacts
  <2>2. \A q \in work.refs : q \in ids' \/ heap'[q] = heap[q]
    BY <2>1 DEF FlowOK
  <2>3. Revised
    BY <1>4 DEF Update
  <2>4. \A e : \A q \in work.refs : q \in ids' \/ (matches(q, e)' => matches(q, e))
    BY <2>2 DEF matches
  <2>5. QED BY <2>1, <2>3, <2>4, RevisedFacts
<1>4a. ASSUME NEW t \in Deletable, DropTenant(t) PROVE ReachOK' /\ ReachesItsRules'
  <2>1. UNCHANGED <<heap, ids, chan, work, fate>>
    BY <1>4a DEF DropTenant, flow
  <2>2. QED BY <2>1, AlikeFacts DEF Active, matches
<1>5. ASSUME NEW p \in Publisher, Offer(p) PROVE ReachOK' /\ ReachesItsRules'
  <2>1. PICK new :
          /\ fate' = Put(fate, pub[p], new) /\ UNCHANGED <<heap, ids, work>> /\ pub[p] # NoEvent
          /\ DOMAIN new = {"must", "active", "typed", "got"}
          /\ new.must \subseteq Eligible(pub[p]) /\ new.active = {r \in ids : Active(r)}
          /\ new.typed = {r \in ids : matches(r, pub[p])} /\ new.got = {}
          /\ \/ Len(chan) < BufferSize /\ chan' = Append(chan, pub[p])
             \/ chan' = chan /\ new.must = {}
    <3>1. PICK new : new = [must |-> IF Len(chan) < BufferSize THEN Eligible(pub[p]) ELSE {},
                            active |-> {r \in ids : Active(r)},
                            typed |-> {r \in ids : matches(r, pub[p])}, got |-> {}]
      OBVIOUS
    <3>2. fate' = Put(fate, pub[p], new)
      BY <1>5, <3>1 DEF Offer
    <3>3. UNCHANGED <<heap, ids, work>> /\ pub[p] # NoEvent
      BY <1>5 DEF Offer, rules
    <3>4. /\ new.must \subseteq Eligible(pub[p]) /\ new.active = {r \in ids : Active(r)}
          /\ new.typed = {r \in ids : matches(r, pub[p])} /\ new.got = {}
          /\ DOMAIN new = {"must", "active", "typed", "got"}
      BY <3>1
    <3>5. \/ Len(chan) < BufferSize /\ chan' = Append(chan, pub[p])
          \/ chan' = chan /\ new.must = {}
      BY <1>5, <3>1 DEF Offer, Room
    <3>6. QED BY <3>2, <3>3, <3>4, <3>5
  <2>2. /\ DOMAIN fate' = DOMAIN fate \cup {pub[p]} /\ fate'[pub[p]] = new
        /\ \A e \in DOMAIN fate : e # pub[p] => fate'[e] = fate[e]
    BY <2>1 DEF Put
  <2>3. pub[p] \notin DOMAIN fate /\ pub[p] # work.ev
    BY <2>1 DEF OnceOK
  <2>4. \A q, e : /\ Active(q)' = Active(q) /\ matches(q, e)' = matches(q, e)
                  /\ Eligible(e)' = Eligible(e)
    BY <2>1 DEF Active, matches, Eligible
  <2>5. ASSUME NEW e, Handled(e)'
        PROVE  Handled(e) /\ (e = pub[p] => new.must = {})
    <3>1. CASE chan' = chan /\ new.must = {}
      BY <2>1, <2>5, <3>1 DEF Handled
    <3>2. CASE chan' = Append(chan, pub[p])
      <4>1. chan \in Seq(Published) /\ DOMAIN chan = 1 .. Len(chan) /\ Len(chan) \in Nat
        BY DEF FlowOK
      <4>2. DOMAIN chan' = 1 .. (Len(chan) + 1) /\ chan'[Len(chan) + 1] = pub[p]
            /\ \A i \in 1 .. Len(chan) : chan'[i] = chan[i]
        <5>1. pub[p] \in Published
          BY <2>1 DEF FlowOK
        <5>2. QED BY <3>2, <4>1, <5>1
      <4>3. e # pub[p] /\ \A i \in DOMAIN chan : chan[i] # e
        BY <2>5, <4>1, <4>2 DEF Handled
      <4>4. QED BY <2>1, <2>5, <4>3 DEF Handled
    <3>3. QED BY <2>1, <3>1, <3>2
  <2>6. ReachOK'
    <3>1. ASSUME NEW e \in DOMAIN fate
          PROVE  /\ DOMAIN fate'[e] = {"must", "active", "typed", "got"}
                 /\ fate'[e].must \subseteq Eligible(e)'
                 /\ {r \in ids' : Active(r)'} \subseteq fate'[e].active
                 /\ {r \in ids' : matches(r, e)'} \subseteq fate'[e].typed
                 /\ e = work'.ev => /\ fate'[e].must \subseteq fate'[e].got \cup work'.refs
                                    /\ work'.refs \subseteq fate'[e].active
                                    /\ \A r \in work'.refs : matches(r, e)' => r \in fate'[e].typed
      <4>1. fate'[e] = fate[e] /\ UNCHANGED <<ids, work>>
        BY <2>1, <2>2, <2>3, <3>1
      <4>2. QED BY <2>4, <3>1, <4>1 DEF ReachOK
    <3>2. PICK ev : ev = pub[p]
      OBVIOUS
    <3>3. /\ DOMAIN fate'[ev] = {"must", "active", "typed", "got"}
          /\ fate'[ev].must \subseteq Eligible(ev)'
          /\ {r \in ids' : Active(r)'} \subseteq fate'[ev].active
          /\ {r \in ids' : matches(r, ev)'} \subseteq fate'[ev].typed
          /\ ev # work'.ev
      BY <2>1, <2>2, <2>3, <2>4, <3>2
    <3>4. QED BY <2>2, <3>1, <3>2, <3>3 DEF ReachOK
  <2>7. ReachesItsRules'
    <3>1. \A e \in DOMAIN fate : fate'[e] = fate[e]
      BY <2>2, <2>3
    <3>2. QED BY <2>1, <2>2, <2>5, <3>1 DEF ReachesItsRules
  <2>8. QED BY <2>6, <2>7
<1>6. CASE Take
  <2>1. /\ work.ev = NoEvent /\ chan # <<>> /\ chan' = Tail(chan)
        /\ work' = [ev |-> Head(chan), refs |-> Snapshot] /\ UNCHANGED <<heap, ids, fate>>
    BY <1>6 DEF Take, rules
  <2>2. /\ 1 \in DOMAIN chan /\ Head(chan) = chan[1]
        /\ \A i \in DOMAIN chan : i = 1 \/ (i - 1 \in DOMAIN chan' /\ chan'[i - 1] = chan[i])
    <3>1. /\ chan \in Seq(Published) /\ DOMAIN chan = 1 .. Len(chan) /\ Len(chan) \in Nat
          /\ Len(chan) # 0
      BY <2>1 DEF FlowOK
    <3>2. /\ DOMAIN chan' = 1 .. (Len(chan) - 1)
          /\ \A i \in 1 .. (Len(chan) - 1) : chan'[i] = chan[i + 1]
      BY <2>1, <3>1
    <3>3. QED BY <3>1, <3>2
  <2>3. \A q, e : /\ Active(q)' = Active(q) /\ matches(q, e)' = matches(q, e)
                  /\ Eligible(e)' = Eligible(e)
    BY <2>1 DEF Active, matches, Eligible
  <2>4. work'.ev = chan[1] /\ work'.refs = Snapshot
    BY <2>1, <2>2
  <2>5. ReachOK'
    <3>1. \A e : Eligible(e) \subseteq Snapshot
      BY DEF Eligible, Snapshot
    <3>2. Snapshot = {r \in ids : Active(r)}
      BY DEF Snapshot
    <3>3. QED BY <2>1, <2>3, <2>4, <3>1, <3>2 DEF ReachOK
  <2>6. ASSUME NEW e \in DOMAIN fate, Handled(e)' PROVE Handled(e)
    <3>1. e # NoEvent
      BY NotifyAssumption DEF NotifyAssumption, OnceOK
    <3>2. \A i \in DOMAIN chan : chan[i] # e
      BY <2>2, <2>4, <2>6 DEF Handled
    <3>3. QED BY <2>1, <3>1, <3>2 DEF Handled
  <2>7. ReachesItsRules'
    BY <2>1, <2>6 DEF ReachesItsRules
  <2>8. QED BY <2>5, <2>7
<1>7. CASE EndDispatch
  <2>1. /\ work' = [ev |-> NoEvent, refs |-> {}] /\ work.refs = {}
        /\ UNCHANGED <<heap, ids, chan, fate>>
    BY <1>7 DEF EndDispatch, NoWork, rules
  <2>2. \A q, e : /\ Active(q)' = Active(q) /\ matches(q, e)' = matches(q, e)
                  /\ Eligible(e)' = Eligible(e)
    BY <2>1 DEF Active, matches, Eligible
  <2>3. \A e \in DOMAIN fate : e # NoEvent
    BY NotifyAssumption DEF NotifyAssumption, OnceOK
  <2>4. ReachOK'
    BY <2>1, <2>2, <2>3 DEF ReachOK
  <2>5. ASSUME NEW e \in DOMAIN fate, Handled(e)' PROVE fate[e].must \subseteq fate[e].got
    <3>1. CASE e = work.ev
      BY <2>1, <3>1 DEF ReachOK
    <3>2. CASE e # work.ev
      <4>1. Handled(e)
        BY <2>1, <2>5, <3>2 DEF Handled
      <4>2. QED BY <4>1 DEF ReachesItsRules
    <3>3. QED BY <3>1, <3>2
  <2>6. ReachesItsRules'
    BY <2>1, <2>5 DEF ReachesItsRules
  <2>7. QED BY <2>4, <2>6
<1>8. ASSUME NEW r \in work.refs, dispatch(r) PROVE ReachOK' /\ ReachesItsRules'
  <2>1. /\ work'.ev = work.ev /\ work'.refs = work.refs \ {r} /\ UNCHANGED <<heap, ids, chan>>
        /\ \/ ~matches(r, work.ev) /\ fate' = fate
           \/ /\ matches(r, work.ev)
              /\ fate' = [fate EXCEPT ![work.ev].got = fate[work.ev].got \cup {r}]
    BY <1>8 DEF dispatch, rules, FlowOK
  <2>2. \A q, e : /\ Active(q)' = Active(q) /\ matches(q, e)' = matches(q, e)
                  /\ Eligible(e)' = Eligible(e) /\ Handled(e)' = Handled(e)
    BY <2>1 DEF Active, matches, Eligible, Handled
  <2>3. work.ev # NoEvent /\ work.ev \in DOMAIN fate
    BY <1>8 DEF FlowOK, OnceOK
  <2>4. /\ DOMAIN fate' = DOMAIN fate
        /\ \A e \in DOMAIN fate :
             /\ DOMAIN fate'[e] = {"must", "active", "typed", "got"}
             /\ fate'[e].must = fate[e].must /\ fate'[e].active = fate[e].active
             /\ fate'[e].typed = fate[e].typed /\ fate[e].got \subseteq fate'[e].got
             /\ e # work.ev => fate'[e].got = fate[e].got
             /\ e = work.ev => fate'[e].got = fate[e].got \cup {q \in {r} : matches(r, e)}
    BY <2>1, <2>3 DEF ReachOK
  <2>5. ReachOK'
    <3>1. ASSUME NEW e \in DOMAIN fate, e = work.ev
          PROVE  fate'[e].must \subseteq fate'[e].got \cup work'.refs
      <4>1. /\ fate[e].must \subseteq fate[e].got \cup work.refs
            /\ fate[e].must \subseteq Eligible(e)
        BY <3>1 DEF ReachOK
      <4>2. r \in fate[e].must => matches(r, e)
        BY <4>1 DEF Eligible
      <4>3. QED BY <2>1, <2>4, <3>1, <4>1, <4>2
    <3>2. QED BY <2>1, <2>2, <2>4, <3>1 DEF ReachOK
  <2>6. ReachesItsRules'
    <3>1. ASSUME NEW e \in DOMAIN fate, e = work.ev
          PROVE  fate'[e].got \subseteq fate'[e].active \cap fate'[e].typed
      BY <2>4, <3>1 DEF ReachOK, ReachesItsRules
    <3>2. QED BY <2>2, <2>4, <3>1 DEF ReachesItsRules
  <2>7. QED BY <2>5, <2>6
<1>9. ASSUME NEW f \in fires, Post(f) PROVE ReachOK' /\ ReachesItsRules'
  <2>1. UNCHANGED <<heap, ids, chan, work, fate>>
    BY <1>9 DEF Post, rules
  <2>2. QED BY <2>1, AlikeFacts DEF Active, matches
<1>9a. ASSUME NEW f \in fires, NoPost(f) PROVE ReachOK' /\ ReachesItsRules'
  <2>1. UNCHANGED <<heap, ids, chan, work, fate>>
    BY <1>9a DEF NoPost, rules
  <2>2. QED BY <2>1, AlikeFacts DEF Active, matches
<1>10. ASSUME NEW f \in fires, fire(f) PROVE ReachOK' /\ ReachesItsRules'
  <2>1. UNCHANGED <<ids, chan, work, fate>> /\ f.rule \in DOMAIN heap
    BY <1>10, FireFacts
  <2>2. \A q \in DOMAIN heap :
          \/ heap'[q] = heap[q]
          \/ /\ heap'[q].active = heap[q].active /\ heap'[q].tenant = heap[q].tenant
             /\ heap'[q].types = heap[q].types
    <3>1. CASE f.rule \in ids
      <4>1. PICK rule : /\ rule = [heap[f.rule] EXCEPT !.fired = heap[f.rule].fired + 1]
                        /\ heap' = [heap EXCEPT ![f.rule] = rule]
        BY <1>10, <3>1, FireFacts
      <4>2. heap[f.rule] \in Rule
        BY <2>1 DEF RulesOK, Rules
      <4>3. /\ rule.active = heap[f.rule].active /\ rule.tenant = heap[f.rule].tenant
            /\ rule.types = heap[f.rule].types
        BY <4>1, <4>2 DEF Rule
      <4>4. \A q \in DOMAIN heap : heap'[q] = heap[q] \/ (q = f.rule /\ heap'[q] = rule)
        BY <2>1, <4>1
      <4>5. QED BY <4>3, <4>4
    <3>2. CASE f.rule \notin ids
      BY <1>10, <3>2, FireFacts
    <3>3. QED BY <3>1, <3>2
  <2>3. \A e : \A q \in DOMAIN heap : (Active(q)' <=> Active(q)) /\ (matches(q, e)' <=> matches(q, e))
    BY <2>2 DEF Active, matches
  <2>4. QED BY <2>1, <2>3, AlikeFacts DEF RulesOK, FlowOK
<1>11. ASSUME NEW p \in Publisher, NEW ev \in Published, Publish(p, ev)
       PROVE  ReachOK' /\ ReachesItsRules'
  <2>1. UNCHANGED <<heap, ids, chan, work, fate>>
    BY <1>11 DEF Publish, rules, flow
  <2>2. QED BY <2>1, AlikeFacts DEF Active, matches
<1>12. CASE LoadFromStore
  <2>1. DOMAIN fate' = {}
    BY <1>12 DEF LoadFromStore
  <2>2. QED BY <2>1 DEF ReachOK, ReachesItsRules
<1>13. CASE UNCHANGED <<rules, broker, pub, flow>>
  <2>1. UNCHANGED <<heap, ids, chan, work, fate>>
    BY <1>13 DEF rules, flow
  <2>2. QED BY <2>1, AlikeFacts DEF Active, matches
<1>14. QED
  BY <1>1, <1>2, <1>3, <1>4, <1>4a, <1>5, <1>6, <1>7, <1>8, <1>9, <1>9a, <1>10, <1>11, <1>12,
     <1>13 DEF NotifyStep, NotifyNext

-----------------------------------------------------------------------------
(* The history: a ring that holds the end of what was published. *)

\* The slot of the i-th event from the end, without a remainder.
Back(i) == IF i < histHead THEN histHead - 1 - i ELSE histHead - 1 - i + HistorySize

HistoryOK ==
  /\ log \in Seq(Published) /\ histCount = Len(log)
  /\ histHead \in 0 .. HistorySize - 1
  /\ DOMAIN histBuf = 0 .. HistorySize - 1
  /\ \A i \in 0 .. HistorySize - 1 : i < Len(log) => histBuf[Back(i)] = log[Len(log) - i]

\* A remainder of a number that is less than twice the divisor.
LEMMA Remainder ==
  ASSUME NEW n \in Nat \ {0}, NEW x \in 0 .. 2 * n - 1
  PROVE  x % n = IF x < n THEN x ELSE x - n
<1>1. ASSUME x \in 0 .. n - 1 PROVE x % n = x
  BY <1>1
<1>2. ASSUME x \in n .. 2 * n - 1 PROVE x % n = x - n
  BY <1>2
<1>3. x \in 0 .. n - 1 \/ x \in n .. 2 * n - 1
  OBVIOUS
<1>4. QED BY <1>1, <1>2, <1>3

LEMMA SlotFacts ==
  ASSUME HistoryOK, NEW i \in 0 .. HistorySize - 1
  PROVE  Slot(i) = Back(i) /\ Back(i) \in 0 .. HistorySize - 1
<1>1. PICK n \in Nat \ {0}, h \in Int : n = HistorySize /\ h = histHead /\ h \in 0 .. n - 1
  BY NotifyAssumption DEF NotifyAssumption, HistoryOK
<1>2. PICK x \in Int : x = h - 1 - i + n /\ x \in 0 .. 2 * n - 1
  BY <1>1
<1>3. x % n = IF x < n THEN x ELSE x - n
  BY <1>1, <1>2, Remainder
<1>4. Slot(i) = IF x < n THEN x ELSE x - n
  BY <1>1, <1>2, <1>3 DEF Slot
<1>5. Back(i) = IF i < h THEN h - 1 - i ELSE h - 1 - i + n
  BY <1>1 DEF Back
<1>6. i \in Int /\ 0 <= i /\ i <= n - 1
  BY <1>1
<1>7. (IF x < n THEN x ELSE x - n) = IF i < h THEN h - 1 - i ELSE h - 1 - i + n
  BY <1>1, <1>2, <1>6
<1>8. (IF i < h THEN h - 1 - i ELSE h - 1 - i + n) \in 0 .. n - 1
  BY <1>1, <1>6
<1>9. QED BY <1>1, <1>4, <1>5, <1>7, <1>8

\* The event that is written takes the place of the oldest one.
LEMMA HistoryStep == ASSUME RulesOK, FlowOK, HistoryOK, NotifyStep PROVE HistoryOK'
<1>1. ASSUME NEW p \in Publisher, NEW ev \in Published, Publish(p, ev) PROVE HistoryOK'
  <2>1. PICK n \in Nat \ {0}, h \in Int : n = HistorySize /\ h = histHead /\ h \in 0 .. n - 1
    BY NotifyAssumption DEF NotifyAssumption, HistoryOK
  <2>2. /\ histBuf' = [histBuf EXCEPT ![h] = ev] /\ histHead' = (h + 1) % n
        /\ histCount' = histCount + 1 /\ log' = Append(log, ev)
    BY <1>1, <2>1 DEF Publish, Record
  <2>3. PICK k \in Int : k = histHead' /\ k = (IF h + 1 < n THEN h + 1 ELSE 0)
    <3>1. PICK x \in Int : x = h + 1 /\ x \in 0 .. 2 * n - 1
      BY <2>1
    <3>2. x % n = IF x < n THEN x ELSE x - n
      BY <2>1, <3>1, Remainder
    <3>3. (IF h + 1 < n THEN h + 1 ELSE h + 1 - n) = IF h + 1 < n THEN h + 1 ELSE 0
      BY <2>1
    <3>4. (IF h + 1 < n THEN h + 1 ELSE 0) \in Int
      BY <2>1
    <3>5. QED BY <2>2, <3>1, <3>2, <3>3, <3>4
  <2>4. k \in 0 .. n - 1
    BY <2>1, <2>3
  <2>5. PICK L \in Nat : L = Len(log)
    BY DEF HistoryOK
  <2>6. /\ log' \in Seq(Published) /\ Len(log') = L + 1 /\ log'[L + 1] = ev
        /\ \A i \in 1 .. L : log'[i] = log[i]
    BY <2>2, <2>5 DEF HistoryOK
  <2>7. DOMAIN histBuf' = 0 .. n - 1 /\ histBuf'[h] = ev
    BY <2>1, <2>2 DEF HistoryOK
  <2>8. ASSUME NEW i \in 0 .. n - 1, i < L + 1
        PROVE  histBuf'[IF i < k THEN k - 1 - i ELSE k - 1 - i + n] = log'[L + 1 - i]
    <3>1. CASE i = 0
      <4>1. (IF i < k THEN k - 1 - i ELSE k - 1 - i + n) = h
        BY <2>1, <2>3, <3>1
      <4>2. L + 1 - i = L + 1
        BY <2>5, <3>1
      <4>3. QED BY <2>6, <2>7, <4>1, <4>2
    <3>2. CASE i # 0
      <4>1. PICK j \in Int : j = i - 1 /\ j \in 0 .. n - 1 /\ j < n - 1 /\ j < L
        BY <2>1, <2>5, <2>8, <3>2
      <4>2. PICK b \in Int : b = IF j < h THEN h - 1 - j ELSE h - 1 - j + n
        <5>1. (IF j < h THEN h - 1 - j ELSE h - 1 - j + n) \in Int
          BY <2>1, <4>1
        <5>2. QED BY <5>1
      <4>3. b = (IF i < k THEN k - 1 - i ELSE k - 1 - i + n) /\ b # h /\ b \in 0 .. n - 1
        BY <2>1, <2>3, <4>1, <4>2
      <4>4. histBuf[b] = log[L - j]
        BY <2>1, <2>5, <4>1, <4>2 DEF HistoryOK, Back
      <4>5. histBuf'[b] = histBuf[b]
        BY <2>1, <2>2, <4>3 DEF HistoryOK
      <4>6. L - j \in 1 .. L /\ L - j = L + 1 - i
        BY <2>5, <4>1
      <4>7. QED BY <2>6, <4>3, <4>4, <4>5, <4>6
    <3>3. QED BY <3>1, <3>2
  <2>9. histCount' = Len(log')
    BY <2>2, <2>5, <2>6 DEF HistoryOK
  <2>10. QED BY <2>1, <2>3, <2>4, <2>6, <2>7, <2>8, <2>9 DEF HistoryOK, Back
<1>2. CASE LoadFromStore
  <2>1. /\ histBuf' = [i \in DOMAIN histBuf |-> NoEvent] /\ histHead' = 0 /\ histCount' = 0
        /\ log' = <<>>
    BY <1>2 DEF LoadFromStore
  <2>2. HistorySize \in Nat \ {0}
    BY NotifyAssumption DEF NotifyAssumption
  <2>3. QED BY <2>1, <2>2 DEF HistoryOK
<1>3. CASE UNCHANGED broker
  BY <1>3 DEF HistoryOK, Back, broker
<1>4. (NotifyNext \/ UNCHANGED <<rules, broker, pub, flow>>) => UNCHANGED broker
  BY DEF NotifyNext, Add, RefuseUpdate, Delete, Update, DropTenant, Offer, Take, EndDispatch,
         dispatch, Post, NoPost, fire
<1>5. QED BY <1>1, <1>2, <1>3, <1>4 DEF NotifyStep

\* It makes the history recent, and gives a tenant its own events.
LEMMA HistoryFacts == ASSUME HistoryOK PROVE HistoryIsRecent
<1>1. PICK H \in Nat \ {0} : H = HistorySize
  BY NotifyAssumption DEF NotifyAssumption
<1>2. PICK L \in Nat : L = Len(log) /\ L = histCount
  BY DEF HistoryOK
<1>3. ASSUME NEW limit \in 0 .. HistorySize + 1
      PROVE  LET kept == IF Len(log) > HistorySize THEN HistorySize ELSE Len(log)
                 n == IF limit = 0 \/ limit > kept THEN kept ELSE limit
                 recent == SubSeq(log, Len(log) - n + 1, Len(log))
             IN  /\ History(limit) = recent
                 /\ \A t \in Tenant, e \in {recent[i] : i \in DOMAIN recent} :
                      e.tenant = t <=> \E i \in DOMAIN EventsHistory(t, "", limit) :
                                         EventsHistory(t, "", limit)[i] = e
  <2> DEFINE kept == IF Len(log) > HistorySize THEN HistorySize ELSE Len(log)
             n == IF limit = 0 \/ limit > kept THEN kept ELSE limit
             recent == SubSeq(log, Len(log) - n + 1, Len(log))
  <2>1. n = LET k == IF L > H THEN H ELSE L IN IF limit = 0 \/ limit > k THEN k ELSE limit
    BY <1>1, <1>2
  <2>2. recent = SubSeq(log, L - n + 1, L)
    BY <1>2
  <2>3. limit \in 0 .. H + 1
    BY <1>1
  <2> HIDE DEF n, recent
  <2>4. n \in Nat /\ n <= L /\ n <= H
    BY <1>1, <1>2, <2>1, <2>3
  <2>5. recent = [j \in 1 .. n |-> log[L - n + j]] /\ recent \in Seq(Published)
    <3>1. \A j \in 1 .. n : L - n + j \in 1 .. L
      BY <1>2, <2>4
    <3>2. L - (L - n + 1) + 1 = n /\ \A j \in 1 .. n : (L - n + 1) + j - 1 = L - n + j
      BY <1>2, <2>4
    <3>3. recent = [j \in 1 .. n |-> log[L - n + j]]
      BY <1>2, <2>2, <2>4, <3>2
    <3>4. \A j \in 1 .. n : log[L - n + j] \in Published
      BY <1>2, <3>1, ElementOfSeq DEF HistoryOK
    <3>5. QED BY <2>4, <3>3, <3>4
  <2>6. History(limit) = [j \in 1 .. n |-> histBuf[Slot(n - j)]]
    <3>1. (IF limit <= 0 \/ limit > (IF L > H THEN H ELSE L) THEN (IF L > H THEN H ELSE L)
           ELSE limit) = n
      BY <1>1, <1>2, <2>1, <2>3
    <3>2. QED BY <1>1, <1>2, <3>1 DEF History
  <2>7. ASSUME NEW j \in 1 .. n PROVE histBuf[Slot(n - j)] = log[L - n + j]
    <3>1. PICK i \in Int : i = n - j /\ i \in 0 .. H - 1 /\ i < L
      BY <1>1, <1>2, <2>4
    <3>2. Slot(i) = Back(i) /\ histBuf[Back(i)] = log[L - i]
      BY <1>1, <1>2, <3>1, SlotFacts DEF HistoryOK
    <3>3. L - i = L - n + j
      BY <1>2, <2>4, <3>1
    <3>4. QED BY <3>1, <3>2, <3>3
  <2>8. History(limit) = recent
    BY <2>5, <2>6, <2>7
  <2>9. ASSUME NEW t \in Tenant, NEW j \in DOMAIN recent
        PROVE  recent[j].tenant = t <=> \E i \in DOMAIN EventsHistory(t, "", limit) :
                                          EventsHistory(t, "", limit)[i] = recent[j]
    <3>1. PICK r \in Seq(Published) : r = recent
      BY <2>5
    <3>2. PICK T : T = {i \in DOMAIN r : r[i].tenant = t}
      OBVIOUS
    <3>3. EventsHistory(t, "", limit) = At(r, T)
      BY <2>8, <3>1, <3>2 DEF EventsHistory
    <3>4. T \subseteq DOMAIN r /\ \A i \in DOMAIN r : i \in T <=> r[i].tenant = t
      BY <3>2
    <3>5. r \in Seq(Published) /\ j \in DOMAIN r
      BY <3>1
    <3>6. /\ At(r, T) \in Seq(Published)
          /\ \A k \in DOMAIN At(r, T) : \E i \in T : At(r, T)[k] = r[i]
          /\ \A i \in T : \E k \in DOMAIN At(r, T) : At(r, T)[k] = r[i]
      BY <3>4, <3>5, AtFacts
    <3>7. ASSUME r[j].tenant = t PROVE \E i \in DOMAIN At(r, T) : At(r, T)[i] = r[j]
      BY <3>4, <3>5, <3>6, <3>7
    <3>8. ASSUME NEW i \in DOMAIN At(r, T), At(r, T)[i] = r[j] PROVE r[j].tenant = t
      <4>1. PICK k \in T : At(r, T)[i] = r[k]
        BY <3>6
      <4>2. QED BY <3>4, <3>8, <4>1
    <3>9. r[j].tenant = t <=> \E i \in DOMAIN At(r, T) : At(r, T)[i] = r[j]
      BY <3>7, <3>8
    <3>10. QED BY <3>1, <3>3, <3>9
  <2>10. ASSUME NEW t \in Tenant, NEW e \in {recent[i] : i \in DOMAIN recent}
         PROVE  e.tenant = t <=> \E i \in DOMAIN EventsHistory(t, "", limit) :
                                   EventsHistory(t, "", limit)[i] = e
    <3>1. PICK j \in DOMAIN recent : e = recent[j]
      OBVIOUS
    <3>2. QED BY <2>9, <3>1
  <2>11. QED BY <2>8, <2>10, Zenon DEF n, recent
<1>4. QED BY <1>3, Zenon DEF HistoryIsRecent

-----------------------------------------------------------------------------
(* The registry and the checker: the inductive invariant, in parts. *)

Entry == [addr : Addr \cup {NoAddr}, status : Status, seen : Nat, expires : Nat]

\* An entry has been seen by now, and its deadline counts from what was heard of the agent.
RegistryOK ==
  /\ now \in Nat /\ beat \in [Agent -> Nat] /\ DOMAIN agents \subseteq Agent
  /\ \A k \in DOMAIN agents :
       agents[k] \in Entry /\ agents[k].seen <= now /\ agents[k].expires = beat[k] + TTL
  /\ place \in [Agent -> Addr \cup {NoAddr}]
  /\ worker \in [Agent -> {"off", "register", "wait", "again", "waitAgain", "run"}]

\* The checker has pinged the agent whose result it has at hand.
CheckOK ==
  /\ check \in [step : {"idle", "ping", "note", "apply", "publish", "sent"},
                refs : SUBSET (Agent \X Addr), done : SUBSET Agent,
                k : Agent \cup {NoAddr}, addr : Addr \cup {NoAddr}, ok : BOOLEAN]
  /\ check.step \notin {"idle", "ping"} => check.k \in check.done
  /\ DOMAIN results \subseteq Agent

\* The status of an agent is that of the last ping, which went to the address it has.
Judged(k) ==
  /\ k \in DOMAIN results /\ agents[k].addr = results[k].addr
  /\ agents[k].status = Verdict(results[k].ok)
Open(k) == check.k = k /\ check.step \in {"note", "apply"}

\* During a round, an agent that nothing else touched waits for its ping with the address it
\* was listed with, or is being judged by it, or is judged.
RoundOK ==
  /\ check.step # "idle" => settled = {}
  /\ \A k \in settled \cap DOMAIN agents : Judged(k)
  /\ \A x, y \in check.refs : x[1] = y[1] => x = y
  /\ \A x \in check.refs :
       /\ x[1] \notin check.done
       /\ x[1] \in DOMAIN agents \ touched => agents[x[1]].addr = x[2]
  /\ \A k \in (check.done \cap DOMAIN agents) \ touched :
       IF Open(k) THEN agents[k].addr = check.addr ELSE Judged(k)
  /\ check.step = "apply" =>
       check.k \in DOMAIN results /\ results[check.k] = [addr |-> check.addr, ok |-> check.ok]

\* Every step of the system is one of the broker and the rules, or leaves them alone.
LEMMA NotifyFrame == ASSUME FlowOK, CheckOK, [Next]_vars PROVE NotifyStep
<1>1. CASE NotifyNext /\ UNCHANGED <<registry, results, check, world>>
  BY <1>1 DEF NotifyStep, notifyVars, rules, broker, flow
<1>2. ASSUME NEW k \in Agent, RegisterRequest(k) PROVE NotifyStep
  <2>1. PICK ev : ev = [id |-> histCount + 1, tenant |-> TenantOf[k], type |-> "agent_registered"]
    OBVIOUS
  <2>2. ev \in Published /\ ev.id = histCount + 1 /\ k \in Publisher
    BY <2>1, AgentsAssumption DEF AgentsAssumption, Published, EventType, FlowOK
  <2>3. Publish(k, ev)
    BY <1>2, <2>1, <2>2 DEF RegisterRequest, Publish
  <2>4. QED BY <2>2, <2>3 DEF NotifyStep
<1>3. ASSUME NEW k \in Agent, RegisterAnswer(k) PROVE NotifyStep
  BY <1>3 DEF RegisterAnswer, NotifyStep, notifyVars, rules, broker, flow
<1>4. ASSUME NEW k \in Agent, RegisterLost(k) PROVE NotifyStep
  BY <1>4 DEF RegisterLost, NotifyStep, notifyVars, rules, broker, flow
<1>5. ASSUME NEW k \in Agent, Heartbeat(k) PROVE NotifyStep
  BY <1>5 DEF Heartbeat, Without, NotifyStep, notifyVars, rules, broker, flow
<1>6. ASSUME NEW k \in Agent, HeartbeatLost(k) PROVE NotifyStep
  BY <1>6 DEF HeartbeatLost, NotifyStep, notifyVars, rules, broker, flow
<1>7. ASSUME NEW k \in Agent, StartWorker(k) PROVE NotifyStep
  BY <1>7 DEF StartWorker, NotifyStep, notifyVars, rules, broker, flow
<1>8. ASSUME NEW k \in Agent, StopWorker(k) PROVE NotifyStep
  BY <1>8 DEF StopWorker, NotifyStep, notifyVars, rules, broker, flow
<1>9. ASSUME NEW k \in Agent, Deregister(k) PROVE NotifyStep
  BY <1>9 DEF Deregister, Without, Touch, NotifyStep, notifyVars, rules, broker, flow
<1>10. ASSUME NEW k \in Agent, NEW s \in {"degraded", "unknown"}, PostStatus(k, s)
       PROVE  NotifyStep
  BY <1>10
     DEF PostStatus, UpdateStatus, SetStatus, Without, Touch, NotifyStep, notifyVars, rules,
       broker, flow
<1>11. ASSUME NEW k \in Agent, NEW a \in Addr, PatchAddr(k, a) PROVE NotifyStep
  BY <1>11 DEF PatchAddr, Without, Touch, NotifyStep, notifyVars, rules, broker, flow
<1>12. CASE Prune
  BY <1>12 DEF Prune, Without, NotifyStep, notifyVars, rules, broker, flow
<1>13. CASE StartRound
  BY <1>13 DEF StartRound, Without, Resting, NotifyStep, notifyVars, rules, broker, flow
<1>14. ASSUME NEW ref \in check.refs, ping(ref) PROVE NotifyStep
  BY <1>14 DEF ping, NotifyStep, notifyVars, rules, broker, flow
<1>15. CASE NoteResult
  BY <1>15 DEF NoteResult, NotifyStep, notifyVars, rules, broker, flow
<1>16. CASE ApplyResult
  BY <1>16
     DEF ApplyResult, UpdateStatus, SetStatus, Without, NotifyStep, notifyVars, rules, broker,
       flow
<1>17. CASE PublishResult
  <2>1. PICK type \in EventType : type = IF check.ok THEN "agent_health_ok" ELSE "agent_health_fail"
    BY DEF EventType
  <2>2. PICK ev : ev = [id |-> histCount + 1, tenant |-> TenantOf[check.k], type |-> type]
    OBVIOUS
  <2>3. check.k \in Agent
    BY <1>17 DEF PublishResult, CheckOK
  <2>4. ev \in Published /\ ev.id = histCount + 1 /\ Checker \in Publisher
    BY <2>2, <2>3, AgentsAssumption DEF AgentsAssumption, Published, FlowOK
  <2>5. Publish(Checker, ev)
    BY <1>17, <2>1, <2>2, <2>4 DEF PublishResult, Publish
  <2>6. QED BY <2>4, <2>5 DEF NotifyStep
<1>18. CASE NextPing
  BY <1>18 DEF NextPing, NotifyStep, notifyVars, rules, broker, flow
<1>19. CASE EndRound
  BY <1>19 DEF EndRound, Resting, NotifyStep, notifyVars, rules, broker, flow
<1>20. ASSUME NEW a \in Addr, Flip(a) PROVE NotifyStep
  BY <1>20 DEF Flip, NotifyStep, notifyVars, rules, broker, flow
<1>21. ASSUME NEW t \in Tenant, NEW type \in {"job.created"}, Event(t, type) PROVE NotifyStep
  <2>1. PICK ev : ev = [id |-> histCount + 1, tenant |-> t, type |-> type]
    OBVIOUS
  <2>2. ev \in Published /\ ev.id = histCount + 1 /\ Checker \in Publisher
    BY <2>1, AgentsAssumption DEF AgentsAssumption, Published, EventType, FlowOK
  <2>3. Publish(Checker, ev)
    BY <1>21, <2>1, <2>2 DEF Event, Publish
  <2>4. QED BY <2>2, <2>3 DEF NotifyStep
<1>22. CASE Restart
  BY <1>22 DEF Restart, Resting, NotifyStep, notifyVars, rules, broker, flow
<1>23. CASE Tick
  BY <1>23 DEF Tick, NotifyStep, notifyVars, rules, broker, flow
<1>24. CASE UNCHANGED vars
  BY <1>24 DEF vars, NotifyStep, notifyVars, rules, broker, flow
<1>25. QED
  BY <1>1, <1>2, <1>3, <1>4, <1>5, <1>6, <1>7, <1>8, <1>9, <1>10, <1>11, <1>12, <1>13, <1>14,
     <1>15, <1>16, <1>17, <1>18, <1>19, <1>20, <1>21, <1>22, <1>23, <1>24
     DEF Next

\* An entry changes by what is heard of the agent, or keeps its deadline.
LEMMA RegistryStep == ASSUME RegistryOK, CheckOK, [Next]_vars PROVE RegistryOK'
<1>1. CASE NotifyNext /\ UNCHANGED <<registry, results, check, world>>
  BY <1>1 DEF RegistryOK, Entry, Status, registry, world, vars
<1>2. ASSUME NEW k \in Agent, RegisterRequest(k) PROVE RegistryOK'
  <2>1. place[k] \in Addr \cup {NoAddr} /\ now \in Nat /\ now + TTL \in Nat
    BY AgentsAssumption DEF AgentsAssumption, RegistryOK
  <2>2. PICK e : e = [addr |-> place[k], status |-> "healthy", seen |-> now, expires |-> now + TTL]
    OBVIOUS
  <2>3. e \in Entry /\ e.seen <= now /\ e.expires = now + TTL
    BY <2>1, <2>2 DEF Entry, Status
  <2>4. /\ agents' = Put(agents, k, e) /\ beat' = [beat EXCEPT ![k] = now]
        /\ UNCHANGED <<now, place>>
    BY <1>2, <2>2 DEF RegisterRequest, Register
  <2>5. worker' \in [Agent -> {"off", "register", "wait", "again", "waitAgain", "run"}]
    BY <1>2 DEF RegisterRequest, RegistryOK
  <2>6. QED BY <2>1, <2>3, <2>4, <2>5 DEF RegistryOK, Put
<1>3. ASSUME NEW k \in Agent, RegisterAnswer(k) PROVE RegistryOK'
  BY <1>3 DEF RegisterAnswer, RegistryOK, Entry, Status, registry, world, vars
<1>4. ASSUME NEW k \in Agent, RegisterLost(k) PROVE RegistryOK'
  BY <1>4 DEF RegisterLost, RegistryOK, Entry, Status, registry, world, vars
<1>5. ASSUME NEW k \in Agent, Heartbeat(k) PROVE RegistryOK'
  BY <1>5 DEF Heartbeat, Without, RegistryOK, Entry, Status, registry, world, vars
<1>6. ASSUME NEW k \in Agent, HeartbeatLost(k) PROVE RegistryOK'
  BY <1>6 DEF HeartbeatLost, RegistryOK, Entry, Status, registry, world, vars
<1>7. ASSUME NEW k \in Agent, StartWorker(k) PROVE RegistryOK'
  <2>1. PICK a \in Addr \cup {NoAddr} : place' = [place EXCEPT ![k] = a]
    BY <1>7, AgentsAssumption DEF AgentsAssumption, StartWorker
  <2>2. UNCHANGED <<agents, beat, now>> /\ worker' = [worker EXCEPT ![k] = "register"]
    BY <1>7 DEF StartWorker, registry
  <2>3. QED BY <2>1, <2>2 DEF RegistryOK
<1>8. ASSUME NEW k \in Agent, StopWorker(k) PROVE RegistryOK'
  BY <1>8 DEF StopWorker, RegistryOK, Entry, Status, registry, world, vars
<1>9. ASSUME NEW k \in Agent, Deregister(k) PROVE RegistryOK'
  BY <1>9 DEF Deregister, Without, Touch, RegistryOK, Entry, Status, registry, world, vars
<1>10. ASSUME NEW k \in Agent, NEW s \in {"degraded", "unknown"}, PostStatus(k, s)
       PROVE  RegistryOK'
  BY <1>10
     DEF PostStatus, UpdateStatus, SetStatus, Without, Touch, RegistryOK, Entry, Status,
       registry, world, vars
<1>11. ASSUME NEW k \in Agent, NEW a \in Addr, PatchAddr(k, a) PROVE RegistryOK'
  BY <1>11 DEF PatchAddr, Without, Touch, RegistryOK, Entry, Status, registry, world, vars
<1>12. CASE Prune
  BY <1>12 DEF Prune, Without, RegistryOK, Entry, Status, registry, world, vars
<1>13. CASE StartRound
  BY <1>13 DEF StartRound, Without, Resting, RegistryOK, Entry, Status, registry, world, vars
<1>14. ASSUME NEW ref \in check.refs, ping(ref) PROVE RegistryOK'
  BY <1>14 DEF ping, RegistryOK, Entry, Status, registry, world, vars
<1>15. CASE NoteResult
  BY <1>15 DEF NoteResult, RegistryOK, Entry, Status, registry, world, vars
<1>16. CASE ApplyResult
  <2>1. PICK s \in Status : s = Verdict(check.ok)
    BY DEF Verdict, Status
  <2>2. agents' = (IF Alive(check.k) THEN SetStatus(check.k, s) ELSE Without({check.k}))
    BY <1>16, <2>1 DEF ApplyResult, UpdateStatus
  <2>3. UNCHANGED <<beat, now, place, worker>>
    BY <1>16 DEF ApplyResult, world
  <2>4. QED BY <2>1, <2>2, <2>3 DEF RegistryOK, Entry, SetStatus, Without
<1>17. CASE PublishResult
  BY <1>17 DEF PublishResult, RegistryOK, Entry, Status, registry, world, vars
<1>18. CASE NextPing
  BY <1>18 DEF NextPing, RegistryOK, Entry, Status, registry, world, vars
<1>19. CASE EndRound
  BY <1>19 DEF EndRound, Resting, RegistryOK, Entry, Status, registry, world, vars
<1>20. ASSUME NEW a \in Addr, Flip(a) PROVE RegistryOK'
  BY <1>20 DEF Flip, RegistryOK, Entry, Status, registry, world, vars
<1>21. ASSUME NEW t \in Tenant, NEW type \in {"job.created"}, Event(t, type) PROVE RegistryOK'
  BY <1>21 DEF Event, RegistryOK, Entry, Status, registry, world, vars
<1>22. CASE Restart
  BY <1>22 DEF Restart, Resting, RegistryOK, Entry, Status, registry, world, vars
<1>23. CASE Tick
  BY <1>23 DEF Tick, RegistryOK, Entry, Status, registry, world, vars
<1>24. CASE UNCHANGED vars
  BY <1>24 DEF vars, RegistryOK, Entry, Status, registry, world, vars
<1>25. QED
  BY <1>1, <1>2, <1>3, <1>4, <1>5, <1>6, <1>7, <1>8, <1>9, <1>10, <1>11, <1>12, <1>13, <1>14,
     <1>15, <1>16, <1>17, <1>18, <1>19, <1>20, <1>21, <1>22, <1>23, <1>24
     DEF Next

\* The checker goes through its steps.
LEMMA CheckStep == ASSUME RegistryOK, CheckOK, [Next]_vars PROVE CheckOK'
<1>1. CASE NotifyNext /\ UNCHANGED <<registry, results, check, world>>
  BY <1>1 DEF CheckOK, registry, world, vars
<1>2. ASSUME NEW k \in Agent, RegisterRequest(k) PROVE CheckOK'
  BY <1>2 DEF RegisterRequest, Register, Touch, CheckOK, registry, world, vars
<1>3. ASSUME NEW k \in Agent, RegisterAnswer(k) PROVE CheckOK'
  BY <1>3 DEF RegisterAnswer, CheckOK, registry, world, vars
<1>4. ASSUME NEW k \in Agent, RegisterLost(k) PROVE CheckOK'
  BY <1>4 DEF RegisterLost, CheckOK, registry, world, vars
<1>5. ASSUME NEW k \in Agent, Heartbeat(k) PROVE CheckOK'
  BY <1>5 DEF Heartbeat, Without, CheckOK, registry, world, vars
<1>6. ASSUME NEW k \in Agent, HeartbeatLost(k) PROVE CheckOK'
  BY <1>6 DEF HeartbeatLost, CheckOK, registry, world, vars
<1>7. ASSUME NEW k \in Agent, StartWorker(k) PROVE CheckOK'
  BY <1>7 DEF StartWorker, CheckOK, registry, world, vars
<1>8. ASSUME NEW k \in Agent, StopWorker(k) PROVE CheckOK'
  BY <1>8 DEF StopWorker, CheckOK, registry, world, vars
<1>9. ASSUME NEW k \in Agent, Deregister(k) PROVE CheckOK'
  BY <1>9 DEF Deregister, Without, Touch, CheckOK, registry, world, vars
<1>10. ASSUME NEW k \in Agent, NEW s \in {"degraded", "unknown"}, PostStatus(k, s)
       PROVE  CheckOK'
  BY <1>10
     DEF PostStatus, UpdateStatus, SetStatus, Without, Touch, CheckOK, registry, world, vars
<1>11. ASSUME NEW k \in Agent, NEW a \in Addr, PatchAddr(k, a) PROVE CheckOK'
  BY <1>11 DEF PatchAddr, Without, Touch, CheckOK, registry, world, vars
<1>12. CASE Prune
  BY <1>12 DEF Prune, Without, CheckOK, registry, world, vars
<1>13. CASE StartRound
  <2>1. PICK refs :
          refs = {<<k, agents[k].addr>> : k \in {x \in List(Tenant) : agents[x].addr # NoAddr}}
    OBVIOUS
  <2>2. refs \subseteq Agent \X Addr
    BY <2>1 DEF List, RegistryOK, Entry
  <2>3. check' = [Resting EXCEPT !.step = "ping", !.refs = refs] /\ UNCHANGED results
    BY <1>13, <2>1 DEF StartRound
  <2>4. PICK no \in BOOLEAN :
          Resting = [step |-> "idle", refs |-> {}, done |-> {},
                     k |-> NoAddr, addr |-> NoAddr, ok |-> no]
    BY Zenon DEF Resting
  <2>5. check' = [step |-> "ping", refs |-> refs, done |-> {},
                  k |-> NoAddr, addr |-> NoAddr, ok |-> no]
    BY <2>3, <2>4
  <2>6. QED BY <2>2, <2>3, <2>5 DEF CheckOK
<1>14. ASSUME NEW ref \in check.refs, ping(ref) PROVE CheckOK'
  <2>1. /\ check' = [check EXCEPT !.step = "note", !.refs = check.refs \ {ref},
                                  !.done = check.done \cup {ref[1]}, !.k = ref[1],
                                  !.addr = ref[2], !.ok = ref[2] \in answers]
        /\ UNCHANGED results
    BY <1>14 DEF ping
  <2>2. ref \in Agent \X Addr
    BY DEF CheckOK
  <2>3. PICK ok \in BOOLEAN : ok = (ref[2] \in answers)
    <3>1. (ref[2] \in answers) \in BOOLEAN
      BY SMT
    <3>2. QED BY <3>1, Zenon
  <2>4. check' = [step |-> "note", refs |-> check.refs \ {ref}, done |-> check.done \cup {ref[1]},
                  k |-> ref[1], addr |-> ref[2], ok |-> ok]
    BY <2>1, <2>3 DEF CheckOK
  <2>5. QED BY <2>1, <2>2, <2>4 DEF CheckOK
<1>15. CASE NoteResult
  <2>1. check' = [check EXCEPT !.step = "apply"] /\ check.step = "note"
    BY <1>15 DEF NoteResult
  <2>2. DOMAIN results' = DOMAIN results \cup {check.k}
    BY <1>15 DEF NoteResult, Put
  <2>3. check.k \in Agent
    BY <2>1 DEF CheckOK
  <2>4. QED BY <2>1, <2>2, <2>3 DEF CheckOK
<1>16. CASE ApplyResult
  BY <1>16 DEF ApplyResult, UpdateStatus, SetStatus, Without, CheckOK, registry, world, vars
<1>17. CASE PublishResult
  BY <1>17 DEF PublishResult, CheckOK, registry, world, vars
<1>18. CASE NextPing
  BY <1>18 DEF NextPing, CheckOK, registry, world, vars
<1>19. CASE EndRound
  BY <1>19 DEF EndRound, Resting, CheckOK, registry, world, vars
<1>20. ASSUME NEW a \in Addr, Flip(a) PROVE CheckOK'
  BY <1>20 DEF Flip, CheckOK, registry, world, vars
<1>21. ASSUME NEW t \in Tenant, NEW type \in {"job.created"}, Event(t, type) PROVE CheckOK'
  BY <1>21 DEF Event, CheckOK, registry, world, vars
<1>22. CASE Restart
  BY <1>22 DEF Restart, Resting, CheckOK, registry, world, vars
<1>23. CASE Tick
  BY <1>23 DEF Tick, CheckOK, registry, world, vars
<1>24. CASE UNCHANGED vars
  BY <1>24 DEF vars, CheckOK, registry, world, vars
<1>25. QED
  BY <1>1, <1>2, <1>3, <1>4, <1>5, <1>6, <1>7, <1>8, <1>9, <1>10, <1>11, <1>12, <1>13, <1>14,
     <1>15, <1>16, <1>17, <1>18, <1>19, <1>20, <1>21, <1>22, <1>23, <1>24
     DEF Next

\* A verdict of the round is on the address an untouched agent has.
LEMMA RoundStep == ASSUME RegistryOK, CheckOK, RoundOK, [Next]_vars PROVE RoundOK'
<1>1. CASE NotifyNext /\ UNCHANGED <<registry, results, check, world>>
  BY <1>1 DEF RoundOK, Judged, Open, registry, world, vars
<1>2. ASSUME NEW k \in Agent, RegisterRequest(k) PROVE RoundOK'
  <2>1. /\ DOMAIN agents' = DOMAIN agents \cup {k}
        /\ \A x \in DOMAIN agents : x # k => agents'[x] = agents[x]
        /\ touched' = touched \cup {k} /\ settled' = settled \ {k}
        /\ UNCHANGED <<results, check>>
    BY <1>2 DEF RegisterRequest, Register, Touch, Put
  <2>2. QED BY <2>1 DEF RoundOK, Judged, Open
<1>3. ASSUME NEW k \in Agent, RegisterAnswer(k) PROVE RoundOK'
  BY <1>3 DEF RegisterAnswer, RoundOK, Judged, Open, registry, world, vars
<1>4. ASSUME NEW k \in Agent, RegisterLost(k) PROVE RoundOK'
  BY <1>4 DEF RegisterLost, RoundOK, Judged, Open, registry, world, vars
<1>5. ASSUME NEW k \in Agent, Heartbeat(k) PROVE RoundOK'
  <2>1. UNCHANGED <<touched, settled, results, check>>
    BY <1>5 DEF Heartbeat
  <2>2. /\ DOMAIN agents' \subseteq DOMAIN agents
        /\ \A x \in DOMAIN agents' :
             agents'[x].addr = agents[x].addr /\ agents'[x].status = agents[x].status
    <3>1. CASE Alive(k) /\ agents' = [agents EXCEPT ![k].seen = now, ![k].expires = now + TTL]
      <4>1. \A x \in DOMAIN agents : agents[x] \in Entry
        BY DEF RegistryOK
      <4>2. QED BY <3>1, <4>1 DEF Entry
    <3>2. CASE agents' = Without({k})
      BY <3>2 DEF Without
    <3>3. QED BY <1>5, <3>1, <3>2 DEF Heartbeat
  <2>3. QED BY <2>1, <2>2 DEF RoundOK, Judged, Open
<1>6. ASSUME NEW k \in Agent, HeartbeatLost(k) PROVE RoundOK'
  BY <1>6 DEF HeartbeatLost, RoundOK, Judged, Open, registry, world, vars
<1>7. ASSUME NEW k \in Agent, StartWorker(k) PROVE RoundOK'
  BY <1>7 DEF StartWorker, RoundOK, Judged, Open, registry, world, vars
<1>8. ASSUME NEW k \in Agent, StopWorker(k) PROVE RoundOK'
  BY <1>8 DEF StopWorker, RoundOK, Judged, Open, registry, world, vars
<1>9. ASSUME NEW k \in Agent, Deregister(k) PROVE RoundOK'
  BY <1>9 DEF Deregister, Without, Touch, RoundOK, Judged, Open, registry, world, vars
<1>10. ASSUME NEW k \in Agent, NEW s \in {"degraded", "unknown"}, PostStatus(k, s)
       PROVE  RoundOK'
  BY <1>10
     DEF PostStatus, UpdateStatus, SetStatus, Without, Touch, RoundOK, Judged, Open, registry,
       world, vars
<1>11. ASSUME NEW k \in Agent, NEW a \in Addr, PatchAddr(k, a) PROVE RoundOK'
  BY <1>11 DEF PatchAddr, Without, Touch, RoundOK, Judged, Open, registry, world, vars
<1>12. CASE Prune
  BY <1>12 DEF Prune, Without, RoundOK, Judged, Open, registry, world, vars
<1>13. CASE StartRound
  BY <1>13 DEF StartRound, Without, Resting, RoundOK, Judged, Open, registry, world, vars
<1>14. ASSUME NEW ref \in check.refs, ping(ref) PROVE RoundOK'
  BY <1>14 DEF ping, RoundOK, Judged, Open, registry, world, vars
<1>15. CASE NoteResult
  <2>1. /\ check.step = "note" /\ UNCHANGED <<agents, touched, settled>>
        /\ check' = [check EXCEPT !.step = "apply"]
        /\ results' = Put(results, check.k, [addr |-> check.addr, ok |-> check.ok])
    BY <1>15 DEF NoteResult, registry
  <2>2. /\ check'.step = "apply" /\ check'.refs = check.refs /\ check'.done = check.done
        /\ check'.k = check.k /\ check'.addr = check.addr /\ check'.ok = check.ok
    BY <2>1 DEF CheckOK
  <2>3. /\ check.k \in DOMAIN results'
        /\ results'[check.k] = [addr |-> check.addr, ok |-> check.ok]
        /\ \A k : k # check.k /\ k \in DOMAIN results =>
             k \in DOMAIN results' /\ results'[k] = results[k]
    BY <2>1 DEF Put
  <2>4. settled = {} /\ settled' = {}
    BY <2>1 DEF RoundOK
  <2>5. ASSUME NEW k \in (check.done \cap DOMAIN agents) \ touched
        PROVE  IF Open(k)' THEN agents[k].addr = check.addr ELSE Judged(k)'
    <3>1. CASE k = check.k
      BY <2>1, <2>2, <3>1 DEF RoundOK, Open
    <3>2. CASE k # check.k
      BY <2>1, <2>2, <2>3, <3>2 DEF RoundOK, Open, Judged
    <3>3. QED BY <3>1, <3>2
  <2>6. QED BY <2>1, <2>2, <2>3, <2>4, <2>5 DEF RoundOK
<1>16. CASE ApplyResult
  BY <1>16
     DEF ApplyResult, UpdateStatus, SetStatus, Without, RoundOK, Judged, Open, registry, world,
       vars
<1>17. CASE PublishResult
  BY <1>17 DEF PublishResult, RoundOK, Judged, Open, registry, world, vars
<1>18. CASE NextPing
  BY <1>18 DEF NextPing, RoundOK, Judged, Open, registry, world, vars
<1>19. CASE EndRound
  BY <1>19 DEF EndRound, Resting, RoundOK, Judged, Open, registry, world, vars
<1>20. ASSUME NEW a \in Addr, Flip(a) PROVE RoundOK'
  BY <1>20 DEF Flip, RoundOK, Judged, Open, registry, world, vars
<1>21. ASSUME NEW t \in Tenant, NEW type \in {"job.created"}, Event(t, type) PROVE RoundOK'
  BY <1>21 DEF Event, RoundOK, Judged, Open, registry, world, vars
<1>22. CASE Restart
  BY <1>22 DEF Restart, Resting, RoundOK, Judged, Open, registry, world, vars
<1>23. CASE Tick
  BY <1>23 DEF Tick, RoundOK, Judged, Open, registry, world, vars
<1>24. CASE UNCHANGED vars
  BY <1>24 DEF vars, RoundOK, Judged, Open, registry, world, vars
<1>25. QED
  BY <1>1, <1>2, <1>3, <1>4, <1>5, <1>6, <1>7, <1>8, <1>9, <1>10, <1>11, <1>12, <1>13, <1>14,
     <1>15, <1>16, <1>17, <1>18, <1>19, <1>20, <1>21, <1>22, <1>23, <1>24
     DEF Next

\* An agent that comes back to the lists registers.
ComesBack == \A x \in Agent : (~Get(x) /\ Get(x)') => worker[x] \in {"register", "again"}

\* Whatever else happens keeps an agent that is not there away.
LEMMA ComesBackStep == ASSUME RegistryOK, CheckOK, [Next]_vars PROVE ComesBack
<1>1. CASE NotifyNext /\ UNCHANGED <<registry, results, check, world>>
  BY <1>1 DEF ComesBack, Get, Gone, registry, world, vars
<1>2. ASSUME NEW k \in Agent, RegisterRequest(k) PROVE ComesBack
  <2>1. /\ DOMAIN agents' = DOMAIN agents \cup {k}
        /\ \A x \in DOMAIN agents : x # k => agents'[x] = agents[x]
        /\ now' = now /\ worker[k] \in {"register", "again"}
    BY <1>2 DEF RegisterRequest, Register, Put
  <2>2. QED BY <2>1 DEF ComesBack, Get, Gone
<1>3. ASSUME NEW k \in Agent, RegisterAnswer(k) PROVE ComesBack
  BY <1>3 DEF RegisterAnswer, ComesBack, Get, Gone, registry, world, vars
<1>4. ASSUME NEW k \in Agent, RegisterLost(k) PROVE ComesBack
  BY <1>4 DEF RegisterLost, ComesBack, Get, Gone, registry, world, vars
<1>5. ASSUME NEW k \in Agent, Heartbeat(k) PROVE ComesBack
  <2>1. CASE Alive(k) /\ agents' = [agents EXCEPT ![k].seen = now, ![k].expires = now + TTL]
    <3>1. /\ DOMAIN agents' = DOMAIN agents /\ now' = now
          /\ \A x \in DOMAIN agents : x # k => agents'[x] = agents[x]
      BY <1>5, <2>1 DEF Heartbeat
    <3>2. Get(k)
      BY <2>1 DEF Alive, Get
    <3>3. \A x \in Agent : ~Get(x) /\ x # k => ~Get(x)'
      BY <3>1 DEF Get, Gone
    <3>4. QED BY <3>2, <3>3 DEF ComesBack
  <2>2. CASE agents' = Without({k})
    BY <1>5, <2>2 DEF Heartbeat, Without, ComesBack, Get, Gone
  <2>3. QED BY <1>5, <2>1, <2>2 DEF Heartbeat
<1>6. ASSUME NEW k \in Agent, HeartbeatLost(k) PROVE ComesBack
  BY <1>6 DEF HeartbeatLost, ComesBack, Get, Gone, registry, world, vars
<1>7. ASSUME NEW k \in Agent, StartWorker(k) PROVE ComesBack
  BY <1>7 DEF StartWorker, ComesBack, Get, Gone, registry, world, vars
<1>8. ASSUME NEW k \in Agent, StopWorker(k) PROVE ComesBack
  BY <1>8 DEF StopWorker, ComesBack, Get, Gone, registry, world, vars
<1>9. ASSUME NEW k \in Agent, Deregister(k) PROVE ComesBack
  BY <1>9 DEF Deregister, Without, Touch, ComesBack, Get, Gone, registry, world, vars
<1>10. ASSUME NEW k \in Agent, NEW s \in {"degraded", "unknown"}, PostStatus(k, s)
       PROVE  ComesBack
  BY <1>10
     DEF PostStatus, UpdateStatus, SetStatus, Without, Touch, ComesBack, Get, Gone, registry,
       world, vars
<1>11. ASSUME NEW k \in Agent, NEW a \in Addr, PatchAddr(k, a) PROVE ComesBack
  BY <1>11 DEF PatchAddr, Without, Touch, ComesBack, Get, Gone, registry, world, vars
<1>12. CASE Prune
  BY <1>12 DEF Prune, Without, ComesBack, Get, Gone, registry, world, vars
<1>13. CASE StartRound
  BY <1>13 DEF StartRound, Without, Resting, ComesBack, Get, Gone, registry, world, vars
<1>14. ASSUME NEW ref \in check.refs, ping(ref) PROVE ComesBack
  BY <1>14 DEF ping, ComesBack, Get, Gone, registry, world, vars
<1>15. CASE NoteResult
  BY <1>15 DEF NoteResult, ComesBack, Get, Gone, registry, world, vars
<1>16. CASE ApplyResult
  BY <1>16
     DEF ApplyResult, UpdateStatus, SetStatus, Without, ComesBack, Get, Gone, registry, world,
       vars
<1>17. CASE PublishResult
  BY <1>17 DEF PublishResult, ComesBack, Get, Gone, registry, world, vars
<1>18. CASE NextPing
  BY <1>18 DEF NextPing, ComesBack, Get, Gone, registry, world, vars
<1>19. CASE EndRound
  BY <1>19 DEF EndRound, Resting, ComesBack, Get, Gone, registry, world, vars
<1>20. ASSUME NEW a \in Addr, Flip(a) PROVE ComesBack
  BY <1>20 DEF Flip, ComesBack, Get, Gone, registry, world, vars
<1>21. ASSUME NEW t \in Tenant, NEW type \in {"job.created"}, Event(t, type) PROVE ComesBack
  BY <1>21 DEF Event, ComesBack, Get, Gone, registry, world, vars
<1>22. CASE Restart
  BY <1>22 DEF Restart, Resting, ComesBack, Get, Gone, registry, world, vars
<1>23. CASE Tick
  <2>1. now' = now + 1 /\ UNCHANGED agents
    BY <1>23 DEF Tick, registry
  <2>2. now \in Nat /\ \A x \in DOMAIN agents : agents[x].expires \in Nat
    BY DEF RegistryOK, Entry
  <2>3. QED BY <2>1, <2>2 DEF ComesBack, Get, Gone
<1>24. CASE UNCHANGED vars
  BY <1>24 DEF vars, ComesBack, Get, Gone, registry, world, vars
<1>25. QED
  BY <1>1, <1>2, <1>3, <1>4, <1>5, <1>6, <1>7, <1>8, <1>9, <1>10, <1>11, <1>12, <1>13, <1>14,
     <1>15, <1>16, <1>17, <1>18, <1>19, <1>20, <1>21, <1>22, <1>23, <1>24
     DEF Next

-----------------------------------------------------------------------------
(* The theorems. *)

AgentsInv ==
  /\ RulesOK /\ FlowOK /\ OnceOK /\ StoreMirrorsRules /\ FiresCounted
  /\ ReachOK /\ ReachesItsRules /\ HistoryOK
  /\ RegistryOK /\ CheckOK /\ RoundOK

\* Nothing has happened at the start.
LEMMA InitAgents == Init => AgentsInv
<1> SUFFICES ASSUME Init PROVE AgentsInv
  OBVIOUS
<1> USE DEF Init, NotifyInit
<1>1. RulesOK /\ StoreMirrorsRules
  BY DEF RulesOK, Rules, StoreMirrorsRules
<1>2. FlowOK
  BY FS_EmptySet, NotifyAssumption DEF FlowOK, NoWork, NotifyAssumption
<1>3. OnceOK /\ ReachOK /\ ReachesItsRules
  BY DEF OnceOK, ReachOK, ReachesItsRules, NoWork
<1>4. FiresCounted
  BY DEF FiresCounted
<1>5. RegistryOK
  BY DEF RegistryOK
<1>6. CheckOK
  <2>1. PICK no \in BOOLEAN :
          Resting = [step |-> "idle", refs |-> {}, done |-> {},
                     k |-> NoAddr, addr |-> NoAddr, ok |-> no]
    BY Zenon DEF Resting
  <2>2. check = Resting /\ DOMAIN results = {}
    OBVIOUS
  <2>3. QED BY <2>1, <2>2 DEF CheckOK
<1>7. RoundOK
  BY DEF RoundOK, Resting
<1>8. HistoryOK
  BY NotifyAssumption DEF HistoryOK, NotifyAssumption
<1>9. QED BY <1>1, <1>2, <1>3, <1>4, <1>5, <1>6, <1>7, <1>8 DEF AgentsInv

\* Every step keeps the invariant.
LEMMA NextAgents == AgentsInv /\ [Next]_vars => AgentsInv'
<1> SUFFICES ASSUME AgentsInv, [Next]_vars PROVE AgentsInv'
  OBVIOUS
<1>1. NotifyStep
  BY NotifyFrame DEF AgentsInv
<1>2. RulesOK' /\ FlowOK' /\ OnceOK'
  BY <1>1, RulesStep, FlowStep, OnceStep DEF AgentsInv
<1>3. StoreMirrorsRules' /\ FiresCounted'
  BY <1>1, MirrorStep, CountStep DEF AgentsInv
<1>4. ReachOK' /\ ReachesItsRules' /\ HistoryOK'
  BY <1>1, ReachStep, HistoryStep DEF AgentsInv
<1>5. RegistryOK' /\ CheckOK' /\ RoundOK'
  BY RegistryStep, CheckStep, RoundStep DEF AgentsInv
<1>6. QED BY <1>2, <1>3, <1>4, <1>5 DEF AgentsInv

\* FindBest finds an agent whenever there is one: of the liveliest status, one seen last.
LEMMA SomeoneIsBest ==
  ASSUME RegistryOK, NEW t \in Tenant, NEW c \in Capability
  PROVE  (FindBest(t, c) = {}) <=> (ListByCapability({t}, c) = {})
<1>1. PICK of : of = ListByCapability({t}, c)
  OBVIOUS
<1>2. FindBest(t, c) =
        {k \in of : \A o \in of :
           ~(\/ Rank[agents[o].status] > Rank[agents[k].status]
             \/ /\ Rank[agents[o].status] = Rank[agents[k].status]
                /\ agents[o].seen > agents[k].seen)}
  BY <1>1 DEF FindBest
<1>3. \A o \in of : agents[o] \in Entry /\ agents[o].seen <= now
  BY <1>1 DEF ListByCapability, List, RegistryOK
<1>4. ASSUME of # {} PROVE FindBest(t, c) # {}
  <2>1. PICK h \in Nat, d \in Nat, u \in Nat :
          h = Rank["healthy"] /\ d = Rank["degraded"] /\ u = Rank["unknown"]
    BY AgentsAssumption DEF AgentsAssumption, Status
  <2>2. \A o \in of : Rank[agents[o].status] \in 0 .. (h + d + u)
    <3>1. ASSUME NEW o \in of PROVE Rank[agents[o].status] \in 0 .. (h + d + u)
      <4>1. Rank[agents[o].status] \in {h, d, u}
        BY <1>3, <2>1 DEF Entry, Status
      <4>2. QED BY <4>1
    <3>2. QED BY <3>1
  <2>3. PICK m \in {Rank[agents[o].status] : o \in of} :
          \A r \in {Rank[agents[o].status] : o \in of} : r <= m
    <3>1. /\ {Rank[agents[o].status] : o \in of} \subseteq 0 .. (h + d + u)
          /\ {Rank[agents[o].status] : o \in of} # {} /\ h + d + u \in Nat
      BY <1>4, <2>2
    <3>2. QED BY <3>1, Greatest
  <2>4. PICK top : top = {o \in of : Rank[agents[o].status] = m}
    OBVIOUS
  <2>5. PICK s \in {agents[o].seen : o \in top} : \A r \in {agents[o].seen : o \in top} : r <= s
    <3>1. now \in Nat /\ \A o \in top : agents[o].seen \in Nat /\ agents[o].seen <= now
      BY <1>3, <2>4 DEF RegistryOK, Entry
    <3>2. {agents[o].seen : o \in top} \subseteq 0 .. now /\ {agents[o].seen : o \in top} # {}
      BY <2>3, <2>4, <3>1
    <3>3. QED BY <3>1, <3>2, Greatest
  <2>6. PICK k \in top : agents[k].seen = s
    BY <2>5
  <2>7. ASSUME NEW o \in of
        PROVE  ~(\/ Rank[agents[o].status] > Rank[agents[k].status]
                 \/ /\ Rank[agents[o].status] = Rank[agents[k].status]
                    /\ agents[o].seen > agents[k].seen)
    <3>1. Rank[agents[k].status] = m /\ Rank[agents[o].status] <= m
      BY <2>3, <2>4, <2>6
    <3>2. Rank[agents[o].status] = m => agents[o].seen <= s
      BY <2>4, <2>5
    <3>3. /\ Rank[agents[o].status] \in Int /\ agents[o].seen \in Int
          /\ m \in Int /\ s \in Int
      BY <1>3, <2>2, <2>3, <2>4, <2>5 DEF Entry
    <3>4. QED BY <2>6, <3>1, <3>2, <3>3
  <2>8. QED BY <1>2, <2>4, <2>7
<1>5. QED BY <1>1, <1>2, <1>4

\* The invariant makes the registry current.
LEMMA InvRegistry == AgentsInv => RegistryIsCurrent
<1> SUFFICES ASSUME AgentsInv PROVE RegistryIsCurrent
  OBVIOUS
<1> USE DEF AgentsInv
<1>1. TypeOK
  BY DEF TypeOK, RegistryOK, CheckOK, FlowOK, RulesOK, Entry
<1>2. ASSUME NEW t \in Tenant
      PROVE  /\ \A k \in List({t}) : now <= beat[k] + TTL
             /\ CountByTenant(t) = Cardinality(List({t}))
             /\ \A c \in Capability :
                  /\ FindBest(t, c) \subseteq List({t})
                  /\ (FindBest(t, c) = {}) <=> (ListByCapability({t}, c) = {})
  <2>1. \A k \in List({t}) : now <= beat[k] + TTL
    BY DEF List, Gone, RegistryOK, Entry
  <2>2. {k \in DOMAIN agents : TenantOf[k] = t /\ now <= agents[k].expires} = List({t})
    BY DEF List, Gone, RegistryOK, Entry
  <2>3. CountByTenant(t) = Cardinality(List({t}))
    BY <2>2 DEF CountByTenant
  <2>4. \A c \in Capability : FindBest(t, c) \subseteq List({t})
    BY DEF FindBest, ListByCapability
  <2>5. QED BY <2>1, <2>3, <2>4, SomeoneIsBest
<1>3. ListsAlive
  BY <1>2 DEF ListsAlive
<1>4. VerdictIsCurrent
  BY DEF VerdictIsCurrent, RoundOK, Judged, List
<1>5. QED BY <1>1, <1>3, <1>4 DEF RegistryIsCurrent

\* It makes the rules exact.
LEMMA InvRules == AgentsInv => RulesAreExact
<1> SUFFICES ASSUME AgentsInv PROVE RulesAreExact
  OBVIOUS
<1>1. ASSUME NEW r \in ids \cup DOMAIN stored \cup {f.rule : f \in fires} PROVE r <= counter
  <2>1. r \in DOMAIN heap
    BY <1>1 DEF AgentsInv, RulesOK, FlowOK
  <2>2. QED BY <2>1 DEF AgentsInv, RulesOK
<1>2. QED BY <1>1 DEF AgentsInv, RulesAreExact, NextIdIsFree

\* The invariant holds in every reachable state.
THEOREM AgentsInvAlways == Spec => []AgentsInv
BY InitAgents, NextAgents, PTL DEF Spec

\* Every list holds agents that were heard of within their TTL, the count and FindBest agree
\* with it, and an agent left alone during a round has the verdict on the address it has.
THEOREM RegistryStaysCurrent == Spec => []RegistryIsCurrent
BY AgentsInvAlways, InvRegistry, PTL

\* An agent whose time is over, or that was removed, comes back by registering only.
THEOREM ComesBackAlways == Spec => ComesBackByRegistering
<1>1. AgentsInv /\ [Next]_vars =>
        [\A k \in Agent : (~Get(k) /\ Get(k)') => worker[k] \in {"register", "again"}]_vars
  BY ComesBackStep DEF AgentsInv, ComesBack
<1>2. QED BY <1>1, AgentsInvAlways, PTL DEF Spec, ComesBackByRegistering

\* Bucket and memory agree on every rule and on how often it fired; a new id is free.
THEOREM RulesStayExact == Spec => []RulesAreExact
BY AgentsInvAlways, InvRules, PTL

\* The history is the end of what was published, however often the ring has wrapped; an event
\* that the broker could queue reaches every rule that was active and matching from its
\* publication on, and no rule that was not active, or not matching, at any moment since.
THEOREM EventsReachTheirRules == Spec => []EventsArrive
<1>1. AgentsInv => EventsArrive
  BY HistoryFacts DEF AgentsInv, EventsArrive
<1>2. QED BY <1>1, AgentsInvAlways, PTL

============================================================================
