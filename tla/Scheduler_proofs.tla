-------------------------- MODULE Scheduler_proofs --------------------------
(***************************************************************************)
(* Proofs about the scheduler, for every value of the constants: an active *)
(* schedule has one goroutine, a stopped one submits at most once more for *)
(* each goroutine it had, bucket and memory agree for the tenants whose    *)
(* writes succeed, and no submission of theirs goes uncounted but those    *)
(* that a crash cuts off.                                                  *)
(***************************************************************************)
EXTENDS Scheduler, FiniteSetTheorems, TLAPS

-----------------------------------------------------------------------------
(* Sets of goroutines. *)

\* Goroutines are finitely many, and so are those of a schedule.
LEMMA LoopSets ==
  ASSUME NEW S \in SUBSET Loop
  PROVE  /\ IsFiniteSet(S) /\ Cardinality(S) \in Nat
         /\ \A T \in SUBSET S : Cardinality(T) <= Cardinality(S)
         /\ \A x : Cardinality(S \cup {x}) <= Cardinality(S) + 1
         /\ \A x \in S : Cardinality(S \ {x}) = Cardinality(S) - 1
<1>1. IsFiniteSet(S) /\ Cardinality(S) \in Nat
  BY SchedulerAssumption, FS_Subset, FS_CardinalityType
<1>2. \A T \in SUBSET S : Cardinality(T) <= Cardinality(S)
  BY <1>1, FS_Subset
<1>3. \A x : Cardinality(S \cup {x}) <= Cardinality(S) + 1
  BY <1>1, FS_AddElement
<1>4. \A x \in S : Cardinality(S \ {x}) = Cardinality(S) - 1
  BY <1>1, FS_RemoveElement
<1>5. QED
  BY <1>1, <1>2, <1>3, <1>4

\* A finite set that is not larger than another one has an injection into it.
LEMMA InjectionExists ==
  ASSUME NEW S, NEW T, IsFiniteSet(S), IsFiniteSet(T), Cardinality(S) <= Cardinality(T)
  PROVE  \E w \in [S -> T] : \A x, y \in S : x # y => w[x] # w[y]
<1> DEFINE m == Cardinality(S)
           n == Cardinality(T)
<1>1. m \in Nat /\ n \in Nat /\ ExistsBijection(1..m, S) /\ ExistsBijection(1..n, T)
  BY FS_CardinalityType
<1> HIDE DEF m, n
<1>2. PICK f \in Bijection(1..m, S) : TRUE
  BY <1>1 DEF ExistsBijection
<1>3. PICK g \in Bijection(1..n, T) : TRUE
  BY <1>1 DEF ExistsBijection
<1>4. /\ \A x \in S : \E k \in 1..m : f[k] = x
      /\ g \in [1..n -> T]
      /\ \A j, k \in 1..n : g[j] = g[k] => j = k
  BY <1>2, <1>3 DEF Bijection, Injection, Surjection, IsInjective
<1>5. m <= n
  BY DEF m, n
<1> DEFINE num(x) == CHOOSE k \in 1..m : f[k] = x
           w == [x \in S |-> g[num(x)]]
<1>6. \A x \in S : num(x) \in 1..m /\ f[num(x)] = x
  BY <1>4
<1> HIDE DEF num
<1>7. \A x \in S : num(x) \in 1..n
  BY <1>1, <1>5, <1>6
<1>8. w \in [S -> T]
  BY <1>4, <1>7
<1>9. ASSUME NEW x \in S, NEW y \in S, x # y PROVE w[x] # w[y]
  <2>1. num(x) # num(y)
    BY <1>6, <1>9
  <2>2. w[x] = g[num(x)] /\ w[y] = g[num(y)]
    OBVIOUS
  <2>3. QED
    BY <1>4, <1>7, <2>1, <2>2
<1>10. QED
  BY <1>8, <1>9

-----------------------------------------------------------------------------
(* What the steps do. *)

\* A new goroutine takes a free name.
LEMMA NewLoopIsFree ==
  ASSUME \E l \in Loop : Free(l)
  PROVE  NewLoop \in Loop /\ Free(NewLoop)
  BY DEF NewLoop

\* A write to the bucket changes one key or, when it fails, none.
LEMMA WriteEffect ==
  ASSUME TypeOK, NEW t \in Tenant, NEW i \in SchedId, NEW v \in Sched \cup {NoSched},
         Write(t, i, v)
  PROVE  /\ stored' \in [Tenant -> [SchedId -> Sched \cup {NoSched}]]
         /\ \A u \in Tenant, k \in SchedId :
              \/ stored'[u][k] = stored[u][k]
              \/ u = t /\ k = i /\ stored'[u][k] = v
         /\ t \notin Flaky => stored'[t][i] = v
<1>1. stored \in [Tenant -> [SchedId -> Sched \cup {NoSched}]]
  BY DEF TypeOK
<1>2. CASE stored' = [stored EXCEPT ![t][i] = v]
  BY <1>1, <1>2
<1>3. CASE t \in Flaky /\ stored' = stored
  BY <1>1, <1>3
<1>4. QED
  BY <1>2, <1>3 DEF Write

\* LoadFromStore arms every active schedule of the tenant, each in a goroutine of its own.
Armed(t) == {i \in SchedId : stored[t][i] # NoSched /\ stored[t][i].active}

\* Each restored schedule gets a goroutine that was free, no two the same.
LEMMA LoadEffect ==
  ASSUME NEW t \in Tenant, LoadFromStore(t)
  PROVE  \E w \in [Armed(t) -> {l \in Loop : Free(l)}] :
           /\ \A i, k \in Armed(t) : i # k => w[i] # w[k]
           /\ entries' = [i \in SchedId |->
                IF stored[t][i] = NoSched THEN entries[i]
                ELSE [s |-> stored[t][i], loop |-> IF i \in Armed(t) THEN w[i] ELSE NoLoop]]
           /\ loops' = [l \in Loop |-> loops'[l]]
           /\ \A l \in Loop :
                \/ \E i \in Armed(t) : w[i] = l /\ loops'[l] = Running(i)
                \/ (\A i \in Armed(t) : w[i] # l) /\ loops'[l] = loops[l]
           /\ starts' = [i \in SchedId |-> starts[i] + IF i \in Armed(t) THEN 1 ELSE 0]
<1> DEFINE ids == {i \in SchedId : stored[t][i] # NoSched}
           on  == {i \in ids : stored[t][i].active}
           free == {l \in Loop : Free(l)}
           inj(w) == \A i, k \in on : i # k => w[i] # w[k]
           where == CHOOSE w \in [on -> free] : inj(w)
<1>1. on = Armed(t)
  BY DEF Armed
<1>2. /\ Cardinality(on) <= Cardinality(free)
      /\ entries' = [i \in SchedId |->
           IF i \notin ids THEN entries[i]
           ELSE [s |-> stored[t][i], loop |-> IF i \in on THEN where[i] ELSE NoLoop]]
      /\ loops' = [l \in Loop |->
           IF \E i \in on : where[i] = l
             THEN Running(CHOOSE i \in on : where[i] = l) ELSE loops[l]]
      /\ starts' = [i \in SchedId |-> starts[i] + IF i \in on THEN 1 ELSE 0]
  BY DEF LoadFromStore
<1>3. IsFiniteSet(on) /\ IsFiniteSet(free)
  <2>1. IsFiniteSet(SchedId)
    BY SchedulerAssumption, FS_Interval DEF SchedId
  <2>2. on \in SUBSET SchedId /\ free \in SUBSET Loop
    OBVIOUS
  <2> HIDE DEF on, free
  <2>3. QED
    BY <2>1, <2>2, SchedulerAssumption, FS_Subset
<1>4. \E w \in [on -> free] : inj(w)
  <2> HIDE DEF on, free
  <2>1. \E w \in [on -> free] : \A x, y \in on : x # y => w[x] # w[y]
    BY <1>2, <1>3, InjectionExists
  <2>2. QED
    BY <2>1
<1>5. where \in [on -> free] /\ inj(where)
  <2> HIDE DEF inj
  <2>1. QED
    BY <1>4
<1> HIDE DEF where
<1>6. \A l \in Loop :
        \/ \E i \in on : where[i] = l /\ loops'[l] = Running(i)
        \/ (\A i \in on : where[i] # l) /\ loops'[l] = loops[l]
  <2> SUFFICES ASSUME NEW l \in Loop, NEW k \in on, where[k] = l
               PROVE  \E i \in on : where[i] = l /\ loops'[l] = Running(i)
    BY <1>2
  <2> DEFINE c == CHOOSE i \in on : where[i] = l
  <2>1. c \in on /\ where[c] = l
    OBVIOUS
  <2>2. loops'[l] = Running(c)
    BY <1>2
  <2> HIDE DEF c
  <2>3. QED
    BY <2>1, <2>2
<1>7. entries' = [i \in SchedId |->
                IF stored[t][i] = NoSched THEN entries[i]
                ELSE [s |-> stored[t][i], loop |-> IF i \in on THEN where[i] ELSE NoLoop]]
  <2>1. \A i \in SchedId : i \notin ids <=> stored[t][i] = NoSched
    OBVIOUS
  <2> HIDE DEF ids, on
  <2>2. QED
    BY <1>2, <2>1
<1>8. loops' = [l \in Loop |-> loops'[l]]
  BY <1>2
<1> HIDE DEF on, free
<1>9. QED
  BY <1>1, <1>2, <1>5, <1>6, <1>7, <1>8 DEF free

-----------------------------------------------------------------------------
(* Types and numbers.  A number is given to one tenant's schedule at a time, and a  *)
(* goroutine has a number that was given out.  As long as tenants are being loaded,  *)
(* nobody deletes: a goroutine has its schedule then.                                *)

Numbers ==
  /\ \A t \in Tenant, i \in SchedId : stored[t][i] # NoSched =>
       /\ stored[t][i].tenant = t
       /\ entries[i] # NoSched => entries[i].s.tenant = t
       /\ \A u \in Tenant : stored[u][i] # NoSched => u = t
       /\ t \in loaded => i <= counter
  /\ \A i \in SchedId : entries[i] # NoSched =>
       i <= counter /\ entries[i].s.tenant \in loaded
  /\ \A l \in Loop : ~Free(l) =>
       /\ loops[l].id <= counter
       /\ loaded # Tenant => entries[loops[l].id] # NoSched

\* The schedule with number i of tenant t becomes v, in memory and in the bucket.
Put(t, i, v) ==
  /\ \A k \in SchedId : k # i => entries'[k] = entries[k]
  /\ entries'[i] = NoSched <=> v = NoSched
  /\ v # NoSched => entries'[i].s = v /\ v.tenant = t
  /\ Write(t, i, v)
  /\ loaded' = loaded /\ t \in loaded
  /\ \/ entries[i] # NoSched /\ entries[i].s.tenant = t /\ counter' = counter
     \/ i = counter + 1 /\ counter' = i /\ loaded = Tenant

\* Numbers and mirror of the schedules stay right when one is put.
LEMMA PutKeeps ==
  ASSUME TypeOK, TypeOK', Numbers, StoreMirrorsSchedules,
         NEW t \in Tenant, NEW i \in SchedId, NEW v \in Sched \cup {NoSched}, Put(t, i, v),
         v = NoSched => loaded = Tenant,
         \A l \in Loop : ~Free(l)' => loops'[l].id = i \/ (~Free(l) /\ loops'[l].id = loops[l].id)
  PROVE  Numbers' /\ StoreMirrorsSchedules'
<1>1. /\ \A u \in Tenant, k \in SchedId :
           stored'[u][k] = stored[u][k] \/ (u = t /\ k = i /\ stored'[u][k] = v)
      /\ t \notin Flaky => stored'[t][i] = v
  <2>1. Write(t, i, v)
    BY DEF Put
  <2>2. QED
    BY <2>1, WriteEffect
<1>2. /\ counter \in Nat /\ counter' \in Nat /\ counter <= counter' /\ i <= counter'
      /\ loaded \subseteq Tenant /\ i \in Nat /\ t \in loaded /\ loaded' = loaded
  BY DEF Put, TypeOK, Numbers, SchedId
<1>3. \A k \in SchedId : k <= counter => k <= counter'
  BY <1>2 DEF SchedId
<1>4. \A u \in Tenant : stored[u][i] # NoSched => u = t
  <2>1. CASE entries[i] # NoSched /\ entries[i].s.tenant = t
    BY <2>1 DEF Numbers
  <2>2. CASE i = counter + 1 /\ loaded = Tenant
    <3>1. ~(i <= counter)
      BY <1>2, <2>2
    <3>2. QED
      BY <2>2, <3>1 DEF Numbers
  <2>3. QED
    BY <2>1, <2>2 DEF Put
<1>5. ASSUME NEW u \in Tenant, NEW k \in SchedId, stored'[u][k] # NoSched
      PROVE  /\ stored'[u][k].tenant = u
             /\ entries'[k] # NoSched => entries'[k].s.tenant = u
             /\ \A x \in Tenant : stored'[x][k] # NoSched => x = u
             /\ u \in loaded' => k <= counter'
  <2>1. CASE k # i
    <3>1. stored'[u][k] = stored[u][k] /\ entries'[k] = entries[k]
      BY <1>1, <2>1 DEF Put
    <3>2. \A x \in Tenant : stored'[x][k] = stored[x][k]
      BY <1>1, <2>1
    <3>3. /\ stored[u][k].tenant = u
          /\ entries[k] # NoSched => entries[k].s.tenant = u
          /\ \A x \in Tenant : stored[x][k] # NoSched => x = u
          /\ u \in loaded => k <= counter
      BY <1>5, <3>1 DEF Numbers
    <3>4. QED
      BY <1>2, <1>3, <3>1, <3>2, <3>3
  <2>2. CASE k = i
    <3>1. u = t /\ \A x \in Tenant : stored'[x][k] # NoSched => x = t
      BY <1>1, <1>4, <1>5, <2>2
    <3>2. stored'[t][i].tenant = t
      <4>1. stored'[t][i] = stored[t][i] \/ stored'[t][i] = v
        BY <1>1
      <4>2. QED
        BY <1>5, <2>2, <3>1, <4>1 DEF Numbers, Put
    <3>3. entries'[i] # NoSched => entries'[i].s.tenant = t
      BY DEF Put
    <3>4. QED
      BY <1>2, <2>2, <3>1, <3>2, <3>3
  <2>3. QED
    BY <2>1, <2>2
<1>6. ASSUME NEW k \in SchedId, entries'[k] # NoSched
      PROVE  k <= counter' /\ entries'[k].s.tenant \in loaded'
  <2>1. CASE k # i
    BY <1>2, <1>3, <1>6, <2>1 DEF Put, Numbers
  <2>2. CASE k = i
    BY <1>2, <1>6, <2>2 DEF Put
  <2>3. QED
    BY <2>1, <2>2
<1>7. ASSUME NEW l \in Loop, ~Free(l)'
      PROVE  /\ loops'[l].id <= counter'
             /\ loaded' # Tenant => entries'[loops'[l].id] # NoSched
  <2>1. CASE loops'[l].id = i
    BY <1>2, <2>1 DEF Put
  <2>2. CASE loops'[l].id # i
    <3>1. ~Free(l) /\ loops'[l].id = loops[l].id /\ loops[l].id \in SchedId
      BY <1>7, <2>2 DEF TypeOK, LoopState
    <3>2. loops[l].id <= counter /\ (loaded # Tenant => entries[loops[l].id] # NoSched)
      BY <3>1 DEF Numbers
    <3>3. QED
      BY <1>2, <1>3, <2>2, <3>1, <3>2 DEF Put
  <2>3. QED
    BY <2>1, <2>2
<1>8. Numbers'
  BY <1>5, <1>6, <1>7 DEF Numbers
<1>9. StoreMirrorsSchedules'
  <2> SUFFICES ASSUME NEW u \in loaded \cap Reliable, NEW k \in SchedId
               PROVE  stored'[u][k] = IF entries'[k] # NoSched /\ entries'[k].s.tenant = u
                                        THEN entries'[k].s ELSE NoSched
    BY <1>2 DEF StoreMirrorsSchedules
  <2>0. stored[u][k] = IF entries[k] # NoSched /\ entries[k].s.tenant = u
                         THEN entries[k].s ELSE NoSched
    BY DEF StoreMirrorsSchedules
  <2>1. CASE k # i
    BY <1>1, <2>0, <2>1 DEF Put, Reliable
  <2>2. CASE k = i /\ u = t
    BY <1>1, <2>2 DEF Put, Reliable
  <2>3. CASE k = i /\ u # t
    <3>1. stored'[u][k] = NoSched
      BY <1>1, <1>4, <2>3 DEF Reliable
    <3>2. entries'[i] # NoSched => entries'[i].s.tenant = t
      BY DEF Put
    <3>3. QED
      BY <2>3, <3>1, <3>2
  <2>4. QED
    BY <2>1, <2>2, <2>3
<1>10. QED
  BY <1>8, <1>9

-----------------------------------------------------------------------------
(* Goroutines and counts. *)

\* The goroutine that is not cancelled is the one an active entry can cancel.
OneLoop ==
  \A i \in SchedId :
    /\ entries[i] # NoSched => entries[i].loop \in IF Active(i) THEN Loop ELSE {NoLoop}
    /\ \A l \in Loop : (~Free(l) /\ loops[l].live /\ loops[l].id = i)
                         <=> (Active(i) /\ l = entries[i].loop)

\* The goroutines of schedule i, those about to submit, those not about to count.
Of(i) == {l \in Loop : ~Free(l) /\ loops[l].id = i}
Submitting(i) == {l \in Loop : loops[l].at = "submit" /\ loops[l].id = i}
NotCounting(i) == {l \in Loop : loops[l].at \in {"wait", "submit"} /\ loops[l].id = i}

\* Every goroutine was started, and each of them can be late once.
LateInv ==
  \A i \in SchedId :
    /\ late[i] <= starts[i]
    /\ Cardinality(Of(i)) <= starts[i]
    /\ ~Active(i) => late[i] + Cardinality(Submitting(i)) <= starts[i]

\* A goroutine owes a count only between submission and count, or when it was cut off.
RunInv ==
  \A t \in Reliable, i \in SchedId : stored[t][i] # NoSched =>
    submitted[i] + Cardinality(NotCounting(i)) <= stored[t][i].runs + starts[i]

Inv == TypeOK /\ Numbers /\ StoreMirrorsSchedules /\ OneLoop /\ LateInv /\ RunInv

\* The three sets and their sizes.
LEMMA SetSizes ==
  ASSUME NEW i
  PROVE  /\ Of(i) \in SUBSET Loop /\ Submitting(i) \in SUBSET Of(i)
         /\ NotCounting(i) \in SUBSET Of(i)
         /\ Cardinality(Of(i)) \in Nat /\ Cardinality(Submitting(i)) \in Nat
         /\ Cardinality(NotCounting(i)) \in Nat
         /\ Cardinality(Submitting(i)) <= Cardinality(Of(i))
         /\ Cardinality(NotCounting(i)) <= Cardinality(Of(i))
<1>1. /\ Of(i) \in SUBSET Loop /\ Submitting(i) \in SUBSET Of(i)
      /\ NotCounting(i) \in SUBSET Of(i)
  BY DEF Of, Submitting, NotCounting, Free
<1>2. Submitting(i) \in SUBSET Loop /\ NotCounting(i) \in SUBSET Loop
  BY <1>1
<1>3. QED
  BY <1>1, <1>2, LoopSets

\* A step that starts at most goroutine l for schedule i and moves none of its others.
StartsAtMost(i, n, l) ==
  \A k \in Loop : ~Free(k)' /\ loops'[k].id = i =>
    \/ k = l /\ n = 1 /\ loops'[k].at = "wait"
    \/ ~Free(k) /\ loops[k].id = i /\ loops'[k].at = loops[k].at

\* Such a step adds at most one goroutine to each count.
LEMMA CountsGrow ==
  ASSUME NEW i \in SchedId, NEW n \in {0, 1}, NEW l \in Loop, StartsAtMost(i, n, l)
  PROVE  /\ Cardinality(Of(i)') <= Cardinality(Of(i)) + n
         /\ Cardinality(Submitting(i)') <= Cardinality(Submitting(i))
         /\ Cardinality(NotCounting(i)') <= Cardinality(NotCounting(i)) + n
<1>1. /\ Of(i) \in SUBSET Loop /\ Submitting(i) \in SUBSET Loop
      /\ NotCounting(i) \in SUBSET Loop
  BY DEF Of, Submitting, NotCounting
<1>2. ASSUME NEW S \in SUBSET Loop, NEW T,
             T \in SUBSET (S \cup {l}) /\ (n = 0 => T \in SUBSET S)
      PROVE  Cardinality(T) <= Cardinality(S) + n
  <2>1. Cardinality(S) \in Nat /\ Cardinality(S \cup {l}) <= Cardinality(S) + 1
    BY LoopSets
  <2>2. S \cup {l} \in SUBSET Loop
    OBVIOUS
  <2>3. Cardinality(T) <= Cardinality(S \cup {l}) /\ Cardinality(S \cup {l}) \in Nat
    BY <1>2, <2>2, LoopSets
  <2>4. T \in SUBSET Loop
    BY <1>2
  <2>5. Cardinality(T) \in Nat
    BY <2>4, LoopSets
  <2>6. CASE n = 1
    BY <2>1, <2>3, <2>5, <2>6
  <2>7. CASE n = 0
    <3>1. Cardinality(T) <= Cardinality(S)
      BY <1>2, <2>7, LoopSets
    <3>2. QED
      BY <2>1, <2>7, <3>1
  <2>8. QED
    BY <2>6, <2>7
<1>3. Cardinality(Of(i)') <= Cardinality(Of(i)) + n
  <2>1. Of(i)' \in SUBSET (Of(i) \cup {l}) /\ (n = 0 => Of(i)' \in SUBSET Of(i))
    BY DEF Of, StartsAtMost
  <2>2. QED
    BY <1>1, <1>2, <2>1
<1>4. Cardinality(NotCounting(i)') <= Cardinality(NotCounting(i)) + n
  <2>1. /\ NotCounting(i)' \in SUBSET (NotCounting(i) \cup {l})
        /\ n = 0 => NotCounting(i)' \in SUBSET NotCounting(i)
    BY DEF NotCounting, StartsAtMost, Free
  <2>2. QED
    BY <1>1, <1>2, <2>1
<1>5. Cardinality(Submitting(i)') <= Cardinality(Submitting(i))
  <2>1. Submitting(i)' \in SUBSET Submitting(i)
    BY DEF Submitting, StartsAtMost, Free
  <2>2. QED
    BY <1>1, <2>1, LoopSets
<1>6. QED
  BY <1>3, <1>4, <1>5

\* The counts of schedule i when it is started n times, or stopped.
CountsOk(i) ==
  /\ late[i] <= starts[i]
  /\ Cardinality(Of(i)) <= starts[i]
  /\ ~Active(i) => late[i] + Cardinality(Submitting(i)) <= starts[i]
  /\ \A t \in Reliable : stored[t][i] # NoSched =>
       submitted[i] + Cardinality(NotCounting(i)) <= stored[t][i].runs + starts[i]

\* A step that is counted as a start, or stops the schedule, keeps its counts.
LEMMA CountsKeep ==
  ASSUME TypeOK, NEW i \in SchedId, NEW n \in {0, 1}, NEW l \in Loop, CountsOk(i),
         StartsAtMost(i, n, l), starts'[i] = starts[i] + n, submitted'[i] = submitted[i],
         late'[i] \in {0, late[i]},
         ~Active(i)' => ~Active(i) \/ late'[i] = 0,
         \A t \in Reliable : stored'[t][i] # NoSched =>
           stored[t][i] # NoSched /\ stored'[t][i].runs = stored[t][i].runs
  PROVE  CountsOk(i)'
<1>1. /\ Cardinality(Of(i)') <= Cardinality(Of(i)) + n
      /\ Cardinality(Submitting(i)') <= Cardinality(Submitting(i))
      /\ Cardinality(NotCounting(i)') <= Cardinality(NotCounting(i)) + n
  BY CountsGrow
<1>2. /\ Cardinality(Of(i)) \in Nat /\ Cardinality(Submitting(i)) \in Nat
      /\ Cardinality(NotCounting(i)) \in Nat
      /\ Cardinality(Submitting(i)) <= Cardinality(Of(i))
  BY SetSizes
<1>3. /\ Cardinality(Of(i)') \in Nat /\ Cardinality(Submitting(i)') \in Nat
      /\ Cardinality(NotCounting(i)') \in Nat
  <2>1. /\ Of(i)' \in SUBSET Loop /\ Submitting(i)' \in SUBSET Loop
        /\ NotCounting(i)' \in SUBSET Loop
    BY DEF Of, Submitting, NotCounting
  <2>2. QED
    BY <2>1, LoopSets
<1>4. late[i] \in Nat /\ starts[i] \in Nat /\ submitted[i] \in Nat
  BY DEF TypeOK
<1>5. late'[i] <= starts'[i] /\ Cardinality(Of(i)') <= starts'[i]
  BY <1>1, <1>2, <1>3, <1>4 DEF CountsOk
<1>6. ASSUME ~Active(i)' PROVE late'[i] + Cardinality(Submitting(i)') <= starts'[i]
  <2>1. CASE late'[i] = 0
    BY <1>1, <1>2, <1>3, <1>4, <2>1 DEF CountsOk
  <2>2. CASE late'[i] = late[i] /\ ~Active(i)
    BY <1>1, <1>2, <1>3, <1>4, <2>2 DEF CountsOk
  <2>3. QED
    BY <1>6, <2>1, <2>2
<1>7. ASSUME NEW t \in Reliable, stored'[t][i] # NoSched
      PROVE  submitted'[i] + Cardinality(NotCounting(i)') <= stored'[t][i].runs + starts'[i]
  <2>1. /\ stored[t][i] # NoSched /\ stored'[t][i].runs = stored[t][i].runs
        /\ submitted[i] + Cardinality(NotCounting(i)) <= stored[t][i].runs + starts[i]
    BY <1>7 DEF CountsOk
  <2>2. stored[t][i] \in Sched
    BY <2>1 DEF TypeOK, Reliable
  <2>3. stored[t][i].runs \in Nat
    BY <2>2 DEF Sched
  <2>4. QED
    BY <1>1, <1>2, <1>3, <1>4, <2>1, <2>3
<1>8. QED
  BY <1>5, <1>6, <1>7 DEF CountsOk

\* The two invariants together speak of one schedule at a time.
LEMMA Counts == LateInv /\ RunInv <=> \A i \in SchedId : CountsOk(i)
  BY DEF LateInv, RunInv, CountsOk

-----------------------------------------------------------------------------
(* One lemma for each action. *)

\* POST /schedules: a new number, a new goroutine, counts from zero.
LEMMA AddStep ==
  ASSUME Inv, NEW t \in Tenant, NEW x \in Target, Add(t, x)
  PROVE  Inv'
<1>0. TypeOK /\ Numbers /\ StoreMirrorsSchedules /\ OneLoop /\ LateInv /\ RunInv
  BY DEF Inv
<1>1. PICK i \in SchedId : i = counter + 1
  <2>1. counter \in Nat /\ counter < MaxSched /\ MaxSched \in Nat
    BY <1>0, SchedulerAssumption DEF Add, TypeOK
  <2>2. QED
    BY <2>1 DEF SchedId
<1>2. PICK l \in Loop : l = NewLoop /\ Free(l)
  BY NewLoopIsFree DEF Add
<1>3. PICK s : s = [tenant |-> t, target |-> x, active |-> TRUE, runs |-> 0]
  OBVIOUS
<1>4. s \in Sched /\ s # NoSched /\ s.tenant = t /\ s.active = TRUE /\ s.runs = 0
  <2>1. s \in Sched /\ s.tenant = t /\ s.active = TRUE /\ s.runs = 0
    BY <1>3 DEF Sched
  <2>2. QED
    BY <2>1, SchedulerAssumption
<1>5. PICK e : e = [s |-> s, loop |-> l]
  OBVIOUS
<1>6. e \in Entry /\ e # NoSched /\ e.s = s /\ e.loop = l
  BY <1>4, <1>5, SchedulerAssumption DEF Entry
<1>7. /\ loaded = Tenant /\ counter' = i
      /\ entries' = [entries EXCEPT ![i] = e]
      /\ Write(t, i, s)
      /\ loops' = [loops EXCEPT ![l] = Running(i)]
      /\ starts' = [starts EXCEPT ![i] = 1]
      /\ submitted' = [submitted EXCEPT ![i] = 0]
      /\ late' = [late EXCEPT ![i] = 0]
      /\ UNCHANGED <<loaded, updates, crashes>>
  BY <1>1, <1>2, <1>3, <1>5 DEF Add, Serving
<1>8. /\ Running(i) \in LoopState /\ Running(i).id = i /\ Running(i).at = "wait"
      /\ Running(i).live = TRUE
  BY DEF Running, LoopState
<1>9. /\ loops'[l] = Running(i) /\ \A k \in Loop : k # l => loops'[k] = loops[k]
      /\ entries'[i] = e /\ \A k \in SchedId : k # i => entries'[k] = entries[k]
  BY <1>0, <1>7 DEF TypeOK
<1>10. /\ starts'[i] = 1 /\ submitted'[i] = 0 /\ late'[i] = 0
       /\ \A k \in SchedId : k # i => /\ starts'[k] = starts[k] /\ late'[k] = late[k]
                                      /\ submitted'[k] = submitted[k]
  BY <1>0, <1>7 DEF TypeOK
<1>11. /\ stored' \in [Tenant -> [SchedId -> Sched \cup {NoSched}]]
       /\ \A u \in Tenant, k \in SchedId :
            stored'[u][k] = stored[u][k] \/ (u = t /\ k = i /\ stored'[u][k] = s)
  BY <1>0, <1>4, <1>7, WriteEffect
<1>12. TypeOK'
  <2>1. entries' \in [SchedId -> Entry \cup {NoSched}] /\ loops' \in [Loop -> LoopState]
    BY <1>0, <1>6, <1>7, <1>8 DEF TypeOK
  <2>2. counter' \in 0..MaxSched
    BY <1>7 DEF SchedId
  <2>3. submitted' \in [SchedId -> Nat] /\ late' \in [SchedId -> Nat] /\ starts' \in [SchedId -> Nat]
    BY <1>0, <1>7 DEF TypeOK
  <2>4. QED
    BY <1>0, <1>7, <1>11, <2>1, <2>2, <2>3 DEF TypeOK
<1>13. Numbers' /\ StoreMirrorsSchedules'
  <2>1. Put(t, i, s)
    BY <1>1, <1>4, <1>6, <1>7, <1>9 DEF Put
  <2>2. \A k \in Loop : ~Free(k)' => loops'[k].id = i \/ (~Free(k) /\ loops'[k].id = loops[k].id)
    BY <1>8, <1>9 DEF Free
  <2>3. QED
    BY <1>0, <1>4, <1>12, <2>1, <2>2, PutKeeps
\* Nothing has this number yet.
<1>14. \A k \in Loop : ~Free(k) => loops[k].id # i
  <2>1. \A k \in Loop : loops[k].id \in SchedId
    BY <1>0 DEF TypeOK, LoopState
  <2>2. QED
    BY <1>0, <1>1, <2>1 DEF Numbers, TypeOK, SchedId
<1>15. \A k \in SchedId : Active(k)' <=> (k = i \/ Active(k))
  BY <1>4, <1>6, <1>9 DEF Active
<1>16. OneLoop'
  <2> SUFFICES ASSUME NEW k \in SchedId
               PROVE  /\ entries'[k] # NoSched =>
                           entries'[k].loop \in IF Active(k)' THEN Loop ELSE {NoLoop}
                      /\ \A m \in Loop : (~Free(m)' /\ loops'[m].live /\ loops'[m].id = k)
                                           <=> (Active(k)' /\ m = entries'[k].loop)
    BY DEF OneLoop
  <2>1. CASE k = i
    BY <1>6, <1>8, <1>9, <1>14, <1>15, <2>1 DEF Free
  <2>2. CASE k # i
    <3>1. entries'[k] = entries[k] /\ (Active(k)' <=> Active(k))
      BY <1>9, <1>15, <2>2
    <3>2. Active(k) => entries[k].loop # l
      BY <1>0, <1>2 DEF OneLoop
    <3>3. \A m \in Loop : (~Free(m)' /\ loops'[m].live /\ loops'[m].id = k)
                            <=> (~Free(m) /\ loops[m].live /\ loops[m].id = k)
      BY <1>2, <1>8, <1>9, <2>2 DEF Free
    <3>4. QED
      BY <1>0, <3>1, <3>3 DEF OneLoop
  <2>3. QED
    BY <2>1, <2>2
<1>17. \A k \in SchedId : CountsOk(k)'
  <2> SUFFICES ASSUME NEW k \in SchedId PROVE CountsOk(k)'
    OBVIOUS
  <2>1. CASE k = i
    <3>1. Of(i)' = {l} /\ Submitting(i)' = {} /\ NotCounting(i)' = {l}
      BY <1>8, <1>9, <1>14 DEF Of, Submitting, NotCounting, Free
    <3>2. Cardinality({l}) = 1 /\ Cardinality({}) = 0
      BY FS_Singleton, FS_EmptySet
    <3>3. \A u \in Reliable : stored'[u][i] # NoSched => stored'[u][i].runs = 0
      <4>1. \A u \in Tenant : stored[u][i] = NoSched
        <5>1. ~(i <= counter)
          BY <1>0, <1>1 DEF TypeOK
        <5>2. QED
          BY <1>0, <1>7, <5>1 DEF Numbers
      <4>2. QED
        BY <1>4, <1>11, <4>1 DEF Reliable
    <3>4. /\ late'[i] <= starts'[i] /\ Cardinality(Of(i)') <= starts'[i]
          /\ late'[i] + Cardinality(Submitting(i)') <= starts'[i]
      BY <1>10, <3>1, <3>2
    <3>5. \A u \in Reliable : stored'[u][i] # NoSched =>
            submitted'[i] + Cardinality(NotCounting(i)') <= stored'[u][i].runs + starts'[i]
      BY <1>10, <3>1, <3>2, <3>3
    <3>6. QED
      BY <2>1, <3>4, <3>5 DEF CountsOk
  <2>2. CASE k # i
    <3>1. StartsAtMost(k, 0, l)
      BY <1>8, <1>9, <2>2 DEF StartsAtMost, Free
    <3>2. starts'[k] = starts[k] + 0
      BY <1>0, <1>10, <2>2 DEF TypeOK
    <3>3. CountsOk(k)
      BY <1>0, Counts
    <3>4. \A u \in Reliable : stored'[u][k] = stored[u][k]
      BY <1>11, <2>2 DEF Reliable
    <3>5. ~Active(k)' => ~Active(k) \/ late'[k] = 0
      BY <1>15
    <3>6. QED
      BY <1>0, <1>10, <2>2, <3>1, <3>2, <3>3, <3>4, <3>5, CountsKeep
  <2>3. QED
    BY <2>1, <2>2
<1>18. LateInv' /\ RunInv'
  BY <1>17 DEF LateInv, RunInv, CountsOk
<1>19. QED
  BY <1>12, <1>13, <1>16, <1>18 DEF Inv

\* PATCH and DELETE: schedule i becomes v; q: its goroutine is cancelled, r: another
\* one, l, is started.
Change(i, v, q, r, l) ==
  /\ entries[i] # NoSched /\ loaded = Tenant
  /\ Put(entries[i].s.tenant, i, v)
  /\ v # NoSched => v.runs = entries[i].s.runs
  /\ q => Active(i)
  /\ r => Free(l) /\ (Active(i) => q)
  /\ Active(i)' <=> (r \/ (Active(i) /\ ~q))
  /\ entries'[i] # NoSched =>
       entries'[i].loop = IF r THEN l ELSE IF q THEN NoLoop ELSE entries[i].loop
  /\ \A k \in Loop :
       IF r /\ k = l THEN loops'[k] = Running(i)
       ELSE /\ loops'[k].id = loops[k].id /\ loops'[k].at = loops[k].at
            /\ loops'[k].live = IF q /\ k = entries[i].loop THEN FALSE ELSE loops[k].live
  /\ starts'[i] = starts[i] + (IF r THEN 1 ELSE 0)
  /\ late'[i] = IF Active(i) THEN 0 ELSE late[i]
  /\ \A k \in SchedId : k # i => starts'[k] = starts[k] /\ late'[k] = late[k]
  /\ submitted' = submitted

\* Add, update and delete keep the invariant.
LEMMA ChangeKeeps ==
  ASSUME Inv, TypeOK', NEW i \in SchedId, NEW v \in Sched \cup {NoSched},
         NEW q \in BOOLEAN, NEW r \in BOOLEAN, NEW l \in Loop, Change(i, v, q, r, l)
  PROVE  Inv'
<1>0. TypeOK /\ Numbers /\ StoreMirrorsSchedules /\ OneLoop /\ LateInv /\ RunInv
  BY DEF Inv
<1>1. PICK t \in Tenant : t = entries[i].s.tenant
  BY <1>0 DEF Change, TypeOK, Entry, Sched
<1>2. /\ entries[i] # NoSched /\ loaded = Tenant /\ Put(t, i, v)
      /\ (q => Active(i)) /\ (r => Free(l) /\ (Active(i) => q))
      /\ Active(i)' <=> (r \/ (Active(i) /\ ~q))
      /\ entries'[i] # NoSched =>
           entries'[i].loop = IF r THEN l ELSE IF q THEN NoLoop ELSE entries[i].loop
      /\ \A k \in Loop :
           IF r /\ k = l THEN loops'[k] = Running(i)
           ELSE /\ loops'[k].id = loops[k].id /\ loops'[k].at = loops[k].at
                /\ loops'[k].live = IF q /\ k = entries[i].loop THEN FALSE ELSE loops[k].live
  BY <1>1 DEF Change
<1>3. Running(i).id = i /\ Running(i).at = "wait" /\ Running(i).live = TRUE
  BY DEF Running
<1>4. Numbers' /\ StoreMirrorsSchedules'
  <2>1. \A k \in Loop : ~Free(k)' => loops'[k].id = i \/ (~Free(k) /\ loops'[k].id = loops[k].id)
    BY <1>2, <1>3 DEF Free
  <2>2. QED
    BY <1>0, <1>2, <2>1, PutKeeps
<1>5. \A k \in SchedId : k # i => entries'[k] = entries[k] /\ (Active(k)' <=> Active(k))
  BY <1>2 DEF Put, Active
<1>6. OneLoop'
  <2> SUFFICES ASSUME NEW k \in SchedId
               PROVE  /\ entries'[k] # NoSched =>
                           entries'[k].loop \in IF Active(k)' THEN Loop ELSE {NoLoop}
                      /\ \A m \in Loop : (~Free(m)' /\ loops'[m].live /\ loops'[m].id = k)
                                           <=> (Active(k)' /\ m = entries'[k].loop)
    BY DEF OneLoop
  <2>0. /\ entries[k] # NoSched => entries[k].loop \in IF Active(k) THEN Loop ELSE {NoLoop}
        /\ \A m \in Loop : (~Free(m) /\ loops[m].live /\ loops[m].id = k)
                             <=> (Active(k) /\ m = entries[k].loop)
    BY <1>0 DEF OneLoop
  <2>1. CASE k = i
    <3>1. entries'[k] # NoSched => entries'[k].loop \in IF Active(k)' THEN Loop ELSE {NoLoop}
      BY <1>2, <2>0, <2>1
    <3>2. Active(k)' => entries'[k] # NoSched
      BY DEF Active
    <3>3. ASSUME NEW m \in Loop
          PROVE  (~Free(m)' /\ loops'[m].live /\ loops'[m].id = k)
                   <=> (Active(k)' /\ m = entries'[k].loop)
      <4>1. CASE r /\ m = l
        BY <1>2, <1>3, <2>1, <3>2, <4>1 DEF Free
      <4>2. CASE ~(r /\ m = l)
        <5>1. (~Free(m)' <=> ~Free(m)) /\ loops'[m].id = loops[m].id
          BY <1>2, <4>2 DEF Free
        <5>2. loops'[m].live = IF q /\ m = entries[i].loop THEN FALSE ELSE loops[m].live
          BY <1>2, <4>2
        <5>3. CASE q
          BY <1>2, <2>0, <2>1, <3>2, <4>2, <5>1, <5>2, <5>3, SchedulerAssumption
        <5>4. CASE ~q
          BY <1>2, <2>0, <2>1, <3>2, <4>2, <5>1, <5>2, <5>4
        <5>5. QED
          BY <5>3, <5>4
      <4>3. QED
        BY <4>1, <4>2
    <3>4. QED
      BY <3>1, <3>3
  <2>2. CASE k # i
    <3>1. entries'[k] = entries[k] /\ (Active(k)' <=> Active(k))
      BY <1>5, <2>2
    <3>2. q => entries[i].loop \in Loop /\ loops[entries[i].loop].id = i
      BY <1>0, <1>2 DEF OneLoop
    <3>3. ASSUME NEW m \in Loop
          PROVE  (~Free(m)' /\ loops'[m].live /\ loops'[m].id = k)
                   <=> (~Free(m) /\ loops[m].live /\ loops[m].id = k)
      <4>1. CASE r /\ m = l
        BY <1>2, <1>3, <2>2, <4>1 DEF Free
      <4>2. CASE ~(r /\ m = l)
        BY <1>2, <2>2, <3>2, <4>2 DEF Free
      <4>3. QED
        BY <4>1, <4>2
    <3>4. QED
      BY <2>0, <3>1, <3>3
  <2>3. QED
    BY <2>1, <2>2
<1>7. \A u \in Reliable, k \in SchedId : stored'[u][k] # NoSched =>
        stored[u][k] # NoSched /\ stored'[u][k].runs = stored[u][k].runs
  <2> SUFFICES ASSUME NEW u \in Reliable, NEW k \in SchedId, stored'[u][k] # NoSched
               PROVE  stored[u][k] # NoSched /\ stored'[u][k].runs = stored[u][k].runs
    OBVIOUS
  <2>1. Write(t, i, v)
    BY <1>2 DEF Put
  <2>2. stored'[u][k] = stored[u][k] \/ (u = t /\ k = i /\ stored'[u][k] = v)
    BY <1>0, <2>1, WriteEffect DEF Reliable
  <2>3. CASE u = t /\ k = i /\ stored'[u][k] = v
    <3>1. stored[u][k] = entries[i].s
      BY <1>0, <1>1, <1>2, <2>3 DEF StoreMirrorsSchedules, Reliable
    <3>2. entries[i].s # NoSched
      BY <1>0, <1>2, SchedulerAssumption DEF TypeOK, Entry
    <3>3. v.runs = entries[i].s.runs
      BY <2>3 DEF Change
    <3>4. QED
      BY <2>3, <3>1, <3>2, <3>3
  <2>4. QED
    BY <2>2, <2>3
<1>8. \A k \in SchedId : CountsOk(k)'
  <2> SUFFICES ASSUME NEW k \in SchedId PROVE CountsOk(k)'
    OBVIOUS
  <2>1. CountsOk(k)
    BY <1>0, Counts
  <2>2. PICK n \in {0, 1} : n = IF k = i /\ r THEN 1 ELSE 0
    OBVIOUS
  <2>3. StartsAtMost(k, n, l)
    <3> SUFFICES ASSUME NEW m \in Loop, ~Free(m)', loops'[m].id = k
                 PROVE  \/ m = l /\ n = 1 /\ loops'[m].at = "wait"
                        \/ ~Free(m) /\ loops[m].id = k /\ loops'[m].at = loops[m].at
      BY DEF StartsAtMost
    <3>1. CASE r /\ m = l
      BY <1>2, <1>3, <2>2, <3>1
    <3>2. CASE ~(r /\ m = l)
      BY <1>2, <3>2 DEF Free
    <3>3. QED
      BY <3>1, <3>2
  <2>4. starts'[k] = starts[k] + n
    <3>1. CASE k = i
      BY <2>2, <3>1 DEF Change
    <3>2. CASE k # i
      BY <1>0, <2>2, <3>2 DEF Change, TypeOK
    <3>3. QED
      BY <3>1, <3>2
  <2>5. late'[k] \in {0, late[k]} /\ (~Active(k)' => ~Active(k) \/ late'[k] = 0)
    <3>1. CASE k = i
      BY <3>1 DEF Change
    <3>2. CASE k # i
      BY <1>5, <3>2 DEF Change
    <3>3. QED
      BY <3>1, <3>2
  <2>6. submitted'[k] = submitted[k]
    BY DEF Change
  <2>7. QED
    BY <1>0, <1>7, <2>1, <2>3, <2>4, <2>5, <2>6, CountsKeep
<1>9. LateInv' /\ RunInv'
  BY <1>8 DEF LateInv, RunInv, CountsOk
<1>10. QED
  BY <1>4, <1>6, <1>9 DEF Inv

\* Cancelling a goroutine changes its context only.
LEMMA StopEffect ==
  ASSUME TypeOK, NEW d \in Loop
  PROVE  /\ Stopped(d) \in [Loop -> LoopState]
         /\ \A k \in Loop :
              /\ Stopped(d)[k].id = loops[k].id /\ Stopped(d)[k].at = loops[k].at
              /\ Stopped(d)[k].live = IF k = d THEN FALSE ELSE loops[k].live
<1>1. loops \in [Loop -> LoopState] /\ loops[d] \in LoopState
  BY DEF TypeOK
<1>2. /\ [loops[d] EXCEPT !.live = FALSE] \in LoopState
      /\ [loops[d] EXCEPT !.live = FALSE].id = loops[d].id
      /\ [loops[d] EXCEPT !.live = FALSE].at = loops[d].at
      /\ [loops[d] EXCEPT !.live = FALSE].live = FALSE
  BY <1>1 DEF LoopState
<1>3. /\ Stopped(d) = [loops EXCEPT ![d] = [loops[d] EXCEPT !.live = FALSE]]
  BY DEF Stopped
<1>4. QED
  BY <1>1, <1>2, <1>3

\* DELETE /schedules/{id}
LEMMA DeleteStep ==
  ASSUME Inv, NEW i \in SchedId, Delete(i)
  PROVE  Inv'
<1>0. TypeOK /\ OneLoop
  BY DEF Inv
<1>1. entries[i] # NoSched /\ entries[i] \in Entry /\ loaded = Tenant
  BY <1>0 DEF Delete, Serving, TypeOK
<1>2. PICK t \in Tenant : t = entries[i].s.tenant
  BY <1>1 DEF Entry, Sched
<1>3. /\ Write(t, i, NoSched) /\ entries' = [entries EXCEPT ![i] = NoSched]
      /\ late' = IF Active(i) THEN [late EXCEPT ![i] = 0] ELSE late
      /\ loops' = IF entries[i].loop # NoLoop THEN Stopped(entries[i].loop) ELSE loops
      /\ UNCHANGED <<counter, loaded, submitted, starts, updates, crashes>>
  BY <1>1, <1>2 DEF Delete, Active
<1>4. entries[i].loop \in IF Active(i) THEN Loop ELSE {NoLoop}
  BY <1>0, <1>1 DEF OneLoop
<1>5. /\ entries[i].loop # NoLoop <=> Active(i)
      /\ entries[i].loop # NoLoop => entries[i].loop \in Loop
  BY <1>4, SchedulerAssumption
<1>6. /\ loops' \in [Loop -> LoopState]
      /\ \A k \in Loop :
           /\ loops'[k].id = loops[k].id /\ loops'[k].at = loops[k].at
           /\ loops'[k].live = IF Active(i) /\ k = entries[i].loop THEN FALSE
                               ELSE loops[k].live
  <2>1. CASE Active(i)
    BY <1>0, <1>3, <1>5, <2>1, StopEffect
  <2>2. CASE ~Active(i)
    BY <1>0, <1>3, <1>5, <2>2 DEF TypeOK
  <2>3. QED
    BY <2>1, <2>2
<1>7. TypeOK'
  <2>1. stored' \in [Tenant -> [SchedId -> Sched \cup {NoSched}]]
    BY <1>0, <1>3, WriteEffect
  <2>2. late' \in [SchedId -> Nat] /\ entries' \in [SchedId -> Entry \cup {NoSched}]
    BY <1>0, <1>3 DEF TypeOK
  <2>3. QED
    BY <1>0, <1>3, <1>6, <2>1, <2>2 DEF TypeOK
<1>8. /\ entries'[i] = NoSched /\ ~Active(i)'
      /\ \A k \in SchedId : k # i => entries'[k] = entries[k] /\ late'[k] = late[k]
      /\ late'[i] = IF Active(i) THEN 0 ELSE late[i]
  BY <1>0, <1>3 DEF TypeOK, Active
<1>9. Put(t, i, NoSched)
  BY <1>1, <1>2, <1>3, <1>8 DEF Put
<1>10. PICK q \in BOOLEAN : q <=> Active(i)
  OBVIOUS
<1>11. starts'[i] = starts[i] + 0
  BY <1>0, <1>3 DEF TypeOK
<1>12. ASSUME NEW l \in Loop PROVE Change(i, NoSched, q, FALSE, l)
  BY <1>1, <1>2, <1>3, <1>6, <1>8, <1>9, <1>10, <1>11 DEF Change
<1>13. QED
  BY <1>7, <1>10, <1>12, ChangeKeeps, SchedulerAssumption

\* PATCH /schedules/{id}
LEMMA UpdateStep ==
  ASSUME Inv, NEW i \in SchedId, NEW x \in Target, NEW on \in BOOLEAN,
         NEW rearm \in BOOLEAN, Update(i, x, on, rearm)
  PROVE  Inv'
<1>0. TypeOK /\ OneLoop /\ Numbers
  BY DEF Inv
<1>1. entries[i] # NoSched /\ entries[i] \in Entry /\ loaded = Tenant
  BY <1>0 DEF Update, Serving, TypeOK
<1>2. PICK e \in Entry : e = entries[i]
  BY <1>1
<1>3. e.s \in Sched /\ e.s.tenant \in Tenant /\ e.s.active \in BOOLEAN /\ e.s.runs \in Nat
  BY <1>2 DEF Entry, Sched
<1>4. PICK s : s = [e.s EXCEPT !.target = x, !.active = on]
  OBVIOUS
<1>5. s \in Sched /\ s.tenant = e.s.tenant /\ s.active = on /\ s.runs = e.s.runs
  <2>1. PICK u : u = [e.s EXCEPT !.target = x]
    OBVIOUS
  <2>2. /\ u \in Sched /\ u.tenant = e.s.tenant /\ u.runs = e.s.runs
    BY <1>3, <2>1 DEF Sched
  <2>3. s = [u EXCEPT !.active = on]
    BY <1>4, <2>1
  <2>4. QED
    BY <2>2, <2>3 DEF Sched
<1>6. PICK q \in BOOLEAN : q <=> Stops(e, s, rearm)
  OBVIOUS
<1>7. PICK r \in BOOLEAN : r <=> Restarts(e, s, rearm)
  OBVIOUS
<1>8. /\ q <=> (e.s.active /\ (~on \/ rearm))
      /\ r <=> (on /\ (~e.s.active \/ rearm))
      /\ e.s.active <=> Active(i)
  BY <1>1, <1>2, <1>5, <1>6, <1>7 DEF Stops, Restarts, Active
<1>9. PICK l \in Loop : r => l = NewLoop /\ Free(l)
  <2>1. CASE r
    BY <1>2, <1>4, <1>7, <2>1, NewLoopIsFree DEF Update
  <2>2. CASE ~r
    BY <2>2, SchedulerAssumption
  <2>3. QED
    BY <2>1, <2>2
<1>10. PICK stop : stop = IF q THEN Stopped(e.loop) ELSE loops
  OBVIOUS
<1>11. PICK n : n = [s |-> s, loop |-> IF r THEN l ELSE IF q THEN NoLoop ELSE e.loop]
  OBVIOUS
<1>12. /\ n \in Entry /\ n.s = s
       /\ n.loop = IF r THEN l ELSE IF q THEN NoLoop ELSE e.loop
  BY <1>2, <1>5, <1>11 DEF Entry
<1>13. /\ updates' = updates + 1
       /\ loops' = IF r THEN [stop EXCEPT ![l] = Running(i)] ELSE stop
       /\ starts' = IF r THEN [starts EXCEPT ![i] = @ + 1] ELSE starts
       /\ entries' = [entries EXCEPT ![i] = n]
       /\ Write(s.tenant, i, s)
       /\ late' = IF Active(i) THEN [late EXCEPT ![i] = 0] ELSE late
       /\ UNCHANGED <<counter, loaded, submitted, crashes>>
  BY <1>2, <1>4, <1>6, <1>7, <1>8, <1>9, <1>10, <1>11 DEF Update
<1>14. q => e.loop \in Loop
  BY <1>0, <1>1, <1>2, <1>8 DEF OneLoop
<1>15. /\ stop \in [Loop -> LoopState]
       /\ \A k \in Loop : /\ stop[k].id = loops[k].id /\ stop[k].at = loops[k].at
                          /\ stop[k].live = IF q /\ k = e.loop THEN FALSE ELSE loops[k].live
  <2>1. CASE q
    BY <1>0, <1>10, <1>14, <2>1, StopEffect
  <2>2. CASE ~q
    BY <1>0, <1>10, <2>2 DEF TypeOK
  <2>3. QED
    BY <2>1, <2>2
<1>16. Running(i) \in LoopState
  BY DEF Running, LoopState
<1>17. /\ loops' \in [Loop -> LoopState]
       /\ \A k \in Loop : loops'[k] = IF r /\ k = l THEN Running(i) ELSE stop[k]
  BY <1>13, <1>15, <1>16
<1>18. TypeOK'
  <2>1. stored' \in [Tenant -> [SchedId -> Sched \cup {NoSched}]]
    BY <1>0, <1>3, <1>5, <1>13, WriteEffect
  <2>2. late' \in [SchedId -> Nat] /\ starts' \in [SchedId -> Nat]
    BY <1>0, <1>13 DEF TypeOK
  <2>3. entries' \in [SchedId -> Entry \cup {NoSched}]
    BY <1>0, <1>12, <1>13 DEF TypeOK
  <2>4. updates' \in Nat
    BY <1>0, <1>13 DEF TypeOK
  <2>5. QED
    BY <1>0, <1>13, <1>17, <2>1, <2>2, <2>3, <2>4 DEF TypeOK
<1>19. /\ entries'[i] = n
       /\ \A k \in SchedId : k # i => /\ entries'[k] = entries[k] /\ late'[k] = late[k]
                                      /\ starts'[k] = starts[k]
       /\ late'[i] = IF Active(i) THEN 0 ELSE late[i]
       /\ starts'[i] = starts[i] + (IF r THEN 1 ELSE 0)
  BY <1>0, <1>13 DEF TypeOK
<1>20. n # NoSched /\ s # NoSched
  BY <1>5, <1>12, SchedulerAssumption
<1>21. Active(i)' <=> on
  BY <1>5, <1>12, <1>19, <1>20 DEF Active
<1>22. Put(e.s.tenant, i, s)
  BY <1>1, <1>2, <1>3, <1>5, <1>12, <1>13, <1>19, <1>20 DEF Put
<1>23. Change(i, s, q, r, l)
  <2>1. /\ q => Active(i)
        /\ r => Free(l) /\ (Active(i) => q)
        /\ Active(i)' <=> (r \/ (Active(i) /\ ~q))
    BY <1>8, <1>9, <1>21
  <2>2. \A k \in Loop :
          IF r /\ k = l THEN loops'[k] = Running(i)
          ELSE /\ loops'[k].id = loops[k].id /\ loops'[k].at = loops[k].at
               /\ loops'[k].live = IF q /\ k = entries[i].loop THEN FALSE ELSE loops[k].live
    BY ZenonT(30), <1>2, <1>15, <1>17
  <2>3. QED
    BY <1>1, <1>2, <1>5, <1>12, <1>13, <1>19, <1>22, <2>1, <2>2 DEF Change
<1>24. QED
  BY <1>5, <1>18, <1>23, ChangeKeeps

\* Goroutine l of schedule i goes from step a to step b.
Moves(l, i, a, b) ==
  /\ loops[l].at = a /\ a # "exit" /\ loops[l].id = i /\ i \in SchedId
  /\ loops' \in [Loop -> LoopState]
  /\ loops'[l].at = b /\ b # "exit" /\ loops'[l].id = i /\ loops'[l].live = loops[l].live
  /\ \A k \in Loop : k # l => loops'[k] = loops[k]

\* Goroutines that move, or end when they are cancelled, leave the entries their own.
LEMMA LoopsKeep ==
  ASSUME TypeOK, Numbers, StoreMirrorsSchedules, OneLoop,
         UNCHANGED <<entries, stored, counter, loaded>>,
         \A l \in Loop :
           /\ ~Free(l)' => ~Free(l) /\ loops'[l].id = loops[l].id
                           /\ loops'[l].live = loops[l].live
           /\ Free(l)' => Free(l) \/ ~loops[l].live
  PROVE  Numbers' /\ StoreMirrorsSchedules' /\ OneLoop'
<1>1. Numbers'
  BY DEF Numbers
<1>2. StoreMirrorsSchedules'
  BY DEF StoreMirrorsSchedules
<1>3. \A i \in SchedId : Active(i)' <=> Active(i)
  BY DEF Active
<1>4. OneLoop'
  BY <1>3 DEF OneLoop
<1>5. QED
  BY <1>1, <1>2, <1>4

\* The schedules that a goroutine's step is not about keep their counts.
LEMMA OthersKeepCounts ==
  ASSUME TypeOK, LateInv, RunInv, NEW l \in Loop, NEW i, loops[l].id = i,
         ~Free(l)' => loops'[l].id = i,
         \A k \in Loop : k # l => loops'[k] = loops[k],
         NEW k \in SchedId, k # i,
         starts'[k] = starts[k], submitted'[k] = submitted[k], late'[k] = late[k],
         Active(k)' <=> Active(k),
         \A t \in Reliable : stored'[t][k] = stored[t][k]
  PROVE  CountsOk(k)'
<1>1. StartsAtMost(k, 0, l)
  BY DEF StartsAtMost, Free
<1>2. CountsOk(k)
  BY Counts
<1>3. starts'[k] = starts[k] + 0
  BY DEF TypeOK
<1>4. QED
  BY <1>1, <1>2, <1>3, CountsKeep

\* The ticker is ready.
LEMMA TickStep ==
  ASSUME Inv, NEW l \in Loop, Tick(l)
  PROVE  Inv'
<1>0. TypeOK /\ Numbers /\ StoreMirrorsSchedules /\ OneLoop /\ LateInv /\ RunInv
  BY DEF Inv
<1>1. PICK i \in SchedId : i = loops[l].id
  BY <1>0 DEF TypeOK, LoopState
<1>2. UNCHANGED <<entries, counter, stored, loaded, submitted, late, starts, updates, crashes>>
  BY DEF Tick
<1>3. loops[l] \in LoopState
  BY <1>0 DEF TypeOK
<1>4. \/ Active(i) /\ Moves(l, i, "wait", "submit")
      \/ Moves(l, i, "wait", "count")
  <2>1. CASE \E x \in Target : /\ Snapshot(i, x)
                               /\ loops' = [loops EXCEPT ![l].at = "submit", ![l].job = x]
    <3>1. PICK x \in Target : /\ Snapshot(i, x)
                              /\ loops' = [loops EXCEPT ![l].at = "submit", ![l].job = x]
      BY <2>1
    <3>2. PICK p : p = [loops[l] EXCEPT !.at = "submit"]
      OBVIOUS
    <3>3. p \in LoopState /\ p.id = i /\ p.at = "submit" /\ p.live = loops[l].live
      BY <1>1, <1>3, <3>2 DEF LoopState
    <3>4. PICK o : o = [p EXCEPT !.job = x]
      OBVIOUS
    <3>5. o \in LoopState /\ o.id = i /\ o.at = "submit" /\ o.live = loops[l].live
      BY <3>3, <3>4 DEF LoopState
    <3>6. loops' = [loops EXCEPT ![l] = o]
      BY <1>0, <3>1, <3>2, <3>4 DEF TypeOK
    <3>7. loops[l].at = "wait"
      BY DEF Tick
    <3>8. Moves(l, i, "wait", "submit")
      BY <1>0, <1>1, <3>5, <3>6, <3>7 DEF Moves, TypeOK
    <3>9. QED
      BY <3>1, <3>8 DEF Snapshot
  <2>2. CASE loops' = [loops EXCEPT ![l].at = "count"]
    <3>1. PICK o : o = [loops[l] EXCEPT !.at = "count"]
      OBVIOUS
    <3>2. o \in LoopState /\ o.id = i /\ o.at = "count" /\ o.live = loops[l].live
      BY <1>1, <1>3, <3>1 DEF LoopState
    <3>3. loops' = [loops EXCEPT ![l] = o]
      BY <1>0, <2>2, <3>1 DEF TypeOK
    <3>4. loops[l].at = "wait"
      BY DEF Tick
    <3>5. QED
      BY <1>0, <1>1, <3>2, <3>3, <3>4 DEF Moves, TypeOK
  <2>3. QED
    BY <1>1, <2>1, <2>2 DEF Tick
<1>5. /\ loops[l].at = "wait" /\ loops' \in [Loop -> LoopState] /\ ~Free(l)' /\ ~Free(l)
      /\ loops'[l].id = i /\ loops'[l].live = loops[l].live
      /\ \A k \in Loop : k # l => loops'[k] = loops[k]
  BY <1>4 DEF Moves, Free
<1>6. TypeOK'
  BY <1>0, <1>2, <1>5 DEF TypeOK
<1>7. Numbers' /\ StoreMirrorsSchedules' /\ OneLoop'
  <2>1. \A m \in Loop :
          /\ ~Free(m)' => ~Free(m) /\ loops'[m].id = loops[m].id
                          /\ loops'[m].live = loops[m].live
          /\ Free(m)' => Free(m) \/ ~loops[m].live
    BY <1>1, <1>5 DEF Free
  <2>2. QED
    BY <1>0, <1>2, <2>1, LoopsKeep
<1>8. \A k \in SchedId : Active(k)' <=> Active(k)
  BY <1>2 DEF Active
<1>9. CountsOk(i)'
  <2>1. Of(i)' = Of(i)
    BY <1>1, <1>5 DEF Of, Free
  <2>2. NotCounting(i)' \in SUBSET NotCounting(i)
    BY <1>1, <1>5 DEF NotCounting
  <2>3. Active(i) \/ Submitting(i)' = Submitting(i)
    <3>1. CASE Moves(l, i, "wait", "count")
      BY <3>1 DEF Moves, Submitting
    <3>2. QED
      BY <1>4, <3>1
  <2>4. NotCounting(i) \in SUBSET Loop
    BY DEF NotCounting
  <2>5. Cardinality(NotCounting(i)') <= Cardinality(NotCounting(i))
    BY <2>2, <2>4, LoopSets
  <2>6. Cardinality(NotCounting(i)') \in Nat /\ Cardinality(NotCounting(i)) \in Nat
    <3>1. NotCounting(i)' \in SUBSET Loop
      BY <2>2, <2>4
    <3>2. QED
      BY <2>4, <3>1, LoopSets
  <2>7. CountsOk(i)
    BY <1>0, Counts
  <2>8. ASSUME NEW t \in Reliable, stored'[t][i] # NoSched
        PROVE  submitted'[i] + Cardinality(NotCounting(i)') <= stored'[t][i].runs + starts'[i]
    <3>1. submitted[i] + Cardinality(NotCounting(i)) <= stored[t][i].runs + starts[i]
      BY <1>2, <2>7, <2>8 DEF CountsOk
    <3>2. stored[t][i] \in Sched
      BY <1>0, <1>2, <2>8 DEF TypeOK, Reliable
    <3>3. submitted[i] \in Nat /\ starts[i] \in Nat /\ stored[t][i].runs \in Nat
      BY <1>0, <3>2 DEF TypeOK, Sched
    <3>4. QED
      BY <1>2, <2>5, <2>6, <3>1, <3>3
  <2>9. QED
    BY <1>2, <1>8, <2>1, <2>3, <2>7, <2>8 DEF CountsOk
<1>10. \A k \in SchedId : CountsOk(k)'
  <2> SUFFICES ASSUME NEW k \in SchedId, k # i PROVE CountsOk(k)'
    BY <1>9
  <2>1. Active(k)' <=> Active(k)
    BY <1>8
  <2>2. QED
    BY <1>0, <1>1, <1>2, <1>5, <2>1, OthersKeepCounts
<1>11. LateInv' /\ RunInv'
  BY <1>10 DEF LateInv, RunInv, CountsOk
<1>12. QED
  BY <1>6, <1>7, <1>11 DEF Inv

\* m.queue.Submit
LEMMA SubmitStep ==
  ASSUME Inv, NEW l \in Loop, Submit(l)
  PROVE  Inv'
<1>0. TypeOK /\ Numbers /\ StoreMirrorsSchedules /\ OneLoop /\ LateInv /\ RunInv
  BY DEF Inv
<1>1. PICK i \in SchedId : i = loops[l].id
  BY <1>0 DEF TypeOK, LoopState
<1>2. /\ UNCHANGED <<entries, counter, stored, loaded, starts, updates, crashes>>
      /\ submitted' = [submitted EXCEPT ![i] = @ + 1]
      /\ late' = IF Active(i) THEN late ELSE [late EXCEPT ![i] = @ + 1]
      /\ loops[l].at = "submit"
      /\ loops' = [loops EXCEPT ![l].at = "count", ![l].job = NoTarget]
  BY <1>1 DEF Submit
<1>3. Moves(l, i, "submit", "count")
  <2>1. loops[l] \in LoopState
    BY <1>0 DEF TypeOK
  <2>2. PICK p : p = [loops[l] EXCEPT !.at = "count"]
    OBVIOUS
  <2>3. p \in LoopState /\ p.id = i /\ p.at = "count" /\ p.live = loops[l].live
    BY <1>1, <2>1, <2>2 DEF LoopState
  <2>4. PICK o : o = [p EXCEPT !.job = NoTarget]
    OBVIOUS
  <2>5. o \in LoopState /\ o.id = i /\ o.at = "count" /\ o.live = loops[l].live
    BY <2>3, <2>4 DEF LoopState
  <2>6. loops' = [loops EXCEPT ![l] = o]
    BY <1>0, <1>2, <2>2, <2>4 DEF TypeOK
  <2>7. QED
    BY <1>0, <1>1, <1>2, <2>5, <2>6 DEF Moves, TypeOK
<1>4. /\ loops' \in [Loop -> LoopState] /\ ~Free(l)' /\ ~Free(l)
      /\ loops'[l].id = i /\ loops'[l].at = "count" /\ loops'[l].live = loops[l].live
      /\ \A k \in Loop : k # l => loops'[k] = loops[k]
  BY <1>3 DEF Moves, Free
<1>5. TypeOK'
  <2>1. submitted' \in [SchedId -> Nat] /\ late' \in [SchedId -> Nat]
    BY <1>0, <1>2 DEF TypeOK
  <2>2. QED
    BY <1>0, <1>2, <1>4, <2>1 DEF TypeOK
<1>6. Numbers' /\ StoreMirrorsSchedules' /\ OneLoop'
  <2>1. \A m \in Loop :
          /\ ~Free(m)' => ~Free(m) /\ loops'[m].id = loops[m].id
                          /\ loops'[m].live = loops[m].live
          /\ Free(m)' => Free(m) \/ ~loops[m].live
    BY <1>1, <1>4 DEF Free
  <2>2. QED
    BY <1>0, <1>2, <2>1, LoopsKeep
<1>7. \A k \in SchedId : Active(k)' <=> Active(k)
  BY <1>2 DEF Active
<1>8. CountsOk(i)'
  <2>1. Of(i)' = Of(i)
    BY <1>1, <1>4 DEF Of, Free
  <2>2. l \in Submitting(i) /\ l \in NotCounting(i)
    BY <1>1, <1>2 DEF Submitting, NotCounting
  <2>3. Submitting(i)' = Submitting(i) \ {l} /\ NotCounting(i)' = NotCounting(i) \ {l}
    BY <1>4 DEF Submitting, NotCounting
  <2>4. Submitting(i) \in SUBSET Loop /\ NotCounting(i) \in SUBSET Loop
    BY DEF Submitting, NotCounting
  <2>5. /\ Cardinality(Submitting(i)') = Cardinality(Submitting(i)) - 1
        /\ Cardinality(NotCounting(i)') = Cardinality(NotCounting(i)) - 1
        /\ Cardinality(Submitting(i)) \in Nat /\ Cardinality(NotCounting(i)) \in Nat
    BY <2>2, <2>3, <2>4, LoopSets
  <2>6. Cardinality(Submitting(i)') \in Nat
    <3>1. Submitting(i)' \in SUBSET Loop
      BY <2>3, <2>4
    <3>2. QED
      BY <3>1, LoopSets
  <2>7. CountsOk(i)
    BY <1>0, Counts
  <2>8. /\ late[i] \in Nat /\ starts[i] \in Nat /\ submitted[i] \in Nat
        /\ submitted'[i] = submitted[i] + 1 /\ starts'[i] = starts[i]
        /\ late'[i] = IF Active(i) THEN late[i] ELSE late[i] + 1
    BY <1>0, <1>2 DEF TypeOK
  <2>9. late'[i] <= starts'[i]
    BY <2>5, <2>6, <2>7, <2>8 DEF CountsOk
  <2>10. ~Active(i) => late'[i] + Cardinality(Submitting(i)') <= starts'[i]
    BY <2>5, <2>7, <2>8 DEF CountsOk
  <2>11. ASSUME NEW t \in Reliable, stored'[t][i] # NoSched
         PROVE  submitted'[i] + Cardinality(NotCounting(i)') <= stored'[t][i].runs + starts'[i]
    <3>1. submitted[i] + Cardinality(NotCounting(i)) <= stored[t][i].runs + starts[i]
      BY <1>2, <2>7, <2>11 DEF CountsOk
    <3>2. stored[t][i] \in Sched
      BY <1>0, <1>2, <2>11 DEF TypeOK, Reliable
    <3>3. stored[t][i].runs \in Nat
      BY <3>2 DEF Sched
    <3>4. QED
      BY <1>2, <2>5, <2>8, <3>1, <3>3
  <2>12. QED
    BY <1>2, <1>7, <2>1, <2>7, <2>9, <2>10, <2>11 DEF CountsOk
<1>9. \A k \in SchedId : CountsOk(k)'
  <2> SUFFICES ASSUME NEW k \in SchedId, k # i PROVE CountsOk(k)'
    BY <1>8
  <2>1. Active(k)' <=> Active(k)
    BY <1>7
  <2>2. submitted'[k] = submitted[k] /\ late'[k] = late[k] /\ starts'[k] = starts[k]
    BY <1>0, <1>2 DEF TypeOK
  <2>3. QED
    BY <1>0, <1>1, <1>2, <1>4, <2>1, <2>2, OthersKeepCounts
<1>10. LateInv' /\ RunInv'
  BY <1>9 DEF LateInv, RunInv, CountsOk
<1>11. QED
  BY <1>5, <1>6, <1>10 DEF Inv

\* ctx.Done()
LEMMA ExitStep ==
  ASSUME Inv, NEW l \in Loop, Exit(l)
  PROVE  Inv'
<1>0. TypeOK /\ Numbers /\ StoreMirrorsSchedules /\ OneLoop /\ LateInv /\ RunInv
  BY DEF Inv
<1>1. /\ UNCHANGED <<entries, counter, stored, loaded, submitted, late, starts, updates, crashes>>
      /\ loops' = [loops EXCEPT ![l] = Exited] /\ ~loops[l].live
  BY DEF Exit
<1>2. Exited \in LoopState /\ Exited.at = "exit"
  BY SchedulerAssumption DEF Exited, LoopState, SchedId
<1>3. /\ loops' \in [Loop -> LoopState] /\ Free(l)'
      /\ \A k \in Loop : k # l => loops'[k] = loops[k]
  BY <1>0, <1>1, <1>2 DEF TypeOK, Free
<1>4. TypeOK'
  BY <1>0, <1>1, <1>3 DEF TypeOK
<1>5. Numbers' /\ StoreMirrorsSchedules' /\ OneLoop'
  <2>1. \A m \in Loop :
          /\ ~Free(m)' => ~Free(m) /\ loops'[m].id = loops[m].id
                          /\ loops'[m].live = loops[m].live
          /\ Free(m)' => Free(m) \/ ~loops[m].live
    BY <1>1, <1>3 DEF Free
  <2>2. QED
    BY <1>0, <1>1, <2>1, LoopsKeep
<1>6. \A k \in SchedId : CountsOk(k)'
  <2> SUFFICES ASSUME NEW k \in SchedId PROVE CountsOk(k)'
    OBVIOUS
  <2>1. StartsAtMost(k, 0, l)
    BY <1>3 DEF StartsAtMost, Free
  <2>2. CountsOk(k)
    BY <1>0, Counts
  <2>3. starts'[k] = starts[k] + 0
    BY <1>0, <1>1 DEF TypeOK
  <2>4. Active(k)' <=> Active(k)
    BY <1>1 DEF Active
  <2>5. QED
    BY <1>0, <1>1, <2>1, <2>2, <2>3, <2>4, CountsKeep
<1>7. LateInv' /\ RunInv'
  BY <1>6 DEF LateInv, RunInv, CountsOk
<1>8. QED
  BY <1>4, <1>5, <1>7 DEF Inv

\* DELETE /admin/tenants: no reliable tenant is concerned.
LEMMA DeleteTenantStep ==
  ASSUME Inv, NEW t \in Tenant, DeleteTenant(t)
  PROVE  Inv'
<1>0. TypeOK /\ Numbers /\ StoreMirrorsSchedules /\ OneLoop /\ LateInv /\ RunInv
  BY DEF Inv
<1>1. /\ t \in Deletable
      /\ stored' = [stored EXCEPT ![t] = [i \in SchedId |-> NoSched]]
      /\ UNCHANGED <<entries, counter, loops, loaded, submitted, late, starts, updates, crashes>>
  BY DEF DeleteTenant
<1>2. /\ stored' \in [Tenant -> [SchedId -> Sched \cup {NoSched}]]
      /\ \A u \in Tenant : u # t => stored'[u] = stored[u]
      /\ \A i \in SchedId : stored'[t][i] = NoSched
  BY <1>0, <1>1 DEF TypeOK
<1>3. TypeOK'
  BY <1>0, <1>1, <1>2 DEF TypeOK
<1>4. Numbers'
  BY <1>0, <1>1, <1>2 DEF Numbers, Free
<1>5. \A u \in Reliable : stored'[u] = stored[u]
  BY <1>1, <1>2 DEF Reliable
<1>6. StoreMirrorsSchedules'
  BY <1>0, <1>1, <1>5 DEF StoreMirrorsSchedules
<1>7. OneLoop' /\ LateInv'
  <2>1. OneLoop'
    BY <1>0, <1>1 DEF OneLoop, Active, Free
  <2>2. \A i \in SchedId : Of(i)' = Of(i) /\ Submitting(i)' = Submitting(i)
    BY <1>1 DEF Of, Submitting, Free
  <2>3. \A i \in SchedId : Active(i)' <=> Active(i)
    BY <1>1 DEF Active
  <2>4. LateInv'
    BY <1>0, <1>1, <2>2, <2>3 DEF LateInv
  <2>5. QED
    BY <2>1, <2>4
<1>8. RunInv'
  BY <1>0, <1>1, <1>5 DEF RunInv, NotCounting
<1>9. QED
  BY <1>3, <1>4, <1>6, <1>7, <1>8 DEF Inv

\* The process ends.
LEMMA CrashStep ==
  ASSUME Inv, Crash
  PROVE  Inv'
<1>0. TypeOK /\ Numbers /\ StoreMirrorsSchedules /\ OneLoop /\ LateInv /\ RunInv
  BY DEF Inv
<1>1. /\ crashes < MaxCrash /\ crashes' = crashes + 1
      /\ entries' = [i \in SchedId |-> NoSched]
      /\ counter' = 0 /\ loaded' = {}
      /\ loops' = [l \in Loop |-> Exited]
      /\ UNCHANGED <<stored, submitted, late, starts, updates>>
  BY DEF Crash
<1>2. Exited \in LoopState /\ Exited.at = "exit"
  BY SchedulerAssumption DEF Exited, LoopState, SchedId
<1>3. \A l \in Loop : Free(l)' /\ loops'[l].at = "exit"
  BY <1>1, <1>2 DEF Free
<1>4. TypeOK'
  <2>1. crashes' \in 0..MaxCrash /\ counter' \in 0..MaxSched
    BY <1>0, <1>1, SchedulerAssumption DEF TypeOK
  <2>2. loops' \in [Loop -> LoopState] /\ entries' \in [SchedId -> Entry \cup {NoSched}]
    BY <1>1, <1>2
  <2>3. QED
    BY <1>0, <1>1, <2>1, <2>2 DEF TypeOK
<1>5. Numbers'
  BY <1>0, <1>1, <1>3 DEF Numbers
<1>6. StoreMirrorsSchedules' /\ OneLoop'
  BY <1>1, <1>3 DEF StoreMirrorsSchedules, OneLoop, Active
<1>7. \A i \in SchedId : CountsOk(i)'
  <2> SUFFICES ASSUME NEW i \in SchedId PROVE CountsOk(i)'
    OBVIOUS
  <2>1. Of(i)' = {} /\ Submitting(i)' = {} /\ NotCounting(i)' = {}
    BY <1>3 DEF Of, Submitting, NotCounting
  <2>2. Cardinality({}) = 0
    BY FS_EmptySet
  <2>3. late[i] \in Nat /\ starts[i] \in Nat /\ submitted[i] \in Nat /\ late[i] <= starts[i]
    BY <1>0 DEF TypeOK, LateInv
  <2>4. ASSUME NEW t \in Reliable, stored[t][i] # NoSched
        PROVE  submitted[i] + 0 <= stored[t][i].runs + starts[i]
    <3>1. submitted[i] + Cardinality(NotCounting(i)) <= stored[t][i].runs + starts[i]
      BY <1>0, <2>4 DEF RunInv
    <3>2. stored[t][i] \in Sched
      BY <1>0, <2>4 DEF TypeOK, Reliable
    <3>3. stored[t][i].runs \in Nat /\ Cardinality(NotCounting(i)) \in Nat
      BY <3>2, SetSizes DEF Sched
    <3>4. QED
      BY <2>3, <3>1, <3>3
  <2>5. QED
    BY <1>1, <2>1, <2>2, <2>3, <2>4 DEF CountsOk
<1>8. LateInv' /\ RunInv'
  BY <1>7 DEF LateInv, RunInv, CountsOk
<1>9. QED
  BY <1>4, <1>5, <1>6, <1>8 DEF Inv

\* Count the run, if the schedule is still there.
LEMMA CountStep ==
  ASSUME Inv, NEW l \in Loop, Count(l)
  PROVE  Inv'
<1>0. TypeOK /\ Numbers /\ StoreMirrorsSchedules /\ OneLoop /\ LateInv /\ RunInv
  BY DEF Inv
<1>1. PICK i \in SchedId : i = loops[l].id
  BY <1>0 DEF TypeOK, LoopState
<1>2. /\ UNCHANGED <<counter, loaded, submitted, late, starts, updates, crashes>>
      /\ loops[l].at = "count" /\ loops' = [loops EXCEPT ![l].at = "wait"]
  BY DEF Count
<1>3. Moves(l, i, "count", "wait")
  <2>1. loops[l] \in LoopState
    BY <1>0 DEF TypeOK
  <2>2. PICK o : o = [loops[l] EXCEPT !.at = "wait"]
    OBVIOUS
  <2>3. o \in LoopState /\ o.id = i /\ o.at = "wait" /\ o.live = loops[l].live
    BY <1>1, <2>1, <2>2 DEF LoopState
  <2>4. loops' = [loops EXCEPT ![l] = o]
    BY <1>0, <1>2, <2>2 DEF TypeOK
  <2>5. QED
    BY <1>0, <1>1, <1>2, <2>3, <2>4 DEF Moves, TypeOK
<1>4. /\ loops' \in [Loop -> LoopState] /\ ~Free(l)' /\ ~Free(l)
      /\ loops'[l].id = i /\ loops'[l].at = "wait" /\ loops'[l].live = loops[l].live
      /\ \A k \in Loop : k # l => loops'[k] = loops[k]
  BY <1>3 DEF Moves, Free
\* All but the numbers of runs.
<1>5. Of(i)' = Of(i) /\ Submitting(i)' = Submitting(i)
  BY <1>1, <1>2, <1>4 DEF Of, Submitting, Free
<1>6. /\ Cardinality(NotCounting(i)') <= Cardinality(NotCounting(i)) + 1
      /\ Cardinality(NotCounting(i)') \in Nat /\ Cardinality(NotCounting(i)) \in Nat
  <2>1. NotCounting(i) \in SUBSET Loop /\ NotCounting(i) \cup {l} \in SUBSET Loop
    BY DEF NotCounting
  <2>2. NotCounting(i)' = NotCounting(i) \cup {l}
    BY <1>4 DEF NotCounting
  <2>3. QED
    BY <2>1, <2>2, LoopSets
<1>7. \A m \in Loop :
        /\ ~Free(m)' => ~Free(m) /\ loops'[m].id = loops[m].id
                        /\ loops'[m].live = loops[m].live
        /\ Free(m)' => Free(m) \/ ~loops[m].live
  BY <1>1, <1>4 DEF Free
<1>8. CountsOk(i)
  BY <1>0, Counts
<1>9. late[i] \in Nat /\ starts[i] \in Nat /\ submitted[i] \in Nat
  BY <1>0 DEF TypeOK
<1>10. CASE entries[i] = NoSched
  <2>1. UNCHANGED <<entries, stored>>
    BY <1>1, <1>10 DEF Count
  <2>2. TypeOK'
    BY <1>0, <1>2, <1>4, <2>1 DEF TypeOK
  <2>3. Numbers' /\ StoreMirrorsSchedules' /\ OneLoop'
    BY <1>0, <1>2, <1>7, <2>1, LoopsKeep
  <2>4. \A k \in SchedId : Active(k)' <=> Active(k)
    BY <2>1 DEF Active
  <2>5. \A t \in Reliable : stored'[t][i] = NoSched
    <3>1. loaded = Tenant
      BY <1>0, <1>1, <1>4, <1>10 DEF Numbers
    <3>2. QED
      BY <1>0, <1>10, <2>1, <3>1 DEF StoreMirrorsSchedules, Reliable
  <2>6. CountsOk(i)'
    BY <1>2, <1>5, <1>8, <2>4, <2>5 DEF CountsOk
  <2>7. ASSUME NEW k \in SchedId, k # i PROVE CountsOk(k)'
    <3>1. Active(k)' <=> Active(k)
      BY <2>4
    <3>2. QED
      BY <1>0, <1>1, <1>2, <1>4, <2>1, <2>7, <3>1, OthersKeepCounts
  <2>8. LateInv' /\ RunInv'
    BY <2>6, <2>7 DEF LateInv, RunInv, CountsOk
  <2>9. QED
    BY <2>2, <2>3, <2>8 DEF Inv
<1>11. CASE entries[i] # NoSched
  <2>1. PICK e \in Entry : e = entries[i]
    BY <1>0, <1>11 DEF TypeOK
  <2>2. e.s \in Sched /\ e.s.tenant \in Tenant /\ e.s.runs \in Nat
    BY <2>1 DEF Entry, Sched
  <2>3. PICK s : s = [e.s EXCEPT !.runs = @ + 1]
    OBVIOUS
  <2>4. /\ s \in Sched /\ s.tenant = e.s.tenant /\ s.active = e.s.active
        /\ s.runs = e.s.runs + 1
    BY <2>2, <2>3 DEF Sched
  <2>5. PICK n : n = [e EXCEPT !.s = s]
    OBVIOUS
  <2>6. n \in Entry /\ n.s = s /\ n.loop = e.loop /\ n # NoSched /\ s # NoSched
    <3>1. n \in Entry /\ n.s = s /\ n.loop = e.loop
      BY <2>1, <2>4, <2>5 DEF Entry
    <3>2. QED
      BY <2>4, <3>1, SchedulerAssumption
  <2>7. entries' = [entries EXCEPT ![i] = n] /\ Write(e.s.tenant, i, s)
    <3>1. entries' = [entries EXCEPT ![i].s = s] /\ Write(s.tenant, i, s)
      BY <1>1, <1>11, <2>1, <2>3 DEF Count
    <3>2. entries' = [entries EXCEPT ![i] = n]
      BY <1>0, <2>1, <2>5, <3>1 DEF TypeOK
    <3>3. QED
      BY <2>4, <3>1, <3>2
  <2>8. PICK t \in Tenant : t = e.s.tenant
    BY <2>2
  <2>9. /\ stored' \in [Tenant -> [SchedId -> Sched \cup {NoSched}]]
        /\ \A u \in Tenant, k \in SchedId :
             stored'[u][k] = stored[u][k] \/ (u = t /\ k = i /\ stored'[u][k] = s)
        /\ t \notin Flaky => stored'[t][i] = s
    BY <1>0, <2>4, <2>7, <2>8, WriteEffect
  <2>10. entries' \in [SchedId -> Entry \cup {NoSched}]
    BY <1>0, <2>6, <2>7 DEF TypeOK
  <2>11. TypeOK'
    BY <1>0, <1>2, <1>4, <2>9, <2>10 DEF TypeOK
  <2>12. entries'[i] = n /\ \A k \in SchedId : k # i => entries'[k] = entries[k]
    BY <1>0, <2>7 DEF TypeOK
  <2>13. \A k \in SchedId : Active(k)' <=> Active(k)
    BY <1>11, <2>1, <2>4, <2>6, <2>12 DEF Active
  <2>14. t \in loaded
    BY <1>0, <1>11, <2>1, <2>8 DEF Numbers
  <2>15. Numbers' /\ StoreMirrorsSchedules'
    <3>1. Put(t, i, s)
      BY <1>2, <1>11, <2>1, <2>4, <2>6, <2>7, <2>8, <2>12, <2>14 DEF Put
    <3>2. \A k \in Loop : ~Free(k)' => loops'[k].id = i \/ (~Free(k) /\ loops'[k].id = loops[k].id)
      BY <1>7
    <3>3. QED
      BY <1>0, <2>4, <2>6, <2>11, <3>1, <3>2, PutKeeps
  <2>16. OneLoop'
    <3>1. \A k \in SchedId : entries[k] # NoSched => entries'[k].loop = entries[k].loop
      BY <2>1, <2>6, <2>12
    <3>2. \A k \in SchedId : entries'[k] # NoSched => entries[k] # NoSched
      BY <1>11, <2>12
    <3>3. \A k \in SchedId : Active(k) => entries[k] # NoSched
      BY DEF Active
    <3>4. \A m \in Loop, k \in SchedId :
            (~Free(m)' /\ loops'[m].live /\ loops'[m].id = k)
              <=> (~Free(m) /\ loops[m].live /\ loops[m].id = k)
      BY <1>7
    <3>5. QED
      BY <1>0, <2>13, <3>1, <3>2, <3>3, <3>4 DEF OneLoop
  <2>17. ASSUME NEW u \in Reliable, stored'[u][i] # NoSched
         PROVE  submitted'[i] + Cardinality(NotCounting(i)') <= stored'[u][i].runs + starts'[i]
    <3>1. u \in Tenant /\ u \notin Flaky
      BY DEF Reliable
    <3>2. u = t
      BY <1>0, <1>11, <2>1, <2>8, <2>9, <2>17, <3>1 DEF Numbers
    <3>3. stored[u][i] = e.s /\ stored'[u][i] = s
      BY <1>0, <1>11, <2>1, <2>8, <2>9, <2>14, <3>1, <3>2 DEF StoreMirrorsSchedules
    <3>4. e.s # NoSched
      BY <2>2, SchedulerAssumption
    <3>5. submitted[i] + Cardinality(NotCounting(i)) <= e.s.runs + starts[i]
      BY <1>8, <3>3, <3>4 DEF CountsOk
    <3>6. submitted[i] + Cardinality(NotCounting(i)') <= e.s.runs + 1 + starts[i]
      BY <1>6, <1>9, <2>2, <3>5
    <3>7. QED
      BY <1>2, <2>4, <3>3, <3>6
  <2>18. CountsOk(i)'
    BY <1>2, <1>5, <1>8, <2>13, <2>17 DEF CountsOk
  <2>19. ASSUME NEW k \in SchedId, k # i PROVE CountsOk(k)'
    <3>1. Active(k)' <=> Active(k)
      BY <2>13
    <3>2. \A u \in Reliable : stored'[u][k] = stored[u][k]
      BY <2>9, <2>19 DEF Reliable
    <3>3. QED
      BY <1>0, <1>1, <1>2, <1>4, <2>19, <3>1, <3>2, OthersKeepCounts
  <2>20. LateInv' /\ RunInv'
    BY <2>18, <2>19 DEF LateInv, RunInv, CountsOk
  <2>21. QED
    BY <2>11, <2>15, <2>16, <2>20 DEF Inv
<1>12. QED
  BY <1>10, <1>11

\* The boot loop restores a tenant: no goroutine and no entry has one of its numbers.
LEMMA LoadStep ==
  ASSUME Inv, NEW t \in Tenant, LoadFromStore(t)
  PROVE  Inv'
<1>0. TypeOK /\ Numbers /\ StoreMirrorsSchedules /\ OneLoop /\ LateInv /\ RunInv
  BY DEF Inv
<1>1. PICK w \in [Armed(t) -> {l \in Loop : Free(l)}] :
        /\ \A i, k \in Armed(t) : i # k => w[i] # w[k]
        /\ entries' = [i \in SchedId |->
             IF stored[t][i] = NoSched THEN entries[i]
             ELSE [s |-> stored[t][i], loop |-> IF i \in Armed(t) THEN w[i] ELSE NoLoop]]
        /\ loops' = [l \in Loop |-> loops'[l]]
        /\ \A l \in Loop :
             \/ \E i \in Armed(t) : w[i] = l /\ loops'[l] = Running(i)
             \/ (\A i \in Armed(t) : w[i] # l) /\ loops'[l] = loops[l]
        /\ starts' = [i \in SchedId |-> starts[i] + IF i \in Armed(t) THEN 1 ELSE 0]
  BY LoadEffect
<1>2. /\ t \notin loaded /\ loaded' = loaded \cup {t}
      /\ UNCHANGED <<stored, submitted, late, updates, crashes>>
      /\ \E n \in {i \in SchedId : stored[t][i] # NoSched} \cup {0} :
           /\ \A i \in {j \in SchedId : stored[t][j] # NoSched} : i <= n
           /\ counter' = Advance(n)
  BY DEF LoadFromStore
<1>3. /\ counter' \in 0..MaxSched /\ counter <= counter'
      /\ \A i \in SchedId : stored[t][i] # NoSched => i <= counter'
  <2>1. PICK n \in {i \in SchedId : stored[t][i] # NoSched} \cup {0} :
           /\ \A i \in {j \in SchedId : stored[t][j] # NoSched} : i <= n
           /\ counter' = Advance(n)
    BY <1>2
  <2>2. n \in 0..MaxSched /\ counter \in 0..MaxSched /\ MaxSched \in Nat
    BY <1>0, SchedulerAssumption DEF SchedId, TypeOK
  <2>3. counter' = (IF n > counter THEN n ELSE counter)
    BY <2>1 DEF Advance
  <2>4. counter' \in 0..MaxSched /\ counter <= counter' /\ n <= counter'
    BY <2>2, <2>3
  <2>5. \A i \in SchedId : stored[t][i] # NoSched => i <= n
    BY <2>1
  <2>6. QED
    BY <2>2, <2>4, <2>5 DEF SchedId
<1>4. loaded # Tenant /\ loaded \subseteq Tenant
  BY <1>0, <1>2 DEF TypeOK
<1>5. \A i \in SchedId : stored[t][i] # NoSched =>
        /\ stored[t][i] \in Sched /\ stored[t][i].tenant = t /\ entries[i] = NoSched
        /\ \A l \in Loop : ~Free(l) => loops[l].id # i
  BY <1>0, <1>2, <1>4 DEF Numbers, TypeOK
<1>6. /\ \A i \in Armed(t) : /\ i \in SchedId /\ stored[t][i] # NoSched
                             /\ stored[t][i].active /\ w[i] \in Loop /\ Free(w[i])
      /\ \A i \in SchedId : stored[t][i] # NoSched /\ stored[t][i].active => i \in Armed(t)
  BY <1>1 DEF Armed
<1>7. /\ \A i \in SchedId : stored[t][i] = NoSched => entries'[i] = entries[i]
      /\ \A i \in SchedId : stored[t][i] # NoSched =>
           /\ entries'[i] \in Entry /\ entries'[i] # NoSched
           /\ entries'[i].s = stored[t][i]
           /\ entries'[i].loop = IF i \in Armed(t) THEN w[i] ELSE NoLoop
  <2>1. \A i \in SchedId : stored[t][i] = NoSched => entries'[i] = entries[i]
    BY <1>1
  <2>2. ASSUME NEW i \in SchedId, stored[t][i] # NoSched
        PROVE  /\ entries'[i] \in Entry /\ entries'[i] # NoSched
               /\ entries'[i].s = stored[t][i]
               /\ entries'[i].loop = IF i \in Armed(t) THEN w[i] ELSE NoLoop
    <3>1. PICK m : m = IF i \in Armed(t) THEN w[i] ELSE NoLoop
      OBVIOUS
    <3>2. m \in Loop \cup {NoLoop}
      BY <1>6, <3>1
    <3>3. entries'[i] = [s |-> stored[t][i], loop |-> m]
      BY <1>1, <2>2, <3>1
    <3>4. entries'[i] \in Entry /\ entries'[i].s = stored[t][i] /\ entries'[i].loop = m
      BY <1>5, <2>2, <3>2, <3>3 DEF Entry
    <3>5. QED
      BY <3>1, <3>4, SchedulerAssumption
  <2>3. QED
    BY <2>1, <2>2
<1>8. /\ \A i \in SchedId : /\ Running(i) \in LoopState /\ Running(i).id = i
                            /\ Running(i).at = "wait" /\ Running(i).live = TRUE
  BY DEF Running, LoopState
<1>9. \A i \in Armed(t) : loops'[w[i]] = Running(i)
  BY <1>1, <1>6
<1>10. \A l \in Loop : ~Free(l) => loops'[l] = loops[l]
  BY <1>1, <1>6
<1>11. TypeOK'
  <2>1. entries' \in [SchedId -> Entry \cup {NoSched}]
    <3>1. \A i \in SchedId : entries'[i] \in Entry \cup {NoSched}
      BY <1>0, <1>7 DEF TypeOK
    <3>2. entries' = [i \in SchedId |-> entries'[i]]
      BY <1>1
    <3>3. QED
      BY <3>1, <3>2
  <2>2. loops' \in [Loop -> LoopState]
    <3>1. \A l \in Loop : loops'[l] \in LoopState
      BY SMTT(30), <1>0, <1>1, <1>6, <1>8 DEF TypeOK
    <3>2. loops' = [l \in Loop |-> loops'[l]]
      BY <1>1
    <3>3. QED
      BY <3>1, <3>2
  <2>3. starts' \in [SchedId -> Nat]
    BY <1>0, <1>1 DEF TypeOK
  <2>4. QED
    BY <1>0, <1>2, <1>3, <2>1, <2>2, <2>3 DEF TypeOK
<1>12. \A l \in Loop : ~Free(l)' =>
         \/ \E i \in Armed(t) : w[i] = l /\ loops'[l] = Running(i)
         \/ ~Free(l) /\ loops'[l] = loops[l]
  BY <1>1 DEF Free
<1>13. \A l \in Loop : loops[l].id \in SchedId
  BY <1>0 DEF TypeOK, LoopState
<1>14. Numbers'
  <2>1. ASSUME NEW u \in Tenant, NEW i \in SchedId, stored'[u][i] # NoSched
        PROVE  /\ stored'[u][i].tenant = u
               /\ entries'[i] # NoSched => entries'[i].s.tenant = u
               /\ \A x \in Tenant : stored'[x][i] # NoSched => x = u
               /\ u \in loaded' => i <= counter'
    <3>1. /\ stored[u][i].tenant = u
          /\ entries[i] # NoSched => entries[i].s.tenant = u
          /\ \A x \in Tenant : stored[x][i] # NoSched => x = u
          /\ u \in loaded => i <= counter
      BY <1>0, <1>2, <2>1 DEF Numbers
    <3>2. entries'[i] # NoSched => entries'[i].s.tenant = u
      BY <1>5, <1>7, <3>1
    <3>3. u \in loaded' => i <= counter'
      <4>1. CASE u = t
        BY <1>2, <1>3, <2>1, <4>1
      <4>2. CASE u \in loaded
        BY <1>0, <1>3, <3>1, <4>2 DEF TypeOK, SchedId
      <4>3. QED
        BY <1>2, <4>1, <4>2
    <3>4. QED
      BY <1>2, <3>1, <3>2, <3>3
  <2>2. ASSUME NEW i \in SchedId, entries'[i] # NoSched
        PROVE  i <= counter' /\ entries'[i].s.tenant \in loaded'
    <3>1. CASE stored[t][i] # NoSched
      BY <1>2, <1>3, <1>5, <1>7, <3>1
    <3>2. CASE stored[t][i] = NoSched
      <4>1. i <= counter /\ entries'[i].s.tenant \in loaded
        BY <1>0, <1>7, <2>2, <3>2 DEF Numbers
      <4>2. QED
        BY <1>0, <1>2, <1>3, <4>1 DEF TypeOK, SchedId
    <3>3. QED
      BY <3>1, <3>2
  <2>3. ASSUME NEW l \in Loop, ~Free(l)'
        PROVE  loops'[l].id <= counter' /\ entries'[loops'[l].id] # NoSched
    <3>1. CASE \E i \in Armed(t) : w[i] = l /\ loops'[l] = Running(i)
      BY <1>3, <1>6, <1>7, <1>8, <3>1
    <3>2. CASE ~Free(l) /\ loops'[l] = loops[l]
      <4>1. loops[l].id <= counter /\ entries[loops[l].id] # NoSched
        BY <1>0, <1>4, <3>2 DEF Numbers
      <4>2. entries'[loops[l].id] # NoSched
        BY <1>7, <1>13, <4>1
      <4>3. QED
        BY <1>0, <1>3, <1>13, <3>2, <4>1, <4>2 DEF TypeOK, SchedId
    <3>3. QED
      BY <1>12, <2>3, <3>1, <3>2
  <2>4. QED
    BY <2>1, <2>2, <2>3 DEF Numbers
<1>15. StoreMirrorsSchedules'
  <2> SUFFICES ASSUME NEW u \in loaded' \cap Reliable, NEW i \in SchedId
               PROVE  stored[u][i] = IF entries'[i] # NoSched /\ entries'[i].s.tenant = u
                                       THEN entries'[i].s ELSE NoSched
    BY <1>2 DEF StoreMirrorsSchedules
  <2>1. u \in Tenant
    BY DEF Reliable
  <2>2. CASE stored[t][i] # NoSched
    <3>1. /\ entries'[i] # NoSched /\ entries'[i].s = stored[t][i] /\ stored[t][i].tenant = t
      BY <1>5, <1>7, <2>2
    <3>2. stored[u][i] # NoSched => u = t
      BY <1>0, <2>1, <2>2 DEF Numbers
    <3>3. QED
      BY <3>1, <3>2
  <2>3. CASE stored[t][i] = NoSched
    <3>1. entries'[i] = entries[i]
      BY <1>7, <2>3
    <3>2. CASE u = t
      <4>1. entries[i] # NoSched => entries[i].s.tenant # t
        BY <1>0, <1>2 DEF Numbers
      <4>2. QED
        BY <2>3, <3>1, <3>2, <4>1
    <3>3. CASE u \in loaded
      BY <1>0, <3>1, <3>3 DEF StoreMirrorsSchedules
    <3>4. QED
      BY <1>2, <3>2, <3>3
  <2>4. QED
    BY <2>2, <2>3
<1>16. \A i \in SchedId : Active(i)' <=> (i \in Armed(t) \/ Active(i))
  BY <1>5, <1>6, <1>7 DEF Active
<1>17. OneLoop'
  <2> SUFFICES ASSUME NEW k \in SchedId
               PROVE  /\ entries'[k] # NoSched =>
                           entries'[k].loop \in IF Active(k)' THEN Loop ELSE {NoLoop}
                      /\ \A m \in Loop : (~Free(m)' /\ loops'[m].live /\ loops'[m].id = k)
                                           <=> (Active(k)' /\ m = entries'[k].loop)
    BY DEF OneLoop
  <2>1. CASE k \in Armed(t)
    <3>1. /\ entries'[k] # NoSched /\ entries'[k].loop = w[k] /\ w[k] \in Loop /\ Active(k)'
      BY <1>6, <1>7, <1>16, <2>1
    <3>2. loops'[w[k]] = Running(k)
      BY <1>9, <2>1
    <3>3. ASSUME NEW m \in Loop, ~Free(m)', loops'[m].id = k PROVE m = w[k]
      <4>1. CASE \E i \in Armed(t) : w[i] = m /\ loops'[m] = Running(i)
        BY <1>6, <1>8, <3>3, <4>1
      <4>2. CASE ~Free(m) /\ loops'[m] = loops[m]
        BY <1>5, <1>6, <2>1, <3>3, <4>2
      <4>3. QED
        BY <1>12, <3>3, <4>1, <4>2
    <3>4. QED
      BY <1>8, <3>1, <3>2, <3>3 DEF Free
  <2>2. CASE k \notin Armed(t) /\ stored[t][k] # NoSched
    <3>1. /\ entries'[k].loop = NoLoop /\ ~Active(k)'
      BY <1>5, <1>7, <1>16, <2>2 DEF Active
    <3>2. \A m \in Loop : ~Free(m)' => loops'[m].id # k
      BY <1>5, <1>6, <1>8, <1>12, <2>2
    <3>3. QED
      BY <3>1, <3>2
  <2>3. CASE stored[t][k] = NoSched
    <3>1. k \notin Armed(t) /\ entries'[k] = entries[k] /\ (Active(k)' <=> Active(k))
      BY <1>6, <1>7, <1>16, <2>3
    <3>2. \A m \in Loop : (~Free(m)' /\ loops'[m].live /\ loops'[m].id = k)
                            <=> (~Free(m) /\ loops[m].live /\ loops[m].id = k)
      <4>1. ASSUME NEW m \in Loop, ~Free(m)', loops'[m].id = k PROVE ~Free(m) /\ loops'[m] = loops[m]
        BY <1>6, <1>8, <1>12, <3>1, <4>1
      <4>2. \A m \in Loop : ~Free(m) => loops'[m] = loops[m]
        BY <1>10
      <4>3. QED
        BY <4>1, <4>2 DEF Free
    <3>3. QED
      BY <1>0, <3>1, <3>2 DEF OneLoop
  <2>4. QED
    BY <1>6, <2>1, <2>2, <2>3
<1>18. \A i \in SchedId : CountsOk(i)'
  <2> SUFFICES ASSUME NEW i \in SchedId PROVE CountsOk(i)'
    OBVIOUS
  <2>1. PICK l \in Loop : i \in Armed(t) => l = w[i]
    BY <1>6, SchedulerAssumption
  <2>2. PICK n \in {0, 1} : n = IF i \in Armed(t) THEN 1 ELSE 0
    OBVIOUS
  <2>3. StartsAtMost(i, n, l)
    <3> SUFFICES ASSUME NEW k \in Loop, ~Free(k)', loops'[k].id = i
                 PROVE  \/ k = l /\ n = 1 /\ loops'[k].at = "wait"
                        \/ ~Free(k) /\ loops[k].id = i /\ loops'[k].at = loops[k].at
      BY DEF StartsAtMost
    <3>1. CASE \E j \in Armed(t) : w[j] = k /\ loops'[k] = Running(j)
      <4>1. i \in Armed(t) /\ w[i] = k /\ loops'[k] = Running(i)
        BY <1>6, <1>8, <3>1
      <4>2. QED
        BY <1>8, <2>1, <2>2, <4>1
    <3>2. CASE ~Free(k) /\ loops'[k] = loops[k]
      BY <3>2
    <3>3. QED
      BY <1>12, <3>1, <3>2
  <2>4. starts'[i] = starts[i] + n
    BY <1>1, <2>2
  <2>5. CountsOk(i)
    BY <1>0, Counts
  <2>6. ~Active(i)' => ~Active(i) \/ late'[i] = 0
    BY <1>16
  <2>7. QED
    BY <1>0, <1>2, <2>3, <2>4, <2>5, <2>6, CountsKeep
<1>19. LateInv' /\ RunInv'
  BY <1>18 DEF LateInv, RunInv, CountsOk
<1>20. QED
  BY <1>11, <1>14, <1>15, <1>17, <1>19 DEF Inv

-----------------------------------------------------------------------------
(* The theorems. *)

\* A process that was never started has nothing to keep.
LEMMA InitInv == Init => Inv
<1> SUFFICES ASSUME Init PROVE Inv
  OBVIOUS
<1>1. Exited \in LoopState /\ Exited.at = "exit"
  <2>1. 1 \in SchedId
    BY SchedulerAssumption DEF SchedId
  <2>2. QED
    BY <2>1 DEF Exited, LoopState
<1>2. TypeOK
  BY <1>1, SchedulerAssumption DEF Init, TypeOK
<1>3. \A l \in Loop : Free(l) /\ loops[l].at = "exit"
  BY <1>1 DEF Init, Free
<1>4. \A i \in SchedId : entries[i] = NoSched /\ \A t \in Tenant : stored[t][i] = NoSched
  BY DEF Init
<1>5. Numbers /\ StoreMirrorsSchedules /\ OneLoop
  BY <1>3, <1>4 DEF Init, Numbers, StoreMirrorsSchedules, OneLoop, Active
<1>6. LateInv
  <2> SUFFICES ASSUME NEW i \in SchedId
               PROVE  /\ late[i] <= starts[i]
                      /\ Cardinality(Of(i)) <= starts[i]
                      /\ late[i] + Cardinality(Submitting(i)) <= starts[i]
    BY DEF LateInv
  <2>1. Of(i) = {} /\ Submitting(i) = {}
    BY <1>3 DEF Of, Submitting
  <2>2. QED
    BY <2>1, FS_EmptySet DEF Init
<1>7. RunInv
  BY <1>4 DEF RunInv, Reliable
<1>8. QED
  BY <1>2, <1>5, <1>6, <1>7 DEF Inv

\* Every step of the process keeps the invariant.
LEMMA NextInv == Inv /\ [Next]_vars => Inv'
<1> SUFFICES ASSUME Inv, [Next]_vars PROVE Inv'
  OBVIOUS
<1>1. ASSUME NEW t \in Tenant, NEW x \in Target, Add(t, x) PROVE Inv'
  BY <1>1, AddStep
<1>2. ASSUME NEW i \in SchedId, NEW x \in Target, NEW on \in BOOLEAN, NEW rearm \in BOOLEAN,
             Update(i, x, on, rearm)
      PROVE  Inv'
  BY <1>2, UpdateStep
<1>3. ASSUME NEW i \in SchedId, Delete(i) PROVE Inv'
  BY <1>3, DeleteStep
<1>4. ASSUME NEW l \in Loop, Tick(l) PROVE Inv'
  BY <1>4, TickStep
<1>5. ASSUME NEW l \in Loop, Submit(l) PROVE Inv'
  BY <1>5, SubmitStep
<1>6. ASSUME NEW l \in Loop, Count(l) PROVE Inv'
  BY <1>6, CountStep
<1>7. ASSUME NEW l \in Loop, Exit(l) PROVE Inv'
  BY <1>7, ExitStep
<1>8. ASSUME NEW t \in Tenant, DeleteTenant(t) PROVE Inv'
  BY <1>8, DeleteTenantStep
<1>9. ASSUME NEW t \in Tenant, LoadFromStore(t) PROVE Inv'
  BY <1>9, LoadStep
<1>10. CASE Crash
  BY <1>10, CrashStep
<1>11. CASE UNCHANGED vars
  <2>1. TypeOK' /\ Numbers' /\ StoreMirrorsSchedules'
    BY <1>11 DEF vars, Inv, TypeOK, Numbers, StoreMirrorsSchedules, Free
  <2>2. OneLoop'
    BY <1>11 DEF vars, Inv, OneLoop, Active, Free
  <2>3. \A i : Of(i)' = Of(i) /\ Submitting(i)' = Submitting(i) /\ NotCounting(i)' = NotCounting(i)
    BY <1>11 DEF vars, Of, Submitting, NotCounting, Free
  <2>4. \A i : Active(i)' <=> Active(i)
    BY <1>11 DEF vars, Active
  <2>5. LateInv' /\ RunInv'
    BY <1>11, <2>3, <2>4 DEF vars, Inv, LateInv, RunInv
  <2>6. QED
    BY <2>1, <2>2, <2>5 DEF Inv
<1>12. QED
  BY <1>1, <1>2, <1>3, <1>4, <1>5, <1>6, <1>7, <1>8, <1>9, <1>10, <1>11 DEF Next

\* The invariant says what the two properties say.
LEMMA InvImplies == Inv => LoopsUnderControl /\ SchedulesAreExact
<1> SUFFICES ASSUME Inv PROVE LoopsUnderControl /\ SchedulesAreExact
  OBVIOUS
<1>0. TypeOK /\ Numbers /\ StoreMirrorsSchedules /\ OneLoop /\ LateInv /\ RunInv
  BY DEF Inv
<1>1. OneLoopPerActive
  <2> SUFFICES ASSUME NEW i \in SchedId
               PROVE  LET alive == {l \in Loop : ~Free(l) /\ loops[l].live /\ loops[l].id = i}
                      IN  IF Active(i) THEN alive = {entries[i].loop} ELSE alive = {}
    BY DEF OneLoopPerActive
  <2>1. /\ entries[i] # NoSched => entries[i].loop \in IF Active(i) THEN Loop ELSE {NoLoop}
        /\ \A l \in Loop : (~Free(l) /\ loops[l].live /\ loops[l].id = i)
                             <=> (Active(i) /\ l = entries[i].loop)
    BY <1>0 DEF OneLoop
  <2>2. Active(i) => entries[i].loop \in Loop
    BY <2>1 DEF Active
  <2>3. QED
    BY <2>1, <2>2
<1>2. LateBounded
  BY <1>0 DEF LateInv, LateBounded
<1>3. RunsCounted
  <2> SUFFICES ASSUME NEW i \in SchedId, entries[i] # NoSched,
                      entries[i].s.tenant \in Reliable
               PROVE  submitted[i] <= entries[i].s.runs + starts[i]
    BY DEF RunsCounted
  <2>1. PICK t \in Reliable : t = entries[i].s.tenant
    OBVIOUS
  <2>2. t \in loaded /\ entries[i].s \in Sched
    BY <1>0, <2>1 DEF Numbers, TypeOK, Entry
  <2>3. stored[t][i] = entries[i].s
    BY <1>0, <2>1, <2>2 DEF StoreMirrorsSchedules
  <2>4. stored[t][i] # NoSched
    BY <2>2, <2>3, SchedulerAssumption
  <2>5. submitted[i] + Cardinality(NotCounting(i)) <= stored[t][i].runs + starts[i]
    BY <1>0, <2>4 DEF RunInv
  <2>6. Cardinality(NotCounting(i)) \in Nat
    BY SetSizes
  <2>7. submitted[i] \in Nat /\ starts[i] \in Nat /\ stored[t][i].runs \in Nat
    BY <1>0, <2>2, <2>3 DEF TypeOK, Sched
  <2>8. QED
    BY <2>3, <2>5, <2>6, <2>7
<1>4. QED
  BY <1>0, <1>1, <1>2, <1>3 DEF LoopsUnderControl, SchedulesAreExact

\* Whatever is added, patched, deleted, restored or cut off, in whatever order the
\* goroutines go: the goroutine that runs for a schedule is the one startLocked gave it
\* last, and a cancelled one submits at most once more.
THEOREM LoopsStayUnderControl == Spec => []LoopsUnderControl
  BY InitInv, NextInv, InvImplies, PTL DEF Spec

\* For the tenants whose writes succeed, persist and LoadFromStore keep bucket and
\* m.schedules the same, and run_count is behind the jobs submitted by no more than the
\* goroutines that were started.
THEOREM SchedulesStayExact == Spec => []SchedulesAreExact
  BY InitInv, NextInv, InvImplies, PTL DEF Spec
=============================================================================
