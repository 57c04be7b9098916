--------------------------- MODULE JobQueue_proofs ---------------------------
(***************************************************************************)
(* Proofs about the job queue, for every value of its constants.           *)
(*                                                                         *)
(* Most steps only change jobs that are already there, drop jobs, or copy  *)
(* a job to its bucket: Benign says so once, and each invariant below is   *)
(* shown to survive any benign step.  What is left are the steps that take *)
(* or restore ids.                                                         *)
(*                                                                         *)
(* The second half, from SnInv on, is about what the queue promises to the *)
(* tenants whose writes reach the store: a job is handed out once, a       *)
(* worker finishes its own job, and the queue with its map, buckets and    *)
(* restarts implements JobService.  It rests on the id invariant, on the   *)
(* mirror, and on SnInv: a submission has one id for ever.  What a         *)
(* reliable tenant can see is a function of its bucket, so every step is   *)
(* first reduced to what it does to the buckets of the reliable tenants.   *)
(***************************************************************************)
EXTENDS JobQueue, TLAPS

\* Jobs keep their tenant and submission; a bucket gets only jobs of its tenant.
MapsBenign ==
  /\ \A k \in JobId : jobs'[k] # NoJob =>
       /\ jobs[k] # NoJob
       /\ jobs'[k].tenant = jobs[k].tenant /\ jobs'[k].sn = jobs[k].sn
  /\ \A t \in Tenant, k \in JobId : stored'[t][k] # NoJob =>
       \/ /\ stored[t][k] # NoJob
          /\ stored'[t][k].tenant = stored[t][k].tenant
          /\ stored'[t][k].sn = stored[t][k].sn
       \/ /\ jobs[k] # NoJob /\ jobs[k].tenant = t
          /\ stored'[t][k].tenant = t /\ stored'[t][k].sn = jobs[k].sn

Benign == MapsBenign /\ UNCHANGED <<counter, inflight, loaded, restoring, submits>>

-----------------------------------------------------------------------------
(* Type correctness.  An id is in use only if a submission took it, so the   *)
(* counter, which LoadFromStore sets from ids in use, never runs ahead of    *)
(* the number of submissions.                                                *)

Bounded ==
  /\ counter <= submits
  /\ \A c \in Client : inflight[c] # NoJob => inflight[c].id <= submits
  /\ \A t \in Tenant, i \in JobId : stored[t][i] # NoJob => i <= submits
  /\ \A i \in JobId : jobs[i] # NoJob => i <= submits

TypeInv == TypeOK /\ Bounded

\* The types of the two maps, after a step.
MapTypes ==
  /\ jobs \in [JobId -> Job \cup {NoJob}]
  /\ stored \in [Tenant -> [JobId -> Job \cup {NoJob}]]

\* The assignments of Set (status, agent, time) keep the identity of every job.
LEMMA SetBenign ==
  ASSUME TypeOK, NEW i \in JobId, jobs[i] # NoJob,
         NEW a \in Agent \cup {None}, NEW s \in Status, Set(i, a, s)
  PROVE  MapTypes' /\ MapsBenign
<1> DEFINE j == [jobs[i] EXCEPT !.agent = a, !.status = s, !.updated = now]
<1>1. jobs[i] \in Job
  BY DEF TypeOK
<1>2. /\ j \in Job /\ j.tenant \in Tenant
      /\ j.tenant = jobs[i].tenant /\ j.sn = jobs[i].sn
  BY <1>1 DEF TypeOK, Job
<1>3. jobs' = [jobs EXCEPT ![i] = j]
  BY DEF Set
<1>4. stored' = [stored EXCEPT ![j.tenant][i] = j] \/ stored' = stored
  BY DEF Set, Write
<1> HIDE DEF j
<1>5. jobs' \in [JobId -> Job \cup {NoJob}]
  BY <1>2, <1>3 DEF TypeOK
<1>6. stored' \in [Tenant -> [JobId -> Job \cup {NoJob}]]
  <2>1. CASE stored' = stored
    BY <2>1 DEF TypeOK
  <2>2. CASE stored' = [stored EXCEPT ![j.tenant][i] = j]
    <3>1. [stored[j.tenant] EXCEPT ![i] = j] \in [JobId -> Job \cup {NoJob}]
      BY <1>2 DEF TypeOK
    <3>2. QED
      BY <1>2, <2>2, <3>1 DEF TypeOK
  <2>3. QED
    BY <1>4, <2>1, <2>2
<1>7. ASSUME NEW k \in JobId, jobs'[k] # NoJob
      PROVE  /\ jobs[k] # NoJob
             /\ jobs'[k].tenant = jobs[k].tenant /\ jobs'[k].sn = jobs[k].sn
  BY <1>2, <1>3, <1>7 DEF TypeOK
<1>8. ASSUME NEW t \in Tenant, NEW k \in JobId, stored'[t][k] # NoJob
      PROVE  \/ stored[t][k] # NoJob /\ stored'[t][k] = stored[t][k]
             \/ k = i /\ t = j.tenant /\ stored'[t][k] = j
  BY <1>2, <1>4, <1>8 DEF TypeOK
<1>9. QED
  BY <1>2, <1>5, <1>6, <1>7, <1>8 DEF MapTypes, MapsBenign

\* A claim is a Set.
LEMMA ClaimBenign ==
  ASSUME TypeOK, NEW t \in Tenant, NEW a \in Agent \cup {None},
         NEW cap \in Capability \cup {None}, NEW i \in JobId,
         ClaimForTenant(t, a, cap, i)
  PROVE  /\ MapTypes' /\ MapsBenign
         /\ claims' \in [Serial -> Nat]
         /\ jobs[i] \in Job
<1>1. jobs[i] # NoJob
  BY DEF ClaimForTenant, Best, Match, Present
<1>2. jobs[i] \in Job
  BY <1>1 DEF TypeOK
<1>3. jobs[i].agent \in Agent \cup {None} /\ jobs[i].sn \in Serial
  BY <1>2 DEF Job
<1>4. PICK b \in Agent \cup {None} : Set(i, b, "running")
  BY <1>3 DEF ClaimForTenant
<1>5. "running" \in Status
  BY DEF Status
<1>6. MapTypes' /\ MapsBenign
  BY <1>1, <1>4, <1>5, SetBenign
<1>7. claims' \in [Serial -> Nat]
  BY <1>3 DEF ClaimForTenant, TypeOK
<1>8. QED
  BY <1>2, <1>6, <1>7

\* So is a status update.
LEMMA UpdateBenign ==
  ASSUME TypeOK, NEW t \in Tenant, NEW i \in JobId, NEW s \in Status,
         Update(t, i, s)
  PROVE  MapTypes' /\ MapsBenign
<1>1. jobs[i] # NoJob
  BY DEF Update, Present
<1>2. jobs[i].agent \in Agent \cup {None}
  BY <1>1 DEF TypeOK, Job
<1>3. QED
  BY <1>1, <1>2, SetBenign DEF Update

\* A step that leaves both maps alone.
LEMMA SameBenign ==
  ASSUME TypeOK, UNCHANGED <<jobs, stored>>
  PROVE  MapTypes' /\ MapsBenign
  BY DEF TypeOK, MapTypes, MapsBenign

\* ExpireStale changes the status of jobs, and persists some or all of them.
LEMMA ExpireBenign ==
  ASSUME TypeOK, ExpireStale
  PROVE  MapTypes' /\ MapsBenign
<1> DEFINE j(i) == [jobs[i] EXCEPT !.status = "failed", !.updated = now]
<1>1. \A i \in Stale : /\ i \in JobId /\ jobs[i] # NoJob /\ j(i) \in Job
                       /\ j(i).tenant = jobs[i].tenant /\ j(i).sn = jobs[i].sn
  <2> SUFFICES ASSUME NEW i \in Stale
               PROVE  /\ i \in JobId /\ jobs[i] # NoJob /\ j(i) \in Job
                      /\ j(i).tenant = jobs[i].tenant /\ j(i).sn = jobs[i].sn
    OBVIOUS
  <2>1. i \in JobId /\ jobs[i] # NoJob
    BY DEF Stale
  <2>2. jobs[i] \in Job /\ now \in Nat /\ "failed" \in Status
    BY <2>1 DEF TypeOK, Status
  <2>3. QED
    BY <2>1, <2>2 DEF Job
<1>2. jobs' = [i \in JobId |-> IF i \in Stale THEN j(i) ELSE jobs[i]]
  BY DEF ExpireStale
<1>3. PICK done \in SUBSET Stale :
        stored' = [t \in Tenant |-> [i \in JobId |->
          IF i \in done /\ jobs[i].tenant = t THEN jobs'[i] ELSE stored[t][i]]]
  BY DEF ExpireStale
<1> HIDE DEF j
<1>4. jobs' \in [JobId -> Job \cup {NoJob}]
  BY <1>1, <1>2 DEF TypeOK
<1>5. \A t \in Tenant, i \in JobId :
        stored'[t][i] = IF i \in done /\ jobs[i].tenant = t THEN jobs'[i]
                                                            ELSE stored[t][i]
  BY <1>3
<1>6. stored' \in [Tenant -> [JobId -> Job \cup {NoJob}]]
  BY <1>3, <1>4 DEF TypeOK
<1>7. \A k \in JobId : jobs'[k] # NoJob =>
        /\ jobs[k] # NoJob
        /\ jobs'[k].tenant = jobs[k].tenant /\ jobs'[k].sn = jobs[k].sn
  BY <1>1, <1>2
<1>8. QED
  BY <1>4, <1>5, <1>6, <1>7 DEF MapTypes, MapsBenign

\* Prune drops jobs, and deletes the stored copy of some or all of them.
LEMMA PruneBenign ==
  ASSUME TypeOK, Prune
  PROVE  MapTypes' /\ MapsBenign
<1>1. jobs' = [i \in JobId |-> IF i \in Prunable THEN NoJob ELSE jobs[i]]
  BY DEF Prune
<1>2. PICK done \in SUBSET Prunable :
        stored' = [t \in Tenant |-> [i \in JobId |->
          IF i \in done /\ jobs[i].tenant = t THEN NoJob ELSE stored[t][i]]]
  BY DEF Prune
<1>3. MapTypes'
  BY <1>1, <1>2 DEF TypeOK, MapTypes
<1>4. QED
  BY <1>1, <1>2, <1>3 DEF MapsBenign

\* Deleting a tenant empties its bucket.
LEMMA DeleteBenign ==
  ASSUME TypeOK, NEW t \in Tenant, DeleteTenant(t)
  PROVE  MapTypes' /\ MapsBenign
  BY DEF TypeOK, DeleteTenant, MapTypes, MapsBenign

\* The steps that take or restore ids, or forget everything.
IdStep ==
  \/ \E c \in Client : \/ \E r \in Requests : Post(c, r)
                       \/ \E r \in Schedules : ScheduledSubmit(c, r)
                       \/ SubmitInsert(c)
  \/ \E t \in Tenant : LoadBegin(t)
  \/ LoadEnd
  \/ Crash

\* Every other step is benign and keeps the types.
LEMMA OtherSteps ==
  ASSUME TypeOK, [Next]_vars
  PROVE  IdStep \/ (Benign /\ TypeOK')
<1> USE DEF Benign
<1>1. ASSUME NEW a \in Agent, NEW cap \in Capability, WorkerClaim(a, cap)
      PROVE  Benign /\ TypeOK'
  <2>1. PICK i \in JobId :
          /\ ClaimForTenant(Home[a], a, cap, i)
          /\ held' = [held EXCEPT ![a] = @ \cup {[id |-> i, sn |-> jobs[i].sn]}]
    BY <1>1 DEF WorkerClaim
  <2>2. Home[a] \in Tenant
    BY ConstantAssumption
  <2>3. /\ MapTypes' /\ MapsBenign /\ claims' \in [Serial -> Nat]
        /\ jobs[i] \in Job
    BY <2>1, <2>2, ClaimBenign
  <2>4. held' \in [Agent -> SUBSET [id : JobId, sn : Serial]]
    BY <2>1, <2>3 DEF TypeOK, Job
  <2>5. QED
    BY <1>1, <2>3, <2>4 DEF WorkerClaim, TypeOK, MapTypes
<1>2. ASSUME NEW t \in Tenant, NEW a \in Agent \cup {None},
             NEW cap \in Capability \cup {None}, OtherClaim(t, a, cap)
      PROVE  Benign /\ TypeOK'
  <2>1. PICK i \in JobId : ClaimForTenant(t, a, cap, i)
    BY <1>2 DEF OtherClaim
  <2>2. MapTypes' /\ MapsBenign /\ claims' \in [Serial -> Nat]
    BY <2>1, ClaimBenign
  <2>3. QED
    BY <1>2, <2>2 DEF OtherClaim, TypeOK, MapTypes
<1>3. ASSUME NEW a \in Agent, NEW h \in held[a], NEW s \in {"done", "failed"},
             WorkerFinish(a, h, s)
      PROVE  Benign /\ TypeOK'
  <2>1. Home[a] \in Tenant /\ s \in Status
    BY ConstantAssumption DEF Status
  <2>2. h \in [id : JobId, sn : Serial]
    BY DEF TypeOK
  <2>3. h.id \in JobId
    BY <2>2
  <2>4. MapTypes' /\ MapsBenign
    BY <1>3, <2>1, <2>3, UpdateBenign, SameBenign DEF WorkerFinish
  <2>5. held' \in [Agent -> SUBSET [id : JobId, sn : Serial]]
    BY <1>3 DEF WorkerFinish, TypeOK
  <2>6. QED
    BY <1>3, <2>4, <2>5 DEF WorkerFinish, TypeOK, MapTypes
<1>4. ASSUME NEW a \in Agent,
             AgentCrash(a) \/ \E h \in held[a] : WorkerGiveUp(a, h)
      PROVE  Benign /\ TypeOK'
  <2>1. MapTypes' /\ MapsBenign
    BY <1>4, SameBenign DEF AgentCrash, WorkerGiveUp
  <2>2. held' \in [Agent -> SUBSET [id : JobId, sn : Serial]]
    BY <1>4 DEF AgentCrash, WorkerGiveUp, TypeOK
  <2>3. QED
    BY <1>4, <2>1, <2>2 DEF AgentCrash, WorkerGiveUp, TypeOK, MapTypes
<1>5. ASSUME NEW t \in Tenant, NEW i \in JobId, NEW s \in Status, Patch(t, i, s)
      PROVE  Benign /\ TypeOK'
  <2>1. MapTypes' /\ MapsBenign
    BY <1>5, UpdateBenign DEF Patch
  <2>2. jobs[i].sn \in Serial
    BY <1>5 DEF Patch, Update, Present, TypeOK, Job
  <2>3. requeues' \in [Serial -> Nat]
    BY <1>5, <2>2 DEF Patch, TypeOK
  <2>4. patches' \in 0..MaxPatch
    BY <1>5, ConstantAssumption DEF Patch, TypeOK
  <2>5. QED
    BY <1>5, <2>1, <2>3, <2>4 DEF Patch, TypeOK, MapTypes
<1>6. ASSUME NEW t \in Tenant, NEW i \in JobId, Cancel(t, i)
      PROVE  Benign /\ TypeOK'
  <2>1. Update(t, i, "cancelled") /\ "cancelled" \in Status
    BY <1>6 DEF Cancel, Update, Status
  <2>2. MapTypes' /\ MapsBenign
    BY <2>1, UpdateBenign
  <2>3. QED
    BY <1>6, <2>2 DEF Cancel, TypeOK, MapTypes
<1>7. ASSUME NEW t \in Tenant, DeleteTenant(t)
      PROVE  Benign /\ TypeOK'
  BY <1>7, DeleteBenign DEF DeleteTenant, TypeOK, MapTypes
<1>8. CASE ExpireStale
  BY <1>8, ExpireBenign DEF ExpireStale, TypeOK, MapTypes
<1>9. CASE Prune
  BY <1>9, PruneBenign DEF Prune, TypeOK, MapTypes
<1>10. CASE Tick
  BY <1>10, SameBenign DEF Tick, TypeOK, MapTypes
<1>11. CASE UNCHANGED vars
  BY <1>11, SameBenign DEF vars, TypeOK, MapTypes
<1>12. QED
  BY <1>1, <1>2, <1>3, <1>4, <1>5, <1>6, <1>7, <1>8, <1>9, <1>10, <1>11
     DEF Next, IdStep

\* What SubmitBegin builds is a job, and its id is in range.
LEMMA SubmitBeginType ==
  ASSUME TypeInv, NEW c \in Client, NEW r \in Request,
         NEW a \in Agent \cup {None}, SubmitBegin(c, r, a)
  PROVE  TypeInv'
<1> DEFINE j == [tenant |-> r.tenant, agent |-> a, capability |-> r.capability,
                 priority |-> r.priority, status |-> "pending", created |-> now,
                 updated |-> now, expires |-> Expiry(r.ttl), sn |-> submits + 1]
<1>1. /\ submits \in Nat /\ counter \in Nat /\ submits + 1 \in Serial
      /\ counter + 1 \in JobId /\ counter + 1 <= submits + 1
  BY ConstantAssumption DEF TypeInv, TypeOK, Bounded, SubmitBegin, Serial, JobId
<1>2. Expiry(r.ttl) \in Nat
  BY DEF Expiry, TypeInv, TypeOK, Request
<1>3. j \in Job
  BY <1>1, <1>2 DEF TypeInv, TypeOK, Job, Request, Status
<1>4. /\ inflight' = [inflight EXCEPT ![c] = [id |-> counter + 1, job |-> j]]
      /\ counter' = counter + 1 /\ submits' = submits + 1
      /\ UNCHANGED <<jobs, stored, held, loaded, restoring, now, claims,
                     requeues, crashes, patches>>
  BY DEF SubmitBegin
<1> HIDE DEF j
<1>5. [id |-> counter + 1, job |-> j] \in [id : JobId, job : Job]
  BY <1>1, <1>3
<1>6. inflight' \in [Client -> [id : JobId, job : Job] \cup {NoJob}]
  BY <1>4, <1>5 DEF TypeInv, TypeOK
<1>7. TypeOK'
  BY <1>1, <1>4, <1>6, ConstantAssumption DEF TypeInv, TypeOK, Serial, JobId
<1>8. \A d \in Client : inflight'[d] # NoJob => inflight'[d].id <= submits'
  <2> SUFFICES ASSUME NEW d \in Client, inflight'[d] # NoJob
               PROVE  inflight'[d].id <= submits'
    OBVIOUS
  <2>1. CASE d = c
    BY <1>1, <1>4, <2>1 DEF TypeInv, TypeOK
  <2>2. CASE d # c
    <3>1. inflight'[d] = inflight[d] /\ inflight[d].id <= submits
      BY <1>4, <2>2 DEF TypeInv, TypeOK, Bounded
    <3>2. inflight[d].id \in JobId
      BY <3>1 DEF TypeInv, TypeOK
    <3>3. QED
      BY <1>1, <1>4, <3>1, <3>2 DEF JobId
  <2>3. QED
    BY <2>1, <2>2
<1>9. \A i \in JobId : i <= submits => i <= submits'
  BY <1>1, <1>4 DEF JobId
<1>10. Bounded'
  BY <1>1, <1>4, <1>8, <1>9 DEF TypeInv, Bounded
<1>11. QED
  BY <1>7, <1>10 DEF TypeInv

\* Inserting a job under its id.
LEMMA SubmitInsertType ==
  ASSUME TypeInv, NEW c \in Client, SubmitInsert(c)
  PROVE  TypeInv'
<1> DEFINE i == inflight[c].id
           j == inflight[c].job
<1>1. i \in JobId /\ j \in Job /\ j.tenant \in Tenant /\ i <= submits
  BY DEF SubmitInsert, TypeInv, TypeOK, Bounded, Job
<1>2. jobs' = [jobs EXCEPT ![i] = j]
  BY DEF SubmitInsert
<1>3. stored' = [stored EXCEPT ![j.tenant][i] = j] \/ stored' = stored
  BY DEF SubmitInsert, Write
<1>4. inflight' = [inflight EXCEPT ![c] = NoJob]
  BY DEF SubmitInsert
<1> HIDE DEF i, j
<1>5. stored' \in [Tenant -> [JobId -> Job \cup {NoJob}]]
  <2>1. [stored[j.tenant] EXCEPT ![i] = j] \in [JobId -> Job \cup {NoJob}]
    BY <1>1 DEF TypeInv, TypeOK
  <2>2. QED
    BY <1>1, <1>3, <2>1 DEF TypeInv, TypeOK
<1>6. TypeOK'
  BY <1>1, <1>2, <1>4, <1>5 DEF TypeInv, TypeOK, SubmitInsert
<1>7. \A t \in Tenant, k \in JobId : stored'[t][k] # NoJob => k <= submits
  BY <1>1, <1>3 DEF TypeInv, TypeOK, Bounded
<1>8. \A k \in JobId : jobs'[k] # NoJob => k <= submits
  BY <1>1, <1>2 DEF TypeInv, TypeOK, Bounded
<1>9. submits' = submits /\ counter' = counter
  BY DEF SubmitInsert
<1>10. \A d \in Client : inflight'[d] # NoJob => inflight'[d].id <= submits
  BY <1>4 DEF TypeInv, TypeOK, Bounded
<1>11. QED
  BY <1>6, <1>7, <1>8, <1>9, <1>10 DEF TypeInv, Bounded

\* The second step of LoadFromStore.
LEMMA LoadEndType ==
  ASSUME TypeInv, LoadEnd
  PROVE  TypeInv'
<1> DEFINE t == restoring.tenant
<1>1. t \in Tenant
  BY DEF LoadEnd, Unlocked, TypeInv, TypeOK
<1>2. jobs' = [i \in JobId |-> IF stored[t][i] # NoJob THEN stored[t][i] ELSE jobs[i]]
  BY DEF LoadEnd
<1>3. PICK n \in 0..MaxSubmit :
        /\ HighestStored(t, n)
        /\ counter' = IF n > restoring.seen THEN n ELSE counter
  BY DEF LoadEnd, Advance
<1>4. n <= submits
  BY <1>1, <1>3 DEF HighestStored, TypeInv, TypeOK, Bounded
<1>5. /\ loaded' = loaded \cup {t} /\ restoring' = Idle
      /\ UNCHANGED <<stored, inflight, held, now, submits, claims, requeues,
                     crashes, patches>>
  BY DEF LoadEnd
<1> HIDE DEF t
<1>6. counter' \in 0..MaxSubmit /\ counter' <= submits
  BY <1>3, <1>4 DEF TypeInv, TypeOK, Bounded
<1>7. Idle \in [tenant : Tenant \cup {None}, seen : 0..MaxSubmit]
  BY ConstantAssumption DEF Idle
<1>8. TypeOK'
  BY <1>1, <1>2, <1>5, <1>6, <1>7 DEF TypeInv, TypeOK
<1>9. \A i \in JobId : jobs'[i] # NoJob => i <= submits
  BY <1>1, <1>2 DEF TypeInv, Bounded
<1>10. QED
  BY <1>5, <1>6, <1>8, <1>9 DEF TypeInv, Bounded

\* One step keeps TypeInv.
LEMMA TypeStep == TypeInv /\ [Next]_vars => TypeInv'
<1> SUFFICES ASSUME TypeInv, [Next]_vars PROVE TypeInv'
  OBVIOUS
<1>1. ASSUME Benign, TypeOK' PROVE TypeInv'
  <2>1. submits' = submits /\ counter' = counter /\ inflight' = inflight
    BY <1>1 DEF Benign
  <2>2. Bounded'
    BY <1>1, <2>1 DEF Benign, MapsBenign, TypeInv, Bounded
  <2>3. QED
    BY <1>1, <2>2 DEF TypeInv
<1>2. ASSUME NEW c \in Client, NEW r \in Requests, Post(c, r) PROVE TypeInv'
  <2>1. r \in Request
    BY ConstantAssumption
  <2>2. PICK a \in Agent \cup {None} : SubmitBegin(c, r, a)
    BY <1>2, <2>1 DEF Post, Request
  <2>3. QED
    BY <2>1, <2>2, SubmitBeginType
<1>3. ASSUME NEW c \in Client, NEW r \in Schedules, ScheduledSubmit(c, r)
      PROVE  TypeInv'
  <2>1. r \in Request /\ r.agent \in Agent \cup {None}
    BY ConstantAssumption DEF Request
  <2>2. QED
    BY <1>3, <2>1, SubmitBeginType DEF ScheduledSubmit
<1>4. ASSUME NEW t \in Tenant, LoadBegin(t) PROVE TypeInv'
  <2>1. restoring' \in [tenant : Tenant \cup {None}, seen : 0..MaxSubmit]
    BY <1>4 DEF LoadBegin, TypeInv, TypeOK
  <2>2. QED
    BY <1>4, <2>1 DEF LoadBegin, TypeInv, TypeOK, Bounded
<1>5. CASE Crash
  <2>1. crashes' \in 0..MaxCrash
    BY <1>5, ConstantAssumption DEF Crash, TypeInv, TypeOK
  <2>2. Idle \in [tenant : Tenant \cup {None}, seen : 0..MaxSubmit]
    BY ConstantAssumption DEF Idle
  <2>3. TypeOK'
    BY <1>5, <2>1, <2>2, ConstantAssumption DEF Crash, TypeInv, TypeOK
  <2>4. Bounded'
    BY <1>5 DEF Crash, TypeInv, TypeOK, Bounded
  <2>5. QED
    BY <2>3, <2>4 DEF TypeInv
<1>6. IdStep \/ (Benign /\ TypeOK')
  BY OtherSteps DEF TypeInv
<1>7. QED
  BY <1>1, <1>2, <1>3, <1>4, <1>5, <1>6, SubmitInsertType, LoadEndType DEF IdStep

\* Nothing is stored and nobody is at work in the initial state.
LEMMA TypeInit == Init => TypeInv
<1> SUFFICES ASSUME Init PROVE TypeInv
  OBVIOUS
<1>1. Idle \in [tenant : Tenant \cup {None}, seen : 0..MaxSubmit]
  BY ConstantAssumption DEF Idle
<1>2. QED
  BY <1>1, ConstantAssumption DEF Init, TypeInv, TypeOK, Bounded

\* TypeInv is an invariant.
LEMMA TypeInvariant == Spec => []TypeInv
  BY TypeInit, TypeStep, PTL DEF Spec

\* Every variable of the queue keeps its type; in particular the counter of
\* SubmitWithOpts never exceeds the number of submissions, restarts included.
THEOREM TypeCorrect == Spec => []TypeOK
<1>1. TypeInv => TypeOK
  BY DEF TypeInv
<1>2. QED
  BY <1>1, TypeInvariant, PTL

-----------------------------------------------------------------------------
(* Uniqueness of ids.  It needs that nothing is submitted before the boot loop *)
(* is through: no restored schedule, or no other tenant still to be loaded.    *)

BootSafe == \A r \in Schedules, t \in Tenant : t = r.tenant

\* A Submit under way has an id nobody else has, and the boot is over.
FreshInv ==
  \A c \in Client : inflight[c] # NoJob =>
    /\ loaded = Tenant
    /\ inflight[c].id <= counter
    /\ jobs[inflight[c].id] = NoJob
    /\ \A t \in Tenant : stored[t][inflight[c].id] = NoJob
    /\ \A d \in Client : d # c /\ inflight[d] # NoJob
                           => inflight[d].id # inflight[c].id

\* A bucket holds jobs of its tenant, no id is in two buckets or stands for
\* another job in memory, and the counter has passed the ids of loaded tenants.
BucketInv ==
  \A t \in Tenant, i \in JobId : stored[t][i] # NoJob =>
    /\ stored[t][i].tenant = t
    /\ jobs[i] # NoJob => jobs[i].tenant = t /\ jobs[i].sn = stored[t][i].sn
    /\ \A u \in Tenant : stored[u][i] # NoJob => u = t
    /\ t \in loaded => i <= counter

\* Memory holds jobs of loaded tenants only, with ids the counter has passed.
MemoryInv ==
  \A i \in JobId : jobs[i] # NoJob => i <= counter /\ jobs[i].tenant \in loaded

\* LoadFromStore runs on a tenant not yet loaded, and finds the counter as it
\* read it.
RestoreInv ==
  restoring.tenant # None => /\ restoring.tenant \notin loaded
                             /\ restoring.seen = counter

IdInv == FreshInv /\ BucketInv /\ MemoryInv /\ RestoreInv

\* A benign step keeps the id invariant.
LEMMA IdBenign ==
  ASSUME TypeInv, IdInv, Benign
  PROVE  IdInv'
<1>1. UNCHANGED <<counter, inflight, loaded, restoring>>
  BY DEF Benign
<1>2. \A k \in JobId : jobs'[k] # NoJob =>
        /\ jobs[k] # NoJob
        /\ jobs'[k].tenant = jobs[k].tenant /\ jobs'[k].sn = jobs[k].sn
  BY DEF Benign, MapsBenign
<1>3. \A t \in Tenant, k \in JobId : stored'[t][k] # NoJob =>
        \/ /\ stored[t][k] # NoJob
           /\ stored'[t][k].tenant = stored[t][k].tenant
           /\ stored'[t][k].sn = stored[t][k].sn
        \/ /\ jobs[k] # NoJob /\ jobs[k].tenant = t
           /\ stored'[t][k].tenant = t /\ stored'[t][k].sn = jobs[k].sn
  BY DEF Benign, MapsBenign
<1>4. FreshInv'
  <2> SUFFICES ASSUME NEW c \in Client, inflight[c] # NoJob
               PROVE  /\ jobs'[inflight[c].id] = NoJob
                      /\ \A t \in Tenant : stored'[t][inflight[c].id] = NoJob
    BY <1>1 DEF IdInv, FreshInv
  <2>1. inflight[c].id \in JobId
    BY DEF TypeInv, TypeOK
  <2>2. QED
    BY <1>2, <1>3, <2>1 DEF IdInv, FreshInv
<1>5. BucketInv'
  <2> SUFFICES ASSUME NEW t \in Tenant, NEW i \in JobId, stored'[t][i] # NoJob
               PROVE  /\ stored'[t][i].tenant = t
                      /\ jobs'[i] # NoJob => /\ jobs'[i].tenant = t
                                             /\ jobs'[i].sn = stored'[t][i].sn
                      /\ \A u \in Tenant : stored'[u][i] # NoJob => u = t
                      /\ t \in loaded => i <= counter
    BY <1>1 DEF BucketInv
  <2>1. CASE /\ stored[t][i] # NoJob
             /\ stored'[t][i].tenant = stored[t][i].tenant
             /\ stored'[t][i].sn = stored[t][i].sn
    BY <2>1, <1>2, <1>3 DEF IdInv, BucketInv
  <2>2. CASE /\ jobs[i] # NoJob /\ jobs[i].tenant = t
             /\ stored'[t][i].tenant = t /\ stored'[t][i].sn = jobs[i].sn
    BY <2>2, <1>2, <1>3 DEF IdInv, BucketInv, MemoryInv
  <2>3. QED
    BY <1>3, <2>1, <2>2
<1>6. MemoryInv'
  BY <1>1, <1>2 DEF IdInv, MemoryInv
<1>7. RestoreInv'
  BY <1>1 DEF IdInv, RestoreInv
<1>8. QED
  BY <1>4, <1>5, <1>6, <1>7 DEF IdInv

\* The id SubmitBegin takes is new: the counter has passed every id in use.
LEMMA IdSubmitBegin ==
  ASSUME TypeInv, IdInv, loaded = Tenant, NEW c \in Client, NEW r \in Request,
         NEW a \in Agent \cup {None}, SubmitBegin(c, r, a)
  PROVE  IdInv'
<1>1. /\ counter' = counter + 1 /\ counter \in Nat
      /\ UNCHANGED <<jobs, stored, loaded, restoring>>
  BY DEF SubmitBegin, TypeInv, TypeOK
<1>2. \A d \in Client : d # c => inflight'[d] = inflight[d]
  BY DEF SubmitBegin, TypeInv, TypeOK
<1>3. inflight'[c] # NoJob => inflight'[c].id = counter + 1
  BY DEF SubmitBegin, TypeInv, TypeOK
<1>4. counter + 1 \in JobId
  BY ConstantAssumption DEF SubmitBegin, TypeInv, TypeOK, Bounded, JobId
<1>5. jobs[counter + 1] = NoJob
  BY <1>1, <1>4 DEF IdInv, MemoryInv
<1>6. \A t \in Tenant : stored[t][counter + 1] = NoJob
  BY <1>1, <1>4 DEF IdInv, BucketInv
<1>7. \A d \in Client : inflight[d] # NoJob =>
        inflight[d].id \in Nat /\ inflight[d].id <= counter
  BY DEF IdInv, FreshInv, TypeInv, TypeOK, JobId
<1>8. FreshInv'
  <2> SUFFICES ASSUME NEW e \in Client, inflight'[e] # NoJob
               PROVE  /\ inflight'[e].id <= counter'
                      /\ jobs[inflight'[e].id] = NoJob
                      /\ \A t \in Tenant : stored[t][inflight'[e].id] = NoJob
                      /\ \A d \in Client : d # e /\ inflight'[d] # NoJob
                                             => inflight'[d].id # inflight'[e].id
    BY <1>1 DEF FreshInv
  <2>1. CASE e = c
    BY <2>1, <1>1, <1>2, <1>3, <1>5, <1>6, <1>7
  <2>2. CASE e # c
    BY <2>2, <1>1, <1>2, <1>3, <1>7 DEF IdInv, FreshInv
  <2>3. QED
    BY <2>1, <2>2
<1>9. \A i \in JobId : i <= counter => i <= counter'
  BY <1>1 DEF JobId
<1>10. BucketInv' /\ MemoryInv'
  BY <1>1, <1>9 DEF IdInv, BucketInv, MemoryInv
<1>11. RestoreInv'
  BY <1>1 DEF IdInv, RestoreInv, TypeInv, TypeOK
<1>12. QED
  BY <1>8, <1>10, <1>11 DEF IdInv

\* Inserting a job whose id nobody else has.
LEMMA IdSubmitInsert ==
  ASSUME TypeInv, IdInv, NEW c \in Client, SubmitInsert(c)
  PROVE  IdInv'
<1> DEFINE i == inflight[c].id
           j == inflight[c].job
<1>1. i \in JobId /\ j \in Job /\ j.tenant \in Tenant /\ inflight[c] # NoJob
  BY DEF SubmitInsert, TypeInv, TypeOK, Job
<1>2. \A k \in JobId : jobs'[k] = IF k = i THEN j ELSE jobs[k]
  BY <1>1 DEF SubmitInsert, TypeInv, TypeOK
<1>3. \A t \in Tenant, k \in JobId : stored'[t][k] # NoJob =>
        \/ stored'[t][k] = stored[t][k]
        \/ t = j.tenant /\ k = i /\ stored'[t][k] = j
  BY <1>1 DEF SubmitInsert, Write, TypeInv, TypeOK
<1>4. \A d \in Client : inflight'[d] = IF d = c THEN NoJob ELSE inflight[d]
  BY DEF SubmitInsert, TypeInv, TypeOK
<1>5. UNCHANGED <<counter, loaded, restoring>>
  BY DEF SubmitInsert
<1>6. /\ loaded = Tenant /\ i <= counter /\ jobs[i] = NoJob
      /\ \A t \in Tenant : stored[t][i] = NoJob
      /\ \A d \in Client : d # c /\ inflight[d] # NoJob => inflight[d].id # i
  BY <1>1 DEF IdInv, FreshInv
<1> HIDE DEF i, j
<1>7. FreshInv'
  <2> SUFFICES ASSUME NEW e \in Client, e # c, inflight[e] # NoJob
               PROVE  /\ jobs'[inflight[e].id] = NoJob
                      /\ \A t \in Tenant : stored'[t][inflight[e].id] = NoJob
    BY <1>4, <1>5 DEF IdInv, FreshInv
  <2>1. inflight[e].id \in JobId /\ inflight[e].id # i
    BY <1>6 DEF TypeInv, TypeOK
  <2>2. QED
    BY <1>2, <1>3, <2>1 DEF IdInv, FreshInv
<1>8. BucketInv'
  <2> SUFFICES ASSUME NEW t \in Tenant, NEW k \in JobId, stored'[t][k] # NoJob
               PROVE  /\ stored'[t][k].tenant = t
                      /\ jobs'[k] # NoJob => /\ jobs'[k].tenant = t
                                             /\ jobs'[k].sn = stored'[t][k].sn
                      /\ \A u \in Tenant : stored'[u][k] # NoJob => u = t
                      /\ t \in loaded => k <= counter
    BY <1>5 DEF BucketInv
  <2>1. CASE k = i
    BY <2>1, <1>1, <1>2, <1>3, <1>6
  <2>2. CASE k # i
    BY <2>2, <1>2, <1>3 DEF IdInv, BucketInv
  <2>3. QED
    BY <2>1, <2>2
<1>9. MemoryInv'
  BY <1>1, <1>2, <1>5, <1>6 DEF IdInv, MemoryInv
<1>10. QED
  BY <1>5, <1>7, <1>8, <1>9 DEF IdInv, RestoreInv

\* Loading a tenant replaces no job, and moves the counter past its ids.
LEMMA IdLoadEnd ==
  ASSUME TypeInv, IdInv, LoadEnd
  PROVE  IdInv'
<1> DEFINE t == restoring.tenant
<1>1. t \in Tenant /\ t \notin loaded /\ restoring.seen = counter
  BY DEF LoadEnd, Unlocked, TypeInv, TypeOK, IdInv, RestoreInv
<1>2. \A i \in JobId :
        jobs'[i] = IF stored[t][i] # NoJob THEN stored[t][i] ELSE jobs[i]
  BY DEF LoadEnd
<1>3. PICK n \in 0..MaxSubmit :
        HighestStored(t, n) /\ counter' = IF n > counter THEN n ELSE counter
  BY <1>1 DEF LoadEnd, Advance
<1>4. /\ loaded' = loaded \cup {t} /\ restoring' = Idle
      /\ UNCHANGED <<stored, inflight>>
  BY DEF LoadEnd
<1> HIDE DEF t
<1>5. \A i \in JobId : /\ i <= counter => i <= counter'
                       /\ stored[t][i] # NoJob => i <= counter'
  BY <1>3, ConstantAssumption DEF HighestStored, TypeInv, TypeOK, JobId
<1>6. FreshInv'
  BY <1>1, <1>4 DEF IdInv, FreshInv
<1>7. BucketInv'
  BY <1>1, <1>2, <1>4, <1>5 DEF IdInv, BucketInv
<1>8. MemoryInv'
  BY <1>1, <1>2, <1>4, <1>5 DEF IdInv, MemoryInv, BucketInv
<1>9. RestoreInv'
  BY <1>4 DEF RestoreInv, Idle
<1>10. QED
  BY <1>6, <1>7, <1>8, <1>9 DEF IdInv

\* One step keeps the id invariant.
LEMMA IdStepInv ==
  ASSUME BootSafe, TypeInv, IdInv, [Next]_vars
  PROVE  IdInv'
<1>1. ASSUME NEW c \in Client, NEW r \in Requests, Post(c, r) PROVE IdInv'
  <2>1. r \in Request
    BY ConstantAssumption
  <2>2. PICK a \in Agent \cup {None} : SubmitBegin(c, r, a)
    BY <1>1, <2>1 DEF Post, Request
  <2>3. QED
    BY <1>1, <2>1, <2>2, IdSubmitBegin DEF Post, Serving
<1>2. ASSUME NEW c \in Client, NEW r \in Schedules, ScheduledSubmit(c, r)
      PROVE  IdInv'
  <2>1. r \in Request /\ r.agent \in Agent \cup {None} /\ r.tenant \in Tenant
    BY ConstantAssumption DEF Request
  <2>2. loaded = Tenant
    BY <1>2, <2>1 DEF ScheduledSubmit, BootSafe, TypeInv, TypeOK
  <2>3. QED
    BY <1>2, <2>1, <2>2, IdSubmitBegin DEF ScheduledSubmit
<1>3. ASSUME NEW t \in Tenant, LoadBegin(t) PROVE IdInv'
  BY <1>3 DEF LoadBegin, IdInv, FreshInv, BucketInv, MemoryInv, RestoreInv
<1>4. CASE Crash
  <2>1. /\ jobs' = [i \in JobId |-> NoJob] /\ inflight' = [c \in Client |-> NoJob]
        /\ loaded' = {} /\ restoring' = Idle /\ stored' = stored
    BY <1>4 DEF Crash
  <2>2. BucketInv'
    BY <2>1 DEF IdInv, BucketInv
  <2>3. FreshInv' /\ MemoryInv' /\ RestoreInv'
    BY <2>1 DEF FreshInv, MemoryInv, RestoreInv, Idle
  <2>4. QED
    BY <2>2, <2>3 DEF IdInv
<1>5. IdStep \/ Benign
  BY OtherSteps DEF TypeInv
<1>6. QED
  BY <1>1, <1>2, <1>3, <1>4, <1>5, IdBenign, IdSubmitInsert, IdLoadEnd DEF IdStep

\* Initially nothing has an id.
LEMMA IdInit == Init => IdInv
  BY DEF Init, IdInv, FreshInv, BucketInv, MemoryInv, RestoreInv, Idle

\* Without submissions during the boot no two submissions ever share an id:
\* not in memory, not in the store and not between two calls of Submit, through
\* failed writes, deleted tenants, pruning and restarts.
THEOREM IdsAreUnique == ASSUME BootSafe PROVE Spec => []UniqueIds
<1>1. TypeInv /\ IdInv /\ [Next]_vars => IdInv'
  BY IdStepInv
<1>2. IdInv => UniqueIds
  BY DEF IdInv, FreshInv, BucketInv, UniqueIds
<1>3. QED
  BY <1>1, <1>2, IdInit, TypeInvariant, PTL DEF Spec

-----------------------------------------------------------------------------
(* Durability.  The buckets of the loaded tenants whose writes do not fail and *)
(* who are not deleted say the same as the map in memory.                      *)

\* Set writes the same record to both.
LEMMA MirrorSet ==
  ASSUME TypeInv, StoreMirrorsQueue, NEW i \in JobId, jobs[i] # NoJob,
         NEW a \in Agent \cup {None}, NEW s \in Status, Set(i, a, s),
         loaded' = loaded
  PROVE  StoreMirrorsQueue'
<1> DEFINE j == [jobs[i] EXCEPT !.agent = a, !.status = s, !.updated = now]
<1>1. jobs[i] \in Job
  BY DEF TypeInv, TypeOK
<1>2. j \in Job /\ j.tenant \in Tenant /\ j.tenant = jobs[i].tenant
  BY <1>1 DEF TypeInv, TypeOK, Job
<1>3. jobs' = [jobs EXCEPT ![i] = j]
  BY DEF Set
<1>4. \/ stored' = [stored EXCEPT ![j.tenant][i] = j]
      \/ j.tenant \notin Reliable /\ stored' = stored
  BY DEF Set, Write, Reliable
<1>5. j # NoJob
  BY <1>2, ConstantAssumption
<1> HIDE DEF j
<1>6. \A k \in JobId : jobs'[k] = IF k = i THEN j ELSE jobs[k]
  BY <1>3 DEF TypeInv, TypeOK
<1>7. \A t \in Reliable, k \in JobId :
        stored'[t][k] = IF t = j.tenant /\ k = i THEN j ELSE stored[t][k]
  <2>1. Reliable \subseteq Tenant
    BY DEF Reliable
  <2>2. QED
    BY <1>2, <1>4, <2>1 DEF TypeInv, TypeOK
<1>8. QED
  BY <1>2, <1>5, <1>6, <1>7 DEF StoreMirrorsQueue, Present

\* A step that leaves the maps and the set of loaded tenants alone.
LEMMA MirrorSame ==
  ASSUME StoreMirrorsQueue, UNCHANGED <<jobs, stored, loaded>>
  PROVE  StoreMirrorsQueue'
  BY DEF StoreMirrorsQueue, Present

\* One step keeps the mirror.
LEMMA MirrorStep ==
  ASSUME TypeInv, IdInv, StoreMirrorsQueue, [Next]_vars
  PROVE  StoreMirrorsQueue'
<1>0. loaded \subseteq Tenant /\ Reliable \subseteq Tenant
  BY DEF TypeInv, TypeOK, Reliable
<1>1. ASSUME NEW t \in Tenant, NEW a \in Agent \cup {None},
             NEW cap \in Capability \cup {None}, NEW i \in JobId,
             ClaimForTenant(t, a, cap, i), loaded' = loaded
      PROVE  StoreMirrorsQueue'
  <2>1. jobs[i] # NoJob
    BY <1>1 DEF ClaimForTenant, Best, Match, Present
  <2>2. jobs[i].agent \in Agent \cup {None}
    BY <2>1 DEF TypeInv, TypeOK, Job
  <2>3. PICK b \in Agent \cup {None} : Set(i, b, "running")
    BY <1>1, <2>2 DEF ClaimForTenant
  <2>4. QED
    BY <1>1, <2>1, <2>3, MirrorSet DEF Status
<1>2. ASSUME NEW t \in Tenant, NEW i \in JobId, NEW s \in Status,
             Update(t, i, s), loaded' = loaded
      PROVE  StoreMirrorsQueue'
  <2>1. jobs[i] # NoJob
    BY <1>2 DEF Update, Present
  <2>2. jobs[i].agent \in Agent \cup {None}
    BY <2>1 DEF TypeInv, TypeOK, Job
  <2>3. QED
    BY <1>2, <2>1, <2>2, MirrorSet DEF Update
<1>3. ASSUME NEW c \in Client, SubmitInsert(c) PROVE StoreMirrorsQueue'
  <2> DEFINE i == inflight[c].id
             j == inflight[c].job
  <2>1. i \in JobId /\ j \in Job /\ j.tenant \in Tenant /\ inflight[c] # NoJob
    BY <1>3 DEF SubmitInsert, TypeInv, TypeOK, Job
  <2>2. j # NoJob
    BY <2>1, ConstantAssumption
  <2>3. \A k \in JobId : jobs'[k] = IF k = i THEN j ELSE jobs[k]
    BY <1>3, <2>1 DEF SubmitInsert, TypeInv, TypeOK
  <2>4. \A t \in Reliable, k \in JobId :
          stored'[t][k] = IF t = j.tenant /\ k = i THEN j ELSE stored[t][k]
    <3>1. \/ stored' = [stored EXCEPT ![j.tenant][i] = j]
          \/ j.tenant \notin Reliable /\ stored' = stored
      BY <1>3 DEF SubmitInsert, Write, Reliable
    <3>2. QED
      BY <1>0, <2>1, <3>1 DEF TypeInv, TypeOK
  <2>5. jobs[i] = NoJob /\ loaded' = loaded
    BY <1>3, <2>1 DEF IdInv, FreshInv, SubmitInsert
  <2> HIDE DEF i, j
  <2>6. QED
    BY <1>0, <2>1, <2>2, <2>3, <2>4, <2>5 DEF StoreMirrorsQueue, Present
<1>4. CASE LoadEnd
  <2>0. PICK t \in Tenant : t = restoring.tenant
    BY <1>4 DEF LoadEnd, Unlocked, TypeInv, TypeOK
  <2>1. t \notin loaded
    BY <1>4, <2>0 DEF LoadEnd, Unlocked, IdInv, RestoreInv
  <2>2. \A i \in JobId :
          jobs'[i] = IF stored[t][i] # NoJob THEN stored[t][i] ELSE jobs[i]
    BY <1>4, <2>0 DEF LoadEnd
  <2>3. stored' = stored /\ loaded' = loaded \cup {t}
    BY <1>4, <2>0 DEF LoadEnd
  <2>4. ASSUME NEW u \in (loaded \cap Reliable)', NEW i \in JobId
        PROVE  stored[u][i] = IF Present(u, i)' THEN jobs'[i] ELSE NoJob
    <3>1. CASE stored[t][i] # NoJob
      <4>1. stored[t][i].tenant = t /\ jobs'[i] = stored[t][i]
        BY <2>1, <2>2, <3>1 DEF IdInv, BucketInv
      <4>2. u # t => stored[u][i] = NoJob
        BY <1>0, <2>1, <2>3, <3>1 DEF IdInv, BucketInv, Reliable
      <4>3. QED
        BY <3>1, <4>1, <4>2 DEF Present
    <3>2. CASE stored[t][i] = NoJob
      <4>1. jobs'[i] = jobs[i]
        BY <2>2, <3>2
      <4>2. CASE u = t
        <5>1. ~Present(t, i)'
          BY <4>1, <2>1 DEF Present, IdInv, MemoryInv
        <5>2. QED
          BY <4>2, <5>1, <3>2
      <4>3. CASE u \in loaded
        BY <4>1, <4>3 DEF StoreMirrorsQueue, Present, Reliable
      <4>4. QED
        BY <4>2, <4>3, <2>3
    <3>3. QED
      BY <3>1, <3>2
  <2>5. QED
    BY <2>3, <2>4 DEF StoreMirrorsQueue
<1>5. CASE ExpireStale
  <2>1. \A i \in Stale : i \in JobId /\ jobs[i] # NoJob
    BY DEF Stale
  <2>2. \A i \in Stale : jobs'[i] \in Job /\ jobs'[i].tenant = jobs[i].tenant
    <3> SUFFICES ASSUME NEW i \in Stale
                 PROVE  jobs'[i] \in Job /\ jobs'[i].tenant = jobs[i].tenant
      OBVIOUS
    <3>1. jobs[i] \in Job /\ now \in Nat /\ "failed" \in Status
      BY <2>1 DEF TypeInv, TypeOK, Status
    <3>2. jobs'[i] = [jobs[i] EXCEPT !.status = "failed", !.updated = now]
      BY <1>5, <2>1 DEF ExpireStale
    <3>3. QED
      BY <3>1, <3>2 DEF Job
  <2>3. \A i \in JobId \ Stale : jobs'[i] = jobs[i]
    BY <1>5 DEF ExpireStale
  <2>4. \A t \in Reliable, i \in JobId :
          stored'[t][i] = IF i \in Stale /\ jobs[i].tenant = t THEN jobs'[i]
                                                               ELSE stored[t][i]
    <3>1. PICK done \in SUBSET Stale :
            /\ \A i \in Stale \ done : jobs[i].tenant \in Flaky
            /\ stored' = [t \in Tenant |-> [i \in JobId |->
                 IF i \in done /\ jobs[i].tenant = t THEN jobs'[i]
                                                     ELSE stored[t][i]]]
      BY <1>5 DEF ExpireStale
    <3>2. QED
      BY <3>1 DEF Reliable
  <2>5. \A i \in Stale : jobs'[i] # NoJob
    BY <2>2, ConstantAssumption
  <2>6. loaded' = loaded
    BY <1>5 DEF ExpireStale
  <2>7. QED
    BY <1>0, <2>1, <2>2, <2>3, <2>4, <2>5, <2>6 DEF StoreMirrorsQueue, Present
<1>6. CASE Prune
  <2>1. \A i \in JobId : jobs'[i] = IF i \in Prunable THEN NoJob ELSE jobs[i]
    BY <1>6 DEF Prune
  <2>2. \A t \in Reliable, i \in JobId :
          stored'[t][i] = IF i \in Prunable /\ jobs[i].tenant = t THEN NoJob
                                                                  ELSE stored[t][i]
    <3>1. PICK done \in SUBSET Prunable :
            /\ \A i \in Prunable \ done : jobs[i].tenant \in Flaky
            /\ stored' = [t \in Tenant |-> [i \in JobId |->
                 IF i \in done /\ jobs[i].tenant = t THEN NoJob ELSE stored[t][i]]]
      BY <1>6 DEF Prune
    <3>2. QED
      BY <3>1 DEF Reliable
  <2>3. loaded' = loaded
    BY <1>6 DEF Prune
  <2>4. QED
    BY <1>0, <2>1, <2>2, <2>3 DEF StoreMirrorsQueue, Present
<1>7. CASE Crash
  BY <1>7 DEF Crash, StoreMirrorsQueue
<1>8. ASSUME NEW a \in Agent, NEW cap \in Capability, WorkerClaim(a, cap)
      PROVE  StoreMirrorsQueue'
  <2>1. Home[a] \in Tenant
    BY ConstantAssumption
  <2>2. QED
    BY <1>1, <1>8, <2>1 DEF WorkerClaim
<1>9. ASSUME NEW a \in Agent, NEW h \in held[a], NEW s \in {"done", "failed"},
             WorkerFinish(a, h, s)
      PROVE  StoreMirrorsQueue'
  <2>1. Home[a] \in Tenant /\ s \in Status
    BY ConstantAssumption DEF Status
  <2>2. h \in [id : JobId, sn : Serial]
    BY DEF TypeInv, TypeOK
  <2>3. h.id \in JobId
    BY <2>2
  <2>4. QED
    BY <1>2, <1>9, <2>1, <2>3, MirrorSame DEF WorkerFinish
<1>10. ASSUME NEW t \in Tenant, NEW i \in JobId, Cancel(t, i)
       PROVE  StoreMirrorsQueue'
  <2>1. Update(t, i, "cancelled") /\ "cancelled" \in Status /\ loaded' = loaded
    BY <1>10 DEF Cancel, Update, Status
  <2>2. QED
    BY <1>2, <2>1
<1>11. ASSUME NEW t \in Tenant, NEW i \in JobId, NEW s \in Status, Patch(t, i, s)
       PROVE  StoreMirrorsQueue'
  BY <1>2, <1>11 DEF Patch
<1>12. ASSUME NEW t \in Tenant, NEW a \in Agent \cup {None},
              NEW cap \in Capability \cup {None}, OtherClaim(t, a, cap)
       PROVE  StoreMirrorsQueue'
  BY <1>1, <1>12 DEF OtherClaim
<1>13. ASSUME NEW c \in Client, NEW r \in Requests \cup Schedules,
              Post(c, r) \/ ScheduledSubmit(c, r)
       PROVE  StoreMirrorsQueue'
  BY <1>13, MirrorSame DEF Post, ScheduledSubmit, SubmitBegin
<1>14. ASSUME NEW a \in Agent,
              AgentCrash(a) \/ \E h \in held[a] : WorkerGiveUp(a, h)
       PROVE  StoreMirrorsQueue'
  BY <1>14, MirrorSame DEF AgentCrash, WorkerGiveUp
<1>15. ASSUME NEW t \in Tenant, LoadBegin(t) PROVE StoreMirrorsQueue'
  BY <1>15, MirrorSame DEF LoadBegin
<1>16. ASSUME NEW t \in Tenant, DeleteTenant(t) PROVE StoreMirrorsQueue'
  <2>1. \A u \in Reliable : stored'[u] = stored[u]
    BY <1>0, <1>16 DEF DeleteTenant, Reliable, TypeInv, TypeOK
  <2>2. QED
    BY <1>16, <2>1 DEF DeleteTenant, StoreMirrorsQueue, Present
<1>17. CASE Tick \/ UNCHANGED vars
  BY <1>17, MirrorSame DEF Tick, vars
<1>18. QED
  BY <1>3, <1>4, <1>5, <1>6, <1>7, <1>8, <1>9, <1>10, <1>11, <1>12, <1>13,
     <1>14, <1>15, <1>16, <1>17 DEF Next

\* When nothing is submitted during the boot, the bucket of every loaded tenant
\* that is reliable (its writes succeed, it is not deleted) always holds exactly
\* the tenant's jobs: a crash at any moment loses no job and no status change,
\* whatever is lost of the other tenants.
THEOREM QueueIsDurable == ASSUME BootSafe PROVE Spec => []StoreMirrorsQueue
<1>1. Init => StoreMirrorsQueue
  BY DEF Init, StoreMirrorsQueue
<1>2. TypeInv /\ IdInv /\ [Next]_vars => IdInv'
  BY IdStepInv
<1>3. TypeInv /\ IdInv /\ StoreMirrorsQueue /\ [Next]_vars => StoreMirrorsQueue'
  BY MirrorStep
<1>4. QED
  BY <1>1, <1>2, <1>3, IdInit, TypeInvariant, PTL DEF Spec

-----------------------------------------------------------------------------
(* One id per submission.                                                    *)

\* Submission n is somewhere (in memory, in a bucket, under way) with id i.
At(i, n) ==
  \/ jobs[i] # NoJob /\ jobs[i].sn = n
  \/ \E t \in Tenant : stored[t][i] # NoJob /\ stored[t][i].sn = n
  \/ \E c \in Client : /\ inflight[c] # NoJob
                       /\ inflight[c].id = i /\ inflight[c].job.sn = n

SnInv ==
  /\ \A i, k \in JobId, n \in Serial : At(i, n) /\ At(k, n) => i = k
  /\ \A i \in JobId, n \in Serial : At(i, n) => n <= submits

\* No step but a new submission puts a submission under an id it did not have.
LEMMA SnOld ==
  ASSUME TypeInv, [Next]_vars
  PROVE  \/ /\ submits' = submits
            /\ \A i \in JobId, n \in Serial : At(i, n)' => At(i, n)
         \/ \E c \in Client, r \in Request, a \in Agent \cup {None} :
              SubmitBegin(c, r, a)
<1>1. ASSUME Benign
      PROVE  /\ submits' = submits
             /\ \A i \in JobId, n \in Serial : At(i, n)' => At(i, n)
  BY <1>1 DEF Benign, MapsBenign, At
<1>2. ASSUME NEW c \in Client, NEW r \in Requests, Post(c, r)
      PROVE  \E a \in Agent \cup {None} : r \in Request /\ SubmitBegin(c, r, a)
  BY <1>2, ConstantAssumption DEF Post, Request
<1>3. ASSUME NEW c \in Client, NEW r \in Schedules, ScheduledSubmit(c, r)
      PROVE  \E a \in Agent \cup {None} : r \in Request /\ SubmitBegin(c, r, a)
  BY <1>3, ConstantAssumption DEF ScheduledSubmit, Request
<1>4. ASSUME NEW c \in Client, SubmitInsert(c)
      PROVE  /\ submits' = submits
             /\ \A i \in JobId, n \in Serial : At(i, n)' => At(i, n)
  <2> DEFINE e == inflight[c].id
             j == inflight[c].job
  <2>1. e \in JobId /\ j \in Job /\ j.tenant \in Tenant /\ inflight[c] # NoJob
    BY <1>4 DEF SubmitInsert, TypeInv, TypeOK, Job
  <2>2. \A k \in JobId : jobs'[k] = IF k = e THEN j ELSE jobs[k]
    BY <1>4, <2>1 DEF SubmitInsert, TypeInv, TypeOK
  <2>3. \A t \in Tenant, k \in JobId : stored'[t][k] # NoJob =>
          \/ stored'[t][k] = stored[t][k]
          \/ k = e /\ stored'[t][k] = j
    BY SMTT(30), <1>4, <2>1 DEF SubmitInsert, Write, TypeInv, TypeOK
  <2>4. \A d \in Client : inflight'[d] # NoJob => inflight'[d] = inflight[d]
    BY <1>4 DEF SubmitInsert, TypeInv, TypeOK
  <2>5. submits' = submits
    BY <1>4 DEF SubmitInsert
  <2> HIDE DEF e, j
  <2>6. \A n \in Serial : n = j.sn => At(e, n)
    BY <2>1 DEF At, e, j
  <2>7. QED
    BY <2>2, <2>3, <2>4, <2>5, <2>6 DEF At
<1>5. ASSUME NEW t \in Tenant, LoadBegin(t)
      PROVE  /\ submits' = submits
             /\ \A i \in JobId, n \in Serial : At(i, n)' => At(i, n)
  BY <1>5 DEF LoadBegin, At
<1>6. ASSUME LoadEnd
      PROVE  /\ submits' = submits
             /\ \A i \in JobId, n \in Serial : At(i, n)' => At(i, n)
  <2>1. restoring.tenant \in Tenant
    BY <1>6 DEF LoadEnd, Unlocked, TypeInv, TypeOK
  <2>2. /\ \A i \in JobId : \/ jobs'[i] = jobs[i]
                            \/ \E t \in Tenant : /\ stored[t][i] # NoJob
                                                 /\ jobs'[i] = stored[t][i]
        /\ UNCHANGED <<stored, inflight, submits>>
    BY <1>6, <2>1 DEF LoadEnd
  <2>3. QED
    BY <2>2 DEF At
<1>7. ASSUME Crash
      PROVE  /\ submits' = submits
             /\ \A i \in JobId, n \in Serial : At(i, n)' => At(i, n)
  BY <1>7 DEF Crash, At
<1>8. IdStep \/ Benign
  BY OtherSteps DEF TypeInv
<1>9. QED
  BY <1>1, <1>2, <1>3, <1>4, <1>5, <1>6, <1>7, <1>8 DEF IdStep

\* A submission keeps its id.
LEMMA SnStep ==
  ASSUME TypeInv, SnInv, [Next]_vars
  PROVE  SnInv'
<1>1. CASE /\ submits' = submits
           /\ \A i \in JobId, n \in Serial : At(i, n)' => At(i, n)
  <2>1. \A i, k \in JobId, n \in Serial : At(i, n)' /\ At(k, n)' => i = k
    BY <1>1 DEF SnInv
  <2>2. \A i \in JobId, n \in Serial : At(i, n)' => n <= submits'
    BY <1>1 DEF SnInv
  <2>3. QED
    BY <2>1, <2>2 DEF SnInv
<1>2. ASSUME NEW c \in Client, NEW r \in Request, NEW a \in Agent \cup {None},
             SubmitBegin(c, r, a)
      PROVE  SnInv'
  <2>1. UNCHANGED <<jobs, stored>> /\ submits' = submits + 1 /\ submits \in Nat
    BY <1>2 DEF SubmitBegin, TypeInv, TypeOK
  <2>2. \A d \in Client : \/ inflight'[d] = inflight[d]
                          \/ /\ inflight'[d].id = counter + 1
                             /\ inflight'[d].job.sn = submits + 1
    BY <1>2 DEF SubmitBegin, TypeInv, TypeOK
  <2>3. \A i \in JobId, n \in Serial :
          At(i, n)' => At(i, n) \/ (i = counter + 1 /\ n = submits + 1)
    BY <2>1, <2>2 DEF At
  <2>4. \A n \in Serial : n <= submits => n # submits + 1 /\ n <= submits + 1
    BY <2>1 DEF Serial
  <2>5. \A i, k \in JobId, n \in Serial : At(i, n)' /\ At(k, n)' => i = k
    BY <2>3, <2>4 DEF SnInv
  <2>6. \A i \in JobId, n \in Serial : At(i, n)' => n <= submits'
    BY <2>1, <2>3, <2>4 DEF SnInv
  <2>7. QED
    BY <2>5, <2>6 DEF SnInv
<1>3. QED
  BY <1>1, <1>2, SnOld

\* Initially there is no submission.
LEMMA SnInit == Init => SnInv
  BY DEF Init, SnInv, At

-----------------------------------------------------------------------------
(* What a step does to the buckets of the reliable tenants.                  *)

\* The invariants everything below starts from.
Base == TypeInv /\ IdInv /\ StoreMirrorsQueue /\ SnInv

\* The id and the mirror of two entries with the same submission.
LEMMA BucketsDiffer ==
  ASSUME Base
  PROVE  /\ \A t, u \in Tenant, i, k \in JobId :
              /\ stored[t][i] # NoJob /\ stored[u][k] # NoJob
              /\ stored[t][i].sn = stored[u][k].sn
              => t = u /\ i = k
         /\ \A t \in Tenant, i, k \in JobId :
              /\ jobs[i] # NoJob /\ stored[t][k] # NoJob
              /\ jobs[i].sn = stored[t][k].sn
              => k = i /\ jobs[i].tenant = t
         /\ \A c \in Client, t \in Tenant, k \in JobId :
              /\ inflight[c] # NoJob /\ stored[t][k] # NoJob
              => inflight[c].job.sn # stored[t][k].sn
         /\ \A c \in Client, k \in JobId :
              /\ inflight[c] # NoJob /\ jobs[k] # NoJob
              => inflight[c].job.sn # jobs[k].sn
<1>1. \A t \in Tenant, i \in JobId : stored[t][i] # NoJob =>
        stored[t][i].sn \in Serial /\ At(i, stored[t][i].sn)
  BY DEF Base, TypeInv, TypeOK, Job, At
<1>2. \A i \in JobId : jobs[i] # NoJob => jobs[i].sn \in Serial /\ At(i, jobs[i].sn)
  BY DEF Base, TypeInv, TypeOK, Job, At
<1>3. \A c \in Client : inflight[c] # NoJob =>
        /\ inflight[c].id \in JobId /\ inflight[c].job.sn \in Serial
        /\ At(inflight[c].id, inflight[c].job.sn)
  BY DEF Base, TypeInv, TypeOK, Job, At
<1>4. \A i, k \in JobId, n \in Serial : At(i, n) /\ At(k, n) => i = k
  BY DEF Base, SnInv
<1>5. QED
  BY <1>1, <1>2, <1>3, <1>4 DEF Base, IdInv, BucketInv, FreshInv

\* A job of a reliable tenant in memory is the one in its bucket.
LEMMA Mirrored ==
  ASSUME Base, NEW i \in JobId, jobs[i] # NoJob, jobs[i].tenant \in Reliable
  PROVE  stored[jobs[i].tenant][i] = jobs[i]
  BY DEF Base, IdInv, MemoryInv, StoreMirrorsQueue, Present

\* The record Set stores, and where.
After(i, a, s) == [jobs[i] EXCEPT !.agent = a, !.status = s, !.updated = now]

\* Set keeps the tenant, the submission and the capability of the job.
LEMMA SetEffect ==
  ASSUME TypeInv, NEW i \in JobId, jobs[i] # NoJob,
         NEW a \in Agent \cup {None}, NEW s \in Status, Set(i, a, s)
  PROVE  /\ After(i, a, s) \in Job /\ After(i, a, s) # NoJob
         /\ After(i, a, s).tenant = jobs[i].tenant
         /\ After(i, a, s).sn = jobs[i].sn
         /\ After(i, a, s).capability = jobs[i].capability
         /\ After(i, a, s).priority = jobs[i].priority
         /\ After(i, a, s).created = jobs[i].created
         /\ After(i, a, s).agent = a /\ After(i, a, s).status = s
         /\ \A t \in Reliable, k \in JobId :
              stored'[t][k] = IF t = jobs[i].tenant /\ k = i THEN After(i, a, s)
                                                             ELSE stored[t][k]
<1> DEFINE j == After(i, a, s)
<1>1. jobs[i] \in Job /\ now \in Nat
  BY DEF TypeInv, TypeOK
<1>2. /\ j \in Job /\ j.tenant = jobs[i].tenant /\ j.sn = jobs[i].sn
      /\ j.capability = jobs[i].capability /\ j.priority = jobs[i].priority
      /\ j.created = jobs[i].created /\ j.agent = a /\ j.status = s
  BY <1>1 DEF Job, After
<1>3. j.tenant \in Tenant /\ j # NoJob
  BY <1>2, ConstantAssumption DEF Job
<1>4. \/ stored' = [stored EXCEPT ![j.tenant][i] = j]
      \/ j.tenant \notin Reliable /\ stored' = stored
  BY DEF Set, Write, Reliable, After
<1> HIDE DEF j
<1>5. \A t \in Reliable, k \in JobId :
        stored'[t][k] = IF t = j.tenant /\ k = i THEN j ELSE stored[t][k]
  <2>1. Reliable \subseteq Tenant
    BY DEF Reliable
  <2>2. QED
    BY <1>3, <1>4, <2>1 DEF TypeInv, TypeOK
<1>6. QED
  BY <1>2, <1>3, <1>5 DEF j

-----------------------------------------------------------------------------
(* Claimed once.                                                             *)

\* Job j was claimed at most once more than it was put back, and not more often
\* than that while it is pending.
CountOk(j) ==
  /\ claims[j.sn] <= 1 + requeues[j.sn]
  /\ j.status = "pending" => claims[j.sn] <= requeues[j.sn]

\* The counts of submissions to come, of submissions under way, and of the jobs
\* in the buckets of reliable tenants, restored or not.
ClaimInv ==
  /\ \A n \in Serial : n > submits => claims[n] = 0
  /\ \A c \in Client : inflight[c] # NoJob => /\ inflight[c].job.status = "pending"
                                              /\ claims[inflight[c].job.sn] = 0
  /\ \A t \in Reliable, i \in JobId : stored[t][i] # NoJob => CountOk(stored[t][i])

\* Every job in a bucket is new (inserted by this step), as it was, no longer
\* pending, or put back to pending and counted so.
Recounted ==
  /\ claims' = claims
  /\ \A n \in Serial : requeues[n] <= requeues'[n]
  /\ \A t \in Reliable, i \in JobId : stored'[t][i] # NoJob =>
       \/ \E c \in Client : inflight[c] # NoJob /\ stored'[t][i] = inflight[c].job
       \/ /\ stored[t][i] # NoJob /\ stored'[t][i].sn = stored[t][i].sn
          /\ \/ stored'[t][i].status = stored[t][i].status
             \/ stored'[t][i].status # "pending"
             \/ requeues'[stored[t][i].sn] = requeues[stored[t][i].sn] + 1

\* A recounted step keeps the counts.
LEMMA RecountedOk ==
  ASSUME TypeInv, TypeInv', ClaimInv, Recounted
  PROVE  \A t \in Reliable, i \in JobId : stored'[t][i] # NoJob => CountOk(stored[t][i])'
<1> SUFFICES ASSUME NEW t \in Reliable, NEW i \in JobId, stored'[t][i] # NoJob
             PROVE  CountOk(stored[t][i])'
  OBVIOUS
<1> DEFINE j == stored'[t][i]
<1>1. t \in Tenant
  BY DEF Reliable
<1>2. j.sn \in Serial
  BY <1>1 DEF TypeInv, TypeOK, Job
<1>3. /\ claims[j.sn] \in Nat /\ requeues[j.sn] \in Nat /\ requeues'[j.sn] \in Nat
      /\ requeues[j.sn] <= requeues'[j.sn]
  BY <1>2 DEF TypeInv, TypeOK, Recounted
<1>4. CASE \E c \in Client : inflight[c] # NoJob /\ j = inflight[c].job
  BY <1>3, <1>4 DEF ClaimInv, CountOk, Recounted
<1>5. CASE /\ stored[t][i] # NoJob /\ j.sn = stored[t][i].sn
           /\ \/ j.status = stored[t][i].status
              \/ j.status # "pending"
              \/ requeues'[stored[t][i].sn] = requeues[stored[t][i].sn] + 1
  <2>1. CountOk(stored[t][i])
    BY <1>5 DEF ClaimInv
  <2>2. QED
    BY <1>3, <1>5, <2>1 DEF CountOk, Recounted
<1>6. QED
  BY <1>4, <1>5 DEF Recounted

\* A claim is counted once, for the job that was pending.
LEMMA ClaimCounted ==
  ASSUME Base, ClaimInv, NEW t \in Tenant, NEW a \in Agent \cup {None},
         NEW cap \in Capability \cup {None}, NEW i \in JobId,
         ClaimForTenant(t, a, cap, i), UNCHANGED <<inflight, submits, requeues>>
  PROVE  ClaimInv'
<1>1. jobs[i] # NoJob /\ jobs[i].status = "pending"
  BY DEF ClaimForTenant, Best, Match, Present
<1>2. jobs[i] \in Job /\ jobs[i].sn \in Serial /\ jobs[i].agent \in Agent \cup {None}
  BY <1>1 DEF Base, TypeInv, TypeOK, Job
<1>3. PICK b \in Agent \cup {None} : Set(i, b, "running")
  BY <1>2 DEF ClaimForTenant
<1> DEFINE j == After(i, b, "running")
<1>4. /\ j \in Job /\ j # NoJob /\ j.sn = jobs[i].sn /\ j.status = "running"
      /\ \A u \in Reliable, k \in JobId :
           stored'[u][k] = IF u = jobs[i].tenant /\ k = i THEN j ELSE stored[u][k]
  BY <1>1, <1>3, SetEffect DEF Base, Status
<1> HIDE DEF j
<1>5. \A n \in Serial : claims'[n] = IF n = jobs[i].sn THEN claims[n] + 1 ELSE claims[n]
  BY <1>2 DEF ClaimForTenant, Base, TypeInv, TypeOK
<1>6. jobs[i].sn <= submits
  BY <1>1, <1>2 DEF Base, SnInv, At
<1>7. \A n \in Serial : n > submits' => claims'[n] = 0
  <2>1. submits' = submits /\ submits \in Nat
    BY DEF Base, TypeInv, TypeOK
  <2>2. \A n \in Serial : n > submits => n # jobs[i].sn
    BY <1>2, <1>6, <2>1 DEF Serial
  <2>3. QED
    BY <1>5, <2>1, <2>2 DEF ClaimInv
<1>8. \A c \in Client : inflight'[c] # NoJob => /\ inflight'[c].job.status = "pending"
                                                /\ claims'[inflight'[c].job.sn] = 0
  <2> SUFFICES ASSUME NEW c \in Client, inflight[c] # NoJob
               PROVE  /\ inflight[c].job.status = "pending"
                      /\ claims'[inflight[c].job.sn] = 0
    OBVIOUS
  <2>1. inflight[c].job.sn \in Serial
    BY DEF Base, TypeInv, TypeOK, Job
  <2>2. inflight[c].job.sn # jobs[i].sn
    BY <1>1, BucketsDiffer
  <2>3. QED
    BY <1>5, <2>1, <2>2 DEF ClaimInv
<1>9. ASSUME NEW u \in Reliable, NEW k \in JobId, stored'[u][k] # NoJob
      PROVE  CountOk(stored[u][k])'
  <2>0. u \in Tenant
    BY DEF Reliable
  <2>1. CASE u = jobs[i].tenant /\ k = i
    <3>1. stored[u][i] = jobs[i]
      BY <1>1, <2>1, Mirrored
    <3>2. claims[jobs[i].sn] <= requeues[jobs[i].sn]
      BY <1>1, <3>1 DEF ClaimInv, CountOk
    <3>3. claims[jobs[i].sn] \in Nat /\ requeues[jobs[i].sn] \in Nat
      BY <1>2 DEF Base, TypeInv, TypeOK
    <3>4. claims'[jobs[i].sn] = claims[jobs[i].sn] + 1
      BY <1>2, <1>5
    <3>5. claims[jobs[i].sn] + 1 <= 1 + requeues[jobs[i].sn]
      BY <3>2, <3>3
    <3>6. QED
      BY <1>4, <2>1, <3>4, <3>5 DEF CountOk
  <2>2. CASE ~(u = jobs[i].tenant /\ k = i)
    <3>1. stored'[u][k] = stored[u][k]
      BY <1>4, <2>2
    <3>2. stored[u][k].sn # jobs[i].sn
      BY <1>1, <1>9, <2>0, <2>2, <3>1, BucketsDiffer
    <3>3. stored[u][k].sn \in Serial
      BY <1>9, <2>0, <3>1 DEF Base, TypeInv, TypeOK, Job
    <3>4. CountOk(stored[u][k]) /\ claims'[stored[u][k].sn] = claims[stored[u][k].sn]
      BY <1>5, <1>9, <3>1, <3>2, <3>3 DEF ClaimInv
    <3>5. QED
      BY <3>1, <3>4 DEF CountOk
  <2>3. QED
    BY <2>1, <2>2
<1>10. QED
  BY <1>7, <1>8, <1>9 DEF ClaimInv

\* A status update is a recounted step.
LEMMA UpdateRecounted ==
  ASSUME Base, NEW t \in Tenant, NEW i \in JobId, NEW s \in Status, Update(t, i, s),
         claims' = claims,
         requeues' = IF s = "pending" THEN [requeues EXCEPT ![jobs[i].sn] = @ + 1]
                                      ELSE requeues
  PROVE  Recounted
<1>1. jobs[i] # NoJob
  BY DEF Update, Present
<1>2. jobs[i].sn \in Serial /\ jobs[i].agent \in Agent \cup {None}
  BY <1>1 DEF Base, TypeInv, TypeOK, Job
<1> DEFINE j == After(i, jobs[i].agent, s)
<1>3. /\ j.sn = jobs[i].sn /\ j.status = s
      /\ \A u \in Reliable, k \in JobId :
           stored'[u][k] = IF u = jobs[i].tenant /\ k = i THEN j ELSE stored[u][k]
  BY <1>1, <1>2, SetEffect DEF Base, Update
<1> HIDE DEF j
<1>4. /\ \A n \in Serial : requeues[n] <= requeues'[n]
      /\ s = "pending" => requeues'[jobs[i].sn] = requeues[jobs[i].sn] + 1
  BY <1>2 DEF Base, TypeInv, TypeOK
<1>5. jobs[i].tenant \in Reliable => stored[jobs[i].tenant][i] = jobs[i]
  BY <1>1, Mirrored
<1>6. QED
  BY <1>1, <1>3, <1>4, <1>5 DEF Recounted

\* Every step is a claim, a new submission or a recounted step.
LEMMA ClaimStep ==
  ASSUME Base, Base', ClaimInv, [Next]_vars
  PROVE  ClaimInv'
<1>0. TypeInv /\ TypeInv'
  BY DEF Base
<1>1. ASSUME Recounted, submits' = submits,
             \A c \in Client : inflight'[c] # NoJob => inflight'[c] = inflight[c]
      PROVE  ClaimInv'
  <2>1. \A t \in Reliable, i \in JobId : stored'[t][i] # NoJob => CountOk(stored[t][i])'
    BY <1>0, <1>1, RecountedOk
  <2>2. QED
    BY <1>1, <2>1 DEF ClaimInv, Recounted
<1>2. ASSUME NEW c \in Client, NEW r \in Requests \cup Schedules,
             Post(c, r) \/ ScheduledSubmit(c, r)
      PROVE  ClaimInv'
  <2>1. PICK a : SubmitBegin(c, r, a)
    BY <1>2 DEF Post, ScheduledSubmit
  <2>2. /\ UNCHANGED <<stored, claims, requeues>> /\ submits' = submits + 1
        /\ submits \in Nat /\ submits + 1 \in Serial
    BY <1>0, <2>1, ConstantAssumption DEF SubmitBegin, TypeInv, TypeOK, Serial
  <2>3. \A d \in Client : \/ inflight'[d] = inflight[d]
                          \/ /\ inflight'[d].job.status = "pending"
                             /\ inflight'[d].job.sn = submits + 1
    BY <1>0, <2>1 DEF SubmitBegin, TypeInv, TypeOK
  <2>4. claims[submits + 1] = 0
    BY <2>2 DEF ClaimInv
  <2>5. \A n \in Serial : n > submits' => claims'[n] = 0
    BY <2>2 DEF ClaimInv, Serial
  <2>6. QED
    BY <2>2, <2>3, <2>4, <2>5 DEF ClaimInv, CountOk
<1>3. ASSUME NEW c \in Client, SubmitInsert(c) PROVE ClaimInv'
  <2> DEFINE e == inflight[c].id
             j == inflight[c].job
  <2>1. e \in JobId /\ j \in Job /\ j.tenant \in Tenant /\ inflight[c] # NoJob
    BY <1>0, <1>3 DEF SubmitInsert, TypeInv, TypeOK, Job
  <2>2. \A t \in Tenant, k \in JobId : stored'[t][k] = stored[t][k] \/ stored'[t][k] = j
    BY <1>0, <1>3, <2>1 DEF SubmitInsert, Write, TypeInv, TypeOK
  <2>3. /\ claims' = claims /\ requeues' = requeues /\ submits' = submits
        /\ \A d \in Client : inflight'[d] # NoJob => inflight'[d] = inflight[d]
    BY <1>0, <1>3 DEF SubmitInsert, TypeInv, TypeOK
  <2>4. \A n \in Serial : requeues[n] <= requeues'[n]
    BY <1>0, <2>3 DEF TypeInv, TypeOK
  <2>5. Recounted
    BY <2>1, <2>2, <2>3, <2>4 DEF Recounted, Reliable
  <2>6. QED
    BY <1>1, <2>3, <2>5
<1>4. ASSUME NEW t \in Tenant, NEW a \in Agent \cup {None},
             NEW cap \in Capability \cup {None}, OtherClaim(t, a, cap)
      PROVE  ClaimInv'
  BY <1>4, ClaimCounted DEF OtherClaim
<1>5. ASSUME NEW a \in Agent, NEW cap \in Capability, WorkerClaim(a, cap)
      PROVE  ClaimInv'
  <2>1. Home[a] \in Tenant
    BY ConstantAssumption
  <2>2. QED
    BY <1>5, <2>1, ClaimCounted DEF WorkerClaim
<1>6. ASSUME NEW t \in Tenant, NEW i \in JobId, NEW s \in Status, Patch(t, i, s)
      PROVE  ClaimInv'
  BY <1>1, <1>6, UpdateRecounted DEF Patch
<1>7. ASSUME NEW t \in Tenant, NEW i \in JobId, Cancel(t, i) PROVE ClaimInv'
  <2>1. Update(t, i, "cancelled") /\ "cancelled" \in Status
    BY <1>7 DEF Cancel, Update, Status
  <2>2. QED
    BY <1>1, <1>7, <2>1, UpdateRecounted DEF Cancel
<1>8. ASSUME UNCHANGED <<claims, requeues, submits, inflight>>,
             \A t \in Reliable, i \in JobId : stored'[t][i] # NoJob =>
               \/ stored'[t][i] = stored[t][i]
               \/ /\ stored[t][i] # NoJob /\ stored'[t][i].sn = stored[t][i].sn
                  /\ stored'[t][i].status # "pending"
      PROVE  ClaimInv'
  <2>1. \A n \in Serial : requeues[n] <= requeues'[n]
    BY <1>0, <1>8 DEF TypeInv, TypeOK
  <2>2. Recounted
    BY <1>8, <2>1 DEF Recounted
  <2>3. QED
    BY <1>1, <1>8, <2>2
<1>9. ASSUME NEW a \in Agent, NEW h \in held[a], NEW s \in {"done", "failed"},
             WorkerFinish(a, h, s)
      PROVE  ClaimInv'
  <2>1. Home[a] \in Tenant /\ s \in Status /\ s # "pending"
    BY ConstantAssumption DEF Status
  <2>2. h \in [id : JobId, sn : Serial]
    BY <1>0 DEF TypeInv, TypeOK
  <2>3. h.id \in JobId
    BY <2>2
  <2>4. UNCHANGED <<claims, requeues, submits, inflight>>
    BY <1>9 DEF WorkerFinish
  <2>5. CASE Update(Home[a], h.id, s)
    BY <1>1, <2>1, <2>3, <2>4, <2>5, UpdateRecounted
  <2>6. CASE stored' = stored
    BY <1>8, <2>4, <2>6
  <2>7. QED
    BY <1>9, <2>5, <2>6 DEF WorkerFinish
<1>10. CASE ExpireStale
  <2>1. PICK done \in SUBSET Stale :
          stored' = [t \in Tenant |-> [i \in JobId |->
            IF i \in done /\ jobs[i].tenant = t THEN jobs'[i] ELSE stored[t][i]]]
    BY <1>10 DEF ExpireStale
  <2>2. UNCHANGED <<claims, requeues, submits, inflight>>
    BY <1>10 DEF ExpireStale
  <2>3. ASSUME NEW i \in Stale, jobs[i].tenant \in Reliable
        PROVE  /\ stored[jobs[i].tenant][i] # NoJob
               /\ jobs'[i].sn = stored[jobs[i].tenant][i].sn
               /\ jobs'[i].status # "pending"
    <3>1. i \in JobId /\ jobs[i] # NoJob
      BY DEF Stale
    <3>2. stored[jobs[i].tenant][i] = jobs[i]
      BY <2>3, <3>1, Mirrored
    <3>3. jobs'[i] = [jobs[i] EXCEPT !.status = "failed", !.updated = now]
      BY <1>10, <3>1 DEF ExpireStale
    <3>4. jobs[i] \in Job
      BY <1>0, <3>1 DEF TypeInv, TypeOK
    <3>5. QED
      BY <3>1, <3>2, <3>3, <3>4 DEF Job
  <2>4. QED
    BY <1>8, <2>1, <2>2, <2>3 DEF Reliable
<1>11. CASE Prune
  BY <1>8, <1>11 DEF Prune, Reliable
<1>12. ASSUME NEW t \in Tenant, DeleteTenant(t) PROVE ClaimInv'
  BY <1>0, <1>8, <1>12 DEF DeleteTenant, TypeInv, TypeOK, Reliable
<1>13. ASSUME UNCHANGED <<stored, claims, requeues, submits>>,
              \A c \in Client : inflight'[c] # NoJob => inflight'[c] = inflight[c]
       PROVE  ClaimInv'
  BY <1>13 DEF ClaimInv, CountOk
<1>14. CASE Crash
  BY <1>13, <1>14 DEF Crash
<1>15. CASE LoadEnd \/ Tick \/ UNCHANGED vars
  BY <1>13, <1>15 DEF LoadEnd, Tick, vars
<1>16. ASSUME NEW t \in Tenant, LoadBegin(t) PROVE ClaimInv'
  BY <1>13, <1>16 DEF LoadBegin
<1>17. ASSUME NEW a \in Agent,
              AgentCrash(a) \/ \E h \in held[a] : WorkerGiveUp(a, h)
       PROVE  ClaimInv'
  BY <1>13, <1>17 DEF AgentCrash, WorkerGiveUp
<1>18. QED
  BY <1>2, <1>3, <1>4, <1>5, <1>6, <1>7, <1>9, <1>10, <1>11, <1>12, <1>14, <1>15,
     <1>16, <1>17 DEF Next

\* Initially nothing was submitted and nothing claimed.
LEMMA ClaimInit == Init => ClaimInv
  BY DEF Init, ClaimInv, Reliable

\* The base invariants hold when nothing is submitted during the boot.
LEMMA BaseInvariant == ASSUME BootSafe PROVE Spec => []Base
<1>1. TypeInv /\ SnInv /\ [Next]_vars => SnInv'
  BY SnStep
<1>2. QED
  <2>1. Spec => []StoreMirrorsQueue
    BY QueueIsDurable
  <2>2. TypeInv /\ IdInv /\ [Next]_vars => IdInv'
    BY IdStepInv
  <2>3. TypeInv /\ IdInv /\ StoreMirrorsQueue /\ SnInv => Base
    BY DEF Base
  <2>4. QED
    BY <1>1, <2>1, <2>2, <2>3, IdInit, SnInit, TypeInvariant, PTL DEF Spec

\* Through lost answers, restarts, failed writes of other tenants and any number
\* of clients, ClaimForTenant hands a job of a reliable tenant out once, plus once
\* for each time a client put it back to pending.
THEOREM JobIsClaimedOnce == ASSUME BootSafe PROVE Spec => []ClaimedOnce
<1>1. Base /\ Base' /\ ClaimInv /\ [Next]_vars => ClaimInv'
  BY ClaimStep
<1>2. Base /\ ClaimInv => ClaimedOnce
  <2> SUFFICES ASSUME Base, ClaimInv, NEW i \in JobId, jobs[i] # NoJob,
                      jobs[i].tenant \in Reliable
               PROVE  claims[jobs[i].sn] <= 1 + requeues[jobs[i].sn]
    BY DEF ClaimedOnce
  <2>1. stored[jobs[i].tenant][i] = jobs[i]
    BY Mirrored
  <2>2. QED
    BY <2>1 DEF ClaimInv, CountOk
<1>3. QED
  BY <1>1, <1>2, ClaimInit, BaseInvariant, PTL DEF Spec

-----------------------------------------------------------------------------
(* A worker finishes its own job.  What it works on stays in the bucket until   *)
(* Prune takes it out; from then on its id is nobody's until the server starts  *)
(* again, for the counter has passed it.                                        *)

\* Id i is nobody's and will not be given to anybody by this server process.
Gone(i) ==
  /\ i <= counter
  /\ jobs[i] = NoJob
  /\ \A t \in Tenant : stored[t][i] = NoJob
  /\ \A c \in Client : inflight[c] # NoJob => inflight[c].id # i

HeldInv ==
  \A a \in Agent : Home[a] \in Reliable =>
    \A h \in held[a] :
      \/ h.sn \in forgotten
      \/ h.sn \in pruned /\ Gone(h.id)
      \/ stored[Home[a]][h.id] # NoJob /\ stored[Home[a]][h.id].sn = h.sn

\* A worker gets a job only by claiming it.
LEMMA HeldMoves ==
  ASSUME TypeInv, [Next]_vars, NEW a \in Agent, NEW h \in held'[a]
  PROVE  \/ h \in held[a]
         \/ \E i \in JobId : /\ h = [id |-> i, sn |-> jobs[i].sn]
                             /\ Serving /\ Present(Home[a], i)
                             /\ \E b \in Agent \cup {None} : Set(i, b, "running")
                             /\ UNCHANGED <<counter, inflight, loaded>>
<1>1. ASSUME NEW b \in Agent, NEW cap \in Capability, WorkerClaim(b, cap), h \notin held[a]
      PROVE  \E i \in JobId : /\ h = [id |-> i, sn |-> jobs[i].sn]
                              /\ Serving /\ Present(Home[a], i)
                              /\ \E d \in Agent \cup {None} : Set(i, d, "running")
                              /\ UNCHANGED <<counter, inflight, loaded>>
  <2>1. PICK i \in JobId :
          /\ ClaimForTenant(Home[b], b, cap, i)
          /\ held' = [held EXCEPT ![b] = @ \cup {[id |-> i, sn |-> jobs[i].sn]}]
    BY <1>1 DEF WorkerClaim
  <2>2. a = b /\ h = [id |-> i, sn |-> jobs[i].sn]
    BY <1>1, <2>1 DEF TypeInv, TypeOK
  <2>3. Present(Home[a], i)
    BY <2>1, <2>2 DEF ClaimForTenant, Best, Match
  <2>4. jobs[i].agent \in Agent \cup {None}
    BY <2>3 DEF Present, TypeInv, TypeOK, Job
  <2>5. \E d \in Agent \cup {None} : Set(i, d, "running")
    BY <2>1, <2>4 DEF ClaimForTenant
  <2>6. QED
    BY <1>1, <2>2, <2>3, <2>5 DEF WorkerClaim
<1>2. ASSUME NEW b \in Agent, NEW k \in held[b],
             WorkerGiveUp(b, k) \/ \E s \in {"done", "failed"} : WorkerFinish(b, k, s)
      PROVE  h \in held[a]
  BY <1>2 DEF WorkerGiveUp, WorkerFinish, TypeInv, TypeOK
<1>3. ASSUME NEW b \in Agent, AgentCrash(b) PROVE h \in held[a]
  BY <1>3 DEF AgentCrash, TypeInv, TypeOK
<1>4. CASE held' = held
  BY <1>4
<1>5. QED
  BY <1>1, <1>2, <1>3, <1>4
     DEF Next, vars, Post, ScheduledSubmit, SubmitBegin, SubmitInsert, OtherClaim,
         Patch, Cancel, DeleteTenant, LoadBegin, LoadEnd, ExpireStale, Prune, Crash,
         Tick

\* Only Prune takes a job out of the bucket of a reliable tenant.
LEMMA BucketsKeep ==
  ASSUME Base, [Next]_vars, ~Prune,
         NEW t \in Reliable, NEW k \in JobId, stored[t][k] # NoJob
  PROVE  stored'[t][k] # NoJob /\ stored'[t][k].sn = stored[t][k].sn
<1>0. t \in Tenant /\ TypeInv
  BY DEF Reliable, Base
<1>1. ASSUME NEW i \in JobId, jobs[i] # NoJob, NEW a \in Agent \cup {None},
             NEW s \in Status, Set(i, a, s)
      PROVE  stored'[t][k] # NoJob /\ stored'[t][k].sn = stored[t][k].sn
  <2>1. jobs[i].tenant = t => stored[t][i] = jobs[i]
    BY <1>1, Mirrored
  <2>2. QED
    BY <1>0, <1>1, <2>1, SetEffect
<1>2. ASSUME NEW u \in Tenant, NEW a \in Agent \cup {None},
             NEW cap \in Capability \cup {None}, NEW i \in JobId,
             ClaimForTenant(u, a, cap, i)
      PROVE  stored'[t][k] # NoJob /\ stored'[t][k].sn = stored[t][k].sn
  <2>1. jobs[i] # NoJob
    BY <1>2 DEF ClaimForTenant, Best, Match, Present
  <2>2. jobs[i].agent \in Agent \cup {None}
    BY <1>0, <2>1 DEF TypeInv, TypeOK, Job
  <2>3. PICK b \in Agent \cup {None} : Set(i, b, "running")
    BY <1>2, <2>2 DEF ClaimForTenant
  <2>4. QED
    BY <1>1, <2>1, <2>3 DEF Status
<1>3. ASSUME NEW u \in Tenant, NEW i \in JobId, NEW s \in Status, Update(u, i, s)
      PROVE  stored'[t][k] # NoJob /\ stored'[t][k].sn = stored[t][k].sn
  <2>1. jobs[i] # NoJob
    BY <1>3 DEF Update, Present
  <2>2. jobs[i].agent \in Agent \cup {None}
    BY <1>0, <2>1 DEF TypeInv, TypeOK, Job
  <2>3. QED
    BY <1>1, <1>3, <2>1, <2>2 DEF Update
<1>4. ASSUME NEW c \in Client, SubmitInsert(c)
      PROVE  stored'[t][k] = stored[t][k]
  <2>1. inflight[c].id \in JobId /\ inflight[c].job.tenant \in Tenant
    BY <1>0, <1>4 DEF SubmitInsert, TypeInv, TypeOK, Job
  <2>2. stored[t][inflight[c].id] = NoJob
    BY <1>0, <1>4 DEF SubmitInsert, Base, IdInv, FreshInv
  <2>3. QED
    BY <1>0, <1>4, <2>1, <2>2 DEF SubmitInsert, Write, TypeInv, TypeOK
<1>5. CASE ExpireStale
  <2>1. PICK done \in SUBSET Stale :
          stored' = [u \in Tenant |-> [i \in JobId |->
            IF i \in done /\ jobs[i].tenant = u THEN jobs'[i] ELSE stored[u][i]]]
    BY <1>5 DEF ExpireStale
  <2>2. CASE k \in done /\ jobs[k].tenant = t
    <3>1. jobs[k] # NoJob
      BY <2>2 DEF Stale
    <3>2. stored[t][k] = jobs[k]
      BY <2>2, <3>1, Mirrored
    <3>3. jobs'[k] = [jobs[k] EXCEPT !.status = "failed", !.updated = now]
      BY <1>5, <2>2 DEF ExpireStale
    <3>4. jobs[k] \in Job /\ now \in Nat /\ "failed" \in Status
      BY <1>0, <3>1 DEF TypeInv, TypeOK, Status
    <3>5. jobs'[k] \in Job /\ jobs'[k].sn = jobs[k].sn
      BY <3>3, <3>4 DEF Job
    <3>6. stored'[t][k] = jobs'[k]
      BY <1>0, <2>1, <2>2
    <3>7. QED
      BY <3>2, <3>5, <3>6, ConstantAssumption
  <2>3. CASE ~(k \in done /\ jobs[k].tenant = t)
    BY <1>0, <2>1, <2>3
  <2>4. QED
    BY <2>2, <2>3
<1>6. ASSUME NEW u \in Tenant, DeleteTenant(u) PROVE stored'[t][k] = stored[t][k]
  BY <1>0, <1>6 DEF DeleteTenant, TypeInv, TypeOK, Reliable
<1>7. ASSUME NEW a \in Agent, NEW cap \in Capability, WorkerClaim(a, cap)
      PROVE  stored'[t][k] # NoJob /\ stored'[t][k].sn = stored[t][k].sn
  <2>1. Home[a] \in Tenant
    BY ConstantAssumption
  <2>2. QED
    BY <1>2, <1>7, <2>1 DEF WorkerClaim
<1>8. ASSUME NEW a \in Agent, NEW h \in held[a], NEW s \in {"done", "failed"},
             WorkerFinish(a, h, s)
      PROVE  stored'[t][k] # NoJob /\ stored'[t][k].sn = stored[t][k].sn
  <2>1. Home[a] \in Tenant /\ s \in Status
    BY ConstantAssumption DEF Status
  <2>2. h \in [id : JobId, sn : Serial]
    BY <1>0 DEF TypeInv, TypeOK
  <2>3. h.id \in JobId
    BY <2>2
  <2>4. QED
    BY <1>3, <1>8, <2>1, <2>3 DEF WorkerFinish
<1>9. ASSUME NEW u \in Tenant, NEW i \in JobId, Cancel(u, i)
      PROVE  stored'[t][k] # NoJob /\ stored'[t][k].sn = stored[t][k].sn
  <2>1. Update(u, i, "cancelled") /\ "cancelled" \in Status
    BY <1>9 DEF Cancel, Update, Status
  <2>2. QED
    BY <1>3, <2>1
<1>10. ASSUME NEW u \in Tenant, NEW i \in JobId, NEW s \in Status, Patch(u, i, s)
       PROVE  stored'[t][k] # NoJob /\ stored'[t][k].sn = stored[t][k].sn
  BY <1>3, <1>10 DEF Patch
<1>11. ASSUME NEW u \in Tenant, NEW a \in Agent \cup {None},
              NEW cap \in Capability \cup {None}, OtherClaim(u, a, cap)
       PROVE  stored'[t][k] # NoJob /\ stored'[t][k].sn = stored[t][k].sn
  BY <1>2, <1>11 DEF OtherClaim
<1>12. CASE stored' = stored
  BY <1>12
<1>13. QED
  BY SMTT(30), <1>4, <1>5, <1>6, <1>7, <1>8, <1>9, <1>10, <1>11, <1>12
     DEF Next, vars, Post, ScheduledSubmit, SubmitBegin, WorkerGiveUp, AgentCrash,
         LoadBegin, LoadEnd, Crash, Tick

\* What is pruned and forgotten stays so.
LEMMA HistoryGrows ==
  ASSUME [Next]_vars
  PROVE  /\ forgotten \subseteq forgotten'
         /\ \/ pruned \subseteq pruned' /\ ~Crash
            \/ Crash /\ pruned \subseteq forgotten'
<1>1. CASE Crash
  BY <1>1 DEF Crash
<1>2. CASE Prune /\ ~Crash
  BY <1>2 DEF Prune
<1>3. CASE ~Crash /\ ~Prune
  <2>1. UNCHANGED <<pruned, forgotten>>
    BY <1>3 DEF Next, vars, Post, ScheduledSubmit, SubmitBegin, SubmitInsert, WorkerClaim,
       OtherClaim, WorkerFinish, WorkerGiveUp, AgentCrash, Patch, Cancel, DeleteTenant,
       LoadBegin, LoadEnd, ExpireStale, Tick
  <2>2. QED
    BY <1>3, <2>1
<1>4. QED
  BY <1>1, <1>2, <1>3

\* No step of a running server gives an id away that it has passed.
LEMMA GoneStays ==
  ASSUME Base, [Next]_vars, ~Crash, NEW i \in JobId, Gone(i)
  PROVE  Gone(i)'
<1>0. TypeInv /\ i \in Nat /\ counter \in Nat
  BY DEF Base, TypeInv, TypeOK, JobId
<1>1. CASE Benign
  BY <1>1 DEF Benign, MapsBenign, Gone
<1>2. ASSUME NEW c \in Client, NEW r \in Requests \cup Schedules,
             Post(c, r) \/ ScheduledSubmit(c, r)
      PROVE  Gone(i)'
  <2>1. PICK b : SubmitBegin(c, r, b)
    BY <1>2 DEF Post, ScheduledSubmit
  <2>2. UNCHANGED <<jobs, stored>> /\ counter' = counter + 1
    BY <2>1 DEF SubmitBegin
  <2>3. \A d \in Client : inflight'[d] = inflight[d] \/ inflight'[d].id = counter + 1
    BY <1>0, <2>1 DEF SubmitBegin, TypeInv, TypeOK
  <2>4. i <= counter + 1 /\ i # counter + 1
    BY <1>0 DEF Gone
  <2>5. QED
    BY <2>2, <2>3, <2>4 DEF Gone
<1>3. ASSUME NEW c \in Client, SubmitInsert(c) PROVE Gone(i)'
  <2>1. inflight[c] # NoJob /\ inflight[c].id # i /\ inflight[c].id \in JobId
    BY <1>0, <1>3 DEF SubmitInsert, TypeInv, TypeOK, Gone
  <2>2. jobs'[i] = jobs[i] /\ \A t \in Tenant : stored'[t][i] = stored[t][i]
    <3>1. PICK e, v, u : /\ e = inflight[c].id /\ v = inflight[c].job
                         /\ u = inflight[c].job.tenant
      OBVIOUS
    <3>2. /\ e \in JobId /\ e # i
          /\ jobs' = [jobs EXCEPT ![e] = v]
          /\ stored' = [stored EXCEPT ![u][e] = v] \/ stored' = stored
      BY <1>3, <2>1, <3>1 DEF SubmitInsert, Write
    <3>3. jobs'[i] = jobs[i]
      BY <1>0, <3>2 DEF TypeInv, TypeOK
    <3>4. \A t \in Tenant : stored'[t][i] = stored[t][i]
      BY <1>0, <3>2 DEF TypeInv, TypeOK
    <3>5. QED
      BY <3>3, <3>4
  <2>3. \A d \in Client : inflight'[d] # NoJob => inflight'[d] = inflight[d]
    BY <1>0, <1>3 DEF SubmitInsert, TypeInv, TypeOK
  <2>4. counter' = counter
    BY <1>3 DEF SubmitInsert
  <2>5. QED
    BY <2>2, <2>3, <2>4 DEF Gone
<1>4. ASSUME NEW t \in Tenant, LoadBegin(t) PROVE Gone(i)'
  BY <1>4 DEF LoadBegin, Gone
<1>5. CASE LoadEnd
  <2>1. restoring.tenant \in Tenant /\ restoring.seen = counter
    BY <1>0, <1>5 DEF LoadEnd, Unlocked, TypeInv, TypeOK, Base, IdInv, RestoreInv
  <2>2. jobs'[i] = NoJob /\ UNCHANGED <<stored, inflight>>
    BY <1>5, <2>1 DEF LoadEnd, Gone
  <2>3. PICK n \in 0..MaxSubmit : counter' = Advance(n)
    BY <1>5 DEF LoadEnd
  <2>4. i <= counter'
    BY <1>0, <2>1, <2>3, ConstantAssumption DEF Advance, Gone
  <2>5. QED
    BY <2>2, <2>4 DEF Gone
<1>6. IdStep \/ Benign
  BY OtherSteps DEF Base, TypeInv
<1>7. QED
  BY <1>1, <1>2, <1>3, <1>4, <1>5, <1>6 DEF IdStep

\* Prune leaves a job of a reliable tenant in its bucket, or its id is gone.
LEMMA PruneForgets ==
  ASSUME Base, Prune, NEW t \in Reliable, NEW k \in JobId, stored[t][k] # NoJob
  PROVE  \/ stored'[t][k] = stored[t][k]
         \/ stored[t][k].sn \in pruned' /\ Gone(k)'
<1>0. t \in Tenant /\ TypeInv
  BY DEF Reliable, Base
<1>1. PICK done \in SUBSET Prunable :
        stored' = [u \in Tenant |-> [i \in JobId |->
          IF i \in done /\ jobs[i].tenant = u THEN NoJob ELSE stored[u][i]]]
  BY DEF Prune
<1>2. CASE ~(k \in done /\ jobs[k].tenant = t)
  BY <1>0, <1>1, <1>2
<1>3. CASE k \in done /\ jobs[k].tenant = t
  <2>1. k \in Prunable /\ jobs[k] # NoJob
    BY <1>3 DEF Prunable
  <2>2. stored[t][k] = jobs[k]
    BY <1>3, <2>1, Mirrored
  <2>3. stored[t][k].sn \in pruned'
    BY <2>1, <2>2 DEF Prune
  <2>4. jobs'[k] = NoJob /\ UNCHANGED <<counter, inflight>>
    BY <2>1 DEF Prune
  <2>5. k <= counter /\ \A c \in Client : inflight[c] # NoJob => inflight[c].id # k
    BY <2>1 DEF Base, IdInv, MemoryInv, FreshInv
  <2>6. \A u \in Tenant : stored'[u][k] = NoJob
    <3>1. ASSUME NEW u \in Tenant, u # t PROVE stored[u][k] = NoJob
      BY <1>0, <3>1 DEF Base, IdInv, BucketInv
    <3>2. QED
      BY <1>1, <1>3, <3>1
  <2>7. QED
    BY <2>3, <2>4, <2>5, <2>6 DEF Gone
<1>4. QED
  BY <1>2, <1>3

\* A step keeps HeldInv.
LEMMA HeldStep ==
  ASSUME Base, HeldInv, [Next]_vars
  PROVE  HeldInv'
<1> SUFFICES ASSUME NEW a \in Agent, Home[a] \in Reliable, NEW h \in held'[a]
             PROVE  \/ h.sn \in forgotten'
                    \/ h.sn \in pruned' /\ Gone(h.id)'
                    \/ stored'[Home[a]][h.id] # NoJob /\ stored'[Home[a]][h.id].sn = h.sn
  BY DEF HeldInv
<1>1. CASE h \in held[a]
  <2>1. h \in [id : JobId, sn : Serial]
    BY <1>1 DEF Base, TypeInv, TypeOK
  <2>2. h.id \in JobId
    BY <2>1
  <2>3. CASE h.sn \in forgotten
    BY <2>3, HistoryGrows
  <2>4. CASE h.sn \in pruned /\ Gone(h.id)
    BY <2>2, <2>4, HistoryGrows, GoneStays
  <2>5. CASE stored[Home[a]][h.id] # NoJob /\ stored[Home[a]][h.id].sn = h.sn
    <3>1. CASE Prune
      <4>1. \/ stored'[Home[a]][h.id] = stored[Home[a]][h.id]
            \/ stored[Home[a]][h.id].sn \in pruned' /\ Gone(h.id)'
        BY <2>2, <2>5, <3>1, PruneForgets
      <4>2. QED
        BY <2>5, <4>1
    <3>2. CASE ~Prune
      BY <2>2, <2>5, <3>2, BucketsKeep
    <3>3. QED
      BY <3>1, <3>2
  <2>6. QED
    BY <1>1, <2>3, <2>4, <2>5 DEF HeldInv
<1>2. ASSUME NEW i \in JobId, h = [id |-> i, sn |-> jobs[i].sn], Present(Home[a], i),
             NEW b \in Agent \cup {None}, Set(i, b, "running")
      PROVE  stored'[Home[a]][h.id] # NoJob /\ stored'[Home[a]][h.id].sn = h.sn
  <2>1. jobs[i] # NoJob /\ jobs[i].tenant = Home[a] /\ h.id = i /\ h.sn = jobs[i].sn
    BY <1>2 DEF Present
  <2>2. stored'[Home[a]][i] = After(i, b, "running")
    BY <1>2, <2>1, SetEffect DEF Base, Status
  <2>3. After(i, b, "running") # NoJob /\ After(i, b, "running").sn = jobs[i].sn
    BY <1>2, <2>1, SetEffect DEF Base, Status
  <2>4. QED
    BY <2>1, <2>2, <2>3
<1>3. QED
  BY <1>1, <1>2, HeldMoves DEF Base

\* The id a worker of a reliable tenant will PATCH in finishJob is that of the job it
\* claimed, or of none, however many restarts, claims and submissions come in between;
\* another job can have it only after the worker's own was pruned and the server then
\* started again.
THEOREM WorkerFinishesItsOwnJob ==
  ASSUME BootSafe
  PROVE  Spec => []HeldJobIsOwn
<1>1. Init => HeldInv
  BY DEF Init, HeldInv
<1>2. Base /\ HeldInv /\ [Next]_vars => HeldInv'
  BY HeldStep
<1>3. Base /\ HeldInv => HeldJobIsOwn
  <2> SUFFICES ASSUME Base, HeldInv, NEW a \in Agent, Home[a] \in Reliable,
                      NEW h \in held[a], h.sn \notin forgotten, jobs[h.id] # NoJob
               PROVE  jobs[h.id].sn = h.sn
    BY DEF HeldJobIsOwn
  <2>1. h \in [id : JobId, sn : Serial]
    BY DEF Base, TypeInv, TypeOK
  <2>2. h.id \in JobId /\ Home[a] \in Tenant
    BY <2>1 DEF Reliable
  <2>3. stored[Home[a]][h.id] # NoJob /\ stored[Home[a]][h.id].sn = h.sn
    BY DEF HeldInv, Gone
  <2>4. QED
    BY <2>2, <2>3 DEF Base, IdInv, BucketInv
<1>4. QED
  BY <1>1, <1>2, <1>3, BaseInvariant, PTL DEF Spec

-----------------------------------------------------------------------------
(* The queue implements JobService.  Visible reads the buckets of the reliable *)
(* tenants, before and after a step: VisibleIn takes them as a parameter.      *)

VisibleIn(st, n) ==
  LET at == {p \in Reliable \X JobId : /\ st[p[1]][p[2]] # NoJob
                                       /\ st[p[1]][p[2]].sn = n}
  IN  IF at = {} THEN NoJob
      ELSE LET p == CHOOSE p \in at : TRUE IN ViewOf(st[p[1]][p[2]])

\* The reliable buckets hold each submission once.
UniqueIn(st) ==
  \A t, u \in Reliable, i, k \in JobId :
    st[t][i] # NoJob /\ st[u][k] # NoJob /\ st[t][i].sn = st[u][k].sn
      => t = u /\ i = k

\* A stored job is what is visible of its submission.
LEMMA VisibleSome ==
  ASSUME NEW st, UniqueIn(st), NEW t \in Reliable, NEW i \in JobId, st[t][i] # NoJob
  PROVE  VisibleIn(st, st[t][i].sn) = ViewOf(st[t][i])
<1> DEFINE n == st[t][i].sn
           at == {p \in Reliable \X JobId : /\ st[p[1]][p[2]] # NoJob
                                            /\ st[p[1]][p[2]].sn = n}
           q == CHOOSE p \in at : TRUE
<1>1. <<t, i>> \in at
  OBVIOUS
<1>2. q \in at
  BY <1>1
<1> HIDE DEF q
<1>3. /\ q[1] \in Reliable /\ q[2] \in JobId
      /\ st[q[1]][q[2]] # NoJob /\ st[q[1]][q[2]].sn = n
  BY <1>2
<1>4. q[1] = t /\ q[2] = i
  BY <1>3 DEF UniqueIn
<1>5. VisibleIn(st, n) = ViewOf(st[q[1]][q[2]])
  BY <1>1 DEF VisibleIn, q
<1>6. QED
  BY <1>4, <1>5

\* Nothing is visible of a submission that is not stored.
LEMMA VisibleNone ==
  ASSUME NEW st, NEW n,
         \A t \in Reliable, i \in JobId : st[t][i] # NoJob => st[t][i].sn # n
  PROVE  VisibleIn(st, n) = NoJob
<1>1. {p \in Reliable \X JobId : st[p[1]][p[2]] # NoJob /\ st[p[1]][p[2]].sn = n} = {}
  OBVIOUS
<1>2. QED
  BY <1>1 DEF VisibleIn

\* Where submission n is stored alike, the same is visible of it.
LEMMA VisibleSame ==
  ASSUME NEW s1, NEW s2, UniqueIn(s1), UniqueIn(s2), NEW n,
         \A t \in Reliable, i \in JobId :
           (s1[t][i] # NoJob /\ s1[t][i].sn = n) \/ (s2[t][i] # NoJob /\ s2[t][i].sn = n)
             => s1[t][i] = s2[t][i]
  PROVE  VisibleIn(s1, n) = VisibleIn(s2, n)
<1>1. CASE \E t \in Reliable, i \in JobId : s1[t][i] # NoJob /\ s1[t][i].sn = n
  <2>1. PICK t \in Reliable, i \in JobId : s1[t][i] # NoJob /\ s1[t][i].sn = n
    BY <1>1
  <2>2. s2[t][i] = s1[t][i]
    BY <2>1
  <2>3. VisibleIn(s1, s1[t][i].sn) = ViewOf(s1[t][i])
    BY <2>1, VisibleSome
  <2>4. VisibleIn(s2, s2[t][i].sn) = ViewOf(s2[t][i])
    BY <2>1, <2>2, VisibleSome
  <2>5. QED
    BY <2>1, <2>2, <2>3, <2>4
<1>2. CASE ~\E t \in Reliable, i \in JobId : s1[t][i] # NoJob /\ s1[t][i].sn = n
  <2>1. VisibleIn(s1, n) = NoJob
    BY <1>2, VisibleNone
  <2>2. \A t \in Reliable, i \in JobId : s2[t][i] # NoJob => s2[t][i].sn # n
    BY <1>2
  <2>3. VisibleIn(s2, n) = NoJob
    BY <2>2, VisibleNone
  <2>4. QED
    BY <2>1, <2>3
<1>3. QED
  BY <1>1, <1>2

\* The two variables of the service.
VJob == [n \in Serial |-> Visible(n)]
VHanded == [n \in Serial |-> IF Visible(n) = NoJob THEN 0 ELSE claims[n]]

\* The facts about the buckets a refinement step uses, before and after it.
Refines == Base /\ ClaimInv

\* Both sets of buckets hold a submission once, and Visible reads them.
LEMMA VisibleFacts ==
  ASSUME Refines, Refines'
  PROVE  /\ UniqueIn(stored) /\ UniqueIn(stored')
         /\ \A n \in Serial : /\ Visible(n) = VisibleIn(stored, n)
                              /\ Visible(n)' = VisibleIn(stored', n)
<1>1. Reliable \subseteq Tenant
  BY DEF Reliable
<1>2. UniqueIn(stored)
  BY <1>1, BucketsDiffer DEF UniqueIn, Refines
<1>3. \A t \in Tenant, i \in JobId : stored'[t][i] # NoJob =>
        /\ stored'[t][i].sn \in Serial
        /\ \A n \in Serial : n = stored'[t][i].sn => At(i, n)'
  BY DEF Refines, Base, TypeInv, TypeOK, Job, At
<1>4. \A i, k \in JobId, n \in Serial : At(i, n)' /\ At(k, n)' => i = k
  BY DEF Refines, Base, SnInv
<1>5. \A t, u \in Tenant, i \in JobId :
        stored'[t][i] # NoJob /\ stored'[u][i] # NoJob => t = u
  BY DEF Refines, Base, IdInv, BucketInv
<1>6. UniqueIn(stored')
  BY <1>1, <1>3, <1>4, <1>5 DEF UniqueIn
<1>7. QED
  BY <1>2, <1>6 DEF Visible, VisibleIn

\* What a client sees of a stored job is a view, and never NoJob.
LEMMA ViewType ==
  ASSUME NEW j \in Job
  PROVE  ViewOf(j) \in Service!View /\ ViewOf(j) # NoJob
<1>1. ViewOf(j) \in Service!View
  BY DEF ViewOf, Job, Service!View, Service!Status, Status
<1>2. NoJob \notin Service!View
  BY ConstantAssumption DEF Service!View, Service!Status, Status
<1>3. QED
  BY <1>1, <1>2

\* A submission is visible if and only if a reliable bucket holds it.
LEMMA VisibleJob ==
  ASSUME Refines, Refines', NEW n \in Serial, Visible(n) # NoJob
  PROVE  \E t \in Reliable, i \in JobId :
           /\ stored[t][i] # NoJob /\ stored[t][i].sn = n
           /\ Visible(n) = ViewOf(stored[t][i])
  BY VisibleFacts, VisibleSome, VisibleNone

\* A step that leaves the reliable buckets alone, and the counts of what they
\* hold, cannot be seen.
LEMMA UnseenStep ==
  ASSUME Refines, Refines',
         \A t \in Reliable, i \in JobId : stored'[t][i] = stored[t][i],
         \A n \in Serial : claims'[n] = claims[n] \/
           \A t \in Reliable, i \in JobId : stored[t][i] # NoJob => stored[t][i].sn # n
  PROVE  UNCHANGED <<VJob, VHanded>>
<1>1. \A n \in Serial : Visible(n)' = Visible(n)
  <2> SUFFICES ASSUME NEW n \in Serial PROVE Visible(n)' = Visible(n)
    OBVIOUS
  <2>1. VisibleIn(stored', n) = VisibleIn(stored, n)
    BY VisibleFacts, VisibleSame
  <2>2. QED
    BY <2>1, VisibleFacts
<1>2. \A n \in Serial : claims'[n] = claims[n] \/ Visible(n) = NoJob
  BY VisibleFacts, VisibleNone
<1>3. QED
  BY <1>1, <1>2 DEF VJob, VHanded

\* A Set on a job of a reliable tenant changes what is visible of that job only.
LEMMA SetSeen ==
  ASSUME Refines, Refines', NEW i \in JobId, jobs[i] # NoJob,
         jobs[i].tenant \in Reliable, NEW a \in Agent \cup {None},
         NEW s \in Status, Set(i, a, s), NEW n \in Serial
  PROVE  IF n = jobs[i].sn
           THEN /\ Visible(n) = ViewOf(jobs[i]) /\ Visible(n) # NoJob
                /\ Visible(n)' = [Visible(n) EXCEPT !.status = s, !.agent = a]
                /\ Visible(n)' # NoJob
           ELSE Visible(n)' = Visible(n)
<1> DEFINE j == After(i, a, s)
           t == jobs[i].tenant
<1>1. /\ j \in Job /\ j # NoJob /\ j.tenant = t /\ j.sn = jobs[i].sn
      /\ j.capability = jobs[i].capability /\ j.priority = jobs[i].priority
      /\ j.created = jobs[i].created /\ j.agent = a /\ j.status = s
      /\ \A u \in Reliable, k \in JobId :
           stored'[u][k] = IF u = t /\ k = i THEN j ELSE stored[u][k]
  BY SetEffect DEF Refines, Base
<1>2. stored[t][i] = jobs[i] /\ t \in Tenant /\ jobs[i] \in Job
  BY Mirrored DEF Refines, Base, Reliable, TypeInv, TypeOK
<1> HIDE DEF j, t
<1>3. t \in Reliable
  BY DEF t
<1>4. CASE n = jobs[i].sn
  <2>1. Visible(n) = ViewOf(jobs[i])
    BY <1>2, <1>3, <1>4, VisibleSome, VisibleFacts
  <2>2. stored'[t][i] = j
    BY <1>1, <1>3
  <2>3. Visible(n)' = ViewOf(j)
    BY <1>1, <1>3, <1>4, <2>2, VisibleSome, VisibleFacts
  <2>4. ViewOf(j) = [ViewOf(jobs[i]) EXCEPT !.status = s, !.agent = a]
    <3> DEFINE v == ViewOf(jobs[i])
               w == [v EXCEPT !.status = s, !.agent = a]
    <3>1. v \in Service!View /\ s \in Service!Status
      BY <1>2, ViewType DEF Status, Service!Status
    <3>2. /\ w \in Service!View /\ w.tenant = v.tenant /\ w.agent = a
          /\ w.capability = v.capability /\ w.priority = v.priority
          /\ w.created = v.created /\ w.status = s
      BY <3>1 DEF Service!View
    <3>3. /\ v.tenant = j.tenant /\ v.capability = j.capability
          /\ v.priority = j.priority /\ v.created = j.created
      BY <1>1 DEF ViewOf, t
    <3> HIDE DEF v, w
    <3>4. w = ViewOf(j)
      BY <1>1, <3>2, <3>3 DEF Service!View, ViewOf
    <3>5. QED
      BY <3>4 DEF v, w
  <2>5. ViewOf(j) # NoJob /\ ViewOf(jobs[i]) # NoJob
    BY <1>1, <1>2, ViewType
  <2>6. QED
    BY <1>4, <2>1, <2>3, <2>4, <2>5
<1>5. CASE n # jobs[i].sn
  <2>1. \A u \in Reliable, k \in JobId :
          \/ stored[u][k] # NoJob /\ stored[u][k].sn = n
          \/ stored'[u][k] # NoJob /\ stored'[u][k].sn = n
          => stored'[u][k] = stored[u][k]
    BY <1>1, <1>2, <1>5
  <2>2. VisibleIn(stored', n) = VisibleIn(stored, n)
    BY <2>1, VisibleFacts, VisibleSame
  <2>3. QED
    BY <1>5, <2>2, VisibleFacts
<1>6. QED
  BY <1>4, <1>5

\* A claim is a Claim of the service, or of a tenant it does not speak of.
LEMMA ClaimRefines ==
  ASSUME Refines, Refines', Serving, NEW t \in Tenant, NEW a \in Agent \cup {None},
         NEW cap \in Capability \cup {None}, NEW i \in JobId,
         ClaimForTenant(t, a, cap, i)
  PROVE  (\E n \in Serial : Service!Claim(t, a, cap, n)) \/ UNCHANGED <<VJob, VHanded>>
<1>1. jobs[i] # NoJob /\ jobs[i].tenant = t /\ Match(t, a, cap, i)
  BY DEF ClaimForTenant, Best, Match, Present
<1>2. jobs[i] \in Job
  BY <1>1 DEF Refines, Base, TypeInv, TypeOK
<1>3. PICK n \in Serial : n = jobs[i].sn
  BY <1>2 DEF Job
<1>4. jobs[i].agent \in Agent \cup {None}
  BY <1>2 DEF Job
<1>5. PICK b \in Agent \cup {None} : /\ Set(i, b, "running")
                                     /\ b = IF a # None THEN a ELSE jobs[i].agent
  BY <1>4 DEF ClaimForTenant
<1>6. \A m \in Serial : claims'[m] = IF m = n THEN claims[m] + 1 ELSE claims[m]
  BY <1>3 DEF ClaimForTenant, Refines, Base, TypeInv, TypeOK
<1>7. CASE t \notin Reliable
  <2>1. \A u \in Reliable, k \in JobId : stored'[u][k] = stored[u][k]
    BY <1>1, <1>5, <1>7, SetEffect DEF Refines, Base, Status
  <2>2. \A u \in Reliable, k \in JobId : stored[u][k] # NoJob => stored[u][k].sn # n
    BY <1>1, <1>3, <1>7, BucketsDiffer DEF Refines, Reliable
  <2>3. QED
    BY <1>6, <2>1, <2>2, UnseenStep
<1>8. CASE t \in Reliable
  <2>1. /\ Visible(n) = ViewOf(jobs[i]) /\ Visible(n) # NoJob
        /\ Visible(n)' = [Visible(n) EXCEPT !.status = "running", !.agent = b]
        /\ Visible(n)' # NoJob
        /\ \A m \in Serial \ {n} : Visible(m)' = Visible(m)
    BY ZenonT(30), <1>1, <1>3, <1>5, <1>8, SetSeen DEF Status
  <2>2. Service!Wanted(t, a, cap, n)
    BY <1>1, <2>1 DEF Service!Wanted, Match, Present, ViewOf
  <2>3. ASSUME NEW u \in Serial, Service!Wanted(t, a, cap, u)
        PROVE  ~Service!Precedes(u, n)
    <3>1. Visible(u) # NoJob
      BY <2>3 DEF Service!Wanted
    <3>2. PICK v \in Reliable, k \in JobId :
            /\ stored[v][k] # NoJob /\ stored[v][k].sn = u
            /\ Visible(u) = ViewOf(stored[v][k])
      BY <3>1, VisibleJob
    <3>3. v = t
      BY <2>3, <3>2 DEF Service!Wanted, ViewOf, Refines, Base, IdInv, BucketInv, Reliable
    <3>4. Present(t, k) /\ jobs[k] = stored[t][k]
      BY <1>8, <3>2, <3>3 DEF Refines, Base, StoreMirrorsQueue, Serving
    <3>5. Match(t, a, cap, k)
      BY <2>3, <3>2, <3>3, <3>4 DEF Match, Service!Wanted, ViewOf
    <3>6. ~Before(k, i)
      BY <3>5 DEF ClaimForTenant, Best
    <3>7. QED
      BY <2>1, <3>2, <3>3, <3>4, <3>6 DEF Before, Service!Precedes, ViewOf
  <2>4. VJob' = [VJob EXCEPT ![n].status = "running",
                             ![n].agent = IF a # None THEN a ELSE @]
    <3>1. VJob' = [VJob EXCEPT ![n] = [Visible(n) EXCEPT !.status = "running",
                                                         !.agent = b]]
      BY <2>1 DEF VJob
    <3>2. VJob[n] = Visible(n) /\ Visible(n).agent = jobs[i].agent
      BY <2>1 DEF VJob, ViewOf
    <3>3. QED
      BY <1>5, <2>1, <3>1, <3>2 DEF VJob, ViewOf
  <2>5. VHanded' = [VHanded EXCEPT ![n] = @ + 1]
    BY <1>6, <2>1 DEF VHanded
  <2>6. Service!Claim(t, a, cap, n)
    BY <2>2, <2>3, <2>4, <2>5 DEF Service!Claim, VJob, VHanded
  <2>7. QED
    BY <2>6
<1>9. QED
  BY <1>7, <1>8

\* An update is a SetStatus of the service, or of a tenant it does not speak of.
LEMMA UpdateRefines ==
  ASSUME Refines, Refines', NEW t \in Tenant, NEW i \in JobId, NEW s \in Status,
         Update(t, i, s), claims' = claims
  PROVE  (\E n \in Serial : Service!SetStatus(n, s)) \/ UNCHANGED <<VJob, VHanded>>
<1>1. jobs[i] # NoJob /\ jobs[i].tenant = t /\ Set(i, jobs[i].agent, s)
  BY DEF Update, Present
<1>2. jobs[i] \in Job
  BY <1>1 DEF Refines, Base, TypeInv, TypeOK
<1>3. jobs[i].agent \in Agent \cup {None}
  BY <1>2 DEF Job
<1>4. CASE t \notin Reliable
  <2>1. \A u \in Reliable, k \in JobId : stored'[u][k] = stored[u][k]
    BY <1>1, <1>3, <1>4, SetEffect DEF Refines, Base
  <2>2. QED
    BY <2>1, UnseenStep
<1>5. CASE t \in Reliable
  <2>1. PICK n \in Serial : n = jobs[i].sn
    BY <1>2 DEF Job
  <2>2. /\ Visible(n) = ViewOf(jobs[i]) /\ Visible(n) # NoJob
        /\ Visible(n)' = [Visible(n) EXCEPT !.status = s, !.agent = jobs[i].agent]
        /\ Visible(n)' # NoJob
        /\ \A m \in Serial \ {n} : Visible(m)' = Visible(m)
    BY <1>1, <1>3, <1>5, <2>1, SetSeen
  <2>3. Visible(n)' = [Visible(n) EXCEPT !.status = s]
    <3> DEFINE v == Visible(n)
               w == [v EXCEPT !.status = s, !.agent = jobs[i].agent]
               x == [v EXCEPT !.status = s]
    <3>1. v \in Service!View /\ s \in Service!Status /\ v.agent = jobs[i].agent
      BY <1>2, <2>2, ViewType DEF Status, Service!Status, ViewOf
    <3>2. /\ w \in Service!View /\ w.tenant = v.tenant /\ w.agent = v.agent
          /\ w.capability = v.capability /\ w.priority = v.priority
          /\ w.created = v.created /\ w.status = s
      BY <1>3, <3>1 DEF Service!View
    <3>3. /\ x \in Service!View /\ x.tenant = v.tenant /\ x.agent = v.agent
          /\ x.capability = v.capability /\ x.priority = v.priority
          /\ x.created = v.created /\ x.status = s
      BY <3>1 DEF Service!View
    <3> HIDE DEF w, x
    <3>4. w = x
      BY <3>2, <3>3 DEF Service!View
    <3>5. QED
      BY <2>2, <3>4 DEF w, x
  <2>4. VJob' = [VJob EXCEPT ![n].status = s]
    BY <2>2, <2>3 DEF VJob
  <2>5. VHanded' = VHanded /\ VJob[n] # NoJob
    BY <2>2 DEF VHanded, VJob
  <2>6. Service!SetStatus(n, s)
    BY <2>4, <2>5 DEF Service!SetStatus, VJob, VHanded
  <2>7. QED
    BY <2>6
<1>6. QED
  BY <1>4, <1>5

\* The insertion of a job is the moment the service accepts it.
LEMMA InsertRefines ==
  ASSUME Refines, Refines', NEW c \in Client, SubmitInsert(c)
  PROVE  \/ \E n \in Serial : /\ VJob[n] = NoJob /\ VJob'[n] # NoJob
                              /\ Service!Submit(n, VJob'[n])
         \/ UNCHANGED <<VJob, VHanded>>
<1> DEFINE e == inflight[c].id
           j == inflight[c].job
           t == inflight[c].job.tenant
<1>1. e \in JobId /\ j \in Job /\ t \in Tenant /\ inflight[c] # NoJob /\ j # NoJob
  BY ConstantAssumption DEF SubmitInsert, Refines, Base, TypeInv, TypeOK, Job
<1>2. \A u \in Reliable, k \in JobId :
        stored'[u][k] = IF u = t /\ k = e THEN j ELSE stored[u][k]
  <2>1. \/ stored' = [stored EXCEPT ![t][e] = j]
        \/ t \notin Reliable /\ stored' = stored
    BY DEF SubmitInsert, Write, Reliable
  <2>2. QED
    BY <1>1, <2>1 DEF Refines, Base, TypeInv, TypeOK, Reliable
<1>3. claims' = claims
  BY DEF SubmitInsert
<1>4. j.status = "pending" /\ claims[j.sn] = 0
  BY <1>1 DEF Refines, ClaimInv
<1>5. \A u \in Tenant, k \in JobId : stored[u][k] # NoJob => stored[u][k].sn # j.sn
  BY <1>1, BucketsDiffer DEF Refines
<1> HIDE DEF e, j, t
<1>6. j.tenant = t
  BY DEF j, t
<1>7. CASE t \notin Reliable
  BY <1>2, <1>3, <1>7, UnseenStep
<1>8. CASE t \in Reliable
  <2>1. PICK n \in Serial : n = j.sn
    BY <1>1 DEF Job
  <2>2. Visible(n) = NoJob
    BY <1>5, <2>1, VisibleNone, VisibleFacts DEF Reliable
  <2>3. stored'[t][e] = j
    BY <1>1, <1>2, <1>8
  <2>4. Visible(n)' = ViewOf(j)
    BY <1>1, <1>8, <2>1, <2>3, VisibleSome, VisibleFacts
  <2>5. \A m \in Serial \ {n} : Visible(m)' = Visible(m)
    <3> SUFFICES ASSUME NEW m \in Serial, m # n PROVE Visible(m)' = Visible(m)
      OBVIOUS
    <3>0. stored[t][e] = NoJob
      BY <1>1 DEF Refines, Base, IdInv, FreshInv, e
    <3>1. \A u \in Reliable, k \in JobId :
            \/ stored[u][k] # NoJob /\ stored[u][k].sn = m
            \/ stored'[u][k] # NoJob /\ stored'[u][k].sn = m
            => stored'[u][k] = stored[u][k]
      BY <1>2, <2>1, <3>0
    <3>2. VisibleIn(stored', m) = VisibleIn(stored, m)
      BY <3>1, VisibleFacts, VisibleSame
    <3>3. QED
      BY <3>2, VisibleFacts
  <2>6. ViewOf(j) # NoJob /\ ViewOf(j).status = "pending"
    BY <1>1, <1>4, ViewType DEF ViewOf
  <2>7. VJob' = [VJob EXCEPT ![n] = ViewOf(j)] /\ VJob'[n] = ViewOf(j)
    BY <2>4, <2>5 DEF VJob
  <2>8. VHanded' = VHanded
    BY <1>3, <1>4, <2>1, <2>2, <2>4, <2>5 DEF VHanded
  <2>9. VJob[n] = NoJob
    BY <2>2 DEF VJob
  <2>10. Service!Submit(n, VJob'[n])
    BY <2>6, <2>7, <2>8, <2>9 DEF Service!Submit, VJob, VHanded
  <2>11. QED
    BY <2>6, <2>7, <2>9, <2>10
<1>9. QED
  BY <1>7, <1>8

\* The submissions of the reliable jobs with ids in I.
Seen(I) == {n \in Serial : \E i \in I : /\ jobs[i].tenant \in Reliable
                                        /\ jobs[i].sn = n}

\* ExpireStale is one Expire of the service.
LEMMA ExpireRefines ==
  ASSUME Refines, Refines', ExpireStale
  PROVE  \E S \in SUBSET Serial : Service!Expire(S)
<1>0. PICK S \in SUBSET Serial : S = Seen(Stale)
  BY DEF Seen
<1>1. PICK done \in SUBSET Stale :
        /\ \A i \in Stale \ done : jobs[i].tenant \in Flaky
        /\ stored' = [t \in Tenant |-> [i \in JobId |->
             IF i \in done /\ jobs[i].tenant = t THEN jobs'[i] ELSE stored[t][i]]]
  BY DEF ExpireStale
<1>2. \A t \in Reliable, i \in JobId :
        stored'[t][i] = IF i \in Stale /\ jobs[i].tenant = t THEN jobs'[i]
                                                             ELSE stored[t][i]
  BY <1>1 DEF Reliable
<1>3. ASSUME NEW i \in Stale
      PROVE  /\ i \in JobId /\ jobs[i] # NoJob /\ jobs[i] \in Job
             /\ jobs[i].status = "pending"
             /\ jobs'[i] \in Job /\ jobs'[i] # NoJob
             /\ jobs'[i].sn = jobs[i].sn
             /\ ViewOf(jobs'[i]) = [ViewOf(jobs[i]) EXCEPT !.status = "failed"]
  <2>1. i \in JobId /\ jobs[i] # NoJob /\ jobs[i].status = "pending"
    BY DEF Stale
  <2>2. jobs[i] \in Job /\ now \in Nat /\ "failed" \in Status
    BY <2>1 DEF Refines, Base, TypeInv, TypeOK, Status
  <2>3. jobs'[i] = [jobs[i] EXCEPT !.status = "failed", !.updated = now]
    BY <2>1 DEF ExpireStale
  <2>4. /\ jobs'[i] \in Job /\ jobs'[i].sn = jobs[i].sn
        /\ jobs'[i].tenant = jobs[i].tenant /\ jobs'[i].agent = jobs[i].agent
        /\ jobs'[i].capability = jobs[i].capability
        /\ jobs'[i].priority = jobs[i].priority
        /\ jobs'[i].created = jobs[i].created /\ jobs'[i].status = "failed"
    BY <2>2, <2>3 DEF Job
  <2>5. ViewOf(jobs'[i]) = [ViewOf(jobs[i]) EXCEPT !.status = "failed"]
    BY <2>4 DEF ViewOf
  <2>6. QED
    BY <2>1, <2>2, <2>4, <2>5, ConstantAssumption
<1>4. ASSUME NEW n \in S
      PROVE  /\ n \in Serial
             /\ Visible(n) # NoJob /\ Visible(n).status = "pending"
             /\ Visible(n)' = [Visible(n) EXCEPT !.status = "failed"]
             /\ Visible(n)' # NoJob
  <2>1. PICK i \in Stale : jobs[i].tenant \in Reliable /\ jobs[i].sn = n
    BY <1>0 DEF Seen
  <2>2. n \in Serial
    BY <1>0 DEF Seen
  <2>3. PICK t \in Reliable : t = jobs[i].tenant
    BY <2>1
  <2>4. stored[t][i] = jobs[i]
    BY <1>3, <2>1, <2>3, Mirrored DEF Refines
  <2>5. stored'[t][i] = jobs'[i]
    BY <1>2, <1>3, <2>3
  <2>6. Visible(n) = ViewOf(jobs[i])
    <3>1. i \in JobId /\ stored[t][i] # NoJob /\ stored[t][i].sn = n
      BY <1>3, <2>1, <2>4
    <3>2. VisibleIn(stored, n) = ViewOf(stored[t][i])
      BY <3>1, VisibleSome, VisibleFacts
    <3>3. QED
      BY <2>2, <2>4, <3>2, VisibleFacts
  <2>7. Visible(n)' = ViewOf(jobs'[i])
    <3>1. i \in JobId /\ stored'[t][i] # NoJob /\ stored'[t][i].sn = n
      BY <1>3, <2>1, <2>5
    <3>2. VisibleIn(stored', n) = ViewOf(stored'[t][i])
      BY <3>1, VisibleSome, VisibleFacts
    <3>3. QED
      BY <2>2, <2>5, <3>2, VisibleFacts
  <2>8. ViewOf(jobs[i]) # NoJob /\ ViewOf(jobs'[i]) # NoJob
    BY <1>3, ViewType
  <2>9. ViewOf(jobs[i]).status = "pending"
    BY <1>3 DEF ViewOf
  <2>10. QED
    BY <1>3, <2>2, <2>6, <2>7, <2>8, <2>9
<1>5. ASSUME NEW n \in Serial \ S PROVE Visible(n)' = Visible(n)
  <2>1. \A t \in Reliable, i \in JobId :
          \/ stored[t][i] # NoJob /\ stored[t][i].sn = n
          \/ stored'[t][i] # NoJob /\ stored'[t][i].sn = n
          => stored'[t][i] = stored[t][i]
    <3> SUFFICES ASSUME NEW t \in Reliable, NEW i \in JobId, i \in Stale,
                        jobs[i].tenant = t
                 PROVE  stored[t][i].sn # n /\ stored'[t][i].sn # n
      BY <1>2
    <3>1. stored[t][i] = jobs[i]
      BY <1>3, Mirrored DEF Refines
    <3>2. stored'[t][i] = jobs'[i]
      BY <1>2
    <3>3. jobs[i].sn # n
      BY <1>0, <1>5 DEF Seen
    <3>4. QED
      BY <1>3, <3>1, <3>2, <3>3
  <2>2. VisibleIn(stored', n) = VisibleIn(stored, n)
    BY <2>1, VisibleFacts, VisibleSame
  <2>3. QED
    BY <2>2, VisibleFacts
<1>6. VJob' = [n \in Serial |-> IF n \in S
                                  THEN [VJob[n] EXCEPT !.status = "failed"] ELSE VJob[n]]
  BY <1>4, <1>5 DEF VJob
<1>7. VHanded' = VHanded
  <2>1. claims' = claims
    BY DEF ExpireStale
  <2>2. QED
    BY <1>4, <1>5, <2>1 DEF VHanded
<1>8. \A n \in S : VJob[n] # NoJob /\ VJob[n].status = "pending"
  BY <1>4 DEF VJob
<1>9. Service!Expire(S)
  BY <1>6, <1>7, <1>8 DEF Service!Expire, VJob, VHanded
<1>10. QED
  BY <1>9

\* Prune is one Remove of the service.
LEMMA PruneRefines ==
  ASSUME Refines, Refines', Prune
  PROVE  \E S \in SUBSET Serial : Service!Remove(S)
<1>0. PICK S \in SUBSET Serial : S = Seen(Prunable)
  BY DEF Seen
<1>1. PICK done \in SUBSET Prunable :
        /\ \A i \in Prunable \ done : jobs[i].tenant \in Flaky
        /\ stored' = [t \in Tenant |-> [i \in JobId |->
             IF i \in done /\ jobs[i].tenant = t THEN NoJob ELSE stored[t][i]]]
  BY DEF Prune
<1>2. \A t \in Reliable, i \in JobId :
        stored'[t][i] = IF i \in Prunable /\ jobs[i].tenant = t THEN NoJob
                                                                ELSE stored[t][i]
  BY <1>1 DEF Reliable
<1>3. \A i \in Prunable : /\ i \in JobId /\ jobs[i] # NoJob /\ jobs[i] \in Job
                          /\ jobs[i].status \in Terminal
  BY DEF Prunable, Refines, Base, TypeInv, TypeOK
<1>4. ASSUME NEW n \in S
      PROVE  /\ n \in Serial /\ Visible(n)' = NoJob
             /\ Visible(n) # NoJob /\ Visible(n).status \in Terminal
  <2>1. PICK i \in Prunable : jobs[i].tenant \in Reliable /\ jobs[i].sn = n
    BY <1>0 DEF Seen
  <2>2. n \in Serial
    BY <1>0 DEF Seen
  <2>3. PICK t \in Reliable : t = jobs[i].tenant
    BY <2>1
  <2>4. stored[t][i] = jobs[i]
    BY <1>3, <2>1, <2>3, Mirrored DEF Refines
  <2>5. Visible(n) = ViewOf(jobs[i])
    BY <1>3, <2>1, <2>2, <2>4, VisibleSome, VisibleFacts
  <2>6. ViewOf(jobs[i]) # NoJob /\ ViewOf(jobs[i]).status \in Terminal
    BY <1>3, ViewType DEF ViewOf
  <2>7. \A u \in Reliable, k \in JobId : stored'[u][k] # NoJob => stored'[u][k].sn # n
    <3> SUFFICES ASSUME NEW u \in Reliable, NEW k \in JobId, stored'[u][k] # NoJob,
                        stored'[u][k].sn = n
                 PROVE  FALSE
      OBVIOUS
    <3>1. stored'[u][k] = stored[u][k] /\ ~(k \in Prunable /\ jobs[k].tenant = u)
      BY <1>2
    <3>2. u \in Tenant
      BY DEF Reliable
    <3>3. k = i /\ jobs[i].tenant = u
      BY <1>3, <2>1, <3>1, <3>2, BucketsDiffer DEF Refines
    <3>4. QED
      BY <3>1, <3>3
  <2>8. Visible(n)' = NoJob
    BY <2>2, <2>7, VisibleNone, VisibleFacts
  <2>9. QED
    BY <2>2, <2>5, <2>6, <2>8
<1>5. ASSUME NEW n \in Serial \ S PROVE Visible(n)' = Visible(n)
  <2>1. \A t \in Reliable, i \in JobId :
          \/ stored[t][i] # NoJob /\ stored[t][i].sn = n
          \/ stored'[t][i] # NoJob /\ stored'[t][i].sn = n
          => stored'[t][i] = stored[t][i]
    <3> SUFFICES ASSUME NEW t \in Reliable, NEW i \in JobId, i \in Prunable,
                        jobs[i].tenant = t, stored[t][i].sn = n
                 PROVE  FALSE
      BY <1>2
    <3>1. stored[t][i] = jobs[i]
      BY <1>3, Mirrored DEF Refines
    <3>2. QED
      BY <1>0, <1>5, <3>1 DEF Seen
  <2>2. VisibleIn(stored', n) = VisibleIn(stored, n)
    BY <2>1, VisibleFacts, VisibleSame
  <2>3. QED
    BY <2>2, VisibleFacts
<1>6. VJob' = [n \in Serial |-> IF n \in S THEN NoJob ELSE VJob[n]]
  BY <1>4, <1>5 DEF VJob
<1>7. VHanded' = [n \in Serial |-> IF n \in S THEN 0 ELSE VHanded[n]]
  <2>1. claims' = claims
    BY DEF Prune
  <2>2. QED
    BY <1>4, <1>5, <2>1 DEF VHanded
<1>8. \A n \in S : VJob[n] # NoJob /\ VJob[n].status \in Terminal
  BY <1>4 DEF VJob
<1>9. Service!Remove(S)
  BY <1>6, <1>7, <1>8 DEF Service!Remove, Service!Terminal, Terminal, VJob, VHanded
<1>10. QED
  BY <1>9

\* Every step of the queue is a step of the service or none.
LEMMA StepRefines ==
  ASSUME Refines, Refines', [Next]_vars
  PROVE  Service!Next \/ UNCHANGED <<VJob, VHanded>>
<1>1. ASSUME NEW t \in Tenant, NEW a \in Agent \cup {None},
             NEW cap \in Capability \cup {None}, NEW i \in JobId, Serving,
             ClaimForTenant(t, a, cap, i)
      PROVE  Service!Next \/ UNCHANGED <<VJob, VHanded>>
  BY <1>1, ClaimRefines DEF Service!Next
<1>2. ASSUME NEW t \in Tenant, NEW i \in JobId, NEW s \in Status,
             Update(t, i, s), claims' = claims
      PROVE  Service!Next \/ UNCHANGED <<VJob, VHanded>>
  <2>1. s \in Service!Status
    BY DEF Status, Service!Status
  <2>2. QED
    BY <1>2, <2>1, UpdateRefines DEF Service!Next
<1>3. ASSUME NEW c \in Client, SubmitInsert(c)
      PROVE  Service!Next \/ UNCHANGED <<VJob, VHanded>>
  <2>1. ASSUME NEW n \in Serial, VJob[n] = NoJob, VJob'[n] # NoJob,
               Service!Submit(n, VJob'[n])
        PROVE  Service!Next
    BY <2>1 DEF Service!Next, VJob
  <2>2. QED
    BY <1>3, <2>1, InsertRefines
<1>4. ASSUME \A t \in Reliable, i \in JobId : stored'[t][i] = stored[t][i],
             claims' = claims
      PROVE  UNCHANGED <<VJob, VHanded>>
  BY <1>4, UnseenStep
<1>5. CASE ExpireStale
  BY <1>5, ExpireRefines DEF Service!Next
<1>6. CASE Prune
  BY <1>6, PruneRefines DEF Service!Next
<1>7. ASSUME NEW a \in Agent, NEW cap \in Capability, WorkerClaim(a, cap)
      PROVE  Service!Next \/ UNCHANGED <<VJob, VHanded>>
  <2>1. Home[a] \in Tenant
    BY ConstantAssumption
  <2>2. QED
    BY <1>1, <1>7, <2>1 DEF WorkerClaim
<1>8. ASSUME NEW t \in Tenant, NEW a \in Agent \cup {None},
             NEW cap \in Capability \cup {None}, OtherClaim(t, a, cap)
      PROVE  Service!Next \/ UNCHANGED <<VJob, VHanded>>
  BY <1>1, <1>8 DEF OtherClaim
<1>9. ASSUME NEW a \in Agent, NEW h \in held[a], NEW s \in {"done", "failed"},
             WorkerFinish(a, h, s)
      PROVE  Service!Next \/ UNCHANGED <<VJob, VHanded>>
  <2>1. Home[a] \in Tenant /\ s \in Status
    BY ConstantAssumption DEF Status
  <2>2. h \in [id : JobId, sn : Serial]
    BY DEF Refines, Base, TypeInv, TypeOK
  <2>3. h.id \in JobId /\ claims' = claims
    BY <1>9, <2>2 DEF WorkerFinish
  <2>4. CASE Update(Home[a], h.id, s)
    BY <1>2, <2>1, <2>3, <2>4
  <2>5. CASE stored' = stored
    BY <1>4, <2>3, <2>5
  <2>6. QED
    BY <1>9, <2>4, <2>5 DEF WorkerFinish
<1>10. ASSUME NEW t \in Tenant, NEW i \in JobId, Cancel(t, i)
       PROVE  Service!Next \/ UNCHANGED <<VJob, VHanded>>
  <2>1. Update(t, i, "cancelled") /\ "cancelled" \in Status /\ claims' = claims
    BY <1>10 DEF Cancel, Update, Status
  <2>2. QED
    BY <1>2, <2>1
<1>11. ASSUME NEW t \in Tenant, NEW i \in JobId, NEW s \in Status, Patch(t, i, s)
       PROVE  Service!Next \/ UNCHANGED <<VJob, VHanded>>
  BY <1>2, <1>11 DEF Patch
<1>12. ASSUME NEW t \in Tenant, DeleteTenant(t) PROVE UNCHANGED <<VJob, VHanded>>
  <2>1. \A u \in Reliable, i \in JobId : stored'[u][i] = stored[u][i]
    BY <1>12 DEF DeleteTenant, Refines, Base, TypeInv, TypeOK, Reliable
  <2>2. QED
    BY <1>4, <1>12, <2>1 DEF DeleteTenant
<1>13. CASE stored' = stored /\ claims' = claims
  BY <1>4, <1>13
<1>14. QED
  BY <1>3, <1>5, <1>6, <1>7, <1>8, <1>9, <1>10, <1>11, <1>12, <1>13
     DEF Next, vars, Post, ScheduledSubmit, SubmitBegin, WorkerGiveUp, AgentCrash,
         LoadBegin, LoadEnd, Crash, Tick

\* Initially no job is visible.
LEMMA InitRefines == Init => Service!Init
<1> SUFFICES ASSUME Init PROVE Service!Init
  OBVIOUS
<1>1. \A t \in Reliable, i \in JobId : stored[t][i] = NoJob
  BY DEF Init, Reliable
<1>2. \A n \in Serial : Visible(n) = NoJob
  <2> SUFFICES ASSUME NEW n \in Serial PROVE VisibleIn(stored, n) = NoJob
    BY DEF Visible, VisibleIn
  <2>1. QED
    BY <1>1, VisibleNone
<1>3. QED
  BY <1>2 DEF Service!Init

\* To reliable tenants the queue (the map, the buckets, the two-step Submit, the
\* cleaners, crashes and LoadFromStore) is the crash-free service of JobService,
\* when nothing is submitted during the boot: a claim hands out the first job by
\* priority and age of all jobs that match, and only finished jobs disappear.
THEOREM QueueImplementsService == ASSUME BootSafe PROVE Spec => ImplementsService
<1>1. Base /\ Base' /\ ClaimInv /\ [Next]_vars => ClaimInv'
  BY ClaimStep
<1>2. Base /\ ClaimInv => Refines
  BY DEF Refines
<1>3. Refines /\ Refines' /\ [Next]_vars
        => [Service!Next]_<<[n \in Serial |-> Visible(n)],
                            [n \in Serial |-> IF Visible(n) = NoJob THEN 0
                                                                    ELSE claims[n]]>>
  BY StepRefines DEF VJob, VHanded
<1>4. QED
  BY <1>1, <1>2, <1>3, ClaimInit, InitRefines, BaseInvariant, PTL
     DEF Spec, ImplementsService, Service!Spec
=============================================================================
