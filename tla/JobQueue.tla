------------------------------ MODULE JobQueue ------------------------------
(***************************************************************************)
(* The durable job queue: pkg/jobs/jobs.go, the HTTP handlers              *)
(* /agents/jobs and /agents/jobs/{claim,id} of cmd/spectral-cloud/main.go, *)
(* the boot loop that restores the queue tenant by tenant, and the worker  *)
(* loop of cmd/spectral-agent that claims and finishes jobs.               *)
(*                                                                         *)
(* The server keeps all jobs of all tenants in one map keyed by "job-N"    *)
(* (here: N), mirrors every change into the tenant's bucket of the store,  *)
(* and rebuilds the map and the id counter from the store after a restart. *)
(* Agents are other processes: they keep what they claimed while the       *)
(* server is down.                                                         *)
(*                                                                         *)
(* Payload, result and error strings are left out: nothing tests them.     *)
(***************************************************************************)
EXTENDS Integers, FiniteSets

CONSTANTS
  Tenant, Agent, Capability,
  None,          \* the empty agent_id or capability, ""
  NoJob,         \* an id without a job
  Client,        \* goroutines that may be inside SubmitWithOpts
  Requests,      \* the job requests posted over HTTP
  Schedules,     \* the job requests submitted by restored schedules
  Offers,        \* Offers[a]: the capabilities configured for agent a
  Home,          \* Home[a]: the tenant of agent a's API key
  Slots,         \* the worker's semaphore size
  PruneAge,      \* maxAge given to Prune
  Janitor,       \* the cleaners that run: {"Prune"} in the server
  Deletable,     \* tenants an administrator may delete
  Flaky,         \* tenants whose writes to the store may fail
  Lossy,         \* may an answer to an agent be lost, may an agent crash?
  MaxSubmit,     \* bound on the number of submissions
  MaxTime,       \* bound on the clock
  MaxCrash,      \* bound on server restarts
  PatchTo,       \* bound on the statuses API clients set
  MaxPatch       \* bound on status changes made by API clients

Status == {"pending", "running", "done", "failed", "cancelled", "other"}
Terminal == {"done", "failed", "cancelled"}
JobId  == 1..MaxSubmit
Serial == 1..MaxSubmit

Request == [tenant : Tenant, agent : Agent \cup {None},
            capability : Capability \cup {None}, priority : Int, ttl : Nat]

\* sn is not in the code: the number of the submission, which tells apart two
\* jobs that were given the same id.  expires = 0 when there is no expiry.
Job == [tenant : Tenant, agent : Agent \cup {None},
        capability : Capability \cup {None}, priority : Int, status : Status,
        created : Nat, updated : Nat, expires : Nat, sn : Serial]

ASSUME ConstantAssumption ==
  /\ None \notin Agent \cup Capability \cup Tenant
  /\ NoJob \notin Job
  /\ NoJob \notin [id : JobId, job : Job]
  /\ NoJob \notin [tenant : Tenant, agent : Agent \cup {None},
                  capability : Capability \cup {None}, priority : Int,
                  created : Nat, status : Status]
  /\ Requests \subseteq Request /\ Schedules \subseteq Request
  /\ \A r \in Requests \cup Schedules : r.agent # None \/ r.capability # None
  /\ Offers \in [Agent -> SUBSET Capability] /\ Home \in [Agent -> Tenant]
  /\ Slots \in Nat /\ PruneAge \in Nat
  /\ Janitor \subseteq {"Prune", "ExpireStale"} /\ Deletable \subseteq Tenant
  /\ Flaky \subseteq Tenant /\ Lossy \in BOOLEAN
  /\ MaxSubmit \in Nat /\ MaxTime \in Nat /\ MaxCrash \in Nat /\ MaxPatch \in Nat

VARIABLES
  jobs,      \* q.jobs: the map in memory
  counter,   \* q.counter
  stored,    \* stored[t][i]: the value of key "job_job-i" in t's bucket
  inflight,  \* per client: the job built by SubmitWithOpts, not yet inserted
  held,      \* per agent: the jobs its goroutines are working on
  loaded,    \* tenants already restored by the boot loop
  restoring, \* the LoadFromStore under way: its tenant and the counter it read
  now,       \* the clock
  submits,   \* submissions so far, over all restarts
  claims,    \* claims[s]: how often submission s was claimed
  requeues,  \* requeues[s]: how often a client set s back to pending
  crashes, patches,
  \* for the properties only:
  pruned,    \* submissions pruned since the server started
  forgotten  \* submissions pruned before its last start

vars == <<jobs, counter, stored, inflight, held, loaded, restoring, now,
          submits, claims, requeues, crashes, patches, pruned, forgotten>>

Idle == [tenant |-> None, seen |-> 0]

\* Every variable has its type; the id counter never passes the bound on
\* submissions, whatever LoadFromStore makes of it.
TypeOK ==
  /\ jobs \in [JobId -> Job \cup {NoJob}]
  /\ counter \in 0..MaxSubmit
  /\ stored \in [Tenant -> [JobId -> Job \cup {NoJob}]]
  /\ inflight \in [Client -> [id : JobId, job : Job] \cup {NoJob}]
  /\ held \in [Agent -> SUBSET [id : JobId, sn : Serial]]
  /\ loaded \in SUBSET Tenant
  /\ restoring \in [tenant : Tenant \cup {None}, seen : 0..MaxSubmit]
  /\ now \in Nat
  /\ submits \in 0..MaxSubmit
  /\ claims \in [Serial -> Nat] /\ requeues \in [Serial -> Nat]
  /\ crashes \in 0..MaxCrash /\ patches \in 0..MaxPatch

Init ==
  /\ jobs = [i \in JobId |-> NoJob]
  /\ counter = 0
  /\ stored = [t \in Tenant |-> [i \in JobId |-> NoJob]]
  /\ inflight = [c \in Client |-> NoJob]
  /\ held = [a \in Agent |-> {}]
  /\ loaded = {} /\ restoring = Idle
  /\ now = 1 /\ submits = 0
  /\ claims = [s \in Serial |-> 0] /\ requeues = [s \in Serial |-> 0]
  /\ crashes = 0 /\ patches = 0
  /\ pruned = {} /\ forgotten = {}

\* The HTTP listener is started after the boot loop has restored every tenant.
Serving == loaded = Tenant

\* q.mu is free: LoadFromStore holds it between its two steps.
Unlocked == restoring.tenant = None

Present(t, i) == jobs[i] # NoJob /\ jobs[i].tenant = t

(***************************************************************************)
(* Writing through to the store.  persist and unpersist log a failed write *)
(* and carry on.                                                           *)
(***************************************************************************)
Write(i, v, t) ==
  \/ stored' = [stored EXCEPT ![t][i] = v]
  \/ t \in Flaky /\ stored' = stored

\* Mutation of Set: the change is not persisted.
SetInMemory(i, agent, status) ==
  /\ jobs' = [jobs EXCEPT ![i].agent = agent, ![i].status = status, ![i].updated = now]
  /\ stored' = stored

\* j.Status, j.UpdatedAt and possibly j.AgentID are assigned, then persisted.
Set(i, agent, status) ==
  LET j == [jobs[i] EXCEPT !.agent = agent, !.status = status, !.updated = now]
  IN  /\ jobs' = [jobs EXCEPT ![i] = j]
      /\ Write(i, j, j.tenant)

-----------------------------------------------------------------------------
(* Submission *)

Expiry(ttl) == IF ttl > 0 THEN now + ttl ELSE 0

\* The first half of SubmitWithOpts, before the lock: take an id, build the job.
SubmitBegin(c, r, agent) ==
  /\ inflight[c] = NoJob
  /\ submits < MaxSubmit
  /\ counter' = counter + 1
  /\ submits' = submits + 1
  /\ inflight' = [inflight EXCEPT ![c] =
       [id |-> counter + 1,
        job |-> [tenant |-> r.tenant, agent |-> agent,
                 capability |-> r.capability, priority |-> r.priority,
                 status |-> "pending", created |-> now, updated |-> now,
                 expires |-> Expiry(r.ttl), sn |-> submits + 1]]]
  /\ UNCHANGED <<jobs, stored, held, loaded, restoring, now, claims, requeues,
                 crashes, patches, pruned, forgotten>>

\* POST /agents/jobs.  With only a capability the handler assigns the job to
\* the agent FindBest picks among those that advertise it (or answers 503).
Post(c, r) ==
  /\ Serving
  /\ IF r.agent # None
       THEN SubmitBegin(c, r, r.agent)
       ELSE \E a \in Agent : /\ Home[a] = r.tenant /\ r.capability \in Offers[a]
                             /\ SubmitBegin(c, r, a)

\* A restored schedule fires.  The boot loop arms a tenant's schedules right
\* after it has loaded that tenant's jobs, before the next tenant's are loaded.
ScheduledSubmit(c, r) == r.tenant \in loaded /\ SubmitBegin(c, r, r.agent)

\* The second half of SubmitWithOpts, under the lock: insert and persist.
SubmitInsert(c) ==
  /\ inflight[c] # NoJob
  /\ Unlocked
  /\ jobs' = [jobs EXCEPT ![inflight[c].id] = inflight[c].job]
  /\ Write(inflight[c].id, inflight[c].job, inflight[c].job.tenant)
  /\ inflight' = [inflight EXCEPT ![c] = NoJob]
  /\ UNCHANGED <<counter, held, loaded, restoring, now, submits, claims,
                 requeues, crashes, patches, pruned, forgotten>>

-----------------------------------------------------------------------------
(* Claiming *)

\* Mutation of Match: the status of the candidate is not looked at.
MatchAnyStatus(t, a, cap, i) ==
  /\ Present(t, i)
  /\ cap # None => jobs[i].capability = cap
  /\ a # None => jobs[i].agent \in {None, a}

\* Candidates of ClaimForTenant; None leaves the agent or capability open.
Match(t, a, cap, i) ==
  /\ Present(t, i)
  /\ jobs[i].status = "pending"
  /\ cap # None => jobs[i].capability = cap
  /\ a # None => jobs[i].agent \in {None, a}

\* Mutation of Before: the priority is ignored.
BeforeByAge(i, k) == jobs[i].created < jobs[k].created

Before(i, k) ==
  \/ jobs[i].priority > jobs[k].priority
  \/ jobs[i].priority = jobs[k].priority /\ jobs[i].created < jobs[k].created

\* Highest priority, then oldest; a tie falls to the order of the Go map.
Best(t, a, cap, i) ==
  /\ Match(t, a, cap, i)
  /\ \A k \in JobId : Match(t, a, cap, k) => ~Before(k, i)

ClaimForTenant(t, a, cap, i) ==
  /\ Best(t, a, cap, i)
  /\ Set(i, IF a # None THEN a ELSE jobs[i].agent, "running")
  /\ claims' = [claims EXCEPT ![jobs[i].sn] = @ + 1]

\* claimAndRun: with a free slot, ask for one job of one configured capability.
WorkerClaim(a, cap) ==
  /\ Serving
  /\ Unlocked
  /\ cap \in Offers[a]
  /\ Cardinality(held[a]) < Slots
  /\ \E i \in JobId :
       /\ ClaimForTenant(Home[a], a, cap, i)
       /\ held' = [held EXCEPT ![a] = @ \cup {[id |-> i, sn |-> jobs[i].sn]}]
  /\ UNCHANGED <<counter, inflight, loaded, restoring, now, submits, requeues,
                 crashes, patches, pruned, forgotten>>

\* A claim whose answer reaches no worker goroutine: the response is lost, or
\* it was another API client, which may leave out agent_id or capability.
OtherClaim(t, a, cap) ==
  /\ Lossy
  /\ Serving
  /\ Unlocked
  /\ a # None \/ cap # None
  /\ \E i \in JobId : ClaimForTenant(t, a, cap, i)
  /\ UNCHANGED <<counter, inflight, held, loaded, restoring, now, submits,
                 requeues, crashes, patches, pruned, forgotten>>

-----------------------------------------------------------------------------
(* Status changes *)

\* The PATCH handler: 404 unless the job exists and belongs to the tenant,
\* otherwise Update, which checks neither the old nor the new status.
Update(t, i, status) == Present(t, i) /\ Set(i, jobs[i].agent, status)

\* Mutation of WorkerFinish: the semaphore slot is not given back.
WorkerFinishKeepsSlot(a, h, status) ==
  /\ Serving
  /\ Unlocked
  /\ h \in held[a]
  /\ Update(Home[a], h.id, status)
  /\ UNCHANGED <<counter, inflight, held, loaded, restoring, now, submits,
                 claims, requeues, crashes, patches, pruned, forgotten>>

\* finishJob: the answer of a worker goroutine, which then frees its slot.  A
\* 404 is not retried.
WorkerFinish(a, h, status) ==
  /\ Serving
  /\ Unlocked
  /\ h \in held[a]
  /\ \/ Update(Home[a], h.id, status)
     \/ ~Present(Home[a], h.id) /\ UNCHANGED <<jobs, stored>>
  /\ held' = [held EXCEPT ![a] = @ \ {h}]
  /\ UNCHANGED <<counter, inflight, loaded, restoring, now, submits, claims,
                 requeues, crashes, patches, pruned, forgotten>>

\* finishJob gives up: any failure but 429 ends it, and so does the 8th 429.
WorkerGiveUp(a, h) ==
  /\ Lossy \/ ~Serving
  /\ h \in held[a]
  /\ held' = [held EXCEPT ![a] = @ \ {h}]
  /\ UNCHANGED <<jobs, counter, stored, inflight, loaded, restoring, now,
                 submits, claims, requeues, crashes, patches, pruned, forgotten>>

AgentCrash(a) ==
  /\ Lossy
  /\ held[a] # {}
  /\ held' = [held EXCEPT ![a] = {}]
  /\ UNCHANGED <<jobs, counter, stored, inflight, loaded, restoring, now,
                 submits, claims, requeues, crashes, patches, pruned, forgotten>>

\* PATCH /agents/jobs/{id} by an API client.
Patch(t, i, status) ==
  /\ Serving
  /\ Unlocked
  /\ patches < MaxPatch /\ status \in PatchTo
  /\ Update(t, i, status)
  /\ patches' = patches + 1
  /\ requeues' = IF status = "pending"
                   THEN [requeues EXCEPT ![jobs[i].sn] = @ + 1] ELSE requeues
  /\ UNCHANGED <<counter, inflight, held, loaded, restoring, now, submits,
                 claims, crashes, pruned, forgotten>>

\* DELETE /agents/jobs/{id}.
Cancel(t, i) ==
  /\ Serving
  /\ Unlocked
  /\ Present(t, i)
  /\ jobs[i].status \notin Terminal
  /\ Set(i, jobs[i].agent, "cancelled")
  /\ UNCHANGED <<counter, inflight, held, loaded, restoring, now, submits,
                 claims, requeues, crashes, patches, pruned, forgotten>>

-----------------------------------------------------------------------------
(* Cleaning *)

Expired(i) == jobs[i].expires # 0 /\ now > jobs[i].expires

Stale == {i \in JobId : /\ jobs[i] # NoJob /\ jobs[i].status = "pending"
                        /\ Expired(i)}

ExpireStale ==
  /\ "ExpireStale" \in Janitor
  /\ Unlocked
  /\ Stale # {}
  /\ jobs' = [i \in JobId |->
       IF i \in Stale
         THEN [jobs[i] EXCEPT !.status = "failed", !.updated = now] ELSE jobs[i]]
  /\ \E done \in SUBSET Stale :
       /\ \A i \in Stale \ done : jobs[i].tenant \in Flaky
       /\ stored' = [t \in Tenant |-> [i \in JobId |->
            IF i \in done /\ jobs[i].tenant = t THEN jobs'[i] ELSE stored[t][i]]]
  /\ UNCHANGED <<counter, inflight, held, loaded, restoring, now, submits,
                 claims, requeues, crashes, patches, pruned, forgotten>>

Prunable == {i \in JobId : /\ jobs[i] # NoJob /\ jobs[i].status \in Terminal
                           /\ jobs[i].updated < now - PruneAge}

Prune ==
  /\ "Prune" \in Janitor
  /\ Unlocked
  /\ Prunable # {}
  /\ jobs' = [i \in JobId |-> IF i \in Prunable THEN NoJob ELSE jobs[i]]
  /\ \E done \in SUBSET Prunable :
       /\ \A i \in Prunable \ done : jobs[i].tenant \in Flaky
       /\ stored' = [t \in Tenant |-> [i \in JobId |->
            IF i \in done /\ jobs[i].tenant = t THEN NoJob ELSE stored[t][i]]]
  /\ pruned' = pruned \cup {jobs[i].sn : i \in Prunable}
  /\ UNCHANGED <<counter, inflight, held, loaded, restoring, now, submits,
                 claims, requeues, crashes, patches, forgotten>>

\* DELETE /admin/tenants/{t}: the tenant's bucket goes, the queue is not told.
DeleteTenant(t) ==
  /\ Serving
  /\ t \in Deletable
  /\ stored' = [stored EXCEPT ![t] = [i \in JobId |-> NoJob]]
  /\ UNCHANGED <<jobs, counter, inflight, held, loaded, restoring, now,
                 submits, claims, requeues, crashes, patches, pruned, forgotten>>

-----------------------------------------------------------------------------
(* Restart.  LoadFromStore reads and writes q.counter without the atomics   *)
(* Submit uses: the comparison and the assignment are two steps.            *)

HighestStored(t, n) ==
  /\ \A i \in JobId : stored[t][i] # NoJob => i <= n
  /\ n = 0 \/ (n \in JobId /\ stored[t][n] # NoJob)

\* Mutations of Advance: ids are not skipped, or skipped cumulatively.
AdvanceNever(n) == counter
AdvanceAdds(n)  == counter + n

\* q.counter = n, when the comparison found n above the counter it read.
Advance(n) == IF n > restoring.seen THEN n ELSE counter

LoadBegin(t) ==
  /\ Unlocked
  /\ t \notin loaded
  /\ restoring' = [tenant |-> t, seen |-> counter]
  /\ UNCHANGED <<jobs, counter, stored, inflight, held, loaded, now, submits,
                 claims, requeues, crashes, patches, pruned, forgotten>>

LoadEnd ==
  LET t == restoring.tenant IN
  /\ ~Unlocked
  /\ jobs' = [i \in JobId |-> IF stored[t][i] # NoJob THEN stored[t][i] ELSE jobs[i]]
  /\ \E n \in 0..MaxSubmit :
       /\ HighestStored(t, n)
       /\ counter' = Advance(n)
  /\ loaded' = loaded \cup {t}
  /\ restoring' = Idle
  /\ UNCHANGED <<stored, inflight, held, now, submits, claims, requeues,
                 crashes, patches, pruned, forgotten>>

\* The server process dies: everything but the store is lost.
Crash ==
  /\ crashes < MaxCrash
  /\ crashes' = crashes + 1
  /\ jobs' = [i \in JobId |-> NoJob]
  /\ counter' = 0
  /\ inflight' = [c \in Client |-> NoJob]
  /\ loaded' = {} /\ restoring' = Idle
  /\ forgotten' = forgotten \cup pruned /\ pruned' = {}
  /\ UNCHANGED <<stored, held, now, submits, claims, requeues, patches>>

Tick ==
  /\ now < MaxTime
  /\ now' = now + 1
  /\ UNCHANGED <<jobs, counter, stored, inflight, held, loaded, restoring,
                 submits, claims, requeues, crashes, patches, pruned, forgotten>>

-----------------------------------------------------------------------------
Next ==
  \/ \E c \in Client : \/ \E r \in Requests : Post(c, r)
                       \/ \E r \in Schedules : ScheduledSubmit(c, r)
                       \/ SubmitInsert(c)
  \/ \E a \in Agent : \/ \E cap \in Capability : WorkerClaim(a, cap)
                      \/ \E h \in held[a] :
                            \/ \E s \in {"done", "failed"} : WorkerFinish(a, h, s)
                            \/ WorkerGiveUp(a, h)
                      \/ AgentCrash(a)
  \/ \E t \in Tenant : \/ \E a \in Agent \cup {None}, cap \in Capability \cup {None} :
                            OtherClaim(t, a, cap)
                       \/ \E i \in JobId : \/ \E s \in Status : Patch(t, i, s)
                                           \/ Cancel(t, i)
                       \/ DeleteTenant(t)
                       \/ LoadBegin(t)
  \/ LoadEnd
  \/ ExpireStale
  \/ Prune
  \/ Crash
  \/ Tick

Spec == Init /\ [][Next]_vars

\* Goroutines of the server proceed, the cleaners that run do so on a ticker,
\* and a worker polls each capability it is configured for and answers every
\* job it runs.
Fairness ==
  /\ \A c \in Client : WF_vars(SubmitInsert(c))
  /\ \A t \in Tenant : WF_vars(LoadBegin(t))
  /\ WF_vars(LoadEnd)
  /\ WF_vars(ExpireStale)
  /\ \A a \in Agent : \A cap \in Capability : WF_vars(WorkerClaim(a, cap))
  /\ \A a \in Agent : \A i \in JobId, n \in Serial :
       WF_vars(\E s \in {"done", "failed"} :
                 WorkerFinish(a, [id |-> i, sn |-> n], s))

FairSpec == Spec /\ Fairness

-----------------------------------------------------------------------------
(* Properties *)

\* No two submissions share an id: whatever holds id i (the map, a bucket, a
\* Submit under way) is the same submission.  This is what the counter and its
\* repair in LoadFromStore are for.
UniqueIds ==
  /\ \A c \in Client : inflight[c] # NoJob =>
       /\ jobs[inflight[c].id] = NoJob
       /\ \A t \in Tenant : stored[t][inflight[c].id] = NoJob
       /\ \A d \in Client : d # c /\ inflight[d] # NoJob
                              => inflight[d].id # inflight[c].id
  /\ \A i \in JobId, t \in Tenant : stored[t][i] # NoJob =>
       /\ jobs[i] # NoJob => jobs[i].sn = stored[t][i].sn
       /\ \A u \in Tenant : stored[u][i] # NoJob => u = t

\* Tenants whose writes succeed and whom nobody deletes.
Reliable == Tenant \ (Flaky \cup Deletable)

\* After LoadFromStore the bucket of a reliable tenant holds exactly the
\* tenant's jobs in memory, field by field, so that a restart at any point loses
\* nothing; the lost writes and reused ids of other tenants do not disturb it.
StoreMirrorsQueue ==
  \A t \in loaded \cap Reliable, i \in JobId :
    stored[t][i] = IF Present(t, i) THEN jobs[i] ELSE NoJob

\* Restarts and lost answers included, a job of a reliable tenant is handed out
\* once, plus once for each time a client put it back to pending.
ClaimedOnce ==
  \A i \in JobId : jobs[i] # NoJob /\ jobs[i].tenant \in Reliable =>
    claims[jobs[i].sn] <= 1 + requeues[jobs[i].sn]

\* While a worker of a reliable tenant works on a job, the id it will PATCH in
\* finishJob is that of its own job, or of none.  It can be another job's only
\* after others have ended the worker's job, Prune has forgotten it 24 hours
\* later, and a restart has then set the id counter back: never before both.
HeldJobIsOwn ==
  \A a \in Agent : Home[a] \in Reliable =>
    \A h \in held[a] : h.sn \notin forgotten /\ jobs[h.id] # NoJob =>
      jobs[h.id].sn = h.sn

Pending(n) == \E i \in JobId : jobs[i] # NoJob /\ jobs[i].sn = n
                               /\ jobs[i].status = "pending"
Claimable(n) ==
  \E i \in JobId, a \in Agent :
    /\ jobs[i] # NoJob /\ jobs[i].sn = n /\ jobs[i].status = "pending"
    /\ jobs[i].tenant = Home[a] /\ jobs[i].agent \in {None, a}
    /\ jobs[i].capability \in Offers[a]
Settled(n) == \A i \in JobId : jobs[i] # NoJob /\ jobs[i].sn = n
                                 => jobs[i].status \in Terminal \cup {"other"}

\* A pending job some agent is configured for reaches a final status.
ClaimableJobSettles == \A n \in Serial : Claimable(n) ~> Settled(n)

-----------------------------------------------------------------------------
(* Refinement: to its users the queue is the service of JobService.         *)

\* What a client sees of a job.
ViewOf(j) == [tenant |-> j.tenant, agent |-> j.agent, capability |-> j.capability,
              priority |-> j.priority, created |-> j.created, status |-> j.status]

\* The job of submission n is the one the bucket of a reliable tenant holds, in
\* memory or not.
Visible(n) ==
  LET at == {p \in Reliable \X JobId : /\ stored[p[1]][p[2]] # NoJob
                                       /\ stored[p[1]][p[2]].sn = n}
  IN  IF at = {} THEN NoJob
      ELSE LET p == CHOOSE p \in at : TRUE IN ViewOf(stored[p[1]][p[2]])

Service == INSTANCE JobService WITH Submission <- Serial, Absent <- NoJob,
                                    job <- [n \in Serial |-> Visible(n)],
                                    handed <- [n \in Serial |->
                                      IF Visible(n) = NoJob THEN 0 ELSE claims[n]]

\* To reliable tenants the queue with its map, buckets, two-step submissions,
\* crashes and reloads implements the crash-free service, whatever becomes of the
\* other tenants: a job handed out, also right after a restart, is the first by
\* priority and age of all jobs ever acknowledged that match, and only jobs in a
\* final status disappear.
ImplementsService == Service!Spec
=============================================================================
