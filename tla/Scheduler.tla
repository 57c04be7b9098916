------------------------------ MODULE Scheduler ------------------------------
(***************************************************************************)
(* Recurring submissions: pkg/scheduler/scheduler.go and the handlers      *)
(* /schedules and /schedules/{id}.                                         *)
(*                                                                         *)
(* Every active schedule has a goroutine (a loop) with a ticker.  A tick   *)
(* is three steps: look the schedule up, submit a job, count the run.      *)
(* Stopping a loop cancels its context and does not wait for it: a loop in *)
(* the middle of a tick goes on, and one whose ticker is ready at the same *)
(* time may even take one more tick (select chooses at random).            *)
(*                                                                         *)
(* What a schedule submits (agent, capability, payload) is one value, what *)
(* its interval is is left out: an update either re-arms the loop or not.  *)
(***************************************************************************)
EXTENDS Integers, FiniteSets

CONSTANTS
  Tenant, Target,
  Loop,          \* goroutines that may exist at the same time
  NoSched, NoLoop, NoTarget,
  Deletable,     \* tenants an administrator may delete
  Flaky,         \* tenants whose writes to the store may fail
  MaxSched,      \* bound on schedules created
  MaxRun,        \* MaxRun[i]: schedule i is not run again when it ran this often
  MaxUpdate,     \* MaxUpdate[n]: bound on PATCH requests while n schedules were created
  MaxCrash       \* bound on restarts

SchedId == 1..MaxSched

\* runs is RunCount; loop is the loop entry.cancel belongs to.
Sched == [tenant : Tenant, target : Target, active : BOOLEAN, runs : Nat]
Entry == [s : Sched, loop : Loop \cup {NoLoop}]

\* live: the context is not cancelled.  at: "exit" when there is no goroutine.
LoopState == [id : SchedId, live : BOOLEAN, at : {"exit", "wait", "submit", "count"},
              job : Target \cup {NoTarget}]

ASSUME SchedulerAssumption ==
  /\ NoSched \notin Sched /\ NoSched \notin Entry /\ NoLoop \notin Loop
  /\ NoTarget \notin Target /\ IsFiniteSet(Loop) /\ Loop # {}
  /\ Deletable \subseteq Tenant /\ Flaky \subseteq Tenant
  /\ MaxSched \in Nat \ {0} /\ MaxRun \in [SchedId -> Nat]
  /\ MaxUpdate \in [SchedId -> Nat]
  /\ MaxCrash \in Nat

VARIABLES
  entries,   \* m.schedules
  counter,   \* m.counter
  stored,    \* stored[t][i]: the value of key "sched_sched-i" in t's bucket
  loops,     \* the goroutines
  loaded,    \* tenants restored by the boot loop
  submitted, \* submitted[i]: jobs submitted for schedule i
  late,      \* late[i]: submitted while i is deleted or inactive, since it became so
  starts,    \* starts[i]: loops started for i
  updates, crashes

vars == <<entries, counter, stored, loops, loaded, submitted, late, starts,
          updates, crashes>>

Exited == [id |-> 1, live |-> FALSE, at |-> "exit", job |-> NoTarget]

Init ==
  /\ entries = [i \in SchedId |-> NoSched]
  /\ counter = 0
  /\ stored = [t \in Tenant |-> [i \in SchedId |-> NoSched]]
  /\ loops = [l \in Loop |-> Exited]
  /\ loaded = {}
  /\ submitted = [i \in SchedId |-> 0]
  /\ late = [i \in SchedId |-> 0]
  /\ starts = [i \in SchedId |-> 0]
  /\ updates = 0 /\ crashes = 0

\* The HTTP listener starts after the boot loop.
Serving == loaded = Tenant

Active(i) == entries[i] # NoSched /\ entries[i].s.active

Free(l) == loops[l].at = "exit"

\* Goroutines have no identity of their own: a new one takes any free name.
NewLoop == CHOOSE l \in Loop : Free(l)

\* persist and unpersist: a failed write is only logged.
Write(t, i, v) ==
  \/ stored' = [stored EXCEPT ![t][i] = v]
  \/ t \in Flaky /\ stored' = stored

\* go m.run(ctx, entry)
Running(i) == [id |-> i, live |-> TRUE, at |-> "wait", job |-> NoTarget]

\* entry.cancel(), unless it is nil.
Stopped(l) == [loops EXCEPT ![l].live = FALSE]

-----------------------------------------------------------------------------
(* The API *)

\* POST /schedules
Add(t, x) ==
  LET i == counter + 1
      s == [tenant |-> t, target |-> x, active |-> TRUE, runs |-> 0]
  IN
  /\ Serving /\ counter < MaxSched /\ updates <= MaxUpdate[i]
  /\ \E l \in Loop : Free(l)
  /\ counter' = i
  /\ entries' = [entries EXCEPT ![i] = [s |-> s, loop |-> NewLoop]]
  /\ Write(t, i, s)
  /\ loops' = [loops EXCEPT ![NewLoop] = Running(i)]
  /\ starts' = [starts EXCEPT ![i] = 1]
  /\ submitted' = [submitted EXCEPT ![i] = 0]
  /\ late' = [late EXCEPT ![i] = 0]
  /\ UNCHANGED <<loaded, updates, crashes>>

\* Mutation of Stops: only deactivation stops the old loop.
StopsInactive(e, s, rearm) == e.s.active /\ ~s.active

\* Update stops the loop of a schedule that is deactivated or re-armed ...
Stops(e, s, rearm) == e.s.active /\ (~s.active \/ rearm)

\* Mutation of Restarts: a re-armed schedule is stopped and not started again.
RestartsActivated(e, s, rearm) == s.active /\ ~e.s.active

\* ... and starts one for a schedule that is activated or re-armed.
Restarts(e, s, rearm) == s.active /\ (~e.s.active \/ rearm)

\* PATCH /schedules/{id}: x the new target, on the new Active, rearm: the
\* interval was changed.
Update(i, x, on, rearm) ==
  LET e == entries[i]
      s == [e.s EXCEPT !.target = x, !.active = on]
      stop == IF Stops(e, s, rearm) THEN Stopped(e.loop) ELSE loops
  IN
  /\ Serving /\ e # NoSched
  /\ updates < MaxUpdate[counter]
  /\ Restarts(e, s, rearm) => \E l \in Loop : Free(l)
  /\ updates' = updates + 1
  /\ loops' = IF Restarts(e, s, rearm) THEN [stop EXCEPT ![NewLoop] = Running(i)] ELSE stop
  /\ starts' = IF Restarts(e, s, rearm) THEN [starts EXCEPT ![i] = @ + 1] ELSE starts
  /\ entries' = [entries EXCEPT ![i] =
       [s |-> s, loop |-> IF Restarts(e, s, rearm) THEN NewLoop
                          ELSE IF Stops(e, s, rearm) THEN NoLoop ELSE e.loop]]
  /\ Write(s.tenant, i, s)
  /\ late' = IF e.s.active THEN [late EXCEPT ![i] = 0] ELSE late
  /\ UNCHANGED <<counter, loaded, submitted, crashes>>

\* DELETE /schedules/{id}
Delete(i) ==
  LET e == entries[i] IN
  /\ Serving
  /\ e # NoSched
  /\ loops' = IF e.loop # NoLoop THEN Stopped(e.loop) ELSE loops
  /\ Write(e.s.tenant, i, NoSched)
  /\ entries' = [entries EXCEPT ![i] = NoSched]
  /\ late' = IF e.s.active THEN [late EXCEPT ![i] = 0] ELSE late
  /\ UNCHANGED <<counter, loaded, submitted, starts, updates, crashes>>

-----------------------------------------------------------------------------
(* The goroutine *)

\* snapshotSubmission finds the schedule active; x is what to submit.
Snapshot(i, x) == Active(i) /\ x = entries[i].s.target

\* The ticker is ready.  A cancelled loop may come here instead of ending.
Tick(l) ==
  LET p == loops[l]
      finds == \E x \in Target : Snapshot(p.id, x)
  IN
  /\ p.at = "wait"
  /\ \/ /\ submitted[p.id] < MaxRun[p.id]
        /\ \E x \in Target : /\ Snapshot(p.id, x)
                             /\ loops' = [loops EXCEPT ![l].at = "submit", ![l].job = x]
     \/ /\ ~finds
        /\ entries[p.id] # NoSched => entries[p.id].s.runs < MaxRun[p.id]
        /\ loops' = [loops EXCEPT ![l].at = "count"]
  /\ UNCHANGED <<entries, counter, stored, loaded, submitted, late, starts,
                 updates, crashes>>

\* m.queue.Submit, without m.mu.
Submit(l) ==
  LET i == loops[l].id IN
  /\ loops[l].at = "submit"
  /\ loops' = [loops EXCEPT ![l].at = "count", ![l].job = NoTarget]
  /\ submitted' = [submitted EXCEPT ![i] = @ + 1]
  /\ late' = IF Active(i) THEN late ELSE [late EXCEPT ![i] = @ + 1]
  /\ UNCHANGED <<entries, counter, stored, loaded, starts, updates, crashes>>

\* Mutation of Count: the run is counted in memory only.
CountInMemory(l) ==
  /\ loops[l].at = "count"
  /\ loops' = [loops EXCEPT ![l].at = "wait"]
  /\ entries' = IF entries[loops[l].id] = NoSched THEN entries
                ELSE [entries EXCEPT ![loops[l].id].s.runs = @ + 1]
  /\ UNCHANGED <<stored, counter, loaded, submitted, late, starts, updates, crashes>>

\* Under m.mu: count the run and persist, if the schedule is still there.
Count(l) ==
  LET i == loops[l].id
      s == [entries[i].s EXCEPT !.runs = @ + 1]
  IN
  /\ loops[l].at = "count"
  /\ loops' = [loops EXCEPT ![l].at = "wait"]
  /\ \/ /\ entries[i] # NoSched
        /\ entries' = [entries EXCEPT ![i].s = s]
        /\ Write(s.tenant, i, s)
     \/ entries[i] = NoSched /\ UNCHANGED <<entries, stored>>
  /\ UNCHANGED <<counter, loaded, submitted, late, starts, updates, crashes>>

\* ctx.Done()
Exit(l) ==
  /\ loops[l].at = "wait" /\ ~loops[l].live
  /\ loops' = [loops EXCEPT ![l] = Exited]
  /\ UNCHANGED <<entries, counter, stored, loaded, submitted, late, starts,
                 updates, crashes>>

-----------------------------------------------------------------------------
(* Tenants, restart *)

\* DELETE /admin/tenants: the bucket goes, the scheduler is not told.
DeleteTenant(t) ==
  /\ Serving /\ t \in Deletable
  /\ stored' = [stored EXCEPT ![t] = [i \in SchedId |-> NoSched]]
  /\ UNCHANGED <<entries, counter, loops, loaded, submitted, late, starts,
                 updates, crashes>>

\* The counter after loading schedules up to number n.
Advance(n) == IF n > counter THEN n ELSE counter

\* LoadFromStore: restore the schedules of t and arm the active ones; where[i]
\* is the new loop of schedule i.
LoadFromStore(t) ==
  LET ids == {i \in SchedId : stored[t][i] # NoSched}
      on  == {i \in ids : stored[t][i].active}
      where == CHOOSE w \in [on -> {l \in Loop : Free(l)}] :
                 \A i, k \in on : i # k => w[i] # w[k]
  IN
  /\ t \notin loaded
  /\ Cardinality(on) <= Cardinality({l \in Loop : Free(l)})
  /\ entries' = [i \in SchedId |->
       IF i \notin ids THEN entries[i]
       ELSE [s |-> stored[t][i], loop |-> IF i \in on THEN where[i] ELSE NoLoop]]
  /\ loops' = [l \in Loop |->
       IF \E i \in on : where[i] = l
         THEN Running(CHOOSE i \in on : where[i] = l) ELSE loops[l]]
  /\ starts' = [i \in SchedId |-> starts[i] + IF i \in on THEN 1 ELSE 0]
  /\ \E n \in ids \cup {0} :
       /\ \A i \in ids : i <= n
       /\ counter' = Advance(n)
  /\ loaded' = loaded \cup {t}
  /\ UNCHANGED <<stored, submitted, late, updates, crashes>>

\* The process ends, in whatever state the loops are.
Crash ==
  /\ crashes < MaxCrash
  /\ crashes' = crashes + 1
  /\ entries' = [i \in SchedId |-> NoSched]
  /\ counter' = 0
  /\ loops' = [l \in Loop |-> Exited]
  /\ loaded' = {}
  /\ UNCHANGED <<stored, submitted, late, starts, updates>>

Next ==
  \/ \E t \in Tenant, x \in Target : Add(t, x)
  \/ \E i \in SchedId :
       \/ \E x \in Target, on, rearm \in BOOLEAN : Update(i, x, on, rearm)
       \/ Delete(i)
  \/ \E l \in Loop : Tick(l) \/ Submit(l) \/ Count(l) \/ Exit(l)
  \/ \E t \in Tenant : DeleteTenant(t) \/ LoadFromStore(t)
  \/ Crash

Spec == Init /\ [][Next]_vars

\* Tickers fire, goroutines proceed, the boot loop goes through the tenants.
FairSpec ==
  /\ Spec
  /\ \A l \in Loop : /\ WF_vars(Tick(l) /\ loops[l].live)
                     /\ WF_vars(Submit(l)) /\ WF_vars(Count(l)) /\ WF_vars(Exit(l))
  /\ \A t \in Tenant : WF_vars(LoadFromStore(t))

-----------------------------------------------------------------------------
(* Properties *)

\* Every variable has its type; the counter stays within the ids given out, also
\* after LoadFromStore has set it.
TypeOK ==
  /\ entries \in [SchedId -> Entry \cup {NoSched}]
  /\ counter \in 0..MaxSched
  /\ stored \in [Tenant -> [SchedId -> Sched \cup {NoSched}]]
  /\ loops \in [Loop -> LoopState]
  /\ loaded \in SUBSET Tenant
  /\ submitted \in [SchedId -> Nat] /\ late \in [SchedId -> Nat]
  /\ starts \in [SchedId -> Nat]
  /\ updates \in Nat /\ crashes \in 0..MaxCrash

\* An active schedule has exactly one loop that is not cancelled, the one its
\* entry can cancel; an inactive or deleted one has none.
OneLoopPerActive ==
  \A i \in SchedId :
    LET alive == {l \in Loop : ~Free(l) /\ loops[l].live /\ loops[l].id = i}
    IN  IF Active(i) THEN alive = {entries[i].loop} ELSE alive = {}

\* Tenants whose writes succeed and whom nobody deletes.
Reliable == Tenant \ (Flaky \cup Deletable)

\* The buckets of the loaded tenants hold exactly the schedules in memory, when
\* their writes succeed and nobody deletes them, whatever happens to others.
StoreMirrorsSchedules ==
  \A t \in loaded \cap Reliable, i \in SchedId :
    stored[t][i] = IF entries[i] # NoSched /\ entries[i].s.tenant = t
                     THEN entries[i].s ELSE NoSched

\* A schedule that was deactivated or deleted submits at most one more job for
\* each loop that was started for it.
LateBounded == \A i \in SchedId : late[i] <= starts[i]

\* Every submission is counted: across restarts the run_count of a reliable
\* tenant's schedule falls behind by at most the runs that were under way at
\* each crash, one for each loop.
RunsCounted ==
  \A i \in SchedId : entries[i] # NoSched /\ entries[i].s.tenant \in Reliable =>
    submitted[i] <= entries[i].s.runs + starts[i]

\* A schedule that is active, also one restored after a crash, submits again
\* and again (until the bound), unless it is deactivated, deleted or lost.
ActiveScheduleRuns ==
  \A i \in SchedId : Active(i) ~> (~Active(i) \/ submitted[i] >= MaxRun[i])

\* Update, Delete and startLocked keep the goroutines under control: those that are not
\* cancelled are the ones the entries can cancel, and a schedule that was stopped submits no
\* more late jobs than loops were ever started for it (one tick of each was under way).
LoopsUnderControl == OneLoopPerActive /\ LateBounded

\* Bucket, memory and the jobs that were submitted tell the same story about every
\* schedule, across failed writes of others and restarts.
SchedulesAreExact == TypeOK /\ StoreMirrorsSchedules /\ RunsCounted
=============================================================================
