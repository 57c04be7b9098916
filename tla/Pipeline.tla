------------------------------ MODULE Pipeline ------------------------------
(***************************************************************************)
(* Multi-stage pipelines: pkg/pipeline/pipeline.go and the handlers under  *)
(* /agent-pipelines.                                                       *)
(*                                                                         *)
(* The manager only keeps books.  The handler that starts or advances a    *)
(* run does three things one after the other: it moves the run (under the  *)
(* manager's lock), submits a job for the stage, and records the job in    *)
(* the run (under the lock again).  That the next advance is due is known  *)
(* to the API client alone, which sees the job end.                        *)
(*                                                                         *)
(* A pipeline is its name and its number of stages.  A stage names an      *)
(* agent, or a capability for which an agent must be found: that this can  *)
(* fail is the constant Unavailable.  The job queue is durable (see        *)
(* JobQueue).                                                              *)
(***************************************************************************)
EXTENDS Integers, Sequences

CONSTANTS
  Tenant,
  Caller,        \* request goroutines
  NoPipe, NoRun, NoCall,
  Retry,         \* may a client send an advance again, its answer being lost?
  Unavailable,   \* may FindBest find no agent?
  MayDelete,     \* are pipelines deleted?
  Keep, Bad,     \* what a PATCH does not set; stages that validateStages refuses
  Bodies,        \* the bodies of PATCH requests
  Deletable,     \* tenants an administrator may delete
  Flaky,         \* the tenants whose writes may fail
  MaxPipe,       \* bound on pipelines created
  MaxStages,     \* bound on the stages of a pipeline
  MaxRun,        \* bound on runs started
  MaxUpdate,     \* bound on PATCH requests
  MaxCrash       \* bound on restarts

PipeId == 1..MaxPipe
RunId  == 1..MaxRun
RunStatus == {"running", "done", "failed"}

\* A pipeline has its first name, or another one.
Name == {"first", "second"}

Pipe == [tenant : Tenant, name : Name, stages : 1..MaxStages]

\* UpdateParams
Body == [name : Name \cup {Keep}, stages : (1..MaxStages) \cup {Keep, Bad}]
Run == [tenant : Tenant, pipe : PipeId, status : RunStatus,
        stage : 0..(MaxStages - 1), jobs : Seq(Nat)]

\* A handler under way: about to submit a job for a stage, or to record it.
Call == [at : {"submit", "record"}, run : RunId, stage : 0..(MaxStages - 1), job : Nat]

\* A job of the queue that a handler submitted for a stage of a run.
StageJob == [tenant : Tenant, run : RunId, stage : 0..(MaxStages - 1), done : BOOLEAN]

ASSUME PipelineAssumption ==
  /\ NoPipe \notin Pipe /\ NoRun \notin Run /\ NoCall \notin Call
  /\ Bodies \subseteq Body /\ Keep \notin Name /\ Keep \notin 1..MaxStages
  /\ Retry \in BOOLEAN /\ Unavailable \in BOOLEAN /\ MayDelete \in BOOLEAN
  /\ Deletable \subseteq Tenant /\ Flaky \subseteq Tenant
  /\ MaxPipe \in Nat \ {0} /\ MaxStages \in Nat \ {0} /\ MaxRun \in Nat \ {0}
  /\ MaxUpdate \in Nat /\ MaxCrash \in Nat

VARIABLES
  pipes, runs,              \* m.pipelines, m.runs
  pipeCounter, runCounter,
  storedPipes, storedRuns,  \* keys "pipeline_..." and "prun_..." of each tenant
  loaded,                   \* tenants restored by the boot loop
  calls,                    \* the handlers
  jobs,                     \* the stage jobs in the queue, in order of submission
  reported,                 \* jobs whose end a client has answered with an advance
  created, started,         \* pipelines and runs so far
  updates, crashes,
  \* for the properties only:
  renamed,  \* pipelines that a refused PATCH has renamed in memory only
  cut       \* <<r, n>>: the handler that was to submit stage n of run r came to its end

memory == <<pipes, runs, pipeCounter, runCounter>>
store  == <<storedPipes, storedRuns>>
noted  == <<renamed, cut>>
vars == <<memory, store, loaded, calls, jobs, reported, created, started,
          updates, crashes, noted>>

Init ==
  /\ pipes = [i \in PipeId |-> NoPipe] /\ runs = [r \in RunId |-> NoRun]
  /\ pipeCounter = 0 /\ runCounter = 0
  /\ storedPipes = [t \in Tenant |-> [i \in PipeId |-> NoPipe]]
  /\ storedRuns = [t \in Tenant |-> [r \in RunId |-> NoRun]]
  /\ loaded = {}
  /\ calls = [c \in Caller |-> NoCall]
  /\ jobs = <<>> /\ reported = {}
  /\ created = 0 /\ started = 0 /\ updates = 0 /\ crashes = 0
  /\ renamed = {} /\ cut = {}

\* The HTTP listener starts after the boot loop.
Serving == loaded = Tenant

Owns(t, i) == pipes[i] # NoPipe /\ pipes[i].tenant = t

\* persistPipeline, unpersistPipeline and persistRun: a failure is only logged.
WritePipe(t, i, v) ==
  \/ storedPipes' = [storedPipes EXCEPT ![t][i] = v]
  \/ t \in Flaky /\ storedPipes' = storedPipes
WriteRun(t, r, v) ==
  \/ storedRuns' = [storedRuns EXCEPT ![t][r] = v]
  \/ t \in Flaky /\ storedRuns' = storedRuns

-----------------------------------------------------------------------------
(* Pipelines *)

\* POST /agent-pipelines
CreatePipeline(t, n) ==
  LET i == pipeCounter + 1
      p == [tenant |-> t, name |-> "first", stages |-> n]
  IN
  /\ Serving /\ created < MaxPipe
  /\ created' = created + 1
  /\ pipeCounter' = i
  /\ pipes' = [pipes EXCEPT ![i] = p]
  /\ WritePipe(t, i, p)
  /\ renamed' = renamed \ {i}
  /\ UNCHANGED <<runs, runCounter, storedRuns, loaded, calls, jobs, reported,
                 started, updates, crashes, cut>>

\* PATCH /agent-pipelines/{id}, runs under way or not.
UpdatePipeline(t, i, b) ==
  LET p == [pipes[i] EXCEPT !.name = IF b.name = Keep THEN @ ELSE b.name,
                            !.stages = IF b.stages = Keep THEN @ ELSE b.stages]
  IN
  /\ Serving /\ updates < MaxUpdate
  /\ Owns(t, i) /\ b.stages # Bad
  /\ updates' = updates + 1
  /\ pipes' = [pipes EXCEPT ![i] = p]
  /\ WritePipe(t, i, p)
  /\ renamed' = renamed \ {i}
  /\ UNCHANGED <<runs, pipeCounter, runCounter, storedRuns, loaded, calls, jobs,
                 reported, created, started, crashes, cut>>

\* The same with bad stages: 400, but a new name has been set by then.
RefuseUpdate(t, i, b) ==
  /\ Serving /\ updates < MaxUpdate
  /\ Owns(t, i) /\ b.stages = Bad /\ b.name # Keep
  /\ updates' = updates + 1
  /\ pipes' = [pipes EXCEPT ![i].name = b.name]
  /\ renamed' = renamed \cup {i}
  /\ UNCHANGED <<runs, pipeCounter, runCounter, store, loaded, calls, jobs,
                 reported, created, started, crashes, cut>>

\* DELETE /agent-pipelines/{id}; its runs stay.
DeletePipeline(t, i) ==
  /\ Serving /\ MayDelete
  /\ Owns(t, i)
  /\ WritePipe(t, i, NoPipe)
  /\ pipes' = [pipes EXCEPT ![i] = NoPipe]
  /\ renamed' = renamed \ {i}
  /\ UNCHANGED <<runs, pipeCounter, runCounter, storedRuns, loaded, calls, jobs,
                 reported, created, started, updates, crashes, cut>>

-----------------------------------------------------------------------------
(* Runs *)

ToSubmit(r, n) == [at |-> "submit", run |-> r, stage |-> n, job |-> 0]

\* POST /agent-pipelines/{id}/runs, up to StartRun.
StartRun(c, t, i) ==
  LET id == runCounter + 1
      r == [tenant |-> t, pipe |-> i, status |-> "running",
            stage |-> 0, jobs |-> <<>>]
  IN
  /\ Serving /\ calls[c] = NoCall /\ started < MaxRun
  /\ Owns(t, i)
  /\ started' = started + 1
  /\ runCounter' = id
  /\ runs' = [runs EXCEPT ![id] = r]
  /\ WriteRun(t, id, r)
  /\ calls' = [calls EXCEPT ![c] = ToSubmit(id, 0)]
  /\ UNCHANGED <<pipes, pipeCounter, storedPipes, loaded, jobs, reported, created,
                 updates, crashes, noted>>

\* The handler finds an agent and submits the job for its tenant, which is that of
\* the run, or answers 503 and leaves the run where it is.
Submit(c) ==
  LET k == calls[c] IN
  /\ k # NoCall /\ k.at = "submit"
  /\ \/ /\ jobs' = Append(jobs, [tenant |-> runs[k.run].tenant, run |-> k.run,
                                stage |-> k.stage, done |-> FALSE])
        /\ calls' = [calls EXCEPT ![c] = [k EXCEPT !.at = "record", !.job = Len(jobs) + 1]]
        /\ cut' = cut
     \/ /\ Unavailable
        /\ jobs' = jobs /\ calls' = [calls EXCEPT ![c] = NoCall]
        /\ cut' = cut \cup {<<k.run, k.stage>>}
  /\ UNCHANGED <<memory, store, loaded, reported, created, started, updates, crashes,
                 renamed>>

\* Runs are never removed: the run of the handler is still there.
RecordStageJob(c) ==
  LET k == calls[c]
      r == [runs[k.run] EXCEPT !.jobs = Append(@, k.job)]
  IN
  /\ k # NoCall /\ k.at = "record"
  /\ runs' = [runs EXCEPT ![k.run] = r]
  /\ WriteRun(r.tenant, k.run, r)
  /\ calls' = [calls EXCEPT ![c] = NoCall]
  /\ UNCHANGED <<pipes, pipeCounter, runCounter, storedPipes, loaded, jobs, reported,
                 created, started, updates, crashes, noted>>

\* Mutations: a finished run may be advanced; the stage is not incremented; a run
\* that is through is not marked.
MayAdvanceAny(t, r) ==
  runs[r] # NoRun /\ runs[r].tenant = t /\ pipes[runs[r].pipe] # NoPipe
NextStageSame(r) == runs[r].stage
FinalOnFailure(failed) == IF failed THEN "failed" ELSE "running"

\* AdvanceRun refuses a run that is another tenant's, is not running or has lost
\* its pipeline.  It asks neither for the tenant of the pipeline nor for the jobs
\* of the run.
MayAdvance(t, r) ==
  /\ runs[r] # NoRun /\ runs[r].tenant = t
  /\ runs[r].status = "running" /\ pipes[runs[r].pipe] # NoPipe
NextStage(r) == runs[r].stage + 1
Through(r) == runs[r].stage + 1 >= pipes[runs[r].pipe].stages
Final(failed) == IF failed THEN "failed" ELSE "done"

\* POST .../advance, up to AdvanceRun.
AdvanceRun(c, t, r, failed) ==
  LET ends == failed \/ Through(r)
      new == IF ends THEN [runs[r] EXCEPT !.status = Final(failed)]
                     ELSE [runs[r] EXCEPT !.stage = NextStage(r)]
  IN
  /\ Serving /\ calls[c] = NoCall
  /\ MayAdvance(t, r)
  /\ runs' = [runs EXCEPT ![r] = new]
  /\ WriteRun(new.tenant, r, new)
  /\ calls' = IF ends THEN calls ELSE [calls EXCEPT ![c] = ToSubmit(r, new.stage)]
  /\ UNCHANGED <<pipes, pipeCounter, runCounter, storedPipes, loaded, jobs, created,
                 started, updates, crashes, noted>>

\* The client: it advances a run once for each job of the run that has ended,
\* or more often when it retries.
Advance(c, j, failed) ==
  /\ jobs[j].done
  /\ Retry \/ j \notin reported
  /\ reported' = reported \cup {j}
  /\ AdvanceRun(c, jobs[j].tenant, jobs[j].run, failed)

\* An agent ends a job.
JobEnds(j) ==
  /\ ~jobs[j].done
  /\ jobs' = [jobs EXCEPT ![j].done = TRUE]
  /\ UNCHANGED <<memory, store, loaded, calls, reported, created, started, updates,
                 crashes, noted>>

-----------------------------------------------------------------------------
(* Tenants, restart *)

\* DELETE /admin/tenants: the bucket goes, the manager is not told.
DeleteTenant(t) ==
  /\ Serving /\ t \in Deletable
  /\ storedPipes' = [storedPipes EXCEPT ![t] = [i \in PipeId |-> NoPipe]]
  /\ storedRuns' = [storedRuns EXCEPT ![t] = [r \in RunId |-> NoRun]]
  /\ UNCHANGED <<memory, loaded, calls, jobs, reported, created, started, updates,
                 crashes, noted>>

\* The counter after a load: the highest id seen.
Highest(n, counter, ids) ==
  n \in ids \cup {counter} /\ \A i \in ids \cup {counter} : i <= n

LoadFromStore(t) ==
  LET pids == {i \in PipeId : storedPipes[t][i] # NoPipe}
      rids == {r \in RunId : storedRuns[t][r] # NoRun}
  IN
  /\ t \notin loaded
  /\ pipes' = [i \in PipeId |-> IF i \in pids THEN storedPipes[t][i] ELSE pipes[i]]
  /\ runs' = [r \in RunId |-> IF r \in rids THEN storedRuns[t][r] ELSE runs[r]]
  /\ \E n \in 0..MaxPipe : Highest(n, pipeCounter, pids) /\ pipeCounter' = n
  /\ \E n \in 0..MaxRun : Highest(n, runCounter, rids) /\ runCounter' = n
  /\ loaded' = loaded \cup {t}
  /\ UNCHANGED <<store, calls, jobs, reported, created, started, updates, crashes,
                 noted>>

\* The server dies; its handlers are lost between any two of their steps.
Crash ==
  /\ crashes < MaxCrash
  /\ crashes' = crashes + 1
  /\ pipes' = [i \in PipeId |-> NoPipe] /\ runs' = [r \in RunId |-> NoRun]
  /\ pipeCounter' = 0 /\ runCounter' = 0
  /\ loaded' = {}
  /\ calls' = [c \in Caller |-> NoCall]
  /\ renamed' = {}
  /\ cut' = cut \cup {<<calls[c].run, calls[c].stage>> :
                        c \in {d \in Caller : calls[d] # NoCall /\ calls[d].at = "submit"}}
  /\ UNCHANGED <<store, jobs, reported, created, started, updates>>

Next ==
  \/ \E t \in Tenant :
       \/ \E n \in 1..MaxStages : CreatePipeline(t, n)
       \/ \E i \in PipeId, b \in Bodies : UpdatePipeline(t, i, b) \/ RefuseUpdate(t, i, b)
       \/ \E i \in PipeId : DeletePipeline(t, i)
       \/ \E c \in Caller, i \in PipeId : StartRun(c, t, i)
       \/ DeleteTenant(t) \/ LoadFromStore(t)
  \/ \E c \in Caller :
       \/ Submit(c)
       \/ RecordStageJob(c)
       \/ \E j \in 1..Len(jobs), failed \in BOOLEAN : Advance(c, j, failed)
  \/ \E j \in 1..Len(jobs) : JobEnds(j)
  \/ Crash

Spec == Init /\ [][Next]_vars

\* Handlers and the boot loop proceed; agents end their jobs, and the client
\* advances a run when it sees that.  Nobody has to retry.
FairSpec ==
  /\ Spec
  /\ WF_vars(\E t \in Tenant : LoadFromStore(t))
  /\ \A c \in Caller : WF_vars(Submit(c) \/ RecordStageJob(c))
  /\ WF_vars(\E j \in 1..Len(jobs) : JobEnds(j))
  /\ WF_vars(\E c \in Caller, j \in 1..Len(jobs), failed \in BOOLEAN :
               j \notin reported /\ Advance(c, j, failed))

-----------------------------------------------------------------------------
(* Properties *)

\* Types; in particular no run is at a stage that no pipeline has.
TypeOK ==
  /\ pipes \in [PipeId -> Pipe \cup {NoPipe}] /\ runs \in [RunId -> Run \cup {NoRun}]
  /\ pipeCounter \in 0..MaxPipe /\ runCounter \in 0..MaxRun
  /\ storedPipes \in [Tenant -> [PipeId -> Pipe \cup {NoPipe}]]
  /\ storedRuns \in [Tenant -> [RunId -> Run \cup {NoRun}]]
  /\ loaded \in SUBSET Tenant
  /\ calls \in [Caller -> Call \cup {NoCall}]
  /\ jobs \in Seq(StageJob)
  /\ reported \in SUBSET Nat
  /\ created \in 0..MaxPipe /\ started \in 0..MaxRun
  /\ updates \in 0..MaxUpdate /\ crashes \in 0..MaxCrash
  /\ renamed \in SUBSET PipeId

\* Tenants whose writes succeed and whom nobody deletes.
Reliable == Tenant \ (Flaky \cup Deletable)

\* A run whose changes all reach the store.
Kept(r) == runs[r] # NoRun /\ runs[r].tenant \in Reliable

\* The jobs of run r.  Where writes fail, or a tenant is deleted, a run may be lost in a
\* restart and its number given to a run of another tenant.
JobsOf(r) == {j \in 1..Len(jobs) : jobs[j].run = r /\ jobs[j].tenant = runs[r].tenant}

\* However many clients advance a run, retry, or are cut off by a restart, no
\* stage of it is submitted twice.  (Where writes fail, a restart may go back.)
OneJobPerStage ==
  \A r \in RunId : Kept(r) =>
    \A j \in JobsOf(r) :
      /\ \A k \in JobsOf(r) : j # k => jobs[j].stage # jobs[k].stage
      /\ \A c \in Caller : calls[c] # NoCall /\ calls[c].at = "submit" /\ calls[c].run = r
                             => jobs[j].stage # calls[c].stage

\* A bucket holds pipeline i as it is in memory, but for a name that a refused PATCH
\* has set.
SavedPipe(t, i) ==
  LET names == IF i \in renamed THEN Name ELSE {pipes[i].name}
  IN  storedPipes[t][i] \in IF Owns(t, i) THEN {[pipes[i] EXCEPT !.name = n] : n \in names}
                            ELSE {NoPipe}

\* The buckets of the loaded tenants hold the pipelines and runs in memory: stages that
\* were refused are in neither, and a name that was refused, which memory has already,
\* is all that they can differ in until the pipeline is written again.
StoreMirrorsPipelines ==
  \A t \in loaded \cap Reliable :
    /\ \A i \in PipeId : SavedPipe(t, i)
    /\ \A r \in RunId : storedRuns[t][r] =
         IF runs[r] # NoRun /\ runs[r].tenant = t THEN runs[r] ELSE NoRun

\* A run goes through its stages one by one and never leaves a final status,
\* across restarts too.
RunMovesForward ==
  [][\A t \in Reliable, r \in RunId :
       LET old == storedRuns[t][r]
           new == storedRuns'[t][r]
       IN  old # NoRun =>
             /\ new # NoRun /\ new.pipe = old.pipe
             /\ new.stage \in {old.stage, old.stage + 1}
             /\ new.stage # old.stage => new.status = "running"
             /\ old.status # "running" =>
                  new.status = old.status /\ new.stage = old.stage]_vars

\* The handler that was to submit the job of the current stage has come to its end
\* before: it found no agent and answered 503, or the server died under it.
Stalled(r) == <<r, runs[r].stage>> \in cut

\* Every run ends, if its client advances it, unless its pipeline was deleted or the
\* handler that was to submit its next job was cut off by a 503 or by a crash between
\* AdvanceRun and the submission.  Then nothing submits the job any more: the run hangs.
\* Through updates, retries and every other crash no run does.
RunSettles ==
  \A r \in RunId :
    Kept(r) ~> /\ runs[r] # NoRun
               /\ \/ runs[r].status # "running"
                  \/ pipes[runs[r].pipe] = NoPipe
                  \/ Stalled(r)

\* Runs are exact: the bucket and the map agree on every run and, but for a refused name,
\* on every pipeline, and a stage of a run is submitted once, whatever clients retry and
\* whoever advances it first.
RunsAreExact == TypeOK /\ StoreMirrorsPipelines /\ OneJobPerStage
=============================================================================
