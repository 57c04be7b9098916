----------------------------- MODULE Tables_proofs -----------------------------
(***************************************************************************)
(* Proofs about two tables that a tenant has in memory and in its bucket,  *)
(* for every value of the constants.                                       *)
(*                                                                         *)
(* The pipelines: pipelines and runs in memory are those in the buckets of *)
(* the tenants whose writes succeed and whom nobody deletes, but for names *)
(* of refused requests; a run of such a tenant only moves forward, and     *)
(* none of its stages is submitted twice.                                  *)
(*                                                                         *)
(* The routes: the bucket has the table but for writes that failed or were *)
(* overtaken, a route leaves it for a reason only, the quota is passed by  *)
(* what overlaps and no more, and every view of the table says the same:   *)
(* the best of the narrowest scope that has a match.                       *)
(***************************************************************************)
EXTENDS Pipeline, Routes, FiniteSetTheorems, SequenceTheorems, WellFoundedInduction, TLAPS

-----------------------------------------------------------------------------
(* Types.  Numbers are bounded by the numbers given out, and the run of a     *)
(* handler under way is in memory.                                            *)

Bounded ==
  /\ pipeCounter <= created /\ runCounter <= started
  /\ \A i \in PipeId : pipes[i] # NoPipe => i <= created
  /\ \A r \in RunId : runs[r] # NoRun => r <= started
  /\ \A t \in Tenant, i \in PipeId : storedPipes[t][i] # NoPipe => i <= created
  /\ \A t \in Tenant, r \in RunId : storedRuns[t][r] # NoRun => r <= started

CallInv ==
  \A c \in Caller : calls[c] # NoCall => loaded = Tenant /\ runs[calls[c].run] # NoRun

TypeInv == TypeOK /\ Bounded /\ CallInv

USE DEF Reliable

\* A write to the bucket of pipelines changes one key or, when it fails, none.
LEMMA WritePipeEffect ==
  ASSUME TypeOK, NEW t \in Tenant, NEW i \in PipeId, NEW v \in Pipe \cup {NoPipe},
         WritePipe(t, i, v)
  PROVE  /\ storedPipes' \in [Tenant -> [PipeId -> Pipe \cup {NoPipe}]]
         /\ \A u \in Tenant, k \in PipeId :
              \/ storedPipes'[u][k] = storedPipes[u][k]
              \/ u = t /\ k = i /\ storedPipes'[u][k] = v
         /\ t \notin Flaky => storedPipes'[t][i] = v
<1>1. storedPipes \in [Tenant -> [PipeId -> Pipe \cup {NoPipe}]]
  BY DEF TypeOK
<1>2. CASE storedPipes' = [storedPipes EXCEPT ![t][i] = v]
  BY <1>1, <1>2
<1>3. CASE t \in Flaky /\ storedPipes' = storedPipes
  BY <1>1, <1>3
<1>4. QED
  BY <1>2, <1>3 DEF WritePipe

\* So does a write to the bucket of runs.
LEMMA WriteRunEffect ==
  ASSUME TypeOK, NEW t \in Tenant, NEW r \in RunId, NEW v \in Run \cup {NoRun},
         WriteRun(t, r, v)
  PROVE  /\ storedRuns' \in [Tenant -> [RunId -> Run \cup {NoRun}]]
         /\ \A u \in Tenant, k \in RunId :
              \/ storedRuns'[u][k] = storedRuns[u][k]
              \/ u = t /\ k = r /\ storedRuns'[u][k] = v
         /\ t \notin Flaky => storedRuns'[t][r] = v
<1>1. storedRuns \in [Tenant -> [RunId -> Run \cup {NoRun}]]
  BY DEF TypeOK
<1>2. CASE storedRuns' = [storedRuns EXCEPT ![t][r] = v]
  BY <1>1, <1>2
<1>3. CASE t \in Flaky /\ storedRuns' = storedRuns
  BY <1>1, <1>3
<1>4. QED
  BY <1>2, <1>3 DEF WriteRun

\* A pipeline is put into the map and its bucket: a new one, or one the tenant has.
PutPipe(t, i, v) ==
  /\ Serving
  /\ pipes' = [pipes EXCEPT ![i] = v]
  /\ WritePipe(t, i, v)
  /\ \/ i = pipeCounter + 1 /\ pipeCounter' = i /\ created < MaxPipe /\ created' = created + 1
     \/ Owns(t, i) /\ UNCHANGED <<pipeCounter, created>>
  /\ v # NoPipe => v.tenant = t
  /\ renamed' = renamed \ {i}
  /\ UNCHANGED <<runs, runCounter, storedRuns, loaded, calls, jobs, reported,
                 started, crashes>>
  /\ updates' \in 0..MaxUpdate

\* A refused PATCH has set the name of a pipeline.
Rename(t, i, name) ==
  /\ Owns(t, i)
  /\ pipes' = [pipes EXCEPT ![i].name = name]
  /\ renamed' = renamed \cup {i}
  /\ UNCHANGED <<runs, pipeCounter, runCounter, store, loaded, calls, jobs, reported,
                 created, started, crashes>>
  /\ updates' \in 0..MaxUpdate

\* A run is put into the map and its bucket, by a handler: a new one, or the run
\* with one more job, in a final status or at the next stage.
Moved(old, new) ==
  /\ new.tenant = old.tenant /\ new.pipe = old.pipe
  /\ \/ new.status = old.status /\ new.stage = old.stage
     \/ old.status = "running" /\ new.status # "running" /\ new.stage = old.stage
     \/ old.status = "running" /\ new.status = "running" /\ new.stage = old.stage + 1

PutRun(t, r, v) ==
  /\ loaded = Tenant
  /\ runs' = [runs EXCEPT ![r] = v]
  /\ WriteRun(t, r, v)
  /\ v.tenant = t
  /\ \/ r = runCounter + 1 /\ runCounter' = r /\ started < MaxRun /\ started' = started + 1
     \/ /\ runs[r] # NoRun /\ Moved(runs[r], v)
        /\ UNCHANGED <<runCounter, started>>
  /\ UNCHANGED <<pipes, pipeCounter, storedPipes, loaded, jobs, created, updates, crashes,
                 renamed>>

\* The numbers that are given out are in range.
LEMMA NewIds ==
  ASSUME TypeInv
  PROVE  /\ created < MaxPipe => pipeCounter + 1 \in PipeId
         /\ started < MaxRun => runCounter + 1 \in RunId
  BY PipelineAssumption DEF TypeInv, TypeOK, Bounded, PipeId, RunId

\* POST puts a new pipeline into the map.
LEMMA CreateOp ==
  ASSUME TypeInv, NEW t \in Tenant, NEW n \in 1..MaxStages, CreatePipeline(t, n)
  PROVE  \E k \in PipeId, v \in Pipe \cup {NoPipe} : PutPipe(t, k, v)
<1> DEFINE p == [tenant |-> t, name |-> "first", stages |-> n]
<1>1. p \in Pipe /\ p.tenant = t
  BY DEF Pipe, Name
<1>2. pipeCounter + 1 \in PipeId
  BY NewIds DEF CreatePipeline
<1>3. PutPipe(t, pipeCounter + 1, p)
  BY <1>1 DEF CreatePipeline, PutPipe, TypeInv, TypeOK
<1> HIDE DEF p
<1>4. QED
  BY <1>1, <1>2, <1>3

\* PATCH changes one the tenant has ...
LEMMA UpdateOp ==
  ASSUME TypeInv, NEW t \in Tenant, NEW i \in PipeId, NEW b \in Bodies, UpdatePipeline(t, i, b)
  PROVE  \E v \in Pipe \cup {NoPipe} : PutPipe(t, i, v)
<1> DEFINE name == IF b.name = Keep THEN pipes[i].name ELSE b.name
           n == IF b.stages = Keep THEN pipes[i].stages ELSE b.stages
           p == [pipes[i] EXCEPT !.name = name, !.stages = n]
<1>1. pipes[i] \in Pipe /\ pipes[i].tenant = t
  BY DEF UpdatePipeline, Owns, TypeInv, TypeOK
<1>2. name \in Name /\ n \in 1..MaxStages
  BY <1>1, PipelineAssumption DEF UpdatePipeline, Pipe, Body
<1>3. updates' \in 0..MaxUpdate
  BY SMTT(30), PipelineAssumption DEF UpdatePipeline, TypeInv, TypeOK
<1>4. /\ pipes' = [pipes EXCEPT ![i] = p] /\ WritePipe(t, i, p)
  BY DEF UpdatePipeline
<1> HIDE DEF name, n
<1>5. p \in Pipe /\ p.tenant = t
  BY <1>1, <1>2 DEF Pipe
<1> HIDE DEF p
<1>6. PutPipe(t, i, p)
  BY <1>3, <1>4, <1>5 DEF UpdatePipeline, PutPipe
<1>7. QED
  BY <1>5, <1>6

\* ... or, when it is refused, its name in memory only.
LEMMA RefuseOp ==
  ASSUME TypeInv, NEW t \in Tenant, NEW i \in PipeId, NEW b \in Bodies, RefuseUpdate(t, i, b)
  PROVE  b.name \in Name /\ Rename(t, i, b.name)
<1>1. b.name \in Name
  BY PipelineAssumption DEF RefuseUpdate, Body
<1>2. updates' \in 0..MaxUpdate
  BY SMTT(30), PipelineAssumption DEF RefuseUpdate, TypeInv, TypeOK
<1>3. QED
  BY <1>1, <1>2 DEF RefuseUpdate, Rename

\* DELETE takes one out of the map.
LEMMA DeleteOp ==
  ASSUME TypeInv, NEW t \in Tenant, NEW i \in PipeId, DeletePipeline(t, i)
  PROVE  PutPipe(t, i, NoPipe)
  BY DEF DeletePipeline, PutPipe, TypeInv, TypeOK

\* StartRun puts a new run into the map.
LEMMA StartOp ==
  ASSUME TypeInv, NEW c \in Caller, NEW t \in Tenant, NEW i \in PipeId, StartRun(c, t, i)
  PROVE  \E r \in RunId, v \in Run :
           /\ PutRun(t, r, v) /\ r = runCounter + 1 /\ v.stage = 0
           /\ started' = started + 1 /\ runCounter' = r
           /\ calls' = [calls EXCEPT ![c] = ToSubmit(r, 0)] /\ reported' = reported
<1> DEFINE v == [tenant |-> t, pipe |-> i, status |-> "running",
                 stage |-> 0, jobs |-> <<>>]
<1>1. v \in Run /\ v.tenant = t /\ v.stage = 0
  BY PipelineAssumption DEF Run, RunStatus
<1>2. runCounter + 1 \in RunId
  BY NewIds DEF StartRun
<1>3. PutRun(t, runCounter + 1, v)
  BY <1>1 DEF StartRun, PutRun, Serving, noted
<1>4. /\ started' = started + 1 /\ runCounter' = runCounter + 1 /\ reported' = reported
      /\ calls' = [calls EXCEPT ![c] = ToSubmit(runCounter + 1, 0)]
  BY DEF StartRun
<1> HIDE DEF v
<1>5. QED
  BY <1>1, <1>2, <1>3, <1>4

\* RecordStageJob appends the job to the run.
LEMMA RecordOp ==
  ASSUME TypeInv, NEW c \in Caller, RecordStageJob(c)
  PROVE  \E r \in RunId, v \in Run :
           /\ PutRun(v.tenant, r, v) /\ runs[r] # NoRun /\ Moved(runs[r], v)
           /\ v.stage = runs[r].stage /\ UNCHANGED <<started, runCounter, reported>>
           /\ calls' = [calls EXCEPT ![c] = NoCall]
<1> DEFINE k == calls[c]
           o == runs[k.run]
           v == [o EXCEPT !.jobs = Append(@, k.job)]
<1>1. k \in Call /\ loaded = Tenant /\ o # NoRun /\ k.run \in RunId /\ k.job \in Nat
  BY DEF RecordStageJob, TypeInv, TypeOK, CallInv, Call
<1>2. o \in Run
  BY <1>1 DEF TypeInv, TypeOK
<1>3. Append(o.jobs, k.job) \in Seq(Nat)
  BY <1>1, <1>2 DEF Run
<1>4. /\ v \in Run /\ v.tenant = o.tenant /\ v.pipe = o.pipe /\ v.stage = o.stage
      /\ v.status = o.status
  BY <1>2, <1>3 DEF Run
<1>5. PutRun(v.tenant, k.run, v) /\ Moved(o, v)
  BY <1>1, <1>4 DEF RecordStageJob, PutRun, Moved, noted
<1>6. UNCHANGED <<started, runCounter, reported>> /\ calls' = [calls EXCEPT ![c] = NoCall]
  BY DEF RecordStageJob
<1> HIDE DEF v
<1>7. QED
  BY <1>1, <1>4, <1>5, <1>6

\* AdvanceRun ends the run or moves it to a stage the pipeline has.
LEMMA AdvanceOp ==
  ASSUME TypeInv, NEW c \in Caller, NEW t \in Tenant, NEW r \in RunId,
         NEW failed \in BOOLEAN, AdvanceRun(c, t, r, failed)
  PROVE  \E v \in Run :
           /\ PutRun(t, r, v) /\ runs[r] # NoRun /\ Moved(runs[r], v)
           /\ UNCHANGED <<started, runCounter>>
           /\ \/ calls' = calls
              \/ /\ v.stage = runs[r].stage + 1
                 /\ calls' = [calls EXCEPT ![c] = ToSubmit(r, v.stage)]
<1> DEFINE o == runs[r]
           v == IF failed \/ Through(r) THEN [o EXCEPT !.status = Final(failed)]
                                        ELSE [o EXCEPT !.stage = NextStage(r)]
<1>1. /\ o # NoRun /\ o.status = "running" /\ o.tenant = t /\ loaded = Tenant
      /\ pipes[o.pipe] # NoPipe
  BY DEF AdvanceRun, MayAdvance, Serving
<1>2. o \in Run
  BY <1>1 DEF TypeInv, TypeOK
<1>3. UNCHANGED <<started, runCounter>>
  BY DEF AdvanceRun
<1>4. CASE failed \/ Through(r)
  <2>1. v = [o EXCEPT !.status = Final(failed)]
    BY <1>4
  <2>2. Final(failed) \in RunStatus /\ Final(failed) # "running"
    BY DEF Final, RunStatus
  <2>3. /\ v \in Run /\ v.tenant = o.tenant /\ v.pipe = o.pipe /\ v.stage = o.stage
        /\ v.status = Final(failed)
    BY <1>2, <2>1, <2>2 DEF Run
  <2>4. PutRun(t, r, v) /\ Moved(o, v)
    BY <1>1, <2>2, <2>3 DEF AdvanceRun, PutRun, Moved, noted
  <2>5. calls' = calls
    BY <1>4 DEF AdvanceRun
  <2> HIDE DEF v
  <2>6. QED
    BY <1>1, <1>3, <2>3, <2>4, <2>5
<1>5. CASE ~(failed \/ Through(r))
  <2>1. v = [o EXCEPT !.stage = o.stage + 1]
    BY <1>5 DEF NextStage
  <2>2. pipes[o.pipe] \in Pipe
    BY <1>1, <1>2 DEF TypeInv, TypeOK, Run
  <2>3. o.stage + 1 \in 0..(MaxStages - 1)
    BY <1>2, <1>5, <2>2, PipelineAssumption DEF Through, Pipe, Run
  <2>4. /\ v \in Run /\ v.tenant = o.tenant /\ v.pipe = o.pipe /\ v.stage = o.stage + 1
        /\ v.status = o.status
    BY <1>2, <2>1, <2>3 DEF Run
  <2>5. PutRun(t, r, v) /\ Moved(o, v)
    BY <1>1, <2>4 DEF AdvanceRun, PutRun, Moved, noted
  <2>6. calls' = [calls EXCEPT ![c] = ToSubmit(r, v.stage)]
    BY <1>5 DEF AdvanceRun
  <2> HIDE DEF v
  <2>7. QED
    BY <1>1, <1>3, <2>4, <2>5, <2>6
<1>6. QED
  BY <1>4, <1>5

\* The three operations on runs, as one: call c goes to stage w.stage, ends, or
\* was none.
RunOp(c, t, r, v) ==
  /\ PutRun(t, r, v)
  /\ \/ /\ r = runCounter + 1 /\ v.stage = 0 /\ runCounter' = r
        /\ started' = started + 1 /\ calls' = [calls EXCEPT ![c] = ToSubmit(r, 0)]
     \/ /\ runs[r] # NoRun /\ Moved(runs[r], v) /\ UNCHANGED <<started, runCounter>>
        /\ \/ calls' = calls
           \/ v.stage = runs[r].stage /\ calls' = [calls EXCEPT ![c] = NoCall]
           \/ /\ v.stage = runs[r].stage + 1
              /\ calls' = [calls EXCEPT ![c] = ToSubmit(r, v.stage)]
  /\ reported' \in SUBSET Nat

\* Every step is one of these.
LEMMA Kinds ==
  ASSUME TypeInv, [Next]_vars
  PROVE  \/ \E t \in Tenant, i \in PipeId, v \in Pipe \cup {NoPipe} : PutPipe(t, i, v)
         \/ \E t \in Tenant, i \in PipeId, name \in Name : Rename(t, i, name)
         \/ \E c \in Caller, t \in Tenant, r \in RunId, v \in Run : RunOp(c, t, r, v)
         \/ \E t \in Tenant : DeleteTenant(t)
         \/ \E c \in Caller : Submit(c)
         \/ \E j \in 1..Len(jobs) : JobEnds(j)
         \/ \E t \in Tenant : LoadFromStore(t)
         \/ Crash
         \/ UNCHANGED vars
<1>0. reported \in SUBSET Nat
  BY DEF TypeInv, TypeOK
<1>1. ASSUME NEW t \in Tenant, NEW n \in 1..MaxStages, CreatePipeline(t, n)
      PROVE  \E i \in PipeId, v \in Pipe \cup {NoPipe} : PutPipe(t, i, v)
  BY <1>1, CreateOp
<1>2. ASSUME NEW t \in Tenant, NEW i \in PipeId,
             DeletePipeline(t, i) \/ \E b \in Bodies : UpdatePipeline(t, i, b)
      PROVE  \E k \in PipeId, v \in Pipe \cup {NoPipe} : PutPipe(t, k, v)
  BY <1>2, DeleteOp, UpdateOp
<1>a. ASSUME NEW t \in Tenant, NEW i \in PipeId, NEW b \in Bodies, RefuseUpdate(t, i, b)
      PROVE  \E name \in Name : Rename(t, i, name)
  BY <1>a, RefuseOp
<1>3. ASSUME NEW t \in Tenant, NEW c \in Caller, NEW i \in PipeId, StartRun(c, t, i)
      PROVE  \E r \in RunId, v \in Run : RunOp(c, t, r, v)
  BY <1>0, <1>3, StartOp DEF RunOp
<1>4. ASSUME NEW c \in Caller, RecordStageJob(c)
      PROVE  \E t \in Tenant, r \in RunId, v \in Run : RunOp(c, t, r, v)
  <2>1. PICK r \in RunId, v \in Run :
           /\ PutRun(v.tenant, r, v) /\ runs[r] # NoRun /\ Moved(runs[r], v)
           /\ v.stage = runs[r].stage /\ UNCHANGED <<started, runCounter, reported>>
           /\ calls' = [calls EXCEPT ![c] = NoCall]
    BY <1>4, RecordOp
  <2>2. PICK t \in Tenant : t = v.tenant
    BY DEF Run
  <2>3. RunOp(c, t, r, v)
    BY <1>0, <2>1, <2>2 DEF RunOp, PutRun
  <2>4. QED
    BY <2>3
<1>5. ASSUME NEW c \in Caller, NEW j \in 1..Len(jobs), NEW failed \in BOOLEAN,
             Advance(c, j, failed)
      PROVE  \E t \in Tenant, r \in RunId, v \in Run : RunOp(c, t, r, v)
  <2>1. jobs[j] \in StageJob
    BY DEF TypeInv, TypeOK
  <2>2. PICK t \in Tenant, r \in RunId : t = jobs[j].tenant /\ r = jobs[j].run
    BY <2>1 DEF StageJob
  <2>3. AdvanceRun(c, t, r, failed)
    BY <1>5, <2>2 DEF Advance, AdvanceRun, MayAdvance
  <2>4. reported' \in SUBSET Nat
    BY <1>0, <1>5 DEF Advance, TypeInv, TypeOK
  <2>5. QED
    BY <2>3, <2>4, AdvanceOp DEF RunOp
<1>6. QED
  BY <1>1, <1>2, <1>a, <1>3, <1>4, <1>5 DEF Next

\* One step keeps the types.
LEMMA TypeStep ==
  ASSUME TypeInv, [Next]_vars
  PROVE  TypeInv'
<1>0. TypeOK /\ Bounded /\ CallInv
  BY DEF TypeInv
<1>1. ASSUME NEW t \in Tenant, NEW i \in PipeId, NEW v \in Pipe \cup {NoPipe},
             PutPipe(t, i, v)
      PROVE  TypeInv'
  <2>1. /\ storedPipes' \in [Tenant -> [PipeId -> Pipe \cup {NoPipe}]]
        /\ \A u \in Tenant, k \in PipeId :
             storedPipes'[u][k] = storedPipes[u][k] \/ k = i
    BY <1>0, <1>1, WritePipeEffect DEF PutPipe
  <2>2. pipes' \in [PipeId -> Pipe \cup {NoPipe}]
    BY <1>0, <1>1 DEF PutPipe, TypeOK
  <2>3. \A k \in PipeId : pipes'[k] = pipes[k] \/ k = i
    BY <1>0, <1>1 DEF PutPipe, TypeOK
  <2>4. /\ pipeCounter' \in 0..MaxPipe /\ created' \in 0..MaxPipe
        /\ pipeCounter' <= created' /\ i <= created'
        /\ \A k \in PipeId : k <= created => k <= created'
    <3>1. CASE /\ i = pipeCounter + 1 /\ pipeCounter' = i /\ created < MaxPipe
               /\ created' = created + 1
      BY <1>0, <3>1, PipelineAssumption DEF TypeOK, Bounded, PipeId
    <3>2. CASE Owns(t, i) /\ UNCHANGED <<pipeCounter, created>>
      BY <1>0, <3>2 DEF TypeOK, Bounded, Owns
    <3>3. QED
      BY <1>1, <3>1, <3>2 DEF PutPipe
  <2>5. TypeOK'
    BY <1>0, <1>1, <2>1, <2>2, <2>4 DEF PutPipe, TypeOK
  <2>6. Bounded'
    BY <1>0, <1>1, <2>1, <2>3, <2>4 DEF PutPipe, Bounded
  <2>7. CallInv'
    BY <1>0, <1>1 DEF PutPipe, CallInv
  <2>8. QED
    BY <2>5, <2>6, <2>7 DEF TypeInv
<1>2. ASSUME NEW c \in Caller, NEW t \in Tenant, NEW r \in RunId, NEW v \in Run,
             RunOp(c, t, r, v)
      PROVE  TypeInv'
  <2>0. PutRun(t, r, v) /\ reported' \in SUBSET Nat /\ v # NoRun
    BY <1>2, PipelineAssumption DEF RunOp
  <2>1. /\ storedRuns' \in [Tenant -> [RunId -> Run \cup {NoRun}]]
        /\ \A u \in Tenant, k \in RunId :
             storedRuns'[u][k] = storedRuns[u][k] \/ k = r
    BY <1>0, <2>0, WriteRunEffect DEF PutRun
  <2>2. runs' \in [RunId -> Run \cup {NoRun}]
    BY <1>0, <2>0 DEF PutRun, TypeOK
  <2>3. \A k \in RunId : runs'[k] = IF k = r THEN v ELSE runs[k]
    BY <1>0, <2>0 DEF PutRun, TypeOK
  <2>4. /\ runCounter' \in 0..MaxRun /\ started' \in 0..MaxRun
        /\ runCounter' <= started' /\ r <= started'
        /\ \A k \in RunId : k <= started => k <= started'
    <3>1. CASE /\ r = runCounter + 1 /\ runCounter' = r /\ started < MaxRun
               /\ started' = started + 1
      BY <1>0, <3>1, PipelineAssumption DEF TypeOK, Bounded, RunId
    <3>2. CASE runs[r] # NoRun /\ UNCHANGED <<runCounter, started>>
      BY <1>0, <3>2 DEF TypeOK, Bounded
    <3>3. QED
      BY <2>0, <3>1, <3>2 DEF PutRun
  <2>5. \A d \in Caller : \/ calls'[d] = calls[d]
                          \/ calls'[d] = NoCall
                          \/ calls'[d] \in Call /\ calls'[d].run = r
    <3>1. v.stage \in 0..(MaxStages - 1) /\ 0 \in 0..(MaxStages - 1)
      BY PipelineAssumption DEF Run
    <3>2. \A n \in 0..(MaxStages - 1) : ToSubmit(r, n) \in Call /\ ToSubmit(r, n).run = r
      BY DEF ToSubmit, Call
    <3>3. QED
      BY <1>0, <1>2, <3>1, <3>2 DEF RunOp, TypeOK
  <2>6. calls' \in [Caller -> Call \cup {NoCall}]
    <3>1. PICK w : calls' = calls \/ calls' = [calls EXCEPT ![c] = w]
      BY <1>2 DEF RunOp
    <3>2. QED
      BY <1>0, <2>5, <3>1 DEF TypeOK
  <2>7. TypeOK'
    BY <1>0, <2>0, <2>1, <2>2, <2>4, <2>6 DEF PutRun, TypeOK
  <2>8. Bounded'
    BY <1>0, <2>0, <2>1, <2>3, <2>4 DEF PutRun, Bounded
  <2>9. CallInv'
    <3> SUFFICES ASSUME NEW d \in Caller, calls'[d] # NoCall
                 PROVE  loaded' = Tenant /\ runs'[calls'[d].run] # NoRun
      BY DEF CallInv
    <3>1. loaded' = Tenant
      BY <2>0 DEF PutRun
    <3>2. CASE calls'[d] = calls[d]
      <4>1. runs[calls[d].run] # NoRun /\ calls[d].run \in RunId
        BY <1>0, <3>2 DEF CallInv, TypeOK, Call
      <4>2. QED
        BY <2>0, <2>3, <3>1, <3>2, <4>1
    <3>3. CASE calls'[d].run = r
      BY <2>0, <2>3, <3>1, <3>3
    <3>4. QED
      BY <2>5, <3>2, <3>3
  <2>10. QED
    BY <2>7, <2>8, <2>9 DEF TypeInv
<1>3. ASSUME NEW c \in Caller, Submit(c) PROVE TypeInv'
  <2> DEFINE k == calls[c]
             job == [tenant |-> runs[k.run].tenant, run |-> k.run,
                     stage |-> k.stage, done |-> FALSE]
             next == [k EXCEPT !.at = "record", !.job = Len(jobs) + 1]
  <2>1. k \in Call /\ runs[k.run] # NoRun /\ k.run \in RunId
    BY <1>0, <1>3 DEF Submit, TypeOK, CallInv, Call
  <2>2. runs[k.run] \in Run
    BY <1>0, <2>1 DEF TypeOK
  <2>3. job \in StageJob
    BY <2>1, <2>2 DEF StageJob, Call, Run
  <2>4. Len(jobs) + 1 \in Nat
    BY <1>0 DEF TypeOK
  <2>5. next \in Call /\ next.run = k.run
    BY <2>1, <2>4 DEF Call
  <2>6. /\ jobs' = Append(jobs, job) \/ jobs' = jobs
        /\ calls' = [calls EXCEPT ![c] = next] \/ calls' = [calls EXCEPT ![c] = NoCall]
    BY <1>3 DEF Submit
  <2>7. UNCHANGED <<memory, store, loaded, reported, created, started, updates, crashes,
                    renamed>>
    BY <1>3 DEF Submit
  <2> HIDE DEF job, next
  <2>8. jobs' \in Seq(StageJob)
    <3>1. jobs \in Seq(StageJob)
      BY <1>0 DEF TypeOK
    <3>2. Append(jobs, job) \in Seq(StageJob)
      BY <2>3, <3>1, AppendProperties
    <3>3. QED
      BY <2>6, <3>1, <3>2
  <2>9. calls' \in [Caller -> Call \cup {NoCall}]
    BY <1>0, <2>5, <2>6 DEF TypeOK
  <2>10. TypeOK'
    BY <1>0, <2>7, <2>8, <2>9 DEF TypeOK, memory, store, noted
  <2>11. CallInv'
    <3>1. runs' = runs /\ loaded' = loaded /\ loaded = Tenant
      BY <1>0, <1>3, <2>7 DEF memory, CallInv, Submit
    <3>2. \A d \in Caller : calls'[d] = calls[d] \/ calls'[d] = NoCall \/ calls'[d] = next
      BY <1>0, <2>6 DEF TypeOK
    <3>3. QED
      BY <1>0, <2>1, <2>5, <3>1, <3>2 DEF CallInv
  <2>12. Bounded'
    BY <1>0, <2>7 DEF Bounded, memory, store
  <2>13. QED
    BY <2>10, <2>11, <2>12 DEF TypeInv
<1>4. ASSUME NEW j \in 1..Len(jobs), JobEnds(j) PROVE TypeInv'
  <2>0. jobs[j] \in StageJob
    BY <1>0 DEF TypeOK
  <2>1. [jobs[j] EXCEPT !.done = TRUE] \in StageJob
    BY <2>0 DEF StageJob
  <2>2. jobs' = [jobs EXCEPT ![j] = [jobs[j] EXCEPT !.done = TRUE]]
    BY <1>4 DEF JobEnds
  <2>3. jobs' \in Seq(StageJob)
    BY <1>0, <2>1, <2>2, ExceptSeq DEF TypeOK
  <2>4. UNCHANGED <<memory, store, loaded, calls, reported, created, started, updates,
                    crashes, noted>>
    BY <1>4 DEF JobEnds
  <2>5. QED
    BY <1>0, <2>3, <2>4 DEF TypeInv, TypeOK, Bounded, CallInv, memory, store, noted
<1>5. ASSUME NEW t \in Tenant, LoadFromStore(t) PROVE TypeInv'
  <2>1. \A i \in PipeId : pipes'[i] = IF storedPipes[t][i] # NoPipe
                                        THEN storedPipes[t][i] ELSE pipes[i]
    BY <1>5 DEF LoadFromStore
  <2>2. \A r \in RunId : runs'[r] = IF storedRuns[t][r] # NoRun
                                      THEN storedRuns[t][r] ELSE runs[r]
    BY <1>5 DEF LoadFromStore
  <2>3. pipes' \in [PipeId -> Pipe \cup {NoPipe}] /\ runs' \in [RunId -> Run \cup {NoRun}]
    BY <1>0, <1>5 DEF LoadFromStore, TypeOK
  <2>4. pipeCounter' \in 0..MaxPipe /\ pipeCounter' <= created
    <3>1. PICK n \in 0..MaxPipe :
            /\ pipeCounter' = n
            /\ n \in {i \in PipeId : storedPipes[t][i] # NoPipe} \cup {pipeCounter}
      BY <1>5 DEF LoadFromStore, Highest
    <3>2. QED
      BY <1>0, <3>1 DEF Bounded
  <2>5. runCounter' \in 0..MaxRun /\ runCounter' <= started
    <3>1. PICK n \in 0..MaxRun :
            /\ runCounter' = n
            /\ n \in {r \in RunId : storedRuns[t][r] # NoRun} \cup {runCounter}
      BY <1>5 DEF LoadFromStore, Highest
    <3>2. QED
      BY <1>0, <3>1 DEF Bounded
  <2>6. /\ loaded' = loaded \cup {t}
        /\ UNCHANGED <<store, calls, jobs, reported, created, started, updates, crashes,
                       renamed>>
    BY <1>5 DEF LoadFromStore, noted
  <2>7. TypeOK'
    BY <1>0, <2>3, <2>4, <2>5, <2>6 DEF TypeOK, store, noted
  <2>8. Bounded'
    BY <1>0, <2>1, <2>2, <2>4, <2>5, <2>6 DEF Bounded, store
  <2>9. t \notin loaded
    BY <1>5 DEF LoadFromStore
  <2>10. CallInv'
    BY <1>0, <2>6, <2>9 DEF CallInv
  <2>11. QED
    BY <2>7, <2>8, <2>10 DEF TypeInv
<1>6. CASE Crash
  <2>1. crashes' \in 0..MaxCrash
    BY <1>0, <1>6, PipelineAssumption DEF Crash, TypeOK
  <2>2. TypeOK'
    BY <1>0, <1>6, <2>1, PipelineAssumption DEF Crash, TypeOK, store
  <2>3. Bounded' /\ CallInv'
    BY <1>0, <1>6 DEF Crash, TypeOK, Bounded, CallInv, store
  <2>4. QED
    BY <2>2, <2>3 DEF TypeInv
<1>7. CASE UNCHANGED vars
  BY <1>0, <1>7 DEF TypeInv, TypeOK, Bounded, CallInv, vars, memory, store, noted
<1>8. ASSUME NEW t \in Tenant, NEW i \in PipeId, NEW name \in Name, Rename(t, i, name)
      PROVE  TypeInv'
  <2>1. [pipes[i] EXCEPT !.name = name] \in Pipe
    BY <1>0, <1>8 DEF Rename, Owns, TypeOK, Pipe
  <2>2. /\ pipes' \in [PipeId -> Pipe \cup {NoPipe}]
        /\ \A k \in PipeId : pipes'[k] # NoPipe => pipes[k] # NoPipe
    BY <1>0, <1>8, <2>1 DEF Rename, Owns, TypeOK
  <2>3. renamed' \in SUBSET PipeId
    BY <1>0, <1>8 DEF Rename, TypeOK
  <2>4. TypeOK'
    BY <1>0, <1>8, <2>2, <2>3 DEF Rename, TypeOK, store
  <2>5. Bounded' /\ CallInv'
    BY <1>0, <1>8, <2>2 DEF Rename, Bounded, CallInv, store
  <2>6. QED
    BY <2>4, <2>5 DEF TypeInv
<1>9. ASSUME NEW t \in Tenant, DeleteTenant(t) PROVE TypeInv'
  <2>1. /\ storedPipes' \in [Tenant -> [PipeId -> Pipe \cup {NoPipe}]]
        /\ storedRuns' \in [Tenant -> [RunId -> Run \cup {NoRun}]]
    BY <1>0, <1>9 DEF DeleteTenant, TypeOK
  <2>2. /\ \A u \in Tenant, k \in PipeId :
             storedPipes'[u][k] = storedPipes[u][k] \/ storedPipes'[u][k] = NoPipe
        /\ \A u \in Tenant, k \in RunId :
             storedRuns'[u][k] = storedRuns[u][k] \/ storedRuns'[u][k] = NoRun
    BY <1>0, <1>9 DEF DeleteTenant, TypeOK
  <2>3. UNCHANGED <<memory, loaded, calls, jobs, reported, created, started, updates,
                    crashes, noted>>
    BY <1>9 DEF DeleteTenant
  <2>4. TypeOK'
    BY <1>0, <2>1, <2>3 DEF TypeOK, memory, noted
  <2>5. Bounded'
    BY <1>0, <2>2, <2>3 DEF Bounded, memory
  <2>6. CallInv'
    BY <1>0, <2>3 DEF CallInv, memory
  <2>7. QED
    BY <2>4, <2>5, <2>6 DEF TypeInv
<1>10. QED
  BY <1>1, <1>2, <1>3, <1>4, <1>5, <1>6, <1>7, <1>8, <1>9, Kinds

\* The initial state has its types.
LEMMA TypeInit == Init => TypeInv
  BY PipelineAssumption DEF Init, TypeInv, TypeOK, Bounded, CallInv

-----------------------------------------------------------------------------
(* Numbers and the mirror.  Nothing is created before every tenant is loaded,  *)
(* so that a new number is above all numbers in memory and in the buckets.     *)

PipeIds ==
  /\ \A t \in Tenant, i \in PipeId : storedPipes[t][i] # NoPipe =>
       /\ storedPipes[t][i].tenant = t
       /\ pipes[i] # NoPipe => pipes[i].tenant = t
       /\ \A u \in Tenant : storedPipes[u][i] # NoPipe => u = t
       /\ t \in loaded => i <= pipeCounter
  /\ \A i \in PipeId : pipes[i] # NoPipe =>
       i <= pipeCounter /\ pipes[i].tenant \in loaded

RunIds ==
  /\ \A t \in Tenant, r \in RunId : storedRuns[t][r] # NoRun =>
       /\ storedRuns[t][r].tenant = t
       /\ runs[r] # NoRun => runs[r].tenant = t
       /\ \A u \in Tenant : storedRuns[u][r] # NoRun => u = t
       /\ t \in loaded => r <= runCounter
  /\ \A r \in RunId : runs[r] # NoRun =>
       r <= runCounter /\ runs[r].tenant \in loaded

Mirror == PipeIds /\ RunIds /\ StoreMirrorsPipelines

\* The two halves of StoreMirrorsPipelines.
PipesMirrored ==
  \A t \in loaded \cap Reliable, i \in PipeId : SavedPipe(t, i)

RunsMirrored ==
  \A t \in loaded \cap Reliable, r \in RunId :
    storedRuns[t][r] = IF runs[r] # NoRun /\ runs[r].tenant = t THEN runs[r] ELSE NoRun

\* To set the name a pipeline has is no change.
LEMMA SameName ==
  ASSUME NEW v \in Pipe
  PROVE  v \in {[v EXCEPT !.name = n] : n \in {v.name}}
<1>1. [v EXCEPT !.name = v.name] = v
  BY DEF Pipe
<1>2. QED
  BY <1>1

\* A pipeline that is not touched is saved as it was.
LEMMA KeepsSaved ==
  ASSUME NEW t, NEW i, SavedPipe(t, i), pipes'[i] = pipes[i],
         storedPipes'[t][i] = storedPipes[t][i], i \in renamed' <=> i \in renamed
  PROVE  SavedPipe(t, i)'
<1>1. Owns(t, i)' <=> Owns(t, i)
  BY DEF Owns
<1>2. CASE Owns(t, i)
  <2>1. PICK n : /\ n \in IF i \in renamed THEN Name ELSE {pipes[i].name}
                 /\ storedPipes[t][i] = [pipes[i] EXCEPT !.name = n]
    BY <1>2 DEF SavedPipe
  <2>2. n \in (IF i \in renamed THEN Name ELSE {pipes[i].name})'
    BY <2>1
  <2>3. storedPipes'[t][i] = [pipes'[i] EXCEPT !.name = n]
    BY <2>1
  <2>4. QED
    BY <1>1, <1>2, <2>2, <2>3 DEF SavedPipe
<1>3. CASE ~Owns(t, i)
  BY <1>1, <1>3 DEF SavedPipe
<1>4. QED
  BY <1>2, <1>3

\* A refused PATCH changes a name in memory.
LEMMA RenameMirror ==
  ASSUME TypeInv, PipeIds, PipesMirrored, NEW t \in Tenant, NEW i \in PipeId,
         NEW name \in Name, Rename(t, i, name)
  PROVE  PipeIds' /\ PipesMirrored'
<1>1. /\ pipes[i] \in Pipe /\ pipes[i].tenant = t
      /\ \A k \in PipeId : pipes'[k] = IF k = i THEN [pipes[i] EXCEPT !.name = name] ELSE pipes[k]
      /\ UNCHANGED <<storedPipes, pipeCounter, loaded>> /\ renamed' = renamed \cup {i}
  BY DEF Rename, Owns, TypeInv, TypeOK, store
<1>2. pipes'[i] \in Pipe /\ pipes'[i].tenant = t /\ pipes'[i].stages = pipes[i].stages
  BY <1>1 DEF Pipe
<1>3. pipes'[i] # NoPipe /\ pipes[i] # NoPipe
  BY <1>1, <1>2, PipelineAssumption
<1>4. PipeIds'
  BY <1>1, <1>2, <1>3 DEF PipeIds
<1>5. ASSUME NEW u \in loaded \cap Reliable, NEW k \in PipeId PROVE SavedPipe(u, k)'
  <2>0. SavedPipe(u, k)
    BY <1>5 DEF PipesMirrored
  <2>1. CASE k # i
    <3>1. pipes'[k] = pipes[k] /\ (k \in renamed' <=> k \in renamed)
      BY <1>1, <2>1
    <3>2. QED
      BY <1>1, <2>0, <3>1, KeepsSaved
  <2>2. CASE k = i /\ u = t
    <3>1. PICK n \in Name : storedPipes[t][i] = [pipes[i] EXCEPT !.name = n]
      BY <1>1, <1>3, <2>0, <2>2 DEF SavedPipe, Owns, Pipe
    <3>2. [pipes[i] EXCEPT !.name = n] = [pipes'[i] EXCEPT !.name = n]
      BY <1>1 DEF Pipe
    <3>3. Owns(u, k)' /\ k \in renamed' /\ storedPipes'[u][k] = [pipes'[k] EXCEPT !.name = n]
      BY <1>1, <1>2, <1>3, <2>2, <3>1, <3>2 DEF Owns
    <3>4. QED
      BY <3>3 DEF SavedPipe
  <2>3. CASE k = i /\ u # t
    <3>1. storedPipes[u][k] = NoPipe
      BY <1>1, <2>0, <2>3 DEF SavedPipe, Owns
    <3>2. QED
      BY <1>1, <1>2, <2>3, <3>1 DEF SavedPipe, Owns
  <2>4. QED
    BY <2>1, <2>2, <2>3
<1>6. QED
  BY <1>1, <1>4, <1>5 DEF PipesMirrored

\* The bucket of a tenant that may be deleted goes.
LEMMA DeleteMirror ==
  ASSUME TypeInv, PipeIds, RunIds, PipesMirrored, RunsMirrored,
         NEW t \in Tenant, DeleteTenant(t)
  PROVE  PipeIds' /\ RunIds' /\ PipesMirrored' /\ RunsMirrored'
<1>1. /\ t \in Deletable
      /\ UNCHANGED <<pipes, runs, pipeCounter, runCounter, loaded, renamed>>
  BY DEF DeleteTenant, memory, noted
<1>2. /\ \A u \in Tenant, k \in PipeId : storedPipes'[u][k] = IF u = t THEN NoPipe ELSE storedPipes[u][k]
      /\ \A u \in Tenant, k \in RunId : storedRuns'[u][k] = IF u = t THEN NoRun ELSE storedRuns[u][k]
  BY DEF DeleteTenant, TypeInv, TypeOK
<1>3. PipeIds' /\ RunIds'
  BY <1>1, <1>2 DEF PipeIds, RunIds
<1>4. ASSUME NEW u \in loaded \cap Reliable, NEW i \in PipeId PROVE SavedPipe(u, i)'
  <2>1. SavedPipe(u, i) /\ storedPipes'[u][i] = storedPipes[u][i]
    BY <1>1, <1>2 DEF PipesMirrored
  <2>2. QED
    BY <1>1, <2>1, KeepsSaved
<1>5. RunsMirrored'
  BY <1>1, <1>2 DEF RunsMirrored
<1>6. QED
  BY <1>1, <1>3, <1>4, <1>5 DEF PipesMirrored

\* A pipeline is written to both places, under a number nobody else has.
LEMMA PutPipeMirror ==
  ASSUME TypeInv, PipeIds, PipesMirrored, NEW t \in Tenant, NEW i \in PipeId,
         NEW v \in Pipe \cup {NoPipe}, PutPipe(t, i, v)
  PROVE  PipeIds' /\ PipesMirrored'
<1>1. /\ \A u \in Tenant, k \in PipeId :
           \/ storedPipes'[u][k] = storedPipes[u][k]
           \/ u = t /\ k = i /\ storedPipes'[u][k] = v
      /\ t \notin Flaky => storedPipes'[t][i] = v
  BY WritePipeEffect DEF PutPipe, TypeInv
<1>2. \A k \in PipeId : pipes'[k] = IF k = i THEN v ELSE pipes[k]
  BY DEF PutPipe, TypeInv, TypeOK
<1>3. loaded = Tenant /\ loaded' = Tenant /\ (v # NoPipe => v.tenant = t)
  BY DEF PutPipe, Serving
<1>4. \A u \in Tenant : u # t => storedPipes[u][i] = NoPipe
  <2>1. CASE i = pipeCounter + 1
    BY <1>3, <2>1 DEF PipeIds, TypeInv, TypeOK
  <2>2. CASE Owns(t, i)
    BY <2>2 DEF PipeIds, Owns
  <2>3. QED
    BY <2>1, <2>2 DEF PutPipe
<1>5. /\ i <= pipeCounter'
      /\ \A k \in PipeId : k <= pipeCounter => k <= pipeCounter'
  <2>1. CASE i = pipeCounter + 1 /\ pipeCounter' = i
    BY <2>1 DEF TypeInv, TypeOK, PipeId
  <2>2. CASE Owns(t, i) /\ pipeCounter' = pipeCounter
    BY <2>2 DEF Owns, PipeIds, TypeInv, TypeOK
  <2>3. QED
    BY <2>1, <2>2 DEF PutPipe
<1>6. pipes[i] # NoPipe => pipes[i].tenant = t
  <2>1. CASE i = pipeCounter + 1
    BY <2>1 DEF PipeIds, TypeInv, TypeOK
  <2>2. CASE Owns(t, i)
    BY <2>2 DEF Owns
  <2>3. QED
    BY <2>1, <2>2 DEF PutPipe
<1>7. ASSUME NEW u \in Tenant, NEW k \in PipeId, storedPipes'[u][k] # NoPipe
      PROVE  /\ storedPipes'[u][k].tenant = u
             /\ pipes'[k] # NoPipe => pipes'[k].tenant = u
             /\ \A w \in Tenant : storedPipes'[w][k] # NoPipe => w = u
             /\ k <= pipeCounter'
  <2>1. CASE k # i
    BY <1>1, <1>2, <1>3, <1>5, <1>7, <2>1 DEF PipeIds
  <2>2. CASE k = i
    <3>1. u = t
      BY <1>1, <1>4, <1>7, <2>2
    <3>2. storedPipes'[t][i] = v \/ storedPipes'[t][i] = storedPipes[t][i]
      BY <1>1
    <3>3. storedPipes'[t][i].tenant = t
      BY <1>3, <1>7, <2>2, <3>1, <3>2 DEF PipeIds
    <3>4. QED
      BY <1>1, <1>2, <1>3, <1>4, <1>5, <2>2, <3>1, <3>3
  <2>3. QED
    BY <2>1, <2>2
<1>8. PipeIds'
  BY <1>2, <1>3, <1>5, <1>7 DEF PipeIds
<1>9. ASSUME NEW u \in Reliable, NEW k \in PipeId PROVE SavedPipe(u, k)'
  <2>0. SavedPipe(u, k)
    BY <1>3 DEF PipesMirrored
  <2>1. CASE k # i
    <3>1. /\ storedPipes'[u][k] = storedPipes[u][k] /\ pipes'[k] = pipes[k]
          /\ (k \in renamed' <=> k \in renamed)
      BY <1>1, <1>2, <2>1 DEF PutPipe
    <3>2. QED
      BY <2>0, <3>1, KeepsSaved
  <2>2. CASE k = i /\ u = t
    <3>1. storedPipes'[u][k] = v /\ pipes'[k] = v /\ k \notin renamed'
      BY <1>1, <1>2, <2>2 DEF PutPipe
    <3>2. QED
      BY <1>3, <3>1, <2>2, SameName DEF SavedPipe, Owns
  <2>3. CASE k = i /\ u # t
    BY <1>1, <1>2, <1>3, <1>4, <2>3 DEF SavedPipe, Owns
  <2>4. QED
    BY <2>1, <2>2, <2>3
<1>10. QED
  BY <1>3, <1>8, <1>9 DEF PipesMirrored

\* So is a run.
LEMMA PutRunMirror ==
  ASSUME TypeInv, RunIds, RunsMirrored, NEW t \in Tenant, NEW r \in RunId,
         NEW v \in Run, PutRun(t, r, v)
  PROVE  RunIds' /\ RunsMirrored'
<1>1. /\ \A u \in Tenant, k \in RunId :
           \/ storedRuns'[u][k] = storedRuns[u][k]
           \/ u = t /\ k = r /\ storedRuns'[u][k] = v
      /\ t \notin Flaky => storedRuns'[t][r] = v
  BY WriteRunEffect DEF PutRun, TypeInv
<1>2. \A k \in RunId : runs'[k] = IF k = r THEN v ELSE runs[k]
  BY DEF PutRun, TypeInv, TypeOK
<1>3. loaded = Tenant /\ loaded' = Tenant /\ v.tenant = t /\ v # NoRun
  BY PipelineAssumption DEF PutRun
<1>4. \A u \in Tenant : u # t => storedRuns[u][r] = NoRun
  <2>1. CASE r = runCounter + 1
    BY <1>3, <2>1 DEF RunIds, TypeInv, TypeOK
  <2>2. CASE runs[r] # NoRun /\ Moved(runs[r], v)
    BY <1>3, <2>2 DEF RunIds, Moved
  <2>3. QED
    BY <2>1, <2>2 DEF PutRun
<1>5. /\ r <= runCounter'
      /\ \A k \in RunId : k <= runCounter => k <= runCounter'
  <2>1. CASE r = runCounter + 1 /\ runCounter' = r
    BY <2>1 DEF TypeInv, TypeOK, RunId
  <2>2. CASE runs[r] # NoRun /\ runCounter' = runCounter
    BY <2>2 DEF RunIds, TypeInv, TypeOK
  <2>3. QED
    BY <2>1, <2>2 DEF PutRun
<1>6. ASSUME NEW u \in Tenant, NEW k \in RunId, storedRuns'[u][k] # NoRun
      PROVE  /\ storedRuns'[u][k].tenant = u
             /\ runs'[k] # NoRun => runs'[k].tenant = u
             /\ \A w \in Tenant : storedRuns'[w][k] # NoRun => w = u
             /\ k <= runCounter'
  <2>1. CASE k # r
    BY <1>1, <1>2, <1>3, <1>5, <1>6, <2>1 DEF RunIds
  <2>2. CASE k = r
    <3>1. u = t
      BY <1>1, <1>4, <1>6, <2>2
    <3>2. storedRuns'[t][r] = v \/ storedRuns'[t][r] = storedRuns[t][r]
      BY <1>1
    <3>3. storedRuns'[t][r].tenant = t
      BY <1>3, <1>6, <2>2, <3>1, <3>2 DEF RunIds
    <3>4. QED
      BY <1>1, <1>2, <1>3, <1>4, <1>5, <2>2, <3>1, <3>3
  <2>3. QED
    BY <2>1, <2>2
<1>7. RunIds'
  BY <1>2, <1>3, <1>5, <1>6 DEF RunIds
<1>8. ASSUME NEW u \in Reliable, NEW k \in RunId
      PROVE  storedRuns'[u][k] = IF runs'[k] # NoRun /\ runs'[k].tenant = u
                                   THEN runs'[k] ELSE NoRun
  <2>0. storedRuns[u][k] = IF runs[k] # NoRun /\ runs[k].tenant = u
                             THEN runs[k] ELSE NoRun
    BY <1>3 DEF RunsMirrored
  <2>1. CASE k # r
    BY <1>1, <1>2, <2>0, <2>1
  <2>2. CASE k = r /\ u = t
    BY <1>1, <1>2, <1>3, <2>2
  <2>3. CASE k = r /\ u # t
    BY <1>1, <1>2, <1>3, <1>4, <2>3
  <2>4. QED
    BY <2>1, <2>2, <2>3
<1>9. QED
  BY <1>3, <1>7, <1>8 DEF RunsMirrored

\* LoadFromStore replaces nothing, and moves the counters past what it loads.
LEMMA LoadMirror ==
  ASSUME TypeInv, PipeIds, RunIds, PipesMirrored, RunsMirrored,
         NEW t \in Tenant, LoadFromStore(t)
  PROVE  PipeIds' /\ RunIds' /\ PipesMirrored' /\ RunsMirrored'
<1>1. \A i \in PipeId : pipes'[i] = IF storedPipes[t][i] # NoPipe
                                      THEN storedPipes[t][i] ELSE pipes[i]
  BY DEF LoadFromStore
<1>2. \A r \in RunId : runs'[r] = IF storedRuns[t][r] # NoRun
                                    THEN storedRuns[t][r] ELSE runs[r]
  BY DEF LoadFromStore
<1>3. /\ t \notin loaded /\ loaded' = loaded \cup {t} /\ loaded \subseteq Tenant
      /\ UNCHANGED <<storedPipes, storedRuns>>
  BY DEF LoadFromStore, store, TypeInv, TypeOK
<1>4. \A i \in PipeId : /\ i <= pipeCounter => i <= pipeCounter'
                        /\ storedPipes[t][i] # NoPipe => i <= pipeCounter'
  <2>1. PICK n \in 0..MaxPipe :
          /\ pipeCounter' = n
          /\ \A i \in {i \in PipeId : storedPipes[t][i] # NoPipe} \cup {pipeCounter} : i <= n
    BY DEF LoadFromStore, Highest
  <2>2. pipeCounter <= n
    BY <2>1
  <2>3. pipeCounter \in Nat
    BY DEF TypeInv, TypeOK
  <2>4. QED
    BY <2>1, <2>2, <2>3 DEF PipeId
<1>5. \A r \in RunId : /\ r <= runCounter => r <= runCounter'
                       /\ storedRuns[t][r] # NoRun => r <= runCounter'
  <2>1. PICK n \in 0..MaxRun :
          /\ runCounter' = n
          /\ \A r \in {r \in RunId : storedRuns[t][r] # NoRun} \cup {runCounter} : r <= n
    BY DEF LoadFromStore, Highest
  <2>2. runCounter <= n
    BY <2>1
  <2>3. runCounter \in Nat
    BY DEF TypeInv, TypeOK
  <2>4. QED
    BY <2>1, <2>2, <2>3 DEF RunId
<1>6. PipeIds'
  BY <1>1, <1>3, <1>4 DEF PipeIds
<1>7. RunIds'
  BY <1>2, <1>3, <1>5 DEF RunIds
<1>8. PipesMirrored'
  <2> SUFFICES ASSUME NEW u \in (loaded \cup {t}) \cap Reliable, NEW i \in PipeId
               PROVE  SavedPipe(u, i)'
    BY <1>3 DEF PipesMirrored
  <2>0. renamed' = renamed
    BY DEF LoadFromStore, noted
  <2>1. CASE storedPipes[t][i] # NoPipe
    <3>1. pipes'[i] = storedPipes[t][i] /\ pipes'[i] \in Pipe /\ pipes'[i].tenant = t
      BY <1>1, <2>1 DEF PipeIds, TypeInv, TypeOK
    <3>2. CASE u = t
      <4>1. pipes'[i] \in {[pipes'[i] EXCEPT !.name = n] : n \in {pipes'[i].name}}
        BY <3>1, SameName
      <4>2. pipes'[i].name \in Name
        BY <3>1 DEF Pipe
      <4>3. QED
        BY <1>3, <2>1, <3>1, <3>2, <4>1, <4>2 DEF SavedPipe, Owns
    <3>3. CASE u # t
      BY <1>1, <1>3, <2>1, <3>1, <3>3 DEF SavedPipe, PipeIds, Owns
    <3>4. QED
      BY <3>2, <3>3
  <2>2. CASE storedPipes[t][i] = NoPipe
    <3>1. pipes'[i] = pipes[i]
      BY <1>1, <2>2
    <3>2. CASE u = t
      BY <1>3, <2>2, <3>1, <3>2 DEF PipeIds, SavedPipe, Owns
    <3>3. CASE u # t
      <4>1. SavedPipe(u, i) /\ UNCHANGED <<storedPipes, renamed>>
        BY <1>3, <2>0, <3>3 DEF PipesMirrored
      <4>2. QED
        BY <3>1, <4>1, KeepsSaved
    <3>4. QED
      BY <3>2, <3>3
  <2>3. QED
    BY <2>1, <2>2
<1>9. RunsMirrored'
  <2> SUFFICES ASSUME NEW u \in (loaded \cup {t}) \cap Reliable, NEW r \in RunId
               PROVE  storedRuns[u][r] = IF runs'[r] # NoRun /\ runs'[r].tenant = u
                                           THEN runs'[r] ELSE NoRun
    BY <1>3 DEF RunsMirrored
  <2>1. CASE storedRuns[t][r] # NoRun
    BY <1>2, <1>3, <2>1 DEF RunIds
  <2>2. CASE storedRuns[t][r] = NoRun
    <3>1. runs'[r] = runs[r]
      BY <1>2, <2>2
    <3>2. CASE u = t
      BY <1>3, <2>2, <3>1, <3>2 DEF RunIds
    <3>3. CASE u # t
      BY <3>1, <3>3 DEF RunsMirrored
    <3>4. QED
      BY <3>2, <3>3
  <2>3. QED
    BY <2>1, <2>2
<1>10. QED
  BY <1>6, <1>7, <1>8, <1>9

\* One step keeps numbers and mirror.
LEMMA MirrorStep ==
  ASSUME TypeInv, Mirror, [Next]_vars
  PROVE  Mirror'
<1>0. PipeIds /\ RunIds /\ PipesMirrored /\ RunsMirrored
  BY DEF Mirror, StoreMirrorsPipelines, PipesMirrored, RunsMirrored
<1>1. ASSUME UNCHANGED <<pipes, storedPipes, pipeCounter, loaded, renamed>>
      PROVE  PipeIds' /\ PipesMirrored'
  <2>1. \A t \in loaded \cap Reliable, i \in PipeId : SavedPipe(t, i)'
    BY <1>0, <1>1, KeepsSaved DEF PipesMirrored
  <2>2. QED
    BY <1>0, <1>1, <2>1 DEF PipeIds, PipesMirrored
<1>2. ASSUME UNCHANGED <<runs, storedRuns, runCounter, loaded>>
      PROVE  RunIds' /\ RunsMirrored'
  BY <1>0, <1>2 DEF RunIds, RunsMirrored
<1>3. ASSUME PipeIds', RunIds', PipesMirrored', RunsMirrored' PROVE Mirror'
  BY <1>3 DEF Mirror, StoreMirrorsPipelines, PipesMirrored, RunsMirrored
<1>4. ASSUME NEW t \in Tenant, NEW i \in PipeId, NEW v \in Pipe \cup {NoPipe},
             PutPipe(t, i, v)
      PROVE  Mirror'
  <2>1. UNCHANGED <<runs, storedRuns, runCounter, loaded>>
    BY <1>4 DEF PutPipe
  <2>2. QED
    BY <1>0, <1>2, <1>3, <1>4, <2>1, PutPipeMirror
<1>5. ASSUME NEW c \in Caller, NEW t \in Tenant, NEW r \in RunId, NEW v \in Run,
             RunOp(c, t, r, v)
      PROVE  Mirror'
  <2>1. UNCHANGED <<pipes, storedPipes, pipeCounter, loaded, renamed>> /\ PutRun(t, r, v)
    BY <1>5 DEF RunOp, PutRun
  <2>2. QED
    BY <1>0, <1>1, <1>3, <2>1, PutRunMirror
<1>6. ASSUME NEW t \in Tenant, LoadFromStore(t) PROVE Mirror'
  BY <1>0, <1>3, <1>6, LoadMirror
<1>7. CASE Crash
  <2>1. PipeIds' /\ PipesMirrored'
    BY <1>0, <1>7 DEF Crash, store, PipeIds, PipesMirrored
  <2>2. RunIds' /\ RunsMirrored'
    BY <1>0, <1>7 DEF Crash, store, RunIds, RunsMirrored
  <2>3. QED
    BY <1>3, <2>1, <2>2
<1>8. ASSUME UNCHANGED <<memory, store, loaded, renamed>> PROVE Mirror'
  BY <1>1, <1>2, <1>3, <1>8 DEF memory, store
<1>9. ASSUME NEW t \in Tenant, NEW i \in PipeId, NEW name \in Name, Rename(t, i, name)
      PROVE  Mirror'
  <2>1. UNCHANGED <<runs, storedRuns, runCounter, loaded>>
    BY <1>9 DEF Rename, store
  <2>2. QED
    BY <1>0, <1>2, <1>3, <1>9, <2>1, RenameMirror
<1>10. ASSUME NEW t \in Tenant, DeleteTenant(t) PROVE Mirror'
  BY <1>0, <1>3, <1>10, DeleteMirror
<1>11. QED
  BY <1>4, <1>5, <1>6, <1>7, <1>8, <1>9, <1>10, Kinds DEF Submit, JobEnds, vars, noted

\* Initially there is nothing to mirror.
LEMMA MirrorInit == Init => Mirror
  BY DEF Init, Mirror, PipeIds, RunIds, StoreMirrorsPipelines

-----------------------------------------------------------------------------
(* Runs move forward.                                                          *)

\* A run that is stored for a reliable tenant stays and only moves.
LEMMA StoredRunMoves ==
  ASSUME TypeInv, Mirror, [Next]_vars, NEW t \in Reliable, NEW r \in RunId,
         storedRuns[t][r] # NoRun
  PROVE  storedRuns'[t][r] # NoRun /\ Moved(storedRuns[t][r], storedRuns'[t][r])
<1>1. ASSUME storedRuns'[t][r] = storedRuns[t][r]
      PROVE  storedRuns'[t][r] # NoRun /\ Moved(storedRuns[t][r], storedRuns'[t][r])
  BY <1>1 DEF Moved
<1>2. ASSUME NEW c \in Caller, NEW u \in Tenant, NEW k \in RunId, NEW v \in Run,
             RunOp(c, u, k, v)
      PROVE  storedRuns'[t][r] # NoRun /\ Moved(storedRuns[t][r], storedRuns'[t][r])
  <2>1. PutRun(u, k, v)
    BY <1>2 DEF RunOp
  <2>2. \/ storedRuns'[t][r] = storedRuns[t][r]
        \/ t = u /\ r = k /\ storedRuns'[t][r] = v
    BY <2>1, WriteRunEffect DEF PutRun, TypeInv
  <2>3. CASE t = u /\ r = k /\ storedRuns'[t][r] = v
    <3>1. storedRuns[t][r] = runs[r] /\ r <= runCounter
      BY <2>1 DEF PutRun, Mirror, StoreMirrorsPipelines, RunIds
    <3>2. r # runCounter + 1
      BY <3>1 DEF TypeInv, TypeOK, RunId
    <3>3. Moved(runs[r], v)
      BY <2>1, <2>3, <3>2 DEF PutRun
    <3>4. QED
      BY <2>3, <3>1, <3>3, PipelineAssumption
  <2>4. QED
    BY <1>1, <2>2, <2>3
<1>3. CASE storedRuns' = storedRuns
  BY <1>1, <1>3
<1>4. ASSUME NEW u \in Tenant, DeleteTenant(u) PROVE storedRuns'[t][r] = storedRuns[t][r]
  BY <1>4 DEF DeleteTenant, TypeInv, TypeOK
<1>5. QED
  BY <1>1, <1>2, <1>3, <1>4, Kinds
     DEF PutPipe, Rename, Submit, JobEnds, LoadFromStore, Crash, store, vars

\* TypeInv and Mirror are invariants.
LEMMA BaseInvariant == Spec => [](TypeInv /\ Mirror)
<1>1. TypeInv /\ Mirror /\ [Next]_vars => TypeInv' /\ Mirror'
  BY TypeStep, MirrorStep
<1>2. QED
  BY <1>1, TypeInit, MirrorInit, PTL DEF Spec

\* Through retries, updates of the pipeline, restarts and failed writes of other
\* tenants, AdvanceRun takes a run from stage to stage, one at a time, and never out
\* of a final status.
THEOREM RunsMoveForward == Spec => RunMovesForward
<1> DEFINE Step == \A t \in Reliable, r \in RunId :
                     LET old == storedRuns[t][r]
                         new == storedRuns'[t][r]
                     IN  old # NoRun =>
                           /\ new # NoRun /\ new.pipe = old.pipe
                           /\ new.stage \in {old.stage, old.stage + 1}
                           /\ new.stage # old.stage => new.status = "running"
                           /\ old.status # "running" =>
                                new.status = old.status /\ new.stage = old.stage
<1>1. TypeInv /\ Mirror /\ [Next]_vars => [Step]_vars
  <2> SUFFICES ASSUME TypeInv, Mirror, [Next]_vars, NEW t \in Reliable,
                      NEW r \in RunId, storedRuns[t][r] # NoRun
               PROVE  LET old == storedRuns[t][r]
                          new == storedRuns'[t][r]
                      IN  /\ new # NoRun /\ new.pipe = old.pipe
                          /\ new.stage \in {old.stage, old.stage + 1}
                          /\ new.stage # old.stage => new.status = "running"
                          /\ old.status # "running" =>
                               new.status = old.status /\ new.stage = old.stage
    OBVIOUS
  <2>1. storedRuns'[t][r] # NoRun /\ Moved(storedRuns[t][r], storedRuns'[t][r])
    BY StoredRunMoves
  <2>2. QED
    BY <2>1 DEF Moved
<1>2. QED
  BY <1>1, BaseInvariant, PTL DEF Spec, RunMovesForward

-----------------------------------------------------------------------------
(* One job per stage.  The jobs of a run, and the handlers about to submit one, *)
(* are at stages the run has reached, and no two of them are at the same stage. *)

\* A job or a pending submission for a reliable tenant.
SafeJob(j) == j \in 1..Len(jobs) /\ jobs[j].tenant \in Reliable
Pending(c) ==
  /\ calls[c] # NoCall /\ calls[c].at = "submit"
  /\ runs[calls[c].run].tenant \in Reliable

JobsReached ==
  \A j \in 1..Len(jobs) : SafeJob(j) =>
    LET r == storedRuns[jobs[j].tenant][jobs[j].run]
    IN  r # NoRun /\ jobs[j].stage <= r.stage

CallsReached ==
  \A c \in Caller : Pending(c) => calls[c].stage <= runs[calls[c].run].stage

JobsDiffer ==
  \A j, k \in 1..Len(jobs) :
    /\ SafeJob(j) /\ j # k
    /\ jobs[j].tenant = jobs[k].tenant /\ jobs[j].run = jobs[k].run
    => jobs[j].stage # jobs[k].stage

CallsDiffer ==
  \A c, d \in Caller :
    Pending(c) /\ Pending(d) /\ c # d /\ calls[c].run = calls[d].run
      => calls[c].stage # calls[d].stage

JobsCallsDiffer ==
  \A j \in 1..Len(jobs), c \in Caller :
    /\ Pending(c) /\ jobs[j].run = calls[c].run
    /\ jobs[j].tenant = runs[calls[c].run].tenant
    => jobs[j].stage # calls[c].stage

JobInv ==
  JobsReached /\ CallsReached /\ JobsDiffer /\ CallsDiffer /\ JobsCallsDiffer

\* What a run's move does to its stage.
LEMMA MovedStage ==
  ASSUME NEW o \in Run, NEW n \in Run, Moved(o, n)
  PROVE  /\ o.stage \in Nat /\ n.stage \in Nat /\ o.stage <= n.stage
         /\ n.tenant = o.tenant
  BY DEF Moved, Run

\* A step that leaves the jobs alone keeps them behind their runs.
LEMMA JobsReachedStep ==
  ASSUME TypeInv, Mirror, [Next]_vars, JobsReached, jobs' = jobs
  PROVE  JobsReached'
<1> SUFFICES ASSUME NEW j \in 1..Len(jobs), SafeJob(j)
             PROVE  /\ storedRuns'[jobs[j].tenant][jobs[j].run] # NoRun
                    /\ jobs[j].stage <= storedRuns'[jobs[j].tenant][jobs[j].run].stage
  BY DEF JobsReached, SafeJob
<1>1. jobs[j] \in StageJob
  BY DEF TypeInv, TypeOK
<1>2. PICK t \in Reliable, r \in RunId : t = jobs[j].tenant /\ r = jobs[j].run
  BY <1>1 DEF SafeJob, StageJob
<1>3. storedRuns[t][r] # NoRun /\ jobs[j].stage <= storedRuns[t][r].stage
  BY <1>2 DEF JobsReached
<1>4. storedRuns'[t][r] # NoRun /\ Moved(storedRuns[t][r], storedRuns'[t][r])
  BY <1>3, StoredRunMoves
<1>5. storedRuns[t][r] \in Run
  BY <1>3 DEF TypeInv, TypeOK
<1>6. storedRuns'[t][r] \in Run
  <2>1. TypeInv'
    BY TypeStep
  <2>2. storedRuns' \in [Tenant -> [RunId -> Run \cup {NoRun}]]
    BY <2>1 DEF TypeInv, TypeOK
  <2>3. QED
    BY <1>4, <2>2
<1>7. jobs[j].stage \in Nat
  BY <1>1 DEF StageJob
<1>8. /\ storedRuns[t][r].stage \in Nat /\ storedRuns'[t][r].stage \in Nat
      /\ storedRuns[t][r].stage <= storedRuns'[t][r].stage
  BY <1>4, <1>5, <1>6, MovedStage
<1>9. jobs[j].stage <= storedRuns'[t][r].stage
  BY <1>3, <1>7, <1>8
<1>10. QED
  BY <1>2, <1>4, <1>9

\* A new run has a number that no job and no handler has.
LEMMA NewRunIsFresh ==
  ASSUME TypeInv, Mirror, JobInv, NEW r \in RunId, r = runCounter + 1, loaded = Tenant
  PROVE  /\ runs[r] = NoRun
         /\ \A c \in Caller : calls[c] # NoCall => calls[c].run # r
         /\ \A j \in 1..Len(jobs) : SafeJob(j) => jobs[j].run # r
<1>1. \A k \in RunId : k <= runCounter => k # r
  BY DEF TypeInv, TypeOK, RunId
<1>2. runs[r] = NoRun
  BY <1>1 DEF Mirror, RunIds
<1>3. \A c \in Caller : calls[c] # NoCall => calls[c].run # r
  BY <1>2 DEF TypeInv, CallInv
<1>4. \A j \in 1..Len(jobs) : SafeJob(j) => jobs[j].run # r
  <2> SUFFICES ASSUME NEW j \in 1..Len(jobs), SafeJob(j)
               PROVE  jobs[j].run <= runCounter
    BY <1>1 DEF TypeInv, TypeOK, StageJob
  <2>1. jobs[j] \in StageJob
    BY DEF TypeInv, TypeOK
  <2>2. PICK t \in Tenant, k \in RunId : t = jobs[j].tenant /\ k = jobs[j].run
    BY <2>1 DEF StageJob
  <2>3. storedRuns[t][k] # NoRun
    BY <2>2 DEF JobInv, JobsReached
  <2>4. k <= runCounter
    BY <2>3 DEF Mirror, RunIds
  <2>5. QED
    BY <2>2, <2>4
<1>5. QED
  BY <1>2, <1>3, <1>4

\* StartRun, RecordStageJob and AdvanceRun.
LEMMA RunOpJobs ==
  ASSUME TypeInv, Mirror, [Next]_vars, JobInv,
         NEW c \in Caller, NEW t \in Tenant, NEW r \in RunId, NEW v \in Run,
         RunOp(c, t, r, v)
  PROVE  JobInv'
<1>0. CallsReached /\ JobsReached /\ JobsDiffer /\ CallsDiffer /\ JobsCallsDiffer
  BY DEF JobInv
<1>1. /\ loaded = Tenant /\ jobs' = jobs /\ v.tenant = t
      /\ \A k \in RunId : runs'[k] = IF k = r THEN v ELSE runs[k]
  BY DEF RunOp, PutRun, TypeInv, TypeOK
<1>2. \A d \in Caller : calls[d] # NoCall =>
        /\ calls[d] \in Call /\ calls[d].run \in RunId /\ calls[d].stage \in Nat
        /\ runs[calls[d].run] \in Run
  BY DEF TypeInv, TypeOK, CallInv, Call
<1>3. \A j \in 1..Len(jobs) :
        jobs[j].run \in RunId /\ jobs[j].stage \in Nat /\ jobs[j].tenant \in Tenant
  <2>1. \A j \in 1..Len(jobs) : jobs[j] \in StageJob
    BY DEF TypeInv, TypeOK
  <2>2. QED
    BY <2>1 DEF StageJob
\* A handler other than c, or any if calls' = calls.
<1>4. ASSUME NEW d \in Caller, calls'[d] = calls[d], Pending(d)',
             runs[r] # NoRun => Moved(runs[r], v),
             runs[r] = NoRun => calls[d].run # r
      PROVE  /\ Pending(d) /\ calls'[d].stage <= runs'[calls'[d].run].stage
             /\ runs'[calls[d].run].tenant = runs[calls[d].run].tenant
  <2>1. calls[d] # NoCall /\ calls[d].at = "submit"
    BY <1>4 DEF Pending
  <2>2. PICK k \in RunId : k = calls[d].run
    BY <1>2, <2>1
  <2>3. runs[k] \in Run /\ calls[d].stage \in Nat
    BY <1>2, <2>1, <2>2
  <2>4. /\ runs[k].stage \in Nat /\ runs'[k].stage \in Nat /\ runs[k].stage <= runs'[k].stage
        /\ runs'[k].tenant = runs[k].tenant
    <3>1. CASE k = r
      BY <1>1, <1>4, <2>2, <2>3, <3>1, MovedStage
    <3>2. CASE k # r
      BY <1>1, <2>3, <3>2 DEF Run
    <3>3. QED
      BY <3>1, <3>2
  <2>5. Pending(d)
    BY <1>4, <2>1, <2>2, <2>4 DEF Pending
  <2>6. calls[d].stage <= runs[k].stage
    BY <1>0, <2>2, <2>5 DEF CallsReached
  <2>7. calls[d].stage <= runs'[k].stage
    BY <2>3, <2>4, <2>6
  <2>8. QED
    BY <1>4, <2>2, <2>4, <2>5, <2>7
<1>5. JobsReached'
  BY <1>0, <1>1, JobsReachedStep
<1>6. JobsDiffer'
  BY <1>0, <1>1 DEF JobsDiffer, SafeJob
<1>7. ASSUME \A d \in Caller : Pending(d)' =>
               /\ calls'[d] = calls[d] /\ Pending(d)
               /\ calls'[d].stage <= runs'[calls'[d].run].stage
               /\ runs'[calls[d].run].tenant = runs[calls[d].run].tenant
      PROVE  JobInv'
  <2>1. CallsReached'
    BY <1>7 DEF CallsReached
  <2>2. CallsDiffer'
    BY <1>0, <1>7 DEF CallsDiffer
  <2>3. JobsCallsDiffer'
    BY <1>0, <1>1, <1>7 DEF JobsCallsDiffer
  <2>4. QED
    BY <1>5, <1>6, <2>1, <2>2, <2>3 DEF JobInv
\* Handler c is about to submit for run r, ahead of all others.
<1>8. ASSUME calls' = [calls EXCEPT ![c] = ToSubmit(r, v.stage)],
             \A d \in Caller : d # c /\ Pending(d)' =>
               /\ Pending(d) /\ calls'[d].stage <= runs'[calls'[d].run].stage
               /\ runs'[calls[d].run].tenant = runs[calls[d].run].tenant
               /\ calls[d].run = r => calls[d].stage # v.stage,
             \A j \in 1..Len(jobs) :
               SafeJob(j) /\ jobs[j].run = r /\ jobs[j].tenant = t => jobs[j].stage # v.stage
      PROVE  JobInv'
  <2>0. /\ calls'[c] = ToSubmit(r, v.stage)
        /\ \A d \in Caller : d # c => calls'[d] = calls[d]
    BY <1>8 DEF TypeInv, TypeOK
  <2>1. calls'[c].run = r /\ calls'[c].stage = v.stage /\ v.stage \in Nat
    BY <2>0 DEF ToSubmit, Run
  <2>2. CallsReached'
    <3> SUFFICES ASSUME NEW d \in Caller, Pending(d)'
                 PROVE  calls'[d].stage <= runs'[calls'[d].run].stage
      BY DEF CallsReached
    <3>1. CASE d = c
      BY <1>1, <2>1, <3>1
    <3>2. QED
      BY <1>8, <3>1
  <2>3. CallsDiffer'
    <3> SUFFICES ASSUME NEW d \in Caller, NEW e \in Caller, Pending(d)', Pending(e)', d # e,
                        calls'[d].run = calls'[e].run
                 PROVE  calls'[d].stage # calls'[e].stage
      BY DEF CallsDiffer
    <3>1. CASE d # c /\ e # c
      <4>1. Pending(d) /\ Pending(e) /\ calls'[d] = calls[d] /\ calls'[e] = calls[e]
        BY <1>8, <2>0, <3>1
      <4>2. QED
        BY <1>0, <4>1 DEF CallsDiffer
    <3>2. CASE d = c
      BY <1>8, <2>0, <2>1, <3>2
    <3>3. CASE e = c
      BY <1>8, <2>0, <2>1, <3>3
    <3>4. QED
      BY <3>1, <3>2, <3>3
  <2>4. JobsCallsDiffer'
    <3> SUFFICES ASSUME NEW j \in 1..Len(jobs), NEW d \in Caller, Pending(d)',
                        jobs[j].run = calls'[d].run,
                        jobs[j].tenant = runs'[calls'[d].run].tenant
                 PROVE  jobs[j].stage # calls'[d].stage
      BY <1>1 DEF JobsCallsDiffer
    <3>1. CASE d = c
      <4>1. jobs[j].tenant = t /\ jobs[j].run = r
        BY <1>1, <2>1, <3>1
      <4>2. SafeJob(j)
        BY <3>1 DEF SafeJob, Pending
      <4>3. QED
        BY <1>8, <2>1, <3>1, <4>1, <4>2
    <3>2. CASE d # c
      <4>1. Pending(d) /\ calls'[d] = calls[d]
            /\ runs'[calls[d].run].tenant = runs[calls[d].run].tenant
        BY <1>8, <2>0, <3>2
      <4>2. QED
        BY <1>0, <4>1 DEF JobsCallsDiffer
    <3>3. QED
      BY <3>1, <3>2
  <2>5. QED
    BY <1>5, <1>6, <2>2, <2>3, <2>4 DEF JobInv
<1>9. CASE r = runCounter + 1 /\ v.stage = 0 /\ calls' = [calls EXCEPT ![c] = ToSubmit(r, 0)]
  <2>1. /\ runs[r] = NoRun
        /\ \A d \in Caller : calls[d] # NoCall => calls[d].run # r
        /\ \A j \in 1..Len(jobs) : SafeJob(j) => jobs[j].run # r
    BY <1>1, <1>9, NewRunIsFresh
  <2>2. ASSUME NEW d \in Caller, d # c, Pending(d)'
        PROVE  /\ Pending(d) /\ calls'[d].stage <= runs'[calls'[d].run].stage
               /\ runs'[calls[d].run].tenant = runs[calls[d].run].tenant
               /\ calls[d].run # r
    <3>1. calls'[d] = calls[d] /\ calls[d] # NoCall
      BY <1>9, <2>2 DEF TypeInv, TypeOK, Pending
    <3>2. QED
      BY <1>4, <2>1, <2>2, <3>1
  <2>3. QED
    BY <1>8, <1>9, <2>1, <2>2
<1>10. CASE /\ runs[r] # NoRun /\ Moved(runs[r], v)
            /\ calls' = calls \/ calls' = [calls EXCEPT ![c] = NoCall]
  <2>1. ASSUME NEW d \in Caller, Pending(d)' PROVE calls'[d] = calls[d]
    BY <1>10, <2>1 DEF TypeInv, TypeOK, Pending
  <2>2. QED
    BY <1>4, <1>7, <1>10, <2>1
<1>11. CASE /\ runs[r] # NoRun /\ Moved(runs[r], v) /\ v.stage = runs[r].stage + 1
            /\ calls' = [calls EXCEPT ![c] = ToSubmit(r, v.stage)]
  <2>0. runs[r] \in Run /\ runs[r].stage \in Nat /\ runs[r].tenant = t
    BY <1>1, <1>11 DEF TypeInv, TypeOK, Run, Moved
  <2>1. ASSUME NEW d \in Caller, d # c, Pending(d)'
        PROVE  /\ Pending(d) /\ calls'[d].stage <= runs'[calls'[d].run].stage
               /\ runs'[calls[d].run].tenant = runs[calls[d].run].tenant
               /\ calls[d].run = r => calls[d].stage # v.stage
    <3>1. calls'[d] = calls[d] /\ calls[d] # NoCall
      BY <1>11, <2>1 DEF TypeInv, TypeOK, Pending
    <3>2. /\ Pending(d) /\ calls'[d].stage <= runs'[calls'[d].run].stage
          /\ runs'[calls[d].run].tenant = runs[calls[d].run].tenant
      BY <1>4, <1>11, <2>1, <3>1
    <3>3. calls[d].stage <= runs[calls[d].run].stage /\ calls[d].stage \in Nat
      BY <1>0, <1>2, <3>1, <3>2 DEF CallsReached
    <3>4. calls[d].run = r => calls[d].stage # runs[r].stage + 1
      BY <2>0, <3>3
    <3>5. QED
      BY <1>11, <3>2, <3>4
  <2>2. ASSUME NEW j \in 1..Len(jobs), SafeJob(j), jobs[j].run = r, jobs[j].tenant = t
        PROVE  jobs[j].stage # v.stage
    <3>1. t \in Reliable
      BY <2>2 DEF SafeJob
    <3>2. storedRuns[t][r] = runs[r]
      BY <1>1, <1>11, <2>0, <3>1 DEF Mirror, StoreMirrorsPipelines
    <3>3. jobs[j].stage <= runs[r].stage /\ jobs[j].stage \in Nat
      BY <1>0, <1>3, <2>2, <3>2 DEF JobsReached
    <3>4. jobs[j].stage # runs[r].stage + 1
      BY <2>0, <3>3
    <3>5. QED
      BY <1>11, <3>4
  <2>3. QED
    BY <1>8, <1>11, <2>1, <2>2
<1>12. QED
  BY <1>9, <1>10, <1>11 DEF RunOp

\* A step that only takes handlers away, and one that changes no job but its end.
LEMMA QuietJobs ==
  ASSUME TypeInv, JobInv, storedRuns' = storedRuns, runs' = runs,
         Len(jobs') = Len(jobs),
         \A j \in 1..Len(jobs) : /\ jobs'[j].tenant = jobs[j].tenant
                                 /\ jobs'[j].run = jobs[j].run
                                 /\ jobs'[j].stage = jobs[j].stage,
         \A d \in Caller : calls'[d] = calls[d] \/ calls'[d] = NoCall
  PROVE  JobInv'
<1>0. CallsReached /\ JobsReached /\ JobsDiffer /\ CallsDiffer /\ JobsCallsDiffer
  BY DEF JobInv
<1>1. \A d \in Caller : Pending(d)' => Pending(d) /\ calls'[d] = calls[d]
  BY DEF Pending
<1>2. \A j : SafeJob(j)' <=> SafeJob(j)
  BY DEF SafeJob
<1>3. JobsReached'
  BY <1>0, <1>2 DEF JobsReached
<1>4. CallsReached'
  BY <1>0, <1>1 DEF CallsReached
<1>5. JobsDiffer'
  BY <1>0, <1>2 DEF JobsDiffer
<1>6. CallsDiffer'
  BY <1>0, <1>1 DEF CallsDiffer
<1>7. JobsCallsDiffer'
  BY <1>0, <1>1 DEF JobsCallsDiffer
<1>8. QED
  BY <1>3, <1>4, <1>5, <1>6, <1>7 DEF JobInv

\* The handler's submission becomes a job.
LEMMA SubmitJobs ==
  ASSUME TypeInv, Mirror, JobInv, NEW c \in Caller, Submit(c)
  PROVE  JobInv'
<1>0. CallsReached /\ JobsReached /\ JobsDiffer /\ CallsDiffer /\ JobsCallsDiffer
  BY DEF JobInv
<1>1. UNCHANGED <<runs, storedRuns>>
  BY DEF Submit, memory, store
<1>2. CASE jobs' = jobs /\ calls' = [calls EXCEPT ![c] = NoCall]
  <2>1. \A d \in Caller : calls'[d] = calls[d] \/ calls'[d] = NoCall
    BY <1>2 DEF TypeInv, TypeOK
  <2>2. QED
    BY <1>1, <1>2, <2>1, QuietJobs
<1>3. CASE LET k == calls[c] IN
           /\ jobs' = Append(jobs, [tenant |-> runs[k.run].tenant, run |-> k.run,
                                    stage |-> k.stage, done |-> FALSE])
           /\ calls' = [calls EXCEPT ![c] = [k EXCEPT !.at = "record", !.job = Len(jobs) + 1]]
  <2> DEFINE k == calls[c]
             r == k.run
             t == runs[r].tenant
             new == [tenant |-> t, run |-> r, stage |-> k.stage, done |-> FALSE]
  <2>0. PICK n \in Nat : n = Len(jobs) + 1
    BY DEF TypeInv, TypeOK
  <2>1. /\ k # NoCall /\ k.at = "submit" /\ k \in Call /\ r \in RunId /\ runs[r] \in Run
        /\ loaded = Tenant /\ t \in Tenant
    BY DEF Submit, TypeInv, TypeOK, CallInv, Call, Run
  <2>2. /\ new \in StageJob /\ new.tenant = t /\ new.run = r /\ new.stage = k.stage
    BY <2>1 DEF StageJob, Call
  <2>3. jobs \in Seq(StageJob) /\ jobs' = Append(jobs, new)
    BY <1>3 DEF TypeInv, TypeOK
  <2> HIDE DEF new
  <2>4. /\ Len(jobs') = n /\ Len(jobs) \in Nat
        /\ \A j \in 1..Len(jobs) : jobs'[j] = jobs[j]
        /\ jobs'[n] = new
    BY <2>0, <2>2, <2>3
  <2>5. \A d \in Caller : Pending(d)' => Pending(d) /\ d # c /\ calls'[d] = calls[d]
    <3> SUFFICES ASSUME NEW d \in Caller, Pending(d)'
                 PROVE  Pending(d) /\ d # c /\ calls'[d] = calls[d]
      OBVIOUS
    <3>1. CASE d = c
      <4>1. calls'[c].at = "record"
        BY <1>3, <2>1 DEF TypeInv, TypeOK, Call
      <4>2. QED
        BY <3>1, <4>1 DEF Pending
    <3>2. CASE d # c
      <4>1. calls'[d] = calls[d]
        BY <1>3, <3>2 DEF TypeInv, TypeOK
      <4>2. QED
        BY <1>1, <3>2, <4>1 DEF Pending
    <3>3. QED
      BY <3>1, <3>2
  <2>6. t \in Reliable => Pending(c)
    BY <2>1 DEF Pending
  <2>7. \A j \in 1..Len(jobs') : j \in 1..Len(jobs) \/ j = n
    BY <2>0, <2>4
  <2>8. \A j \in 1..Len(jobs) : j # n /\ j \in 1..Len(jobs') /\ (SafeJob(j)' => SafeJob(j))
    BY <2>0, <2>4 DEF SafeJob
  <2>9. SafeJob(n)' => t \in Reliable
    BY <2>2, <2>4 DEF SafeJob
  <2>10. JobsReached'
    <3> SUFFICES ASSUME NEW j \in 1..Len(jobs'), SafeJob(j)'
                 PROVE  /\ storedRuns[jobs'[j].tenant][jobs'[j].run] # NoRun
                        /\ jobs'[j].stage <= storedRuns[jobs'[j].tenant][jobs'[j].run].stage
      BY <1>1 DEF JobsReached
    <3>1. CASE j \in 1..Len(jobs)
      BY <1>0, <2>4, <2>8, <3>1 DEF JobsReached
    <3>2. CASE j = n
      <4>1. t \in Reliable /\ Pending(c)
        BY <2>6, <2>9, <3>2
      <4>2. storedRuns[t][r] = runs[r] /\ runs[r] # NoRun
        BY <2>1, <4>1, PipelineAssumption DEF Mirror, StoreMirrorsPipelines
      <4>3. k.stage <= runs[r].stage
        BY <1>0, <4>1 DEF CallsReached
      <4>4. QED
        BY <2>2, <2>4, <3>2, <4>2, <4>3
    <3>3. QED
      BY <2>7, <3>1, <3>2
  <2>11. CallsReached'
    BY <1>0, <1>1, <2>5 DEF CallsReached
  <2>12. JobsDiffer'
    <3> SUFFICES ASSUME NEW i \in 1..Len(jobs'), NEW j \in 1..Len(jobs'), SafeJob(i)', i # j,
                        jobs'[i].tenant = jobs'[j].tenant, jobs'[i].run = jobs'[j].run
                 PROVE  jobs'[i].stage # jobs'[j].stage
      BY DEF JobsDiffer
    <3>1. CASE i \in 1..Len(jobs) /\ j \in 1..Len(jobs)
      BY <1>0, <2>4, <2>8, <3>1 DEF JobsDiffer
    <3>2. CASE i = n /\ j \in 1..Len(jobs)
      BY <1>0, <2>2, <2>4, <2>6, <2>9, <3>2 DEF JobsCallsDiffer
    <3>3. CASE i \in 1..Len(jobs) /\ j = n
      <4>1. jobs[i].tenant = t /\ jobs[i].run = r
        BY <2>2, <2>4, <3>3
      <4>2. t \in Reliable
        BY <2>8, <3>3, <4>1 DEF SafeJob
      <4>3. QED
        BY <1>0, <2>2, <2>4, <2>6, <3>3, <4>1, <4>2 DEF JobsCallsDiffer
    <3>4. QED
      BY <2>7, <3>1, <3>2, <3>3
  <2>13. CallsDiffer'
    BY <1>0, <2>5 DEF CallsDiffer
  <2>14. JobsCallsDiffer'
    <3> SUFFICES ASSUME NEW j \in 1..Len(jobs'), NEW d \in Caller, Pending(d)',
                        jobs'[j].run = calls'[d].run,
                        jobs'[j].tenant = runs[calls'[d].run].tenant
                 PROVE  jobs'[j].stage # calls'[d].stage
      BY <1>1 DEF JobsCallsDiffer
    <3>1. Pending(d) /\ d # c /\ calls'[d] = calls[d]
      BY <2>5
    <3>2. CASE j \in 1..Len(jobs)
      BY <1>0, <2>4, <3>1, <3>2 DEF JobsCallsDiffer
    <3>3. CASE j = n
      <4>1. calls[d].run = r /\ runs[r].tenant = runs[calls[d].run].tenant
        BY <2>2, <2>4, <3>1, <3>3
      <4>2. Pending(c)
        BY <2>1, <3>1, <4>1 DEF Pending
      <4>3. calls[c].stage # calls[d].stage
        BY <1>0, <3>1, <4>1, <4>2 DEF CallsDiffer
      <4>4. QED
        BY <2>2, <2>4, <3>1, <3>3, <4>3
    <3>4. QED
      BY <2>7, <3>2, <3>3
  <2>15. QED
    BY <2>10, <2>11, <2>12, <2>13, <2>14 DEF JobInv
<1>4. QED
  BY <1>2, <1>3 DEF Submit

\* One step keeps JobInv.
LEMMA JobStep ==
  ASSUME TypeInv, Mirror, JobInv, [Next]_vars
  PROVE  JobInv'
<1>1. ASSUME UNCHANGED <<runs, storedRuns, jobs, calls>> PROVE JobInv'
  BY <1>1, QuietJobs
<1>2. ASSUME NEW c \in Caller, NEW t \in Tenant, NEW r \in RunId, NEW v \in Run,
             RunOp(c, t, r, v)
      PROVE  JobInv'
  BY <1>2, RunOpJobs
<1>3. ASSUME NEW c \in Caller, Submit(c) PROVE JobInv'
  BY <1>3, SubmitJobs
<1>4. ASSUME NEW j \in 1..Len(jobs), JobEnds(j) PROVE JobInv'
  <2>1. jobs \in Seq(StageJob) /\ jobs' = [jobs EXCEPT ![j].done = TRUE]
    BY <1>4 DEF JobEnds, TypeInv, TypeOK
  <2>2. Len(jobs') = Len(jobs)
    BY <2>1
  <2>3. \A i \in 1..Len(jobs) : jobs[i] \in StageJob
    BY <2>1
  <2>4. \A i \in 1..Len(jobs) : jobs'[i] = IF i = j THEN [jobs[j] EXCEPT !.done = TRUE]
                                                    ELSE jobs[i]
    BY <2>1
  <2>5. \A i \in 1..Len(jobs) : /\ jobs'[i].tenant = jobs[i].tenant
                                /\ jobs'[i].run = jobs[i].run
                                /\ jobs'[i].stage = jobs[i].stage
    BY <2>3, <2>4 DEF StageJob
  <2>6. UNCHANGED <<runs, storedRuns, calls>>
    BY <1>4 DEF JobEnds, memory, store
  <2>7. QED
    BY <2>2, <2>5, <2>6, QuietJobs
<1>5. ASSUME calls' = [c \in Caller |-> NoCall], jobs' = jobs PROVE JobInv'
  <2>1. \A c \in Caller : ~Pending(c)'
    BY <1>5 DEF Pending
  <2>2. JobsReached'
    BY <1>5, JobsReachedStep DEF JobInv
  <2>3. QED
    BY <1>5, <2>1, <2>2
       DEF JobInv, CallsReached, JobsDiffer, CallsDiffer, JobsCallsDiffer, SafeJob
<1>6. ASSUME NEW t \in Tenant, LoadFromStore(t) PROVE JobInv'
  <2>1. \A c \in Caller : calls[c] = NoCall
    BY <1>6 DEF LoadFromStore, TypeInv, CallInv
  <2>2. calls' = [c \in Caller |-> NoCall] /\ jobs' = jobs
    BY <1>6, <2>1 DEF LoadFromStore, TypeInv, TypeOK
  <2>3. QED
    BY <1>5, <2>2
<1>7. CASE Crash
  BY <1>5, <1>7 DEF Crash
<1>8. ASSUME NEW t \in Tenant, DeleteTenant(t) PROVE JobInv'
  <2>1. UNCHANGED <<runs, jobs, calls>>
    BY <1>8 DEF DeleteTenant, memory
  <2>2. JobsReached'
    BY <2>1, JobsReachedStep DEF JobInv
  <2>3. QED
    BY <2>1, <2>2 DEF JobInv, CallsReached, JobsDiffer, CallsDiffer, JobsCallsDiffer,
       SafeJob, Pending
<1>9. QED
  BY <1>1, <1>2, <1>3, <1>4, <1>6, <1>7, <1>8, Kinds DEF PutPipe, Rename, vars, memory, store

\* JobInv is what the property says, for the runs in memory.
LEMMA JobInvIsExact ==
  ASSUME TypeInv, JobInv
  PROVE  OneJobPerStage
<1> SUFFICES ASSUME NEW r \in RunId, Kept(r), NEW j \in JobsOf(r)
             PROVE  /\ \A k \in JobsOf(r) : j # k => jobs[j].stage # jobs[k].stage
                    /\ \A c \in Caller : /\ calls[c] # NoCall /\ calls[c].at = "submit"
                                         /\ calls[c].run = r
                                         => jobs[j].stage # calls[c].stage
  BY DEF OneJobPerStage
<1>1. runs[r].tenant \in Reliable
  BY DEF Kept, TypeInv, TypeOK, Run
<1>2. \A k \in JobsOf(r) : k \in 1..Len(jobs) /\ SafeJob(k) /\ jobs[k].run = r
                           /\ jobs[k].tenant = runs[r].tenant
  BY <1>1 DEF JobsOf, SafeJob
<1>3. \A k \in JobsOf(r) : j # k => jobs[j].stage # jobs[k].stage
  BY <1>2 DEF JobInv, JobsDiffer
<1>4. ASSUME NEW c \in Caller, calls[c] # NoCall, calls[c].at = "submit", calls[c].run = r
      PROVE  jobs[j].stage # calls[c].stage
  BY <1>1, <1>2, <1>4 DEF JobInv, JobsCallsDiffer, Pending
<1>5. QED
  BY <1>3, <1>4

\* Initially there are no jobs.
LEMMA JobInit == Init => JobInv
  BY DEF Init, JobInv, JobsReached, CallsReached, JobsDiffer, CallsDiffer, JobsCallsDiffer,
         Pending

\* For any number of tenants, handlers, pipelines, runs and restarts: buckets and maps
\* agree on every run and, but for the name that a refused PATCH has set, on every
\* pipeline of a tenant whose writes succeed and whom nobody deletes, and no stage of
\* such a run is submitted twice, however often clients advance it.
THEOREM PipelinesAreExact == Spec => []RunsAreExact
<1> DEFINE Inv == TypeInv /\ Mirror /\ JobInv
<1>1. Init => Inv
  BY TypeInit, MirrorInit, JobInit
<1>2. Inv /\ [Next]_vars => Inv'
  BY TypeStep, MirrorStep, JobStep
<1>3. Inv => RunsAreExact
  BY JobInvIsExact DEF RunsAreExact, TypeInv, Mirror
<1>4. QED
  BY <1>1, <1>2, <1>3, PTL DEF Spec

-----------------------------------------------------------------------------
(* Numbers. *)

\* A set of numbers has a least one.
LEMMA LeastNat == ASSUME NEW T, T \subseteq Nat, T # {} PROVE \E x \in T : \A y \in T : x <= y
<1>1. PICK x \in T : \A y \in T : ~(<<y, x>> \in OpToRel(<, Nat))
  <2>1. \E x \in T : \A y \in T : ~(<<y, x>> \in OpToRel(<, Nat))
    BY NatLessThanWellFounded, WFMin
  <2>2. QED BY <2>1
<1>2. ASSUME NEW y \in T PROVE x <= y
  <2>1. ~(y < x)
    BY <1>1 DEF OpToRel
  <2>2. QED BY <2>1
<1>3. QED BY <1>2

\* If they are bounded there is a greatest one.
LEMMA Greatest ==
  ASSUME NEW n \in Nat, NEW T, T \subseteq 0 .. n, T # {}
  PROVE  \E x \in T : \A y \in T : y <= x
<1>1. DEFINE D == {n - x : x \in T}
<1>2. D \subseteq Nat /\ D # {}
  OBVIOUS
<1>3. PICK d \in D : \A e \in D : d <= e
  BY <1>2, LeastNat
<1>4. PICK x \in T : d = n - x
  OBVIOUS
<1>5. ASSUME NEW y \in T PROVE y <= x
  <2>1. n - y \in D /\ n - x <= n - y
    BY <1>3, <1>4
  <2>2. QED BY <2>1
<1>6. QED BY <1>5

\* The numbers from 1 to n.
LEMMA FirstNumbers == ASSUME NEW n \in Nat PROVE IsFiniteSet(1 .. n) /\ Cardinality(1 .. n) = n
<1>1. 1 \in Int /\ n \in Int
  OBVIOUS
<1>2. QED BY <1>1, FS_Interval

-----------------------------------------------------------------------------
(* Filtered lists: what At keeps. *)

\* The smaller elements of a finite set of numbers: fewer than the set has, and more for
\* a greater number.
LEMMA SmallerOnes ==
  ASSUME NEW T, T \subseteq Nat, IsFiniteSet(T)
  PROVE  /\ \A i \in T : Cardinality({j \in T : j < i}) \in 0 .. Cardinality(T) - 1
         /\ \A i, k \in T : i < k => Cardinality({j \in T : j < i}) < Cardinality({j \in T : j < k})
<1>1. ASSUME NEW U, U \subseteq T, NEW V, V \subseteq U, NEW x \in U, x \notin V
      PROVE  /\ Cardinality(V) \in Nat /\ Cardinality(U) \in Nat
             /\ Cardinality(V) < Cardinality(U)
  <2>1. IsFiniteSet(U) /\ Cardinality(U) \in Nat
    BY <1>1, FS_Subset, FS_CardinalityType
  <2>2. IsFiniteSet(V) /\ Cardinality(V) \in Nat /\ Cardinality(V) <= Cardinality(U)
    BY <1>1, <2>1, FS_Subset, FS_CardinalityType
  <2>3. Cardinality(V) # Cardinality(U)
    BY <1>1, <2>1, FS_Subset
  <2>4. QED BY <2>1, <2>2, <2>3
<1>2. ASSUME NEW i \in T PROVE Cardinality({j \in T : j < i}) \in 0 .. Cardinality(T) - 1
  <2>1. i \notin {j \in T : j < i}
    OBVIOUS
  <2>2. QED BY <1>1, <2>1
<1>3. ASSUME NEW i \in T, NEW k \in T, i < k
      PROVE  Cardinality({j \in T : j < i}) < Cardinality({j \in T : j < k})
  <2>1. i \notin {j \in T : j < i} /\ i \in {j \in T : j < k}
    BY <1>3
  <2>2. {j \in T : j < i} \subseteq {j \in T : j < k}
    <3>1. ASSUME NEW j \in T, j < i PROVE j < k
      <4>1. j \in Nat /\ i \in Nat /\ k \in Nat
        OBVIOUS
      <4>2. QED BY <1>3, <3>1, <4>1
    <3>2. QED BY <3>1
  <2>3. QED BY <1>1, <2>1, <2>2
<1>4. QED BY <1>2, <1>3

\* Hence every number below the size of the set is reached.
LEMMA Ranks ==
  ASSUME NEW T, T \subseteq Nat, IsFiniteSet(T), NEW k \in 1 .. Cardinality(T)
  PROVE  \E i \in T : Cardinality({j \in T : j < i}) = k - 1
<1>1. DEFINE N == Cardinality(T)
             f == [i \in T |-> Cardinality({j \in T : j < i})]
<1>2. N \in Nat
  BY FS_CardinalityType
<1>3. f \in Injection(T, 0 .. N - 1)
  <2>1. f \in [T -> 0 .. N - 1]
    BY SmallerOnes
  <2>2. ASSUME NEW i \in T, NEW j \in T, f[i] = f[j] PROVE i = j
    <3>1. ~(i < j) /\ ~(j < i)
      <4>1. f[i] \in Int /\ f[j] \in Int
        BY <2>1, <1>2
      <4>2. (i < j => f[i] < f[j]) /\ (j < i => f[j] < f[i])
        BY SmallerOnes
      <4>3. QED BY <4>1, <4>2, <2>2
    <3>2. QED BY <3>1
  <2>3. QED BY <2>1, <2>2 DEF Injection, IsInjective
<1>4. IsFiniteSet(0 .. N - 1) /\ Cardinality(0 .. N - 1) = N
  <2> HIDE DEF N
  <2>1. 0 \in Int /\ N - 1 \in Int
    BY <1>2
  <2>2. QED BY <1>2, <2>1, FS_Interval
<1>5. f \in Surjection(T, 0 .. N - 1)
  BY <1>3, <1>4, FS_Injection
<1>6. k - 1 \in 0 .. N - 1
  BY <1>2
<1>7. PICK i \in T : f[i] = k - 1
  BY <1>5, <1>6 DEF Surjection
<1>8. QED BY <1>7

\* From the first entry to the last it is the list.
LEMMA SubSeqAll ==
  ASSUME NEW n \in Nat, NEW F, F = [k \in 1 .. n |-> F[k]]
  PROVE  SubSeq(F, 1, n) = F
<1>1. 1 + n - 1 = n /\ \A k \in 1 .. n : k + 1 - 1 = k
  OBVIOUS
<1>2. SubSeq(F, 1, n) = [k \in 1 .. n |-> F[k]]
  BY <1>1 DEF SubSeq
<1>3. QED BY <1>2

\* At keeps exactly the entries at the given positions.
LEMMA AtFacts ==
  ASSUME NEW S, NEW s \in Seq(S), NEW T, T \subseteq DOMAIN s
  PROVE  /\ At(s, T) \in Seq(S)
         /\ \A k \in DOMAIN At(s, T) : \E i \in T : At(s, T)[k] = s[i]
         /\ \A i \in T : \E k \in DOMAIN At(s, T) : At(s, T)[k] = s[i]
<1>1. DOMAIN s = 1 .. Len(s) /\ Len(s) \in Nat
  OBVIOUS
<1>2. IsFiniteSet(T) /\ T \subseteq Nat
  <2>1. IsFiniteSet(1 .. Len(s))
    BY <1>1, FS_Interval
  <2>2. QED BY <1>1, <2>1, FS_Subset
<1>3. DEFINE N == Cardinality(T)
             below(i) == Cardinality({j \in T : j < i})
             pos(k) == CHOOSE i \in T : below(i) = k - 1
<1>4. N \in Nat
  BY <1>2, FS_CardinalityType
<1>5. ASSUME NEW k \in 1 .. N PROVE pos(k) \in T /\ below(pos(k)) = k - 1
  <2>1. \E i \in T : below(i) = k - 1
    BY <1>2, Ranks
  <2>2. QED BY <2>1
<1>6. At(s, T) = [k \in 1 .. N |-> s[pos(k)]]
  <2>1. PICK F : F = [k \in 1 .. N |-> s[pos(k)]]
    OBVIOUS
  <2>2. At(s, T) = SubSeq(F, 1, N)
    BY <2>1 DEF At
  <2>3. F = [k \in 1 .. N |-> F[k]] /\ N \in Nat
    BY <2>1, <1>4
  <2>4. QED BY <2>1, <2>2, <2>3, SubSeqAll
<1>7. At(s, T) \in Seq(S) /\ DOMAIN At(s, T) = 1 .. N
  <2> HIDE DEF pos, N
  <2>1. ASSUME NEW k \in 1 .. N PROVE s[pos(k)] \in S
    <3>1. pos(k) \in DOMAIN s
      BY <1>5
    <3>2. QED BY <1>1, <3>1
  <2>2. QED BY <1>4, <1>6, <2>1
<1>8. ASSUME NEW i \in T PROVE \E k \in DOMAIN At(s, T) : At(s, T)[k] = s[i]
  <2>1. below(i) \in 0 .. N - 1
    BY <1>2, SmallerOnes
  <2>2. PICK k \in 1 .. N : k = below(i) + 1
    <3> HIDE DEF below, N
    <3>1. below(i) + 1 \in 1 .. N
      BY <1>4, <2>1
    <3>2. QED BY <3>1
  <2>3. pos(k) \in T /\ below(pos(k)) = below(i)
    <3>1. pos(k) \in T /\ below(pos(k)) = k - 1
      BY <1>5
    <3>2. k - 1 = below(i)
      <4> HIDE DEF below
      <4>1. QED BY <2>2, <2>1
    <3>3. QED BY <3>1, <3>2
  <2>4. pos(k) = i
    <3>1. \A x, y \in T : x < y => below(x) < below(y)
      BY <1>2, SmallerOnes
    <3>2. below(i) \in Int
      BY <2>1, <1>4
    <3> HIDE DEF below, pos
    <3>3. QED BY <1>2, <2>3, <3>1, <3>2
  <2>5. QED BY <1>6, <1>7, <2>4
<1>9. ASSUME NEW k \in DOMAIN At(s, T) PROVE \E i \in T : At(s, T)[k] = s[i]
  BY <1>5, <1>6, <1>7
<1>10. QED BY <1>7, <1>8, <1>9

\* Each entry has a place of its own in the list it comes from.
LEMMA AtPlaces ==
  ASSUME NEW S, NEW s \in Seq(S), NEW T, T \subseteq DOMAIN s, NEW r, r = At(s, T)
  PROVE  \E p : /\ \A k \in DOMAIN r : p[k] \in T /\ r[k] = s[p[k]]
                /\ \A k, l \in DOMAIN r : p[k] = p[l] => k = l
<1>1. DOMAIN s = 1 .. Len(s) /\ Len(s) \in Nat
  OBVIOUS
<1>2. IsFiniteSet(T) /\ T \subseteq Nat
  <2>1. IsFiniteSet(1 .. Len(s))
    BY <1>1, FS_Interval
  <2>2. QED BY <1>1, <2>1, FS_Subset
<1>3. DEFINE N == Cardinality(T)
             below(i) == Cardinality({j \in T : j < i})
             pos(k) == CHOOSE i \in T : below(i) = k - 1
<1>4. N \in Nat
  BY <1>2, FS_CardinalityType
<1>5. ASSUME NEW k \in 1 .. N PROVE pos(k) \in T /\ below(pos(k)) = k - 1
  <2>1. \E i \in T : below(i) = k - 1
    BY <1>2, Ranks
  <2>2. QED BY <2>1
<1>6. r = [k \in 1 .. N |-> s[pos(k)]]
  <2>1. PICK F : F = [k \in 1 .. N |-> s[pos(k)]]
    OBVIOUS
  <2>2. r = SubSeq(F, 1, N)
    BY <2>1 DEF At
  <2>3. F = [k \in 1 .. N |-> F[k]] /\ N \in Nat
    BY <2>1, <1>4
  <2>4. QED BY <2>1, <2>2, <2>3, SubSeqAll
<1>7. DEFINE p == [k \in 1 .. N |-> pos(k)]
<1>8. \A k \in DOMAIN r : p[k] \in T /\ r[k] = s[p[k]]
  BY <1>5, <1>6
<1>9. ASSUME NEW k \in DOMAIN r, NEW l \in DOMAIN r, p[k] = p[l] PROVE k = l
  <2>1. k \in 1 .. N /\ l \in 1 .. N
    BY <1>6
  <2>2. below(pos(k)) = k - 1 /\ below(pos(l)) = l - 1
    BY <1>5, <2>1
  <2>3. pos(k) = pos(l)
    BY <1>9, <2>1
  <2> HIDE DEF pos, below, N
  <2>4. k - 1 = l - 1
    BY <2>2, <2>3
  <2>5. QED BY <1>4, <2>1, <2>4
<1>10. QED BY <1>8, <1>9

\* r is what s has at the places p[1], p[2], ... which are those of T in their order.
InOrder(r, s, T, n, p) ==
  /\ p \in [1 .. n -> T]
  /\ r = [k \in 1 .. n |-> s[p[k]]]
  /\ \A k, l \in 1 .. n : k < l => p[k] < p[l]
  /\ \A i \in T : \E k \in 1 .. n : p[k] = i

\* The places an entry comes from are taken in their order, and all of them are.
LEMMA AtOrder ==
  ASSUME NEW S, NEW s \in Seq(S), NEW T, T \subseteq DOMAIN s
  PROVE  \E n \in Nat : \E p : InOrder(At(s, T), s, T, n, p)
<1>1. IsFiniteSet(T) /\ T \subseteq Nat
  <2>1. IsFiniteSet(1 .. Len(s)) /\ DOMAIN s = 1 .. Len(s) /\ Len(s) \in Nat
    BY FirstNumbers
  <2>2. QED BY <2>1, FS_Subset
<1>2. DEFINE N == Cardinality(T)
             below(i) == Cardinality({j \in T : j < i})
             pos(k) == CHOOSE i \in T : below(i) = k - 1
             p == [k \in 1 .. N |-> pos(k)]
<1>3. N \in Nat
  BY <1>1, FS_CardinalityType
<1>4. ASSUME NEW k \in 1 .. N PROVE pos(k) \in T /\ below(pos(k)) = k - 1
  <2>1. \E i \in T : below(i) = k - 1
    BY <1>1, Ranks
  <2>2. QED BY <2>1
<1>5. p \in [1 .. N -> T] /\ At(s, T) = [k \in 1 .. N |-> s[p[k]]]
  <2>1. At(s, T) = [k \in 1 .. N |-> s[pos(k)]]
    <3>1. PICK F : F = [k \in 1 .. N |-> s[pos(k)]]
      OBVIOUS
    <3>2. At(s, T) = SubSeq(F, 1, N)
      BY <3>1 DEF At
    <3>3. F = [k \in 1 .. N |-> F[k]] /\ N \in Nat
      BY <3>1, <1>3
    <3>4. QED BY <3>1, <3>2, <3>3, SubSeqAll
  <2>2. \A k \in 1 .. N : p[k] = pos(k)
    OBVIOUS
  <2>3. p \in [1 .. N -> T]
    BY <1>4
  <2> HIDE DEF N, pos, p
  <2>4. QED BY <2>1, <2>2, <2>3
<1>6. /\ \A i \in T : below(i) \in 0 .. N - 1
      /\ \A i, k \in T : i < k => below(i) < below(k)
  BY <1>1, SmallerOnes
<1>7. \A k \in 1 .. N : p[k] = pos(k)
  OBVIOUS
<1>8. \A k \in 1 .. N : p[k] \in T /\ below(p[k]) = k - 1
  BY <1>4, <1>7
<1>9. \A i \in T : i \in Nat
  BY <1>1
<1> HIDE DEF p, pos, below, N
<1>10. ASSUME NEW k \in 1 .. N, NEW l \in 1 .. N, k < l PROVE p[k] < p[l]
  <2>1. PICK a, b \in Nat : a = p[k] /\ b = p[l]
    BY <1>8, <1>9
  <2>2. a \in T /\ b \in T /\ below(a) = k - 1 /\ below(b) = l - 1
    BY <1>8, <2>1
  <2>3. ~(a = b)
    BY <1>3, <1>10, <2>2
  <2>4. ~(b < a)
    <3>1. SUFFICES ASSUME b < a PROVE FALSE
      OBVIOUS
    <3>2. below(b) < below(a)
      BY <1>6, <2>2, <3>1
    <3>3. QED BY <1>3, <1>10, <2>2, <3>2
  <2>5. a < b
    BY <2>1, <2>3, <2>4
  <2>6. QED BY <2>1, <2>5
<1>11. ASSUME NEW i \in T PROVE \E k \in 1 .. N : p[k] = i
  <2>1. PICK k \in 1 .. N : k = below(i) + 1
    BY <1>3, <1>6
  <2>2. PICK a, b \in Nat : a = p[k] /\ b = i
    BY <1>8, <1>9
  <2>3. a \in T /\ b \in T /\ below(a) = k - 1 /\ below(b) = k - 1
    <3>1. below(i) \in 0 .. N - 1
      BY <1>6
    <3>2. below(i) = k - 1
      BY <1>3, <2>1, <3>1
    <3>3. QED BY <1>8, <2>2, <3>2
  <2>4. ~(a < b) /\ ~(b < a)
    BY <1>3, <1>6, <2>3
  <2>5. a = b
    BY <2>2, <2>4
  <2>6. QED BY <2>2, <2>5
<1>12. InOrder(At(s, T), s, T, N, p)
  BY <1>5, <1>10, <1>11 DEF InOrder
<1>13. QED BY <1>3, <1>12

\* Whatever takes these places in their order says what At is.
LEMMA AtUnique ==
  ASSUME NEW S, NEW s \in Seq(S), NEW T, T \subseteq DOMAIN s,
         NEW m \in Nat, NEW q, NEW r, InOrder(r, s, T, m, q)
  PROVE  At(s, T) = r
<1>1. T \subseteq Nat
  OBVIOUS
<1>q. /\ q \in [1 .. m -> T]
      /\ r = [k \in 1 .. m |-> s[q[k]]]
      /\ \A k, l \in 1 .. m : k < l => q[k] < q[l]
      /\ \A i \in T : \E k \in 1 .. m : q[k] = i
  BY DEF InOrder
<1>2. \A k \in 1 .. m : q[k] \in T /\ q[k] \in Nat
  BY <1>1, <1>q
<1>3. ASSUME NEW k \in 1 .. m, NEW l \in 1 .. m, q[k] = q[l] PROVE k = l
  <2>1. PICK x \in Nat : x = q[k] /\ x = q[l]
    BY <1>2, <1>3
  <2>2. ~(k < l) /\ ~(l < k)
    <3>1. ~(x < x)
      OBVIOUS
    <3>2. QED BY <1>q, <2>1, <3>1
  <2>3. QED BY <2>2
<1>4. ASSUME NEW k \in 1 .. m, NEW l \in 1 .. m, q[k] < q[l] PROVE k < l
  <2>1. PICK x, y \in Nat : x = q[k] /\ y = q[l]
    BY <1>2
  <2>2. k # l
    BY <1>4, <2>1
  <2>3. ~(l < k)
    <3>1. SUFFICES ASSUME l < k PROVE FALSE
      OBVIOUS
    <3>2. y < x
      BY <1>q, <2>1, <3>1
    <3>3. QED BY <1>4, <2>1, <3>2
  <2>4. QED BY <2>2, <2>3
<1>5. ASSUME NEW n \in 0 .. m, NEW U, U = {q[l] : l \in 1 .. n}
      PROVE  Cardinality(U) = n
  <2>1. DEFINE f == [l \in 1 .. n |-> q[l]]
  <2>2. f \in Bijection(1 .. n, U)
    <3>1. 1 .. n \subseteq 1 .. m
      OBVIOUS
    <3>2. f \in [1 .. n -> U] /\ \A l \in 1 .. n : f[l] = q[l]
      BY <1>5
    <3>3. ASSUME NEW u \in U PROVE \E l \in 1 .. n : f[l] = u
      BY <1>5, <3>2
    <3>4. \A k, l \in 1 .. n : f[k] = f[l] => k = l
      BY <1>3, <3>1, <3>2
    <3> HIDE DEF f
    <3>5. f \in Injection(1 .. n, U)
      BY <3>2, <3>4 DEF Injection, IsInjective
    <3>6. f \in Surjection(1 .. n, U)
      BY <3>2, <3>3 DEF Surjection
    <3>7. QED BY <3>5, <3>6 DEF Bijection
  <2>3. IsFiniteSet(1 .. n) /\ Cardinality(1 .. n) = n
    BY FirstNumbers
  <2>4. QED BY <2>2, <2>3, FS_Bijection DEF ExistsBijection
<1>6. Cardinality(T) = m
  <2>1. T = {q[l] : l \in 1 .. m}
    BY <1>2, <1>q
  <2>2. QED BY <1>5, <2>1
<1>7. ASSUME NEW k \in 1 .. m PROVE Cardinality({j \in T : j < q[k]}) = k - 1
  <2>1. {j \in T : j < q[k]} = {q[l] : l \in 1 .. k - 1}
    <3>1. ASSUME NEW j \in T, j < q[k] PROVE \E l \in 1 .. k - 1 : j = q[l]
      <4>1. PICK l \in 1 .. m : q[l] = j
        BY <1>q
      <4>2. l < k
        BY <1>4, <3>1, <4>1
      <4>3. QED BY <4>1, <4>2
    <3>2. ASSUME NEW l \in 1 .. k - 1 PROVE q[l] \in T /\ q[l] < q[k]
      BY <1>2, <1>q
    <3>3. QED BY <3>1, <3>2
  <2>2. PICK n \in 0 .. m : n = k - 1
    OBVIOUS
  <2>3. QED BY <1>5, <2>1, <2>2
<1>8. DEFINE below(i) == Cardinality({j \in T : j < i})
             pos(k) == CHOOSE i \in T : below(i) = k - 1
<1>9. ASSUME NEW k \in 1 .. m PROVE pos(k) = q[k]
  <2>1. q[k] \in T /\ below(q[k]) = k - 1
    BY <1>2, <1>7
  <2>2. pos(k) \in T /\ below(pos(k)) = k - 1
    BY <2>1
  <2>3. PICK l \in 1 .. m : q[l] = pos(k)
    BY <1>q, <2>2
  <2>4. below(q[l]) = l - 1
    BY <1>7
  <2> HIDE DEF below, pos
  <2>5. l - 1 = k - 1
    BY <2>2, <2>3, <2>4
  <2>6. l = k
    BY <2>5
  <2>7. QED BY <2>3, <2>6
<1>10. At(s, T) = [k \in 1 .. m |-> s[pos(k)]]
  <2>1. PICK F : F = [k \in 1 .. m |-> s[pos(k)]]
    OBVIOUS
  <2>2. At(s, T) = SubSeq(F, 1, m)
    BY <1>6, <2>1 DEF At
  <2>3. F = [k \in 1 .. m |-> F[k]] /\ m \in Nat
    BY <2>1
  <2>4. QED BY <2>1, <2>2, <2>3, SubSeqAll
<1>11. QED BY <1>9, <1>10, <1>q

\* To filter what a weaker test has passed is to filter the list itself.
Those(s, G) == {i \in DOMAIN s : s[i] \in G}

LEMMA AtAt ==
  ASSUME NEW S, NEW s \in Seq(S), NEW T, T \subseteq DOMAIN s, NEW G, Those(s, G) \subseteq T
  PROVE  At(At(s, T), Those(At(s, T), G)) = At(s, Those(s, G))
<1>s. PICK r : r = At(s, T)
  OBVIOUS
<1>u. PICK U : U = Those(s, G) /\ U = {i \in DOMAIN s : s[i] \in G} /\ U \subseteq T
  BY DEF Those
<1>w. PICK V : V = Those(r, G) /\ V = {k \in DOMAIN r : r[k] \in G}
  BY DEF Those
<1>1. r \in Seq(S)
  BY <1>s, AtFacts
<1>2. PICK N \in Nat : \E p : InOrder(r, s, T, N, p)
  BY <1>s, AtOrder
<1>3. PICK p : InOrder(r, s, T, N, p)
  BY <1>2
<1>p. /\ p \in [1 .. N -> T]
      /\ r = [k \in 1 .. N |-> s[p[k]]]
      /\ \A k, l \in 1 .. N : k < l => p[k] < p[l]
      /\ \A i \in T : \E k \in 1 .. N : p[k] = i
  BY <1>3 DEF InOrder
<1>4. V \subseteq DOMAIN r
  BY <1>w
<1>5. PICK M \in Nat : \E v : InOrder(At(r, V), r, V, M, v)
  BY <1>1, <1>4, AtOrder
<1>6. PICK v : InOrder(At(r, V), r, V, M, v)
  BY <1>5
<1>v. /\ v \in [1 .. M -> V]
      /\ At(r, V) = [k \in 1 .. M |-> r[v[k]]]
      /\ \A k, l \in 1 .. M : k < l => v[k] < v[l]
      /\ \A i \in V : \E k \in 1 .. M : v[k] = i
  BY <1>6 DEF InOrder
<1>7. DEFINE q == [k \in 1 .. M |-> p[v[k]]]
<1>8. \A k \in 1 .. M : /\ v[k] \in 1 .. N /\ v[k] \in V /\ p[v[k]] \in U
                       /\ r[v[k]] = s[p[v[k]]]
  BY <1>p, <1>v, <1>u, <1>w
<1>9. q \in [1 .. M -> U] /\ \A k \in 1 .. M : q[k] = p[v[k]]
  BY <1>8
<1>10. \A k, l \in 1 .. M : k < l => q[k] < q[l]
  BY <1>p, <1>v, <1>8
<1>11. ASSUME NEW i \in U PROVE \E k \in 1 .. M : q[k] = i
  <2>1. PICK j \in 1 .. N : p[j] = i
    BY <1>p, <1>u
  <2>2. j \in V
    BY <1>p, <1>u, <1>w, <2>1
  <2>3. QED BY <1>v, <2>1, <2>2
<1>12. [k \in 1 .. M |-> r[v[k]]] = [k \in 1 .. M |-> s[q[k]]]
  <2> HIDE DEF q
  <2>1. QED BY <1>8, <1>9
<1>13. InOrder(At(r, V), s, U, M, q)
  <2> HIDE DEF q
  <2>1. QED BY <1>v, <1>9, <1>10, <1>11, <1>12 DEF InOrder
<1>14. U \subseteq DOMAIN s
  BY <1>u
<1>15. At(r, V) = At(s, U)
  <2> HIDE DEF q
  <2>1. QED BY <1>13, <1>14, AtUnique
<1>16. QED BY <1>s, <1>u, <1>w, <1>15

\* A finite set of numbers has a greatest one.
LEMMA GreatestOf ==
  ASSUME NEW T, T \subseteq Nat, IsFiniteSet(T), T # {}
  PROVE  \E x \in T : \A y \in T : y <= x
<1>1. DEFINE below(i) == Cardinality({j \in T : j < i})
<1>2. PICK N \in Nat : N = Cardinality(T) /\ N # 0
  BY FS_CardinalityType, FS_EmptySet
<1>3. PICK x \in T : below(x) = N - 1
  <2>1. N \in 1 .. Cardinality(T)
    BY <1>2
  <2>2. QED BY <2>1, Ranks
<1>4. /\ \A i \in T : below(i) \in 0 .. N - 1
      /\ \A i, k \in T : i < k => below(i) < below(k)
  BY <1>2, SmallerOnes
<1>5. ASSUME NEW y \in T PROVE y <= x
  <2> HIDE DEF below
  <2>1. ~(x < y)
    BY <1>2, <1>3, <1>4
  <2>2. QED BY <2>1
<1>6. QED BY <1>5

-----------------------------------------------------------------------------
(* The route table: the inductive invariant, in parts. *)

JobOf(ops, S) == [op : ops, todo : S, copy : Seq(Route), fresh : BOOLEAN, some : BOOLEAN]

PatchJob == [op : {"patch"}, dst : Endpoint, metric : Metric \cup {Unset}, ttl : Nat \cup {Unset},
             todo : {<<>>}, copy : Seq(Route), fresh : BOOLEAN, some : {TRUE}]

\* What a request under way keeps.
Job == JobOf({"post"}, Seq(Offer)) \cup JobOf({"delete"}, Seq(Endpoint))
         \cup JobOf({"import"}, Seq(Route)) \cup PatchJob

JobsOK ==
  /\ req \in [Handler -> Job \cup {Idle}]
  /\ \A h \in Handler : /\ pc[h] # "idle" => req[h] \in Job
                        /\ pc[h] = "update" => req[h] \in PatchJob

RouteTypes == TableTypeOK /\ nextId \in Nat /\ JobsOK

\* The request will write the table, as it is or as it will be.
Dirty(h) == pc[h] = "save" \/ (pc[h] = "change" /\ MustSave(req[h]))

\* The routes of a list that are alive at a moment.
Alive(rs, t) == At(rs, {i \in DOMAIN rs : ~Expired(rs[i], t)})

\* A copy that is fresh is the table, and so is the bucket unless somebody is to write it.
FreshOK ==
  \A h \in Handler :
    pc[h] = "save" /\ req[h].fresh => Alive(req[h].copy, clock) = Alive(routes, clock)

BucketOK ==
  \/ behind
  \/ \E h \in Handler : Dirty(h)
  \/ Alive(saved, clock) = Alive(routes, clock)

\* The routes that were added under the quota, and those that are to be.
Checked(rs) == {i \in DOMAIN rs : rs[i].checked}

Posting(h) == pc[h] = "change" /\ req[h].op = "post"

ToAdd == {x \in Handler \X Nat : Posting(x[1]) /\ x[2] \in 1 .. Len(req[x[1]].todo)}

Longest == CHOOSE n \in {Len(e) : e \in Offers} : \A e \in Offers : Len(e) <= n

Ceiling == MaxRoutes + (Cardinality(Handler) - 1) * Longest

\* What is in the table and what is still to come keep under the ceiling, and so does
\* what could come back from a copy or from the bucket.
QuotaOK ==
  /\ Cardinality(Checked(routes)) + Cardinality(ToAdd) <= Ceiling
  /\ Cardinality(Checked(saved)) <= Ceiling
  /\ \A h \in Handler : /\ pc[h] = "save" => Cardinality(Checked(req[h].copy)) <= Ceiling
                        /\ Posting(h) => Len(req[h].todo) <= Longest

RoutesInv == RouteTypes /\ FreshOK /\ BucketOK /\ QuotaOK

-----------------------------------------------------------------------------
(* The route table: what its operations do to a list. *)

LEMMA UnexpiredIsAlive == ASSUME NEW rs PROVE Unexpired(rs) = Alive(rs, clock)
BY DEF Unexpired, Alive

\* What Prune keeps is what is alive.
LEMMA AliveFacts ==
  ASSUME NEW rs \in Seq(Route), NEW t \in Nat
  PROVE  /\ Alive(rs, t) \in Seq(Route)
         /\ \A k \in DOMAIN Alive(rs, t) : \E i \in DOMAIN rs : Alive(rs, t)[k] = rs[i]
         /\ \A i \in DOMAIN rs :
              ~Expired(rs[i], t) => \E k \in DOMAIN Alive(rs, t) : Alive(rs, t)[k] = rs[i]
<1>1. PICK T : T = {i \in DOMAIN rs : ~Expired(rs[i], t)}
  OBVIOUS
<1>2. T \subseteq DOMAIN rs /\ Alive(rs, t) = At(rs, T)
  BY <1>1 DEF Alive
<1>3. \A i \in DOMAIN rs : ~Expired(rs[i], t) => i \in T
  BY <1>1
<1>4. /\ At(rs, T) \in Seq(Route)
      /\ \A k \in DOMAIN At(rs, T) : \E i \in T : At(rs, T)[k] = rs[i]
      /\ \A i \in T : \E k \in DOMAIN At(rs, T) : At(rs, T)[k] = rs[i]
  BY <1>2, AtFacts
<1>5. QED BY <1>2, <1>3, <1>4

\* Pruning again, now or later, gives what pruning then alone gives.
LEMMA AliveLater ==
  ASSUME NEW rs \in Seq(Route), NEW t \in Nat, NEW u \in Nat, t <= u
  PROVE  Alive(Alive(rs, t), u) = Alive(rs, u)
<1>1. PICK G : G = {x \in Route : ~Expired(x, u)}
  OBVIOUS
<1>2. PICK T : T = {i \in DOMAIN rs : ~Expired(rs[i], t)}
  OBVIOUS
<1>3. \A i \in DOMAIN rs : rs[i] \in Route
  OBVIOUS
<1>4. \A x \in Route : ~Expired(x, u) => ~Expired(x, t)
  BY DEF Expired, Route
<1>5. Those(rs, G) = {i \in DOMAIN rs : ~Expired(rs[i], u)}
  BY <1>1, <1>3 DEF Those
<1>6. T \subseteq DOMAIN rs /\ Those(rs, G) \subseteq T
  BY <1>2, <1>3, <1>4, <1>5
<1>7. At(At(rs, T), Those(At(rs, T), G)) = At(rs, Those(rs, G))
  BY <1>6, AtAt
<1>8. Alive(rs, t) = At(rs, T)
  BY <1>2 DEF Alive
<1>9. Those(At(rs, T), G) = {k \in DOMAIN At(rs, T) : ~Expired(At(rs, T)[k], u)}
  <2>1. At(rs, T) \in Seq(Route)
    BY <1>6, AtFacts
  <2>2. PICK r \in Seq(Route) : r = At(rs, T)
    BY <2>1
  <2>3. \A k \in DOMAIN r : r[k] \in Route
    OBVIOUS
  <2>4. Those(r, G) = {k \in DOMAIN r : ~Expired(r[k], u)}
    BY <1>1, <2>3 DEF Those
  <2>5. QED BY <2>2, <2>4
<1>10. QED BY <1>5, <1>7, <1>8, <1>9 DEF Alive

\* Lists that are the same but for what has expired stay so.
LEMMA AliveStays ==
  ASSUME NEW r \in Seq(Route), NEW s \in Seq(Route), NEW t \in Nat, NEW u \in Nat, t <= u,
         Alive(r, t) = Alive(s, t)
  PROVE  Alive(r, u) = Alive(s, u)
<1>1. Alive(Alive(r, t), u) = Alive(r, u) /\ Alive(Alive(s, t), u) = Alive(s, u)
  BY AliveLater
<1>2. QED BY <1>1

\* The first route to d.
LEMMA FirstFacts ==
  ASSUME NEW rs \in Seq(Route), NEW d
  PROVE  \/ First(rs, d) = 0
         \/ First(rs, d) \in DOMAIN rs /\ rs[First(rs, d)].dst = d
<1>1. DEFINE at == {i \in DOMAIN rs : rs[i].dst = d}
<1>2. CASE at = {}
  BY <1>2 DEF First
<1>3. CASE at # {}
  <2>1. at \subseteq Nat
    OBVIOUS
  <2>2. \E i \in at : \A j \in at : i <= j
    BY <1>3, <2>1, LeastNat
  <2>3. First(rs, d) = CHOOSE i \in at : \A j \in at : i <= j
    BY <1>3 DEF First
  <2>4. First(rs, d) \in at
    BY <2>2, <2>3
  <2>5. QED BY <2>4
<1>4. QED BY <1>2, <1>3

\* What a POST or an import gives of a route.
Offered(o) ==
  /\ o.dst \in Endpoint /\ o.lat \in Nat /\ o.thr \in Nat /\ o.satellite \in BOOLEAN
  /\ o.region \in Tag \cup {NoTag} /\ o.site \in Tag \cup {NoTag}

LEMMA AddFacts ==
  ASSUME NEW rs \in Seq(Route), NEW o, Offered(o), NEW ttl \in Nat, NEW checked \in BOOLEAN,
         clock \in Nat, nextId \in Nat
  PROVE  \E x \in Route : /\ x.checked = checked /\ x.id = nextId
                          /\ AddRoute(rs, o, ttl, checked) = Append(rs, x)
<1>1. PICK e \in Nat \cup {NoExpiry} : e = IF ttl > 0 THEN clock + ttl ELSE NoExpiry
  <2>1. CASE ttl > 0
    <3>1. clock + ttl \in Nat
      OBVIOUS
    <3>2. QED BY <2>1, <3>1
  <2>2. CASE ~(ttl > 0)
    BY <2>2
  <2>3. QED BY <2>1, <2>2
<1>2. PICK x : x = [dst |-> o.dst, lat |-> o.lat, thr |-> o.thr, satellite |-> o.satellite,
                    region |-> o.region, site |-> o.site, expires |-> e,
                    id |-> nextId, checked |-> checked]
  OBVIOUS
<1>3. x \in Route /\ x.checked = checked /\ x.id = nextId
  BY <1>1, <1>2 DEF Route, Offered
<1>4. AddRoute(rs, o, ttl, checked) = Append(rs, x)
  BY <1>1, <1>2 DEF AddRoute
<1>5. QED BY <1>3, <1>4

\* An update changes neither the number of routes nor which they are.
LEMMA UpdateFacts ==
  ASSUME NEW rs \in Seq(Route), NEW d, First(rs, d) # 0, clock \in Nat,
         NEW metric \in Metric \cup {Unset}, NEW ttl \in Nat \cup {Unset}, RoutesAssumption
  PROVE  /\ UpdateRoute(rs, d, metric, ttl) \in Seq(Route)
         /\ DOMAIN UpdateRoute(rs, d, metric, ttl) = DOMAIN rs
         /\ \A i \in DOMAIN rs : /\ UpdateRoute(rs, d, metric, ttl)[i].id = rs[i].id
                                 /\ UpdateRoute(rs, d, metric, ttl)[i].checked = rs[i].checked
<1>1. PICK i \in DOMAIN rs : i = First(rs, d)
  BY FirstFacts
<1>2. PICK x \in Route : x = rs[i]
  OBVIOUS
<1>3. PICK l \in Nat : l = IF metric = Unset THEN x.lat ELSE metric.lat
  BY DEF Route, Metric, RoutesAssumption
<1>4. PICK m \in Nat : m = IF metric = Unset THEN x.thr ELSE metric.thr
  BY DEF Route, Metric, RoutesAssumption
<1>5. PICK e \in Nat \cup {NoExpiry} :
        e = IF ttl = Unset THEN x.expires ELSE IF ttl = 0 THEN NoExpiry ELSE clock + ttl
  <2>1. CASE ttl = Unset
    BY <2>1 DEF Route
  <2>2. CASE ttl # Unset
    <3>1. PICK n \in Nat : n = ttl
      BY <2>2
    <3>2. clock + n \in Nat
      OBVIOUS
    <3>3. QED BY <2>2, <3>1, <3>2
  <2>3. QED BY <2>1, <2>2
<1>6. PICK y : y = [x EXCEPT !.lat = l, !.thr = m, !.expires = e]
  OBVIOUS
<1>7. y \in Route /\ y.id = x.id /\ y.checked = x.checked
  BY <1>6 DEF Route
<1>8. PICK f : f = [rs EXCEPT ![i] = y]
  OBVIOUS
<1>9. UpdateRoute(rs, d, metric, ttl) = f
  BY <1>1, <1>2, <1>3, <1>4, <1>5, <1>6, <1>8 DEF UpdateRoute
<1>10. f \in Seq(Route) /\ DOMAIN f = DOMAIN rs
  <2> HIDE DEF Route
  <2>1. QED BY <1>7, <1>8
<1>11. \A j \in DOMAIN rs : f[j] = IF j = i THEN y ELSE rs[j]
  BY <1>8
<1>12. QED BY <1>2, <1>7, <1>9, <1>10, <1>11

-----------------------------------------------------------------------------
(* The route table: how many routes were added under the quota. *)

LEMMA CheckedFacts ==
  ASSUME NEW rs \in Seq(Route)
  PROVE  /\ IsFiniteSet(Checked(rs))
         /\ Cardinality(Checked(rs)) \in Nat
         /\ Cardinality(Checked(rs)) <= Len(rs)
<1>1. Len(rs) \in Nat /\ DOMAIN rs = 1 .. Len(rs)
  OBVIOUS
<1>2. IsFiniteSet(1 .. Len(rs)) /\ Cardinality(1 .. Len(rs)) = Len(rs)
  BY <1>1, FirstNumbers
<1>3. Checked(rs) \subseteq 1 .. Len(rs)
  BY <1>1 DEF Checked
<1>4. QED BY <1>2, <1>3, FS_Subset, FS_CardinalityType

\* A list that is filtered has no more of them.
LEMMA CheckedAt ==
  ASSUME NEW rs \in Seq(Route), NEW T, T \subseteq DOMAIN rs
  PROVE  Cardinality(Checked(At(rs, T))) <= Cardinality(Checked(rs))
<1>1. PICK r : r = At(rs, T)
  OBVIOUS
<1>2. PICK p : /\ \A k \in DOMAIN r : p[k] \in T /\ r[k] = rs[p[k]]
               /\ \A k, l \in DOMAIN r : p[k] = p[l] => k = l
  BY <1>1, AtPlaces
<1>3. PICK f : f = [k \in Checked(r) |-> p[k]]
  OBVIOUS
<1>4. \A k \in Checked(r) : k \in DOMAIN r /\ p[k] \in Checked(rs)
  BY <1>2 DEF Checked
<1>5. f \in [Checked(r) -> Checked(rs)] /\ \A k \in Checked(r) : f[k] = p[k]
  BY <1>3, <1>4
<1>6. f \in Injection(Checked(r), Checked(rs))
  BY <1>2, <1>4, <1>5 DEF Injection, IsInjective
<1>7. QED BY <1>1, <1>6, CheckedFacts, FS_Injection

LEMMA CheckedAppend ==
  ASSUME NEW rs \in Seq(Route), NEW x \in Route
  PROVE  /\ Cardinality(Checked(Append(rs, x))) <= Cardinality(Checked(rs)) + 1
         /\ ~x.checked => Cardinality(Checked(Append(rs, x))) = Cardinality(Checked(rs))
<1>1. PICK n \in Nat : n = Len(rs) + 1
  OBVIOUS
<1>2. PICK r : r = Append(rs, x)
  OBVIOUS
<1>3. /\ r \in Seq(Route) /\ DOMAIN r = DOMAIN rs \cup {n} /\ n \notin DOMAIN rs
      /\ r[n] = x /\ \A i \in DOMAIN rs : r[i] = rs[i]
  <2> HIDE DEF Route
  <2>1. QED BY <1>1, <1>2
<1>4. IsFiniteSet(Checked(rs)) /\ Cardinality(Checked(rs)) \in Nat
  BY CheckedFacts
<1>5. CASE x.checked
  <2>1. Checked(r) = Checked(rs) \cup {n} /\ n \notin Checked(rs)
    BY <1>3, <1>5 DEF Checked
  <2>2. Cardinality(Checked(rs) \cup {n}) = Cardinality(Checked(rs)) + 1
    BY <1>4, <2>1, FS_AddElement
  <2>3. QED BY <1>2, <1>4, <1>5, <2>1, <2>2
<1>6. CASE ~x.checked
  <2>1. Checked(r) = Checked(rs)
    BY <1>3, <1>6 DEF Checked
  <2>2. QED BY <1>2, <1>4, <2>1
<1>7. QED BY <1>5, <1>6

LEMMA CheckedAlive ==
  ASSUME NEW rs \in Seq(Route), NEW t \in Nat
  PROVE  Cardinality(Checked(Alive(rs, t))) <= Cardinality(Checked(rs))
<1>1. PICK T : T = {i \in DOMAIN rs : ~Expired(rs[i], t)}
  OBVIOUS
<1>2. T \subseteq DOMAIN rs /\ Alive(rs, t) = At(rs, T)
  BY <1>1 DEF Alive
<1>3. QED BY <1>2, CheckedAt

\* Deleting keeps the other routes.
LEMMA DeleteFacts ==
  ASSUME NEW rs \in Seq(Route), NEW d
  PROVE  /\ DeleteRoute(rs, d) \in Seq(Route)
         /\ Cardinality(Checked(DeleteRoute(rs, d))) <= Cardinality(Checked(rs))
         /\ \A i \in DOMAIN rs : \/ rs[i].dst = d
                                 \/ \E j \in DOMAIN DeleteRoute(rs, d) : DeleteRoute(rs, d)[j] = rs[i]
<1>1. CASE First(rs, d) = 0
  <2>1. DeleteRoute(rs, d) = rs
    BY <1>1 DEF DeleteRoute
  <2>2. Cardinality(Checked(rs)) \in Nat
    BY CheckedFacts
  <2>3. QED BY <2>1, <2>2
<1>2. CASE First(rs, d) # 0
  <2>1. PICK i \in DOMAIN rs : i = First(rs, d) /\ rs[i].dst = d
    BY <1>2, FirstFacts
  <2>2. PICK T : T = DOMAIN rs \ {i}
    OBVIOUS
  <2>3. DeleteRoute(rs, d) = At(rs, T) /\ T \subseteq DOMAIN rs
    BY <1>2, <2>1, <2>2 DEF DeleteRoute
  <2>4. /\ At(rs, T) \in Seq(Route)
        /\ \A j \in T : \E k \in DOMAIN At(rs, T) : At(rs, T)[k] = rs[j]
    BY <2>3, AtFacts
  <2>5. Cardinality(Checked(At(rs, T))) <= Cardinality(Checked(rs))
    BY <2>3, CheckedAt
  <2>6. \A j \in DOMAIN rs : rs[j].dst = d \/ j \in T
    BY <2>1, <2>2
  <2>7. QED BY <2>3, <2>4, <2>5, <2>6
<1>3. QED BY <1>1, <1>2

-----------------------------------------------------------------------------
(* The route table: the ceiling. *)

LEMMA Products == ASSUME NEW a \in Nat, NEW b \in Nat PROVE a * b \in Nat
OBVIOUS

LEMMA CeilingFacts ==
  ASSUME RoutesAssumption
  PROVE  /\ Longest \in Nat
         /\ \A e \in Offers : Len(e) \in Nat /\ Len(e) <= Longest
         /\ Cardinality(Handler) \in Nat /\ Cardinality(Handler) >= 1
         /\ Ceiling \in Nat /\ Ceiling >= MaxRoutes
<1>1. PICK L : L = {Len(e) : e \in Offers}
  OBVIOUS
<1>2. /\ \A e \in Offers : e \in Seq(Offer) /\ Len(e) \in Nat /\ Len(e) \in L
      /\ L \subseteq Nat /\ L # {}
  BY <1>1 DEF RoutesAssumption
<1>3. IsFiniteSet(L)
  <2>1. PICK f : f = [e \in Offers |-> Len(e)]
    OBVIOUS
  <2>2. f \in [Offers -> L] /\ \A e \in Offers : f[e] = Len(e)
    BY <1>2, <2>1
  <2>3. \A n \in L : \E e \in Offers : f[e] = n
    BY <1>1, <2>2
  <2>4. f \in Surjection(Offers, L)
    BY <2>2, <2>3 DEF Surjection
  <2>5. QED BY <2>4, FS_Surjection DEF RoutesAssumption
<1>4. PICK m \in L : \A n \in L : n <= m
  BY <1>2, <1>3, GreatestOf
<1>5. \A e \in Offers : Len(e) <= m
  BY <1>2, <1>4
<1>6. Longest = CHOOSE n \in L : \A e \in Offers : Len(e) <= n
  BY <1>1 DEF Longest
<1>7. Longest \in L /\ \A e \in Offers : Len(e) <= Longest
  BY <1>4, <1>5, <1>6
<1>8. PICK c \in Nat : c = Cardinality(Handler) /\ c >= 1
  BY FS_CardinalityType, FS_EmptySet DEF RoutesAssumption
<1>9. PICK l \in Nat : l = Longest
  BY <1>2, <1>7
<1>10. (c - 1) * l \in Nat
  BY <1>8, Products
<1>11. Ceiling = MaxRoutes + (c - 1) * l /\ MaxRoutes \in Nat
  BY <1>8, <1>9 DEF Ceiling, RoutesAssumption
<1>12. Ceiling \in Nat /\ Ceiling >= MaxRoutes
  BY <1>10, <1>11
<1>13. QED BY <1>2, <1>7, <1>8, <1>12

-----------------------------------------------------------------------------
(* The route table: what a request keeps. *)

LEMMA JobFacts ==
  ASSUME NEW x \in Job
  PROVE  /\ x.op \in {"post", "delete", "import", "patch"} /\ x # Idle
         /\ x.copy \in Seq(Route) /\ x.fresh \in BOOLEAN /\ x.some \in BOOLEAN
         /\ x.op = "post" => x.todo \in Seq(Offer)
         /\ x.op = "delete" => x.todo \in Seq(Endpoint)
         /\ x.op = "import" => x.todo \in Seq(Route)
         /\ x.op = "patch" => x \in PatchJob /\ x.todo = <<>> /\ x.some
         /\ x \in PatchJob => x.op = "patch"
<1>1. PICK R : R = Seq(Route)
  OBVIOUS
<1>2. PICK O : O = Seq(Offer)
  OBVIOUS
<1>3. PICK D : D = Seq(Endpoint)
  OBVIOUS
<1>4. x \in JobOf({"post"}, O) \/ x \in JobOf({"delete"}, D) \/ x \in JobOf({"import"}, R) \/ x \in PatchJob
  BY <1>1, <1>2, <1>3 DEF Job
<1>5. x # Idle
  <2>1. x.op \in {"post", "delete", "import", "patch"}
    BY <1>4 DEF JobOf, PatchJob
  <2>2. Idle.op = "none"
    BY DEF Idle
  <2>3. QED BY <2>1, <2>2
<1>6. x.copy \in R /\ x.fresh \in BOOLEAN /\ x.some \in BOOLEAN
  BY <1>1, <1>4 DEF JobOf, PatchJob
<1>7. /\ x.op \in {"post", "delete", "import", "patch"}
      /\ x.op = "post" => x.todo \in O
      /\ x.op = "delete" => x.todo \in D
      /\ x.op = "import" => x.todo \in R
  BY <1>4 DEF JobOf, PatchJob
<1>8. /\ x.op = "patch" => x \in PatchJob
      /\ x \in PatchJob => x.op = "patch" /\ x.todo = <<>> /\ x.some
  <2>1. x.op = "patch" => x \in PatchJob
    BY <1>4 DEF JobOf
  <2>2. x \in PatchJob => x.op = "patch" /\ x.todo = <<>> /\ x.some
    BY DEF PatchJob
  <2>3. QED BY <2>1, <2>2
<1>9. QED BY <1>1, <1>2, <1>3, <1>5, <1>6, <1>7, <1>8

LEMMA PatchJobFacts ==
  ASSUME NEW x \in PatchJob
  PROVE  x.metric \in Metric \cup {Unset} /\ x.ttl \in Nat \cup {Unset} /\ x.dst \in Endpoint
BY DEF PatchJob

\* A copy that another request outdates.
Stale(x) == [x EXCEPT !.fresh = FALSE]

LEMMA StaleFacts ==
  ASSUME NEW x \in Job
  PROVE  /\ Stale(x) \in Job
         /\ x \in PatchJob => Stale(x) \in PatchJob
         /\ Stale(x).op = x.op /\ Stale(x).todo = x.todo /\ Stale(x).copy = x.copy
         /\ Stale(x).some = x.some /\ ~Stale(x).fresh
<1>1. PICK R : R = Seq(Route)
  OBVIOUS
<1>2. PICK O : O = Seq(Offer)
  OBVIOUS
<1>3. PICK D : D = Seq(Endpoint)
  OBVIOUS
<1>4. QED BY <1>1, <1>2, <1>3 DEF Job, JobOf, PatchJob, Stale

\* The next entry is taken.
Taken(x, some) == [x EXCEPT !.todo = Tail(@), !.some = some]

LEMMA TakenFacts ==
  ASSUME NEW x \in Job, x.todo # <<>>, NEW some \in BOOLEAN
  PROVE  /\ Taken(x, some) \in Job /\ Taken(x, some).op = x.op
         /\ Taken(x, some).todo = Tail(x.todo) /\ Taken(x, some).copy = x.copy
         /\ Taken(x, some).some = some /\ Taken(x, some).fresh = x.fresh
<1>1. PICK t : t = Tail(x.todo)
  OBVIOUS
<1>2. PICK y : y = Taken(x, some) /\ y = [x EXCEPT !.todo = t, !.some = some]
  BY <1>1 DEF Taken
<1>3. /\ x.todo \in Seq(Offer) => t \in Seq(Offer)
      /\ x.todo \in Seq(Endpoint) => t \in Seq(Endpoint)
      /\ x.todo \in Seq(Route) => t \in Seq(Route)
  <2>1. ASSUME NEW S, x.todo \in Seq(S) PROVE t \in Seq(S)
    BY <1>1, <2>1, HeadTailProperties
  <2>2. QED BY <2>1
<1>4. PICK R : R = Seq(Route)
  OBVIOUS
<1>5. PICK O : O = Seq(Offer)
  OBVIOUS
<1>6. PICK D : D = Seq(Endpoint)
  OBVIOUS
<1>7. x.op # "patch"
  BY JobFacts
<1>8. /\ y \in Job /\ y.op = x.op /\ y.todo = t /\ y.copy = x.copy
      /\ y.some = some /\ y.fresh = x.fresh
  BY <1>2, <1>3, <1>4, <1>5, <1>6, <1>7 DEF Job, JobOf, PatchJob
<1>9. QED BY <1>1, <1>2, <1>8

\* The table is copied.
Copied(x, c) == [x EXCEPT !.copy = c, !.fresh = TRUE]

LEMMA CopiedFacts ==
  ASSUME NEW x \in Job, NEW c \in Seq(Route)
  PROVE  /\ Copied(x, c) \in Job /\ Copied(x, c).op = x.op /\ Copied(x, c).todo = x.todo
         /\ Copied(x, c).copy = c /\ Copied(x, c).some = x.some
<1>1. PICK R : R = Seq(Route)
  OBVIOUS
<1>2. PICK O : O = Seq(Offer)
  OBVIOUS
<1>3. PICK D : D = Seq(Endpoint)
  OBVIOUS
<1>4. QED BY <1>1, <1>2, <1>3 DEF Job, JobOf, PatchJob, Copied

LEMMA OutdatedFacts ==
  ASSUME JobsOK, TableTypeOK, NEW new, NEW o, o = Outdated(new)
  PROVE  /\ o \in [Handler -> Job \cup {Idle}]
         /\ \A k \in Handler :
              /\ pc[k] = "idle" => o[k] = req[k]
              /\ pc[k] # "idle" =>
                   /\ o[k] \in Job /\ o[k].op = req[k].op /\ o[k].todo = req[k].todo
                   /\ o[k].copy = req[k].copy /\ o[k].some = req[k].some
              /\ pc[k] = "update" => o[k] \in PatchJob
              /\ pc[k] = "save" /\ o[k].fresh => req[k].fresh /\ new = routes
              /\ pc[k] # "save" => o[k] = req[k]
<1>1. ASSUME NEW k \in Handler
      PROVE  /\ o[k] \in Job \cup {Idle}
             /\ pc[k] = "idle" => o[k] = req[k]
             /\ pc[k] # "idle" =>
                   /\ o[k] \in Job /\ o[k].op = req[k].op /\ o[k].todo = req[k].todo
                   /\ o[k].copy = req[k].copy /\ o[k].some = req[k].some
             /\ pc[k] = "update" => o[k] \in PatchJob
             /\ pc[k] = "save" /\ o[k].fresh => req[k].fresh /\ new = routes
             /\ pc[k] # "save" => o[k] = req[k]
  <2>1. /\ req[k] \in Job \cup {Idle}
        /\ pc[k] # "idle" => req[k] \in Job
        /\ pc[k] = "update" => req[k] \in PatchJob
    BY DEF JobsOK
  <2>2. CASE pc[k] = "save" /\ new # routes
    <3>1. PICK y : y = Stale(req[k])
      OBVIOUS
    <3>2. o[k] = y
      BY <2>2, <3>1 DEF Outdated, Stale
    <3>3. req[k] \in Job
      BY <2>1, <2>2
    <3>4. /\ y \in Job /\ ~y.fresh
          /\ y.op = req[k].op /\ y.todo = req[k].todo /\ y.copy = req[k].copy /\ y.some = req[k].some
      BY <3>1, <3>3, StaleFacts
    <3>5. QED BY <2>2, <3>2, <3>4
  <2>3. CASE ~(pc[k] = "save" /\ new # routes)
    <3>1. o[k] = req[k]
      BY <2>3 DEF Outdated
    <3>2. QED BY <2>1, <2>3, <3>1
  <2>4. QED BY <2>2, <2>3
<1>2. DOMAIN o = Handler /\ o = [k \in Handler |-> o[k]]
  BY DEF Outdated
<1>3. QED BY <1>1, <1>2

-----------------------------------------------------------------------------
(* The route table: what is still to be added. *)

LEMMA ToAddFacts ==
  ASSUME RoutesAssumption, RoutesInv
  PROVE  /\ IsFiniteSet(ToAdd) /\ Cardinality(ToAdd) \in Nat
         /\ \A x \in ToAdd : x \in Handler \X (1 .. Longest)
<1>1. Longest \in Nat
  BY CeilingFacts
<1>2. ASSUME NEW x \in ToAdd PROVE x \in Handler \X (1 .. Longest)
  <2>1. /\ x \in Handler \X Nat /\ Posting(x[1]) /\ x[2] \in 1 .. Len(req[x[1]].todo)
    BY DEF ToAdd
  <2>2. PICK k \in Handler, n \in Nat : x = <<k, n>>
    BY <2>1
  <2>3. Posting(k) /\ n \in 1 .. Len(req[k].todo)
    BY <2>1, <2>2
  <2>4. req[k] \in Job /\ req[k].op = "post"
    BY <2>3 DEF RoutesInv, RouteTypes, JobsOK, Posting
  <2>5. req[k].todo \in Seq(Offer)
    BY <2>4, JobFacts
  <2>6. Len(req[k].todo) \in Nat /\ Len(req[k].todo) <= Longest
    BY <2>3, <2>5 DEF RoutesInv, QuotaOK
  <2>7. QED BY <1>1, <2>2, <2>3, <2>6
<1>3. IsFiniteSet(Handler \X (1 .. Longest))
  <2>1. IsFiniteSet(1 .. Longest)
    BY <1>1, FirstNumbers
  <2>2. QED BY <2>1, FS_Product DEF RoutesAssumption
<1>4. ToAdd \subseteq Handler \X (1 .. Longest)
  BY <1>2
<1>5. IsFiniteSet(ToAdd)
  BY <1>3, <1>4, FS_Subset
<1>6. QED BY <1>2, <1>5, FS_CardinalityType

\* Fewer are to come when the posting requests are some of those there were.
LEMMA FewerToAdd ==
  ASSUME RoutesAssumption, RoutesInv,
         \A k \in Handler : Posting(k)' => Posting(k) /\ req'[k].todo = req[k].todo
  PROVE  /\ Cardinality(ToAdd') \in Nat
         /\ Cardinality(ToAdd') <= Cardinality(ToAdd)
<1>1. ToAdd' \subseteq ToAdd
  BY DEF ToAdd
<1>2. QED BY <1>1, ToAddFacts, FS_Subset, FS_CardinalityType

\* A request that starts adds no more than all its entries.
LEMMA MoreToAdd ==
  ASSUME RoutesAssumption, RoutesInv, NEW h \in Handler, NEW n \in Nat,
         Posting(h)' => Len(req'[h].todo) = n,
         \A k \in Handler \ {h} : Posting(k)' => Posting(k) /\ req'[k].todo = req[k].todo
  PROVE  Cardinality(ToAdd') <= (Cardinality(Handler) - 1) * Longest + n
<1>1. PICK A : A = (Handler \ {h}) \X (1 .. Longest)
  OBVIOUS
<1>2. PICK B : B = {h} \X (1 .. n)
  OBVIOUS
<1>3. PICK c \in Nat : c = Cardinality(Handler) /\ c >= 1
  BY CeilingFacts
<1>4. PICK l \in Nat : l = Longest
  BY CeilingFacts
<1>5. IsFiniteSet(A) /\ Cardinality(A) = (c - 1) * l
  <2>1. IsFiniteSet(Handler \ {h}) /\ Cardinality(Handler \ {h}) = c - 1
    BY <1>3, FS_RemoveElement DEF RoutesAssumption
  <2>2. IsFiniteSet(1 .. l) /\ Cardinality(1 .. l) = l
    BY FirstNumbers
  <2>3. IsFiniteSet(A) /\ Cardinality(A) = Cardinality(Handler \ {h}) * Cardinality(1 .. l)
    BY <1>1, <1>4, <2>1, <2>2, FS_Product
  <2>4. QED BY <2>1, <2>2, <2>3
<1>6. IsFiniteSet(B) /\ Cardinality(B) = n
  <2>1. IsFiniteSet({h}) /\ Cardinality({h}) = 1
    BY FS_Singleton
  <2>2. IsFiniteSet(1 .. n) /\ Cardinality(1 .. n) = n
    BY FirstNumbers
  <2>3. IsFiniteSet(B) /\ Cardinality(B) = Cardinality({h}) * Cardinality(1 .. n)
    BY <1>2, <2>1, <2>2, FS_Product
  <2>4. QED BY <2>1, <2>2, <2>3
<1>7. ToAdd' \subseteq A \cup B
  <2>1. ASSUME NEW x \in ToAdd' PROVE x \in A \cup B
    <3>1. /\ x \in Handler \X Nat /\ Posting(x[1])' /\ x[2] \in 1 .. Len(req'[x[1]].todo)
      BY DEF ToAdd
    <3>2. PICK k \in Handler, m \in Nat : x = <<k, m>>
      BY <3>1
    <3>3. Posting(k)' /\ m \in 1 .. Len(req'[k].todo)
      BY <3>1, <3>2
    <3>4. CASE k = h
      BY <1>2, <3>2, <3>3, <3>4
    <3>5. CASE k # h
      <4>1. Posting(k) /\ m \in 1 .. Len(req[k].todo)
        BY <3>3, <3>5
      <4>2. x \in ToAdd
        BY <3>2, <4>1 DEF ToAdd
      <4>3. m \in 1 .. Longest
        BY <3>2, <4>2, ToAddFacts
      <4>4. QED BY <1>1, <3>2, <3>5, <4>3
    <3>6. QED BY <3>4, <3>5
  <2>2. QED BY <2>1
<1>8. A \cap B = {}
  BY <1>1, <1>2
<1>9. IsFiniteSet(A \cup B) /\ Cardinality(A \cup B) = Cardinality(A) + Cardinality(B) - Cardinality(A \cap B)
  BY <1>5, <1>6, FS_Union
<1>10. Cardinality(A \cap B) = 0
  BY <1>8, FS_EmptySet
<1>11. Cardinality(ToAdd') <= Cardinality(A \cup B)
  BY <1>7, <1>9, FS_Subset
<1>12. (c - 1) * l \in Nat
  BY <1>3, Products
<1>13. Cardinality(A \cup B) = (c - 1) * l + n
  BY <1>5, <1>6, <1>9, <1>10, <1>12
<1>14. QED BY <1>3, <1>4, <1>11, <1>13

\* An entry that is taken is no longer to come.
LEMMA OneLess ==
  ASSUME RoutesAssumption, RoutesInv, NEW h \in Handler, Posting(h), req[h].todo # <<>>,
         Posting(h)', req'[h].todo = Tail(req[h].todo),
         \A k \in Handler \ {h} : Posting(k)' => Posting(k) /\ req'[k].todo = req[k].todo
  PROVE  /\ Cardinality(ToAdd') \in Nat
         /\ Cardinality(ToAdd') + 1 <= Cardinality(ToAdd)
<1>1. req[h].todo \in Seq(Offer)
  BY JobFacts DEF RoutesInv, RouteTypes, JobsOK, Posting
<1>2. PICK n \in Nat : n = Len(req[h].todo) /\ n >= 1
  BY <1>1, EmptySeq
<1>3. Len(req'[h].todo) = n - 1
  BY <1>1, <1>2, HeadTailProperties
<1>4. <<h, n>> \in ToAdd
  BY <1>2 DEF ToAdd
<1>5. ToAdd' \subseteq ToAdd \ {<<h, n>>}
  <2>1. ASSUME NEW x \in ToAdd' PROVE x \in ToAdd /\ x # <<h, n>>
    <3>1. /\ x \in Handler \X Nat /\ Posting(x[1])' /\ x[2] \in 1 .. Len(req'[x[1]].todo)
      BY DEF ToAdd
    <3>2. PICK k \in Handler, m \in Nat : x = <<k, m>>
      BY <3>1
    <3>3. Posting(k)' /\ m \in 1 .. Len(req'[k].todo)
      BY <3>1, <3>2
    <3>4. CASE k = h
      <4>1. m \in 1 .. n - 1
        BY <1>3, <3>3, <3>4
      <4>2. m \in 1 .. Len(req[h].todo) /\ m # n
        BY <1>2, <4>1
      <4>3. QED BY <3>2, <3>4, <4>2 DEF ToAdd
    <3>5. CASE k # h
      <4>1. Posting(k) /\ m \in 1 .. Len(req[k].todo)
        BY <3>3, <3>5
      <4>2. QED BY <3>2, <3>5, <4>1 DEF ToAdd
    <3>6. QED BY <3>4, <3>5
  <2>2. QED BY <2>1
<1>6. IsFiniteSet(ToAdd) /\ Cardinality(ToAdd) \in Nat
  BY ToAddFacts
<1>7. /\ IsFiniteSet(ToAdd \ {<<h, n>>})
      /\ Cardinality(ToAdd \ {<<h, n>>}) = Cardinality(ToAdd) - 1
  BY <1>4, <1>6, FS_RemoveElement
<1>8. IsFiniteSet(ToAdd') /\ Cardinality(ToAdd') <= Cardinality(ToAdd) - 1
  BY <1>5, <1>7, FS_Subset
<1>9. Cardinality(ToAdd') \in Nat
  BY <1>8, FS_CardinalityType
<1>10. QED BY <1>6, <1>8, <1>9

-----------------------------------------------------------------------------
(* The route table: the steps. *)

LEMMA Unpack ==
  ASSUME RoutesAssumption, RoutesInv
  PROVE  /\ routes \in Seq(Route) /\ saved \in Seq(Route) /\ file \in Seq(Route)
         /\ clock \in Nat /\ nextId \in Nat /\ MaxTime \in Nat
         /\ Cardinality(Checked(routes)) \in Nat /\ Cardinality(Checked(saved)) \in Nat
         /\ Cardinality(ToAdd) \in Nat /\ Ceiling \in Nat
         /\ \A h \in Handler : /\ pc[h] # "idle" => req[h] \in Job
                               /\ pc[h] = "update" => req[h] \in PatchJob
<1>1. routes \in Seq(Route) /\ saved \in Seq(Route) /\ file \in Seq(Route) /\ nextId \in Nat
  BY DEF RoutesInv, RouteTypes, TableTypeOK
<1>2. MaxTime \in Nat /\ clock \in Nat
  BY DEF RoutesInv, RouteTypes, TableTypeOK, RouteTime, RoutesAssumption
<1>3. \A h \in Handler : /\ pc[h] # "idle" => req[h] \in Job
                         /\ pc[h] = "update" => req[h] \in PatchJob
  BY DEF RoutesInv, RouteTypes, JobsOK
<1>4. Cardinality(Checked(routes)) \in Nat /\ Cardinality(Checked(saved)) \in Nat
  BY <1>1, CheckedFacts
<1>5. QED BY <1>1, <1>2, <1>3, <1>4, ToAddFacts, CeilingFacts

\* Pruning the table.
LEMMA PruneFacts ==
  ASSUME RoutesAssumption, RoutesInv, NEW new, new = Unexpired(routes)
  PROVE  /\ new \in Seq(Route) /\ Alive(new, clock) = Alive(routes, clock)
         /\ Cardinality(Checked(new)) \in Nat
         /\ Cardinality(Checked(new)) <= Cardinality(Checked(routes))
         /\ Cardinality(Checked(new)) <= Len(new)
<1>1. routes \in Seq(Route) /\ clock \in Nat /\ clock <= clock
  BY Unpack
<1>2. new = Alive(routes, clock)
  BY UnexpiredIsAlive
<1>3. new \in Seq(Route)
  BY <1>1, <1>2, AliveFacts
<1>4. Alive(new, clock) = Alive(routes, clock)
  BY <1>1, <1>2, AliveLater
<1>5. Cardinality(Checked(new)) <= Cardinality(Checked(routes))
  BY <1>1, <1>2, CheckedAlive
<1>6. QED BY <1>3, <1>4, <1>5, CheckedFacts

\* The table at the start.
LEMMA StartsKept == ASSUME RoutesAssumption, RoutesInit PROVE RoutesInv
<1>1. /\ routes = <<>> /\ saved = <<>> /\ file = <<>> /\ clock = 0 /\ nextId = 1
      /\ pc = [h \in Handler |-> "idle"] /\ req = [h \in Handler |-> Idle]
      /\ behind = FALSE /\ requests = 0 /\ restarts = 0
  BY DEF RoutesInit
<1>2. <<>> \in Seq(Route)
  BY EmptySeq
<1>3. TableTypeOK
  <2>1. MaxTime \in Nat /\ MaxRequest \in Nat /\ MaxRestart \in Nat
    BY DEF RoutesAssumption
  <2>2. clock \in RouteTime /\ requests \in 0 .. MaxRequest /\ restarts \in 0 .. MaxRestart
    BY <1>1, <2>1 DEF RouteTime
  <2>3. behind \in BOOLEAN
    BY <1>1
  <2>4. /\ pc \in [Handler -> {"idle", "refused", "change", "save", "update"}]
        /\ \A h \in Handler : pc[h] = "idle" <=> req[h] = Idle
    BY <1>1
  <2>5. QED BY <1>1, <1>2, <2>2, <2>3, <2>4 DEF TableTypeOK
<1>4. RouteTypes
  BY <1>1, <1>3 DEF RouteTypes, JobsOK
<1>5. FreshOK /\ BucketOK
  BY <1>1 DEF FreshOK, BucketOK
<1>6. Checked(routes) = {} /\ Checked(saved) = {}
  BY <1>1 DEF Checked
<1>7. ToAdd = {}
  BY <1>1 DEF ToAdd, Posting
<1>8. Cardinality(Checked(routes)) = 0 /\ Cardinality(Checked(saved)) = 0 /\ Cardinality(ToAdd) = 0
  BY <1>6, <1>7, FS_EmptySet
<1>9. Ceiling \in Nat
  BY CeilingFacts
<1>10. QuotaOK
  BY <1>1, <1>8, <1>9 DEF QuotaOK, Posting
<1>11. QED BY <1>4, <1>5, <1>10 DEF RoutesInv

\* A request starts: whatever it does to the table hides only routes that have expired.
LEMMA BeginTypes ==
  ASSUME RoutesAssumption, RoutesInv, NEW h \in Handler, NEW r \in Job,
         NEW at \in {"refused", "change", "update"}, at = "update" => r \in PatchJob,
         Begin(h, r, at), UNCHANGED <<saved, file, clock, behind, nextId, restarts>>,
         routes' \in Seq(Route), Alive(routes', clock) = Alive(routes, clock)
  PROVE  /\ RouteTypes' /\ FreshOK' /\ BucketOK'
         /\ pc'[h] = at /\ req'[h] = r
         /\ \A k \in Handler \ {h} : pc'[k] = pc[k] /\ req'[k] = req[k]
<1>1. /\ pc[h] = "idle" /\ requests < MaxRequest /\ requests' = requests + 1
      /\ pc' = [pc EXCEPT ![h] = at] /\ req' = [req EXCEPT ![h] = r]
  BY DEF Begin
<1>2. TableTypeOK /\ JobsOK /\ nextId \in Nat
  BY DEF RoutesInv, RouteTypes
<1>3. pc'[h] = at /\ req'[h] = r /\ \A k \in Handler \ {h} : pc'[k] = pc[k] /\ req'[k] = req[k]
  BY <1>1, <1>2 DEF TableTypeOK, JobsOK
<1>4. pc' \in [Handler -> {"idle", "refused", "change", "save", "update"}]
  BY <1>1, <1>2 DEF TableTypeOK
<1>5. req' \in [Handler -> Job \cup {Idle}]
  BY <1>1, <1>2 DEF JobsOK
<1>6. r # Idle
  BY JobFacts
<1>7. \A k \in Handler : pc'[k] = "idle" <=> req'[k] = Idle
  BY <1>2, <1>3, <1>6 DEF TableTypeOK
<1>8. requests' \in 0 .. MaxRequest
  BY <1>1, <1>2 DEF TableTypeOK, RoutesAssumption
<1>9. TableTypeOK'
  BY <1>2, <1>4, <1>7, <1>8 DEF TableTypeOK, RouteTime
<1>10. JobsOK'
  BY <1>2, <1>3, <1>5 DEF JobsOK
<1>11. RouteTypes'
  BY <1>2, <1>9, <1>10 DEF RouteTypes
<1>12. FreshOK'
  BY <1>3 DEF RoutesInv, FreshOK
<1>13. BucketOK'
  <2>1. ASSUME NEW k \in Handler, Dirty(k) PROVE Dirty(k)'
    <3>1. k # h
      BY <1>1, <2>1 DEF Dirty
    <3>2. QED BY <1>3, <2>1, <3>1 DEF Dirty
  <2>2. QED BY <2>1 DEF RoutesInv, BucketOK
<1>14. QED BY <1>3, <1>11, <1>12, <1>13

\* A request that starts and posts nothing.
LEMMA BeginKeeps ==
  ASSUME RoutesAssumption, RoutesInv, NEW h \in Handler, NEW r \in Job,
         NEW at \in {"refused", "change", "update"}, at = "update" => r \in PatchJob,
         at = "change" => r.op # "post",
         Begin(h, r, at), UNCHANGED <<saved, file, clock, behind, nextId, restarts>>,
         routes' \in Seq(Route), Alive(routes', clock) = Alive(routes, clock),
         Cardinality(Checked(routes')) \in Nat,
         Cardinality(Checked(routes')) <= Cardinality(Checked(routes))
  PROVE  RoutesInv'
<1>1. /\ RouteTypes' /\ FreshOK' /\ BucketOK'
      /\ pc'[h] = at /\ req'[h] = r
      /\ \A k \in Handler \ {h} : pc'[k] = pc[k] /\ req'[k] = req[k]
  BY BeginTypes
<1>2. \A k \in Handler : Posting(k)' => Posting(k) /\ req'[k].todo = req[k].todo
  BY <1>1 DEF Posting
<1>3. Cardinality(ToAdd') \in Nat /\ Cardinality(ToAdd') <= Cardinality(ToAdd)
  BY <1>2, FewerToAdd
<1>4. Cardinality(Checked(routes')) + Cardinality(ToAdd') <= Ceiling
  BY <1>3, Unpack DEF RoutesInv, QuotaOK
<1>5. \A k \in Handler : /\ pc'[k] = "save" => Cardinality(Checked(req'[k].copy)) <= Ceiling
                         /\ Posting(k)' => Len(req'[k].todo) <= Longest
  BY <1>1, <1>2 DEF RoutesInv, QuotaOK
<1>6. QuotaOK'
  BY <1>4, <1>5 DEF RoutesInv, QuotaOK, Ceiling, Longest, Checked
<1>7. QED BY <1>1, <1>6 DEF RoutesInv

\* A request ends; the table stays as it is.
LEMMA DoneKeeps ==
  ASSUME RoutesAssumption, RoutesInv, NEW h \in Handler,
         Done(h), UNCHANGED <<routes, file, clock, nextId, requests, restarts>>,
         saved' \in Seq(Route), Cardinality(Checked(saved')) <= Ceiling,
         behind' \in BOOLEAN, BucketOK'
  PROVE  RoutesInv'
<1>1. pc' = [pc EXCEPT ![h] = "idle"] /\ req' = [req EXCEPT ![h] = Idle]
  BY DEF Done, Goto
<1>2. TableTypeOK /\ JobsOK /\ nextId \in Nat
  BY DEF RoutesInv, RouteTypes
<1>3. /\ pc'[h] = "idle" /\ req'[h] = Idle
      /\ \A k \in Handler \ {h} : pc'[k] = pc[k] /\ req'[k] = req[k]
  BY <1>1, <1>2 DEF TableTypeOK, JobsOK
<1>4. /\ pc' \in [Handler -> {"idle", "refused", "change", "save", "update"}]
      /\ req' \in [Handler -> Job \cup {Idle}]
  BY <1>1, <1>2 DEF TableTypeOK, JobsOK
<1>5. \A k \in Handler : pc'[k] = "idle" <=> req'[k] = Idle
  BY <1>2, <1>3 DEF TableTypeOK
<1>6. TableTypeOK'
  BY <1>2, <1>4, <1>5 DEF TableTypeOK, RouteTime
<1>7. RouteTypes'
  BY <1>2, <1>3, <1>4, <1>6 DEF RouteTypes, JobsOK
<1>8. FreshOK'
  BY <1>3 DEF RoutesInv, FreshOK
<1>9. \A k \in Handler : Posting(k)' => Posting(k) /\ req'[k].todo = req[k].todo
  BY <1>3 DEF Posting
<1>10. Cardinality(ToAdd') \in Nat /\ Cardinality(ToAdd') <= Cardinality(ToAdd)
  BY <1>9, FewerToAdd
<1>11. Cardinality(Checked(routes')) + Cardinality(ToAdd') <= Ceiling
  BY <1>10, Unpack DEF RoutesInv, QuotaOK
<1>12. \A k \in Handler : /\ pc'[k] = "save" => Cardinality(Checked(req'[k].copy)) <= Ceiling
                          /\ Posting(k)' => Len(req'[k].todo) <= Longest
  BY <1>3, <1>9 DEF RoutesInv, QuotaOK
<1>13. QuotaOK'
  BY <1>11, <1>12 DEF QuotaOK, Ceiling, Longest, Checked
<1>14. QED BY <1>7, <1>8, <1>13 DEF RoutesInv

\* Only the table and the exported file change, and only by what has expired.
LEMMA PruneKeeps ==
  ASSUME RoutesAssumption, RoutesInv, routes' = Unexpired(routes), file' \in Seq(Route),
         UNCHANGED <<saved, pc, req, clock, behind, nextId, requests, restarts>>
  PROVE  RoutesInv'
<1>1. /\ routes' \in Seq(Route) /\ Alive(routes', clock) = Alive(routes, clock)
      /\ Cardinality(Checked(routes')) \in Nat
      /\ Cardinality(Checked(routes')) <= Cardinality(Checked(routes))
  BY PruneFacts
<1>2. TableTypeOK /\ JobsOK /\ nextId \in Nat
  BY DEF RoutesInv, RouteTypes
<1>3. TableTypeOK'
  BY <1>1, <1>2 DEF TableTypeOK, RouteTime
<1>4. RouteTypes'
  BY <1>2, <1>3 DEF RouteTypes, JobsOK
<1>5. FreshOK'
  BY <1>1 DEF RoutesInv, FreshOK
<1>6. BucketOK'
  BY <1>1 DEF RoutesInv, BucketOK, Dirty
<1>7. \A k \in Handler : Posting(k)' => Posting(k) /\ req'[k].todo = req[k].todo
  BY DEF Posting
<1>8. Cardinality(ToAdd') \in Nat /\ Cardinality(ToAdd') <= Cardinality(ToAdd)
  BY <1>7, FewerToAdd
<1>9. Cardinality(Checked(routes')) + Cardinality(ToAdd') <= Ceiling
  BY <1>1, <1>8, Unpack DEF RoutesInv, QuotaOK
<1>10. QuotaOK'
  BY <1>9, <1>7 DEF RoutesInv, QuotaOK, Ceiling, Longest, Checked
<1>11. QED BY <1>4, <1>5, <1>6, <1>10 DEF RoutesInv

LEMMA TickKeeps ==
  ASSUME RoutesAssumption, RoutesInv, RoutesTick
  PROVE  RoutesInv'
<1>1. clock < MaxTime /\ clock' = clock + 1
      /\ UNCHANGED <<routes, saved, pc, req, file, behind, nextId, requests, restarts>>
  BY DEF RoutesTick
<1>2. TableTypeOK /\ JobsOK /\ nextId \in Nat
  BY DEF RoutesInv, RouteTypes
<1>3. routes \in Seq(Route) /\ saved \in Seq(Route) /\ clock \in Nat /\ MaxTime \in Nat
  BY Unpack
<1>4. clock' \in Nat /\ clock <= clock' /\ clock' \in 0 .. MaxTime
  BY <1>1, <1>3
<1>5. TableTypeOK'
  BY <1>1, <1>2, <1>4 DEF TableTypeOK, RouteTime
<1>6. RouteTypes'
  BY <1>1, <1>2, <1>5 DEF RouteTypes, JobsOK
<1>7. FreshOK'
  <2>1. ASSUME NEW k \in Handler, pc[k] = "save", req[k].fresh
        PROVE  Alive(req[k].copy, clock') = Alive(routes, clock')
    <3>1. Alive(req[k].copy, clock) = Alive(routes, clock)
      BY <2>1 DEF RoutesInv, FreshOK
    <3>2. req[k].copy \in Seq(Route)
      BY <2>1, Unpack, JobFacts
    <3>3. QED BY <1>3, <1>4, <3>1, <3>2, AliveStays
  <2>2. QED BY <1>1, <2>1 DEF FreshOK
<1>8. BucketOK'
  <2>1. Alive(saved, clock) = Alive(routes, clock) => Alive(saved, clock') = Alive(routes, clock')
    BY <1>3, <1>4, AliveStays
  <2>2. QED BY <1>1, <2>1 DEF RoutesInv, BucketOK, Dirty
<1>9. ToAdd' = ToAdd
  BY <1>1 DEF ToAdd, Posting
<1>10. QuotaOK'
  BY <1>1, <1>9 DEF RoutesInv, QuotaOK, Ceiling, Longest, Checked, Posting
<1>11. QED BY <1>6, <1>7, <1>8, <1>10 DEF RoutesInv

LEMMA RestartKeeps ==
  ASSUME RoutesAssumption, RoutesInv, Restart
  PROVE  RoutesInv'
<1>1. /\ restarts < MaxRestart /\ restarts' = restarts + 1
      /\ routes' = Unexpired(saved) /\ saved' = Unexpired(saved)
      /\ pc' = [h \in Handler |-> "idle"] /\ req' = [h \in Handler |-> Idle]
      /\ behind' = FALSE /\ UNCHANGED <<file, clock, nextId, requests>>
  BY DEF Restart
<1>2. TableTypeOK /\ JobsOK /\ nextId \in Nat
  BY DEF RoutesInv, RouteTypes
<1>3. saved \in Seq(Route) /\ clock \in Nat
  BY Unpack
<1>4. routes' = Alive(saved, clock) /\ saved' = routes'
  BY <1>1, UnexpiredIsAlive
<1>5. routes' \in Seq(Route) /\ Cardinality(Checked(routes')) <= Cardinality(Checked(saved))
  BY <1>3, <1>4, AliveFacts, CheckedAlive
<1>6. restarts' \in 0 .. MaxRestart
  BY <1>1, <1>2 DEF TableTypeOK, RoutesAssumption
<1>7. TableTypeOK'
  BY <1>1, <1>2, <1>4, <1>5, <1>6 DEF TableTypeOK, RouteTime
<1>8. RouteTypes'
  BY <1>1, <1>2, <1>7 DEF RouteTypes, JobsOK
<1>9. FreshOK'
  BY <1>1 DEF FreshOK
<1>10. BucketOK'
  BY <1>4 DEF BucketOK
<1>11. ToAdd' = {}
  BY <1>1 DEF ToAdd, Posting
<1>12. Cardinality(ToAdd') = 0
  BY <1>11, FS_EmptySet
<1>13. Cardinality(Checked(routes')) \in Nat /\ Cardinality(Checked(routes')) <= Ceiling
  <2>1. Cardinality(Checked(routes')) \in Nat
    BY <1>5, CheckedFacts
  <2>2. QED BY <1>5, <2>1, Unpack DEF RoutesInv, QuotaOK
<1>14. QuotaOK'
  BY <1>1, <1>4, <1>12, <1>13 DEF QuotaOK, Ceiling, Longest, Checked, Posting
<1>15. QED BY <1>8, <1>9, <1>10, <1>14 DEF RoutesInv

LEMMA PostKeeps ==
  ASSUME RoutesAssumption, RoutesInv, NEW h \in Handler, NEW entries \in Offers,
         PostRoutes(h, entries)
  PROVE  RoutesInv'
<1>1. PICK n \in Nat : n = Len(entries) /\ n <= Longest /\ entries \in Seq(Offer)
  BY CeilingFacts DEF RoutesAssumption
<1>2. PICK r : r = [op |-> "post", todo |-> entries, copy |-> <<>>, fresh |-> FALSE, some |-> FALSE]
  OBVIOUS
<1>3. r \in Job /\ r.op = "post" /\ r.todo = entries
  <2>1. PICK O : O = Seq(Offer)
    OBVIOUS
  <2>2. PICK R : R = Seq(Route) /\ <<>> \in R
    BY EmptySeq
  <2>3. QED BY <1>1, <1>2, <2>1, <2>2 DEF Job, JobOf
<1>4. /\ routes' = Unexpired(routes)
      /\ UNCHANGED <<saved, file, clock, behind, nextId, restarts>>
  BY DEF PostRoutes
<1>5. /\ routes' \in Seq(Route) /\ Alive(routes', clock) = Alive(routes, clock)
      /\ Cardinality(Checked(routes')) \in Nat
      /\ Cardinality(Checked(routes')) <= Cardinality(Checked(routes))
      /\ Cardinality(Checked(routes')) <= Len(routes')
  BY <1>4, PruneFacts
<1>6. CASE OverQuota(Len(entries))
  <2>1. Begin(h, r, "refused")
    BY <1>2, <1>6 DEF PostRoutes
  <2>2. QED BY <1>3, <1>4, <1>5, <2>1, BeginKeeps
<1>7. CASE ~OverQuota(Len(entries))
  <2>1. Begin(h, r, "change")
    BY <1>2, <1>7 DEF PostRoutes
  <2>2. /\ RouteTypes' /\ FreshOK' /\ BucketOK'
        /\ pc'[h] = "change" /\ req'[h] = r
        /\ \A k \in Handler \ {h} : pc'[k] = pc[k] /\ req'[k] = req[k]
    BY <1>3, <1>4, <1>5, <2>1, BeginTypes
  <2>3. Len(req'[h].todo) = n
    BY <1>1, <1>3, <2>2
  <2>4. \A k \in Handler \ {h} : Posting(k)' => Posting(k) /\ req'[k].todo = req[k].todo
    BY <2>2 DEF Posting
  <2>5. Cardinality(ToAdd') <= (Cardinality(Handler) - 1) * Longest + n
    BY <2>3, <2>4, MoreToAdd
  <2>6. Len(routes') + n <= MaxRoutes
    <3>1. Len(routes') \in Nat /\ MaxRoutes \in Nat
      BY <1>5 DEF RoutesAssumption
    <3>2. ~(Len(routes') + n > MaxRoutes)
      BY <1>1, <1>4, <1>7 DEF OverQuota
    <3>3. QED BY <3>1, <3>2
  <2>7. Cardinality(ToAdd') \in Nat
    <3>1. ToAdd' \subseteq Handler \X (1 .. Longest)
      <4>1. ASSUME NEW x \in ToAdd' PROVE x \in Handler \X (1 .. Longest)
        <5>1. /\ x \in Handler \X Nat /\ Posting(x[1])' /\ x[2] \in 1 .. Len(req'[x[1]].todo)
          BY DEF ToAdd
        <5>2. PICK k \in Handler, m \in Nat : x = <<k, m>>
          BY <5>1
        <5>3. Posting(k)' /\ m \in 1 .. Len(req'[k].todo)
          BY <5>1, <5>2
        <5>4. Longest \in Nat
          BY CeilingFacts
        <5>5. CASE k = h
          BY <1>1, <2>3, <5>2, <5>3, <5>4, <5>5
        <5>6. CASE k # h
          <6>1. <<k, m>> \in ToAdd
            BY <2>4, <5>3, <5>6 DEF ToAdd
          <6>2. QED BY <5>2, <6>1, ToAddFacts
        <5>7. QED BY <5>5, <5>6
      <4>2. QED BY <4>1
    <3>2. IsFiniteSet(1 .. Longest)
      <4>1. PICK l \in Nat : l = Longest
        BY CeilingFacts
      <4>2. QED BY <4>1, FirstNumbers
    <3>3. IsFiniteSet(Handler \X (1 .. Longest))
      BY <3>2, FS_Product DEF RoutesAssumption
    <3>4. QED BY <3>1, <3>3, FS_Subset, FS_CardinalityType
  <2>8. Cardinality(Checked(routes')) + Cardinality(ToAdd') <= Ceiling
    <3>1. PICK q \in Int : q = (Cardinality(Handler) - 1) * Longest
      BY CeilingFacts
    <3>2. PICK l \in Nat : l = Len(routes')
      BY <1>5
    <3>3. Ceiling = MaxRoutes + q /\ MaxRoutes \in Nat
      BY <3>1 DEF Ceiling, RoutesAssumption
    <3>4. Cardinality(ToAdd') <= q + n
      BY <2>5, <3>1
    <3>5. Cardinality(Checked(routes')) <= l /\ l + n <= MaxRoutes
      BY <1>5, <2>6, <3>2
    <3>6. QED BY <1>5, <2>7, <3>3, <3>4, <3>5
  <2>9. \A k \in Handler : /\ pc'[k] = "save" => Cardinality(Checked(req'[k].copy)) <= Ceiling
                           /\ Posting(k)' => Len(req'[k].todo) <= Longest
    BY <1>1, <2>2, <2>3, <2>4 DEF RoutesInv, QuotaOK
  <2>10. QuotaOK'
    BY <1>4, <2>8, <2>9 DEF RoutesInv, QuotaOK, Ceiling, Longest, Checked
  <2>11. QED BY <2>2, <2>10 DEF RoutesInv
<1>8. QED BY <1>6, <1>7

LEMMA DeleteKeeps ==
  ASSUME RoutesAssumption, RoutesInv, NEW h \in Handler, NEW dsts \in Deletions,
         DeleteRoutes(h, dsts)
  PROVE  RoutesInv'
<1>1. PICK r : r = [op |-> "delete", todo |-> dsts, copy |-> <<>>, fresh |-> FALSE, some |-> FALSE]
  OBVIOUS
<1>2. r \in Job /\ r.op = "delete"
  <2>1. PICK D : D = Seq(Endpoint) /\ dsts \in D
    BY DEF RoutesAssumption
  <2>2. PICK R : R = Seq(Route) /\ <<>> \in R
    BY EmptySeq
  <2>3. QED BY <1>1, <2>1, <2>2 DEF Job, JobOf
<1>3. Begin(h, r, "change") /\ UNCHANGED <<routes, saved, file, clock, behind, nextId, restarts>>
  BY <1>1 DEF DeleteRoutes
<1>4. /\ routes' \in Seq(Route) /\ Alive(routes', clock) = Alive(routes, clock)
      /\ Cardinality(Checked(routes')) \in Nat
      /\ Cardinality(Checked(routes')) <= Cardinality(Checked(routes))
  BY <1>3, Unpack
<1>5. "change" # "update" /\ "change" \in {"refused", "change", "update"} /\ r.op # "post"
  BY <1>2
<1>6. QED BY <1>2, <1>3, <1>4, <1>5, BeginKeeps

LEMMA ImportKeeps ==
  ASSUME RoutesAssumption, RoutesInv, NEW h \in Handler, ImportRoutes(h)
  PROVE  RoutesInv'
<1>1. PICK r : r = [op |-> "import", todo |-> file, copy |-> <<>>, fresh |-> FALSE, some |-> FALSE]
  OBVIOUS
<1>2. r \in Job /\ r.op = "import"
  <2>1. PICK R : R = Seq(Route) /\ <<>> \in R /\ file \in R
    BY EmptySeq, Unpack
  <2>2. QED BY <1>1, <2>1 DEF Job, JobOf
<1>3. Begin(h, r, "change") /\ UNCHANGED <<routes, saved, file, clock, behind, nextId, restarts>>
  BY <1>1 DEF ImportRoutes
<1>4. QED BY <1>2, <1>3, BeginKeeps, Unpack

LEMMA PatchReadKeeps ==
  ASSUME RoutesAssumption, RoutesInv, NEW h \in Handler, NEW p \in Patches, PatchRead(h, p)
  PROVE  RoutesInv'
<1>1. /\ p.dst \in Endpoint /\ p.lat \in Nat \cup {Unset} /\ p.thr \in Nat \cup {Unset}
      /\ p.ttl \in Nat \cup {Unset}
  BY DEF RoutesAssumption
<1>2. PICK i : i = GetRoute(routes, p.dst)
  OBVIOUS
<1>3. PICK m : m = [lat |-> IF p.lat # Unset THEN p.lat ELSE routes[i].lat,
                  thr |-> IF p.thr # Unset THEN p.thr ELSE routes[i].thr]
  OBVIOUS
<1>4. PICK metric : metric = IF p.lat # Unset \/ p.thr # Unset THEN m ELSE Unset
  OBVIOUS
<1>5. PICK r : r = [op |-> "patch", dst |-> p.dst, metric |-> metric, ttl |-> p.ttl,
               todo |-> <<>>, copy |-> <<>>, fresh |-> FALSE, some |-> TRUE]
  OBVIOUS
<1>6. /\ (p.lat # Unset \/ p.thr # Unset) => i # 0
      /\ Begin(h, r, "update")
      /\ UNCHANGED <<routes, saved, file, clock, behind, nextId, restarts>>
  BY <1>2, <1>3, <1>4, <1>5 DEF PatchRead
<1>7. metric \in Metric \cup {Unset}
  <2>1. CASE p.lat # Unset \/ p.thr # Unset
    <3>1. i # 0
      BY <1>6, <2>1
    <3>2. i = First(routes, p.dst)
      BY <1>2, <3>1 DEF GetRoute
    <3>3. i \in DOMAIN routes /\ routes[i] \in Route
      BY <3>1, <3>2, FirstFacts, Unpack
    <3>4. PICK x \in Route : x = routes[i]
      BY <3>3
    <3>5. x.lat \in Nat /\ x.thr \in Nat
      BY DEF Route
    <3>6. m \in Metric
      BY <1>1, <1>3, <3>4, <3>5 DEF Metric
    <3>7. QED BY <1>4, <2>1, <3>6
  <2>2. CASE ~(p.lat # Unset \/ p.thr # Unset)
    BY <1>4, <2>2
  <2>3. QED BY <2>1, <2>2
<1>8. r \in PatchJob /\ r \in Job
  <2>1. PICK R : R = Seq(Route) /\ <<>> \in R
    BY EmptySeq
  <2>2. r \in PatchJob
    BY <1>1, <1>5, <1>7, <2>1 DEF PatchJob
  <2>3. QED BY <2>2 DEF Job
<1>9. QED BY <1>6, <1>8, BeginKeeps, Unpack

LEMMA RefuseKeeps ==
  ASSUME RoutesAssumption, RoutesInv, NEW h \in Handler, Refuse(h)
  PROVE  RoutesInv'
<1>1. /\ pc[h] = "refused" /\ Done(h)
      /\ UNCHANGED <<routes, saved, file, clock, behind, nextId, requests, restarts>>
  BY DEF Refuse
<1>2. pc' = [pc EXCEPT ![h] = "idle"] /\ req' = [req EXCEPT ![h] = Idle]
  BY <1>1 DEF Done, Goto
<1>3. BucketOK'
  <2>1. ASSUME NEW k \in Handler, Dirty(k) PROVE Dirty(k)'
    <3>1. k # h
      BY <1>1, <2>1 DEF Dirty
    <3>2. pc'[k] = pc[k] /\ req'[k] = req[k]
      BY <1>2, <3>1 DEF RoutesInv, RouteTypes, TableTypeOK, JobsOK
    <3>3. QED BY <2>1, <3>2 DEF Dirty
  <2>2. QED BY <1>1, <2>1 DEF RoutesInv, BucketOK
<1>4. behind \in BOOLEAN /\ Cardinality(Checked(saved)) <= Ceiling
  BY DEF RoutesInv, RouteTypes, TableTypeOK, QuotaOK
<1>5. QED BY <1>1, <1>3, <1>4, DoneKeeps, Unpack

LEMMA SaveKeeps ==
  ASSUME RoutesAssumption, RoutesInv, NEW h \in Handler, Save(h)
  PROVE  RoutesInv'
<1>1. /\ pc[h] = "save" /\ saved' = req[h].copy /\ behind' = ~req[h].fresh /\ Done(h)
      /\ UNCHANGED <<routes, file, clock, nextId, requests, restarts>>
  BY DEF Save
<1>2. req[h].copy \in Seq(Route) /\ req[h].fresh \in BOOLEAN
  BY <1>1, Unpack, JobFacts
<1>3. Cardinality(Checked(saved')) <= Ceiling
  BY <1>1 DEF RoutesInv, QuotaOK
<1>4. BucketOK'
  <2>1. req[h].fresh => Alive(saved', clock) = Alive(routes, clock)
    BY <1>1 DEF RoutesInv, FreshOK
  <2>2. QED BY <1>1, <1>2, <2>1 DEF BucketOK
<1>5. QED BY <1>1, <1>2, <1>3, <1>4, DoneKeeps

LEMMA SaveFailsKeeps ==
  ASSUME RoutesAssumption, RoutesInv, NEW h \in Handler, SaveFails(h)
  PROVE  RoutesInv'
<1>1. /\ behind' = TRUE /\ Done(h)
      /\ UNCHANGED <<routes, saved, file, clock, nextId, requests, restarts>>
  BY DEF SaveFails
<1>2. BucketOK'
  BY <1>1 DEF BucketOK
<1>3. saved' \in Seq(Route) /\ Cardinality(Checked(saved')) <= Ceiling
  BY <1>1, Unpack DEF RoutesInv, QuotaOK
<1>4. QED BY <1>1, <1>2, <1>3, DoneKeeps

\* One request copies the table and goes on to write it.
LEMMA CopyKeeps ==
  ASSUME RoutesAssumption, RoutesInv, NEW h \in Handler, Copy(h)
  PROVE  RoutesInv'
<1>1. TableTypeOK /\ JobsOK /\ nextId \in Nat
  BY DEF RoutesInv, RouteTypes
<1>2. /\ pc[h] = "change" /\ req[h].todo = <<>>
      /\ UNCHANGED <<saved, file, clock, behind, nextId, requests, restarts>>
  BY DEF Copy
<1>3. CASE ~MustSave(req[h])
  <2>1. Done(h) /\ routes' = routes
    BY <1>3 DEF Copy
  <2>2. pc' = [pc EXCEPT ![h] = "idle"] /\ req' = [req EXCEPT ![h] = Idle]
    BY <2>1 DEF Done, Goto
  <2>3. BucketOK'
    <3>1. ASSUME NEW k \in Handler, Dirty(k) PROVE Dirty(k)'
      <4>1. k # h
        BY <1>2, <1>3, <3>1 DEF Dirty
      <4>2. pc'[k] = pc[k] /\ req'[k] = req[k]
        BY <1>1, <2>2, <4>1 DEF TableTypeOK, JobsOK
      <4>3. QED BY <3>1, <4>2 DEF Dirty
    <3>2. QED BY <1>2, <2>1, <3>1 DEF RoutesInv, BucketOK
  <2>4. behind \in BOOLEAN /\ Cardinality(Checked(saved)) <= Ceiling
    BY DEF RoutesInv, RouteTypes, TableTypeOK, QuotaOK
  <2>5. QED BY <1>2, <2>1, <2>3, <2>4, DoneKeeps, Unpack
<1>4. CASE MustSave(req[h])
  <2>1. PICK c : c = Unexpired(routes)
    OBVIOUS
  <2>2. /\ routes' = c /\ req' = [req EXCEPT ![h] = Copied(req[h], c)]
        /\ pc' = [pc EXCEPT ![h] = "save"]
    BY <1>4, <2>1 DEF Copy, Goto, Copied
  <2>3. /\ c \in Seq(Route) /\ Alive(c, clock) = Alive(routes, clock)
        /\ Cardinality(Checked(c)) \in Nat
        /\ Cardinality(Checked(c)) <= Cardinality(Checked(routes))
    BY <2>1, PruneFacts
  <2>4. PICK y \in Job : y = Copied(req[h], c) /\ y.copy = c
    BY <1>2, <2>3, CopiedFacts, Unpack
  <2>5. /\ pc'[h] = "save" /\ req'[h] = y
        /\ \A k \in Handler \ {h} : pc'[k] = pc[k] /\ req'[k] = req[k]
    BY <1>1, <2>2, <2>4 DEF TableTypeOK, JobsOK
  <2>6. /\ pc' \in [Handler -> {"idle", "refused", "change", "save", "update"}]
        /\ req' \in [Handler -> Job \cup {Idle}]
    BY <1>1, <2>2, <2>4 DEF TableTypeOK, JobsOK
  <2>7. \A k \in Handler : pc'[k] = "idle" <=> req'[k] = Idle
    BY <1>1, <2>4, <2>5, JobFacts DEF TableTypeOK
  <2>8. TableTypeOK'
    BY <1>1, <1>2, <2>2, <2>3, <2>6, <2>7 DEF TableTypeOK, RouteTime
  <2>9. RouteTypes'
    BY <1>1, <1>2, <2>4, <2>5, <2>6, <2>8 DEF RouteTypes, JobsOK
  <2>10. FreshOK'
    BY <1>2, <2>2, <2>3, <2>4, <2>5 DEF RoutesInv, FreshOK
  <2>11. BucketOK'
    BY <2>5 DEF BucketOK, Dirty
  <2>12. \A k \in Handler : Posting(k)' => Posting(k) /\ req'[k].todo = req[k].todo
    BY <2>5 DEF Posting
  <2>13. Cardinality(ToAdd') \in Nat /\ Cardinality(ToAdd') <= Cardinality(ToAdd)
    BY <2>12, FewerToAdd
  <2>14. /\ Cardinality(Checked(routes')) + Cardinality(ToAdd') <= Ceiling
         /\ Cardinality(Checked(c)) <= Ceiling
    BY <2>2, <2>3, <2>13, Unpack DEF RoutesInv, QuotaOK
  <2>15. \A k \in Handler : /\ pc'[k] = "save" => Cardinality(Checked(req'[k].copy)) <= Ceiling
                            /\ Posting(k)' => Len(req'[k].todo) <= Longest
    BY <2>4, <2>5, <2>12, <2>14 DEF RoutesInv, QuotaOK
  <2>16. QuotaOK'
    BY <1>2, <2>14, <2>15 DEF RoutesInv, QuotaOK, Ceiling, Longest, Checked
  <2>17. QED BY <2>9, <2>10, <2>11, <2>16 DEF RoutesInv
<1>5. QED BY <1>3, <1>4

\* What the next entry of a request makes of the table.
Changed(r) ==
  LET x == Head(r.todo) IN
  CASE r.op = "post" -> AddRoute(routes, x.r, x.ttl, TRUE)
    [] r.op = "import" -> AddRoute(routes, x, TTLLeft(x), FALSE)
    [] r.op = "delete" -> DeleteRoute(routes, x)

LEMMA AppendedFacts ==
  ASSUME NEW rs \in Seq(Route), NEW x \in Route
  PROVE  /\ Append(rs, x) \in Seq(Route)
         /\ \A i \in DOMAIN rs : i \in DOMAIN Append(rs, x) /\ Append(rs, x)[i] = rs[i]
<1> HIDE DEF Route
<1>1. QED BY AppendProperties

LEMMA ChangedFacts ==
  ASSUME RoutesAssumption, RoutesInv, NEW h \in Handler, pc[h] = "change", req[h].todo # <<>>,
         NEW new, new = Changed(req[h])
  PROVE  /\ req[h].op \in {"post", "import", "delete"} /\ new \in Seq(Route)
         /\ Cardinality(Checked(new)) \in Nat
         /\ req[h].op = "post" => Cardinality(Checked(new)) <= Cardinality(Checked(routes)) + 1
         /\ req[h].op # "post" => Cardinality(Checked(new)) <= Cardinality(Checked(routes))
         /\ \A i \in DOMAIN routes :
              \/ \E j \in DOMAIN new : new[j] = routes[i]
              \/ req[h].op = "delete" /\ Head(req[h].todo) = routes[i].dst
         /\ req[h].op = "delete" => new = DeleteRoute(routes, Head(req[h].todo))
         /\ req[h].op # "delete" => \E y \in Route : y.id = nextId /\ new = Append(routes, y)
<1>1. PICK r \in Job : r = req[h]
  BY Unpack
<1>2. PICK x : x = Head(r.todo)
  OBVIOUS
<1>3. /\ r.op \in {"post", "import", "delete"}
      /\ r.op = "post" => x \in Offer
      /\ r.op = "import" => x \in Route
  <2>1. /\ r.op \in {"post", "delete", "import", "patch"} /\ r.op # "patch"
        /\ r.op = "post" => r.todo \in Seq(Offer)
        /\ r.op = "import" => r.todo \in Seq(Route)
    BY <1>1, JobFacts
  <2>2. ASSUME NEW S, r.todo \in Seq(S) PROVE x \in S
    BY <1>1, <1>2, <2>2, HeadTailProperties
  <2>3. QED BY <2>1, <2>2
<1>4. routes \in Seq(Route) /\ clock \in Nat /\ nextId \in Nat
  BY Unpack
<1>5. ASSUME NEW y \in Route, new = Append(routes, y)
      PROVE  /\ new \in Seq(Route) /\ Cardinality(Checked(new)) \in Nat
             /\ Cardinality(Checked(new)) <= Cardinality(Checked(routes)) + 1
             /\ ~y.checked => Cardinality(Checked(new)) = Cardinality(Checked(routes))
             /\ \A i \in DOMAIN routes : \E j \in DOMAIN new : new[j] = routes[i]
  <2>1. new \in Seq(Route) /\ \A i \in DOMAIN routes : i \in DOMAIN new /\ new[i] = routes[i]
    BY <1>4, <1>5, AppendedFacts
  <2>2. Cardinality(Checked(new)) \in Nat
    BY <2>1, CheckedFacts
  <2>3. /\ Cardinality(Checked(new)) <= Cardinality(Checked(routes)) + 1
        /\ ~y.checked => Cardinality(Checked(new)) = Cardinality(Checked(routes))
    BY <1>4, <1>5, CheckedAppend
  <2>4. QED BY <2>1, <2>2, <2>3
<1>6. CASE r.op = "post"
  <2>1. new = AddRoute(routes, x.r, x.ttl, TRUE)
    BY <1>1, <1>2, <1>6 DEF Changed
  <2>2. Offered(x.r) /\ x.ttl \in Nat
    BY <1>3, <1>6 DEF Offer, Offered
  <2>3. PICK y \in Route : y.id = nextId /\ new = Append(routes, y)
    <3>1. PICK o, n, c : o = x.r /\ n = x.ttl /\ c = TRUE
      OBVIOUS
    <3>2. Offered(o) /\ n \in Nat /\ c \in BOOLEAN
      BY <2>2, <3>1
    <3>3. \E y \in Route : y.checked = c /\ y.id = nextId /\ AddRoute(routes, o, n, c) = Append(routes, y)
      BY <1>4, <3>2, AddFacts
    <3>4. QED BY <2>1, <3>1, <3>3
  <2>4. QED BY <1>1, <1>5, <1>6, <2>3
<1>7. CASE r.op = "import"
  <2>1. new = AddRoute(routes, x, TTLLeft(x), FALSE)
    BY <1>1, <1>2, <1>7 DEF Changed
  <2>2. Offered(x) /\ x.expires \in Nat \cup {NoExpiry}
    BY <1>3, <1>7 DEF Route, Offered
  <2>3. TTLLeft(x) \in Nat
    <3>1. CASE x.expires = NoExpiry
      BY <3>1 DEF TTLLeft
    <3>2. CASE x.expires # NoExpiry
      <4>1. PICK e \in Nat : e = x.expires
        BY <2>2, <3>2
      <4>2. (IF e > clock THEN e - clock ELSE 0) \in Nat
        BY <1>4
      <4>3. QED BY <3>2, <4>1, <4>2 DEF TTLLeft
    <3>3. QED BY <3>1, <3>2
  <2>4. PICK y \in Route : y.checked = FALSE /\ y.id = nextId /\ new = Append(routes, y)
    <3>1. PICK n, c : n = TTLLeft(x) /\ c = FALSE
      OBVIOUS
    <3>2. n \in Nat /\ c \in BOOLEAN
      BY <2>3, <3>1
    <3>3. \E y \in Route : y.checked = c /\ y.id = nextId /\ AddRoute(routes, x, n, c) = Append(routes, y)
      BY <1>4, <2>2, <3>2, AddFacts
    <3>4. QED BY <2>1, <3>1, <3>3
  <2>5. Cardinality(Checked(routes)) \in Nat /\ Cardinality(Checked(new)) = Cardinality(Checked(routes))
    BY <1>5, <2>4, Unpack
  <2>6. QED BY <1>1, <1>5, <1>7, <2>4, <2>5
<1>8. CASE r.op = "delete"
  <2>1. new = DeleteRoute(routes, x)
    BY <1>1, <1>2, <1>8 DEF Changed
  <2>2. /\ new \in Seq(Route)
        /\ Cardinality(Checked(new)) <= Cardinality(Checked(routes))
        /\ \A i \in DOMAIN routes : routes[i].dst = x \/ \E j \in DOMAIN new : new[j] = routes[i]
    BY <1>4, <2>1, DeleteFacts
  <2>3. Cardinality(Checked(new)) \in Nat
    BY <2>2, CheckedFacts
  <2>4. QED BY <1>1, <1>2, <1>8, <2>1, <2>2, <2>3
<1>9. QED BY <1>3, <1>6, <1>7, <1>8

LEMMA ChangeStep ==
  ASSUME RoutesAssumption, RoutesInv, NEW h \in Handler, Change(h)
  PROVE  /\ pc[h] = "change" /\ req[h].todo # <<>> /\ req[h] \in Job
         /\ routes' = Changed(req[h])
         /\ req' = [Outdated(routes') EXCEPT ![h] =
                      Taken(Outdated(routes')[h], Outdated(routes')[h].some \/ routes' # routes)]
         /\ UNCHANGED <<pc, saved, file, clock, behind, requests, restarts>>
<1>1. /\ pc[h] = "change" /\ req[h].todo # <<>>
      /\ routes' = Changed(req[h])
      /\ UNCHANGED <<pc, saved, file, clock, behind, requests, restarts>>
  BY DEF Change, Changed
<1>2. req' = [Outdated(routes') EXCEPT ![h].todo = Tail(@), ![h].some = @ \/ routes' # routes]
  BY <1>1 DEF Change, Changed
<1>3. QED BY <1>1, <1>2, Unpack DEF Taken

LEMMA ChangeKeeps ==
  ASSUME RoutesAssumption, RoutesInv, NEW h \in Handler, Change(h)
  PROVE  RoutesInv'
<1>1. /\ pc[h] = "change" /\ req[h].todo # <<>> /\ req[h] \in Job
      /\ routes' = Changed(req[h])
      /\ UNCHANGED <<pc, saved, file, clock, behind, requests, restarts>>
  BY ChangeStep
<1>2. TableTypeOK /\ JobsOK /\ nextId \in Nat
  BY DEF RoutesInv, RouteTypes
<1>3. PICK o : o = Outdated(routes')
  OBVIOUS
<1>4. /\ o \in [Handler -> Job \cup {Idle}]
      /\ \A k \in Handler :
              /\ pc[k] = "idle" => o[k] = req[k]
              /\ pc[k] # "idle" =>
                   /\ o[k] \in Job /\ o[k].op = req[k].op /\ o[k].todo = req[k].todo
                   /\ o[k].copy = req[k].copy /\ o[k].some = req[k].some
              /\ pc[k] = "update" => o[k] \in PatchJob
              /\ pc[k] = "save" /\ o[k].fresh => req[k].fresh /\ routes' = routes
              /\ pc[k] # "save" => o[k] = req[k]
  BY <1>2, <1>3, OutdatedFacts
<1>5. o[h] = req[h]
  BY <1>1, <1>4
<1>6. PICK some \in BOOLEAN : some <=> (req[h].some \/ routes' # routes)
  OBVIOUS
<1>7. PICK y : y = Taken(req[h], some)
  OBVIOUS
<1>8. req[h].some \in BOOLEAN
  BY <1>1, JobFacts
<1>9. req' = [o EXCEPT ![h] = y]
  <2>1. req' = [o EXCEPT ![h] = Taken(o[h], o[h].some \/ routes' # routes)]
    BY <1>3, ChangeStep
  <2>2. (o[h].some \/ routes' # routes) = some
    BY <1>5, <1>6, <1>8
  <2>3. QED BY <1>5, <1>7, <2>1, <2>2
<1>10. /\ y \in Job /\ y.op = req[h].op /\ y.todo = Tail(req[h].todo) /\ y.copy = req[h].copy
       /\ y.some = some
  BY <1>1, <1>7, TakenFacts
<1>11. req'[h] = y /\ \A k \in Handler \ {h} : req'[k] = o[k]
  BY <1>4, <1>9
<1>12. req' \in [Handler -> Job \cup {Idle}]
  BY <1>4, <1>9, <1>10
<1>13. /\ req[h].op \in {"post", "import", "delete"} /\ routes' \in Seq(Route)
       /\ Cardinality(Checked(routes')) \in Nat
       /\ req[h].op = "post" => Cardinality(Checked(routes')) <= Cardinality(Checked(routes)) + 1
       /\ req[h].op # "post" => Cardinality(Checked(routes')) <= Cardinality(Checked(routes))
  BY <1>1, ChangedFacts
<1>14. \A k \in Handler : pc'[k] = "idle" <=> req'[k] = Idle
  <2>1. \A k \in Handler : pc[k] # "idle" => req'[k] \in Job
    BY <1>1, <1>4, <1>10, <1>11
  <2>2. \A k \in Handler : pc[k] = "idle" => req'[k] = Idle
    BY <1>1, <1>2, <1>4, <1>11 DEF TableTypeOK
  <2>3. QED BY <1>1, <2>1, <2>2, JobFacts
<1>15. TableTypeOK'
  BY <1>1, <1>2, <1>13, <1>14 DEF TableTypeOK, RouteTime
<1>16. nextId' \in Nat
  <2>1. nextId' = IF req[h].op = "delete" THEN nextId ELSE nextId + 1
    BY DEF Change
  <2>2. QED BY <1>2, <2>1
<1>17. RouteTypes'
  <2>1. \A k \in Handler : /\ pc'[k] # "idle" => req'[k] \in Job
                           /\ pc'[k] = "update" => req'[k] \in PatchJob
    BY <1>1, <1>4, <1>10, <1>11
  <2>2. QED BY <1>12, <1>15, <1>16, <2>1 DEF RouteTypes, JobsOK
<1>18. FreshOK'
  <2>1. ASSUME NEW k \in Handler, pc[k] = "save", req'[k].fresh
        PROVE  Alive(req'[k].copy, clock) = Alive(routes', clock)
    <3>1. k # h
      BY <1>1, <2>1
    <3>2. req'[k] = o[k] /\ o[k].copy = req[k].copy /\ req[k].fresh /\ routes' = routes
      BY <1>4, <1>11, <2>1, <3>1
    <3>3. QED BY <2>1, <3>2 DEF RoutesInv, FreshOK
  <2>2. QED BY <1>1, <2>1 DEF FreshOK
<1>19. BucketOK'
  <2>1. ASSUME NEW k \in Handler, Dirty(k) PROVE Dirty(k)'
    <3>1. CASE k = h
      <4>1. req[h].op = "post" \/ req[h].some
        BY <1>1, <2>1, <3>1 DEF Dirty, MustSave
      <4>2. y.op = "post" \/ y.some
        BY <1>6, <1>10, <4>1
      <4>3. QED BY <1>1, <1>11, <3>1, <4>2 DEF Dirty, MustSave
    <3>2. CASE k # h
      <4>1. req'[k] = o[k] /\ (pc[k] # "save" => o[k] = req[k])
        BY <1>4, <1>11, <3>2
      <4>2. QED BY <1>1, <2>1, <4>1 DEF Dirty
    <3>3. QED BY <3>1, <3>2
  <2>2. CASE routes' = routes
    BY <1>1, <2>1, <2>2 DEF RoutesInv, BucketOK
  <2>3. CASE routes' # routes
    <3>1. y.some
      BY <1>6, <1>10, <2>3
    <3>2. Dirty(h)'
      BY <1>1, <1>11, <3>1 DEF Dirty, MustSave
    <3>3. QED BY <3>2 DEF BucketOK
  <2>4. QED BY <2>2, <2>3
<1>20. \A k \in Handler \ {h} : Posting(k)' => Posting(k) /\ req'[k].todo = req[k].todo
  BY <1>1, <1>4, <1>11 DEF Posting
<1>21. /\ Cardinality(ToAdd') \in Nat
       /\ Cardinality(Checked(routes')) + Cardinality(ToAdd') <= Ceiling
  <2>1. CASE req[h].op = "post"
    <3>1. Posting(h) /\ Posting(h)' /\ req'[h].todo = Tail(req[h].todo)
      BY <1>1, <1>10, <1>11, <2>1 DEF Posting
    <3>2. Cardinality(ToAdd') \in Nat /\ Cardinality(ToAdd') + 1 <= Cardinality(ToAdd)
      BY <1>1, <1>20, <3>1, OneLess
    <3>3. QED BY <1>13, <2>1, <3>2, Unpack DEF RoutesInv, QuotaOK
  <2>2. CASE req[h].op # "post"
    <3>1. \A k \in Handler : Posting(k)' => Posting(k) /\ req'[k].todo = req[k].todo
      BY <1>10, <1>11, <1>20, <2>2 DEF Posting
    <3>2. Cardinality(ToAdd') \in Nat /\ Cardinality(ToAdd') <= Cardinality(ToAdd)
      BY <3>1, FewerToAdd
    <3>3. QED BY <1>13, <2>2, <3>2, Unpack DEF RoutesInv, QuotaOK
  <2>3. QED BY <2>1, <2>2
<1>22. ASSUME NEW k \in Handler
       PROVE  /\ pc'[k] = "save" => Cardinality(Checked(req'[k].copy)) <= Ceiling
              /\ Posting(k)' => Len(req'[k].todo) <= Longest
  <2>1. CASE k = h
    <3>1. pc'[k] # "save"
      BY <1>1, <2>1
    <3>2. ASSUME Posting(h)' PROVE Len(req'[h].todo) <= Longest
      <4>1. Posting(h)
        BY <1>1, <1>10, <1>11, <3>2 DEF Posting
      <4>2. PICK t \in Seq(Offer) : t = req[h].todo /\ t # <<>> /\ Len(t) <= Longest
        BY <1>1, <4>1, JobFacts DEF RoutesInv, QuotaOK, Posting
      <4>3. Len(Tail(t)) = Len(t) - 1 /\ Len(t) \in Nat
        BY <4>2, HeadTailProperties
      <4>4. Longest \in Nat
        BY CeilingFacts
      <4>5. Len(Tail(t)) <= Longest
        BY <4>2, <4>3, <4>4
      <4>6. QED BY <1>10, <1>11, <4>2, <4>5
    <3>3. QED BY <2>1, <3>1, <3>2
  <2>2. CASE k # h
    <3>1. /\ req'[k] = o[k] /\ (pc[k] # "idle" => o[k].copy = req[k].copy)
          /\ (Posting(k)' => Posting(k) /\ req'[k].todo = req[k].todo)
      BY <1>4, <1>11, <1>20, <2>2
    <3>2. QED BY <1>1, <3>1 DEF RoutesInv, QuotaOK
  <2>3. QED BY <2>1, <2>2
<1>23. QuotaOK'
  BY <1>1, <1>21, <1>22 DEF RoutesInv, QuotaOK, Ceiling, Longest, Checked
<1>24. QED BY <1>17, <1>18, <1>19, <1>23 DEF RoutesInv

LEMMA PatchUpdateKeeps ==
  ASSUME RoutesAssumption, RoutesInv, NEW h \in Handler, PatchUpdate(h)
  PROVE  /\ RoutesInv'
         /\ DOMAIN routes' = DOMAIN routes
         /\ \A i \in DOMAIN routes : routes'[i].id = routes[i].id
<1>1. TableTypeOK /\ JobsOK /\ nextId \in Nat
  BY DEF RoutesInv, RouteTypes
<1>2. /\ pc[h] = "update" /\ UNCHANGED <<saved, file, clock, behind, nextId, requests, restarts>>
  BY DEF PatchUpdate
<1>3. PICK r \in PatchJob : r = req[h]
  BY <1>2, Unpack
<1>4. CASE First(routes, r.dst) = 0
  <2>1. Done(h) /\ routes' = routes
    BY <1>3, <1>4 DEF PatchUpdate
  <2>2. pc' = [pc EXCEPT ![h] = "idle"] /\ req' = [req EXCEPT ![h] = Idle]
    BY <2>1 DEF Done, Goto
  <2>3. BucketOK'
    <3>1. ASSUME NEW k \in Handler, Dirty(k) PROVE Dirty(k)'
      <4>1. k # h
        BY <1>2, <3>1 DEF Dirty
      <4>2. pc'[k] = pc[k] /\ req'[k] = req[k]
        BY <1>1, <2>2, <4>1 DEF TableTypeOK, JobsOK
      <4>3. QED BY <3>1, <4>2 DEF Dirty
    <3>2. QED BY <1>2, <2>1, <3>1 DEF RoutesInv, BucketOK
  <2>4. behind \in BOOLEAN /\ Cardinality(Checked(saved)) <= Ceiling
    BY DEF RoutesInv, RouteTypes, TableTypeOK, QuotaOK
  <2>5. QED BY <1>2, <2>1, <2>3, <2>4, DoneKeeps, Unpack
<1>5. CASE First(routes, r.dst) # 0
  <2>1. /\ routes' = UpdateRoute(routes, r.dst, r.metric, r.ttl)
        /\ pc' = [pc EXCEPT ![h] = "change"] /\ req' = Outdated(routes')
    BY <1>3, <1>5 DEF PatchUpdate, Goto
  <2>2. r.metric \in Metric \cup {Unset} /\ r.ttl \in Nat \cup {Unset}
    BY PatchJobFacts
  <2>3. /\ routes' \in Seq(Route) /\ DOMAIN routes' = DOMAIN routes
        /\ \A i \in DOMAIN routes : /\ routes'[i].id = routes[i].id
                                    /\ routes'[i].checked = routes[i].checked
    <3>1. PICK d, m, n : d = r.dst /\ m = r.metric /\ n = r.ttl
      OBVIOUS
    <3>2. First(routes, d) # 0 /\ m \in Metric \cup {Unset} /\ n \in Nat \cup {Unset}
      BY <1>5, <2>2, <3>1
    <3>3. routes \in Seq(Route) /\ clock \in Nat
      BY Unpack
    <3>4. /\ UpdateRoute(routes, d, m, n) \in Seq(Route)
          /\ DOMAIN UpdateRoute(routes, d, m, n) = DOMAIN routes
          /\ \A i \in DOMAIN routes : /\ UpdateRoute(routes, d, m, n)[i].id = routes[i].id
                                      /\ UpdateRoute(routes, d, m, n)[i].checked = routes[i].checked
      BY <3>2, <3>3, UpdateFacts
    <3>5. QED BY <2>1, <3>1, <3>4
  <2>4. Checked(routes') = Checked(routes)
    BY <2>3 DEF Checked
  <2>5. PICK o : o = req'
    OBVIOUS
  <2>6. /\ o \in [Handler -> Job \cup {Idle}]
        /\ \A k \in Handler :
              /\ pc[k] = "idle" => o[k] = req[k]
              /\ pc[k] # "idle" =>
                   /\ o[k] \in Job /\ o[k].op = req[k].op /\ o[k].todo = req[k].todo
                   /\ o[k].copy = req[k].copy /\ o[k].some = req[k].some
              /\ pc[k] = "update" => o[k] \in PatchJob
              /\ pc[k] = "save" /\ o[k].fresh => req[k].fresh /\ routes' = routes
              /\ pc[k] # "save" => o[k] = req[k]
    BY <1>1, <2>1, <2>5, OutdatedFacts
  <2>7. o[h] = r /\ r \in Job /\ r.op = "patch" /\ r.some
    <3>1. r \in Job
      BY DEF Job
    <3>2. QED BY <1>2, <1>3, <2>6, <3>1, JobFacts
  <2>8. /\ pc' \in [Handler -> {"idle", "refused", "change", "save", "update"}]
        /\ pc'[h] = "change" /\ \A k \in Handler \ {h} : pc'[k] = pc[k]
    BY <1>1, <2>1 DEF TableTypeOK
  <2>9. \A k \in Handler : pc'[k] = "idle" <=> req'[k] = Idle
    <3>1. ASSUME NEW k \in Handler PROVE pc'[k] = "idle" <=> o[k] = Idle
      <4>1. CASE k = h
        BY <2>7, <2>8, <4>1, JobFacts
      <4>2. CASE k # h
        <5>1. pc[k] = "idle" => o[k] = Idle
          BY <1>1, <2>6 DEF TableTypeOK
        <5>2. pc[k] # "idle" => o[k] # Idle
          BY <2>6, JobFacts
        <5>3. QED BY <2>8, <4>2, <5>1, <5>2
      <4>3. QED BY <4>1, <4>2
    <3>2. QED BY <2>5, <3>1
  <2>10. TableTypeOK'
    BY <1>1, <1>2, <2>3, <2>8, <2>9 DEF TableTypeOK, RouteTime
  <2>11. RouteTypes'
    <3>1. \A k \in Handler : /\ pc'[k] # "idle" => o[k] \in Job
                             /\ pc'[k] = "update" => o[k] \in PatchJob
      BY <2>6, <2>7, <2>8
    <3>2. QED BY <1>1, <1>2, <2>5, <2>6, <2>10, <3>1 DEF RouteTypes, JobsOK
  <2>12. FreshOK'
    <3>1. ASSUME NEW k \in Handler, pc'[k] = "save", o[k].fresh
          PROVE  Alive(o[k].copy, clock) = Alive(routes', clock)
      <4>1. k # h /\ pc[k] = "save"
        BY <2>8, <3>1
      <4>2. o[k].copy = req[k].copy /\ req[k].fresh /\ routes' = routes
        BY <2>6, <3>1, <4>1
      <4>3. QED BY <4>1, <4>2 DEF RoutesInv, FreshOK
    <3>2. QED BY <1>2, <2>5, <3>1 DEF FreshOK
  <2>13. BucketOK'
    <3>1. Dirty(h)'
      BY <2>5, <2>7, <2>8 DEF Dirty, MustSave
    <3>2. QED BY <3>1 DEF BucketOK
  <2>14. \A k \in Handler : Posting(k)' => Posting(k) /\ req'[k].todo = req[k].todo
    BY <2>5, <2>6, <2>7, <2>8 DEF Posting
  <2>15. Cardinality(ToAdd') \in Nat /\ Cardinality(ToAdd') <= Cardinality(ToAdd)
    BY <2>14, FewerToAdd
  <2>16. Cardinality(Checked(routes')) + Cardinality(ToAdd') <= Ceiling
    BY <2>4, <2>15, Unpack DEF RoutesInv, QuotaOK
  <2>17. \A k \in Handler : /\ pc'[k] = "save" => Cardinality(Checked(req'[k].copy)) <= Ceiling
                            /\ Posting(k)' => Len(req'[k].todo) <= Longest
    BY <2>5, <2>6, <2>8, <2>14 DEF RoutesInv, QuotaOK
  <2>18. QuotaOK'
    BY <1>2, <2>16, <2>17 DEF RoutesInv, QuotaOK, Ceiling, Longest, Checked
  <2>19. QED BY <2>3, <2>11, <2>12, <2>13, <2>18 DEF RoutesInv
<1>6. QED BY <1>4, <1>5

-----------------------------------------------------------------------------
(* The route table: the theorems. *)

LEMMA RoutesStep ==
  ASSUME RoutesAssumption, RoutesInv, [RoutesNext]_routesVars
  PROVE  RoutesInv'
<1>1. ASSUME NEW h \in Handler, NEW entries \in Offers, PostRoutes(h, entries) PROVE RoutesInv'
  BY <1>1, PostKeeps
<1>2. ASSUME NEW h \in Handler, NEW dsts \in Deletions, DeleteRoutes(h, dsts) PROVE RoutesInv'
  BY <1>2, DeleteKeeps
<1>3. ASSUME NEW h \in Handler, NEW p \in Patches, PatchRead(h, p) PROVE RoutesInv'
  BY <1>3, PatchReadKeeps
<1>4. ASSUME NEW h \in Handler, ImportRoutes(h) PROVE RoutesInv'
  BY <1>4, ImportKeeps
<1>5. ASSUME NEW h \in Handler, Refuse(h) PROVE RoutesInv'
  BY <1>5, RefuseKeeps
<1>6. ASSUME NEW h \in Handler, Change(h) PROVE RoutesInv'
  BY <1>6, ChangeKeeps
<1>7. ASSUME NEW h \in Handler, Copy(h) PROVE RoutesInv'
  BY <1>7, CopyKeeps
<1>8. ASSUME NEW h \in Handler, Save(h) PROVE RoutesInv'
  BY <1>8, SaveKeeps
<1>9. ASSUME NEW h \in Handler, SaveFails(h) PROVE RoutesInv'
  BY <1>9, SaveFailsKeeps
<1>10. ASSUME NEW h \in Handler, PatchUpdate(h) PROVE RoutesInv'
  BY <1>10, PatchUpdateKeeps
<1>11. ASSUME List PROVE RoutesInv'
  <2>1. /\ routes' = Unexpired(routes)
        /\ UNCHANGED <<saved, pc, req, file, clock, behind, nextId, requests, restarts>>
    BY <1>11 DEF List
  <2>2. file' \in Seq(Route)
    BY <2>1, Unpack
  <2>3. QED BY <2>1, <2>2, PruneKeeps
<1>12. ASSUME Export PROVE RoutesInv'
  <2>1. /\ routes' = Unexpired(routes) /\ file' = Unexpired(routes)
        /\ UNCHANGED <<saved, pc, req, clock, behind, nextId, requests, restarts>>
    BY <1>12 DEF Export
  <2>2. file' \in Seq(Route)
    BY <2>1, PruneFacts
  <2>3. QED BY <2>1, <2>2, PruneKeeps
<1>13. ASSUME RoutesTick PROVE RoutesInv'
  BY <1>13, TickKeeps
<1>14. ASSUME Restart PROVE RoutesInv'
  BY <1>14, RestartKeeps
<1>15. ASSUME UNCHANGED routesVars PROVE RoutesInv'
  <2>1. UNCHANGED <<routes, saved, pc, req, file, clock, behind, nextId, requests, restarts>>
    BY <1>15 DEF routesVars
  <2>2. RouteTypes'
    BY <2>1 DEF RoutesInv, RouteTypes, TableTypeOK, JobsOK, RouteTime
  <2>3. FreshOK' /\ BucketOK'
    BY <2>1 DEF RoutesInv, FreshOK, BucketOK, Dirty
  <2>4. ToAdd' = ToAdd
    BY <2>1 DEF ToAdd, Posting
  <2>5. QuotaOK'
    BY <2>1, <2>4 DEF RoutesInv, QuotaOK, Ceiling, Longest, Checked, Posting
  <2>6. QED BY <2>2, <2>3, <2>5 DEF RoutesInv
<1>16. CASE RoutesNext
  BY <1>1, <1>2, <1>3, <1>4, <1>5, <1>6, <1>7, <1>8, <1>9, <1>10, <1>11, <1>12, <1>13, <1>14, <1>16
     DEF RoutesNext
<1>17. QED BY <1>15, <1>16

LEMMA TableIsSound == RoutesSpec => []RoutesInv
<1> USE RoutesAssumption
<1>1. RoutesInit => RoutesInv
  BY StartsKept
<1>2. RoutesInv /\ [RoutesNext]_routesVars => RoutesInv'
  BY RoutesStep
<1>3. QED BY <1>1, <1>2, PTL DEF RoutesSpec

\* When no request is under way the bucket holds the live routes of the table, but for a
\* failed or overtaken last write; and routes that were added under the quota exceed it
\* by no more than the other handlers can add between their check and their append:
\* for any number of handlers, any lists that clients post and delete, any bounds.
THEOREM TableStaysKept == RoutesSpec => []TableIsKept
<1> USE RoutesAssumption
<1>1. ASSUME RoutesInv PROVE TableIsKept
  <2>1. TableTypeOK
    BY <1>1 DEF RoutesInv, RouteTypes
  <2>2. SavedUnlessOvertaken
    <3>1. ASSUME Quiet, ~behind PROVE Unexpired(saved) = Unexpired(routes)
      <4>1. \A h \in Handler : ~Dirty(h)
        BY <3>1 DEF Quiet, Dirty
      <4>2. Alive(saved, clock) = Alive(routes, clock)
        BY <1>1, <3>1, <4>1 DEF RoutesInv, BucketOK
      <4>3. QED BY <4>2, UnexpiredIsAlive
    <3>2. QED BY <3>1 DEF SavedUnlessOvertaken
  <2>3. QuotaOvershoot
    <3>1. PICK live : live = Unexpired(routes)
      OBVIOUS
    <3>2. Cardinality(Checked(live)) \in Nat /\ Cardinality(Checked(live)) <= Cardinality(Checked(routes))
      BY <1>1, <3>1, PruneFacts
    <3>3. Cardinality(Checked(live)) <= Ceiling
      BY <1>1, <3>2, Unpack DEF RoutesInv, QuotaOK
    <3>4. Cardinality({i \in DOMAIN live : live[i].checked})
            <= MaxRoutes + (Cardinality(Handler) - 1)
                 * (CHOOSE n \in {Len(e) : e \in Offers} : \A e \in Offers : Len(e) <= n)
      BY <3>3 DEF Checked, Ceiling, Longest
    <3>5. QED BY <3>1, <3>4 DEF QuotaOvershoot
  <2>4. QED BY <2>1, <2>2, <2>3 DEF TableIsKept
<1>2. QED BY <1>1, TableIsSound, PTL

\* A route that pruning takes has expired.
LEMMA PrunedHasExpired ==
  ASSUME RoutesAssumption, RoutesInv, routes' = Unexpired(routes), NEW i \in DOMAIN routes,
         \A j \in DOMAIN routes' : routes'[j].id # routes[i].id
  PROVE  routes[i].expires # NoExpiry /\ clock > routes[i].expires
<1>1. routes \in Seq(Route) /\ clock \in Nat /\ routes' = Alive(routes, clock)
  BY Unpack, UnexpiredIsAlive
<1>2. Expired(routes[i], clock)
  <2>1. SUFFICES ASSUME ~Expired(routes[i], clock) PROVE FALSE
    OBVIOUS
  <2>2. PICK k \in DOMAIN routes' : routes'[k] = routes[i]
    BY <1>1, <2>1, AliveFacts
  <2>3. QED BY <2>2
<1>3. QED BY <1>2 DEF Expired

\* The reason why a route may leave the table in a step.
Gone(i) ==
  (\A j \in DOMAIN routes' : routes'[j].id # routes[i].id) =>
         \/ routes[i].expires # NoExpiry /\ clock > routes[i].expires
         \/ \E h \in Handler : /\ req[h].op = "delete" /\ req[h].todo # <<>>
                               /\ Head(req[h].todo) = routes[i].dst
         \/ restarts' # restarts /\ \A j \in DOMAIN saved' : saved'[j].id # routes[i].id

LEMMA GoneForAReason ==
  ASSUME RoutesAssumption, RoutesInv, [RoutesNext]_routesVars, NEW i \in DOMAIN routes
  PROVE  Gone(i)
<1>1. ASSUME routes' = routes PROVE Gone(i)
  BY <1>1 DEF Gone
<1>2. ASSUME routes' = Unexpired(routes) PROVE Gone(i)
  BY <1>2, PrunedHasExpired DEF Gone
<1>3. ASSUME NEW h \in Handler, Change(h) PROVE Gone(i)
  <2>1. /\ pc[h] = "change" /\ req[h].todo # <<>> /\ routes' = Changed(req[h])
    BY <1>3, ChangeStep
  <2>2. \/ \E j \in DOMAIN routes' : routes'[j] = routes[i]
        \/ req[h].op = "delete" /\ Head(req[h].todo) = routes[i].dst
    BY <2>1, ChangedFacts
  <2>3. QED BY <2>1, <2>2 DEF Gone
<1>4. ASSUME NEW h \in Handler, PatchUpdate(h) PROVE Gone(i)
  BY <1>4, PatchUpdateKeeps DEF Gone
<1>5. ASSUME Restart PROVE Gone(i)
  <2>1. routes' = saved' /\ restarts' = restarts + 1
    BY <1>5 DEF Restart
  <2>2. restarts' # restarts
    BY <2>1 DEF RoutesInv, RouteTypes, TableTypeOK
  <2>3. QED BY <2>1, <2>2 DEF Gone
<1>6. ASSUME NEW h \in Handler, Copy(h) PROVE routes' = routes \/ routes' = Unexpired(routes)
  BY <1>6 DEF Copy
<1>7. ASSUME NEW h \in Handler, Refuse(h) \/ Save(h) \/ SaveFails(h) PROVE routes' = routes
  BY <1>7 DEF Refuse, Save, SaveFails
<1>8. ASSUME NEW h \in Handler, \/ \E dsts \in Deletions : DeleteRoutes(h, dsts)
                                \/ \E p \in Patches : PatchRead(h, p)
                                \/ ImportRoutes(h)
      PROVE  routes' = routes
  BY <1>8 DEF DeleteRoutes, PatchRead, ImportRoutes
<1>9. ASSUME NEW h \in Handler, \E entries \in Offers : PostRoutes(h, entries)
      PROVE  routes' = Unexpired(routes)
  BY <1>9 DEF PostRoutes
<1>10. ASSUME List \/ Export PROVE routes' = Unexpired(routes)
  BY <1>10 DEF List, Export
<1>11. ASSUME RoutesTick \/ UNCHANGED routesVars PROVE routes' = routes
  BY <1>11 DEF RoutesTick, routesVars
<1>12. QED
  BY <1>1, <1>2, <1>3, <1>4, <1>5, <1>6, <1>7, <1>8, <1>9, <1>10, <1>11 DEF RoutesNext

\* A route leaves the table only when it has expired, when a request deletes its
\* destination, or in a restart that finds it neither stored nor alive.
THEOREM RoutesVanishForAReason == RoutesSpec => VanishesForAReason
<1> USE RoutesAssumption
<1>1. RoutesInv /\ [RoutesNext]_routesVars => [\A i \in DOMAIN routes : Gone(i)]_routesVars
  BY GoneForAReason
<1>2. RoutesSpec => [][\A i \in DOMAIN routes : Gone(i)]_routesVars
  BY <1>1, TableIsSound, PTL DEF RoutesSpec
<1>3. QED BY <1>2 DEF Gone, VanishesForAReason

-----------------------------------------------------------------------------
(* The views: sieves, one pass, and a ranking. *)

\* What a list keeps of a set, in its order.
Sieve(s, G) == At(s, Those(s, G))

LEMMA SieveFacts ==
  ASSUME NEW S, NEW s \in Seq(S), NEW G
  PROVE  /\ Those(s, G) \subseteq DOMAIN s
         /\ Sieve(s, G) \in Seq(S)
         /\ \A k \in DOMAIN Sieve(s, G) : Sieve(s, G)[k] \in G
<1>1. PICK T : T = {i \in DOMAIN s : s[i] \in G} /\ T = Those(s, G)
  BY DEF Those
<1>2. T \subseteq DOMAIN s
  BY <1>1
<1>3. /\ At(s, T) \in Seq(S)
      /\ \A k \in DOMAIN At(s, T) : \E i \in T : At(s, T)[k] = s[i]
  BY <1>2, AtFacts
<1>4. QED BY <1>1, <1>2, <1>3 DEF Sieve

\* One filter after another is a filter for both.
LEMMA SieveTwice ==
  ASSUME NEW S, NEW s \in Seq(S), NEW G, NEW H
  PROVE  Sieve(Sieve(s, H), G) = Sieve(s, G \cap H)
<1>1. PICK r : r = Sieve(s, H) /\ r \in Seq(S) /\ \A k \in DOMAIN r : r[k] \in H
  BY SieveFacts
<1>2. Those(r, G) = Those(r, G \cap H)
  BY <1>1 DEF Those
<1>3. Those(s, G \cap H) \subseteq Those(s, H) /\ Those(s, H) \subseteq DOMAIN s
  BY DEF Those
<1>4. PICK T : T = Those(s, H)
  OBVIOUS
<1>5. PICK K : K = G \cap H
  OBVIOUS
<1>6. T \subseteq DOMAIN s /\ Those(s, K) \subseteq T
  BY <1>3, <1>4, <1>5
<1>7. At(At(s, T), Those(At(s, T), K)) = At(s, Those(s, K))
  BY <1>6, AtAt
<1>8. QED BY <1>1, <1>2, <1>4, <1>5, <1>7 DEF Sieve

\* It keeps something when there is something to keep.
LEMMA SieveSize ==
  ASSUME NEW S, NEW s \in Seq(S), NEW G
  PROVE  /\ IsFiniteSet(Those(s, G)) /\ Cardinality(Those(s, G)) \in Nat
         /\ Len(Sieve(s, G)) = Cardinality(Those(s, G))
         /\ Len(Sieve(s, G)) > 0 <=> Those(s, G) # {}
<1>1. PICK T : T = Those(s, G) /\ T \subseteq DOMAIN s
  BY SieveFacts
<1>2. IsFiniteSet(1 .. Len(s)) /\ DOMAIN s = 1 .. Len(s) /\ Len(s) \in Nat
  BY FirstNumbers
<1>3. IsFiniteSet(T)
  BY <1>1, <1>2, FS_Subset
<1>4. PICK n \in Nat : n = Cardinality(T) /\ (n = 0 <=> T = {})
  BY <1>3, FS_CardinalityType, FS_EmptySet
<1>5. At(s, T) = [k \in 1 .. n |-> s[CHOOSE i \in T : Cardinality({j \in T : j < i}) = k - 1]]
  <2>1. PICK F : F = [k \in 1 .. n |-> s[CHOOSE i \in T : Cardinality({j \in T : j < i}) = k - 1]]
    OBVIOUS
  <2>2. At(s, T) = SubSeq(F, 1, n)
    BY <1>4, <2>1 DEF At
  <2>3. F = [k \in 1 .. n |-> F[k]]
    BY <2>1
  <2>4. QED BY <2>1, <2>2, <2>3, SubSeqAll
<1>6. At(s, T) \in Seq(S)
  BY <1>1, AtFacts
<1>7. Len(At(s, T)) = n
  BY <1>4, <1>5, <1>6
<1>8. QED BY <1>1, <1>3, <1>4, <1>7 DEF Sieve

\* The first of the routes at T that have the lowest score.
BestOf(s, T, penalty, i) ==
  /\ i \in T
  /\ \A j \in T : \/ Score(s[i], penalty) < Score(s[j], penalty)
                  \/ Score(s[i], penalty) = Score(s[j], penalty) /\ i <= j

LEMMA ScoreType ==
  ASSUME NEW r \in Route, NEW penalty \in Nat
  PROVE  Score(r, penalty) \in Int
<1>1. r.lat \in Nat /\ r.thr \in Nat
  BY DEF Route
<1>2. (IF r.satellite /\ penalty > 0 THEN penalty ELSE 0) \in Nat
  OBVIOUS
<1>3. PICK k \in Nat : k = (IF r.satellite /\ penalty > 0 THEN penalty ELSE 0)
  BY <1>2
<1>4. QED BY <1>1, <1>3 DEF Score

LEMMA ScoresOf ==
  ASSUME NEW s \in Seq(Route), NEW penalty \in Nat
  PROVE  \A i \in DOMAIN s : Score(s[i], penalty) \in Int
<1>1. ASSUME NEW i \in DOMAIN s PROVE Score(s[i], penalty) \in Int
  <2>1. PICK r \in Route : r = s[i]
    OBVIOUS
  <2>2. QED BY <2>1, ScoreType
<1>2. QED BY <1>1

LEMMA BestUnique ==
  ASSUME NEW s \in Seq(Route), NEW T, T \subseteq DOMAIN s, NEW penalty \in Nat,
         NEW i, BestOf(s, T, penalty, i), NEW k, BestOf(s, T, penalty, k)
  PROVE  i = k
<1>1. i \in T /\ k \in T /\ i \in Nat /\ k \in Nat
  BY DEF BestOf
<1>2. PICK a \in Int, b \in Int : a = Score(s[i], penalty) /\ b = Score(s[k], penalty)
  BY <1>1, ScoresOf
<1>3. (a < b \/ (a = b /\ i <= k)) /\ (b < a \/ (b = a /\ k <= i))
  BY <1>1, <1>2 DEF BestOf
<1>4. QED BY <1>1, <1>2, <1>3

\* The best of a filtered list is the best of what the filter keeps.
LEMMA BestThrough ==
  ASSUME NEW s \in Seq(Route), NEW G, NEW penalty \in Nat, NEW r, r = Sieve(s, G),
         NEW k, BestOf(r, DOMAIN r, penalty, k)
  PROVE  \E i : BestOf(s, Those(s, G), penalty, i) /\ s[i] = r[k]
<1>1. PICK T : T = Those(s, G) /\ T \subseteq DOMAIN s
  BY SieveFacts
<1>2. PICK n \in Nat : \E p : InOrder(r, s, T, n, p)
  BY <1>1, AtOrder DEF Sieve
<1>3. PICK p : InOrder(r, s, T, n, p)
  BY <1>2
<1>4. /\ p \in [1 .. n -> T]
      /\ r = [l \in 1 .. n |-> s[p[l]]]
      /\ \A l, m \in 1 .. n : l < m => p[l] < p[m]
      /\ \A i \in T : \E l \in 1 .. n : p[l] = i
  BY <1>3 DEF InOrder
<1>5. DOMAIN r = 1 .. n /\ k \in 1 .. n
  BY <1>4 DEF BestOf
<1>6. PICK i : i = p[k] /\ i \in T /\ s[i] = r[k] /\ i \in Nat
  BY <1>1, <1>4, <1>5
<1>7. ASSUME NEW j \in T
      PROVE  \/ Score(s[i], penalty) < Score(s[j], penalty)
             \/ Score(s[i], penalty) = Score(s[j], penalty) /\ i <= j
  <2>1. PICK l \in 1 .. n : p[l] = j /\ r[l] = s[j]
    BY <1>4
  <2>2. \/ Score(r[k], penalty) < Score(r[l], penalty)
        \/ Score(r[k], penalty) = Score(r[l], penalty) /\ k <= l
    BY <1>5 DEF BestOf
  <2>3. k <= l => i <= j
    <3>1. k = l => i = j
      BY <1>6, <2>1
    <3>2. k < l => i < j
      BY <1>4, <1>5, <1>6, <2>1
    <3>3. j \in Nat
      BY <1>1
    <3>4. QED BY <1>5, <1>6, <3>1, <3>2, <3>3
  <2>4. QED BY <1>6, <2>1, <2>2, <2>3
<1>8. QED BY <1>1, <1>6, <1>7 DEF BestOf

-----------------------------------------------------------------------------
(* One pass. *)

\* The pass over a list, by what it keeps after each entry.
Pass(s, f, penalty, n, best) ==
  best = [i \in 0 .. n |->
            IF i = 0 THEN 0
            ELSE IF /\ Matches(s[i], f)
                    /\ best[i - 1] # 0 => Score(s[i], penalty) < Score(s[best[i - 1]], penalty)
              THEN i ELSE best[i - 1]]

\* A recursive pass over a list exists.
LEMMA PassExists ==
  ASSUME NEW n \in Nat, NEW s, NEW f, NEW penalty
  PROVE  \E best : Pass(s, f, penalty, n, best)
<1>1. DEFINE T == {k \in 0 .. n : ~(\E b : Pass(s, f, penalty, k, b))}
             Goes(i, b) == /\ Matches(s[i], f)
                           /\ b # 0 => Score(s[i], penalty) < Score(s[b], penalty)
<1>2. ASSUME T # {} PROVE FALSE
  <2>1. T \subseteq Nat
    OBVIOUS
  <2>2. PICK k \in T : \A j \in T : k <= j
    BY <1>2, <2>1, LeastNat
  <2>3. k \in 0 .. n /\ ~(\E b : Pass(s, f, penalty, k, b))
    OBVIOUS
  <2>4. CASE k = 0
    <3>1. PICK b : b = [i \in 0 .. 0 |-> 0]
      OBVIOUS
    <3>2. Pass(s, f, penalty, 0, b)
      BY <3>1 DEF Pass
    <3>3. QED BY <2>3, <2>4, <3>2
  <2>5. CASE k # 0
    <3>1. k - 1 \in 0 .. n /\ k - 1 \notin T
      <4>1. k - 1 \in 0 .. n /\ ~(k <= k - 1)
        BY <2>3, <2>5
      <4>2. HIDE DEF T
      <4>3. QED BY <2>2, <4>1
    <3>2. PICK g : Pass(s, f, penalty, k - 1, g)
      BY <3>1
    <3>3. g = [i \in 0 .. k - 1 |-> IF i = 0 THEN 0 ELSE IF Goes(i, g[i - 1]) THEN i ELSE g[i - 1]]
      BY <3>2 DEF Pass
    <3>4. PICK b : b = [i \in 0 .. k |-> IF i = k THEN (IF Goes(k, g[k - 1]) THEN k ELSE g[k - 1])
                                         ELSE g[i]]
      OBVIOUS
    <3> HIDE DEF Goes
    <3>5. ASSUME NEW i \in 0 .. k
          PROVE b[i] = IF i = 0 THEN 0 ELSE IF Goes(i, b[i - 1]) THEN i ELSE b[i - 1]
      <4>1. CASE i = k
        <5>1. i - 1 \in 0 .. k /\ i - 1 # k
          BY <2>3, <2>5, <4>1
        <5>2. QED BY <2>5, <3>4, <4>1, <5>1
      <4>2. CASE i # k /\ i # 0
        <5>1. i \in 0 .. k - 1 /\ i - 1 \in 0 .. k /\ i - 1 # k
          BY <2>3, <4>2
        <5>2. g[i] = IF Goes(i, g[i - 1]) THEN i ELSE g[i - 1]
          BY <3>3, <4>2, <5>1
        <5>3. b[i] = g[i] /\ b[i - 1] = g[i - 1]
          BY <3>4, <4>2, <5>1
        <5>4. QED BY <4>2, <5>2, <5>3
      <4>3. CASE i # k /\ i = 0
        <5>1. 0 \in 0 .. k - 1
          BY <2>3, <2>5
        <5>2. g[0] = 0
          BY <3>3, <5>1
        <5>3. QED BY <3>4, <4>3, <5>2
      <4>4. QED BY <4>1, <4>2, <4>3
    <3>6. b = [i \in 0 .. k |-> IF i = 0 THEN 0 ELSE IF Goes(i, b[i - 1]) THEN i ELSE b[i - 1]]
      BY <3>4, <3>5
    <3>7. Pass(s, f, penalty, k, b)
      BY <3>6 DEF Pass, Goes
    <3>8. QED BY <2>3, <3>7
  <2>6. QED BY <2>4, <2>5
<1>3. n \notin T
  BY <1>2
<1>4. QED BY <1>3

\* What the pass has kept after k entries: the first of the best among them.
BestSoFar(s, f, penalty, k, i) ==
  LET T == {j \in 1 .. k : Matches(s[j], f)}
  IN  IF T = {} THEN i = 0 ELSE BestOf(s, T, penalty, i)

LEMMA PassStep ==
  ASSUME NEW s \in Seq(Route), NEW f, NEW penalty \in Nat, NEW k \in 1 .. Len(s),
         NEW b, BestSoFar(s, f, penalty, k - 1, b),
         NEW c, c = IF /\ Matches(s[k], f)
                       /\ b # 0 => Score(s[k], penalty) < Score(s[b], penalty)
                    THEN k ELSE b
  PROVE  BestSoFar(s, f, penalty, k, c)
<1>1. PICK T : T = {j \in 1 .. k - 1 : Matches(s[j], f)}
  OBVIOUS
<1>2. PICK U : U = {j \in 1 .. k : Matches(s[j], f)}
  OBVIOUS
<1>3. IF T = {} THEN b = 0 ELSE BestOf(s, T, penalty, b)
  BY <1>1 DEF BestSoFar
<1>4. Len(s) \in Nat /\ k \in Nat /\ k \in DOMAIN s /\ T \subseteq DOMAIN s /\ T \subseteq 1 .. k - 1
  BY <1>1
<1>5. U = IF Matches(s[k], f) THEN T \cup {k} ELSE T
  <2>1. 1 .. k = (1 .. k - 1) \cup {k}
    BY <1>4
  <2>2. QED BY <1>1, <1>2, <2>1
<1>6. \A j \in DOMAIN s : Score(s[j], penalty) \in Int
  BY ScoresOf
<1>7. T # {} => b \in T /\ b # 0
  BY <1>3, <1>4 DEF BestOf
<1>8. IF U = {} THEN c = 0 ELSE BestOf(s, U, penalty, c)
  <2>1. CASE ~Matches(s[k], f)
    BY <1>3, <1>5, <2>1
  <2>2. CASE Matches(s[k], f) /\ T = {}
    <3>1. U = {k} /\ c = k
      BY <1>3, <1>5, <2>2
    <3>2. BestOf(s, {k}, penalty, k)
      BY <1>4, <1>6 DEF BestOf
    <3>3. QED BY <3>1, <3>2
  <2>3. CASE Matches(s[k], f) /\ T # {}
    <3>1. PICK z \in Int : z = Score(s[k], penalty)
      BY <1>4, <1>6
    <3>2. PICK y \in Int : y = Score(s[b], penalty) /\ b \in T /\ b \in 1 .. k - 1
      BY <1>4, <1>6, <1>7, <2>3
    <3>3. c = IF z < y THEN k ELSE b
      BY <1>7, <2>3, <3>1, <3>2
    <3>4. U = T \cup {k}
      BY <1>5, <2>3
    <3>5. BestOf(s, T, penalty, b)
      BY <1>3, <2>3
    <3>6. ASSUME NEW j \in U
          PROVE  \/ Score(s[c], penalty) < Score(s[j], penalty)
                 \/ Score(s[c], penalty) = Score(s[j], penalty) /\ c <= j
      <4>1. CASE j = k
        BY <1>4, <3>1, <3>2, <3>3, <4>1
      <4>2. CASE j \in T
        <5>1. PICK x \in Int : x = Score(s[j], penalty)
          BY <1>4, <1>6, <4>2
        <5>2. y < x \/ (y = x /\ b <= j)
          BY <3>2, <3>5, <4>2, <5>1 DEF BestOf
        <5>3. CASE z < y
          BY <3>1, <3>2, <3>3, <5>1, <5>2, <5>3
        <5>4. CASE ~(z < y)
          BY <3>1, <3>2, <3>3, <5>1, <5>2, <5>4
        <5>5. QED BY <5>3, <5>4
      <4>3. QED BY <3>4, <4>1, <4>2
    <3>7. c \in U
      BY <3>2, <3>3, <3>4
    <3>8. QED BY <3>6, <3>7 DEF BestOf
  <2>4. QED BY <2>1, <2>2, <2>3
<1>9. QED BY <1>2, <1>8 DEF BestSoFar

\* selectBestRoute finds the first of the best, and 0 only when no route matches.
LEMMA PassFinds ==
  ASSUME NEW s \in Seq(Route), NEW f, NEW penalty \in Nat
  PROVE  BestSoFar(s, f, penalty, Len(s), selectBestRoute(s, f, penalty))
<1>1. PICK n \in Nat : n = Len(s)
  OBVIOUS
<1>2. DEFINE best == CHOOSE b : Pass(s, f, penalty, n, b)
<1>3. Pass(s, f, penalty, n, best)
  BY PassExists
<1>4. selectBestRoute(s, f, penalty) = best[n]
  BY <1>1 DEF selectBestRoute, Pass
<1>5. PICK b : b = best /\ Pass(s, f, penalty, n, b)
  BY <1>3
<1>6. /\ b[0] = 0
      /\ \A k \in 1 .. n :
           b[k] = IF /\ Matches(s[k], f)
                     /\ b[k - 1] # 0 => Score(s[k], penalty) < Score(s[b[k - 1]], penalty)
                  THEN k ELSE b[k - 1]
  <2>1. \A i \in 0 .. n :
          b[i] = IF i = 0 THEN 0
                 ELSE IF /\ Matches(s[i], f)
                         /\ b[i - 1] # 0 => Score(s[i], penalty) < Score(s[b[i - 1]], penalty)
                   THEN i ELSE b[i - 1]
    BY <1>5 DEF Pass
  <2>2. 0 \in 0 .. n /\ 0 = 0
    OBVIOUS
  <2>3. b[0] = 0
    BY <2>1, <2>2
  <2>4. \A k \in 1 .. n : k \in 0 .. n /\ k # 0
    OBVIOUS
  <2>5. QED BY <2>1, <2>3, <2>4
<1>7. DEFINE T == {k \in 0 .. n : ~BestSoFar(s, f, penalty, k, b[k])}
<1>8. ASSUME T # {} PROVE FALSE
  <2>1. T \subseteq Nat
    OBVIOUS
  <2>2. PICK k \in T : \A j \in T : k <= j
    BY <1>8, <2>1, LeastNat
  <2>3. k \in 0 .. n /\ ~BestSoFar(s, f, penalty, k, b[k])
    OBVIOUS
  <2>4. CASE k = 0
    <3>1. {j \in 1 .. 0 : Matches(s[j], f)} = {}
      OBVIOUS
    <3>2. QED BY <1>6, <2>3, <2>4, <3>1 DEF BestSoFar
  <2>5. CASE k # 0
    <3>1. k \in 1 .. n /\ k - 1 \in 0 .. n /\ ~(k <= k - 1)
      BY <2>3, <2>5
    <3>2. k - 1 \notin T
      <4>1. HIDE DEF T
      <4>2. QED BY <2>2, <3>1
    <3>3. BestSoFar(s, f, penalty, k - 1, b[k - 1])
      BY <3>1, <3>2
    <3>4. BestSoFar(s, f, penalty, k, b[k])
      BY <1>1, <1>6, <3>1, <3>3, PassStep
    <3>5. QED BY <2>3, <3>4
  <2>6. QED BY <2>4, <2>5
<1>9. n \notin T /\ n \in 0 .. n
  BY <1>8
<1>10. QED BY <1>1, <1>4, <1>5, <1>9

-----------------------------------------------------------------------------
(* A ranking. *)

\* When of any two elements one comes after the other and after all that the other comes
\* after, the elements have 0, 1, 2, ... before them.
LEMMA Line ==
  ASSUME NEW T, IsFiniteSet(T), NEW A \in [T -> SUBSET T], \A i \in T : i \notin A[i],
         \A i, k \in T : i = k \/ (A[i] \cup {i}) \subseteq A[k] \/ (A[k] \cup {k}) \subseteq A[i],
         NEW k \in 1 .. Cardinality(T)
  PROVE  \E i \in T : Cardinality(A[i]) = k - 1
<1>1. PICK N \in Nat : N = Cardinality(T)
  BY FS_CardinalityType
<1>2. ASSUME NEW U, U \subseteq T, NEW V, V \subseteq U, NEW x \in U, x \notin V
      PROVE  /\ Cardinality(V) \in Nat /\ Cardinality(U) \in Nat
             /\ Cardinality(V) < Cardinality(U)
  <2>1. IsFiniteSet(U) /\ Cardinality(U) \in Nat
    BY <1>2, FS_Subset, FS_CardinalityType
  <2>2. IsFiniteSet(V) /\ Cardinality(V) \in Nat /\ Cardinality(V) <= Cardinality(U)
    BY <1>2, <2>1, FS_Subset, FS_CardinalityType
  <2>3. Cardinality(V) # Cardinality(U)
    BY <1>2, <2>1, FS_Subset
  <2>4. QED BY <2>1, <2>2, <2>3
<1>3. PICK f : f = [i \in T |-> Cardinality(A[i])]
  OBVIOUS
<1>4. ASSUME NEW i \in T PROVE Cardinality(A[i]) \in 0 .. N - 1
  <2>1. A[i] \subseteq T /\ i \notin A[i]
    OBVIOUS
  <2>2. Cardinality(A[i]) \in Nat /\ Cardinality(A[i]) < Cardinality(T)
    BY <1>2, <2>1
  <2>3. QED BY <1>1, <2>2
<1>5. ASSUME NEW i \in T, NEW l \in T, (A[i] \cup {i}) \subseteq A[l]
      PROVE  Cardinality(A[i]) < Cardinality(A[l])
  <2>1. A[l] \subseteq T /\ A[i] \subseteq A[l] /\ i \in A[l] /\ i \notin A[i]
    BY <1>5
  <2>2. QED BY <1>2, <2>1
<1>6. f \in Injection(T, 0 .. N - 1)
  <2>1. f \in [T -> 0 .. N - 1]
    BY <1>3, <1>4
  <2>2. ASSUME NEW i \in T, NEW l \in T, f[i] = f[l] PROVE i = l
    <3>1. f[i] \in Int /\ f[l] \in Int /\ f[i] = Cardinality(A[i]) /\ f[l] = Cardinality(A[l])
      BY <1>1, <1>3, <2>1
    <3>2. ~((A[i] \cup {i}) \subseteq A[l]) /\ ~((A[l] \cup {l}) \subseteq A[i])
      <4>1. ~(f[i] < f[l]) /\ ~(f[l] < f[i])
        BY <2>2, <3>1
      <4>2. QED BY <1>5, <3>1, <4>1
    <3>3. QED BY <3>2
  <2>3. QED BY <2>1, <2>2 DEF Injection, IsInjective
<1>7. IsFiniteSet(0 .. N - 1) /\ Cardinality(0 .. N - 1) = N
  <2>1. 0 \in Int /\ N - 1 \in Int
    BY <1>1
  <2>2. QED BY <1>1, <2>1, FS_Interval
<1>8. f \in Surjection(T, 0 .. N - 1)
  BY <1>1, <1>6, <1>7, FS_Injection
<1>9. k - 1 \in 0 .. N - 1
  BY <1>1
<1>10. PICK i \in T : f[i] = k - 1
  BY <1>8, <1>9 DEF Surjection
<1>11. QED BY <1>3, <1>10

\* The routes that a stable sort by score puts before i.
Ahead(s, penalty, i) ==
  {j \in DOMAIN s : \/ Score(s[j], penalty) < Score(s[i], penalty)
                    \/ Score(s[j], penalty) = Score(s[i], penalty) /\ j < i}

LEMMA AheadOrders ==
  ASSUME NEW s \in Seq(Route), NEW penalty \in Nat, NEW i \in DOMAIN s, NEW k \in DOMAIN s
  PROVE  /\ i \notin Ahead(s, penalty, i)
         /\ \/ i = k
            \/ (Ahead(s, penalty, i) \cup {i}) \subseteq Ahead(s, penalty, k)
            \/ (Ahead(s, penalty, k) \cup {k}) \subseteq Ahead(s, penalty, i)
<1>1. \A j \in DOMAIN s : Score(s[j], penalty) \in Int /\ j \in Nat
  <2>1. \A j \in DOMAIN s : Score(s[j], penalty) \in Int
    BY ScoresOf
  <2>2. \A j \in DOMAIN s : j \in Nat
    OBVIOUS
  <2>3. QED BY <2>1, <2>2
<1>2. i \notin Ahead(s, penalty, i)
  BY <1>1 DEF Ahead
<1>3. ASSUME NEW l \in DOMAIN s, NEW m \in DOMAIN s, l \in Ahead(s, penalty, m)
      PROVE  (Ahead(s, penalty, l) \cup {l}) \subseteq Ahead(s, penalty, m)
  <2>1. ASSUME NEW j \in Ahead(s, penalty, l) PROVE j \in Ahead(s, penalty, m)
    <3>1. j \in DOMAIN s /\ j \in Nat /\ l \in Nat /\ m \in Nat
      BY <1>1 DEF Ahead
    <3>2. PICK x \in Int, y \in Int, z \in Int :
             x = Score(s[j], penalty) /\ y = Score(s[l], penalty) /\ z = Score(s[m], penalty)
      BY <1>1, <3>1
    <3>3. (x < y \/ (x = y /\ j < l)) /\ (y < z \/ (y = z /\ l < m))
      BY <1>3, <3>1, <3>2 DEF Ahead
    <3>4. x < z \/ (x = z /\ j < m)
      BY <3>1, <3>2, <3>3
    <3>5. QED BY <3>1, <3>2, <3>4 DEF Ahead
  <2>2. QED BY <1>3, <2>1
<1>4. i = k \/ i \in Ahead(s, penalty, k) \/ k \in Ahead(s, penalty, i)
  <2>1. PICK x \in Int, y \in Int : x = Score(s[i], penalty) /\ y = Score(s[k], penalty)
    BY <1>1
  <2>2. i \in Nat /\ k \in Nat
    BY <1>1
  <2>3. i = k \/ (x < y \/ (x = y /\ i < k)) \/ (y < x \/ (y = x /\ k < i))
    BY <2>1, <2>2
  <2>4. QED BY <2>1, <2>3 DEF Ahead
<1>5. QED BY <1>2, <1>3, <1>4

\* The ranking of a list.
Ranking(s, penalty) ==
  [k \in DOMAIN s |-> s[CHOOSE i \in DOMAIN s : Cardinality(Ahead(s, penalty, i)) = k - 1]]

\* r has what s has at the places p[1], p[2], ... which are all different.
Takes(r, s, p) ==
  /\ \A k \in DOMAIN s : p[k] \in DOMAIN s /\ r[k] = s[p[k]]
  /\ \A k, l \in DOMAIN s : p[k] = p[l] => k = l

\* It takes every route from another place, and the first of the best first.
LEMMA RankingFacts ==
  ASSUME NEW s \in Seq(Route), NEW penalty \in Nat, NEW r, r = Ranking(s, penalty)
  PROVE  /\ r \in Seq(Route) /\ Len(r) = Len(s) /\ DOMAIN r = DOMAIN s
         /\ \E p : Takes(r, s, p) /\ (Len(s) > 0 => BestOf(s, DOMAIN s, penalty, p[1]))
<1>1. PICK n \in Nat : n = Len(s) /\ DOMAIN s = 1 .. n
  OBVIOUS
<1>2. IsFiniteSet(DOMAIN s) /\ Cardinality(DOMAIN s) = n
  <2>1. IsFiniteSet(1 .. n) /\ Cardinality(1 .. n) = n
    BY FirstNumbers
  <2>2. QED BY <1>1, <2>1
<1>3. PICK A : A = [i \in DOMAIN s |-> Ahead(s, penalty, i)]
  OBVIOUS
<1>4. /\ A \in [DOMAIN s -> SUBSET DOMAIN s]
      /\ \A i \in DOMAIN s : i \notin A[i]
      /\ \A i, k \in DOMAIN s : \/ i = k
                                \/ (A[i] \cup {i}) \subseteq A[k]
                                \/ (A[k] \cup {k}) \subseteq A[i]
  <2>1. \A i \in DOMAIN s : Ahead(s, penalty, i) \subseteq DOMAIN s
    BY DEF Ahead
  <2>2. QED BY <1>3, <2>1, AheadOrders
<1>5. ASSUME NEW k \in DOMAIN s
      PROVE  \E i \in DOMAIN s : Cardinality(Ahead(s, penalty, i)) = k - 1
  <2>1. k \in 1 .. Cardinality(DOMAIN s)
    BY <1>1, <1>2
  <2>2. \E i \in DOMAIN s : Cardinality(A[i]) = k - 1
    BY <1>2, <1>4, <2>1, Line
  <2>3. QED BY <1>3, <2>2
<1>6. PICK p : p = [k \in DOMAIN s |-> CHOOSE i \in DOMAIN s : Cardinality(Ahead(s, penalty, i)) = k - 1]
  OBVIOUS
<1>7. \A k \in DOMAIN s : p[k] \in DOMAIN s /\ Cardinality(Ahead(s, penalty, p[k])) = k - 1
  <2>1. ASSUME NEW k \in DOMAIN s
        PROVE  p[k] \in DOMAIN s /\ Cardinality(Ahead(s, penalty, p[k])) = k - 1
    <3>1. p[k] = CHOOSE i \in DOMAIN s : Cardinality(Ahead(s, penalty, i)) = k - 1
      BY <1>6
    <3>2. QED BY <1>5, <3>1
  <2>2. QED BY <2>1
<1>8. r = [k \in DOMAIN s |-> s[p[k]]]
  BY <1>6 DEF Ranking
<1>9. r \in Seq(Route) /\ Len(r) = Len(s) /\ DOMAIN r = DOMAIN s
  <2>1. \A k \in 1 .. n : s[p[k]] \in Route
    <3>1. ASSUME NEW k \in 1 .. n PROVE s[p[k]] \in Route
      <4>1. p[k] \in DOMAIN s
        BY <1>1, <1>7
      <4>2. QED BY <4>1
    <3>2. QED BY <3>1
  <2>2. PICK R : R = Route
    OBVIOUS
  <2>3. r = [k \in 1 .. n |-> s[p[k]]] /\ \A k \in 1 .. n : s[p[k]] \in R
    BY <1>1, <1>8, <2>1, <2>2
  <2>4. r \in Seq(R) /\ Len(r) = n
    BY <2>3
  <2>5. QED BY <1>1, <1>8, <2>2, <2>4
<1>10. \A k, l \in DOMAIN s : p[k] = p[l] => k = l
  <2>1. ASSUME NEW k \in DOMAIN s, NEW l \in DOMAIN s, p[k] = p[l] PROVE k = l
    <3>1. k - 1 = l - 1
      BY <1>7, <2>1
    <3>2. QED BY <1>1, <3>1
  <2>2. QED BY <2>1
<1>11. ASSUME Len(s) > 0 PROVE BestOf(s, DOMAIN s, penalty, p[1])
  <2>1. 1 \in DOMAIN s
    BY <1>1, <1>11
  <2>2. PICK i \in DOMAIN s : i = p[1] /\ Cardinality(Ahead(s, penalty, i)) = 0
    BY <1>7, <2>1
  <2>3. Ahead(s, penalty, i) = {}
    <3>1. Ahead(s, penalty, i) \subseteq DOMAIN s
      BY DEF Ahead
    <3>2. IsFiniteSet(Ahead(s, penalty, i))
      BY <1>2, <3>1, FS_Subset
    <3>3. QED BY <2>2, <3>2, FS_EmptySet
  <2>4. ASSUME NEW j \in DOMAIN s
        PROVE  \/ Score(s[i], penalty) < Score(s[j], penalty)
               \/ Score(s[i], penalty) = Score(s[j], penalty) /\ i <= j
    <3>1. PICK x \in Int, y \in Int : x = Score(s[j], penalty) /\ y = Score(s[i], penalty)
      BY ScoresOf
    <3>2. ~(x < y \/ (x = y /\ j < i))
      BY <2>3, <3>1 DEF Ahead
    <3>3. QED BY <1>1, <3>1, <3>2
  <2>5. QED BY <2>2, <2>4 DEF BestOf
<1>12. Takes(r, s, p)
  BY <1>7, <1>8, <1>10 DEF Takes
<1>13. QED BY <1>9, <1>11, <1>12

-----------------------------------------------------------------------------
(* Resolve. *)

\* The routes that a request asks for in a scope, and the scopes it allows.
Wanted(q, scope) == {x \in Route : Matches(x, FilterOf(q)) /\ InScope(x, q, scope)}

Allowed(q) == {s \in {"site", "region", "global"} :
                 /\ Rank(s) <= Rank(q.maxScope)
                 /\ s = "site" => q.site # NoTag
                 /\ s = "region" => q.region # NoTag}

Fresh == {x \in Route : ~Expired(x, clock)}

Fit(f) == {x \in Route : Matches(x, f)}

LEMMA SievesAre ==
  ASSUME NEW rs \in Seq(Route)
  PROVE  /\ Unexpired(rs) = Sieve(rs, Fresh)
         /\ \A f : FilterRoutes(rs, f) = Sieve(rs, Fit(f))
<1>1. \A i \in DOMAIN rs : rs[i] \in Route
  OBVIOUS
<1>2. {i \in DOMAIN rs : ~Expired(rs[i], clock)} = Those(rs, Fresh)
  BY <1>1 DEF Those, Fresh
<1>3. ASSUME NEW f PROVE {i \in DOMAIN rs : Matches(rs[i], f)} = Those(rs, Fit(f))
  BY <1>1 DEF Those, Fit
<1>4. QED BY <1>2, <1>3 DEF Unexpired, FilterRoutes, Sieve

LEMMA ScopeIsRanking ==
  ASSUME NEW rs \in Seq(Route), NEW q, NEW scope
  PROVE  SelectScope(Unexpired(rs), q, scope) = Ranking(Sieve(rs, Wanted(q, scope)), q.penalty)
<1>1. PICK G : G = {x \in Route : InScope(x, q, scope)}
  OBVIOUS
<1>2. PICK F : F = Fit(FilterOf(q))
  OBVIOUS
<1>3. PICK u \in Seq(Route) : u = Unexpired(rs) /\ u = Sieve(rs, Fresh)
  BY SievesAre, SieveFacts
<1>4. {i \in DOMAIN u : InScope(u[i], q, scope)} = Those(u, G)
  <2>1. \A i \in DOMAIN u : u[i] \in Route
    OBVIOUS
  <2>2. QED BY <1>1, <2>1 DEF Those
<1>5. PICK c \in Seq(Route) : c = Sieve(u, G)
  BY SieveFacts
<1>6. PICK m \in Seq(Route) : m = FilterRoutes(c, FilterOf(q)) /\ m = Sieve(c, F)
  BY <1>2, SievesAre, SieveFacts
<1>7. c = Sieve(rs, G \cap Fresh)
  BY <1>3, <1>5, SieveTwice
<1>8. m = Sieve(rs, F \cap (G \cap Fresh))
  BY <1>6, <1>7, SieveTwice
<1>9. F \cap (G \cap Fresh) = Wanted(q, scope)
  BY <1>1, <1>2 DEF Wanted, Fit, Fresh, Matches
<1>10. SelectScope(u, q, scope) = RankedRoutes(c, FilterOf(q), q.penalty)
  BY <1>4, <1>5 DEF SelectScope, Sieve
<1>11. RankedRoutes(c, FilterOf(q), q.penalty) = Ranking(m, q.penalty)
  BY <1>6 DEF RankedRoutes, Ranking, Ahead
<1>12. QED BY <1>3, <1>8, <1>9, <1>10, <1>11

LEMMA RankIs == Rank("site") = 1 /\ Rank("region") = 2 /\ Rank("global") = 3
BY DEF Rank

\* The scopes are tried from the narrowest to the widest that is allowed.
LEMMA ScopesFacts ==
  ASSUME NEW q \in Query, NEW tried, tried = Scopes(q)
  PROVE  /\ \A k \in DOMAIN tried : k \in Nat /\ tried[k] \in Allowed(q)
         /\ \A s \in Allowed(q) : \E k \in DOMAIN tried : tried[k] = s
         /\ \A k, l \in DOMAIN tried : k < l => Rank(tried[k]) < Rank(tried[l])
         /\ IsFiniteSet(DOMAIN tried)
<1>1. PICK N : N = {"site", "region", "global"}
  OBVIOUS
<1>2. PICK all \in Seq(N) : all = <<"site", "region", "global">>
  <2>1. "site" \in N /\ "region" \in N /\ "global" \in N
    BY <1>1
  <2>2. <<"site", "region", "global">> \in Seq(N)
    BY <2>1
  <2>3. QED BY <2>2
<1>3. /\ DOMAIN all = 1 .. 3 /\ \A i \in 1 .. 3 : all[i] \in N /\ Rank(all[i]) = i
      /\ \A s \in N : \E i \in 1 .. 3 : all[i] = s
  <2>1. DOMAIN all = 1 .. 3 /\ all[1] = "site" /\ all[2] = "region" /\ all[3] = "global"
    BY <1>2
  <2>2. 1 .. 3 = {1, 2, 3}
    OBVIOUS
  <2>3. QED BY <1>1, <2>1, <2>2, RankIs
<1>4. PICK T : /\ tried = At(all, T)
               /\ \A i : i \in T <=> /\ i \in DOMAIN all
                                     /\ Rank(all[i]) <= Rank(q.maxScope)
                                     /\ all[i] = "site" => q.site # NoTag
                                     /\ all[i] = "region" => q.region # NoTag
  <2>1. PICK T : T = {i \in DOMAIN <<"site", "region", "global">> :
                        /\ Rank(<<"site", "region", "global">>[i]) <= Rank(q.maxScope)
                        /\ <<"site", "region", "global">>[i] = "site" => q.site # NoTag
                        /\ <<"site", "region", "global">>[i] = "region" => q.region # NoTag}
    OBVIOUS
  <2>2. tried = At(<<"site", "region", "global">>, T)
    BY <2>1 DEF Scopes
  <2>3. QED BY <1>2, <2>1, <2>2
<1>5. T \subseteq DOMAIN all
  BY <1>4
<1>6. tried = At(all, T)
  BY <1>4
<1>7. PICK n \in Nat : \E p : InOrder(tried, all, T, n, p)
  BY <1>5, <1>6, AtOrder
<1>8. PICK p : InOrder(tried, all, T, n, p)
  BY <1>7
<1>9. /\ p \in [1 .. n -> T]
      /\ tried = [k \in 1 .. n |-> all[p[k]]]
      /\ \A k, l \in 1 .. n : k < l => p[k] < p[l]
      /\ \A i \in T : \E k \in 1 .. n : p[k] = i
  BY <1>8 DEF InOrder
<1>10. DOMAIN tried = 1 .. n /\ \A k \in 1 .. n : p[k] \in T /\ tried[k] = all[p[k]]
  BY <1>9
<1>11. \A i \in T : i \in 1 .. 3 /\ all[i] \in Allowed(q) /\ Rank(all[i]) = i
  <2>1. ASSUME NEW i \in T PROVE i \in 1 .. 3 /\ all[i] \in Allowed(q) /\ Rank(all[i]) = i
    <3>1. /\ i \in 1 .. 3 /\ Rank(all[i]) <= Rank(q.maxScope)
          /\ all[i] = "site" => q.site # NoTag
          /\ all[i] = "region" => q.region # NoTag
      BY <1>3, <1>4
    <3>2. all[i] \in N /\ Rank(all[i]) = i
      BY <1>3, <3>1
    <3>3. QED BY <1>1, <3>1, <3>2 DEF Allowed
  <2>2. QED BY <2>1
<1>12. ASSUME NEW s \in Allowed(q) PROVE \E k \in DOMAIN tried : tried[k] = s
  <2>1. s \in N
    BY <1>1 DEF Allowed
  <2>2. PICK i \in 1 .. 3 : all[i] = s
    BY <1>3, <2>1
  <2>3. i \in T
    BY <1>3, <1>4, <2>2 DEF Allowed
  <2>4. PICK k \in 1 .. n : p[k] = i
    BY <1>9, <2>3
  <2>5. QED BY <1>10, <2>2, <2>4
<1>13. \A k, l \in DOMAIN tried : (k < l) => (Rank(tried[k]) < Rank(tried[l]))
  BY <1>9, <1>10, <1>11
<1>14. IsFiniteSet(DOMAIN tried) /\ \A k \in DOMAIN tried : k \in Nat
  <2>1. IsFiniteSet(1 .. n)
    BY FirstNumbers
  <2>2. QED BY <1>10, <2>1
<1>15. QED BY <1>10, <1>11, <1>12, <1>13, <1>14

\* What resolve answers: an error, or the ranking of the narrowest scope that has a route.
Answers(rs, q, s, a) ==
  /\ s \in Allowed(q)
  /\ Those(rs, Wanted(q, s)) # {}
  /\ \A z \in Allowed(q) : Rank(z) < Rank(s) => Those(rs, Wanted(q, z)) = {}
  /\ \E found : /\ found = Ranking(Sieve(rs, Wanted(q, s)), q.penalty)
                /\ a = [status |-> 200, scope |-> s, route |-> found[1],
                        alternatives |-> SubSeq(found, 2, IF 1 + q.alternatives < Len(found)
                                                            THEN 1 + q.alternatives
                                                            ELSE Len(found))]

LEMMA ResolveFacts ==
  ASSUME NEW rs \in Seq(Route), NEW q \in Query, NEW a, a = resolveRoute(Unexpired(rs), q)
  PROVE  \/ Rank(q.maxScope) < Rank(BaseScope(q)) /\ a = [status |-> 400]
         \/ /\ ~(Rank(q.maxScope) < Rank(BaseScope(q)))
            /\ \A s \in Allowed(q) : Those(rs, Wanted(q, s)) = {}
            /\ a = [status |-> 404]
         \/ /\ ~(Rank(q.maxScope) < Rank(BaseScope(q)))
            /\ \E s : Answers(rs, q, s, a)
<1>1. PICK u : u = Unexpired(rs)
  OBVIOUS
<1>2. PICK tried : tried = Scopes(q)
  OBVIOUS
<1>3. PICK hits : hits = {i \in DOMAIN tried : SelectScope(u, q, tried[i]) # <<>>}
  OBVIOUS
<1>4. PICK first : first = CHOOSE i \in hits : \A j \in hits : i <= j
  OBVIOUS
<1>5. PICK found : found = SelectScope(u, q, tried[first])
  OBVIOUS
<1>6. a = CASE Rank(q.maxScope) < Rank(BaseScope(q)) -> [status |-> 400]
            [] Rank(q.maxScope) >= Rank(BaseScope(q)) /\ hits = {} -> [status |-> 404]
            [] OTHER -> [status |-> 200, scope |-> tried[first], route |-> found[1],
                         alternatives |-> SubSeq(found, 2, IF 1 + q.alternatives < Len(found)
                                                             THEN 1 + q.alternatives
                                                             ELSE Len(found))]
  BY <1>1, <1>2, <1>3, <1>4, <1>5 DEF resolveRoute
<1>7. Rank(q.maxScope) \in Int /\ Rank(BaseScope(q)) \in Int
  <2>1. q.maxScope \in {"site", "region", "global"}
    BY DEF Query
  <2>2. BaseScope(q) \in {"site", "region", "global"}
    BY DEF BaseScope
  <2>3. QED BY <2>1, <2>2, RankIs
<1>8. PICK bad \in BOOLEAN : bad <=> Rank(q.maxScope) < Rank(BaseScope(q))
  OBVIOUS
<1>9. ~bad <=> Rank(q.maxScope) >= Rank(BaseScope(q))
  BY <1>7, <1>8
<1>10. \A k \in DOMAIN tried : k \in hits <=> Those(rs, Wanted(q, tried[k])) # {}
  <2>1. ASSUME NEW k \in DOMAIN tried PROVE k \in hits <=> Those(rs, Wanted(q, tried[k])) # {}
    <3>1. PICK r : r = Ranking(Sieve(rs, Wanted(q, tried[k])), q.penalty)
      OBVIOUS
    <3>2. SelectScope(u, q, tried[k]) = r
      BY <1>1, <3>1, ScopeIsRanking
    <3>3. PICK w \in Seq(Route) : w = Sieve(rs, Wanted(q, tried[k]))
      BY SieveFacts
    <3>4. q.penalty \in Nat
      BY DEF Query
    <3>5. r \in Seq(Route) /\ Len(r) = Len(w)
      BY <3>1, <3>3, <3>4, RankingFacts
    <3>6. r # <<>> <=> Len(w) > 0
      BY <3>3, <3>5
    <3>7. Len(w) > 0 <=> Those(rs, Wanted(q, tried[k])) # {}
      BY <3>3, SieveSize
    <3>8. QED BY <1>3, <3>2, <3>6, <3>7
  <2>2. QED BY <2>1
<1>11. CASE bad
  <2>1. a = [status |-> 400]
    BY <1>6, <1>8, <1>9, <1>11
  <2>2. QED BY <1>8, <1>11, <2>1
<1>12. CASE ~bad /\ hits = {}
  <2>1. a = [status |-> 404]
    BY <1>6, <1>8, <1>9, <1>12
  <2>2. \A s \in Allowed(q) : Those(rs, Wanted(q, s)) = {}
    <3>1. \A s \in Allowed(q) : \E k \in DOMAIN tried : tried[k] = s
      BY <1>2, ScopesFacts
    <3>2. QED BY <1>10, <1>12, <3>1
  <2>3. QED BY <1>8, <1>12, <2>1, <2>2
<1>13. CASE ~bad /\ hits # {}
  <2>1. hits \subseteq Nat /\ hits \subseteq DOMAIN tried
    BY <1>2, <1>3, ScopesFacts
  <2>2. \E i \in hits : \A j \in hits : i <= j
    BY <1>13, <2>1, LeastNat
  <2>3. first \in hits /\ \A j \in hits : first <= j
    BY <1>4, <2>2
  <2>4. PICK s : s = tried[first] /\ s \in Allowed(q) /\ Those(rs, Wanted(q, s)) # {}
    BY <1>2, <1>10, <2>1, <2>3, ScopesFacts
  <2>5. ASSUME NEW z \in Allowed(q), Rank(z) < Rank(s) PROVE Those(rs, Wanted(q, z)) = {}
    <3>1. PICK k \in DOMAIN tried : tried[k] = z /\ k \in Nat
      BY <1>2, ScopesFacts
    <3>2. first \in DOMAIN tried /\ first \in Nat
      BY <2>1, <2>3
    <3>3. Rank(z) \in Int /\ Rank(s) \in Int
      BY <2>4, RankIs DEF Allowed
    <3>4. ~(first <= k)
      <4>1. first < k => Rank(s) < Rank(z)
        BY <1>2, <2>4, <3>1, <3>2, ScopesFacts
      <4>2. first # k
        BY <2>4, <2>5, <3>1, <3>3
      <4>3. QED BY <2>5, <3>1, <3>2, <3>3, <4>1, <4>2
    <3>5. k \notin hits
      BY <2>3, <3>4
    <3>6. QED BY <1>10, <3>1, <3>5
  <2>6. found = Ranking(Sieve(rs, Wanted(q, s)), q.penalty)
    BY <1>1, <1>5, <2>4, ScopeIsRanking
  <2>7. a = [status |-> 200, scope |-> s, route |-> found[1],
             alternatives |-> SubSeq(found, 2, IF 1 + q.alternatives < Len(found)
                                                 THEN 1 + q.alternatives
                                                 ELSE Len(found))]
    BY <1>6, <1>8, <1>13, <2>4
  <2>8. Answers(rs, q, s, a)
    BY <2>4, <2>5, <2>6, <2>7 DEF Answers
  <2>9. QED BY <1>8, <1>13, <2>8
<1>14. QED BY <1>11, <1>12, <1>13

-----------------------------------------------------------------------------
(* What resolve answers. *)

\* No two routes of a list are the same one.
Distinct(s) == \A i, j \in DOMAIN s : s[i].id = s[j].id => i = j

LEMMA DistinctAt ==
  ASSUME NEW s \in Seq(Route), Distinct(s), NEW T, T \subseteq DOMAIN s
  PROVE  Distinct(At(s, T))
<1>1. PICK r : r = At(s, T)
  OBVIOUS
<1>2. PICK p : /\ \A k \in DOMAIN r : p[k] \in T /\ r[k] = s[p[k]]
               /\ \A k, l \in DOMAIN r : p[k] = p[l] => k = l
  BY <1>1, AtPlaces
<1>3. ASSUME NEW k \in DOMAIN r, NEW l \in DOMAIN r, r[k].id = r[l].id PROVE k = l
  <2>1. PICK i \in DOMAIN s, j \in DOMAIN s : i = p[k] /\ j = p[l]
    BY <1>2
  <2>2. s[i].id = s[j].id
    BY <1>2, <1>3, <2>1
  <2>3. i = j
    BY <2>2 DEF Distinct
  <2>4. QED BY <1>2, <2>1, <2>3
<1>4. QED BY <1>1, <1>3 DEF Distinct

\* The answer is the first of the best routes of its scope.
LEMMA AnswerIsBest ==
  ASSUME NEW rs \in Seq(Route), NEW q \in Query, NEW s, NEW a, Answers(rs, q, s, a)
  PROVE  /\ a.status = 200 /\ a.scope = s /\ s \in Allowed(q)
         /\ \E i : BestOf(rs, Those(rs, Wanted(q, s)), q.penalty, i) /\ rs[i] = a.route
<1>1. PICK found : /\ found = Ranking(Sieve(rs, Wanted(q, s)), q.penalty)
                   /\ a = [status |-> 200, scope |-> s, route |-> found[1],
                           alternatives |-> SubSeq(found, 2, IF 1 + q.alternatives < Len(found)
                                                               THEN 1 + q.alternatives
                                                               ELSE Len(found))]
  BY DEF Answers
<1>2. PICK G : G = Wanted(q, s)
  OBVIOUS
<1>3. PICK w \in Seq(Route) : w = Sieve(rs, G)
  BY SieveFacts
<1>4. Len(w) > 0
  BY <1>2, <1>3, SieveSize DEF Answers
<1>5. PICK pen \in Nat : pen = q.penalty
  BY DEF Query
<1>6. found = Ranking(w, pen)
  BY <1>1, <1>2, <1>3, <1>5
<1>7. PICK p : Takes(found, w, p) /\ (Len(w) > 0 => BestOf(w, DOMAIN w, pen, p[1]))
  BY <1>6, RankingFacts
<1>8. 1 \in DOMAIN w
  BY <1>3, <1>4
<1>9. PICK k : k = p[1] /\ found[1] = w[k] /\ BestOf(w, DOMAIN w, pen, k)
  BY <1>4, <1>7, <1>8 DEF Takes
<1>10. \E i : BestOf(rs, Those(rs, G), pen, i) /\ rs[i] = w[k]
  BY <1>3, <1>9, BestThrough
<1>11. a.route = w[k] /\ a.status = 200 /\ a.scope = s
  BY <1>1, <1>9
<1>12. s \in Allowed(q)
  BY DEF Answers
<1>13. QED BY <1>2, <1>5, <1>10, <1>11, <1>12

\* The alternatives are other routes, and no more than were asked for.
LEMMA OthersDiffer ==
  ASSUME NEW rs \in Seq(Route), Distinct(rs), NEW q \in Query, NEW s, NEW a, Answers(rs, q, s, a)
  PROVE  /\ Len(a.alternatives) <= q.alternatives
         /\ \A k \in DOMAIN a.alternatives : a.alternatives[k].id # a.route.id
<1>1. PICK found, end : /\ found = Ranking(Sieve(rs, Wanted(q, s)), q.penalty)
                        /\ end = IF 1 + q.alternatives < Len(found) THEN 1 + q.alternatives
                                                                   ELSE Len(found)
                        /\ a = [status |-> 200, scope |-> s, route |-> found[1],
                                alternatives |-> SubSeq(found, 2, end)]
  BY DEF Answers
<1>2. PICK G : G = Wanted(q, s)
  OBVIOUS
<1>3. PICK w \in Seq(Route) : w = Sieve(rs, G)
  BY SieveFacts
<1>4. Len(w) > 0 /\ Len(w) \in Nat
  BY <1>2, <1>3, SieveSize DEF Answers
<1>5. PICK pen \in Nat : pen = q.penalty
  BY DEF Query
<1>6. PICK most \in Nat : most = q.alternatives
  BY DEF Query
<1>7. found = Ranking(w, pen)
  BY <1>1, <1>2, <1>3, <1>5
<1>8. found \in Seq(Route) /\ Len(found) = Len(w)
  BY <1>7, RankingFacts
<1>9. PICK p : Takes(found, w, p)
  BY <1>7, RankingFacts
<1>10. PICK n \in Nat : n = Len(found) /\ n > 0 /\ DOMAIN w = 1 .. n
  <2>1. PICK n \in Nat : n = Len(w) /\ DOMAIN w = 1 .. n
    OBVIOUS
  <2>2. QED BY <1>4, <1>8, <2>1
<1>11. end \in 1 .. n /\ end <= 1 + most
  BY <1>1, <1>6, <1>10
<1>12. Distinct(w)
  <2>1. Those(rs, G) \subseteq DOMAIN rs
    BY DEF Those
  <2>2. QED BY <1>3, <2>1, DistinctAt DEF Sieve
<1>13. PICK alts : alts = SubSeq(found, 2, end) /\ alts = a.alternatives
  BY <1>1
<1>14. alts = [k \in 1 .. end - 1 |-> found[k + 1]] /\ Len(alts) = end - 1
  <2>1. PICK R : R = Route /\ found \in Seq(R)
    BY <1>8
  <2>2. \A k \in 2 .. end : found[k] \in R
    <3>1. ASSUME NEW k \in 2 .. end PROVE found[k] \in R
      <4>1. k \in 1 .. Len(found)
        BY <1>10, <1>11
      <4>2. QED BY <2>1, <4>1, ElementOfSeq
    <3>2. QED BY <3>1
  <2>3. alts = [k \in 1 .. end - 2 + 1 |-> found[2 + k - 1]]
    BY <1>11, <1>13 DEF SubSeq
  <2>4. end - 2 + 1 = end - 1 /\ \A k \in 1 .. end - 1 : 2 + k - 1 = k + 1
    BY <1>11
  <2>5. alts = [k \in 1 .. end - 1 |-> found[k + 1]]
    BY <2>3, <2>4
  <2>6. end - 1 \in Nat
    BY <1>11
  <2>7. QED BY <2>5, <2>6
<1>15. Len(alts) <= most
  BY <1>11, <1>14
<1>16. ASSUME NEW k \in DOMAIN alts PROVE alts[k].id # found[1].id
  <2>1. k \in 1 .. end - 1 /\ alts[k] = found[k + 1]
    BY <1>14
  <2>2. 1 \in 1 .. n /\ k + 1 \in 1 .. n /\ k + 1 # 1
    BY <1>10, <1>11, <2>1
  <2>3. PICK i \in DOMAIN w, j \in DOMAIN w : i = p[1] /\ j = p[k + 1] /\ found[1] = w[i]
                                             /\ found[k + 1] = w[j] /\ i # j
    BY <1>9, <1>10, <2>2 DEF Takes
  <2>4. w[i].id # w[j].id
    BY <1>12, <2>3 DEF Distinct
  <2>5. QED BY <2>1, <2>3, <2>4
<1>17. a.route = found[1]
  BY <1>1
<1>18. QED BY <1>6, <1>13, <1>15, <1>16, <1>17

\* A request, defaults and all, has the type of one.
LEMMA MergeType ==
  ASSUME RoutesAssumption, NEW b \in Requests
  PROVE  MergeResolve(b.defaults, b.item) \in Query
<1>1. PICK d \in Query, e \in Item : d = b.defaults /\ e = b.item
  BY DEF RoutesAssumption
<1>2. PICK m : m = MergeResolve(d, e)
  OBVIOUS
<1>3. DOMAIN d = {"region", "site", "maxScope", "alternatives", "maxLatency", "minThroughput",
                  "satellite", "penalty"}
  BY DEF Query
<1>4. m = [k \in {"region", "site", "maxScope", "alternatives", "maxLatency", "minThroughput",
                  "satellite", "penalty"} |-> IF e[k] # Unset THEN e[k] ELSE d[k]]
  BY <1>2, <1>3 DEF MergeResolve
<1>5. /\ m.region \in Tag \cup {NoTag} /\ m.site \in Tag \cup {NoTag}
      /\ m.maxScope \in {"site", "region", "global"} /\ m.alternatives \in Nat
  BY <1>4 DEF Query, Item
<1>6. /\ m.maxLatency \in Nat /\ m.minThroughput \in Nat
      /\ m.satellite \in BOOLEAN \cup {Unset} /\ m.penalty \in Nat
  BY <1>4 DEF Query, Item
<1>7. m = [region |-> m.region, site |-> m.site, maxScope |-> m.maxScope,
           alternatives |-> m.alternatives, maxLatency |-> m.maxLatency,
           minThroughput |-> m.minThroughput, satellite |-> m.satellite, penalty |-> m.penalty]
  BY <1>4
<1>8. m \in Query
  BY <1>5, <1>6, <1>7 DEF Query
<1>9. QED BY <1>1, <1>2, <1>8

\* What the answer to a request has to be.
RightAnswer(q, a) ==
  LET fits(s) == {i \in DOMAIN routes : Matches(routes[i], FilterOf(q)) /\ InScope(routes[i], q, s)}
  IN
  /\ a.status = 200 =>
       /\ a.scope \in Allowed(q)
       /\ \E i \in fits(a.scope) : routes[i] = a.route
       /\ \A i \in fits(a.scope) : Score(a.route, q.penalty) <= Score(routes[i], q.penalty)
       /\ \A s \in Allowed(q) : Rank(s) < Rank(a.scope) => fits(s) = {}
       /\ Len(a.alternatives) <= q.alternatives
       /\ \A k \in DOMAIN a.alternatives : a.alternatives[k].id # a.route.id
  /\ a.status = 404 => \A s \in Allowed(q) : fits(s) = {}
  /\ a.status \notin {200, 404} => Rank(q.maxScope) < Rank(BaseScope(q))

\* Resolve answers the narrowest scope that has a match, and its best.
LEMMA NarrowestIsResolved ==
  ASSUME RoutesAssumption, routes \in Seq(Route), Distinct(routes)
  PROVE  ResolvesNarrowest
<1>1. ASSUME NEW b \in Requests, NEW q0, q0 = MergeResolve(b.defaults, b.item)
      PROVE  RightAnswer(q0, Resolve(q0))
  <2>1. PICK q \in Query : q = MergeResolve(b.defaults, b.item) /\ q = q0
    BY <1>1, MergeType
  <2>2. PICK a : a = Resolve(q) /\ a = resolveRoute(Unexpired(routes), q)
    BY DEF Resolve
  <2>3. DEFINE fits(s) == {i \in DOMAIN routes : /\ Matches(routes[i], FilterOf(q))
                                                /\ InScope(routes[i], q, s)}
               wanted == {s \in {"site", "region", "global"} :
                            /\ Rank(s) <= Rank(q.maxScope)
                            /\ s = "site" => q.site # NoTag
                            /\ s = "region" => q.region # NoTag}
               right == /\ a.scope \in wanted
                        /\ \E i \in fits(a.scope) : routes[i] = a.route
                        /\ \A i \in fits(a.scope) :
                             Score(a.route, q.penalty) <= Score(routes[i], q.penalty)
                        /\ \A s \in wanted : Rank(s) < Rank(a.scope) => fits(s) = {}
                        /\ Len(a.alternatives) <= q.alternatives
                        /\ \A k \in DOMAIN a.alternatives : a.alternatives[k].id # a.route.id
               bad == Rank(q.maxScope) < Rank(BaseScope(q))
  <2>4. wanted = Allowed(q)
    BY DEF Allowed
  <2>5. ASSUME NEW s PROVE fits(s) = Those(routes, Wanted(q, s))
    <3>1. \A i \in DOMAIN routes : routes[i] \in Route
      OBVIOUS
    <3>2. QED BY <3>1 DEF Those, Wanted
  <2>6. q.penalty \in Nat
    BY DEF Query
  <2>7. ASSUME NEW s, Answers(routes, q, s, a) PROVE a.status = 200 /\ right
    <3>1. /\ a.status = 200 /\ a.scope = s /\ s \in wanted
          /\ \E i : BestOf(routes, fits(s), q.penalty, i) /\ routes[i] = a.route
      <4>1. /\ a.status = 200 /\ a.scope = s /\ s \in Allowed(q)
            /\ \E i : BestOf(routes, Those(routes, Wanted(q, s)), q.penalty, i) /\ routes[i] = a.route
        BY <2>7, AnswerIsBest
      <4>2. fits(s) = Those(routes, Wanted(q, s))
        BY <2>5
      <4> HIDE DEF fits, wanted
      <4>3. QED BY <2>4, <4>1, <4>2
    <3>2. PICK i : BestOf(routes, fits(s), q.penalty, i) /\ routes[i] = a.route
      BY <3>1
    <3> HIDE DEF fits, wanted
    <3>3. i \in fits(s)
      BY <3>2 DEF BestOf
    <3>4. \A k \in fits(s) : Score(a.route, q.penalty) <= Score(routes[k], q.penalty)
      <4>1. fits(s) \subseteq DOMAIN routes
        BY DEF fits
      <4>2. \A k \in DOMAIN routes : Score(routes[k], q.penalty) \in Int
        BY <2>6, ScoresOf
      <4>3. \A k \in fits(s) : \/ Score(routes[i], q.penalty) < Score(routes[k], q.penalty)
                               \/ Score(routes[i], q.penalty) = Score(routes[k], q.penalty)
        BY <3>2 DEF BestOf
      <4>4. QED BY <3>2, <3>3, <4>1, <4>2, <4>3
    <3>5. \A z \in wanted : Rank(z) < Rank(s) => fits(z) = {}
      BY <2>4, <2>5, <2>7 DEF Answers
    <3>6. /\ Len(a.alternatives) <= q.alternatives
          /\ \A k \in DOMAIN a.alternatives : a.alternatives[k].id # a.route.id
      BY <2>7, OthersDiffer
    <3>7. QED BY <3>1, <3>2, <3>3, <3>4, <3>5, <3>6
  <2>8. \/ bad /\ a.status = 400
        \/ (\A s \in wanted : fits(s) = {}) /\ a.status = 404
        \/ right /\ a.status = 200
    <3> HIDE DEF fits, wanted, right
    <3>1. \/ bad /\ a = [status |-> 400]
          \/ (\A s \in Allowed(q) : Those(routes, Wanted(q, s)) = {}) /\ a = [status |-> 404]
          \/ \E s : Answers(routes, q, s, a)
      BY <2>2, ResolveFacts
    <3>2. CASE a = [status |-> 400] /\ bad
      BY <3>2
    <3>3. CASE a = [status |-> 404] /\ \A s \in Allowed(q) : Those(routes, Wanted(q, s)) = {}
      BY <2>4, <2>5, <3>3
    <3>4. CASE \E s : Answers(routes, q, s, a)
      BY <2>7, <3>4
    <3>5. QED BY <3>1, <3>2, <3>3, <3>4
  <2>9. RightAnswer(q, a)
    <3> HIDE DEF wanted
    <3>1. CASE a.status = 200
      BY <2>4, <2>8, <3>1 DEF RightAnswer
    <3>2. CASE a.status # 200
      BY <2>4, <2>8, <3>2 DEF RightAnswer
    <3>3. QED BY <3>1, <3>2
  <2>10. QED BY <2>1, <2>2, <2>9
<1>2. ASSUME NEW q, NEW a, RightAnswer(q, a)
      PROVE  LET fits(s) == {i \in DOMAIN routes : /\ Matches(routes[i], FilterOf(q))
                                                  /\ InScope(routes[i], q, s)}
                 wanted == {s \in {"site", "region", "global"} :
                              /\ Rank(s) <= Rank(q.maxScope)
                              /\ s = "site" => q.site # NoTag
                              /\ s = "region" => q.region # NoTag}
             IN
             CASE a.status = 200 ->
                    /\ a.scope \in wanted
                    /\ \E i \in fits(a.scope) : routes[i] = a.route
                    /\ \A i \in fits(a.scope) :
                         Score(a.route, q.penalty) <= Score(routes[i], q.penalty)
                    /\ \A s \in wanted : Rank(s) < Rank(a.scope) => fits(s) = {}
                    /\ Len(a.alternatives) <= q.alternatives
                    /\ \A k \in DOMAIN a.alternatives : a.alternatives[k].id # a.route.id
               [] a.status = 404 -> \A s \in wanted : fits(s) = {}
               [] OTHER -> Rank(q.maxScope) < Rank(BaseScope(q))
  <2>1. CASE a.status = 200
    BY <1>2, <2>1 DEF RightAnswer, Allowed
  <2>2. CASE a.status = 404
    BY <1>2, <2>2 DEF RightAnswer, Allowed
  <2>3. CASE a.status \notin {200, 404}
    BY <1>2, <2>3 DEF RightAnswer, Allowed
  <2>4. QED BY <2>1, <2>2, <2>3
<1>3. \A b \in Requests :
        RightAnswer(MergeResolve(b.defaults, b.item), Resolve(MergeResolve(b.defaults, b.item)))
  BY <1>1
<1>4. QED BY <1>2, <1>3 DEF ResolvesNarrowest

-----------------------------------------------------------------------------
(* The views agree. *)

OfRegion(g) == {x \in Route : x.region = g}
OfSite(s) == {x \in Route : x.site = s}

LEMMA GroupsAre ==
  ASSUME NEW m \in Seq(Route)
  PROVE  /\ \A g : InRegion(m, g) = Sieve(m, OfRegion(g))
         /\ \A s : AtSite(m, s) = Sieve(m, OfSite(s))
<1>1. \A i \in DOMAIN m : m[i] \in Route
  OBVIOUS
<1>2. ASSUME NEW g PROVE {i \in DOMAIN m : m[i].region = g} = Those(m, OfRegion(g))
  BY <1>1 DEF Those, OfRegion
<1>3. ASSUME NEW s PROVE {i \in DOMAIN m : m[i].site = s} = Those(m, OfSite(s))
  BY <1>1 DEF Those, OfSite
<1>4. QED BY <1>2, <1>3 DEF InRegion, AtSite, Sieve

\* The list that the views look at.
LEMMA MatchingIs ==
  ASSUME NEW rs \in Seq(Route), NEW f
  PROVE  FilterRoutes(Unexpired(rs), f) = Sieve(rs, Fit(f))
<1>1. PICK u \in Seq(Route) : u = Unexpired(rs) /\ u = Sieve(rs, Fresh)
  BY SievesAre, SieveFacts
<1>2. PICK F : F = Fit(f)
  OBVIOUS
<1>3. FilterRoutes(u, f) = Sieve(u, F)
  BY <1>2, SievesAre
<1>4. Sieve(u, F) = Sieve(rs, F \cap Fresh)
  BY <1>1, SieveTwice
<1>5. F \cap Fresh = F
  BY <1>2 DEF Fit, Fresh, Matches
<1>6. QED BY <1>1, <1>2, <1>3, <1>4, <1>5

\* What a topology says of the list that it was made from, and what statistics do.
TopologyOf(t, m, penalty) ==
  /\ t.total = Len(m) /\ DOMAIN t.regions = RegionsOf(m)
  /\ \A g \in RegionsOf(m) :
       /\ t.regions[g].count = Len(InRegion(m, g))
       /\ t.regions[g].best = Best(InRegion(m, g), penalty)
       /\ DOMAIN t.regions[g].sites = SitesOf(InRegion(m, g))
       /\ \A s \in SitesOf(InRegion(m, g)) :
            /\ t.regions[g].sites[s].count = Len(AtSite(InRegion(m, g), s))
            /\ t.regions[g].sites[s].best = Best(AtSite(InRegion(m, g), s), penalty)

StatsOf(st, m) ==
  /\ \A g \in RegionsOf(m) : st.byRegion[g].count = Len(InRegion(m, g))
  /\ \A s \in SitesOf(m) : st.bySite[s].count = Len(AtSite(m, s))

LEMMA TopologyFacts ==
  ASSUME NEW u, NEW f, NEW penalty
  PROVE  TopologyOf(Topology(u, f, penalty), FilterRoutes(u, f), penalty)
<1>m. PICK m : m = FilterRoutes(u, f)
  OBVIOUS
<1>t. PICK t : t = Topology(u, f, penalty)
  OBVIOUS
<1>1. PICK rows : rows = [g \in RegionsOf(m) |->
         [count |-> Len(InRegion(m, g)), best |-> Best(InRegion(m, g), penalty),
          sites |-> [s \in SitesOf(InRegion(m, g)) |->
            [count |-> Len(AtSite(InRegion(m, g), s)),
             best |-> Best(AtSite(InRegion(m, g), s), penalty)]]]]
  OBVIOUS
<1>2. t = [total |-> Len(m), untagged |-> Len(InRegion(m, NoTag)), regions |-> rows]
  BY <1>m, <1>t, <1>1 DEF Topology
<1>3. DOMAIN rows = RegionsOf(m) /\ t.regions = rows /\ t.total = Len(m)
  BY <1>1, <1>2
<1>4. ASSUME NEW g \in RegionsOf(m)
      PROVE  /\ rows[g].count = Len(InRegion(m, g))
             /\ rows[g].best = Best(InRegion(m, g), penalty)
             /\ DOMAIN rows[g].sites = SitesOf(InRegion(m, g))
             /\ \A s \in SitesOf(InRegion(m, g)) :
                  /\ rows[g].sites[s].count = Len(AtSite(InRegion(m, g), s))
                  /\ rows[g].sites[s].best = Best(AtSite(InRegion(m, g), s), penalty)
  <2>1. PICK w : w = InRegion(m, g)
    OBVIOUS
  <2>2. PICK sites : sites = [s \in SitesOf(w) |-> [count |-> Len(AtSite(w, s)),
                                                    best |-> Best(AtSite(w, s), penalty)]]
    OBVIOUS
  <2>3. rows[g] = [count |-> Len(w), best |-> Best(w, penalty), sites |-> sites]
    BY <1>1, <2>1, <2>2
  <2>4. \A s \in SitesOf(w) : /\ sites[s].count = Len(AtSite(w, s))
                              /\ sites[s].best = Best(AtSite(w, s), penalty)
    BY <2>2
  <2>5. DOMAIN sites = SitesOf(w)
    BY <2>2
  <2>6. QED BY <2>1, <2>3, <2>4, <2>5
<1>5. TopologyOf(t, m, penalty)
  BY <1>3, <1>4 DEF TopologyOf
<1>6. QED BY <1>m, <1>t, <1>5

LEMMA StatsFacts == ASSUME NEW u, NEW f PROVE StatsOf(Stats(u, f), FilterRoutes(u, f))
<1>m. PICK m : m = FilterRoutes(u, f)
  OBVIOUS
<1>t. PICK st : st = Stats(u, f)
  OBVIOUS
<1>1. PICK a, b : /\ a = [g \in RegionsOf(m) |-> Bucket(InRegion(m, g))]
                  /\ b = [s \in SitesOf(m) |-> Bucket(AtSite(m, s))]
  OBVIOUS
<1>2. st.byRegion = a /\ st.bySite = b
  BY <1>m, <1>t, <1>1 DEF Stats
<1>3. \A w : Bucket(w).count = Len(w)
  BY DEF Bucket
<1>4. StatsOf(st, m)
  BY <1>1, <1>2, <1>3 DEF StatsOf
<1>5. QED BY <1>m, <1>t, <1>4

\* What the one pass over a whole group finds is the best of the group.
LEMMA GroupBest ==
  ASSUME RoutesAssumption, NEW rs \in Seq(Route), NEW G, G \subseteq Fresh, NEW penalty \in Nat,
         Those(rs, G) # {}
  PROVE  \E i : BestOf(rs, Those(rs, G), penalty, i) /\ rs[i] = Best(Sieve(rs, G), penalty)
<1>1. PICK w \in Seq(Route) : w = Sieve(rs, G) /\ \A k \in DOMAIN w : w[k] \in G
  BY SieveFacts
<1>2. PICK n \in Nat : n = Len(w) /\ DOMAIN w = 1 .. n
  BY <1>1
<1>3. n > 0
  BY <1>1, <1>2, SieveSize
<1>4. PICK k : k = selectBestRoute(w, Anything, penalty)
  OBVIOUS
<1>5. {j \in 1 .. n : Matches(w[j], Anything)} = DOMAIN w
  <2>1. ASSUME NEW j \in DOMAIN w PROVE Matches(w[j], Anything)
    <3>1. ~Expired(w[j], clock)
      BY <1>1 DEF Fresh
    <3>2. ~(Anything.maxLatency > 0) /\ ~(Anything.minThroughput > 0) /\ Anything.satellite = Unset
      BY DEF Anything
    <3>3. QED BY <3>1, <3>2 DEF Matches
  <2>2. QED BY <1>2, <2>1
<1>6. BestSoFar(w, Anything, penalty, n, k)
  BY <1>2, <1>4, PassFinds
<1>7. DOMAIN w # {}
  <2>1. 1 \in 1 .. n
    BY <1>3
  <2>2. QED BY <1>2, <2>1
<1>8. BestOf(w, DOMAIN w, penalty, k)
  BY <1>5, <1>6, <1>7 DEF BestSoFar
<1>9. \E i : BestOf(rs, Those(rs, G), penalty, i) /\ rs[i] = w[k]
  BY <1>1, <1>8, BestThrough
<1>10. Best(w, penalty) = w[k]
  BY <1>4 DEF Best
<1>11. QED BY <1>1, <1>9, <1>10

\* A request that allows one scope, with a match, gets the best of it.
LEMMA OneScope ==
  ASSUME NEW rs \in Seq(Route), NEW q \in Query, NEW s, Allowed(q) = {s},
         ~(Rank(q.maxScope) < Rank(BaseScope(q))), Those(rs, Wanted(q, s)) # {}
  PROVE  \E i : /\ BestOf(rs, Those(rs, Wanted(q, s)), q.penalty, i)
                /\ rs[i] = resolveRoute(Unexpired(rs), q).route
<1>1. PICK a : a = resolveRoute(Unexpired(rs), q)
  OBVIOUS
<1>2. \E z : Answers(rs, q, z, a)
  BY <1>1, ResolveFacts
<1>3. PICK z : Answers(rs, q, z, a)
  BY <1>2
<1>4. /\ z \in Allowed(q)
      /\ \E i : BestOf(rs, Those(rs, Wanted(q, z)), q.penalty, i) /\ rs[i] = a.route
  BY <1>3, AnswerIsBest
<1>5. z = s
  BY <1>4
<1>6. QED BY <1>1, <1>4, <1>5

\* Both ways to the best of a group give the same route.
LEMMA SameBest ==
  ASSUME NEW rs \in Seq(Route), NEW G, NEW penalty \in Nat, NEW x, NEW y,
         \E i : BestOf(rs, Those(rs, G), penalty, i) /\ rs[i] = x,
         \E i : BestOf(rs, Those(rs, G), penalty, i) /\ rs[i] = y
  PROVE  x = y
<1>1. PICK i : BestOf(rs, Those(rs, G), penalty, i) /\ rs[i] = x
  OBVIOUS
<1>2. PICK k : BestOf(rs, Those(rs, G), penalty, k) /\ rs[k] = y
  OBVIOUS
<1>3. Those(rs, G) \subseteq DOMAIN rs
  BY DEF Those
<1>4. i = k
  BY <1>1, <1>2, <1>3, BestUnique
<1>5. QED BY <1>1, <1>2, <1>4

\* A batch of one answers as the single request does, and counts it once.
LEMMA BatchOfOne ==
  ASSUME routes \in Seq(Route), NEW defaults, NEW item,
         NEW q \in Query, q = MergeResolve(defaults, item)
  PROVE  LET batch == ResolveBatch(defaults, <<item>>)
         IN  batch.results[1] = Resolve(q) /\ batch.ok + batch.not_found + batch.invalid = 1
<1>1. PICK a : a = Resolve(q) /\ a = resolveRoute(Unexpired(routes), q)
  BY DEF Resolve
<1>2. a.status \in {200, 404, 400}
  <2>1. a = [status |-> 400] \/ a = [status |-> 404] \/ \E s : Answers(routes, q, s, a)
    BY <1>1, ResolveFacts
  <2>2. CASE \E s : Answers(routes, q, s, a)
    BY <2>2, AnswerIsBest
  <2>3. QED BY <2>1, <2>2
<1>3. PICK results : results = [i \in DOMAIN <<item>> |->
                                  resolveRoute(Unexpired(routes), MergeResolve(defaults, <<item>>[i]))]
  OBVIOUS
<1>4. DOMAIN <<item>> = {1} /\ <<item>>[1] = item
  OBVIOUS
<1>5. results[1] = a
  BY <1>1, <1>3, <1>4
<1>6. DEFINE count(S) == Cardinality({i \in DOMAIN <<item>> : results[i].status \in S})
<1>7. ASSUME NEW S PROVE count(S) = IF a.status \in S THEN 1 ELSE 0
  <2>1. {i \in DOMAIN <<item>> : results[i].status \in S} = IF a.status \in S THEN {1} ELSE {}
    BY <1>4, <1>5
  <2>2. Cardinality({1}) = 1 /\ Cardinality({}) = 0
    BY FS_Singleton, FS_EmptySet
  <2>3. CASE a.status \in S
    BY <2>1, <2>2, <2>3
  <2>4. CASE a.status \notin S
    BY <2>1, <2>2, <2>4
  <2>5. QED BY <2>3, <2>4
<1>8. ResolveBatch(defaults, <<item>>) =
        [results |-> results, ok |-> count({200}), not_found |-> count({404}),
         invalid |-> count({400})]
  BY <1>3 DEF ResolveBatch
<1> HIDE DEF count
<1>9. count({200}) + count({404}) + count({400}) = 1
  <2>1. CASE a.status = 200
    BY <1>7, <2>1
  <2>2. CASE a.status = 404
    BY <1>7, <2>2
  <2>3. CASE a.status = 400
    BY <1>7, <2>3
  <2>4. QED BY <1>2, <2>1, <2>2, <2>3
<1>10. QED BY <1>1, <1>5, <1>8, <1>9

\* q2 asks like q, but for the routes of G only.
Narrows(q2, q, scope, G) ==
  /\ FilterOf(q2) = FilterOf(q) /\ q2.penalty = q.penalty
  /\ Allowed(q2) = {scope} /\ ~(Rank(q2.maxScope) < Rank(BaseScope(q2)))
  /\ \A x \in Route : InScope(x, q2, scope) <=> x \in G

\* A group of the matching routes: its best, by one pass and by /routes/resolve.
LEMMA NarrowAgrees ==
  ASSUME RoutesAssumption, routes \in Seq(Route), NEW q \in Query, NEW q2 \in Query, NEW scope, NEW G,
         Narrows(q2, q, scope, G),
         NEW H, H = G \cap Fit(FilterOf(q)), Those(routes, H) # {}
  PROVE  /\ \E i : /\ BestOf(routes, Those(routes, H), q.penalty, i)
                   /\ routes[i] = Best(Sieve(routes, H), q.penalty)
         /\ Resolve(q2).route = Best(Sieve(routes, H), q.penalty)
<1>1. PICK pen \in Nat : pen = q.penalty
  BY DEF Query
<1>2. H = Wanted(q2, scope)
  BY DEF Wanted, Fit, Narrows
<1>3. H \subseteq Fresh
  BY DEF Fit, Fresh, Matches
<1>4. PICK y : y = Best(Sieve(routes, H), pen)
  OBVIOUS
<1>5. \E i : BestOf(routes, Those(routes, H), pen, i) /\ routes[i] = y
  <2>1. \E i : BestOf(routes, Those(routes, H), pen, i) /\ routes[i] = Best(Sieve(routes, H), pen)
    BY ONLY RoutesAssumption, routes \in Seq(Route), pen \in Nat, <1>3,
            Those(routes, H) # {}, GroupBest
  <2>2. QED BY <1>4, <2>1
<1>6. PICK x : x = resolveRoute(Unexpired(routes), q2).route
  OBVIOUS
<1>7. \E i : BestOf(routes, Those(routes, H), pen, i) /\ routes[i] = x
  <2>1. Allowed(q2) = {scope} /\ ~(Rank(q2.maxScope) < Rank(BaseScope(q2))) /\ pen = q2.penalty
    BY <1>1 DEF Narrows
  <2>2. QED BY <1>2, <1>6, <2>1, OneScope
<1>8. x = y
  BY <1>5, <1>7, SameBest
<1>9. QED BY <1>1, <1>4, <1>5, <1>6, <1>8 DEF Resolve

\* Everything in a group when it has as many entries as the list.
LEMMA WholeGroup ==
  ASSUME NEW m \in Seq(Route), NEW G, Len(Sieve(m, G)) = Len(m)
  PROVE  \A k \in DOMAIN m : m[k] \in G
<1>1. PICK n \in Nat : n = Len(m) /\ DOMAIN m = 1 .. n
  OBVIOUS
<1>2. IsFiniteSet(DOMAIN m) /\ Cardinality(DOMAIN m) = n
  <2>1. IsFiniteSet(1 .. n) /\ Cardinality(1 .. n) = n
    BY FirstNumbers
  <2>2. QED BY <1>1, <2>1
<1>3. Cardinality(Those(m, G)) = n /\ Those(m, G) \subseteq DOMAIN m
  BY <1>1, SieveSize, SieveFacts
<1>4. Those(m, G) = DOMAIN m
  BY <1>2, <1>3, FS_Subset
<1>5. QED BY <1>4 DEF Those

\* What the views of one request, a topology, statistics and a batch, must have in common.
SameViews(q, t, st, batch) ==
  /\ batch.results[1] = Resolve(q) /\ batch.ok + batch.not_found + batch.invalid = 1
  /\ BestRoute(q).status = 200 <=> t.total > 0
  /\ \A g \in DOMAIN t.regions :
       /\ Resolve([q EXCEPT !.region = g, !.site = NoTag, !.maxScope = "region"]).route
            = t.regions[g].best
       /\ st.byRegion[g].count = t.regions[g].count
       /\ t.regions[g].count = t.total => BestRoute(q).route = t.regions[g].best
       /\ \A s \in DOMAIN t.regions[g].sites :
            /\ Resolve([q EXCEPT !.region = g, !.site = s, !.maxScope = "site"]).route
                 = t.regions[g].sites[s].best
            /\ t.regions[g].sites[s].count <= st.bySite[s].count

LEMMA ViewsAreOne ==
  ASSUME RoutesAssumption, routes \in Seq(Route)
  PROVE  ViewsAgree
<1>1. ASSUME NEW b \in Requests, NEW q0, q0 = MergeResolve(b.defaults, b.item)
      PROVE  SameViews(q0, Topology(Unexpired(routes), FilterOf(q0), q0.penalty),
                       Stats(Unexpired(routes), FilterOf(q0)), ResolveBatch(b.defaults, <<b.item>>))
  <2>1. PICK q \in Query : q = MergeResolve(b.defaults, b.item) /\ q = q0
    BY <1>1, MergeType
  <2>2. PICK f : f = FilterOf(q)
    OBVIOUS
  <2>3. PICK pen \in Nat : pen = q.penalty
    BY DEF Query
  <2>4. PICK F : F = Fit(f)
    OBVIOUS
  <2>5. PICK m \in Seq(Route) : m = FilterRoutes(Unexpired(routes), f) /\ m = Sieve(routes, F)
    BY <2>4, MatchingIs, SieveFacts
  <2>6. PICK t : t = Topology(Unexpired(routes), f, pen)
    OBVIOUS
  <2>7. PICK st : st = Stats(Unexpired(routes), f)
    OBVIOUS
  <2>8. TopologyOf(t, m, pen) /\ StatsOf(st, m)
    <3>1. PICK u : u = Unexpired(routes)
      OBVIOUS
    <3>2. TopologyOf(Topology(u, f, pen), FilterRoutes(u, f), pen)
      BY ONLY TopologyFacts
    <3>3. StatsOf(Stats(u, f), FilterRoutes(u, f))
      BY ONLY StatsFacts
    <3>4. QED BY <2>5, <2>6, <2>7, <3>1, <3>2, <3>3
  <2>9. PICK batch : batch = ResolveBatch(b.defaults, <<b.item>>)
    OBVIOUS
  <2>10. batch.results[1] = Resolve(q) /\ batch.ok + batch.not_found + batch.invalid = 1
    <3>1. PICK defaults, item : defaults = b.defaults /\ item = b.item
      OBVIOUS
    <3>2. q = MergeResolve(defaults, item)
      BY <2>1, <3>1
    <3>3. PICK x : x = ResolveBatch(defaults, <<item>>)
      OBVIOUS
    <3>4. x.results[1] = Resolve(q) /\ x.ok + x.not_found + x.invalid = 1
      BY ONLY routes \in Seq(Route), q \in Query, <3>2, <3>3, BatchOfOne
    <3>5. QED BY <2>9, <3>1, <3>3, <3>4
  <2>11. t.total = Len(m) /\ DOMAIN t.regions = RegionsOf(m)
    BY <2>8 DEF TopologyOf
  <2>12. PICK k : k = selectBestRoute(routes, f, pen)
    OBVIOUS
  <2>13. /\ Those(routes, F) = {} => k = 0
         /\ Those(routes, F) # {} => BestOf(routes, Those(routes, F), pen, k) /\ k # 0
    <3>1. BestSoFar(routes, f, pen, Len(routes), k)
      BY <2>12, PassFinds
    <3>2. PICK T : T = Those(routes, F)
      OBVIOUS
    <3>3. {j \in 1 .. Len(routes) : Matches(routes[j], f)} = T
      <4>1. DOMAIN routes = 1 .. Len(routes) /\ \A j \in DOMAIN routes : routes[j] \in Route
        OBVIOUS
      <4>2. QED BY <2>4, <3>2, <4>1 DEF Those, Fit
    <3>4. IF T = {} THEN k = 0 ELSE BestOf(routes, T, pen, k)
      BY <3>1, <3>3 DEF BestSoFar
    <3>5. T \subseteq 1 .. Len(routes)
      BY <3>3
    <3>6. T # {} => k \in T
      BY <3>4 DEF BestOf
    <3>7. QED BY <3>2, <3>4, <3>5, <3>6
  <2>14. BestRoute(q) = IF k = 0 THEN [status |-> 404] ELSE [status |-> 200, route |-> routes[k]]
    BY <2>2, <2>3, <2>12 DEF BestRoute
  <2>15. BestRoute(q).status = 200 <=> t.total > 0
    <3>1. Len(m) > 0 <=> Those(routes, F) # {}
      BY <2>5, SieveSize
    <3>2. BestRoute(q).status = 200 <=> k # 0
      BY <2>14
    <3>3. QED BY <2>11, <2>13, <3>1, <3>2
  <2>16. ASSUME NEW g \in RegionsOf(m)
         PROVE  /\ Resolve([q EXCEPT !.region = g, !.site = NoTag, !.maxScope = "region"]).route
                     = t.regions[g].best
                /\ st.byRegion[g].count = t.regions[g].count
                /\ t.regions[g].count = t.total => BestRoute(q).route = t.regions[g].best
                /\ \A s \in DOMAIN t.regions[g].sites :
                     /\ Resolve([q EXCEPT !.region = g, !.site = s, !.maxScope = "site"]).route
                          = t.regions[g].sites[s].best
                     /\ t.regions[g].sites[s].count <= st.bySite[s].count
    <3>1. g # NoTag /\ g \in Tag /\ \E i \in DOMAIN m : m[i].region = g
      <4>1. PICK i \in DOMAIN m : m[i].region = g /\ g # NoTag
        BY DEF RegionsOf
      <4>2. m[i] \in Route
        OBVIOUS
      <4>3. QED BY <4>1, <4>2 DEF Route
    <3>2. PICK R : R = OfRegion(g)
      OBVIOUS
    <3>3. PICK w \in Seq(Route) : w = InRegion(m, g) /\ w = Sieve(m, R)
      BY <3>2, GroupsAre, SieveFacts
    <3>4. PICK H : H = R \cap F
      OBVIOUS
    <3>5. w = Sieve(routes, H)
      BY <2>5, <3>3, <3>4, SieveTwice
    <3>6. Those(routes, H) # {}
      <4>1. PICK i \in DOMAIN m : m[i].region = g /\ m[i] \in Route
        BY <3>1
      <4>2. i \in Those(m, R)
        BY <3>2, <4>1 DEF Those, OfRegion
      <4>3. Len(w) > 0
        BY <3>3, <4>2, SieveSize
      <4>4. QED BY <3>5, <4>3, SieveSize
    <3>7. /\ t.regions[g].count = Len(w) /\ t.regions[g].best = Best(w, pen)
          /\ DOMAIN t.regions[g].sites = SitesOf(w)
          /\ \A s \in SitesOf(w) : /\ t.regions[g].sites[s].count = Len(AtSite(w, s))
                                   /\ t.regions[g].sites[s].best = Best(AtSite(w, s), pen)
      BY <2>8, <3>3 DEF TopologyOf
    <3>8. PICK q2 : q2 = [q EXCEPT !.region = g, !.site = NoTag, !.maxScope = "region"]
      OBVIOUS
    <3>9. /\ q2 \in Query /\ FilterOf(q2) = FilterOf(q) /\ q2.penalty = q.penalty
          /\ q2.region = g /\ q2.site = NoTag /\ q2.maxScope = "region"
      BY <3>1, <3>8 DEF Query, FilterOf
    <3>10. /\ Allowed(q2) = {"region"} /\ ~(Rank(q2.maxScope) < Rank(BaseScope(q2)))
           /\ \A x \in Route : InScope(x, q2, "region") <=> x \in R
      <4>1. BaseScope(q2) = "region"
        BY <3>1, <3>9 DEF BaseScope
      <4>2. \A x \in Route : InScope(x, q2, "region") <=> x \in R
        BY <3>2, <3>9 DEF InScope, OfRegion
      <4>3. Allowed(q2) = {"region"}
        BY <3>1, <3>9, RankIs DEF Allowed
      <4>4. QED BY <3>9, <4>1, <4>2, <4>3, RankIs
    <3>11. /\ \E i : BestOf(routes, Those(routes, H), pen, i) /\ routes[i] = Best(w, pen)
           /\ Resolve(q2).route = Best(w, pen)
      <4>1. Narrows(q2, q, "region", R)
        BY <3>9, <3>10 DEF Narrows
      <4>2. H = R \cap Fit(FilterOf(q))
        BY <2>2, <2>4, <3>4
      <4>3. QED BY <2>3, <3>5, <3>6, <3>9, <4>1, <4>2, NarrowAgrees
    <3>12. st.byRegion[g].count = Len(w)
      BY <2>8, <3>3 DEF StatsOf
    <3>13. ASSUME Len(w) = Len(m) PROVE BestRoute(q).route = Best(w, pen)
      <4>1. \A i \in DOMAIN m : m[i] \in R
        BY <3>3, <3>13, WholeGroup
      <4>2. Those(routes, H) = Those(routes, F)
        <5>1. ASSUME NEW i \in Those(routes, F) PROVE i \in Those(routes, H)
          <6>1. PICK T : T = Those(routes, F) /\ m = At(routes, T)
            BY <2>5 DEF Sieve
          <6>2. T \subseteq DOMAIN routes
            BY <6>1 DEF Those
          <6>3. \E j \in DOMAIN m : m[j] = routes[i]
            BY <6>1, <6>2, AtFacts
          <6>4. routes[i] \in R
            BY <4>1, <6>3
          <6>5. QED BY <3>4, <6>4 DEF Those
        <5>2. Those(routes, H) \subseteq Those(routes, F)
          BY <3>4 DEF Those
        <5>3. QED BY <5>1, <5>2
      <4>3. BestOf(routes, Those(routes, F), pen, k) /\ k # 0
        BY <2>13, <3>6, <4>2
      <4>4. PICK y : y = Best(w, pen)
        OBVIOUS
      <4>5. \E i : BestOf(routes, Those(routes, F), pen, i) /\ routes[i] = y
        BY <3>11, <4>2, <4>4
      <4>6. PICK x : x = routes[k]
        OBVIOUS
      <4>7. \E i : BestOf(routes, Those(routes, F), pen, i) /\ routes[i] = x
        BY <4>3, <4>6
      <4>8. x = y
        BY <4>5, <4>7, SameBest
      <4>9. QED BY <2>14, <4>3, <4>4, <4>6, <4>8
    <3>14. ASSUME NEW s \in SitesOf(w)
           PROVE  /\ Resolve([q EXCEPT !.region = g, !.site = s, !.maxScope = "site"]).route
                       = Best(AtSite(w, s), pen)
                  /\ Len(AtSite(w, s)) <= st.bySite[s].count
      <4>1. s # NoTag /\ s \in Tag /\ \E i \in DOMAIN w : w[i].site = s
        <5>1. PICK i \in DOMAIN w : w[i].site = s /\ s # NoTag
          BY DEF SitesOf
        <5>2. w[i] \in Route
          OBVIOUS
        <5>3. QED BY <5>1, <5>2 DEF Route
      <4>2. PICK S : S = OfSite(s)
        OBVIOUS
      <4>3. PICK v \in Seq(Route) : v = AtSite(w, s) /\ v = Sieve(w, S)
        BY <4>2, GroupsAre, SieveFacts
      <4>4. PICK G : G = S \cap R
        OBVIOUS
      <4>5. PICK K : K = G \cap F
        OBVIOUS
      <4>6. v = Sieve(routes, K)
        <5>1. v = Sieve(routes, S \cap H)
          BY <3>5, <4>3, SieveTwice
        <5>2. S \cap H = K
          BY <3>4, <4>4, <4>5
        <5>3. QED BY <5>1, <5>2
      <4>7. Those(routes, K) # {}
        <5>1. PICK i \in DOMAIN w : w[i].site = s /\ w[i] \in Route
          BY <4>1
        <5>2. i \in Those(w, S)
          BY <4>2, <5>1 DEF Those, OfSite
        <5>3. Len(v) > 0
          BY <4>3, <5>2, SieveSize
        <5>4. QED BY <4>6, <5>3, SieveSize
      <4>8. PICK q3 : q3 = [q EXCEPT !.region = g, !.site = s, !.maxScope = "site"]
        OBVIOUS
      <4>9. /\ q3 \in Query /\ FilterOf(q3) = FilterOf(q) /\ q3.penalty = q.penalty
            /\ q3.region = g /\ q3.site = s /\ q3.maxScope = "site"
        BY <3>1, <4>1, <4>8 DEF Query, FilterOf
      <4>10. /\ Allowed(q3) = {"site"} /\ ~(Rank(q3.maxScope) < Rank(BaseScope(q3)))
             /\ \A x \in Route : InScope(x, q3, "site") <=> x \in G
        <5>1. BaseScope(q3) = "site"
          BY <4>1, <4>9 DEF BaseScope
        <5>2. \A x \in Route : InScope(x, q3, "site") <=> x \in G
          BY <3>1, <3>2, <4>2, <4>4, <4>9 DEF InScope, OfRegion, OfSite
        <5>3. Allowed(q3) = {"site"}
          BY <4>1, <4>9, RankIs DEF Allowed
        <5>4. QED BY <4>9, <5>1, <5>2, <5>3, RankIs
      <4>11. Resolve(q3).route = Best(v, pen)
        <5>1. Narrows(q3, q, "site", G)
          BY <4>9, <4>10 DEF Narrows
        <5>2. K = G \cap Fit(FilterOf(q))
          BY <2>2, <2>4, <4>5
        <5>3. QED BY <2>3, <4>6, <4>7, <4>9, <5>1, <5>2, NarrowAgrees
      <4>12. s \in SitesOf(m)
        <5>1. PICK i \in DOMAIN w : w[i].site = s
          BY <4>1
        <5>2. \E j \in DOMAIN m : w[i] = m[j]
          <6>1. PICK T : T = Those(m, R) /\ w = At(m, T)
            BY <3>3 DEF Sieve
          <6>2. T \subseteq DOMAIN m
            BY <6>1 DEF Those
          <6>3. QED BY <6>1, <6>2, AtFacts
        <5>3. QED BY <4>1, <5>1, <5>2 DEF SitesOf
      <4>13. st.bySite[s].count = Len(AtSite(m, s))
        BY <2>8, <4>12 DEF StatsOf
      <4>14. AtSite(m, s) = Sieve(m, S)
        BY <4>2, GroupsAre
      <4>15. v = Sieve(m, G)
        BY <3>3, <4>3, <4>4, SieveTwice
      <4>16. /\ Len(v) = Cardinality(Those(m, G)) /\ Len(AtSite(m, s)) = Cardinality(Those(m, S))
             /\ IsFiniteSet(Those(m, S))
        BY <4>14, <4>15, SieveSize
      <4>17. Those(m, G) \subseteq Those(m, S)
        BY <4>4 DEF Those
      <4>18. Cardinality(Those(m, G)) <= Cardinality(Those(m, S))
        BY <4>16, <4>17, FS_Subset
      <4>19. QED BY <4>3, <4>8, <4>11, <4>13, <4>16, <4>18
    <3>15. QED BY <2>11, <3>7, <3>8, <3>11, <3>12, <3>13, <3>14
  <2>17. \A g \in DOMAIN t.regions :
           /\ Resolve([q EXCEPT !.region = g, !.site = NoTag, !.maxScope = "region"]).route
                = t.regions[g].best
           /\ st.byRegion[g].count = t.regions[g].count
           /\ t.regions[g].count = t.total => BestRoute(q).route = t.regions[g].best
           /\ \A s \in DOMAIN t.regions[g].sites :
                /\ Resolve([q EXCEPT !.region = g, !.site = s, !.maxScope = "site"]).route
                     = t.regions[g].sites[s].best
                /\ t.regions[g].sites[s].count <= st.bySite[s].count
    BY <2>11, <2>16
  <2>18. /\ t = Topology(Unexpired(routes), FilterOf(q), q.penalty)
         /\ st = Stats(Unexpired(routes), FilterOf(q))
    BY <2>2, <2>6, <2>7, <2>3
  <2>19. SameViews(q, t, st, batch)
    BY <2>10, <2>15, <2>17 DEF SameViews
  <2>20. QED BY <2>1, <2>9, <2>18, <2>19
<1>2. QED BY <1>1 DEF ViewsAgree, SameViews

-----------------------------------------------------------------------------
(* The ids that tell duplicates apart do. *)

\* Every route of a list has a number of its own, and a new one will be new.
Numbered(rs, n) == Distinct(rs) /\ \A i \in DOMAIN rs : rs[i].id < n

IdsOK ==
  /\ Numbered(routes, nextId) /\ Numbered(saved, nextId)
  /\ \A h \in Handler : pc[h] = "save" => Numbered(req[h].copy, nextId)

LEMMA NumberedLater ==
  ASSUME NEW rs \in Seq(Route), NEW n \in Nat, Numbered(rs, n)
  PROVE  Numbered(rs, n + 1)
<1>1. \A i \in DOMAIN rs : rs[i].id \in Nat
  <2>1. \A i \in DOMAIN rs : rs[i] \in Route
    OBVIOUS
  <2>2. QED BY <2>1 DEF Route
<1>2. QED BY <1>1 DEF Numbered

LEMMA NumberedAt ==
  ASSUME NEW rs \in Seq(Route), NEW n, Numbered(rs, n), NEW T, T \subseteq DOMAIN rs
  PROVE  Numbered(At(rs, T), n)
<1>1. Distinct(At(rs, T))
  BY DistinctAt DEF Numbered
<1>2. \A k \in DOMAIN At(rs, T) : \E i \in T : At(rs, T)[k] = rs[i]
  BY AtFacts
<1>3. QED BY <1>1, <1>2 DEF Numbered

LEMMA NumberedAlive ==
  ASSUME NEW rs \in Seq(Route), NEW n, Numbered(rs, n)
  PROVE  Numbered(Unexpired(rs), n)
<1>1. PICK T : T = {i \in DOMAIN rs : ~Expired(rs[i], clock)}
  OBVIOUS
<1>2. T \subseteq DOMAIN rs /\ Unexpired(rs) = At(rs, T)
  BY <1>1 DEF Unexpired
<1>3. QED BY <1>2, NumberedAt

LEMMA NumberedDeleted ==
  ASSUME NEW rs \in Seq(Route), NEW n, Numbered(rs, n), NEW d
  PROVE  Numbered(DeleteRoute(rs, d), n)
<1>1. CASE First(rs, d) = 0
  BY <1>1 DEF DeleteRoute
<1>2. CASE First(rs, d) # 0
  <2>1. PICK T : T = DOMAIN rs \ {First(rs, d)}
    OBVIOUS
  <2>2. DeleteRoute(rs, d) = At(rs, T) /\ T \subseteq DOMAIN rs
    BY <1>2, <2>1 DEF DeleteRoute
  <2>3. QED BY <2>2, NumberedAt
<1>3. QED BY <1>1, <1>2

LEMMA NumberedAppended ==
  ASSUME NEW rs \in Seq(Route), NEW n \in Nat, Numbered(rs, n), NEW x \in Route, x.id = n
  PROVE  Numbered(Append(rs, x), n + 1)
<1>1. PICK m \in Nat : m = Len(rs) + 1
  OBVIOUS
<1>2. PICK r : r = Append(rs, x)
  OBVIOUS
<1>3. /\ DOMAIN r = DOMAIN rs \cup {m} /\ m \notin DOMAIN rs
      /\ r[m] = x /\ \A i \in DOMAIN rs : r[i] = rs[i]
  <2> HIDE DEF Route
  <2>1. QED BY <1>1, <1>2
<1>4. \A i \in DOMAIN rs : rs[i].id \in Nat /\ rs[i].id < n
  <2>1. \A i \in DOMAIN rs : rs[i] \in Route
    OBVIOUS
  <2>2. QED BY <2>1 DEF Route, Numbered
<1>5. \A i \in DOMAIN r : r[i].id < n + 1
  BY <1>3, <1>4
<1>6. ASSUME NEW i \in DOMAIN r, NEW j \in DOMAIN r, r[i].id = r[j].id PROVE i = j
  <2>1. CASE i \in DOMAIN rs /\ j \in DOMAIN rs
    BY <1>3, <1>6, <2>1 DEF Numbered, Distinct
  <2>2. CASE i = m \/ j = m
    BY <1>3, <1>4, <1>6, <2>2
  <2>3. QED BY <1>3, <2>1, <2>2
<1>7. QED BY <1>2, <1>5, <1>6 DEF Numbered, Distinct

LEMMA NumberedUpdated ==
  ASSUME NEW rs, NEW n, Numbered(rs, n), NEW new, DOMAIN new = DOMAIN rs,
         \A i \in DOMAIN rs : new[i].id = rs[i].id
  PROVE  Numbered(new, n)
BY DEF Numbered, Distinct

\* Where a copy that waits to be written comes from.
CopyFrom(k) ==
  pc'[k] = "save" => \/ pc[k] = "save" /\ req'[k].copy = req[k].copy
                     \/ req'[k].copy \in Seq(Route) /\ Numbered(req'[k].copy, nextId)

\* What a step may do to the lists, and the ids stay apart.
LEMMA IdsFrom ==
  ASSUME RoutesAssumption, RoutesInv, RoutesInv', IdsOK,
         nextId' \in {nextId, nextId + 1}, Numbered(routes', nextId'),
         Numbered(saved', nextId), \A k \in Handler : CopyFrom(k)
  PROVE  IdsOK'
<1>1. nextId \in Nat /\ \A k \in Handler : pc[k] = "save" => req[k].copy \in Seq(Route)
  BY Unpack, JobFacts
<1>2. \A rs \in Seq(Route) : Numbered(rs, nextId) => Numbered(rs, nextId')
  BY <1>1, NumberedLater
<1>3. Numbered(saved', nextId')
  <2>1. saved' \in Seq(Route)
    BY DEF RoutesInv, RouteTypes, TableTypeOK
  <2>2. QED BY <1>2, <2>1
<1>4. \A k \in Handler : pc'[k] = "save" => Numbered(req'[k].copy, nextId')
  BY <1>1, <1>2 DEF IdsOK, CopyFrom
<1>5. QED BY <1>3, <1>4 DEF IdsOK

LEMMA IdsStep ==
  ASSUME RoutesAssumption, RoutesInv, RoutesInv', IdsOK, [RoutesNext]_routesVars
  PROVE  IdsOK'
<1>1. /\ routes \in Seq(Route) /\ saved \in Seq(Route) /\ saved' \in Seq(Route) /\ nextId \in Nat
      /\ \A k \in Handler : pc[k] = "save" => req[k].copy \in Seq(Route)
  <2>1. saved' \in Seq(Route)
    BY DEF RoutesInv, RouteTypes, TableTypeOK
  <2>2. QED BY <2>1, Unpack, JobFacts
<1>2. /\ pc \in [Handler -> {"idle", "refused", "change", "save", "update"}]
      /\ req \in [Handler -> Job \cup {Idle}]
  BY DEF RoutesInv, RouteTypes, TableTypeOK, JobsOK
<1>3. Numbered(routes, nextId) /\ Numbered(Unexpired(routes), nextId) /\ Numbered(saved, nextId)
  BY <1>1, NumberedAlive DEF IdsOK
<1>4. ASSUME NEW h \in Handler, NEW r, NEW at, Begin(h, r, at), at # "save",
             saved' = saved, nextId' = nextId, routes' = routes \/ routes' = Unexpired(routes)
      PROVE  IdsOK'
  <2>1. pc' = [pc EXCEPT ![h] = at] /\ req' = [req EXCEPT ![h] = r]
    BY <1>4 DEF Begin
  <2>2. \A k \in Handler : CopyFrom(k)
    BY <1>2, <1>4, <2>1 DEF CopyFrom
  <2>3. nextId' \in {nextId, nextId + 1} /\ Numbered(routes', nextId') /\ Numbered(saved', nextId)
    BY <1>3, <1>4
  <2>4. QED BY <2>2, <2>3, IdsFrom
<1>5. ASSUME NEW h \in Handler, Done(h), routes' = routes, nextId' = nextId,
             saved' = saved \/ Numbered(saved', nextId)
      PROVE  IdsOK'
  <2>1. pc' = [pc EXCEPT ![h] = "idle"] /\ req' = [req EXCEPT ![h] = Idle]
    BY <1>5 DEF Done, Goto
  <2>2. \A k \in Handler : CopyFrom(k)
    BY <1>2, <2>1 DEF CopyFrom
  <2>3. nextId' \in {nextId, nextId + 1} /\ Numbered(routes', nextId') /\ Numbered(saved', nextId)
    BY <1>3, <1>5
  <2>4. QED BY <2>2, <2>3, IdsFrom
<1>6. ASSUME pc' = pc, req' = req, saved' = saved, nextId' = nextId,
             routes' = routes \/ routes' = Unexpired(routes)
      PROVE  IdsOK'
  <2>1. \A k \in Handler : CopyFrom(k)
    BY <1>6 DEF CopyFrom
  <2>2. nextId' \in {nextId, nextId + 1} /\ Numbered(routes', nextId') /\ Numbered(saved', nextId)
    BY <1>3, <1>6
  <2>3. QED BY <2>1, <2>2, IdsFrom
<1>7. ASSUME NEW h \in Handler, NEW entries \in Offers, PostRoutes(h, entries) PROVE IdsOK'
  <2>1. PICK r, at : Begin(h, r, at) /\ at # "save"
    BY <1>7 DEF PostRoutes
  <2>2. saved' = saved /\ nextId' = nextId /\ routes' = Unexpired(routes)
    BY <1>7 DEF PostRoutes
  <2>3. QED BY <1>4, <2>1, <2>2
<1>8. ASSUME NEW h \in Handler,
             \/ \E dsts \in Deletions : DeleteRoutes(h, dsts)
             \/ \E p \in Patches : PatchRead(h, p)
             \/ ImportRoutes(h)
      PROVE  IdsOK'
  <2>1. \E r, at : Begin(h, r, at) /\ at # "save"
    <3>1. CASE \E dsts \in Deletions : DeleteRoutes(h, dsts)
      BY <3>1 DEF DeleteRoutes
    <3>2. CASE \E p \in Patches : PatchRead(h, p)
      BY <3>2 DEF PatchRead
    <3>3. CASE ImportRoutes(h)
      BY <3>3 DEF ImportRoutes
    <3>4. QED BY <1>8, <3>1, <3>2, <3>3
  <2>2. saved' = saved /\ nextId' = nextId /\ routes' = routes
    BY <1>8 DEF DeleteRoutes, PatchRead, ImportRoutes
  <2>3. QED BY <1>4, <2>1, <2>2
<1>9. ASSUME NEW h \in Handler, Refuse(h) \/ SaveFails(h) PROVE IdsOK'
  BY <1>5, <1>9 DEF Refuse, SaveFails
<1>10. ASSUME NEW h \in Handler, Save(h) PROVE IdsOK'
  <2>1. Done(h) /\ routes' = routes /\ nextId' = nextId /\ saved' = req[h].copy /\ pc[h] = "save"
    BY <1>10 DEF Save
  <2>2. Numbered(saved', nextId)
    BY <2>1 DEF IdsOK
  <2>3. QED BY <1>5, <2>1, <2>2
<1>11. ASSUME NEW h \in Handler, Copy(h) PROVE IdsOK'
  <2>1. pc[h] = "change" /\ saved' = saved /\ nextId' = nextId
    BY <1>11 DEF Copy
  <2>2. CASE MustSave(req[h])
    <3>1. PICK c : c = Unexpired(routes)
      OBVIOUS
    <3>2. /\ routes' = c /\ pc' = [pc EXCEPT ![h] = "save"]
          /\ req' = [req EXCEPT ![h].copy = c, ![h].fresh = TRUE]
      BY <1>11, <2>2, <3>1 DEF Copy, Goto
    <3>3. PICK x \in Job : x = req[h]
      BY <2>1, Unpack
    <3>4. req'[h] = [x EXCEPT !.copy = c, !.fresh = TRUE]
      BY <1>2, <3>2, <3>3
    <3>5. c \in Seq(Route)
      BY <1>1, <3>1, AliveFacts, UnexpiredIsAlive, Unpack
    <3>6. req'[h].copy = c
      <4>1. Copied(x, c).copy = c
        BY <3>5, CopiedFacts
      <4>2. QED BY <3>4, <4>1 DEF Copied
    <3>7. \A k \in Handler \ {h} : pc'[k] = pc[k] /\ req'[k] = req[k]
      BY <1>2, <3>2
    <3>8. Numbered(c, nextId) /\ Numbered(routes', nextId')
      BY <1>3, <2>1, <3>1, <3>2
    <3>9. \A k \in Handler : CopyFrom(k)
      BY <3>5, <3>6, <3>7, <3>8 DEF CopyFrom
    <3>10. QED BY <1>3, <2>1, <3>8, <3>9, IdsFrom
  <2>3. CASE ~MustSave(req[h])
    <3>1. Done(h) /\ routes' = routes
      BY <1>11, <2>3 DEF Copy
    <3>2. QED BY <1>5, <2>1, <3>1
  <2>4. QED BY <2>2, <2>3
<1>12. ASSUME NEW h \in Handler, Change(h) PROVE IdsOK'
  <2>1. PICK o : o = Outdated(routes')
    OBVIOUS
  <2>2. /\ pc[h] = "change" /\ req[h].todo # <<>> /\ req[h] \in Job
        /\ routes' = Changed(req[h]) /\ pc' = pc /\ saved' = saved
        /\ req' = [o EXCEPT ![h] = Taken(o[h], o[h].some \/ routes' # routes)]
    BY <1>12, <2>1, ChangeStep
  <2>3. nextId' = IF req[h].op = "delete" THEN nextId ELSE nextId + 1
    BY <1>12 DEF Change
  <2>4. /\ o \in [Handler -> Job \cup {Idle}]
        /\ \A k \in Handler : pc[k] # "idle" => o[k].copy = req[k].copy
    BY <2>1, OutdatedFacts DEF RoutesInv, RouteTypes
  <2>5. \A k \in Handler : CopyFrom(k)
    BY <2>2, <2>4 DEF CopyFrom
  <2>6. Numbered(routes', nextId')
    <3>1. CASE req[h].op = "delete"
      <4>1. routes' = DeleteRoute(routes, Head(req[h].todo))
        BY <2>2, <3>1, ChangedFacts
      <4>2. QED BY <1>1, <1>3, <2>3, <3>1, <4>1, NumberedDeleted
    <3>2. CASE req[h].op # "delete"
      <4>1. PICK y \in Route : y.id = nextId /\ routes' = Append(routes, y)
        BY <2>2, <3>2, ChangedFacts
      <4>2. QED BY <1>1, <1>3, <2>3, <3>2, <4>1, NumberedAppended
    <3>3. QED BY <3>1, <3>2
  <2>7. nextId' \in {nextId, nextId + 1} /\ Numbered(saved', nextId)
    BY <1>3, <2>2, <2>3
  <2>8. QED BY <2>5, <2>6, <2>7, IdsFrom
<1>13. ASSUME NEW h \in Handler, PatchUpdate(h) PROVE IdsOK'
  <2>1. pc[h] = "update" /\ saved' = saved /\ nextId' = nextId
    BY <1>13 DEF PatchUpdate
  <2>2. DOMAIN routes' = DOMAIN routes /\ \A i \in DOMAIN routes : routes'[i].id = routes[i].id
    BY <1>13, PatchUpdateKeeps
  <2>3. Numbered(routes', nextId)
    BY <1>3, <2>2, NumberedUpdated
  <2>4. CASE First(routes, req[h].dst) = 0
    <3>1. Done(h) /\ routes' = routes
      BY <1>13, <2>4 DEF PatchUpdate
    <3>2. QED BY <1>5, <2>1, <3>1
  <2>5. CASE First(routes, req[h].dst) # 0
    <3>1. PICK o : o = Outdated(routes')
      OBVIOUS
    <3>2. pc' = [pc EXCEPT ![h] = "change"] /\ req' = o
      BY <1>13, <2>5, <3>1 DEF PatchUpdate, Goto
    <3>3. \A k \in Handler : pc[k] # "idle" => o[k].copy = req[k].copy
      BY <3>1, OutdatedFacts DEF RoutesInv, RouteTypes
    <3>4. \A k \in Handler : CopyFrom(k)
      BY <1>2, <3>2, <3>3 DEF CopyFrom
    <3>5. QED BY <1>3, <2>1, <2>3, <3>4, IdsFrom
  <2>6. QED BY <2>4, <2>5
<1>14. ASSUME Restart PROVE IdsOK'
  <2>1. /\ routes' = Unexpired(saved) /\ saved' = Unexpired(saved) /\ nextId' = nextId
        /\ pc' = [h \in Handler |-> "idle"]
    BY <1>14 DEF Restart
  <2>2. Numbered(Unexpired(saved), nextId)
    BY <1>1, NumberedAlive DEF IdsOK
  <2>3. \A k \in Handler : CopyFrom(k)
    BY <2>1 DEF CopyFrom
  <2>4. QED BY <2>1, <2>2, <2>3, IdsFrom
<1>15. ASSUME List \/ Export PROVE IdsOK'
  BY <1>6, <1>15 DEF List, Export
<1>16. ASSUME RoutesTick \/ UNCHANGED routesVars PROVE IdsOK'
  BY <1>6, <1>16 DEF RoutesTick, routesVars
<1>17. QED
  BY <1>7, <1>8, <1>9, <1>10, <1>11, <1>12, <1>13, <1>14, <1>15, <1>16 DEF RoutesNext

\* What resolve answers is the best live route of the narrowest scope that has a match,
\* and topology, statistics, /routes/best and a batch say the same of the same table:
\* for any routes and tags, any request, any metrics, penalties and limits.
THEOREM AnswersStayRight == RoutesSpec => []AnswersAgree
<1> USE RoutesAssumption
<1>1. RoutesInit => IdsOK
  <2>1. SUFFICES ASSUME RoutesInit PROVE IdsOK
    OBVIOUS
  <2>2. routes = <<>> /\ saved = <<>> /\ pc = [h \in Handler |-> "idle"]
    BY <2>1 DEF RoutesInit
  <2>3. DOMAIN <<>> = {}
    OBVIOUS
  <2>4. \A n : Numbered(<<>>, n)
    BY <2>3 DEF Numbered, Distinct
  <2>5. QED BY <2>2, <2>4 DEF IdsOK
<1>2. RoutesInv /\ RoutesInv' /\ IdsOK /\ [RoutesNext]_routesVars => IdsOK'
  BY IdsStep
<1>3. RoutesInv /\ IdsOK => AnswersAgree
  <2>1. SUFFICES ASSUME RoutesInv, IdsOK PROVE AnswersAgree
    OBVIOUS
  <2>2. routes \in Seq(Route)
    BY <2>1, Unpack
  <2>3. Distinct(routes)
    BY <2>1 DEF IdsOK, Numbered
  <2>4. QED BY <2>2, <2>3, NarrowestIsResolved, ViewsAreOne DEF AnswersAgree
<1>4. QED BY <1>1, <1>2, <1>3, TableIsSound, PTL DEF RoutesSpec
=============================================================================
