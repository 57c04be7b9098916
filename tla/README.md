# Formal models of Spectral Cloud

TLA+ models of Spectral Cloud, checked with TLC on small instances, with proofs,
checked by TLAPS, of what matters most about the job queue, the ledger, the scheduler,
the pipelines, the route table, the mesh, the agent groups, the agent registry with the
notifications, the database file and the accounts for any number of tenants, requests
and restarts. Every safety property that a passing run checks is proved (section 4 says
under which assumptions).
All paths below are relative to the repository (`pkg/...`, `cmd/...`); the line
by line correspondence of every definition is in the `map` of `PROJECT.json`.

    tlc -workers 2 -config MCJobQueueRestart.cfg MCJobQueue   # one run
    tlapm JobQueue_proofs.tla                                 # the proofs

## 1. The system

Spectral Cloud is one server process (`cmd/spectral-cloud`) that serves an HTTP
API for several tenants, and worker agents (`cmd/spectral-agent`) that poll it.
All state of the server is in memory, in one object per component; most
components write every change through to one BoltDB file (`pkg/store`), in which
each tenant has a bucket, and rebuild their memory from it at the next start.
Handlers run as goroutines. Each component has a mutex, but a handler usually
makes several calls, on several components, with nothing held in between: that,
restarts, and the agents and clients that act on old answers, are what is hard
to test here.

### Inventory

| Component | State | Operations | Talks to | What makes it correct |
|---|---|---|---|---|
| Job queue `pkg/jobs` | map of jobs, id counter; keys `job_*` per tenant | submit, claim, update, cancel, expire, prune, load | store; called by handlers, scheduler, pipeline handlers | ids are unique over restarts; store and map agree; a job is handed out once, by priority and age; claimable jobs end |
| Worker agent `cmd/spectral-agent` | semaphore, jobs in work | claim by capability, run, report | HTTP | reports only on its own job; gives every slot back |
| Ledger `pkg/blockchain`, tenant cache `tenant.go` | chain per tenant, cache of tenants; key `blocks` | add, import, read, load, delete tenant | store | what is served verifies; the store is a prefix of it; acknowledged blocks are served, but for a crash after overlapping saves; quota; requests end |
| Scheduler `pkg/scheduler` | schedules, a goroutine each; keys `sched_*` | add, update, delete, tick, load | job queue, store | one live goroutine per active schedule; every run counted; bounded late submissions; active schedules keep running |
| Pipelines `pkg/pipeline` | pipelines, runs; keys `pipeline_*`, `prun_*` | create, update, delete, start run, advance, record job | job queue (through handlers), agent registry, store | no stage submitted twice; runs only move forward; runs end, but for a handler that is cut |
| Store `pkg/store` | BoltDB file, its lock, `.bak` files, JSON files of older versions | open, transactions, backup, restore, rekey, compaction, migration | all of the above, `spectralctl` | atomic transactions; committed data is served, or in a `.bak` file that retention keeps |
| Routing `pkg/routing` | routes with TTL, tags and metrics; key `routes` | add, update, delete, import, expire, best route, resolve, topology | mesh, store | no expired route chosen, best score wins in every view; the store is the table |
| Mesh node `pkg/mesh` | peers, counters, keys | gossip, heartbeat, receive over UDP | routing | loss and reordering only delay; dead peers are forgotten where gossip does not go in circles; keys can be rolled over |
| Circuit breaker `pkg/circuit` | state, failures, time of opening | allow, success, failure | agent groups, handlers | opens after the threshold, probes before it closes |
| Agent groups `pkg/agentgroup` | members with weights, index | next, add, remove, update | circuit breaker | shares follow the weights; unavailable members are skipped |
| Agent registry `pkg/agent`, `pkg/healthcheck` | agents with TTL and status | register, heartbeat, expire, ping | handlers, events | status is that of the latest news |
| Events, notify, webhooks | history ring, subscriber buffers, rules | publish, subscribe, match, send | everything | never blocks a publisher; an event reaches the rules that want it; the count of a rule is right |
| Key-value store `pkg/kv` | entries with TTL, in memory | set, get, delete, count, prune | handlers | an expired entry is not returned, pruning is not seen |
| Billing `pkg/billing` | counters per day, profiles, sub-keys | signup, record, rotate, make, touch and delete keys | auth, store | changes are lost, and deleted keys revived, by overlap only; what is metered is metered once |
| Auth, rate limits, middleware | token buckets | allow, evict | every handler | a client never exceeds its rate |
| Mesh metrics, anomaly detection | sampled counters | sample, diff | mesh | a window never mixes samples |
| Audit log `pkg/store/audit.go` | log | append | store | no entry twice; one is missing only where its write failed or the server died |
| AI client, gRPC adapter, `spectralctl`, desktop, protobuf | none | | | pure I/O or generated |

The status of each component, and the hazards of this code, each at its line, are in
`PROJECT.json`.

## 2. Modules

| Module | Models | Role |
|---|---|---|
| `JobQueue` | `pkg/jobs`, `/agents/jobs*`, the boot loop, the worker loop of the agent | detailed specification |
| `JobService` | what the queue promises | abstract specification |
| `JobQueue_proofs` | | theorems about `JobQueue`: types, ids, durability, claims, the workers, the refinement of `JobService` |
| `Ledger_proofs`, `Scheduler_proofs`, `Storage_proofs`, `Accounts_proofs`, `Agents_proofs` | | theorems about these modules, `Agents_proofs` also about `Notify` |
| `Tables_proofs` | | theorems about `Pipeline` and `Routes`, lemmas about filtered lists |
| `Traffic_proofs` | | theorems about `Mesh` and `Dispatch` |
| `Ledger` | `pkg/blockchain`, `tenant.go`, blocks in `pkg/store`, `/blockchain/add`, `/blockchain/import`, `DELETE /admin/tenants` | |
| `Scheduler` | `pkg/scheduler`, `/schedules` | |
| `Pipeline` | `pkg/pipeline`, `/agent-pipelines` | |
| `Dispatch` | `pkg/circuit`, `pkg/agentgroup`, `/circuit*`, `/agent-groups*` | two components composed |
| `Routes` | `pkg/routing`, `/routes*` | |
| `Mesh` | `pkg/mesh`, its route table, `updateMeshMetrics`, `detectAnomaly` | several nodes and a network |
| `Notify` | `pkg/events`, `pkg/notify`, `/events/history`, `/admin/notifications` | extended by `Agents` |
| `Agents` | `pkg/agent`, `pkg/healthcheck`, `/agents*`, registration and heartbeat of the worker | composed with `Notify` |
| `Storage` | the database file: start, backup, compaction, migration, `spectralctl` | server and operator |
| `Accounts` | middleware, `pkg/billing`, `pkg/kv`, `pkg/store/audit.go`, limiters | |
| `Positions` | loops that filter a list | used by `Mesh`, `Notify`, `Dispatch`, `Routes` |
| `MC...` | values of the constants | instances for TLC |

The modules meet at the store, the clock of restarts, the queue and the broker.
Each one has its own view of the bucket of a tenant (the keys with its prefix);
one BoltDB `Update` is one atomic assignment. That the file below the buckets
keeps what was committed is what `Storage` is about. `Scheduler` and `Pipeline`
use the queue through `Submit` only, and see it as a durable list of jobs, which
is what `JobService` says it is. In the other direction `JobQueue` has the
schedules of restored tenants as a source of submissions (`Schedules`), because
they are the only ones that can submit before the boot has ended. `Agents` extends
`Notify`: the register handler and the health checker publish to the broker whose
subscriber fires the rules. `Mesh` has route tables of its own, reduced to
destination and deadline.

### JobQueue

*State.* `jobs` is `q.jobs` (id `job-N` is `N`), `counter` is `q.counter`,
`stored[t]` the bucket of tenant `t`, `inflight` the job a goroutine has built in
`SubmitWithOpts` and not yet inserted, `held` what the goroutines of an agent work
on, `loaded` how far the boot loop is, `restoring` the `LoadFromStore` under way.
`claims`, `requeues`, `pruned`, `forgotten` and the field `sn` (number of the submission)
exist for the properties only.

*Actions.* `SubmitWithOpts` takes the id with an atomic add and inserts under the
mutex later: two actions (`SubmitBegin`, reached by `Post` and `ScheduledSubmit`,
and `SubmitInsert`). `LoadFromStore` holds the mutex but compares and assigns the
counter without the atomics that `Submit` uses outside the mutex. That is a data
race; it is modelled as a load and a later store (`LoadBegin`, `LoadEnd`), so that
an increment in between can be lost. `ClaimForTenant`, `Update`, `Cancel`,
`ExpireStale` and `Prune` are one critical section each, persistence included.
`persist` and `unpersist` log a failed write and go on (`Write`, for the tenants
in `Flaky`). Ties between equal priority and age fall to the order of the Go map:
any of them may be claimed. The handler of `PATCH` looks the job up and then calls
`Update`; the two are one action, because nothing but a `Prune` of a job that
finished a day ago could come between. An agent claims one job per free slot and
capability, and reports once; `finishJob` retries 429 only, so any other failure
ends it (`WorkerGiveUp`). `Crash` ends the server in any state; agents survive it
with what they hold.

*Abstracted.* Payload, result and error. `FindBest` is a choice among the agents
configured for the capability. `Claim` without tenant has no caller in the server.

### Ledger

*State.* `chain` holds the `Blockchain` objects (several for one tenant exist
after an eviction), `cached` is `tm.tenants`, `bucket` the stored blocks, `lock`
is `tm.mu` while a tenant is being loaded, `pc`, `req`, `data` are the handlers. For the
properties only: `acked`, what was answered 201; `missed`, what others have stored since a
handler took its copy of the chain; `overtaken`, of these, what is no longer stored since
that copy was written; `lost`, what was overtaken when the server died.

*Actions.* A request is a sequence of steps, each one critical section or one
transaction: `Lookup` and `Relook` are the two looks of `getTenant`, `LoadBegin`
and `LoadEnd` its slow path; `Check`, `AppendBlock`, `SignBlock`, `Snapshot` and
`SaveChain` are `/blockchain/add`; `Height` and repeated `AppendBlock` are
`/blockchain/import`, which does not look at the quota and ignores a failed write;
`DeleteBucket` and `Evict` are the deletion of a tenant. `Corrupt` changes a block
on disk, `Crash` ends the process.

*Abstracted.* A transaction list is the number of its request. The hash is an
injective function of what `calculateHash` covers (index, time, transactions, not
the previous hash); two adds of the same transactions within one second would
collide in the code in all but the index, which never repeats in one chain.

### Scheduler

*State.* `entries` is `m.schedules` with the goroutine that `entry.cancel` ends,
`loops` are the goroutines. *Actions.* A tick is three steps (`Tick` under the read
lock, `Submit` without lock, `Count` under the lock). Cancelling only marks a loop:
it may be in the middle of a tick, and since `select` chooses at random among
ready cases it may take another one before it sees `ctx.Done()` (`Tick` does not
ask for `live`). `StopAll` runs at process exit only and is covered by `Crash`.
The interval is abstracted to "re-armed or not"; an interval that is not positive never
gets past the handler. (`Update` can be refused after it has set name and payload,
`scheduler.go:245-257`, if the seconds overflow a `Duration`; that is left out.)

### Pipeline

*State.* pipelines (name and number of stages), runs, both counters, both key sets,
the handlers under way (`calls`), the stage jobs. For the properties only: `renamed`, the
pipelines that a refused `PATCH` has renamed in memory, and `cut`, the stages whose handler
came to its end before it had submitted the job. *Actions.* Starting and
advancing a run are three steps of a handler: move the run, submit the job (or 503),
record it. Nothing in the server notices that a job has ended: the API client
advances the run (`Advance`), once per job, or more often with `Retry`. A `PATCH` with a
new name and stages that are refused (`RefuseUpdate`) is answered 400 when it has set the
name, and saves nothing. Deleting a tenant (`DeleteTenant`) empties the bucket behind the
manager's back.

### Dispatch

*State.* `breakers` are those of `circuit.Manager`, `groups`, `counter` and `rrIndex`
are `m.groups`, `m.counter`, `m.rrIndex` of `agentgroup.Manager`, `stored` the keys of
the groups, `calls` the requests for the next member, `reader` a `GET` whose answer is
being encoded. *Actions.* `Next` copies the members, takes a number with an atomic
add, and asks the breakers of the candidates one by one: `NextCopy`, `NextIndex`,
`NextTry`. `RemoveMember` filters in place, and `append` may write into the array that
a struct returned by `Get` still points to: between `ReadBegin` and `ReadEnd` the encoder
may find in a cell whatever the cell held at some time, and `Aliased` says what is written
there. `persist` may fail, which is logged only, and `DropTenant` takes the bucket away;
`unsaved` remembers both for the property. A report (`Record`) is tied to no call.
*Abstracted.* Groups of other tenants (a request for one changes nothing); times, to
the age of an open breaker; round-robin numbers, modulo a multiple of all weights.

### Routes

*State.* `routes` is `re.Routes` in its order, `saved` the key `routes`, `file` what an
export returned; `pc` and `req` are handlers. *Actions.* A request first looks at the
quota (`PostRoutes`, `Refuse`), then changes the table route by route (`Change`), then
copies it (`Copy`) and writes the copy in a transaction (`Save`, `SaveFails`). `PATCH`
reads and updates in two steps (`PatchRead`, `PatchUpdate`), so that the metric it
completes may be old. `List` prunes. `BestRoute`, `Resolve`, `ResolveBatch`, `Topology`
and `Stats` are operators: they only read. `behind` remembers, for the property, that
the last write failed or was overtaken. *Abstracted.* Tags, to region and site; scores
and penalties are small numbers.

### Mesh

*State.* Addresses are `host:port` strings. Each node claims the one it is bound to
(`Bind`; `0.0.0.0:7000` by default, so that several may claim the same), its packets come
from another (`Source`), and `Peers[n]` has the addresses under which `n` knows its peers;
`PeerKeys[n]` are its keys by address. Per node the table, the peer records, the counters of
`Stats`, its place in the key roll-out, the packet in the hand of the read loop and the state of the
sampler; `net` holds the packets on their way. *Actions.* `Receive`, `RejectParse`,
`RejectAuth`, `RouteSender`, `ApplyGossip`, `NotePeer`, `Accept` are `handlePacket`, in
which the node's locks are taken and released several times; `broadcastControl` and
`broadcastGossip` are the sending loops; `Sample` is `updateMeshMetrics`. A packet may
be handled twice, late (up to `MaxDelay`) or never. `keyCandidates` looks up the claimed
address and the source, as the code does, and never the one the peer is configured by.
`MayRoll` is the operator: no node is two lists ahead of another, and between two steps the
packets signed under the older list arrive. *Abstracted.* Signatures, to the
key that made them; handshake and heartbeat, which are handled alike; latencies.

### Notify and Agents

*State.* `Notify`: the ring (`histBuf`, `histHead`, `histCount`), the channel of the
manager, the rules ever made by this process (`heap`; goroutines keep pointers to
deleted ones), `ids`, the bucket, the dispatch under way and the goroutines that fire.
`Agents`: the registry, the worker processes, the round of the checker, who answers at
which address. *Actions.* `Publish` is `Record` and `Offer`, two critical sections;
`Take`, `Snapshot`, `dispatch`, `Post`, `fire` follow an event to the rules. The checker
pings (`ping`), notes (`NoteResult`), updates the status (`ApplyResult`) and publishes
(`PublishResult`) while agents register, move, report and leave. The worker registers
until it is answered, and registers again when a heartbeat is answered 404.
A goroutine whose request cannot be built (`NoPost`: a URL that does not parse) ends without
a request and without counting. `DropTenant` takes the bucket of a tenant away.
*Abstracted.* URLs and secrets; the order of lists; the text of events.

### Storage

*State.* A file is the set of what it holds, or missing, or blank (cut to nothing); one
that was written in part is damaged (`Damaged`). `Verify` and `store.Open` look at the first
pages only, so that a damaged file may pass the one and be served by the other, or be
refused; `bolt.Compact` reads every page in use and fails. `db`, the temporary file, the `.bak` files by time, the JSON
files of older versions, the operator's copy. `open` says which file the server holds
locked: the lock follows the file when it is renamed. *Actions.* The start sequence step
by step (`Start`, `CompactBegin/Move/Swap`, `BackupRead/Write`, `Rotate`, `Open`,
`MigrateLoad/Write/Rename`, `LoadTenant`), each of which may fail or be the last before
a crash; `Commit` and the backup and compaction jobs of the running server
(`RunOnline`); a second server; the four file commands of `spectralctl`, each
interruptible. `Replace` is the rename onto `dbPath`: a file that is open there loses its
name and goes on living without one (`gone`), even if its successor has the same content.
A chain in the bucket `data` of the first version (`old`) is replaced by the one that a
migration writes; JSON files beside a database that has data already are what a migration
left that was cut in an earlier life (`cut` is true from the start). *Assumed.* Every start is in a second of its own (names of `.bak` files
have seconds), two in-place compactions do not overlap, and a restore follows the
runbook: the server is stopped.

### Accounts

*State.* `pc` says where in the middleware each request is; `profiles` and `keys` are
the bucket entries of `pkg/billing`, `usage` and `day` the meter, `clients`, `lastGC` and
`shared` the limiters, `audit` the log, `kv` the items. *Actions.* The layers of
`newHandler` from outside to inside and back: `Arrive` (`withRateLimit`), `LimitTenant`,
`withDynAuth`/`withAuth`, the handlers, `withAudit`, `withBillingMetrics`; `go m.TouchKey`
is a process of two transactions. Profile changes are a read and a later write;
`/auth/signup` is a check, a write of the profile and a write of the key. `PostJob` is the
only handler that meters a job; `SubmitUnmetered` stands for the others that submit one.
`AuditRecord` may fail, and nobody looks at its error (`unlogged`). *Assumed.* An
admin key and `TENANT_KEYS` are configured; what a limiter refills in its TTL is at
least its burst (10/s for 300 s and 20 by default). *Abstracted.* An empty bucket and a
missing one are the same; the search for a sub-key is one step; panics.

## 3. Properties and runs

A run checks a property for each question it asks. Most of them are conjunctions of
named parts, which are given in brackets; the parts are defined, with what they say,
before the conjunction. Every property has a mutation of the code under which TLC finds
it violated (`mutants` in `PROJECT.json`; the mutated operators stand before the
originals).

| Run | States | Checks |
|---|---|---|
| `jobs_restart` | 411,343 | `TypeOK`, `UniqueIds`, `StoreMirrorsQueue`, `ClaimedOnce`, `HeldJobIsOwn`, `ImplementsService` |
| `jobs_live` | 41,498 | `ClaimableJobSettles` under `FairSpec`, `ImplementsService` |
| `jobs_boot` | violated | `UniqueIds` when a schedule fires during the boot |
| `ledger` | 515,159 | `ServedIntact`, `ServedHasAll` (`TypeOK`, `StoredIsPrefix`, `AckedServed`), `QuotaOvershoot`, `RequestsEnd` under `FairSpec` |
| `sched` | 440,998 | `LoopsUnderControl` (`OneLoopPerActive`, `LateBounded`), `SchedulesAreExact` (`TypeOK`, `StoreMirrorsSchedules`, `RunsCounted`), `ActiveScheduleRuns` under `FairSpec` |
| `pipeline` | 1,005,346 | `RunsAreExact` (`TypeOK`, `StoreMirrorsPipelines`, `OneJobPerStage`), `RunMovesForward`, `RunSettles` under `FairSpec` |
| `dispatch` | 244,830 | `GroupsAreExact` (`DispatchTypeOK`, `StoreMirrorsGroups`, `AnswersAreSnapshots`), `NextIsFair` (`FairShare`, `GivesUpForAReason`), `NotShutOut` under `FairDispatchSpec` |
| `routes` | 574,836 | `TableIsKept` (`TableTypeOK`, `SavedUnlessOvertaken`, `QuotaOvershoot`), `AnswersAgree` (`ResolvesNarrowest`, `ViewsAgree`), `VanishesForAReason` |
| `mesh` | 689,607 | `RoutesFollowPeers` (`ForgottenInTime`, `SeenPeerHasRoute`), `OwnPacketsAccepted`, `CountersAddUp` (`TypeOK`, `PacketsAccountedFor`, `SamplesFollow`) |
| `agents` | 148,063 | `RulesAreExact` (`StoreMirrorsRules`, `FiresCounted`, `NextIdIsFree`), `EventsArrive` (`HistoryIsRecent`, `ReachesItsRules`), `RegistryIsCurrent` (`TypeOK`, `ListsAlive`, `VerdictIsCurrent`), `ComesBackByRegistering`, `RunningWorkerListed` under fairness of the workers |
| `storage` | 582,430 | `DatabaseIsWhole` (`TypeOK`, `TornOnlyByPlainRestore`), `DataKept` (`ServesAcked`, `LostOnlyToRetention`), `MigrationIsSound` (`MigratedIsStored`, `MigratedUnlessCut`) |
| `accounts` | 591,321 | `KeysAreExact` (`RevokedStaysRevoked`, `IssuedKeyWorks`, `SignupGivesKey`), `ProfilesAreExact` (`TypeOK`, `ProfileLostOnlyByOverlap`), `RecordedOnce` (`MeteredOnce`, `AuditedOnce`), `RateBounded`, `PruneInvisible` |

`Mesh`, `Agents`, `Storage` and `Accounts` bound what happens by *budgets* or *scripts*: an instance is a set of
scenarios, each with a number of steps of every kind (starts, crashes, edits, lost
requests...), and TLC explores all interleavings of each. A scenario is chosen for an
interaction; the sum of them is far smaller than one instance with all of it.

**jobs_restart.** Two tenants, one agent of the first, two concurrent submitters, two
submissions, two crashes at any step, lost claim answers, agent crashes, one job that a
client puts back to `pending` (`PatchTo` bounds what clients set), and `Prune`, which here
spares nothing that has ended. The second tenant's writes may fail and it may be
deleted; the durability properties and the refinement are stated for the first
(`Reliable`), so that the run also shows that one tenant's losses do not disturb
another. Two submissions are enough for one id to be given twice, two crashes for a
load after a load. An id can be given away twice: once a finished job has been pruned
and the server has restarted it is free again, and an agent that was still
holding it would report on the new job. `HeldJobIsOwn` names this case, and only this:
the submission is in `forgotten`, pruned before the last start. In the code it takes
an agent that hangs for more than the 24 hours that `Prune` spares.

`ImplementsService` is the refinement of `JobService`. The mapping takes the job of a
submission from its bucket, so a crash and the reload are stuttering steps, and a
claim must be the best of all persisted jobs even though it is chosen from the map.
`JobService` counts how often a job was the answer to a claim (`handed`), which tells
a claim from a client that merely sets the status to `running`. Here it is checked
through crashes, in `jobs_live` with two priorities, times and pruning.

**jobs_live.** Two agents with one slot each and overlapping capabilities, two
jobs out of five kinds (assigned, by capability, with TTL, from a schedule). No API client
sets a status (`PatchTo` is empty). No
answer is lost (`Lossy = FALSE`): a job whose claim or report is lost stays
`running` for ever, there is no lease. `ExpireStale` runs in this instance
(`Janitor`), although nothing in the server calls it, so that jobs settle and the
refinement holds with it too.

**ledger.** Two handlers, three requests, a crash, a failed write. The first tenant adds
and imports; the second adds, reads, is deleted, and one of its blocks is damaged on
disk: the double check of `getTenant`, the shared chain and snapshots written in any
order, and what `filterValidBlocks` keeps. A block answered 201 may be missing in one
case, which `AckedServed` names: a save by another handler put a copy of the chain over it
that was older, and the server died before the next save. `acked` itself never shrinks. The quota of two is passed, but by less than
the number of concurrent handlers (two adds that both check before either appends;
`TENANT_MAX_BLOCKS` is not a hard limit). Every request is answered, that is, `tm.mu` is
always released.

**sched.** Either one schedule with three goroutines and three updates, or two
schedules of two tenants; one tenant's writes may fail and it may be deleted; one
restart: every order of stopping, starting and re-arming around a goroutine that is in
the middle of a tick, and schedules restored in any order.

**pipeline.** One run of up to two stages, two pipelines of two tenants, two callers,
retries, 503, one update (a stage less, a new name, or a new name with stages that are
refused), deletion of a pipeline or of the second tenant, failed writes, a crash. A run that
never ends has lost its pipeline, or the handler that should have submitted its next job
answered 503 or was cut by a crash between moving the run and submitting (`Stalled`);
nothing submits that job later. The bucket is the memory but for the name that a refused
`PATCH` has set (`SavedPipe`), until the next change of that pipeline is saved.

**dispatch.** One group of two agents with weights 1 and 2 (a weight of 0 is asked for, too,
and refused), three edits, failed writes, a deleted tenant, a crash, a threshold and a timeout
of one: total weights 1 to 3 (`MaxWeight`), so that a
round has as many draws as the number modulo which is taken changes; round-robin numbers
are counted modulo 6, a multiple of each. `AnswersAreSnapshots` excuses answers under which a
member was removed: `RemoveMember` filters in place, and such an answer may list a member
twice and omit another. `FairShare` counts the
draws of a round on an unchanged group; `GivesUpForAReason` says that the 503 of
`/next` is honest. `NotShutOut` is about probes whose result is never reported.

**routes.** Two handlers, three requests out of single and double adds, a batch
delete, two patches, import and export; a quota of two, a clock of three values, one
crash. Two routes to one destination, one that expires and one satellite route are
there in most orders; six resolve requests cover each scope, an impossible one, a
filter and alternatives. Handlers are symmetric.

**mesh.** Mutual peers a, b and b, c. a and b are bound to the default address and claim
the same one; each has a key of its own for the other, under the address the other sends
from. b gossips to both. Four scenarios: gossip about what falls silent, over seven ticks (the
bound of `ForgottenInTime` for one and two hops is three and six); a service that is added and
deleted while its home restarts; a replacement of the shared keys in three lists, of which
the first and the last have no signer in common, with packets of several generations; stray
packets, duplicates and the sampler.

**agents.** Two workers, two addresses, TTL and buffer of one, history of two. Seven
scenarios: rules made, changed and deleted, and their tenant with them, while events wait and
saves fail; workers
that lose requests, move, stop, and a server that restarts; a round of the checker
around each of these; all of it with one rule.

**storage.** Retention of two. Directories of an older version, of every kind, damaged
ones included, with two starts, crashes and a failure; four starts in a row with a
second server; an operator between and during starts.

**accounts.** Eleven scripts of two to four requests, with up to three ticks and a
restart: a key that is touched while it or its tenant is deleted; profile changes that
overlap; four requests of one address around the limit and the eviction; jobs, metered and
not, and usage around midnight; items around their deadline. Any write may be missing in the
audit log.

Deadlock is not checked: the bounds on requests, restarts and time end every
behaviour, and an idle server may stop. Where something must happen it is stated
as a liveness property. Symmetry (handlers, committed items, equal requests) is used
in `routes`, `storage` and `accounts`, which check no liveness.

### Where code and documentation disagree

* `jobs_boot`: the boot loop arms the schedules of a tenant before it has loaded
  the jobs of the next one. A schedule that fires in between gets an id that a
  stored job of a later tenant has, and the load then overwrites one of the two.

The models show more behaviours that a text of the repository does not lead one to
expect, for which no run is kept. Those that concern a property are in the notes of
the hazards.

* Ledger: `SaveChainTenant` takes its snapshot outside the transaction. Of two adds the
  one with the shorter chain can commit last; the log that
  `docs/spectral-cloud-architecture.md:57` calls append-only loses an acknowledged block
  until the next add, and for good if the server dies before it (`lost` in `AckedServed`). A block can be stored
  before it is signed. Import looks at no quota, neither here nor for routes.
* Pipelines: runs outlive their pipeline; after a restart the id of a deleted pipeline
  is given away again, possibly to another tenant, and old runs go on with the new
  stages. A repeated advance moves a run past a stage; `job_ids` need not follow stages. A
  `PATCH` that is refused for its stages keeps the new name in memory (`pipeline.go:286-295`).
  A server that dies, or finds no agent, between moving a run and submitting its job leaves a
  run that hangs, although `pipeline.go:4` says that a run advances as each job completes.
* Deleted tenants are written back by a handler, a goroutine or a `TouchKey` under way.
* Middleware: `withBillingMetrics`, `withAudit` and `withTenantRateLimit` run outside
  `withDynAuth` and see a request without tenant. All calls are metered for the default
  tenant (the comment at `main.go:5819` says per tenant), all audit entries are its
  entries, and all tenants share one limiter (`README.md:104`,
  `docs/configuration.md:27`). Jobs are metered on `POST /agents/jobs` only
  (`main.go:2428`), not those of pipelines, schedules, broadcasts (`main.go:3938`). The audit
  log misses a write whose `AuditRecord` fails (`main.go:5800`), although `main.go:5786`
  says that it records all.
* Agent groups: an answer that is being encoded while a member is removed may list another
  member twice.
* Mesh keys: `docs/configuration.md:55,60` have peers as `host:port` and keys as `peer=key`,
  but `keyCandidates` (`mesh.go:448-462`) looks a key up only under the address that the
  packet claims, which is the bind address of the sender (`0.0.0.0:7000` by default), and
  under its numeric source. A key listed under a host name signs what is sent there and
  verifies nothing that comes from there: a cluster so configured rejects its own packets.
  `KeyAssumption` is what a configuration must satisfy.
* Breakers: `circuit.go:17` says that half-open allows one request; `Allow` lets all
  through until the first result.
* `FindBest`: the comment at `main.go:2346` says best first; the list is ordered by
  registration.
* Webhooks are sent with the context of the request, which ends with its handler.
* Notifications: a `PATCH` that is refused for its URL keeps the new name in memory;
  `/events/history` applies its limit before the tenant filter; fields of a rule are
  read without lock in `fire`.
* Storage: backups and compactions of the running server never succeed, because it
  holds the lock itself (`docs/configuration.md:41`), and `COMPACT_RETENTION`
  (`docs/configuration.md:49`) has no effect. A crash between the two renames of
  `CompactInPlace` makes the next start open an empty database next to the full `.bak`.
  A migration that was cut short is never repeated. An interrupted `backup --out`
  destroys the previous backup of that name. `Verify` passes files of which later pages are
  missing, and the server then opens them.
* Routes: an expired exported route is imported as a permanent one; deleted routes
  come back by gossip; `PATCH` answers 404 when an expired duplicate stands before a
  live route; in a circle of nodes that gossip a dead route is renewed for ever.
* Mesh metrics: a packet in hand at a sample makes a reject rate above 1 possible.
* Jobs: those with an `agent_id` and no capability are asked for by no worker
  (`docs/api.md:78` allows them). Nothing outside the tests calls `ExpireStale` and
  `ClaimForTenant` does not look at the deadline, so that `ttl_seconds`
  (`docs/api.md:82`) has no effect in the server as it is. `Update` takes any status
  from any status; `finishJob` gives up on every failure but 429, and the job stays
  `running`.

### Fairness

Weak fairness only. `JobQueue`: goroutines that have begun a `Submit` or a load
go on; a worker polls each of its capabilities in a loop and reports each job;
`ExpireStale`, where it is assumed to run, runs on a ticker. `Ledger`: every
handler goes on (no step of one waits for anything but `tm.mu`). `Scheduler`: the
ticker of a goroutine that is not cancelled fires, started ticks go on, the boot
loop goes on. `Pipeline`: handlers and the boot loop go on; agents end their jobs
and the client advances a run once for each ended job. `Dispatch`: clients keep asking
for the next member of a group, their requests go on, and time passes; reports are not
fair. `Agents`: a running worker's loop goes on, and one of its requests is answered
after finitely many were lost (the budget of lost requests). The assumptions on clients
and agents are about the environment, not the server; without them nothing is asked of
it. Nobody is assumed to retry, nothing is assumed about crashes, failed writes or
other requests.

## 4. Proofs

A theorem holds for all values of the constants that satisfy the assumptions of its
module; none of the bounds of section 3 is a hypothesis of its own (the bounds on
counters and time stay parameters, and any natural number will do).

| Theorem | States | Under |
|---|---|---|
| `TypeCorrect`, `IdsAreUnique`, `QueueIsDurable` | `TypeOK`, `UniqueIds`, `StoreMirrorsQueue` of `JobQueue` | the last two `BootSafe` |
| `JobIsClaimedOnce`, `WorkerFinishesItsOwnJob` | `ClaimedOnce`, `HeldJobIsOwn` | `BootSafe` |
| `QueueImplementsService` | `ImplementsService`, the refinement of `JobService` | `BootSafe` |
| `ServedChainIsIntact`, `ServedChainHasAll`, `QuotaIsBounded` | `ServedIntact`, `ServedHasAll`, `QuotaOvershoot` of `Ledger` | |
| `LoopsStayUnderControl`, `SchedulesStayExact` | `LoopsUnderControl`, `SchedulesAreExact` of `Scheduler` | |
| `PipelinesAreExact`, `RunsMoveForward` | `RunsAreExact`, the action property `RunMovesForward` of `Pipeline` | |
| `DatabaseIsWholeAlways`, `DataKeptAlways`, `MigrationIsSoundAlways` | `DatabaseIsWhole`, `DataKept`, `MigrationIsSound` of `Storage` | |
| `RegistryStaysCurrent`, `ComesBackAlways` | `RegistryIsCurrent`, the action property `ComesBackByRegistering` of `Agents` | |
| `RulesStayExact`, `EventsReachTheirRules` | `RulesAreExact`, `EventsArrive` of `Notify`, in the whole of `Agents` | |
| `KeysStayExact`, `ProfilesStayExact`, `AddressesStayBounded`, `RequestsAreRecordedOnce`, `PruningIsInvisible` | `KeysAreExact`, `ProfilesAreExact`, `RateBounded`, `RecordedOnce`, `PruneInvisible` of `Accounts` | |
| `RoutesFollowPeersAlways`, `OwnPacketsAcceptedAlways`, `CountersAddUpAlways` | `RoutesFollowPeers`, `OwnPacketsAccepted`, `CountersAddUp` of `Mesh` | |
| `GroupsStayExact`, `NextStaysFair` | `GroupsAreExact`, `NextIsFair` of `Dispatch` | |
| `TableStaysKept`, `AnswersStayRight`, `RoutesVanishForAReason` | `TableIsKept`, `AnswersAgree`, the action property `VanishesForAReason` of `Routes` | |

*Assumptions on the constants.* They give the constants their types, keep the special
values (`NoJob`, `None`...) apart from the values they stand beside, and say
what is finite: handlers, goroutines, requests of a behaviour. Beyond that:
`Rate * TTL >= Burst` in `Accounts` (a limiter that is dropped is full; the defaults of
the server satisfy it), `RequestAssumption` (a request carries what its operation takes), in `Routes` the types of what
requests carry (`RoutesAssumption`; no bound on the length of a list, on numbers or tags), in
`Dispatch` that `Period` is a multiple of every total weight up to `MaxWeight` (the code takes
its number modulo the total weight; see the limits below), and in `Mesh`
`KeyAssumption` (each list of the roll-out verifies what its neighbours sign, as
`docs/configuration.md` asks for; a key of its own for a peer is found under the address
that peer claims or sends from; finitely many addresses) and `SettledAssumption` (what
`Settled` and `Hops` mean: gossip reaches these nodes over finitely many hops. Peers may be
mutual; where nobody gossips, which is the default, every node is settled, and in a circle of
nodes that gossip none is, and `ForgottenInTime` says nothing of it), and
`StrayAssumption` (what comes from outside is rejected, or has no address and no routes).
`BootSafe` says that a restored schedule cannot fire while another tenant is still
to be loaded (no schedules, or a single tenant); `jobs_boot` shows that it is
needed. That a roll-out of keys goes step by step (`MayRoll`) is an assumption about the
operator, and part of the model.

### The arguments

*Ids and durability of the queue.* `TypeOK` bounds the counter by the number of
submissions, and is
not inductive: `LoadFromStore` sets the counter from the ids in the store.
`TypeInv` adds `Bounded`, no id in use is above the number of submissions. Then
most actions are alike: they change jobs that are there, drop some, or copy one to
the bucket of its tenant. `Benign` says this once, `OtherSteps` shows it of every
action but the ones that take or restore ids (`IdStep`), and each invariant is
shown to survive a benign step. The inductive invariant for the ids is `IdInv`:

* `FreshInv`: the boot is over while a submission is under way, and its id is used
  by nothing else and is not above the counter;
* `BucketInv`: a bucket holds jobs of its tenant only, no id is in two buckets or
  stands for another submission in the map, and once a tenant is loaded the
  counter has passed its stored ids;
* `MemoryInv`: what is in the map belongs to a loaded tenant and is not above the
  counter;
* `RestoreInv`: a load under way has seen the current counter. This is where
  `BootSafe` is used: nobody increments it between the comparison and the
  assignment.

`MirrorStep` adds `StoreMirrorsQueue`, which is inductive relative to these two:
inserting a job cannot replace one of another tenant, because its id is fresh, and
a load cannot either, because no id is in two buckets.

*Claims and workers.* A submission is found by its number `sn`, wherever its job is (map,
bucket, Submit under way): `SnInv` says that this is at most one id, and that numbers
above `submits` are unused. `ClaimInv` counts claims against the
status of the stored job, so that the count survives a restart, which forgets the map but
not the bucket. For `HeldJobIsOwn` the id in the hands of a worker must not be given
away. `HeldInv` says that its job is stored, or was pruned since the start and the counter
has passed its id, which is nowhere else (`Gone`), or was pruned before (`forgotten`). Only a
restart, which takes the counter from what is stored, leads from the second to the third.

*Refinement.* The mapping reads the bucket of reliable tenants. For each action one lemma
says which step of `JobService` it is: inserting a job is `Submit`; a claim, a report
and the changes by clients are the steps of the same name; begin of a submission, loads,
crashes and everything of unreliable tenants leave what is seen of the reliable ones
unchanged.

*Ledger.* `Inv` says who has which chain object (`ObjInv`), that every object verifies
(`ChainInv`) and that stored blocks are numbered in a row even after damage
(`NumberInv`), for `filterValidBlocks` cuts at the first bad block. `SavedInv` is for the
tenants that nobody deletes or damages: all handlers hold the served object,
every copy on its way to disk is a beginning of it, so whichever write commits last the
store is a beginning of what is served. `CopyInv` says what such a copy may lack: blocks
that were stored since it was taken, and these are noted in `missed`; hence `OvertakenInv`, a
block that was answered 201 is stored or was overtaken, which is what a crash leaves.
`QuotaInv` bounds the length of a chain *plus*
the number of handlers between check and append; the bound on the length alone is not
inductive.

*Scheduler.* `Inv` has the three counts of goroutines of each schedule: those of it, those
that are submitting, those that have not counted yet. Each start adds one to the bound
and at most one goroutine to each count (`CountsGrow`), and a goroutine that submits moves
from one count to the next.

*Pipeline.* The jobs of a run, the calls under way and the stage of the run are related by
`JobInv`: whatever was submitted or is about to be is for a stage the run has reached, and
no two are for the same one. The proof found a fault of an earlier model, which TLC could not
see with a single run: jobs did not carry their tenant, and the lost run of a tenant whose
writes fail had its number given to a run of another tenant, whose stages then had two
jobs. In the code the tenant is part of the job and of every look-up. The bucket follows the
memory except for `renamed`: a pipeline leaves it when it is saved, and a restart, after which
memory has what is stored, empties it.

*Database file.* `Sound` is about control and types: who may be in which step while the
other is (`PcOK`), which seconds are used (`ClockOK`), which files are whole (`BakOK`,
`OpenOK`: one that a compaction is about to rename is, since the copy of a damaged one fails),
and where damage comes from (`CopyOK`: what an encrypted copy holds is damaged only after
`torn`). That a server opens a file says nothing about it. It is inductive on its own and
gives `DatabaseIsWhole`. For `DataKept` three more facts are needed. `Kept`: in the middle
of a compaction what the database holds is in the copy and in the new `.bak` file, so that
either rename back or forward loses nothing but what is noted in `aside`. `Accounted`: what
the database lacks is in the newest file that ever held it (`holder`), or retention has
taken that one away and as many newer ones were made. This is not inductive alone, for a
compaction may be about to move a file of an *older* second into place (`Movable`), and the
startup backup may write under the name that the compaction of the same start has used
(`Renamed`: then everything only that file holds is in the database again). For the
migration, `Clean` says that as long as a JSON file waits and no migration was cut, no other
file that could become the database holds data, which would make the next start skip the
migration. The proof found two faults of an earlier model: an open database that was
renamed kept its lock on the new one when both had the same content, and the chain of the
old bucket was thought to survive a migration.

*Accounts.* Answers are given once (`AnswersStay`), on which everything rests. Keys:
`KeyInv` adds that a `TouchKey` between its two transactions holds a key that is stored or
already `late`. Profiles: whoever is told 409 has seen a profile, which has a source
(`HasSource`), and a source stays one. Limiters: `RateInv` bounds the requests an address has passed since `s` *plus*
the tokens its limiter would have now; a limiter that is dropped is full, so a new one
gives nothing away. Meter: the counters are the numbers of requests metered on `day`, and a
day never comes back. Audit log: whoever is in it has passed `withAudit`, and whoever has
passed it is there once or `unlogged` (`AuditInv`). Key-value store: it differs from what was put last only in expired
entries (`KvInv`).

*Notifications.* The proof is about the broker and the rules whoever publishes:
`NotifyFrame` says that each step of `Agents` is one of them (`NotifyStep`) or leaves them
alone (`NoPost` takes a goroutine and the request it stands for away together).
`OnceOK` is what it rests on: an event is with one publisher, or in one place of the
channel, or dispatched, or behind, and it fires a rule once. With it a goroutine in `fires`
stands for one request, so that `FiresCounted` survives each step (a set of goroutines
would otherwise lose one that equals another); and `ReachOK` can say what an event under
way still owes: who must get it and has not is in `work.refs`, and who is in `work.refs`
was active when the snapshot was taken, and, if its fields match by now, was matching at
some moment since the publication. `HistoryOK` is about the ring: the slot of the event
that was recorded `i` events before the last holds it, whatever the head is, and
`EventsHistory`, which walks backwards from the head and filters, then answers the latest
events that match and no other.

*Registry and checker.* `RegistryOK` ties the deadline of an entry to the last sign of life of the
agent itself, which the updates of the checker leave alone. `RoundOK` is the course of a
round: an agent that nothing touched waits in `check.refs` under the address it has, or its
result is at hand, or the status is that of the noted result. `FindBest` finds someone
because ranks and times are bounded, so that some agent is best.

*Mesh.* Where a packet comes from is settled once (`TypeInv`): one of a node is whole and
signed with the key of *some* list of the roll-out (`SignedAtHome`), not the present one, for
it may arrive when both ends have been restarted with others. How far apart the lists can be
by then is bounded by `rolled`: while a packet signed under a list is on its way the roll-out
is at most one step further, and `KeyAssumption` then gives `OwnPacketsAccepted`. For the time
a silent destination is remembered, a settled node `n` has a number of hops (`Hops`), and
`SoundInv` says that a route at `n` expires at most
`Hops[n] * (RouteTTL + MaxDelay)` after its destination spoke, and that what a packet tells
was live at its sender when it was sent. It holds for the saved tables as well, since a start
brings them back, and needs that a service with a permanent route at home is speaking now.
`SeenInv` keeps a route beside each peer noted, and beside each packet in hand that is past
the check, with the time up to which it lives. `CountInv` relates the counters at the last
sample to the present ones, each to its own balance. The sum over the peers is a recursive
function: that the recursion has a solution is shown by a least counterexample in the number
of elements (`SumExists`), and so is what one more packet does to it (`SumAdd`). The proof
found a bound of an earlier model that was wrong for `MaxDelay > 1`: a peer is noted after
its route was added, and its route may end by that much sooner than `LastSeen + RouteTTL`.

*Groups.* `DispatchInv` is about control and arrays: the bucket has the groups of the map
but for those `unsaved`, a call that tries has a try left, and an answer under way, and the
group as long as its array is the answer's (`shared`), show the members that were found, in
their places (`ReaderOK`): a new weight, a new name and an addition keep the agent in each
cell, and what `append` writes lies behind them. For `NextIsFair`,
`MembersOK` says that no agent is twice in a group, so that a member has as many slots as its
weight. `RoundOK` then says where a round stands: the draws that `dealt` counts are those of the
`n` slots before the next one, for some `n` below the total weight, and different slots of one
agent cannot be more than its weight. The bound alone is not inductive: nothing in it says that
the next draw takes a slot that the round has not had. `SteadyOK` says that a member that stayed
with a closed breaker is one of those that the call copied and that the call has still to come
to it (`WillAsk`): `Next` walks over slots and not over members, and comes back to slot 0 at the
end. When one try is left it is the one asked, and its breaker lets it through.

*Route table.* Nearly every operation filters a list, so the proof begins with lemmas about
`At`, the elements of a list at some positions in their order: filters compose in any order,
commute with an appended element, and a list is known by which elements it has in which order
(`AtUnique`). `FreshOK`: a copy that no change has overtaken has the live routes of the table.
`BucketOK`: so has the bucket, unless the last write failed or was overtaken (`behind`) or some
request will still write (`Dirty`); a batch that has changed nothing so far is not `Dirty`, and
does not have to be. Both compare *live* routes, at the present time: expired ones are
dropped here and there at different moments. `QuotaOK` bounds the routes added under the quota
*plus* those still to be added by handlers that have passed the check, in the table, in the
bucket and in every copy, from which a restart may take it. `RoutesVanishForAReason` needs nothing
but the types: it goes through the operations one by one.

*Answers.* `IdsOK` is invariant on its own: the numbers that tell duplicates apart are
distinct and below the next one, in the table, the bucket and the copies; without it
"the alternatives are not the answer" would say nothing. The rest is about the operators,
for any list of routes. Every view looks at the same filtered list, or at a filtered part of
it, and filters commute (`FilterRoutes`, `InScope`, `InRegion`, `AtSite`). The
single pass of `selectBestRoute`, which replaces its candidate by a strictly better one only,
and the head of the ranking, which is stable, are both the first of the best routes. `resolveRoute`
tries the scopes from the narrowest to the widest, so that an answer in one says that
the narrower ones have no match. `/routes/best` does not prune, and agrees because it skips
what has expired.

### Only model-checked

* The liveness properties (`ClaimableJobSettles`, `RequestsEnd`, `ActiveScheduleRuns`,
  `RunSettles`, `NotShutOut`, `RunningWorkerListed`): fairness and `ENABLED` are beyond the prover.
* `UniqueIds` without `BootSafe`, because it is false (`jobs_boot`).

Limits of the models, which the proofs share: `Dispatch` counts round-robin numbers without end
(the code's number is a `uint64` that wraps once in 2^64 draws, after which one round may be cut
short), and groups keep within some total weight, whatever it is.

## 5. Not modelled

The AI endpoints and their client (HTTP calls and prompts; `/ai/chat` loads a session,
waits for the model and saves it, as `Accounts` shows it for profiles), the gRPC adapter
and `/proto/*` (they validate and acknowledge), the command line and desktop clients
apart from the commands on the database file, the webhook dispatcher (a request without
retry), the metrics buffer and the static UI, the generated protobuf code: no protocol
state of their own. Within the modelled components: payloads, formatting, list and
search endpoints that only read, Prometheus counters, SSE subscribers, the capability
handlers of the agent (pure text functions or plain I/O), the configurations of
`withAuth` without tenant keys. Of `spectralctl` also
`repair`, which reads blocks and routes from the database and writes the valid ones back.

The trend rule of `detectAnomaly` needs more samples than the bounds of `mesh` give; the
burst and rate rules are reached.

## 6. Plan

Every component with state of its own has a module, and every safety property a run
checks has a theorem. What is left:

An abstract ledger (an append-only log that may lose unacknowledged suffixes) that
`Ledger` implements where writes are ordered is worth stating as well.
