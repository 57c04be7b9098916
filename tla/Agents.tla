------------------------------- MODULE Agents -------------------------------
(***************************************************************************)
(* The agent registry with its handlers /agents..., the health checker,    *)
(* and the heartbeat loop of a worker: pkg/agent/agent.go,                 *)
(* pkg/healthcheck/healthcheck.go, cmd/spectral-agent/main.go.  Both the   *)
(* register handler and the checker publish to the broker of Notify.       *)
(*                                                                         *)
(* The registry lives in memory; its operations are atomic.  The checker   *)
(* pings, notes the result, updates the registry and publishes in separate *)
(* steps, while agents register, report, move and leave.  An agent is a    *)
(* pair of tenant and id.  Times are in seconds; RegisteredAt, and with it *)
(* the order of lists, is left out.                                        *)
(***************************************************************************)
EXTENDS Notify

CONSTANTS
  Agent,       \* tenants and ids: agents with a worker of their own
  TenantOf,    \* the tenant of an agent
  Offers,      \* the capabilities of an agent
  Capability,
  Addr, NoAddr,
  Places,      \* the addresses a worker can be started with
  Checker,     \* the goroutine of the health checker
  Rank,        \* the order in which FindBest likes the states
  TTL          \* ttl_seconds of the workers

Status == {"healthy", "degraded", "unknown"}

ASSUME AgentsAssumption ==
  /\ Publisher = Agent \cup {Checker} /\ Checker \notin Agent
  /\ TenantOf \in [Agent -> Tenant] /\ NoAddr \notin Addr
  /\ TTL \in Nat \ {0} /\ Places \subseteq Addr \cup {NoAddr}
  /\ Rank \in [Status -> Nat]

VARIABLES
  agents,   \* r.agents: a function on the keys that are there
  results,  \* c.results
  check,    \* the round of the checker: its step, what is left to ping, the result at hand;
            \* done: what it has pinged, for the properties only
  worker,   \* what the program of an agent is doing
  place,    \* the address an agent has and gives when it registers
  answers,  \* the addresses that answer a ping
  now,
  \* for the properties only:
  beat,     \* when an agent was last heard of itself
  touched,  \* agents that registered, reported or were changed since the round began
  settled   \* agents that the last round found, untouched since it began

registry == <<agents, beat, touched, settled>>
world == <<worker, place, answers, now>>
vars == <<notifyVars, registry, results, check, world>>

Resting == [step |-> "idle", refs |-> {}, done |-> {}, k |-> NoAddr, addr |-> NoAddr, ok |-> FALSE]

Init ==
  /\ NotifyInit
  /\ agents = <<>> /\ results = <<>> /\ check = Resting
  /\ worker = [k \in Agent |-> "off"]
  /\ place = [k \in Agent |-> NoAddr] /\ answers = Addr
  /\ now = 0
  /\ beat = [k \in Agent |-> 0] /\ touched = {} /\ settled = {}

-----------------------------------------------------------------------------
(* The registry. *)

Gone(k) == k \in DOMAIN agents /\ now > agents[k].expires
Without(ks) == [k \in DOMAIN agents \ ks |-> agents[k]]
Expired == {k \in DOMAIN agents : Gone(k)}

Get(k) == k \in DOMAIN agents /\ ~Gone(k)

\* List(tenant); all the tenants for the checker.
List(ts) == {k \in DOMAIN agents : ~Gone(k) /\ TenantOf[k] \in ts}

ListByCapability(ts, c) == {k \in List(ts) : c \in Offers[k]}

\* The candidates FindBest can return: on a tie the order of registration decides.
FindBest(t, c) ==
  LET of == ListByCapability({t}, c)
      better(o, k) ==
        \/ Rank[agents[o].status] > Rank[agents[k].status]
        \/ /\ Rank[agents[o].status] = Rank[agents[k].status]
           /\ agents[o].seen > agents[k].seen
  IN  {k \in of : \A o \in of : ~better(o, k)}

CountByTenant(t) == Cardinality({k \in DOMAIN agents : TenantOf[k] = t /\ now <= agents[k].expires})

Touch(k) == touched' = touched \cup {k} /\ settled' = settled \ {k}

Register(k) ==
  /\ agents' = Put(agents, k,
       [addr |-> place[k], status |-> "healthy", seen |-> now, expires |-> now + TTL])
  /\ beat' = [beat EXCEPT ![k] = now]
  /\ Touch(k)

\* Mutation of Alive: the deadline is not looked at.
AliveIfThere(k) == k \in DOMAIN agents

\* What Heartbeat, UpdateStatus and Update check; an agent past its deadline is removed.
Alive(k) == k \in DOMAIN agents /\ ~Gone(k)

SetStatus(k, s) == [agents EXCEPT ![k].status = s, ![k].seen = now]

UpdateStatus(k, s) == agents' = IF Alive(k) THEN SetStatus(k, s) ELSE Without({k})

-----------------------------------------------------------------------------
(* The program of an agent: main, register and heartbeatLoop.  A request    *)
(* or its answer can be lost; the client sees an error in both cases.       *)

\* POST /agents/register up to the first half of Publish.
RegisterRequest(k) ==
  /\ worker[k] \in {"register", "again"}
  /\ Register(k)
  /\ Record(k, [id |-> histCount + 1, tenant |-> TenantOf[k], type |-> "agent_registered"])
  /\ worker' = [worker EXCEPT ![k] = IF @ = "again" THEN "waitAgain" ELSE "wait"]
  /\ UNCHANGED <<rules, flow, left, results, check, place, answers, now>>

\* The answer: 201, or nothing.  main tries again, heartbeatLoop waits for its next tick.
RegisterAnswer(k) ==
  /\ worker[k] \in {"wait", "waitAgain"} /\ pub[k] = NoEvent
  /\ \/ worker' = [worker EXCEPT ![k] = "run"] /\ UNCHANGED left
     \/ worker[k] = "wait" /\ worker' = [worker EXCEPT ![k] = "register"] /\ Spend("lost")
  /\ UNCHANGED <<rules, broker, pub, flow, registry, results, check, place, answers, now>>

RegisterLost(k) ==
  /\ worker[k] \in {"register", "again"} /\ Spend("lost")
  /\ worker' = [worker EXCEPT ![k] = IF @ = "again" THEN "run" ELSE @]
  /\ UNCHANGED <<rules, broker, pub, flow, registry, results, check, place, answers, now>>

\* Mutation of Heartbeat: the worker does not register anew when it is not known.
HeartbeatOnly(k) ==
  /\ worker[k] = "run" /\ Alive(k)
  /\ agents' = [agents EXCEPT ![k].seen = now, ![k].expires = now + TTL]
  /\ beat' = [beat EXCEPT ![k] = now]
  /\ UNCHANGED <<notifyVars, touched, settled, results, check, world>>

Heartbeat(k) ==
  /\ worker[k] = "run"
  /\ \/ /\ Alive(k)
        /\ agents' = [agents EXCEPT ![k].seen = now, ![k].expires = now + TTL]
        /\ beat' = [beat EXCEPT ![k] = now]
        /\ UNCHANGED worker
     \/ /\ ~Alive(k)
        /\ agents' = Without({k})
        /\ worker' = [worker EXCEPT ![k] = "again"]
        /\ UNCHANGED beat
  /\ UNCHANGED <<notifyVars, touched, settled, results, check, place, answers, now>>

\* The heartbeat or its answer is lost: the worker registers anew.
HeartbeatLost(k) ==
  /\ worker[k] = "run" /\ Spend("lost")
  /\ worker' = [worker EXCEPT ![k] = "again"]
  /\ UNCHANGED <<rules, broker, pub, flow, registry, results, check, place, answers, now>>

\* The program starts, maybe at another address, or stops without a word.
StartWorker(k) ==
  /\ worker[k] = "off" /\ Spend("start")
  /\ worker' = [worker EXCEPT ![k] = "register"]
  /\ \E a \in Places : place' = [place EXCEPT ![k] = a]
  /\ UNCHANGED <<rules, broker, pub, flow, registry, results, check, answers, now>>

StopWorker(k) ==
  /\ worker[k] = "run" /\ Spend("stop")
  /\ worker' = [worker EXCEPT ![k] = "off"]
  /\ UNCHANGED <<rules, broker, pub, flow, registry, results, check, place, answers, now>>

-----------------------------------------------------------------------------
(* Requests about agents. *)

\* DELETE /agents; an expired agent that is still there counts as found.
Deregister(k) ==
  /\ k \in DOMAIN agents /\ Spend("api")
  /\ agents' = Without({k})
  /\ Touch(k)
  /\ UNCHANGED <<rules, broker, pub, flow, beat, results, check, world>>

\* POST /agents/status, PATCH /agents with a status.
PostStatus(k, s) ==
  /\ Spend("api")
  /\ UpdateStatus(k, s)
  /\ Touch(k)
  /\ UNCHANGED <<rules, broker, pub, flow, beat, results, check, world>>

\* PATCH /agents with an address.
PatchAddr(k, a) ==
  /\ Spend("api")
  /\ agents' = IF Alive(k) THEN [agents EXCEPT ![k].addr = a, ![k].seen = now] ELSE Without({k})
  /\ Touch(k)
  /\ UNCHANGED <<rules, broker, pub, flow, beat, results, check, world>>

Prune ==
  /\ Expired # {}
  /\ agents' = Without(Expired)
  /\ UNCHANGED <<notifyVars, beat, touched, settled, results, check, world>>

-----------------------------------------------------------------------------
(* runChecks. *)

StartRound ==
  /\ check.step = "idle" /\ Spend("round")
  /\ agents' = Without(Expired)
  /\ check' = [Resting EXCEPT !.step = "ping",
                 !.refs = {<<k, agents[k].addr>> : k \in {x \in List(Tenant) : agents[x].addr # NoAddr}}]
  /\ touched' = {} /\ settled' = {}
  /\ UNCHANGED <<rules, broker, pub, flow, beat, results, world>>

\* The ping goes to the address of the list.
ping(ref) ==
  /\ check.step = "ping" /\ ref \in check.refs
  /\ check' = [check EXCEPT !.step = "note", !.refs = @ \ {ref},
                            !.done = @ \cup {ref[1]}, !.k = ref[1], !.addr = ref[2], !.ok = ref[2] \in answers]
  /\ UNCHANGED <<notifyVars, registry, results, world>>

NoteResult ==
  /\ check.step = "note"
  /\ results' = Put(results, check.k, [addr |-> check.addr, ok |-> check.ok])
  /\ check' = [check EXCEPT !.step = "apply"]
  /\ UNCHANGED <<notifyVars, registry, world>>

Verdict(ok) == IF ok THEN "healthy" ELSE "degraded"

\* Mutation of ApplyResult: only a failure is applied.
ApplyFailure ==
  /\ check.step = "apply"
  /\ IF check.ok THEN UNCHANGED agents ELSE UpdateStatus(check.k, "degraded")
  /\ check' = [check EXCEPT !.step = "publish"]
  /\ UNCHANGED <<notifyVars, beat, touched, settled, results, world>>

ApplyResult ==
  /\ check.step = "apply"
  /\ UpdateStatus(check.k, Verdict(check.ok))
  /\ check' = [check EXCEPT !.step = "publish"]
  /\ UNCHANGED <<notifyVars, beat, touched, settled, results, world>>

PublishResult ==
  /\ check.step = "publish"
  /\ Record(Checker, [id |-> histCount + 1, tenant |-> TenantOf[check.k],
                      type |-> IF check.ok THEN "agent_health_ok" ELSE "agent_health_fail"])
  /\ check' = [check EXCEPT !.step = "sent"]
  /\ UNCHANGED <<rules, flow, left, registry, results, world>>

NextPing ==
  /\ check.step = "sent" /\ pub[Checker] = NoEvent
  /\ check' = [check EXCEPT !.step = "ping"]
  /\ UNCHANGED <<notifyVars, registry, results, world>>

EndRound ==
  /\ check.step = "ping" /\ check.refs = {}
  /\ check' = Resting
  /\ settled' = check.done \ touched
  /\ UNCHANGED <<notifyVars, agents, beat, touched, results, world>>

-----------------------------------------------------------------------------
(* The surroundings. *)

\* The process of an address comes up or goes down.
Flip(a) ==
  /\ Spend("stop")
  /\ answers' = IF a \in answers THEN answers \ {a} ELSE answers \cup {a}
  /\ UNCHANGED <<rules, broker, pub, flow, registry, results, check, worker, place, now>>

\* Another part of the server publishes: jobs, blocks, routes.
Event(t, type) ==
  /\ Spend("event")
  /\ Record(Checker, [id |-> histCount + 1, tenant |-> t, type |-> type])
  /\ check.step = "idle"
  /\ UNCHANGED <<rules, flow, registry, results, check, world>>

\* The server is restarted: the registry and the results are gone.
Restart ==
  /\ Spend("crash")
  /\ LoadFromStore
  /\ agents' = <<>> /\ results' = <<>> /\ check' = Resting
  /\ touched' = {} /\ settled' = {}
  /\ worker' = [k \in Agent |-> CASE worker[k] = "wait" -> "register"
                                 [] worker[k] = "waitAgain" -> "run" [] OTHER -> worker[k]]
  /\ UNCHANGED <<beat, place, answers, now>>

Tick ==
  /\ Spend("tick")
  /\ now' = now + 1
  /\ UNCHANGED <<rules, broker, pub, flow, registry, results, check, worker, place, answers>>

Next ==
  \/ NotifyNext /\ UNCHANGED <<registry, results, check, world>>
  \/ \E k \in Agent :
       \/ RegisterRequest(k) \/ RegisterAnswer(k) \/ RegisterLost(k)
       \/ Heartbeat(k) \/ HeartbeatLost(k) \/ StartWorker(k) \/ StopWorker(k)
       \/ Deregister(k)
       \/ \E s \in {"degraded", "unknown"} : PostStatus(k, s)
       \/ \E a \in Addr : PatchAddr(k, a)
  \/ Prune
  \/ StartRound \/ \E ref \in check.refs : ping(ref)
  \/ NoteResult \/ ApplyResult \/ PublishResult \/ NextPing \/ EndRound
  \/ \E a \in Addr : Flip(a)
  \/ \E t \in Tenant, type \in {"job.created"} : Event(t, type)
  \/ Restart \/ Tick

\* The worker's loops go on, and the server answers its requests.
Progress(k) ==
  \/ RegisterRequest(k) \/ RegisterAnswer(k) \/ Heartbeat(k)
  \/ Offer(k) /\ UNCHANGED <<registry, results, check, world>>

Spec == Init /\ [][Next]_vars /\ \A k \in Agent : WF_vars(Progress(k))

-----------------------------------------------------------------------------
(* Properties. *)

\* Every variable has its type, and the channel its size.
TypeOK ==
  /\ DOMAIN agents \subseteq Agent /\ DOMAIN results \subseteq Agent
  /\ \A k \in DOMAIN agents :
       /\ agents[k].addr \in Addr \cup {NoAddr} /\ agents[k].status \in Status
       /\ agents[k].seen <= now
  /\ check.step \in {"idle", "ping", "note", "apply", "publish", "sent"}
  /\ worker \in [Agent -> {"off", "register", "wait", "again", "waitAgain", "run"}]
  /\ Len(chan) <= BufferSize
  /\ work.refs \subseteq DOMAIN heap /\ ids \subseteq DOMAIN heap

\* Whoever is listed, counted or chosen by FindBest was heard of itself within its TTL: the
\* checker's updates of a silent agent refresh LastSeen and never the deadline; and some
\* agent is chosen whenever one with the capability is listed.
ListsAlive ==
  \A t \in Tenant :
    /\ \A k \in List({t}) : now <= beat[k] + TTL
    /\ CountByTenant(t) = Cardinality(List({t}))
    /\ \A c \in Capability :
         /\ FindBest(t, c) \subseteq List({t})
         /\ (FindBest(t, c) = {}) <=> (ListByCapability({t}, c) = {})

\* After a round of the checker, an agent that neither registered nor was changed since the
\* round began has the status of a ping of the address it has (a slow ping may judge an
\* agent that has moved or reported meanwhile, but only until the next round).
VerdictIsCurrent ==
  \A k \in settled \cap List(Tenant) :
    /\ agents[k].addr = results[k].addr
    /\ agents[k].status = Verdict(results[k].ok)

\* An agent whose time is over, or that was removed, comes back by registering only: no late
\* heartbeat, report or ping result brings it back.
ComesBackByRegistering ==
  [][\A k \in Agent : (~Get(k) /\ Get(k)') => worker[k] \in {"register", "again"}]_vars

\* A running worker is listed again whatever happened to its requests, its entry or the
\* server: heartbeatLoop registers anew when it is not known.
RunningWorkerListed ==
  \A k \in Agent : worker[k] # "off" ~> (Get(k) \/ worker[k] = "off")

\* The registry is current: its lists hold the agents whose time has not passed, and
\* an agent left alone during a round has the verdict on the address it has now.
RegistryIsCurrent == TypeOK /\ ListsAlive /\ VerdictIsCurrent
=============================================================================
