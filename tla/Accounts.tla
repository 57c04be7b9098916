------------------------------ MODULE Accounts ------------------------------
(***************************************************************************)
(* What surrounds every request of the server, and the accounts of the     *)
(* tenants: the middleware of newHandler (rate limits, sub-keys, audit,    *)
(* metering), pkg/billing (profiles, sub-keys, usage of the day),          *)
(* pkg/store/audit.go and pkg/kv.                                          *)
(*                                                                         *)
(* A request is a process.  It runs through the middleware from outside to *)
(* inside, through its handler, and back: withRateLimit,                   *)
(* withTenantRateLimit, withDynAuth, handler, withAudit,                   *)
(* withBillingMetrics.  Each step is a critical section or a transaction,  *)
(* and requests overlap.  "go m.TouchKey" is a process of its own.         *)
(*                                                                         *)
(* The server is configured with an admin key and TENANT_KEYS.  Emails,    *)
(* names of keys and values are left out; QuotaFor is a function of the    *)
(* plan.                                                                   *)
(***************************************************************************)
EXTENDS Integers, Sequences, FiniteSets

CONSTANTS
  Tenant, Default,        \* Default: the tenant of the server itself
  Plan, Free,
  Name, NoName,
  Client,                 \* remote addresses
  Item,                   \* keys of the key-value store
  None,
  Request,                \* the requests that clients send, by name
  Op, From, Cred, Target, \* per request: operation, address, credential, tenant addressed
  Arg,                    \* and what it carries (plan, name, key, item with TTL)
  Public, AdminOnly,      \* the operations on PUBLIC_PATHS and on ADMIN_PATHS
  Rate, Burst, TTL,       \* of ipLimiter, in tokens and ticks
  TenantRate, TenantBurst,
  DayLength,              \* ticks between two midnights
  Scripts,                \* [requests, ticks, restarts]: what happens in a behaviour
  MaxTime                 \* bound on the clock

Profile == [plan : Plan, name : Name \cup {NoName}]
Metric  == {"api_calls", "jobs"}
Time    == 0..MaxTime

Limiter == [tokens : Nat, at : Time]   \* of x/time/rate
clientLimiter == [lim : Limiter, seen : Time]
Value == [by : Request, expires : Nat \cup {None}]   \* kv.Entry

\* A limiter is dropped after TTL without a request: by then it is full again.
ASSUME AccountsAssumption ==
  /\ Default \in Tenant /\ Free \in Plan /\ NoName \notin Name
  /\ None \notin Profile \cup Request \cup Tenant \cup Nat
  /\ None \notin Limiter /\ None \notin clientLimiter /\ None \notin Value
  /\ Rate \in Nat /\ Burst \in Nat \ {0} /\ TTL \in Nat /\ Rate * TTL >= Burst
  /\ TenantRate \in Nat /\ TenantBurst \in Nat \ {0}
  /\ DayLength \in Nat \ {0} /\ MaxTime \in Nat

\* What a request carries fits its operation; a sub-key, and the key that is to be
\* deleted, is the one another request of the behaviour makes.
ASSUME RequestAssumption ==
  /\ Target \in [Request -> Tenant] /\ From \in [Request -> Client]
  /\ \A q \in Request :
       /\ Cred[q].kind = "configured" => Cred[q].tenant \in Tenant
       /\ Op[q] = "rename" => Arg[q] \in Name
       /\ Op[q] \in {"signup", "plan"} => Arg[q] \in Plan
       /\ Op[q] = "put" => Arg[q].item \in Item /\ Arg[q].ttl \in Nat
       /\ Op[q] = "delete" => Arg[q].item \in Item
  /\ Scripts \subseteq [requests : SUBSET Request, ticks : Nat, restarts : Nat]
  /\ \A s \in Scripts :
       /\ IsFiniteSet(s.requests)
       /\ \A q \in s.requests : /\ Cred[q].kind = "subkey" => Cred[q].of \in s.requests
                                /\ Op[q] = "delkey" => Arg[q] \in s.requests

VARIABLES
  pc, answer,      \* per request: its step, its status
  tenant,          \* per request: the tenant that withDynAuth has put into its context
  seen,            \* per request: the profile it has read
  touch,           \* per request: the step of the TouchKey it has started
  profiles,        \* bucket key "billing_profile" per tenant
  keys,            \* the sub-keys in all buckets, by the request that made them
  audit,           \* bucket "audit": <<request, tenant, status>> in the order of ids
  usage, day,      \* m.usage, m.day
  clients, lastGC, \* ipLimiter
  shared,          \* tenantLimiter: its entry for each tenant
  kv,              \* s.entries
  now,
  script,          \* what may still happen
  \* for the properties only:
  sentAt,          \* when a request passed withRateLimit
  jobDay, callDay, \* the day on which a request submitted a job, on which it was metered
  unlogged,        \* requests whose AuditRecord failed
  revoked, late,   \* sub-keys deleted, those deleted between the steps of a TouchKey
  ideal, crossed,  \* profiles if updates did not overlap, tenants whose updates did
  halfway,         \* tenants whose signup was cut short
  put              \* per tenant and item: what the last request left

vars == <<pc, answer, tenant, seen, touch, profiles, keys, audit, usage, day, clients,
          lastGC, shared, kv, now, script, sentAt, jobDay, callDay, unlogged, revoked,
          late, ideal, crossed, halfway, put>>

reqVars   == <<answer, tenant, seen>>
billVars  == <<profiles, keys, ideal, crossed, halfway, revoked, late>>
meterVars == <<usage, day, jobDay, callDay>>
limitVars == <<clients, lastGC, shared, sentAt>>
kvVars    == <<kv, put>>
rest      == <<now, script>>

Never == MaxTime + 1
NoUsage == [t \in Tenant |-> [m \in Metric |-> 0]]
NoItems == [t \in Tenant |-> [i \in Item |-> None]]

\* The requests of this behaviour.
Sent == script.requests

Today == now \div DayLength

Init ==
  /\ now = 0 /\ script \in Scripts
  /\ pc = [q \in Sent |-> "idle"] /\ answer = [q \in Sent |-> 0]
  /\ tenant = [q \in Sent |-> Default] /\ seen = [q \in Sent |-> None]
  /\ touch = [q \in Sent |-> "none"]
  /\ profiles = [t \in Tenant |-> None] /\ keys = {} /\ audit = <<>>
  /\ usage = NoUsage /\ day = 0
  /\ clients = [c \in Client |-> None] /\ lastGC = 0
  /\ shared = [t \in Tenant |-> None]
  /\ kv = NoItems
  /\ sentAt = [q \in Sent |-> Never]
  /\ jobDay = [q \in Sent |-> Never] /\ callDay = [q \in Sent |-> Never]
  /\ unlogged = {}
  /\ revoked = {} /\ late = {} /\ ideal = profiles /\ crossed = {} /\ halfway = {}
  /\ put = NoItems

Goto(q, at) == pc' = [pc EXCEPT ![q] = at]

Writes(q) == Op[q] \notin {"get", "usage"}

\* The handler (or a refusal) answers: withAudit comes next, for a write.
Answer(q, status) ==
  /\ answer' = [answer EXCEPT ![q] = status]
  /\ Goto(q, IF Writes(q) THEN "audit" ELSE "meter")

-----------------------------------------------------------------------------
(* Rate limits *)

\* A limiter of x/time/rate: the tokens left at a time.
Full(burst) == [tokens |-> burst, at |-> now]

Refilled(l, r, burst) ==
  LET n == l.tokens + r * (now - l.at)
  IN  [tokens |-> IF n < burst THEN n ELSE burst, at |-> now]

\* Mutation of Idle: clients are forgotten by the age of the last clean-up.
IdleSinceGC(c) == TRUE

Idle(c) == now - c.seen > TTL

\* ipLimiter.get: clean up when that is due, find or make the client's limiter.
get(cs, gc, c) ==
  LET kept == IF now - gc > TTL
                THEN [d \in Client |-> IF cs[d] # None /\ Idle(cs[d]) THEN None ELSE cs[d]]
                ELSE cs
      lim == IF kept[c] # None THEN kept[c].lim ELSE Full(Burst)
  IN  [kept EXCEPT ![c] = [lim |-> Refilled(lim, Rate, Burst), seen |-> now]]

\* The client of a sub-key knows its secret and its id from the answer 201.
Known(q) == /\ Cred[q].kind = "subkey" => answer[Cred[q].of] = 201
            /\ Op[q] = "delkey" => answer[Arg[q]] = 201

\* withRateLimit
Arrive(q) ==
  LET cs == get(clients, lastGC, From[q])
      ok == cs[From[q]].lim.tokens >= 1
  IN
  /\ pc[q] = "idle" /\ Known(q)
  /\ lastGC' = IF now - lastGC > TTL THEN now ELSE lastGC
  /\ IF ok
       THEN /\ clients' = [cs EXCEPT ![From[q]].lim.tokens = @ - 1]
            /\ sentAt' = [sentAt EXCEPT ![q] = now]
            /\ Goto(q, "limit") /\ answer' = answer
       ELSE /\ clients' = cs
            /\ answer' = [answer EXCEPT ![q] = 429]
            /\ Goto(q, "meter") /\ UNCHANGED sentAt
  /\ UNCHANGED <<tenant, seen, touch, audit, unlogged, shared>>
  /\ UNCHANGED <<billVars, meterVars, kvVars, rest>>

\* withTenantRateLimit: it is outside withDynAuth, so that the context has no
\* tenant yet and the limiter is that of the default tenant.
LimitTenant(q) ==
  LET l == IF shared[Default] = None THEN Full(TenantBurst)
           ELSE Refilled(shared[Default], TenantRate, TenantBurst)
  IN
  /\ pc[q] = "limit"
  /\ IF l.tokens >= 1
       THEN /\ shared' = [shared EXCEPT ![Default] = [l EXCEPT !.tokens = @ - 1]]
            /\ Goto(q, "auth") /\ answer' = answer
       ELSE /\ shared' = [shared EXCEPT ![Default] = l]
            /\ answer' = [answer EXCEPT ![q] = 429]
            /\ Goto(q, "meter")
  /\ UNCHANGED <<tenant, seen, touch, audit, unlogged, clients, lastGC, sentAt>>
  /\ UNCHANGED <<billVars, meterVars, kvVars, rest>>

-----------------------------------------------------------------------------
(* Credentials *)

\* The tenant whose bucket a sub-key is in.
Owner(k) == IF Op[k] = "signup" THEN Target[k] ELSE tenant[k]

\* withAuth: the tenant of a request without a sub-key, None for 401.
withAuth(q) ==
  CASE Op[q] \in Public -> Default
    [] Op[q] \notin Public /\ Op[q] \in AdminOnly ->
         IF Cred[q].kind = "admin" THEN Default ELSE None
    [] OTHER -> IF Cred[q].kind = "configured" THEN Cred[q].tenant ELSE None

\* withDynAuth: a stored sub-key names the tenant and is touched in the background.
withDynAuth(q) ==
  LET found == Cred[q].kind = "subkey" /\ Cred[q].of \in keys
      t == IF found THEN Owner(Cred[q].of) ELSE withAuth(q)
  IN
  /\ pc[q] = "auth"
  /\ touch' = [touch EXCEPT ![q] = IF found THEN "get" ELSE @]
  /\ IF t = None THEN Answer(q, 401) /\ tenant' = tenant
     ELSE /\ Goto(q, "handle") /\ tenant' = [tenant EXCEPT ![q] = t]
          /\ answer' = answer
  /\ UNCHANGED <<seen, audit, unlogged>>
  /\ UNCHANGED <<billVars, meterVars, limitVars, kvVars, rest>>

\* Mutation of Present: TouchKey does not look whether there is such a key.
PresentAlways(k) == TRUE

Present(k) == k \in keys

\* TouchKey reads the key in one transaction ...
TouchGet(q) ==
  /\ touch[q] = "get"
  /\ touch' = [touch EXCEPT ![q] = IF Present(Cred[q].of) THEN "put" ELSE "none"]
  /\ UNCHANGED <<pc, audit, unlogged>>
  /\ UNCHANGED <<reqVars, billVars, meterVars, limitVars, kvVars, rest>>

\* ... and writes it back in another.
TouchPut(q) ==
  /\ touch[q] = "put"
  /\ touch' = [touch EXCEPT ![q] = "none"]
  /\ keys' = keys \cup {Cred[q].of}
  /\ UNCHANGED <<pc, audit, unlogged, profiles, ideal, crossed, halfway, revoked, late>>
  /\ UNCHANGED <<reqVars, meterVars, limitVars, kvVars, rest>>

-----------------------------------------------------------------------------
(* Profiles and sub-keys *)

Handling(q, op) == pc[q] = "handle" /\ Op[q] = op

\* For the properties only: q writes a profile of t that others have changed
\* since q read it.
Crossing(q, t) == IF seen[q] # profiles[t] THEN crossed \cup {t} ELSE crossed

\* GetProfile, the first step of a change; PATCH /tenant/me and PATCH
\* /admin/tenants/{id}/plan.
ReadProfile(q, op, t) ==
  /\ Handling(q, op)
  /\ seen' = [seen EXCEPT ![q] = profiles[t]]
  /\ Goto(q, "save")
  /\ UNCHANGED <<answer, tenant, touch, audit, unlogged>>
  /\ UNCHANGED <<billVars, meterVars, limitVars, kvVars, rest>>

\* SaveProfile, the second one.
SaveProfile(q, op, t, p, i) ==
  /\ pc[q] = "save" /\ Op[q] = op
  /\ profiles' = [profiles EXCEPT ![t] = p]
  /\ ideal' = [ideal EXCEPT ![t] = i]
  /\ crossed' = Crossing(q, t)
  /\ UNCHANGED <<keys, revoked, late, tenant, seen, touch, audit, unlogged>>
  /\ UNCHANGED <<meterVars, limitVars, kvVars, rest>>

\* PATCH /tenant/me: a tenant without a profile gets one.
Renamed(p, name) == IF p = None THEN [plan |-> Free, name |-> name]
                    ELSE [p EXCEPT !.name = name]

PatchMe(q) ==
  LET t == tenant[q] IN
  \/ ReadProfile(q, "rename", t)
  \/ /\ SaveProfile(q, "rename", t, Renamed(seen[q], Arg[q]), Renamed(ideal[t], Arg[q]))
     /\ Answer(q, 200) /\ UNCHANGED halfway

\* Mutation of WithPlan: the profile is made anew.
WithPlanOnly(p, plan) == [plan |-> plan, name |-> NoName]

\* PATCH /admin/tenants/{id}/plan
WithPlan(p, plan) == IF p = None THEN [plan |-> plan, name |-> NoName]
                     ELSE [p EXCEPT !.plan = plan]

PatchPlan(q) ==
  LET t == Target[q] IN
  \/ ReadProfile(q, "plan", t)
  \/ /\ SaveProfile(q, "plan", t, WithPlan(seen[q], Arg[q]),
                    IF ideal[t] = None THEN [plan |-> Arg[q], name |-> NoName]
                    ELSE [ideal[t] EXCEPT !.plan = Arg[q]])
     /\ Answer(q, 200) /\ UNCHANGED halfway

\* POST /auth/signup: 409 if there is a profile, ...
SignupCheck(q) ==
  /\ Handling(q, "signup")
  /\ IF profiles[Target[q]] # None THEN Answer(q, 409)
     ELSE Goto(q, "save") /\ answer' = answer
  /\ UNCHANGED <<tenant, seen, touch, audit, unlogged>>
  /\ UNCHANGED <<billVars, meterVars, limitVars, kvVars, rest>>

\* ... a key after the profile ...
AfterSave(q) == Goto(q, "key") /\ answer' = answer

SignupSave(q) ==
  LET p == [plan |-> Arg[q], name |-> NoName]
  IN  /\ SaveProfile(q, "signup", Target[q], p, p)
      /\ AfterSave(q) /\ UNCHANGED halfway

\* GenerateKey: one transaction; PutKV makes the bucket if it is gone.
GenerateKey(q) ==
  /\ keys' = keys \cup {q}
  /\ Answer(q, 201)
  /\ UNCHANGED <<profiles, ideal, crossed, halfway, revoked, late>>

\* ... and the answer shows the key.
SignupKey(q) ==
  /\ pc[q] = "key"
  /\ GenerateKey(q)
  /\ UNCHANGED <<tenant, seen, touch, audit, unlogged>>
  /\ UNCHANGED <<meterVars, limitVars, kvVars, rest>>

\* POST /tenant/keys
PostKey(q) ==
  /\ Handling(q, "newkey")
  /\ GenerateKey(q)
  /\ UNCHANGED <<tenant, seen, touch, audit, unlogged>>
  /\ UNCHANGED <<meterVars, limitVars, kvVars, rest>>

\* For the properties only: K is to go; a TouchKey may have read some of it and
\* not yet written.
Revoke(K) ==
  /\ revoked' = revoked \cup K
  /\ late' = late \cup {k \in K : \E q \in Sent : touch[q] = "put" /\ Cred[q].of = k}

\* The key that DELETE /tenant/keys/{id} names, in the bucket of the tenant.
Named(q) == {k \in {Arg[q]} : Owner(k) = tenant[q]}

DeleteKey(q) ==
  /\ Handling(q, "delkey")
  /\ keys' = keys \ Named(q)
  /\ Revoke({k \in {Arg[q]} : Owner(k) = tenant[q]})
  /\ Answer(q, 204)
  /\ UNCHANGED <<profiles, ideal, crossed, halfway, tenant, seen, touch, audit, unlogged>>
  /\ UNCHANGED <<meterVars, limitVars, kvVars, rest>>

\* A transaction of a handler fails: 500, and what was done before stays.
WriteFails(q) ==
  /\ pc[q] \in {"save", "key"} \/ Handling(q, "newkey") \/ Handling(q, "delkey")
  /\ Answer(q, 500)
  /\ halfway' = IF pc[q] = "key" THEN halfway \cup {Target[q]} ELSE halfway
  /\ UNCHANGED <<profiles, keys, ideal, crossed, revoked, late, tenant, seen, touch, audit,
                 unlogged>>
  /\ UNCHANGED <<meterVars, limitVars, kvVars, rest>>

\* DELETE /admin/tenants: the bucket goes, with profile and keys; the usage and
\* the items of the tenant stay.
DeleteTenant(q) ==
  LET t == Target[q] IN
  /\ Handling(q, "deltenant") /\ t # Default
  /\ keys' = {k \in keys : Owner(k) # t}
  /\ Revoke({k \in keys : Owner(k) = t})
  /\ profiles' = [profiles EXCEPT ![t] = None]
  /\ ideal' = [ideal EXCEPT ![t] = None]
  /\ Answer(q, 204)
  /\ UNCHANGED <<crossed, halfway, tenant, seen, touch, audit, unlogged>>
  /\ UNCHANGED <<meterVars, limitVars, kvVars, rest>>

-----------------------------------------------------------------------------
(* Usage of the day *)

\* Mutation of Rotated: a new day keeps the old counters.
RotatedNever(u) == u

\* rotateDayIfNeededLocked
Rotated(u) == IF Today = day THEN u ELSE NoUsage

\* Record
Record(t, m) ==
  /\ usage' = [Rotated(usage) EXCEPT ![t][m] = @ + 1]
  /\ day' = Today

\* What GET /tenant/me and /admin/usage show of a tenant.
Usage(t) == Rotated(usage)[t]

\* POST /agents/jobs records a job for its tenant, before it is answered.
PostJob(q) ==
  /\ Handling(q, "job")
  /\ Record(tenant[q], "jobs")
  /\ jobDay' = [jobDay EXCEPT ![q] = Today]
  /\ Answer(q, 201)
  /\ UNCHANGED <<callDay, tenant, seen, touch, audit, unlogged>>
  /\ UNCHANGED <<billVars, limitVars, kvVars, rest>>

\* The other handlers that submit a job, as the run and the advance of a pipeline and the
\* dispatch by capability: they do not record it.
SubmitUnmetered(q) ==
  /\ Handling(q, "submit")
  /\ jobDay' = [jobDay EXCEPT ![q] = Today]
  /\ Answer(q, 201)
  /\ UNCHANGED <<usage, day, callDay, tenant, seen, touch, audit, unlogged>>
  /\ UNCHANGED <<billVars, limitVars, kvVars, rest>>

\* GET /tenant/me
GetUsage(q) ==
  /\ Handling(q, "usage")
  /\ usage' = Rotated(usage) /\ day' = Today
  /\ Answer(q, 200)
  /\ UNCHANGED <<jobDay, callDay, tenant, seen, touch, audit, unlogged>>
  /\ UNCHANGED <<billVars, limitVars, kvVars, rest>>

\* Any other GET, as that of /audit: it only reads.
Get(q) ==
  /\ Handling(q, "get")
  /\ Answer(q, 200)
  /\ UNCHANGED <<tenant, seen, touch, audit, unlogged>>
  /\ UNCHANGED <<billVars, meterVars, limitVars, kvVars, rest>>

\* The tenant of an audit entry is the default one: the context that withDynAuth
\* has made is not that of withAudit.
Entry(q) == <<[req |-> q, tenant |-> Default]>>

\* withAudit, after the handler: AuditRecord appends with the next sequence number, or its
\* transaction fails and nobody looks at the error.
withAudit(q) ==
  /\ pc[q] = "audit"
  /\ \/ audit' = audit \o Entry(q) /\ UNCHANGED unlogged
     \/ unlogged' = unlogged \cup {q} /\ UNCHANGED audit
  /\ Goto(q, "meter")
  /\ UNCHANGED <<touch>>
  /\ UNCHANGED <<reqVars, billVars, meterVars, limitVars, kvVars, rest>>

\* AuditList: the newest entries of a tenant first; None for all tenants.
AuditList(t, limit) ==
  LET own == {i \in DOMAIN audit : t = None \/ audit[i].tenant = t}
      newer(i) == Cardinality({j \in own : j > i})
      n == IF Cardinality(own) < limit THEN Cardinality(own) ELSE limit
  IN  [k \in 1..n |-> audit[CHOOSE i \in own : newer(i) = k - 1]]

\* withBillingMetrics, last of all, for the default tenant (as withAudit).
withBillingMetrics(q) ==
  /\ pc[q] = "meter"
  /\ Record(Default, "api_calls")
  /\ callDay' = [callDay EXCEPT ![q] = Today]
  /\ Goto(q, "done")
  /\ UNCHANGED <<jobDay, touch, audit, unlogged>>
  /\ UNCHANGED <<reqVars, billVars, limitVars, kvVars, rest>>

-----------------------------------------------------------------------------
(* pkg/kv *)

\* time.Now().After(*e.ExpiresAt)
Over(e) == e.expires # None /\ now > e.expires

\* Get; List is Get of every item.
KvGet(t, i) == IF kv[t][i] = None THEN None ELSE IF Over(kv[t][i]) THEN None ELSE kv[t][i]

\* Count: an entry is not counted any more at the moment at which it expires.
Count ==
  Cardinality({x \in Tenant \X Item :
    LET e == kv[x[1]][x[2]] IN e # None /\ (e.expires = None \/ now < e.expires)})

\* PUT /kv/{key}: Set; by names the request that has put the value.
KvPut(q) ==
  LET e == [by |-> q, expires |-> IF Arg[q].ttl > 0 THEN now + Arg[q].ttl ELSE None] IN
  /\ Handling(q, "put")
  /\ kv' = [kv EXCEPT ![tenant[q]][Arg[q].item] = e]
  /\ put' = [put EXCEPT ![tenant[q]][Arg[q].item] = e]
  /\ Answer(q, 200)
  /\ UNCHANGED <<tenant, seen, touch, audit, unlogged>>
  /\ UNCHANGED <<billVars, meterVars, limitVars, rest>>

\* DELETE /kv/{key}: an entry that has expired can still be deleted.
KvDelete(q) ==
  /\ Handling(q, "delete")
  /\ kv' = [kv EXCEPT ![tenant[q]][Arg[q].item] = None]
  /\ put' = [put EXCEPT ![tenant[q]][Arg[q].item] = None]
  /\ Answer(q, IF kv[tenant[q]][Arg[q].item] = None THEN 404 ELSE 204)
  /\ UNCHANGED <<tenant, seen, touch, audit, unlogged>>
  /\ UNCHANGED <<billVars, meterVars, limitVars, rest>>

\* Mutation of Pruned: the tenant's map goes with its first expired entry.
PrunedTenants(m) ==
  [t \in Tenant |-> IF \E i \in Item : m[t][i] # None /\ Over(m[t][i])
                      THEN [i \in Item |-> None] ELSE m[t]]

Pruned(m) ==
  [t \in Tenant |-> [i \in Item |-> IF m[t][i] # None /\ Over(m[t][i]) THEN None ELSE m[t][i]]]

\* The ticker of main.
Prune ==
  /\ kv # Pruned(kv)
  /\ kv' = Pruned(kv)
  /\ UNCHANGED <<pc, touch, audit, unlogged, put>>
  /\ UNCHANGED <<reqVars, billVars, meterVars, limitVars, rest>>

-----------------------------------------------------------------------------
Tick ==
  /\ now < MaxTime /\ script.ticks > 0
  /\ now' = now + 1
  /\ script' = [script EXCEPT !.ticks = @ - 1]
  /\ UNCHANGED <<pc, touch, audit, unlogged>>
  /\ UNCHANGED <<reqVars, billVars, meterVars, limitVars, kvVars>>

\* The process ends with its requests and starts again: buckets and audit log stay.
Restart ==
  /\ script.restarts > 0
  /\ script' = [script EXCEPT !.restarts = @ - 1]
  /\ pc' = [q \in Sent |-> IF pc[q] \in {"idle", "done"} THEN pc[q] ELSE "cut"]
  /\ touch' = [q \in Sent |-> "none"]
  /\ halfway' = halfway \cup {Target[q] : q \in {r \in Sent : pc[r] = "key"}}
  /\ usage' = NoUsage /\ day' = Today
  /\ clients' = [c \in Client |-> None] /\ lastGC' = now
  /\ shared' = [t \in Tenant |-> None]
  /\ kv' = NoItems /\ put' = NoItems
  /\ sentAt' = [q \in Sent |-> Never]
  /\ jobDay' = [q \in Sent |-> Never] /\ callDay' = [q \in Sent |-> Never]
  /\ UNCHANGED <<answer, tenant, seen, audit, unlogged, profiles, keys, ideal, crossed, revoked,
                 late, now>>

Next ==
  \/ \E q \in Sent :
       \/ Arrive(q) \/ LimitTenant(q) \/ withDynAuth(q) \/ TouchGet(q) \/ TouchPut(q)
       \/ PatchMe(q) \/ PatchPlan(q) \/ SignupCheck(q) \/ SignupSave(q) \/ SignupKey(q)
       \/ PostKey(q) \/ DeleteKey(q) \/ DeleteTenant(q) \/ WriteFails(q)
       \/ PostJob(q) \/ SubmitUnmetered(q) \/ GetUsage(q) \/ Get(q) \/ KvPut(q) \/ KvDelete(q)
       \/ withAudit(q) \/ withBillingMetrics(q)
  \/ Prune \/ Tick \/ Restart

Spec == Init /\ [][Next]_vars

-----------------------------------------------------------------------------
(* Properties *)

\* Every variable has its type: no profile without a plan is stored, no limiter
\* holds more tokens than its burst, and no answered request lacks its status.
TypeOK ==
  /\ pc \in [Sent -> {"idle", "limit", "auth", "handle", "save", "key", "audit",
                         "meter", "done", "cut"}]
  /\ \A q \in Sent : pc[q] \in {"audit", "done"} => answer[q] # 0
  /\ tenant \in [Sent -> Tenant]
  /\ touch \in [Sent -> {"none", "get", "put"}]
  /\ profiles \in [Tenant -> Profile \cup {None}] /\ seen \in [Sent -> Profile \cup {None}]
  /\ keys \subseteq Sent
  /\ usage \in [Tenant -> [Metric -> Nat]] /\ day \in 0..Today
  /\ \A c \in Client : clients[c] # None => /\ clients[c].lim.tokens \in 0..Burst
                                            /\ clients[c].seen \in 0..now
  /\ now \in Time

\* A sub-key that was deleted, alone or with its tenant, is not in the store
\* unless a TouchKey had read it before the deletion and wrote it back after:
\* the two transactions of TouchKey are the only way back.
RevokedStaysRevoked == \A k \in revoked \cap keys : k \in late

\* A sub-key that was answered with 201 and never deleted works: profile changes,
\* touches, other deletions and restarts leave it in the store.
IssuedKeyWorks == \A k \in Sent : answer[k] = 201 /\ Op[k] \in {"signup", "newkey"}
                                       => k \in keys \cup revoked

\* A profile is what signup, PATCH /tenant/me and PATCH .../plan make of it one
\* after the other, unless two of them overlapped.
ProfileLostOnlyByOverlap == \A t \in Tenant \ crossed : profiles[t] = ideal[t]

\* Nobody is told "tenant already registered" and has no key: a tenant with a
\* profile that a signup has made was given a key, is being given one, or its
\* signup was cut short by a failed write or a restart.
SignupGivesKey ==
  \A q \in Sent : Op[q] = "signup" /\ answer[q] = 409 =>
    \/ Target[q] \in halfway
    \/ \E k \in Sent : Op[k] = "signup" /\ Target[k] = Target[q] /\ k # q
                          /\ (answer[k] = 201 \/ pc[k] = "key")
    \/ \E k \in Sent : /\ Op[k] \in {"rename", "plan"} /\ answer[k] = 200
                          /\ Target[q] \in {tenant[k], Target[k]}

\* No address passes more requests in an interval than Burst and what is
\* refilled in it, also when its limiter is dropped and made anew.
RateBounded ==
  \A c \in Client, s \in 0..now :
    Cardinality({q \in Sent : From[q] = c /\ sentAt[q] \in s..now})
      <= Burst + Rate * (now - s)

\* The usage of the day counts every request since the start once, on the day on which it
\* ends, and every job of POST /agents/jobs on the day of its submission, whatever
\* midnight falls between.  Calls of all tenants count for the default one, against
\* main.go:5819 "per-tenant API call counts", and jobs submitted elsewhere for nobody.
MeteredOnce ==
  \A t \in Tenant :
    /\ Usage(t)["jobs"] =
         Cardinality({q \in Sent : Op[q] = "job" /\ tenant[q] = t /\ jobDay[q] = Today})
    /\ Usage(t)["api_calls"] =
         IF t = Default THEN Cardinality({q \in Sent : callDay[q] = Today}) ELSE 0

\* The audit log has every answered write that passed the limits exactly once, refused
\* ones included, but for those whose AuditRecord failed: these it does not have.  It
\* lists the latest ones first.
AuditedOnce ==
  /\ \A q \in Sent : Writes(q) /\ pc[q] = "done" /\ answer[q] # 429 =>
       Cardinality({i \in DOMAIN audit : audit[i].req = q}) = IF q \in unlogged THEN 0 ELSE 1
  /\ \A i, j \in DOMAIN audit : i # j => audit[i].req # audit[j].req
  /\ \A n \in 1..Len(audit) : \A i \in 1..n :
       AuditList(Default, n)[i].req = audit[Len(audit) + 1 - i].req

\* No read can tell whether an expired entry was pruned: a tenant reads what was put
\* last and has not expired (DELETE can: it answers 204 before and 404 after), and
\* the count is that of the readable entries but those that expire right now.
PruneInvisible ==
  LET read == {x \in Tenant \X Item : KvGet(x[1], x[2]) # None} IN
  /\ \A t \in Tenant, i \in Item :
       KvGet(t, i) = IF put[t][i] = None THEN None
                     ELSE IF Over(put[t][i]) THEN None ELSE put[t][i]
  /\ Count = Cardinality({x \in read : kv[x[1]][x[2]].expires # now})

\* Keys are exact: one that was issued is stored, a deleted one comes back only by a
\* TouchKey that was under way, and a signup that is not cut gives one.
KeysAreExact == RevokedStaysRevoked /\ IssuedKeyWorks /\ SignupGivesKey

\* Profiles are what the answered requests made of them, one after the other, unless
\* two requests on the same profile overlapped.
ProfilesAreExact == TypeOK /\ ProfileLostOnlyByOverlap

\* What the usage and the audit log record, they record once, after the handler and across
\* midnight: calls, jobs of POST /agents/jobs, and writes whose AuditRecord succeeds.
RecordedOnce == MeteredOnce /\ AuditedOnce
=============================================================================
