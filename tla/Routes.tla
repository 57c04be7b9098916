------------------------------- MODULE Routes -------------------------------
(***************************************************************************)
(* The route table of a tenant: pkg/routing/routing.go, the handlers       *)
(* /routes*, and the key "routes" in the tenant's bucket.                  *)
(*                                                                         *)
(* The table is a list that keeps duplicates; most operations take the     *)
(* first route to a destination.  A request that changes it is a sequence  *)
(* of critical sections (check the quota, add or delete one route after    *)
(* the other, copy the table, write the copy in a transaction), and        *)
(* requests overlap.                                                       *)
(*                                                                         *)
(* POST /routes is POST /routes/batch with one entry, DELETE /routes and   *)
(* DELETE /routes/{dst} are DELETE /routes/batch with one destination: the *)
(* handlers do the same steps.  Times are in seconds; AddedAt is left out. *)
(***************************************************************************)
EXTENDS Positions

CONSTANTS
  Endpoint,
  Tag,          \* values of the tags region and site
  Offers,       \* lists of [r, ttl] that a client posts: a route and its ttl_seconds
  Deletions,    \* lists of destinations that a client deletes
  Patches,      \* PATCH bodies
  Requests,     \* resolve requests: [defaults, item]
  Handler,
  NoTag, NoExpiry, Unset,
  MaxRoutes,    \* TENANT_MAX_ROUTES
  MaxRequest,   \* bound on requests that change the table
  MaxTime,      \* bound on the clock
  MaxRestart      \* bound on restarts

RouteTime == 0..MaxTime

\* ExpiresAt is NoExpiry for a route without TTL.
\* For the properties only: id tells duplicates apart, checked: added under the quota.
Route == [dst : Endpoint, lat : Nat, thr : Nat, satellite : BOOLEAN,
          region : Tag \cup {NoTag}, site : Tag \cup {NoTag},
          expires : Nat \cup {NoExpiry}, id : Nat, checked : BOOLEAN]

\* An entry of a POST, and a change of the metric.
Offer == [r : [dst : Endpoint, lat : Nat, thr : Nat, satellite : BOOLEAN,
               region : Tag \cup {NoTag}, site : Tag \cup {NoTag}],
          ttl : Nat]
Metric == [lat : Nat, thr : Nat]

\* A resolve request: region and site may be absent, 0 and Unset ask for nothing.
Query == [region : Tag \cup {NoTag}, site : Tag \cup {NoTag},
          maxScope : {"site", "region", "global"}, alternatives : Nat,
          maxLatency : Nat, minThroughput : Nat, satellite : BOOLEAN \cup {Unset}, penalty : Nat]

\* An item of a batch: what it does not set is Unset.
Item == [region : Tag \cup {NoTag, Unset}, site : Tag \cup {NoTag, Unset},
         maxScope : {"site", "region", "global", Unset}, alternatives : Nat \cup {Unset},
         maxLatency : Nat \cup {Unset}, minThroughput : Nat \cup {Unset},
         satellite : BOOLEAN \cup {Unset}, penalty : Nat \cup {Unset}]

ASSUME RoutesAssumption ==
  /\ NoExpiry \notin Nat /\ NoTag \notin Tag /\ Unset \notin Nat \cup Metric
  /\ Offers \subseteq Seq(Offer) /\ IsFiniteSet(Offers) /\ Offers # {}
  /\ Deletions \subseteq Seq(Endpoint)
  /\ Patches \subseteq [dst : Endpoint, lat : Nat \cup {Unset}, thr : Nat \cup {Unset},
                        ttl : Nat \cup {Unset}]
  /\ Requests \subseteq [defaults : Query, item : Item]
  /\ IsFiniteSet(Handler) /\ Handler # {}
  /\ MaxRoutes \in Nat /\ MaxRequest \in Nat /\ MaxTime \in Nat /\ MaxRestart \in Nat

VARIABLES
  routes,    \* re.Routes
  saved,     \* the key "routes" of the bucket
  pc, req,   \* a request under way: its step and its data
  file,      \* what GET /routes/export has returned
  clock,
  \* for the properties only:
  behind,    \* the last write failed, or was of a copy that was outdated by then
  nextId, requests, restarts

routesVars == <<routes, saved, pc, req, file, clock, behind, nextId, requests, restarts>>

Idle == [op |-> "none"]

RoutesInit ==
  /\ routes = <<>> /\ saved = <<>>
  /\ pc = [h \in Handler |-> "idle"] /\ req = [h \in Handler |-> Idle]
  /\ file = <<>>
  /\ clock = 0
  /\ behind = FALSE /\ nextId = 1 /\ requests = 0 /\ restarts = 0

-----------------------------------------------------------------------------
(* pkg/routing *)

\* Mutation of Expired: a route expires one moment too early.
ExpiredAtDeadline(r, t) == r.expires # NoExpiry /\ t >= r.expires

\* now.After(*route.ExpiresAt)
Expired(r, t) == r.expires # NoExpiry /\ t > r.expires

Unexpired(rs) == At(rs, {i \in DOMAIN rs : ~Expired(rs[i], clock)})

\* AddRouteWithOptions: o is the offered route, ttl 0 for none.
AddRoute(rs, o, ttl, checked) ==
  Append(rs, [dst |-> o.dst, lat |-> o.lat, thr |-> o.thr, satellite |-> o.satellite,
              region |-> o.region, site |-> o.site,
              expires |-> IF ttl > 0 THEN clock + ttl ELSE NoExpiry,
              id |-> nextId, checked |-> checked])

\* The position of the first route to d, 0 if there is none.
First(rs, d) ==
  LET at == {i \in DOMAIN rs : rs[i].dst = d}
  IN  IF at = {} THEN 0 ELSE CHOOSE i \in at : \A j \in at : i <= j

\* GetRoute: an expired first route is an error, whatever follows it.
GetRoute(rs, d) ==
  LET i == First(rs, d) IN IF i = 0 THEN 0 ELSE IF Expired(rs[i], clock) THEN 0 ELSE i

\* UpdateRoute of the first route to d, expired or not; metric and ttl may be Unset.
UpdateRoute(rs, d, metric, ttl) ==
  LET i == First(rs, d) IN
  [rs EXCEPT
    ![i].lat = IF metric = Unset THEN @ ELSE metric.lat,
    ![i].thr = IF metric = Unset THEN @ ELSE metric.thr,
    ![i].expires = IF ttl = Unset THEN @ ELSE IF ttl = 0 THEN NoExpiry ELSE clock + ttl]

\* DeleteRoute of the first route to d.
DeleteRoute(rs, d) ==
  LET i == First(rs, d)
  IN  IF i = 0 THEN rs ELSE At(rs, DOMAIN rs \ {i})

\* routeMatchesFilter, for a filter without tags: 0 and Unset ask for nothing.
Matches(r, f) ==
  /\ ~Expired(r, clock)
  /\ f.maxLatency > 0 => r.lat <= f.maxLatency
  /\ f.minThroughput > 0 => r.thr >= f.minThroughput
  /\ f.satellite # Unset => r.satellite = f.satellite

Score(r, penalty) ==
  r.lat + (IF r.satellite /\ penalty > 0 THEN penalty ELSE 0) - r.thr

\* Mutation of selectBestRoute: the last of several best routes wins.
SelectLastBest(rs, f, penalty) ==
  LET best[i \in 0..Len(rs)] ==
        IF i = 0 THEN 0
        ELSE IF /\ Matches(rs[i], f)
                /\ best[i - 1] # 0 => Score(rs[i], penalty) <= Score(rs[best[i - 1]], penalty)
          THEN i ELSE best[i - 1]
  IN  best[Len(rs)]

\* One pass that keeps the first route with the lowest score; its position or 0.
selectBestRoute(rs, f, penalty) ==
  LET best[i \in 0..Len(rs)] ==
        IF i = 0 THEN 0
        ELSE IF /\ Matches(rs[i], f)
                /\ best[i - 1] # 0 => Score(rs[i], penalty) < Score(rs[best[i - 1]], penalty)
          THEN i ELSE best[i - 1]
  IN  best[Len(rs)]

\* FilterRoutes
FilterRoutes(rs, f) == At(rs, {i \in DOMAIN rs : Matches(rs[i], f)})

\* RankedRoutesFromRoutesFiltered: the matching routes in a stable sort by score.
RankedRoutes(rs, f, penalty) ==
  LET m == FilterRoutes(rs, f)
      ahead(i) == {j \in DOMAIN m :
                     \/ Score(m[j], penalty) < Score(m[i], penalty)
                     \/ Score(m[j], penalty) = Score(m[i], penalty) /\ j < i}
  IN  [k \in DOMAIN m |-> m[CHOOSE i \in DOMAIN m : Cardinality(ahead(i)) = k - 1]]

-----------------------------------------------------------------------------
(* Views: resolve, topology, statistics *)

\* mergeResolveRequest: a field that the item does not set is taken from the defaults.
MergeResolve(defaults, item) ==
  [k \in DOMAIN defaults |-> IF item[k] # Unset THEN item[k] ELSE defaults[k]]

Rank(scope) == CASE scope = "site" -> 1 [] scope = "region" -> 2 [] scope = "global" -> 3

BaseScope(q) ==
  IF q.site # NoTag THEN "site" ELSE IF q.region # NoTag THEN "region" ELSE "global"

InScope(r, q, scope) ==
  CASE scope = "site"   -> r.site = q.site /\ (q.region # NoTag => r.region = q.region)
    [] scope = "region" -> r.region = q.region
    [] scope = "global" -> r.region = NoTag /\ r.site = NoTag

\* The scopes that are tried, in this order.
Scopes(q) ==
  LET all == <<"site", "region", "global">>
  IN  At(all, {i \in DOMAIN all : /\ Rank(all[i]) <= Rank(q.maxScope)
                                  /\ all[i] = "site" => q.site # NoTag
                                  /\ all[i] = "region" => q.region # NoTag})

FilterOf(q) == [maxLatency |-> q.maxLatency, minThroughput |-> q.minThroughput,
                satellite |-> q.satellite]

\* selectScope: the matching candidates of a scope, best first.
SelectScope(rs, q, scope) ==
  RankedRoutes(At(rs, {i \in DOMAIN rs : InScope(rs[i], q, scope)}), FilterOf(q), q.penalty)

\* resolveRoute: the first scope with a match answers its best route and up to
\* q.alternatives others.
resolveRoute(rs, q) ==
  LET tried == Scopes(q)
      hits == {i \in DOMAIN tried : SelectScope(rs, q, tried[i]) # <<>>}
      first == CHOOSE i \in hits : \A j \in hits : i <= j
      found == SelectScope(rs, q, tried[first])
      end == IF 1 + q.alternatives < Len(found) THEN 1 + q.alternatives ELSE Len(found)
  IN
  CASE Rank(q.maxScope) < Rank(BaseScope(q)) -> [status |-> 400]
    [] Rank(q.maxScope) >= Rank(BaseScope(q)) /\ hits = {} -> [status |-> 404]
    [] OTHER -> [status |-> 200, scope |-> tried[first], route |-> found[1],
                 alternatives |-> SubSeq(found, 2, end)]

\* GET /routes/best looks at the table as it is, expired routes included.
BestRoute(q) ==
  LET i == selectBestRoute(routes, FilterOf(q), q.penalty)
  IN  IF i = 0 THEN [status |-> 404] ELSE [status |-> 200, route |-> routes[i]]

\* GET /routes/resolve
Resolve(q) == resolveRoute(Unexpired(routes), q)

\* POST /routes/resolve/batch: one copy of the table answers all items.
ResolveBatch(defaults, items) ==
  LET rs == Unexpired(routes)
      results == [i \in DOMAIN items |-> resolveRoute(rs, MergeResolve(defaults, items[i]))]
      count(S) == Cardinality({i \in DOMAIN items : results[i].status \in S})
  IN  [results |-> results, ok |-> count({200}), not_found |-> count({404}),
       invalid |-> count({400})]

RegionsOf(rs) == {rs[i].region : i \in DOMAIN rs} \ {NoTag}
SitesOf(rs)   == {rs[i].site : i \in DOMAIN rs} \ {NoTag}

Anything == [maxLatency |-> 0, minThroughput |-> 0, satellite |-> Unset]

\* BestRouteFromRoutes
Best(rs, penalty) == rs[selectBestRoute(rs, Anything, penalty)]

InRegion(rs, g) == At(rs, {i \in DOMAIN rs : rs[i].region = g})
AtSite(rs, s)   == At(rs, {i \in DOMAIN rs : rs[i].site = s})

\* GET /routes/topology: the matching routes by region and, in a region, by site.
Topology(rs, f, penalty) ==
  LET m == FilterRoutes(rs, f)
      region(g) == InRegion(m, g)
      site(g, s) == AtSite(region(g), s)
  IN  [total |-> Len(m), untagged |-> Len(region(NoTag)),
       regions |-> [g \in RegionsOf(m) |->
         [count |-> Len(region(g)), best |-> Best(region(g), penalty),
          sites |-> [s \in SitesOf(region(g)) |->
            [count |-> Len(site(g, s)), best |-> Best(site(g, s), penalty)]]]]]

\* The routes of a bucket of /routes/stats: count, satellites, extreme latencies.
Bucket(s) ==
  [count |-> Len(s), satellite |-> Cardinality({i \in DOMAIN s : s[i].satellite}),
   min |-> CHOOSE x \in {s[i].lat : i \in DOMAIN s} : \A i \in DOMAIN s : x <= s[i].lat,
   max |-> CHOOSE x \in {s[i].lat : i \in DOMAIN s} : \A i \in DOMAIN s : x >= s[i].lat]

\* GET /routes/stats: by region, and by site whatever the region.
Stats(rs, f) ==
  LET m == FilterRoutes(rs, f)
  IN  [total |-> Len(m),
       byRegion |-> [g \in RegionsOf(m) |-> Bucket(InRegion(m, g))],
       bySite |-> [s \in SitesOf(m) |-> Bucket(AtSite(m, s))]]

-----------------------------------------------------------------------------
(* Requests that change the table *)

Begin(h, r, at) ==
  /\ pc[h] = "idle"
  /\ requests < MaxRequest
  /\ requests' = requests + 1
  /\ pc' = [pc EXCEPT ![h] = at]
  /\ req' = [req EXCEPT ![h] = r]

Goto(h, at) == pc' = [pc EXCEPT ![h] = at]

Done(h) == Goto(h, "idle") /\ req' = [req EXCEPT ![h] = Idle]

\* The quota check of a request to add n routes.
OverQuota(n) == Len(Unexpired(routes)) + n > MaxRoutes

\* POST /routes and /routes/batch: RouteCount prunes; the quota check comes first.
PostRoutes(h, entries) ==
  /\ Begin(h, [op |-> "post", todo |-> entries, copy |-> <<>>, fresh |-> FALSE, some |-> FALSE],
           IF OverQuota(Len(entries)) THEN "refused" ELSE "change")
  /\ routes' = Unexpired(routes)
  /\ UNCHANGED <<saved, file, clock, behind, nextId, restarts>>

\* 429
Refuse(h) ==
  /\ pc[h] = "refused"
  /\ Done(h)
  /\ UNCHANGED <<routes, saved, file, clock, behind, nextId, requests, restarts>>

\* DELETE /routes, /routes/{dst} and /routes/batch
DeleteRoutes(h, dsts) ==
  /\ Begin(h, [op |-> "delete", todo |-> dsts, copy |-> <<>>, fresh |-> FALSE, some |-> FALSE], "change")
  /\ UNCHANGED <<routes, saved, file, clock, behind, nextId, restarts>>

\* What is left of an exported route's TTL; 0, that is no TTL, when it is over.
TTLLeft(r) == IF r.expires = NoExpiry THEN 0 ELSE IF r.expires > clock THEN r.expires - clock ELSE 0

\* POST /routes/import of the exported file: no quota check.
ImportRoutes(h) ==
  /\ file # <<>>
  /\ Begin(h, [op |-> "import", todo |-> file, copy |-> <<>>, fresh |-> FALSE, some |-> FALSE], "change")
  /\ UNCHANGED <<routes, saved, file, clock, behind, nextId, restarts>>

\* For the properties only: copies of the table are not fresh once it becomes new.
Outdated(new) ==
  [h \in Handler |-> IF pc[h] = "save" /\ new # routes THEN [req[h] EXCEPT !.fresh = FALSE]
                     ELSE req[h]]

\* One AddRouteWithOptions or DeleteRoute of the request.
Change(h) ==
  LET r == req[h]
      x == Head(r.todo)
      new == CASE r.op = "post" -> AddRoute(routes, x.r, x.ttl, TRUE)
               [] r.op = "import" -> AddRoute(routes, x, TTLLeft(x), FALSE)
               [] r.op = "delete" -> DeleteRoute(routes, x)
  IN
  /\ pc[h] = "change" /\ r.todo # <<>>
  /\ routes' = new
  /\ nextId' = IF r.op = "delete" THEN nextId ELSE nextId + 1
  /\ req' = [Outdated(new) EXCEPT ![h].todo = Tail(@), ![h].some = @ \/ new # routes]
  /\ UNCHANGED <<pc, saved, file, clock, behind, requests, restarts>>

\* Mutation of MustSave: deletions are not saved.
MustSaveAdded(r) == r.op # "delete"

\* A POST always saves, a deletion or an import only if it has changed something.
MustSave(r) == r.op = "post" \/ r.some

\* SaveRoutesTenant: ListRoutes prunes and copies the table ...
Copy(h) ==
  /\ pc[h] = "change" /\ req[h].todo = <<>>
  /\ IF MustSave(req[h])
       THEN /\ routes' = Unexpired(routes)
            /\ req' = [req EXCEPT ![h].copy = Unexpired(routes), ![h].fresh = TRUE]
            /\ Goto(h, "save")
       ELSE Done(h) /\ routes' = routes
  /\ UNCHANGED <<saved, file, clock, behind, nextId, requests, restarts>>

\* ... and a transaction writes the copy.
Save(h) ==
  /\ pc[h] = "save"
  /\ saved' = req[h].copy
  /\ behind' = ~req[h].fresh
  /\ Done(h)
  /\ UNCHANGED <<routes, file, clock, nextId, requests, restarts>>

\* The transaction fails: 500 (an import ignores it); the table keeps the change.
SaveFails(h) ==
  /\ pc[h] = "save"
  /\ behind' = TRUE
  /\ Done(h)
  /\ UNCHANGED <<routes, saved, file, clock, nextId, requests, restarts>>

\* PATCH /routes/{dst}: a change of the metric looks the route up first and takes
\* the other half of the metric from there ...
PatchRead(h, p) ==
  LET i == GetRoute(routes, p.dst)
      m == [lat |-> IF p.lat # Unset THEN p.lat ELSE routes[i].lat,
            thr |-> IF p.thr # Unset THEN p.thr ELSE routes[i].thr]
      metric == IF p.lat # Unset \/ p.thr # Unset THEN m ELSE Unset
  IN
  /\ (p.lat # Unset \/ p.thr # Unset) => i # 0
  /\ Begin(h, [op |-> "patch", dst |-> p.dst, metric |-> metric, ttl |-> p.ttl,
               todo |-> <<>>, copy |-> <<>>, fresh |-> FALSE, some |-> TRUE], "update")
  /\ UNCHANGED <<routes, saved, file, clock, behind, nextId, restarts>>

\* ... and UpdateRoute takes the first route to the destination as it is then.
PatchUpdate(h) ==
  LET r == req[h] IN
  /\ pc[h] = "update"
  /\ IF First(routes, r.dst) = 0
       THEN Done(h) /\ UNCHANGED routes
       ELSE /\ routes' = UpdateRoute(routes, r.dst, r.metric, r.ttl)
            /\ Goto(h, "change")
            /\ req' = Outdated(routes')
  /\ UNCHANGED <<saved, file, clock, behind, nextId, requests, restarts>>

\* GET /routes, /routes/filter, /routes/resolve ...: ListRoutes prunes.
List ==
  /\ routes # Unexpired(routes)
  /\ routes' = Unexpired(routes)
  /\ UNCHANGED <<saved, pc, req, file, clock, behind, nextId, requests, restarts>>

\* GET /routes/export
Export ==
  /\ file = <<>> /\ Unexpired(routes) # <<>>
  /\ routes' = Unexpired(routes)
  /\ file' = Unexpired(routes)
  /\ UNCHANGED <<saved, pc, req, clock, behind, nextId, requests, restarts>>

RoutesTick ==
  /\ clock < MaxTime
  /\ clock' = clock + 1
  /\ UNCHANGED <<routes, saved, pc, req, file, behind, nextId, requests, restarts>>

\* The process ends; the next start loads and prunes what is stored, and writes
\* it back when that has made it shorter.
Restart ==
  /\ restarts < MaxRestart
  /\ restarts' = restarts + 1
  /\ routes' = Unexpired(saved)
  /\ saved' = Unexpired(saved)
  /\ pc' = [h \in Handler |-> "idle"] /\ req' = [h \in Handler |-> Idle]
  /\ behind' = FALSE
  /\ UNCHANGED <<file, clock, nextId, requests>>

RoutesNext ==
  \/ \E h \in Handler :
       \/ \E entries \in Offers : PostRoutes(h, entries)
       \/ \E dsts \in Deletions : DeleteRoutes(h, dsts)
       \/ \E p \in Patches : PatchRead(h, p)
       \/ ImportRoutes(h) \/ Refuse(h) \/ Change(h) \/ Copy(h) \/ Save(h) \/ SaveFails(h)
       \/ PatchUpdate(h)
  \/ List \/ Export \/ RoutesTick \/ Restart

RoutesSpec == RoutesInit /\ [][RoutesNext]_routesVars

-----------------------------------------------------------------------------
(* Properties *)

\* Every variable has its type, and a handler that is not at work keeps nothing
\* of its request.
TableTypeOK ==
  /\ routes \in Seq(Route) /\ saved \in Seq(Route) /\ file \in Seq(Route)
  /\ \A h \in Handler : pc[h] = "idle" <=> req[h] = Idle
  /\ pc \in [Handler -> {"idle", "refused", "change", "save", "update"}]
  /\ clock \in RouteTime /\ behind \in BOOLEAN
  /\ requests \in 0..MaxRequest /\ restarts \in 0..MaxRestart

Quiet == \A h \in Handler : pc[h] = "idle"

\* When no request is under way the bucket holds the table (but for routes that
\* have expired), unless the last write failed or was of a copy that another request
\* had outdated in the meantime: SaveRoutesTenant copies outside the transaction.
SavedUnlessOvertaken ==
  Quiet /\ ~behind => Unexpired(saved) = Unexpired(routes)

\* Routes that were added under the quota never exceed it by more than the other
\* requests that were checked at the same time can add.
QuotaOvershoot ==
  LET longest == CHOOSE n \in {Len(e) : e \in Offers} : \A e \in Offers : Len(e) <= n
      live == Unexpired(routes)
  IN  Cardinality({i \in DOMAIN live : live[i].checked})
        <= MaxRoutes + (Cardinality(Handler) - 1) * longest

\* /routes/resolve answers a live, matching route of the narrowest scope that
\* has one, not wider than max_scope, and no such route of that scope is better;
\* it fails only when there is none; the alternatives are no better either.
\* (The views depend on the table only, so that they are looked at when no
\* request is under way.)
ResolvesNarrowest ==
  Quiet => \A b \in Requests :
    LET q == MergeResolve(b.defaults, b.item)
        a == Resolve(q)
        fits(s) == {i \in DOMAIN routes : /\ Matches(routes[i], FilterOf(q))
                                          /\ InScope(routes[i], q, s)}
        wanted == {s \in {"site", "region", "global"} :
                     /\ Rank(s) <= Rank(q.maxScope)
                     /\ s = "site" => q.site # NoTag
                     /\ s = "region" => q.region # NoTag}
    IN
    CASE a.status = 200 ->
           /\ a.scope \in wanted
           /\ \E i \in fits(a.scope) : routes[i] = a.route
           /\ \A i \in fits(a.scope) : Score(a.route, q.penalty) <= Score(routes[i], q.penalty)
           /\ \A s \in wanted : Rank(s) < Rank(a.scope) => fits(s) = {}
           /\ Len(a.alternatives) <= q.alternatives
           /\ \A k \in DOMAIN a.alternatives : a.alternatives[k].id # a.route.id
      [] a.status = 404 -> \A s \in wanted : fits(s) = {}
      [] OTHER -> Rank(q.maxScope) < Rank(BaseScope(q))

\* The views agree: the best route of a region and of a site is the same in the
\* topology (one pass over the group), in resolve (head of a ranking) and, when
\* all routes are of one region, in /routes/best on the unpruned table; /routes/best
\* finds something when the topology does; topology and statistics count the same
\* routes; a batch answers as single requests do.
ViewsAgree ==
  Quiet => \A b \in Requests :
    LET q == MergeResolve(b.defaults, b.item)
        t == Topology(Unexpired(routes), FilterOf(q), q.penalty)
        st == Stats(Unexpired(routes), FilterOf(q))
        batch == ResolveBatch(b.defaults, <<b.item>>)
        narrow(g, s, scope) ==
          Resolve([q EXCEPT !.region = g, !.site = s, !.maxScope = scope])
    IN  /\ batch.results[1] = Resolve(q) /\ batch.ok + batch.not_found + batch.invalid = 1
        /\ BestRoute(q).status = 200 <=> t.total > 0
        /\ \A g \in DOMAIN t.regions :
             LET r == t.regions[g] IN
             /\ narrow(g, NoTag, "region").route = r.best
             /\ st.byRegion[g].count = r.count
             /\ r.count = t.total => BestRoute(q).route = r.best
             /\ \A s \in DOMAIN r.sites :
                  /\ narrow(g, s, "site").route = r.sites[s].best
                  /\ r.sites[s].count <= st.bySite[s].count

\* A route leaves the table only when it has expired, when a request deletes its
\* destination, or in a restart that finds it neither stored nor alive.
VanishesForAReason ==
  [][\A i \in DOMAIN routes :
       (\A j \in DOMAIN routes' : routes'[j].id # routes[i].id) =>
         \/ routes[i].expires # NoExpiry /\ clock > routes[i].expires
         \/ \E h \in Handler : /\ req[h].op = "delete" /\ req[h].todo # <<>>
                               /\ Head(req[h].todo) = routes[i].dst
         \/ restarts' # restarts /\ \A j \in DOMAIN saved' : saved'[j].id # routes[i].id
    ]_routesVars

\* The bucket holds the table unless a later save was overtaken by an earlier one,
\* and handlers that overlap pass the quota by no more than they were.
TableIsKept == TableTypeOK /\ SavedUnlessOvertaken /\ QuotaOvershoot

\* What resolve answers is right, and every other view of the table says the same.
AnswersAgree == ResolvesNarrowest /\ ViewsAgree
=============================================================================
