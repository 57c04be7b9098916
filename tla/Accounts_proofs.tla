--------------------------- MODULE Accounts_proofs ---------------------------
(***************************************************************************)
(* Proofs about the accounts and the middleware, for every value of the    *)
(* constants: sub-keys and profiles are what the answered requests made of *)
(* them, no address passes more requests than its limiter allows, every    *)
(* request is metered and logged once, and pruning cannot be seen.         *)
(***************************************************************************)
EXTENDS Accounts, FiniteSetTheorems, SequenceTheorems, TLAPS

-----------------------------------------------------------------------------
(* Requests.  An answer is given once, and nothing of a request changes afterwards *)
(* but how far it has come on its way out.                                         *)

Early == {"idle", "limit", "auth", "handle", "save", "key"}
Past == {"audit", "meter", "done"}

ReqInv ==
  /\ script \in [requests : SUBSET Request, ticks : Nat, restarts : Nat]
  /\ IsFiniteSet(Sent)
  /\ \A q \in Sent : /\ Cred[q].kind = "subkey" => Cred[q].of \in Sent
                     /\ Op[q] = "delkey" => Arg[q] \in Sent
  /\ pc \in [Sent -> Early \cup Past \cup {"cut"}]
  /\ answer \in [Sent -> Nat]
  /\ tenant \in [Sent -> Tenant]
  /\ touch \in [Sent -> {"none", "get", "put"}]
  /\ now \in Time
  /\ \A q \in Sent :
       /\ pc[q] \in Early => answer[q] = 0
       /\ pc[q] \in Past => answer[q] # 0
       /\ pc[q] = "key" => Op[q] = "signup"
       /\ pc[q] \notin {"idle", "cut"} => Known(q)
       /\ touch[q] # "none" => Cred[q].kind = "subkey" /\ answer[Cred[q].of] = 201

\* On its way in, request q goes on to step at, with answer s (0 for none yet) and tenant t.
Serves(q, at, s, t) ==
  /\ pc[q] \in Early /\ at # "idle" /\ pc' = [pc EXCEPT ![q] = at]
  /\ s \in Nat /\ answer' = [answer EXCEPT ![q] = s]
  /\ t \in Tenant /\ tenant' = [tenant EXCEPT ![q] = t]
  /\ (at \in Early /\ s = 0) \/ (at \in Past /\ s # 0)
  /\ pc[q] = "idle" => Known(q)
  /\ at = "key" => Op[q] = "signup"
  /\ UNCHANGED <<script, now>>

\* Answers and the tenants of answered requests stay; no request starts or ends again.
AnswersStay ==
  /\ script'.requests = script.requests
  /\ \A k \in Sent : /\ answer[k] # 0 => (answer'[k] = answer[k] /\ tenant'[k] = tenant[k])
                     /\ pc'[k] = "idle" => pc[k] = "idle"
                     /\ pc[k] = "done" => pc'[k] = "done"

\* A served request keeps the others, and the touch it may start is of a known key.
LEMMA ServesKeeps ==
  ASSUME ReqInv, NEW q \in Sent, NEW at, NEW s, NEW t, Serves(q, at, s, t),
         \/ touch' = touch
         \/ Cred[q].kind = "subkey" /\ pc[q] # "idle" /\ touch' = [touch EXCEPT ![q] = "get"]
  PROVE  ReqInv' /\ AnswersStay
<1>1. /\ pc \in [Sent -> Early \cup Past \cup {"cut"}] /\ answer \in [Sent -> Nat]
      /\ tenant \in [Sent -> Tenant] /\ touch \in [Sent -> {"none", "get", "put"}]
  BY DEF ReqInv
<1>2. /\ Sent' = Sent /\ script' = script /\ now' = now
  BY DEF Serves, Sent
<1>3. /\ pc'[q] = at /\ answer'[q] = s /\ tenant'[q] = t
      /\ \A k \in Sent \ {q} : pc'[k] = pc[k] /\ answer'[k] = answer[k] /\ tenant'[k] = tenant[k]
  BY <1>1 DEF Serves
<1>4. answer[q] = 0 /\ at \in Early \cup Past
  BY DEF ReqInv, Serves
<1>5. AnswersStay
  <2>1. at # "idle" /\ pc[q] # "done"
    BY DEF Serves, Early
  <2>2. QED
    BY <1>2, <1>3, <1>4, <2>1 DEF AnswersStay
<1>6. /\ pc' \in [Sent' -> Early \cup Past \cup {"cut"}] /\ answer' \in [Sent' -> Nat]
      /\ tenant' \in [Sent' -> Tenant] /\ touch' \in [Sent' -> {"none", "get", "put"}]
  BY <1>1, <1>2, <1>4 DEF Serves
<1>7. \A k \in Sent : Known(k) => Known(k)'
  BY <1>4, <1>5 DEF Known, AnswersStay, ReqInv
<1>8. ASSUME NEW k \in Sent
      PROVE  /\ pc'[k] \in Early => answer'[k] = 0
             /\ pc'[k] \in Past => answer'[k] # 0
             /\ pc'[k] = "key" => Op[k] = "signup"
             /\ pc'[k] \notin {"idle", "cut"} => Known(k)'
             /\ touch'[k] # "none" => Cred[k].kind = "subkey" /\ answer'[Cred[k].of] = 201
  <2>1. /\ pc[k] \in Early => answer[k] = 0
        /\ pc[k] \in Past => answer[k] # 0
        /\ pc[k] = "key" => Op[k] = "signup"
        /\ pc[k] \notin {"idle", "cut"} => Known(k)
        /\ touch[k] # "none" => Cred[k].kind = "subkey" /\ answer[Cred[k].of] = 201
        /\ Cred[k].kind = "subkey" => Cred[k].of \in Sent
    BY DEF ReqInv
  <2>2. touch'[k] # "none" => Cred[k].kind = "subkey" /\ answer'[Cred[k].of] = 201
    <3>1. touch'[k] # "none" => Cred[k].kind = "subkey" /\ answer[Cred[k].of] = 201
      <4>1. CASE k # q \/ touch' = touch
        BY <1>1, <2>1, <4>1
      <4>2. CASE k = q /\ Cred[q].kind = "subkey" /\ pc[q] # "idle"
        BY <2>1, <4>2 DEF Known, Serves, Early
      <4>3. QED
        BY <4>1, <4>2
    <3>2. QED
      BY <2>1, <3>1, <1>5 DEF AnswersStay
  <2>3. CASE k = q
    <3>1. pc[q] # "cut"
      BY DEF Serves, Early
    <3>2. Known(q)
      BY <2>1, <2>3, <3>1 DEF Serves
    <3>3. (at \in Early => s = 0) /\ (at \in Past => s # 0)
      BY DEF Serves, Early, Past
    <3>4. QED
      BY <1>3, <1>7, <2>2, <2>3, <3>2, <3>3 DEF Serves
  <2>4. CASE k # q
    BY <1>3, <1>7, <2>1, <2>2, <2>4
  <2>5. QED
    BY <2>3, <2>4
<1>9. /\ script' \in [requests : SUBSET Request, ticks : Nat, restarts : Nat]
      /\ IsFiniteSet(Sent') /\ now' \in Time
      /\ \A k \in Sent' : /\ Cred[k].kind = "subkey" => Cred[k].of \in Sent'
                          /\ Op[k] = "delkey" => Arg[k] \in Sent'
  BY <1>2 DEF ReqInv
<1>10. ReqInv'
  BY <1>2, <1>6, <1>8, <1>9 DEF ReqInv
<1>11. QED
  BY <1>5, <1>10

\* The handler, or a refusal on the way in, answers.
LEMMA AnswerKeeps ==
  ASSUME ReqInv, NEW q \in Sent, pc[q] \in Early \ {"idle"}, NEW s \in Nat \ {0}, Answer(q, s),
         UNCHANGED <<tenant, script, now>>,
         \/ touch' = touch
         \/ Cred[q].kind = "subkey" /\ touch' = [touch EXCEPT ![q] = "get"]
  PROVE  ReqInv' /\ AnswersStay /\ answer' = [answer EXCEPT ![q] = s] /\ pc'[q] \in Past
<1>1. PICK at \in Past : pc' = [pc EXCEPT ![q] = at]
  BY DEF Answer, Goto, Past
<1>2. tenant \in [Sent -> Tenant] /\ pc \in [Sent -> Early \cup Past \cup {"cut"}]
  BY DEF ReqInv
<1>3. tenant' = [tenant EXCEPT ![q] = tenant[q]] /\ tenant[q] \in Tenant
  BY <1>2
<1>4. at # "idle" /\ at # "key"
  BY DEF Past
<1>5. answer' = [answer EXCEPT ![q] = s]
  BY DEF Answer
<1>6. Serves(q, at, s, tenant[q])
  BY <1>1, <1>3, <1>4, <1>5 DEF Serves
<1>7. pc[q] # "idle"
  OBVIOUS
<1>8. ReqInv' /\ AnswersStay
  BY <1>6, <1>7, ServesKeeps
<1>9. QED
  BY <1>1, <1>2, <1>5, <1>8

\* A request goes on without an answer.
LEMMA GotoKeeps ==
  ASSUME ReqInv, NEW q \in Sent, pc[q] \in Early, NEW at \in Early \ {"idle"}, Goto(q, at),
         pc[q] = "idle" => Known(q), at = "key" => Op[q] = "signup",
         UNCHANGED <<answer, tenant, touch, script, now>>
  PROVE  ReqInv' /\ AnswersStay /\ pc'[q] = at
<1>1. /\ tenant \in [Sent -> Tenant] /\ answer \in [Sent -> Nat] /\ answer[q] = 0
      /\ pc \in [Sent -> Early \cup Past \cup {"cut"}]
  BY DEF ReqInv
<1>2. /\ tenant' = [tenant EXCEPT ![q] = tenant[q]] /\ tenant[q] \in Tenant
      /\ answer' = [answer EXCEPT ![q] = 0]
  BY <1>1
<1>3. Serves(q, at, 0, tenant[q])
  BY <1>2 DEF Serves, Goto
<1>4. QED
  BY <1>1, <1>3, ServesKeeps DEF Goto

\* Steps that change at most how far answered requests and touches have come, the clock,
\* and what is left of the script.
LEMMA OutwardKeeps ==
  ASSUME ReqInv, UNCHANGED <<answer, tenant>>, script'.requests = script.requests,
         script' \in [requests : SUBSET Request, ticks : Nat, restarts : Nat],
         now' \in Time,
         pc' \in [Sent -> Early \cup Past \cup {"cut"}],
         touch' \in [Sent -> {"none", "get", "put"}],
         \A q \in Sent : /\ \/ pc'[q] = pc[q]
                            \/ pc[q] \in Past \ {"done"} /\ pc'[q] \in Past
                            \/ pc[q] # "done" /\ pc'[q] = "cut"
                         /\ touch'[q] # "none" => touch[q] # "none"
  PROVE  ReqInv' /\ AnswersStay
<1>1. Sent' = Sent
  BY DEF Sent
<1>2. AnswersStay
  BY DEF AnswersStay, Past
<1>3. \A q \in Sent : Known(q)' <=> Known(q)
  BY DEF Known
<1>4. ASSUME NEW q \in Sent
      PROVE  /\ pc'[q] \in Early => answer'[q] = 0
             /\ pc'[q] \in Past => answer'[q] # 0
             /\ pc'[q] = "key" => Op[q] = "signup"
             /\ pc'[q] \notin {"idle", "cut"} => Known(q)'
             /\ touch'[q] # "none" => Cred[q].kind = "subkey" /\ answer'[Cred[q].of] = 201
  <2>1. /\ pc[q] \in Early => answer[q] = 0
        /\ pc[q] \in Past => answer[q] # 0
        /\ pc[q] = "key" => Op[q] = "signup"
        /\ pc[q] \notin {"idle", "cut"} => Known(q)
        /\ touch[q] # "none" => Cred[q].kind = "subkey" /\ answer[Cred[q].of] = 201
    BY DEF ReqInv
  <2>2. CASE pc'[q] = pc[q]
    BY <1>3, <2>1, <2>2
  <2>3. CASE pc[q] \in Past /\ pc'[q] \in Past
    BY <1>3, <2>1, <2>3 DEF Past, Early
  <2>4. CASE pc'[q] = "cut"
    BY <2>1, <2>4 DEF Past, Early
  <2>5. QED
    BY <2>2, <2>3, <2>4
<1>5. QED
  BY <1>1, <1>2, <1>4 DEF ReqInv

\* The steps of one request.
StepOf(q) ==
  \/ Arrive(q) \/ LimitTenant(q) \/ withDynAuth(q) \/ TouchGet(q) \/ TouchPut(q)
  \/ PatchMe(q) \/ PatchPlan(q) \/ SignupCheck(q) \/ SignupSave(q) \/ SignupKey(q)
  \/ PostKey(q) \/ DeleteKey(q) \/ DeleteTenant(q) \/ WriteFails(q)
  \/ PostJob(q) \/ SubmitUnmetered(q) \/ GetUsage(q) \/ Get(q) \/ KvPut(q) \/ KvDelete(q)
  \/ withAudit(q) \/ withBillingMetrics(q)

\* A request that is refused by a limiter.
LEMMA RefusedKeeps ==
  ASSUME ReqInv, NEW q \in Sent, pc[q] \in Early, pc[q] = "idle" => Known(q),
         answer' = [answer EXCEPT ![q] = 429], Goto(q, "meter"),
         UNCHANGED <<tenant, touch, script, now>>
  PROVE  ReqInv' /\ AnswersStay
<1>1. tenant' = [tenant EXCEPT ![q] = tenant[q]] /\ tenant[q] \in Tenant
  BY DEF ReqInv
<1>2. "meter" \in Past /\ "meter" # "idle" /\ "meter" # "key" /\ 429 \in Nat /\ 429 # 0
  BY DEF Past
<1>3. pc' = [pc EXCEPT ![q] = "meter"]
  BY DEF Goto
<1>4. Serves(q, "meter", 429, tenant[q])
  BY <1>1, <1>2, <1>3 DEF Serves
<1>5. QED
  BY <1>4, ServesKeeps

\* Requests stay in order whatever one of them does.
LEMMA ReqStep ==
  ASSUME ReqInv, NEW q \in Sent, StepOf(q)
  PROVE  ReqInv' /\ AnswersStay
<1>0. /\ "idle" \in Early /\ "limit" \in Early \ {"idle"} /\ "auth" \in Early \ {"idle"}
      /\ "handle" \in Early \ {"idle"} /\ "save" \in Early \ {"idle"} /\ "key" \in Early \ {"idle"}
      /\ q \in Request /\ pc \in [Sent -> Early \cup Past \cup {"cut"}]
      /\ tenant \in [Sent -> Tenant] /\ touch \in [Sent -> {"none", "get", "put"}]
      /\ script \in [requests : SUBSET Request, ticks : Nat, restarts : Nat] /\ now \in Time
  BY DEF Early, ReqInv, Sent
<1>1. CASE Arrive(q)
  <2>1. pc[q] = "idle" /\ Known(q) /\ UNCHANGED <<tenant, touch, script, now>>
    BY <1>1 DEF Arrive, rest
  <2>2. CASE Goto(q, "limit") /\ answer' = answer
    BY <1>0, <2>1, <2>2, GotoKeeps
  <2>3. CASE answer' = [answer EXCEPT ![q] = 429] /\ Goto(q, "meter")
    BY <1>0, <2>1, <2>3, RefusedKeeps
  <2>4. QED
    BY <1>1, <2>2, <2>3 DEF Arrive
<1>2. CASE LimitTenant(q)
  <2>1. pc[q] = "limit" /\ UNCHANGED <<tenant, touch, script, now>>
    BY <1>2 DEF LimitTenant, rest
  <2>2. CASE Goto(q, "auth") /\ answer' = answer
    BY <1>0, <2>1, <2>2, GotoKeeps
  <2>3. CASE answer' = [answer EXCEPT ![q] = 429] /\ Goto(q, "meter")
    BY <1>0, <2>1, <2>3, RefusedKeeps
  <2>4. QED
    BY <1>2, <2>2, <2>3 DEF LimitTenant
<1>3. CASE withDynAuth(q)
  <2>1. pc[q] = "auth" /\ UNCHANGED <<script, now>>
    BY <1>3 DEF withDynAuth, rest
  <2>2. \/ touch' = touch
        \/ Cred[q].kind = "subkey" /\ touch' = [touch EXCEPT ![q] = "get"]
    BY <1>0, <1>3 DEF withDynAuth
  <2>3. CASE Answer(q, 401) /\ tenant' = tenant
    BY <1>0, <2>1, <2>2, <2>3, AnswerKeeps
  <2>4. ASSUME NEW t, Goto(q, "handle"), tenant' = [tenant EXCEPT ![q] = t], answer' = answer,
               t = (IF Cred[q].kind = "subkey" /\ Cred[q].of \in keys
                      THEN Owner(Cred[q].of) ELSE withAuth(q)),
               t # None
        PROVE  ReqInv' /\ AnswersStay
    <3>1. t \in Tenant
      <4>1. CASE Cred[q].kind = "subkey" /\ Cred[q].of \in keys
        <5>1. Cred[q].of \in Sent /\ Cred[q].of \in Request
          BY <4>1 DEF ReqInv, Sent
        <5>2. QED
          BY <1>0, <2>4, <4>1, <5>1, RequestAssumption DEF Owner
      <4>2. CASE ~(Cred[q].kind = "subkey" /\ Cred[q].of \in keys)
        BY <1>0, <2>4, <4>2, RequestAssumption, AccountsAssumption DEF withAuth
      <4>3. QED
        BY <4>1, <4>2
    <3>2. answer[q] = 0 /\ answer' = [answer EXCEPT ![q] = 0]
      BY <1>0, <2>1, <2>4 DEF ReqInv
    <3>3. Serves(q, "handle", 0, t)
      BY <1>0, <2>1, <2>4, <3>1, <3>2 DEF Serves, Goto
    <3>4. QED
      BY <2>1, <2>2, <3>3, ServesKeeps
  <2>5. QED
    BY <1>3, <2>3, <2>4 DEF withDynAuth
<1>4. CASE TouchGet(q)
  <2>1. /\ touch[q] = "get" /\ UNCHANGED <<pc, answer, tenant, script, now>>
        /\ touch' \in [Sent -> {"none", "get", "put"}]
        /\ \A k \in Sent : touch'[k] # "none" => touch[k] # "none"
    BY <1>0, <1>4 DEF TouchGet, reqVars, rest
  <2>2. QED
    BY <1>0, <2>1, OutwardKeeps
<1>5. CASE TouchPut(q)
  <2>1. /\ UNCHANGED <<pc, answer, tenant, script, now>>
        /\ touch' \in [Sent -> {"none", "get", "put"}]
        /\ \A k \in Sent : touch'[k] # "none" => touch[k] # "none"
    BY <1>0, <1>5 DEF TouchPut, reqVars, rest
  <2>2. QED
    BY <1>0, <2>1, OutwardKeeps
<1>6. CASE PatchMe(q) \/ PatchPlan(q)
  <2>1. UNCHANGED <<tenant, touch, script, now>>
    BY <1>6 DEF PatchMe, PatchPlan, ReadProfile, SaveProfile, rest
  <2>2. CASE pc[q] = "handle" /\ Goto(q, "save") /\ answer' = answer
    BY <1>0, <2>1, <2>2, GotoKeeps
  <2>3. CASE pc[q] = "save" /\ Answer(q, 200)
    BY <1>0, <2>1, <2>3, AnswerKeeps
  <2>4. QED
    BY <1>6, <2>2, <2>3 DEF PatchMe, PatchPlan, ReadProfile, SaveProfile, Handling
<1>7. CASE SignupCheck(q)
  <2>1. pc[q] = "handle" /\ UNCHANGED <<tenant, touch, script, now>>
    BY <1>7 DEF SignupCheck, Handling, rest
  <2>2. CASE Answer(q, 409)
    BY <1>0, <2>1, <2>2, AnswerKeeps
  <2>3. CASE Goto(q, "save") /\ answer' = answer
    BY <1>0, <2>1, <2>3, GotoKeeps
  <2>4. QED
    BY <1>7, <2>2, <2>3 DEF SignupCheck
<1>8. CASE SignupSave(q)
  <2>1. /\ pc[q] = "save" /\ Op[q] = "signup" /\ UNCHANGED <<tenant, touch, script, now>>
        /\ Goto(q, "key") /\ answer' = answer
    BY <1>8 DEF SignupSave, SaveProfile, AfterSave, rest
  <2>2. QED
    BY <1>0, <2>1, GotoKeeps
<1>9. CASE SignupKey(q) \/ PostKey(q)
  <2>1. /\ pc[q] \in {"key", "handle"} /\ UNCHANGED <<tenant, touch, script, now>>
        /\ Answer(q, 201)
    BY <1>9 DEF SignupKey, PostKey, GenerateKey, Handling, rest
  <2>2. QED
    BY <1>0, <2>1, AnswerKeeps
<1>10. CASE DeleteKey(q) \/ DeleteTenant(q) \/ PostJob(q) \/ SubmitUnmetered(q) \/ GetUsage(q)
              \/ Get(q) \/ KvPut(q)
  <2>1. /\ pc[q] = "handle" /\ UNCHANGED <<tenant, touch, script, now>>
        /\ \E a \in {200, 201, 204} : Answer(q, a)
    BY <1>10 DEF DeleteKey, DeleteTenant, PostJob, SubmitUnmetered, GetUsage, Get, KvPut, Handling, rest
  <2>2. PICK a \in Nat \ {0} : Answer(q, a)
    BY <2>1
  <2>3. QED
    BY <1>0, <2>1, <2>2, AnswerKeeps
<1>11. CASE WriteFails(q)
  <2>1. /\ pc[q] \in {"save", "key", "handle"} /\ UNCHANGED <<tenant, touch, script, now>>
        /\ Answer(q, 500)
    BY <1>11 DEF WriteFails, Handling, rest
  <2>2. QED
    BY <1>0, <2>1, AnswerKeeps
<1>12. CASE KvDelete(q)
  <2>1. pc[q] = "handle" /\ UNCHANGED <<tenant, touch, script, now>>
    BY <1>12 DEF KvDelete, Handling, rest
  <2>2. PICK a : a = IF kv[tenant[q]][Arg[q].item] = None THEN 404 ELSE 204
    OBVIOUS
  <2>3. a \in Nat \ {0} /\ Answer(q, a)
    BY <1>12, <2>2 DEF KvDelete
  <2>4. QED
    BY <1>0, <2>1, <2>3, AnswerKeeps
<1>13. CASE withAudit(q) \/ withBillingMetrics(q)
  <2>1. /\ UNCHANGED <<answer, tenant, touch, script, now>>
        /\ pc[q] \in Past \ {"done"} /\ \E at \in Past : pc' = [pc EXCEPT ![q] = at]
    BY <1>13 DEF withAudit, withBillingMetrics, Goto, reqVars, rest, Past
  <2>2. /\ pc' \in [Sent -> Early \cup Past \cup {"cut"}]
        /\ \A k \in Sent : pc'[k] = pc[k] \/ (pc[k] \in Past \ {"done"} /\ pc'[k] \in Past)
    BY <1>0, <2>1
  <2>3. QED
    BY <1>0, <2>1, <2>2, OutwardKeeps
<1>14. QED
  BY <1>1, <1>2, <1>3, <1>4, <1>5, <1>6, <1>7, <1>8, <1>9, <1>10, <1>11, <1>12, <1>13
     DEF StepOf

\* Pruning, time and restarts.
LEMMA ReqRest ==
  ASSUME ReqInv, Prune \/ Tick \/ Restart \/ UNCHANGED vars
  PROVE  ReqInv' /\ AnswersStay
<1>0. /\ pc \in [Sent -> Early \cup Past \cup {"cut"}] /\ now \in Time
      /\ touch \in [Sent -> {"none", "get", "put"}] /\ MaxTime \in Nat
      /\ script \in [requests : SUBSET Request, ticks : Nat, restarts : Nat]
  BY AccountsAssumption DEF ReqInv
<1>1. CASE Prune \/ UNCHANGED vars
  <2>1. UNCHANGED <<pc, answer, tenant, touch, script, now>>
    BY <1>1 DEF Prune, reqVars, rest, vars
  <2>2. QED
    BY <1>0, <2>1, OutwardKeeps
<1>2. CASE Tick
  <2>1. /\ UNCHANGED <<pc, answer, tenant, touch>> /\ now' \in Time
    BY <1>0, <1>2 DEF Tick, reqVars, Time
  <2>2. /\ script'.requests = script.requests
        /\ script' \in [requests : SUBSET Request, ticks : Nat, restarts : Nat]
    BY <1>0, <1>2 DEF Tick
  <2>3. QED
    BY <1>0, <2>1, <2>2, OutwardKeeps
<1>3. CASE Restart
  <2>1. /\ UNCHANGED <<answer, tenant, now>>
        /\ pc' = [q \in Sent |-> IF pc[q] \in {"idle", "done"} THEN pc[q] ELSE "cut"]
        /\ touch' = [q \in Sent |-> "none"]
    BY <1>3 DEF Restart
  <2>2. /\ script'.requests = script.requests
        /\ script' \in [requests : SUBSET Request, ticks : Nat, restarts : Nat]
    BY <1>0, <1>3 DEF Restart
  <2>3. QED
    BY <1>0, <2>1, <2>2, OutwardKeeps
<1>4. QED
  BY <1>1, <1>2, <1>3

-----------------------------------------------------------------------------
(* Sub-keys. *)

\* A stored or deleted key was answered with 201, which its maker is only once.  A TouchKey
\* that has read a key writes it back: if the key was deleted since, it is one of late.
KeyInv ==
  /\ keys \subseteq Sent /\ revoked \subseteq Sent
  /\ \A k \in keys \cup revoked : answer[k] = 201
  /\ RevokedStaysRevoked
  /\ \A q \in Sent : touch[q] = "put" /\ Cred[q].of \in revoked => Cred[q].of \in late
  /\ IssuedKeyWorks

\* Who is answered 201 has made a key, or submitted a job.
LEMMA Issued ==
  ASSUME ReqInv, NEW q \in Sent, StepOf(q), NEW k \in Sent, answer'[k] = 201,
         Op[k] \in {"signup", "newkey"}
  PROVE  answer[k] = 201 \/ (k = q /\ keys' = keys \cup {q})
<1>0. answer \in [Sent -> Nat]
  BY DEF ReqInv
<1>1. CASE answer' = answer
  BY <1>1
<1>2. ASSUME NEW s, s # 201, answer' = [answer EXCEPT ![q] = s]
      PROVE  answer[k] = 201
  BY <1>0, <1>2
<1>3. CASE Arrive(q) \/ LimitTenant(q) \/ withDynAuth(q) \/ SignupCheck(q) \/ SignupSave(q)
  BY <1>1, <1>2, <1>3 DEF Arrive, LimitTenant, withDynAuth, SignupCheck, SignupSave, AfterSave, Answer
<1>4. CASE TouchGet(q) \/ TouchPut(q) \/ withAudit(q) \/ withBillingMetrics(q)
  BY <1>1, <1>4 DEF TouchGet, TouchPut, withAudit, withBillingMetrics, reqVars
<1>5. CASE PatchMe(q) \/ PatchPlan(q)
  BY <1>1, <1>2, <1>5 DEF PatchMe, PatchPlan, ReadProfile, Answer
<1>6. CASE SignupKey(q) \/ PostKey(q)
  BY <1>0, <1>6 DEF SignupKey, PostKey, GenerateKey, Answer
<1>7. CASE DeleteKey(q) \/ DeleteTenant(q) \/ WriteFails(q) \/ GetUsage(q) \/ Get(q) \/ KvPut(q)
  BY SMTT(30), <1>2, <1>7 DEF DeleteKey, DeleteTenant, WriteFails, GetUsage, Get, KvPut, Answer
<1>8. CASE PostJob(q) \/ SubmitUnmetered(q)
  BY <1>0, <1>8 DEF PostJob, SubmitUnmetered, Handling, Answer
<1>9. CASE KvDelete(q)
  <2>1. PICK a : a = IF kv[tenant[q]][Arg[q].item] = None THEN 404 ELSE 204
    OBVIOUS
  <2>2. answer' = [answer EXCEPT ![q] = a] /\ a # 201
    BY <1>9, <2>1 DEF KvDelete, Answer
  <2>3. QED
    BY <1>2, <2>2
<1>10. QED
  BY <1>3, <1>4, <1>5, <1>6, <1>7, <1>8, <1>9 DEF StepOf

\* Steps that leave the store of keys alone.
LEMMA KeysFrame ==
  ASSUME ReqInv, KeyInv, AnswersStay, UNCHANGED <<keys, revoked, late>>,
         \A k \in Sent : touch'[k] = "put" => touch[k] = "put" \/ Cred[k].of \in keys,
         \A k \in Sent : answer'[k] = 201 /\ Op[k] \in {"signup", "newkey"} => answer[k] = 201
  PROVE  KeyInv'
<1>1. Sent' = Sent
  BY DEF AnswersStay, Sent
<1>2. \A k \in keys \cup revoked : answer'[k] = 201
  BY DEF KeyInv, AnswersStay
<1>3. \A q \in Sent : touch'[q] = "put" /\ Cred[q].of \in revoked => Cred[q].of \in late
  BY DEF KeyInv, RevokedStaysRevoked
<1>4. QED
  BY <1>1, <1>2, <1>3 DEF KeyInv, RevokedStaysRevoked, IssuedKeyWorks

\* Keys K are deleted; a TouchKey that is under way makes them late.
LEMMA RevokeKeeps ==
  ASSUME ReqInv, KeyInv, AnswersStay, NEW K, K \subseteq Sent, Revoke(K), keys' = keys \ K,
         \A k \in K : answer[k] = 201, touch' = touch,
         \A k \in Sent : answer'[k] = 201 /\ Op[k] \in {"signup", "newkey"} => answer[k] = 201
  PROVE  KeyInv'
<1>1. Sent' = Sent
  BY DEF AnswersStay, Sent
<1>2. /\ revoked' = revoked \cup K
      /\ late' = late \cup {k \in K : \E q \in Sent : touch[q] = "put" /\ Cred[q].of = k}
  BY DEF Revoke
<1>3. \A k \in keys' \cup revoked' : answer'[k] = 201
  BY <1>2 DEF KeyInv, AnswersStay
<1>4. \A q \in Sent : touch'[q] = "put" /\ Cred[q].of \in revoked' => Cred[q].of \in late'
  BY <1>2 DEF KeyInv
<1>5. RevokedStaysRevoked'
  BY <1>2 DEF KeyInv, RevokedStaysRevoked
<1>6. IssuedKeyWorks'
  BY <1>1, <1>2 DEF KeyInv, IssuedKeyWorks
<1>7. keys' \subseteq Sent /\ revoked' \subseteq Sent
  BY <1>2 DEF KeyInv
<1>8. QED
  BY <1>1, <1>3, <1>4, <1>5, <1>6, <1>7 DEF KeyInv

\* What a request does to the keys.
LEMMA KeyStep ==
  ASSUME ReqInv, KeyInv, AnswersStay, NEW q \in Sent, StepOf(q)
  PROVE  KeyInv'
<1>0. /\ Sent' = Sent /\ touch \in [Sent -> {"none", "get", "put"}] /\ answer \in [Sent -> Nat]
      /\ Cred[q].kind = "subkey" => Cred[q].of \in Sent
  BY DEF AnswersStay, Sent, ReqInv
<1>1. ASSUME UNCHANGED <<keys, revoked, late>>,
             touch' = touch \/ (\E s \in {"none", "get"} : touch' = [touch EXCEPT ![q] = s])
               \/ (Cred[q].of \in keys /\ touch' = [touch EXCEPT ![q] = "put"])
      PROVE  KeyInv'
  <2>1. \A k \in Sent : touch'[k] = "put" => touch[k] = "put" \/ Cred[k].of \in keys
    BY <1>0, <1>1
  <2>2. \A k \in Sent : answer'[k] = 201 /\ Op[k] \in {"signup", "newkey"} => answer[k] = 201
    <3>1. keys' = keys
      BY <1>1
    <3>2. \A k \in keys : answer[k] = 201
      BY DEF KeyInv
    <3>3. QED
      BY <3>1, <3>2, Issued
  <2>3. QED
    BY <1>1, <2>1, <2>2, KeysFrame
<1>2. CASE Arrive(q) \/ LimitTenant(q) \/ SignupCheck(q) \/ PostJob(q) \/ SubmitUnmetered(q)
             \/ GetUsage(q) \/ Get(q)
             \/ KvPut(q) \/ KvDelete(q) \/ withAudit(q) \/ withBillingMetrics(q)
  <2>1. UNCHANGED <<keys, revoked, late, touch>>
    BY <1>2 DEF Arrive, LimitTenant, SignupCheck, PostJob, SubmitUnmetered, GetUsage, Get, KvPut,
         KvDelete,
                withAudit, withBillingMetrics, billVars
  <2>2. QED
    BY <1>1, <2>1
<1>3. CASE PatchMe(q) \/ PatchPlan(q) \/ SignupSave(q) \/ WriteFails(q)
  <2>1. UNCHANGED <<keys, revoked, late, touch>>
    BY <1>3 DEF PatchMe, PatchPlan, SignupSave, ReadProfile, SaveProfile, WriteFails, billVars
  <2>2. QED
    BY <1>1, <2>1
<1>4. CASE withDynAuth(q)
  <2>1. UNCHANGED <<keys, revoked, late>> /\ (touch' = touch \/ touch' = [touch EXCEPT ![q] = "get"])
    BY <1>0, <1>4 DEF withDynAuth, billVars
  <2>2. QED
    BY <1>1, <2>1
<1>5. CASE TouchGet(q)
  <2>1. /\ UNCHANGED <<keys, revoked, late>>
        /\ \/ touch' = [touch EXCEPT ![q] = "none"]
           \/ Cred[q].of \in keys /\ touch' = [touch EXCEPT ![q] = "put"]
    BY <1>5 DEF TouchGet, Present, billVars
  <2>2. QED
    BY <1>1, <2>1
<1>6. CASE TouchPut(q)
  <2>1. /\ UNCHANGED <<revoked, late, answer>> /\ keys' = keys \cup {Cred[q].of}
        /\ touch' = [touch EXCEPT ![q] = "none"] /\ touch[q] = "put"
    BY <1>6 DEF TouchPut, reqVars
  <2>2. answer[Cred[q].of] = 201 /\ Cred[q].of \in Sent
    BY <1>0, <2>1 DEF ReqInv
  <2>3. RevokedStaysRevoked'
    BY <2>1 DEF KeyInv, RevokedStaysRevoked
  <2>4. \A k \in Sent : touch'[k] = "put" => touch[k] = "put"
    BY <1>0, <2>1
  <2>5. QED
    BY <1>0, <2>1, <2>2, <2>3, <2>4 DEF KeyInv, IssuedKeyWorks
<1>7. CASE SignupKey(q) \/ PostKey(q)
  <2>1. /\ UNCHANGED <<revoked, late, touch>> /\ keys' = keys \cup {q}
        /\ answer' = [answer EXCEPT ![q] = 201] /\ pc[q] \in Early
    BY <1>7 DEF SignupKey, PostKey, GenerateKey, Answer, Handling, Early
  <2>2. answer[q] = 0
    BY <2>1 DEF ReqInv
  <2>3. q \notin revoked
    BY <2>2 DEF KeyInv
  <2>4. \A k \in Sent : answer'[k] = IF k = q THEN 201 ELSE answer[k]
    BY <1>0, <2>1
  <2>5. \A k \in keys' \cup revoked' : answer'[k] = 201
    BY <2>1, <2>4 DEF KeyInv
  <2>6. RevokedStaysRevoked'
    BY <2>1, <2>3 DEF KeyInv, RevokedStaysRevoked
  <2>7. IssuedKeyWorks'
    BY <1>0, <2>1, <2>4 DEF KeyInv, IssuedKeyWorks
  <2>8. QED
    BY <1>0, <2>1, <2>5, <2>6, <2>7 DEF KeyInv
<1>8. CASE DeleteKey(q)
  <2>1. /\ keys' = keys \ Named(q) /\ Revoke(Named(q)) /\ touch' = touch
        /\ Op[q] = "delkey" /\ pc[q] = "handle" /\ answer' = [answer EXCEPT ![q] = 204]
    BY <1>8 DEF DeleteKey, Named, Handling, Answer
  <2>2. Known(q) /\ Arg[q] \in Sent
    BY <2>1 DEF ReqInv
  <2>3. Named(q) \subseteq Sent /\ \A k \in Named(q) : answer[k] = 201
    BY <2>1, <2>2 DEF Named, Known
  <2>4. \A k \in Sent : answer'[k] = 201 => answer[k] = 201
    BY <1>0, <2>1
  <2>5. QED
    BY <2>1, <2>3, <2>4, RevokeKeeps
<1>9. CASE DeleteTenant(q)
  <2>1. PICK K : K = {k \in keys : Owner(k) = Target[q]}
    OBVIOUS
  <2>2. /\ keys' = keys \ K /\ Revoke(K) /\ touch' = touch
        /\ answer' = [answer EXCEPT ![q] = 204]
    BY <1>9, <2>1 DEF DeleteTenant, Answer
  <2>3. K \subseteq Sent /\ \A k \in K : answer[k] = 201
    BY <2>1 DEF KeyInv
  <2>4. \A k \in Sent : answer'[k] = 201 => answer[k] = 201
    BY <1>0, <2>2
  <2>5. QED
    BY <2>2, <2>3, <2>4, RevokeKeeps
<1>10. QED
  BY <1>2, <1>3, <1>4, <1>5, <1>6, <1>7, <1>8, <1>9 DEF StepOf

\* Pruning, time and restarts.
LEMMA KeyRest ==
  ASSUME ReqInv, KeyInv, AnswersStay, Prune \/ Tick \/ Restart \/ UNCHANGED vars
  PROVE  KeyInv'
<1>1. UNCHANGED <<keys, revoked, late, answer>>
  BY DEF Prune, Tick, Restart, vars, billVars, reqVars
<1>2. touch' = touch \/ touch' = [q \in Sent |-> "none"]
  BY DEF Prune, Tick, Restart, vars
<1>3. \A k \in Sent : touch'[k] = "put" => touch[k] = "put"
  BY <1>2
<1>4. QED
  BY <1>1, <1>3, KeysFrame

-----------------------------------------------------------------------------
(* Profiles and signups. *)

\* Where a profile of t can come from: a signup that was cut short, one that gives or has
\* given a key, or a change that made the profile.
HasSource(t) ==
  \/ t \in halfway
  \/ \E k \in Sent : Op[k] = "signup" /\ Target[k] = t /\ (answer[k] = 201 \/ pc[k] = "key")
  \/ \E k \in Sent : /\ Op[k] \in {"rename", "plan"} /\ answer[k] = 200
                     /\ t \in {tenant[k], Target[k]}

ProfInv ==
  /\ profiles \in [Tenant -> Profile \cup {None}] /\ ideal \in [Tenant -> Profile \cup {None}]
  /\ seen \in [Sent -> Profile \cup {None}]
  /\ ProfileLostOnlyByOverlap
  /\ \A t \in Tenant : profiles[t] # None => HasSource(t)
  /\ \A q \in Sent : Op[q] = "signup" /\ answer[q] = 409 => HasSource(Target[q])

\* A signup that is about to give a key gives it or is cut short.
KeysFollow ==
  /\ halfway \subseteq halfway'
  /\ \A k \in Sent : pc[k] = "key" =>
       pc'[k] = "key" \/ answer'[k] = 201 \/ Target[k] \in halfway'

\* The source of a profile stays one.
LEMMA SourceStays ==
  ASSUME AnswersStay, KeysFollow, \A k \in Sent : pc[k] = "key" => Op[k] = "signup",
         NEW t, HasSource(t)
  PROVE  HasSource(t)'
<1>1. Sent' = Sent
  BY DEF AnswersStay, Sent
<1>2. CASE t \in halfway
  BY <1>2 DEF HasSource, KeysFollow
<1>3. ASSUME NEW k \in Sent, Op[k] = "signup", Target[k] = t, answer[k] = 201 \/ pc[k] = "key"
      PROVE  HasSource(t)'
  <2>1. answer'[k] = 201 \/ pc'[k] = "key" \/ t \in halfway'
    BY <1>3 DEF AnswersStay, KeysFollow
  <2>2. QED
    BY <1>1, <1>3, <2>1 DEF HasSource
<1>4. ASSUME NEW k \in Sent, Op[k] \in {"rename", "plan"}, answer[k] = 200,
             t \in {tenant[k], Target[k]}
      PROVE  HasSource(t)'
  <2>1. answer'[k] = 200 /\ tenant'[k] = tenant[k]
    BY <1>4 DEF AnswersStay
  <2>2. QED
    BY <1>1, <1>4, <2>1 DEF HasSource
<1>5. QED
  BY <1>2, <1>3, <1>4 DEF HasSource

\* Every step of a request lets signups give their keys, and tells nobody 409 who has
\* not found a profile.
LEMMA SignupsFollow ==
  ASSUME ReqInv, NEW q \in Sent, StepOf(q)
  PROVE  /\ KeysFollow
         /\ \A k \in Sent : answer'[k] = 409 => answer[k] = 409 \/ profiles[Target[k]] # None
<1>0. /\ pc \in [Sent -> Early \cup Past \cup {"cut"}] /\ answer \in [Sent -> Nat]
  BY DEF ReqInv
<1>1. ASSUME pc[q] # "key", NEW at, pc' = [pc EXCEPT ![q] = at], halfway' = halfway
      PROVE  KeysFollow
  BY <1>0, <1>1 DEF KeysFollow
<1>2. ASSUME NEW a, a # 409, answer' = [answer EXCEPT ![q] = a]
      PROVE  \A k \in Sent : answer'[k] = 409 => answer[k] = 409
  BY <1>0, <1>2
<1>3. CASE Arrive(q) \/ LimitTenant(q)
  <2>1. pc[q] # "key" /\ halfway' = halfway /\ \E at : pc' = [pc EXCEPT ![q] = at]
    BY <1>3 DEF Arrive, LimitTenant, Goto, billVars
  <2>2. answer' = answer \/ answer' = [answer EXCEPT ![q] = 429]
    BY <1>3 DEF Arrive, LimitTenant
  <2>3. KeysFollow
    BY <1>1, <2>1
  <2>4. \A k \in Sent : answer'[k] = 409 => answer[k] = 409
    BY <1>2, <2>2
  <2>5. QED
    BY <2>3, <2>4
<1>4. CASE withDynAuth(q)
  <2>1. pc[q] # "key" /\ halfway' = halfway /\ \E at : pc' = [pc EXCEPT ![q] = at]
    BY <1>4 DEF withDynAuth, Goto, billVars, Answer
  <2>2. answer' = answer \/ answer' = [answer EXCEPT ![q] = 401]
    BY <1>4 DEF withDynAuth, Answer
  <2>3. KeysFollow
    BY <1>1, <2>1
  <2>4. \A k \in Sent : answer'[k] = 409 => answer[k] = 409
    BY <1>2, <2>2
  <2>5. QED
    BY <2>3, <2>4
<1>5. CASE TouchGet(q) \/ TouchPut(q)
  BY <1>5 DEF TouchGet, TouchPut, reqVars, billVars, KeysFollow
<1>6. CASE PatchMe(q) \/ PatchPlan(q)
  <2>1. pc[q] # "key" /\ halfway' = halfway /\ \E at : pc' = [pc EXCEPT ![q] = at]
    BY <1>6 DEF PatchMe, PatchPlan, ReadProfile, SaveProfile, Handling, Goto, billVars, Answer
  <2>2. answer' = answer \/ answer' = [answer EXCEPT ![q] = 200]
    BY <1>6 DEF PatchMe, PatchPlan, ReadProfile, Answer
  <2>3. KeysFollow
    BY <1>1, <2>1
  <2>4. \A k \in Sent : answer'[k] = 409 => answer[k] = 409
    BY <1>2, <2>2
  <2>5. QED
    BY <2>3, <2>4
<1>7. CASE SignupCheck(q)
  <2>1. pc[q] # "key" /\ halfway' = halfway /\ \E at : pc' = [pc EXCEPT ![q] = at]
    BY <1>7 DEF SignupCheck, Handling, Goto, billVars, Answer
  <2>2. answer' = answer \/ (profiles[Target[q]] # None /\ answer' = [answer EXCEPT ![q] = 409])
    BY <1>7 DEF SignupCheck, Answer
  <2>3. KeysFollow
    BY <1>1, <2>1
  <2>4. QED
    BY <1>0, <2>2, <2>3
<1>8. CASE SignupSave(q)
  <2>1. pc[q] # "key" /\ halfway' = halfway /\ answer' = answer /\ \E at : pc' = [pc EXCEPT ![q] = at]
    BY <1>8 DEF SignupSave, SaveProfile, AfterSave, Goto
  <2>2. QED
    BY <1>1, <2>1
<1>9. CASE SignupKey(q) \/ PostKey(q)
  <2>1. halfway' = halfway /\ answer' = [answer EXCEPT ![q] = 201] /\ \E at : pc' = [pc EXCEPT ![q] = at]
    BY <1>9 DEF SignupKey, PostKey, GenerateKey, Answer, Goto
  <2>2. KeysFollow
    BY <1>0, <2>1 DEF KeysFollow
  <2>3. QED
    BY <1>2, <2>1, <2>2
<1>10. CASE WriteFails(q)
  <2>1. /\ answer' = [answer EXCEPT ![q] = 500] /\ \E at : pc' = [pc EXCEPT ![q] = at]
        /\ halfway' = IF pc[q] = "key" THEN halfway \cup {Target[q]} ELSE halfway
    BY <1>10 DEF WriteFails, Answer, Goto
  <2>2. KeysFollow
    BY <1>0, <2>1 DEF KeysFollow
  <2>3. QED
    BY <1>2, <2>1, <2>2
<1>11. CASE DeleteKey(q) \/ DeleteTenant(q) \/ PostJob(q) \/ SubmitUnmetered(q) \/ GetUsage(q)
              \/ Get(q) \/ KvPut(q)
  <2>1. pc[q] # "key" /\ halfway' = halfway /\ \E at : pc' = [pc EXCEPT ![q] = at]
    BY <1>11 DEF DeleteKey, DeleteTenant, PostJob, SubmitUnmetered, GetUsage, Get, KvPut,
         Handling, Goto, billVars, Answer
  <2>2. \E a \in {200, 201, 204} : answer' = [answer EXCEPT ![q] = a]
    BY <1>11 DEF DeleteKey, DeleteTenant, PostJob, SubmitUnmetered, GetUsage, Get, KvPut, Answer
  <2>3. KeysFollow
    BY <1>1, <2>1
  <2>4. \A k \in Sent : answer'[k] = 409 => answer[k] = 409
    BY <1>2, <2>2
  <2>5. QED
    BY <2>3, <2>4
<1>12. CASE KvDelete(q)
  <2>1. pc[q] # "key" /\ halfway' = halfway /\ \E at : pc' = [pc EXCEPT ![q] = at]
    BY <1>12 DEF KvDelete, Handling, Goto, billVars, Answer
  <2>2. PICK a : a = IF kv[tenant[q]][Arg[q].item] = None THEN 404 ELSE 204
    OBVIOUS
  <2>3. answer' = [answer EXCEPT ![q] = a] /\ a # 409
    BY <1>12, <2>2 DEF KvDelete, Answer
  <2>4. QED
    BY ZenonT(30), <1>1, <1>2, <2>1, <2>3
<1>13. CASE withAudit(q) \/ withBillingMetrics(q)
  <2>1. pc[q] # "key" /\ halfway' = halfway /\ answer' = answer /\ \E at : pc' = [pc EXCEPT ![q] = at]
    BY <1>13 DEF withAudit, withBillingMetrics, Goto, reqVars, billVars
  <2>2. QED
    BY <1>1, <2>1
<1>14. QED
  BY <1>3, <1>4, <1>5, <1>6, <1>7, <1>8, <1>9, <1>10, <1>11, <1>12, <1>13 DEF StepOf

\* A profile is put: the change q has read what it replaces, or has crossed another one.
LEMMA PutProfile ==
  ASSUME ReqInv, ProfInv, AnswersStay, KeysFollow,
         \A k \in Sent : answer'[k] = 409 => answer[k] = 409 \/ profiles[Target[k]] # None,
         NEW t \in Tenant, NEW p \in Profile \cup {None}, NEW i \in Profile \cup {None},
         profiles' = [profiles EXCEPT ![t] = p], ideal' = [ideal EXCEPT ![t] = i],
         crossed \subseteq crossed', t \notin crossed' => p = i,
         seen' \in [Sent -> Profile \cup {None}], p # None => HasSource(t)'
  PROVE  ProfInv'
<1>1. Sent' = Sent
  BY DEF AnswersStay, Sent
<1>2. /\ profiles' \in [Tenant -> Profile \cup {None}] /\ ideal' \in [Tenant -> Profile \cup {None}]
      /\ seen' \in [Sent' -> Profile \cup {None}]
  BY <1>1 DEF ProfInv
<1>3. /\ profiles'[t] = p /\ ideal'[t] = i
      /\ \A u \in Tenant \ {t} : profiles'[u] = profiles[u] /\ ideal'[u] = ideal[u]
  BY DEF ProfInv
<1>4. ProfileLostOnlyByOverlap'
  BY <1>3 DEF ProfInv, ProfileLostOnlyByOverlap
<1>5. \A k \in Sent : pc[k] = "key" => Op[k] = "signup"
  BY DEF ReqInv
<1>6. \A u \in Tenant : profiles'[u] # None => HasSource(u)'
  <2> SUFFICES ASSUME NEW u \in Tenant, u # t, profiles[u] # None PROVE HasSource(u)'
    BY <1>3
  <2>1. HasSource(u)
    BY DEF ProfInv
  <2>2. QED
    BY <1>5, <2>1, SourceStays
<1>7. ASSUME NEW k \in Sent, Op[k] = "signup", answer'[k] = 409 PROVE HasSource(Target[k])'
  <2>1. Target[k] \in Tenant
    BY RequestAssumption DEF ReqInv, Sent
  <2>2. HasSource(Target[k])
    BY <1>7, <2>1 DEF ProfInv
  <2>3. QED
    BY <1>5, <2>2, SourceStays
<1>8. QED
  BY <1>1, <1>2, <1>4, <1>6, <1>7 DEF ProfInv

\* Steps that leave the profiles alone.
LEMMA ProfFrame ==
  ASSUME ReqInv, ProfInv, AnswersStay, KeysFollow,
         \A k \in Sent : answer'[k] = 409 => answer[k] = 409 \/ profiles[Target[k]] # None,
         UNCHANGED <<profiles, ideal, crossed>>, seen' \in [Sent -> Profile \cup {None}]
  PROVE  ProfInv'
<1>1. PICK t \in Tenant : t = Default
  BY AccountsAssumption
<1>2. /\ profiles' = [profiles EXCEPT ![t] = profiles[t]] /\ profiles[t] \in Profile \cup {None}
      /\ ideal' = [ideal EXCEPT ![t] = ideal[t]] /\ ideal[t] \in Profile \cup {None}
  BY DEF ProfInv
<1>3. t \notin crossed' => profiles[t] = ideal[t]
  BY DEF ProfInv, ProfileLostOnlyByOverlap
<1>4. profiles[t] # None => HasSource(t)'
  <2>1. profiles[t] # None => HasSource(t)
    BY DEF ProfInv
  <2>2. \A k \in Sent : pc[k] = "key" => Op[k] = "signup"
    BY DEF ReqInv
  <2>3. QED
    BY <2>1, <2>2, SourceStays
<1>5. PICK p \in Profile \cup {None}, i \in Profile \cup {None} :
        p = profiles[t] /\ i = ideal[t]
  BY <1>2
<1>6. /\ profiles' = [profiles EXCEPT ![t] = p] /\ ideal' = [ideal EXCEPT ![t] = i]
      /\ crossed \subseteq crossed' /\ (t \notin crossed' => p = i) /\ (p # None => HasSource(t)')
  BY <1>2, <1>3, <1>4, <1>5
<1>7. QED
  BY <1>6, PutProfile

\* A change of a profile, or a profile that is made, is one.
LEMMA ProfileTypes ==
  ASSUME NEW p \in Profile \cup {None}
  PROVE  /\ \A n \in Name : Renamed(p, n) \in Profile
         /\ \A n \in Plan : WithPlan(p, n) \in Profile
<1>1. Free \in Plan
  BY AccountsAssumption
<1>2. CASE p = None
  BY <1>1, <1>2 DEF Renamed, WithPlan, Profile
<1>3. CASE p # None
  <2>1. p \in Profile
    BY <1>3
  <2>2. QED
    BY <1>3, <2>1 DEF Renamed, WithPlan, Profile
<1>4. QED
  BY <1>2, <1>3

\* What a request does to the profiles.
LEMMA ProfStep ==
  ASSUME ReqInv, ProfInv, AnswersStay, NEW q \in Sent, StepOf(q)
  PROVE  ProfInv'
<1>0. /\ KeysFollow
      /\ \A k \in Sent : answer'[k] = 409 => answer[k] = 409 \/ profiles[Target[k]] # None
  BY SignupsFollow
<1>1. /\ q \in Request /\ tenant[q] \in Tenant /\ Target[q] \in Tenant /\ Sent' = Sent
      /\ answer \in [Sent -> Nat] /\ pc \in [Sent -> Early \cup Past \cup {"cut"}]
  BY RequestAssumption DEF ReqInv, Sent, AnswersStay
<1>2. /\ profiles \in [Tenant -> Profile \cup {None}] /\ ideal \in [Tenant -> Profile \cup {None}]
      /\ seen \in [Sent -> Profile \cup {None}]
  BY DEF ProfInv
<1>3. CASE UNCHANGED <<profiles, ideal, crossed, seen>>
  BY <1>0, <1>2, <1>3, ProfFrame
<1>4. ASSUME NEW op, NEW t \in Tenant, ReadProfile(q, op, t) PROVE ProfInv'
  <2>1. UNCHANGED <<profiles, ideal, crossed>> /\ seen' = [seen EXCEPT ![q] = profiles[t]]
    BY <1>4 DEF ReadProfile, billVars
  <2>2. seen' \in [Sent -> Profile \cup {None}]
    BY <1>2, <2>1
  <2>3. QED
    BY <1>0, <2>1, <2>2, ProfFrame
\* A change that has not been crossed applies to the profile that is there.
<1>5. ASSUME NEW t \in Tenant PROVE /\ crossed \subseteq Crossing(q, t)
                                    /\ t \notin Crossing(q, t) => seen[q] = ideal[t]
  BY DEF Crossing, ProfInv, ProfileLostOnlyByOverlap
<1>6. CASE PatchMe(q)
  <2>1. PICK t \in Tenant : t = tenant[q]
    BY <1>1
  <2>2. PICK p, i : p = Renamed(seen[q], Arg[q]) /\ i = Renamed(ideal[t], Arg[q])
    OBVIOUS
  <2>3. CASE SaveProfile(q, "rename", t, p, i) /\ Answer(q, 200)
    <3>1. /\ profiles' = [profiles EXCEPT ![t] = p] /\ ideal' = [ideal EXCEPT ![t] = i]
          /\ crossed' = Crossing(q, t) /\ UNCHANGED <<seen, tenant>> /\ Op[q] = "rename"
          /\ answer'[q] = 200
      BY <1>1, <2>3 DEF SaveProfile, Answer
    <3>2. p \in Profile \cup {None} /\ i \in Profile \cup {None}
      BY <1>1, <1>2, <2>2, <3>1, ProfileTypes, RequestAssumption
    <3>3. HasSource(t)'
      BY <1>1, <2>1, <3>1 DEF HasSource
    <3>4. crossed \subseteq crossed' /\ (t \notin crossed' => p = i)
      BY <1>5, <2>2, <3>1
    <3>5. seen' \in [Sent -> Profile \cup {None}]
      BY <1>2, <3>1
    <3>6. PICK x \in Profile \cup {None}, y \in Profile \cup {None} : x = p /\ y = i
      BY <3>2
    <3>7. /\ profiles' = [profiles EXCEPT ![t] = x] /\ ideal' = [ideal EXCEPT ![t] = y]
          /\ crossed \subseteq crossed' /\ (t \notin crossed' => x = y)
          /\ (x # None => HasSource(t)')
      BY <3>1, <3>3, <3>4, <3>6
    <3>8. QED
      BY <1>0, <3>5, <3>7, PutProfile
  <2>4. QED
    BY <1>4, <1>6, <2>1, <2>2, <2>3 DEF PatchMe
<1>7. CASE PatchPlan(q)
  <2>1. PICK t \in Tenant : t = Target[q]
    BY <1>1
  <2>2. PICK p, i : p = WithPlan(seen[q], Arg[q]) /\ i = WithPlan(ideal[t], Arg[q])
    OBVIOUS
  <2>3. CASE SaveProfile(q, "plan", t, p, i) /\ Answer(q, 200)
    <3>1. /\ profiles' = [profiles EXCEPT ![t] = p] /\ ideal' = [ideal EXCEPT ![t] = i]
          /\ crossed' = Crossing(q, t) /\ UNCHANGED <<seen, tenant>> /\ Op[q] = "plan"
          /\ answer'[q] = 200
      BY <1>1, <2>3 DEF SaveProfile, Answer
    <3>2. p \in Profile \cup {None} /\ i \in Profile \cup {None}
      BY <1>1, <1>2, <2>2, <3>1, ProfileTypes, RequestAssumption
    <3>3. HasSource(t)'
      BY <1>1, <2>1, <3>1 DEF HasSource
    <3>4. crossed \subseteq crossed' /\ (t \notin crossed' => p = i)
      BY <1>5, <2>2, <3>1
    <3>5. seen' \in [Sent -> Profile \cup {None}]
      BY <1>2, <3>1
    <3>6. PICK x \in Profile \cup {None}, y \in Profile \cup {None} : x = p /\ y = i
      BY <3>2
    <3>7. /\ profiles' = [profiles EXCEPT ![t] = x] /\ ideal' = [ideal EXCEPT ![t] = y]
          /\ crossed \subseteq crossed' /\ (t \notin crossed' => x = y)
          /\ (x # None => HasSource(t)')
      BY <3>1, <3>3, <3>4, <3>6
    <3>8. QED
      BY <1>0, <3>5, <3>7, PutProfile
  <2>4. QED
    BY <1>4, <1>7, <2>1, <2>2, <2>3 DEF PatchPlan, WithPlan
<1>8. CASE SignupSave(q)
  <2>1. PICK t \in Tenant : t = Target[q]
    BY <1>1
  <2>2. PICK p : p = [plan |-> Arg[q], name |-> NoName]
    OBVIOUS
  <2>3. /\ SaveProfile(q, "signup", t, p, p) /\ Goto(q, "key")
    BY <1>8, <2>1, <2>2 DEF SignupSave, AfterSave
  <2>4. /\ profiles' = [profiles EXCEPT ![t] = p] /\ ideal' = [ideal EXCEPT ![t] = p]
        /\ crossed' = Crossing(q, t) /\ seen' = seen /\ Op[q] = "signup" /\ pc'[q] = "key"
    BY <1>1, <2>3 DEF SaveProfile, Goto
  <2>5. p \in Profile \cup {None}
    BY <1>1, <2>2, <2>4, RequestAssumption DEF Profile
  <2>6. HasSource(t)'
    BY <1>1, <2>1, <2>4 DEF HasSource
  <2>7. crossed \subseteq crossed'
    BY <1>5, <2>4
  <2>8. QED
    BY <1>0, <1>2, <2>4, <2>5, <2>6, <2>7, PutProfile
<1>9. CASE DeleteTenant(q)
  <2>1. PICK t \in Tenant : t = Target[q]
    BY <1>1
  <2>2. /\ profiles' = [profiles EXCEPT ![t] = None] /\ ideal' = [ideal EXCEPT ![t] = None]
        /\ UNCHANGED <<crossed, seen>>
    BY <1>9, <2>1 DEF DeleteTenant
  <2>3. QED
    BY <1>0, <1>2, <2>2, PutProfile
<1>10. CASE Arrive(q) \/ LimitTenant(q) \/ withDynAuth(q) \/ TouchGet(q) \/ TouchPut(q)
              \/ SignupCheck(q) \/ SignupKey(q) \/ PostKey(q)
  BY <1>3, <1>10 DEF Arrive, LimitTenant, withDynAuth, TouchGet, TouchPut, SignupCheck,
       SignupKey, PostKey, GenerateKey, billVars, reqVars
<1>11. CASE DeleteKey(q) \/ WriteFails(q) \/ PostJob(q) \/ SubmitUnmetered(q) \/ GetUsage(q)
              \/ Get(q) \/ KvPut(q)
              \/ KvDelete(q) \/ withAudit(q) \/ withBillingMetrics(q)
  BY <1>3, <1>11 DEF DeleteKey, WriteFails, PostJob, SubmitUnmetered, GetUsage, Get, KvPut,
       KvDelete, withAudit,
       withBillingMetrics, billVars, reqVars
<1>12. QED
  BY <1>6, <1>7, <1>8, <1>9, <1>10, <1>11 DEF StepOf

\* Pruning, time and restarts.
LEMMA ProfRest ==
  ASSUME ReqInv, ProfInv, AnswersStay, Prune \/ Tick \/ Restart \/ UNCHANGED vars
  PROVE  ProfInv'
<1>1. UNCHANGED <<profiles, ideal, crossed, seen, answer>>
  BY DEF Prune, Tick, Restart, vars, billVars, reqVars
<1>2. KeysFollow
  <2>1. CASE Prune \/ Tick \/ UNCHANGED vars
    BY <2>1 DEF Prune, Tick, vars, billVars, KeysFollow
  <2>2. CASE Restart
    BY <2>2 DEF Restart, KeysFollow
  <2>3. QED
    BY <2>1, <2>2
<1>3. seen \in [Sent -> Profile \cup {None}]
  BY DEF ProfInv
<1>4. QED
  BY <1>1, <1>2, <1>3, ProfFrame

-----------------------------------------------------------------------------
(* Rate limits.  The requests that an address has passed since s and the tokens it *)
(* has now never exceed the burst and the refill; an address without a limiter has *)
(* what a full one has.                                                            *)

Tokens(c) == IF clients[c] = None THEN Burst ELSE Refilled(clients[c].lim, Rate, Burst).tokens
Passed(c, s) == {q \in Sent : From[q] = c /\ sentAt[q] \in s..now}

LimiterInv ==
  /\ clients \in [Client -> clientLimiter \cup {None}]
  /\ \A c \in Client : clients[c] # None =>
       /\ clients[c].lim.tokens <= Burst /\ clients[c].seen <= now
       /\ clients[c].lim.at = clients[c].seen
  /\ sentAt \in [Sent -> Nat]
  /\ \A q \in Sent : sentAt[q] = Never \/ (sentAt[q] <= now /\ pc[q] # "idle")

RateInv ==
  /\ LimiterInv
  /\ \A c \in Client, s \in 0..now : Cardinality(Passed(c, s)) + Tokens(c) <= Burst + Rate * (now - s)

\* A limiter gains what its rate gives in the time since it was used, up to its burst.
LEMMA Refill ==
  ASSUME now \in Time, NEW l \in Limiter, l.tokens <= Burst, l.at <= now
  PROVE  /\ Refilled(l, Rate, Burst) \in Limiter
         /\ Refilled(l, Rate, Burst).at = now
         /\ Refilled(l, Rate, Burst).tokens \in 0..Burst
         /\ Rate * (now - l.at) \in Nat
         /\ Refilled(l, Rate, Burst).tokens =
              IF l.tokens + Rate * (now - l.at) < Burst THEN l.tokens + Rate * (now - l.at)
              ELSE Burst
<1>1. now \in Nat /\ l.at \in Nat /\ l.tokens \in Nat /\ Rate \in Nat /\ Burst \in Nat
  BY AccountsAssumption DEF Time, Limiter
<1>2. now - l.at \in Nat
  BY <1>1
<1>3. Rate * (now - l.at) \in Nat
  BY <1>1, <1>2
<1> DEFINE n == l.tokens + Rate * (now - l.at)
           m == IF n < Burst THEN n ELSE Burst
<1>4. n \in Nat
  BY <1>1, <1>3
<1> HIDE DEF n
<1>5. m \in 0..Burst /\ m \in Nat
  BY <1>1, <1>4
<1>6. Refilled(l, Rate, Burst) = [tokens |-> m, at |-> now]
  BY DEF Refilled, n
<1> HIDE DEF m
<1>7. Refilled(l, Rate, Burst) \in Limiter /\ Refilled(l, Rate, Burst).at = now
      /\ Refilled(l, Rate, Burst).tokens = m
  BY <1>5, <1>6 DEF Limiter
<1>8. QED
  BY <1>3, <1>5, <1>7 DEF m, n

\* The tokens of an address are a number, and all of them when its limiter is idle: the
\* clean-up may forget it.
LEMMA TokensFacts ==
  ASSUME ReqInv, LimiterInv, NEW c \in Client
  PROVE  /\ Tokens(c) \in 0..Burst /\ Tokens(c) \in Nat
         /\ clients[c] # None /\ Idle(clients[c]) => Tokens(c) = Burst
<1>0. /\ now \in Nat /\ Burst \in Nat /\ Rate \in Nat /\ TTL \in Nat /\ Rate * TTL >= Burst
      /\ now \in Time
  BY AccountsAssumption DEF ReqInv, Time
<1>1. CASE clients[c] = None
  BY <1>0, <1>1 DEF Tokens
<1>2. CASE clients[c] # None
  <2>1. PICK e \in clientLimiter : e = clients[c]
    BY <1>2 DEF LimiterInv
  <2>2. /\ e.lim \in Limiter /\ e.lim.tokens <= Burst /\ e.lim.at <= now /\ e.lim.at = e.seen
        /\ e.seen \in Nat /\ e.lim.tokens \in Nat /\ e.seen <= now
    BY <1>2, <2>1 DEF LimiterInv, clientLimiter, Limiter, Time
  <2>3. Tokens(c) = Refilled(e.lim, Rate, Burst).tokens
    BY <1>2, <2>1 DEF Tokens
  <2>4. /\ Tokens(c) \in 0..Burst /\ Rate * (now - e.seen) \in Nat
        /\ Tokens(c) = IF e.lim.tokens + Rate * (now - e.seen) < Burst
                         THEN e.lim.tokens + Rate * (now - e.seen) ELSE Burst
    BY <1>0, <2>2, <2>3, Refill
  <2>5. Idle(e) => Tokens(c) = Burst
    <3> SUFFICES ASSUME Idle(e) PROVE Tokens(c) = Burst
      OBVIOUS
    <3>1. now - e.seen > TTL
      BY DEF Idle
    <3>2. PICK d \in Nat : d = now - e.seen
      BY <1>0, <2>2
    <3>3. Rate * d >= Rate * TTL
      BY <1>0, <3>1, <3>2
    <3>4. Rate * d >= Burst
      BY <1>0, <3>2, <3>3
    <3>5. QED
      BY <1>0, <2>2, <2>4, <3>2, <3>4
  <2>6. QED
    BY <1>0, <2>1, <2>4, <2>5
<1>3. QED
  BY <1>1, <1>2

\* ipLimiter.get takes no token and gives none, and forgets full limiters only.
LEMMA GetEffect ==
  ASSUME ReqInv, LimiterInv, NEW c \in Client
  PROVE  LET cs == get(clients, lastGC, c) IN
         /\ cs \in [Client -> clientLimiter \cup {None}]
         /\ cs[c] = [lim |-> [tokens |-> Tokens(c), at |-> now], seen |-> now]
         /\ \A d \in Client \ {c} : cs[d] = clients[d] \/ (cs[d] = None /\ Tokens(d) = Burst)
<1>0. now \in Time /\ now \in Nat /\ Burst \in Nat /\ Rate \in Nat
  BY AccountsAssumption DEF ReqInv, Time
<1> DEFINE kept == IF now - lastGC > TTL
                     THEN [d \in Client |->
                             IF clients[d] # None /\ Idle(clients[d]) THEN None ELSE clients[d]]
                     ELSE clients
           lim == IF kept[c] # None THEN kept[c].lim ELSE Full(Burst)
           e == [lim |-> Refilled(lim, Rate, Burst), seen |-> now]
<1>1. /\ kept \in [Client -> clientLimiter \cup {None}]
      /\ \A d \in Client : \/ kept[d] = clients[d]
                           \/ kept[d] = None /\ clients[d] # None /\ Idle(clients[d])
  BY DEF LimiterInv
<1>2. get(clients, lastGC, c) = [kept EXCEPT ![c] = e]
  BY DEF get
<1> HIDE DEF kept
<1>3. /\ Full(Burst) \in Limiter /\ Full(Burst).tokens = Burst /\ Full(Burst).at = now
  BY <1>0 DEF Full, Limiter
<1>4. /\ lim \in Limiter /\ lim.tokens <= Burst /\ lim.at <= now
      /\ Refilled(lim, Rate, Burst).tokens = Tokens(c)
  <2>1. CASE kept[c] # None
    <3>1. kept[c] = clients[c] /\ lim = clients[c].lim /\ clients[c] # None
      BY <1>1, <2>1
    <3>2. clients[c] \in clientLimiter
      BY <3>1 DEF LimiterInv
    <3>3. lim \in Limiter /\ lim.tokens <= Burst /\ lim.at <= now
      BY <3>1, <3>2 DEF LimiterInv, clientLimiter
    <3>4. QED
      BY <3>1, <3>3 DEF Tokens
  <2>2. CASE kept[c] = None
    <3>1. lim = Full(Burst)
      BY <2>2
    <3>2. Tokens(c) = Burst
      BY <1>1, <2>2, TokensFacts DEF Tokens
    <3>3. lim \in Limiter /\ lim.tokens = Burst /\ lim.at = now
      BY <1>3, <3>1
    <3>4. Refilled(lim, Rate, Burst).tokens = Burst
      <4>1. PICK l \in Limiter : l = lim
        BY <3>3
      <4>2. l.tokens = Burst /\ l.at = now /\ l.tokens <= Burst /\ l.at <= now
        BY <1>0, <3>3, <4>1
      <4>3. Refilled(l, Rate, Burst).tokens =
              IF l.tokens + Rate * (now - l.at) < Burst THEN l.tokens + Rate * (now - l.at)
              ELSE Burst
        BY <1>0, <4>2, Refill
      <4>4. Rate * (now - l.at) = 0
        BY <1>0, <4>2
      <4>5. QED
        BY <1>0, <4>1, <4>2, <4>3, <4>4
    <3>5. QED
      BY <1>0, <3>2, <3>3, <3>4
  <2>3. QED
    BY <2>1, <2>2
<1> HIDE DEF lim
<1>5. Refilled(lim, Rate, Burst) = [tokens |-> Tokens(c), at |-> now]
  BY <1>4 DEF Refilled
<1>6. Refilled(lim, Rate, Burst) \in Limiter
  BY <1>0, <1>4, Refill
<1>7. e \in clientLimiter
  BY <1>0, <1>6 DEF clientLimiter
<1>8. \A d \in Client : kept[d] = clients[d] \/ (kept[d] = None /\ Tokens(d) = Burst)
  BY <1>1, TokensFacts
<1>9. e = [lim |-> [tokens |-> Tokens(c), at |-> now], seen |-> now]
  BY <1>5
<1> HIDE DEF e
<1>10. QED
  BY <1>1, <1>2, <1>7, <1>8, <1>9

\* The count of an address changes when one of its requests passes, and takes a token.
LEMMA PassedFacts ==
  ASSUME ReqInv, NEW c, NEW s
  PROVE  /\ IsFiniteSet(Passed(c, s)) /\ Cardinality(Passed(c, s)) \in Nat
         /\ \A q : Cardinality(Passed(c, s) \cup {q}) <= Cardinality(Passed(c, s)) + 1
         /\ \A T \in SUBSET Passed(c, s) : Cardinality(T) <= Cardinality(Passed(c, s))
<1>1. IsFiniteSet(Passed(c, s)) /\ Passed(c, s) \in SUBSET Sent
  <2>1. Passed(c, s) \in SUBSET Sent
    BY DEF Passed
  <2>2. IsFiniteSet(Sent)
    BY DEF ReqInv
  <2>3. QED
    BY <2>1, <2>2, FS_Subset
<1>2. QED
  BY <1>1, FS_CardinalityType, FS_AddElement, FS_Subset

\* Steps that leave the limiters of the addresses alone.
LEMMA RateFrame ==
  ASSUME ReqInv, RateInv, AnswersStay, UNCHANGED <<clients, sentAt, now>>
  PROVE  RateInv'
<1>1. Sent' = Sent
  BY DEF AnswersStay, Sent
<1>2. LimiterInv'
  BY <1>1 DEF RateInv, LimiterInv, AnswersStay
<1>3. \A c, s : Passed(c, s)' = Passed(c, s)
  BY <1>1 DEF Passed
<1>4. \A c : Tokens(c)' = Tokens(c)
  BY DEF Tokens, Refilled
<1>5. QED
  BY <1>2, <1>3, <1>4 DEF RateInv

\* The tokens of a limiter that was used right now.
LEMMA FreshTokens ==
  ASSUME ReqInv, now' = now, NEW c \in Client, NEW n \in 0..Burst,
         clients'[c] # None,
         clients'[c].lim = [tokens |-> n, at |-> now]
  PROVE  Tokens(c)' = n
<1>0. now \in Nat /\ Burst \in Nat /\ Rate \in Nat /\ n \in Nat
  BY AccountsAssumption DEF ReqInv, Time
<1>1. Tokens(c)' = IF n + Rate * (now - now) < Burst THEN n + Rate * (now - now) ELSE Burst
  BY DEF Tokens, Refilled
<1>2. Rate * (now - now) = 0
  BY <1>0
<1>3. QED
  BY <1>0, <1>1, <1>2

\* withRateLimit
LEMMA RateArrive ==
  ASSUME ReqInv, RateInv, AnswersStay, NEW q \in Sent, Arrive(q)
  PROVE  RateInv'
<1>0. /\ Sent' = Sent /\ now' = now /\ now \in Nat /\ now \in Time /\ MaxTime \in Nat
      /\ Burst \in Nat /\ Rate \in Nat /\ pc[q] = "idle" /\ now <= MaxTime
      /\ pc \in [Sent -> Early \cup Past \cup {"cut"}]
  BY AccountsAssumption DEF AnswersStay, Sent, Arrive, rest, ReqInv, Time
<1>1. PICK c \in Client : c = From[q]
  BY RequestAssumption DEF ReqInv, Sent
<1>2. PICK cs : cs = get(clients, lastGC, c)
  OBVIOUS
<1>3. LimiterInv
  BY DEF RateInv
<1>4. /\ cs \in [Client -> clientLimiter \cup {None}]
      /\ cs[c] = [lim |-> [tokens |-> Tokens(c), at |-> now], seen |-> now]
      /\ \A d \in Client \ {c} : cs[d] = clients[d] \/ (cs[d] = None /\ Tokens(d) = Burst)
  BY <1>2, <1>3, GetEffect
<1>5. Tokens(c) \in 0..Burst /\ Tokens(c) \in Nat
  BY <1>3, TokensFacts
\* The new limiter of the address, with n tokens.
<1>6. PICK n \in 0..Burst :
        \/ n = Tokens(c) /\ clients' = cs /\ sentAt' = sentAt
        \/ n = Tokens(c) - 1 /\ clients' = [cs EXCEPT ![c].lim.tokens = @ - 1]
           /\ sentAt' = [sentAt EXCEPT ![q] = now] /\ Goto(q, "limit")
  <2>1. CASE cs[c].lim.tokens >= 1
    <3>1. /\ clients' = [cs EXCEPT ![c].lim.tokens = @ - 1]
          /\ sentAt' = [sentAt EXCEPT ![q] = now] /\ Goto(q, "limit")
      BY <1>1, <1>2, <2>1 DEF Arrive
    <3>2. Tokens(c) - 1 \in 0..Burst
      BY <1>0, <1>4, <1>5, <2>1
    <3>3. QED
      BY <3>1, <3>2
  <2>2. CASE ~(cs[c].lim.tokens >= 1)
    BY <1>1, <1>2, <1>5, <2>2 DEF Arrive
  <2>3. QED
    BY <2>1, <2>2
<1>7. PICK l : l = [tokens |-> n, at |-> now]
  OBVIOUS
<1>8. l \in Limiter /\ l.tokens = n /\ l.at = now
  BY <1>0, <1>7 DEF Limiter
<1>9. PICK e : e = [lim |-> l, seen |-> now]
  OBVIOUS
<1>10. e \in clientLimiter /\ e.lim = l /\ e.seen = now /\ e # None
  <2>1. e \in clientLimiter /\ e.lim = l /\ e.seen = now
    BY <1>0, <1>8, <1>9 DEF clientLimiter
  <2>2. QED
    BY <2>1, AccountsAssumption
<1>11. clients' = [cs EXCEPT ![c] = e]
  BY <1>4, <1>6, <1>7, <1>9
<1>12. /\ clients' \in [Client -> clientLimiter \cup {None}] /\ clients'[c] = e
       /\ \A d \in Client \ {c} :
            clients'[d] = clients[d] \/ (clients'[d] = None /\ Tokens(d) = Burst)
  BY <1>4, <1>10, <1>11
<1>13. \A k \in Sent : \/ sentAt'[k] = sentAt[k]
                       \/ k = q /\ n = Tokens(c) - 1 /\ sentAt'[k] = now /\ pc'[k] # "idle"
  BY <1>0, <1>3, <1>6 DEF LimiterInv, Goto
<1>14. LimiterInv'
  <2>1. sentAt' \in [Sent -> Nat]
    BY <1>0, <1>3, <1>6 DEF LimiterInv
  <2>2. \A d \in Client : clients'[d] # None =>
          /\ clients'[d].lim.tokens <= Burst /\ clients'[d].seen <= now
          /\ clients'[d].lim.at = clients'[d].seen
    BY <1>0, <1>3, <1>8, <1>10, <1>12 DEF LimiterInv
  <2>3. \A k \in Sent : sentAt'[k] = Never \/ (sentAt'[k] <= now /\ pc'[k] # "idle")
    BY <1>0, <1>3, <1>13 DEF LimiterInv, AnswersStay
  <2>4. QED
    BY <1>0, <1>12, <2>1, <2>2, <2>3 DEF LimiterInv
<1>15. Tokens(c)' = n
  BY <1>0, <1>7, <1>10, <1>12, FreshTokens
<1>16. \A d \in Client \ {c} : Tokens(d)' = Tokens(d)
  <2> SUFFICES ASSUME NEW d \in Client \ {c} PROVE Tokens(d)' = Tokens(d)
    OBVIOUS
  <2>1. CASE clients'[d] = clients[d]
    BY <1>0, <2>1 DEF Tokens, Refilled
  <2>2. CASE clients'[d] = None /\ Tokens(d) = Burst
    BY <2>2 DEF Tokens
  <2>3. QED
    BY <1>12, <2>1, <2>2
<1>17. ASSUME NEW d \in Client, NEW s \in 0..now
       PROVE  Cardinality(Passed(d, s)') + Tokens(d)' <= Burst + Rate * (now - s)
  <2>0. Cardinality(Passed(d, s)) + Tokens(d) <= Burst + Rate * (now - s)
    BY <1>17 DEF RateInv
  <2>1. Cardinality(Passed(d, s)) \in Nat
    BY PassedFacts
  <2>2. PICK b \in Int : b = Burst + Rate * (now - s)
    <3>1. s \in Int /\ now - s \in Int
      BY <1>0
    <3>2. Rate * (now - s) \in Int
      BY <1>0, <3>1
    <3>3. QED
      BY <1>0, <3>2
  <2>3. CASE d # c \/ n = Tokens(c)
    <3>1. Passed(d, s)' \in SUBSET Passed(d, s)
      <4>1. \A k \in Sent : From[k] = d /\ sentAt'[k] \in s..now => sentAt'[k] = sentAt[k]
        BY <1>1, <1>5, <1>13, <2>3
      <4>2. QED
        BY <1>0, <4>1 DEF Passed
    <3>2. Cardinality(Passed(d, s)') <= Cardinality(Passed(d, s)) /\ Cardinality(Passed(d, s)') \in Nat
      <4>1. IsFiniteSet(Passed(d, s)')
        BY <3>1, PassedFacts, FS_Subset
      <4>2. QED
        BY <3>1, <4>1, PassedFacts, FS_CardinalityType
    <3>3. Tokens(d)' = Tokens(d) /\ Tokens(d) \in Nat
      BY <1>3, <1>15, <1>16, <2>3, TokensFacts
    <3>4. QED
      BY <2>0, <2>1, <2>2, <3>2, <3>3
  <2>4. CASE d = c /\ n = Tokens(c) - 1
    <3>1. Passed(c, s)' \in SUBSET (Passed(c, s) \cup {q})
      BY <1>0, <1>13 DEF Passed
    <3>2. Cardinality(Passed(c, s)') <= Cardinality(Passed(c, s)) + 1 /\ Cardinality(Passed(c, s)') \in Nat
      <4>1. /\ IsFiniteSet(Passed(c, s) \cup {q})
            /\ Cardinality(Passed(c, s) \cup {q}) <= Cardinality(Passed(c, s)) + 1
        BY PassedFacts, FS_AddElement
      <4>2. /\ IsFiniteSet(Passed(c, s)')
            /\ Cardinality(Passed(c, s)') <= Cardinality(Passed(c, s) \cup {q})
        BY <3>1, <4>1, FS_Subset
      <4>3. /\ Cardinality(Passed(c, s)') \in Nat /\ Cardinality(Passed(c, s) \cup {q}) \in Nat
        BY <4>1, <4>2, FS_CardinalityType
      <4>4. Cardinality(Passed(c, s)) \in Nat
        BY PassedFacts
      <4>5. QED
        BY <4>1, <4>2, <4>3, <4>4
    <3>3. Cardinality(Passed(c, s)) \in Nat
      BY PassedFacts
    <3>4. QED
      BY <1>5, <1>15, <2>0, <2>2, <2>4, <3>2, <3>3
  <2>5. QED
    BY <1>6, <2>3, <2>4
<1>18. QED
  BY <1>0, <1>14, <1>17 DEF RateInv

\* What a request does to the limiters of the addresses.
LEMMA RateStep ==
  ASSUME ReqInv, RateInv, AnswersStay, NEW q \in Sent, StepOf(q)
  PROVE  RateInv'
<1>1. CASE Arrive(q)
  BY <1>1, RateArrive
<1>2. CASE UNCHANGED <<clients, sentAt, now>>
  BY <1>2, RateFrame
<1>3. CASE LimitTenant(q) \/ withDynAuth(q) \/ TouchGet(q) \/ TouchPut(q) \/ PatchMe(q)
             \/ PatchPlan(q) \/ SignupCheck(q) \/ SignupSave(q) \/ SignupKey(q) \/ PostKey(q)
  BY <1>2, <1>3 DEF LimitTenant, withDynAuth, TouchGet, TouchPut, PatchMe, PatchPlan,
       ReadProfile, SaveProfile, SignupCheck, SignupSave, SignupKey, PostKey, limitVars, rest
<1>4. CASE DeleteKey(q) \/ DeleteTenant(q) \/ WriteFails(q) \/ PostJob(q) \/ SubmitUnmetered(q)
             \/ GetUsage(q)
             \/ Get(q) \/ KvPut(q) \/ KvDelete(q) \/ withAudit(q) \/ withBillingMetrics(q)
  BY <1>2, <1>4 DEF DeleteKey, DeleteTenant, WriteFails, PostJob, SubmitUnmetered, GetUsage, Get,
       KvPut, KvDelete,
       withAudit, withBillingMetrics, limitVars, rest
<1>5. QED
  BY <1>1, <1>3, <1>4 DEF StepOf

\* The time between two moments.
LEMMA Span ==
  ASSUME NEW n \in Nat, NEW s \in 0..n
  PROVE  n - s \in Nat /\ n - n = 0
OBVIOUS

\* A limiter gains no more in a tick than the rate.
LEMMA TokensTick ==
  ASSUME ReqInv, ReqInv', LimiterInv, LimiterInv', UNCHANGED clients, now' = now + 1,
         NEW c \in Client
  PROVE  Tokens(c)' <= Tokens(c) + Rate /\ Tokens(c)' \in 0..Burst
<1>0. /\ now \in Nat /\ now' \in Nat /\ Burst \in Nat /\ Rate \in Nat
      /\ now \in Time /\ now' \in Time
  BY AccountsAssumption DEF ReqInv, Time
<1>1. CASE clients[c] = None
  BY <1>0, <1>1 DEF Tokens
<1>2. CASE clients[c] # None
  <2>1. PICK l \in Limiter : l = clients[c].lim
    BY <1>2 DEF LimiterInv, clientLimiter
  <2>2. l.tokens <= Burst /\ l.at <= now /\ l.at \in Nat /\ l.tokens \in Nat
    BY <1>2, <2>1 DEF LimiterInv, Limiter, Time
  <2>3. PICK a \in Nat : a = l.tokens + Rate * (now - l.at)
    BY <1>0, <2>2, Refill
  <2>4. l.tokens + Rate * (now' - l.at) = a + Rate
    <3>1. PICK d \in Nat : d = now - l.at
      BY <1>0, <2>2
    <3>2. now' - l.at = d + 1
      BY <1>0, <2>2, <3>1
    <3>3. Rate * (d + 1) = Rate * d + Rate /\ Rate * d \in Nat
      BY <1>0
    <3>4. QED
      BY <1>0, <2>2, <2>3, <3>1, <3>2, <3>3
  <2>5. Tokens(c) = IF a < Burst THEN a ELSE Burst
    BY <1>2, <2>1, <2>3 DEF Tokens, Refilled
  <2>6. Tokens(c)' = IF a + Rate < Burst THEN a + Rate ELSE Burst
    BY <1>2, <2>1, <2>4 DEF Tokens, Refilled
  <2>7. QED
    BY <1>0, <2>5, <2>6
<1>3. QED
  BY <1>1, <1>2

\* Pruning, time and restarts.
LEMMA RateRest ==
  ASSUME ReqInv, ReqInv', RateInv, AnswersStay, Prune \/ Tick \/ Restart \/ UNCHANGED vars
  PROVE  RateInv'
<1>0. /\ Sent' = Sent /\ now \in Nat /\ now' \in Nat /\ MaxTime \in Nat /\ Burst \in Nat
      /\ Rate \in Nat /\ now <= MaxTime /\ now' <= MaxTime /\ LimiterInv
  BY AccountsAssumption DEF AnswersStay, Sent, ReqInv, Time, RateInv
<1>1. CASE Prune \/ UNCHANGED vars
  <2>1. UNCHANGED <<clients, sentAt, now>>
    BY <1>1 DEF Prune, limitVars, rest, vars
  <2>2. QED
    BY <2>1, RateFrame
<1>2. CASE Tick
  <2>1. UNCHANGED <<clients, sentAt, pc>> /\ now' = now + 1
    BY <1>2 DEF Tick, limitVars
  <2>2. LimiterInv'
    BY <1>0, <2>1 DEF LimiterInv, clientLimiter, Time
  <2>3. ASSUME NEW c \in Client, NEW s \in 0..now'
        PROVE  Cardinality(Passed(c, s)') + Tokens(c)' <= Burst + Rate * (now' - s)
    <3>1. Tokens(c)' <= Tokens(c) + Rate /\ Tokens(c) \in Nat /\ Tokens(c)' \in 0..Burst
      <4>1. Tokens(c)' <= Tokens(c) + Rate /\ Tokens(c)' \in 0..Burst
        BY <1>0, <2>1, <2>2, TokensTick
      <4>2. Tokens(c) \in Nat
        BY <1>0, TokensFacts
      <4>3. QED
        BY <4>1, <4>2
    <3>2. CASE s <= now
      <4>1. Passed(c, s)' = Passed(c, s)
        <5>1. \A q \in Sent : sentAt[q] \in s..now' <=> sentAt[q] \in s..now
          BY <1>0, <2>1 DEF LimiterInv, Never
        <5>2. QED
          BY <1>0, <2>1, <5>1 DEF Passed
      <4>2. Cardinality(Passed(c, s)) + Tokens(c) <= Burst + Rate * (now - s)
        BY <1>0, <3>2 DEF RateInv
      <4>3. Cardinality(Passed(c, s)) \in Nat
        BY PassedFacts
      <4>4. PICK d \in Nat : d = now - s
        BY <1>0, <3>2
      <4>5. now' - s = d + 1
        BY <1>0, <2>1, <4>4
      <4>6. Rate * (d + 1) = Rate * d + Rate /\ Rate * d \in Nat
        BY <1>0
      <4>7. PICK a \in Nat, m \in Nat : a = Cardinality(Passed(c, s)) /\ m = Rate * d
        BY <4>3, <4>6
      <4>8. a + Tokens(c) <= Burst + m
        BY <4>2, <4>4, <4>7
      <4>9. a + Tokens(c)' <= Burst + (m + Rate)
        BY <1>0, <3>1, <4>8
      <4>10. Rate * (now' - s) = m + Rate
        BY <4>5, <4>6, <4>7
      <4>11. QED
        BY <4>1, <4>7, <4>9, <4>10
    <3>3. CASE ~(s <= now)
      <4>1. s = now'
        BY <1>0, <2>1, <3>3
      <4>2. Passed(c, s)' = {}
        <5>1. \A q \in Sent : sentAt[q] \notin s..now'
          BY <1>0, <2>1, <4>1 DEF LimiterInv, Never
        <5>2. QED
          BY <1>0, <2>1, <5>1 DEF Passed
      <4>3. Cardinality(Passed(c, s)') = 0
        BY <4>2, FS_EmptySet
      <4>4. Rate * (now' - s) = 0
        <5>1. now' - s = 0
          <6>1. PICK n \in Nat : n = now'
            BY <1>0
          <6>2. n - n = 0
            BY <6>1, Span
          <6>3. QED
            BY <4>1, <6>1, <6>2
        <5>2. Rate * 0 = 0
          BY <1>0
        <5>3. QED
          BY <5>1, <5>2
      <4>5. QED
        BY <1>0, <3>1, <4>3, <4>4
    <3>4. QED
      BY <3>2, <3>3
  <2>4. QED
    BY <2>2, <2>3 DEF RateInv
<1>3. CASE Restart
  <2>1. /\ clients' = [c \in Client |-> None] /\ sentAt' = [q \in Sent |-> Never] /\ now' = now
    BY <1>3 DEF Restart
  <2>2. LimiterInv'
    BY <1>0, <2>1 DEF LimiterInv, Never
  <2>3. ASSUME NEW c \in Client, NEW s \in 0..now'
        PROVE  Cardinality(Passed(c, s)') + Tokens(c)' <= Burst + Rate * (now' - s)
    <3>1. Passed(c, s)' = {}
      <4>1. Never \notin s..now'
        BY <1>0 DEF Never
      <4>2. QED
        BY <1>0, <2>1, <4>1 DEF Passed
    <3>2. Cardinality(Passed(c, s)') = 0
      BY <3>1, FS_EmptySet
    <3>3. Tokens(c)' = Burst
      BY <2>1 DEF Tokens
    <3>4. PICK n \in Nat : n = now'
      BY <1>0
    <3>5. s \in 0..n
      BY <3>4
    <3>6. PICK d \in Nat : d = n - s
      BY <3>5, Span
    <3>7. PICK m \in Nat : m = Rate * d
      BY <1>0
    <3>8. Rate * (now' - s) = m
      BY <3>4, <3>6, <3>7
    <3>9. Burst <= Burst + m /\ 0 + Burst = Burst
      BY <1>0
    <3>10. QED
      BY <3>2, <3>3, <3>8, <3>9
  <2>4. QED
    BY <2>2, <2>3 DEF RateInv
<1>4. QED
  BY <1>1, <1>2, <1>3

-----------------------------------------------------------------------------
(* The key-value store.  The store differs from what was put last only in entries *)
(* that have expired and are pruned.                                              *)

KvInv ==
  /\ kv \in [Tenant -> [Item -> Value \cup {None}]]
  /\ put \in [Tenant -> [Item -> Value \cup {None}]]
  /\ \A t \in Tenant, i \in Item :
       kv[t][i] = put[t][i] \/ (kv[t][i] = None /\ put[t][i] # None /\ Over(put[t][i]))

\* An entry that has expired stays so.
LEMMA OverStays ==
  ASSUME now \in Nat, now' \in Nat, now <= now', NEW e \in Value, Over(e)
  PROVE  Over(e)'
<1>1. e.expires \in Nat \cup {None}
  BY DEF Value
<1>2. QED
  BY <1>1 DEF Over

\* Steps that leave the store alone.
LEMMA KvFrame ==
  ASSUME ReqInv, ReqInv', KvInv, UNCHANGED kvVars, now <= now'
  PROVE  KvInv'
<1>1. now \in Nat /\ now' \in Nat
  BY AccountsAssumption DEF ReqInv, Time
<1>2. ASSUME NEW t \in Tenant, NEW i \in Item, kv[t][i] # put[t][i]
      PROVE  kv[t][i] = None /\ put[t][i] # None /\ Over(put[t][i])'
  <2>1. kv[t][i] = None /\ put[t][i] # None /\ Over(put[t][i])
    BY <1>2 DEF KvInv
  <2>2. PICK e \in Value : e = put[t][i]
    BY <2>1 DEF KvInv
  <2>3. Over(e)'
    BY <1>1, <2>1, <2>2, OverStays
  <2>4. QED
    BY <2>1, <2>2, <2>3 DEF kvVars, Over
<1>3. QED
  BY <1>2 DEF KvInv, kvVars, Over

\* PUT and DELETE /kv/{key}: one entry is replaced in the store and in put.
LEMMA KvReplace ==
  ASSUME KvInv, NEW t \in Tenant, NEW i \in Item, NEW e \in Value \cup {None}, now' = now,
         kv' = [kv EXCEPT ![t][i] = e], put' = [put EXCEPT ![t][i] = e]
  PROVE  KvInv'
<1>1. /\ kv' \in [Tenant -> [Item -> Value \cup {None}]]
      /\ put' \in [Tenant -> [Item -> Value \cup {None}]]
  BY DEF KvInv
<1>2. ASSUME NEW u \in Tenant, NEW k \in Item
      PROVE  \/ kv'[u][k] = put'[u][k]
             \/ kv'[u][k] = None /\ put'[u][k] # None /\ Over(put'[u][k])
  <2>1. CASE u = t /\ k = i
    BY <2>1 DEF KvInv
  <2>2. CASE ~(u = t /\ k = i)
    <3>1. kv'[u][k] = kv[u][k] /\ put'[u][k] = put[u][k]
      BY <2>2 DEF KvInv
    <3>2. QED
      BY <3>1 DEF KvInv
  <2>3. QED
    BY <2>1, <2>2
<1>3. QED
  BY <1>1, <1>2 DEF KvInv, Over

\* What a request does to the store.
LEMMA KvStep ==
  ASSUME ReqInv, ReqInv', KvInv, NEW q \in Sent, StepOf(q)
  PROVE  KvInv'
<1>0. /\ q \in Request /\ tenant[q] \in Tenant /\ now \in Nat
  BY AccountsAssumption DEF ReqInv, Sent, Time
<1>1. CASE UNCHANGED <<kvVars, now>>
  BY <1>0, <1>1, KvFrame
<1>2. CASE KvPut(q)
  <2>1. PICK e : e = [by |-> q, expires |-> IF Arg[q].ttl > 0 THEN now + Arg[q].ttl ELSE None]
    OBVIOUS
  <2>2. /\ kv' = [kv EXCEPT ![tenant[q]][Arg[q].item] = e] /\ now' = now /\ Op[q] = "put"
        /\ put' = [put EXCEPT ![tenant[q]][Arg[q].item] = e]
    BY <1>2, <2>1 DEF KvPut, Handling, rest
  <2>3. Arg[q].item \in Item /\ Arg[q].ttl \in Nat
    BY <1>0, <2>2, RequestAssumption
  <2>4. e \in Value \cup {None}
    BY <1>0, <2>1, <2>3 DEF Value
  <2>5. QED
    BY <1>0, <2>2, <2>3, <2>4, KvReplace
<1>3. CASE KvDelete(q)
  <2>1. /\ kv' = [kv EXCEPT ![tenant[q]][Arg[q].item] = None] /\ now' = now /\ Op[q] = "delete"
        /\ put' = [put EXCEPT ![tenant[q]][Arg[q].item] = None]
    BY <1>3 DEF KvDelete, Handling, rest
  <2>2. Arg[q].item \in Item
    BY <1>0, <2>1, RequestAssumption
  <2>3. QED
    BY <1>0, <2>1, <2>2, KvReplace
<1>4. CASE Arrive(q) \/ LimitTenant(q) \/ withDynAuth(q) \/ TouchGet(q) \/ TouchPut(q) \/ PatchMe(q)
             \/ PatchPlan(q) \/ SignupCheck(q) \/ SignupSave(q) \/ SignupKey(q) \/ PostKey(q)
  BY <1>1, <1>4 DEF Arrive, LimitTenant, withDynAuth, TouchGet, TouchPut, PatchMe, PatchPlan,
       ReadProfile, SaveProfile, SignupCheck, SignupSave, SignupKey, PostKey, rest
<1>5. CASE DeleteKey(q) \/ DeleteTenant(q) \/ WriteFails(q) \/ PostJob(q) \/ SubmitUnmetered(q)
             \/ GetUsage(q)
             \/ Get(q) \/ withAudit(q) \/ withBillingMetrics(q)
  BY <1>1, <1>5 DEF DeleteKey, DeleteTenant, WriteFails, PostJob, SubmitUnmetered, GetUsage, Get,
       withAudit, withBillingMetrics, rest
<1>6. QED
  BY <1>2, <1>3, <1>4, <1>5 DEF StepOf

\* Pruning takes entries that have expired; a restart takes all.
LEMMA KvRest ==
  ASSUME ReqInv, ReqInv', KvInv, Prune \/ Tick \/ Restart \/ UNCHANGED vars
  PROVE  KvInv'
<1>0. now \in Nat /\ now' \in Nat
  BY AccountsAssumption DEF ReqInv, Time
<1>1. CASE Prune
  <2>1. kv' = Pruned(kv) /\ put' = put /\ now' = now
    BY <1>1 DEF Prune, rest
  <2>2. \A t \in Tenant, i \in Item :
          kv'[t][i] = IF kv[t][i] # None /\ Over(kv[t][i]) THEN None ELSE kv[t][i]
    BY <2>1 DEF Pruned
  <2>3. kv' \in [Tenant -> [Item -> Value \cup {None}]]
    BY <2>1 DEF KvInv, Pruned
  <2>4. ASSUME NEW t \in Tenant, NEW i \in Item
        PROVE  \/ kv'[t][i] = put[t][i]
               \/ kv'[t][i] = None /\ put[t][i] # None /\ Over(put[t][i])
    BY <2>2 DEF KvInv
  <2>5. QED
    BY <2>1, <2>3, <2>4 DEF KvInv, Over
<1>2. CASE Tick \/ UNCHANGED vars
  <2>1. UNCHANGED kvVars /\ now <= now'
    BY <1>0, <1>2 DEF Tick, vars, kvVars
  <2>2. QED
    BY <2>1, KvFrame
<1>3. CASE Restart
  BY <1>3 DEF Restart, NoItems, KvInv
<1>4. QED
  BY <1>1, <1>2, <1>3

-----------------------------------------------------------------------------
(* Usage of the day.  The counters are those of the requests that were metered on *)
(* the day they are kept for.                                                     *)

JobsOn(t, d) == {q \in Sent : Op[q] = "job" /\ tenant[q] = t /\ jobDay[q] = d}
CallsOn(d) == {q \in Sent : callDay[q] = d}

MeterInv ==
  /\ usage \in [Tenant -> [Metric -> Nat]]
  /\ day \in 0..Today
  /\ jobDay \in [Sent -> Nat] /\ callDay \in [Sent -> Nat]
  /\ \A q \in Sent : /\ jobDay[q] # Never => answer[q] # 0
                     /\ Op[q] = "job" /\ jobDay[q] # Never => jobDay[q] <= day
                     /\ callDay[q] # Never => callDay[q] <= day /\ pc[q] = "done"
  /\ \A t \in Tenant :
       /\ usage[t]["jobs"] = Cardinality(JobsOn(t, day))
       /\ usage[t]["api_calls"] = IF t = Default THEN Cardinality(CallsOn(day)) ELSE 0

\* Days are counted from 0, and none of them is that of a request that was never metered.
LEMMA Days ==
  ASSUME ReqInv
  PROVE  Today \in Nat /\ Today < Never /\ Never \in Nat
<1>1. now \in Nat /\ now <= MaxTime /\ MaxTime \in Nat /\ DayLength \in Nat \ {0}
  BY AccountsAssumption DEF ReqInv, Time
<1>2. now \div DayLength \in Nat /\ now \div DayLength <= now
  BY <1>1
<1>3. QED
  BY <1>1, <1>2 DEF Today, Never

\* They do not go back.
LEMMA DaysGo ==
  ASSUME ReqInv, ReqInv', now <= now'
  PROVE  Today <= Today' /\ Today' \in Nat
<1>1. now \in Nat /\ now' \in Nat /\ DayLength \in Nat \ {0}
  BY AccountsAssumption DEF ReqInv, Time
<1>2. \A n \in Nat, m \in Nat : n <= m => n \div DayLength <= m \div DayLength /\ m \div DayLength \in Nat
  BY <1>1
<1>3. now \div DayLength <= now' \div DayLength /\ now' \div DayLength \in Nat
  BY <1>1, <1>2
<1>4. QED
  BY <1>3 DEF Today

\* What is left of the counters when the day has changed is what is metered today.
LEMMA Metered ==
  ASSUME ReqInv, MeterInv
  PROVE  /\ Rotated(usage) \in [Tenant -> [Metric -> Nat]]
         /\ \A t \in Tenant :
              /\ Rotated(usage)[t]["jobs"] = Cardinality(JobsOn(t, Today))
              /\ Rotated(usage)[t]["api_calls"] =
                   IF t = Default THEN Cardinality(CallsOn(Today)) ELSE 0
<1>0. Today \in Nat /\ Today < Never /\ Never \in Nat /\ day \in 0..Today
  BY Days DEF MeterInv
<1>1. CASE Today = day
  BY <1>1 DEF Rotated, MeterInv
<1>2. CASE Today # day
  <2>1. /\ Rotated(usage) = NoUsage /\ NoUsage \in [Tenant -> [Metric -> Nat]]
        /\ \A t \in Tenant : NoUsage[t]["jobs"] = 0 /\ NoUsage[t]["api_calls"] = 0
    BY <1>2 DEF Rotated, NoUsage, Metric
  <2>2. day < Today
    BY <1>0, <1>2
  <2>3. \A q \in Sent : (Op[q] = "job" => jobDay[q] # Today) /\ callDay[q] # Today
    BY <1>0, <2>2 DEF MeterInv
  <2>4. CallsOn(Today) = {} /\ \A t \in Tenant : JobsOn(t, Today) = {}
    BY <2>3 DEF CallsOn, JobsOn
  <2>5. Cardinality({}) = 0
    BY FS_EmptySet
  <2>6. QED
    BY <2>1, <2>4, <2>5
<1>3. QED
  BY <1>1, <1>2

\* Steps that leave the meter alone.
LEMMA MeterFrame ==
  ASSUME ReqInv, ReqInv', MeterInv, AnswersStay, UNCHANGED meterVars, now <= now'
  PROVE  MeterInv'
<1>1. Sent' = Sent /\ usage' = usage /\ day' = day /\ jobDay' = jobDay /\ callDay' = callDay
  BY DEF AnswersStay, Sent, meterVars
<1>2. day \in 0..Today'
  BY DaysGo, Days DEF MeterInv
<1>3. \A q \in Sent : jobDay[q] # Never =>
        /\ answer[q] # 0 /\ answer'[q] # 0 /\ tenant'[q] = tenant[q]
        /\ Op[q] = "job" => jobDay[q] <= day
  BY DEF MeterInv, AnswersStay
<1>4. \A q \in Sent : callDay[q] # Never => pc'[q] = "done" /\ callDay[q] <= day
  BY DEF MeterInv, AnswersStay
<1>5. day # Never
  BY Days DEF MeterInv
<1>6. CallsOn(day)' = CallsOn(day) /\ \A t \in Tenant : JobsOn(t, day)' = JobsOn(t, day)
  BY <1>1, <1>3, <1>5 DEF CallsOn, JobsOn
<1>7. QED
  BY <1>1, <1>2, <1>3, <1>4, <1>6 DEF MeterInv, Never

\* One more request is metered today.
LEMMA OneMore ==
  ASSUME NEW S, NEW T, IsFiniteSet(S), NEW q, q \notin S, T = S \cup {q}
  PROVE  Cardinality(T) = Cardinality(S) + 1
BY FS_AddElement

\* PostJob meters the job of a request that had none.
LEMMA MeterJob ==
  ASSUME ReqInv, ReqInv', MeterInv, AnswersStay, NEW q \in Sent, PostJob(q)
  PROVE  MeterInv'
<1>0. /\ Sent' = Sent /\ tenant[q] \in Tenant /\ IsFiniteSet(Sent) /\ pc[q] = "handle" /\ answer[q] = 0
      /\ Op[q] = "job"
      /\ tenant' = tenant /\ callDay' = callDay /\ now' = now
      /\ jobDay' = [jobDay EXCEPT ![q] = Today] /\ day' = Today
      /\ usage' = [Rotated(usage) EXCEPT ![tenant[q]]["jobs"] = @ + 1]
  BY DEF PostJob, Record, Handling, rest, ReqInv, AnswersStay, Sent, Early
<1>1. /\ Today \in Nat /\ Today < Never /\ Never \in Nat /\ Today' = Today /\ Never' = Never
      /\ day \in 0..Today
  BY <1>0, Days DEF Today, Never, MeterInv
<1>2. jobDay \in [Sent -> Nat] /\ callDay \in [Sent -> Nat] /\ jobDay[q] = Never
  BY <1>0 DEF MeterInv
<1>3. PICK u \in [Tenant -> [Metric -> Nat]] :
        /\ u = Rotated(usage)
        /\ \A t \in Tenant :
             /\ u[t]["jobs"] = Cardinality(JobsOn(t, Today))
             /\ u[t]["api_calls"] = IF t = Default THEN Cardinality(CallsOn(Today)) ELSE 0
  BY Metered
<1>4. usage' = [u EXCEPT ![tenant[q]]["jobs"] = u[tenant[q]]["jobs"] + 1]
  BY <1>0, <1>3
<1>5. usage' \in [Tenant -> [Metric -> Nat]]
  BY <1>0, <1>3, <1>4 DEF Metric
<1>6. answer'[q] # 0 /\ \A k \in Sent : pc[k] = "done" => pc'[k] = "done"
  BY <1>0 DEF PostJob, Answer, ReqInv, AnswersStay
<1>7. \A k \in Sent : /\ jobDay'[k] # Never => answer'[k] # 0
                      /\ Op[k] = "job" /\ jobDay'[k] # Never => jobDay'[k] <= Today
                      /\ callDay'[k] # Never => callDay'[k] <= Today /\ pc'[k] = "done"
  BY <1>0, <1>1, <1>2, <1>6 DEF MeterInv, AnswersStay
<1>8. ASSUME NEW t \in Tenant
      PROVE  /\ usage'[t]["jobs"] = Cardinality(JobsOn(t, Today)')
             /\ usage'[t]["api_calls"] = IF t = Default THEN Cardinality(CallsOn(Today)') ELSE 0
  <2>1. CallsOn(Today)' = CallsOn(Today) /\ usage'[t]["api_calls"] = u[t]["api_calls"]
    BY <1>0, <1>1, <1>3, <1>4 DEF CallsOn, Metric
  <2>2. CASE t = tenant[q]
    <3>1. q \notin JobsOn(t, Today) /\ IsFiniteSet(JobsOn(t, Today))
      <4>1. JobsOn(t, Today) \subseteq Sent /\ q \notin JobsOn(t, Today)
        BY <1>1, <1>2 DEF JobsOn
      <4>2. QED
        BY <1>0, <4>1, FS_Subset
    <3>2. JobsOn(t, Today)' = JobsOn(t, Today) \cup {q}
      BY <1>0, <1>1, <1>2, <2>2 DEF JobsOn
    <3>3. usage'[t]["jobs"] = u[t]["jobs"] + 1
      BY <1>0, <1>3, <1>4, <2>2 DEF Metric
    <3>4. QED
      BY <1>3, <2>1, <3>1, <3>2, <3>3, OneMore
  <2>3. CASE t # tenant[q]
    <3>1. JobsOn(t, Today)' = JobsOn(t, Today)
      BY <1>0, <1>1, <1>2, <2>3 DEF JobsOn
    <3>2. usage'[t]["jobs"] = u[t]["jobs"]
      BY <1>0, <1>3, <1>4, <2>3 DEF Metric
    <3>3. QED
      BY <1>3, <2>1, <3>1, <3>2
  <2>4. QED
    BY <2>2, <2>3
<1>9. jobDay' \in [Sent -> Nat]
  BY <1>0, <1>1, <1>2
<1>10. /\ CallsOn(day)' = CallsOn(Today)'
       /\ \A t \in Tenant : JobsOn(t, day)' = JobsOn(t, Today)'
  BY <1>0, <1>1 DEF CallsOn, JobsOn
<1>11. QED
  BY <1>0, <1>1, <1>2, <1>5, <1>7, <1>8, <1>9, <1>10 DEF MeterInv

\* The other handlers submit a job and do not meter it.
LEMMA MeterSubmit ==
  ASSUME ReqInv, ReqInv', MeterInv, AnswersStay, NEW q \in Sent, SubmitUnmetered(q)
  PROVE  MeterInv'
<1>1. /\ Sent' = Sent /\ Op[q] # "job" /\ pc[q] = "handle"
      /\ tenant' = tenant /\ callDay' = callDay /\ usage' = usage /\ day' = day /\ now' = now
      /\ jobDay' = [jobDay EXCEPT ![q] = Today]
  BY DEF SubmitUnmetered, Handling, rest, AnswersStay, Sent
<1>2. /\ Today \in Nat /\ Today' = Today /\ Never' = Never
      /\ jobDay \in [Sent -> Nat] /\ callDay \in [Sent -> Nat]
  BY <1>1, Days DEF Today, Never, MeterInv
<1>3. answer'[q] # 0
  BY DEF SubmitUnmetered, Answer, ReqInv
<1>4. ASSUME NEW k \in Sent
      PROVE  /\ jobDay'[k] # Never => answer'[k] # 0
             /\ Op[k] = "job" => jobDay'[k] = jobDay[k]
             /\ callDay[k] # Never => pc'[k] = "done"
  BY <1>1, <1>2, <1>3 DEF MeterInv, AnswersStay
<1>5. CallsOn(day)' = CallsOn(day) /\ \A t \in Tenant : JobsOn(t, day)' = JobsOn(t, day)
  BY <1>1, <1>4 DEF CallsOn, JobsOn
<1>6. jobDay' \in [Sent -> Nat]
  BY <1>1, <1>2
<1>7. QED
  BY <1>1, <1>2, <1>4, <1>5, <1>6 DEF MeterInv

\* withBillingMetrics meters a request that has been answered, for the default tenant.
LEMMA MeterCall ==
  ASSUME ReqInv, ReqInv', MeterInv, AnswersStay, NEW q \in Sent, withBillingMetrics(q)
  PROVE  MeterInv'
<1>0. /\ Sent' = Sent /\ Default \in Tenant /\ IsFiniteSet(Sent) /\ pc[q] = "meter"
      /\ tenant' = tenant /\ answer' = answer /\ jobDay' = jobDay /\ now' = now
      /\ pc' = [pc EXCEPT ![q] = "done"] /\ pc \in [Sent -> Early \cup Past \cup {"cut"}]
      /\ callDay' = [callDay EXCEPT ![q] = Today] /\ day' = Today
      /\ usage' = [Rotated(usage) EXCEPT ![Default]["api_calls"] = @ + 1]
  BY AccountsAssumption DEF withBillingMetrics, Record, Goto, reqVars, rest, ReqInv, AnswersStay, Sent
<1>1. /\ Today \in Nat /\ Today < Never /\ Never \in Nat /\ Today' = Today /\ Never' = Never
      /\ day \in 0..Today
  BY <1>0, Days DEF Today, Never, MeterInv
<1>2. jobDay \in [Sent -> Nat] /\ callDay \in [Sent -> Nat] /\ callDay[q] = Never
  BY <1>0 DEF MeterInv
<1>3. PICK u \in [Tenant -> [Metric -> Nat]] :
        /\ u = Rotated(usage)
        /\ \A t \in Tenant :
             /\ u[t]["jobs"] = Cardinality(JobsOn(t, Today))
             /\ u[t]["api_calls"] = IF t = Default THEN Cardinality(CallsOn(Today)) ELSE 0
  BY Metered
<1>4. usage' = [u EXCEPT ![Default]["api_calls"] = u[Default]["api_calls"] + 1]
  BY <1>0, <1>3
<1>5. usage' \in [Tenant -> [Metric -> Nat]]
  BY <1>0, <1>3, <1>4 DEF Metric
<1>6. pc'[q] = "done" /\ \A k \in Sent : pc[k] = "done" => pc'[k] = "done"
  BY <1>0
<1>7. \A k \in Sent : /\ jobDay'[k] # Never => answer'[k] # 0
                      /\ Op[k] = "job" /\ jobDay'[k] # Never => jobDay'[k] <= Today
                      /\ callDay'[k] # Never => callDay'[k] <= Today /\ pc'[k] = "done"
  BY <1>0, <1>1, <1>2, <1>6 DEF MeterInv
<1>8. CallsOn(Today)' = CallsOn(Today) \cup {q} /\ q \notin CallsOn(Today)
  BY <1>0, <1>1, <1>2 DEF CallsOn
<1>9. \A t \in Tenant : JobsOn(t, Today)' = JobsOn(t, Today)
  BY <1>0, <1>1 DEF JobsOn
<1>10. IsFiniteSet(CallsOn(Today))
  <2>1. CallsOn(Today) \subseteq Sent
    BY DEF CallsOn
  <2>2. QED
    BY <1>0, <2>1, FS_Subset
<1>11. Cardinality(CallsOn(Today)') = Cardinality(CallsOn(Today)) + 1
  BY <1>8, <1>10, OneMore
<1>12. ASSUME NEW t \in Tenant
       PROVE  /\ usage'[t]["jobs"] = Cardinality(JobsOn(t, Today)')
              /\ usage'[t]["api_calls"] = IF t = Default THEN Cardinality(CallsOn(Today)') ELSE 0
  <2>1. usage'[t]["jobs"] = u[t]["jobs"]
    BY <1>0, <1>3, <1>4 DEF Metric
  <2>2. usage'[t]["api_calls"] = IF t = Default THEN u[t]["api_calls"] + 1 ELSE u[t]["api_calls"]
    BY <1>0, <1>3, <1>4 DEF Metric
  <2>3. QED
    BY <1>3, <1>9, <1>11, <2>1, <2>2
<1>13. callDay' \in [Sent -> Nat]
  BY <1>0, <1>1, <1>2
<1>14. /\ CallsOn(day)' = CallsOn(Today)'
       /\ \A t \in Tenant : JobsOn(t, day)' = JobsOn(t, Today)'
  BY <1>0, <1>1 DEF CallsOn, JobsOn
<1>15. QED
  BY <1>0, <1>1, <1>2, <1>5, <1>7, <1>12, <1>13, <1>14 DEF MeterInv

\* Whoever asks for the usage rotates the counters of a past day.
LEMMA MeterRotates ==
  ASSUME ReqInv, ReqInv', MeterInv, AnswersStay, NEW q \in Sent, GetUsage(q)
  PROVE  MeterInv'
<1>0. /\ Sent' = Sent /\ tenant' = tenant /\ jobDay' = jobDay /\ callDay' = callDay /\ now' = now
      /\ usage' = Rotated(usage) /\ day' = Today
  BY DEF GetUsage, rest, AnswersStay, Sent
<1>1. /\ Today \in Nat /\ Today < Never /\ Never \in Nat /\ Today' = Today /\ Never' = Never
      /\ day \in 0..Today
  BY <1>0, Days DEF Today, Never, MeterInv
<1>2. \A k \in Sent : /\ jobDay'[k] # Never => answer'[k] # 0
                      /\ Op[k] = "job" /\ jobDay'[k] # Never => jobDay'[k] <= Today
                      /\ callDay'[k] # Never => callDay'[k] <= Today /\ pc'[k] = "done"
  BY <1>0, <1>1 DEF MeterInv, AnswersStay
<1>3. CallsOn(day)' = CallsOn(Today) /\ \A t \in Tenant : JobsOn(t, day)' = JobsOn(t, Today)
  BY <1>0, <1>1 DEF CallsOn, JobsOn
<1>4. QED
  BY <1>0, <1>1, <1>2, <1>3, Metered DEF MeterInv

\* What a request does to the meter.
LEMMA MeterStep ==
  ASSUME ReqInv, ReqInv', MeterInv, AnswersStay, NEW q \in Sent, StepOf(q)
  PROVE  MeterInv'
<1>0. now \in Nat
  BY AccountsAssumption DEF ReqInv, Time
<1>1. CASE UNCHANGED <<meterVars, now>>
  BY <1>0, <1>1, MeterFrame
<1>2. CASE PostJob(q) \/ SubmitUnmetered(q) \/ GetUsage(q) \/ withBillingMetrics(q)
  BY <1>2, MeterJob, MeterSubmit, MeterRotates, MeterCall
<1>3. CASE Arrive(q) \/ LimitTenant(q) \/ withDynAuth(q) \/ TouchGet(q) \/ TouchPut(q) \/ PatchMe(q)
             \/ PatchPlan(q) \/ SignupCheck(q) \/ SignupSave(q) \/ SignupKey(q) \/ PostKey(q)
  BY <1>1, <1>3 DEF Arrive, LimitTenant, withDynAuth, TouchGet, TouchPut, PatchMe, PatchPlan,
       ReadProfile, SaveProfile, SignupCheck, SignupSave, SignupKey, PostKey, rest
<1>4. CASE DeleteKey(q) \/ DeleteTenant(q) \/ WriteFails(q) \/ Get(q) \/ KvPut(q) \/ KvDelete(q)
             \/ withAudit(q)
  BY <1>1, <1>4 DEF DeleteKey, DeleteTenant, WriteFails, Get, KvPut, KvDelete, withAudit, rest
<1>5. QED
  BY <1>2, <1>3, <1>4 DEF StepOf

\* No counter survives a restart, and none is read for a day it is not of.
LEMMA NothingMetered ==
  ASSUME ReqInv, usage = NoUsage, day \in 0..Today,
         jobDay = [q \in Sent |-> Never], callDay = [q \in Sent |-> Never]
  PROVE  MeterInv
<1>1. Today \in Nat /\ Today < Never /\ Never \in Nat
  BY Days
<1>2. \A q \in Sent : jobDay[q] # day /\ callDay[q] # day
  BY <1>1
<1>3. CallsOn(day) = {} /\ \A t \in Tenant : JobsOn(t, day) = {}
  BY <1>2 DEF CallsOn, JobsOn
<1>4. Cardinality({}) = 0
  BY FS_EmptySet
<1>5. QED
  BY <1>1, <1>3, <1>4 DEF MeterInv, NoUsage, Metric

\* Pruning, time and restarts.
LEMMA MeterRest ==
  ASSUME ReqInv, ReqInv', MeterInv, AnswersStay, Prune \/ Tick \/ Restart \/ UNCHANGED vars
  PROVE  MeterInv'
<1>0. now \in Nat /\ now' \in Nat
  BY AccountsAssumption DEF ReqInv, Time
<1>1. CASE Prune \/ Tick \/ UNCHANGED vars
  <2>1. UNCHANGED meterVars /\ now <= now'
    BY <1>0, <1>1 DEF Prune, Tick, vars, meterVars, rest
  <2>2. QED
    BY <2>1, MeterFrame
<1>2. CASE Restart
  <2>1. /\ usage' = NoUsage /\ day' = Today /\ now' = now /\ Sent' = Sent
        /\ jobDay' = [q \in Sent |-> Never] /\ callDay' = [q \in Sent |-> Never]
    BY <1>2 DEF Restart, AnswersStay, Sent
  <2>2. Today' = Today /\ Today \in Nat /\ Today < Never /\ Never \in Nat
    BY <2>1, Days DEF Today
  <2>3. \A q \in Sent : jobDay'[q] # day' /\ callDay'[q] # day'
    BY <2>1, <2>2
  <2>4. CallsOn(day)' = {} /\ \A t \in Tenant : JobsOn(t, day)' = {}
    BY <2>1, <2>3 DEF CallsOn, JobsOn
  <2>5. Cardinality({}) = 0
    BY FS_EmptySet
  <2>6. NoUsage \in [Tenant -> [Metric -> Nat]]
        /\ \A t \in Tenant : NoUsage[t]["jobs"] = 0 /\ NoUsage[t]["api_calls"] = 0
    BY DEF NoUsage, Metric
  <2>7. usage' \in [Tenant -> [Metric -> Nat]] /\ day' \in 0..Today'
    BY <2>1, <2>2, <2>6
  <2>8. jobDay' \in [Sent' -> Nat] /\ callDay' \in [Sent' -> Nat]
    BY <2>1, <2>2
  <2>9. \A q \in Sent' : jobDay'[q] = Never /\ callDay'[q] = Never /\ Never' = Never
    BY <2>1 DEF Never
  <2>10. \A t \in Tenant : usage'[t]["jobs"] = 0 /\ usage'[t]["api_calls"] = 0
    BY <2>1, <2>6
  <2>11. QED
    BY <2>4, <2>5, <2>7, <2>8, <2>9, <2>10 DEF MeterInv
<1>3. QED
  BY <1>1, <1>2

-----------------------------------------------------------------------------
(* The audit log. *)

\* Whoever is in the log has passed withAudit; whoever has passed it is there once, or its
\* AuditRecord failed.
AuditInv ==
  /\ audit \in Seq([req : Sent, tenant : {Default}])
  /\ \A i, j \in DOMAIN audit : i # j => audit[i].req # audit[j].req
  /\ \A i \in DOMAIN audit : /\ pc[audit[i].req] \in {"meter", "done", "cut"}
                             /\ audit[i].req \notin unlogged
  /\ \A q \in Sent : Writes(q) /\ pc[q] \in {"meter", "done"} /\ answer[q] # 429 =>
       q \in unlogged \/ \E i \in DOMAIN audit : audit[i].req = q
  /\ \A q \in Sent : q \in unlogged => pc[q] \in {"meter", "done", "cut"}

\* A step of q before it is logged: it goes to withBillingMetrics past withAudit only if it
\* does not write, or was refused by a limiter.
Unlogged(q) ==
  /\ UNCHANGED <<audit, unlogged>>
  /\ \/ UNCHANGED <<pc, answer>>
     \/ \E at \in Early \cup Past :
          /\ pc[q] \in Early /\ at # "done" /\ pc' = [pc EXCEPT ![q] = at]
          /\ at = "meter" => ~Writes(q) \/ answer'[q] = 429

LEMMA LoggedLater ==
  ASSUME ReqInv, NEW q \in Sent, StepOf(q), ~withAudit(q), ~withBillingMetrics(q)
  PROVE  Unlogged(q)
<1>1. ASSUME pc[q] \in Early, NEW s, Answer(q, s), UNCHANGED <<audit, unlogged>> PROVE Unlogged(q)
  <2>1. PICK at \in {"audit", "meter"} :
          pc' = [pc EXCEPT ![q] = at] /\ (at = "meter" => ~Writes(q))
    BY <1>1 DEF Answer, Goto
  <2>2. at \in Past /\ at # "done"
    BY DEF Past
  <2>3. QED
    BY <1>1, <2>1, <2>2 DEF Unlogged
<1>2. ASSUME pc[q] \in Early, NEW at \in Early, Goto(q, at),
             UNCHANGED <<audit, unlogged>> PROVE Unlogged(q)
  <2>1. at # "done" /\ at # "meter"
    BY DEF Early
  <2>2. QED
    BY <1>2, <2>1 DEF Unlogged, Goto
<1>3. ASSUME pc[q] \in Early, answer' = [answer EXCEPT ![q] = 429], Goto(q, "meter"),
             UNCHANGED <<audit, unlogged>>
      PROVE  Unlogged(q)
  <2>1. answer'[q] = 429
    BY <1>3 DEF ReqInv
  <2>2. "meter" \in Past
    BY DEF Past
  <2>3. QED
    BY <1>3, <2>1, <2>2 DEF Unlogged, Goto
<1>4. CASE Arrive(q) \/ LimitTenant(q)
  <2>1. pc[q] \in Early /\ UNCHANGED <<audit, unlogged>>
    BY <1>4 DEF Arrive, LimitTenant, Early
  <2>2. "limit" \in Early /\ "auth" \in Early
    BY DEF Early
  <2>3. \/ Goto(q, "limit") \/ Goto(q, "auth")
        \/ answer' = [answer EXCEPT ![q] = 429] /\ Goto(q, "meter")
    BY <1>4 DEF Arrive, LimitTenant
  <2>4. QED
    BY <1>2, <1>3, <2>1, <2>2, <2>3
<1>5. CASE withDynAuth(q) \/ SignupCheck(q) \/ PatchMe(q) \/ PatchPlan(q) \/ SignupSave(q)
  <2>1. pc[q] \in Early /\ UNCHANGED <<audit, unlogged>>
    BY <1>5 DEF withDynAuth, SignupCheck, PatchMe, PatchPlan, SignupSave, ReadProfile, SaveProfile,
         Handling, Early
  <2>2. "handle" \in Early /\ "save" \in Early /\ "key" \in Early
    BY DEF Early
  <2>3. \/ Goto(q, "handle") \/ Goto(q, "save") \/ Goto(q, "key")
        \/ \E s \in {200, 401, 409} : Answer(q, s)
    BY <1>5 DEF withDynAuth, SignupCheck, PatchMe, PatchPlan, SignupSave, ReadProfile, AfterSave
  <2>4. QED
    BY <1>1, <1>2, <2>1, <2>2, <2>3
<1>6. CASE TouchGet(q) \/ TouchPut(q)
  BY <1>6 DEF TouchGet, TouchPut, reqVars, Unlogged
<1>7. CASE SignupKey(q) \/ PostKey(q) \/ DeleteKey(q) \/ DeleteTenant(q) \/ WriteFails(q)
             \/ PostJob(q) \/ SubmitUnmetered(q) \/ GetUsage(q) \/ Get(q) \/ KvPut(q)
  <2>1. pc[q] \in Early /\ UNCHANGED <<audit, unlogged>>
    BY <1>7 DEF SignupKey, PostKey, DeleteKey, DeleteTenant, WriteFails, PostJob,
         SubmitUnmetered, GetUsage, Get,
         KvPut, Handling, Early
  <2>2. \E s \in {200, 201, 204, 500} : Answer(q, s)
    BY <1>7 DEF SignupKey, PostKey, DeleteKey, DeleteTenant, WriteFails, PostJob,
         SubmitUnmetered, GetUsage, Get,
         KvPut, GenerateKey
  <2>3. QED
    BY <1>1, <2>1, <2>2
<1>8. CASE KvDelete(q)
  <2>1. pc[q] \in Early /\ UNCHANGED <<audit, unlogged>>
    BY <1>8 DEF KvDelete, Handling, Early
  <2>2. Answer(q, IF kv[tenant[q]][Arg[q].item] = None THEN 404 ELSE 204)
    BY <1>8 DEF KvDelete
  <2>3. QED
    BY <1>1, <2>1, <2>2
<1>9. QED
  BY <1>4, <1>5, <1>6, <1>7, <1>8 DEF StepOf

\* An entry of the log names a request of the default tenant.
LEMMA Entries ==
  ASSUME AuditInv, NEW i \in DOMAIN audit
  PROVE  audit[i].req \in Sent /\ audit[i].tenant = Default
<1>1. PICK E : E = [req : Sent, tenant : {Default}]
  OBVIOUS
<1>2. audit \in Seq(E)
  BY <1>1 DEF AuditInv
<1>3. audit[i] \in E
  BY <1>2, ElementOfSeq
<1>4. QED
  BY <1>1, <1>3

\* Steps that leave the log alone and take nobody past withAudit or back.
LEMMA AuditFrame ==
  ASSUME AuditInv, Sent' = Sent, UNCHANGED <<audit, unlogged, answer>>,
         \A k \in Sent :
           /\ pc'[k] \in {"meter", "done"} => pc[k] \in {"meter", "done"}
           /\ pc[k] \in {"meter", "done", "cut"} => pc'[k] \in {"meter", "done", "cut"}
  PROVE  AuditInv'
<1>1. ASSUME NEW i \in DOMAIN audit
      PROVE  pc'[audit[i].req] \in {"meter", "done", "cut"} /\ audit[i].req \notin unlogged
  <2>1. audit[i].req \in Sent
    BY Entries
  <2>2. QED
    BY <2>1 DEF AuditInv
<1>2. ASSUME NEW q \in Sent
      PROVE  /\ Writes(q) /\ pc'[q] \in {"meter", "done"} /\ answer'[q] # 429 =>
                  q \in unlogged \/ \E i \in DOMAIN audit : audit[i].req = q
             /\ q \in unlogged => pc'[q] \in {"meter", "done", "cut"}
  BY DEF AuditInv
<1>3. QED
  BY <1>1, <1>2 DEF AuditInv, Writes

LEMMA AuditStep ==
  ASSUME ReqInv, ReqInv', AuditInv, AnswersStay, NEW q \in Sent, StepOf(q)
  PROVE  AuditInv'
<1>1. /\ Sent' = Sent /\ pc \in [Sent -> Early \cup Past \cup {"cut"}]
      /\ \A k \in Sent : pc[k] \in Past => answer[k] # 0
  BY DEF AnswersStay, Sent, ReqInv
<1>2. ASSUME NEW k \in Sent, pc[k] \in {"meter", "done"} PROVE answer'[k] = answer[k]
  BY <1>1, <1>2 DEF AnswersStay, Past
<1>3. CASE Unlogged(q)
  <2>1. ASSUME NEW k \in Sent, pc[k] \in {"meter", "done", "cut"} PROVE pc'[k] = pc[k]
    BY <1>1, <1>3, <2>1 DEF Unlogged, Early
  <2>2. ASSUME NEW k \in Sent, Writes(k), pc'[k] \in {"meter", "done"}, answer'[k] # 429
        PROVE  k \in unlogged' \/ \E i \in DOMAIN audit' : audit'[i].req = k
    <3>1. pc[k] = pc'[k]
      BY <1>1, <1>3, <2>2 DEF Unlogged
    <3>2. answer[k] = answer'[k]
      BY <1>2, <2>2, <3>1
    <3>3. audit' = audit /\ unlogged' = unlogged
      BY <1>3 DEF Unlogged
    <3>4. QED
      BY <2>2, <3>1, <3>2, <3>3 DEF AuditInv
  <2>3. /\ audit' \in Seq([req : Sent', tenant : {Default}])
        /\ \A i, j \in DOMAIN audit' : i # j => audit'[i].req # audit'[j].req
    BY <1>1, <1>3 DEF Unlogged, AuditInv
  <2>4. ASSUME NEW i \in DOMAIN audit'
        PROVE  pc'[audit'[i].req] \in {"meter", "done", "cut"} /\ audit'[i].req \notin unlogged'
    <3>1. audit' = audit /\ unlogged' = unlogged
      BY <1>3 DEF Unlogged
    <3>2. audit[i].req \in Sent
      BY <3>1, Entries
    <3>3. pc[audit[i].req] \in {"meter", "done", "cut"} /\ audit[i].req \notin unlogged
      BY <3>1, <3>2 DEF AuditInv
    <3>4. QED
      BY <2>1, <3>1, <3>2, <3>3
  <2>5. \A k \in Sent : k \in unlogged' => pc'[k] \in {"meter", "done", "cut"}
    BY <1>3, <2>1 DEF Unlogged, AuditInv
  <2>6. QED
    BY <1>1, <2>2, <2>3, <2>4, <2>5 DEF AuditInv, Writes
<1>4. CASE withAudit(q)
  <2>1. /\ pc[q] = "audit" /\ pc' = [pc EXCEPT ![q] = "meter"] /\ answer' = answer
    BY <1>4 DEF withAudit, Goto, reqVars
  <2>2. ASSUME NEW i \in DOMAIN audit
        PROVE  /\ audit[i].req \in Sent /\ audit[i].req # q
               /\ pc'[audit[i].req] \in {"meter", "done", "cut"} /\ audit[i].req \notin unlogged
    <3>1. audit[i].req \in Sent
      BY Entries
    <3>2. pc[audit[i].req] \in {"meter", "done", "cut"} /\ audit[i].req \notin unlogged
      BY DEF AuditInv
    <3>3. audit[i].req # q
      BY <2>1, <3>2
    <3>4. QED
      BY <1>1, <2>1, <3>1, <3>2, <3>3
  <2>3. q \notin unlogged /\ \A k \in Sent : k \in unlogged => pc'[k] \in {"meter", "done", "cut"}
    BY <1>1, <2>1 DEF AuditInv
  <2>4. ASSUME NEW k \in Sent, k # q, Writes(k), pc'[k] \in {"meter", "done"}, answer'[k] # 429
        PROVE  k \in unlogged \/ \E i \in DOMAIN audit : audit[i].req = k
    BY <1>1, <2>1, <2>4 DEF AuditInv
  <2>5. CASE audit' = audit \o Entry(q) /\ UNCHANGED unlogged
    <3>1. PICK e : e = [req |-> q, tenant |-> Default] /\ audit' = audit \o <<e>>
      BY <2>5 DEF Entry
    <3>2. PICK E : E = [req : Sent, tenant : {Default}]
      OBVIOUS
    <3>3. e \in E /\ audit \in Seq(E) /\ e.req = q
      BY <3>1, <3>2 DEF AuditInv
    <3>4. /\ audit' \in Seq(E) /\ DOMAIN audit' = DOMAIN audit \cup {Len(audit) + 1}
          /\ \A i \in DOMAIN audit : audit'[i] = audit[i] /\ i # Len(audit) + 1
          /\ audit'[Len(audit) + 1] = e
      BY <3>1, <3>3
    <3>5. ASSUME NEW i \in DOMAIN audit', NEW j \in DOMAIN audit', i # j
          PROVE  audit'[i].req # audit'[j].req
      <4>1. CASE i \in DOMAIN audit /\ j \in DOMAIN audit
        BY <3>4, <3>5, <4>1 DEF AuditInv
      <4>2. CASE i \in DOMAIN audit /\ j = Len(audit) + 1
        BY <2>2, <3>3, <3>4, <4>2
      <4>3. CASE j \in DOMAIN audit /\ i = Len(audit) + 1
        BY <2>2, <3>3, <3>4, <4>3
      <4>4. QED
        BY <3>4, <3>5, <4>1, <4>2, <4>3
    <3>6. ASSUME NEW i \in DOMAIN audit'
          PROVE  pc'[audit'[i].req] \in {"meter", "done", "cut"} /\ audit'[i].req \notin unlogged'
      <4>1. CASE i = Len(audit) + 1
        BY <1>1, <2>1, <2>3, <2>5, <3>3, <3>4, <4>1
      <4>2. CASE i \in DOMAIN audit
        BY <2>2, <2>5, <3>4, <4>2
      <4>3. QED
        BY <3>4, <4>1, <4>2
    <3>7. ASSUME NEW k \in Sent, Writes(k), pc'[k] \in {"meter", "done"}, answer'[k] # 429
          PROVE  k \in unlogged' \/ \E i \in DOMAIN audit' : audit'[i].req = k
      <4>1. CASE k = q
        BY <3>3, <3>4, <4>1
      <4>2. CASE k # q
        BY <2>4, <2>5, <3>4, <3>7, <4>2
      <4>3. QED
        BY <4>1, <4>2
    <3>8. QED
      BY <1>1, <2>3, <2>5, <3>2, <3>4, <3>5, <3>6, <3>7 DEF AuditInv, Writes
  <2>6. CASE unlogged' = unlogged \cup {q} /\ UNCHANGED audit
    <3>1. /\ audit' \in Seq([req : Sent, tenant : {Default}])
          /\ \A i, j \in DOMAIN audit' : i # j => audit'[i].req # audit'[j].req
      BY <2>6 DEF AuditInv
    <3>2. \A i \in DOMAIN audit' : /\ pc'[audit'[i].req] \in {"meter", "done", "cut"}
                                   /\ audit'[i].req \notin unlogged'
      BY <2>2, <2>6
    <3>3. ASSUME NEW k \in Sent, Writes(k), pc'[k] \in {"meter", "done"}, answer'[k] # 429
          PROVE  k \in unlogged' \/ \E i \in DOMAIN audit' : audit'[i].req = k
      BY <2>4, <2>6, <3>3
    <3>4. \A k \in Sent : k \in unlogged' => pc'[k] \in {"meter", "done", "cut"}
      BY <1>1, <2>1, <2>3, <2>6
    <3>5. QED
      BY <1>1, <3>1, <3>2, <3>3, <3>4 DEF AuditInv, Writes
  <2>7. QED
    BY <1>4, <2>5, <2>6 DEF withAudit
<1>5. CASE withBillingMetrics(q)
  <2>1. /\ pc[q] = "meter" /\ pc' = [pc EXCEPT ![q] = "done"]
        /\ UNCHANGED <<answer, audit, unlogged>>
    BY <1>5 DEF withBillingMetrics, Goto, reqVars
  <2>2. ASSUME NEW k \in Sent
        PROVE  /\ pc'[k] \in {"meter", "done"} => pc[k] \in {"meter", "done"}
               /\ pc[k] \in {"meter", "done", "cut"} => pc'[k] \in {"meter", "done", "cut"}
    BY <1>1, <2>1
  <2>3. QED
    BY <1>1, <2>1, <2>2, AuditFrame
<1>6. QED
  BY <1>3, <1>4, <1>5, LoggedLater

\* Pruning, time and restarts.
LEMMA AuditRest ==
  ASSUME ReqInv, AuditInv, AnswersStay, Prune \/ Tick \/ Restart \/ UNCHANGED vars
  PROVE  AuditInv'
<1>1. /\ Sent' = Sent /\ audit' = audit /\ answer' = answer /\ unlogged' = unlogged
  BY DEF AnswersStay, Sent, Prune, Tick, Restart, reqVars, vars
<1>2. \/ pc' = pc
      \/ pc' = [q \in Sent |-> IF pc[q] \in {"idle", "done"} THEN pc[q] ELSE "cut"]
  BY DEF Prune, Tick, Restart, vars
<1>3. ASSUME NEW k \in Sent
      PROVE  /\ pc'[k] \in {"meter", "done"} => pc[k] \in {"meter", "done"}
             /\ pc[k] \in {"meter", "done", "cut"} => pc'[k] \in {"meter", "done", "cut"}
  BY <1>2
<1>4. QED
  BY <1>1, <1>3, AuditFrame

-----------------------------------------------------------------------------
(* The invariant of the specification. *)

AccountsInv == ReqInv /\ KeyInv /\ ProfInv /\ RateInv /\ KvInv /\ MeterInv /\ AuditInv

\* At the start no request has done anything.
LEMMA InitInv ==
  ASSUME Init
  PROVE  AccountsInv
<1>1. ReqInv
  BY AccountsAssumption, RequestAssumption DEF Init, ReqInv, Sent, Early, Past, Time
<1>2. KeyInv
  BY DEF Init, KeyInv, RevokedStaysRevoked, IssuedKeyWorks
<1>3. ProfInv
  BY DEF Init, ProfInv, ProfileLostOnlyByOverlap, HasSource
<1>4. Today \in Nat /\ now = 0 /\ MaxTime \in Nat /\ Burst \in Nat /\ Rate \in Nat
  BY <1>1, Days, AccountsAssumption DEF Init
<1>5. RateInv
  <2>1. LimiterInv
    BY <1>4 DEF Init, LimiterInv, Never
  <2>2. ASSUME NEW c \in Client, NEW s \in 0..now
        PROVE  Cardinality(Passed(c, s)) + Tokens(c) <= Burst + Rate * (now - s)
    <3>1. s = 0 /\ now - s = 0 /\ Rate * 0 = 0
      <4>1. s \in 0..0
        BY <1>4
      <4>2. s = 0 /\ 0 - 0 = 0
        BY <4>1
      <4>3. Rate * 0 = 0
        BY <1>4
      <4>4. QED
        BY <1>4, <4>2, <4>3
    <3>2. Passed(c, s) = {}
      BY <1>4, <3>1 DEF Init, Passed, Never
    <3>3. Cardinality(Passed(c, s)) = 0
      BY <3>2, FS_EmptySet
    <3>4. Tokens(c) = Burst
      BY DEF Init, Tokens
    <3>5. QED
      BY <1>4, <3>1, <3>3, <3>4
  <2>3. QED
    BY <2>1, <2>2 DEF RateInv
<1>6. KvInv
  BY DEF Init, KvInv, NoItems
<1>7. MeterInv
  <2>1. usage = NoUsage /\ day \in 0..Today
    BY <1>4 DEF Init
  <2>2. jobDay = [q \in Sent |-> Never] /\ callDay = [q \in Sent |-> Never]
    BY DEF Init
  <2>3. QED
    BY <1>1, <2>1, <2>2, NothingMetered
<1>8. AuditInv
  BY <1>1 DEF Init, AuditInv, ReqInv
<1>9. QED
  BY <1>1, <1>2, <1>3, <1>5, <1>6, <1>7, <1>8 DEF AccountsInv

\* Every step keeps it.
LEMMA NextInv ==
  ASSUME AccountsInv, [Next]_vars
  PROVE  AccountsInv'
<1>1. ASSUME NEW q \in Sent, StepOf(q)
      PROVE  AccountsInv'
  <2>1. ReqInv /\ KeyInv /\ ProfInv /\ RateInv /\ KvInv /\ MeterInv /\ AuditInv
    BY DEF AccountsInv
  <2>2. ReqInv' /\ AnswersStay
    BY <1>1, <2>1, ReqStep
  <2>3. KeyInv' /\ ProfInv' /\ RateInv' /\ KvInv' /\ MeterInv' /\ AuditInv'
    BY <1>1, <2>1, <2>2, KeyStep, ProfStep, RateStep, KvStep, MeterStep,
       AuditStep
  <2>4. QED
    BY <2>2, <2>3 DEF AccountsInv
<1>2. CASE Prune \/ Tick \/ Restart \/ UNCHANGED vars
  <2>1. ReqInv /\ KeyInv /\ ProfInv /\ RateInv /\ KvInv /\ MeterInv /\ AuditInv
    BY DEF AccountsInv
  <2>2. ReqInv' /\ AnswersStay
    BY <1>2, <2>1, ReqRest
  <2>3. KeyInv' /\ ProfInv' /\ RateInv' /\ KvInv' /\ MeterInv' /\ AuditInv'
    BY <1>2, <2>1, <2>2, KeyRest, ProfRest, RateRest, KvRest, MeterRest,
       AuditRest
  <2>4. QED
    BY <2>2, <2>3 DEF AccountsInv
<1>3. (\E q \in Sent : StepOf(q)) \/ Prune \/ Tick \/ Restart \/ UNCHANGED vars
  BY DEF Next, StepOf
<1>4. QED
  BY <1>1, <1>2, <1>3

\* It holds in every state.
LEMMA Invariance == Spec => []AccountsInv
<1>1. Init => AccountsInv
  BY InitInv
<1>2. AccountsInv /\ [Next]_vars => AccountsInv'
  BY NextInv
<1>3. QED
  BY <1>1, <1>2, PTL DEF Spec

-----------------------------------------------------------------------------
(* What it says of the properties. *)

\* Sub-keys: nobody is told of a registration that gave nobody a key.
LEMMA KeysFacts ==
  ASSUME AccountsInv
  PROVE  KeysAreExact
<1>1. RevokedStaysRevoked /\ IssuedKeyWorks
  BY DEF AccountsInv, KeyInv
<1>2. ASSUME NEW q \in Sent, Op[q] = "signup", answer[q] = 409
      PROVE  \/ Target[q] \in halfway
             \/ \E k \in Sent : /\ Op[k] = "signup" /\ Target[k] = Target[q] /\ k # q
                               /\ (answer[k] = 201 \/ pc[k] = "key")
             \/ \E k \in Sent : /\ Op[k] \in {"rename", "plan"} /\ answer[k] = 200
                               /\ Target[q] \in {tenant[k], Target[k]}
  <2>1. HasSource(Target[q])
    BY <1>2 DEF AccountsInv, ProfInv
  <2>2. \A k \in Sent : answer[k] = 201 \/ pc[k] = "key" => k # q
    BY <1>2 DEF AccountsInv, ReqInv, Early
  <2>3. QED
    BY <2>1, <2>2 DEF HasSource
<1>3. SignupGivesKey
  BY <1>2 DEF SignupGivesKey
<1>4. QED
  BY <1>1, <1>3 DEF KeysAreExact

\* Profiles, and the types of the variables.
LEMMA ProfilesFacts ==
  ASSUME AccountsInv
  PROVE  ProfilesAreExact
<1>1. ReqInv /\ KeyInv /\ ProfInv /\ LimiterInv /\ MeterInv
  BY DEF AccountsInv, RateInv
<1>2. pc \in [Sent -> {"idle", "limit", "auth", "handle", "save", "key", "audit",
                         "meter", "done", "cut"}]
  <2>1. Early \cup Past \cup {"cut"} = {"idle", "limit", "auth", "handle", "save", "key", "audit",
                         "meter", "done", "cut"}
    BY DEF Early, Past
  <2>2. QED
    BY <1>1, <2>1 DEF ReqInv
<1>3. \A q \in Sent : pc[q] \in {"audit", "done"} => answer[q] # 0
  BY <1>1 DEF ReqInv, Past
<1>4. ASSUME NEW c \in Client, clients[c] # None
      PROVE  clients[c].lim.tokens \in 0..Burst /\ clients[c].seen \in 0..now
  <2>1. PICK x \in clientLimiter : x = clients[c]
    BY <1>1, <1>4 DEF LimiterInv
  <2>2. x.lim \in Limiter /\ x.seen \in Nat /\ x.lim.tokens \in Nat
    BY AccountsAssumption DEF clientLimiter, Limiter, Time
  <2>3. x.lim.tokens <= Burst /\ x.seen <= now
    BY <1>1, <1>4, <2>1 DEF LimiterInv
  <2>4. Burst \in Nat /\ now \in Nat
    BY <1>1, AccountsAssumption DEF ReqInv, Time
  <2>5. QED
    BY <2>1, <2>2, <2>3, <2>4
<1>5. TypeOK
  BY <1>1, <1>2, <1>3, <1>4 DEF TypeOK, ReqInv, KeyInv, ProfInv, MeterInv
<1>6. QED
  BY <1>1, <1>5 DEF ProfilesAreExact, ProfInv

\* Addresses: what has passed and what is left of the limiter is at most what it gave.
LEMMA RateFacts ==
  ASSUME AccountsInv
  PROVE  RateBounded
<1>1. ASSUME NEW c \in Client, NEW s \in 0..now
      PROVE  Cardinality(Passed(c, s)) <= Burst + Rate * (now - s)
  <2>1. Cardinality(Passed(c, s)) + Tokens(c) <= Burst + Rate * (now - s)
    BY DEF AccountsInv, RateInv
  <2>2. Cardinality(Passed(c, s)) \in Nat /\ Tokens(c) \in Nat
    BY PassedFacts, TokensFacts DEF AccountsInv, RateInv
  <2>3. now \in Nat /\ Rate \in Nat /\ Burst \in Nat
    BY AccountsAssumption DEF AccountsInv, ReqInv, Time
  <2>4. PICK d \in Nat : d = now - s
    BY <2>3, Span
  <2>5. PICK m \in Nat : m = Rate * d
    BY <2>3
  <2>6. QED
    BY <2>1, <2>2, <2>3, <2>4, <2>5
<1>2. QED
  BY <1>1 DEF RateBounded, Passed

\* The meter: the counters of a past day are not shown.
LEMMA MeterFacts ==
  ASSUME AccountsInv
  PROVE  MeteredOnce
BY Metered DEF AccountsInv, MeteredOnce, Usage, JobsOn, CallsOn

\* The audit log: whatever is in it is the default tenant's, so that the entries that are
\* newer than the i-th are all those after it.
LEMMA AuditFacts ==
  ASSUME AccountsInv
  PROVE  AuditedOnce
<1>1. AuditInv
  BY DEF AccountsInv
<1>2. PICK N \in Nat : N = Len(audit) /\ DOMAIN audit = 1..N
  BY <1>1 DEF AuditInv
<1>3. ASSUME NEW q \in Sent, Writes(q), pc[q] = "done", answer[q] # 429
      PROVE  Cardinality({i \in DOMAIN audit : audit[i].req = q}) =
               IF q \in unlogged THEN 0 ELSE 1
  <2>0. CASE q \in unlogged
    <3>1. {i \in DOMAIN audit : audit[i].req = q} = {}
      BY <1>1, <2>0 DEF AuditInv
    <3>2. QED
      BY <2>0, <3>1, FS_EmptySet
  <2>. SUFFICES ASSUME q \notin unlogged
                PROVE  Cardinality({i \in DOMAIN audit : audit[i].req = q}) = 1
    BY <2>0
  <2>1. PICK i \in DOMAIN audit : audit[i].req = q
    BY <1>1, <1>3 DEF AuditInv
  <2>2. {j \in DOMAIN audit : audit[j].req = q} = {i}
    BY <1>1, <2>1 DEF AuditInv
  <2>3. QED
    BY <2>2, FS_Singleton
<1>4. ASSUME NEW n \in 1..Len(audit), NEW k \in 1..n
      PROVE  AuditList(Default, n)[k].req = audit[Len(audit) + 1 - k].req
  <2>1. DEFINE own == {i \in DOMAIN audit : Default = None \/ audit[i].tenant = Default}
               newer(i) == Cardinality({j \in own : j > i})
  <2>2. own = 1..N
    <3>1. \A i \in DOMAIN audit : audit[i].tenant = Default
      BY <1>1, Entries
    <3>2. QED
      BY <1>2, <3>1
  <2>3. Cardinality(own) = N
    <3>1. 1 \in Int /\ N \in Int
      BY <1>2
    <3>2. Cardinality(1..N) = IF 1 > N THEN 0 ELSE N - 1 + 1
      BY <3>1, FS_Interval
    <3>3. Cardinality(1..N) = N
      BY <1>2, <3>2
    <3>4. QED
      BY <2>2, <3>3
  <2>4. ASSUME NEW i \in 1..N PROVE newer(i) = N - i
    <3>1. {j \in own : j > i} = i + 1..N
      BY <1>2, <2>2
    <3>2. i + 1 \in Int /\ N \in Int
      BY <1>2
    <3>3. Cardinality(i + 1..N) = IF i + 1 > N THEN 0 ELSE N - (i + 1) + 1
      BY <3>2, FS_Interval
    <3>4. Cardinality(i + 1..N) = N - i
      BY <1>2, <3>3
    <3>5. QED
      BY <3>1, <3>4
  <2>5. n \in 1..N /\ k \in 1..n
    BY <1>2
  <2>6. \A i \in own : newer(i) = k - 1 <=> i = N + 1 - k
    <3>1. ASSUME NEW i \in 1..N PROVE newer(i) = k - 1 <=> i = N + 1 - k
      <4>1. newer(i) = N - i
        BY <2>4
      <4> HIDE DEF newer
      <4>2. QED
        BY <1>2, <2>5, <4>1
    <3>2. QED
      BY <2>2, <3>1
  <2>7. N + 1 - k \in own
    BY <1>2, <2>2, <2>5
  <2>8. (CHOOSE i \in own : newer(i) = k - 1) = N + 1 - k
    <3> HIDE DEF own, newer
    <3>1. QED
      BY <2>6, <2>7
  <2>9. AuditList(Default, n) = [m \in 1..n |-> audit[CHOOSE i \in own : newer(i) = m - 1]]
    <3>1. (IF Cardinality(own) < n THEN Cardinality(own) ELSE n) = n
      <4>1. (IF N < n THEN N ELSE n) = n
        <5>1. N \in Nat /\ n \in Nat /\ n <= N
          BY <1>2, <2>5
        <5>2. QED
          BY <5>1
      <4>2. QED
        BY <2>3, <4>1
    <3>2. QED
      BY <3>1 DEF AuditList
  <2>10. AuditList(Default, n)[k] = audit[N + 1 - k]
    <3> HIDE DEF own, newer
    <3>1. QED
      BY <2>5, <2>8, <2>9
  <2>11. QED
    BY <1>2, <2>10
<1>5. \A i, j \in DOMAIN audit : i # j => audit[i].req # audit[j].req
  BY <1>1 DEF AuditInv
<1>6. QED
  BY <1>3, <1>4, <1>5 DEF AuditedOnce

\* The key-value store: what has been pruned could not be read any more.
LEMMA KvFacts ==
  ASSUME AccountsInv
  PROVE  PruneInvisible
<1>1. KvInv /\ now \in Nat /\ None \notin Nat
  BY AccountsAssumption DEF AccountsInv, ReqInv, Time
<1>2. ASSUME NEW t \in Tenant, NEW i \in Item
      PROVE  KvGet(t, i) = IF put[t][i] = None THEN None
                           ELSE IF Over(put[t][i]) THEN None ELSE put[t][i]
  BY <1>1 DEF KvInv, KvGet
<1>3. ASSUME NEW t \in Tenant, NEW i \in Item
      PROVE  (kv[t][i] # None /\ (kv[t][i].expires = None \/ now < kv[t][i].expires))
                <=> (KvGet(t, i) # None /\ kv[t][i].expires # now)
  <2>1. CASE kv[t][i] = None
    BY <2>1 DEF KvGet
  <2>2. CASE kv[t][i] # None
    <3>1. PICK e \in Value : e = kv[t][i]
      BY <1>1, <2>2 DEF KvInv
    <3>2. PICK x \in Nat \cup {None} : x = e.expires
      BY DEF Value
    <3>3. (x = None \/ now < x) <=> (~(x # None /\ now > x) /\ x # now)
      BY <1>1
    <3>4. KvGet(t, i) # None <=> ~(x # None /\ now > x)
      BY <2>2, <3>1, <3>2 DEF KvGet, Over
    <3>5. QED
      BY <2>2, <3>1, <3>2, <3>3, <3>4
  <2>3. QED
    BY <2>1, <2>2
<1>4. {x \in Tenant \X Item : /\ kv[x[1]][x[2]] # None
                              /\ (kv[x[1]][x[2]].expires = None \/ now < kv[x[1]][x[2]].expires)}
        = {x \in {y \in Tenant \X Item : KvGet(y[1], y[2]) # None} : kv[x[1]][x[2]].expires # now}
  BY <1>3
<1>5. QED
  BY <1>2, <1>4 DEF PruneInvisible, Count

-----------------------------------------------------------------------------
(* Theorems *)

\* Sub-keys (pkg/billing: GenerateKey, DeleteKey, TouchKey; /auth/signup): an issued key is
\* stored until it is deleted, a deleted one is only ever back through a TouchKey that had
\* read it before, and a signup that is not cut short gives a key.
THEOREM KeysStayExact == Spec => []KeysAreExact
BY Invariance, KeysFacts, PTL

\* Profiles (GetProfile and SaveProfile are two transactions): a profile is what the answered
\* requests made of it one after the other, unless two requests on it overlapped.
THEOREM ProfilesStayExact == Spec => []ProfilesAreExact
BY Invariance, ProfilesFacts, PTL

\* ipLimiter: no address passes more than Burst and what is refilled meanwhile, in any
\* interval, although limiters are dropped and made anew.
THEOREM AddressesStayBounded == Spec => []RateBounded
BY Invariance, RateFacts, PTL

\* Record and rotateDayIfNeededLocked: every request is metered once, on its day.  withAudit
\* and AuditList: every answered write that passed the limiters is in the log exactly once,
\* across restarts, and the latest entries are listed first.
THEOREM RequestsAreRecordedOnce == Spec => []RecordedOnce
<1>1. AccountsInv => RecordedOnce
  BY MeterFacts, AuditFacts DEF RecordedOnce
<1>2. QED
  BY <1>1, Invariance, PTL

\* pkg/kv: a tenant cannot tell whether an expired entry has been pruned.
THEOREM PruningIsInvisible == Spec => []PruneInvisible
BY Invariance, KvFacts, PTL
=============================================================================
