------------------------------ MODULE Dispatch ------------------------------
(***************************************************************************)
(* Choosing an agent: the circuit breakers of pkg/circuit/circuit.go, the  *)
(* agent groups of pkg/agentgroup/agentgroup.go and the handlers /circuit* *)
(* and /agent-groups*.                                                     *)
(*                                                                         *)
(* GET /agent-groups/{id}/next copies the members under the read lock,     *)
(* takes the next round-robin number with an atomic add, and asks the      *)
(* breaker of one candidate after the other; nothing is held in between.   *)
(* A client that got an agent reports the outcome at any later time, more  *)
(* than once or never: reports are not tied to calls.                      *)
(*                                                                         *)
(* The groups are those of one tenant; a request of another one is         *)
(* answered "not found" and changes nothing.  A failed save of a group is  *)
(* logged, and the request is answered like any other.  Reading one member *)
(* of an array that is written at the same time is one step here: only a   *)
(* removal writes another agent over a member.  The clock is the age of an *)
(* open breaker, up to ResetTimeout; failures are counted while the        *)
(* breaker is closed only (it never closes without setting them to 0), and *)
(* round-robin numbers modulo Period, a multiple of every total weight up  *)
(* to MaxWeight (the code uses a number modulo the total weight only).     *)
(***************************************************************************)
EXTENDS Positions

CONSTANTS
  Agent, Name,
  Weight,        \* Weight[a]: weights clients ask for for a, 0 included
  Reported,      \* agents whose outcomes clients report
  Caller,        \* concurrent requests for the next member
  NoGroup, NoCall, NoRead,
  Flaky,         \* whether writes of the tenant may fail
  Deletable,     \* whether an administrator may delete the tenant
  CircuitThreshold,  \* CIRCUIT_THRESHOLD
  ResetTimeout,  \* CIRCUIT_RESET_TIMEOUT_SEC
  MaxWeight,     \* bound on the total weight of a group
  Period,        \* round-robin numbers are counted modulo Period
  MaxGroup,      \* bound on group ids
  MaxEdit,       \* bound on changes of groups
  MaxCrash       \* bound on restarts

GroupId == 1..MaxGroup

Member == [agent : Agent, weight : Nat \ {0}]

\* capacity is that of the array behind the slice Members.
Group == [name : Name, members : Seq(Member), capacity : Nat]

\* age: time since OpenedAt, while the breaker is open.
Breaker == [state : {"closed", "open", "half_open"}, failures : 0..CircuitThreshold - 1,
            age : 0..ResetTimeout]

\* One call of Next: the copied members, the slot to try and how many are left.
Call == [group : GroupId, members : Seq(Member), at : {"index", "try"},
         slot : Nat, left : Nat]

ASSUME DispatchAssumption ==
  /\ Weight \in [Agent -> SUBSET Nat]
  /\ NoGroup \notin Group /\ NoCall \notin Call
  /\ CircuitThreshold \in Nat \ {0} /\ ResetTimeout \in Nat \ {0}
  /\ Flaky \in BOOLEAN /\ Deletable \in BOOLEAN
  /\ Reported \subseteq Agent
  /\ MaxWeight \in Nat
  /\ Period \in Nat \ {0} /\ \A n \in 1..MaxWeight : Period % n = 0
  /\ MaxGroup \in Nat \ {0} /\ MaxEdit \in Nat /\ MaxCrash \in Nat

VARIABLES
  breakers,  \* m.breakers; a breaker that was never asked for is like a new one
  groups,    \* m.groups
  counter,   \* m.counter
  rrIndex,   \* m.rrIndex, modulo Period
  stored,    \* keys "grp_*" of the bucket
  calls,     \* calls of Next under way
  reader,    \* a GET of a group whose answer is being encoded
  \* for the properties only:
  unsaved,   \* groups whose last change is not in the bucket
  dealt,     \* dealt[g][a]: draws of the current round whose first candidate is a
  steady,    \* steady[c]: members that were there, with a closed breaker, all along
  edits, crashes

dispatchVars == <<breakers, groups, counter, rrIndex, stored, calls, reader,
          unsaved, dealt, steady, edits, crashes>>

NewBreaker == [state |-> "closed", failures |-> 0, age |-> 0]

NoDraws == [a \in Agent |-> 0]

DispatchInit ==
  /\ breakers = [a \in Agent |-> NewBreaker]
  /\ groups = [g \in GroupId |-> NoGroup]
  /\ counter = 0
  /\ rrIndex = [g \in GroupId |-> 0]
  /\ stored = [g \in GroupId |-> NoGroup]
  /\ calls = [c \in Caller |-> NoCall]
  /\ reader = NoRead
  /\ unsaved = {}
  /\ dealt = [g \in GroupId |-> NoDraws]
  /\ steady = [c \in Caller |-> {}]
  /\ edits = 0 /\ crashes = 0

-----------------------------------------------------------------------------
(* Circuit breakers *)

\* A success closes a half-open breaker and leaves an open one open.
RecordSuccess(b) == IF b.state = "open" THEN b ELSE NewBreaker

\* A failure reopens a half-open breaker; one that arrives while the breaker is
\* open does not prolong that.
RecordFailure(b) ==
  LET opens == \/ b.state = "closed" /\ b.failures + 1 >= CircuitThreshold
               \/ b.state = "half_open"
  IN  CASE opens -> [state |-> "open", failures |-> 0, age |-> 0]
        [] b.state = "closed" /\ ~opens -> [b EXCEPT !.failures = @ + 1]
        [] OTHER -> b

\* Mutation of Allow: half-open lets nobody else through until a result arrives.
AllowOneProbe(b) ==
  CASE b.state = "closed" -> [ok |-> TRUE, b |-> b]
    [] b.state = "open" /\ b.age >= ResetTimeout ->
         [ok |-> TRUE, b |-> [b EXCEPT !.state = "half_open", !.age = 0]]
    [] OTHER -> [ok |-> FALSE, b |-> b]

\* Whether a request may go to the agent, and the breaker afterwards.
Allow(b) ==
  CASE b.state = "open" /\ b.age < ResetTimeout -> [ok |-> FALSE, b |-> b]
    [] b.state = "open" /\ b.age >= ResetTimeout ->
         [ok |-> TRUE, b |-> [b EXCEPT !.state = "half_open", !.age = 0]]
    [] OTHER -> [ok |-> TRUE, b |-> b]

Closed(a) == breakers[a].state = "closed"

\* What is left of the steady members after the breakers have become bs.
StillClosed(bs) == [c \in Caller |-> {a \in steady[c] : bs[a].state = "closed"}]

SetBreaker(a, b) ==
  /\ breakers' = [breakers EXCEPT ![a] = b]
  /\ steady' = StillClosed(breakers')

\* POST /circuit/record
Record(a, success) ==
  /\ SetBreaker(a, IF success THEN RecordSuccess(breakers[a]) ELSE RecordFailure(breakers[a]))
  /\ UNCHANGED <<groups, counter, rrIndex, stored, calls, reader, unsaved, dealt,
                 edits, crashes>>

\* POST /circuit/reset
Reset(a) ==
  /\ SetBreaker(a, NewBreaker)
  /\ UNCHANGED <<groups, counter, rrIndex, stored, calls, reader, unsaved, dealt,
                 edits, crashes>>

\* Time passes for the open breakers.
BreakersTick ==
  /\ \E a \in Agent : breakers[a].state = "open" /\ breakers[a].age < ResetTimeout
  /\ breakers' = [a \in Agent |->
       IF breakers[a].state = "open" /\ breakers[a].age < ResetTimeout
         THEN [breakers[a] EXCEPT !.age = @ + 1] ELSE breakers[a]]
  /\ UNCHANGED <<groups, counter, rrIndex, stored, calls, reader, unsaved, dealt,
                 steady, edits, crashes>>

-----------------------------------------------------------------------------
(* Members: slices, and arrays that several slices share *)

Agents(ms) == {ms[i].agent : i \in DOMAIN ms}

Without(ms, a) == At(ms, {i \in DOMAIN ms : ms[i].agent # a})

\* append doubles the capacity of a full array.
Grown(n) == IF n = 0 THEN 1 ELSE 2 * n

AddMemberWithWeight(gr, a, w) ==
  IF a \in Agents(gr.members) THEN gr
  ELSE [gr EXCEPT !.members = Append(gr.members, [agent |-> a, weight |-> w]),
                  !.capacity = IF Len(gr.members) < @ THEN @ ELSE Grown(@)]

\* Filters in place: the array keeps its capacity.
RemoveMember(gr, a) == [gr EXCEPT !.members = Without(gr.members, a)]

\* Mutation of UpdateMemberWeight: the member is taken out and appended again.
UpdateReinsert(gr, a, w) ==
  [gr EXCEPT !.members = Append(Without(gr.members, a), [agent |-> a, weight |-> w])]

UpdateMemberWeight(gr, a, w) ==
  [gr EXCEPT !.members = [i \in DOMAIN gr.members |->
     IF gr.members[i].agent = a THEN [gr.members[i] EXCEPT !.weight = w]
     ELSE gr.members[i]]]

\* What a snapshot of g sees after the group has changed from gr to new: as long
\* as they share the array, every cell of the new slice is overwritten under it.
\* removed: a member has left since.
Aliased(r, g, gr, new) ==
  IF r = NoRead THEN r ELSE
  IF r.group # g THEN r ELSE
  LET now == r.shared /\ new.capacity = gr.capacity
  IN  [r EXCEPT !.shared = now,
                !.cells = IF ~now THEN r.cells
                          ELSE [i \in DOMAIN r.cells |->
                                  IF i <= Len(new.members) THEN new.members[i] ELSE r.cells[i]],
                !.removed = @ \/ ~(Agents(gr.members) \subseteq Agents(new.members))]

\* Cursors(ms)[i]: the value of cursor after member i.
Cursors(ms) ==
  LET cursor[i \in 0..Len(ms)] == IF i = 0 THEN 0 ELSE cursor[i - 1] + ms[i].weight
  IN  cursor

TotalWeight(ms) == Cursors(ms)[Len(ms)]

\* The group, or that there is none, is put into the bucket (persist, unpersist).
persist(g, new) ==
  \/ stored' = [stored EXCEPT ![g] = new] /\ unsaved' = unsaved \ {g}
  \/ Flaky /\ stored' = stored /\ unsaved' = unsaved \cup {g}

\* Under m.mu: group g becomes new and is persisted.
SetGroup(g, new) ==
  /\ edits < MaxEdit /\ TotalWeight(new.members) <= MaxWeight
  /\ edits' = edits + 1
  /\ groups' = [groups EXCEPT ![g] = new]
  /\ persist(g, new)
  /\ reader' = Aliased(reader, g, groups[g], new)
  /\ dealt' = [dealt EXCEPT ![g] = NoDraws]
  /\ steady' = [c \in Caller |->
       IF calls[c] = NoCall THEN {} ELSE
       IF calls[c].group = g THEN steady[c] \cap Agents(new.members) ELSE steady[c]]
  /\ UNCHANGED <<breakers, rrIndex, calls, counter, crashes>>

-----------------------------------------------------------------------------
(* Groups *)

\* POST /agent-groups
Create(n) ==
  LET g == counter + 1
      gr == [name |-> n, members |-> <<>>, capacity |-> 0]
  IN
  /\ counter < MaxGroup
  /\ counter' = g
  /\ groups' = [groups EXCEPT ![g] = gr]
  /\ rrIndex' = [rrIndex EXCEPT ![g] = 0]
  /\ persist(g, gr)
  /\ dealt' = [dealt EXCEPT ![g] = NoDraws]
  /\ UNCHANGED <<breakers, calls, reader, steady, edits, crashes>>

\* PATCH /agent-groups/{id}
Update(g, n) ==
  /\ groups[g] # NoGroup
  /\ SetGroup(g, [groups[g] EXCEPT !.name = n])

\* DELETE /agent-groups/{id}.  A call under way keeps its members and its number.
DeleteGroup(g) ==
  /\ groups[g] # NoGroup
  /\ edits < MaxEdit
  /\ edits' = edits + 1
  /\ groups' = [groups EXCEPT ![g] = NoGroup]
  /\ persist(g, NoGroup)
  /\ dealt' = [dealt EXCEPT ![g] = NoDraws]
  /\ steady' = [c \in Caller |->
       IF calls[c] # NoCall /\ calls[c].group = g THEN {} ELSE steady[c]]
  /\ UNCHANGED <<breakers, counter, rrIndex, calls, reader, crashes>>

\* PATCH /agent-groups/{id}/members/{agent}
PatchMember(g, a, w) ==
  /\ groups[g] # NoGroup
  /\ w > 0 /\ a \in Agents(groups[g].members)
  /\ SetGroup(g, UpdateMemberWeight(groups[g], a, w))

\* DELETE /agent-groups/{id}/members/{agent}
DeleteMember(g, a) ==
  /\ groups[g] # NoGroup
  /\ a \in Agents(groups[g].members)
  /\ SetGroup(g, RemoveMember(groups[g], a))

\* POST /agent-groups/{id}/members: refused for a weight that is not positive,
\* without effect for a member.  (Whether group_member_added is published is
\* decided by two more looks at the group; events are not part of this module.)
PostMember(g, a, w) ==
  /\ groups[g] # NoGroup
  /\ w > 0 /\ AddMemberWithWeight(groups[g], a, w) # groups[g]
  /\ SetGroup(g, AddMemberWithWeight(groups[g], a, w))

\* Get returns *g: the slice still refers to the array of the group.
Get(gr) == gr.members

\* GET /agent-groups/{id}: Get under the read lock ...
ReadBegin(g) ==
  /\ reader = NoRead
  /\ groups[g] # NoGroup /\ groups[g].members # <<>>
  /\ reader' = [group |-> g, cells |-> Get(groups[g]), shared |-> TRUE,
                found |-> [i \in DOMAIN groups[g].members |-> groups[g].members[i].agent],
                removed |-> FALSE]
  /\ UNCHANGED <<breakers, groups, counter, rrIndex, stored, calls, unsaved, dealt,
                 steady, edits, crashes>>

\* ... and the end of the encoder, which read one cell after the other without it:
\* what it saw of a cell is what the cell held at some time in between.
ReadEnd ==
  /\ reader # NoRead
  /\ reader' = NoRead
  /\ UNCHANGED <<breakers, groups, counter, rrIndex, stored, calls, unsaved, dealt,
                 steady, edits, crashes>>

-----------------------------------------------------------------------------
(* Next: weighted round robin *)

\* Mutation of Candidate: slot <= cursor.
CandidateAtMost(ms, slot) ==
  LET cursor == Cursors(ms)
  IN  ms[CHOOSE i \in DOMAIN ms : slot <= cursor[i] /\ \A j \in 1..i - 1 : slot > cursor[j]].agent

\* The first member whose cursor is beyond the slot.
Candidate(ms, slot) ==
  LET cursor == Cursors(ms)
  IN  ms[CHOOSE i \in DOMAIN ms : slot < cursor[i] /\ \A j \in 1..i - 1 : slot >= cursor[j]].agent

\* Under the read lock: copy the members.
NextCopy(c, g) ==
  /\ calls[c] = NoCall
  /\ groups[g] # NoGroup /\ groups[g].members # <<>>
  /\ calls' = [calls EXCEPT ![c] = [group |-> g, members |-> groups[g].members,
                                    at |-> "index", slot |-> 0, left |-> 0]]
  /\ steady' = [steady EXCEPT ![c] = {a \in Agents(groups[g].members) : Closed(a)}]
  /\ UNCHANGED <<breakers, groups, counter, rrIndex, stored, reader, unsaved, dealt,
                 edits, crashes>>

\* One more draw for a.  A round is over when everybody has had its share.
Deal(d, ms, a) ==
  LET e == [d EXCEPT ![a] = @ + 1]
  IN  IF \A i \in DOMAIN ms : e[ms[i].agent] = ms[i].weight THEN NoDraws ELSE e

\* n: the number of slots Next tries.
Tries(ms) == TotalWeight(ms)

\* start := atomic.AddUint64(idxPtr, 1) - 1.  A deleted group's number is its own.
NextIndex(c) ==
  LET p == calls[c]
      ms == p.members
      start == rrIndex[p.group]
      slot == start % TotalWeight(ms)
      current == groups[p.group] # NoGroup /\ groups[p.group].members = ms
  IN
  /\ p # NoCall /\ p.at = "index"
  /\ calls' = [calls EXCEPT ![c] = [p EXCEPT !.at = "try", !.slot = slot, !.left = Tries(ms)]]
  /\ rrIndex' = [rrIndex EXCEPT ![p.group] = (start + 1) % Period]
  /\ dealt' = [dealt EXCEPT ![p.group] =
       IF current THEN Deal(@, ms, Candidate(ms, slot)) ELSE NoDraws]
  /\ UNCHANGED <<breakers, groups, counter, stored, reader, unsaved, steady, edits, crashes>>

\* Ask the breaker of the candidate; answer it, or go on with the next slot, or
\* answer 503 when there is none left.
NextTry(c) ==
  LET p == calls[c]
      a == Candidate(p.members, p.slot)
      r == Allow(breakers[a])
  IN
  /\ p # NoCall /\ p.at = "try"
  /\ SetBreaker(a, r.b)
  /\ calls' = [calls EXCEPT ![c] =
       IF r.ok \/ p.left = 1 THEN NoCall
       ELSE [p EXCEPT !.slot = (@ + 1) % TotalWeight(p.members), !.left = @ - 1]]
  /\ UNCHANGED <<groups, counter, rrIndex, stored, reader, unsaved, dealt, edits, crashes>>

-----------------------------------------------------------------------------
(* Tenants, restart *)

\* DELETE /admin/tenants: the bucket goes, the manager is not told.
DropTenant ==
  /\ Deletable /\ \E g \in GroupId : stored[g] # NoGroup
  /\ stored' = [g \in GroupId |-> NoGroup]
  /\ unsaved' = {g \in GroupId : groups[g] # NoGroup}
  /\ UNCHANGED <<breakers, groups, counter, rrIndex, calls, reader, dealt, steady,
                 edits, crashes>>

\* The smallest capacity the decoder gets to by growing for n elements.
Decoded(gr) ==
  IF gr = NoGroup THEN NoGroup ELSE
  [gr EXCEPT !.capacity = CASE Len(gr.members) = 0 -> 0 [] Len(gr.members) = 1 -> 1
                            [] Len(gr.members) = 2 -> 2 [] OTHER -> 4]

\* LoadFromStore, of the tenant, before the server listens.
Restored ==
  LET ids == {g \in GroupId : stored[g] # NoGroup}
  IN  [groups |-> [g \in GroupId |-> Decoded(stored[g])],
       counter |-> IF ids = {} THEN 0 ELSE CHOOSE n \in ids : \A g \in ids : g <= n]

\* The process ends and starts again; breakers and round-robin numbers are gone.
Crash ==
  /\ crashes < MaxCrash
  /\ crashes' = crashes + 1
  /\ breakers' = [a \in Agent |-> NewBreaker]
  /\ groups' = Restored.groups
  /\ counter' = Restored.counter
  /\ rrIndex' = [g \in GroupId |-> 0]
  /\ calls' = [c \in Caller |-> NoCall]
  /\ reader' = NoRead
  /\ unsaved' = {}
  /\ dealt' = [g \in GroupId |-> NoDraws]
  /\ steady' = [c \in Caller |-> {}]
  /\ UNCHANGED <<stored, edits>>

DispatchNext ==
  \/ \E a \in Reported : Reset(a) \/ \E ok \in BOOLEAN : Record(a, ok)
  \/ BreakersTick
  \/ \E n \in Name : Create(n) \/ \E g \in GroupId : Update(g, n)
  \/ \E g \in GroupId :
       \/ DeleteGroup(g) \/ ReadBegin(g)
       \/ \E a \in Agent :
            \/ DeleteMember(g, a)
            \/ \E w \in Weight[a] : PatchMember(g, a, w) \/ PostMember(g, a, w)
       \/ \E c \in Caller : NextCopy(c, g)
  \/ ReadEnd
  \/ \E c \in Caller : NextIndex(c) \/ NextTry(c)
  \/ DropTenant \/ Crash

DispatchSpec == DispatchInit /\ [][DispatchNext]_dispatchVars

\* Time passes, handlers go on, and clients keep asking for the next member of
\* every group.
FairDispatchSpec ==
  /\ DispatchSpec
  /\ WF_dispatchVars(BreakersTick)
  /\ \A c \in Caller : WF_dispatchVars(NextIndex(c)) /\ WF_dispatchVars(NextTry(c))
  /\ \A g \in GroupId : WF_dispatchVars(\E c \in Caller : NextCopy(c, g))

-----------------------------------------------------------------------------
(* Properties *)

\* Every variable has its type: in particular no breaker counts failures up to
\* the threshold, for it opens then.
DispatchTypeOK ==
  /\ breakers \in [Agent -> Breaker]
  /\ groups \in [GroupId -> Group \cup {NoGroup}]
  /\ counter \in 0..MaxGroup
  /\ rrIndex \in [GroupId -> 0..Period - 1]
  /\ stored \in [GroupId -> Group \cup {NoGroup}]
  /\ calls \in [Caller -> Call \cup {NoCall}]
  /\ unsaved \subseteq GroupId
  /\ dealt \in [GroupId -> [Agent -> Nat]]
  /\ steady \in [Caller -> SUBSET Agent]
  /\ edits \in 0..MaxEdit /\ crashes \in 0..MaxCrash

\* The bucket holds exactly the groups in memory, name, order and weights of the
\* members included, after every restart and after every change that was saved: a
\* save that failed, or a tenant's bucket that was deleted, is made good by the
\* next change of the group, and a restart forgets what was not saved.
StoreMirrorsGroups ==
  \A g \in GroupId \ unsaved :
    IF groups[g] = NoGroup THEN stored[g] = NoGroup
    ELSE stored[g] # NoGroup /\ [stored[g] EXCEPT !.capacity = groups[g].capacity] = groups[g]

\* On an unchanged group no member is the first choice more often in a round
\* (as many draws as the total weight) than its weight, whatever was drawn with
\* copies of its members from before the last change.
FairShare ==
  \A g \in GroupId : groups[g] # NoGroup =>
    \A i \in DOMAIN groups[g].members :
      LET m == groups[g].members[i] IN dealt[g][m.agent] <= m.weight

\* The agent whose breaker call c asks next.
Asks(c) == Candidate(calls[c].members, calls[c].slot)

Trying(c) == calls[c] # NoCall /\ calls[c].at = "try"

\* Next answers 503 only when no member has stayed in the group with a closed
\* breaker since the call began: every member is tried, whatever its weight.
GivesUpForAReason ==
  \A c \in Caller :
    Trying(c) /\ calls[c].left = 1 /\ ~Allow(breakers[Asks(c)]).ok => steady[c] = {}

\* Unless a member is removed meanwhile, an answer lists the members found when the
\* group was looked up, each once and in their order: what additions, new weights
\* and a new name write into the array under it never shows as another agent.
AnswersAreSnapshots ==
  reader # NoRead /\ ~reader.removed =>
    \A i \in DOMAIN reader.found : reader.cells[i].agent = reader.found[i]

\* A member whose breaker is not closed is offered to a client again, or the
\* breaker closes or the agent leaves the group, as long as clients keep asking
\* for the next member: no late report and no probe whose result is lost shuts
\* it out for good.
NotShutOut ==
  \A a \in Agent, g \in GroupId :
    LET member == groups[g] # NoGroup /\ a \in Agents(groups[g].members)
        offered == \E c \in Caller : Trying(c) /\ Asks(c) = a /\ Allow(breakers[a]).ok
    IN  (member /\ ~Closed(a)) ~> (offered \/ Closed(a) \/ ~member)

\* Bucket, map and answers agree on a group while handlers change it.
GroupsAreExact == DispatchTypeOK /\ StoreMirrorsGroups /\ AnswersAreSnapshots

\* Next serves the members by their weights, and answers that nobody is available
\* only if a breaker stood in the way of every one.
NextIsFair == FairShare /\ GivesUpForAReason
=============================================================================
