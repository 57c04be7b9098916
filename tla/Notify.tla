------------------------------- MODULE Notify -------------------------------
(***************************************************************************)
(* The event broker and the notification rules: pkg/events/events.go,      *)
(* pkg/notify/notify.go, and their handlers /events/history and            *)
(* /admin/notifications.                                                   *)
(*                                                                         *)
(* Publish appends to the history and then, in a critical section of its   *)
(* own, offers the event to the subscribers; the notify manager is the     *)
(* only one.  Its goroutine takes an event, collects the active rules,     *)
(* and starts a goroutine for each rule that matches, which posts to the   *)
(* rule's webhook and then counts and saves the rule.                      *)
(*                                                                         *)
(* Goroutines keep pointers to rules that were deleted since: heap holds   *)
(* every rule made by this process, ids says which are in m.rules.  The    *)
(* URL and the secret of a rule are left out.                              *)
(***************************************************************************)
EXTENDS Positions

CONSTANTS
  Tenant,
  Deletable,     \* the tenants that may be deleted: all but the default
  Publisher,     \* goroutines that publish
  NewRules,      \* bodies of POST: [tenant, types]; types = {} stands for all
  Patches,       \* bodies of PATCH: [types, active]
  Keep,          \* in a PATCH: leave this field alone
  NoEvent,
  HistorySize,   \* histMax
  BufferSize,    \* the size of the manager's channel
  Budgets        \* bounds on what happens: functions on Kind to numbers

Kind == {"event", "rule", "fail", "crash", "tick", "start", "stop", "lost", "api", "round"}

EventType == {"agent_registered", "agent_health_ok", "agent_health_fail", "job.created"}

\* An event as it is published; its id is not in the code.
Published == [id : Nat \ {0}, tenant : Tenant, type : EventType]

ASSUME NotifyAssumption ==
  /\ HistorySize \in Nat \ {0} /\ BufferSize \in Nat \ {0}
  /\ Budgets \subseteq [Kind -> Nat] /\ Deletable \subseteq Tenant
  /\ NoEvent \notin Published
  /\ \A b \in NewRules : b.tenant \in Tenant /\ b.types \subseteq STRING
  /\ \A p \in Patches : /\ p.types = Keep \/ p.types \subseteq STRING
                        /\ p.active \in {Keep, TRUE, FALSE}

VARIABLES
  heap, ids,      \* rules
  stored,         \* the keys rule-... of the tenants' buckets
  counter,
  histBuf, histHead, histCount,
  pub,            \* what a publisher has put in the history and not yet sent
  chan,           \* the channel of notify-manager
  work,           \* what the manager's goroutine dispatches
  fires,          \* the goroutines in fire
  left,           \* what is left of the budget
  \* for the properties only:
  log,            \* the events published since the start
  unsaved,        \* rules whose last change was not saved, or whose bucket was deleted
  started,        \* how many requests a rule has been, or is being, fired with
  fate            \* per event: rules that had to get it, could get it, got it

broker == <<histBuf, histHead, histCount, log>>
rules == <<heap, ids, stored, counter, unsaved>>
flow == <<chan, work, fires, started, fate>>
notifyVars == <<rules, broker, pub, flow, left>>

Spend(k) == left[k] > 0 /\ left' = [left EXCEPT ![k] = @ - 1]

NoWork == [ev |-> NoEvent, refs |-> {}]

NotifyInit ==
  /\ heap = <<>> /\ ids = {} /\ stored = <<>> /\ counter = 0 /\ unsaved = {}
  /\ histBuf = [i \in 0..(HistorySize - 1) |-> NoEvent] /\ histHead = 0 /\ histCount = 0
  /\ log = <<>>
  /\ pub = [p \in Publisher |-> NoEvent]
  /\ chan = <<>> /\ work = NoWork /\ fires = {} /\ started = <<>> /\ fate = <<>>
  /\ left \in Budgets

Put(f, k, v) == [x \in DOMAIN f \cup {k} |-> IF x = k THEN v ELSE f[x]]

-----------------------------------------------------------------------------
(* The broker. *)

\* The slot of the i-th event from the end.
Slot(i) == (histHead - 1 - i + HistorySize) % HistorySize

History(limit) ==
  LET filled == IF histCount > HistorySize THEN HistorySize ELSE histCount
      n == IF limit <= 0 \/ limit > filled THEN filled ELSE limit
  IN  [j \in 1..n |-> histBuf[Slot(n - j)]]

\* GET /events/history: the tenant's share of the last events; "" is any type.
EventsHistory(tenant, type, limit) ==
  LET all == History(limit)
  IN  At(all, {i \in DOMAIN all : all[i].tenant = tenant /\ type \in {"", all[i].type}})

Active(r) == heap[r].active

matches(r, ev) ==
  /\ heap[r].tenant = ev.tenant
  /\ heap[r].types = {} \/ ev.type \in heap[r].types

Eligible(ev) == {r \in ids : Active(r) /\ matches(r, ev)}

\* The first half of Publish.
Record(p, ev) ==
  /\ pub[p] = NoEvent
  /\ histBuf' = [histBuf EXCEPT ![histHead] = ev]
  /\ histHead' = (histHead + 1) % HistorySize
  /\ histCount' = histCount + 1
  /\ log' = Append(log, ev)
  /\ pub' = [pub EXCEPT ![p] = ev]

Room == Len(chan) < BufferSize

\* The second half: a full channel drops the event.
Offer(p) ==
  LET ev == pub[p]
  IN  /\ ev # NoEvent
      /\ pub' = [pub EXCEPT ![p] = NoEvent]
      /\ chan' = IF Room THEN Append(chan, ev) ELSE chan
      /\ fate' = Put(fate, ev,
                   [must |-> IF Len(chan) < BufferSize THEN Eligible(ev) ELSE {},
                    active |-> {r \in ids : Active(r)},
                    typed |-> {r \in ids : matches(r, ev)}, got |-> {}])
      /\ UNCHANGED <<rules, broker, work, fires, started, left>>

-----------------------------------------------------------------------------
(* The rules. *)

\* What a change of the rules means for the events under way.
Revised ==
  fate' = [e \in DOMAIN fate |->
             [fate[e] EXCEPT !.must = @ \cap {r \in ids' : heap'[r].active /\ matches(r, e)'},
                             !.active = @ \cup {r \in ids' : heap'[r].active},
                             !.typed = @ \cup {r \in ids' : matches(r, e)'}]]

\* persist; a failure is only logged.  k is the budget of the request.
persist(r, rule, k) ==
  \E ok \in BOOLEAN :
    /\ ok \/ left["fail"] > 0
    /\ stored' = IF ok THEN Put(stored, r, rule) ELSE stored
    /\ unsaved' = IF ok THEN unsaved \ {r} ELSE unsaved \cup {r}
    /\ left' = [left EXCEPT !["fail"] = IF ok THEN @ ELSE @ - 1, !["rule"] = @ - k]

Add(body) ==
  LET r == counter + 1
      rule == [name |-> "first", tenant |-> body.tenant, types |-> body.types,
               active |-> TRUE, fired |-> 0]
  IN  /\ left["rule"] > 0
      /\ counter' = r
      /\ heap' = Put(heap, r, rule) /\ ids' = ids \cup {r}
      /\ persist(r, rule, 1)
      /\ started' = Put(started, r, 0)
      /\ Revised
      /\ UNCHANGED <<broker, pub, chan, work, fires>>

\* A PATCH with a blank webhook_url is refused, but the name has been set by then.
RefuseUpdate(r) ==
  /\ r \in ids /\ Spend("rule")
  /\ heap' = [heap EXCEPT ![r].name = "second"]
  /\ unsaved' = unsaved \cup {r}
  /\ UNCHANGED <<ids, stored, counter, broker, pub, flow>>

Patched(rule, patch) ==
  [rule EXCEPT !.types = IF patch.types = Keep THEN @ ELSE patch.types,
               !.active = IF patch.active = Keep THEN @ ELSE patch.active]

Update(r, patch) ==
  /\ r \in ids /\ left["rule"] > 0
  /\ heap' = [heap EXCEPT ![r] = Patched(@, patch)]
  /\ persist(r, heap'[r], 1)
  /\ UNCHANGED <<ids, counter>>
  /\ Revised
  /\ UNCHANGED <<broker, pub, chan, work, fires, started>>

\* unpersist comes first; a failure is only logged.
Delete(r) ==
  /\ r \in ids /\ left["rule"] > 0
  /\ \E ok \in BOOLEAN :
       /\ ok \/ left["fail"] > 0
       /\ stored' = IF ok THEN [x \in DOMAIN stored \ {r} |-> stored[x]] ELSE stored
       /\ unsaved' = IF ok THEN unsaved \ {r} ELSE unsaved \cup {r}
       /\ left' = [left EXCEPT !["fail"] = IF ok THEN @ ELSE @ - 1, !["rule"] = @ - 1]
  /\ ids' = ids \ {r}
  /\ UNCHANGED <<heap, counter>>
  /\ Revised
  /\ UNCHANGED <<broker, pub, chan, work, fires, started>>

\* DELETE of a tenant takes the bucket away and leaves the manager as it is.
DropTenant(t) ==
  LET its == {r \in ids : heap[r].tenant = t}
  IN  /\ its # {} /\ Spend("rule")
      /\ stored' = [r \in {x \in DOMAIN stored : heap[x].tenant # t} |-> stored[r]]
      /\ unsaved' = unsaved \cup its
      /\ UNCHANGED <<heap, ids, counter, broker, pub, flow>>

-----------------------------------------------------------------------------
(* The manager's goroutine, and those it starts. *)

\* Mutation of Snapshot: inactive rules are collected, too.
SnapshotAll == ids

Snapshot == {r \in ids : Active(r)}

Take ==
  /\ work.ev = NoEvent /\ chan # <<>>
  /\ work' = [ev |-> Head(chan), refs |-> Snapshot]
  /\ chan' = Tail(chan)
  /\ UNCHANGED <<rules, broker, pub, fires, started, fate, left>>

\* The fields of the rule are read without the lock, as they are by now.
dispatch(r) ==
  /\ r \in work.refs
  /\ work' = [work EXCEPT !.refs = @ \ {r}]
  /\ \/ ~matches(r, work.ev) /\ UNCHANGED <<fires, started, fate>>
     \/ /\ matches(r, work.ev)
        /\ fires' = fires \cup {[rule |-> r, ev |-> work.ev, step |-> "post"]}
        /\ started' = IF r \in DOMAIN started THEN [started EXCEPT ![r] = @ + 1] ELSE started
        /\ fate' = [fate EXCEPT ![work.ev].got = @ \cup {r}]
  /\ UNCHANGED <<rules, broker, pub, chan, left>>

EndDispatch ==
  /\ work.ev # NoEvent /\ work.refs = {}
  /\ work' = NoWork
  /\ UNCHANGED <<rules, broker, pub, chan, fires, started, fate, left>>

\* The request is made, whatever comes of it.
Post(f) ==
  /\ f \in fires /\ f.step = "post"
  /\ fires' = (fires \ {f}) \cup {[f EXCEPT !.step = "count"]}
  /\ UNCHANGED <<rules, broker, pub, chan, work, started, fate, left>>

\* There is no request when the URL cannot be parsed (or the data not encoded), and no count.
NoPost(f) ==
  /\ f \in fires /\ f.step = "post"
  /\ fires' = fires \ {f}
  /\ started' = [started EXCEPT ![f.rule] = @ - 1]
  /\ UNCHANGED <<rules, broker, pub, chan, work, fate, left>>

\* Mutation of Counted: a rule is saved that has been deleted.
CountedAlways(r) == r \in DOMAIN heap

Counted(r) == r \in ids

fire(f) ==
  /\ f \in fires /\ f.step = "count"
  /\ fires' = fires \ {f}
  /\ \/ /\ Counted(f.rule)
        /\ heap' = [heap EXCEPT ![f.rule].fired = @ + 1]
        /\ persist(f.rule, heap'[f.rule], 0)
     \/ ~Counted(f.rule) /\ UNCHANGED <<heap, stored, unsaved, left>>
  /\ UNCHANGED <<ids, counter, broker, pub, chan, work, started, fate>>

-----------------------------------------------------------------------------

Highest == CHOOSE n \in 0..counter :
             n \in DOMAIN stored \cup {0} /\ \A m \in DOMAIN stored : m <= n

\* The process stops and the next one loads the rules of every tenant.
LoadFromStore ==
  /\ heap' = stored /\ ids' = DOMAIN stored /\ counter' = Highest
  /\ unsaved' = {}
  /\ started' = [r \in DOMAIN stored |-> stored[r].fired]
  /\ histBuf' = [i \in DOMAIN histBuf |-> NoEvent] /\ histHead' = 0 /\ histCount' = 0
  /\ log' = <<>> /\ fate' = <<>>
  /\ pub' = [p \in Publisher |-> NoEvent]
  /\ chan' = <<>> /\ work' = NoWork /\ fires' = {}
  /\ UNCHANGED stored

NotifyNext ==
  \/ \E b \in NewRules : Add(b)
  \/ \E r \in ids : RefuseUpdate(r) \/ Delete(r) \/ \E patch \in Patches : Update(r, patch)
  \/ \E t \in Deletable : DropTenant(t)
  \/ \E p \in Publisher : Offer(p)
  \/ Take \/ EndDispatch \/ \E r \in work.refs : dispatch(r)
  \/ \E f \in fires : Post(f) \/ NoPost(f) \/ fire(f)

-----------------------------------------------------------------------------
(* Properties. *)

\* A rule that lives in memory is stored as it is, unless its last change could not be
\* saved or came from a refused PATCH, or its tenant was deleted; a deleted rule is not
\* stored any more, although a goroutine of its own may count it at any time (fire saves
\* the live rule only).
StoreMirrorsRules ==
  /\ DOMAIN stored \subseteq ids \cup unsaved
  /\ \A r \in ids \ unsaved : r \in DOMAIN stored /\ stored[r] = heap[r]

\* History(limit) is the end of what was published, in that order, however often the ring
\* has wrapped, and a tenant gets its own events among them.
HistoryIsRecent ==
  \A limit \in 0..(HistorySize + 1) :
    LET kept == IF Len(log) > HistorySize THEN HistorySize ELSE Len(log)
        n == IF limit = 0 \/ limit > kept THEN kept ELSE limit
        recent == SubSeq(log, Len(log) - n + 1, Len(log))
    IN  /\ History(limit) = recent
        /\ \A t \in Tenant, e \in {recent[i] : i \in DOMAIN recent} :
             e.tenant = t <=> \E i \in DOMAIN EventsHistory(t, "", limit) :
                                EventsHistory(t, "", limit)[i] = e

Handled(ev) ==
  /\ work.ev # ev
  /\ \A i \in DOMAIN chan : chan[i] # ev

\* An event that the broker could queue reaches every rule that was active and matching
\* from its publication on, and no rule that was not active, or not matching, at any moment
\* since (the rules are changed while events wait in the channel and while dispatch runs).
ReachesItsRules ==
  \A ev \in DOMAIN fate :
    /\ Handled(ev) => fate[ev].must \subseteq fate[ev].got
    /\ fate[ev].got \subseteq fate[ev].active \cap fate[ev].typed

\* FiredTotal counts every request made for a rule once it is over, whatever happens to the
\* rule in between, and survives a restart.
FiresCounted ==
  \A r \in ids :
    heap[r].fired + Cardinality({f \in fires : f.rule = r}) = started[r]

\* The id that the next rule gets belongs to no rule, neither in memory nor stored nor in a
\* goroutine, also when the counter was set anew at a restart.
NextIdIsFree ==
  \A r \in ids \cup DOMAIN stored \cup {f.rule : f \in fires} : r <= counter

\* Bucket and memory agree on every rule and on how often it fired, although the
\* goroutines that fire come back late; a new id overwrites no rule.
RulesAreExact == StoreMirrorsRules /\ FiresCounted /\ NextIdIsFree

\* An event that was published is in the history while it is recent, and fires the
\* rules it is for and no others.
EventsArrive == HistoryIsRecent /\ ReachesItsRules
=============================================================================
