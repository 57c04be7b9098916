----------------------------- MODULE MCAccounts -----------------------------
(* Small instance of Accounts for TLC. *)
EXTENDS Accounts, TLC

CONSTANTS dflt, t1, free, pro, n1, c1, c2, i1, i2,
          sign, again, key, use, drop, name, plan, gone,
          g1, g2, g3, g4, job, job2, adv, show, put1, put2, del

R(op, from, cred, target, arg) ==
  [op |-> op, from |-> from, cred |-> cred, target |-> target, arg |-> arg]
Admin  == [kind |-> "admin"]
Own    == [kind |-> "configured", tenant |-> t1]
Sub(q) == [kind |-> "subkey", of |-> q]
NoCred == [kind |-> "none"]

\* Two signups of one tenant; the key of the first makes, uses and deletes keys;
\* changes of the profile; reads; jobs; items with and without a TTL.
Message ==
     (sign  :> R("signup", c1, NoCred, t1, free))
  @@ (again :> R("signup", c2, NoCred, t1, pro))
  @@ (key   :> R("newkey", c1, Sub(sign), t1, None))
  @@ (use   :> R("get", c2, Sub(key), t1, None))
  @@ (drop  :> R("delkey", c2, Own, t1, key))
  @@ (name  :> R("rename", c1, Own, t1, n1))
  @@ (plan  :> R("plan", c2, Admin, t1, pro))
  @@ (gone  :> R("deltenant", c2, Admin, t1, None))
  @@ [g \in {g1, g2, g3, g4} |-> R("get", c1, NoCred, t1, None)]
  @@ (job   :> R("job", c1, Own, t1, None))
  @@ (job2  :> R("job", c2, NoCred, t1, None))
  @@ (adv   :> R("submit", c2, Own, t1, None))
  @@ (show  :> R("usage", c1, Own, t1, None))
  @@ (put1  :> R("put", c1, Own, t1, [item |-> i1, ttl |-> 1]))
  @@ (put2  :> R("put", c2, Own, t1, [item |-> i2, ttl |-> 0]))
  @@ (del   :> R("delete", c1, Own, t1, [item |-> i1]))

MCRequest == DOMAIN Message
MCOp      == [q \in MCRequest |-> Message[q].op]
MCFrom    == [q \in MCRequest |-> Message[q].from]
MCCred    == [q \in MCRequest |-> Message[q].cred]
MCTarget  == [q \in MCRequest |-> Message[q].target]
MCArg     == [q \in MCRequest |-> Message[q].arg]

Script(requests, ticks, restarts) ==
  [requests |-> requests, ticks |-> ticks, restarts |-> restarts]

\* Keys that are touched while they or their tenant are deleted; profiles that
\* several change; addresses at their limit; midnight; expiring items.
MCScripts ==
  {Script({sign, key, use, drop}, 1, 0),
   Script({sign, key, gone}, 0, 1),
   Script({sign, name, plan}, 0, 1),
   Script({sign, again, name}, 0, 0),
   Script({sign, again, gone}, 0, 1),
   Script({g1, g2, g3, g4}, 3, 0),
   Script({job, job2, show}, 2, 0),
   Script({job, adv, show}, 2, 0),
   Script({job, show}, 2, 1),
   Script({put1, put2}, 2, 0),
   Script({put1, del}, 2, 1)}

Symmetric == Permutations({g1, g2, g3, g4})
=============================================================================
