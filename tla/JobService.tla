----------------------------- MODULE JobService -----------------------------
(***************************************************************************)
(* What the job queue promises its users: a durable set of jobs in which   *)
(* restarts cannot be seen.  A job appears as pending, is handed out in    *)
(* the order of priority and age, changes status, and disappears only once *)
(* it has reached a final status.  There is no memory, no store and no     *)
(* boot here; JobQueue has them and is shown to implement this.            *)
(***************************************************************************)
EXTENDS Integers

CONSTANTS Tenant, Agent, Capability, None,
          Submission,   \* names of the jobs
          Absent        \* not submitted yet, or removed

VARIABLES job,          \* job[s]: the job as a client would read it
          handed        \* handed[s]: how often the present job s was the answer to a claim

Status == {"pending", "running", "done", "failed", "cancelled", "other"}
Terminal == {"done", "failed", "cancelled"}

View == [tenant : Tenant, agent : Agent \cup {None},
         capability : Capability \cup {None}, priority : Int, created : Nat,
         status : Status]

Init == job = [s \in Submission |-> Absent] /\ handed = [s \in Submission |-> 0]

Submit(s, v) ==
  /\ job[s] = Absent
  /\ v.status = "pending"
  /\ job' = [job EXCEPT ![s] = v]
  /\ UNCHANGED handed

Wanted(t, a, cap, s) ==
  /\ job[s] # Absent /\ job[s].status = "pending" /\ job[s].tenant = t
  /\ cap # None => job[s].capability = cap
  /\ a # None => job[s].agent \in {None, a}

Precedes(s, u) ==
  \/ job[s].priority > job[u].priority
  \/ job[s].priority = job[u].priority /\ job[s].created < job[u].created

\* Nothing that matches the request precedes the job handed out.
Claim(t, a, cap, s) ==
  /\ Wanted(t, a, cap, s)
  /\ \A u \in Submission : Wanted(t, a, cap, u) => ~Precedes(u, s)
  /\ job' = [job EXCEPT ![s].status = "running",
                        ![s].agent = IF a # None THEN a ELSE @]
  /\ handed' = [handed EXCEPT ![s] = @ + 1]

SetStatus(s, status) ==
  /\ job[s] # Absent
  /\ job' = [job EXCEPT ![s].status = status]
  /\ UNCHANGED handed

Expire(S) ==
  /\ \A s \in S : job[s] # Absent /\ job[s].status = "pending"
  /\ job' = [s \in Submission |->
       IF s \in S THEN [job[s] EXCEPT !.status = "failed"] ELSE job[s]]
  /\ UNCHANGED handed

Remove(S) ==
  /\ \A s \in S : job[s] # Absent /\ job[s].status \in Terminal
  /\ job' = [s \in Submission |-> IF s \in S THEN Absent ELSE job[s]]
  /\ handed' = [s \in Submission |-> IF s \in S THEN 0 ELSE handed[s]]

Next ==
  \/ \E s \in Submission :
       \/ job[s] = Absent /\ job'[s] # Absent /\ Submit(s, job'[s])
       \/ \E t \in Tenant, a \in Agent \cup {None}, cap \in Capability \cup {None} :
            Claim(t, a, cap, s)
       \/ \E status \in Status : SetStatus(s, status)
  \/ \E S \in SUBSET Submission : Expire(S) \/ Remove(S)

Spec == Init /\ [][Next]_<<job, handed>>
=============================================================================
