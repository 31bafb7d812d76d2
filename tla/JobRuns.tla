------------------------------ MODULE JobRuns ------------------------------
(***************************************************************************)
(* What the background jobs of one type promise, without locks and leases: *)
(* one job at a time is pending or running, a runner makes it its own      *)
(* before any work is done for it, no other runner works for it, only that *)
(* work makes it succeed, and what it ended with is final.                 *)
(***************************************************************************)
CONSTANTS Jobs, Runners, None

VARIABLES
  status,  \* "none", "pending", "running", "succeeded" or "failed"
  owner,   \* the runner a job belongs to, or None
  started  \* pairs of a runner and a job it has begun to work for

Init ==
  /\ status = [j \in Jobs |-> "none"]
  /\ owner = [j \in Jobs |-> None]
  /\ started = {}

Enqueue(j) ==
  /\ status[j] = "none"
  /\ \A k \in Jobs : status[k] \notin {"pending", "running"}
  /\ status' = [status EXCEPT ![j] = "pending"]
  /\ UNCHANGED <<owner, started>>

\* The runner may die, or lose sight of the job, before it begins to work.
Claim(r, j) ==
  /\ status[j] = "pending" /\ owner[j] = None /\ \A s \in Runners : <<s, j>> \notin started
  /\ status' = [status EXCEPT ![j] = "running"]
  /\ owner' = [owner EXCEPT ![j] = r]
  /\ started' = started \/ started' = started \cup {<<r, j>>}

Succeed(j) ==
  /\ status[j] = "running" /\ <<owner[j], j>> \in started
  /\ status' = [status EXCEPT ![j] = "succeeded"]
  /\ UNCHANGED <<owner, started>>

Fail(j) ==
  /\ status[j] = "running"
  /\ status' = [status EXCEPT ![j] = "failed"]
  /\ UNCHANGED <<owner, started>>

Next ==
  \E j \in Jobs :
    \/ Enqueue(j)
    \/ \E r \in Runners : Claim(r, j)
    \/ Succeed(j)
    \/ Fail(j)

Spec == Init /\ [][Next]_<<status, owner, started>>
=============================================================================
