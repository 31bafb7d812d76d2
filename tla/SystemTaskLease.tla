-------------------------- MODULE SystemTaskLease --------------------------
(***************************************************************************)
(* Background jobs of one type (polling passes, channel tests, log         *)
(* cleanup): a row in system_tasks per run, claimed by one of several      *)
(* runners under a leased lock in system_task_locks, a row per type.       *)
(*                                                                         *)
(* A runner has one main goroutine, which expires stale locks, schedules   *)
(* and claims, one statement at a time, and a goroutine for each handler   *)
(* it has dispatched.  The wall clock is the time the lease has left.      *)
(***************************************************************************)
EXTENDS Integers, FiniteSets

CONSTANTS
  Tasks,       \* rows of system_tasks
  Runners,     \* runner IDs: a restarted process gets a new one
  None,        \* no task, no runner
  TTL,         \* systemTaskLockTTL, in ticks
  SlowClaims,  \* a claim may take longer than the lease it is about
  SlowRenewals,\* a handler's statement may come after the lease its clock has seen
  Failing,     \* statements may fail and handlers may panic
  Crashing     \* runners may die, one survives

ASSUME LeaseConstants ==
  /\ None \notin Tasks \cup Runners
  /\ TTL \in Nat \ {0}
  /\ {SlowClaims, SlowRenewals, Failing, Crashing} \subseteq BOOLEAN

VARIABLES
  \* system_tasks; active_key is set while the status is pending or running
  status,    \* SystemTask.Status, "none" before the row is created
  owner,     \* SystemTask.LockedBy
  \* system_task_locks, None where there is no row
  lockTask, lockBy,
  left,      \* ticks until LockedUntil has passed
  past,      \* runners whose own now, read at the start of what they do, is past it
  \* the main goroutines
  at,        \* where the runner stands in its pass
  todo,      \* the pending task it claims
  seen,      \* TaskID of the lock row it has read
  seenBy,    \* LockedBy of that row
  \* the handlers, as pairs of a runner and a task
  handlers,  \* dispatched and not yet returned
  cancelled, \* ... whose context the heartbeat has cancelled
  releasing, \* ... that have finished the row and not yet released the lock
  \* history
  dead,      \* runners that died
  started    \* pairs that were ever dispatched

rows == <<status, owner>>
lock == <<lockTask, lockBy, left, past>>
pass == <<at, todo, seen, seenBy>>
jobs == <<handlers, cancelled, releasing, started>>
vars == <<rows, lock, pass, jobs, dead>>

Active(t) == status[t] \in {"pending", "running"}
Ended == {"succeeded", "failed"}
Claiming == {"mark", "start"}

Init ==
  /\ status = [t \in Tasks |-> "none"] /\ owner = [t \in Tasks |-> None]
  /\ lockTask = None /\ lockBy = None /\ left = 0 /\ past = {}
  /\ at = [r \in Runners |-> "idle"]
  /\ todo = [r \in Runners |-> None]
  /\ seen = [r \in Runners |-> None] /\ seenBy = [r \in Runners |-> None]
  /\ handlers = {} /\ cancelled = {} /\ releasing = {} /\ started = {}
  /\ dead = {}

\* The main goroutine goes on with a step of its own.
Goto(r, label) == at' = [at EXCEPT ![r] = label]

\* LockedUntil of the lock row has passed.
Expired == lockTask # None /\ left = 0

\* Runner r reads the clock.
ReadClock(r) == past' = IF Expired THEN past \cup {r} ELSE past \ {r}

\* Mutant: the lease is one tick too long.
TakeLockLonger(r, t) == lockTask' = t /\ lockBy' = r /\ left' = TTL + 1 /\ past' = {}

\* A lease set for TTL from a clock read before the statement has lost of it what the
\* statement took. Nobody's clock is past a lease that is not over.
Lease(most) ==
  /\ left' \in 0..most /\ past' \in SUBSET Runners
  /\ left' > 0 => past' = {}

\* The lock row is written.
TakeLock(r, t) ==
  /\ lockTask' = t /\ lockBy' = r
  /\ Lease(TTL) /\ (SlowClaims \/ left' > 0)

\* The lock row is deleted.
NoLock == lockTask' = None /\ lockBy' = None /\ left' = 0 /\ past' = {}

\* There is a lock row with locked_until < now.
Stale(r) == lockTask # None /\ r \in past

\* ReleaseSystemTaskLock, whose errors nobody handles.
Release(r, t) ==
  \/ lockTask = t /\ lockBy = r /\ NoLock
  \/ (lockTask # t \/ lockBy # r \/ Failing) /\ UNCHANGED lock

\* Mutant: the task of an expired lock is left as it is.
ExpireLeaseNever(t) == t \in Tasks /\ UNCHANGED rows

\* MarkSystemTaskLeaseExpired.
ExpireLease(t) ==
  /\ status' = [u \in Tasks |-> IF u = t /\ status[u] = "running" THEN "failed" ELSE status[u]]
  /\ UNCHANGED owner

-----------------------------------------------------------------------------
\* Mutant: active_key is not unique.
CreateBeside(t) ==
  /\ status[t] = "none"
  /\ status' = [status EXCEPT ![t] = "pending"]
  /\ UNCHANGED <<owner, lock, pass, jobs, dead>>

\* CreateSystemTask, called by the scheduler, EnqueueSystemTask and
\* StartLogCleanupTask: active_key is unique.
Create(t) ==
  /\ status[t] = "none" /\ \A u \in Tasks : ~Active(u)
  /\ status' = [status EXCEPT ![t] = "pending"]
  /\ UNCHANGED <<owner, lock, pass, jobs, dead>>

\* Time passes.
Tick ==
  /\ left > 0
  /\ SlowClaims \/ left > 1 \/ \A r \in Runners \ dead : at[r] \notin Claiming
  /\ left' = left - 1
  /\ UNCHANGED <<rows, lockTask, lockBy, past, pass, jobs, dead>>

-----------------------------------------------------------------------------
(* runSystemTaskClaimPass and ClaimSystemTask.                             *)

FindPending(r, t) ==
  /\ r \notin dead /\ at[r] = "idle" /\ status[t] = "pending"
  /\ ReadClock(r)
  /\ Goto(r, "acquire")
  /\ todo' = [todo EXCEPT ![r] = t]
  /\ UNCHANGED <<rows, lockTask, lockBy, left, seen, seenBy, jobs, dead>>

\* acquireSystemTaskLock: insert the row, or look at the one that is there.
Acquire(r) ==
  /\ r \notin dead /\ at[r] = "acquire"
  /\ \/ /\ lockTask = None
        /\ TakeLock(r, todo[r])
        /\ Goto(r, "start")
        /\ UNCHANGED seen
     \/ /\ (lockTask # None /\ ~Stale(r)) \/ Failing
        /\ Goto(r, "idle")
        /\ UNCHANGED <<lock, seen>>
     \/ /\ Stale(r)
        /\ Goto(r, "takeover")
        /\ seen' = [seen EXCEPT ![r] = lockTask]
        /\ UNCHANGED lock
  /\ UNCHANGED <<rows, todo, seenBy, jobs, dead>>

\* ... and take it over if it is still expired.
Takeover(r) ==
  /\ r \notin dead /\ at[r] = "takeover"
  /\ \/ /\ Stale(r)
        /\ TakeLock(r, todo[r])
        /\ Goto(r, IF seen[r] = todo[r] THEN "start" ELSE "mark")
     \/ /\ ~Stale(r) \/ Failing
        /\ Goto(r, "idle")
        /\ UNCHANGED lock
  /\ UNCHANGED <<rows, todo, seen, seenBy, jobs, dead>>

MarkTaken(r) ==
  /\ r \notin dead /\ at[r] = "mark"
  /\ \/ ExpireLease(seen[r]) /\ Goto(r, "start") /\ UNCHANGED lock
     \/ Failing /\ Release(r, todo[r]) /\ Goto(r, "idle") /\ UNCHANGED rows
  /\ UNCHANGED <<todo, seen, seenBy, jobs, dead>>

\* Mutant: the update is not guarded by the status pending.
MayStartAlways(t) == status[t] # "none"

\* WHERE status = pending.
MayStart(t) == status[t] = "pending"

\* The row becomes running and the handler is dispatched, unless reading the row
\* back fails; a claim that cannot start the row gives the lock back.
Start(r) ==
  /\ r \notin dead /\ at[r] = "start"
  /\ LET t == todo[r] IN
     \/ /\ MayStart(t)
        /\ status' = [status EXCEPT ![t] = "running"]
        /\ owner' = [owner EXCEPT ![t] = r]
        /\ \/ handlers' = handlers \cup {<<r, t>>} /\ started' = started \cup {<<r, t>>}
           \/ Failing /\ UNCHANGED <<handlers, started>>
        /\ UNCHANGED lock
     \/ /\ ~MayStart(t) \/ Failing
        /\ Release(r, t)
        /\ UNCHANGED <<rows, handlers, started>>
  /\ Goto(r, "idle")
  /\ UNCHANGED <<todo, seen, seenBy, cancelled, releasing, dead>>

-----------------------------------------------------------------------------
(* ExpireStaleSystemTaskLocks.                                             *)

ReadStale(r) ==
  /\ r \notin dead /\ at[r] = "idle" /\ Expired
  /\ ReadClock(r)
  /\ Goto(r, "markStale")
  /\ seen' = [seen EXCEPT ![r] = lockTask]
  /\ seenBy' = [seenBy EXCEPT ![r] = lockBy]
  /\ UNCHANGED <<rows, lockTask, lockBy, left, todo, jobs, dead>>

MarkStale(r) ==
  /\ r \notin dead /\ at[r] = "markStale"
  /\ \/ ExpireLease(seen[r]) /\ Goto(r, "delete")
     \/ Failing /\ Goto(r, "idle") /\ UNCHANGED rows
  /\ UNCHANGED <<lock, todo, seen, seenBy, jobs, dead>>

\* Mutant: whatever lock the type has by now is deleted.
StillStaleAny(r) == lockTask # None

\* The lock is the one that was read and is still expired.
StillStale(r) == lockTask = seen[r] /\ lockBy = seenBy[r] /\ Stale(r)

DeleteStale(r) ==
  /\ r \notin dead /\ at[r] = "delete"
  /\ \/ StillStale(r) /\ NoLock
     \/ (~StillStale(r) \/ Failing) /\ UNCHANGED lock
  /\ Goto(r, "idle")
  /\ UNCHANGED <<rows, todo, seen, seenBy, jobs, dead>>

-----------------------------------------------------------------------------
(* The handler and its heartbeat.                                          *)

\* The lock row is of task t, held by r and not expired.
Holds(r, t) == lockTask = t /\ lockBy = r /\ left > 0

\* ... or was not, when r read its clock for the statement.
SawLive(r, t) == lockTask = t /\ lockBy = r /\ (left > 0 \/ SlowRenewals)

\* RenewSystemTaskLock, and cancel() when it fails. A late renewal revives the lock.
Heartbeat(r, t) ==
  /\ <<r, t>> \in handlers \ cancelled
  /\ \/ /\ SawLive(r, t)
        /\ Lease(IF left > 0 THEN TTL ELSE TTL - 1) /\ left' >= left /\ past' \subseteq past
        /\ UNCHANGED cancelled
     \/ /\ ~Holds(r, t) \/ Failing
        /\ cancelled' = cancelled \cup {<<r, t>>}
        /\ UNCHANGED <<left, past>>
  /\ UNCHANGED <<rows, lockTask, lockBy, pass, handlers, releasing, started, dead>>

\* Mutant: the handler may finish its row without holding the lease.
MayFinishUnleased(r, t) == owner[t] = r

\* WHERE status = running AND locked_by = r AND EXISTS a live lock.
MayFinish(r, t) == status[t] = "running" /\ owner[t] = r /\ SawLive(r, t)

\* FinishSystemTask; without the lease the handler only logs that it is lost.
Finish(r, t, s) ==
  /\ <<r, t>> \in handlers \ releasing
  /\ \/ /\ MayFinish(r, t)
        /\ status' = [status EXCEPT ![t] = s]
        /\ releasing' = releasing \cup {<<r, t>>}
        /\ UNCHANGED <<handlers, cancelled>>
     \/ /\ ~MayFinish(r, t) \/ ~Holds(r, t) \/ Failing
        /\ handlers' = handlers \ {<<r, t>>}
        /\ cancelled' = cancelled \ {<<r, t>>}
        /\ UNCHANGED <<status, releasing>>
  /\ UNCHANGED <<owner, lock, pass, started, dead>>

\* ReleaseSystemTaskLock at the end of FinishSystemTask.
ReleaseLock(r, t) ==
  /\ <<r, t>> \in releasing
  /\ Release(r, t)
  /\ handlers' = handlers \ {<<r, t>>}
  /\ cancelled' = cancelled \ {<<r, t>>}
  /\ releasing' = releasing \ {<<r, t>>}
  /\ UNCHANGED <<rows, pass, started, dead>>

\* The process dies with all its goroutines.
Crash(r) ==
  /\ Crashing /\ r \notin dead /\ Cardinality(dead) + 1 < Cardinality(Runners)
  /\ dead' = dead \cup {r}
  /\ handlers' = {h \in handlers : h[1] # r}
  /\ cancelled' = {h \in cancelled : h[1] # r}
  /\ releasing' = {h \in releasing : h[1] # r}
  /\ Goto(r, "idle")
  /\ UNCHANGED <<rows, lock, todo, seen, seenBy, started>>

-----------------------------------------------------------------------------
\* One step of the main goroutine of r after it has begun something.
Pass(r) ==
  \/ Acquire(r) \/ Takeover(r) \/ MarkTaken(r) \/ Start(r)
  \/ MarkStale(r) \/ DeleteStale(r)

\* The handler of r for t comes to its end.
Handle(r, t) ==
  \/ \E s \in Ended : Finish(r, t, s)
  \/ ReleaseLock(r, t)

Next ==
  \/ \E t \in Tasks : Create(t)
  \/ Tick
  \/ \E r \in Runners : Pass(r) \/ ReadStale(r) \/ Crash(r)
  \/ \E r \in Runners, t \in Tasks : FindPending(r, t) \/ Heartbeat(r, t) \/ Handle(r, t)

Spec == Init /\ [][Next]_vars

-----------------------------------------------------------------------------
(* Properties.                                                             *)

\* Every variable has its type; a lease is never longer than TTL, and a runner's
\* clock is past a lock only if its lease has run out.
TypeOK ==
  /\ status \in [Tasks -> {"none", "pending", "running"} \cup Ended]
  /\ owner \in [Tasks -> Runners \cup {None}]
  /\ lockTask \in Tasks \cup {None} /\ lockBy \in Runners \cup {None}
  /\ left \in 0..TTL /\ past \subseteq Runners /\ (past # {} => left = 0)
  /\ at \in [Runners -> {"idle", "acquire", "takeover", "markStale", "delete"} \cup Claiming]
  /\ todo \in [Runners -> Tasks \cup {None}]
  /\ seen \in [Runners -> Tasks \cup {None}] /\ seenBy \in [Runners -> Runners \cup {None}]
  /\ handlers \subseteq started /\ cancelled \subseteq handlers /\ releasing \subseteq handlers
  /\ started \subseteq Runners \X Tasks
  /\ dead \subseteq Runners

\* "Only one runner executes the task": whatever claims overlap, crash or are
\* taken over, a row is handed to a handler once (ClaimSystemTask).
RunsOnce == \A a, b \in started : a[2] = b[2] => a = b

\* A row that has ended keeps its outcome: neither a late Finish nor an expiry
\* decided on an old read of the lock changes it.
OutcomeStays ==
  [][\A t \in Tasks : status[t] \in Ended => status'[t] = status[t]]_vars

\* A running row is covered by the lock row of its type. Were it not, nothing
\* would ever expire it, and its active_key would block the type for good
\* (ExpireStaleSystemTaskLocks looks at lock rows only).
RunningHasLease == \A t \in Tasks : status[t] = "running" => lockTask = t

\* While the lease of a row is renewed in time only its own handler ends it
\* (FinishSystemTask); an expiry does not.
LiveLeaseKeepsRunning ==
  [][\A t \in Tasks :
       status[t] = "running" /\ Holds(owner[t], t) /\ status'[t] # "running"
         => <<owner[t], t>> \in releasing']_vars

\* The jobs without their locks, leases, passes and heartbeats.
Runs == INSTANCE JobRuns WITH Jobs <- Tasks

\* Every step of the runners is one of JobRuns: one job of the type is active, one
\* runner makes it its own and works for it, and no late Finish, expiry or takeover
\* revives it or changes its outcome (ClaimSystemTask, FinishSystemTask).
KeepsRuns == Runs!Spec

-----------------------------------------------------------------------------
(* Liveness: passes recur on every live runner (15 s, 30 s for stale        *)
(* locks), handlers return, and time passes.                                *)

FairSpec ==
  /\ Spec
  /\ WF_vars(Tick)
  /\ \A r \in Runners : WF_vars(Pass(r)) /\ SF_vars(ReadStale(r))
  /\ \A r \in Runners : SF_vars(\E t \in Tasks : FindPending(r, t))
  /\ \A r \in Runners, t \in Tasks : WF_vars(Handle(r, t))

\* A job that was created comes to an end though runners die, and the type is
\* free for the next one (runSystemTaskScheduler).
JobsEnd == \A t \in Tasks : status[t] = "pending" ~> status[t] \in Ended
=============================================================================
